------------------------------- MODULE U8Bits -------------------------------
(***************************************************************************)
(* Rust's & and | on u8 operands, as measurement.rs uses them to pack and  *)
(* unpack Param2 and to test attribute flags.  An operand is a byte, so   *)
(* the operators add up the eight bit places without recursion, which    *)
(* keeps the codec within reach of the provers.                           *)
(***************************************************************************)
EXTENDS Naturals

\* u8
Byte == 0 .. 255

\* The bit of x at the place of weight w (a power of two).
BitAt(x, w) == (x \div w) % 2

\* x & y for x, y : u8.
BitAnd(x, y) ==
    LET b(w) == IF BitAt(x, w) = 1 /\ BitAt(y, w) = 1 THEN w ELSE 0
    IN  b(1) + b(2) + b(4) + b(8) + b(16) + b(32) + b(64) + b(128)

\* x | y for x, y : u8.
BitOr(x, y) ==
    LET b(w) == IF BitAt(x, w) = 1 \/ BitAt(y, w) = 1 THEN w ELSE 0
    IN  b(1) + b(2) + b(4) + b(8) + b(16) + b(32) + b(64) + b(128)
=============================================================================
