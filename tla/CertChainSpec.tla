---------------------------- MODULE CertChainSpec ----------------------------
(***************************************************************************)
(* What send_receive_spdm_certificate promises its caller, without the    *)
(* portions: a call is busy for a while and then returns.  It fails with  *)
(* EIO, leaving whatever part of the chain it had fetched, or it finishes *)
(* with the chain fetched and a verdict.  From an honest responder the    *)
(* part left by a failure is a prefix of the responder's chain and a      *)
(* finished chain is the whole of it; whatever the responder does, Ok     *)
(* with a provisioned chain means the fetched chain, stripped of its      *)
(* header, is the provisioned one.                                        *)
(***************************************************************************)
EXTENDS Naturals, Sequences

CONSTANTS
    Bytes,       \* byte values
    HeaderLen,   \* length of the chain header (4 + hash size)
    NoChain,     \* no provisioned chain
    Honest       \* the responder serves its own chain

VARIABLES
    busy,        \* a call is in progress
    result,      \* status of the last call
    chain,       \* the chain the last call left in the buffer
    peer_chain,  \* the responder's chain
    pinned       \* the provisioned chain, or NoChain

avars == <<busy, result, chain, peer_chain, pinned>>

\* c is a chain of bytes.
IsChain(c) == c \in Seq(Bytes)

\* s is the first Len(s) elements of t.
IsPrefixOf(s, t) == Len(s) <= Len(t) /\ s = SubSeq(t, 1, Len(s))

\* A fetched chain passes the check against the provisioned one.
Accepted(c, p) ==
    p = NoChain \/ (Len(c) > HeaderLen /\ SubSeq(c, HeaderLen + 1, Len(c)) = p)

Init ==
    /\ busy = FALSE
    /\ result = "None"
    /\ chain = << >>
    /\ peer_chain \in Seq(Bytes)
    /\ pinned \in Seq(Bytes) \cup {NoChain}

Begin ==
    /\ busy = FALSE
    /\ busy' = TRUE
    /\ result' = "None"
    /\ chain' = << >>
    /\ UNCHANGED <<peer_chain, pinned>>

Fail ==
    /\ busy = TRUE
    /\ busy' = FALSE
    /\ result' = "EIO"
    /\ IsChain(chain')
    /\ Honest => IsPrefixOf(chain', peer_chain)
    /\ UNCHANGED <<peer_chain, pinned>>

Finish ==
    /\ busy = TRUE
    /\ busy' = FALSE
    /\ result' \in {"Ok", "EIO", "EINVAL", "EFAULT"}
    /\ IsChain(chain')
    /\ Honest => chain' = peer_chain
    /\ result' = "Ok" => Accepted(chain', pinned)
    /\ UNCHANGED <<peer_chain, pinned>>

Next == Begin \/ Fail \/ Finish

SafeSpec == Init /\ [][Next]_avars

\* A call that has begun returns.
Spec == SafeSpec /\ WF_avars(Fail \/ Finish)
=============================================================================
