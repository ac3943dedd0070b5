-------------------------- MODULE CertFetchProofs --------------------------
(***************************************************************************)
(* Proofs about the GET_CERTIFICATE requester model, for every value of    *)
(* the constants that satisfies CertConstantsAssumption: the state stays   *)
(* well typed, and a call that returns Ok from an honest responder has     *)
(* assembled the responder's whole chain.                                  *)
(***************************************************************************)
EXTENDS CertFetch, TLAPS

(***************************************************************************)
(* The loop invariant of send_receive_spdm_certificate with an honest      *)
(* responder: the offset never passes the end of the responder's chain,    *)
(* data holds the chain's bytes below offset, and once the responder has   *)
(* reported no remainder (length = 0) offset and data_size are the chain's *)
(* length.  While the loop runs, result is still None.                     *)
(***************************************************************************)
LoopInv ==
    (~ResponderFaulty /\ st = "loop") =>
        /\ offset <= Len(rsp_chain)
        /\ \A i \in 0 .. offset - 1 : data[i] = rsp_chain[i + 1]
        /\ length = 0 => offset = Len(rsp_chain) /\ data_size = offset
        /\ result = "None"

(***************************************************************************)
(* With an honest responder every byte ever copied into data is the        *)
(* responder's byte at that position, so data[0 .. data_size) is always a  *)
(* prefix of its chain, even after a call that failed half-way.            *)
(***************************************************************************)
DataInv ==
    ~ResponderFaulty =>
        /\ data_size <= Len(rsp_chain)
        /\ \A i \in 0 .. data_size - 1 : data[i] = rsp_chain[i + 1]

\* The inductive invariant: ChainAssembled alone is not inductive, because
\* it says nothing about the portions a running call has already copied.
IInv == TypeOK /\ LoopInv /\ DataInv /\ ChainAssembled
USE CertConstantsAssumption

\* The records appended to message_b for a request or a response at the
\* current slot and offset are messages of message_b.
LEMMA BItemOfState ==
  ASSUME TypeOK, NEW k \in {"req", "rsp"}
  PROVE  [kind |-> k, slot |-> slot, offset |-> offset] \in BItem
BY DEF TypeOK, BItem

\* AppendB on a message_b with room for the item keeps it a bounded
\* sequence of messages.
LEMMA AppendBTyped ==
  ASSUME NEW t \in Seq(BItem), NEW x \in BItem, FitsB(t, 1)
  PROVE  /\ AppendB(t, x) \in Seq(BItem)
         /\ Len(AppendB(t, x)) = Len(t) + 1
         /\ Len(AppendB(t, x)) <= MsgBCap
BY DEF AppendB, FitsB

\* The responder's chain is a sequence of bytes no longer than MaxChain.
LEMMA RspChainTyped ==
  ASSUME TypeOK
  PROVE  /\ rsp_chain \in Seq(Bytes)
         /\ Len(rsp_chain) \in 0 .. MaxChain
BY DEF TypeOK

\* What an answer carries: two naturals, and from an honest responder the
\* next portion of its chain and the length after it.
LEMMA AnswerFacts ==
  ASSUME TypeOK, LoopInv, st = "loop",
         NEW ans \in Answers(offset, length)
  PROVE  /\ ans[1] \in Nat /\ ans[2] \in Nat
         /\ ~ResponderFaulty =>
               /\ ans[1] = Min2(length, Len(rsp_chain) - offset)
               /\ ans[2] = Len(rsp_chain) - offset - ans[1]
<1>1. CASE ResponderFaulty
  BY <1>1 DEF Answers
<1>2. CASE ~ResponderFaulty
  <2>1. offset <= Len(rsp_chain) /\ offset \in Nat /\ length \in Nat
    BY <1>2 DEF LoopInv, TypeOK
  <2>2. Len(rsp_chain) \in Nat
    BY RspChainTyped
  <2>3. ans = <<Min2(length, Len(rsp_chain) - offset),
                Len(rsp_chain) - offset - Min2(length, Len(rsp_chain) - offset)>>
    BY <1>2 DEF Answers
  <2>4. QED
    BY <2>1, <2>2, <2>3, <1>2 DEF Min2
<1>3. QED
  BY <1>1, <1>2

\* The initial states satisfy the inductive invariant.
LEMMA IInvInit == Init => IInv
<1> SUFFICES ASSUME Init PROVE IInv
  OBVIOUS
<1>1. TypeOK
  <2>1. <<>> \in Seq(BItem) /\ Len(<<>>) = 0
    OBVIOUS
  <2>2. [i \in Positions |-> 0] \in [Positions -> Bytes]
    OBVIOUS
  <2>3. QED
    BY <2>1, <2>2 DEF Init, TypeOK, SlotArg, Status, PartialError
<1>2. LoopInv /\ DataInv /\ ChainAssembled
  BY <1>1, RspChainTyped DEF Init, LoopInv, DataInv, ChainAssembled
<1>3. QED
  BY <1>1, <1>2 DEF IInv

\* A partial exchange that fails ends the call with EIO, whatever it did to
\* data and message_b before failing, and keeps the invariant.
LEMMA EndCallKeeps ==
  ASSUME IInv, NEW e \in PartialError, EndCall(e),
         message_b' \in Seq(BItem), Len(message_b') <= MsgBCap,
         data' \in [Positions -> Bytes], data_size' \in 0 .. MaxChain,
         DataInv', UNCHANGED <<rsp_chain, pinned>>
  PROVE  IInv'
BY DEF IInv, TypeOK, LoopInv, ChainAssembled, EndCall, PartialError, Status

\* The data buffer after a portion of length p is copied at offset
\* (lines 67-71).
CopiedData(p) ==
    [i \in Positions |->
        IF offset <= i /\ i < offset + p
          THEN PortionBytes(offset, p)[i - offset + 1]
          ELSE data[i]]

\* A portion that passes the size check of lines 61-66 is copied within
\* the buffer, and data_size stays within it.
LEMMA CopyTyped ==
  ASSUME TypeOK, NEW p \in Nat, PortionFits(offset, p)
  PROVE  /\ CopiedData(p) \in [Positions -> Bytes]
         /\ NewDataSize(offset, p) \in 0 .. MaxChain
<1>1. rsp_chain \in Seq(Bytes)
  BY RspChainTyped
<1>2. \A i \in Positions : offset <= i /\ i < offset + p =>
         PortionBytes(offset, p)[i - offset + 1] \in Bytes
  BY <1>1 DEF PortionBytes, TypeOK, Positions
<1>3. \A i \in Positions : CopiedData(p)[i] \in Bytes
  BY <1>2 DEF CopiedData, TypeOK
<1>4. CopiedData(p) \in [Positions -> Bytes]
  BY <1>3 DEF CopiedData
<1>5. NewDataSize(offset, p) \in 0 .. MaxChain
  BY DEF TypeOK, PortionFits, NewDataSize
<1>6. QED
  BY <1>4, <1>5

\* From an honest responder the copied portion continues the chain: data
\* holds the responder's bytes up to offset + p.
LEMMA CopyExtends ==
  ASSUME TypeOK, NEW p \in Nat,
         offset + p <= Len(rsp_chain), PortionFits(offset, p),
         \A i \in 0 .. offset - 1 : data[i] = rsp_chain[i + 1]
  PROVE  \A i \in 0 .. offset + p - 1 : CopiedData(p)[i] = rsp_chain[i + 1]
<1> SUFFICES ASSUME NEW i \in 0 .. offset + p - 1
             PROVE  CopiedData(p)[i] = rsp_chain[i + 1]
  OBVIOUS
<1>1. i \in Positions
  BY DEF PortionFits, Positions, TypeOK
<1>2. CASE i < offset
  BY <1>1, <1>2 DEF CopiedData, TypeOK
<1>3. CASE offset <= i
  BY <1>1, <1>3 DEF CopiedData, PortionBytes, TypeOK
<1>4. QED
  BY <1>2, <1>3 DEF TypeOK

\* A portion copied from an honest responder keeps data[0 .. data_size) a
\* prefix of its chain.
LEMMA CopyKeepsData ==
  ASSUME TypeOK, LoopInv, st = "loop",
         NEW ans \in Answers(offset, length),
         PortionFits(offset, ans[1]),
         data' = CopiedData(ans[1]),
         data_size' = NewDataSize(offset, ans[1]),
         rsp_chain' = rsp_chain
  PROVE  DataInv'
<1> SUFFICES ASSUME ~ResponderFaulty
             PROVE  /\ data_size' <= Len(rsp_chain')
                    /\ \A i \in 0 .. data_size' - 1 : data'[i] = rsp_chain'[i + 1]
  BY DEF DataInv
<1>1. ans[1] \in Nat /\ ans[1] = Min2(length, Len(rsp_chain) - offset)
  BY AnswerFacts
<1>2. offset <= Len(rsp_chain) /\ offset \in Nat /\ length \in Nat
      /\ \A i \in 0 .. offset - 1 : data[i] = rsp_chain[i + 1]
  BY DEF LoopInv, TypeOK
<1>3. Len(rsp_chain) \in Nat
  BY RspChainTyped
<1>4. offset + ans[1] <= Len(rsp_chain)
  BY <1>1, <1>2, <1>3 DEF Min2
<1>5. \A i \in 0 .. offset + ans[1] - 1 : CopiedData(ans[1])[i] = rsp_chain[i + 1]
  BY <1>1, <1>2, <1>4, CopyExtends
<1>6. data_size' = offset + ans[1]
  BY DEF NewDataSize
<1>7. data_size' <= Len(rsp_chain')
  BY <1>4, <1>6
<1>8. \A i \in 0 .. data_size' - 1 : data'[i] = rsp_chain'[i + 1]
  <2> SUFFICES ASSUME NEW i \in 0 .. data_size' - 1
               PROVE  data'[i] = rsp_chain'[i + 1]
    OBVIOUS
  <2>1. i \in 0 .. offset + ans[1] - 1
    BY <1>1, <1>2, <1>6
  <2>2. CopiedData(ans[1])[i] = rsp_chain[i + 1]
    BY <1>5, <2>1
  <2>3. QED
    BY <2>2
<1>9. QED
  BY <1>7, <1>8

\* A portion copied and both messages appended: the loop goes on at
\* offset + p with the remainder as the next length.
LEMMA PortionKeeps ==
  ASSUME IInv, st = "loop", length # 0,
         NEW ans \in Answers(offset, length),
         PortionFits(offset, ans[1]),
         data' = CopiedData(ans[1]),
         data_size' = NewDataSize(offset, ans[1]),
         FitsB(message_b, 2),
         message_b' = AppendB(AppendB(message_b,
                         [kind |-> "req", slot |-> slot, offset |-> offset]),
                         [kind |-> "rsp", slot |-> slot, offset |-> offset]),
         offset' = offset + ans[1],
         length' = Min2(ans[2], MaxPortion),
         UNCHANGED <<st, slot, result, partial_result, rsp_chain, pinned>>
  PROVE  IInv'
<1> DEFINE p == ans[1]
           r == ans[2]
<1>1. TypeOK /\ LoopInv /\ ChainAssembled
  BY DEF IInv
<1>2. p \in Nat /\ r \in Nat
      /\ (~ResponderFaulty => /\ p = Min2(length, Len(rsp_chain) - offset)
                              /\ r = Len(rsp_chain) - offset - p)
  BY <1>1, AnswerFacts
<1>3. TypeOK'
  <2>1. data' \in [Positions -> Bytes] /\ data_size' \in 0 .. MaxChain
    BY <1>1, <1>2, CopyTyped
  <2>2. message_b' \in Seq(BItem) /\ Len(message_b') <= MsgBCap
    <3>1. [kind |-> "req", slot |-> slot, offset |-> offset] \in BItem
          /\ [kind |-> "rsp", slot |-> slot, offset |-> offset] \in BItem
      BY <1>1, BItemOfState
    <3>2. FitsB(message_b, 1) /\ message_b \in Seq(BItem)
      BY <1>1 DEF FitsB, TypeOK
    <3>3. /\ AppendB(message_b, [kind |-> "req", slot |-> slot, offset |-> offset]) \in Seq(BItem)
          /\ Len(AppendB(message_b, [kind |-> "req", slot |-> slot, offset |-> offset]))
               = Len(message_b) + 1
      BY <3>1, <3>2, AppendBTyped
    <3>4. FitsB(AppendB(message_b, [kind |-> "req", slot |-> slot, offset |-> offset]), 1)
      BY <3>3 DEF FitsB
    <3>5. QED
      BY <3>1, <3>3, <3>4, AppendBTyped
  <2>3. offset' \in 0 .. MaxChain /\ length' \in 0 .. MaxPortion
    <3>1. offset \in 0 .. MaxChain
      BY <1>1 DEF TypeOK
    <3>2. offset' \in 0 .. MaxChain
      BY <3>1, <1>2 DEF PortionFits
    <3>3. length' \in 0 .. MaxPortion
      BY <1>2 DEF Min2
    <3>4. QED
      BY <3>2, <3>3
  <2>4. QED
    BY <1>1, <2>1, <2>2, <2>3 DEF TypeOK
<1>4. LoopInv'
  <2> SUFFICES ASSUME ~ResponderFaulty
               PROVE  /\ offset' <= Len(rsp_chain')
                      /\ \A i \in 0 .. offset' - 1 : data'[i] = rsp_chain'[i + 1]
                      /\ length' = 0 => offset' = Len(rsp_chain') /\ data_size' = offset'
                      /\ result' = "None"
    BY DEF LoopInv
  <2>1. offset <= Len(rsp_chain) /\ result = "None"
        /\ \A i \in 0 .. offset - 1 : data[i] = rsp_chain[i + 1]
    BY <1>1 DEF LoopInv
  <2>2. Len(rsp_chain) \in Nat /\ offset \in Nat /\ length \in Nat
    BY <1>1, RspChainTyped DEF TypeOK
  <2>3. offset + p <= Len(rsp_chain)
    BY <1>2, <2>1, <2>2 DEF Min2
  <2>4. \A i \in 0 .. offset + p - 1 : CopiedData(p)[i] = rsp_chain[i + 1]
    BY <1>1, <1>2, <2>1, <2>3, CopyExtends
  <2>5. length' = 0 => r = 0
    BY <1>2 DEF Min2
  <2>6. offset' = offset + p /\ data' = CopiedData(p) /\ rsp_chain' = rsp_chain
        /\ data_size' = offset + p
    BY DEF NewDataSize
  <2>7. offset' <= Len(rsp_chain')
    BY <2>3, <2>6
  <2>8. \A i \in 0 .. offset' - 1 : data'[i] = rsp_chain'[i + 1]
    <3> SUFFICES ASSUME NEW k \in 0 .. offset' - 1
                 PROVE  data'[k] = rsp_chain'[k + 1]
      OBVIOUS
    <3>0. k \in 0 .. offset + p - 1
      BY <1>2, <2>2
    <3>1. CopiedData(p)[k] = rsp_chain[k + 1]
      BY <3>0, <2>4
    <3>2. data'[k] = CopiedData(p)[k] /\ rsp_chain'[k + 1] = rsp_chain[k + 1]
      BY <2>6
    <3>3. QED
      BY <3>1, <3>2
  <2>9. length' = 0 => offset' = Len(rsp_chain') /\ data_size' = offset'
    BY <1>2, <2>2, <2>5, <2>6
  <2>10. QED
    BY <2>1, <2>7, <2>8, <2>9
<1>5. ChainAssembled'
  BY DEF ChainAssembled
<1>6. DataInv'
  BY <1>1, CopyKeepsData
<1>7. QED
  BY <1>3, <1>4, <1>5, <1>6 DEF IInv

\* One iteration of the fetch loop keeps the invariant: whichever way the
\* partial exchange fails, or the portion is copied and the loop goes on.
LEMMA FetchPortionKeeps ==
  ASSUME IInv, FetchPortion
  PROVE  IInv'
<1> DEFINE req == [kind |-> "req", slot |-> slot, offset |-> offset]
           rsp == [kind |-> "rsp", slot |-> slot, offset |-> offset]
<1>1. TypeOK /\ st = "loop" /\ length # 0 /\ UNCHANGED <<rsp_chain, pinned>>
  BY DEF IInv, FetchPortion
<1>2. req \in BItem /\ message_b \in Seq(BItem) /\ data \in [Positions -> Bytes]
      /\ data_size \in 0 .. MaxChain
  BY <1>1, BItemOfState DEF TypeOK
<1>0. UNCHANGED <<data, data_size>> => DataInv'
  BY <1>1 DEF IInv, DataInv
<1>3. FitsB(message_b, 1) =>
        /\ AppendB(message_b, req) \in Seq(BItem)
        /\ Len(AppendB(message_b, req)) <= MsgBCap
  BY <1>2, AppendBTyped
<1>4. CASE /\ EndCall("Io")
           /\ UNCHANGED <<data, data_size, message_b>>
  BY <1>0, <1>1, <1>2, <1>4, EndCallKeeps DEF PartialError, TypeOK
<1>5. CASE /\ ~FitsB(message_b, 1)
           /\ EndCall("ENOMEM")
           /\ UNCHANGED <<data, data_size, message_b>>
  BY <1>0, <1>1, <1>2, <1>5, EndCallKeeps DEF PartialError, TypeOK
<1>6. CASE /\ FitsB(message_b, 1)
           /\ message_b' = AppendB(message_b, req)
           /\ \E e \in {"Io", "EIO", "EINVAL", "EFAULT"} : EndCall(e)
           /\ UNCHANGED <<data, data_size>>
  BY <1>0, <1>1, <1>2, <1>3, <1>6, EndCallKeeps DEF PartialError
<1>7. CASE /\ FitsB(message_b, 1)
           /\ \E ans \in Answers(offset, length) :
                \/ /\ ~PortionFits(offset, ans[1])
                   /\ message_b' = AppendB(message_b, req)
                   /\ EndCall("ENOMEM")
                   /\ UNCHANGED <<data, data_size>>
                \/ /\ PortionFits(offset, ans[1])
                   /\ data' = CopiedData(ans[1])
                   /\ data_size' = NewDataSize(offset, ans[1])
                   /\ \/ /\ ~FitsB(message_b, 2)
                         /\ message_b' = AppendB(message_b, req)
                         /\ EndCall("ENOMEM")
                      \/ /\ FitsB(message_b, 2)
                         /\ message_b' = AppendB(AppendB(message_b, req), rsp)
                         /\ offset' = offset + ans[1]
                         /\ length' = Min2(ans[2], MaxPortion)
                         /\ UNCHANGED <<st, slot, result, partial_result>>
  <2>1. PICK ans \in Answers(offset, length) :
                \/ /\ ~PortionFits(offset, ans[1])
                   /\ message_b' = AppendB(message_b, req)
                   /\ EndCall("ENOMEM")
                   /\ UNCHANGED <<data, data_size>>
                \/ /\ PortionFits(offset, ans[1])
                   /\ data' = CopiedData(ans[1])
                   /\ data_size' = NewDataSize(offset, ans[1])
                   /\ \/ /\ ~FitsB(message_b, 2)
                         /\ message_b' = AppendB(message_b, req)
                         /\ EndCall("ENOMEM")
                      \/ /\ FitsB(message_b, 2)
                         /\ message_b' = AppendB(AppendB(message_b, req), rsp)
                         /\ offset' = offset + ans[1]
                         /\ length' = Min2(ans[2], MaxPortion)
                         /\ UNCHANGED <<st, slot, result, partial_result>>
    BY <1>7
  <2>2. ans[1] \in Nat
    BY <1>1, AnswerFacts DEF IInv
  <2>3. CASE ~PortionFits(offset, ans[1])
    BY <1>0, <1>1, <1>2, <1>3, <1>7, <2>1, <2>3, EndCallKeeps DEF PartialError
  <2>4. CASE PortionFits(offset, ans[1]) /\ ~FitsB(message_b, 2)
    <3>1. data' \in [Positions -> Bytes] /\ data_size' \in 0 .. MaxChain
      BY <1>1, <2>1, <2>2, <2>4, CopyTyped
    <3>2. DataInv'
      BY <1>1, <2>1, <2>4, CopyKeepsData DEF IInv
    <3>3. QED
      BY <1>1, <1>3, <1>7, <2>1, <2>4, <3>1, <3>2, EndCallKeeps DEF PartialError
  <2>5. CASE PortionFits(offset, ans[1]) /\ FitsB(message_b, 2)
    BY <1>1, <2>1, <2>5, PortionKeeps DEF IInv
  <2>6. QED
    BY <2>3, <2>4, <2>5
<1>8. QED
  BY <1>4, <1>5, <1>6, <1>7 DEF FetchPortion, CopiedData

\* Bytes 0 .. n - 1 of data that match a chain of length n are that chain.
LEMMA PrefixIsChain ==
  ASSUME NEW c \in Seq(Bytes), NEW n \in Nat, n = Len(c),
         \A i \in 0 .. n - 1 : data[i] = c[i + 1]
  PROVE  Prefix(data, n) = c
BY DEF Prefix

\* A call starts with offset 0 and length MAX_SPDM_CERT_PORTION_LEN.
LEMMA StartCallKeeps ==
  ASSUME IInv, NEW s \in SlotArg, StartCall(s)
  PROVE  IInv'
<1>1. TypeOK'
  BY DEF IInv, TypeOK, StartCall, Status, PartialError
<1>2. LoopInv'
  BY RspChainTyped DEF IInv, LoopInv, StartCall
<1>3. ChainAssembled' /\ DataInv'
  BY DEF ChainAssembled, StartCall, IInv, DataInv
<1>4. QED
  BY <1>1, <1>2, <1>3 DEF IInv

\* The check after the loop sets the call's result; when it is Ok from an
\* honest responder, data already holds the whole chain.
LEMMA VerifyChainKeeps ==
  ASSUME IInv, VerifyChain
  PROVE  IInv'
<1>1. TypeOK /\ LoopInv /\ st = "loop" /\ length = 0
      /\ UNCHANGED <<data, data_size, rsp_chain>>
  BY DEF IInv, VerifyChain
<1>2. TypeOK'
  BY <1>1 DEF TypeOK, VerifyChain, Status
<1>3. LoopInv'
  BY DEF LoopInv, VerifyChain
<1>4. ChainAssembled'
  <2> SUFFICES ASSUME ~ResponderFaulty
               PROVE  Prefix(data, data_size) = rsp_chain
    BY <1>1 DEF ChainAssembled
  <2>1. offset = Len(rsp_chain) /\ data_size = offset
        /\ \A i \in 0 .. offset - 1 : data[i] = rsp_chain[i + 1]
    BY <1>1 DEF LoopInv
  <2>2. rsp_chain \in Seq(Bytes)
    BY <1>1, RspChainTyped
  <2>3. Len(rsp_chain) \in Nat /\ data_size = Len(rsp_chain)
    BY <2>1, <2>2
  <2>4. QED
    BY <2>1, <2>2, <2>3, PrefixIsChain
<1>5. DataInv'
  BY DEF IInv, DataInv, VerifyChain
<1>6. QED
  BY <1>2, <1>3, <1>4, <1>5 DEF IInv

\* Every step keeps the inductive invariant.
LEMMA IInvStep == IInv /\ [Next]_vars => IInv'
<1> SUFFICES ASSUME IInv, [Next]_vars PROVE IInv'
  OBVIOUS
<1>1. CASE \E s \in SlotArg : StartCall(s)
  BY <1>1, StartCallKeeps
<1>2. CASE FetchPortion
  BY <1>2, FetchPortionKeeps
<1>3. CASE VerifyChain
  BY <1>3, VerifyChainKeeps
<1>4. CASE UNCHANGED vars
  BY <1>4 DEF IInv, TypeOK, LoopInv, DataInv, ChainAssembled, vars
<1>5. QED
  BY <1>1, <1>2, <1>3, <1>4 DEF Next

\* The state of send_receive_spdm_certificate stays well typed for every
\* value of the constants: offset, data_size and message_b never leave
\* their buffers, whatever lengths a faulty responder reports.
THEOREM TypeCorrect == Spec => []TypeOK
<1>1. IInv => TypeOK
  BY DEF IInv
<1>2. QED
  BY <1>1, IInvInit, IInvStep, PTL DEF Spec

\* Certificate assembly (spec 8, invariant 6) for every chain length and
\* portion size: a call that returns Ok from an honest responder has
\* data[0 .. data_size) equal to the responder's whole chain.
THEOREM ChainAssembledHolds == Spec => []ChainAssembled
<1>1. IInv => ChainAssembled
  BY DEF IInv
<1>2. QED
  BY <1>1, IInvInit, IInvStep, PTL DEF Spec
-----------------------------------------------------------------------------
(***************************************************************************)
(* Refinement: CertFetch implements CertChainSpec under the mapping of     *)
(* CertFetch!Abstract.  A call's start is Begin, a partial exchange that   *)
(* fails is Fail, the check after the loop is Finish, and every portion    *)
(* that lets the loop go on is a stuttering step.                          *)
(***************************************************************************)

\* The first n bytes of a buffer are a chain of length n.
LEMMA PrefixTyped ==
  ASSUME NEW d \in [Positions -> Bytes], NEW n \in 0 .. MaxChain
  PROVE  /\ Prefix(d, n) \in Seq(Bytes)
         /\ Len(Prefix(d, n)) = n
BY DEF Prefix, Positions

\* Stripping the header off the buffer's chain is the Slice the code
\* compares with the provisioned chain (lines 126-134).
LEMMA StripIsSlice ==
  ASSUME TypeOK, NEW n \in 0 .. MaxChain, n > HeaderLen
  PROVE  SubSeq(Prefix(data, n), HeaderLen + 1, n) = Slice(data, HeaderLen, n)
BY DEF Prefix, Slice, TypeOK, HeaderLen, Positions

\* A partial exchange either lets the loop go on with result unchanged or
\* ends the call with EIO.
LEMMA FetchPortionOutcome ==
  ASSUME FetchPortion
  PROVE  /\ \/ st' = "loop" /\ result' = result
            \/ st' = "idle" /\ result' = "EIO"
         /\ st = "loop"
         /\ UNCHANGED <<rsp_chain, pinned>>
BY DEF FetchPortion, EndCall

\* The check after the loop returns Ok with a provisioned chain only when
\* the fetched chain is longer than its header and, stripped of it, equal
\* to the provisioned chain.
LEMMA VerifyOk ==
  ASSUME VerifyChain, result' = "Ok", pinned # NoChain
  PROVE  /\ ~(data_size <= HeaderLen)
         /\ Slice(data, HeaderLen, data_size) = pinned
BY DEF VerifyChain

\* Every step of CertFetch is a step of CertChainSpec or leaves its
\* variables unchanged.
LEMMA RefinementStep ==
  ASSUME IInv, IInv', [Next]_vars
  PROVE  [Abstract!Next]_Abstract!avars
<1>1. TypeOK /\ TypeOK' /\ LoopInv /\ DataInv'
  BY DEF IInv
<1>2. CASE \E s \in SlotArg : StartCall(s)
  <2>1. Abstract!Begin
    BY <1>2 DEF StartCall, Abstract!Begin
  <2>2. QED
    BY <2>1 DEF Abstract!Next
<1>3. CASE FetchPortion
  <2>1. st = "loop" /\ UNCHANGED <<rsp_chain, pinned>>
    BY <1>3, FetchPortionOutcome
  <2>2. CASE st' = "loop" /\ result' = result
    BY <2>1, <2>2 DEF Abstract!avars
  <2>3. CASE st' = "idle" /\ result' = "EIO"
    <3>0. data' \in [Positions -> Bytes] /\ data_size' \in 0 .. MaxChain
          /\ rsp_chain' \in Seq(Bytes)
      BY <1>1, <2>1, RspChainTyped DEF TypeOK
    <3>1. Prefix(data', data_size') \in Seq(Bytes)
      BY <3>0, PrefixTyped
    <3>2. ~ResponderFaulty =>
            Abstract!IsPrefixOf(Prefix(data', data_size'), rsp_chain')
      <4> SUFFICES ASSUME ~ResponderFaulty
                   PROVE  Abstract!IsPrefixOf(Prefix(data', data_size'), rsp_chain')
        OBVIOUS
      <4>1. data_size' <= Len(rsp_chain')
            /\ \A i \in 0 .. data_size' - 1 : data'[i] = rsp_chain'[i + 1]
        BY <1>1 DEF DataInv
      <4>2. QED
        BY <3>0, <4>1 DEF Abstract!IsPrefixOf, Prefix, Positions
    <3>3. Abstract!Fail
      BY <2>1, <2>3, <3>1, <3>2 DEF Abstract!Fail, Abstract!IsChain
    <3>4. QED
      BY <3>3 DEF Abstract!Next
  <2>4. QED
    BY <1>3, <2>2, <2>3, FetchPortionOutcome
<1>4. CASE VerifyChain
  <2>1. st = "loop" /\ length = 0 /\ st' = "idle"
        /\ UNCHANGED <<data, data_size, rsp_chain, pinned>>
    BY <1>4 DEF VerifyChain
  <2>2. result' \in {"Ok", "EIO", "EINVAL", "EFAULT"}
    BY <1>4 DEF VerifyChain
  <2>3. Prefix(data, data_size) \in Seq(Bytes)
        /\ Len(Prefix(data, data_size)) = data_size
    <3>1. data \in [Positions -> Bytes] /\ data_size \in 0 .. MaxChain
      BY <1>1 DEF TypeOK
    <3>2. QED
      BY <3>1, PrefixTyped
  <2>4. ~ResponderFaulty => Prefix(data, data_size) = rsp_chain
    <3> SUFFICES ASSUME ~ResponderFaulty
                 PROVE  Prefix(data, data_size) = rsp_chain
      OBVIOUS
    <3>1. offset = Len(rsp_chain) /\ data_size = offset
          /\ \A i \in 0 .. offset - 1 : data[i] = rsp_chain[i + 1]
      BY <1>1, <2>1 DEF LoopInv
    <3>2. rsp_chain \in Seq(Bytes) /\ Len(rsp_chain) \in Nat
      BY <1>1, RspChainTyped
    <3>3. QED
      BY <3>1, <3>2, PrefixIsChain
  <2>5. result' = "Ok" => Abstract!Accepted(Prefix(data, data_size), pinned)
    <3> SUFFICES ASSUME result' = "Ok", pinned # NoChain
                 PROVE  Abstract!Accepted(Prefix(data, data_size), pinned)
      BY DEF Abstract!Accepted
    <3>1. ~(data_size <= HeaderLen) /\ Slice(data, HeaderLen, data_size) = pinned
      BY <1>4, VerifyOk
    <3>2. data_size \in 0 .. MaxChain /\ data_size > HeaderLen
      BY <1>1, <3>1 DEF TypeOK, HeaderLen
    <3>3. SubSeq(Prefix(data, data_size), HeaderLen + 1, data_size) = pinned
      BY <1>1, <3>1, <3>2, StripIsSlice
    <3>4. QED
      BY <2>3, <3>2, <3>3 DEF Abstract!Accepted
  <2>6. Abstract!Finish
    BY <2>1, <2>2, <2>3, <2>4, <2>5
       DEF Abstract!Finish, Abstract!IsChain
  <2>7. QED
    BY <2>6 DEF Abstract!Next
<1>5. CASE UNCHANGED vars
  BY <1>5 DEF vars, Abstract!avars
<1>6. QED
  BY <1>2, <1>3, <1>4, <1>5 DEF Next

\* send_receive_spdm_certificate implements CertChainSpec (its safety part)
\* for every value of the constants: CertChainRefined holds.
THEOREM Refinement == Spec => CertChainRefined
<1>1. Init => Abstract!Init
  <2> SUFFICES ASSUME Init PROVE Abstract!Init
    OBVIOUS
  <2>1. TypeOK
    BY IInvInit DEF IInv
  <2>2. Prefix(data, 0) = << >>
    BY DEF Prefix
  <2>3. rsp_chain \in Seq(Bytes) /\ pinned \in Seq(Bytes) \cup {NoChain}
    BY <2>1, RspChainTyped DEF TypeOK
  <2>4. QED
    BY <2>2, <2>3 DEF Init, Abstract!Init
<1>2. QED
  BY <1>1, IInvInit, IInvStep, RefinementStep, PTL
     DEF Spec, CertChainRefined, Abstract!SafeSpec
=============================================================================
