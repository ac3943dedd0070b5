------------------------ MODULE MeasurementReqProofs ------------------------
(***************************************************************************)
(* Proofs about the GET_MEASUREMENTS requester model, for every value of   *)
(* the constants that satisfies ConstantsAssumption.                       *)
(***************************************************************************)
EXTENDS MeasurementReq, SequenceTheorems, TLAPS

USE ConstantsAssumption

\* A pair of transcript items is a transcript: the request and the response
\* that the responder appends to its own message_m in one step.
LEMMA PairIsSeq ==
  ASSUME NEW S, NEW a \in S, NEW b \in S
  PROVE  <<a, b>> \in Seq(S)
<1>1. <<a>> = Append(<<>>, a) /\ <<a, b>> = Append(<<a>>, b)
  OBVIOUS
<1>2. <<a>> \in Seq(S)
  BY <1>1, EmptySeq, AppendProperties
<1>3. QED
  BY <1>1, <1>2, AppendProperties

\* A response damaged in transit still has the shape of a response.
LEMMA DamagedIsResponse ==
  ASSUME NEW m \in Response, NEW d \in Damaged(m)
  PROVE  d \in Response
<1>1. CASE \E b \in {"header", "body", "sig"} : d = [m EXCEPT !.bad = b]
  BY <1>1 DEF Response
<1>2. CASE d = [m EXCEPT !.version = 16]
  BY <1>2 DEF Response
<1>3. CASE d = [m EXCEPT !.code = "Other"]
  BY <1>3 DEF Response
<1>4. CASE \E c \in ContentChanged : d = [m EXCEPT !.cc = c]
  BY <1>4 DEF Response
<1>5. QED
  BY <1>1, <1>2, <1>3, <1>4 DEF Damaged

\* The initial states are well typed.
LEMMA TypeInit == Init => TypeOK
<1> SUFFICES ASSUME Init PROVE TypeOK
  OBVIOUS
<1>1. <<>> \in Seq(Item) /\ <<>> \in Seq(Request) /\ <<>> \in Seq(Response)
      /\ Len(<<>>) = 0
  BY EmptySeq
<1>2. call \in [id : CallId, signed : BOOLEAN, slot : SlotArg]
  BY DEF Init, CallId, SlotArg
<1>3. message_m \in Seq(Item) /\ Len(message_m) <= MsgMCap
      /\ rs_message_m \in Seq(Item) /\ reqQ \in Seq(Request)
      /\ rspQ \in Seq(Response)
  BY <1>1 DEF Init
<1>4. calls \in 0 .. MaxCalls /\ faults \in 0 .. MaxFaults
  BY DEF Init
<1>5. content_changed \in ContentChanged /\ result \in Status
  BY DEF Init, ContentChanged, Status
<1>6. QED
  BY <1>2, <1>3, <1>4, <1>5 DEF Init, TypeOK

\* Every action keeps each variable in its type: in particular message_m
\* never outgrows its capacity, whichever append of
\* handle_spdm_measurement_record_response fails.
LEMMA TypeStep == TypeOK /\ [Next]_vars => TypeOK'
<1> SUFFICES ASSUME TypeOK, [Next]_vars PROVE TypeOK'
  OBVIOUS
<1>1. ASSUME NEW slot \in SlotArg, NEW signed \in BOOLEAN,
             SendRequest(slot, signed)
      PROVE  TypeOK'
  <2>1. call' \in [id : CallId, signed : BOOLEAN, slot : SlotArg]
    BY <1>1 DEF SendRequest, TypeOK, CallId
  <2>2. reqQ' \in Seq(Request)
    <3>1. CASE reqQ' = reqQ
      BY <3>1 DEF TypeOK
    <3>2. CASE reqQ' # reqQ
      <4>1. slot < NumSlots /\ calls < MaxCalls
            /\ reqQ' = Append(reqQ, [id |-> calls, signed |-> signed, slot |-> slot])
        BY <1>1, <3>2 DEF SendRequest
      <4>2. [id |-> calls, signed |-> signed, slot |-> slot] \in Request
        BY <4>1 DEF TypeOK, Request, CallId, SlotArg
      <4>3. QED
        BY <4>1, <4>2, AppendProperties DEF TypeOK
    <3>3. QED
      BY <3>1, <3>2
  <2>3. calls' \in 0 .. MaxCalls /\ result' \in Status /\ rq_state' \in {"idle", "sent"}
    BY <1>1 DEF SendRequest, TypeOK, Status
  <2>4. QED
    BY <1>1, <2>1, <2>2, <2>3 DEF SendRequest, TypeOK
<1>2. CASE ReceiveResponse
  <2> DEFINE m == Head(rspQ)
             m1 == Append(message_m, ReqItem(call.id))
             m2 == Append(m1, AppendedResponse(m, need_measurement_signature'))
  <2>1. rspQ # <<>> /\ m \in Response /\ rspQ' \in Seq(Response)
    BY <1>2, HeadTailProperties DEF ReceiveResponse, TypeOK
  <2>2. ReqItem(call.id) \in Item
        /\ AppendedResponse(m, need_measurement_signature') \in Item
    BY <2>1 DEF TypeOK, ReqItem, AppendedResponse, RspItem, Item, Response
  <2>3. /\ m1 \in Seq(Item) /\ Len(m1) = Len(message_m) + 1
        /\ m2 \in Seq(Item) /\ Len(m2) = Len(message_m) + 2
    BY <2>2, AppendProperties DEF TypeOK
  <2>4. \/ message_m' = message_m
        \/ Fits(message_m, 1) /\ message_m' = m1
        \/ Fits(message_m, 2) /\ message_m' = m2
        \/ message_m' = <<>>
    BY <1>2 DEF ReceiveResponse, HandleMeasurements, TranscriptAfterVerify
  <2>5. message_m' \in Seq(Item) /\ Len(message_m') <= MsgMCap
    <3>1. <<>> \in Seq(Item) /\ Len(<<>>) = 0
      BY EmptySeq
    <3>2. Len(message_m) \in Nat /\ MsgMCap \in Nat
      BY LenProperties DEF TypeOK
    <3>3. CASE message_m' = message_m
      BY <3>3 DEF TypeOK
    <3>4. CASE Fits(message_m, 1) /\ message_m' = m1
      BY <2>3, <3>2, <3>4 DEF Fits
    <3>5. CASE Fits(message_m, 2) /\ message_m' = m2
      BY <2>3, <3>2, <3>5 DEF Fits
    <3>6. CASE message_m' = <<>>
      BY <3>1, <3>2, <3>6
    <3>7. QED
      BY <2>4, <3>3, <3>4, <3>5, <3>6
  <2>6. content_changed' \in ContentChanged
    BY <1>2, <2>1 DEF ReceiveResponse, HandleMeasurements, TypeOK, Response
  <2>7. result' \in Status
    BY <1>2 DEF ReceiveResponse, HandleMeasurements, Status
  <2>8. tainted' \in BOOLEAN /\ need_measurement_signature' \in BOOLEAN
    BY <1>2 DEF ReceiveResponse, HandleMeasurements, TypeOK
  <2>9. QED
    BY <1>2, <2>1, <2>5, <2>6, <2>7, <2>8 DEF ReceiveResponse, TypeOK
<1>3. CASE ReceiveTimeout
  BY <1>3 DEF ReceiveTimeout, TypeOK, Status
<1>4. CASE Respond
  <2> DEFINE r == Head(reqQ)
             rs1 == rs_message_m \o <<ReqItem(r.id), RspItem(r.id, FALSE)>>
  <2>1. reqQ # <<>> /\ r \in Request /\ reqQ' \in Seq(Request)
    BY <1>4, HeadTailProperties DEF Respond, TypeOK
  <2>2. <<ReqItem(r.id), RspItem(r.id, FALSE)>> \in Seq(Item)
    <3>1. ReqItem(r.id) \in Item /\ RspItem(r.id, FALSE) \in Item
      BY <2>1 DEF ReqItem, RspItem, Item, Request, CallId
    <3>2. QED
      BY <3>1, PairIsSeq
  <2>3. rs1 \in Seq(Item)
    BY <2>2, ConcatProperties DEF TypeOK
  <2>4. ErrorResponse(r.id) \in Response
    BY <2>1 DEF ErrorResponse, Response, Request, TypeOK, Versions,
                ContentChanged, CallId
  <2>5. ASSUME NEW cc \in ContentChanged, NEW sg \in BOOLEAN
        PROVE  [code |-> "Measurements", version |-> spdm_version_sel,
                id |-> r.id, hasSig |-> sg,
                signedOver |-> IF sg THEN rs1 ELSE <<>>,
                cc |-> cc, bad |-> "none"] \in Response
    BY <2>1, <2>3, EmptySeq DEF Response, Request, TypeOK, Versions, CallId
  <2>6. rspQ' \in Seq(Response)
    <3>1. CASE rspQ' = Append(rspQ, ErrorResponse(r.id))
      BY <2>4, <3>1, AppendProperties DEF TypeOK
    <3>2. CASE \E cc \in ContentChanged :
                 rspQ' = Append(rspQ,
                   [code |-> "Measurements", version |-> spdm_version_sel,
                    id |-> r.id, hasSig |-> r.signed,
                    signedOver |-> IF r.signed THEN rs1 ELSE <<>>,
                    cc |-> cc, bad |-> "none"])
      <4>1. PICK cc \in ContentChanged :
                 rspQ' = Append(rspQ,
                   [code |-> "Measurements", version |-> spdm_version_sel,
                    id |-> r.id, hasSig |-> r.signed,
                    signedOver |-> IF r.signed THEN rs1 ELSE <<>>,
                    cc |-> cc, bad |-> "none"])
        BY <3>2
      <4>2. r.signed \in BOOLEAN
        BY <2>1 DEF Request
      <4>3. QED
        BY <4>1, <4>2, <2>5, AppendProperties DEF TypeOK
    <3>3. QED
      BY <1>4, <3>1, <3>2 DEF Respond, ContentChanged
  <2>7. rs_message_m' \in Seq(Item)
    BY <1>4, <2>3, EmptySeq DEF Respond, TypeOK
  <2>8. QED
    BY <1>4, <2>1, <2>6, <2>7 DEF Respond, TypeOK
<1>5. CASE LoseRequest
  BY <1>5, HeadTailProperties DEF LoseRequest, Fault, TypeOK
<1>6. CASE LoseResponse
  BY <1>6, HeadTailProperties DEF LoseResponse, Fault, TypeOK
<1>7. CASE CorruptResponse
  <2>1. rspQ # <<>> /\ Head(rspQ) \in Response /\ Tail(rspQ) \in Seq(Response)
    BY <1>7, HeadTailProperties DEF CorruptResponse, Fault, TypeOK
  <2>2. PICK d \in Damaged(Head(rspQ)) : rspQ' = <<d>> \o Tail(rspQ)
    BY <1>7 DEF CorruptResponse, Fault
  <2>3. d \in Response
    BY <2>1, DamagedIsResponse
  <2>4. <<d>> \in Seq(Response)
    BY <2>3, EmptySeq, AppendProperties
  <2>5. rspQ' \in Seq(Response)
    BY <2>1, <2>2, <2>4, ConcatProperties
  <2>6. QED
    BY <1>7, <2>5 DEF CorruptResponse, Fault, TypeOK
<1>8. CASE UNCHANGED vars
  BY <1>8 DEF vars, TypeOK
<1>9. QED
  BY <1>1, <1>2, <1>3, <1>4, <1>5, <1>6, <1>7, <1>8 DEF Next

\* Type correctness of the GET_MEASUREMENTS requester, responder and
\* transport: every reachable state satisfies TypeOK.
THEOREM TypeCorrect == Spec => []TypeOK
  BY TypeInit, TypeStep, PTL DEF Spec


\* Appending the request and then the response is appending the pair: the
\* two append_message_m calls of handle_spdm_measurement_record_response
\* build what the responder appends in one step.
LEMMA AppendTwice ==
  ASSUME NEW S, NEW s \in Seq(S), NEW a \in S, NEW b \in S
  PROVE  Append(Append(s, a), b) = s \o <<a, b>>
<1>1. <<a>> \in Seq(S) /\ <<b>> \in Seq(S) /\ <<a>> \o <<b>> = <<a, b>>
  <2>1. <<a>> = Append(<<>>, a) /\ <<b>> = Append(<<>>, b)
        /\ <<a, b>> = Append(<<a>>, b)
    OBVIOUS
  <2>2. <<a>> \in Seq(S) /\ <<b>> \in Seq(S)
    BY <2>1, EmptySeq, AppendProperties
  <2>3. <<a>> \o <<b>> = Append(<<a>>, b)
    BY <2>2, AppendIsConcat
  <2>4. QED
    BY <2>1, <2>2, <2>3
<1>2. Append(s, a) = s \o <<a>> /\ Append(s, a) \in Seq(S)
  BY AppendIsConcat, AppendProperties
<1>3. Append(Append(s, a), b) = (s \o <<a>>) \o <<b>>
  BY <1>2, AppendIsConcat
<1>4. (s \o <<a>>) \o <<b>> = s \o (<<a>> \o <<b>>)
  BY <1>1, ConcatAssociative
<1>5. QED
  BY <1>1, <1>3, <1>4

\* The inductive invariant of the transcript argument.
IInv == TypeOK /\ ExchangeInStep

\* Initially nothing is in flight and both transcripts are empty.
LEMMA IInvInit == Init => IInv
  BY TypeInit DEF Init, IInv, ExchangeInStep, BetweenCalls

\* Each step keeps the exchange in step, unless it taints it: the requester
\* appends to message_m exactly the pair the responder appended to its own,
\* and resets it exactly when the responder reset its own after signing.
LEMMA IInvStep == IInv /\ [Next]_vars => ExchangeInStep'
<1> SUFFICES ASSUME TypeOK, ExchangeInStep, [Next]_vars, ~tainted'
             PROVE  BetweenCalls' \/ RequestInFlight' \/ AnswerInFlight'
  BY DEF IInv, ExchangeInStep
<1>1. ASSUME NEW slot \in SlotArg, NEW signed \in BOOLEAN,
             SendRequest(slot, signed)
      PROVE  BetweenCalls' \/ RequestInFlight' \/ AnswerInFlight'
  <2>1. BetweenCalls
    BY <1>1 DEF SendRequest, ExchangeInStep, RequestInFlight, AnswerInFlight
  <2>2. CASE UNCHANGED <<rq_state, reqQ>>
    BY <1>1, <2>1, <2>2 DEF SendRequest, BetweenCalls
  <2>3. CASE /\ rq_state' = "sent"
             /\ reqQ' = Append(reqQ, [id |-> calls, signed |-> signed,
                                      slot |-> slot])
    BY <1>1, <2>1, <2>3 DEF SendRequest, BetweenCalls, RequestInFlight,
                           CallRequest
  <2>4. QED
    BY <1>1, <2>2, <2>3 DEF SendRequest
<1>2. CASE ReceiveResponse
  <2> DEFINE m == Head(rspQ)
  <2>1. CASE tainted
    <3>1. Resynchronised /\ message_m' = <<>>
      BY <1>2, <2>1 DEF ReceiveResponse, HandleMeasurements,
                        TranscriptAfterVerify
    <3>2. QED
      BY <1>2, <3>1 DEF Resynchronised, BetweenCalls, ReceiveResponse
  <2>2. CASE ~tainted
    <3>1. AnswerInFlight
      BY <1>2, <2>2 DEF ExchangeInStep, ReceiveResponse, BetweenCalls,
                        RequestInFlight
    <3>2. rspQ' = <<>> /\ rq_state' = "idle" /\ reqQ' = <<>>
          /\ rs_message_m' = rs_message_m
      BY <1>2, <3>1 DEF ReceiveResponse, AnswerInFlight
    <3>3. m.bad = "none" /\ m.version = spdm_version_sel
      BY <3>1 DEF AnswerInFlight, HonestAnswer, ErrorResponse
    <3>4. SUFFICES message_m' = rs_message_m
      BY <3>2 DEF BetweenCalls
    <3>5. CASE m = ErrorResponse(call.id) /\ rs_message_m = message_m
      BY <1>2, <3>3, <3>5 DEF ReceiveResponse, ErrorResponse
    <3>6. CASE /\ \E cc \in ContentChanged :
                  m = [code |-> "Measurements", version |-> spdm_version_sel,
                       id |-> call.id, hasSig |-> call.signed,
                       signedOver |-> IF call.signed THEN message_m \o CallPair
                                                     ELSE <<>>,
                       cc |-> cc, bad |-> "none"]
               /\ rs_message_m = IF call.signed THEN <<>>
                                                ELSE message_m \o CallPair
      <4> DEFINE m2 == Append(Append(message_m, ReqItem(call.id)),
                              AppendedResponse(m, call.signed))
      <4>1. m.code = "Measurements" /\ m.hasSig = call.signed /\ m.id = call.id
            /\ m.signedOver = IF call.signed THEN message_m \o CallPair
                                             ELSE <<>>
        BY <3>6
      <4>2. HandleMeasurements(m, call.signed)
        BY <1>2, <3>3, <4>1 DEF ReceiveResponse
      <4>3. m2 = message_m \o CallPair
        <5>1. ReqItem(call.id) \in Item /\ RspItem(call.id, FALSE) \in Item
          BY DEF TypeOK, ReqItem, RspItem, Item
        <5>2. \A s \in Seq(Item), a \in Item, b \in Item :
                Append(Append(s, a), b) = s \o <<a, b>>
          BY AppendTwice
        <5>3. message_m \in Seq(Item)
          BY DEF TypeOK
        <5>4. AppendedResponse(m, call.signed) = RspItem(call.id, FALSE)
          BY <4>1 DEF AppendedResponse
        <5>5. QED
          BY <5>1, <5>2, <5>3, <5>4 DEF CallPair, m2
      <4>4. Fits(message_m, 2)
        BY <4>1, <4>2, <3>3 DEF HandleMeasurements, Fits
      <4>5. m.bad # "body" /\ (call.signed => m.hasSig)
        BY <3>3, <4>1
      <4>6. message_m' = IF call.signed THEN <<>> ELSE m2
        BY <4>2, <4>4, <4>5 DEF HandleMeasurements, TranscriptAfterVerify
      <4>7. QED
        BY <3>6, <4>3, <4>6
    <3>7. QED
      BY <3>1, <3>5, <3>6 DEF AnswerInFlight, HonestAnswer
  <2>3. QED
    BY <2>1, <2>2
<1>3. CASE ReceiveTimeout
  BY <1>3 DEF ReceiveTimeout
<1>4. CASE Respond
  <2> DEFINE r == Head(reqQ)
             rs1 == rs_message_m \o <<ReqItem(r.id), RspItem(r.id, FALSE)>>
  <2>1. RequestInFlight
    BY <1>4 DEF Respond, ExchangeInStep, BetweenCalls, AnswerInFlight
  <2>2. r = CallRequest /\ reqQ' = <<>> /\ rspQ = <<>>
    BY <1>4, <2>1 DEF Respond, RequestInFlight
  <2>3. r.id = call.id /\ r.signed = call.signed
    BY <2>2 DEF CallRequest
  <2>8. rs1 = message_m \o CallPair
    BY <2>1, <2>3 DEF RequestInFlight, CallPair
  <2>4. UNCHANGED <<rq_state, call, message_m, spdm_version_sel>>
    BY <1>4 DEF Respond
  <2>5. CASE rspQ' = Append(rspQ, ErrorResponse(r.id))
             /\ UNCHANGED rs_message_m
    <3>1. rspQ' = <<ErrorResponse(call.id)>> /\ rs_message_m' = message_m'
      BY <2>1, <2>2, <2>3, <2>4, <2>5 DEF RequestInFlight
    <3>2. rq_state' = "sent" /\ reqQ' = <<>>
      BY <2>1, <2>2, <2>4 DEF RequestInFlight
    <3>3. rspQ' # <<>> /\ rspQ' = <<Head(rspQ')>>
          /\ Head(rspQ') = ErrorResponse(call.id)
      BY <3>1
    <3>4. HonestAnswer(Head(rspQ))'
      BY <2>4, <3>1, <3>3 DEF HonestAnswer, ErrorResponse
    <3>5. QED
      BY <3>2, <3>3, <3>4 DEF AnswerInFlight
  <2>6. CASE \E cc \in IF spdm_version_sel >= SpdmVersion12
                          THEN ContentChanged ELSE {"NotSupported"} :
               /\ rspQ' = Append(rspQ,
                      [code |-> "Measurements", version |-> spdm_version_sel,
                       id |-> r.id, hasSig |-> r.signed,
                       signedOver |-> IF r.signed THEN rs1 ELSE <<>>,
                       cc |-> cc, bad |-> "none"])
               /\ rs_message_m' = IF r.signed THEN <<>> ELSE rs1
    <3>1. PICK cc \in ContentChanged :
               /\ rspQ' = Append(rspQ,
                      [code |-> "Measurements", version |-> spdm_version_sel,
                       id |-> r.id, hasSig |-> r.signed,
                       signedOver |-> IF r.signed THEN rs1 ELSE <<>>,
                       cc |-> cc, bad |-> "none"])
               /\ rs_message_m' = IF r.signed THEN <<>> ELSE rs1
      BY <2>6 DEF ContentChanged
    <3> DEFINE rec == [code |-> "Measurements", version |-> spdm_version_sel,
                       id |-> call.id, hasSig |-> call.signed,
                       signedOver |-> IF call.signed THEN message_m \o CallPair
                                                     ELSE <<>>,
                       cc |-> cc, bad |-> "none"]
    <3>2. rec = [code |-> "Measurements", version |-> spdm_version_sel,
                 id |-> r.id, hasSig |-> r.signed,
                 signedOver |-> IF r.signed THEN rs1 ELSE <<>>,
                 cc |-> cc, bad |-> "none"]
      BY <2>3, <2>8
    <3>3. rspQ' = <<rec>> /\ rspQ' # <<>> /\ Head(rspQ') = rec
      BY <2>2, <3>1, <3>2
    <3>4. rs_message_m' = IF call.signed THEN <<>> ELSE message_m \o CallPair
      BY <2>3, <2>8, <3>1
    <3>5. HonestAnswer(Head(rspQ))'
      <4>1. (message_m \o CallPair)' = message_m \o CallPair
        BY <2>4 DEF CallPair
      <4>2. Head(rspQ') = [code |-> "Measurements", version |-> spdm_version_sel',
                 id |-> call'.id, hasSig |-> call'.signed,
                 signedOver |-> IF call'.signed THEN (message_m \o CallPair)'
                                               ELSE <<>>,
                 cc |-> cc, bad |-> "none"]
        BY <2>4, <3>3, <4>1
      <4>3. rs_message_m' = IF call'.signed THEN <<>> ELSE (message_m \o CallPair)'
        BY <2>4, <3>4, <4>1
      <4>4. QED
        BY <3>1, <4>2, <4>3 DEF HonestAnswer
    <3>6. rq_state' = "sent" /\ reqQ' = <<>>
      BY <2>1, <2>2, <2>4 DEF RequestInFlight
    <3>7. QED
      BY <3>3, <3>5, <3>6 DEF AnswerInFlight
  <2>7. QED
    BY <1>4, <2>5, <2>6 DEF Respond
<1>5. CASE LoseRequest \/ LoseResponse \/ CorruptResponse
  BY <1>5 DEF LoseRequest, LoseResponse, CorruptResponse, Fault
<1>6. CASE UNCHANGED vars
  <2>1. BetweenCalls \/ RequestInFlight \/ AnswerInFlight
    BY <1>6 DEF vars, ExchangeInStep
  <2>2. QED
    BY <1>6, <2>1 DEF vars, BetweenCalls, RequestInFlight, AnswerInFlight,
                      HonestAnswer, CallRequest, CallPair, ErrorResponse
<1>7. QED
  BY <1>1, <1>2, <1>3, <1>4, <1>5, <1>6 DEF Next

\* IInv holds in every reachable state.
LEMMA IInvInvariant == Spec => []IInv
<1>1. IInv /\ [Next]_vars => IInv'
  BY TypeStep, IInvStep DEF IInv
<1>2. QED
  BY IInvInit, <1>1, PTL DEF Spec

\* ExchangeInStep: with no fault since the transcripts were last empty
\* together, the requester and the responder are always at one of the three
\* points of a GET_MEASUREMENTS exchange, with matching transcripts.
THEOREM ExchangeStaysInStep == Spec => []ExchangeInStep
  BY IInvInvariant, PTL DEF IInv

\* Transcript agreement (TranscriptsInSync): in every reachable state, a
\* requester between calls with no fault since the transcripts were last
\* empty together holds the responder's message_m, for every number of
\* slots, transcript capacity, call and fault budget.
THEOREM TranscriptsAgree == Spec => []TranscriptsInSync
<1>1. IInv => TranscriptsInSync
  BY DEF IInv, ExchangeInStep, TranscriptsInSync, BetweenCalls,
         RequestInFlight, AnswerInFlight
<1>2. QED
  BY IInvInvariant, <1>1, PTL

\* SignatureRejectedOnlyAfterFault: with no fault since the transcripts were
\* last in step, handle_spdm_measurement_record_response never rejects the
\* signature of an honest responder on a slot that holds a certificate
\* chain: the L1/L2 transcript it verifies against is exactly the one the
\* responder signed.
THEOREM SignatureAccepted == Spec => SignatureRejectedOnlyAfterFault
<1>1. IInv /\ [Next]_vars
        => [rq_state = "sent" /\ rq_state' = "idle" /\ result' = "VerifFail"
              => tainted \/ call.slot \notin PopulatedSlots]_vars
  <2> SUFFICES ASSUME TypeOK, ExchangeInStep, [Next]_vars,
                      rq_state = "sent", rq_state' = "idle",
                      result' = "VerifFail", ~tainted,
                      call.slot \in PopulatedSlots
               PROVE  FALSE
    BY DEF IInv
  <2>1. ReceiveResponse
    BY DEF Next, SendRequest, ReceiveTimeout, Respond, LoseRequest,
           LoseResponse, CorruptResponse, Fault, vars
  <2> DEFINE m == Head(rspQ)
  <2>2. AnswerInFlight
    BY <2>1 DEF ExchangeInStep, ReceiveResponse, BetweenCalls,
                RequestInFlight
  <2>3. m.bad = "none" /\ m.version = spdm_version_sel
    BY <2>2 DEF AnswerInFlight, HonestAnswer, ErrorResponse
  <2>4. CASE m = ErrorResponse(call.id)
    BY <2>1, <2>3, <2>4 DEF ReceiveResponse, ErrorResponse
  <2>5. CASE \E cc \in ContentChanged :
               m = [code |-> "Measurements", version |-> spdm_version_sel,
                    id |-> call.id, hasSig |-> call.signed,
                    signedOver |-> IF call.signed THEN message_m \o CallPair
                                                  ELSE <<>>,
                    cc |-> cc, bad |-> "none"]
    <3> DEFINE m2 == Append(Append(message_m, ReqItem(call.id)),
                            AppendedResponse(m, call.signed))
    <3>1. m.code = "Measurements" /\ m.hasSig = call.signed /\ m.id = call.id
          /\ m.signedOver = IF call.signed THEN message_m \o CallPair
                                           ELSE <<>>
      BY <2>5
    <3>2. HandleMeasurements(m, call.signed)
      BY <2>1, <2>3, <3>1 DEF ReceiveResponse
    <3>3. m2 = message_m \o CallPair
      <4>1. ReqItem(call.id) \in Item /\ RspItem(call.id, FALSE) \in Item
        BY DEF TypeOK, ReqItem, RspItem, Item
      <4>2. \A s \in Seq(Item), a \in Item, b \in Item :
              Append(Append(s, a), b) = s \o <<a, b>>
        BY AppendTwice
      <4>3. AppendedResponse(m, call.signed) = RspItem(call.id, FALSE)
        BY <3>1 DEF AppendedResponse
      <4>4. message_m \in Seq(Item)
        BY DEF TypeOK
      <4>5. QED
        BY <4>1, <4>2, <4>3, <4>4 DEF CallPair, m2
    <3>4. m.bad # "body" /\ (call.signed => m.hasSig)
      BY <2>3, <3>1
    <3>5. call.signed => Verified(m, call.signed, m2)
      BY <2>3, <3>1, <3>3 DEF Verified
    <3>6. QED
      BY <3>2, <3>4, <3>5 DEF HandleMeasurements
  <2>6. QED
    BY <2>2, <2>4, <2>5 DEF AnswerInFlight, HonestAnswer
<1>2. QED
  BY IInvInvariant, <1>1, PTL DEF SignatureRejectedOnlyAfterFault, Spec

-----------------------------------------------------------------------------
(***************************************************************************)
(* Refinement of MeasurementCallSpec.  The only fact beyond TypeOK that    *)
(* the mapping needs is that no message in flight is younger than the      *)
(* call waiting for it: a response the requester takes belongs to its own  *)
(* call or to one that timed out before it.                                *)
(***************************************************************************)
IdsBelow(s, n) == \A i \in 1 .. Len(s) : s[i].id < n

\* Every request and response in flight carries the number of a request
\* already sent, and a waiting call is the last one sent.
CallIdsBelow ==
    /\ IdsBelow(reqQ, calls)
    /\ IdsBelow(rspQ, calls)
    /\ rq_state = "sent" => call.id + 1 = calls

\* Dropping the head of a queue keeps its numbers below n.
LEMMA TailIdsBelow ==
  ASSUME NEW S, NEW s \in Seq(S), s # << >>, NEW n, IdsBelow(s, n)
  PROVE  IdsBelow(Tail(s), n)
BY HeadTailProperties DEF IdsBelow

\* Appending a message numbered below n keeps the numbers below n.
LEMMA AppendIdsBelow ==
  ASSUME NEW S, NEW s \in Seq(S), NEW x \in S, NEW n, IdsBelow(s, n),
         x.id < n
  PROVE  IdsBelow(Append(s, x), n)
BY AppendProperties DEF IdsBelow

\* Numbers below n are below n + 1.
LEMMA IdsBelowSucc ==
  ASSUME NEW S, NEW s \in Seq(S), \A x \in S : x.id \in Nat, NEW n \in Nat,
         IdsBelow(s, n)
  PROVE  IdsBelow(s, n + 1)
BY DEF IdsBelow

\* Replacing the head by a message with the same number.
LEMMA ReplaceHeadIdsBelow ==
  ASSUME NEW S, NEW s \in Seq(S), s # << >>, NEW d \in S, NEW n,
         IdsBelow(s, n), d.id = Head(s).id
  PROVE  IdsBelow(<<d>> \o Tail(s), n)
<1>1. <<d>> \in Seq(S) /\ Tail(s) \in Seq(S)
  BY HeadTailProperties, EmptySeq, AppendProperties
<1>2. Len(<<d>> \o Tail(s)) = Len(s)
  BY <1>1, HeadTailProperties, ConcatProperties
<1>3. \A i \in 1 .. Len(s) : (<<d>> \o Tail(s))[i].id = s[i].id
  BY <1>1, <1>2, HeadTailProperties, ConcatProperties
<1>4. QED
  BY <1>2, <1>3 DEF IdsBelow

\* Damage in transit keeps the number of the request a response answers.
LEMMA DamagedKeepsId ==
  ASSUME NEW m \in Response, NEW d \in Damaged(m)
  PROVE  d.id = m.id
BY DEF Damaged, Response
\* The inductive invariant of the refinement.
RInv == TypeOK /\ CallIdsBelow

\* Initially nothing is in flight and no call waits.
LEMMA RInvInit == Init => RInv
BY TypeInit, EmptySeq DEF Init, RInv, CallIdsBelow, IdsBelow

\* A request is numbered when it is sent, with the count of requests sent
\* so far; the responder answers with the number of the request it takes;
\* no step renumbers a message in flight.
LEMMA RInvStep == RInv /\ [Next]_vars => CallIdsBelow'
<1> SUFFICES ASSUME TypeOK, CallIdsBelow, [Next]_vars PROVE CallIdsBelow'
  BY DEF RInv
<1> USE DEF TypeOK
<1>1. ASSUME NEW slot \in SlotArg, NEW signed \in BOOLEAN,
             SendRequest(slot, signed)
      PROVE  CallIdsBelow'
  <2>1. CASE UNCHANGED <<rq_state, calls, reqQ>>
    BY <1>1, <2>1 DEF SendRequest, CallIdsBelow
  <2>2. CASE /\ slot < NumSlots
             /\ calls < MaxCalls
             /\ reqQ' = Append(reqQ, [id |-> calls, signed |-> signed, slot |-> slot])
             /\ calls' = calls + 1
             /\ rq_state' = "sent"
    <3> DEFINE r == [id |-> calls, signed |-> signed, slot |-> slot]
    <3>1. IdsBelow(reqQ, calls + 1) /\ IdsBelow(rspQ, calls + 1)
      <4>1. \A x \in Request : x.id \in Nat
        BY DEF Request, CallId
      <4>2. \A x \in Response : x.id \in Nat
        BY DEF Response, CallId
      <4>3. QED
        BY <4>1, <4>2, IdsBelowSucc DEF CallIdsBelow
    <3>2. IdsBelow(reqQ', calls')
      <4>1. r \in Request /\ r.id < calls + 1
        BY <2>2 DEF SlotArg, Request, CallId, r
      <4>2. IdsBelow(Append(reqQ, r), calls + 1)
        BY <3>1, <4>1, AppendIdsBelow
      <4>3. QED
        BY <2>2, <4>2 DEF r
    <3>3. QED
      BY <1>1, <2>2, <3>1, <3>2 DEF SendRequest, CallIdsBelow
  <2>3. QED
    BY <1>1, <2>1, <2>2 DEF SendRequest
<1>2. CASE ReceiveResponse
  <2>1. rspQ # << >> /\ rspQ' = Tail(rspQ) /\ rq_state' = "idle"
        /\ UNCHANGED <<reqQ, calls>>
    BY <1>2 DEF ReceiveResponse
  <2>2. IdsBelow(Tail(rspQ), calls)
    BY <2>1, TailIdsBelow DEF CallIdsBelow
  <2>3. QED
    BY <2>1, <2>2 DEF CallIdsBelow
<1>3. CASE ReceiveTimeout
  BY <1>3 DEF ReceiveTimeout, CallIdsBelow
<1>4. CASE Respond
  <2> DEFINE r == Head(reqQ)
  <2>1. reqQ # << >> /\ r \in Request /\ r.id < calls
    BY <1>4, HeadTailProperties DEF Respond, CallIdsBelow, IdsBelow
  <2>2. IdsBelow(reqQ', calls)
    BY <1>4, <2>1, TailIdsBelow DEF Respond, CallIdsBelow
  <2>3. ASSUME NEW x \in Response, x.id = r.id, rspQ' = Append(rspQ, x)
        PROVE  IdsBelow(rspQ', calls)
    BY <2>1, <2>3, AppendIdsBelow DEF CallIdsBelow
  <2>4. ASSUME rspQ' = Append(rspQ, ErrorResponse(r.id))
        PROVE  IdsBelow(rspQ', calls)
    <3>1. ErrorResponse(r.id) \in Response /\ ErrorResponse(r.id).id = r.id
      BY <2>1 DEF ErrorResponse, Response, Request, Versions, ContentChanged,
                  CallId
    <3>2. QED
      BY <2>3, <2>4, <3>1
  <2>5. ASSUME rspQ' # Append(rspQ, ErrorResponse(r.id))
        PROVE  IdsBelow(rspQ', calls)
    <3> DEFINE rs1 == rs_message_m \o <<ReqItem(r.id), RspItem(r.id, FALSE)>>
               rec(cc) == [code |-> "Measurements", version |-> spdm_version_sel,
                           id |-> r.id, hasSig |-> r.signed,
                           signedOver |-> IF r.signed THEN rs1 ELSE <<>>,
                           cc |-> cc, bad |-> "none"]
    <3>1. PICK cc \in ContentChanged : rspQ' = Append(rspQ, rec(cc))
      BY <1>4, <2>5 DEF Respond, ContentChanged, rec, rs1
    <3>2. rs1 \in Seq(Item)
      <4>1. ReqItem(r.id) \in Item /\ RspItem(r.id, FALSE) \in Item
        BY <2>1 DEF ReqItem, RspItem, Item, Request, CallId
      <4>2. QED
        BY <4>1, PairIsSeq, ConcatProperties DEF rs1
    <3>3. rec(cc) \in Response /\ rec(cc).id = r.id
      BY <2>1, <3>2, EmptySeq DEF Response, Request, Versions, CallId, rec
    <3>4. QED
      BY <2>3, <3>1, <3>3
  <2>6. IdsBelow(rspQ', calls)
    BY <2>4, <2>5
  <2>7. QED
    BY <1>4, <2>2, <2>6 DEF Respond, CallIdsBelow
<1>5. CASE LoseRequest
  BY <1>5, TailIdsBelow DEF LoseRequest, Fault, CallIdsBelow
<1>6. CASE LoseResponse
  BY <1>6, TailIdsBelow DEF LoseResponse, Fault, CallIdsBelow
<1>7. CASE CorruptResponse
  <2>1. rspQ # << >> /\ Head(rspQ) \in Response
    BY <1>7, HeadTailProperties DEF CorruptResponse, Fault
  <2>2. PICK d \in Damaged(Head(rspQ)) : rspQ' = <<d>> \o Tail(rspQ)
    BY <1>7 DEF CorruptResponse, Fault
  <2>3. d \in Response /\ d.id = Head(rspQ).id
    BY <2>1, DamagedIsResponse, DamagedKeepsId
  <2>4. IdsBelow(rspQ', calls)
    BY <2>1, <2>2, <2>3, ReplaceHeadIdsBelow DEF CallIdsBelow
  <2>5. QED
    BY <1>7, <2>4 DEF CorruptResponse, Fault, CallIdsBelow
<1>8. CASE UNCHANGED vars
  BY <1>8 DEF vars, CallIdsBelow
<1>9. QED
  BY <1>1, <1>2, <1>3, <1>4, <1>5, <1>6, <1>7, <1>8 DEF Next

\* RInv holds in every reachable state.
LEMMA RInvInvariant == Spec => []RInv
<1>1. RInv /\ [Next]_vars => RInv'
  BY TypeStep, RInvStep DEF RInv
<1>2. QED
  BY RInvInit, <1>1, PTL DEF Spec
\* The initial state of the requester is an initial state of the contract.
LEMMA RefineInit == Init => Abstract!Init
BY DEF Init, Abstract!Init, Versions, SpdmVersion11, SpdmVersion12

\* What a call that returns does to message_m, content_changed and the
\* status: the contract's Finish, less the two changes of busy and call.
ReturnsAsPromised ==
    /\ Abstract!TranscriptOutcome
    /\ result' = "Ok" /\ call.signed = TRUE => call.slot \in PopulatedSlots
    /\ content_changed' # content_changed =>
          spdm_version_sel >= 18 /\ result' \in {"Ok", "VerifFail", "BufferFull"}

\* handle_spdm_measurement_record_response returns as the contract says,
\* given the response it handles answers this call or an earlier one.
LEMMA HandleAsPromised ==
  ASSUME TypeOK, NEW rsp \in Response, rsp.id \in 0 .. call.id,
         HandleMeasurements(rsp, call.signed),
         UNCHANGED <<call, spdm_version_sel>>
  PROVE  ReturnsAsPromised
<1> DEFINE dec == rsp.bad # "body" /\ (call.signed => rsp.hasSig)
           t1 == Append(message_m, ReqItem(call.id))
           t2 == Append(t1, AppendedResponse(rsp, call.signed))
<1>1. Len(message_m) \in Nat /\ MsgMCap \in Nat /\ call.signed \in BOOLEAN
  BY LenProperties DEF TypeOK
<1>0. Fits(message_m, 2) => Fits(message_m, 1)
  BY <1>1 DEF Fits
<1>2. CASE ~dec
  BY <1>2 DEF dec, HandleMeasurements, ReturnsAsPromised, Abstract!TranscriptOutcome
<1>3. CASE dec
  <2>1. content_changed' # content_changed => spdm_version_sel >= 18
    BY <1>3 DEF HandleMeasurements, dec, SpdmVersion12
  <2>2. CASE ~Fits(message_m, 1)
    <3>1. result' = "BufferFull" /\ message_m' = message_m
      BY <1>0, <1>3, <2>2, Zenon DEF HandleMeasurements, dec
    <3>2. Len(message_m) + 2 > MsgMCap
      BY <1>1, <2>2 DEF Fits
    <3>3. QED
      BY <2>1, <3>1, <3>2 DEF ReturnsAsPromised, Abstract!TranscriptOutcome
  <2>3. CASE Fits(message_m, 1) /\ ~Fits(message_m, 2)
    <3>1. result' = "BufferFull" /\ message_m' = t1
      BY <1>0, <1>3, <2>3, Zenon DEF HandleMeasurements, dec
    <3>2. Len(message_m) + 2 > MsgMCap
      BY <1>1, <2>3 DEF Fits
    <3>3. t1 = Append(message_m, Abstract!Req(call.id))
      BY DEF t1, ReqItem, Abstract!Req
    <3>4. QED
      BY <2>1, <3>1, <3>2, <3>3 DEF ReturnsAsPromised, Abstract!TranscriptOutcome
  <2>4. CASE Fits(message_m, 2) /\ ~call.signed
    <3>1. result' = "Ok" /\ message_m' = t2
      BY <1>0, <1>3, <2>4, Zenon DEF HandleMeasurements, dec
    <3>2. t2 = message_m \o <<Abstract!Req(call.id), Abstract!Rsp(rsp.id)>>
      <4>1. ReqItem(call.id) \in Item /\ RspItem(rsp.id, FALSE) \in Item
        BY DEF TypeOK, ReqItem, RspItem, Item, Response
      <4>2. Append(Append(message_m, ReqItem(call.id)), RspItem(rsp.id, FALSE))
              = message_m \o <<ReqItem(call.id), RspItem(rsp.id, FALSE)>>
        <5>1. \A s \in Seq(Item), a \in Item, b \in Item :
                Append(Append(s, a), b) = s \o <<a, b>>
          BY AppendTwice
        <5>2. QED
          BY <4>1, <5>1 DEF TypeOK
      <4>3. QED
        BY <4>2 DEF t2, t1, AppendedResponse, ReqItem, RspItem, Abstract!Req, Abstract!Rsp
    <3>3. \E j \in 0 .. call.id :
            message_m' = message_m \o <<Abstract!Req(call.id), Abstract!Rsp(j)>>
      BY <3>1, <3>2
    <3>4. call.signed = FALSE
      BY <1>1, <2>4
    <3>5. QED
      BY <2>1, <3>1, <3>3, <3>4 DEF ReturnsAsPromised, Abstract!TranscriptOutcome
  <2>5. CASE Fits(message_m, 2) /\ call.signed
    <3>1. message_m' = << >>
          /\ result' = IF Verified(rsp, call.signed, t2) THEN "Ok" ELSE "VerifFail"
      BY <1>0, <1>3, <2>5, Zenon DEF HandleMeasurements, dec, TranscriptAfterVerify
    <3>2. result' = "Ok" => call.slot \in PopulatedSlots
      BY <3>1 DEF Verified
    <3>3. QED
      BY <1>1, <2>1, <2>5, <3>1, <3>2 DEF ReturnsAsPromised,
         Abstract!TranscriptOutcome
  <2>6. QED
    BY <1>1, <2>2, <2>3, <2>4, <2>5
<1>4. QED
  BY <1>2, <1>3
\* Every step of the requester, the responder or the transport is a step of
\* the contract or leaves the caller's view unchanged: a call refused
\* before the send is Refuse, a sent request is Begin, a received response
\* or a timeout is Finish, and the responder and the transport faults
\* touch none of the requester's variables.
LEMMA RefineStep == RInv /\ [Next]_vars => [Abstract!Next]_Abstract!avars
<1> SUFFICES ASSUME TypeOK, CallIdsBelow, [Next]_vars
             PROVE  [Abstract!Next]_Abstract!avars
  BY DEF RInv
<1>1. ASSUME NEW slot \in SlotArg, NEW signed \in BOOLEAN,
             SendRequest(slot, signed)
      PROVE  Abstract!Refuse \/ Abstract!Begin
  <2>1. rq_state = "idle" /\ call'.slot = slot /\ slot \in Nat /\ NumSlots \in Nat
        /\ UNCHANGED <<message_m, content_changed, spdm_version_sel>>
    BY <1>1 DEF SendRequest, SlotArg
  <2>2. CASE slot >= NumSlots
    <3>1. result' = "InvalidStateLocal" /\ rq_state' = "idle"
      BY <1>1, <2>1, <2>2 DEF SendRequest
    <3>2. QED
      BY <2>1, <2>2, <3>1 DEF Abstract!Refuse
  <2>3. CASE slot < NumSlots /\ rq_state' = "idle"
    <3>1. result' \in {"RandomFail", "Io"}
      BY <1>1, <2>1, <2>3 DEF SendRequest
    <3>2. QED
      BY <2>1, <2>3, <3>1 DEF Abstract!Refuse
  <2>4. CASE slot < NumSlots /\ rq_state' # "idle"
    <3>1. rq_state' = "sent" /\ UNCHANGED result
      BY <1>1, <2>1, <2>4 DEF SendRequest
    <3>2. QED
      BY <2>1, <2>4, <3>1 DEF Abstract!Begin
  <2>5. QED
    BY <2>1, <2>2, <2>3, <2>4
<1>2. CASE ReceiveResponse
  <2> DEFINE rsp == Head(rspQ)
  <2>1. rq_state = "sent" /\ rq_state' = "idle"
        /\ UNCHANGED <<call, spdm_version_sel>>
        /\ need_measurement_signature' = call.signed
    BY <1>2 DEF ReceiveResponse
  <2>2. rspQ # << >> /\ rsp \in Response /\ rsp.id < calls
    BY <1>2, HeadTailProperties DEF ReceiveResponse, TypeOK, CallIdsBelow,
       IdsBelow
  <2>3. rsp.id \in 0 .. call.id
    BY <2>1, <2>2 DEF CallIdsBelow, Response, CallId, TypeOK
  <2>4. ReturnsAsPromised
    <3>1. CASE rsp.bad # "header" /\ rsp.version = spdm_version_sel
               /\ rsp.code = "Measurements"
      <4>1. HandleMeasurements(rsp, call.signed)
        BY <1>2, <2>1, <3>1 DEF ReceiveResponse
      <4>2. QED
        BY <2>1, <2>2, <2>3, <4>1, HandleAsPromised
    <3>2. CASE ~(rsp.bad # "header" /\ rsp.version = spdm_version_sel
                 /\ rsp.code = "Measurements")
      <4>1. result' \in {"InvalidMsgField", "ErrorPeer"}
            /\ UNCHANGED <<content_changed, message_m>>
        BY <1>2, <3>2 DEF ReceiveResponse
      <4>2. QED
        BY <4>1 DEF ReturnsAsPromised, Abstract!TranscriptOutcome
    <3>3. QED
      BY <3>1, <3>2
  <2>5. Abstract!Finish
    BY <2>1, <2>4 DEF ReturnsAsPromised, Abstract!Finish
  <2>6. QED
    BY <2>5 DEF Abstract!Next
<1>3. CASE ReceiveTimeout
  <2>1. Abstract!TranscriptOutcome
    BY <1>3 DEF ReceiveTimeout, Abstract!TranscriptOutcome
  <2>2. QED
    BY <1>3, <2>1 DEF ReceiveTimeout, Abstract!Finish, Abstract!Next
<1>4. CASE Respond \/ LoseRequest \/ LoseResponse \/ CorruptResponse
           \/ UNCHANGED vars
  BY <1>4 DEF Respond, LoseRequest, LoseResponse, CorruptResponse, Fault,
              vars, Abstract!avars
<1>5. QED
  BY <1>1, <1>2, <1>3, <1>4 DEF Next, Abstract!Next

\* CallContractRefined, for every number of slots, set of populated slots,
\* transcript capacity and call and fault budget: whatever the transport
\* loses, damages or delays and whatever the responder answers, each call
\* of send_receive_spdm_measurement is refused before any I/O or returns
\* with message_m, content_changed and the status related as
\* MeasurementCallSpec says.
THEOREM CallRefinement == Spec => CallContractRefined
<1>1. RInv /\ [Next]_vars => [Abstract!Next]_Abstract!avars
  BY RefineStep
<1>2. QED
  BY RefineInit, RInvInvariant, <1>1, PTL
     DEF Spec, CallContractRefined, Abstract!SafeSpec
====
