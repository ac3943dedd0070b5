--------------------------- MODULE MeasurementReq ---------------------------
(***************************************************************************)
(* The requester side of GET_MEASUREMENTS                                  *)
(* (src/spdmlib/src/requester/get_measurements_req.rs) on the main         *)
(* channel, together with the responder it talks to and an unreliable     *)
(* transport between them.                                                 *)
(*                                                                         *)
(* The requester keeps the L1/L2 transcript message_m: every request and   *)
(* every response (without its trailing signature) is appended to it, and  *)
(* a signed MEASUREMENTS response is verified against it, after which it   *)
(* is reset.  The responder keeps its own copy of the transcript and signs *)
(* it.  A signature therefore verifies only if both transcripts hold the   *)
(* same messages in the same order.                                        *)
(*                                                                         *)
(* Data is abstracted: the bytes of a request are identified by the call   *)
(* number (the fresh nonce makes every request distinct), those of a       *)
(* response by the number of the request it answers, and a signature by    *)
(* the transcript the responder signed.                                    *)
(***************************************************************************)
EXTENDS Naturals, Sequences

CONSTANTS
    NumSlots,       \* SPDM_MAX_SLOT_NUMBER
    PopulatedSlots, \* slots whose peer_cert_chain[slot] is Some
    MsgMCap,        \* capacity of message_m, in messages
    MaxCalls,       \* bound on the number of requests sent
    MaxFaults       \* bound on lost and damaged messages

ASSUME ConstantsAssumption ==
    /\ NumSlots \in Nat \ {0}
    /\ PopulatedSlots \subseteq 0 .. NumSlots - 1
    /\ MsgMCap \in Nat
    /\ MaxCalls \in Nat
    /\ MaxFaults \in Nat

\* SpdmVersion::get_u8 of the versions this code negotiates.
SpdmVersion11 == 17  \* 0x11
SpdmVersion12 == 18  \* 0x12
Versions == {SpdmVersion11, SpdmVersion12}

\* SpdmMeasurementContentChanged, Param2 bits [5:4] of the response.
ContentChanged == {"NotSupported", "DetectedChange", "NoChange"}

\* The statuses send_receive_spdm_measurement returns, and "None" before
\* the first call.
Status == {"None", "Ok", "InvalidStateLocal", "RandomFail", "Io",
           "InvalidMsgField", "ErrorPeer", "BufferFull", "VerifFail"}

\* The slot ids a caller may pass: every valid one and one out of range.
SlotArg == 0 .. NumSlots

CallId == 0 .. MaxCalls

\* A message of a transcript: the request of call id, or the response to
\* it, with or without its trailing signature bytes.
Item == [kind : {"req", "rsp"}, id : CallId, sig : BOOLEAN]
ReqItem(id) == [kind |-> "req", id |-> id, sig |-> FALSE]
RspItem(id, withSig) == [kind |-> "rsp", id |-> id, sig |-> withSig]

\* A GET_MEASUREMENTS request on the wire.
Request == [id : CallId, signed : BOOLEAN, slot : 0 .. NumSlots - 1]

\* A response on the wire.  bad names what a transport fault damaged:
\* the header, the payload, or the signature.
Response == [code : {"Measurements", "Error", "Other"},
             version : {16} \cup Versions,
             id : CallId, hasSig : BOOLEAN, signedOver : Seq(Item),
             cc : ContentChanged, bad : {"none", "header", "body", "sig"}]

VARIABLES
    spdm_version_sel,           \* negotiate_info.spdm_version_sel
    need_measurement_signature, \* runtime_info.need_measurement_signature
    content_changed,            \* runtime_info.content_changed
    message_m,                  \* runtime_info.message_m of the requester
    rq_state,                   \* "idle", or "sent": waiting in receive
    call,                       \* the current (or last) call
    calls,                      \* number of requests sent so far
    result,                     \* status of the last call
    rs_message_m,               \* the responder's message_m
    reqQ,                       \* requests in flight
    rspQ,                       \* responses in flight
    faults,                     \* lost and damaged messages so far
    tainted                     \* history: a fault since both transcripts
                                \* were last empty together

vars == <<spdm_version_sel, need_measurement_signature, content_changed,
          message_m, rq_state, call, calls, result, rs_message_m, reqQ,
          rspQ, faults, tainted>>

TypeOK ==
    /\ spdm_version_sel \in Versions
    /\ need_measurement_signature \in BOOLEAN
    /\ content_changed \in ContentChanged
    /\ message_m \in Seq(Item) /\ Len(message_m) <= MsgMCap
    /\ rq_state \in {"idle", "sent"}
    /\ call \in [id : CallId, signed : BOOLEAN, slot : SlotArg]
    /\ calls \in 0 .. MaxCalls
    /\ result \in Status
    /\ rs_message_m \in Seq(Item)
    /\ reqQ \in Seq(Request)
    /\ rspQ \in Seq(Response)
    /\ faults \in 0 .. MaxFaults
    /\ tainted \in BOOLEAN

Init ==
    /\ spdm_version_sel \in Versions
    /\ need_measurement_signature = FALSE
    /\ content_changed = "NotSupported"
    /\ message_m = <<>>
    /\ rq_state = "idle"
    /\ call = [id |-> 0, signed |-> FALSE, slot |-> 0]
    /\ calls = 0
    /\ result = "None"
    /\ rs_message_m = <<>>
    /\ reqQ = <<>>
    /\ rspQ = <<>>
    /\ faults = 0
    /\ tainted = FALSE

-----------------------------------------------------------------------------
(***************************************************************************)
(* Requester: send_receive_spdm_measurement_record, up to the send.        *)
(* An out-of-range slot is rejected before any I/O; the nonce comes from   *)
(* crypto::rand::get_random, which may fail; send_message may fail.  Only  *)
(* a request that reaches the transport uses up a call number.            *)
(***************************************************************************)
SendRequest(slot, signed) ==
    /\ rq_state = "idle"
    /\ call' = [id |-> calls, signed |-> signed, slot |-> slot]
    /\ \/ /\ slot >= NumSlots
          /\ result' = "InvalidStateLocal"
          /\ UNCHANGED <<rq_state, calls, reqQ>>
       \/ /\ slot < NumSlots
          /\ result' \in {"RandomFail", "Io"}
          /\ UNCHANGED <<rq_state, calls, reqQ>>
       \/ /\ slot < NumSlots
          /\ calls < MaxCalls
          /\ reqQ' = Append(reqQ, [id |-> calls, signed |-> signed, slot |-> slot])
          /\ calls' = calls + 1
          /\ rq_state' = "sent"
          /\ UNCHANGED result
    /\ UNCHANGED <<spdm_version_sel, need_measurement_signature,
                   content_changed, message_m, rs_message_m, rspQ, faults,
                   tainted>>

\* ManagedBuffer::append_message succeeds when n more messages fit.
FitsOffByOne(t, n) == Len(t) + n <= MsgMCap + 1
Fits(t, n) == Len(t) + n <= MsgMCap

\* The part of the received bytes appended to message_m: receive_buffer
\* up to reader.used() less base_asym_size when the signature was read,
\* i.e. the response without its signature either way.
AppendedResponseWithSig(m, sigRead) == RspItem(m.id, sigRead)
AppendedResponse(m, sigRead) == RspItem(m.id, FALSE)

\* message_m after the signature check of a signed exchange:
\* reset_message_m on the failure and on the success branch alike.
TranscriptAfterVerifyOnlyOnFail(verified, l1l2) ==
    IF verified THEN l1l2 ELSE <<>>
TranscriptAfterVerify(verified, l1l2) == <<>>

\* verify_measurement_signature: the signature read from response m
\* verifies against the requester's L1/L2 transcript l1l2 with the peer
\* certificate chain of the call's slot (INVALID_PARAMETER when that slot
\* holds none).
Verified(m, sigRead, l1l2) ==
    /\ sigRead
    /\ call.slot \in PopulatedSlots
    /\ m.bad # "sig"
    /\ m.signedOver = l1l2

\* Both transcripts are empty and nothing is in flight after the step.
Resynchronised ==
    reqQ = <<>> /\ rspQ' = <<>> /\ rs_message_m = <<>>

(***************************************************************************)
(* handle_spdm_measurement_record_response for a MEASUREMENTS response of  *)
(* the negotiated version, with sigRead the value need_measurement_        *)
(* signature has when the payload is decoded.  The payload decodes only if *)
(* it carries a signature when one is read.  content_changed is taken from *)
(* the response (version 1.2 and later) before anything else; then the     *)
(* request and the response without its signature are appended to          *)
(* message_m, each append failing with BufferFull when message_m is full;  *)
(* then, for a signed request, the signature is verified and message_m is  *)
(* reset.                                                                  *)
(***************************************************************************)
HandleMeasurements(m, sigRead) ==
    LET decodes == m.bad # "body" /\ (sigRead => m.hasSig)
        m1 == Append(message_m, ReqItem(call.id))
        m2 == Append(m1, AppendedResponse(m, sigRead))
        verified == Verified(m, sigRead, m2)
    IN  \/ /\ ~decodes
           /\ result' = "InvalidMsgField"
           /\ UNCHANGED <<content_changed, message_m, tainted>>
        \/ /\ decodes
           /\ content_changed' = IF spdm_version_sel >= SpdmVersion12
                                   THEN m.cc ELSE content_changed
           /\ \/ /\ ~Fits(message_m, 1)
                 /\ result' = "BufferFull"
                 /\ tainted' = TRUE
                 /\ UNCHANGED message_m
              \/ /\ Fits(message_m, 1) /\ ~Fits(message_m, 2)
                 /\ message_m' = m1
                 /\ result' = "BufferFull"
                 /\ tainted' = TRUE
              \/ /\ Fits(message_m, 2)
                 /\ ~call.signed
                 /\ message_m' = m2
                 /\ result' = "Ok"
                 /\ UNCHANGED tainted
              \/ /\ Fits(message_m, 2)
                 /\ call.signed
                 /\ message_m' = TranscriptAfterVerify(verified, m2)
                 /\ result' = IF verified THEN "Ok" ELSE "VerifFail"
                 /\ tainted' = (tainted /\ ~Resynchronised)

(***************************************************************************)
(* Requester: receive_message and handle_spdm_measurement_record_response. *)
(* need_measurement_signature is set from the request's attributes before  *)
(* the response is decoded.  A header that does not parse or a version    *)
(* other than the negotiated one is InvalidMsgField; an ERROR response     *)
(* goes to spdm_handle_error_response_main and, like any other code,      *)
(* ends the call with an error (ErrorPeer).                               *)
(***************************************************************************)
ReceiveResponse ==
    /\ rq_state = "sent"
    /\ rspQ # <<>>
    /\ rspQ' = Tail(rspQ)
    /\ rq_state' = "idle"
    /\ need_measurement_signature' = call.signed
    /\ LET m == Head(rspQ) IN
       \/ /\ \/ m.bad = "header"
             \/ m.bad # "header" /\ m.version # spdm_version_sel
          /\ result' = "InvalidMsgField"
          /\ UNCHANGED <<content_changed, message_m, tainted>>
       \/ /\ m.bad # "header" /\ m.version = spdm_version_sel
          /\ m.code # "Measurements"
          /\ result' = "ErrorPeer"
          /\ UNCHANGED <<content_changed, message_m, tainted>>
       \/ /\ m.bad # "header" /\ m.version = spdm_version_sel
          /\ m.code = "Measurements"
          /\ HandleMeasurements(m, need_measurement_signature')
    /\ UNCHANGED <<spdm_version_sel, call, calls, rs_message_m, reqQ, faults>>

(***************************************************************************)
(* Requester: receive_message fails (transport timeout), status Io.  The   *)
(* request may still be, or have been, processed by the responder.         *)
(***************************************************************************)
ReceiveTimeout ==
    /\ rq_state = "sent"
    /\ rq_state' = "idle"
    /\ result' = "Io"
    /\ tainted' = TRUE
    /\ UNCHANGED <<spdm_version_sel, need_measurement_signature,
                   content_changed, message_m, call, calls, rs_message_m,
                   reqQ, rspQ, faults>>

-----------------------------------------------------------------------------
(***************************************************************************)
(* Responder (its handler is not part of this fragment; modelled from the  *)
(* spec, 4.7): it appends the request and its MEASUREMENTS response to its *)
(* own message_m, signs that transcript when the request asks for a        *)
(* signature and then resets it; or it answers with an ERROR response      *)
(* (e.g. Busy) and leaves its transcript alone.  content_changed travels   *)
(* in Param2 only from version 1.2 on.                                     *)
(***************************************************************************)
ErrorResponse(id) ==
    [code |-> "Error", version |-> spdm_version_sel, id |-> id,
     hasSig |-> FALSE, signedOver |-> <<>>, cc |-> "NotSupported",
     bad |-> "none"]

Respond ==
    /\ reqQ # <<>>
    /\ reqQ' = Tail(reqQ)
    /\ LET r == Head(reqQ)
           rs1 == rs_message_m \o <<ReqItem(r.id), RspItem(r.id, FALSE)>>
       IN  \/ \E cc \in IF spdm_version_sel >= SpdmVersion12
                          THEN ContentChanged ELSE {"NotSupported"} :
                 /\ rspQ' = Append(rspQ,
                        [code |-> "Measurements", version |-> spdm_version_sel,
                         id |-> r.id, hasSig |-> r.signed,
                         signedOver |-> IF r.signed THEN rs1 ELSE <<>>,
                         cc |-> cc, bad |-> "none"])
                 /\ rs_message_m' = IF r.signed THEN <<>> ELSE rs1
           \/ /\ rspQ' = Append(rspQ, ErrorResponse(r.id))
              /\ UNCHANGED rs_message_m
    /\ UNCHANGED <<spdm_version_sel, need_measurement_signature,
                   content_changed, message_m, rq_state, call, calls, result,
                   faults, tainted>>

-----------------------------------------------------------------------------
(***************************************************************************)
(* Transport faults: a request or a response is lost, or a response is     *)
(* damaged (header, version, response code, payload or signature).         *)
(***************************************************************************)
Fault(netVars) ==
    /\ faults < MaxFaults
    /\ faults' = faults + 1
    /\ tainted' = TRUE
    /\ netVars
    /\ UNCHANGED <<spdm_version_sel, need_measurement_signature,
                   content_changed, message_m, rq_state, call, calls, result,
                   rs_message_m>>

LoseRequest ==
    Fault(reqQ # <<>> /\ reqQ' = Tail(reqQ) /\ UNCHANGED rspQ)

LoseResponse ==
    Fault(rspQ # <<>> /\ rspQ' = Tail(rspQ) /\ UNCHANGED reqQ)

Damaged(m) ==
    {[m EXCEPT !.bad = b] : b \in {"header", "body", "sig"}}
    \cup {[m EXCEPT !.version = 16], [m EXCEPT !.code = "Other"]}
    \cup {[m EXCEPT !.cc = c] : c \in ContentChanged}

CorruptResponse ==
    Fault(/\ rspQ # <<>>
          /\ \E d \in Damaged(Head(rspQ)) \ {Head(rspQ)} :
                rspQ' = <<d>> \o Tail(rspQ)
          /\ UNCHANGED reqQ)

-----------------------------------------------------------------------------
Next ==
    \/ \E slot \in SlotArg, signed \in BOOLEAN : SendRequest(slot, signed)
    \/ ReceiveResponse
    \/ ReceiveTimeout
    \/ Respond
    \/ LoseRequest
    \/ LoseResponse
    \/ CorruptResponse

Spec == Init /\ [][Next]_vars

-----------------------------------------------------------------------------
(***************************************************************************)
(* Properties.                                                             *)
(***************************************************************************)

\* Transcript agreement (spec 3, invariant 3): when the requester is
\* between calls and no transport fault, timeout or transcript overflow has
\* happened since both sides last held empty transcripts, the requester's
\* message_m holds exactly the messages the responder's does, in the same
\* order.  This is what handle_spdm_measurement_record_response's appends
\* (request, then response without signature) and its resets after a
\* signed exchange must achieve.
TranscriptsInSync ==
    rq_state = "idle" /\ ~tainted => message_m = rs_message_m

\* The exchange in flight while no fault has happened (the strengthening of
\* TranscriptsInSync that each step preserves): between calls nothing is in
\* flight and both transcripts agree; during a call either the request is
\* still on its way, with the transcripts equal, or the responder's honest
\* answer is, and the responder's message_m is what the requester's will be
\* once it appends the pair (or empty, after a signed exchange, whose
\* signature covers exactly that transcript).
CallRequest == [id |-> call.id, signed |-> call.signed, slot |-> call.slot]
CallPair == <<ReqItem(call.id), RspItem(call.id, FALSE)>>
HonestAnswer(m) ==
    \/ m = ErrorResponse(call.id) /\ rs_message_m = message_m
    \/ /\ \E cc \in ContentChanged :
            m = [code |-> "Measurements", version |-> spdm_version_sel,
                 id |-> call.id, hasSig |-> call.signed,
                 signedOver |-> IF call.signed THEN message_m \o CallPair
                                               ELSE <<>>,
                 cc |-> cc, bad |-> "none"]
       /\ rs_message_m = IF call.signed THEN <<>> ELSE message_m \o CallPair
BetweenCalls ==
    /\ rq_state = "idle" /\ reqQ = <<>> /\ rspQ = <<>>
    /\ message_m = rs_message_m
RequestInFlight ==
    /\ rq_state = "sent" /\ reqQ = <<CallRequest>> /\ rspQ = <<>>
    /\ message_m = rs_message_m
AnswerInFlight ==
    /\ rq_state = "sent" /\ reqQ = <<>> /\ rspQ # <<>>
    /\ rspQ = <<Head(rspQ)>> /\ HonestAnswer(Head(rspQ))
ExchangeInStep ==
    ~tainted => BetweenCalls \/ RequestInFlight \/ AnswerInFlight

\* A signed MEASUREMENTS response from an honest responder is rejected
\* (VerifFail) only when the slot has no peer certificate chain or a fault
\* has disturbed the exchange since the transcripts were last in step: the
\* requester never refuses a correct signature because its own transcript
\* handling (order of appends, excluded signature bytes, resets,
\* need_measurement_signature) went wrong.
SignatureRejectedOnlyAfterFault ==
    [][ rq_state = "sent" /\ rq_state' = "idle" /\ result' = "VerifFail"
          => tainted \/ call.slot \notin PopulatedSlots ]_vars

\* Spec 4.6.2 orders the update of runtime_info.content_changed (step 8)
\* after signature verification (step 7): a call that ends in VerifFail
\* leaves content_changed as it was.  The code updates it as soon as the
\* response decodes.
ContentChangedOnlyFromVerified ==
    [][ rq_state = "sent" /\ rq_state' = "idle" /\ result' = "VerifFail"
          => UNCHANGED content_changed ]_vars

-----------------------------------------------------------------------------
(***************************************************************************)
(* Refinement: the requester keeps the per-call transcript contract of    *)
(* MeasurementCallSpec.  busy is the requester waiting in receive; the    *)
(* transport, the responder and their faults are steps that leave the     *)
(* caller's view unchanged.                                               *)
(***************************************************************************)
Abstract == INSTANCE MeasurementCallSpec
    WITH busy <- rq_state = "sent",
         transcript <- message_m,
         version <- spdm_version_sel

\* Whatever the transport and the responder do, every call leaves
\* message_m as MeasurementCallSpec allows for the status it returns: the
\* appends, the resets after a signature check and the BufferFull residue
\* of handle_spdm_measurement_record_response, the slot check of line 31,
\* and the content_changed update of line 133.
CallContractRefined == Abstract!SafeSpec
=============================================================================
