------------------------- MODULE MeasurementCallSpec -------------------------
(***************************************************************************)
(* What send_receive_spdm_measurement promises its caller about the L1/L2  *)
(* transcript message_m, without the transport or the responder: a call is *)
(* refused before any I/O, or it is busy for a while and returns one       *)
(* status. message_m changes only when a call returns, and then only as    *)
(* the status says: a failed exchange leaves it as it was (a full buffer   *)
(* may leave the request alone behind), an unsigned Ok appends this call's *)
(* request and a response to this call or to an earlier one (the transport *)
(* carries no call number, so a response that arrives after its call timed *)
(* out is taken by the next call), and a signed exchange, whether the      *)
(* signature verifies or not, leaves it empty. A signed Ok needs a peer    *)
(* certificate chain for the slot, and content_changed moves only on a     *)
(* MEASUREMENTS response of version 1.2 or later.                          *)
(***************************************************************************)
EXTENDS Naturals, Sequences

CONSTANTS
    NumSlots,        \* SPDM_MAX_SLOT_NUMBER
    PopulatedSlots,  \* slots with a peer certificate chain
    MsgMCap          \* capacity of message_m, in messages

VARIABLES
    busy,            \* a call has sent its request and not yet returned
    call,            \* id, signed flag and slot of the current call
    result,          \* status of the last call
    transcript,      \* message_m
    content_changed, \* runtime_info.content_changed
    version          \* the negotiated version

avars == <<busy, call, result, transcript, content_changed, version>>

\* The request of call id and the response to call j, without signature
\* bytes.
Req(id) == [kind |-> "req", id |-> id, sig |-> FALSE]
Rsp(j) == [kind |-> "rsp", id |-> j, sig |-> FALSE]

Init ==
    /\ busy = FALSE
    /\ call = [id |-> 0, signed |-> FALSE, slot |-> 0]
    /\ result = "None"
    /\ transcript = << >>
    /\ content_changed = "NotSupported"
    /\ version \in {17, 18}

\* A call fails before its request goes out: only an out-of-range slot
\* is InvalidStateLocal.
Refuse ==
    /\ busy = FALSE /\ busy' = FALSE
    /\ result' \in {"InvalidStateLocal", "RandomFail", "Io"}
    /\ result' = "InvalidStateLocal" <=> call'.slot >= NumSlots
    /\ UNCHANGED <<transcript, content_changed, version>>

\* The request of a call on a valid slot goes out.
Begin ==
    /\ busy = FALSE /\ busy' = TRUE
    /\ call'.slot < NumSlots
    /\ UNCHANGED <<result, transcript, content_changed, version>>

\* How message_m may change when a call returns with status result'.
TranscriptOutcome ==
    \/ /\ result' \in {"InvalidMsgField", "ErrorPeer", "Io"}
       /\ transcript' = transcript
    \/ /\ result' = "BufferFull"
       /\ Len(transcript) + 2 > MsgMCap
       /\ transcript' \in {transcript, Append(transcript, Req(call.id))}
    \/ /\ result' = "Ok" /\ call.signed = FALSE
       /\ \E j \in 0 .. call.id :
             transcript' = transcript \o <<Req(call.id), Rsp(j)>>
    \/ /\ result' \in {"Ok", "VerifFail"} /\ call.signed = TRUE
       /\ transcript' = << >>

\* The call returns.
Finish ==
    /\ busy = TRUE /\ busy' = FALSE
    /\ TranscriptOutcome
    /\ result' = "Ok" /\ call.signed = TRUE => call.slot \in PopulatedSlots
    /\ content_changed' # content_changed =>
          version >= 18 /\ result' \in {"Ok", "VerifFail", "BufferFull"}
    /\ UNCHANGED <<call, version>>

Next == Refuse \/ Begin \/ Finish

SafeSpec == Init /\ [][Next]_avars
=============================================================================
