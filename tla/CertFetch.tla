----------------------------- MODULE CertFetch -----------------------------
(***************************************************************************)
(* The requester's GET_CERTIFICATE flow                                    *)
(* (src/spdmlib/src/requester/get_certificate_req.rs):                     *)
(* send_receive_spdm_certificate fetches the responder's certificate chain *)
(* in portions of at most MaxPortion bytes, copying each portion into      *)
(* peer_cert_chain.cert_chain.data at the current offset and appending     *)
(* request and response to message_b, until the responder reports no      *)
(* remainder; then, if a peer chain was provisioned, it checks the         *)
(* fetched chain against it.                                               *)
(*                                                                         *)
(* A chain is a sequence of byte positions: HeaderLen = 4 + hash size      *)
(* positions of header (length, reserved, root hash) followed by the DER   *)
(* certificates.  Byte values come from a small set.  The responder is    *)
(* honest (it serves its chain from the requested offset) or, when        *)
(* ResponderFaulty, reports arbitrary portion and remainder lengths.       *)
(***************************************************************************)
EXTENDS Naturals, Sequences

CONSTANTS
    MaxPortion,      \* config::MAX_SPDM_CERT_PORTION_LEN
    MaxChain,        \* config::MAX_SPDM_CERT_CHAIN_DATA_SIZE
    HashSize,        \* negotiate_info.base_hash_sel.get_size()
    MsgBCap,         \* capacity of message_b, in messages
    NumSlots,        \* SPDM_MAX_SLOT_NUMBER
    Bytes,           \* byte values
    RspChains,       \* the chains the responder may hold
    PinnedChains,    \* provision_info.peer_cert_chain_data: Some(chain)
    NoChain,         \* provision_info.peer_cert_chain_data: None
    ResponderFaulty, \* the responder may report arbitrary lengths
    RootHash(_),     \* hash_all of a root certificate (HashSize bytes)
    ChainVerifies(_) \* cert_operation::verify_cert_chain succeeds

HeaderLen == 4 + HashSize

ASSUME CertConstantsAssumption ==
    /\ MaxPortion \in Nat \ {0}
    /\ HashSize \in Nat
    /\ MaxChain \in Nat /\ MaxChain > HeaderLen
    \* offset + portion_length is computed in u16 (line 62)
    /\ MaxChain + MaxPortion < 65536
    /\ MsgBCap \in Nat
    /\ NumSlots \in Nat \ {0}
    /\ 0 \in Bytes
    /\ RspChains \subseteq Seq(Bytes)
    /\ \A c \in RspChains : Len(c) <= MaxChain
    /\ PinnedChains \subseteq Seq(Bytes)
    /\ NoChain \notin PinnedChains
    /\ ResponderFaulty \in BOOLEAN

\* The slot ids a caller may pass: every valid one and one out of range.
SlotArg == 0 .. NumSlots

Positions == 0 .. MaxChain - 1

\* The first n bytes of a data buffer, as a sequence.
Prefix(d, n) == [i \in 1 .. n |-> d[i - 1]]

\* The bytes [from, to) of a data buffer, as a sequence.
Slice(d, from, to) == [i \in 1 .. to - from |-> d[from + i - 1]]

Min2(a, b) == IF a <= b THEN a ELSE b

Status == {"None", "Ok", "EIO", "EINVAL", "EFAULT"}

\* The errors send_receive_spdm_certificate_partial returns: Io from
\* send_message or receive_message, ENOMEM (lines 45, 65, 83), EFAULT
\* (line 89), EINVAL (line 92) and EIO (line 94).
PartialError == {"Io", "ENOMEM", "EFAULT", "EINVAL", "EIO"}

VARIABLES
    st,            \* "idle", or "loop": in send_receive_spdm_certificate
    slot,          \* slot_id argument of the current call
    offset,        \* local offset of send_receive_spdm_certificate
    length,        \* local length
    data,          \* peer_info.peer_cert_chain.cert_chain.data
    data_size,     \* peer_info.peer_cert_chain.cert_chain.data_size
    message_b,     \* runtime_info.message_b
    result,        \* status of the last call
    partial_result, \* error of the partial exchange that ended the call
    rsp_chain,     \* the responder's certificate chain
    pinned         \* provision_info.peer_cert_chain_data

vars == <<st, slot, offset, length, data, data_size, message_b, result,
          partial_result, rsp_chain, pinned>>

\* A message of message_b.
BItem == [kind : {"req", "rsp"}, slot : SlotArg, offset : 0 .. MaxChain]

TypeOK ==
    /\ st \in {"idle", "loop"}
    /\ slot \in SlotArg
    /\ offset \in 0 .. MaxChain
    /\ length \in 0 .. MaxPortion
    /\ data \in [Positions -> Bytes]
    /\ data_size \in 0 .. MaxChain
    /\ message_b \in Seq(BItem) /\ Len(message_b) <= MsgBCap
    /\ result \in Status
    /\ partial_result \in PartialError \cup {"None"}
    /\ rsp_chain \in RspChains
    /\ pinned \in PinnedChains \cup {NoChain}

Init ==
    /\ st = "idle"
    /\ slot = 0
    /\ offset = 0
    /\ length = 0
    /\ data = [i \in Positions |-> 0]
    /\ data_size = 0
    /\ message_b = <<>>
    /\ result = "None"
    /\ partial_result = "None"
    /\ rsp_chain \in RspChains
    /\ pinned \in PinnedChains \cup {NoChain}

-----------------------------------------------------------------------------
(***************************************************************************)
(* send_receive_spdm_certificate: a call starts with offset 0 and length   *)
(* MAX_SPDM_CERT_PORTION_LEN.  The slot_id is not range-checked.           *)
(***************************************************************************)
StartCall(s) ==
    /\ st = "idle"
    /\ st' = "loop"
    /\ slot' = s
    /\ offset' = 0
    /\ length' = MaxPortion
    /\ result' = "None"
    /\ partial_result' = "None"
    /\ UNCHANGED <<data, data_size, message_b, rsp_chain, pinned>>

\* ManagedBuffer::append_message on message_b: fails when full.
FitsB(t, n) == Len(t) + n <= MsgBCap
AppendBHashed(t, item) == t
AppendB(t, item) == Append(t, item)

\* The (portion_length, remainder_length) pairs a response may carry for a
\* request at offset o of length len.  An honest responder serves its
\* chain from o.
Answers(o, len) ==
    IF ResponderFaulty
      THEN (0 .. MaxPortion + 1) \X (0 .. MaxPortion + 1)
      ELSE LET p == Min2(len, Len(rsp_chain) - o)
           IN  {<<p, Len(rsp_chain) - o - p>>}

\* The bytes of a portion of length p at offset o: the responder's chain,
\* padded with zeros past its end.
PortionBytes(o, p) ==
    [i \in 1 .. p |-> IF o + i <= Len(rsp_chain) THEN rsp_chain[o + i] ELSE 0]

\* The size check of line 61-66.
PortionFitsOffByOne(o, p) == p <= MaxPortion /\ o + p <= MaxChain + 1
PortionFits(o, p) == p <= MaxPortion /\ o + p <= MaxChain

\* data_size after a portion of length p at offset o (line 73-74).
NewDataSizeNoOffset(o, p) == p
NewDataSize(o, p) == o + p

EndCallPropagate(e) ==
    /\ st' = "idle"
    /\ partial_result' = e
    /\ result' = IF e = "Io" THEN "EIO" ELSE e
    /\ UNCHANGED <<slot, offset, length>>

\* The partial exchange fails with error e and the call returns at once;
\* whatever e was, it reports EIO (line 111).
EndCall(e) ==
    /\ st' = "idle"
    /\ partial_result' = e
    /\ result' = "EIO"
    /\ UNCHANGED <<slot, offset, length>>

(***************************************************************************)
(* One iteration of the loop: send_receive_spdm_certificate_partial and    *)
(* the update of offset and length that follows it.  The request is sent, *)
(* then appended to message_b; the response is received and decoded; its  *)
(* portion is bounds-checked, copied into data and data_size set, then the *)
(* response is appended to message_b.  Each failure returns at once, with  *)
(* what was already changed left changed.                                  *)
(***************************************************************************)
FetchPortion ==
    /\ st = "loop"
    /\ length # 0
    /\ LET req == [kind |-> "req", slot |-> slot, offset |-> offset]
           rsp == [kind |-> "rsp", slot |-> slot, offset |-> offset]
       IN
       \* send_message fails
       \/ /\ EndCall("Io")
          /\ UNCHANGED <<data, data_size, message_b>>
       \* message_b is full: ENOMEM after the request went out
       \/ /\ ~FitsB(message_b, 1)
          /\ EndCall("ENOMEM")
          /\ UNCHANGED <<data, data_size, message_b>>
       \* receive fails, the header does not parse (EIO), the response
       \* code is not CERTIFICATE (EINVAL) or the payload does not decode
       \* (EFAULT)
       \/ /\ FitsB(message_b, 1)
          /\ message_b' = AppendB(message_b, req)
          /\ \E e \in {"Io", "EIO", "EINVAL", "EFAULT"} : EndCall(e)
          /\ UNCHANGED <<data, data_size>>
       \/ /\ FitsB(message_b, 1)
          /\ \E ans \in Answers(offset, length) :
               LET p == ans[1]
                   r == ans[2]
               IN
               \/ /\ ~PortionFits(offset, p)
                  /\ message_b' = AppendB(message_b, req)
                  /\ EndCall("ENOMEM")
                  /\ UNCHANGED <<data, data_size>>
               \/ /\ PortionFits(offset, p)
                  /\ data' = [i \in Positions |->
                                IF offset <= i /\ i < offset + p
                                  THEN PortionBytes(offset, p)[i - offset + 1]
                                  ELSE data[i]]
                  /\ data_size' = NewDataSize(offset, p)
                  /\ \/ /\ ~FitsB(message_b, 2)
                        /\ message_b' = AppendB(message_b, req)
                        /\ EndCall("ENOMEM")
                     \/ /\ FitsB(message_b, 2)
                        /\ message_b' = AppendB(AppendB(message_b, req), rsp)
                        /\ offset' = offset + p
                        /\ length' = Min2(r, MaxPortion)
                        /\ UNCHANGED <<st, slot, result, partial_result>>
    /\ UNCHANGED <<rsp_chain, pinned>>

(***************************************************************************)
(* After the loop (length = 0): when a peer chain is provisioned, the      *)
(* fetched chain must be longer than its header, the hash of its root     *)
(* certificate must equal the root hash in the header, the chain without  *)
(* header must equal the provisioned one in size and bytes, and           *)
(* verify_cert_chain must accept it.                                       *)
(***************************************************************************)
VerifyChain ==
    /\ st = "loop"
    /\ length = 0
    /\ LET stripped == Slice(data, HeaderLen, data_size)
       IN  result' =
             CASE pinned = NoChain -> "Ok"
               [] data_size <= HeaderLen -> "EIO"
               [] RootHash(stripped) # Slice(data, 4, HeaderLen) -> "EINVAL"
               [] Len(stripped) # Len(pinned) -> "EINVAL"
               [] stripped # pinned -> "EINVAL"
               [] ~ChainVerifies(stripped) -> "EFAULT"
               [] OTHER -> "Ok"
    /\ st' = "idle"
    /\ UNCHANGED <<slot, offset, length, data, data_size, message_b,
                   partial_result, rsp_chain, pinned>>

Next ==
    \/ \E s \in SlotArg : StartCall(s)
    \/ FetchPortion
    \/ VerifyChain

\* The requester's loop runs on its own: each iteration and the final
\* check are taken once enabled (the I/O inside an iteration returns or
\* fails).
Fairness == WF_vars(FetchPortion) /\ WF_vars(VerifyChain)

Spec == Init /\ [][Next]_vars /\ Fairness

-----------------------------------------------------------------------------
(***************************************************************************)
(* Properties.                                                             *)
(***************************************************************************)

\* Certificate assembly (spec 8, invariant 6): a call that returns Ok from
\* an honest responder leaves data[0 .. data_size) equal to the responder's
\* whole chain, although it arrived in several portions whose offsets,
\* sizes and copies the loop computed.
ChainAssembled ==
    st = "idle" /\ result = "Ok" /\ ~ResponderFaulty
        => Prefix(data, data_size) = rsp_chain

\* Every call of send_receive_spdm_certificate returns, whatever portion
\* and remainder lengths the responder reports (a zero portion with a
\* non-zero remainder makes no progress).
Termination ==
    st = "loop" ~> st = "idle"

\* Spec 3, invariant 5: slot identifiers are in [0, MAX_SLOTS);
\* out-of-range is rejected before I/O.  No GET_CERTIFICATE request
\* recorded in message_b names a slot out of range.
SlotInRangeBeforeIO ==
    \A i \in 1 .. Len(message_b) : message_b[i].slot < NumSlots

\* Spec 4.6.1: buffer exhaustion (ENOMEM), a wrong response code (EINVAL)
\* and a payload that does not decode (EFAULT) each map to a distinct
\* SpdmStatus.  A call of send_receive_spdm_certificate that one of these
\* partial-exchange failures ends returns that failure's status.
FailureStatusKept ==
    (st = "idle" /\ partial_result \in {"ENOMEM", "EINVAL", "EFAULT"})
        => result = partial_result

-----------------------------------------------------------------------------
(***************************************************************************)
(* Refinement.  Seen from its caller, a call is busy while the loop runs,  *)
(* and the chain it leaves is data[0 .. data_size) once it has returned.   *)
(* The portions the loop fetches are stuttering steps of the abstract      *)
(* specification.                                                          *)
(***************************************************************************)
Abstract == INSTANCE CertChainSpec
    WITH busy <- st = "loop",
         chain <- IF st = "idle" THEN Prefix(data, data_size) ELSE << >>,
         peer_chain <- rsp_chain,
         Honest <- ~ResponderFaulty

\* send_receive_spdm_certificate implements the safety part of what it
\* promises: a failed call returns EIO with (from an honest responder) a
\* prefix of the responder's chain in the buffer, a finished call leaves
\* the whole chain, and an Ok with a provisioned chain means the fetched
\* chain matches it.  (That every call returns, the abstract fairness, is
\* Termination.)
CertChainRefined == Abstract!SafeSpec
=============================================================================
