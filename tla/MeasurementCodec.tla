--------------------------- MODULE MeasurementCodec ---------------------------
(***************************************************************************)
(* The GET_MEASUREMENTS request and MEASUREMENTS response payload codecs   *)
(* of src/spdmlib/src/message/measurement.rs: spdm_encode writes the       *)
(* payload to a Writer, spdm_read parses it back from a Reader and         *)
(* returns None at the first field that cannot be read.                    *)
(*                                                                         *)
(* One behaviour is one codec exchange: a payload and a context are        *)
(* chosen, the payload is encoded, the wire may be cut short or have its   *)
(* u8 fields damaged in transit, and the receiver decodes it under the    *)
(* same context.                                                           *)
(*                                                                         *)
(* Data abstraction.  The wire is a sequence of elements [field, v].  A   *)
(* u8 (Param1, Param2, the operation, slot_id) is one element whose v is  *)
(* its value in 0..255, because the bit layout is what the code computes. *)
(* The nonce, the measurement record, the opaque data and the signature   *)
(* are read and written by codecs outside this file; each is one element  *)
(* whose v is a token standing for its bytes.  A truncated wire loses     *)
(* whole elements from its tail.                                          *)
(***************************************************************************)
EXTENDS Naturals, Sequences, U8Bits

CONSTANTS
    Versions,       \* negotiated SPDM versions, as the version byte (0x10, ...)
    SlotIds,        \* slot ids a payload may carry
    Numbers,        \* number_of_measurement values
    Operations,     \* measurement_operation bytes
    Nonces,         \* nonce tokens; ZeroNonce is SpdmNonceStruct::default()
    ZeroNonce,
    Records, Opaques, Signatures,
    ZeroSignature,  \* SpdmSignatureStruct::default()
    DamagedBytes,   \* values a u8 on the wire may be damaged into
    NoPayload       \* None from spdm_read, and "not decoded yet"

SpdmVersion12 == 18

\* spdm_version_sel is one of the SpdmVersion values of this build (1.0,
\* 1.1, 1.2); a response names a slot below SPDM_MAX_SLOT_NUMBER (8), which
\* the requester checks before it sends (get_measurements_req.rs:31); the
\* counts, operations and damaged values are u8; the defaults are tokens
\* of their kind.
ASSUME CodecConstantsAssumption ==
    /\ Versions \subseteq {16, 17, SpdmVersion12}
    /\ SlotIds \subseteq 0 .. 7
    /\ Numbers \subseteq Byte
    /\ Operations \subseteq Byte
    /\ DamagedBytes \subseteq Byte
    /\ ZeroNonce \in Nonces
    /\ ZeroSignature \in Signatures

\* A slot mask that also keeps the content-changed bits.
SLOT_ID_MASK_WIDE == 63

\* measurement.rs:17-18
SLOT_ID_MASK == 15          \* 0b0000_1111
CONTENT_CHANGED_MASK == 48  \* 0b0011_0000

\* measurement.rs:20-26, SpdmMeasurementAttributes
SIGNATURE_REQUESTED == 1
RAW_BIT_STREAM_REQUESTED == 2
AttributeBits == {0, SIGNATURE_REQUESTED, RAW_BIT_STREAM_REQUESTED,
                  SIGNATURE_REQUESTED + RAW_BIT_STREAM_REQUESTED}

\* SpdmMeasurementContentChanged (crate::common): NOT_SUPPORTED 0x00,
\* DETECTED_CHANGE 0x10, NO_CHANGE 0x20, as the spec's bit layout lists them.
ContentChanged == {0, 16, 32}
ContentChangedFlags == 16 + 32

Element(f, v) == [field |-> f, v |-> v]
U8(b) == Element("u8", b)

Context == [version : Versions,
            runtime_content_change_support : BOOLEAN,
            need_measurement_signature : BOOLEAN]

RequestPayload == [measurement_attributes : AttributeBits,
                   measurement_operation : Operations,
                   nonce : Nonces, slot_id : SlotIds]

ResponsePayload == [number_of_measurement : Numbers,
                    content_changed : ContentChanged, slot_id : SlotIds,
                    measurement_record : Records, nonce : Nonces,
                    opaque : Opaques, signature : Signatures]

VARIABLES
    kind,       \* "request" or "response": which payload this exchange carries
    ctx,        \* the SpdmContext fields the codecs read
    payload,    \* the payload handed to spdm_encode
    wire,       \* the bytes the Writer holds, then the bytes the Reader gets
    phase,      \* "built", "sent", "decoded"
    damage,     \* "none", "truncated" or "corrupted": what happened in transit
    decoded     \* what spdm_read returned

vars == <<kind, ctx, payload, wire, phase, damage, decoded>>

\* bitflags `contains`
Contains(bits, flag) == BitAnd(bits, flag) = flag

\* SpdmMeasurementAttributes::from_bits (measurement.rs:33-37): Some only
\* when no bit outside the declared flags is set.
AttributesKnown(bits) ==
    BitAnd(bits, BitOr(SIGNATURE_REQUESTED, RAW_BIT_STREAM_REQUESTED)) = bits

\* SpdmMeasurementContentChanged::from_bits (measurement.rs:177)
ContentChangedKnown(bits) == BitAnd(bits, ContentChangedFlags) = bits

\* The reader can take a u8, or an element of field f, at position i.
ReadsField(w, i, f) == i <= Len(w) /\ w[i].field = f
ReadsByte(w, i) == ReadsField(w, i, "u8")

-----------------------------------------------------------------------------
(* GetMeasurementsRequest *)

\* An encoder that forgets slot_id after the nonce.
EncodeRequestNoSlot(p) ==
    << U8(p.measurement_attributes), U8(p.measurement_operation) >>
    \o IF Contains(p.measurement_attributes, SIGNATURE_REQUESTED)
       THEN << Element("nonce", p.nonce) >>
       ELSE << >>

\* measurement.rs:58-86: param1, param2, then nonce and slot_id only when
\* SIGNATURE_REQUESTED is set.
EncodeRequest(p) ==
    << U8(p.measurement_attributes), U8(p.measurement_operation) >>
    \o IF Contains(p.measurement_attributes, SIGNATURE_REQUESTED)
       THEN << Element("nonce", p.nonce), U8(p.slot_id) >>
       ELSE << >>

\* measurement.rs:92-105.  The operation is an enum_builder enum: every
\* byte reads, unknown ones as Unknown(b).
RequestFieldsRead(w) ==
    /\ ReadsByte(w, 1) /\ AttributesKnown(w[1].v)
    /\ ReadsByte(w, 2)
    /\ Contains(w[1].v, SIGNATURE_REQUESTED) =>
          ReadsField(w, 3, "nonce") /\ ReadsByte(w, 4)

\* A decoder that fills a missing nonce or slot_id with its default.
DecodeRequestLenient(w) ==
    IF ~(ReadsByte(w, 1) /\ AttributesKnown(w[1].v) /\ ReadsByte(w, 2))
    THEN NoPayload
    ELSE LET signed == Contains(w[1].v, SIGNATURE_REQUESTED) IN
         [measurement_attributes |-> w[1].v,
          measurement_operation  |-> w[2].v,
          nonce   |-> IF signed /\ ReadsField(w, 3, "nonce")
                      THEN w[3].v ELSE ZeroNonce,
          slot_id |-> IF signed /\ ReadsByte(w, 4) THEN w[4].v ELSE 0]

\* measurement.rs:88-113
DecodeRequest(w) ==
    IF ~RequestFieldsRead(w) THEN NoPayload
    ELSE LET signed == Contains(w[1].v, SIGNATURE_REQUESTED) IN
         [measurement_attributes |-> w[1].v,
          measurement_operation  |-> w[2].v,
          nonce   |-> IF signed THEN w[3].v ELSE ZeroNonce,
          slot_id |-> IF signed THEN w[4].v ELSE 0]

-----------------------------------------------------------------------------
(* MeasurementsResponse *)

\* measurement.rs:137-144
Param1(p) == IF p.number_of_measurement = 1 THEN 0 ELSE p.number_of_measurement

\* Param2 packing without the runtime_content_change_support check.
Param2NoSupportCheck(p, c) ==
    IF c.version = SpdmVersion12
    THEN BitOr(p.slot_id, p.content_changed)
    ELSE p.slot_id

\* measurement.rs:145-156
Param2(p, c) ==
    IF c.version = SpdmVersion12 /\ c.runtime_content_change_support
    THEN BitOr(p.slot_id, p.content_changed)
    ELSE p.slot_id

\* measurement.rs:128-167
EncodeResponse(p, c) ==
    << U8(Param1(p)), U8(Param2(p, c)),
       Element("record", p.measurement_record),
       Element("nonce", p.nonce),
       Element("opaque", p.opaque) >>
    \o IF c.need_measurement_signature
       THEN << Element("signature", p.signature) >>
       ELSE << >>

\* The signature is read only when need_measurement_signature
\* (measurement.rs:181-185).
SignatureRead(w, c) ==
    c.need_measurement_signature => ReadsField(w, 6, "signature")

\* measurement.rs:173-182: each `?` that can return None.
ResponseFieldsRead(w, c) ==
    /\ ReadsByte(w, 1) /\ ReadsByte(w, 2)
    /\ ContentChangedKnown(BitAnd(w[2].v, CONTENT_CHANGED_MASK))
    /\ ReadsField(w, 3, "record")
    /\ ReadsField(w, 4, "nonce")
    /\ ReadsField(w, 5, "opaque")
    /\ SignatureRead(w, c)

\* measurement.rs:169-195
DecodeResponse(w, c) ==
    IF ~ResponseFieldsRead(w, c) THEN NoPayload
    ELSE [number_of_measurement |-> w[1].v,
          content_changed    |-> BitAnd(w[2].v, CONTENT_CHANGED_MASK),
          slot_id            |-> BitAnd(w[2].v, SLOT_ID_MASK),
          measurement_record |-> w[3].v,
          nonce              |-> w[4].v,
          opaque             |-> w[5].v,
          signature |-> IF c.need_measurement_signature
                        THEN w[6].v ELSE ZeroSignature]

-----------------------------------------------------------------------------
(* One exchange *)

\* What a Writer can hold: u8 values and the tokens of the nested structures.
WireElement ==
    {U8(b) : b \in Byte} \cup [field : {"nonce"}, v : Nonces]
    \cup [field : {"record"}, v : Records] \cup [field : {"opaque"}, v : Opaques]
    \cup [field : {"signature"}, v : Signatures]

\* What spdm_read can return from any wire: every field a byte or a token
\* of its kind, the attributes past from_bits, the masked Param2 fields.
DecodedRequest ==
    [measurement_attributes : AttributeBits, measurement_operation : Byte,
     nonce : Nonces, slot_id : Byte]
DecodedResponse ==
    [number_of_measurement : Byte, content_changed : {0, 16, 32, 48},
     slot_id : 0 .. 15, measurement_record : Records, nonce : Nonces,
     opaque : Opaques, signature : Signatures]

TypeOK ==
    /\ kind \in {"request", "response"}
    /\ ctx \in Context
    /\ payload \in RequestPayload \cup ResponsePayload
    /\ wire \in Seq(WireElement)
    /\ phase \in {"built", "sent", "decoded"}
    /\ damage \in {"none", "truncated", "corrupted"}
    /\ decoded \in {NoPayload} \cup DecodedRequest \cup DecodedResponse

Init ==
    /\ kind \in {"request", "response"}
    /\ ctx \in Context
    /\ payload \in IF kind = "request" THEN RequestPayload ELSE ResponsePayload
    /\ wire = << >>
    /\ phase = "built"
    /\ damage = "none"
    /\ decoded = NoPayload

\* spdm_encode into an empty Writer (measurement.rs:58-86, 128-167).
Encode ==
    /\ phase = "built"
    /\ wire' = IF kind = "request" THEN EncodeRequest(payload)
               ELSE EncodeResponse(payload, ctx)
    /\ phase' = "sent"
    /\ UNCHANGED <<kind, ctx, payload, damage, decoded>>

\* The transport delivers only a prefix of the message.
Truncate ==
    /\ phase = "sent" /\ damage = "none"
    /\ \E n \in 0..(Len(wire) - 1) : wire' = SubSeq(wire, 1, n)
    /\ damage' = "truncated"
    /\ UNCHANGED <<kind, ctx, payload, phase, decoded>>

\* The transport changes one u8 field into another byte value.
Corrupt ==
    /\ phase = "sent" /\ damage = "none"
    /\ \E i \in DOMAIN wire, b \in DamagedBytes :
          /\ wire[i].field = "u8" /\ wire[i].v # b
          /\ wire' = [wire EXCEPT ![i] = U8(b)]
    /\ damage' = "corrupted"
    /\ UNCHANGED <<kind, ctx, payload, phase, decoded>>

\* spdm_read over a Reader on the received bytes (measurement.rs:88-113,
\* 169-195).
Decode ==
    /\ phase = "sent"
    /\ decoded' = IF kind = "request" THEN DecodeRequest(wire)
                  ELSE DecodeResponse(wire, ctx)
    /\ phase' = "decoded"
    /\ UNCHANGED <<kind, ctx, payload, wire, damage>>

Next == Encode \/ Truncate \/ Corrupt \/ Decode

Spec == Init /\ [][Next]_vars

-----------------------------------------------------------------------------
(* Properties *)

\* What the spec (section 4.2 and scenarios 1-2) says a request decodes to:
\* the attributes and operation always; nonce and slot_id only when bit 0
\* (SIGNATURE_REQUESTED) is set, zero otherwise.
SpecRequest(p) ==
    IF p.measurement_attributes % 2 = 1 THEN p
    ELSE [p EXCEPT !.nonce = ZeroNonce, !.slot_id = 0]

\* What the spec (section 4.2, section 9) says a response decodes to:
\* content_changed only when version >= 1.2 and the responder supports
\* runtime content change, NotSupported otherwise; the signature only when
\* need_measurement_signature; number_of_measurement 1 sent as 0.
SpecResponse(p, c) ==
    [p EXCEPT
      !.number_of_measurement = IF @ = 1 THEN 0 ELSE @,
      !.content_changed = IF c.version >= SpdmVersion12
                             /\ c.runtime_content_change_support
                          THEN @ ELSE 0,
      !.signature = IF c.need_measurement_signature THEN @ ELSE ZeroSignature]

\* A GET_MEASUREMENTS request that arrives intact is decoded by spdm_read
\* into the payload spdm_encode was given, with the unsigned fields zeroed.
RequestRoundTrip ==
    (phase = "decoded" /\ damage = "none" /\ kind = "request")
        => decoded = SpecRequest(payload)

\* A MEASUREMENTS response that arrives intact is decoded into the payload
\* the responder encoded, up to the fields the spec lets the context drop:
\* Param2's slot and content_changed bits are unpacked as they were packed.
ResponseRoundTrip ==
    (phase = "decoded" /\ damage = "none" /\ kind = "response")
        => decoded = SpecResponse(payload, ctx)

\* A message cut short in transit is never accepted: spdm_read returns
\* None rather than filling a missing nonce, slot_id or signature with a
\* default.
TruncationRejected ==
    (phase = "decoded" /\ damage = "truncated") => decoded = NoPayload

\* Whatever bytes arrive, a decoded response carries a content_changed
\* value of the spec's enumeration (NotSupported, DetectedChange,
\* NoChange), which the requester then stores (get_measurements_req.rs).
ContentChangedDecodesToKnown ==
    (phase = "decoded" /\ kind = "response" /\ decoded # NoPayload)
        => decoded.content_changed \in ContentChanged

\* A payload fits a context when nothing in it is meant to be dropped:
\* content_changed is only set where it is packed, and the signature is
\* the default where none is sent.
Compatible(p, c) ==
    /\ p.content_changed # 0 =>
          c.version >= SpdmVersion12 /\ c.runtime_content_change_support
    /\ ~c.need_measurement_signature => p.signature = ZeroSignature

\* Spec section 8, invariant 1: for every payload P and compatible context
\* C, decode(encode(P, C), C) = P.
ResponseDecodesToEncoded ==
    (phase = "decoded" /\ damage = "none" /\ kind = "response"
       /\ Compatible(payload, ctx))
        => decoded = payload

=============================================================================
