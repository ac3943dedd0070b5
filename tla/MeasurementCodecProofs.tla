----------------------- MODULE MeasurementCodecProofs -----------------------
(***************************************************************************)
(* Proofs about the GET_MEASUREMENTS codec model, for every value of the   *)
(* constants that satisfies CodecConstantsAssumption.                      *)
(***************************************************************************)
EXTENDS MeasurementCodec, SequenceTheorems, TLAPS

USE CodecConstantsAssumption

-----------------------------------------------------------------------------
(* The byte operations *)

\* Param2 packing is invertible: a slot below 8 or-ed with a content
\* changed value is a byte whose low mask gives back the slot and whose
\* content-changed mask gives back the value (measurement.rs:148, 175-176).
LEMMA PackParam2 ==
  ASSUME NEW s \in 0 .. 7, NEW cc \in ContentChanged
  PROVE  /\ BitOr(s, cc) \in Byte
         /\ BitAnd(BitOr(s, cc), SLOT_ID_MASK) = s
         /\ BitAnd(BitOr(s, cc), CONTENT_CHANGED_MASK) = cc
<1>1. s \in {0, 1, 2, 3, 4, 5, 6, 7} /\ cc \in {0, 16, 32}
  BY DEF ContentChanged
<1>2. BitOr(s, cc) = s + cc
  BY <1>1 DEF BitOr, BitAt
<1>3. s + cc \in Byte
  BY <1>1 DEF Byte
<1>4. BitAnd(s + cc, SLOT_ID_MASK) = s
  BY <1>1 DEF BitAnd, BitAt, SLOT_ID_MASK
<1>5. BitAnd(s + cc, CONTENT_CHANGED_MASK) = cc
  BY <1>1 DEF BitAnd, BitAt, CONTENT_CHANGED_MASK
<1>6. QED
  BY <1>2, <1>3, <1>4, <1>5

\* A slot sent alone in Param2 reads back as the slot with no
\* content-changed bits.
LEMMA SlotAlone ==
  ASSUME NEW s \in 0 .. 7
  PROVE  /\ BitAnd(s, SLOT_ID_MASK) = s
         /\ BitAnd(s, CONTENT_CHANGED_MASK) = 0
<1>1. s \in {0, 1, 2, 3, 4, 5, 6, 7}
  OBVIOUS
<1>2. QED
  BY <1>1 DEF BitAnd, BitAt, SLOT_ID_MASK, CONTENT_CHANGED_MASK

\* The content-changed values of the spec pass from_bits.
LEMMA ContentChangedPasses ==
  ASSUME NEW cc \in ContentChanged
  PROVE  ContentChangedKnown(cc)
<1>1. cc \in {0, 16, 32}
  BY DEF ContentChanged
<1>2. QED
  BY <1>1 DEF ContentChangedKnown, ContentChangedFlags, BitAnd, BitAt

\* The attribute values of a request pass from_bits, and SIGNATURE_REQUESTED
\* is their low bit.
LEMMA AttributesPass ==
  ASSUME NEW a \in AttributeBits
  PROVE  /\ AttributesKnown(a)
         /\ Contains(a, SIGNATURE_REQUESTED) <=> a % 2 = 1
<1>1. a \in {0, 1, 2, 3}
  BY DEF AttributeBits, SIGNATURE_REQUESTED, RAW_BIT_STREAM_REQUESTED
<1>2. QED
  BY <1>1 DEF AttributesKnown, Contains, BitAnd, BitOr, BitAt,
              SIGNATURE_REQUESTED, RAW_BIT_STREAM_REQUESTED

\* Whatever byte arrives, the masks give a slot in 0..15 and a
\* content-changed value of two bits, and an attribute byte that passes
\* from_bits is one of the four flag combinations.
LEMMA ByteFieldsTyped ==
  ASSUME NEW b \in Byte
  PROVE  /\ BitAnd(b, SLOT_ID_MASK) \in 0 .. 15
         /\ BitAnd(b, CONTENT_CHANGED_MASK) \in {0, 16, 32, 48}
         /\ AttributesKnown(b) => b \in AttributeBits
<1>1. BitAnd(b, SLOT_ID_MASK) \in 0 .. 15
  BY DEF Byte, BitAnd, BitAt, SLOT_ID_MASK
<1>2. BitAnd(b, CONTENT_CHANGED_MASK) \in {0, 16, 32, 48}
  BY DEF Byte, BitAnd, BitAt, CONTENT_CHANGED_MASK
<1>3. AttributesKnown(b) => b \in AttributeBits
  BY DEF Byte, AttributesKnown, BitAnd, BitOr, BitAt, AttributeBits,
         SIGNATURE_REQUESTED, RAW_BIT_STREAM_REQUESTED
<1>4. QED
  BY <1>1, <1>2, <1>3

-----------------------------------------------------------------------------
(* Writing the fields one after another *)

\* Two fields written after two fields.
LEMMA ConcatTwoTwo ==
  ASSUME NEW S, NEW x1 \in S, NEW x2 \in S, NEW y1 \in S, NEW y2 \in S
  PROVE  <<x1, x2>> \o <<y1, y2>> = <<x1, x2, y1, y2>>
<1>1. <<x1, x2>> \in Seq(S) /\ <<y1, y2>> \in Seq(S)
      /\ Len(<<x1, x2>>) = 2 /\ Len(<<y1, y2>>) = 2
  OBVIOUS
<1>2. /\ <<x1, x2>> \o <<y1, y2>> \in Seq(S)
      /\ Len(<<x1, x2>> \o <<y1, y2>>) = 4
      /\ \A i \in 1 .. 4 : (<<x1, x2>> \o <<y1, y2>>)[i] =
            IF i <= 2 THEN <<x1, x2>>[i] ELSE <<y1, y2>>[i - 2]
  BY <1>1, ConcatProperties
<1>3. <<x1, x2, y1, y2>> \in Seq(S) /\ Len(<<x1, x2, y1, y2>>) = 4
  OBVIOUS
<1>4. \A i \in 1 .. 4 : (<<x1, x2>> \o <<y1, y2>>)[i] = <<x1, x2, y1, y2>>[i]
  BY <1>2
<1>5. QED
  BY <1>2, <1>3, <1>4, SeqEqual

\* One field written after five fields.
LEMMA ConcatFiveOne ==
  ASSUME NEW S, NEW x1 \in S, NEW x2 \in S, NEW x3 \in S, NEW x4 \in S,
         NEW x5 \in S, NEW y1 \in S
  PROVE  <<x1, x2, x3, x4, x5>> \o <<y1>> = <<x1, x2, x3, x4, x5, y1>>
<1>1. <<x1, x2, x3, x4, x5>> \in Seq(S) /\ <<y1>> \in Seq(S)
      /\ Len(<<x1, x2, x3, x4, x5>>) = 5 /\ Len(<<y1>>) = 1
  OBVIOUS
<1>2. /\ <<x1, x2, x3, x4, x5>> \o <<y1>> \in Seq(S)
      /\ Len(<<x1, x2, x3, x4, x5>> \o <<y1>>) = 6
      /\ \A i \in 1 .. 6 : (<<x1, x2, x3, x4, x5>> \o <<y1>>)[i] =
            IF i <= 5 THEN <<x1, x2, x3, x4, x5>>[i] ELSE <<y1>>[i - 5]
  BY <1>1, ConcatProperties
<1>3. <<x1, x2, x3, x4, x5, y1>> \in Seq(S)
      /\ Len(<<x1, x2, x3, x4, x5, y1>>) = 6
  OBVIOUS
<1>4. \A i \in 1 .. 6 : (<<x1, x2, x3, x4, x5>> \o <<y1>>)[i]
                        = <<x1, x2, x3, x4, x5, y1>>[i]
  BY <1>2
<1>5. QED
  BY <1>2, <1>3, <1>4, SeqEqual

\* The fields a codec writes are wire elements.
LEMMA FieldsInWire ==
  /\ \A b \in Byte : U8(b) \in WireElement
  /\ \A n \in Nonces : Element("nonce", n) \in WireElement
  /\ \A r \in Records : Element("record", r) \in WireElement
  /\ \A o \in Opaques : Element("opaque", o) \in WireElement
  /\ \A g \in Signatures : Element("signature", g) \in WireElement
  /\ AttributeBits \subseteq Byte /\ 0 .. 7 \subseteq Byte
<1>1. \A b \in Byte : U8(b) \in WireElement
  BY DEF WireElement, U8, Element
<1>2. \A n \in Nonces : Element("nonce", n) \in WireElement
  BY DEF WireElement, Element
<1>3. \A r \in Records : Element("record", r) \in WireElement
  BY DEF WireElement, Element
<1>4. \A o \in Opaques : Element("opaque", o) \in WireElement
  BY DEF WireElement, Element
<1>5. \A g \in Signatures : Element("signature", g) \in WireElement
  BY DEF WireElement, Element
<1>6. AttributeBits \subseteq Byte /\ 0 .. 7 \subseteq Byte
  BY DEF AttributeBits, Byte, SIGNATURE_REQUESTED, RAW_BIT_STREAM_REQUESTED
<1>7. QED
  BY <1>1, <1>2, <1>3, <1>4, <1>5, <1>6

-----------------------------------------------------------------------------
(* Round trips *)

\* spdm_read of what spdm_encode wrote for a GET_MEASUREMENTS request
\* gives back the payload, with nonce and slot_id zeroed when the request
\* is unsigned (measurement.rs:58-113).
LEMMA RequestDecodesEncoded ==
  ASSUME NEW p \in RequestPayload
  PROVE  DecodeRequest(EncodeRequest(p)) = SpecRequest(p)
<1> DEFINE a == p.measurement_attributes
           w == EncodeRequest(p)
<1>1. a \in AttributeBits /\ p.measurement_operation \in Byte
      /\ p.nonce \in Nonces /\ p.slot_id \in 0 .. 7
  BY DEF RequestPayload
<1>2. AttributesKnown(a) /\ (Contains(a, SIGNATURE_REQUESTED) <=> a % 2 = 1)
  BY <1>1, AttributesPass
<1>3. CASE Contains(a, SIGNATURE_REQUESTED)
  <2>1. w = << U8(a), U8(p.measurement_operation), Element("nonce", p.nonce),
               U8(p.slot_id) >>
    <3>1. U8(a) \in WireElement /\ U8(p.measurement_operation) \in WireElement
          /\ Element("nonce", p.nonce) \in WireElement /\ U8(p.slot_id) \in WireElement
      BY <1>1, FieldsInWire
    <3>2. QED
      BY <1>3, <3>1, ConcatTwoTwo DEF EncodeRequest, w
  <2>2. RequestFieldsRead(w)
    BY <1>2, <1>3, <2>1 DEF RequestFieldsRead, ReadsByte, ReadsField, U8, Element
  <2>3. DecodeRequest(w) = [measurement_attributes |-> a,
                            measurement_operation |-> p.measurement_operation,
                            nonce |-> p.nonce, slot_id |-> p.slot_id]
    BY <1>3, <2>1, <2>2 DEF DecodeRequest, U8, Element
  <2>4. SpecRequest(p) = p
    BY <1>2, <1>3 DEF SpecRequest
  <2>5. QED
    BY <2>3, <2>4 DEF RequestPayload
<1>4. CASE ~Contains(a, SIGNATURE_REQUESTED)
  <2>1. w = << U8(a), U8(p.measurement_operation) >>
    BY <1>4 DEF EncodeRequest, w
  <2>2. RequestFieldsRead(w)
    BY <1>2, <1>4, <2>1 DEF RequestFieldsRead, ReadsByte, ReadsField, U8, Element
  <2>3. DecodeRequest(w) = [measurement_attributes |-> a,
                            measurement_operation |-> p.measurement_operation,
                            nonce |-> ZeroNonce, slot_id |-> 0]
    BY <1>4, <2>1, <2>2 DEF DecodeRequest, U8, Element
  <2>4. SpecRequest(p) = [p EXCEPT !.nonce = ZeroNonce, !.slot_id = 0]
    BY <1>2, <1>4 DEF SpecRequest
  <2>5. QED
    BY <2>3, <2>4 DEF RequestPayload
<1>5. QED
  BY <1>3, <1>4
\* The Param2 byte the responder writes unpacks into its slot and into
\* its content_changed where the context packs it, NotSupported otherwise
\* (measurement.rs:145-156, 175-177).
LEMMA Param2Unpacks ==
  ASSUME NEW p \in ResponsePayload, NEW c \in Context
  PROVE  /\ Param2(p, c) \in Byte
         /\ BitAnd(Param2(p, c), SLOT_ID_MASK) = p.slot_id
         /\ BitAnd(Param2(p, c), CONTENT_CHANGED_MASK)
              = IF c.version >= SpdmVersion12 /\ c.runtime_content_change_support
                THEN p.content_changed ELSE 0
         /\ ContentChangedKnown(BitAnd(Param2(p, c), CONTENT_CHANGED_MASK))
<1>1. p.slot_id \in 0 .. 7 /\ p.content_changed \in ContentChanged
      /\ c.version \in {16, 17, SpdmVersion12}
      /\ c.runtime_content_change_support \in BOOLEAN
  BY DEF ResponsePayload, Context
<1>2. (c.version >= SpdmVersion12) <=> (c.version = SpdmVersion12)
  BY <1>1 DEF SpdmVersion12
<1>3. 0 \in ContentChanged
  BY DEF ContentChanged
<1>4. CASE c.version = SpdmVersion12 /\ c.runtime_content_change_support
  <2>1. Param2(p, c) = BitOr(p.slot_id, p.content_changed)
    BY <1>4 DEF Param2
  <2>2. QED
    BY <1>1, <1>2, <1>4, <2>1, PackParam2, ContentChangedPasses
<1>5. CASE ~(c.version = SpdmVersion12 /\ c.runtime_content_change_support)
  <2>1. Param2(p, c) = p.slot_id
    BY <1>5 DEF Param2
  <2>2. p.slot_id \in Byte
    BY <1>1, FieldsInWire
  <2>3. QED
    BY <1>1, <1>2, <1>3, <1>5, <2>1, <2>2, SlotAlone, ContentChangedPasses
<1>6. QED
  BY <1>4, <1>5

\* Param1 is a byte, and the one the spec expects.
LEMMA Param1Byte ==
  ASSUME NEW p \in ResponsePayload
  PROVE  Param1(p) \in Byte
         /\ Param1(p) = IF p.number_of_measurement = 1 THEN 0
                        ELSE p.number_of_measurement
<1>1. p.number_of_measurement \in Byte
  BY DEF ResponsePayload
<1>2. QED
  BY <1>1 DEF Param1, Byte

\* spdm_read of what spdm_encode wrote for a MEASUREMENTS response gives
\* back the payload up to what the spec lets the context drop: Param1 = 0
\* for one measurement, content_changed where it is not packed, and the
\* signature where none is sent (measurement.rs:128-195).
LEMMA ResponseDecodesEncoded ==
  ASSUME NEW p \in ResponsePayload, NEW c \in Context
  PROVE  DecodeResponse(EncodeResponse(p, c), c) = SpecResponse(p, c)
<1> DEFINE P1 == Param1(p)
           P2 == Param2(p, c)
           head == << U8(P1), U8(P2), Element("record", p.measurement_record),
                      Element("nonce", p.nonce), Element("opaque", p.opaque) >>
           w == EncodeResponse(p, c)
           cc == IF c.version >= SpdmVersion12 /\ c.runtime_content_change_support
                 THEN p.content_changed ELSE 0
           sig == IF c.need_measurement_signature THEN p.signature ELSE ZeroSignature
           expected == [number_of_measurement |-> P1, content_changed |-> cc,
                        slot_id |-> p.slot_id,
                        measurement_record |-> p.measurement_record,
                        nonce |-> p.nonce, opaque |-> p.opaque, signature |-> sig]
<1>1. /\ P1 \in Byte /\ P2 \in Byte
      /\ BitAnd(P2, SLOT_ID_MASK) = p.slot_id
      /\ BitAnd(P2, CONTENT_CHANGED_MASK) = cc
      /\ ContentChangedKnown(BitAnd(P2, CONTENT_CHANGED_MASK))
  BY Param1Byte, Param2Unpacks
<1>2. /\ p.measurement_record \in Records /\ p.nonce \in Nonces
      /\ p.opaque \in Opaques /\ p.signature \in Signatures
      /\ c.need_measurement_signature \in BOOLEAN
  BY DEF ResponsePayload, Context
<1>3. SpecResponse(p, c) = expected
  <2>1. P1 = IF p.number_of_measurement = 1 THEN 0 ELSE p.number_of_measurement
    BY Param1Byte
  <2>2. SpecResponse(p, c) = [p EXCEPT !.number_of_measurement = P1,
                                       !.content_changed = cc,
                                       !.signature = sig]
    BY <2>1 DEF SpecResponse, cc, sig
  <2>3. QED
    BY <2>2 DEF ResponsePayload, expected
<1>4. /\ U8(P1) \in WireElement /\ U8(P2) \in WireElement
      /\ Element("record", p.measurement_record) \in WireElement
      /\ Element("nonce", p.nonce) \in WireElement
      /\ Element("opaque", p.opaque) \in WireElement
      /\ Element("signature", p.signature) \in WireElement
  BY <1>1, <1>2, FieldsInWire
<1>5. CASE c.need_measurement_signature
  <2>1. w = << U8(P1), U8(P2), Element("record", p.measurement_record),
               Element("nonce", p.nonce), Element("opaque", p.opaque),
               Element("signature", p.signature) >>
    BY <1>4, <1>5, ConcatFiveOne DEF EncodeResponse, w, P1, P2
  <2>2. ResponseFieldsRead(w, c)
    BY <1>1, <1>5, <2>1 DEF ResponseFieldsRead, SignatureRead, ReadsByte,
                            ReadsField, U8, Element
  <2>3. DecodeResponse(w, c) = expected
    BY <1>1, <1>5, <2>1, <2>2 DEF DecodeResponse, U8, Element
  <2>4. QED
    BY <1>3, <2>3
<1>6. CASE ~c.need_measurement_signature
  <2>1. w = head
    BY <1>6 DEF EncodeResponse, w, head, P1, P2
  <2>2. ResponseFieldsRead(w, c)
    BY <1>1, <1>6, <2>1 DEF ResponseFieldsRead, SignatureRead, ReadsByte,
                            ReadsField, U8, Element, head
  <2>3. DecodeResponse(w, c) = expected
    BY <1>1, <1>6, <2>1, <2>2 DEF DecodeResponse, U8, Element, head
  <2>4. QED
    BY <1>3, <2>3
<1>7. QED
  BY <1>2, <1>5, <1>6
-----------------------------------------------------------------------------
(* Truncation *)

\* The first n elements of a message, as the transport may deliver them.
LEMMA PrefixFacts ==
  ASSUME NEW w \in Seq(WireElement), NEW n \in 0 .. Len(w)
  PROVE  /\ SubSeq(w, 1, n) \in Seq(WireElement)
         /\ Len(SubSeq(w, 1, n)) = n
         /\ \A i \in 1 .. n : SubSeq(w, 1, n)[i] = w[i]
<1>1. \A i \in 1 .. n : w[i] \in WireElement
  OBVIOUS
<1>2. QED
  BY <1>1, SubSeqProperties

\* What spdm_encode writes is a message of wire elements, of length 2 or 4
\* for a request and 5 or 6 for a response.
LEMMA EncodedShape ==
  /\ \A p \in RequestPayload :
        /\ EncodeRequest(p) \in Seq(WireElement)
        /\ Len(EncodeRequest(p))
             = IF Contains(p.measurement_attributes, SIGNATURE_REQUESTED)
               THEN 4 ELSE 2
        /\ EncodeRequest(p)[1] = U8(p.measurement_attributes)
  /\ \A p \in ResponsePayload, c \in Context :
        /\ EncodeResponse(p, c) \in Seq(WireElement)
        /\ Len(EncodeResponse(p, c))
             = IF c.need_measurement_signature THEN 6 ELSE 5
<1>1. ASSUME NEW p \in RequestPayload
      PROVE  /\ EncodeRequest(p) \in Seq(WireElement)
             /\ Len(EncodeRequest(p))
                  = IF Contains(p.measurement_attributes, SIGNATURE_REQUESTED)
                    THEN 4 ELSE 2
             /\ EncodeRequest(p)[1] = U8(p.measurement_attributes)
  <2>1. /\ U8(p.measurement_attributes) \in WireElement
        /\ U8(p.measurement_operation) \in WireElement
        /\ Element("nonce", p.nonce) \in WireElement
        /\ U8(p.slot_id) \in WireElement
    BY FieldsInWire DEF RequestPayload
  <2>2. CASE Contains(p.measurement_attributes, SIGNATURE_REQUESTED)
    <3>1. EncodeRequest(p) = << U8(p.measurement_attributes),
                                U8(p.measurement_operation),
                                Element("nonce", p.nonce), U8(p.slot_id) >>
      BY <2>1, <2>2, ConcatTwoTwo DEF EncodeRequest
    <3>2. QED
      BY <2>1, <2>2, <3>1
  <2>3. CASE ~Contains(p.measurement_attributes, SIGNATURE_REQUESTED)
    <3>1. EncodeRequest(p) = << U8(p.measurement_attributes),
                                U8(p.measurement_operation) >>
      BY <2>3 DEF EncodeRequest
    <3>2. QED
      BY <2>1, <2>3, <3>1
  <2>4. QED
    BY <2>2, <2>3
<1>2. ASSUME NEW p \in ResponsePayload, NEW c \in Context
      PROVE  /\ EncodeResponse(p, c) \in Seq(WireElement)
             /\ Len(EncodeResponse(p, c))
                  = IF c.need_measurement_signature THEN 6 ELSE 5
  <2>1. /\ U8(Param1(p)) \in WireElement /\ U8(Param2(p, c)) \in WireElement
        /\ Element("record", p.measurement_record) \in WireElement
        /\ Element("nonce", p.nonce) \in WireElement
        /\ Element("opaque", p.opaque) \in WireElement
        /\ Element("signature", p.signature) \in WireElement
    BY Param1Byte, Param2Unpacks, FieldsInWire DEF ResponsePayload
  <2>2. CASE c.need_measurement_signature
    <3>1. EncodeResponse(p, c)
            = << U8(Param1(p)), U8(Param2(p, c)),
                 Element("record", p.measurement_record),
                 Element("nonce", p.nonce), Element("opaque", p.opaque),
                 Element("signature", p.signature) >>
      BY <2>1, <2>2, ConcatFiveOne DEF EncodeResponse
    <3>2. QED
      BY <2>1, <2>2, <3>1
  <2>3. CASE ~c.need_measurement_signature
    <3>1. EncodeResponse(p, c)
            = << U8(Param1(p)), U8(Param2(p, c)),
                 Element("record", p.measurement_record),
                 Element("nonce", p.nonce), Element("opaque", p.opaque) >>
      BY <2>3 DEF EncodeResponse
    <3>2. QED
      BY <2>1, <2>3, <3>1
  <2>4. QED
    BY <2>2, <2>3 DEF Context
<1>3. QED
  BY <1>1, <1>2

\* A request cut short in transit does not decode: each missing field is
\* a `?` that returns None (measurement.rs:92-102).
LEMMA TruncatedRequestRejected ==
  ASSUME NEW p \in RequestPayload,
         NEW n \in 0 .. Len(EncodeRequest(p)) - 1
  PROVE  DecodeRequest(SubSeq(EncodeRequest(p), 1, n)) = NoPayload
<1> DEFINE w == EncodeRequest(p)
           t == SubSeq(w, 1, n)
<1>1. w \in Seq(WireElement) /\ w[1] = U8(p.measurement_attributes)
      /\ Len(w) = IF Contains(p.measurement_attributes, SIGNATURE_REQUESTED)
                  THEN 4 ELSE 2
  BY EncodedShape
<1>2. Len(t) = n /\ \A i \in 1 .. n : t[i] = w[i]
  BY <1>1, PrefixFacts
<1>3. ~RequestFieldsRead(t)
  <2>1. CASE n <= 1
    BY <1>2, <2>1 DEF RequestFieldsRead, ReadsByte, ReadsField
  <2>2. CASE n > 1
    <3>1. t[1] = U8(p.measurement_attributes)
          /\ Contains(p.measurement_attributes, SIGNATURE_REQUESTED) /\ n < 4
      BY <1>1, <1>2, <2>2
    <3>2. QED
      BY <1>2, <3>1 DEF RequestFieldsRead, ReadsByte, ReadsField, U8, Element
  <2>3. QED
    BY <2>1, <2>2
<1>4. QED
  BY <1>3 DEF DecodeRequest

\* A response cut short in transit does not decode: the opaque data, or
\* the signature when one is expected, is missing (measurement.rs:178-182).
LEMMA TruncatedResponseRejected ==
  ASSUME NEW p \in ResponsePayload, NEW c \in Context,
         NEW n \in 0 .. Len(EncodeResponse(p, c)) - 1
  PROVE  DecodeResponse(SubSeq(EncodeResponse(p, c), 1, n), c) = NoPayload
<1> DEFINE w == EncodeResponse(p, c)
           t == SubSeq(w, 1, n)
<1>1. w \in Seq(WireElement)
      /\ Len(w) = IF c.need_measurement_signature THEN 6 ELSE 5
  BY EncodedShape
<1>2. Len(t) = n
  BY <1>1, PrefixFacts
<1>3. ~ResponseFieldsRead(t, c)
  <2>1. CASE n <= 4
    BY <1>2, <2>1 DEF ResponseFieldsRead, ReadsField
  <2>2. CASE n = 5
    <3>1. c.need_measurement_signature
      BY <1>1, <2>2 DEF Context
    <3>2. QED
      BY <1>2, <2>2, <3>1 DEF ResponseFieldsRead, SignatureRead, ReadsField
  <2>3. QED
    BY <1>1, <2>1, <2>2
<1>4. QED
  BY <1>3 DEF DecodeResponse
-----------------------------------------------------------------------------
(* The inductive invariant *)

\* What spdm_encode wrote for this exchange, and what spdm_read makes of w.
Encoded == IF kind = "request" THEN EncodeRequest(payload)
           ELSE EncodeResponse(payload, ctx)
DecodedFrom(w) == IF kind = "request" THEN DecodeRequest(w)
                  ELSE DecodeResponse(w, ctx)

\* The wire is empty before the encode, is what was encoded unless it was
\* damaged, is a strict prefix of it when truncated, and what was decoded
\* is spdm_read of the wire.
WireInv ==
    /\ payload \in IF kind = "request" THEN RequestPayload ELSE ResponsePayload
    /\ phase = "built" => wire = << >> /\ damage = "none"
    /\ phase # "built" /\ damage = "none" => wire = Encoded
    /\ damage = "truncated" =>
          /\ Len(wire) < Len(Encoded)
          /\ wire = SubSeq(Encoded, 1, Len(wire))
    /\ phase = "decoded" => decoded = DecodedFrom(wire)

IInv == TypeOK /\ WireInv
\* An element read off the wire under a field name carries a value of that
\* field's kind.
LEMMA ElementKinds ==
  ASSUME NEW e \in WireElement
  PROVE  /\ e.field = "u8" => e.v \in Byte
         /\ e.field = "nonce" => e.v \in Nonces
         /\ e.field = "record" => e.v \in Records
         /\ e.field = "opaque" => e.v \in Opaques
         /\ e.field = "signature" => e.v \in Signatures
  BY DEF WireElement, U8, Element

\* Whatever arrives, spdm_read returns None or a payload of the decoded
\* types: a damaged attribute byte must pass from_bits, Param2 is masked.
LEMMA DecodeTyped ==
  ASSUME NEW w \in Seq(WireElement), NEW c \in Context
  PROVE  /\ DecodeRequest(w) \in {NoPayload} \cup DecodedRequest
         /\ DecodeResponse(w, c) \in {NoPayload} \cup DecodedResponse
<1>1. DecodeRequest(w) \in {NoPayload} \cup DecodedRequest
  <2>1. CASE RequestFieldsRead(w)
    <3>1. w[1].v \in Byte /\ AttributesKnown(w[1].v) /\ w[2].v \in Byte
      BY <2>1, ElementKinds DEF RequestFieldsRead, ReadsByte, ReadsField
    <3>2. w[1].v \in AttributeBits
      BY <3>1, ByteFieldsTyped
    <3>3. Contains(w[1].v, SIGNATURE_REQUESTED) => w[3].v \in Nonces /\ w[4].v \in Byte
      BY <2>1, ElementKinds DEF RequestFieldsRead, ReadsByte, ReadsField
    <3>4. 0 \in Byte
      BY DEF Byte
    <3>5. QED
      BY <2>1, <3>1, <3>2, <3>3, <3>4 DEF DecodeRequest, DecodedRequest
  <2>2. QED
    BY <2>1 DEF DecodeRequest
<1>2. DecodeResponse(w, c) \in {NoPayload} \cup DecodedResponse
  <2>1. CASE ResponseFieldsRead(w, c)
    <3>1. /\ w[1].v \in Byte /\ w[2].v \in Byte /\ w[3].v \in Records
          /\ w[4].v \in Nonces /\ w[5].v \in Opaques
      BY <2>1, ElementKinds DEF ResponseFieldsRead, ReadsByte, ReadsField
    <3>2. /\ BitAnd(w[2].v, SLOT_ID_MASK) \in 0 .. 15
          /\ BitAnd(w[2].v, CONTENT_CHANGED_MASK) \in {0, 16, 32, 48}
      BY <3>1, ByteFieldsTyped
    <3>3. c.need_measurement_signature => w[6].v \in Signatures
      BY <2>1, ElementKinds DEF ResponseFieldsRead, SignatureRead, ReadsField
    <3>4. QED
      BY <2>1, <3>1, <3>2, <3>3 DEF DecodeResponse, DecodedResponse
  <2>2. QED
    BY <2>1 DEF DecodeResponse
<1>3. QED
  BY <1>1, <1>2

\* The initial states satisfy the invariant.
LEMMA IInvInit == Init => IInv
<1> SUFFICES ASSUME Init PROVE IInv
  OBVIOUS
<1>1. << >> \in Seq(WireElement)
  OBVIOUS
<1>2. payload \in RequestPayload \cup ResponsePayload
  BY DEF Init
<1>3. QED
  BY <1>1, <1>2 DEF Init, IInv, TypeOK, WireInv
\* Encoding writes exactly the encoded message.
LEMMA EncodeKeeps == IInv /\ Encode => IInv'
<1> SUFFICES ASSUME IInv, Encode PROVE IInv'
  OBVIOUS
<1>1. Encoded \in Seq(WireElement)
  BY EncodedShape DEF IInv, WireInv, Encoded, TypeOK
<1>2. wire' = Encoded /\ Encoded' = Encoded
  BY DEF Encode, Encoded
<1>3. QED
  BY <1>1, <1>2 DEF IInv, WireInv, TypeOK, Encode

\* A truncation keeps a strict prefix of the encoded message.
LEMMA TruncateKeeps == IInv /\ Truncate => IInv'
<1> SUFFICES ASSUME IInv, Truncate PROVE IInv'
  OBVIOUS
<1>1. PICK n \in 0 .. (Len(wire) - 1) : wire' = SubSeq(wire, 1, n)
  BY DEF Truncate
<1>2. wire = Encoded /\ wire \in Seq(WireElement) /\ Encoded' = Encoded
  BY DEF Truncate, IInv, WireInv, TypeOK, Encoded
<1>3. wire' \in Seq(WireElement) /\ Len(wire') = n
  BY <1>1, <1>2, PrefixFacts
<1>4. Len(wire') < Len(Encoded') /\ wire' = SubSeq(Encoded', 1, Len(wire'))
  BY <1>1, <1>2, <1>3
<1>5. QED
  BY <1>3, <1>4 DEF IInv, WireInv, TypeOK, Truncate

\* A damaged byte is still a byte.
LEMMA CorruptKeeps == IInv /\ Corrupt => IInv'
<1> SUFFICES ASSUME IInv, Corrupt PROVE IInv'
  OBVIOUS
<1>1. PICK i \in DOMAIN wire, b \in DamagedBytes :
        wire' = [wire EXCEPT ![i] = U8(b)]
  BY DEF Corrupt
<1>2. wire \in Seq(WireElement) /\ U8(b) \in WireElement
  BY FieldsInWire DEF IInv, TypeOK
<1>3. wire' \in Seq(WireElement)
  BY <1>1, <1>2, ExceptSeq
<1>4. QED
  BY <1>3 DEF IInv, WireInv, TypeOK, Corrupt, Encoded, DecodedFrom

\* Decoding stores spdm_read of the wire.
LEMMA DecodeKeeps == IInv /\ Decode => IInv'
<1> SUFFICES ASSUME IInv, Decode PROVE IInv'
  OBVIOUS
<1>1. decoded' = DecodedFrom(wire) /\ DecodedFrom(wire)' = DecodedFrom(wire)
      /\ Encoded' = Encoded
  BY DEF Decode, DecodedFrom, Encoded
<1>2. DecodedFrom(wire) \in {NoPayload} \cup DecodedRequest \cup DecodedResponse
  BY DecodeTyped DEF IInv, TypeOK, DecodedFrom
<1>3. QED
  BY <1>1, <1>2 DEF IInv, WireInv, TypeOK, Decode

\* Every step keeps the invariant.
LEMMA IInvStep == IInv /\ [Next]_vars => IInv'
<1> SUFFICES ASSUME IInv, [Next]_vars PROVE IInv'
  OBVIOUS
<1>1. CASE Encode  BY <1>1, EncodeKeeps
<1>2. CASE Truncate  BY <1>2, TruncateKeeps
<1>3. CASE Corrupt  BY <1>3, CorruptKeeps
<1>4. CASE Decode  BY <1>4, DecodeKeeps
<1>5. CASE UNCHANGED vars
  BY <1>5 DEF IInv, WireInv, TypeOK, vars, Encoded, DecodedFrom
<1>6. QED
  BY <1>1, <1>2, <1>3, <1>4, <1>5 DEF Next
LEMMA IInvInvariant == Spec => []IInv
  BY IInvInit, IInvStep, PTL DEF Spec

-----------------------------------------------------------------------------
(* The properties of the codec_roundtrip run, for all constants *)

\* Every reachable state is well typed: in particular whatever bytes
\* arrive, a decoded slot is below 16 and a decoded attribute byte is one
\* of the four flag combinations.
THEOREM TypeCorrect == Spec => []TypeOK
  BY IInvInvariant, PTL DEF IInv

\* An intact GET_MEASUREMENTS request decodes to the payload that was
\* encoded, with nonce and slot_id zeroed when unsigned.
THEOREM RequestRoundTripHolds == Spec => []RequestRoundTrip
<1>1. IInv => RequestRoundTrip
  <2> SUFFICES ASSUME IInv, phase = "decoded", damage = "none",
                      kind = "request"
               PROVE  decoded = SpecRequest(payload)
    BY DEF RequestRoundTrip
  <2>1. payload \in RequestPayload /\ wire = EncodeRequest(payload)
        /\ decoded = DecodeRequest(wire)
    BY DEF IInv, WireInv, Encoded, DecodedFrom
  <2>2. QED
    BY <2>1, RequestDecodesEncoded
<1>2. QED
  BY <1>1, IInvInvariant, PTL

\* An intact MEASUREMENTS response decodes to the payload that was encoded,
\* up to the fields the spec lets the context drop.
THEOREM ResponseRoundTripHolds == Spec => []ResponseRoundTrip
<1>1. IInv => ResponseRoundTrip
  <2> SUFFICES ASSUME IInv, phase = "decoded", damage = "none",
                      kind = "response"
               PROVE  decoded = SpecResponse(payload, ctx)
    BY DEF ResponseRoundTrip
  <2>1. payload \in ResponsePayload /\ ctx \in Context
        /\ wire = EncodeResponse(payload, ctx)
        /\ decoded = DecodeResponse(wire, ctx)
    BY DEF IInv, WireInv, TypeOK, Encoded, DecodedFrom
  <2>2. QED
    BY <2>1, ResponseDecodesEncoded
<1>2. QED
  BY <1>1, IInvInvariant, PTL

\* No message cut short in transit is accepted, request or response.
THEOREM TruncationRejectedHolds == Spec => []TruncationRejected
<1>1. IInv => TruncationRejected
  <2> SUFFICES ASSUME IInv, phase = "decoded", damage = "truncated"
               PROVE  decoded = NoPayload
    BY DEF TruncationRejected
  <2>1. Len(wire) \in Nat /\ Len(wire) < Len(Encoded)
        /\ wire = SubSeq(Encoded, 1, Len(wire))
        /\ decoded = DecodedFrom(wire) /\ ctx \in Context
    BY DEF IInv, WireInv, TypeOK
  <2>2. CASE kind = "request"
    <3>1. payload \in RequestPayload
          /\ Len(wire) \in 0 .. Len(EncodeRequest(payload)) - 1
          /\ wire = SubSeq(EncodeRequest(payload), 1, Len(wire))
          /\ decoded = DecodeRequest(wire)
      BY <2>1, <2>2 DEF IInv, WireInv, Encoded, DecodedFrom
    <3>2. QED
      BY <3>1, TruncatedRequestRejected
  <2>3. CASE kind # "request"
    <3>1. payload \in ResponsePayload
          /\ Len(wire) \in 0 .. Len(EncodeResponse(payload, ctx)) - 1
          /\ wire = SubSeq(EncodeResponse(payload, ctx), 1, Len(wire))
          /\ decoded = DecodeResponse(wire, ctx)
      BY <2>1, <2>3 DEF IInv, WireInv, Encoded, DecodedFrom
    <3>2. QED
      BY <2>1, <3>1, TruncatedResponseRejected
  <2>4. QED
    BY <2>2, <2>3
<1>2. QED
  BY <1>1, IInvInvariant, PTL
=============================================================================
