# TLA+ verification of the SPDM requester fragment

This directory holds TLA+ models of the SPDM requester code under
`src/spdmlib/src`. TLC checks them on small instances. TLAPS proofs cover, for every value
of the constants, three components:
- the GET_MEASUREMENTS transcript handling, including its refinement of an
  abstract per-call contract;
- the GET_CERTIFICATE chain assembly, including its refinement of an
  abstract fetch;
- the GET_MEASUREMENTS codec: type correctness, both round trips and the
  rejection of truncated messages.

## 1. The system and its parts (inventory)

The fragment contains four source files. Two of them are protocol engines,
one is a codec and one holds callback types.

| # | Part | Source | State it changes | Operations |
|---|------|--------|------------------|------------|
| C1 | GET_MEASUREMENTS requester | `requester/get_measurements_req.rs` | `runtime_info.need_measurement_signature`, `runtime_info.content_changed`, `runtime_info.message_m` (or the session's), the caller's record | `send_receive_spdm_measurement(_record)`, `encode_spdm_measurement_record`, `handle_spdm_measurement_record_response`, `verify_measurement_signature` (raw and hashed transcript builds) |
| C2 | GET_CERTIFICATE requester | `requester/get_certificate_req.rs` | `peer_info.peer_cert_chain.cert_chain.{data,data_size}`, `runtime_info.message_b` | `send_receive_spdm_certificate`, `send_receive_spdm_certificate_partial` |
| C3 | GET_MEASUREMENTS codec | `message/measurement.rs` | none (pure) | attribute bit set, request and response `spdm_encode` / `spdm_read` |
| C4 | Secret callbacks | `secret/secret_callback.rs` | none | type declarations only |
| C5 | Responder measurement handler | not in the fragment (spec 4.7) | the responder's `message_m` | answers GET_MEASUREMENTS; signs and resets its transcript |
| C6 | Transport / device I/O | not in the fragment (spec 4.8) | messages in flight | send, receive, timeout |
| C7 | Crypto facade | not in the fragment | none | hash, asymmetric verify, certificate chain parsing, random |
| C8 | Sessions | not in the fragment | per-session `message_m` | secured send and receive |

**How the parts interact.** C1 and C2 are the requester side of two flows.
Each flow sends a request over C6 and appends the request and the response
to a transcript (`message_m` or `message_b`). C1 checks the responder's
signature over its `message_m` with C7, using the peer certificate chain of
the requested slot. C2 fills that chain portion by portion and checks it
against a pinned chain. The responder (C5) keeps its own `message_m`. It
must hold exactly the requester's transcript when it signs; otherwise an
honest signature is rejected. C3 turns payloads into bytes and back. The
appended response excludes the signature bytes that C3 reads when
`need_measurement_signature` is set.

**What is hard about this code.** Several things are hard to get right:
- keeping two transcripts on two machines equal across lost, damaged and
  late messages;
- appends that fail half way;
- resets that must happen on both branches of a check;
- a flag that must be set before the response is decoded;
- a chunked loop whose progress depends on what the peer reports;
- u16 arithmetic at the buffer bounds.

The hazard list in `PROJECT.json` gives each of these at the line where it
bites.

## 2. Modules

### `MeasurementReq` (C1, with C5 and C6 from the spec)

This module models the requester's GET_MEASUREMENTS call on the main
channel, with an honest responder and a transport that can lose, damage or
delay messages.

**Variables:**
- `spdm_version_sel`, `need_measurement_signature`, `content_changed` and
  `message_m` are the requester's fields of the same names;
- `rq_state` is `"idle"` between calls and `"sent"` while the requester
  waits in `receive_message`;
- `call` is the id, signed flag and slot of the current call;
- `calls` counts the requests that reached the transport;
- `result` is the last status returned;
- `rs_message_m` is the responder's transcript;
- `reqQ` and `rspQ` are the messages in flight;
- `faults` counts the faults injected so far;
- `tainted` is a history variable. It becomes TRUE at a fault, a timeout
  or a `BufferFull`, and becomes FALSE again only at a signed exchange that
  leaves both sides empty and nothing in flight.

**Data abstraction:**
- A request is identified by its call id. This stands for the fresh nonce
  of `encode_spdm_measurement_record`.
- A transcript is a sequence of items `[kind, id, sig]`. The `sig` field
  records whether the signature bytes were included.
- A response carries `signedOver`, the responder's transcript at signing
  time. The signature check `Verified` holds when all of these hold:
  - a signature was read;
  - the slot holds a peer chain (`PopulatedSlots`);
  - the signature was not damaged;
  - `signedOver` equals the L1/L2 transcript the requester built.

**Actions:**
- `SendRequest`: the slot check, a nonce or send failure, or the send
  (lines 22-98).
- `ReceiveResponse`: all of `handle_spdm_measurement_record_response`, in
  this order:
  - the need flag;
  - the header and version checks;
  - ERROR and other codes;
  - decode;
  - `content_changed`;
  - the two appends, each of which may fail with `BufferFull`;
  - verify, then reset on both branches.
- `ReceiveTimeout`: `receive_message` fails.
- `Respond`: the responder, from the spec.
- `LoseRequest`, `LoseResponse` and `CorruptResponse`: the transport, from
  the spec.

**Refinement.** `MeasurementCallSpec` states what
`send_receive_spdm_measurement` promises its caller, without the transport
or the responder. A call is `busy` from the send until it returns, and:
- `Refuse`: the call fails before any I/O. Its status is
  `InvalidStateLocal` exactly when the slot is out of range (line 31).
- `Begin`: the request of a call on a valid slot goes out.
- `Finish`: the call returns, and `TranscriptOutcome` relates its status to
  `message_m`:
  - an early error (`InvalidMsgField`, `ErrorPeer`, `Io`) leaves it alone;
  - `BufferFull` happens only when the pair did not fit, and may leave the
    request behind;
  - an unsigned `Ok` appends this call's request and a response to this
    call or to an earlier one;
  - a signed exchange, `Ok` or `VerifFail`, leaves it empty.

  A signed `Ok` needs a peer chain for the slot. `content_changed` moves
  only with a version of at least 1.2, and only on an `Ok`, `VerifFail` or
  `BufferFull` return.

"Or to an earlier one" is what the code does. The transport carries no
call number, so after a timeout the next call takes the late response to
the previous call. The first version of the contract said "this call's
response", and TLC found that interleaving in six steps.

`MeasurementReq` instantiates the contract as `Abstract` with this
mapping:
- `busy` is `rq_state = "sent"`;
- `transcript` is `message_m`;
- `version` is `spdm_version_sel`;
- `call`, `result` and `content_changed` are passed through.

The responder and the transport faults are stutters of the contract.

### `CertFetch` (C2)

This module models `send_receive_spdm_certificate`.

**Variables:**
- `offset` and `length` are the loop's locals;
- `data` and `data_size` are the peer chain buffer;
- `message_b`, `result` and `slot` are as in the code;
- `rsp_chain` is the responder's chain;
- `pinned` is the provisioned chain, or `NoChain`.

**Actions:**
- `StartCall`: starts a call.
- `FetchPortion`: one loop iteration, with every early return of
  `send_receive_spdm_certificate_partial` and the offset/length update. The
  early returns are:
  - send failure;
  - `message_b` full;
  - receive, header, code or decode failure;
  - the bounds check;
  - copy and `data_size`, then a failed or successful response append.
- `VerifyChain`: the checks against the pinned chain, in the code's order:
  - the size against the header;
  - the root hash;
  - the length;
  - the bytes;
  - `verify_cert_chain`.

The root hash and `verify_cert_chain` are constant operators given by the
MC module.

The responder is honest or, when `ResponderFaulty`, reports any portion and
remainder lengths up to `MaxPortion + 1`. That is the first value the
bounds check must reject.

**Refinement.** `CertChainSpec` states what a call promises, without
portions. A call is `busy` until it returns, and it returns in one of two
ways:
- `Fail` returns EIO and leaves whatever part of the chain was fetched.
  From an honest responder that part is a prefix of the responder's chain.
- `Finish` returns a verdict with the chain fetched. From an honest
  responder that chain is the whole of the responder's chain. Whatever the
  responder does, `Ok` with a pinned chain means the chain without its
  header equals the pinned one.

`CertFetch` instantiates it as `Abstract` with this mapping:
- `busy` is `st = "loop"`;
- `chain` is `data[0 .. data_size)` when idle, and empty during a call;
- `peer_chain` is `rsp_chain`;
- `Honest` is `~ResponderFaulty`.

The property `CertChainRefined == Abstract!SafeSpec` is checked on the
honest run. The abstract `Spec` adds weak fairness on returning. Checking
that needs ENABLED of a substituted action, which TLC cannot evaluate, so
the concrete `Termination` stands for it.

`CertFetch` also keeps `partial_result`, the error of the partial exchange
that ended a call. `result` is what the caller sees, and line 111 makes it
EIO whatever `partial_result` was.

### `MeasurementCodec` (C3)

This module models one exchange through the codec. A payload and a
context are chosen, `Encode` writes it, and the transport may `Truncate`
the message or `Corrupt` one u8 field. `Decode` then reads it back.

**Data abstraction:**
- A message is a sequence of elements `[field, v]`.
- A u8 is an element `"u8"` with its byte value.
- The nested record, nonce, opaque and signature structures are one
  element each, carrying a model value. Their own codecs are not in this
  fragment.
- Bit operations use `BitAnd` and `BitOr` of `U8Bits` on the real byte
  values. The masks 0x0F/0x30 and the `from_bits` checks therefore act on
  bytes as the code does. The two operators add up the eight bit places
  without recursion, so the codec stays within reach of the provers.
- `CodecConstantsAssumption` bounds the model's constants:
  - versions are 1.0 to 1.2;
  - slots are below 8 (`SPDM_MAX_SLOT_NUMBER`, checked by the requester at
    line 31);
  - the byte fields are bytes.

**Operators and their source:**
- `EncodeRequest` / `DecodeRequest`: lines 58-113. The nonce and
  `slot_id` are present only under `SIGNATURE_REQUESTED`.
- `Param1` / `Param2`: lines 137-156. These are the `== 1` rule and the
  `== SpdmVersion12 && runtime_content_change_support` packing.
- `EncodeResponse` / `DecodeResponse`: lines 128-195. Each `?` of
  `spdm_read` is a conjunct of `ResponseFieldsRead`.

The properties compare against `SpecRequest` and `SpecResponse`, written
from the spec's field rules (section 2 and the bit layouts).

### `MeasurementReqProofs`, `CertFetchProofs`, `MeasurementCodecProofs`

These modules hold the TLAPS proofs (section 5).

### MC modules

- `MCMeasurementReq`: two slots; slot 0 has a peer chain.
- `MCMeasurementCodec`:
  - versions 1.0, 1.1 and 1.2;
  - slot ids 0 and 7;
  - number_of_measurement 0, 1 and 2;
  - operations 0, 1 and 0xFF;
  - damaged bytes 0x30 and 4;
  - every context: each version, with the support flag and the signature
    flag each on and off.
- `MCCertFetch`:
  - bytes are {0, 1} and the hash is one position, so the header has 5
    positions;
  - the root hash of a chain is its first byte;
  - there are four responder chains:
    - a matching 7-byte chain of 3 portions whose header hash is right;
    - a chain whose header hash is wrong;
    - a matching chain shorter than the pinned chain;
    - a chain no longer than its header, for the EIO check of line 122.

## 3. Runs

| Run | Cfg | Expect | Checks | What it shows |
|-----|-----|--------|--------|---------------|
| `meas_safety` | `MCMeasurementReq.cfg` | pass | `TypeOK`, `TranscriptsInSync`, `ExchangeInStep`, `SignatureRejectedOnlyAfterFault`, `CallContractRefined` | Between calls, with no fault since the last resynchronisation, `message_m` equals the responder's. A correct signature on a populated slot is never rejected. Whatever the transport does, every call keeps the contract `MeasurementCallSpec`. |
| `meas_content_changed` | `MCMeasurementReq_cc.cfg` | violation | `ContentChangedOnlyFromVerified` | `content_changed` is updated from a response whose signature is then rejected (finding 1). |
| `cert_honest` | `MCCertFetch.cfg` | pass | `ChainAssembled`, `CertChainRefined` | An Ok fetch from an honest responder assembles exactly its chain. Every behaviour, failures included, is one of `CertChainSpec`. |
| `cert_faulty` | `MCCertFetch_faulty.cfg` | pass | `TypeOK`, `Termination` | With arbitrary portion and remainder lengths, the loop stays within its bounds and always returns. |
| `cert_slot` | `MCCertFetch_slot.cfg` | violation | `SlotInRangeBeforeIO` | A request for an out-of-range slot is sent and recorded (finding 2). |
| `cert_status` | `MCCertFetch_status.cfg` | violation | `FailureStatusKept` | An EINVAL, EFAULT or ENOMEM of an iteration reaches the caller as EIO (finding 3). |
| `codec_roundtrip` | `MCMeasurementCodec.cfg` | pass | `TypeOK`, `RequestRoundTrip`, `ResponseRoundTrip`, `TruncationRejected` | Encode produces what the spec's field rules say. Decode inverts encode wherever the spec expects it. No truncated message decodes. |
| `codec_cc_bits` | `MCMeasurementCodec_cc.cfg` | violation | `ContentChangedDecodesToKnown` | A damaged Param2 of 0x30 decodes to a content_changed that is not one of the three values (finding 4). |
| `codec_param1` | `MCMeasurementCodec_num.cfg` | violation | `ResponseDecodesToEncoded` | A response with one measurement decodes with number_of_measurement 0 (finding 5). |

**Bounds.**

For `meas_safety`:
- `MsgMCap = 5` holds two exchanges and one more request. This lets an
  unsigned exchange be followed by a signed one, so the signature covers
  both pairs. It also lets each of the two appends of
  `handle_spdm_measurement_record_response` fail: the request append
  (line 149) fails when four items are held, and the response append
  (line 151) fails after a third request fits in the fifth place. With
  an even capacity the two appends always fit or fail together, so the
  branch that leaves a lone request in `message_m` was never reached.
  Capacity 4, used before, had this gap.
- `MaxCalls = 3` gives a timeout, a late response consumed by the next
  call, and a third call.
- `MaxFaults = 1` gives each kind of loss or damage at each point.
- Both versions are initial states, so the version ≥ 1.2 branches are
  explored.
- The run has 373,330 distinct states and takes about 30 s.

For `cert_honest`:
- `MaxPortion = 3` and `MaxChain = 7` make a 7-byte chain take three
  portions.
- `MsgBCap = 8` allows the second call of a run.

For `cert_faulty`:
- There is one chain and `MsgBCap = 6`. That is enough for a zero-progress
  iteration to be repeated until `message_b` is full.

For `codec_roundtrip`:
- The run covers every payload and context of the sets above, and every
  truncation and single-byte damage of its message.
- That is 29,952 distinct states.
- The three versions hit both sides of the `== 1.2` test. Slot 7 with
  content_changed 0x10 gives the spec's 0x17 example.

**Fairness.** `MeasurementReq` has none, because no liveness is claimed
there. Whether the peer answers is the environment's choice, and the
requester may simply stop calling.

`CertFetch` assumes weak fairness of `FetchPortion` and `VerifyChain`.
Inside a call, the requester runs alone and synchronously, and each step
either returns or fails (`receive_message` itself returns). There is no
fairness on `StartCall`, so a caller need not call again.

**Mutants.** Each property of a passing run is shown to be violated by a
plausible bug in the code it is about:
- `Fits` off by one breaks `TypeOK`;
- resetting `message_m` only on a failed verification breaks
  `TranscriptsInSync` and `ExchangeInStep`;
- appending the signature bytes breaks `SignatureRejectedOnlyAfterFault`;
- keeping `message_m` after a verified signature (resetting it only on the
  failure branch) breaks `CallContractRefined`;
- `data_size` set to the portion length without the offset breaks
  `ChainAssembled`;
- the bounds check off by one breaks `TypeOK` of `CertFetch`;
- a `message_b` that never fills (a hashed transcript) breaks
  `Termination`;
- passing every partial error to the caller unchanged breaks
  `CertChainRefined`, because an EINVAL can come with a half-fetched chain;
- a slot mask of 0x3F breaks `TypeOK` of the codec;
- a request encoder that forgets `slot_id` breaks `RequestRoundTrip`;
- packing content_changed without checking the support flag breaks
  `ResponseRoundTrip`;
- a request decoder that defaults a missing nonce or slot breaks
  `TruncationRejected`.

## 4. Findings

1. `get_measurements_req.rs:133` sets `runtime_info.content_changed` as
   soon as the MEASUREMENTS payload decodes. This happens before the
   signature is verified. Spec 4.6.2 orders the update (step 8) after
   verification (step 7). A response whose signature is rejected therefore
   still changes `content_changed`.
2. `get_certificate_req.rs:98-102` never checks `slot_id` against
   `SPDM_MAX_SLOT_NUMBER`. Spec section 3, invariant 5, says out-of-range
   slots are rejected before I/O. The measurement path does check, at line
   31.
3. `get_certificate_req.rs:111` maps every error of
   `send_receive_spdm_certificate_partial` to EIO. Spec 4.6.1 gives each
   failure its own status. The caller cannot tell a full `message_b`
   (ENOMEM) from a wrong response code (EINVAL).
4. `measurement.rs:175-177` masks Param2 with 0x30. `from_bits` accepts
   0x30, with both bits set, although the spec lists only 0x00, 0x10 and
   0x20. A response carrying this fourth value is decoded and accepted.
5. `measurement.rs:137` writes Param1 = 0 when `number_of_measurement ==
   1`. The decoded payload then differs from the encoded one, against spec
   invariant 1. The spec's own design notes leave this rule as an open
   question, so this is recorded as a spec gap.

## 5. What is proved

`MeasurementReqProofs` proves the following with TLAPS, for every value of
the constants allowed by `ConstantsAssumption`:

- `TypeCorrect`: `Spec => []TypeOK`.
- `TranscriptsAgree`: `Spec => []TranscriptsInSync`.
- `ExchangeStaysInStep`: `Spec => []ExchangeInStep`.
- `SignatureAccepted`: `Spec => SignatureRejectedOnlyAfterFault`, an
  action property.

`TranscriptsInSync` is not inductive: it says nothing about a call in
progress. The strengthening `IInv == TypeOK /\ ExchangeInStep` says that,
with no taint, the system is at one of three points:
- `BetweenCalls`: nothing in flight, equal transcripts;
- `RequestInFlight`: exactly the current request in flight, equal
  transcripts;
- `AnswerInFlight`: exactly one honest answer in flight, and one of:
  - an ERROR response, with equal transcripts;
  - a MEASUREMENTS response of the negotiated version, with `hasSig` equal
    to the call's signed flag. The responder's transcript is then the
    requester's with the pair appended (unsigned), or empty with the
    signature over that transcript (signed).

TLC checks `ExchangeInStep` on the `meas_safety` run. Its proof has three
parts:
- `IInvInit`;
- `IInvStep`, with one step per action. Each fault, timeout or buffer
  overflow taints the exchange, and the resynchronising signed exchange is
  treated separately;
- `TypeStep`.

`SignatureAccepted` follows from the same invariant. In an untainted
`AnswerInFlight` state, the transcript the requester verifies,
`Append(Append(message_m, req), rsp)`, is exactly the `signedOver` of the
response (lemma `AppendTwice`).

- `CallRefinement`: `Spec => CallContractRefined`, i.e. the refinement of
  `MeasurementCallSpec`.

The refinement needs one more invariant. `RInv == TypeOK /\ CallIdsBelow`
says that every message in flight carries the number of a request already
sent, and that a waiting call is the last one sent. With it, the response
a call takes answers that call or an earlier one. TLC checked
`CallIdsBelow` as an invariant of the `meas_safety` run before it was
proved. The proof has these parts:
- `RInvStep`: one step per action. The lemmas `TailIdsBelow`,
  `AppendIdsBelow`, `ReplaceHeadIdsBelow` and `IdsBelowSucc` cover what
  each queue operation does to the numbers.
- `RefineInit`.
- `RefineStep`, which maps each step:
  - the three branches of `SendRequest` go to `Refuse`, `Refuse` and
    `Begin`;
  - `ReceiveResponse` and `ReceiveTimeout` go to `Finish`;
  - everything else is a stutter.
- `HandleAsPromised`, one case per return of
  `handle_spdm_measurement_record_response`. For an unsigned `Ok`, the two
  appends are the contract's pair (`AppendTwice`), and the witness for
  the response number is the response's own id.

Lemmas about the operators used: `PairIsSeq`, `DamagedIsResponse`,
`AppendTwice`, `DamagedKeepsId` and the four `IdsBelow` lemmas.

`CertFetchProofs` proves the following for every value of the constants
allowed by `CertConstantsAssumption`:
- `TypeCorrect`: `Spec => []TypeOK`;
- `ChainAssembledHolds`: `Spec => []ChainAssembled`;
- `Refinement`: `Spec => CertChainRefined`.

The inductive invariant is `IInv == TypeOK /\ LoopInv /\ DataInv /\
ChainAssembled`. Its parts:
- `LoopInv`: during a call with an honest responder, `data[0 .. offset)`
  is the responder's chain up to `offset`. When `length = 0`, `offset` is
  the whole chain and equals `data_size`.
- `DataInv`: with an honest responder, `data[0 .. data_size)` is always a
  prefix of the responder's chain, also after a failed call.

`ChainAssembled` alone is not inductive: it says nothing while the loop
runs. `LoopInv` carries the loop, and `DataInv` carries the buffer across
failures and across the next `StartCall`.

`FetchPortionKeeps` has one case per early return of the iteration. The
copy is the lemma pair `CopyExtends` and `CopyKeepsData`: the portion
extends the prefix, and the copy does not disturb the bytes below
`offset`.

The refinement step (`RefinementStep`) maps each step as follows:
- `StartCall` maps to `Begin`;
- a failing iteration maps to `Fail`. By `DataInv`, its buffer is a
  prefix of the chain;
- a successful iteration maps to a stutter, since `chain` is empty while
  busy;
- `VerifyChain` maps to `Finish`. With an honest responder this uses
  `LoopInv`. For `Ok` with a pinned chain it uses `VerifyOk`, where the
  stripped buffer is the pinned chain.

`IInv` was checked with TLC, as an invariant of the honest and faulty cert configurations, before it was proved.

`MeasurementCodecProofs` proves the following for every value of the
constants allowed by `CodecConstantsAssumption`:
- `TypeCorrect`: `Spec => []TypeOK`;
- `RequestRoundTripHolds`: `Spec => []RequestRoundTrip`;
- `ResponseRoundTripHolds`: `Spec => []ResponseRoundTrip`;
- `TruncationRejectedHolds`: `Spec => []TruncationRejected`.

The inductive invariant is `IInv == TypeOK /\ WireInv`. `WireInv` ties
the wire to the payload at every stage of the exchange:
- before `Encode` the wire is empty;
- after it, the wire is `Encoded`, the encoding of the chosen payload;
- after a truncation, the wire is a proper prefix of `Encoded`;
- after a decode, `decoded` is what `DecodedFrom(wire)` gives.

The round-trip properties only speak of the decoded state. They are not
inductive on their own, because nothing in them remembers what was
encoded. The argument rests on these lemmas:
- `RequestDecodesEncoded` and `ResponseDecodesEncoded`: decoding the
  encoding gives the spec's payload;
- `PackParam2`, `SlotAlone` and `Param2Unpacks`: the bit arithmetic of
  Param2, proved by SMT on the byte values;
- `TruncatedRequestRejected` and `TruncatedResponseRejected`: every `?` of
  `spdm_read` fails on a proper prefix;
- `ConcatTwoTwo`, `ConcatFiveOne` and `FieldsInWire`: the shape of the
  encoded sequences.

`IInv` was checked with TLC on the `codec_roundtrip` instance before it
was proved.

**Only model-checked:**
- `Termination` and the abstract fairness of `CertChainSpec` (liveness;
  TLAPS does not handle fairness or ENABLED);
- the codec with versions above 1.2, which `CodecConstantsAssumption`
  excludes. The build defines no such version, so the `== SpdmVersion12`
  test of `measurement.rs:145` and a `>=` test agree on every version
  there is.

## 6. Not modelled, and why

- The nested structures of the codec (measurement record, nonce, opaque,
  signature) are single fields. Their codecs are not in this fragment.
- The session path of C1 is not modelled, because the session code is not
  in the fragment.
- The hashed-transcript build is only abstracted: `message_m` is a sequence
  of messages either way.
- `get_cert_from_cert_chain` failing (its `?` at line 142) and the
  `hash_all(...).unwrap()` panic at line 146 are not modelled. The oracles
  are total.
- The record returned to the caller, `number_of_measurement`, and the
  measurement operation are not modelled. They are data that no property
  distinguishes.
- Line 167 compares the fetched chain with the provisioned one over the
  whole fixed-size arrays. The fetched copy is made into a zeroed array
  (line 129). The model compares the two as sequences of `data_size`
  bytes, so non-zero padding in the provisioned buffer, which would make
  a correct chain fail, is not modelled.
- The failure paths inside `verify_measurement_signature` are not
  modelled: the BUFFER_FULL of the L1/L2 appends (lines 327, 334) and the
  CRYPTO_ERROR of `hash_all` (line 356). `Verified` is an oracle over the
  transcript.
- C4 is only type declarations.
- C7 is pure computation and appears only as oracles.

## 7. Plan for the next sittings

1. A composed module: GET_CERTIFICATE fills the chain of a slot, and
   GET_MEASUREMENTS verifies against it (`PopulatedSlots` becomes state).
2. An action property of the contract that a proof can reach: a signed
   `Ok` leaves `message_m` empty, proved from `CallRefinement`.
