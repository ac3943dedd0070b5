\* One codec exchange ends once the payload is decoded: the final state
\* has no successor by design.
CONSTANTS
    Versions <- MCVersions
    SlotIds <- MCSlotIds
    Numbers <- MCNumbers
    Operations <- MCOperations
    DamagedBytes <- MCDamagedBytes
    Nonces = {n1, nz}
    ZeroNonce = nz
    Records = {r1}
    Opaques = {o1}
    Signatures = {s1, sz}
    ZeroSignature = sz
    NoPayload = NoPayload
SPECIFICATION Spec
CHECK_DEADLOCK FALSE
INVARIANT TypeOK
INVARIANT RequestRoundTrip
INVARIANT ResponseRoundTrip
INVARIANT TruncationRejected
