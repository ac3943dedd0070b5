CONSTANTS
    NumSlots <- MCNumSlots
    PopulatedSlots <- MCPopulatedSlots
    MsgMCap = 5
    MaxCalls = 3
    MaxFaults = 1
SPECIFICATION Spec
INVARIANT TypeOK
INVARIANT TranscriptsInSync
INVARIANT ExchangeInStep
PROPERTY SignatureRejectedOnlyAfterFault
PROPERTY CallContractRefined
