CONSTANTS
    NumSlots <- MCNumSlots
    PopulatedSlots <- MCPopulatedSlots
    MsgMCap = 5
    MaxCalls = 3
    MaxFaults = 1
SPECIFICATION Spec
PROPERTY ContentChangedOnlyFromVerified
