CONSTANTS
    MaxPortion = 3
    MaxChain = 7
    HashSize = 1
    MsgBCap = 6
    NumSlots = 1
    Bytes <- MCBytes
    RspChains <- MCRspChainOne
    PinnedChains <- MCPinnedChains
    NoChain = NoChain
    ResponderFaulty = TRUE
    RootHash <- MCRootHash
    ChainVerifies <- MCChainVerifies
SPECIFICATION Spec
INVARIANT TypeOK
PROPERTY Termination
