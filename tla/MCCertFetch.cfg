CONSTANTS
    MaxPortion = 3
    MaxChain = 7
    HashSize = 1
    MsgBCap = 8
    NumSlots = 1
    Bytes <- MCBytes
    RspChains <- MCRspChains
    PinnedChains <- MCPinnedChains
    NoChain = NoChain
    ResponderFaulty = FALSE
    RootHash <- MCRootHash
    ChainVerifies <- MCChainVerifies
SPECIFICATION Spec
INVARIANT ChainAssembled
PROPERTY CertChainRefined
