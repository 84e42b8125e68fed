SPECIFICATION MCSpec
CONSTANTS
    g = g
    a1 = a1
    a2 = a2
    a3 = a3
    a4 = a4
    b1 = b1
    b2 = b2
    b3 = b3
    c3 = c3
    c4 = c4
    w1 = w1
    w2 = w2
    c1 = c1
    GateBlock <- FewBlocks
    BlockHeight <- FewHeights
    Capacity = 2
    Waiter <- TwoWaiters
    PrefetchBlock <- FewBlocks
    PrevBlock <- FewParents
    None = None
    Client <- OneClient
    ChanCap = 1
    Block <- MCBlock
    Genesis = g
    Chain <- MCChain
    MaxAncestorChainLength = 3
INVARIANTS
    WalksAreRight
    ChannelsAreSound
PROPERTIES
    GoroutinesEnd
