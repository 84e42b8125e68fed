SPECIFICATION MCSpec
CONSTANTS
    g = g
    a1 = a1
    a2 = a2
    b1 = b1
    b2 = b2
    stakedb = stakedb
    dcrpg = dcrpg
    blockdata = blockdata
    mempool = mempool
    Block <- MCBlock
    Genesis = g
    Chain <- MCChain
    BlockGroups <- MCBlockGroups
    ReorgGroups <- MCReorgGroups
    TxGroups <- MCTxGroups
    Follower <- MCFollower
    QueueCap = 2
    MaxWire = 4
    DeadlineMayPass = FALSE
    HandlerMayFail = FALSE
    RpcMayFail = FALSE
    LateListen = FALSE
INVARIANTS
    GroupsAreInOrder
    FollowersAreLevel
PROPERTIES
    QueueMoves
