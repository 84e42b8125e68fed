SPECIFICATION ServicesSpec
CONSTANTS
    Services = {"mempool"}
    Configs <- SourceSets
    MaxRefresh = 1
    ChanSize = 1
    MarketMoves = 2
    BotFaults = 1
    Codes = {"USD"}
    TxInfo <- Transactions
    NumLatestMempoolTxns = 2
    TicketsPerBlock = 1
    MaxFreshStakePerBlock = 1
    feeRad = 1
    Addr = {"a"}
    Pools <- MinedSets
    PoolBlocks = 3
    PoolTxs = 1
    Times = {1, 2}
    PoolFaults = 1
    Block = {"g", "a1", "a2", "b1", "b2"}
    Genesis = "g"
    Chain <- Branches
    NoBlock = "none"
    Capacity = 1
    Bin = 1
    LessFns = {"timeThenCount", "height"}
    MaxStores = 3
    MaxAsks = 3
    MaxClock = 1
    NodeMoves = 3
    NodeFaults = 1
INVARIANTS
    UnconfirmedHaveData
CHECK_DEADLOCK FALSE
