SPECIFICATION MCSpec
CONSTANTS
    ExchangeBooks <- FourBooks
    QueueSize = 2
    BookFaults = 2
    Client = {"c1"}
    Tx = {1, 2}
    SpokeCap = 1
    Signals = {"newtxs"}
    NewTxBufferSize = 2
    MaxBlocks = 1
    MaxRequests = 2
    MayTimeOut = TRUE
    XcCap = 1
    newTxBufferSize = 2
    clientSignalSize = 1
    MaxUpdates = 1
    Caller = {"c1", "c2"}
    Cap = 1
    Events = {"newblock", "bye", "junk"}
    MaxPush = 2
    MayFail = TRUE
    MaxHeight = 3
    LoadFaults = 2
    Remined = {2}
    Chunk = 2
    MaxSends = 4
    MaxSyncs = 2
    Room = 2
INVARIANTS
    BookFollowsExchange
    HubsAreSafe
    SyncIsSound
PROPERTIES
    BookCatchesUp
    MessagesArrive
    SyncEnds
CHECK_DEADLOCK FALSE
