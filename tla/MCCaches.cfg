SPECIFICATION MCSpec
CONSTANTS
    PoolBlock <- FiveBlocks
    MaxSize = 4
    g = g
    b1 = b1
    c1 = c1
    r1 = r1
    r2 = r2
    fund = fund
    proj = proj
    addr = addr
    a1 = a1
    a2 = a2
    a3 = a3
    a4 = a4
    b4 = b4
    b5 = b5
    Reader = {r1, r2}
    Fund = fund
    Addr = {proj, addr}
    Project = proj
    Block <- MCBlock
    Genesis = g
    Path <- MCPath
    Touch <- MCTouch
    Calls <- MCCalls
    cap = 2
    capAddr = 1
    maxUTXOsPerAddr = 1
    None = None
    Error = Error
    MaxReorgs = 1
    MaxRequests = 2
INVARIANTS
    CachesAreBounded
    WaitersAreWoken
    ViewsAgree
    ChartsAgree
PROPERTIES
    Implements
CHECK_DEADLOCK FALSE
