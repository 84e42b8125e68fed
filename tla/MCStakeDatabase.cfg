SPECIFICATION FairSpec
CONSTANTS
    g = g
    a1 = a1
    a2 = a2
    a3 = a3
    b2 = b2
    b3 = b3
    c1 = c1
    c2 = c2
    t1 = t1
    t2 = t2
    t3 = t3
    Block <- MCBlock
    Genesis = g
    Chain <- MCChain
    Ticket <- MCTicket
    LiveAt <- MCLiveAt
    RewindDepth = 1
INVARIANTS
    HeightsAgree
    TicketsFollowNode
    NoInconsistency
PROPERTIES
    HandlersEnd
