SPECIFICATION Spec
CONSTANTS
    g = g
    a1 = a1
    a2 = a2
    a3 = a3
    b2 = b2
    b3 = b3
    c3 = c3
    NoBlock = NoBlock
    Block <- MCBlock
    Genesis = g
    Chain <- MCChain
    Approves <- MCApproves
    ChargeDepth = 2
    TornCrash = TRUE
INVARIANTS
    StartSucceeds
