SPECIFICATION Spec
CONSTANTS
    g = g
    a1 = a1
    a2 = a2
    a3 = a3
    a4 = a4
    b2 = b2
    b3 = b3
    c3 = c3
    c4 = c4
    d3 = d3
    m1 = m1
    r1 = r1
    p1 = p1
    q1 = q1
    s2 = s2
    v1 = v1
    w1 = w1
    u1 = u1
    x1 = x1
    y1 = y1
    addrA = addrA
    addrB = addrB
    None = None
    Coinbase = Coinbase
    Block <- MCBlock
    Genesis = g
    Chain <- MCChain
    Approves <- MCApproves
    Tx <- MCTx
    Ins <- MCIns
    Outs <- MCOuts
    Regular = {m1, r1}
    MixOut <- MCMixOut
    BlockTxs <- MCBlockTxs
    Tickets = {p1, q1, s2}
    Votes = {v1, w1, u1}
    Revokes = {x1, y1}
    Spent <- MCSpent
    Winners <- MCWinners
    Expires <- MCExpires
    ResetMax = 1
    MaxEvents = 3
    MaxPast <- MCMaxPast
INVARIANTS
    UtxosAreUnspent
    AddressRowsFollowChain
    TicketsFollowVotes
    QueriesAgree
CHECK_DEADLOCK FALSE
