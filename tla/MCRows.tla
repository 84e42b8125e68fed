-------------------------------- MODULE MCRows --------------------------------
(* Branches a, b, c and d.  c3 and d3 disapprove a2, whose regular           *)
(* transaction c4 and d3 mine again.  Ticket p1 is bought in a2 and in b2.    *)
EXTENDS Rows

CONSTANTS g, a1, a2, a3, a4, b2, b3, c3, c4, d3,
          m1, r1, p1, q1, s2, v1, w1, u1, x1, y1,
          addrA, addrB

MCBlock == {g, a1, a2, a3, a4, b2, b3, c3, c4, d3}
MCChain == [b \in MCBlock |->
    CASE b = g  -> <<>>
      [] b = a1 -> <<a1>>
      [] b = a2 -> <<a1, a2>>
      [] b = a3 -> <<a1, a2, a3>>
      [] b = a4 -> <<a1, a2, a3, a4>>
      [] b = b2 -> <<a1, b2>>
      [] b = b3 -> <<a1, b2, b3>>
      [] b = c3 -> <<a1, a2, c3>>
      [] b = c4 -> <<a1, a2, c3, c4>>
      [] b = d3 -> <<a1, a2, d3>>]
MCApproves == [b \in MCBlock |-> b \notin {c3, d3}]

MCTx == {m1, r1, p1, q1, s2, v1, w1, u1, x1, y1}
Out(a, n) == [addr |-> a, value |-> n]
MCIns == [t \in MCTx |->
    CASE t = m1 -> <<Coinbase>>
      [] t = s2 -> <<<<m1, 4>>>>
      [] t = r1 -> <<<<m1, 2>>>>
      [] t = p1 -> <<<<m1, 1>>>>
      [] t = q1 -> <<<<m1, 3>>>>
      [] t = v1 -> <<Coinbase, <<p1, 1>>>>
      [] t = w1 -> <<Coinbase, <<q1, 1>>>>
      [] t = u1 -> <<Coinbase, <<p1, 1>>>>
      [] t = x1 -> <<<<q1, 1>>>>
      [] t = y1 -> <<<<s2, 1>>>>]
MCOuts == [t \in MCTx |->
    CASE t = m1 -> <<Out(addrA, 2), Out(addrB, 1), Out(addrB, 1), Out(addrB, 1)>>
      [] t = r1 -> <<Out(addrB, 0), Out(addrA, 1)>>
      [] t = p1 -> <<Out(addrA, 2)>>
      [] OTHER -> <<Out(addrB, 1)>>]
MCMixOut == {<<m1, 1>>}
MCBlockTxs == [b \in MCBlock |->
    CASE b = a1 -> {m1}
      [] b = a2 -> {r1, p1, q1, s2}
      [] b = a3 -> {v1}
      [] b = a4 -> {x1, y1}
      [] b = b2 -> {p1}
      [] b = b3 -> {r1, u1}
      [] b = c3 -> {w1}
      [] b = c4 -> {r1}
      [] b = d3 -> {r1, v1}
      [] OTHER  -> {}]
MCSpent == [t \in {v1, w1, u1, x1, y1} |-> CASE t \in {v1, u1} -> p1 [] t \in {w1, x1} -> q1 [] t = y1 -> s2]
MCWinners == [b \in MCBlock |-> IF b = a2 THEN {p1, q1} ELSE IF b = b2 THEN {p1} ELSE {}]
MCExpires == [b \in MCBlock |-> IF b = a3 THEN {s2} ELSE {}]
MCMaxPast == [reorg |-> 2, purge |-> 1, import |-> 1, restart |-> 1]
===============================================================================
