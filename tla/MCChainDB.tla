------------------------------- MODULE MCChainDB -------------------------------
(* Two branches from a1 and one from a2.  a2 and b3 disapprove their        *)
(* parents; b2 approves the parent that a2 disapproves.                     *)
EXTENDS ChainDB

CONSTANTS g, a1, a2, a3, b2, b3, c3

MCBlock == {g, a1, a2, a3, b2, b3, c3}
MCChain == [b \in MCBlock |->
    CASE b = g  -> <<>>
      [] b = a1 -> <<a1>>
      [] b = a2 -> <<a1, a2>>
      [] b = a3 -> <<a1, a2, a3>>
      [] b = b2 -> <<a1, b2>>
      [] b = b3 -> <<a1, b2, b3>>
      [] b = c3 -> <<a1, a2, c3>>]
MCApproves == [b \in MCBlock |-> b \notin {a2, b3}]

===============================================================================
