---------------------------- MODULE MCStakeDatabase ----------------------------
(* Three branches: one forks from genesis, two from height 1, of different  *)
(* lengths.  The tickets make the diffs of the blocks of one height         *)
(* different, so that a diff of the wrong branch is told apart, and some of *)
(* them break the size check of the next block when replayed there.         *)
EXTENDS StakeDatabase

CONSTANTS g, a1, a2, a3, b2, b3, c1, c2, t1, t2, t3

MCBlock == {g, a1, a2, a3, b2, b3, c1, c2}
MCChain == [b \in MCBlock |->
    CASE b = g  -> <<>>
      [] b = a1 -> <<a1>>
      [] b = a2 -> <<a1, a2>>
      [] b = a3 -> <<a1, a2, a3>>
      [] b = b2 -> <<a1, b2>>
      [] b = b3 -> <<a1, b2, b3>>
      [] b = c1 -> <<c1>>
      [] b = c2 -> <<c1, c2>>]
MCTicket == {t1, t2, t3}
MCLiveAt == [b \in MCBlock |->
    CASE b = g  -> {}
      [] b = a1 -> {t1}
      [] b = a2 -> {t1, t2}
      [] b = a3 -> {t1, t3}
      [] b = b2 -> {t3}
      [] b = b3 -> {t2}
      [] b = c1 -> {t2, t3}
      [] b = c2 -> {t3}]

===============================================================================
