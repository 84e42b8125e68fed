------------------------------ MODULE PoolProofs ------------------------------
(***************************************************************************)
(* Proofs about the two pools: that of the live tickets and the mempool.    *)
(*                                                                         *)
(* TicketPool, for every set of tickets, every bound on the height and      *)
(* whether or not storeDiff may fail.  PoolMatchesCursor alone is not       *)
(* inductive: a step of advance or retreat replays a diff, so the           *)
(* invariant must also say that every stored diff is the difference of two  *)
(* neighbouring live sets, how long the diffs slice is inside Trim, and     *)
(* where the running method is heading.                                     *)
(*                                                                         *)
(* MempoolMonitor, as the run of the services instantiates it, for every    *)
(* set of transactions and any clocks: the invariant says where the news    *)
(* of each transaction and block is (TxInv, BlockInv).  The sorts and       *)
(* counts of the collection are folds; what they return is proved by a run  *)
(* over the positions.  The variables of the two have nothing in common.    *)
(***************************************************************************)
EXTENDS TicketPool, MCServices, BlockTreeProofs, SequenceTheorems, FiniteSetTheorems,
        WellFoundedInduction, TLAPS

\* Every diff is the difference of the live sets around it.
DiffsReplay == \A i \in 1..Len(diffs) : diffs[i] = DiffBetween(live[i - 1], live[i])

\* The diffs slice follows the tip, except between the two ends of Trim.
LenFollowsTip == Len(diffs) = IF op.name = "trim" THEN tip + 1 ELSE tip

\* Where the method that holds the mutex is heading.
TargetInRange ==
    /\ op.name = "none" => op = Unlocked
    /\ op.name = "pool" => op.to <= tip
    /\ op.name = "toTip" => op.to <= tip
    /\ op.name = "appended" => cursor < tip
    /\ op.name = "trim" => op.to = maxCursor(tip)

IInv ==
    /\ TypeOK
    /\ DiffsReplay
    /\ LenFollowsTip
    /\ TargetInRange
    /\ PoolMatchesCursor
    /\ NoSizeError

-------------------------------------------------------------------------------
(* Applying a diff forwards or backwards, and the size check that follows.  *)

\* Replaying the difference of two sets leads from the one to the other, and
\* undoing it leads back.
LEMMA DiffMoves ==
    ASSUME NEW p, NEW q
    PROVE  /\ applyDiff(p, DiffBetween(p, q).In, DiffBetween(p, q).Out) = q
           /\ applyDiff(q, DiffBetween(p, q).Out, DiffBetween(p, q).In) = p
  BY DEF applyDiff, DiffBetween

\* The size check of advance and retreat holds for the difference of two sets.
LEMMA DiffSizes ==
    ASSUME NEW p \in SUBSET Ticket, NEW q \in SUBSET Ticket
    PROVE  /\ Cardinality(p) \in Nat /\ Cardinality(q) \in Nat
           /\ Cardinality(DiffBetween(p, q).In) \in Nat
           /\ Cardinality(DiffBetween(p, q).Out) \in Nat
           /\ Cardinality(q) = Cardinality(p) + Cardinality(DiffBetween(p, q).In)
                                 - Cardinality(DiffBetween(p, q).Out)
  <1>1. IsFiniteSet(p) /\ IsFiniteSet(q)
    BY FS_Subset, TicketAssumption
  <1>2. /\ Cardinality(p \ q) = Cardinality(p) - Cardinality(p \cap q)
        /\ Cardinality(q \ p) = Cardinality(q) - Cardinality(q \cap p)
    BY <1>1, FS_Difference
  <1>3. /\ IsFiniteSet(p \ q) /\ IsFiniteSet(q \ p) /\ IsFiniteSet(p \cap q)
    BY <1>1, FS_Difference, FS_Intersection
  <1>4. /\ Cardinality(p) \in Nat /\ Cardinality(q) \in Nat
        /\ Cardinality(p \ q) \in Nat /\ Cardinality(q \ p) \in Nat
        /\ Cardinality(p \cap q) \in Nat
    BY <1>1, <1>3, FS_CardinalityType
  <1>5. q \cap p = p \cap q
    OBVIOUS
  <1>6. DiffBetween(p, q).In = q \ p /\ DiffBetween(p, q).Out = p \ q
    BY DEF DiffBetween
  <1>7. Cardinality(q) = Cardinality(p) + Cardinality(q \ p) - Cardinality(p \ q)
    <2> DEFINE a == Cardinality(p)  b == Cardinality(q)  c == Cardinality(p \cap q)
    <2>1. a \in Nat /\ b \in Nat /\ c \in Nat
      BY <1>4
    <2>2. Cardinality(p \ q) = a - c /\ Cardinality(q \ p) = b - c
      BY <1>2, <1>5
    <2> HIDE DEF a, b, c
    <2>3. b = a + (b - c) - (a - c)
      BY <2>1
    <2> QED
      BY <2>2, <2>3 DEF a, b
  <1> QED
    BY <1>4, <1>6, <1>7

\* A diff between two live sets is a PoolDiff.
LEMMA DiffType ==
    ASSUME NEW p \in SUBSET Ticket, NEW q \in SUBSET Ticket
    PROVE  DiffBetween(p, q) \in PoolDiff
  BY DEF DiffBetween, PoolDiff
-------------------------------------------------------------------------------
(* The initial states.                                                      *)

\* LoadAllPoolDiffs of an empty database starts with the genesis pool, which
\* satisfies the inductive invariant.
LEMMA InitIInv == Init => IInv
  <1> SUFFICES ASSUME Init PROVE IInv
    OBVIOUS
  <1> USE HeightAssumption DEF Init, NewTicketPool
  <1>1. tip \in Nat /\ tip <= MaxHeight
    OBVIOUS
  <1>2. \A i \in 1..tip : live[i - 1] \in SUBSET Ticket /\ live[i] \in SUBSET Ticket
    BY <1>1
  <1>3. \A i \in 1..tip : DiffBetween(live[i - 1], live[i]) \in PoolDiff
    BY <1>2, DiffType
  <1>4. diffs \in Seq(PoolDiff) /\ Len(diffs) = tip
    BY <1>1, <1>3
  <1>5. TypeOK
    <2>1. DOMAIN live = 0..Len(diffs) /\ \A i \in 0..Len(diffs) : live[i] \in SUBSET Ticket
      BY <1>1, <1>4
    <2>2. DOMAIN diffDB \subseteq 1..MaxHeight /\ \A i \in DOMAIN diffDB : diffDB[i] \in PoolDiff
      BY <1>1, <1>3
    <2>3. op \in Ops /\ ret \in [height : Nat, tickets : SUBSET Ticket]
      BY DEF Ops, Unlocked
    <2> QED
      BY <1>1, <1>4, <2>1, <2>2, <2>3 DEF TypeOK
  <1>6. DiffsReplay /\ LenFollowsTip /\ TargetInRange
    BY <1>1, <1>4 DEF DiffsReplay, LenFollowsTip, TargetInRange, Unlocked
  <1>7. PoolMatchesCursor /\ NoSizeError
    BY <1>1 DEF PoolMatchesCursor, NoSizeError
  <1> QED
    BY <1>5, <1>6, <1>7 DEF IInv

-------------------------------------------------------------------------------
(* One diff forward and one diff back.                                      *)

\* advance replays the diff at the cursor: the pool becomes the next live set
\* and the size check passes.
LEMMA AdvanceStep ==
    ASSUME IInv, NEW nxt, advance(nxt), cursor < Len(diffs)
    PROVE  /\ cursor' = cursor + 1
           /\ pool' = live[cursor + 1]
           /\ op' = nxt
           /\ UNCHANGED <<failed, tip, diffs, diffDB, ret, live>>
  <1> USE DEF IInv, TypeOK
  <1>1. cursor + 1 \in 1..Len(diffs) /\ (cursor + 1) - 1 = cursor
    OBVIOUS
  <1>2. diffs[cursor + 1] = DiffBetween(live[cursor], live[cursor + 1])
    BY <1>1 DEF DiffsReplay
  <1>3. live[cursor] \in SUBSET Ticket /\ live[cursor + 1] \in SUBSET Ticket
    BY <1>1
  <1>4. pool = live[cursor]
    BY DEF PoolMatchesCursor
  <1>5. pool' = live[cursor + 1]
    BY <1>2, <1>4, DiffMoves DEF advance
  <1>6. Cardinality(pool') = Cardinality(pool) + Cardinality(diffs[cursor + 1].In)
                               - Cardinality(diffs[cursor + 1].Out)
    BY <1>2, <1>3, <1>4, <1>5, DiffSizes
  <1> QED
    BY <1>5, <1>6 DEF advance

\* retreat undoes the diff before the cursor: the pool becomes the previous
\* live set and the size check passes.
LEMMA RetreatStep ==
    ASSUME IInv, NEW e, retreat(e)
    PROVE  /\ cursor' = cursor - 1
           /\ cursor \in 1..Len(diffs)
           /\ pool' = live[cursor - 1]
           /\ UNCHANGED <<op, failed, tip, diffs, diffDB, ret, live>>
  <1> USE DEF IInv, TypeOK
  <1>1. cursor \in 1..Len(diffs)
    BY DEF retreat, PoolMatchesCursor
  <1>2. diffs[cursor] = DiffBetween(live[cursor - 1], live[cursor])
    BY <1>1 DEF DiffsReplay
  <1>3. live[cursor - 1] \in SUBSET Ticket /\ live[cursor] \in SUBSET Ticket
    BY <1>1
  <1>4. pool = live[cursor]
    BY DEF PoolMatchesCursor
  <1>5. pool' = live[cursor - 1]
    BY <1>2, <1>4, DiffMoves DEF retreat
  <1>6. Cardinality(pool') = Cardinality(pool) - Cardinality(diffs[cursor].In)
                               + Cardinality(diffs[cursor].Out)
    <2> DEFINE i == Cardinality(diffs[cursor].In)
               o == Cardinality(diffs[cursor].Out)
    <2>1. /\ Cardinality(pool) \in Nat /\ Cardinality(pool') \in Nat
          /\ i \in Nat /\ o \in Nat
          /\ Cardinality(pool) = Cardinality(pool') + i - o
      BY <1>2, <1>3, <1>4, <1>5, DiffSizes
    <2> QED
      BY <2>1
  <1> QED
    BY <1>1, <1>5, <1>6 DEF retreat

-------------------------------------------------------------------------------
(* The inductive step, one case per action.                                 *)

\* A step that only moves the cursor by one diff keeps the invariant.
LEMMA CursorMoved ==
    ASSUME IInv, UNCHANGED <<failed, tip, diffs, diffDB, ret, live>>,
           cursor' \in 0..Len(diffs), pool' = live[cursor'],
           op' \in Ops, LenFollowsTip', TargetInRange'
    PROVE  IInv'
  <1>1. TypeOK'
    BY DEF IInv, TypeOK
  <1>2. DiffsReplay' /\ PoolMatchesCursor' /\ NoSizeError'
    BY DEF IInv, TypeOK, DiffsReplay, PoolMatchesCursor, NoSizeError
  <1> QED
    BY <1>1, <1>2 DEF IInv

\* Append adds the diff between the live sets of the tip and of the new block;
\* the pool and the cursor stay, whether storeDiff succeeds or fails.
LEMMA AppendIInv ==
    ASSUME IInv, NEW q \in SUBSET Ticket, NEW h \in 1..MaxHeight, NEW ok \in BOOLEAN,
           NEW nxt \in {Unlocked, [name |-> "appended", to |-> 0]},
           append(q, h, ok, nxt)
    PROVE  IInv'
  <1> USE HeightAssumption DEF IInv, TypeOK
  <1> DEFINE d == DiffBetween(live[tip], q)
  <1>1. /\ h = tip + 1 /\ tip' = h /\ diffs' = Append(diffs, d) /\ op' = nxt
        /\ live' = [i \in 0..h |-> IF i = h THEN q ELSE live[i]]
        /\ UNCHANGED <<cursor, pool, failed, ret>>
        /\ op = Unlocked
    BY DEF append
  <1>2. Len(diffs) = tip /\ tip \in Nat
    BY <1>1 DEF LenFollowsTip, Unlocked
  <1>3. live[tip] \in SUBSET Ticket
    BY <1>2
  <1>4. d \in PoolDiff
    BY <1>3, DiffType
  <1> HIDE DEF d
  <1>5. diffs' \in Seq(PoolDiff) /\ Len(diffs') = h
    BY <1>1, <1>2, <1>4
  <1>6. DOMAIN diffDB' \subseteq 1..MaxHeight /\ \A i \in DOMAIN diffDB' : diffDB'[i] \in PoolDiff
    BY <1>1, <1>4 DEF append, storeDiff, d
  <1>7. TypeOK'
    <2>1. op' \in Ops
      BY <1>1 DEF Ops, Unlocked
    <2>2. DOMAIN live' = 0..Len(diffs') /\ \A i \in 0..Len(diffs') : live'[i] \in SUBSET Ticket
      BY <1>1, <1>2, <1>5
    <2> QED
      BY <1>1, <1>2, <1>5, <1>6, <2>1, <2>2
  <1>8. DiffsReplay'
    <2> SUFFICES ASSUME NEW i \in 1..h
                 PROVE  diffs'[i] = DiffBetween(live'[i - 1], live'[i])
      BY <1>5 DEF DiffsReplay
    <2>1. CASE i = h
      <3>1. diffs'[i] = d
        BY <1>1, <1>2, <1>4, <2>1
      <3>2. live'[i - 1] = live[tip] /\ live'[i] = q
        BY <1>1, <1>2, <2>1
      <3> QED
        BY <3>1, <3>2 DEF d
    <2>2. CASE i # h
      <3>1. i \in 1..Len(diffs)
        BY <1>1, <1>2, <2>2
      <3>2. diffs'[i] = diffs[i] /\ live'[i - 1] = live[i - 1] /\ live'[i] = live[i]
        BY <1>1, <1>2, <1>4, <2>2, <3>1
      <3> QED
        BY <3>1, <3>2 DEF DiffsReplay
    <2> QED
      BY <2>1, <2>2
  <1>9. LenFollowsTip' /\ TargetInRange'
    BY <1>1, <1>2, <1>5 DEF LenFollowsTip, TargetInRange, Unlocked, PoolMatchesCursor
  <1>10. PoolMatchesCursor' /\ NoSizeError'
    BY <1>1, <1>2 DEF PoolMatchesCursor, NoSizeError
  <1> QED
    BY <1>7, <1>8, <1>9, <1>10

\* The three loops that advance: their targets are at most the tip, which is
\* the length of the diffs slice because no trim is running.
LEMMA AdvanceIInv ==
    ASSUME IInv, AppendedAdvance \/ advanceTo \/ PoolAdvance
    PROVE  IInv'
  <1> USE DEF IInv, TypeOK
  <1>1. op.name \in {"appended", "toTip", "pool"} /\ Len(diffs) = tip /\ cursor < tip
    BY DEF AppendedAdvance, advanceTo, PoolAdvance, LenFollowsTip, TargetInRange, Ops
  <1>2. PICK nxt \in {Unlocked, op} : advance(nxt) /\ (op.name = "appended" => nxt = Unlocked)
    BY <1>1 DEF AppendedAdvance, advanceTo, PoolAdvance
  <1>3. /\ cursor' = cursor + 1 /\ pool' = live[cursor + 1] /\ op' = nxt
        /\ UNCHANGED <<failed, tip, diffs, diffDB, ret, live>>
    BY <1>1, <1>2, AdvanceStep
  <1>4. op' \in Ops /\ LenFollowsTip' /\ TargetInRange'
    BY <1>1, <1>2, <1>3 DEF Ops, Unlocked, LenFollowsTip, TargetInRange
  <1>5. cursor' \in 0..Len(diffs) /\ pool' = live[cursor']
    BY <1>1, <1>3
  <1> QED
    BY <1>3, <1>4, <1>5, CursorMoved

\* The two loops that retreat.
LEMMA RetreatIInv ==
    ASSUME IInv, PoolRetreat \/ retreatTo
    PROVE  IInv'
  <1> USE DEF IInv, TypeOK
  <1>1. \E e : retreat(e)
    BY DEF PoolRetreat, retreatTo
  <1>2. /\ cursor' = cursor - 1 /\ cursor \in 1..Len(diffs) /\ pool' = live[cursor - 1]
        /\ UNCHANGED <<op, failed, tip, diffs, diffDB, ret, live>>
    BY <1>1, RetreatStep
  <1>3. op.name \in {"pool", "trim"}
    BY DEF PoolRetreat, retreatTo
  <1>4. op' \in Ops /\ LenFollowsTip' /\ TargetInRange'
    BY <1>2, <1>3 DEF LenFollowsTip, TargetInRange
  <1>5. cursor' \in 0..Len(diffs) /\ pool' = live[cursor']
    BY <1>2
  <1> QED
    BY <1>2, <1>4, <1>5, CursorMoved

\* The steps that take or release the mutex without touching the pool.
LEMMA LockIInv ==
    ASSUME IInv, \/ BeginAdvanceToTip \/ EndAdvanceToTip \/ EndPool
                 \/ \E h \in 0..MaxHeight : BeginPool(h)
    PROVE  IInv'
  <1> USE HeightAssumption DEF IInv, TypeOK
  <1>1. /\ UNCHANGED <<cursor, tip, diffs, pool, diffDB, failed, live>>
        /\ op' \in Ops /\ op.name # "trim" /\ op'.name # "trim"
        /\ ret' \in [height : Nat, tickets : SUBSET Ticket]
    BY DEF BeginAdvanceToTip, EndAdvanceToTip, EndPool, BeginPool, Ops, Unlocked
  <1>2. TypeOK'
    BY <1>1
  <1>3. TargetInRange'
    BY <1>1 DEF TargetInRange, BeginAdvanceToTip, EndAdvanceToTip, EndPool, BeginPool, Unlocked
  <1>4. LenFollowsTip' /\ DiffsReplay' /\ PoolMatchesCursor' /\ NoSizeError'
    BY <1>1 DEF LenFollowsTip, DiffsReplay, PoolMatchesCursor, NoSizeError
  <1> QED
    BY <1>2, <1>3, <1>4

\* The start of trim lowers the tip and keeps the last diff for retreatTo: until
\* the end of trim the slice is one longer than the tip.
LEMMA BeginTrimIInv == ASSUME IInv, BeginTrim PROVE IInv'
  <1> USE HeightAssumption DEF IInv, TypeOK
  <1>1. /\ tip \in Nat /\ tip # 0 /\ tip' = tip - 1 /\ Len(diffs) = tip
        /\ op' = [name |-> "trim", to |-> maxCursor(tip - 1)]
        /\ UNCHANGED <<cursor, diffs, pool, diffDB, failed, ret, live>>
    BY DEF BeginTrim, LenFollowsTip, Unlocked
  <1>2. maxCursor(tip - 1) \in Nat
    BY <1>1 DEF maxCursor
  <1>3. TypeOK'
    BY <1>1, <1>2 DEF Ops
  <1>4. LenFollowsTip' /\ TargetInRange'
    BY <1>1 DEF LenFollowsTip, TargetInRange
  <1>5. DiffsReplay' /\ PoolMatchesCursor' /\ NoSizeError'
    BY <1>1 DEF DiffsReplay, PoolMatchesCursor, NoSizeError
  <1> QED
    BY <1>3, <1>4, <1>5

\* The end of Trim: retreatTo has brought the cursor down to the new tip.
LEMMA EndTrimIInv == ASSUME IInv, EndTrim PROVE IInv'
  <1> USE HeightAssumption DEF IInv, TypeOK
  <1>1. /\ tip \in Nat /\ Len(diffs) = tip + 1 /\ cursor <= tip /\ op' = Unlocked
        /\ diffs' = SubSeq(diffs, 1, Len(diffs) - 1)
        /\ live' = [i \in 0..tip |-> live[i]]
        /\ UNCHANGED <<cursor, tip, pool, diffDB, failed, ret>>
    BY DEF EndTrim, LenFollowsTip, TargetInRange, maxCursor
  <1>2. /\ diffs' \in Seq(PoolDiff) /\ Len(diffs') = tip
        /\ \A i \in 1..tip : diffs'[i] = diffs[i]
    BY <1>1
  <1>3. TypeOK'
    <2>1. DOMAIN live' = 0..Len(diffs') /\ \A i \in 0..Len(diffs') : live'[i] \in SUBSET Ticket
      BY <1>1, <1>2
    <2> QED
      BY <1>1, <1>2, <2>1 DEF Ops, Unlocked
  <1>4. DiffsReplay'
    BY <1>1, <1>2 DEF DiffsReplay
  <1>5. LenFollowsTip' /\ TargetInRange' /\ PoolMatchesCursor' /\ NoSizeError'
    BY <1>1, <1>2 DEF LenFollowsTip, TargetInRange, PoolMatchesCursor, NoSizeError, Unlocked
  <1> QED
    BY <1>3, <1>4, <1>5

\* Every method step, and stuttering, preserves the inductive invariant.
LEMMA NextIInv == IInv /\ [Next]_vars => IInv'
  <1> SUFFICES ASSUME IInv, [Next]_vars PROVE IInv'
    OBVIOUS
  <1>1. ASSUME NEW q \in SUBSET Ticket, NEW h \in 1..MaxHeight,
               AppendDiff(q, h) \/ AppendAndAdvancePool(q, h)
        PROVE  IInv'
    <2>1. StoreOutcomes \subseteq BOOLEAN
      BY DEF StoreOutcomes
    <2>2. PICK ok \in BOOLEAN, nxt \in {Unlocked, [name |-> "appended", to |-> 0]} :
              append(q, h, ok, nxt)
      BY <1>1, <2>1 DEF AppendDiff, AppendAndAdvancePool
    <2> QED
      BY <2>2, AppendIInv
  <1>2. CASE UNCHANGED vars
    BY <1>2 DEF vars, IInv, TypeOK, DiffsReplay, LenFollowsTip, TargetInRange,
                PoolMatchesCursor, NoSizeError
  <1> QED
    BY <1>1, <1>2, AdvanceIInv, RetreatIInv, LockIInv, BeginTrimIInv, EndTrimIInv DEF Next

-------------------------------------------------------------------------------
(* What follows for the specification.                                      *)

\* The inductive invariant holds in every reachable state.
LEMMA Inductive == Spec => []IInv
  BY InitIInv, NextIInv, PTL DEF Spec

\* The fields of the ticket pool keep their types (TicketPool struct).
THEOREM TypeCorrect == Spec => []TypeOK
  <1>1. IInv => TypeOK
    BY DEF IInv
  <1> QED
    BY <1>1, Inductive, PTL

\* The pool map is the stake node's live set at the cursor, in every reachable
\* state: what advance, retreat, Trim and Pool do to it never drifts.
THEOREM PoolCorrect == Spec => []PoolMatchesCursor
  <1>1. IInv => PoolMatchesCursor
    BY DEF IInv
  <1> QED
    BY <1>1, Inductive, PTL

\* The size checks of advance and retreat never report an error.
THEOREM NeverSizeError == Spec => []NoSizeError
  <1>1. IInv => NoSizeError
    BY DEF IInv
  <1> QED
    BY <1>1, Inductive, PTL

\* The cursor is within the diffs slice whenever the mutex is free.
THEOREM CursorCorrect == Spec => []CursorNotPastTip
  <1>1. IInv => CursorNotPastTip
    BY DEF IInv, TypeOK, CursorNotPastTip, LenFollowsTip, PoolMatchesCursor, Unlocked
  <1> QED
    BY <1>1, Inductive, PTL

\* Pool(height) answers with the live tickets of that height.
THEOREM PoolAnswers == Spec => PoolAnswersForHeight
  <1>1. IInv /\ [Next]_vars => [ret' # ret => ret'.tickets = live[ret'.height]]_vars
    <2> SUFFICES ASSUME IInv, Next, ret' # ret
                 PROVE  ret'.tickets = live[ret'.height]
      OBVIOUS
    <2>1. EndPool
      BY DEF Next, AppendDiff, AppendAndAdvancePool, append, AppendedAdvance, advanceTo,
             PoolAdvance, advance, PoolRetreat, retreatTo, retreat, BeginAdvanceToTip,
             EndAdvanceToTip, BeginPool, BeginTrim, EndTrim
    <2> QED
      BY <2>1 DEF EndPool, IInv, PoolMatchesCursor
  <1> QED
    BY <1>1, Inductive, PTL DEF Spec, PoolAnswersForHeight

-------------------------------------------------------------------------------
(* The disk.                                                                *)

\* Every diff in memory is on disk; the one Trim is about to cut off as well.
OnDisk == \A i \in 1..Len(diffs) : i \in DOMAIN diffDB /\ diffDB[i] = diffs[i]

\* append writes the diff of the new height over whatever Trim left there.
LEMMA AppendOnDisk ==
    ASSUME IInv, OnDisk, NEW q, NEW h, NEW nxt, append(q, h, TRUE, nxt)
    PROVE  OnDisk'
  <1> USE DEF IInv, TypeOK
  <1> DEFINE d == DiffBetween(live[tip], q)
  <1>1. /\ op = Unlocked /\ h = tip + 1 /\ diffs' = Append(diffs, d)
        /\ diffDB' = [i \in DOMAIN diffDB \cup {h} |-> IF i = h THEN d ELSE diffDB[i]]
    BY DEF append, storeDiff
  <1>2. Len(diffs) = tip /\ tip \in Nat
    BY <1>1, HeightAssumption DEF LenFollowsTip, Unlocked
  <1> HIDE DEF d
  <1>3. Len(diffs') = h /\ diffs'[h] = d /\ \A i \in 1..tip : diffs'[i] = diffs[i]
    BY <1>1, <1>2
  <1>4. ASSUME NEW i \in 1..h PROVE i \in DOMAIN diffDB' /\ diffDB'[i] = diffs'[i]
    <2>1. CASE i = h
      BY <1>1, <1>3, <2>1
    <2>2. CASE i # h
      <3>1. i \in 1..Len(diffs) /\ i \in 1..tip
        BY <1>1, <1>2, <2>2
      <3> QED
        BY <1>1, <1>3, <2>2, <3>1 DEF OnDisk
    <2> QED
      BY <2>1, <2>2
  <1> QED
    BY <1>3, <1>4 DEF OnDisk

\* When storeDiff succeeds, every diff a restart may need is on disk as it is in
\* memory, however Append and Trim followed each other.
THEOREM DiskComplete ==
    ASSUME StoreMayFail = FALSE
    PROVE  Spec => []DiskHasMemory
  <1>1. Init => OnDisk
    BY DEF Init, NewTicketPool, OnDisk
  <1>2. ASSUME IInv, OnDisk, [Next]_vars PROVE OnDisk'
    <2>1. ASSUME NEW q \in SUBSET Ticket, NEW h \in 1..MaxHeight,
                 AppendDiff(q, h) \/ AppendAndAdvancePool(q, h)
          PROVE  OnDisk'
      <3>1. \E nxt : append(q, h, TRUE, nxt)
        BY <2>1 DEF AppendDiff, AppendAndAdvancePool, StoreOutcomes
      <3> QED
        BY <1>2, <3>1, AppendOnDisk
    <2>2. CASE EndTrim
      <3>1. diffs' = SubSeq(diffs, 1, Len(diffs) - 1) /\ diffDB' = diffDB
        BY <2>2 DEF EndTrim
      <3>2. diffs \in Seq(PoolDiff) /\ Len(diffs) = tip + 1 /\ tip \in Nat
        BY <1>2, <2>2, HeightAssumption DEF IInv, TypeOK, LenFollowsTip, EndTrim
      <3>3. Len(diffs') = tip /\ \A i \in 1..tip : diffs'[i] = diffs[i] /\ i \in 1..Len(diffs)
        BY <3>1, <3>2
      <3> QED
        BY <1>2, <3>1, <3>3 DEF OnDisk
    <2>3. CASE UNCHANGED <<diffs, diffDB>>
      BY <1>2, <2>3 DEF OnDisk
    <2> QED
      BY <1>2, <2>1, <2>2, <2>3 DEF Next, vars, AppendedAdvance, advanceTo, PoolAdvance, advance,
         PoolRetreat, retreatTo, retreat, BeginAdvanceToTip, EndAdvanceToTip, BeginPool, EndPool,
         BeginTrim
  <1>3. ASSUME IInv, OnDisk PROVE DiskHasMemory
    <2>1. tip \in Nat /\ Len(diffs) \in Nat /\ tip <= Len(diffs)
      BY <1>3, HeightAssumption DEF IInv, TypeOK, LenFollowsTip
    <2> QED
      BY <1>3, <2>1 DEF OnDisk, DiskHasMemory
  <1> QED
    BY <1>1, <1>2, <1>3, Inductive, PTL DEF Spec

-------------------------------------------------------------------------------
(* The mempool: its data.                                                   *)

\* The keys of S are bounded below.
Keyed(S, key, B) == IsFiniteSet(S) /\ B \in Nat /\ \A t \in S : key[t] \in Int /\ -B <= key[t]

\* A finite set has a member with the least key, when the keys are bounded below.
LEMMA LeastKey ==
    ASSUME NEW S, S # {}, NEW key, NEW B, Keyed(S, key, B)
    PROVE  \E t \in S : \A u \in S : key[t] <= key[u]
  <1>0. B \in Nat /\ \A t \in S : key[t] \in Int /\ -B <= key[t]
    BY DEF Keyed
  <1> DEFINE K == {key[t] + B : t \in S}
  <1>1. K \in SUBSET Nat /\ K # {}
    BY <1>0
  <1>2. PICK num \in K : \A m \in K : num <= m
    <2> HIDE DEF K
    <2> QED
      BY <1>1, LeastNatural
  <1>3. PICK t \in S : num = key[t] + B
    OBVIOUS
  <1>4. \A u \in S : key[t] + B <= key[u] + B
    BY <1>2, <1>3
  <1> QED
    BY <1>0, <1>4

\* The transaction that InOrder takes next, and the fold that it is.
NextOf(S, key, v) ==
    CHOOSE t \in S \ Mempool!ToSet(v) : \A u \in S \ Mempool!ToSet(v) : key[t] <= key[u]
OrderRun(f, k, S, key) ==
    LET upTo == [i \in 1 .. k |-> i]
    IN  f = [s \in SUBSET DOMAIN upTo |->
               IF s = {} THEN <<>>
               ELSE Append(f[s \ {Last(s)}], NextOf(S, key, f[s \ {Last(s)}]))]

LEMMA SameCardinality == \A S : Mempool!Cardinality(S) = Cardinality(S)
  BY DEF Mempool!Cardinality, Cardinality

LEMMA SameFinite == \A S : Mempool!IsFiniteSet(S) <=> IsFiniteSet(S)
  BY DEF Mempool!IsFiniteSet, IsFiniteSet

LEMMA InOrderIsRun ==
    ASSUME NEW S, NEW key
    PROVE  Mempool!InOrder(S, key)
             = (CHOOSE f : OrderRun(f, Cardinality(S), S, key))[DOMAIN [i \in 1 .. Cardinality(S) |-> i]]
  BY SameCardinality
     DEF Mempool!InOrder, Mempool!FoldLeft, Mempool!MapThenFoldSet, Mempool!Max,
         OrderRun, NextOf, Last

\* The members of S that v lists: each once, by rising keys, and before the others.
Listed(S, key, v, num) ==
    /\ v \in Seq(S) /\ Len(v) = num
    /\ IsFiniteSet(Mempool!ToSet(v)) /\ Cardinality(Mempool!ToSet(v)) = num
    /\ \A i, j \in 1 .. Len(v) : i <= j => key[v[i]] <= key[v[j]]
    /\ \A i \in 1 .. Len(v) : \A u \in S \ Mempool!ToSet(v) : key[v[i]] <= key[u]

LEMMA ListedGrows ==
    ASSUME NEW S, NEW key, NEW B, Keyed(S, key, B),
           NEW v, NEW num \in Nat, Listed(S, key, v, num), num < Cardinality(S)
    PROVE  /\ NextOf(S, key, v) \in S
           /\ Listed(S, key, Append(v, NextOf(S, key, v)), num + 1)
           /\ S \ Mempool!ToSet(v) # {}
  <1> DEFINE R == S \ Mempool!ToSet(v)
             t == NextOf(S, key, v)
             w == Append(v, t)
  <1>1. v \in Seq(S) /\ Len(v) = num /\ IsFiniteSet(Mempool!ToSet(v))
          /\ Cardinality(Mempool!ToSet(v)) = num
    BY DEF Listed
  <1>0. IsFiniteSet(S) /\ \A u \in S : key[u] \in Int
    BY DEF Keyed
  <1>2. R # {}
    <2>1. SUFFICES ASSUME S \subseteq Mempool!ToSet(v) PROVE FALSE
      OBVIOUS
    <2>2. Cardinality(S) <= Cardinality(Mempool!ToSet(v))
      BY <1>0, <1>1, <2>1, FS_Subset
    <2>3. Cardinality(S) \in Nat
      BY <1>0, FS_CardinalityType
    <2> QED
      BY <1>1, <2>2, <2>3
  <1>3. \E x \in R : \A u \in R : key[x] <= key[u]
    <2>1. Keyed(R, key, B)
      BY FS_Subset DEF Keyed
    <2> HIDE DEF R
    <2> QED
      BY <1>2, <2>1, LeastKey
  <1>4. t \in R /\ \A u \in R : key[t] <= key[u]
    <2>1. t = CHOOSE x \in R : \A u \in R : key[x] <= key[u]
      BY DEF NextOf
    <2> HIDE DEF t, R
    <2> QED
      BY <1>3, <2>1
  <1> HIDE DEF t
  <1>5. w \in Seq(S) /\ Len(w) = num + 1 /\ w[num + 1] = t /\ \A i \in 1 .. num : w[i] = v[i]
    BY <1>1, <1>4
  <1>6. Mempool!ToSet(w) = Mempool!ToSet(v) \cup {t}
    <2>1. DOMAIN w = 1 .. num + 1 /\ DOMAIN v = 1 .. num
      BY <1>1, <1>5
    <2> HIDE DEF w
    <2>2. \A x : (\E i \in 1 .. num + 1 : w[i] = x) <=> (\E i \in 1 .. num : v[i] = x) \/ x = t
      BY <1>5
    <2> QED
      BY <2>1, <2>2 DEF Mempool!ToSet
  <1>7. IsFiniteSet(Mempool!ToSet(w)) /\ Cardinality(Mempool!ToSet(w)) = num + 1
    BY <1>1, <1>4, <1>6, FS_AddElement
  <1>8. \A i \in 1 .. num : v[i] \in S /\ key[v[i]] <= key[t]
    BY <1>0, <1>1, <1>4 DEF Listed
  <1>9. \A i, j \in 1 .. num + 1 : i <= j => key[w[i]] <= key[w[j]]
    <2>1. ASSUME NEW i \in 1 .. num + 1, NEW j \in 1 .. num + 1, i <= j
          PROVE  key[w[i]] <= key[w[j]]
      <3>1. CASE j \in 1 .. num
        <4>1. i \in 1 .. num
          BY <2>1, <3>1
        <4>2. key[v[i]] <= key[v[j]]
          BY <1>1, <2>1, <3>1, <4>1 DEF Listed
        <4> QED
          BY <1>5, <3>1, <4>1, <4>2
      <3>2. CASE j = num + 1 /\ i \in 1 .. num
        BY <1>5, <1>8, <3>2
      <3>3. CASE j = num + 1 /\ i = num + 1
        BY <1>4, <1>5, <3>3
      <3>4. /\ j \in 1 .. num \/ j = num + 1
            /\ i \in 1 .. num \/ i = num + 1
        OBVIOUS
      <3> QED
        BY <3>1, <3>2, <3>3, <3>4
    <2> QED
      BY <2>1
  <1>10. \A i \in 1 .. num + 1 : \A u \in S \ Mempool!ToSet(w) : key[w[i]] <= key[u]
    <2>1. ASSUME NEW i \in 1 .. num + 1, NEW u \in S \ Mempool!ToSet(w)
          PROVE  key[w[i]] <= key[u]
      <3>1. u \in R
        BY <1>6
      <3>2. CASE i \in 1 .. num
        BY <1>1, <1>5, <3>1, <3>2 DEF Listed
      <3>3. CASE i = num + 1
        BY <1>4, <1>5, <3>1, <3>3
      <3>4. i \in 1 .. num \/ i = num + 1
        OBVIOUS
      <3> QED
        BY <3>2, <3>3, <3>4
    <2> QED
      BY <2>1
  <1> QED
    BY <1>2, <1>4, <1>5, <1>7, <1>9, <1>10 DEF Listed, t
LEMMA InOrderIs ==
    ASSUME NEW S, NEW key, NEW B, Keyed(S, key, B)
    PROVE  LET v == Mempool!InOrder(S, key)
           IN  /\ Listed(S, key, v, Cardinality(S))
               /\ \A t : t \in S <=> \E i \in 1 .. Len(v) : v[i] = t
  <1> DEFINE k == Cardinality(S)
             T == Seq(S)
             G == [q \in (1 .. k) \X T |->
                     IF S \ Mempool!ToSet(q[2]) # {} THEN Append(q[2], NextOf(S, key, q[2]))
                     ELSE q[2]]
  <1>0. IsFiniteSet(S)
    BY DEF Keyed
  <1>1. k \in Nat
    BY <1>0, FS_CardinalityType
  <1>2. \A v \in T : S \ Mempool!ToSet(v) # {} => Append(v, NextOf(S, key, v)) \in T
    <2>1. ASSUME NEW v \in T, S \ Mempool!ToSet(v) # {} PROVE NextOf(S, key, v) \in S
      <3> DEFINE R == S \ Mempool!ToSet(v)
      <3>1. Keyed(R, key, B)
        BY FS_Subset DEF Keyed
      <3> HIDE DEF R
      <3>2. \E x \in R : \A u \in R : key[x] <= key[u]
        BY <2>1, <3>1, LeastKey DEF R
      <3>3. NextOf(S, key, v) = CHOOSE x \in R : \A u \in R : key[x] <= key[u]
        BY DEF NextOf, R
      <3>4. NextOf(S, key, v) \in R
        BY <3>2, <3>3
      <3> QED
        BY <3>4 DEF R
    <2> QED
      BY <2>1
  <1> HIDE DEF k, T
  <1>3. G \in [(1 .. k) \X T -> T]
    BY <1>2
  <1>4. <<>> \in T
    BY DEF T
  <1>5. PICK f : IsFold(f, k, <<>>, G) /\ \A s \in SUBSET (1 .. k) : f[s] \in T
    <2> HIDE DEF G
    <2> QED
      BY <1>1, <1>3, <1>4, FoldOn
  <1>6. \A s \in SUBSET (1 .. k) :
           f[s] = IF s = {} THEN <<>> ELSE G[<<Last(s), f[s \ {Last(s)}]>>]
    <2> HIDE DEF G
    <2> QED
      BY <1>5 DEF IsFold
  <1>7. \A s \in SUBSET (1 .. k) : s # {} =>
           /\ s \ {Last(s)} \in SUBSET (1 .. k) /\ Last(s) \in 1 .. k
           /\ Cardinality(s) = Cardinality(s \ {Last(s)}) + 1
           /\ Cardinality(s \ {Last(s)}) \in Nat /\ Cardinality(s \ {Last(s)}) < k
    <2>1. ASSUME NEW s \in SUBSET (1 .. k), s # {}
          PROVE  /\ s \ {Last(s)} \in SUBSET (1 .. k) /\ Last(s) \in 1 .. k
                 /\ Cardinality(s) = Cardinality(s \ {Last(s)}) + 1
                 /\ Cardinality(s \ {Last(s)}) \in Nat /\ Cardinality(s \ {Last(s)}) < k
      <3>1. /\ s \ {Last(s)} \in SUBSET (1 .. k) /\ Last(s) \in 1 .. k
            /\ Cardinality(s \ {Last(s)}) = Cardinality(s) - 1 /\ Cardinality(s) \in Nat
        BY <1>1, <2>1, LastLess
      <3>2. Cardinality(s \ {Last(s)}) \in Nat
        BY <1>1, <3>1, LastLess
      <3>3. IsFiniteSet(1 .. k) /\ Cardinality(1 .. k) = k
        BY <1>1, FS_Interval
      <3>4. Cardinality(s) <= k
        BY <3>3, FS_Subset
      <3> QED
        BY <1>1, <3>1, <3>2, <3>4
    <2> QED
      BY <2>1
  <1>8. Listed(S, key, <<>>, Cardinality({})) /\ f[{}] = <<>>
    <2> DEFINE e == <<>>
    <2>1. f[{}] = e
      BY <1>6
    <2>2. Mempool!ToSet(e) = {} /\ e \in Seq(S) /\ Len(e) = 0
      BY DEF Mempool!ToSet
    <2>3. Cardinality({}) = 0 /\ IsFiniteSet({})
      BY FS_EmptySet
    <2> HIDE DEF e
    <2>4. \A i : i \notin 1 .. Len(e)
      BY <2>2
    <2>5. Listed(S, key, e, 0)
      BY <2>2, <2>3, <2>4, Zenon DEF Listed
    <2> QED
      BY <2>1, <2>3, <2>5 DEF e
  <1>9. ASSUME NEW s \in SUBSET (1 .. k), s # {},
               Listed(S, key, f[s \ {Last(s)}], Cardinality(s \ {Last(s)}))
        PROVE  /\ Listed(S, key, f[s], Cardinality(s))
               /\ f[s] = Append(f[s \ {Last(s)}], NextOf(S, key, f[s \ {Last(s)}]))
    <2> DEFINE v == f[s \ {Last(s)}]
               num == Cardinality(s \ {Last(s)})
    <2>1. num \in Nat /\ num < Cardinality(S) /\ Cardinality(s) = num + 1 /\ v \in T
            /\ Last(s) \in 1 .. k
      BY <1>5, <1>7, <1>9 DEF k
    <2>2. Listed(S, key, v, num)
      BY <1>9
    <2>3. f[s] = G[<<Last(s), v>>]
      <3> HIDE DEF G
      <3> QED
        BY <1>6, <1>9
    <2> HIDE DEF v, num
    <2>4. /\ Listed(S, key, Append(v, NextOf(S, key, v)), num + 1)
          /\ S \ Mempool!ToSet(v) # {}
      BY <2>1, <2>2, ListedGrows
    <2>5. f[s] = Append(v, NextOf(S, key, v))
      BY <2>1, <2>3, <2>4
    <2> QED
      BY <2>1, <2>4, <2>5 DEF v
  <1> DEFINE P == {s \in SUBSET (1 .. k) : Listed(S, key, f[s], Cardinality(s))}
  <1>10. \A s \in SUBSET (1 .. k) : s \in P
    <2>1. {} \in P
      BY <1>8
    <2>2. \A s \in SUBSET (1 .. k) : s # {} /\ s \ {Last(s)} \in P => s \in P
      BY <1>9
    <2> HIDE DEF P
    <2> QED
      BY <1>1, <2>1, <2>2, FoldProves
  <1>11. \A s \in SUBSET (1 .. k) : Listed(S, key, f[s], Cardinality(s))
    BY <1>10
  <1> HIDE DEF G, P
  <1>12. f = [s \in SUBSET (1 .. k) |->
                IF s = {} THEN <<>>
                ELSE Append(f[s \ {Last(s)}], NextOf(S, key, f[s \ {Last(s)}]))]
    <2>1. f = [s \in SUBSET (1 .. k) |-> f[s]]
      BY <1>5 DEF IsFold
    <2>2. \A s \in SUBSET (1 .. k) :
             f[s] = IF s = {} THEN <<>>
                    ELSE Append(f[s \ {Last(s)}], NextOf(S, key, f[s \ {Last(s)}]))
      BY <1>6, <1>7, <1>9, <1>11
    <2> QED
      BY <2>1, <2>2
  <1>13. \E h : OrderRun(h, k, S, key)
    BY <1>12 DEF OrderRun
  <1> DEFINE h == CHOOSE h : OrderRun(h, k, S, key)
  <1>14. OrderRun(h, k, S, key)
    BY <1>13
  <1> HIDE DEF h
  <1>15. \A s \in SUBSET (1 .. k) :
            h[s] = IF s = {} THEN <<>>
                   ELSE Append(h[s \ {Last(s)}], NextOf(S, key, h[s \ {Last(s)}]))
    BY <1>14 DEF OrderRun
  <1> DEFINE Q == {s \in SUBSET (1 .. k) : Listed(S, key, h[s], Cardinality(s))}
  <1>16. \A s \in SUBSET (1 .. k) : s \in Q
    <2>1. {} \in Q
      BY <1>8, <1>15
    <2>2. ASSUME NEW s \in SUBSET (1 .. k), s # {}, s \ {Last(s)} \in Q PROVE s \in Q
      <3> DEFINE v == h[s \ {Last(s)}]
                 num == Cardinality(s \ {Last(s)})
      <3>1. num \in Nat /\ num < Cardinality(S) /\ Cardinality(s) = num + 1
        BY <1>7, <2>2 DEF k
      <3>2. Listed(S, key, v, num)
        BY <2>2
      <3>3. h[s] = Append(v, NextOf(S, key, v))
        BY <1>15, <2>2
      <3> HIDE DEF v, num
      <3>4. Listed(S, key, h[s], num + 1)
        BY <3>1, <3>2, <3>3, ListedGrows
      <3> QED
        BY <3>1, <3>4
    <2> HIDE DEF Q
    <2> QED
      BY <1>1, <2>1, <2>2, FoldProves
  <1>17. Listed(S, key, h[1 .. k], k)
    <2>1. Listed(S, key, h[1 .. k], Cardinality(1 .. k))
      BY <1>16
    <2>2. Cardinality(1 .. k) = k
      BY <1>1, FS_Interval
    <2> QED
      BY <2>1, <2>2
  <1>18. Mempool!InOrder(S, key) = h[1 .. k]
    BY InOrderIsRun DEF h, k
  <1> DEFINE w == Mempool!InOrder(S, key)
  <1>19. Listed(S, key, w, k)
    BY <1>17, <1>18
  <1> HIDE DEF w
  <1>20. Mempool!ToSet(w) = S
    <2>1. w \in Seq(S) /\ Cardinality(Mempool!ToSet(w)) = k
      BY <1>19 DEF Listed
    <2>2. Mempool!ToSet(w) \subseteq S
      BY <2>1 DEF Mempool!ToSet
    <2> QED
      BY <1>0, <2>1, <2>2, FS_Subset DEF k
  <1>21. \A t : t \in S <=> \E i \in 1 .. Len(w) : w[i] = t
    <2>1. DOMAIN w = 1 .. Len(w)
      BY <1>19 DEF Listed
    <2> QED
      BY <1>20, <2>1 DEF Mempool!ToSet
  <1> QED
    BY <1>19, <1>21 DEF w, k

-------------------------------------------------------------------------------
(* The mempool: the inventory.                                              *)

InvField == {"Transactions", "Tickets", "Votes", "Revocations", "InvRegular", "InvStake",
             "latest", "numAll", "totalOut", "likelyCount", "likelyTotal", "voteTotal",
             "inds", "voting", "block"}
\* An inventory of block b that holds the transactions S.
Holds(v, b, S) ==
    /\ v = [x \in InvField |-> v[x]]
    /\ v.block = b /\ v.InvRegular \cup v.InvStake = S

LEMMA HeldIs == ASSUME NEW v, NEW b, NEW S, Holds(v, b, S) PROVE Mempool!Held(v) = S
  BY DEF Holds, Mempool!Held

LEMMA CountTxHolds ==
    ASSUME NEW v, NEW b, NEW S, Holds(v, b, S), NEW t, NEW list
    PROVE  Holds(Mempool!CountTx(v, t, list), b, S \cup {t})
  <1> DEFINE lo == Mempool!ListOf(t)
             i1 == [v EXCEPT ![lo] = list,
                     !.InvRegular = IF Mempool!TypeOf(t) = "Regular" THEN @ \cup {t} ELSE @,
                     !.InvStake = IF Mempool!TypeOf(t) = "Regular" THEN @ ELSE @ \cup {t},
                     !.totalOut = @ + TxInfo[t].out]
             i2 == IF Mempool!TypeOf(t) # "Vote" THEN i1
                   ELSE [i1 EXCEPT !.inds = Mempool!SetTicketIndex(@, Mempool!VoteOf(t))]
             i3 == IF ~Mempool!Counts(v, t) THEN i2
                   ELSE [i2 EXCEPT !.likelyCount = @ + 1,
                                   !.likelyTotal = @ + TxInfo[t].out]
             i4 == IF Mempool!TypeOf(t) # "Vote" \/ ~Mempool!Counts(v, t) THEN i3
                   ELSE [i3 EXCEPT !.voteTotal = @ + TxInfo[t].out,
                           !.voting = Mempool!Tally(Mempool!MarkVoted(@, Mempool!VoteOf(t)),
                                                    Mempool!VoteOf(t))]
  <1>1. lo \in {"Tickets", "Votes", "Revocations", "Transactions"}
    BY DEF Mempool!ListOf
  <1> HIDE DEF lo
  <1>2. Holds(i1, b, S \cup {t})
    <2>1. v = [x \in InvField |-> v[x]] /\ v.block = b /\ v.InvRegular \cup v.InvStake = S
      BY DEF Holds
    <2>2. lo \in InvField /\ lo \notin {"InvRegular", "InvStake", "totalOut", "block"}
      BY <1>1 DEF InvField
    <2>3. i1 = [x \in InvField |-> i1[x]]
      BY <2>1
    <2>4. /\ i1.block = v.block
          /\ i1.InvRegular = IF Mempool!TypeOf(t) = "Regular" THEN v.InvRegular \cup {t}
                             ELSE v.InvRegular
          /\ i1.InvStake = IF Mempool!TypeOf(t) = "Regular" THEN v.InvStake
                           ELSE v.InvStake \cup {t}
      BY <2>1, <2>2 DEF InvField
    <2> HIDE DEF i1
    <2> QED
      BY <2>1, <2>3, <2>4 DEF Holds
  <1> HIDE DEF i1
  <1>3. Holds(i2, b, S \cup {t})
    BY <1>2 DEF Holds, InvField
  <1> HIDE DEF i2
  <1>4. Holds(i3, b, S \cup {t})
    BY <1>3 DEF Holds, InvField
  <1> HIDE DEF i3
  <1>5. Holds(i4, b, S \cup {t})
    BY <1>4 DEF Holds, InvField
  <1>6. Mempool!CountTx(v, t, list) = i4
    BY DEF Mempool!CountTx, i1, i2, i3, lo
  <1> HIDE DEF i4
  <1> QED
    BY <1>5, <1>6

LEMMA AddTxHolds ==
    ASSUME NEW v, NEW b, NEW S, Holds(v, b, S), NEW t
    PROVE  Holds(Mempool!AddTx(v, t), b, S \cup {t})
  <1> DEFINE c == Mempool!CountTx(v, t, <<t>> \o v[Mempool!ListOf(t)])
  <1>1. Holds(c, b, S \cup {t})
    BY CountTxHolds
  <1> HIDE DEF c
  <1>2. Mempool!AddTx(v, t)
          = [c EXCEPT !.numAll = @ + 1,
                      !.latest = IF Len(@) >= NumLatestMempoolTxns
                                 THEN <<t>> \o SubSeq(@, 1, Len(@) - 1)
                                 ELSE <<t>> \o @]
    BY DEF Mempool!AddTx, c
  <1> QED
    BY <1>1, <1>2 DEF Holds, InvField

\* ParseTxns adds up the transactions one after the other.
CountNext(v, t) == Mempool!CountTx(v, t, Append(v[Mempool!ListOf(t)], t))
ParseRun(f, txs, b) ==
    f = [s \in SUBSET DOMAIN txs |->
           IF s = {} THEN Mempool!EmptyInventory(b)
           ELSE CountNext(f[s \ {Last(s)}], txs[Last(s)])]

LEMMA ParseIsRun ==
    ASSUME NEW txs, NEW b
    PROVE  LET inv == (CHOOSE f : ParseRun(f, txs, b))[DOMAIN txs]
           IN  Mempool!ParseTxns(txs, b)
                 = [inv EXCEPT !.Votes = Mempool!MPTxsByHeight(@, inv.inds),
                               !.numAll = Len(txs),
                               !.latest = Mempool!Upto(NumLatestMempoolTxns, txs)]
  BY DEF Mempool!ParseTxns, Mempool!FoldLeft, Mempool!MapThenFoldSet, Mempool!Max,
         ParseRun, CountNext, Last

LEMMA ParseRunExists ==
    ASSUME NEW k \in Nat, NEW txs, DOMAIN txs = 1 .. k, NEW b
    PROVE  \E f : ParseRun(f, txs, b)
  <1> DEFINE base == Mempool!EmptyInventory(b)
             Part(m) == {s \in SUBSET (1 .. k) : Cardinality(s) <= m}
             Longer(f, m) == [s \in Part(m) |->
                                IF s = {} THEN base
                                ELSE CountNext(f[s \ {Last(s)}], txs[Last(s)])]
             Bad == {m \in Nat : ~ \E f : f = Longer(f, m)}
  <1> HIDE DEF base
  <1>1. \A s \in SUBSET (1 .. k) :
           Cardinality(s) \in Nat /\ (Cardinality(s) = 0 <=> s = {})
    BY LastLess
  <1>2. \A s \in SUBSET (1 .. k) : s # {} =>
           /\ s \ {Last(s)} \in SUBSET (1 .. k)
           /\ Cardinality(s \ {Last(s)}) = Cardinality(s) - 1
    BY LastLess
  <1>3. Bad = {}
    <2>1. SUFFICES ASSUME Bad # {} PROVE FALSE
      OBVIOUS
    <2>2. PICK m \in Bad : \A j \in Bad : m <= j
      <3>1. Bad \in SUBSET Nat
        OBVIOUS
      <3> HIDE DEF Bad
      <3> QED
        BY <2>1, <3>1, LeastNatural
    <2>3. m \in Nat /\ ~ \E f : f = Longer(f, m)
      OBVIOUS
    <2>4. CASE m = 0
      <3> DEFINE f == [s \in Part(0) |-> base]
      <3>1. \A s \in Part(0) : s = {}
        BY <1>1
      <3>2. f = Longer(f, 0)
        BY <3>1
      <3> QED
        BY <2>3, <2>4, <3>2
    <2>5. CASE m # 0
      <3>1. m - 1 \in Nat /\ m - 1 \notin Bad
        <4>1. m - 1 \in Nat /\ ~(m <= m - 1)
          BY <2>3, <2>5
        <4> HIDE DEF Bad
        <4> QED
          BY <2>2, <4>1
      <3>2. PICK f : f = Longer(f, m - 1)
        BY <3>1
      <3> DEFINE h == Longer(f, m)
      <3>3. Part(m - 1) \subseteq Part(m)
        BY <1>1, <2>3
      <3>4. \A s \in Part(m - 1) : h[s] = f[s]
        BY <3>2, <3>3
      <3>5. \A s \in Part(m) : s # {} => s \ {Last(s)} \in Part(m - 1)
        BY <1>1, <1>2, <2>3
      <3>6. \A s \in Part(m) : s # {} => f[s \ {Last(s)}] = h[s \ {Last(s)}]
        BY <3>4, <3>5
      <3>7. h = Longer(h, m)
        BY <3>6
      <3> QED
        BY <2>3, <3>7
    <2> QED
      BY <2>4, <2>5
  <1>4. Part(k) = SUBSET (1 .. k)
    <2>1. IsFiniteSet(1 .. k) /\ Cardinality(1 .. k) = k
      BY FS_Interval
    <2>2. \A s \in SUBSET (1 .. k) : Cardinality(s) <= k
      BY <2>1, FS_Subset
    <2> QED
      BY <2>2
  <1>5. PICK f : f = Longer(f, k)
    BY <1>3
  <1>6. f = [s \in SUBSET (1 .. k) |->
               IF s = {} THEN base
               ELSE CountNext(f[s \ {Last(s)}], txs[Last(s)])]
    BY <1>4, <1>5
  <1> QED
    BY <1>6 DEF ParseRun, base

LEMMA ParseHolds ==
    ASSUME NEW k \in Nat, NEW txs, DOMAIN txs = 1 .. k, NEW b, NEW S,
           \A t : t \in S <=> \E i \in 1 .. k : txs[i] = t
    PROVE  Holds(Mempool!ParseTxns(txs, b), b, S)
  <1> DEFINE h == CHOOSE f : ParseRun(f, txs, b)
             Of(s) == {txs[i] : i \in s}
             P == {s \in SUBSET (1 .. k) : Holds(h[s], b, Of(s))}
  <1>1. ParseRun(h, txs, b)
    BY ParseRunExists
  <1> HIDE DEF h
  <1>2. \A s \in SUBSET (1 .. k) :
           h[s] = IF s = {} THEN Mempool!EmptyInventory(b)
                  ELSE CountNext(h[s \ {Last(s)}], txs[Last(s)])
    BY <1>1 DEF ParseRun
  <1>3. {} \in P
    <2>1. Holds(Mempool!EmptyInventory(b), b, {})
      BY DEF Holds, InvField, Mempool!EmptyInventory
    <2>2. h[{}] = Mempool!EmptyInventory(b)
      BY <1>2
    <2> QED
      BY <2>1, <2>2
  <1>4. ASSUME NEW s \in SUBSET (1 .. k), s # {}, s \ {Last(s)} \in P PROVE s \in P
    <2> DEFINE v == h[s \ {Last(s)}]
               t == txs[Last(s)]
    <2>1. Last(s) \in s
      BY <1>4, LastLess
    <2>2. Of(s) = Of(s \ {Last(s)}) \cup {t}
      BY <2>1
    <2>3. Holds(v, b, Of(s \ {Last(s)}))
      BY <1>4
    <2>4. h[s] = Mempool!CountTx(v, t, Append(v[Mempool!ListOf(t)], t))
      BY <1>2, <1>4 DEF CountNext
    <2> HIDE DEF v, t
    <2> DEFINE list == Append(v[Mempool!ListOf(t)], t)
               H == Of(s \ {Last(s)})
    <2>5. Holds(h[s], b, H \cup {t})
      <3>1. Holds(v, b, H) /\ h[s] = Mempool!CountTx(v, t, list)
        BY <2>3, <2>4
      <3> HIDE DEF list, H
      <3> QED
        BY <3>1, CountTxHolds
    <2> QED
      BY <2>2, <2>5
  <1>5. \A s \in SUBSET (1 .. k) : s \in P
    <2> HIDE DEF P
    <2> QED
      BY <1>3, <1>4, FoldProves
  <1> DEFINE inv == h[1 .. k]
  <1>6. Holds(inv, b, S)
    <2>1. Of(1 .. k) = S
      OBVIOUS
    <2> QED
      BY <1>5, <2>1
  <1>7. Mempool!ParseTxns(txs, b)
          = [inv EXCEPT !.Votes = Mempool!MPTxsByHeight(@, inv.inds),
                        !.numAll = Len(txs),
                        !.latest = Mempool!Upto(NumLatestMempoolTxns, txs)]
    BY ParseIsRun DEF h
  <1> HIDE DEF inv
  <1> QED
    BY <1>6, <1>7 DEF Holds, InvField

\* What Refresh makes of the transactions that a collection has fetched.
LEMMA RefreshHolds ==
    ASSUME NEW S, IsFiniteSet(S), NEW B \in Nat, NEW time,
           \A t \in S : time[t] \in Nat /\ time[t] <= B, NEW b
    PROVE  Holds(Mempool!ParseTxns(Mempool!MPTxsByTime(S, time), b), b, S)
  <1> DEFINE key == [t \in S |-> -time[t]]
             v == Mempool!InOrder(S, key)
  <1>1. Keyed(S, key, B)
    BY DEF Keyed
  <1>2. v = Mempool!MPTxsByTime(S, time)
    BY DEF Mempool!MPTxsByTime
  <1> HIDE DEF key
  <1>3. Listed(S, key, v, Cardinality(S)) /\ \A t : t \in S <=> \E i \in 1 .. Len(v) : v[i] = t
    BY <1>1, InOrderIs
  <1>4. Len(v) \in Nat /\ DOMAIN v = 1 .. Len(v)
    BY <1>3 DEF Listed
  <1> HIDE DEF v
  <1> QED
    BY <1>2, <1>3, <1>4, ParseHolds

-------------------------------------------------------------------------------
(* The mempool: the ticket fees.                                            *)

LowestAt(num) == IF num >= MaxFreshStakePerBlock THEN num - MaxFreshStakePerBlock + 1 ELSE 1
\* The fees of c ascend, and the lowest mineable one is where the room ends.
FeesOK(c) ==
    /\ c.allFees \in Seq(Nat)
    /\ \A i, j \in 1 .. Len(c.allFees) : i <= j => c.allFees[i] <= c.allFees[j]
    /\ Len(c.allFees) > 0 => c.lowestMineable = c.allFees[LowestAt(Len(c.allFees))]

LEMMA AscendingIs ==
    ASSUME NEW S \in SUBSET Mempool!Tx
    PROVE  LET a == Mempool!Ascending(S)
           IN  a \in Seq(Nat) /\ \A i, j \in 1 .. Len(a) : i <= j => a[i] <= a[j]
  <1> DEFINE key == [t \in S |-> TxInfo[t].fee]
             v == Mempool!InOrder(S, key)
             a == [i \in DOMAIN v |-> TxInfo[v[i]].fee]
  <1>1. IsFiniteSet(S) /\ \A t \in S : TxInfo[t].fee \in Nat
    BY MempoolDataAssumption, FS_Subset, SameFinite DEF Mempool!MempoolDataConstants, Mempool!Tx
  <1>2. Keyed(S, key, 0)
    BY <1>1 DEF Keyed
  <1>3. Listed(S, key, v, Cardinality(S))
    <2> HIDE DEF key
    <2> QED
      BY <1>2, InOrderIs
  <1> HIDE DEF v
  <1>4. v \in Seq(S) /\ \A i, j \in 1 .. Len(v) : i <= j => key[v[i]] <= key[v[j]]
    BY <1>3 DEF Listed
  <1>5. Len(v) \in Nat /\ DOMAIN v = 1 .. Len(v) /\ \A i \in 1 .. Len(v) : v[i] \in S
    BY <1>4
  <1>6. \A i \in 1 .. Len(v) : a[i] = key[v[i]] /\ a[i] \in Nat
    BY <1>1, <1>5
  <1>7. a \in [1 .. Len(v) -> Nat]
    BY <1>5, <1>6
  <1>8. a \in Seq(Nat) /\ Len(a) = Len(v)
    <2> HIDE DEF a
    <2> QED
      BY <1>5, <1>7
  <1>9. Mempool!Ascending(S) = a
    BY DEF Mempool!Ascending, v
  <1> HIDE DEF a, key
  <1> QED
    BY <1>4, <1>6, <1>8, <1>9

LEMMA StakeDataOK == ASSUME poolJob.tickets \in SUBSET Mempool!Tx PROVE FeesOK(Mempool!StakeData)
  <1> DEFINE a == Mempool!Ascending(poolJob.tickets)
             d == Mempool!StakeData
  <1>1. a \in Seq(Nat) /\ \A i, j \in 1 .. Len(a) : i <= j => a[i] <= a[j]
    BY AscendingIs
  <1>2. d.allFees = a
    BY DEF Mempool!StakeData, Mempool!MinableFeeInfo
  <1>3. d.lowestMineable = IF Len(a) = 0 THEN 0 ELSE a[Mempool!lowestMineableIdx(Len(a)) + 1]
    BY DEF Mempool!StakeData, Mempool!MinableFeeInfo
  <1> HIDE DEF a, d
  <1>4. Len(a) \in Nat /\ MaxFreshStakePerBlock \in Nat \ {0}
    BY <1>1, MempoolDataAssumption DEF Mempool!MempoolDataConstants
  <1>5. Len(a) > 0 => Mempool!lowestMineableIdx(Len(a)) + 1 = LowestAt(Len(a))
    BY <1>4 DEF Mempool!lowestMineableIdx, LowestAt
  <1>6. FeesOK(d)
    BY <1>1, <1>2, <1>3, <1>4, <1>5 DEF FeesOK
  <1> QED
    BY <1>6 DEF d

LEMMA LesserIs ==
    ASSUME NEW a \in Int, NEW b \in Int
    PROVE  Mempool!Min({a, b}) = IF a <= b THEN a ELSE b
  BY DEF Mempool!Min

LEMMA FeesAnswer == ASSUME FeesOK(cache) PROVE Mempool!FeesAreHighest
  <1> DEFINE all == cache.allFees
             L == Len(all)
  <1>1. /\ all \in Seq(Nat) /\ L \in Nat
        /\ \A i, j \in 1 .. L : i <= j => all[i] <= all[j]
        /\ L > 0 => cache.lowestMineable = all[LowestAt(L)]
    BY DEF FeesOK
  <1>2. MaxFreshStakePerBlock \in Nat \ {0}
    BY MempoolDataAssumption DEF Mempool!MempoolDataConstants
  <1>3. L > 0 => cache.lowestMineable = Mempool!Highest(all, MaxFreshStakePerBlock)[1]
    <2> DEFINE m == MaxFreshStakePerBlock
    <2> HIDE DEF m, all
    <2>1. SUFFICES ASSUME L > 0 PROVE Mempool!Highest(all, m)[1] = all[LowestAt(L)]
      BY <1>1 DEF m
    <2>2. m \in Nat \ {0}
      BY <1>2 DEF m
    <2>3. CASE m >= L
      BY <1>1, <2>1, <2>2, <2>3 DEF Mempool!Highest, LowestAt, m
    <2>4. CASE m < L
      <3>1. Mempool!Highest(all, m) = SubSeq(all, L - m + 1, L)
        <4>1. ~(m = 0) /\ ~(m < 0 \/ m >= Len(all))
          BY <1>1, <2>2, <2>4
        <4> QED
          BY <4>1, Zenon DEF Mempool!Highest
      <3>2. SubSeq(all, L - m + 1, L)[1] = all[L - m + 1]
        BY <1>1, <2>2, <2>4
      <3> QED
        BY <1>1, <2>2, <2>4, <3>1, <3>2 DEF LowestAt, m
    <2> QED
      BY <1>1, <2>2, <2>3, <2>4
  <1>4. ASSUME NEW num \in -1 .. 3
        PROVE  LET f == Mempool!Highest(all, num)
                   k == IF num < 0 THEN L ELSE Mempool!Min({num, L})
               IN  /\ Len(f) = k
                   /\ \A v \in Mempool!ToSet(all) :
                         v \notin Mempool!ToSet(f) => \A w \in Mempool!ToSet(f) : v <= w
    <2> DEFINE f == Mempool!Highest(all, num)
    <2> HIDE DEF all
    <2>1. CASE num = 0
      <3>1. f = <<>> /\ Len(f) = 0 /\ Mempool!ToSet(f) = {}
        BY <2>1 DEF Mempool!Highest, Mempool!ToSet
      <3>2. Mempool!Min({num, L}) = 0
        BY <1>1, <2>1, LesserIs
      <3> HIDE DEF f
      <3> QED
        BY <2>1, <3>1, <3>2 DEF f
    <2>2. CASE num < 0 \/ (num # 0 /\ num >= L)
      <3>1. f = all
        BY <2>2 DEF Mempool!Highest
      <3>2. num >= 0 => Mempool!Min({num, L}) = L
        BY <1>1, <2>2, LesserIs
      <3> HIDE DEF f
      <3> QED
        BY <1>1, <2>2, <3>1, <3>2 DEF f
    <2>3. CASE num > 0 /\ num < L
      <3>1. f = SubSeq(all, L - num + 1, L)
        <4>1. ~(num = 0) /\ ~(num < 0 \/ num >= Len(all))
          BY <1>1, <2>3
        <4> QED
          BY <4>1, Zenon DEF Mempool!Highest
      <3>2. Len(f) = num /\ DOMAIN f = 1 .. num /\ \A i \in 1 .. num : f[i] = all[L - num + i]
        BY <1>1, <2>3, <3>1
      <3>3. Mempool!Min({num, L}) = num
        BY <1>1, <2>3, LesserIs
      <3> HIDE DEF f
      <3>4. ASSUME NEW v \in Mempool!ToSet(all), v \notin Mempool!ToSet(f),
                   NEW w \in Mempool!ToSet(f)
            PROVE  v <= w
        <4>1. PICK i \in 1 .. L : v = all[i]
          BY <1>1, <3>4 DEF Mempool!ToSet
        <4>2. PICK j \in 1 .. num : w = all[L - num + j]
          BY <3>2, <3>4 DEF Mempool!ToSet
        <4>3. i <= L - num
          <5>1. SUFFICES ASSUME i > L - num PROVE FALSE
            BY <1>1, <2>3
          <5>2. i - (L - num) \in 1 .. num /\ L - num + (i - (L - num)) = i
            BY <1>1, <2>3, <5>1
          <5>3. f[i - (L - num)] = v
            BY <3>2, <4>1, <5>2
          <5> QED
            BY <3>2, <3>4, <5>2, <5>3 DEF Mempool!ToSet
        <4>4. i <= L - num + j /\ L - num + j \in 1 .. L
          BY <1>1, <2>3, <4>3
        <4> QED
          BY <1>1, <4>1, <4>2, <4>4
      <3> QED
        BY <2>3, <3>2, <3>3, <3>4 DEF f
    <2> QED
      BY <1>1, <2>1, <2>2, <2>3
  <1> HIDE DEF L
  <1> QED
    BY <1>3, <1>4, Zenon DEF Mempool!FeesAreHighest, Mempool!GetFees, L

-------------------------------------------------------------------------------
(* The mempool: what the monitor knows of the node.                         *)

NodeSignal == [tx : {TRUE}, id : Mempool!Tx] \cup [tx : {FALSE}, id : Nat]
InQueue == {signals[i] : i \in 1 .. Len(signals)}
BlockPending == \E sig \in InQueue : ~sig.tx
TxQueued(t) == [tx |-> TRUE, id |-> t] \in InQueue
Listing == Mempool!Held(inventory)
\* A vote that the node takes is for a block that it has.
Timely(t) == Mempool!TypeOf(t) = "Vote" => Mempool!VoteOf(t).height <= poolBest
\* Block k and those before it have not mined t.
Fresh(t, k) == minedAt[t] = 0 \/ minedAt[t] > k
\* t came before block k was found.
Before(t, k) == came[t] <= found[k]
\* TxHandler drops the signal of t for the time of the last block.
Missed(t) == heard[t] < lastBlock.time /\ ~Before(t, lastBlock.hash)
\* What the monitor lists is not mined, or TxHandler took it for newer than the
\* last block, and the block that mined it is still to be handled.
AnotherBlock == BlockPending \/ lost \/ poolPC \in {"txs", "parsed"}
Listable(t) == Fresh(t, lastBlock.hash) \/ (heard[t] >= lastBlock.time /\ AnotherBlock)
IsBlock(b) == b.hash \in 1 .. poolBest /\ b = Mempool!BlockID(b.hash)

PoolTypes ==
    /\ poolBest \in Nat \ {0} /\ poolClock \in Nat
    /\ btime \in Seq(Nat) /\ Len(btime) = poolBest
    /\ found \in Seq(Nat) /\ Len(found) = poolBest
    /\ came \in [Mempool!Tx -> Nat] /\ heard \in [Mempool!Tx -> Nat]
    /\ minedAt \in [Mempool!Tx -> Nat]
    /\ txPool \in SUBSET Mempool!Tx /\ signals \in Seq(NodeSignal) /\ lost \in BOOLEAN
    /\ poolPC \in {"idle", "txStored", "txs", "parsed", "addresses"}
    /\ poolJob = [tx |-> poolJob.tx, txs |-> poolJob.txs, block |-> poolJob.block,
                  tickets |-> poolJob.tickets]
    /\ poolJob.txs \in SUBSET Mempool!Tx /\ poolJob.tickets \in SUBSET Mempool!Tx
    /\ addrMap = [a \in Addr |-> [outs |-> addrMap[a].outs, prev |-> addrMap[a].prev,
                                  txns |-> addrMap[a].txns, known |-> addrMap[a].known]]
FeesInv == FeesOK(cache) /\ \A d \in savers : FeesOK(d)
\* The node: what is mined has come; and the signal of a transaction is ahead of
\* that of the block that mined it.
BlockFollows(sigs, i) == \E j \in 1 .. Len(sigs) : i < j /\ ~sigs[j].tx
NodeInv ==
    /\ \A t \in Mempool!Tx :
          /\ came[t] <= poolClock /\ minedAt[t] <= poolBest
          /\ t \in txPool => came[t] > 0 /\ minedAt[t] = 0
          /\ came[t] = 0 => minedAt[t] = 0
          /\ came[t] > 0 => t \in txPool \/ minedAt[t] > 0
    /\ \A k \in 1 .. poolBest : found[k] <= poolClock
    /\ \A sig \in InQueue : sig.tx => came[sig.id] > 0 /\ Timely(sig.id)
    /\ \A i \in 1 .. Len(signals) :
          signals[i].tx => minedAt[signals[i].id] = 0 \/ BlockFollows(signals, i)
\* The monitor lists what it may, and a handler that is running carries nothing else.
ListInv ==
    /\ IsBlock(lastBlock)
    /\ \E b : Holds(inventory, b, Listing)
    /\ Listing \in SUBSET Mempool!Tx
    /\ \A t \in Listing : came[t] > 0 /\ Listable(t)
    /\ poolPC = "txStored" =>
          /\ poolJob.tx \in Mempool!Tx /\ came[poolJob.tx] > 0
          /\ Listable(poolJob.tx) /\ Timely(poolJob.tx)
    /\ poolPC \in {"txs", "parsed", "addresses"} => IsBlock(poolJob.block)
    /\ poolPC = "parsed" =>
          \A t \in poolJob.txs : came[t] > 0 /\ Fresh(t, poolJob.block.hash)
    /\ poolPC = "addresses" => lastBlock = poolJob.block /\ Listing = poolJob.txs
\* What the monitor lacks is on its way: a block, in a signal or in the collection
\* that is running; a transaction, in a signal or in the running handler, but for
\* one whose signal TxHandler drops for the time of the last block.
BlockDue(b) == BlockPending \/ b.hash = poolBest
Lists(S, k, t) == (t \in S \/ TxQueued(t)) /\ (Before(t, k) => t \in S)
BlockInv ==
    /\ poolPC = "txs" => BlockDue(poolJob.block)
    /\ ~lost /\ poolPC = "parsed" => BlockDue(poolJob.block)
    /\ ~lost /\ poolPC \notin {"txs", "parsed"} => BlockDue(lastBlock)
TxInv ==
    /\ ~lost /\ poolPC = "parsed" =>
          \A t \in txPool : Lists(poolJob.txs, poolJob.block.hash, t)
    /\ ~lost /\ poolPC \notin {"txs", "parsed"} =>
          \A t \in txPool :
             /\ \/ t \in Listing \/ TxQueued(t)
                \/ poolPC = "txStored" /\ poolJob.tx = t
                \/ BlockPending \/ Missed(t)
             /\ Before(t, lastBlock.hash) => t \in Listing
SpendsIn(S, a) == UNION {Mempool!SpendsOf(t, a) : t \in S}
Indexes(S) ==
    \A a \in Addr : /\ addrMap[a].outs = {t \in S : a \in TxInfo[t].pays}
                    /\ addrMap[a].prev = SpendsIn(S, a)
IndexInv ==
    /\ ~lost /\ poolPC = "idle" => BlockPending \/ Indexes(Listing)
    /\ ~lost /\ poolPC = "txStored" => BlockPending \/ Indexes(Listing \cup {poolJob.tx})
MempoolInv ==
    PoolTypes /\ FeesInv /\ NodeInv /\ ListInv /\ BlockInv /\ TxInv /\ IndexInv

\* Taking a signal and adding one, in terms of what is queued.
LEMMA QueueGrows ==
    ASSUME signals \in Seq(NodeSignal), NEW sig \in NodeSignal, signals' = Append(signals, sig)
    PROVE  /\ signals' \in Seq(NodeSignal)
           /\ \A m : m \in InQueue' <=> m \in InQueue \/ m = sig
  <1>1. /\ signals' \in Seq(NodeSignal) /\ Len(signals') = Len(signals) + 1
        /\ Len(signals) \in Nat
        /\ \A i \in 1 .. Len(signals) : signals'[i] = signals[i]
        /\ signals'[Len(signals) + 1] = sig
    <2> HIDE DEF NodeSignal
    <2> QED
      OBVIOUS
  <1>2. ASSUME NEW m, m \in InQueue' PROVE m \in InQueue \/ m = sig
    <2>1. PICK i \in 1 .. Len(signals') : m = signals'[i]
      BY <1>2 DEF InQueue
    <2>2. i \in 1 .. Len(signals) \/ i = Len(signals) + 1
      BY <1>1
    <2> QED
      BY <1>1, <2>1, <2>2 DEF InQueue
  <1>3. ASSUME NEW m, m \in InQueue \/ m = sig PROVE m \in InQueue'
    <2>1. CASE m \in InQueue
      <3>1. PICK i \in 1 .. Len(signals) : m = signals[i]
        BY <2>1 DEF InQueue
      <3>2. i \in 1 .. Len(signals') /\ m = signals'[i]
        BY <1>1, <3>1
      <3> QED
        BY <3>2 DEF InQueue
    <2>2. CASE m = sig
      <3>1. Len(signals) + 1 \in 1 .. Len(signals')
        BY <1>1
      <3> QED
        BY <1>1, <2>2, <3>1 DEF InQueue
    <2> QED
      BY <1>3, <2>1, <2>2
  <1> QED
    BY <1>1, <1>2, <1>3

LEMMA QueueShrinks ==
    ASSUME signals \in Seq(NodeSignal), signals # <<>>, signals' = Tail(signals)
    PROVE  /\ signals' \in Seq(NodeSignal)
           /\ Head(signals) \in InQueue /\ Head(signals) \in NodeSignal
           /\ \A m : m \in InQueue' => m \in InQueue
           /\ \A m : m \in InQueue => m \in InQueue' \/ m = Head(signals)
  <1>1. /\ signals' \in Seq(NodeSignal) /\ Len(signals') = Len(signals) - 1
        /\ Len(signals) \in Nat \ {0} /\ Head(signals) = signals[1]
        /\ Head(signals) \in NodeSignal
        /\ \A i \in 1 .. Len(signals) - 1 : signals'[i] = signals[i + 1]
    <2> HIDE DEF NodeSignal
    <2> QED
      OBVIOUS
  <1>2. Head(signals) \in InQueue
    BY <1>1 DEF InQueue
  <1>3. ASSUME NEW m, m \in InQueue' PROVE m \in InQueue
    <2>1. PICK i \in 1 .. Len(signals') : m = signals'[i]
      BY <1>3 DEF InQueue
    <2>2. i + 1 \in 1 .. Len(signals) /\ m = signals[i + 1]
      BY <1>1, <2>1
    <2> QED
      BY <2>2 DEF InQueue
  <1>4. ASSUME NEW m, m \in InQueue PROVE m \in InQueue' \/ m = Head(signals)
    <2>1. PICK i \in 1 .. Len(signals) : m = signals[i]
      BY <1>4 DEF InQueue
    <2>2. CASE i = 1
      BY <1>1, <2>1, <2>2
    <2>3. CASE i # 1
      <3>1. i - 1 \in 1 .. Len(signals') /\ m = signals'[i - 1]
        <4>1. i - 1 \in 1 .. Len(signals) - 1 /\ (i - 1) + 1 = i
          BY <1>1, <2>3
        <4> QED
          BY <1>1, <2>1, <4>1
      <3> QED
        BY <3>1 DEF InQueue
    <2> QED
      BY <2>2, <2>3
  <1> QED
    BY <1>1, <1>2, <1>3, <1>4

\* Signals by their kind.
LEMMA SignalKinds ==
    ASSUME NEW sig \in NodeSignal
    PROVE  /\ sig.tx = TRUE => sig.id \in Mempool!Tx /\ sig = [tx |-> TRUE, id |-> sig.id]
           /\ sig.tx \in BOOLEAN
           /\ ~sig.tx => sig = [tx |-> FALSE, id |-> sig.id]
  BY DEF NodeSignal

-------------------------------------------------------------------------------
(* The mempool: the node's steps.                                           *)

LEMMA NodeRests ==
    ASSUME NodeInv, UNCHANGED <<txPool, poolBest, poolClock, came, found, heard, btime, minedAt>>,
           signals \in Seq(NodeSignal),
           \/ signals' = signals
           \/ signals # <<>> /\ signals' = Tail(signals)
    PROVE  NodeInv'
  <1>1. \A m : m \in InQueue' => m \in InQueue
    BY QueueShrinks DEF InQueue
  <1>2. ASSUME NEW i \in 1 .. Len(signals'), signals'[i].tx
        PROVE  minedAt[signals'[i].id] = 0 \/ BlockFollows(signals', i)
    <2>1. CASE signals' = signals
      BY <1>2, <2>1 DEF NodeInv
    <2>2. CASE signals # <<>> /\ signals' = Tail(signals)
      <3>1. /\ Len(signals') = Len(signals) - 1 /\ Len(signals) \in Nat \ {0}
            /\ \A l \in 1 .. Len(signals) - 1 : signals'[l] = signals[l + 1]
        <4> HIDE DEF NodeSignal
        <4> QED
          BY <2>2
      <3>2. i \in Nat /\ i + 1 \in 1 .. Len(signals) /\ signals'[i] = signals[i + 1]
        BY <1>2, <3>1
      <3>3. CASE BlockFollows(signals, i + 1)
        <4>1. PICK j \in 1 .. Len(signals) : i + 1 < j /\ ~signals[j].tx
          BY <3>3 DEF BlockFollows
        <4>2. j - 1 \in 1 .. Len(signals) - 1 /\ i < j - 1 /\ (j - 1) + 1 = j
          BY <3>1, <3>2, <4>1
        <4>3. j - 1 \in 1 .. Len(signals') /\ signals'[j - 1] = signals[j]
          BY <3>1, <4>2
        <4> QED
          BY <4>1, <4>2, <4>3 DEF BlockFollows
      <3> QED
        BY <1>2, <3>2, <3>3 DEF NodeInv
    <2> QED
      BY <2>1, <2>2
  <1> QED
    BY <1>1, <1>2 DEF NodeInv, Timely

LEMMA TxAccepted ==
    ASSUME MempoolInv, NEW t \in Mempool!Tx, Mempool!NodeAccepts(t) PROVE MempoolInv'
  <1> DEFINE sig == [tx |-> TRUE, id |-> t]
  <1>1. /\ came[t] = 0 /\ Timely(t)
        /\ poolClock' = poolClock + 1
        /\ came' = [came EXCEPT ![t] = poolClock + 1]
        /\ \E now \in Times : heard' = [heard EXCEPT ![t] = now]
        /\ txPool' = txPool \cup {t} /\ signals' = Append(signals, sig)
        /\ UNCHANGED <<poolBest, found, btime, minedAt, lastBlock, inventory, txnsStore, addrMap,
                       poolPC, poolJob, savers, cache, poolFaults, lost>>
    BY DEF Mempool!NodeAccepts, Timely
  <1>2. /\ signals' \in Seq(NodeSignal)
        /\ \A m : m \in InQueue' <=> m \in InQueue \/ m = sig
    <2>1. sig \in NodeSignal
      BY DEF NodeSignal
    <2> HIDE DEF sig
    <2> QED
      BY <1>1, <2>1, QueueGrows DEF MempoolInv, PoolTypes
  <1>3. /\ poolBest \in Nat \ {0} /\ poolClock \in Nat /\ Len(btime) = poolBest
        /\ found \in Seq(Nat) /\ Len(found) = poolBest /\ Times \in SUBSET Nat
        /\ heard \in [Mempool!Tx -> Nat]
        /\ came \in [Mempool!Tx -> Nat] /\ minedAt \in [Mempool!Tx -> Nat]
    BY MonitorAssumption DEF MempoolInv, PoolTypes, Mempool!MonitorConstants
  <1>4. /\ \A u \in Mempool!Tx : u # t => came'[u] = came[u]
        /\ came'[t] = poolClock + 1 /\ came' \in [Mempool!Tx -> Nat]
        /\ minedAt[t] = 0
        /\ \A u \in Mempool!Tx : u # t => heard'[u] = heard[u]
        /\ heard' \in [Mempool!Tx -> Nat]
    BY <1>1, <1>3 DEF MempoolInv, NodeInv
  <1>5. \A k \in 1 .. poolBest : found[k] \in Nat
    BY <1>3
  <1>6. \A k \in 1 .. poolBest : ~Before(t, k)'
    <2> TAKE k \in 1 .. poolBest
    <2>1. found[k] <= poolClock
      BY DEF MempoolInv, NodeInv
    <2>2. ~(came'[t] <= found'[k])
      BY <1>1, <1>3, <1>4, <1>5, <2>1
    <2> QED
      BY <2>2 DEF Before
  <1>7. \A u \in Mempool!Tx : \A k : u # t => (Before(u, k)' <=> Before(u, k))
    BY <1>1, <1>4 DEF Before
  <1>8. \A u : TxQueued(u)' <=> TxQueued(u) \/ u = t
    BY <1>2 DEF TxQueued
  <1>9. BlockPending' <=> BlockPending
    BY <1>2 DEF BlockPending
  <1>10. PoolTypes'
    BY <1>1, <1>2, <1>3, <1>4 DEF MempoolInv, PoolTypes
  <1>11. FeesInv'
    BY <1>1 DEF MempoolInv, FeesInv, FeesOK
  <1>12. NodeInv'
    <2>1. ASSUME NEW u \in Mempool!Tx
          PROVE  /\ came'[u] <= poolClock' /\ minedAt'[u] <= poolBest'
                 /\ u \in txPool' => came'[u] > 0 /\ minedAt'[u] = 0
                 /\ came'[u] = 0 => minedAt'[u] = 0
                 /\ came'[u] > 0 => u \in txPool' \/ minedAt'[u] > 0
      <3>1. /\ came[u] <= poolClock /\ minedAt[u] <= poolBest
            /\ u \in txPool => came[u] > 0 /\ minedAt[u] = 0
            /\ came[u] = 0 => minedAt[u] = 0
            /\ came[u] > 0 => u \in txPool \/ minedAt[u] > 0
            /\ came[u] \in Nat
        BY <1>3 DEF MempoolInv, NodeInv
      <3> QED
        BY <1>1, <1>3, <1>4, <3>1
    <2>2. ASSUME NEW k \in 1 .. poolBest PROVE found'[k] <= poolClock'
      <3>1. found[k] <= poolClock
        BY DEF MempoolInv, NodeInv
      <3> QED
        BY <1>1, <1>3, <1>5, <3>1
    <2>3. ASSUME NEW i \in 1 .. Len(signals'), signals'[i].tx
          PROVE  minedAt'[signals'[i].id] = 0 \/ BlockFollows(signals', i)
      <3>1. /\ Len(signals') = Len(signals) + 1 /\ Len(signals) \in Nat
            /\ \A l \in 1 .. Len(signals) : signals'[l] = signals[l]
            /\ signals'[Len(signals) + 1] = sig
        <4>1. signals \in Seq(NodeSignal)
          BY DEF MempoolInv, PoolTypes
        <4> HIDE DEF NodeSignal, sig
        <4> QED
          BY <1>1, <4>1
      <3>2. CASE i = Len(signals) + 1
        BY <1>1, <1>4, <3>1, <3>2
      <3>3. CASE i \in 1 .. Len(signals)
        <4>1. signals'[i] = signals[i] /\ minedAt' = minedAt
          BY <1>1, <3>1, <3>3
        <4>2. minedAt[signals[i].id] = 0 \/ BlockFollows(signals, i)
          BY <2>3, <3>3, <4>1 DEF MempoolInv, NodeInv
        <4>3. BlockFollows(signals, i) => BlockFollows(signals', i)
          BY <3>1 DEF BlockFollows
        <4> QED
          BY <4>1, <4>2, <4>3
      <3> QED
        BY <3>1, <3>2, <3>3
    <2>4. ASSUME NEW m \in InQueue', m.tx PROVE came'[m.id] > 0 /\ Timely(m.id)'
      <3>1. CASE m = sig
        BY <1>1, <1>3, <1>4, <3>1 DEF Timely
      <3>2. CASE m \in InQueue
        <4>1. m \in NodeSignal
          BY <3>2 DEF MempoolInv, PoolTypes, InQueue
        <4>2. m.id \in Mempool!Tx /\ came[m.id] > 0 /\ Timely(m.id)
          BY <2>4, <3>2, <4>1, SignalKinds DEF MempoolInv, NodeInv
        <4> QED
          BY <1>1, <1>3, <1>4, <4>2 DEF Timely
      <3> QED
        BY <1>2, <2>4, <3>1, <3>2
    <2> QED
      BY <1>1, <2>1, <2>2, <2>3, <2>4 DEF NodeInv
  <1>13. ListInv'
    <2>1. \A u \in Mempool!Tx : came[u] > 0 => came'[u] > 0
      BY <1>1, <1>4
    <2>2. /\ \A u, k : Fresh(u, k)' <=> Fresh(u, k)
          /\ \A u \in Mempool!Tx : came[u] > 0 /\ Listable(u) => Listable(u)'
      <3>1. \A u, k : Fresh(u, k)' <=> Fresh(u, k)
        BY <1>1 DEF Fresh
      <3>2. AnotherBlock => AnotherBlock'
        BY <1>1, <1>9 DEF AnotherBlock
      <3>3. \A u \in Mempool!Tx : came[u] > 0 => heard'[u] = heard[u]
        BY <1>1, <1>4
      <3> QED
        BY <1>1, <3>1, <3>2, <3>3 DEF Listable
    <2>3. (IsBlock(lastBlock)' <=> IsBlock(lastBlock))
          /\ (IsBlock(poolJob.block)' <=> IsBlock(poolJob.block))
      BY <1>1 DEF IsBlock, Mempool!BlockID
    <2>4. Listing' = Listing /\ inventory' = inventory /\ lastBlock' = lastBlock
          /\ poolPC' = poolPC /\ poolJob' = poolJob /\ (Timely(poolJob.tx)' <=> Timely(poolJob.tx))
      BY <1>1 DEF Listing, Timely
    <2>5. poolJob.txs \in SUBSET Mempool!Tx
      BY DEF MempoolInv, PoolTypes
    <2> QED
      BY <2>1, <2>2, <2>3, <2>4, <2>5 DEF MempoolInv, ListInv
  <1>14. BlockInv'
    BY <1>1, <1>9 DEF MempoolInv, BlockInv, BlockDue
  <1>15. Listing' = Listing /\ lastBlock' = lastBlock
    BY <1>1 DEF Listing
  <1>16. TxInv'
    <2>1. txPool \in SUBSET Mempool!Tx
      BY DEF MempoolInv, PoolTypes
    <2>2. ASSUME ~lost, poolPC = "parsed", NEW u \in txPool'
          PROVE  Lists(poolJob.txs, poolJob.block.hash, u)'
      <3>1. poolJob.block.hash \in 1 .. poolBest
        BY <2>2 DEF MempoolInv, ListInv, IsBlock
      <3>2. CASE u = t
        BY <1>1, <1>6, <1>8, <3>1, <3>2 DEF Lists
      <3>3. CASE u # t
        <4>1. u \in txPool /\ u \in Mempool!Tx /\ Lists(poolJob.txs, poolJob.block.hash, u)
          BY <1>1, <2>1, <2>2, <3>3 DEF MempoolInv, TxInv
        <4> QED
          BY <1>1, <1>7, <1>8, <3>3, <4>1 DEF Lists
      <3> QED
        BY <3>2, <3>3
    <2>3. ASSUME ~lost, poolPC \notin {"txs", "parsed"}, NEW u \in txPool'
          PROVE  /\ \/ u \in Listing \/ TxQueued(u)'
                    \/ poolPC = "txStored" /\ poolJob.tx = u
                    \/ BlockPending \/ Missed(u)'
                 /\ Before(u, lastBlock.hash)' => u \in Listing
      <3>1. lastBlock.hash \in 1 .. poolBest
        BY DEF MempoolInv, ListInv, IsBlock
      <3>2. CASE u = t
        BY <1>6, <1>8, <1>15, <3>1, <3>2
      <3>3. CASE u # t
        <4>1. u \in txPool /\ u \in Mempool!Tx
          BY <1>1, <2>1, <2>3, <3>3
        <4>2. /\ \/ u \in Listing \/ TxQueued(u)
                 \/ poolPC = "txStored" /\ poolJob.tx = u
                 \/ BlockPending \/ Missed(u)
              /\ Before(u, lastBlock.hash) => u \in Listing
          BY <2>3, <4>1 DEF MempoolInv, TxInv
        <4>3. Missed(u) => Missed(u)'
          BY <1>1, <1>4, <1>7, <3>3, <4>1 DEF Missed
        <4> QED
          BY <1>7, <1>8, <1>15, <3>3, <4>1, <4>2, <4>3
      <3> QED
        BY <3>2, <3>3
    <2> QED
      BY <1>1, <1>9, <1>15, <2>2, <2>3 DEF TxInv
  <1>17. IndexInv'
    BY <1>1, <1>9, <1>15 DEF MempoolInv, IndexInv, Indexes
  <1> QED
    BY <1>10, <1>11, <1>12, <1>13, <1>14, <1>16, <1>17 DEF MempoolInv

LEMMA BlockMined == ASSUME MempoolInv, Mempool!NodeMines PROVE MempoolInv'
  <1>1. PICK mined \in SUBSET txPool, now \in Times :
           /\ txPool' = txPool \ mined
           /\ minedAt' = [t \in Mempool!Tx |-> IF t \in mined THEN poolBest + 1 ELSE minedAt[t]]
           /\ btime' = Append(btime, now)
    BY DEF Mempool!NodeMines
  <1> DEFINE sig == [tx |-> FALSE, id |-> poolBest + 1]
  <1>2. /\ poolClock' = poolClock + 1 /\ poolBest' = poolBest + 1
        /\ signals' = Append(signals, sig) /\ found' = Append(found, poolClock + 1)
        /\ UNCHANGED <<came, heard, lastBlock, inventory, txnsStore, addrMap, poolPC, poolJob,
                       savers, cache, poolFaults, lost>>
    BY DEF Mempool!NodeMines
  <1>3. /\ poolBest \in Nat \ {0} /\ poolClock \in Nat /\ Len(btime) = poolBest
        /\ btime \in Seq(Nat) /\ now \in Nat /\ txPool \in SUBSET Mempool!Tx
        /\ found \in Seq(Nat) /\ Len(found) = poolBest /\ heard \in [Mempool!Tx -> Nat]
        /\ came \in [Mempool!Tx -> Nat] /\ minedAt \in [Mempool!Tx -> Nat]
    BY MonitorAssumption DEF MempoolInv, PoolTypes, Mempool!MonitorConstants
  <1>4. /\ signals' \in Seq(NodeSignal)
        /\ \A m : m \in InQueue' <=> m \in InQueue \/ m = sig
    <2>1. sig \in NodeSignal
      BY <1>3 DEF NodeSignal
    <2> HIDE DEF sig
    <2> QED
      BY <1>2, <2>1, QueueGrows DEF MempoolInv, PoolTypes
  <1>5. /\ btime' \in Seq(Nat) /\ Len(btime') = poolBest'
        /\ \A k \in 1 .. poolBest : btime'[k] = btime[k]
    BY <1>1, <1>2, <1>3
  <1>f. /\ found' \in Seq(Nat) /\ Len(found') = poolBest'
        /\ \A k \in 1 .. poolBest : found'[k] = found[k] /\ found[k] \in Nat
        /\ found'[poolBest + 1] = poolClock + 1
    <2> DEFINE x == poolClock + 1
    <2>1. found' = Append(found, x) /\ x \in Nat
      BY <1>2, <1>3
    <2> HIDE DEF x
    <2>2. /\ found' \in Seq(Nat) /\ Len(found') = poolBest + 1
          /\ \A k \in 1 .. poolBest : found'[k] = found[k] /\ found[k] \in Nat
          /\ found'[poolBest + 1] = x
      BY <1>3, <2>1
    <2> QED
      BY <1>2, <2>2 DEF x
  <1>6. /\ minedAt' \in [Mempool!Tx -> Nat]
        /\ \A t \in mined : minedAt'[t] = poolBest + 1 /\ minedAt[t] = 0
        /\ \A t \in Mempool!Tx : t \notin mined => minedAt'[t] = minedAt[t]
    BY <1>1, <1>3 DEF MempoolInv, NodeInv
  <1>7. BlockPending'
    <2>1. sig \in InQueue' /\ ~sig.tx
      BY <1>4
    <2> QED
      BY <2>1 DEF BlockPending
  <1>8. \A t : TxQueued(t)' <=> TxQueued(t)
    BY <1>4 DEF TxQueued
  <1>9. \A k \in 1 .. poolBest : k \in 1 .. poolBest'
    BY <1>2, <1>3
  <1>10. \A t \in Mempool!Tx, k \in 1 .. poolBest : Before(t, k)' <=> Before(t, k)
    BY <1>2, <1>f DEF Before
  <1>11. \A t \in Mempool!Tx, k \in 1 .. poolBest : Fresh(t, k) => Fresh(t, k)'
    BY <1>3, <1>6 DEF Fresh
  <1>12. \A b : IsBlock(b) => IsBlock(b)'
    BY <1>5, <1>9 DEF IsBlock, Mempool!BlockID
  <1>13. \A t \in Mempool!Tx : Timely(t) => Timely(t)'
    <2>1. \A t \in Mempool!Tx : Mempool!VoteOf(t).height \in Nat
      BY MempoolDataAssumption DEF Mempool!MempoolDataConstants, Mempool!Tx, Mempool!VoteOf
    <2> QED
      BY <1>2, <1>3, <2>1 DEF Timely
  <1>14. PoolTypes'
    BY <1>1, <1>2, <1>3, <1>4, <1>5, <1>6, <1>f DEF MempoolInv, PoolTypes
  <1>15. FeesInv'
    BY <1>2 DEF MempoolInv, FeesInv, FeesOK
  <1>16. NodeInv'
    <2>1. ASSUME NEW t \in Mempool!Tx
          PROVE  /\ came[t] \in Nat /\ minedAt[t] \in Nat /\ came'[t] = came[t]
                 /\ came[t] <= poolClock /\ minedAt[t] <= poolBest
                 /\ t \in txPool => came[t] > 0 /\ minedAt[t] = 0
                 /\ came[t] = 0 => minedAt[t] = 0
                 /\ came[t] > 0 => t \in txPool \/ minedAt[t] > 0
      BY <1>2, <1>3 DEF MempoolInv, NodeInv
    <2>2. ASSUME NEW t \in Mempool!Tx
          PROVE  /\ came'[t] <= poolClock' /\ minedAt'[t] <= poolBest'
                 /\ t \in txPool' => came'[t] > 0 /\ minedAt'[t] = 0
                 /\ came'[t] = 0 => minedAt'[t] = 0
                 /\ came'[t] > 0 => t \in txPool' \/ minedAt'[t] > 0
      <3>1. CASE t \in mined
        BY <1>1, <1>2, <1>3, <1>6, <2>1, <3>1
      <3>2. CASE t \notin mined
        BY <1>1, <1>2, <1>3, <1>6, <2>1, <3>2
      <3> QED
        BY <3>1, <3>2
    <2>3. ASSUME NEW k \in 1 .. poolBest' PROVE found'[k] <= poolClock'
      <3>1. CASE k = poolBest + 1
        BY <1>2, <1>3, <1>f, <3>1
      <3>2. CASE k # poolBest + 1
        <4>1. k \in 1 .. poolBest
          BY <1>2, <1>3, <3>2
        <4>2. found[k] <= poolClock
          BY <4>1 DEF MempoolInv, NodeInv
        <4> QED
          BY <1>2, <1>3, <1>f, <4>1, <4>2
      <3> QED
        BY <3>1, <3>2
    <2>4. ASSUME NEW i \in 1 .. Len(signals'), signals'[i].tx
          PROVE  BlockFollows(signals', i)
      <3>1. /\ Len(signals') = Len(signals) + 1 /\ Len(signals) \in Nat
            /\ signals'[Len(signals) + 1] = sig
        <4>1. signals \in Seq(NodeSignal)
          BY DEF MempoolInv, PoolTypes
        <4> HIDE DEF NodeSignal, sig
        <4> QED
          BY <1>2, <4>1
      <3>2. i # Len(signals) + 1
        BY <2>4, <3>1
      <3> QED
        BY <3>1, <3>2 DEF BlockFollows
    <2>5. ASSUME NEW m \in InQueue', m.tx PROVE came'[m.id] > 0 /\ Timely(m.id)'
      <3>1. m \in InQueue
        BY <1>4, <2>5
      <3>2. m \in NodeSignal
        BY <3>1 DEF MempoolInv, PoolTypes, InQueue
      <3>3. m.id \in Mempool!Tx /\ came[m.id] > 0 /\ Timely(m.id)
        BY <2>5, <3>1, <3>2, SignalKinds DEF MempoolInv, NodeInv
      <3> QED
        BY <1>2, <1>13, <3>3
    <2> QED
      BY <2>2, <2>3, <2>4, <2>5 DEF NodeInv
  <1>17. /\ Listing' = Listing /\ lastBlock' = lastBlock /\ inventory' = inventory
         /\ poolJob' = poolJob /\ poolPC' = poolPC /\ came' = came /\ lost' = lost
    BY <1>2 DEF Listing
  <1>18. lastBlock.hash \in 1 .. poolBest /\ IsBlock(lastBlock)
    BY DEF MempoolInv, ListInv, IsBlock
  <1>19. ListInv'
    <2>0. \A t \in Mempool!Tx : Listable(t) => Listable(t)'
      BY <1>2, <1>7, <1>11, <1>17, <1>18 DEF Listable, AnotherBlock
    <2>1. \A t \in Listing : came[t] > 0 /\ Listable(t)'
      BY <1>17, <2>0 DEF MempoolInv, ListInv
    <2>2. poolPC = "parsed" => \A t \in poolJob.txs : came[t] > 0 /\ Fresh(t, poolJob.block.hash)'
      <3>1. ASSUME poolPC = "parsed"
            PROVE  /\ poolJob.block.hash \in 1 .. poolBest /\ poolJob.txs \in SUBSET Mempool!Tx
                   /\ \A t \in poolJob.txs : came[t] > 0 /\ Fresh(t, poolJob.block.hash)
        BY <3>1 DEF MempoolInv, ListInv, IsBlock, PoolTypes
      <3> QED
        BY <1>11, <1>17, <3>1
    <2>3. poolPC = "txStored" =>
             /\ poolJob.tx \in Mempool!Tx /\ came[poolJob.tx] > 0
             /\ Listable(poolJob.tx)' /\ Timely(poolJob.tx)'
      <3>1. ASSUME poolPC = "txStored"
            PROVE  /\ poolJob.tx \in Mempool!Tx /\ came[poolJob.tx] > 0
                   /\ Listable(poolJob.tx) /\ Timely(poolJob.tx)
        BY <3>1 DEF MempoolInv, ListInv
      <3>2. ASSUME poolPC = "txStored" PROVE Timely(poolJob.tx)'
        BY <1>13, <1>17, <3>1, <3>2
      <3> QED
        BY <1>17, <2>0, <3>1, <3>2
    <2>4. IsBlock(lastBlock)'
      BY <1>12, <1>17, <1>18
    <2>5. poolPC \in {"txs", "parsed", "addresses"} => IsBlock(poolJob.block)'
      BY <1>12, <1>17 DEF MempoolInv, ListInv
    <2> QED
      BY <1>17, <2>1, <2>2, <2>3, <2>4, <2>5 DEF MempoolInv, ListInv
  <1>20. BlockInv'
    BY <1>7 DEF BlockInv, BlockDue
  <1>21. TxInv'
    <2>1. ASSUME ~lost, poolPC = "parsed", NEW t \in txPool'
          PROVE  Lists(poolJob.txs, poolJob.block.hash, t)'
      <3>1. poolJob.block.hash \in 1 .. poolBest
        BY <2>1 DEF MempoolInv, ListInv, IsBlock
      <3>2. t \in txPool /\ t \in Mempool!Tx
        BY <1>1, <1>3, <2>1
      <3>3. Lists(poolJob.txs, poolJob.block.hash, t)
        BY <2>1, <3>2 DEF MempoolInv, TxInv
      <3> QED
        BY <1>8, <1>10, <1>17, <3>1, <3>2, <3>3 DEF Lists
    <2>2. ASSUME ~lost, poolPC \notin {"txs", "parsed"}, NEW t \in txPool'
          PROVE  Before(t, lastBlock.hash)' => t \in Listing
      <3>1. t \in txPool /\ t \in Mempool!Tx
        BY <1>1, <1>3, <2>2
      <3>2. Before(t, lastBlock.hash) => t \in Listing
        BY <2>2, <3>1 DEF MempoolInv, TxInv
      <3> QED
        BY <1>10, <1>17, <1>18, <3>1, <3>2
    <2> QED
      BY <1>7, <1>17, <2>1, <2>2 DEF TxInv
  <1>22. IndexInv'
    BY <1>7 DEF IndexInv
  <1> QED
    BY <1>14, <1>15, <1>16, <1>19, <1>20, <1>21, <1>22 DEF MempoolInv

-------------------------------------------------------------------------------
(* The mempool: TxHandler.                                                  *)

LEMMA NodeStands ==
    ASSUME UNCHANGED <<poolBest, came, found, btime, minedAt>>
    PROVE  /\ \A t, k : (Fresh(t, k)' <=> Fresh(t, k)) /\ (Before(t, k)' <=> Before(t, k))
           /\ \A t : Timely(t)' <=> Timely(t)
           /\ \A b : IsBlock(b)' <=> IsBlock(b)
  BY DEF Fresh, Before, Timely, IsBlock, Mempool!BlockID

\* The signal at the head is of a transaction that the node has taken.
LEMMA TxSignal ==
    ASSUME MempoolInv, Mempool!TxPending, signals' = Tail(signals)
    PROVE  LET t == Head(signals).id
           IN  /\ t \in Mempool!Tx /\ came[t] > 0 /\ Timely(t)
               /\ signals' \in Seq(NodeSignal)
               /\ \A m : m \in InQueue' => m \in InQueue
               /\ BlockPending' <=> BlockPending
               /\ \A u : TxQueued(u) => TxQueued(u)' \/ u = t
               /\ minedAt[t] = 0 \/ BlockPending
  <1> DEFINE sig == Head(signals)
  <1>1. /\ signals' \in Seq(NodeSignal) /\ sig \in InQueue /\ sig \in NodeSignal
        /\ \A m : m \in InQueue' => m \in InQueue
        /\ \A m : m \in InQueue => m \in InQueue' \/ m = sig
    BY QueueShrinks DEF MempoolInv, PoolTypes, Mempool!TxPending
  <1>2. sig.tx
    BY DEF Mempool!TxPending
  <1> HIDE DEF sig
  <1>3. sig.id \in Mempool!Tx /\ sig = [tx |-> TRUE, id |-> sig.id]
    BY <1>1, <1>2 DEF NodeSignal
  <1>4. came[sig.id] > 0 /\ Timely(sig.id)
    BY <1>1, <1>2 DEF MempoolInv, NodeInv
  <1>5. BlockPending' <=> BlockPending
    BY <1>1, <1>2 DEF BlockPending
  <1>6. \A u : TxQueued(u) => TxQueued(u)' \/ u = sig.id
    BY <1>1, <1>3 DEF TxQueued
  <1>7. 1 \in 1 .. Len(signals) /\ signals[1] = sig
    <2>1. signals \in Seq(NodeSignal) /\ signals # <<>>
      BY DEF MempoolInv, PoolTypes, Mempool!TxPending
    <2> HIDE DEF NodeSignal
    <2> QED
      BY <2>1 DEF sig
  <1>8. minedAt[sig.id] = 0 \/ BlockPending
    <2>1. minedAt[sig.id] = 0 \/ BlockFollows(signals, 1)
      BY <1>2, <1>7 DEF MempoolInv, NodeInv
    <2> QED
      BY <2>1 DEF BlockFollows, BlockPending, InQueue
  <1> QED
    BY <1>1, <1>3, <1>4, <1>5, <1>6, <1>8 DEF sig

LEMMA TxDropped == ASSUME MempoolInv, Mempool!TxIgnored PROVE MempoolInv'
  <1> DEFINE t == Head(signals).id
  <1>1. /\ Mempool!TxPending /\ Mempool!Ignored(t) /\ signals' = Tail(signals)
        /\ UNCHANGED <<txPool, poolBest, poolClock, came, found, heard, btime, minedAt, lastBlock, inventory,
                       txnsStore, addrMap, poolPC, poolJob, savers, cache, poolFaults, lost>>
    BY DEF Mempool!TxIgnored
  <1>2. /\ t \in Mempool!Tx /\ signals' \in Seq(NodeSignal)
        /\ \A m : m \in InQueue' => m \in InQueue
        /\ BlockPending' <=> BlockPending
        /\ \A u : TxQueued(u) => TxQueued(u)' \/ u = t
    BY <1>1, TxSignal
  <1>3. poolPC = "idle"
    BY <1>1 DEF Mempool!TxPending
  <1>4. t \in Listing \/ heard[t] < lastBlock.time
    BY <1>1 DEF Mempool!Ignored, Listing
  <1> HIDE DEF t
  <1>5. /\ \A u, k : (Fresh(u, k)' <=> Fresh(u, k)) /\ (Before(u, k)' <=> Before(u, k))
        /\ \A u : Timely(u)' <=> Timely(u)
        /\ \A b : IsBlock(b)' <=> IsBlock(b)
    BY <1>1, NodeStands
  <1>6. /\ Listing' = Listing /\ lastBlock' = lastBlock /\ inventory' = inventory
        /\ poolJob' = poolJob /\ poolPC' = poolPC /\ came' = came /\ lost' = lost
        /\ heard' = heard
        /\ addrMap' = addrMap /\ txPool' = txPool /\ poolBest' = poolBest
    BY <1>1 DEF Listing
  <1>7. PoolTypes'
    BY <1>1, <1>2 DEF MempoolInv, PoolTypes
  <1>8. FeesInv'
    BY <1>1 DEF MempoolInv, FeesInv, FeesOK
  <1>9. NodeInv'
    BY <1>1, <1>2, NodeRests DEF MempoolInv
  <1>10. ListInv'
    <2>1. \A u : Listable(u)' <=> Listable(u)
      BY <1>2, <1>5, <1>6 DEF Listable, AnotherBlock
    <2> QED
      BY <1>3, <1>5, <1>6, <2>1 DEF MempoolInv, ListInv
  <1>11. BlockInv'
    BY <1>2, <1>6 DEF MempoolInv, BlockInv, BlockDue
  <1>12. TxInv'
    <2>1. ASSUME ~lost, NEW u \in txPool
          PROVE  /\ \/ u \in Listing \/ TxQueued(u)' \/ BlockPending \/ Missed(u)
                 /\ Before(u, lastBlock.hash) => u \in Listing
      <3>1. /\ u \in Listing \/ TxQueued(u) \/ BlockPending \/ Missed(u)
            /\ Before(u, lastBlock.hash) => u \in Listing
        BY <1>3, <2>1 DEF MempoolInv, TxInv
      <3>2. CASE u # t
        BY <1>2, <3>1, <3>2
      <3>3. CASE u = t /\ u \notin Listing
        <4>1. Missed(u)
          BY <1>4, <3>1, <3>3 DEF Missed
        <4> QED
          BY <3>1, <4>1
      <3> QED
        BY <3>1, <3>2, <3>3
    <2>2. \A u : Missed(u)' <=> Missed(u)
      BY <1>5, <1>6 DEF Missed
    <2> QED
      BY <1>2, <1>3, <1>5, <1>6, <2>1, <2>2 DEF TxInv
  <1>13. IndexInv'
    BY <1>2, <1>3, <1>6 DEF MempoolInv, IndexInv, Indexes
  <1> QED
    BY <1>7, <1>8, <1>9, <1>10, <1>11, <1>12, <1>13 DEF MempoolInv

\* The index with one transaction more.
LEMMA IndexGrows ==
    ASSUME PoolTypes, NEW t,
           NEW m, m = Mempool!TxPrevOutsByAddr(Mempool!TxOutpointsByAddr(addrMap, t), t, TRUE)
    PROVE  \A a \in Addr :
              /\ m[a].outs = addrMap[a].outs \cup (IF a \in TxInfo[t].pays THEN {t} ELSE {})
              /\ m[a].prev = addrMap[a].prev \cup Mempool!SpendsOf(t, a)
  <1> TAKE a \in Addr
  <1> DEFINE r == addrMap[a]
             o == Mempool!TxOutpointsByAddr(addrMap, t)
             sp == Mempool!SpendsOf(t, a)
             paid == IF a \in TxInfo[t].pays THEN {t} ELSE {}
  <1>1. r = [outs |-> r.outs, prev |-> r.prev, txns |-> r.txns, known |-> r.known]
    BY DEF PoolTypes
  <1>2. o[a] = IF a \notin TxInfo[t].pays THEN r
               ELSE [r EXCEPT !.outs = @ \cup {t}, !.known = TRUE]
    BY DEF Mempool!TxOutpointsByAddr
  <1> HIDE DEF o, r
  <1>3. m[a] = IF sp = {} THEN o[a] ELSE [o[a] EXCEPT !.prev = @ \cup sp, !.known = TRUE]
    BY DEF Mempool!TxPrevOutsByAddr, o
  <1> HIDE DEF sp
  <1>4. /\ o[a].outs = r.outs \cup paid /\ o[a].prev = r.prev
        /\ o[a] = [outs |-> o[a].outs, prev |-> o[a].prev, txns |-> o[a].txns,
                   known |-> o[a].known]
    <2>1. CASE a \in TxInfo[t].pays
      BY <1>1, <1>2, <2>1
    <2>2. CASE a \notin TxInfo[t].pays
      BY <1>1, <1>2, <2>2
    <2> QED
      BY <2>1, <2>2
  <1> HIDE DEF paid
  <1>5. m[a].outs = o[a].outs /\ m[a].prev = o[a].prev \cup sp
    <2>1. CASE sp = {}
      BY <1>3, <2>1
    <2>2. CASE sp # {}
      BY <1>3, <1>4, <2>2
    <2> QED
      BY <2>1, <2>2
  <1>6. m[a].outs = r.outs \cup paid /\ m[a].prev = r.prev \cup sp
    BY <1>4, <1>5
  <1> QED
    BY <1>6 DEF r, sp, paid

\* However a request ends, the index keeps its form.
LEMMA IndexForm ==
    ASSUME PoolTypes, NEW t, NEW ok,
           NEW m, m = Mempool!TxPrevOutsByAddr(Mempool!TxOutpointsByAddr(addrMap, t), t, ok)
    PROVE  m = [a \in Addr |-> [outs |-> m[a].outs, prev |-> m[a].prev,
                                txns |-> m[a].txns, known |-> m[a].known]]
  <1> DEFINE o == Mempool!TxOutpointsByAddr(addrMap, t)
             Shape(q) == q = [outs |-> q.outs, prev |-> q.prev, txns |-> q.txns, known |-> q.known]
  <1>1. \A a \in Addr : Shape(addrMap[a])
    BY DEF PoolTypes
  <1>2. \A a \in Addr : o[a] = IF a \notin TxInfo[t].pays THEN addrMap[a]
                               ELSE [addrMap[a] EXCEPT !.outs = @ \cup {t}, !.known = TRUE]
    BY DEF Mempool!TxOutpointsByAddr
  <1>3. \A a \in Addr : Shape(o[a])
    <2> TAKE a \in Addr
    <2>1. CASE a \in TxInfo[t].pays
      BY <1>1, <1>2, <2>1
    <2>2. CASE a \notin TxInfo[t].pays
      BY <1>1, <1>2, <2>2
    <2> QED
      BY <2>1, <2>2
  <1> HIDE DEF o
  <1>4. \A a \in Addr : m[a] = IF Mempool!SpendsOf(t, a) = {} \/ ~ok THEN o[a]
                               ELSE [o[a] EXCEPT !.prev = @ \cup Mempool!SpendsOf(t, a), !.known = TRUE]
    BY DEF Mempool!TxPrevOutsByAddr, o
  <1>5. \A a \in Addr : Shape(m[a])
    <2> TAKE a \in Addr
    <2>1. CASE Mempool!SpendsOf(t, a) = {} \/ ~ok
      BY <1>3, <1>4, <2>1
    <2>2. CASE ~(Mempool!SpendsOf(t, a) = {} \/ ~ok)
      BY <1>3, <1>4, <2>2
    <2> QED
      BY <2>1, <2>2
  <1>6. m = [a \in Addr |-> m[a]]
    BY DEF Mempool!TxPrevOutsByAddr
  <1> QED
    BY <1>5, <1>6

LEMMA TxIndexed ==
    ASSUME MempoolInv, NEW ok \in BOOLEAN, Mempool!TxToAddresses(ok) PROVE MempoolInv'
  <1>0. PICK t : t = Head(signals).id
    OBVIOUS
  <1>1. /\ Mempool!TxPending /\ ~Mempool!Ignored(t) /\ signals' = Tail(signals)
        /\ addrMap' = Mempool!TxPrevOutsByAddr(Mempool!TxOutpointsByAddr(addrMap, t), t, ok)
        /\ poolJob' = [poolJob EXCEPT !.tx = t]
        /\ lost' = (lost \/ ~ok) /\ poolPC' = "txStored"
        /\ UNCHANGED <<txPool, poolBest, poolClock, came, found, heard, btime, minedAt, lastBlock, inventory,
                       savers, cache>>
    BY <1>0 DEF Mempool!TxToAddresses
  <1>2. /\ t \in Mempool!Tx /\ signals' \in Seq(NodeSignal)
        /\ came[t] > 0 /\ Timely(t)
        /\ \A m : m \in InQueue' => m \in InQueue
        /\ BlockPending' <=> BlockPending
        /\ \A u : TxQueued(u) => TxQueued(u)' \/ u = t
        /\ minedAt[t] = 0 \/ BlockPending
    BY <1>0, <1>1, TxSignal
  <1>3. poolPC = "idle"
    BY <1>1 DEF Mempool!TxPending
  <1>4. t \notin Listing /\ ~(heard[t] < lastBlock.time)
    BY <1>1 DEF Mempool!Ignored, Listing
  <1>5. /\ \A u, k : (Fresh(u, k)' <=> Fresh(u, k)) /\ (Before(u, k)' <=> Before(u, k))
        /\ \A u : Timely(u)' <=> Timely(u)
        /\ \A b : IsBlock(b)' <=> IsBlock(b)
    BY <1>1, NodeStands
  <1>6. /\ Listing' = Listing /\ lastBlock' = lastBlock /\ inventory' = inventory
        /\ poolPC' = "txStored" /\ came' = came /\ heard' = heard
        /\ txPool' = txPool /\ poolBest' = poolBest
    BY <1>1 DEF Listing
  <1>7. poolJob' = [tx |-> t, txs |-> poolJob.txs, block |-> poolJob.block,
                    tickets |-> poolJob.tickets]
    BY <1>1 DEF MempoolInv, PoolTypes
  <1>8. PoolTypes'
    <2>1. PoolTypes
      BY DEF MempoolInv
    <2>2. addrMap' = [a \in Addr |-> [outs |-> addrMap'[a].outs, prev |-> addrMap'[a].prev,
                                      txns |-> addrMap'[a].txns, known |-> addrMap'[a].known]]
      BY <1>1, <2>1, IndexForm
    <2>3. lost' \in BOOLEAN
      BY <1>1
    <2>4. /\ poolJob' = [tx |-> poolJob'.tx, txs |-> poolJob'.txs, block |-> poolJob'.block,
                         tickets |-> poolJob'.tickets]
          /\ poolJob'.txs = poolJob.txs /\ poolJob'.tickets = poolJob.tickets
      BY <1>7
    <2> QED
      BY <1>1, <1>2, <2>1, <2>2, <2>3, <2>4 DEF PoolTypes
  <1>9. FeesInv'
    BY <1>1 DEF MempoolInv, FeesInv, FeesOK
  <1>10. NodeInv'
    BY <1>1, <1>2, NodeRests DEF MempoolInv
  <1>11. ListInv'
    <2>1. Listable(t)'
      <3>1. heard[t] \in Nat /\ lastBlock.time \in Nat
        BY <1>2 DEF MempoolInv, PoolTypes, ListInv, IsBlock, Mempool!BlockID
      <3>2. heard'[t] >= lastBlock'.time
        BY <1>4, <1>6, <3>1
      <3>3. minedAt[t] = 0 => Fresh(t, lastBlock.hash)'
        BY <1>5, <1>6 DEF Fresh
      <3> QED
        BY <1>2, <3>2, <3>3 DEF Listable, AnotherBlock
    <2>3. \A u : Listable(u) => Listable(u)'
      BY <1>1, <1>2, <1>3, <1>5, <1>6 DEF Listable, AnotherBlock
    <2>2. poolJob'.tx = t
      BY <1>7
    <2> QED
      BY <1>2, <1>5, <1>6, <2>1, <2>2, <2>3 DEF MempoolInv, ListInv
  <1>12. BlockInv'
    BY <1>1, <1>2, <1>3, <1>6 DEF MempoolInv, BlockInv, BlockDue
  <1>13. TxInv'
    <2>1. ASSUME ~lost, NEW u \in txPool
          PROVE  /\ u \in Listing \/ TxQueued(u)' \/ u = t \/ BlockPending \/ Missed(u)
                 /\ Before(u, lastBlock.hash) => u \in Listing
      BY <1>2, <1>3, <2>1 DEF MempoolInv, TxInv
    <2>2. \A u : Missed(u)' <=> Missed(u)
      BY <1>5, <1>6 DEF Missed
    <2>3. poolJob'.tx = t /\ (~lost' => ~lost)
      BY <1>1, <1>7
    <2> QED
      BY <1>2, <1>5, <1>6, <2>1, <2>2, <2>3 DEF TxInv
  <1>14. IndexInv'
    <2>1. poolJob'.tx = t
      BY <1>7
    <2>2. ASSUME ~lost', ~BlockPending' PROVE Indexes(Listing \cup {poolJob.tx})'
      <3>1. ok = TRUE /\ ~lost /\ Indexes(Listing)
        BY <1>1, <1>2, <1>3, <2>2 DEF MempoolInv, IndexInv
      <3>2. \A a \in Addr :
               /\ addrMap'[a].outs = addrMap[a].outs
                                       \cup (IF a \in TxInfo[t].pays THEN {t} ELSE {})
               /\ addrMap'[a].prev = addrMap[a].prev \cup Mempool!SpendsOf(t, a)
        BY <1>1, <3>1, IndexGrows DEF MempoolInv
      <3>3. ASSUME NEW a \in Addr
            PROVE  /\ addrMap'[a].outs = {u \in Listing \cup {t} : a \in TxInfo[u].pays}
                   /\ addrMap'[a].prev = SpendsIn(Listing \cup {t}, a)
        <4>1. /\ addrMap[a].outs = {u \in Listing : a \in TxInfo[u].pays}
              /\ addrMap[a].prev = SpendsIn(Listing, a)
          BY <3>1 DEF Indexes
        <4>2. SpendsIn(Listing \cup {t}, a) = SpendsIn(Listing, a) \cup Mempool!SpendsOf(t, a)
          BY DEF SpendsIn
        <4> QED
          BY <3>2, <4>1, <4>2
      <3> QED
        BY <1>6, <2>1, <3>3 DEF Indexes, SpendsIn, Mempool!SpendsOf
    <2> QED
      BY <1>6, <2>2 DEF IndexInv
  <1> QED
    BY <1>8, <1>9, <1>10, <1>11, <1>12, <1>13, <1>14 DEF MempoolInv

\* The node rests, and so does the queue.
LEMMA NodeWaits ==
    ASSUME MempoolInv, UNCHANGED Mempool!node
    PROVE  /\ \A u, k : (Fresh(u, k)' <=> Fresh(u, k)) /\ (Before(u, k)' <=> Before(u, k))
           /\ \A u : Timely(u)' <=> Timely(u)
           /\ \A b : IsBlock(b)' <=> IsBlock(b)
           /\ BlockPending' <=> BlockPending
           /\ \A u : TxQueued(u)' <=> TxQueued(u)
           /\ came' = came /\ heard' = heard /\ txPool' = txPool /\ poolBest' = poolBest
           /\ NodeInv'
  <1>1. UNCHANGED <<txPool, poolBest, poolClock, came, found, heard, btime, signals, minedAt>>
    BY DEF Mempool!node
  <1>2. InQueue' = InQueue
    BY <1>1 DEF InQueue
  <1>3. NodeInv'
    BY <1>1, NodeRests DEF MempoolInv, PoolTypes
  <1> QED
    BY <1>1, <1>2, <1>3, NodeStands DEF BlockPending, TxQueued

LEMMA TxListed == ASSUME MempoolInv, Mempool!TxToInventory PROVE MempoolInv'
  <1> DEFINE t == poolJob.tx
             late == /\ Mempool!TypeOf(t) = "Vote"
                     /\ Mempool!VoteOf(t).height > lastBlock.height
  <1>1. /\ poolPC = "txStored" /\ poolPC' = "idle" /\ UNCHANGED Mempool!node
        /\ inventory' = IF late THEN inventory ELSE Mempool!AddTx(inventory, t)
        /\ UNCHANGED <<lastBlock, addrMap, poolJob, savers, cache, poolFaults, lost>>
    BY DEF Mempool!TxToInventory
  <1> HIDE DEF late
  <1>2. /\ \A u, k : (Fresh(u, k)' <=> Fresh(u, k)) /\ (Before(u, k)' <=> Before(u, k))
        /\ \A b : IsBlock(b)' <=> IsBlock(b)
        /\ BlockPending' <=> BlockPending
        /\ \A u : TxQueued(u)' <=> TxQueued(u)
        /\ came' = came /\ heard' = heard /\ txPool' = txPool /\ poolBest' = poolBest /\ NodeInv'
    BY <1>1, NodeWaits
  <1>3. /\ t \in Mempool!Tx /\ came[t] > 0 /\ Listable(t) /\ Timely(t)
    BY <1>1 DEF MempoolInv, ListInv
  <1>4. PICK b : Holds(inventory, b, Listing)
    BY DEF MempoolInv, ListInv
  <1>5. Holds(inventory', b, IF late THEN Listing ELSE Listing \cup {t})
    <2>1. CASE late
      BY <1>1, <1>4, <2>1
    <2>2. CASE ~late
      <3>1. Holds(Mempool!AddTx(inventory, t), b, Listing \cup {t})
        BY <1>4, AddTxHolds
      <3> QED
        BY <1>1, <2>2, <3>1
    <2> QED
      BY <2>1, <2>2
  <1>6. Listing' = IF late THEN Listing ELSE Listing \cup {t}
    BY <1>5 DEF Holds, Listing, Mempool!Held
  <1>7. late /\ ~lost => BlockPending
    <2>1. SUFFICES ASSUME late, ~lost, ~BlockPending PROVE FALSE
      OBVIOUS
    <2>2. lastBlock.hash = poolBest
      BY <1>1, <2>1 DEF MempoolInv, BlockInv, BlockDue
    <2>3. lastBlock.height = lastBlock.hash
      BY DEF MempoolInv, ListInv, IsBlock, Mempool!BlockID
    <2>4. /\ Mempool!VoteOf(t).height > poolBest /\ Mempool!VoteOf(t).height <= poolBest
          /\ Mempool!VoteOf(t).height \in Nat /\ poolBest \in Nat
      BY <1>3, <2>1, <2>2, <2>3, MempoolDataAssumption
         DEF late, Timely, MempoolInv, PoolTypes, Mempool!MempoolDataConstants, Mempool!Tx,
             Mempool!VoteOf
    <2> QED
      BY <2>4
  <1>8. /\ lastBlock' = lastBlock /\ poolJob' = poolJob /\ lost' = lost /\ addrMap' = addrMap
        /\ cache' = cache /\ savers' = savers
    BY <1>1
  <1>9. PoolTypes'
    BY <1>1 DEF MempoolInv, PoolTypes, Mempool!node
  <1>10. FeesInv'
    BY <1>1 DEF MempoolInv, FeesInv, FeesOK
  <1>11. ListInv'
    <2>1. \E c : Holds(inventory', c, Listing')
      BY <1>5, <1>6
    <2>2. IsBlock(lastBlock)
      BY DEF MempoolInv, ListInv
    <2>3. Listing' \in SUBSET Mempool!Tx /\ \A u \in Listing' : came[u] > 0 /\ Listable(u)
      BY <1>3, <1>6 DEF MempoolInv, ListInv
    <2>4. \A u : Listable(u)' <=> Listable(u)
      BY <1>1, <1>2, <1>8 DEF Listable, AnotherBlock
    <2> QED
      BY <1>1, <1>2, <1>8, <2>1, <2>2, <2>3, <2>4 DEF ListInv
  <1>12. BlockInv'
    BY <1>1, <1>2, <1>8 DEF MempoolInv, BlockInv, BlockDue
  <1>13. TxInv'
    <2>1. ASSUME ~lost, NEW u \in txPool
          PROVE  /\ u \in Listing \/ TxQueued(u) \/ t = u \/ BlockPending \/ Missed(u)
                 /\ Before(u, lastBlock.hash) => u \in Listing
      BY <1>1, <2>1 DEF MempoolInv, TxInv
    <2>2. \A u : Missed(u)' <=> Missed(u)
      BY <1>2, <1>8 DEF Missed
    <2> QED
      BY <1>1, <1>2, <1>6, <1>7, <1>8, <2>1, <2>2 DEF TxInv
  <1>14. IndexInv'
    <2>1. ~lost => BlockPending \/ Indexes(Listing \cup {t})
      BY <1>1 DEF MempoolInv, IndexInv
    <2>2. ASSUME ~lost, ~BlockPending PROVE Indexes(Listing)'
      <3>1. Listing' = Listing \cup {t}
        BY <1>6, <1>7, <2>2
      <3>2. Indexes(Listing \cup {t}) /\ addrMap' = addrMap
        BY <1>8, <2>1, <2>2
      <3> QED
        BY <3>1, <3>2 DEF Indexes, SpendsIn, Mempool!SpendsOf
    <2> QED
      BY <1>1, <1>2, <1>8, <2>2 DEF IndexInv
  <1> QED
    BY <1>2, <1>9, <1>10, <1>11, <1>12, <1>13, <1>14 DEF MempoolInv

-------------------------------------------------------------------------------
(* The mempool: BlockHandler.                                               *)

LEMMA CollectionStarted == ASSUME MempoolInv, Mempool!CollectStake PROVE MempoolInv'
  <1> DEFINE tickets == {t \in txPool : Mempool!TypeOf(t) = "Ticket"}
             b == Mempool!BlockID(poolBest)
  <1>1. /\ poolPC = "idle" /\ signals # <<>> /\ signals' = Tail(signals) /\ poolPC' = "txs"
        /\ poolJob' = [poolJob EXCEPT !.tickets = tickets, !.block = b]
        /\ UNCHANGED <<txPool, poolBest, poolClock, came, found, heard, btime, minedAt, lastBlock, inventory,
                       txnsStore, addrMap, savers, cache, poolFaults, lost>>
    BY DEF Mempool!CollectStake
  <1>2. tickets \in SUBSET Mempool!Tx
    BY DEF MempoolInv, PoolTypes
  <1> HIDE DEF tickets, b
  <1>3. /\ signals' \in Seq(NodeSignal)
        /\ \A m : m \in InQueue' => m \in InQueue
    BY <1>1, QueueShrinks DEF MempoolInv, PoolTypes
  <1>4. poolJob' = [tx |-> poolJob.tx, txs |-> poolJob.txs, block |-> b, tickets |-> tickets]
    BY <1>1 DEF MempoolInv, PoolTypes
  <1>5. b.hash = poolBest /\ b = Mempool!BlockID(poolBest) /\ poolBest \in Nat \ {0}
    BY DEF b, Mempool!BlockID, MempoolInv, PoolTypes
  <1>6. IsBlock(b)
    BY <1>5 DEF IsBlock
  <1>7. /\ \A u, k : Fresh(u, k)' <=> Fresh(u, k)
        /\ \A c : IsBlock(c)' <=> IsBlock(c)
    BY <1>1, NodeStands
  <1>8. /\ Listing' = Listing /\ lastBlock' = lastBlock /\ inventory' = inventory
        /\ poolPC' = "txs" /\ came' = came /\ heard' = heard /\ poolBest' = poolBest
    BY <1>1 DEF Listing
  <1>9. poolJob'.block = b /\ poolJob'.txs = poolJob.txs /\ poolJob'.tickets = tickets
    BY <1>4
  <1>10. PoolTypes'
    <2>1. poolJob' = [tx |-> poolJob'.tx, txs |-> poolJob'.txs, block |-> poolJob'.block,
                      tickets |-> poolJob'.tickets]
      BY <1>4
    <2> QED
      BY <1>1, <1>2, <1>3, <1>9, <2>1 DEF MempoolInv, PoolTypes
  <1>11. FeesInv'
    BY <1>1 DEF MempoolInv, FeesInv, FeesOK
  <1>12. NodeInv'
    BY <1>1, <1>3, NodeRests DEF MempoolInv
  <1>13. ListInv'
    <2>1. IsBlock(poolJob.block)'
      BY <1>6, <1>7, <1>9
    <2>2. \A u : Listable(u) => Listable(u)'
      BY <1>7, <1>8 DEF Listable, AnotherBlock
    <2> QED
      BY <1>7, <1>8, <2>1, <2>2 DEF MempoolInv, ListInv
  <1>14. BlockInv'
    BY <1>5, <1>8, <1>9 DEF BlockInv, BlockDue
  <1>15. TxInv' /\ IndexInv'
    BY <1>8 DEF TxInv, IndexInv
  <1> QED
    BY <1>10, <1>11, <1>12, <1>13, <1>14, <1>15 DEF MempoolInv

LEMMA PoolCollected == ASSUME MempoolInv, Mempool!mempoolTxns PROVE MempoolInv'
  <1>1. PICK txs \in SUBSET txPool : poolJob' = [poolJob EXCEPT !.txs = txs] /\ lost' = (txs # txPool)
    BY DEF Mempool!mempoolTxns
  <1>2. /\ poolPC = "txs" /\ poolPC' = "parsed" /\ UNCHANGED Mempool!node
        /\ UNCHANGED <<lastBlock, inventory, txnsStore, addrMap, savers, cache>>
    BY DEF Mempool!mempoolTxns
  <1>3. /\ \A u, k : (Fresh(u, k)' <=> Fresh(u, k)) /\ (Before(u, k)' <=> Before(u, k))
        /\ \A b : IsBlock(b)' <=> IsBlock(b)
        /\ BlockPending' <=> BlockPending
        /\ \A u : TxQueued(u)' <=> TxQueued(u)
        /\ came' = came /\ heard' = heard /\ txPool' = txPool /\ poolBest' = poolBest /\ NodeInv'
    BY <1>2, NodeWaits
  <1>4. poolJob' = [tx |-> poolJob.tx, txs |-> txs, block |-> poolJob.block,
                    tickets |-> poolJob.tickets]
    BY <1>1 DEF MempoolInv, PoolTypes
  <1>5. /\ poolJob'.txs = txs /\ poolJob'.block = poolJob.block
        /\ poolJob'.tickets = poolJob.tickets
        /\ poolJob' = [tx |-> poolJob'.tx, txs |-> poolJob'.txs, block |-> poolJob'.block,
                       tickets |-> poolJob'.tickets]
    BY <1>4
  <1>6. /\ Listing' = Listing /\ lastBlock' = lastBlock /\ inventory' = inventory
        /\ poolPC' = "parsed"
    BY <1>2 DEF Listing
  <1>7. PoolTypes'
    <2>1. lost' \in BOOLEAN /\ txs \in SUBSET Mempool!Tx
      BY <1>1 DEF MempoolInv, PoolTypes
    <2> QED
      BY <1>2, <1>5, <2>1 DEF MempoolInv, PoolTypes, Mempool!node
  <1>8. FeesInv'
    BY <1>2 DEF MempoolInv, FeesInv, FeesOK
  <1>9. IsBlock(poolJob.block) /\ BlockDue(poolJob.block)
    BY <1>2 DEF MempoolInv, ListInv, BlockInv
  <1>10. ListInv'
    <2>1. \A t \in txs : came[t] > 0 /\ Fresh(t, poolJob.block.hash)
      BY DEF Fresh, MempoolInv, NodeInv, PoolTypes
    <2>2. IsBlock(poolJob.block)'
      BY <1>3, <1>5, <1>9
    <2>3. \A u : Listable(u) => Listable(u)'
      BY <1>3, <1>6 DEF Listable, AnotherBlock
    <2> QED
      BY <1>3, <1>5, <1>6, <2>1, <2>2, <2>3 DEF MempoolInv, ListInv
  <1>11. BlockInv'
    BY <1>3, <1>5, <1>6, <1>9 DEF BlockInv, BlockDue
  <1>12. TxInv'
    <2>1. ASSUME ~lost' PROVE \A t \in txPool : Lists(poolJob.txs, poolJob.block.hash, t)'
      BY <1>1, <1>5, <2>1 DEF Lists
    <2> QED
      BY <1>3, <1>6, <2>1 DEF TxInv
  <1>13. IndexInv'
    BY <1>6 DEF IndexInv
  <1> QED
    BY <1>3, <1>7, <1>8, <1>10, <1>11, <1>12, <1>13 DEF MempoolInv

LEMMA CollectionFailed == ASSUME MempoolInv, Mempool!CollectFails PROVE MempoolInv'
  <1>1. /\ poolPC = "txs" /\ poolPC' = "idle" /\ lost' = TRUE /\ UNCHANGED Mempool!node
        /\ UNCHANGED <<lastBlock, inventory, txnsStore, addrMap, poolJob, savers, cache>>
    BY DEF Mempool!CollectFails
  <1>2. /\ \A u, k : Fresh(u, k)' <=> Fresh(u, k)
        /\ \A b : IsBlock(b)' <=> IsBlock(b)
        /\ came' = came /\ heard' = heard /\ NodeInv'
    BY <1>1, NodeWaits
  <1>3. Listing' = Listing /\ lastBlock' = lastBlock /\ inventory' = inventory
        /\ poolPC' = "idle" /\ lost'
    BY <1>1 DEF Listing
  <1>4. PoolTypes'
    BY <1>1 DEF MempoolInv, PoolTypes, Mempool!node
  <1>5. FeesInv'
    BY <1>1 DEF MempoolInv, FeesInv, FeesOK
  <1>6. ListInv'
    <2>1. \A u : Listable(u) => Listable(u)'
      BY <1>2, <1>3 DEF Listable, AnotherBlock
    <2> QED
      BY <1>2, <1>3, <2>1 DEF MempoolInv, ListInv
  <1>7. BlockInv' /\ TxInv' /\ IndexInv'
    BY <1>3 DEF BlockInv, TxInv, IndexInv
  <1> QED
    BY <1>2, <1>4, <1>5, <1>6, <1>7 DEF MempoolInv

LEMMA InventoryRefreshed == ASSUME MempoolInv, Mempool!RefreshInventory PROVE MempoolInv'
  <1>1. /\ poolPC = "parsed" /\ poolPC' = "addresses" /\ lastBlock' = poolJob.block
        /\ inventory' = Mempool!ParseTxns(Mempool!MPTxsByTime(poolJob.txs, came), poolJob.block)
        /\ UNCHANGED Mempool!node
        /\ UNCHANGED <<addrMap, poolJob, savers, cache, poolFaults, lost>>
    BY DEF Mempool!RefreshInventory
  <1>2. /\ \A u, k : (Fresh(u, k)' <=> Fresh(u, k)) /\ (Before(u, k)' <=> Before(u, k))
        /\ \A b : IsBlock(b)' <=> IsBlock(b)
        /\ BlockPending' <=> BlockPending
        /\ \A u : TxQueued(u)' <=> TxQueued(u)
        /\ came' = came /\ heard' = heard /\ txPool' = txPool /\ poolBest' = poolBest /\ NodeInv'
    BY <1>1, NodeWaits
  <1> DEFINE S == poolJob.txs
             b == poolJob.block
  <1>3. /\ S \in SUBSET Mempool!Tx /\ IsFiniteSet(S) /\ poolClock \in Nat
        /\ \A t \in S : came[t] \in Nat /\ came[t] <= poolClock
    <2>1. S \in SUBSET Mempool!Tx /\ poolClock \in Nat /\ came \in [Mempool!Tx -> Nat]
      BY DEF MempoolInv, PoolTypes
    <2>2. IsFiniteSet(Mempool!Tx)
      BY MempoolDataAssumption, SameFinite DEF Mempool!MempoolDataConstants, Mempool!Tx
    <2>3. \A t \in Mempool!Tx : came[t] <= poolClock
      BY DEF MempoolInv, NodeInv
    <2> QED
      BY <2>1, <2>2, <2>3, FS_Subset
  <1>4. \A t \in S : came[t] > 0 /\ Fresh(t, b.hash)
    BY <1>1 DEF MempoolInv, ListInv
  <1>5. IsBlock(b)
    BY <1>1 DEF MempoolInv, ListInv
  <1>6. ~lost => BlockDue(b) /\ \A t \in txPool : Lists(S, b.hash, t)
    BY <1>1 DEF MempoolInv, BlockInv, TxInv
  <1>7. lastBlock' = b /\ poolJob' = poolJob /\ lost' = lost /\ poolPC' = "addresses"
    BY <1>1
  <1>8. Holds(inventory', b, S)
    BY <1>1, <1>3, RefreshHolds
  <1> HIDE DEF S, b
  <1>9. Listing' = S
    BY <1>8 DEF Holds, Listing, Mempool!Held
  <1>10. PoolTypes'
    BY <1>1 DEF MempoolInv, PoolTypes, Mempool!node
  <1>11. FeesInv'
    BY <1>1 DEF MempoolInv, FeesInv, FeesOK
  <1>12. poolJob'.block = b /\ poolJob'.txs = S
    BY <1>7 DEF S, b
  <1>13. ListInv'
    <2>1. \E c : Holds(inventory', c, Listing')
      BY <1>8, <1>9
    <2>2. IsBlock(lastBlock)' /\ IsBlock(poolJob.block)'
      BY <1>2, <1>5, <1>7, <1>12
    <2>3. \A t \in S : Listable(t)'
      BY <1>2, <1>4, <1>7 DEF Listable
    <2> QED
      BY <1>2, <1>3, <1>4, <1>7, <1>9, <1>12, <2>1, <2>2, <2>3 DEF ListInv
  <1>14. BlockInv'
    BY <1>2, <1>6, <1>7 DEF BlockInv, BlockDue
  <1>15. TxInv'
    BY <1>2, <1>6, <1>7, <1>9 DEF TxInv, Lists
  <1>16. IndexInv'
    BY <1>7 DEF IndexInv
  <1> QED
    BY <1>2, <1>10, <1>11, <1>13, <1>14, <1>15, <1>16 DEF MempoolInv

LEMMA AddressesRefreshed == ASSUME MempoolInv, Mempool!RefreshAddresses PROVE MempoolInv'
  <1>1. /\ poolPC = "addresses" /\ poolPC' = "idle"
        /\ addrMap' = Mempool!AddrsOf(poolJob.txs) /\ savers' = savers \cup {Mempool!StakeData}
        /\ UNCHANGED Mempool!node
        /\ UNCHANGED <<lastBlock, inventory, txnsStore, poolJob, cache, poolFaults, lost>>
    BY DEF Mempool!RefreshAddresses
  <1>2. /\ \A u, k : (Fresh(u, k)' <=> Fresh(u, k)) /\ (Before(u, k)' <=> Before(u, k))
        /\ \A b : IsBlock(b)' <=> IsBlock(b)
        /\ BlockPending' <=> BlockPending
        /\ \A u : TxQueued(u)' <=> TxQueued(u)
        /\ came' = came /\ heard' = heard /\ txPool' = txPool /\ poolBest' = poolBest /\ NodeInv'
    BY <1>1, NodeWaits
  <1>3. /\ Listing' = Listing /\ lastBlock' = lastBlock /\ inventory' = inventory
        /\ poolPC' = "idle" /\ lost' = lost
    BY <1>1 DEF Listing
  <1>4. addrMap' = [a \in Addr |-> [outs |-> {t \in poolJob.txs : a \in TxInfo[t].pays},
                                    prev |-> SpendsIn(poolJob.txs, a), txns |-> <<>>,
                                    known |-> addrMap'[a].known]]
    BY <1>1 DEF Mempool!AddrsOf, SpendsIn
  <1>5. PoolTypes'
    <2>1. addrMap' = [a \in Addr |-> [outs |-> addrMap'[a].outs, prev |-> addrMap'[a].prev,
                                      txns |-> addrMap'[a].txns, known |-> addrMap'[a].known]]
      BY <1>4
    <2> QED
      BY <1>1, <2>1 DEF MempoolInv, PoolTypes, Mempool!node
  <1>6. FeesInv'
    <2>1. FeesOK(Mempool!StakeData)
      BY StakeDataOK DEF MempoolInv, PoolTypes
    <2> QED
      BY <1>1, <2>1 DEF MempoolInv, FeesInv, FeesOK
  <1>7. ListInv'
    <2>1. \A u : Listable(u)' <=> Listable(u)
      BY <1>1, <1>2, <1>3 DEF Listable, AnotherBlock
    <2> QED
      BY <1>2, <1>3, <2>1 DEF MempoolInv, ListInv
  <1>8. BlockInv'
    BY <1>1, <1>2, <1>3 DEF MempoolInv, BlockInv, BlockDue
  <1>9. TxInv'
    <2>1. ASSUME ~lost, NEW u \in txPool
          PROVE  /\ u \in Listing \/ TxQueued(u) \/ BlockPending \/ Missed(u)
                 /\ Before(u, lastBlock.hash) => u \in Listing
      BY <1>1, <2>1 DEF MempoolInv, TxInv
    <2>2. \A u : Missed(u)' <=> Missed(u)
      BY <1>2, <1>3 DEF Missed
    <2> QED
      BY <1>2, <1>3, <2>1, <2>2 DEF TxInv
  <1>10. IndexInv'
    <2>1. Listing = poolJob.txs
      BY <1>1 DEF MempoolInv, ListInv
    <2>2. \A a \in Addr : /\ addrMap'[a].outs = {t \in Listing : a \in TxInfo[t].pays}
                          /\ addrMap'[a].prev = SpendsIn(Listing, a)
      BY <1>4, <2>1
    <2>3. Indexes(Listing)'
      BY <1>3, <2>2 DEF Indexes, SpendsIn, Mempool!SpendsOf
    <2> QED
      BY <1>3, <2>3 DEF IndexInv
  <1> QED
    BY <1>2, <1>5, <1>6, <1>7, <1>8, <1>9, <1>10 DEF MempoolInv

-------------------------------------------------------------------------------
(* The mempool: the savers and the pages.                                   *)

LEMMA DataStored ==
    ASSUME MempoolInv, NEW d \in savers, Mempool!StoreMPData(d) PROVE MempoolInv'
  <1>1. /\ cache' = d /\ savers' = savers \ {d} /\ UNCHANGED Mempool!node
        /\ UNCHANGED <<lastBlock, inventory, txnsStore, addrMap, poolPC, poolJob, poolFaults,
                       lost>>
    BY DEF Mempool!StoreMPData
  <1>2. FeesInv'
    BY <1>1 DEF MempoolInv, FeesInv, FeesOK
  <1>3. UNCHANGED <<txPool, poolBest, poolClock, came, found, heard, btime, signals, minedAt>>
    BY <1>1 DEF Mempool!node
  <1>4. Listing' = Listing /\ InQueue' = InQueue
    BY <1>1, <1>3 DEF Listing, InQueue
  <1>5. /\ \A u, k : (Fresh(u, k)' <=> Fresh(u, k)) /\ (Before(u, k)' <=> Before(u, k))
        /\ \A b : IsBlock(b)' <=> IsBlock(b)
        /\ BlockPending' <=> BlockPending
        /\ \A u : TxQueued(u)' <=> TxQueued(u)
        /\ came' = came /\ heard' = heard /\ txPool' = txPool /\ poolBest' = poolBest /\ NodeInv'
        /\ \A u : Timely(u)' <=> Timely(u)
    BY <1>1, NodeWaits
  <1>6. PoolTypes'
    BY <1>1, <1>3 DEF MempoolInv, PoolTypes
  <1>7. ListInv'
    <2>1. \A u : Listable(u)' <=> Listable(u)
      BY <1>1, <1>5 DEF Listable, AnotherBlock
    <2> QED
      BY <1>1, <1>4, <1>5, <2>1 DEF MempoolInv, ListInv
  <1>8. BlockInv'
    BY <1>1, <1>5 DEF MempoolInv, BlockInv, BlockDue
  <1>9. TxInv'
    <2>1. \A u : Missed(u)' <=> Missed(u)
      BY <1>1, <1>5 DEF Missed
    <2> QED
      BY <1>1, <1>4, <1>5, <2>1 DEF MempoolInv, TxInv, Lists
  <1>10. IndexInv'
    BY <1>1, <1>4, <1>5 DEF MempoolInv, IndexInv, Indexes
  <1> QED
    BY <1>2, <1>5, <1>6, <1>7, <1>8, <1>9, <1>10 DEF MempoolInv

LEMMA PageAsked ==
    ASSUME MempoolInv, NEW a \in Addr, Mempool!UnconfirmedTxnsForAddress(a) PROVE MempoolInv'
  <1>1. /\ addrMap' = [addrMap EXCEPT ![a].txns = Mempool!Fill(a)] /\ UNCHANGED Mempool!node
        /\ UNCHANGED <<lastBlock, inventory, txnsStore, poolPC, poolJob, savers, cache,
                       poolFaults, lost>>
    BY DEF Mempool!UnconfirmedTxnsForAddress
  <1>2. FeesInv'
    BY <1>1 DEF MempoolInv, FeesInv, FeesOK
  <1>3. UNCHANGED <<txPool, poolBest, poolClock, came, found, heard, btime, signals, minedAt>>
    BY <1>1 DEF Mempool!node
  <1>4. Listing' = Listing /\ InQueue' = InQueue
    BY <1>1, <1>3 DEF Listing, InQueue
  <1>5. /\ \A u, k : (Fresh(u, k)' <=> Fresh(u, k)) /\ (Before(u, k)' <=> Before(u, k))
        /\ \A b : IsBlock(b)' <=> IsBlock(b)
        /\ BlockPending' <=> BlockPending
        /\ \A u : TxQueued(u)' <=> TxQueued(u)
        /\ came' = came /\ heard' = heard /\ txPool' = txPool /\ poolBest' = poolBest /\ NodeInv'
        /\ \A u : Timely(u)' <=> Timely(u)
    BY <1>1, NodeWaits
  <1>6. /\ addrMap' = [c \in Addr |-> [outs |-> addrMap'[c].outs, prev |-> addrMap'[c].prev,
                                       txns |-> addrMap'[c].txns, known |-> addrMap'[c].known]]
        /\ \A c \in Addr : addrMap'[c].outs = addrMap[c].outs /\ addrMap'[c].prev = addrMap[c].prev
    <2> DEFINE Shape(q) == q = [outs |-> q.outs, prev |-> q.prev, txns |-> q.txns, known |-> q.known]
    <2>1. addrMap = [c \in Addr |-> addrMap[c]] /\ \A c \in Addr : Shape(addrMap[c])
      BY DEF MempoolInv, PoolTypes
    <2>2. addrMap' = [c \in Addr |-> addrMap'[c]]
          /\ \A c \in Addr : addrMap'[c] = IF c = a THEN [addrMap[a] EXCEPT !.txns = Mempool!Fill(a)]
                                           ELSE addrMap[c]
      BY <1>1, <2>1
    <2>3. \A c \in Addr : /\ Shape(addrMap'[c])
                          /\ addrMap'[c].outs = addrMap[c].outs
                          /\ addrMap'[c].prev = addrMap[c].prev
      BY <2>1, <2>2
    <2> QED
      BY <2>2, <2>3
  <1>7. PoolTypes'
    BY <1>1, <1>3, <1>6 DEF MempoolInv, PoolTypes
  <1>8. ListInv'
    <2>1. \A u : Listable(u)' <=> Listable(u)
      BY <1>1, <1>5 DEF Listable, AnotherBlock
    <2> QED
      BY <1>1, <1>4, <1>5, <2>1 DEF MempoolInv, ListInv
  <1>9. BlockInv'
    BY <1>1, <1>5 DEF MempoolInv, BlockInv, BlockDue
  <1>10. TxInv'
    <2>1. \A u : Missed(u)' <=> Missed(u)
      BY <1>1, <1>5 DEF Missed
    <2> QED
      BY <1>1, <1>4, <1>5, <2>1 DEF MempoolInv, TxInv, Lists
  <1>11. IndexInv'
    BY <1>1, <1>4, <1>5, <1>6 DEF MempoolInv, IndexInv, Indexes
  <1> QED
    BY <1>2, <1>5, <1>7, <1>8, <1>9, <1>10, <1>11 DEF MempoolInv

-------------------------------------------------------------------------------
(* The mempool: the invariant.                                              *)

LEMMA MempoolRests == ASSUME MempoolInv, UNCHANGED mempoolVars PROVE MempoolInv'
  <1>1. UNCHANGED <<txPool, poolBest, poolClock, came, found, heard, btime, signals, minedAt, lastBlock,
                    inventory, addrMap, poolPC, poolJob, savers, cache, lost>>
    BY DEF mempoolVars
  <1>2. FeesInv'
    BY <1>1 DEF MempoolInv, FeesInv, FeesOK
  <1>3. UNCHANGED Mempool!node
    BY <1>1 DEF Mempool!node
  <1>4. Listing' = Listing /\ InQueue' = InQueue
    BY <1>1 DEF Listing, InQueue
  <1>5. /\ \A u, k : (Fresh(u, k)' <=> Fresh(u, k)) /\ (Before(u, k)' <=> Before(u, k))
        /\ \A b : IsBlock(b)' <=> IsBlock(b)
        /\ BlockPending' <=> BlockPending
        /\ \A u : TxQueued(u)' <=> TxQueued(u)
        /\ NodeInv'
        /\ \A u : Timely(u)' <=> Timely(u)
    BY <1>3, NodeWaits
  <1>6. PoolTypes'
    BY <1>1 DEF MempoolInv, PoolTypes
  <1>7. ListInv'
    <2>1. \A u : Listable(u)' <=> Listable(u)
      BY <1>1, <1>5 DEF Listable, AnotherBlock
    <2> QED
      BY <1>1, <1>4, <1>5, <2>1 DEF MempoolInv, ListInv
  <1>8. BlockInv'
    BY <1>1, <1>5 DEF MempoolInv, BlockInv, BlockDue
  <1>9. TxInv'
    <2>1. \A u : Missed(u)' <=> Missed(u)
      BY <1>1, <1>5 DEF Missed
    <2> QED
      BY <1>1, <1>4, <1>5, <2>1 DEF MempoolInv, TxInv, Lists
  <1>10. IndexInv'
    BY <1>1, <1>4, <1>5 DEF MempoolInv, IndexInv, Indexes
  <1> QED
    BY <1>2, <1>5, <1>6, <1>7, <1>8, <1>9, <1>10 DEF MempoolInv

LEMMA MempoolKeeps == ASSUME MempoolInv, Mempool!Next PROVE MempoolInv'
  <1>1. ASSUME NEW t \in Mempool!Tx, Mempool!NodeAccepts(t) PROVE MempoolInv'
    BY <1>1, TxAccepted
  <1>2. CASE Mempool!NodeMines
    BY <1>2, BlockMined
  <1>3. CASE Mempool!TxIgnored
    BY <1>3, TxDropped
  <1>4. ASSUME NEW ok \in BOOLEAN, Mempool!TxToAddresses(ok) PROVE MempoolInv'
    BY <1>4, TxIndexed
  <1>5. CASE Mempool!TxToInventory
    BY <1>5, TxListed
  <1>6. CASE Mempool!CollectStake
    BY <1>6, CollectionStarted
  <1>7. CASE Mempool!mempoolTxns
    BY <1>7, PoolCollected
  <1>8. CASE Mempool!CollectFails
    BY <1>8, CollectionFailed
  <1>9. CASE Mempool!RefreshInventory
    BY <1>9, InventoryRefreshed
  <1>10. CASE Mempool!RefreshAddresses
    BY <1>10, AddressesRefreshed
  <1>11. ASSUME NEW d \in savers, Mempool!StoreMPData(d) PROVE MempoolInv'
    BY <1>11, DataStored
  <1>12. ASSUME NEW a \in Addr, Mempool!UnconfirmedTxnsForAddress(a) PROVE MempoolInv'
    BY <1>12, PageAsked
  <1> QED
    BY <1>1, <1>2, <1>3, <1>4, <1>5, <1>6, <1>7, <1>8, <1>9, <1>10, <1>11, <1>12
       DEF Mempool!Next

LEMMA MempoolStart == ASSUME Mempool!Init PROVE MempoolInv
  <1>1. /\ txPool \in Pools /\ poolBest = 1 /\ poolClock = 1 /\ signals = <<>>
        /\ btime = <<1>> /\ found = <<1>> /\ heard = [t \in Mempool!Tx |-> 0]
        /\ came = [t \in Mempool!Tx |-> IF t \in txPool THEN 1 ELSE 0]
        /\ minedAt = [t \in Mempool!Tx |-> 0]
        /\ lastBlock = Mempool!BlockID(1)
        /\ inventory = Mempool!ParseTxns(Mempool!MPTxsByTime(txPool, came), lastBlock)
        /\ addrMap = Mempool!AddrsOf(txPool)
        /\ poolJob = [tx |-> CHOOSE t \in Mempool!Tx : TRUE, txs |-> txPool, block |-> lastBlock,
                      tickets |-> {t \in txPool : Mempool!TypeOf(t) = "Ticket"}]
        /\ poolPC = "idle" /\ savers = {} /\ cache = Mempool!StakeData /\ lost = FALSE
    BY DEF Mempool!Init
  <1>2. txPool \in SUBSET Mempool!Tx
    BY <1>1, MonitorAssumption DEF Mempool!MonitorConstants
  <1>3. PoolTypes
    <2>1. addrMap = [a \in Addr |-> [outs |-> addrMap[a].outs, prev |-> addrMap[a].prev,
                                     txns |-> addrMap[a].txns, known |-> addrMap[a].known]]
      BY <1>1 DEF Mempool!AddrsOf
    <2>2. /\ btime \in Seq(Nat) /\ Len(btime) = 1
          /\ found \in Seq(Nat) /\ Len(found) = 1 /\ signals \in Seq(NodeSignal)
      <3> HIDE DEF NodeSignal
      <3> QED
        BY <1>1
    <2>3. came \in [Mempool!Tx -> Nat] /\ heard \in [Mempool!Tx -> Nat] /\ minedAt \in [Mempool!Tx -> Nat]
      BY <1>1
    <2>4. /\ poolJob = [tx |-> poolJob.tx, txs |-> poolJob.txs, block |-> poolJob.block,
                        tickets |-> poolJob.tickets]
          /\ poolJob.txs \in SUBSET Mempool!Tx /\ poolJob.tickets \in SUBSET Mempool!Tx
      BY <1>1, <1>2
    <2>5. /\ poolBest \in Nat \ {0} /\ poolClock \in Nat /\ Len(btime) = poolBest
          /\ Len(found) = poolBest /\ lost \in BOOLEAN /\ poolPC \in {"idle", "txStored", "txs", "parsed", "addresses"}
      <3>1. poolBest = 1 /\ poolClock = 1 /\ lost = FALSE /\ poolPC = "idle"
        BY <1>1
      <3>2. poolBest \in Nat \ {0} /\ poolClock \in Nat /\ Len(btime) = poolBest
            /\ Len(found) = poolBest
        BY <2>2, <3>1
      <3>3. lost \in BOOLEAN
        BY <3>1
      <3>4. poolPC \in {"idle", "txStored", "txs", "parsed", "addresses"}
        BY <3>1
      <3> QED
        BY <3>2, <3>3, <3>4
    <2> QED
      BY <1>2, <2>1, <2>2, <2>3, <2>4, <2>5 DEF PoolTypes
  <1>4. FeesInv
    <2>1. FeesOK(Mempool!StakeData)
      BY <1>3, StakeDataOK DEF PoolTypes
    <2> QED
      BY <1>1, <2>1 DEF FeesInv
  <1>5. InQueue = {}
    BY <1>1 DEF InQueue
  <1>6. \A t \in Mempool!Tx : came[t] = (IF t \in txPool THEN 1 ELSE 0) /\ minedAt[t] = 0
    BY <1>1
  <1>7. btime[1] = 1 /\ 1 .. poolBest = {1}
    BY <1>1
  <1>8. NodeInv
    <2>1. \A k \in 1 .. poolBest : found[k] <= poolClock
      <3>1. poolClock = 1 /\ found[1] = 1
        BY <1>1
      <3> QED
        BY <1>7, <3>1
    <2>2. Len(signals) = 0
      BY <1>1
    <2> QED
      BY <1>1, <1>5, <1>6, <2>1, <2>2 DEF NodeInv
  <1>9. lastBlock = [hash |-> 1, height |-> 1, time |-> 1] /\ IsBlock(lastBlock)
    BY <1>1, <1>7 DEF IsBlock, Mempool!BlockID
  <1>10. Holds(inventory, lastBlock, txPool)
    <2>1. IsFiniteSet(txPool)
      BY <1>2, MempoolDataAssumption, SameFinite, FS_Subset
         DEF Mempool!MempoolDataConstants, Mempool!Tx
    <2>2. \A t \in txPool : came[t] \in Nat /\ came[t] <= 1
      BY <1>2, <1>6
    <2>3. Holds(Mempool!ParseTxns(Mempool!MPTxsByTime(txPool, came), lastBlock), lastBlock, txPool)
      BY <2>1, <2>2, RefreshHolds
    <2> QED
      BY <1>1, <2>3
  <1>11. Listing = txPool
    BY <1>10 DEF Holds, Listing, Mempool!Held
  <1>12. ListInv
    <2>1. \A t \in Listing : came[t] > 0 /\ Listable(t)
      BY <1>2, <1>6, <1>11 DEF Listable, Fresh
    <2>2. \E b : Holds(inventory, b, Listing)
      BY <1>10, <1>11
    <2>3. poolPC = "idle"
      BY <1>1
    <2> QED
      BY <1>2, <1>9, <1>11, <2>1, <2>2, <2>3 DEF ListInv
  <1>13. BlockInv
    BY <1>1, <1>9 DEF BlockInv, BlockDue
  <1>14. TxInv
    BY <1>1, <1>11 DEF TxInv
  <1>15. IndexInv
    <2>1. Indexes(txPool)
      BY <1>1 DEF Indexes, Mempool!AddrsOf, SpendsIn
    <2> QED
      BY <1>1, <1>11, <2>1 DEF IndexInv
  <1> QED
    BY <1>3, <1>4, <1>8, <1>12, <1>13, <1>14, <1>15 DEF MempoolInv

LEMMA MempoolSettles ==
    ASSUME MempoolInv PROVE Mempool!MempoolIsMirrored /\ Mempool!FeesAreHighest
  <1>1. Mempool!FeesAreHighest
    BY FeesAnswer DEF MempoolInv, FeesInv
  <1>2. \A t \in Listing :
           minedAt[t] = 0 \/ minedAt[t] > lastBlock.hash \/ heard[t] >= lastBlock.time
    BY DEF MempoolInv, ListInv, Listable, Fresh
  <1>3. ASSUME poolPC = "idle", signals = <<>>, ~lost
        PROVE  /\ lastBlock.hash = poolBest
               /\ Listing \subseteq txPool
               /\ \A t \in txPool \ Listing :
                     heard[t] < lastBlock.time /\ came[t] > found[lastBlock.hash]
               /\ \A a \in Addr :
                     /\ addrMap[a].outs = Mempool!AddrsOf(Listing)[a].outs
                     /\ addrMap[a].prev = Mempool!AddrsOf(Listing)[a].prev
    <2>1. InQueue = {}
      BY <1>3 DEF InQueue
    <2>2. ~BlockPending /\ \A t : ~TxQueued(t)
      BY <2>1 DEF BlockPending, TxQueued
    <2>3. lastBlock.hash = poolBest
      BY <1>3, <2>2 DEF MempoolInv, BlockInv, BlockDue
    <2>4. \A t \in txPool \ Listing : heard[t] < lastBlock.time /\ came[t] > found[lastBlock.hash]
      <3>1. SUFFICES ASSUME NEW t \in txPool \ Listing
                     PROVE  heard[t] < lastBlock.time /\ came[t] > found[lastBlock.hash]
        OBVIOUS
      <3>2. Missed(t)
        BY <1>3, <2>2, <3>1 DEF MempoolInv, TxInv
      <3>3. came[t] \in Nat /\ found[lastBlock.hash] \in Nat
        BY <3>1 DEF MempoolInv, PoolTypes, ListInv, IsBlock
      <3> QED
        BY <3>2, <3>3 DEF Missed, Before
    <2>5. Listing \subseteq txPool
      <3>1. SUFFICES ASSUME NEW t \in Listing PROVE t \in txPool
        OBVIOUS
      <3>2. t \in Mempool!Tx /\ came[t] > 0 /\ (minedAt[t] = 0 \/ minedAt[t] > poolBest)
        BY <1>3, <2>2, <2>3, <3>1 DEF MempoolInv, ListInv, Listable, AnotherBlock, Fresh
      <3>3. minedAt[t] <= poolBest /\ (t \in txPool \/ minedAt[t] > 0)
        BY <3>2 DEF MempoolInv, NodeInv
      <3>4. minedAt[t] \in Nat /\ poolBest \in Nat
        BY <3>2 DEF MempoolInv, PoolTypes
      <3> QED
        BY <3>2, <3>3, <3>4
    <2>6. Indexes(Listing)
      BY <1>3, <2>2 DEF MempoolInv, IndexInv
    <2>7. \A a \in Addr :
             /\ addrMap[a].outs = Mempool!AddrsOf(Listing)[a].outs
             /\ addrMap[a].prev = Mempool!AddrsOf(Listing)[a].prev
      BY <2>6 DEF Indexes, Mempool!AddrsOf, SpendsIn
    <2> QED
      BY <2>3, <2>4, <2>5, <2>7
  <1> QED
    BY <1>1, <1>2, <1>3 DEF Mempool!MempoolIsMirrored, Listing

-------------------------------------------------------------------------------
(* The mempool: the theorem.                                                *)

MempoolKept == service = "mempool" => MempoolInv

\* MempoolIsMirrored: for every universe of transactions, every number of blocks and
\* of failed requests, and every pair of clocks, the notifier's and the miners', the
\* monitor lists a mined transaction only when it heard of it in or after the second
\* of its last block; once TxHandler and BlockHandler have handled every signal, its
\* inventory and its address index are those of the node's mempool, but for what came
\* after that block and was heard in a second before the block's own.
THEOREM MempoolAlwaysMirrored == ServicesSpec => []MempoolIsMirrored
  <1>1. ServicesInit => MempoolKept
    BY MempoolStart DEF ServicesInit, MempoolKept
  <1>2. ASSUME MempoolKept,
               [BotStep \/ MempoolStep \/ SummariesStep \/ PublisherStep]_serviceVars
        PROVE  MempoolKept'
    <2>1. CASE MempoolStep
      BY <1>2, <2>1, MempoolKeeps DEF MempoolStep, MempoolKept
    <2>2. CASE BotStep \/ SummariesStep \/ PublisherStep
      BY <2>2 DEF BotStep, SummariesStep, PublisherStep, MempoolKept
    <2>3. CASE UNCHANGED serviceVars
      <3>1. UNCHANGED service /\ UNCHANGED mempoolVars
        BY <2>3 DEF serviceVars
      <3> QED
        BY <1>2, <3>1, MempoolRests DEF MempoolKept
    <2> QED
      BY <1>2, <2>1, <2>2, <2>3
  <1>3. MempoolKept => MempoolIsMirrored
    BY MempoolSettles DEF MempoolKept, MempoolIsMirrored
  <1> QED
    BY <1>1, <1>2, <1>3, PTL DEF ServicesSpec

===============================================================================
