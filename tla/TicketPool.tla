------------------------------ MODULE TicketPool ------------------------------
(***************************************************************************)
(* stakedb.TicketPool: the live ticket pool kept as a list of per-block    *)
(* diffs, a cursor into that list and the set of tickets obtained by        *)
(* replaying the diffs up to the cursor.  Every diff is also stored in a    *)
(* badger database keyed by height.                                        *)
(*                                                                         *)
(* The exported methods hold tp.mtx for their whole duration (Append and   *)
(* AppendAndAdvancePool compare the height with the tip before they lock,   *)
(* but the tip moves only under the stake node's mutex).  A method          *)
(* that loops over advance or retreat is several steps here: "op" is the    *)
(* method that holds the mutex, so the inductive argument of the loop is    *)
(* the one of the state machine.  The Go slice diffs[0..tip-1] is the       *)
(* sequence diffs[1..tip], so Go's diffs[c] is diffs[c + 1].                *)
(***************************************************************************)
EXTENDS Integers, Sequences, FiniteSets

CONSTANTS
    Ticket,        \* ticket hashes
    MaxHeight,     \* bound: the highest block connected
    StoreMayFail   \* whether storeDiff may return an error (disk trouble)

ASSUME TicketAssumption == IsFiniteSet(Ticket)
ASSUME HeightAssumption == MaxHeight \in Nat
ASSUME StoreAssumption == StoreMayFail \in BOOLEAN

VARIABLES
    cursor,    \* tp.cursor, the number of diffs applied to pool
    tip,       \* tp.tip
    diffs,     \* tp.diffs
    pool,      \* tp.pool
    diffDB,    \* tp.diffDB: height -> diff, what is on disk
    op,        \* the method that holds tp.mtx and its target height
    failed,    \* a size check of advance or retreat has returned an error
    ret,       \* what the last call of Pool returned, and for which height
    live       \* ghost: the stake node's live tickets at heights 0..tip

vars == <<cursor, tip, diffs, pool, diffDB, op, failed, ret, live>>

PoolDiff == [In : SUBSET Ticket, Out : SUBSET Ticket]

\* The diff that takes the live set p to the live set q.
DiffBetween(p, q) == [In |-> q \ p, Out |-> p \ q]

Unlocked == [name |-> "none", to |-> 0]
Ops == [name : {"none", "pool", "trim", "toTip", "appended"}, to : Nat]

\* The tickets of the map after applyDiff(in, out): additions, then deletions.
applyDiff(p, in, out) == (p \cup in) \ out

maxCursor(t) == IF t = 0 THEN 0 ELSE t - 1

-------------------------------------------------------------------------------
(* The start of a process: NewTicketPool loads every diff on disk and       *)
(* leaves the pool at genesis.  The diffs on disk are those of some chain.  *)

NewTicketPool ==
    /\ tip \in 0..MaxHeight
    /\ live \in [0..tip -> SUBSET Ticket]
    /\ live[0] = {}
    /\ diffs = [i \in 1..tip |-> DiffBetween(live[i - 1], live[i])]
    /\ diffDB = diffs
    /\ cursor = 0
    /\ pool = {}

Init ==
    /\ NewTicketPool
    /\ op = Unlocked
    /\ failed = FALSE
    /\ ret = [height |-> 0, tickets |-> {}]

-------------------------------------------------------------------------------
(* storeDiff: the diff replaces whatever the database has at that height.   *)

StoreOutcomes == IF StoreMayFail THEN BOOLEAN ELSE {TRUE}

storeDiff(d, h, ok) ==
    diffDB' = IF ok THEN [i \in DOMAIN diffDB \cup {h} |-> IF i = h THEN d ELSE diffDB[i]]
              ELSE diffDB

\* A bug in append: the disk is written only when it has no diff at that height.
append_keepsOld(q, h, ok, next) ==
    /\ op = Unlocked
    /\ h = tip + 1
    /\ h <= MaxHeight
    /\ LET d == DiffBetween(live[tip], q)
       IN  /\ diffs' = Append(diffs, d)
           /\ storeDiff(d, h, ok /\ h \notin DOMAIN diffDB)
    /\ tip' = tip + 1
    /\ live' = [i \in 0..h |-> IF i = h THEN q ELSE live[i]]
    /\ op' = next
    /\ UNCHANGED <<cursor, pool, failed, ret>>

\* append and storeDiff: the memory grows before, and whether or not (ok), the
\* disk does.  The block connected at height h takes the live set to q; a
\* height that does not build on the tip is refused and changes nothing.
append(q, h, ok, next) ==
    /\ op = Unlocked
    /\ h = tip + 1
    /\ h <= MaxHeight
    /\ LET d == DiffBetween(live[tip], q)
       IN  /\ diffs' = Append(diffs, d)
           /\ storeDiff(d, h, ok)
    /\ tip' = tip + 1
    /\ live' = [i \in 0..h |-> IF i = h THEN q ELSE live[i]]
    /\ op' = next
    /\ UNCHANGED <<cursor, pool, failed, ret>>

AppendDiff(q, h) == \E ok \in StoreOutcomes : append(q, h, ok, Unlocked)

\* As Append, then one advance under the same lock unless the store failed.
AppendAndAdvancePool(q, h) ==
    \E ok \in StoreOutcomes :
        append(q, h, ok, IF ok THEN [name |-> "appended", to |-> 0] ELSE Unlocked)

-------------------------------------------------------------------------------
(* advance and retreat: one diff forward, one diff back.  The size check    *)
(* comes after the pool has changed; its error ends the calling method.     *)

advance(next) ==
    LET d == diffs[cursor + 1]
    IN  /\ cursor <= maxCursor(tip)
        /\ pool' = applyDiff(pool, d.In, d.Out)
        /\ cursor' = cursor + 1
        /\ IF Cardinality(pool') = Cardinality(pool) + Cardinality(d.In) - Cardinality(d.Out)
           THEN op' = next /\ UNCHANGED failed
           ELSE op' = Unlocked /\ failed' = TRUE
        /\ UNCHANGED <<tip, diffs, diffDB, ret, live>>

\* A bug in retreat: only the tickets that came in are taken out again.
retreat_forgetsOut(errNext) ==
    LET d == diffs[cursor]
    IN  /\ cursor # 0
        /\ pool' = applyDiff(pool, {}, d.In)
        /\ cursor' = cursor - 1
        /\ UNCHANGED <<op, failed, tip, diffs, diffDB, ret, live>>

\* A bug in retreat: the deletions come before the additions' diff is reversed.
retreat_notReversed(errNext) ==
    LET d == diffs[cursor]
    IN  /\ cursor # 0
        /\ pool' = applyDiff(pool, d.In, d.Out)
        /\ cursor' = cursor - 1
        /\ IF Cardinality(pool') = Cardinality(pool) - Cardinality(d.In) + Cardinality(d.Out)
           THEN UNCHANGED <<op, failed>>
           ELSE op' = errNext /\ failed' = TRUE
        /\ UNCHANGED <<tip, diffs, diffDB, ret, live>>

retreat(errNext) ==
    LET d == diffs[cursor]
    IN  /\ cursor # 0
        /\ pool' = applyDiff(pool, d.Out, d.In)
        /\ cursor' = cursor - 1
        /\ IF Cardinality(pool') = Cardinality(pool) - Cardinality(d.In) + Cardinality(d.Out)
           THEN UNCHANGED <<op, failed>>
           ELSE op' = errNext /\ failed' = TRUE
        /\ UNCHANGED <<tip, diffs, diffDB, ret, live>>

AppendedAdvance == op.name = "appended" /\ advance(Unlocked)

\* AdvanceToTip: advanceTo(tip) under the lock.
BeginAdvanceToTip ==
    /\ op = Unlocked
    /\ op' = [name |-> "toTip", to |-> tip]
    /\ UNCHANGED <<cursor, tip, diffs, pool, diffDB, failed, ret, live>>

advanceTo == op.name = "toTip" /\ op.to > cursor /\ advance(op)

EndAdvanceToTip ==
    /\ op.name = "toTip"
    /\ op.to <= cursor
    /\ op' = Unlocked
    /\ UNCHANGED <<cursor, tip, diffs, pool, diffDB, failed, ret, live>>

-------------------------------------------------------------------------------
(* Pool(height): refused above the tip; otherwise forward while the cursor  *)
(* is below the height, back while it is above, then the tickets of the map.*)

BeginPool(h) ==
    /\ op = Unlocked
    /\ h <= tip
    /\ op' = [name |-> "pool", to |-> h]
    /\ UNCHANGED <<cursor, tip, diffs, pool, diffDB, failed, ret, live>>

PoolAdvance == op.name = "pool" /\ op.to > cursor /\ advance(op)

\* A bug in Pool: the loop for going back goes round without a retreat.
PoolRetreat_noRetreat ==
    /\ op.name = "pool"
    /\ cursor > op.to
    /\ UNCHANGED vars

PoolRetreat == op.name = "pool" /\ cursor > op.to /\ retreat(Unlocked)

\* A bug in Pool: the tickets are read before the cursor has moved back.
EndPool_early ==
    /\ op.name = "pool"
    /\ cursor >= op.to
    /\ ret' = [height |-> op.to, tickets |-> pool]
    /\ op' = Unlocked
    /\ UNCHANGED <<cursor, tip, diffs, pool, diffDB, failed, live>>

EndPool ==
    /\ op.name = "pool"
    /\ cursor = op.to
    /\ ret' = [height |-> op.to, tickets |-> pool]
    /\ op' = Unlocked
    /\ UNCHANGED <<cursor, tip, diffs, pool, diffDB, failed, live>>

-------------------------------------------------------------------------------
(* Trim: the tip goes down first, the cursor retreats below the new last    *)
(* diff, and only then is the last diff cut off.  The disk is left alone.   *)

BeginTrim ==
    /\ op = Unlocked
    /\ tip # 0 /\ diffs # <<>>
    /\ tip' = tip - 1
    /\ op' = [name |-> "trim", to |-> maxCursor(tip - 1)]
    /\ UNCHANGED <<cursor, diffs, pool, diffDB, failed, ret, live>>

\* retreatTo: an error of retreat is logged and ends the loop, not the trim.
retreatTo ==
    /\ op.name = "trim"
    /\ cursor > op.to
    /\ retreat([name |-> "trim", to |-> cursor - 1])

EndTrim ==
    /\ op.name = "trim"
    /\ cursor <= op.to
    /\ diffs' = SubSeq(diffs, 1, Len(diffs) - 1)
    /\ live' = [i \in 0..tip |-> live[i]]
    /\ op' = Unlocked
    /\ UNCHANGED <<cursor, tip, pool, diffDB, failed, ret>>

-------------------------------------------------------------------------------
Next ==
    \/ \E q \in SUBSET Ticket, h \in 1..MaxHeight : AppendDiff(q, h)
    \/ \E q \in SUBSET Ticket, h \in 1..MaxHeight : AppendAndAdvancePool(q, h)
    \/ AppendedAdvance
    \/ BeginAdvanceToTip \/ advanceTo \/ EndAdvanceToTip
    \/ \E h \in 0..MaxHeight : BeginPool(h)
    \/ PoolAdvance \/ PoolRetreat \/ EndPool
    \/ BeginTrim \/ retreatTo \/ EndTrim

\* The steps of a method that already holds the mutex: the goroutine goes on.
LockedSteps ==
    \/ AppendedAdvance
    \/ advanceTo \/ EndAdvanceToTip
    \/ PoolAdvance \/ PoolRetreat \/ EndPool
    \/ retreatTo \/ EndTrim

Spec == Init /\ [][Next]_vars

FairSpec == Spec /\ WF_vars(LockedSteps)

-------------------------------------------------------------------------------
(* Properties.                                                              *)

\* Type correctness of the TicketPool fields; the diffs slice is one longer
\* than the tip only inside Trim.
TypeOK ==
    /\ tip \in 0..MaxHeight
    /\ cursor \in Nat
    /\ diffs \in Seq(PoolDiff)
    /\ pool \in SUBSET Ticket
    /\ op \in Ops
    /\ failed \in BOOLEAN
    /\ ret \in [height : Nat, tickets : SUBSET Ticket]
    /\ DOMAIN live = 0..Len(diffs)
    /\ \A i \in 0..Len(diffs) : live[i] \in SUBSET Ticket
    /\ DOMAIN diffDB \subseteq 1..MaxHeight
    /\ \A i \in DOMAIN diffDB : diffDB[i] \in PoolDiff

\* Whatever interleaving of Append, Trim, Pool and AdvanceToTip got it there,
\* the pool map is the stake node's live ticket set at the cursor's height.
PoolMatchesCursor == cursor \in DOMAIN live /\ pool = live[cursor]

\* When no method is running the cursor is not beyond the tip, so neither
\* advance nor retreat can index past the end of the diffs slice.
CursorNotPastTip == op = Unlocked => cursor <= tip /\ Len(diffs) = tip

\* With diffs that come from real blocks, the "pool size is %d, expected %d"
\* errors of advance and retreat never happen.
NoSizeError == ~failed

\* Pool(height) returns the live tickets of exactly that height.
PoolAnswersForHeight == [][ret' # ret => ret'.tickets = live[ret'.height]]_vars

\* Every diff a restart may need is on disk as it is in memory: a diff left
\* behind by Trim is overwritten when the height is connected again.
DiskHasMemory == \A i \in 1..tip : i \in DOMAIN diffDB /\ diffDB[i] = diffs[i]

\* A method that takes the mutex gives it back: no loop of advance or retreat
\* runs forever or gets stuck.
MutexReleased == op # Unlocked ~> op = Unlocked

===============================================================================
