-------------------------- MODULE StakeDatabaseProofs --------------------------
(***************************************************************************)
(* Proofs about StakeDatabase for every tree of blocks, every assignment of *)
(* live tickets and every rewind depth, with and without the faults.        *)
(*                                                                         *)
(* HeightsAgree speaks of the moments between two handlers.  The inductive  *)
(* invariant says where the databases are inside a handler and during the   *)
(* start as well: what the disk holds (a crash makes it the next start's    *)
(* memory), how far the diffs are behind while a block is being connected,  *)
(* and that the blocks still to be connected build on the best node.        *)
(***************************************************************************)
EXTENDS StakeDatabase, BlockTreeProofs, SequenceTheorems

Phases == {"down", "equalize", "advance", "advanceAgain", "rewind", "rewindAgain", "running"}
Places == {"idle", "down", "up", "connect", "apply", "append"}

TypeOK ==
    /\ faults \in BOOLEAN
    /\ phase \in Phases
    /\ bestNode \in Block /\ nodeDB \in Block
    /\ diffs \in Seq(Block) /\ diffDB \in Seq(Block)
    /\ pc \in Places
    /\ downTo \in Nat
    /\ newChain \in Seq(Block)
    /\ previous \in Block
    /\ panicked \in BOOLEAN

\* ConnectBlock has moved the stake node and not yet the ticket pool.
Connecting == pc \in {"apply", "append"}

\* The databases have been brought to one height.
Equalized == phase \notin {"down", "equalize"}

\* The block up to which the diffs are those of the stake node's chain.
Covered(b) == IF Connecting THEN Parent(b) ELSE b

\* The monitor works only after the start.
Control == phase # "running" => pc = "idle"

\* The stake node in memory is the one on disk; without faults no consistency check
\* has failed.
Consistent == (phase # "down" => nodeDB = bestNode) /\ (~faults => ~panicked)

\* The ticket pool is at the height of the stake node, one below it while a block
\* is being connected, and has no diff that is not on disk.
Level ==
    /\ Equalized => Len(diffs) = HeightOf(Covered(bestNode))
    /\ phase # "down" => Len(diffs) <= Len(diffDB)
    /\ Connecting => bestNode # Genesis

\* The blocks still to be connected are a branch.  Without faults it continues the
\* stake node's chain, above the common ancestor while that is still to be reached.
Branch ==
    pc # "idle" =>
        /\ newChain # <<>>
        /\ \A i \in 1..Len(newChain) : newChain[i] # Genesis
        /\ \A i \in 2..Len(newChain) : Parent(newChain[i]) = newChain[i - 1]
        /\ Connecting => newChain[1] = bestNode
        /\ ~faults /\ pc \in {"up", "connect"} => Parent(newChain[1]) = bestNode
        /\ ~faults /\ pc = "down" => /\ downTo <= HeightOf(bestNode)
                                     /\ Parent(newChain[1]) = At(bestNode, downTo)

\* Without faults the notifier is where the stake node is, or will be once the
\* blocks still to be connected are.
Notified ==
    ~faults /\ phase = "running" =>
        previous = IF pc = "idle" THEN bestNode ELSE newChain[Len(newChain)]

\* The disk holds the diffs of the branch of b.
OnDisk(b) ==
    /\ HeightOf(b) <= Len(diffDB)
    /\ \A i \in 1..HeightOf(b) : diffDB[i] = Chain[b][i]

\* Without faults the disk holds the diffs of the stake node's chain, and possibly
\* stale ones above, and the ticket pool exactly those of the chain.
DiffsOfChain ==
    ~faults =>
        /\ OnDisk(Covered(nodeDB))
        /\ phase = "equalize" => diffs = diffDB
        /\ Equalized => diffs = Chain[Covered(bestNode)]

\* Without faults the cache is the live ticket set of the block the diffs are at,
\* or already that of the block being connected.
CacheOfChain ==
    ~faults /\ phase = "running" =>
        cache = LiveAt[IF pc = "apply" THEN Parent(bestNode) ELSE bestNode]

IInv ==
    /\ TypeOK
    /\ Control
    /\ Consistent
    /\ Level
    /\ Branch
    /\ Notified
    /\ DiffsOfChain
    /\ CacheOfChain

-------------------------------------------------------------------------------
(* The operators on diffs.                                                  *)

\* Trimmed keeps the first h diffs.
LEMMA TrimmedDiffs ==
    ASSUME NEW ds \in Seq(Block), NEW h \in Nat
    PROVE  /\ Trimmed(ds, h) \in Seq(Block)
           /\ Len(Trimmed(ds, h)) = (IF Len(ds) > h THEN h ELSE Len(ds))
           /\ \A i \in 1..Len(Trimmed(ds, h)) : Trimmed(ds, h)[i] = ds[i]
           /\ Len(ds) <= h => Trimmed(ds, h) = ds
  BY DEF Trimmed

\* Trimming the last block off a branch leaves the branch of its parent.
LEMMA TrimmedBranch ==
    ASSUME NEW b \in Block, b # Genesis
    PROVE  Trimmed(Chain[b], HeightOf(b) - 1) = Chain[Parent(b)]
  <1>1. /\ Chain[b] = Append(Chain[Parent(b)], b)
        /\ Chain[Parent(b)] \in Seq(Block) /\ Chain[b] \in Seq(Block)
    BY ParentBelow, ParentType, TreeAssumption
  <1>2. Len(Chain[b]) = HeightOf(b) /\ Len(Chain[Parent(b)]) = HeightOf(b) - 1
    BY ParentBelow DEF HeightOf
  <1>3. HeightOf(b) \in Nat /\ HeightOf(b) - 1 \in Nat /\ HeightOf(b) > HeightOf(b) - 1
    BY ParentBelow, HeightType
  <1>4. Trimmed(Chain[b], HeightOf(b) - 1) = SubSeq(Chain[b], 1, HeightOf(b) - 1)
    BY <1>2, <1>3 DEF Trimmed
  <1>5. Parent(b) = At(b, HeightOf(b) - 1) /\ HeightOf(b) - 1 \in 0..HeightOf(b)
    BY <1>3, ParentIsAt
  <1> QED
    BY <1>4, <1>5, BranchPrefix

\* undoDiff of the last diff of a branch takes the live tickets back by one block.
LEMMA UndoneBranch ==
    ASSUME NEW b \in Block, b # Genesis
    PROVE  Undone(LiveAt[b], Chain[b], HeightOf(b) - 1) = LiveAt[Parent(b)]
  <1> DEFINE n == HeightOf(b)
             d == Diff(b)
             F(f) == [i \in (n - 1)..n |-> IF i = n THEN LiveAt[b]
                        ELSE (f[i + 1] \cup Diff(Chain[b][i + 1]).Out) \ Diff(Chain[b][i + 1]).In]
             U == CHOOSE f : f = F(f)
             g == [i \in (n - 1)..n |-> IF i = n THEN LiveAt[b] ELSE (LiveAt[b] \cup d.Out) \ d.In]
  <1>1. n \in Nat /\ n > 0 /\ Len(Chain[b]) = n /\ n - 1 \in Nat
    BY ParentBelow, HeightType DEF HeightOf
  <1>2. Chain[b][n] = b
    BY <1>1, TipOfBranch DEF At
  <1>3. g = F(g)
    <2>1. ASSUME NEW i \in (n - 1)..n, i # n
          PROVE  (g[i + 1] \cup Diff(Chain[b][i + 1]).Out) \ Diff(Chain[b][i + 1]).In
                    = (LiveAt[b] \cup d.Out) \ d.In
      <3>1. i + 1 = n /\ n \in (n - 1)..n
        BY <1>1, <2>1
      <3>2. g[n] = LiveAt[b]
        BY <3>1
      <3> QED
        BY <1>2, <3>1, <3>2
    <2>2. \A i \in (n - 1)..n : g[i] = F(g)[i]
      <3> HIDE DEF d
      <3> QED
        BY <2>1
    <2> QED
      BY <2>2
  <1>4. U = F(U)
    <2> HIDE DEF F, g
    <2> QED
      BY <1>3
  <1>5. U[n] = LiveAt[b] /\ U[n - 1] = (LiveAt[b] \cup d.Out) \ d.In
    <2> HIDE DEF U
    <2>1. U[n] = LiveAt[b]
      BY <1>1, <1>4
    <2>2. U[n - 1] = (U[n] \cup d.Out) \ d.In
      BY <1>1, <1>2, <1>4
    <2> QED
      BY <2>1, <2>2
  <1>6. (LiveAt[b] \cup d.Out) \ d.In = LiveAt[Parent(b)]
    BY DEF Diff
  <1>7. Undone(LiveAt[b], Chain[b], n - 1) = U[n - 1]
    BY <1>1 DEF Undone
  <1> QED
    BY <1>5, <1>6, <1>7

\* Diffs on disk up to a block are on disk up to its parent.
LEMMA OnDiskParent ==
    ASSUME diffDB \in Seq(Block), NEW b \in Block, b # Genesis, OnDisk(b)
    PROVE  OnDisk(Parent(b))
  <1>1. /\ Chain[b] = Append(Chain[Parent(b)], b)
        /\ Chain[Parent(b)] \in Seq(Block)
        /\ HeightOf(Parent(b)) = HeightOf(b) - 1
        /\ HeightOf(Parent(b)) = Len(Chain[Parent(b)])
        /\ HeightOf(b) \in Nat /\ HeightOf(Parent(b)) \in Nat /\ Len(diffDB) \in Nat
    BY ParentBelow, ParentType, HeightType, TreeAssumption DEF HeightOf
  <1>2. \A i \in 1..HeightOf(Parent(b)) : Chain[b][i] = Chain[Parent(b)][i]
    BY <1>1
  <1>3. HeightOf(Parent(b)) <= Len(diffDB)
    BY <1>1 DEF OnDisk
  <1>4. \A i \in 1..HeightOf(Parent(b)) : i \in 1..HeightOf(b)
    BY <1>1
  <1> QED
    BY <1>2, <1>3, <1>4 DEF OnDisk

\* The first diffs of the disk are the branch they are on.
LEMMA TrimmedDisk ==
    ASSUME diffDB \in Seq(Block), NEW b \in Block, OnDisk(b)
    PROVE  Trimmed(diffDB, HeightOf(b)) = Chain[b]
  <1>1. HeightOf(b) \in Nat /\ Chain[b] \in Seq(Block) /\ Len(Chain[b]) = HeightOf(b)
    BY HeightType, TreeAssumption DEF HeightOf
  <1>2. /\ Trimmed(diffDB, HeightOf(b)) \in Seq(Block)
        /\ Len(Trimmed(diffDB, HeightOf(b))) = HeightOf(b)
        /\ \A i \in 1..HeightOf(b) : Trimmed(diffDB, HeightOf(b))[i] = diffDB[i]
    BY <1>1, TrimmedDiffs DEF OnDisk
  <1>3. \A i \in 1..HeightOf(b) : Trimmed(diffDB, HeightOf(b))[i] = Chain[b][i]
    BY <1>2 DEF OnDisk
  <1> QED
    BY <1>1, <1>2, <1>3, SeqEqual

\* disconnectBlock on a consistent database takes every part of it to the parent.
LEMMA Disconnected ==
    ASSUME TypeOK, nodeDB = bestNode, NEW neglectCache \in BOOLEAN,
           disconnectBlock(neglectCache)
    PROVE  /\ bestNode # Genesis
           /\ bestNode' = Parent(bestNode) /\ nodeDB' = Parent(bestNode)
           /\ diffs' = Trimmed(diffs, HeightOf(bestNode) - 1)
           /\ cache' = IF neglectCache THEN cache
                       ELSE Undone(cache, diffs, HeightOf(bestNode) - 1)
           /\ panicked' = panicked
  BY ParentBelow DEF TypeOK, disconnectBlock

\* The height of the parent, and what Trimmed does to the diffs of one block.
LEMMA TrimmedByOne ==
    ASSUME TypeOK, bestNode # Genesis
    PROVE  /\ Parent(bestNode) \in Block
           /\ HeightOf(bestNode) \in Nat
           /\ HeightOf(Parent(bestNode)) \in Nat
           /\ HeightOf(Parent(bestNode)) = HeightOf(bestNode) - 1
           /\ Trimmed(diffs, HeightOf(bestNode) - 1) \in Seq(Block)
           /\ Len(Trimmed(diffs, HeightOf(bestNode) - 1)) <= Len(diffs)
           /\ Len(diffs) = HeightOf(bestNode) =>
                 Len(Trimmed(diffs, HeightOf(bestNode) - 1)) = HeightOf(bestNode) - 1
           /\ Len(diffs) < HeightOf(bestNode) =>
                 Trimmed(diffs, HeightOf(bestNode) - 1) = diffs
  <1>1. bestNode \in Block /\ diffs \in Seq(Block) /\ Len(diffs) \in Nat
    BY DEF TypeOK
  <1>2. /\ Parent(bestNode) \in Block
        /\ HeightOf(bestNode) \in Nat
        /\ HeightOf(Parent(bestNode)) \in Nat
        /\ HeightOf(Parent(bestNode)) = HeightOf(bestNode) - 1
    BY <1>1, ParentBelow, ParentType, HeightType
  <1>3. /\ Trimmed(diffs, HeightOf(bestNode) - 1) \in Seq(Block)
        /\ Len(Trimmed(diffs, HeightOf(bestNode) - 1)) =
              (IF Len(diffs) > HeightOf(bestNode) - 1 THEN HeightOf(bestNode) - 1 ELSE Len(diffs))
        /\ Len(diffs) <= HeightOf(bestNode) - 1 =>
              Trimmed(diffs, HeightOf(bestNode) - 1) = diffs
    BY <1>1, <1>2, TrimmedDiffs
  <1>4. Len(diffs) < HeightOf(bestNode) => Len(diffs) <= HeightOf(bestNode) - 1
    BY <1>1, <1>2
  <1> HIDE DEF Trimmed
  <1> QED
    BY <1>1, <1>2, <1>3, <1>4

-------------------------------------------------------------------------------
(* Each step of the start keeps the invariant.                              *)

\* NewStakeDatabase loads what is on disk.
LEMMA StepNewStakeDatabase == ASSUME IInv, NewStakeDatabase PROVE IInv'
  <1>1. TypeOK /\ pc = "idle" /\ phase = "down" /\ (~faults => ~panicked)
    BY DEF IInv, Control, Consistent, NewStakeDatabase
  <1>2. /\ phase' = "equalize" /\ pc' = "idle" /\ diffs' = diffDB /\ diffDB' = diffDB
        /\ nodeDB' = bestNode' /\ bestNode' \in Block /\ panicked' = panicked
        /\ (~faults => nodeDB' = nodeDB)
        /\ UNCHANGED <<faults, cache, downTo, newChain, previous>>
    BY <1>1, TreeAssumption DEF NewStakeDatabase, TypeOK, job
  <1>3. TypeOK'
    BY <1>1, <1>2 DEF TypeOK, Phases
  <1>4. Len(diffDB) \in Nat
    BY <1>1 DEF TypeOK
  <1>5. Control' /\ Consistent' /\ Level' /\ Branch' /\ Notified' /\ CacheOfChain'
    BY <1>1, <1>2, <1>4 DEF Control, Consistent, Level, Branch, Notified, CacheOfChain,
       Equalized, Connecting
  <1>6. DiffsOfChain'
    BY <1>1, <1>2 DEF IInv, DiffsOfChain, OnDisk, Covered, Connecting, Equalized
  <1> QED
    BY <1>3, <1>5, <1>6 DEF IInv

\* The roll back leaves the diffs alone: the ticket pool is the lower one.
LEMMA StepRollBackStakeDB == ASSUME IInv, RollBackStakeDB PROVE IInv'
  <1>1. TypeOK /\ pc = "idle" /\ phase = "equalize" /\ nodeDB = bestNode
        /\ (~faults => ~panicked)
    BY DEF IInv, Control, Consistent, RollBackStakeDB
  <1>2. HeightOf(bestNode) > Len(diffs) /\ disconnectBlock(TRUE)
    BY DEF RollBackStakeDB
  <1>3. UNCHANGED <<faults, phase, diffDB, pc, downTo, newChain, previous>>
    BY DEF RollBackStakeDB, job
  <1>4. /\ bestNode # Genesis /\ bestNode' = Parent(bestNode) /\ nodeDB' = Parent(bestNode)
        /\ diffs' = Trimmed(diffs, HeightOf(bestNode) - 1) /\ panicked' = panicked
    BY <1>1, <1>2, Disconnected
  <1>5. Parent(bestNode) \in Block /\ diffs' = diffs
    BY <1>1, <1>2, <1>4, TrimmedByOne
  <1>6. TypeOK'
    BY <1>1, <1>3, <1>4, <1>5 DEF TypeOK
  <1>7. faults
    <2>1. SUFFICES ASSUME ~faults PROVE FALSE
      BY <1>1 DEF TypeOK
    <2>2. Len(diffs) >= HeightOf(bestNode)
      BY <1>1, <2>1 DEF IInv, DiffsOfChain, OnDisk, Covered, Connecting
    <2>3. HeightOf(bestNode) \in Nat /\ Len(diffs) \in Nat
      BY <1>1, HeightType DEF TypeOK
    <2> QED
      BY <1>2, <2>2, <2>3
  <1>8. Control' /\ Consistent' /\ Level' /\ Branch' /\ Notified' /\ DiffsOfChain' /\ CacheOfChain'
    BY <1>1, <1>3, <1>4, <1>5, <1>7 DEF IInv, Control, Consistent, Level, Branch, Notified, CacheOfChain,
       DiffsOfChain, Equalized, Connecting
  <1> QED
    BY <1>6, <1>8 DEF IInv

\* Trimming the pool brings it to the height, and the chain, of the stake node.
LEMMA StepTrimPool == ASSUME IInv, TrimPool PROVE IInv'
  <1>1. TypeOK /\ pc = "idle" /\ phase = "equalize" /\ nodeDB = bestNode
        /\ (~faults => ~panicked)
    BY DEF IInv, Control, Consistent, TrimPool
  <1>2. /\ HeightOf(bestNode) <= Len(diffs) /\ diffs' = Trimmed(diffs, HeightOf(bestNode))
        /\ phase' = "advance"
        /\ UNCHANGED <<faults, bestNode, nodeDB, diffDB, cache, pc, downTo, newChain, previous, panicked>>
    BY DEF TrimPool, disk, job
  <1>3. HeightOf(bestNode) \in Nat /\ Len(diffs) \in Nat /\ Len(diffDB) \in Nat
        /\ diffs \in Seq(Block)
    BY <1>1, HeightType DEF TypeOK
  <1>4. diffs' \in Seq(Block) /\ Len(diffs') = HeightOf(bestNode)
    BY <1>2, <1>3, TrimmedDiffs
  <1>5. TypeOK'
    BY <1>1, <1>2, <1>4 DEF TypeOK, Phases
  <1>6. Len(diffs) <= Len(diffDB)
    BY <1>1 DEF IInv, Level
  <1>7. Level'
    BY <1>1, <1>2, <1>3, <1>4, <1>6 DEF Level, Equalized, Connecting, Covered
  <1>8. Control' /\ Consistent' /\ Branch' /\ Notified' /\ CacheOfChain'
    BY <1>1, <1>2 DEF Control, Consistent, Branch, Notified, CacheOfChain
  <1>9. DiffsOfChain'
    <2>1. SUFFICES ASSUME ~faults
                   PROVE  OnDisk(bestNode)' /\ diffs' = Chain[bestNode]
      BY <1>1, <1>2 DEF DiffsOfChain, Covered, Connecting
    <2>2. OnDisk(bestNode) /\ diffs = diffDB
      BY <1>1, <2>1 DEF IInv, DiffsOfChain, Covered, Connecting
    <2>3. OnDisk(bestNode)'
      BY <1>2, <2>2 DEF OnDisk
    <2> QED
      BY <1>1, <1>2, <2>2, <2>3, TrimmedDisk DEF TypeOK
  <1> QED
    BY <1>5, <1>7, <1>8, <1>9 DEF IInv

\* The replay succeeds and the cache is read from the stake node.
LEMMA StepAdvanceToTip == ASSUME IInv, AdvanceToTip PROVE IInv'
  <1>1. TypeOK /\ pc = "idle" /\ phase \in {"advance", "advanceAgain"}
    BY DEF IInv, Control, AdvanceToTip
  <1>2. /\ cache' = LiveAt[bestNode] /\ phase' = "running" /\ previous' = bestNode
        /\ UNCHANGED <<faults, bestNode, nodeDB, diffs, diffDB, pc, downTo, newChain, panicked>>
    BY DEF AdvanceToTip, disk, job
  <1>3. TypeOK'
    BY <1>1, <1>2 DEF TypeOK, Phases
  <1>4. Control' /\ Consistent' /\ Level' /\ Branch' /\ Notified' /\ CacheOfChain'
    BY <1>1, <1>2 DEF IInv, Control, Consistent, Level, Branch, Notified, CacheOfChain,
       Equalized, Connecting, Covered
  <1>5. DiffsOfChain'
    BY <1>1, <1>2 DEF IInv, DiffsOfChain, OnDisk, Covered, Connecting, Equalized
  <1> QED
    BY <1>3, <1>4, <1>5 DEF IInv

\* The replay fails at some diff; the rewind has a target that is a height.
LEMMA StepAdvanceFails == ASSUME IInv, AdvanceFails PROVE IInv'
  <1>1. TypeOK /\ pc = "idle" /\ phase \in {"advance", "advanceAgain"}
    BY DEF IInv, Control, AdvanceFails
  <1>2. /\ phase' \in {"rewind", "rewindAgain"}
        /\ UNCHANGED <<faults, bestNode, nodeDB, diffs, diffDB, cache, pc, newChain, previous, panicked>>
    BY DEF AdvanceFails, disk
  <1>3. downTo' \in Nat
    <2>1. BadHeights(diffs) \in SUBSET Nat /\ BadHeights(diffs) # {}
      BY <1>1 DEF BadHeights, AdvanceFails, TypeOK
    <2>2. \E i \in BadHeights(diffs) : \A j \in BadHeights(diffs) : i <= j
      BY <2>1, LeastNatural
    <2>3. StopHeight(diffs) \in Nat
      <3> HIDE DEF BadHeights
      <3> QED
        BY <2>1, <2>2 DEF StopHeight
    <2> HIDE DEF StopHeight
    <2> QED
      BY <2>3, DepthAssumption DEF AdvanceFails
  <1>4. TypeOK'
    BY <1>1, <1>2, <1>3 DEF TypeOK, Phases
  <1>5. Control' /\ Consistent' /\ Level' /\ Branch' /\ Notified' /\ CacheOfChain'
    BY <1>1, <1>2 DEF IInv, Control, Consistent, Level, Branch, Notified, CacheOfChain,
       Equalized, Connecting, Covered
  <1>6. DiffsOfChain'
    BY <1>1, <1>2 DEF IInv, DiffsOfChain, OnDisk, Covered, Connecting, Equalized
  <1> QED
    BY <1>4, <1>5, <1>6 DEF IInv

\* One block less, in the rewind of the start or in a reorganisation.
LEMMA WentDown ==
    ASSUME IInv, Equalized, ~Connecting, NEW neglectCache \in BOOLEAN,
           disconnectBlock(neglectCache), UNCHANGED <<faults, phase, diffDB, job, previous>>
    PROVE  /\ bestNode # Genesis /\ bestNode' = Parent(bestNode)
           /\ cache' = IF neglectCache THEN cache
                       ELSE Undone(cache, diffs, HeightOf(bestNode) - 1)
           /\ UNCHANGED <<faults, phase, pc, downTo, newChain, previous>>
           /\ TypeOK' /\ Control' /\ Consistent' /\ Level' /\ DiffsOfChain'
  <1>1. TypeOK /\ nodeDB = bestNode /\ phase \notin {"down", "equalize"} /\ (~faults => ~panicked)
    BY DEF IInv, Consistent, Equalized
  <1>2. UNCHANGED <<faults, phase, diffDB, pc, downTo, newChain, previous>>
    BY DEF job
  <1>3. /\ bestNode # Genesis /\ bestNode' = Parent(bestNode) /\ nodeDB' = Parent(bestNode)
        /\ diffs' = Trimmed(diffs, HeightOf(bestNode) - 1) /\ panicked' = panicked
        /\ cache' = IF neglectCache THEN cache
                    ELSE Undone(cache, diffs, HeightOf(bestNode) - 1)
    BY <1>1, Disconnected
  <1>4. /\ bestNode \in Block /\ diffs \in Seq(Block) /\ diffDB \in Seq(Block)
        /\ Len(diffs) \in Nat /\ Len(diffDB) \in Nat
    BY <1>1 DEF TypeOK
  <1>5. Len(diffs) = HeightOf(bestNode) /\ Len(diffs) <= Len(diffDB)
    BY <1>1 DEF IInv, Level, Covered
  <1>6. /\ Parent(bestNode) \in Block /\ HeightOf(bestNode) \in Nat
        /\ HeightOf(Parent(bestNode)) = HeightOf(bestNode) - 1
        /\ diffs' \in Seq(Block) /\ Len(diffs') = HeightOf(bestNode) - 1
    BY <1>1, <1>3, <1>5, TrimmedByOne
  <1>7. TypeOK'
    BY <1>1, <1>2, <1>3, <1>6 DEF TypeOK
  <1>8. Control' /\ Consistent'
    BY <1>1, <1>2, <1>3 DEF IInv, Control, Consistent
  <1>9. Level'
    BY <1>2, <1>3, <1>4, <1>5, <1>6 DEF Level, Connecting, Covered
  <1>10. DiffsOfChain'
    <2>1. SUFFICES ASSUME ~faults
                   PROVE  OnDisk(Parent(bestNode)) /\ diffs' = Chain[Parent(bestNode)]
      BY <1>1, <1>2, <1>3 DEF DiffsOfChain, Covered, Connecting, OnDisk
    <2>2. OnDisk(bestNode) /\ diffs = Chain[bestNode]
      BY <1>1, <2>1 DEF IInv, DiffsOfChain, Covered
    <2>3. OnDisk(Parent(bestNode))
      BY <1>3, <1>4, <2>2, OnDiskParent
    <2> QED
      BY <1>3, <1>4, <2>2, <2>3, TrimmedBranch
  <1> QED
    BY <1>2, <1>3, <1>7, <1>8, <1>9, <1>10

\* Rewind disconnects one block.
LEMMA StepRewind == ASSUME IInv, Rewind PROVE IInv'
  <1>1. phase \in {"rewind", "rewindAgain"} /\ pc = "idle"
    BY DEF IInv, Control, Rewind
  <1>2. /\ Equalized /\ ~Connecting /\ disconnectBlock(TRUE)
        /\ UNCHANGED <<faults, phase, diffDB, job, previous>>
    BY <1>1 DEF Rewind, Equalized, Connecting
  <1>3. /\ UNCHANGED <<faults, phase, pc, downTo, newChain, previous>>
        /\ TypeOK' /\ Control' /\ Consistent' /\ Level' /\ DiffsOfChain'
    BY <1>2, WentDown
  <1>4. Branch' /\ Notified' /\ CacheOfChain'
    BY <1>1, <1>3 DEF Branch, Notified, CacheOfChain
  <1> QED
    BY <1>3, <1>4 DEF IInv

\* The rewind is over; the second one ends with the cache being read.
LEMMA StepRewindDone == ASSUME IInv, RewindDone PROVE IInv'
  <1>1. TypeOK /\ pc = "idle" /\ phase \in {"rewind", "rewindAgain"}
    BY DEF IInv, Control, RewindDone
  <1>2. /\ phase' \in {"advanceAgain", "running"}
        /\ phase' = "running" => cache' = LiveAt[bestNode] /\ previous' = bestNode
        /\ previous' \in {previous, bestNode}
        /\ UNCHANGED <<faults, bestNode, nodeDB, diffs, diffDB, pc, downTo, newChain, panicked>>
    BY <1>1 DEF RewindDone, disk, job
  <1>3. TypeOK'
    BY <1>1, <1>2 DEF TypeOK, Phases
  <1>4. Control' /\ Consistent' /\ Level' /\ Branch' /\ Notified' /\ CacheOfChain'
    BY <1>1, <1>2 DEF IInv, Control, Consistent, Level, Branch, Notified, CacheOfChain,
       Equalized, Connecting, Covered
  <1>5. DiffsOfChain'
    BY <1>1, <1>2 DEF IInv, DiffsOfChain, OnDisk, Covered, Connecting, Equalized
  <1> QED
    BY <1>3, <1>4, <1>5 DEF IInv

-------------------------------------------------------------------------------
(* Each step of the chain monitor keeps the invariant.                      *)

\* The databases are untouched and no block is half connected before or after.
LEMMA SameDatabases ==
    ASSUME IInv, phase = "running", ~Connecting, pc' \notin {"apply", "append"},
           UNCHANGED <<faults, phase, bestNode, nodeDB, diffs, diffDB, cache, panicked>>
    PROVE  Control' /\ Consistent' /\ Level' /\ DiffsOfChain' /\ CacheOfChain'
  <1>1. Control' /\ Consistent' /\ Level'
    BY DEF IInv, Control, Consistent, Level, Equalized, Connecting, Covered
  <1>2. DiffsOfChain'
    BY DEF IInv, DiffsOfChain, OnDisk, Covered, Connecting, Equalized
  <1>3. CacheOfChain'
    BY DEF IInv, CacheOfChain, Connecting
  <1> QED
    BY <1>1, <1>2, <1>3

\* ChainMonitor.ConnectBlock begins with a child of the notifier's block.
LEMMA StepConnectBlock == ASSUME IInv, NEW b \in Block, ConnectBlock(b) PROVE IInv'
  <1>1. TypeOK /\ pc = "idle" /\ phase = "running"
    BY DEF IInv, ConnectBlock, Idle
  <1>2. /\ b # Genesis /\ Parent(b) = previous /\ previous' = b
        /\ newChain' = <<b>> /\ downTo' = HeightOf(bestNode) /\ pc' = "connect"
        /\ UNCHANGED <<faults, phase, bestNode, nodeDB, diffs, diffDB, cache, panicked>>
    BY DEF ConnectBlock, disk
  <1>3. newChain' \in Seq(Block) /\ newChain' # <<>> /\ Len(newChain') = 1 /\ newChain'[1] = b
    BY <1>2
  <1>4. TypeOK'
    BY <1>1, <1>2, <1>3, HeightType DEF TypeOK, Places
  <1>5. ~faults => previous = bestNode
    BY <1>1 DEF IInv, Notified
  <1>6. Branch' /\ Notified'
    BY <1>2, <1>3, <1>5 DEF Branch, Notified, Connecting
  <1>7. Control' /\ Consistent' /\ Level' /\ DiffsOfChain' /\ CacheOfChain'
    BY <1>1, <1>2, SameDatabases DEF Connecting
  <1> QED
    BY <1>4, <1>6, <1>7 DEF IInv

\* The end of a sequence, element by element.
LEMMA SubSeqOf ==
    ASSUME NEW s \in Seq(Block), NEW f \in 0..Len(s)
    PROVE  /\ SubSeq(s, f + 1, Len(s)) \in Seq(Block)
           /\ Len(SubSeq(s, f + 1, Len(s))) = Len(s) - f
           /\ \A i \in 1..(Len(s) - f) : SubSeq(s, f + 1, Len(s))[i] = s[f + i]
  OBVIOUS

\* ReorgHandler: the new chain is a branch on the common ancestor.
LEMMA StepReorgHandler == ASSUME IInv, NEW b \in Block, ReorgHandler(b) PROVE IInv'
  <1>1. TypeOK /\ pc = "idle" /\ phase = "running" /\ bestNode \in Block
    BY DEF IInv, ReorgHandler, Idle, TypeOK
  <1>2. PICK old \in Block : /\ ~faults => old = previous
                            /\ ~IsAncestor(b, old) /\ downTo' = ForkHeight(b, old)
    BY <1>1 DEF ReorgHandler, TypeOK
  <1>3. ~faults => old = bestNode
    BY <1>1, <1>2 DEF IInv, Notified
  <1>4. PICK f : f = ForkHeight(b, old)
    OBVIOUS
  <1>5. /\ downTo' = f
        /\ newChain' = SubSeq(Chain[b], f + 1, HeightOf(b)) /\ pc' = "down" /\ previous' = b
        /\ UNCHANGED <<faults, phase, bestNode, nodeDB, diffs, diffDB, cache, panicked>>
    BY <1>2, <1>4 DEF ReorgHandler, disk
  <1>6. /\ f \in 0..HeightOf(b) /\ f \in 0..HeightOf(old)
        /\ At(b, f) = At(old, f) /\ f < HeightOf(b)
        /\ HeightOf(b) \in Nat /\ HeightOf(old) \in Nat
        /\ Chain[b] \in Seq(Block) /\ Len(Chain[b]) = HeightOf(b)
    BY <1>2, <1>4, ForkIsShared, ForkBelowTip, HeightType, TreeAssumption DEF HeightOf
  <1>7. /\ newChain' \in Seq(Block)
        /\ Len(newChain') = HeightOf(b) - f
        /\ \A i \in 1..Len(newChain') : newChain'[i] = Chain[b][f + i]
    BY <1>5, <1>6, SubSeqOf
  <1>8. ASSUME NEW i \in 1..Len(newChain')
        PROVE  newChain'[i] # Genesis /\ Parent(newChain'[i]) = At(b, f + i - 1)
    <2>1. f + i \in 1..HeightOf(b) /\ f + i # 0
      BY <1>6, <1>7
    <2>2. newChain'[i] = At(b, f + i)
      BY <1>7, <2>1 DEF At
    <2>3. PICK k \in 1..HeightOf(b) : k = f + i
      BY <2>1
    <2>4. At(b, k) # Genesis /\ Parent(At(b, k)) = At(b, k - 1)
      BY ParentOnBranch
    <2>5. k - 1 = f + i - 1
      BY <1>6, <2>3
    <2> QED
      BY <2>2, <2>3, <2>4, <2>5
  <1>9. ASSUME NEW i \in 2..Len(newChain')
        PROVE  Parent(newChain'[i]) = newChain'[i - 1]
    <2>1. i \in 1..Len(newChain') /\ i - 1 \in 1..Len(newChain') /\ f + (i - 1) = f + i - 1
          /\ f + i - 1 # 0
      BY <1>6, <1>7
    <2>2. Parent(newChain'[i]) = At(b, f + i - 1)
      BY <1>8, <2>1
    <2>3. newChain'[i - 1] = Chain[b][f + i - 1]
      BY <1>7, <2>1
    <2> QED
      BY <2>1, <2>2, <2>3 DEF At
  <1>10. newChain' # <<>> /\ 1 \in 1..Len(newChain') /\ f + 1 - 1 = f /\ f \in Nat
        /\ f <= HeightOf(old)
    BY <1>6, <1>7
  <1>11. Parent(newChain'[1]) = At(old, f)
    BY <1>6, <1>8, <1>10
  <1>12. Branch'
    BY <1>3, <1>5, <1>8, <1>9, <1>10, <1>11 DEF Branch, Connecting
  <1>13. TypeOK'
    BY <1>1, <1>5, <1>7, <1>10 DEF TypeOK, Places
  <1>14. newChain'[Len(newChain')] = b
    <2>1. Len(newChain') \in 1..Len(newChain') /\ f + Len(newChain') = HeightOf(b)
      BY <1>6, <1>7, <1>10
    <2>2. newChain'[Len(newChain')] = Chain[b][HeightOf(b)]
      BY <1>7, <2>1
    <2> QED
      BY <1>6, <2>2, TipOfBranch DEF At
  <1>15. Notified'
    BY <1>5, <1>14 DEF Notified
  <1>16. Control' /\ Consistent' /\ Level' /\ DiffsOfChain' /\ CacheOfChain'
    BY <1>1, <1>5, SameDatabases DEF Connecting
  <1> QED
    BY <1>12, <1>13, <1>15, <1>16 DEF IInv

\* switchToSideChain disconnects one block and stays above the common ancestor.
LEMMA StepSwitchDown == ASSUME IInv, SwitchDown PROVE IInv'
  <1>1. pc = "down" /\ phase = "running" /\ HeightOf(bestNode) > downTo
    BY DEF IInv, Control, SwitchDown
  <1>2. /\ Equalized /\ ~Connecting /\ disconnectBlock(FALSE)
        /\ UNCHANGED <<faults, phase, diffDB, job, previous>>
    BY <1>1 DEF SwitchDown, Equalized, Connecting
  <1>3. /\ bestNode # Genesis /\ bestNode' = Parent(bestNode)
        /\ cache' = Undone(cache, diffs, HeightOf(bestNode) - 1)
        /\ UNCHANGED <<faults, phase, pc, downTo, newChain, previous>>
        /\ TypeOK' /\ Control' /\ Consistent' /\ Level' /\ DiffsOfChain'
    BY <1>2, WentDown
  <1>4. /\ bestNode \in Block /\ HeightOf(bestNode) \in Nat /\ downTo \in Nat
        /\ HeightOf(Parent(bestNode)) = HeightOf(bestNode) - 1
    BY <1>3, ParentBelow, HeightType DEF IInv, TypeOK
  <1>5. Branch'
    <2>1. downTo <= HeightOf(Parent(bestNode))
      BY <1>1, <1>4
    <2>2. At(Parent(bestNode), downTo) = At(bestNode, downTo)
      <3>1. /\ HeightOf(bestNode) - 1 \in 0..HeightOf(bestNode)
            /\ downTo \in 0..(HeightOf(bestNode) - 1)
        BY <1>1, <1>4
      <3> QED
        BY <1>3, <1>4, <3>1, ParentIsAt, AtOfAt
    <2> QED
      BY <1>1, <1>3, <2>1, <2>2 DEF IInv, Branch, Connecting
  <1>6. Notified'
    BY <1>1, <1>3 DEF IInv, Notified
  <1>7. CacheOfChain'
    <2>1. SUFFICES ASSUME ~faults PROVE cache' = LiveAt[Parent(bestNode)]
      BY <1>1, <1>3 DEF CacheOfChain
    <2>2. cache = LiveAt[bestNode] /\ diffs = Chain[bestNode]
      BY <1>1, <1>2, <2>1 DEF IInv, CacheOfChain, DiffsOfChain, Covered
    <2> QED
      BY <1>3, <1>4, <2>2, UndoneBranch
  <1> QED
    BY <1>3, <1>5, <1>6, <1>7 DEF IInv

\* The end of the process leaves the disk, which holds the chain of the stake node.
LEMMA Died ==
    ASSUME IInv, Die, faults \/ ~Connecting, faults \/ panicked' = panicked,
           panicked' \in BOOLEAN
    PROVE  IInv'
  <1>1. TypeOK /\ (~faults => ~panicked)
    BY DEF IInv, Consistent
  <1>2. /\ phase' = "down" /\ bestNode' = Genesis /\ diffs' = <<>>
        /\ pc' = "idle" /\ downTo' = 0 /\ newChain' = <<>> /\ previous' = Genesis
        /\ UNCHANGED <<faults, nodeDB, diffDB>>
    BY DEF Die, disk
  <1>3. TypeOK'
    <2>1. cache' = {}
      BY DEF Die
    <2> QED
      BY <1>1, <1>2, <2>1, TreeAssumption DEF TypeOK, Places, Phases
  <1>4. Control' /\ Consistent' /\ Level' /\ Branch' /\ Notified' /\ CacheOfChain'
    BY <1>1, <1>2 DEF Control, Consistent, Level, Branch, Notified, CacheOfChain, Equalized,
       Connecting
  <1>5. DiffsOfChain'
    BY <1>1, <1>2 DEF IInv, DiffsOfChain, OnDisk, Equalized, Connecting, Covered
  <1> QED
    BY <1>3, <1>4, <1>5 DEF IInv

\* switchToSideChain has reached the common ancestor; only faults make it miss it.
LEMMA StepSwitchTurn == ASSUME IInv, SwitchTurn PROVE IInv'
  <1>1. TypeOK /\ pc = "down" /\ phase = "running" /\ bestNode \in Block
    BY DEF IInv, Control, SwitchTurn, TypeOK
  <1>2. ~faults => HeightOf(bestNode) = downTo
    <2>1. SUFFICES ASSUME ~faults PROVE HeightOf(bestNode) = downTo
      OBVIOUS
    <2>2. downTo <= HeightOf(bestNode) /\ HeightOf(bestNode) <= downTo
      BY <1>1, <2>1 DEF IInv, Branch, SwitchTurn
    <2> QED
      BY <1>1, <2>2, HeightType DEF TypeOK
  <1>3. CASE HeightOf(bestNode) = downTo
    <2>1. pc' = "up" /\ UNCHANGED <<faults, phase, bestNode, nodeDB, diffs, diffDB, cache,
                                    downTo, newChain, previous, panicked>>
      BY <1>3 DEF SwitchTurn, disk
    <2>2. TypeOK'
      BY <1>1, <2>1 DEF TypeOK, Places
    <2>3. Branch' /\ Notified'
      BY <1>1, <1>3, <2>1, TipOfBranch DEF IInv, Branch, Notified, Connecting
    <2>4. Control' /\ Consistent' /\ Level' /\ DiffsOfChain' /\ CacheOfChain'
      BY <1>1, <2>1, SameDatabases DEF Connecting
    <2> QED
      BY <2>2, <2>3, <2>4 DEF IInv
  <1>4. CASE HeightOf(bestNode) # downTo
    <2>1. Die /\ panicked' = TRUE /\ faults
      BY <1>2, <1>4 DEF SwitchTurn
    <2> QED
      BY <2>1, Died
  <1> QED
    BY <1>3, <1>4

\* The nil dereference after a failing call ends the process.
LEMMA StepSwitchDownFails == ASSUME IInv, SwitchDownFails PROVE IInv'
  BY Died DEF SwitchDownFails

\* switchToSideChain takes the next block of the new chain.
LEMMA StepSwitchUp == ASSUME IInv, SwitchUp PROVE IInv'
  <1>1. TypeOK /\ pc = "up" /\ phase = "running"
    BY DEF IInv, Control, SwitchUp
  <1>2. pc' = "connect" /\ UNCHANGED <<faults, phase, bestNode, nodeDB, diffs, diffDB, cache,
                                       downTo, newChain, previous, panicked>>
    BY DEF SwitchUp, disk
  <1>3. TypeOK'
    BY <1>1, <1>2 DEF TypeOK, Places
  <1>4. Branch' /\ Notified'
    BY <1>1, <1>2 DEF IInv, Branch, Notified, Connecting
  <1>5. Control' /\ Consistent' /\ Level' /\ DiffsOfChain' /\ CacheOfChain'
    BY <1>1, <1>2, SameDatabases DEF Connecting
  <1> QED
    BY <1>3, <1>4, <1>5 DEF IInv

\* The node does not return the block to be connected.
LEMMA StepConnectFails == ASSUME IInv, ConnectFails PROVE IInv'
  <1>1. TypeOK /\ pc = "connect" /\ phase = "running"
    BY DEF IInv, Control, ConnectFails
  <1>2. pc' = "idle" /\ newChain' = <<>>
        /\ UNCHANGED <<faults, phase, bestNode, nodeDB, diffs, diffDB, cache, downTo, previous, panicked>>
    BY DEF ConnectFails, disk
  <1>3. TypeOK'
    BY <1>1, <1>2 DEF TypeOK, Places
  <1>4. Branch'
    BY <1>2 DEF Branch
  <1>5. faults
    <2>1. SUFFICES ASSUME ~faults PROVE FALSE
      BY <1>1 DEF TypeOK
    <2>2. /\ newChain \in Seq(Block) /\ newChain # <<>>
          /\ newChain[1] # Genesis /\ Parent(newChain[1]) = bestNode
      BY <1>1, <2>1 DEF IInv, Branch, TypeOK
    <2>3. PICK b \in Block : b = Head(newChain) /\ b = newChain[1]
      BY <2>2
    <2>4. HeightOf(b) > HeightOf(bestNode) /\ Parent(b) = bestNode
      BY <2>2, <2>3, ParentBelow, HeightType
    <2> QED
      BY <2>1, <2>3, <2>4 DEF ConnectFails, Connects
  <1>6. Notified'
    BY <1>2, <1>5 DEF Notified
  <1>7. Control' /\ Consistent' /\ Level' /\ DiffsOfChain' /\ CacheOfChain'
    BY <1>1, <1>2, SameDatabases DEF Connecting
  <1> QED
    BY <1>3, <1>4, <1>6, <1>7 DEF IInv

\* connectBlock moves the stake node to a child; the diffs stay at the parent.
LEMMA StepconnectBlock == ASSUME IInv, connectBlock PROVE IInv'
  <1> DEFINE b == Head(newChain)
  <1>1. TypeOK /\ pc = "connect" /\ phase = "running" /\ nodeDB = bestNode /\ ~Connecting
    BY DEF IInv, Control, Consistent, connectBlock, Connecting
  <1>2. /\ bestNode' = b /\ nodeDB' = b /\ pc' = "apply"
        /\ UNCHANGED <<faults, phase, diffs, diffDB, cache, downTo, newChain, previous, panicked>>
    BY DEF connectBlock
  <1>3. newChain \in Seq(Block) /\ newChain # <<>>
    BY <1>1 DEF IInv, Branch, TypeOK
  <1>4. b = newChain[1] /\ b \in Block /\ 1 \in 1..Len(newChain)
    BY <1>3
  <1>5. b # Genesis /\ Parent(b) = bestNode
    BY <1>1, <1>4 DEF IInv, Branch, connectBlock, Connects
  <1> HIDE DEF b
  <1>6. TypeOK'
    BY <1>1, <1>2, <1>4 DEF TypeOK, Places
  <1>7. Control' /\ Consistent' /\ CacheOfChain'
    BY <1>1, <1>2, <1>5 DEF IInv, Control, Consistent, CacheOfChain
  <1>8. Level'
    BY <1>1, <1>2, <1>5 DEF IInv, Level, Equalized, Connecting, Covered
  <1>9. DiffsOfChain'
    BY <1>1, <1>2, <1>5 DEF IInv, DiffsOfChain, OnDisk, Equalized, Connecting, Covered
  <1>10. Branch' /\ Notified'
    BY <1>1, <1>2, <1>4 DEF IInv, Branch, Notified, Connecting
  <1> QED
    BY <1>6, <1>7, <1>8, <1>9, <1>10 DEF IInv

\* applyDiff takes the cache from the parent's live tickets to the block's.
LEMMA StepapplyDiff == ASSUME IInv, applyDiff PROVE IInv'
  <1>1. TypeOK /\ pc = "apply" /\ phase = "running"
    BY DEF IInv, Control, applyDiff
  <1>2. pc' = "append" /\ UNCHANGED <<faults, phase, bestNode, nodeDB, diffs, diffDB, downTo,
                                      newChain, previous, panicked>>
    BY DEF applyDiff
  <1>3. TypeOK'
    BY <1>1, <1>2 DEF TypeOK, Places
  <1>4. Control' /\ Consistent' /\ Level' /\ Branch' /\ Notified'
    BY <1>1, <1>2 DEF IInv, Control, Consistent, Level, Branch, Notified, Equalized,
       Connecting, Covered
  <1>5. DiffsOfChain'
    BY <1>1, <1>2 DEF IInv, DiffsOfChain, OnDisk, Equalized, Connecting, Covered
  <1>6. CacheOfChain'
    <2>1. SUFFICES ASSUME ~faults PROVE cache' = LiveAt[bestNode]
      BY <1>2 DEF CacheOfChain
    <2>2. cache = LiveAt[Parent(bestNode)]
      BY <1>1, <2>1 DEF IInv, CacheOfChain
    <2>3. cache' = (cache \cup Diff(bestNode).In) \ Diff(bestNode).Out
      BY <2>1 DEF applyDiff
    <2> QED
      BY <2>2, <2>3 DEF Diff
  <1> QED
    BY <1>3, <1>4, <1>5, <1>6 DEF IInv

\* The diffs on disk once that of b is stored at height h.
Stored(db, h, b) == [i \in DOMAIN db \cup {h} |-> IF i = h THEN b ELSE db[i]]

\* A diff is stored at a height of the disk or just above it.
LEMMA StoredDiff ==
    ASSUME NEW db \in Seq(Block), NEW b \in Block, NEW h \in 1..(Len(db) + 1),
           NEW new, new = Stored(db, h, b)
    PROVE  /\ new \in Seq(Block)
           /\ Len(new) >= Len(db) /\ Len(new) >= h
           /\ new[h] = b
           /\ \A i \in 1..(h - 1) : new[i] = db[i]
  <1> DEFINE n == IF h <= Len(db) THEN Len(db) ELSE h
  <1>1. Len(db) \in Nat /\ DOMAIN db = 1..Len(db) /\ \A i \in 1..Len(db) : db[i] \in Block
    OBVIOUS
  <1>2. n \in Nat /\ n >= Len(db) /\ n >= h
    BY <1>1
  <1>3. DOMAIN db \cup {h} = 1..n
    BY <1>1
  <1>4. new = [i \in 1..n |-> IF i = h THEN b ELSE db[i]]
    BY <1>3 DEF Stored
  <1>5. \A i \in 1..n : i = h \/ i \in 1..Len(db)
    BY <1>1
  <1> HIDE DEF n
  <1>6. new \in [1..n -> Block]
    BY <1>1, <1>4, <1>5
  <1>7. new \in Seq(Block)
    BY <1>2, <1>6, SeqDef
  <1>8. Len(new) = n
    BY <1>2, <1>6, <1>7
  <1>9. new[h] = b /\ \A i \in 1..(h - 1) : new[i] = db[i]
    BY <1>1, <1>2, <1>4
  <1> QED
    BY <1>2, <1>7, <1>8, <1>9

\* The end of ConnectBlock: the diff is appended in memory and on disk.
LEMMA StepAppendDiff == ASSUME IInv, AppendDiff PROVE IInv'
  <1> DEFINE b == bestNode
             h == HeightOf(b)
  <1>1. /\ TypeOK /\ pc = "append" /\ phase = "running" /\ nodeDB = bestNode
        /\ Connecting /\ Equalized
    BY DEF IInv, Control, Consistent, AppendDiff, Connecting, Equalized
  <1>2. newChain \in Seq(Block) /\ newChain # <<>> /\ newChain[1] = b /\ b \in Block
        /\ diffs \in Seq(Block) /\ diffDB \in Seq(Block) /\ Len(diffDB) \in Nat
    BY <1>1 DEF IInv, Branch, TypeOK
  <1>3. Head(newChain) = b
    BY <1>2
  <1>4. b # Genesis /\ Len(diffs) = HeightOf(Parent(b)) /\ Len(diffs) <= Len(diffDB)
    BY <1>1 DEF IInv, Level, Covered
  <1>5. h = Len(diffs) + 1 /\ Len(diffs) \in Nat /\ Chain[b] = Append(Chain[Parent(b)], b)
        /\ h \in 1..(Len(diffDB) + 1) /\ h - 1 = HeightOf(Parent(b))
    BY <1>2, <1>4, ParentBelow, HeightType
  <1>6. /\ diffs' = Append(diffs, b)
        /\ diffDB' = Stored(diffDB, h, b)
        /\ newChain' = Tail(newChain)
        /\ pc' = IF newChain' = <<>> THEN "idle" ELSE "up"
        /\ UNCHANGED <<faults, phase, bestNode, nodeDB, cache, downTo, previous, panicked>>
    BY <1>3, <1>5 DEF AppendDiff, Stored
  <1> HIDE DEF b, h
  <1>7. /\ diffDB' \in Seq(Block) /\ Len(diffDB') >= h /\ diffDB'[h] = b
        /\ \A i \in 1..(h - 1) : diffDB'[i] = diffDB[i]
    <2>1. PICK new : new = Stored(diffDB, h, b)
      OBVIOUS
    <2>2. /\ new \in Seq(Block) /\ Len(new) >= h /\ new[h] = b
          /\ \A i \in 1..(h - 1) : new[i] = diffDB[i]
      BY <1>2, <1>5, <2>1, StoredDiff
    <2> QED
      BY <1>6, <2>1, <2>2
  <1>8. /\ newChain' \in Seq(Block) /\ Len(newChain') = Len(newChain) - 1
        /\ \A i \in 1..Len(newChain') : newChain'[i] = newChain[i + 1]
        /\ Len(newChain) \in Nat /\ Len(newChain) > 0
    BY <1>2, <1>6
  <1>9. diffs' \in Seq(Block) /\ Len(diffs') = h
    BY <1>2, <1>5, <1>6
  <1>10. TypeOK'
    BY <1>1, <1>6, <1>7, <1>8, <1>9 DEF TypeOK, Places
  <1>11. Control' /\ Consistent' /\ CacheOfChain'
    BY <1>1, <1>6 DEF IInv, Control, Consistent, CacheOfChain
  <1>12. Level'
    <2>1. Len(diffs') <= Len(diffDB')
      BY <1>5, <1>7, <1>9
    <2> QED
      BY <1>6, <1>9, <2>1 DEF Level, Connecting, Covered, b, h
  <1>13. Branch'
    <2>1. SUFFICES ASSUME newChain' # <<>> PROVE Branch'
      BY <1>6 DEF Branch
    <2>2. /\ \A i \in 1..Len(newChain) : newChain[i] # Genesis
          /\ \A i \in 2..Len(newChain) : Parent(newChain[i]) = newChain[i - 1]
      BY <1>1 DEF IInv, Branch
    <2>3. ASSUME NEW i \in 1..Len(newChain')
          PROVE  newChain'[i] # Genesis /\ Parent(newChain'[i]) = newChain[i]
      <3>1. i + 1 \in 1..Len(newChain) /\ i + 1 \in 2..Len(newChain) /\ i + 1 - 1 = i
        BY <1>8
      <3>2. Parent(newChain[i + 1]) = newChain[i + 1 - 1] /\ newChain[i + 1] # Genesis
        BY <2>2, <3>1
      <3> QED
        BY <1>8, <3>1, <3>2
    <2>4. ASSUME NEW i \in 2..Len(newChain')
          PROVE  Parent(newChain'[i]) = newChain'[i - 1]
      <3>1. i \in 1..Len(newChain') /\ i - 1 \in 1..Len(newChain') /\ i - 1 + 1 = i
        BY <1>8
      <3> QED
        BY <1>8, <2>3, <3>1
    <2>5. 1 \in 1..Len(newChain')
      BY <1>8, <2>1
    <2>6. Parent(newChain'[1]) = bestNode' /\ pc' = "up"
      BY <1>2, <1>6, <2>1, <2>3, <2>5 DEF b
    <2> QED
      BY <2>1, <2>3, <2>4, <2>6 DEF Branch, Connecting
  <1>14. DiffsOfChain'
    <2>1. SUFFICES ASSUME ~faults
                   PROVE  OnDisk(b)' /\ diffs' = Chain[b]
      BY <1>1, <1>6 DEF DiffsOfChain, Covered, Connecting, Equalized, b
    <2>2. OnDisk(Parent(b)) /\ diffs = Chain[Parent(b)]
      BY <1>1, <2>1 DEF IInv, DiffsOfChain, Covered, b
    <2>3. Chain[Parent(b)] \in Seq(Block) /\ Len(Chain[Parent(b)]) = h - 1
      BY <1>2, <1>5, <2>2
    <2>4. ASSUME NEW i \in 1..h PROVE diffDB'[i] = Chain[b][i]
      <3>1. CASE i = h
        BY <1>5, <1>7, <2>2, <2>3, <3>1
      <3>2. CASE i # h
        <4>1. i \in 1..(h - 1)
          BY <1>5, <3>2
        <4>2. Chain[b][i] = Chain[Parent(b)][i]
          BY <1>5, <2>3, <4>1
        <4> QED
          BY <1>5, <1>7, <2>2, <4>1, <4>2 DEF OnDisk
      <3> QED
        BY <3>1, <3>2
    <2>5. OnDisk(b)'
      BY <1>6, <1>7, <2>4 DEF OnDisk, h, b
    <2> QED
      BY <1>5, <1>6, <2>2, <2>5
  <1>15. Notified'
    <2>1. SUFFICES ASSUME ~faults
                   PROVE  previous = IF pc' = "idle" THEN b ELSE newChain'[Len(newChain')]
      BY <1>6 DEF Notified, b
    <2>2. previous = newChain[Len(newChain)]
      BY <1>1, <2>1 DEF IInv, Notified
    <2>3. CASE newChain' = <<>>
      <3>1. Len(newChain) = 1
        BY <1>8, <2>3
      <3> QED
        BY <1>2, <1>6, <2>2, <2>3, <3>1
    <2>4. CASE newChain' # <<>>
      <3>1. Len(newChain') \in 1..Len(newChain') /\ Len(newChain') + 1 = Len(newChain)
        BY <1>8, <2>4
      <3>2. newChain'[Len(newChain')] = newChain[Len(newChain)]
        BY <1>8, <3>1
      <3> QED
        BY <1>6, <2>2, <2>4, <3>2
    <2> QED
      BY <2>3, <2>4
  <1> QED
    BY <1>10, <1>11, <1>12, <1>13, <1>14, <1>15 DEF IInv

\* A crash is not between the two databases unless there are faults.
LEMMA StepCrash == ASSUME IInv, Crash PROVE IInv'
  BY Died DEF Crash, Connecting, IInv, TypeOK

-------------------------------------------------------------------------------
(* The invariant holds, and what follows from it.                           *)

\* A fresh data directory satisfies the invariant.
LEMMA InitIInv == Init => IInv
  <1> SUFFICES ASSUME Init PROVE IInv
    OBVIOUS
  <1>1. TypeOK
    BY TreeAssumption DEF Init, TypeOK, Phases, Places
  <1>2. Control /\ Consistent /\ Level /\ Branch /\ Notified /\ CacheOfChain
    BY DEF Init, Control, Consistent, Level, Branch, Notified, CacheOfChain,
       Equalized, Connecting
  <1>3. DiffsOfChain
    BY TreeAssumption, HeightZero DEF Init, DiffsOfChain, OnDisk, Covered, Connecting, Equalized
  <1> QED
    BY <1>1, <1>2, <1>3 DEF IInv

\* Every step of Next keeps the invariant.
LEMMA NextIInv == IInv /\ [Next]_vars => IInv'
  <1> SUFFICES ASSUME IInv, [Next]_vars PROVE IInv'
    OBVIOUS
  <1>1. CASE NewStakeDatabase
    BY <1>1, StepNewStakeDatabase
  <1>2. CASE Startup
    BY <1>2, StepRollBackStakeDB, StepTrimPool, StepAdvanceToTip, StepAdvanceFails, StepRewind,
       StepRewindDone DEF Startup
  <1>3. CASE \E b \in Block : ConnectBlock(b) \/ ReorgHandler(b)
    BY <1>3, StepConnectBlock, StepReorgHandler
  <1>4. CASE MonitorSteps
    BY <1>4, StepconnectBlock, StepapplyDiff, StepAppendDiff, StepSwitchDown, StepSwitchTurn,
       StepSwitchUp DEF MonitorSteps
  <1>5. CASE ConnectFails
    BY <1>5, StepConnectFails
  <1>6. CASE Crash
    BY <1>6, StepCrash
  <1>7. CASE SwitchDownFails
    BY <1>7, StepSwitchDownFails
  <1>8. CASE UNCHANGED vars
    <2>1. UNCHANGED <<faults, phase, bestNode, nodeDB, diffs, diffDB, cache, pc, downTo, newChain,
                      previous, panicked>>
      BY <1>8 DEF vars
    <2>2. TypeOK' /\ Control' /\ Consistent'
      BY <2>1 DEF IInv, TypeOK, Control, Consistent
    <2>3. Level' /\ Branch' /\ Notified' /\ CacheOfChain'
      BY <2>1 DEF IInv, Level, Branch, Notified, CacheOfChain, Equalized, Connecting, Covered
    <2>4. DiffsOfChain'
      BY <2>1 DEF IInv, DiffsOfChain, OnDisk, Equalized, Connecting, Covered
    <2> QED
      BY <2>2, <2>3, <2>4 DEF IInv
  <1> QED
    BY <1>1, <1>2, <1>3, <1>4, <1>5, <1>6, <1>7, <1>8 DEF Next

\* The inductive invariant holds in every reachable state of the stake database.
THEOREM DatabaseInvariant == Spec => []IInv
  <1> QED
    BY InitIInv, NextIInv, PTL DEF Spec

\* NewStakeDatabase, LoadAndRecover, ReorgHandler and ConnectBlock all end with the
\* ticket pool at the height of the stake node, for every tree of blocks, wherever a
\* crash fell and whichever block the node failed to return.
THEOREM HeightsAlwaysAgree == Spec => []HeightsAgree
  <1>1. IInv => HeightsAgree
    BY DEF IInv, Level, Equalized, Covered, Connecting, HeightsAgree, Idle
  <1> QED
    BY <1>1, DatabaseInvariant, PTL

\* Connecting, disconnecting and restarting keep the cached live tickets and the
\* diffs those of the stake node's chain, for every assignment of live tickets.
THEOREM TicketsAlwaysFollow == Spec => []TicketsFollowNode
  <1>1. ASSUME IInv PROVE DiffsFollowNode
    BY <1>1 DEF IInv, DiffsOfChain, Equalized, Covered, Connecting, DiffsFollowNode, Idle
  <1>2. ASSUME IInv PROVE CacheIsLive
    <2>1. Idle \/ pc \in {"down", "up", "append"} => phase = "running" /\ pc # "apply"
      BY <1>2 DEF IInv, Control, Idle
    <2> QED
      BY <1>2, <2>1 DEF IInv, CacheOfChain, CacheIsLive
  <1>3. IInv => TicketsFollowNode
    BY <1>1, <1>2 DEF TicketsFollowNode
  <1> QED
    BY <1>3, DatabaseInvariant, PTL

\* The panics of disconnectBlock, switchToSideChain and LoadAllPoolDiffs are never
\* reached, and the stake node in memory is the one on disk.
THEOREM NeverInconsistent == Spec => []NoInconsistency
  <1>1. ASSUME IInv PROVE NoInconsistency
    <2>1. diffDB \in Seq(Block)
      BY <1>1 DEF IInv, TypeOK
    <2>2. \A i \in DOMAIN diffDB : i = 1 \/ i - 1 \in DOMAIN diffDB
      BY <2>1
    <2> QED
      BY <1>1, <2>2 DEF IInv, Consistent, NoInconsistency
  <1> QED
    BY <1>1, DatabaseInvariant, PTL

===============================================================================
