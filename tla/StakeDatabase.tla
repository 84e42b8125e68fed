----------------------------- MODULE StakeDatabase -----------------------------
(***************************************************************************)
(* stakedb.StakeDatabase: the stake node database (ffldb), the ticket pool  *)
(* diffs (badger) and the live ticket cache, kept in step while blocks are  *)
(* connected and disconnected by the chain monitor, across crashes.         *)
(*                                                                         *)
(* The two databases are written by separate transactions.  A step here is  *)
(* the code between two of those writes, so a crash can fall between any    *)
(* two.  A diff is identified by the block it was computed for; its tickets *)
(* come from LiveAt.  TicketPool shows that replaying the right diffs gives *)
(* the right pool, so its cursor and map are left out.                      *)
(***************************************************************************)
EXTENDS BlockTree

CONSTANTS
    Ticket,
    LiveAt,         \* the live tickets after each block (external: the stake library)
    RewindDepth     \* blocks main.go gives up before LoadAndRecover (288)

ASSUME LiveAssumption == LiveAt \in [Block -> SUBSET Ticket] /\ LiveAt[Genesis] = {}
ASSUME DepthAssumption == RewindDepth \in Nat

VARIABLES
    faults,     \* in this behaviour the node may fail to return a block or a ticket,
                \* and a crash may fall between the stake DB write and the diff write
    phase,      \* "down", the steps of the start, or "running"
    bestNode,   \* db.BestNode, as the block it was made for
    nodeDB,     \* disk: the best block of the stake database
    diffs,      \* PoolDB.diffs, the block of each diff; the tip is its length
    diffDB,     \* disk: height -> block whose diff is stored
    cache,      \* liveTicketCache (poolValue is the sum of its values)
    pc,         \* where the monitor is in connecting or disconnecting
    downTo,     \* height of the common ancestor of the reorganisation
    newChain,   \* blocks still to be connected
    previous,   \* Notifier.previous: the last block whose handlers were called
    panicked    \* a consistency panic, or a nil dereference after an error, was hit

vars == <<faults, phase, bestNode, nodeDB, diffs, diffDB, cache, pc, downTo, newChain,
          previous, panicked>>
disk == <<nodeDB, diffDB>>
job == <<pc, downTo, newChain>>

Diff(b) == [In |-> LiveAt[b] \ LiveAt[Parent(b)], Out |-> LiveAt[Parent(b)] \ LiveAt[b]]

\* The ticket pool after each diff, and the first height at which advance reports
\* a wrong size.
Replay(ds) ==
    LET R[i \in 0..Len(ds)] ==
            IF i = 0 THEN {} ELSE (R[i - 1] \cup Diff(ds[i]).In) \ Diff(ds[i]).Out
    IN  R
BadHeights(ds) ==
    {i \in 1..Len(ds) : Cardinality(Replay(ds)[i]) #
        Cardinality(Replay(ds)[i - 1]) + Cardinality(Diff(ds[i]).In) - Cardinality(Diff(ds[i]).Out)}
StopHeight(ds) == CHOOSE i \in BadHeights(ds) : \A j \in BadHeights(ds) : i <= j

Idle == pc = "idle" /\ phase = "running"

\* A fresh data directory; the first start follows.
Init ==
    /\ faults \in BOOLEAN
    /\ phase = "down"
    /\ nodeDB = Genesis /\ diffDB = <<>>
    /\ bestNode = Genesis /\ diffs = <<>> /\ cache = {}
    /\ pc = "idle" /\ downTo = 0 /\ newChain = <<>>
    /\ previous = Genesis /\ panicked = FALSE

-------------------------------------------------------------------------------
(* Disconnecting: the ticket pool is trimmed and the cache undone, then the *)
(* stake node goes back one block, in memory and on disk.                   *)

Trimmed(ds, h) == SubSeq(ds, 1, IF Len(ds) > h THEN h ELSE Len(ds))

\* undoDiff for each trimmed diff, the newest first.
Undone(c, ds, h) ==
    LET U[i \in h..Len(ds)] ==
            IF i = Len(ds) THEN c
            ELSE (U[i + 1] \cup Diff(ds[i + 1]).Out) \ Diff(ds[i + 1]).In
    IN  IF Len(ds) > h THEN U[h] ELSE c

\* A bug in disconnectBlock: the stake database still has the block.
disconnectBlock_memoryOnly(neglectCache) ==
    LET h == HeightOf(Parent(nodeDB))
    IN  /\ bestNode # Genesis
        /\ IF h = HeightOf(bestNode) - 1
           THEN /\ diffs' = Trimmed(diffs, h)
                /\ cache' = IF neglectCache THEN cache ELSE Undone(cache, diffs, h)
                /\ bestNode' = Parent(bestNode)
                /\ UNCHANGED <<panicked, nodeDB>>
           ELSE panicked' = TRUE /\ UNCHANGED <<bestNode, nodeDB, diffs, cache>>

\* disconnectBlock: the parent is looked up from the block on disk, and the code
\* panics when that is not one below the stake node's height.
disconnectBlock(neglectCache) ==
    LET h == HeightOf(Parent(nodeDB))
    IN  /\ bestNode # Genesis
        /\ IF h = HeightOf(bestNode) - 1
           THEN /\ diffs' = Trimmed(diffs, h)
                /\ cache' = IF neglectCache THEN cache ELSE Undone(cache, diffs, h)
                /\ bestNode' = Parent(bestNode)
                /\ nodeDB' = Parent(nodeDB)
                /\ UNCHANGED panicked
           ELSE panicked' = TRUE /\ UNCHANGED <<bestNode, nodeDB, diffs, cache>>

-------------------------------------------------------------------------------
(* ConnectBlock, in three steps: the stake node (memory and disk), the live *)
(* ticket cache, the diff (memory and disk).                                *)

\* A height not above the best node's is refused.  The other conjunct is external:
\* above the stake validation height the stake library's ConnectNode refuses a block
\* whose votes are not of the best node's winners, which is any block but a child.
Connects(b) == HeightOf(b) > HeightOf(bestNode) /\ Parent(b) = bestNode

connectBlock ==
    LET b == Head(newChain)
    IN  /\ pc = "connect"
        /\ Connects(b)
        /\ bestNode' = b
        /\ nodeDB' = b
        /\ pc' = "apply"
        /\ UNCHANGED <<faults, phase, diffs, diffDB, cache, downTo, newChain, previous, panicked>>

\* A bug in applyDiff: tickets that leave the pool stay in the cache.
applyDiff_keepsOut ==
    /\ pc = "apply"
    /\ cache' = cache \cup Diff(bestNode).In
    /\ pc' = "append"
    /\ UNCHANGED <<faults, phase, bestNode, nodeDB, diffs, diffDB, downTo, newChain, previous, panicked>>

\* applyDiff: a ticket whose transaction the node does not return is skipped.
applyDiff ==
    LET d == Diff(bestNode)
    IN  /\ pc = "apply"
        /\ \E got \in IF faults THEN SUBSET d.In ELSE {d.In} :
              cache' = (cache \cup got) \ d.Out
        /\ pc' = "append"
        /\ UNCHANGED <<faults, phase, bestNode, nodeDB, diffs, diffDB, downTo, newChain, previous, panicked>>

\* The end of ConnectBlock: the pool info is cached and PoolDB.Append checks the
\* height against its tip, grows and stores the diff.
AppendDiff ==
    LET b == Head(newChain)
        h == HeightOf(b)
    IN  /\ pc = "append"
        /\ IF h = Len(diffs) + 1
           THEN /\ diffs' = Append(diffs, b)
                /\ diffDB' = [i \in DOMAIN diffDB \cup {h} |-> IF i = h THEN b ELSE diffDB[i]]
           ELSE UNCHANGED <<diffs, diffDB>>
        /\ newChain' = IF h = Len(diffs) + 1 THEN Tail(newChain) ELSE <<>>
        /\ pc' = IF newChain' = <<>> THEN "idle" ELSE "up"
        /\ UNCHANGED <<faults, phase, bestNode, nodeDB, cache, downTo, previous, panicked>>

-------------------------------------------------------------------------------
(* The chain monitor.                                                       *)

\* The process is gone, and its memory; what the transactions committed stays.
Die ==
    /\ phase' = "down"
    /\ bestNode' = Genesis /\ diffs' = <<>> /\ cache' = {}
    /\ pc' = "idle" /\ downTo' = 0 /\ newChain' = <<>> /\ previous' = Genesis
    /\ UNCHANGED <<faults, disk>>

\* ChainMonitor.ConnectBlock: the notifier passes on only blocks whose parent is
\* the last block it processed, and goes on to the next even when a handler failed.
ConnectBlock(b) ==
    /\ Idle
    /\ b # Genesis /\ Parent(b) = previous
    /\ previous' = b
    /\ newChain' = <<b>>
    /\ downTo' = HeightOf(bestNode)
    /\ pc' = "connect"
    /\ UNCHANGED <<faults, phase, bestNode, disk, diffs, cache, panicked>>

\* ReorgHandler: b is the new head, old the head the node left.  The notifier was at
\* old, unless it had to drop a reorganisation because of a failing call.
ReorgHandler(b) ==
    /\ Idle
    /\ \E old \in IF faults THEN Block ELSE {previous} :
          /\ ~IsAncestor(b, old) /\ ~IsAncestor(old, b)
          /\ downTo' = ForkHeight(b, old)
    /\ newChain' = SubSeq(Chain[b], downTo' + 1, HeightOf(b))
    /\ previous' = b
    /\ pc' = "down"
    /\ UNCHANGED <<faults, phase, bestNode, disk, diffs, cache, panicked>>

\* switchToSideChain, going down: DisconnectBlocks(mainTip - commonAncestorHeight).
SwitchDown ==
    /\ pc = "down"
    /\ HeightOf(bestNode) > downTo
    /\ disconnectBlock(FALSE)
    /\ UNCHANGED <<faults, phase, diffDB, job, previous>>

\* A bug in switchToSideChain: one block too few is disconnected.
SwitchTurn_early ==
    /\ pc = "down"
    /\ HeightOf(bestNode) <= downTo + 1
    /\ pc' = "up"
    /\ UNCHANGED <<faults, phase, bestNode, disk, diffs, cache, downTo, newChain, previous, panicked>>

\* The loop has ended; a height other than the ancestor's is a panic.
SwitchTurn ==
    /\ pc = "down"
    /\ HeightOf(bestNode) <= downTo
    /\ IF HeightOf(bestNode) = downTo
       THEN /\ pc' = "up"
            /\ UNCHANGED <<faults, phase, bestNode, disk, diffs, cache, downTo, newChain,
                           previous, panicked>>
       ELSE Die /\ panicked' = TRUE

\* The node does not return the parent: switchToSideChain returns the error with a nil
\* hash, which ReorgHandler dereferences.
SwitchDownFails ==
    /\ faults
    /\ pc = "down"
    /\ HeightOf(bestNode) > downTo
    /\ Die /\ panicked' = TRUE

\* switchToSideChain, going up: the next block of the new chain.
SwitchUp ==
    /\ pc = "up"
    /\ pc' = "connect"
    /\ UNCHANGED <<faults, phase, bestNode, disk, diffs, cache, downTo, newChain, previous,
                   panicked>>

\* The node does not return the block, or it does not connect: the error ends the loop
\* and is logged; the blocks connected so far stay.
ConnectFails ==
    /\ pc = "connect"
    /\ faults \/ ~Connects(Head(newChain))
    /\ newChain' = <<>>
    /\ pc' = "idle"
    /\ UNCHANGED <<faults, phase, bestNode, disk, diffs, cache, downTo, previous, panicked>>

-------------------------------------------------------------------------------
(* Crash and start.                                                         *)

\* A crash at any point of the code.
Crash ==
    /\ phase # "down"
    /\ faults \/ pc \notin {"apply", "append"}
    /\ Die /\ UNCHANGED panicked

\* NewTicketPool (LoadAllPoolDiffs reads every diff on disk) and Open: the stake
\* database is loaded, or initialized again at genesis when the node does not know
\* its best block.
NewStakeDatabase ==
    /\ phase = "down"
    /\ diffs' = diffDB
    /\ \/ bestNode' = nodeDB
       \/ faults /\ bestNode' = Genesis
    /\ nodeDB' = bestNode'
    /\ phase' = "equalize"
    /\ UNCHANGED <<faults, diffDB, cache, job, previous, panicked>>

\* The stake database is rolled back to the height of the ticket pool.
RollBackStakeDB ==
    /\ phase = "equalize"
    /\ HeightOf(bestNode) > Len(diffs)
    /\ disconnectBlock(TRUE)
    /\ UNCHANGED <<faults, phase, diffDB, job, previous>>

\* A bug in NewStakeDatabase: the ticket pool is left ahead of the stake database.
TrimPool_none ==
    /\ phase = "equalize"
    /\ HeightOf(bestNode) <= Len(diffs)
    /\ phase' = "advance"
    /\ UNCHANGED <<faults, bestNode, disk, diffs, cache, job, previous, panicked>>

\* The ticket pool is trimmed back to the height of the stake database (in memory).
TrimPool ==
    /\ phase = "equalize"
    /\ HeightOf(bestNode) <= Len(diffs)
    /\ diffs' = Trimmed(diffs, HeightOf(bestNode))
    /\ phase' = "advance"
    /\ UNCHANGED <<faults, bestNode, disk, cache, job, previous, panicked>>

\* AdvanceToTip succeeds and PopulateLiveTicketCache reads the stake node; main.go
\* tells the notifier which block the databases are at.
AdvanceToTip ==
    /\ phase \in {"advance", "advanceAgain"}
    /\ BadHeights(diffs) = {}
    /\ cache' = LiveAt[bestNode]
    /\ phase' = "running"
    /\ previous' = bestNode
    /\ UNCHANGED <<faults, bestNode, disk, diffs, job, panicked>>

\* AdvanceToTip fails: main.go closes and calls LoadAndRecover, which loads again
\* and rewinds both databases to RewindDepth below the failure (RewindDepth is in
\* the step of LoadAndRecover that fails a second time: one below the failure).
AdvanceFails ==
    /\ phase \in {"advance", "advanceAgain"}
    /\ BadHeights(diffs) # {}
    /\ LET back == IF phase = "advance" THEN RewindDepth ELSE 1
           stop == StopHeight(diffs) - back
       IN  downTo' = IF stop < 0 THEN 0 ELSE stop
    /\ phase' = IF phase = "advance" THEN "rewind" ELSE "rewindAgain"
    /\ UNCHANGED <<faults, bestNode, disk, diffs, cache, pc, newChain, previous, panicked>>

Rewind ==
    /\ phase \in {"rewind", "rewindAgain"}
    /\ HeightOf(bestNode) > downTo
    /\ disconnectBlock(TRUE)
    /\ UNCHANGED <<faults, phase, diffDB, job, previous>>

\* LoadAndRecover advances again after its rewind; after Rewind(stopHeight-1) it
\* only populates the cache.
RewindDone ==
    /\ phase \in {"rewind", "rewindAgain"}
    /\ HeightOf(bestNode) <= downTo
    /\ phase' = IF phase = "rewind" THEN "advanceAgain" ELSE "running"
    /\ cache' = IF phase = "rewind" THEN cache ELSE LiveAt[bestNode]
    /\ previous' = IF phase = "rewind" THEN previous ELSE bestNode
    /\ UNCHANGED <<faults, bestNode, disk, diffs, job, panicked>>

-------------------------------------------------------------------------------
Startup ==
    \/ RollBackStakeDB \/ TrimPool
    \/ AdvanceToTip \/ AdvanceFails
    \/ Rewind \/ RewindDone

MonitorSteps == connectBlock \/ applyDiff \/ AppendDiff \/ SwitchDown \/ SwitchTurn \/ SwitchUp

Next ==
    \/ NewStakeDatabase \/ Startup
    \/ \E b \in Block : ConnectBlock(b) \/ ReorgHandler(b)
    \/ MonitorSteps \/ ConnectFails \/ SwitchDownFails
    \/ Crash

Spec == Init /\ [][Next]_vars

\* The start runs to its end, and a handler that has begun goes on.
FairSpec == Spec /\ WF_vars(Startup) /\ WF_vars(MonitorSteps)

-------------------------------------------------------------------------------
(* Properties.                                                              *)

\* Whenever the monitor is between two handlers the two databases are at the same
\* height, however often the process died and whatever it was doing.  "The smaller
\* height of the StakeDatabase and TicketPool is also returned (they should be the
\* same height)."
HeightsAgree == Idle => Len(diffs) = HeightOf(bestNode)

\* The live ticket cache, from which the pool value of a block is computed, is the
\* live ticket set of the stake node whenever it is read.
CacheIsLive ==
    ~faults /\ (Idle \/ pc \in {"down", "up", "append"}) => cache = LiveAt[bestNode]

\* The ticket pool holds the diffs of the blocks of the stake node's chain, not
\* those of a branch that was disconnected.  "Trim the ticket pool db to the same
\* height as stake.Node."
DiffsFollowNode == ~faults /\ Idle => diffs = Chain[bestNode]

\* Both of the above: what the pool values and the winning tickets are computed
\* from belongs to the stake node's chain.
TicketsFollowNode == CacheIsLive /\ DiffsFollowNode

\* The stake node in memory is the one a restart will find, and the panics
\* "BestNode and stake DB are inconsistent", "disconnect blocks failed" and the
\* panic of LoadAllPoolDiffs on a missing height are never reached.
NoInconsistency ==
    ~faults =>
        /\ phase # "down" => nodeDB = bestNode
        /\ ~panicked
        /\ \A i \in DOMAIN diffDB : i = 1 \/ i - 1 \in DOMAIN diffDB

\* A reorganisation ends at the new head unless the process dies on the way.
ReorgReachesHead ==
    \A b \in Block :
        ~faults /\ pc = "down" /\ newChain[Len(newChain)] = b
            ~> (Idle /\ bestNode = b) \/ phase = "down"

\* A start ends: the databases are brought to one height and the pool is replayed.
StartupEnds == phase \notin {"down", "running"} ~> phase \in {"down", "running"}

\* Neither ReorgHandler nor LoadAndRecover goes on for ever.
HandlersEnd == ReorgReachesHead /\ StartupEnds

===============================================================================
