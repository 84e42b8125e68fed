------------------------------ MODULE MCNotifier ------------------------------
(* The handler groups of main.go (the stake database; the block data        *)
(* collector that stores to PostgreSQL; the mempool monitor), reduced to    *)
(* one handler where a group's handlers are alike, over two branches; and,   *)
(* on one block of each branch, handlers that hang or fail.                 *)
EXTENDS Notifier

CONSTANTS g, a1, a2, b1, b2, stakedb, dcrpg, blockdata, mempool

MCBlock == {g, a1, a2, b1, b2}
MCChain == [b \in MCBlock |->
    CASE b = g  -> <<>>
      [] b = a1 -> <<a1>>
      [] b = a2 -> <<a1, a2>>
      [] b = b1 -> <<b1>>
      [] b = b2 -> <<b1, b2>>]
\* For the behaviours with hanging handlers: one block on each branch.
MCFewBlocks == {g, a1, b1}
MCFewChain == [b \in MCFewBlocks |-> IF b = g THEN <<>> ELSE <<b>>]
MCBlockGroups == <<{stakedb}, {dcrpg}, {mempool}>>
MCReorgGroups == <<{stakedb}, {blockdata, dcrpg}>>
MCTxGroups == <<{mempool}>>
MCFollower == {stakedb, dcrpg}
MCNoFollower == {}
MCTwoGroups == <<{stakedb}, {dcrpg}>>

VARIABLE faults   \* whether the behaviour is one of Faulty

Faulty == INSTANCE Notifier WITH
    Block <- MCFewBlocks, Chain <- MCFewChain, BlockGroups <- MCTwoGroups,
    ReorgGroups <- MCTwoGroups, Follower <- MCNoFollower, QueueCap <- 1, MaxWire <- 2,
    DeadlineMayPass <- TRUE, HandlerMayFail <- TRUE, RpcMayFail <- TRUE, LateListen <- TRUE

MCInit == (faults = FALSE /\ Init) \/ (faults = TRUE /\ Faulty!Init)
SoundStep == ~faults /\ Next /\ UNCHANGED faults
FaultyStep == faults /\ Faulty!Next /\ UNCHANGED faults

Either(sound, faulty) == (~faults /\ sound) \/ (faults /\ faulty)

Held == Either(ReaderHeld, Faulty!ReaderHeld)

\* FairSpec of the instance the behaviour belongs to.
MCSpec ==
    /\ MCInit /\ [][SoundStep \/ FaultyStep]_<<faults, vars>>
    /\ WF_vars(Either(Listen, Faulty!Listen))
    /\ WF_vars(Either(OnNotification, Faulty!OnNotification))
    /\ WF_vars(Either(superQueue, Faulty!superQueue))
    /\ WF_vars(Either(GroupDone, Faulty!GroupDone))
    /\ WF_vars(~Held /\ Either(CommonAncestor, Faulty!CommonAncestor))
    /\ WF_vars(Either(~ReaderHeld /\ AnyHandlerReturns, Faulty!Deadline))

-------------------------------------------------------------------------------
(* Properties.                                                              *)

\* As long as every handler keeps to the deadline, processBlock, signalReorg and
\* processTx never run handlers of two messages, or of two groups, side by side.
GroupsAreInOrder == ~faults => GroupsInOrder

\* Between two messages of superQueue every follower has exactly the blocks up to
\* the previous one.
FollowersAreLevel == ~faults => FollowersAgree

\* When the node's best block stays the same, superQueue gets there unless the full
\* queue deadlocks: no sequence of notifications leaves it refusing every block that
\* follows.
CatchesUpWithNode ==
    \A b \in Block : <>[](~faults /\ nodeTip = b) => <>[](previous = b) \/ <>[]Held

\* superQueue always comes back for the next message, except when a callback waits
\* for good for room in anyQ; and as processBlock and signalReorg give up handlers
\* that pass the deadline, only a signalReorg waiting for CommonAncestor's answers,
\* where no deadline runs, is then held for good.
SuperQueueReturns == []<>(cur = NoMsg) \/ <>[](Held /\ (faults => grp = 0))

\* The queue moves: it catches up with the node, and no handler that hangs or fails
\* stops it, short of the deadlock of a full queue that NewNotifier warns of.
QueueMoves == CatchesUpWithNode /\ SuperQueueReturns

===============================================================================
