------------------------------- MODULE Notifier -------------------------------
(***************************************************************************)
(* notification.Notifier: the node's block, reorganisation and transaction *)
(* notifications are queued in anyQ in the order they arrive and processed  *)
(* one at a time by superQueue, which runs groups of handlers: the groups   *)
(* one after the other, the handlers of a group concurrently, each group    *)
(* within SyncHandlerDeadline.                                              *)
(*                                                                         *)
(* The callbacks run on the goroutine that reads the client's connection:   *)
(* while one waits for room in anyQ nobody who made a request of the node   *)
(* gets an answer (ReaderHeld), neither a handler nor superQueue itself.     *)
(*                                                                         *)
(* The handlers registered by main.go that follow the chain (the stake      *)
(* database, PostgreSQL) are represented by the blocks they have applied.   *)
(* The node is external: when its best chain switches branch it announces   *)
(* the blocks of the new branch and then the reorganisation.                *)
(***************************************************************************)
EXTENDS BlockTree

CONSTANTS
    BlockGroups, ReorgGroups, TxGroups,   \* sequences of sets of handlers
    Follower,          \* the handlers that keep a copy of the chain
    QueueCap,          \* capacity of anyQ (1024 in the code)
    MaxWire,           \* bound: notifications on their way to the client
    DeadlineMayPass,   \* a handler may outlast SyncHandlerDeadline
    HandlerMayFail,    \* a handler may return an error
    RpcMayFail,        \* CommonAncestor may fail
    LateListen         \* the node may move between ensureSync and Listen

ASSUME QueueAssumption == QueueCap \in Nat \ {0}

Handler == UNION {UNION {gs[i] : i \in DOMAIN gs} : gs \in {BlockGroups, ReorgGroups, TxGroups}}

\* main.go registers handlers of all three kinds, and each follower in exactly one
\* group of the block handlers and in one of the reorganisation handlers.
ASSUME GroupAssumption ==
    /\ \A gs \in {BlockGroups, ReorgGroups, TxGroups} :
          gs # <<>> /\ gs \in Seq(SUBSET Handler)
    /\ \A gs \in {BlockGroups, ReorgGroups}, h \in Follower :
          \E i \in DOMAIN gs : \A j \in DOMAIN gs : h \in gs[j] <=> j = i

VARIABLES
    nodeTip,     \* external: the node's best block
    listening,   \* Listen has registered for notifications
    wire,        \* external: notifications not yet passed to a callback
    anyQ,        \* the queue of messages
    cur,         \* the message superQueue is processing, or NoMsg
    grp,         \* index of the handler group that is running
    running,     \* <<handler, message>> of the handler goroutines
    previous,    \* the last block processed
    applied      \* the blocks each follower has applied

vars == <<nodeTip, listening, wire, anyQ, cur, grp, running, previous, applied>>

NoMsg == [type |-> "none"]
BlockMsg(b) == [type |-> "block", b |-> b]
BranchTips(old, new) == [type |-> "reorg", old |-> old, new |-> new]
TxMsg == [type |-> "tx"]

Groups(m) == CASE m.type = "block" -> BlockGroups
               [] m.type = "reorg" -> ReorgGroups
               [] m.type = "tx"    -> TxGroups

Run(m, g) == {<<h, m>> : h \in Groups(m)[g]}

\* The reader of the client's connection waits in a callback for room in anyQ.
ReaderHeld == wire # <<>> /\ Len(anyQ) = QueueCap

\* The end of main.go's start: the followers are synced to the best block, which
\* is passed to SetPreviousBlock.
Init ==
    /\ nodeTip \in Block
    /\ previous = nodeTip
    /\ applied = [h \in Follower |-> Chain[nodeTip]]
    /\ listening = ~LateListen
    /\ wire = <<>> /\ anyQ = <<>>
    /\ cur = NoMsg /\ grp = 0 /\ running = {}

-------------------------------------------------------------------------------
(* The node (external) and its client's callbacks.                          *)

Announce(msgs) ==
    IF listening
    THEN /\ Len(wire) + Len(msgs) <= MaxWire
         /\ wire' = wire \o msgs
    ELSE UNCHANGED wire

NodeExtends(b) ==
    /\ b # Genesis /\ Parent(b) = nodeTip
    /\ nodeTip' = b
    /\ Announce(<<BlockMsg(b)>>)
    /\ UNCHANGED <<listening, anyQ, cur, grp, running, previous, applied>>

NodeReorganizes(b) ==
    LET branch == SubSeq(Chain[b], ForkHeight(b, nodeTip) + 1, HeightOf(b))
    IN  /\ ~IsAncestor(b, nodeTip) /\ ~IsAncestor(nodeTip, b)
        /\ nodeTip' = b
        /\ Announce([i \in 1..Len(branch) |-> BlockMsg(branch[i])]
                      \o <<BranchTips(nodeTip, b)>>)
        /\ UNCHANGED <<listening, anyQ, cur, grp, running, previous, applied>>

NodeAcceptsTx ==
    /\ listening
    /\ Announce(<<TxMsg>>)
    /\ UNCHANGED <<nodeTip, listening, anyQ, cur, grp, running, previous, applied>>

Listen ==
    /\ ~listening
    /\ listening' = TRUE
    /\ UNCHANGED <<nodeTip, wire, anyQ, cur, grp, running, previous, applied>>

\* A bug in the callbacks: a message that finds the queue full is lost.
OnNotification_drops ==
    /\ wire # <<>>
    /\ wire' = Tail(wire)
    /\ anyQ' = IF Len(anyQ) < QueueCap THEN Append(anyQ, Head(wire)) ELSE anyQ
    /\ UNCHANGED <<nodeTip, listening, cur, grp, running, previous, applied>>

\* onBlockConnected, onReorganization, onTxAcceptedVerbose: the one goroutine that
\* runs the callbacks blocks while the queue is full.
OnNotification ==
    /\ wire # <<>>
    /\ Len(anyQ) < QueueCap
    /\ anyQ' = Append(anyQ, Head(wire))
    /\ wire' = Tail(wire)
    /\ UNCHANGED <<nodeTip, listening, cur, grp, running, previous, applied>>

-------------------------------------------------------------------------------
(* superQueue.                                                              *)

\* The start of processBlock and processTx: the first group runs.
Begin(m) ==
    /\ anyQ' = Tail(anyQ)
    /\ cur' = m
    /\ grp' = 1
    /\ running' = running \cup Run(m, 1)
    /\ UNCHANGED <<nodeTip, listening, wire, previous, applied>>

Drop ==
    /\ anyQ' = Tail(anyQ)
    /\ UNCHANGED <<nodeTip, listening, wire, cur, grp, running, previous, applied>>

\* A block that does not build on the previous one is left to the reorganisation.
processBlock(m) == m.type = "block" /\ IF Parent(m.b) = previous THEN Begin(m) ELSE Drop

\* signalReorg first asks the node for the headers down to the common ancestor.
signalReorg(m) ==
    /\ m.type = "reorg"
    /\ anyQ' = Tail(anyQ)
    /\ cur' = m
    /\ UNCHANGED <<nodeTip, listening, wire, grp, running, previous, applied>>

\* The answer: the first group runs.  A reorganisation whose common ancestor cannot
\* be determined is abandoned.  No deadline ends the wait for the answer.
CommonAncestor ==
    /\ cur # NoMsg /\ grp = 0
    /\ \/ /\ grp' = 1
          /\ running' = running \cup Run(cur, 1)
          /\ UNCHANGED cur
       \/ /\ RpcMayFail
          /\ cur' = NoMsg
          /\ UNCHANGED <<grp, running>>
    /\ UNCHANGED <<nodeTip, listening, wire, anyQ, previous, applied>>

processTx(m) == m.type = "tx" /\ Begin(m)

superQueue ==
    /\ cur = NoMsg
    /\ anyQ # <<>>
    /\ \/ processBlock(Head(anyQ))
       \/ signalReorg(Head(anyQ))
       \/ processTx(Head(anyQ))

\* A bug in processBlock: the block is not recorded as the previous one.
SetPreviousBlock_reorgOnly ==
    previous' = IF cur.type = "reorg" THEN cur.new ELSE previous

SetPreviousBlock ==
    previous' = CASE cur.type = "block" -> cur.b
                  [] cur.type = "reorg" -> cur.new
                  [] OTHER              -> previous

\* A bug in the wait for a group: the next group does not wait for all handlers.
GroupDone_anyDone ==
    /\ cur # NoMsg /\ grp > 0
    /\ \E h \in Groups(cur)[grp] : <<h, cur>> \notin running
    /\ IF grp < Len(Groups(cur))
       THEN /\ grp' = grp + 1
            /\ running' = running \cup Run(cur, grp + 1)
            /\ UNCHANGED <<cur, previous>>
       ELSE /\ cur' = NoMsg /\ grp' = 0
            /\ SetPreviousBlock
            /\ UNCHANGED running
    /\ UNCHANGED <<nodeTip, listening, wire, anyQ, applied>>

\* A bug in the loop over the groups: only the last group is waited for.
GroupDone_noWait ==
    /\ cur # NoMsg /\ grp > 0
    /\ IF grp < Len(Groups(cur))
       THEN /\ grp' = grp + 1
            /\ running' = running \cup Run(cur, grp + 1)
            /\ UNCHANGED <<cur, previous>>
       ELSE /\ \A h \in Groups(cur)[grp] : <<h, cur>> \notin running
            /\ cur' = NoMsg /\ grp' = 0
            /\ SetPreviousBlock
            /\ UNCHANGED running
    /\ UNCHANGED <<nodeTip, listening, wire, anyQ, applied>>

\* Every handler of the group has returned: the next group starts, or the message
\* is done and its block becomes the previous one.
GroupDone ==
    /\ cur # NoMsg /\ grp > 0
    /\ \A h \in Groups(cur)[grp] : <<h, cur>> \notin running
    /\ IF grp < Len(Groups(cur))
       THEN /\ grp' = grp + 1
            /\ running' = running \cup Run(cur, grp + 1)
            /\ UNCHANGED <<cur, previous>>
       ELSE /\ cur' = NoMsg /\ grp' = 0
            /\ SetPreviousBlock
            /\ UNCHANGED running
    /\ UNCHANGED <<nodeTip, listening, wire, anyQ, applied>>

\* A bug in the wait for a group: the timer only guards the first group.
Deadline_firstGroup ==
    /\ DeadlineMayPass
    /\ cur # NoMsg
    /\ grp = 1
    /\ \E h \in Groups(cur)[grp] : <<h, cur>> \in running
    /\ cur' = NoMsg /\ grp' = 0
    /\ UNCHANGED <<nodeTip, listening, wire, anyQ, running, previous, applied>>

\* The timer fires first: the message is given up, its handlers run on.
Deadline ==
    /\ DeadlineMayPass
    /\ cur # NoMsg /\ grp > 0
    /\ \E h \in Groups(cur)[grp] : <<h, cur>> \in running
    /\ cur' = NoMsg /\ grp' = 0
    /\ UNCHANGED <<nodeTip, listening, wire, anyQ, running, previous, applied>>

\* What a follower does with a message: the next block, or back to the common
\* ancestor and up the new branch.
Follow(s, m) ==
    CASE m.type = "block" -> IF s = Chain[Parent(m.b)] THEN Append(s, m.b) ELSE s
      [] m.type = "reorg" -> SubSeq(s, 1, ForkHeight(m.old, m.new))
                               \o SubSeq(Chain[m.new], ForkHeight(m.old, m.new) + 1, HeightOf(m.new))
      [] OTHER            -> s

\* A handler returns; its error is logged by the goroutine and goes no further.
\* It may return whatever the reader does, if it has the answers it asked for.
HandlerReturns(h, m) ==
    /\ <<h, m>> \in running
    /\ running' = running \ {<<h, m>>}
    /\ \/ h \in Follower /\ applied' = [applied EXCEPT ![h] = Follow(@, m)]
       \/ (h \notin Follower \/ HandlerMayFail) /\ UNCHANGED applied
    /\ UNCHANGED <<nodeTip, listening, wire, anyQ, cur, grp, previous>>

AnyHandlerReturns == \E r \in running : HandlerReturns(r[1], r[2])

-------------------------------------------------------------------------------
Next ==
    \/ \E b \in Block : NodeExtends(b) \/ NodeReorganizes(b)
    \/ NodeAcceptsTx
    \/ Listen
    \/ OnNotification
    \/ superQueue \/ CommonAncestor \/ GroupDone \/ Deadline
    \/ AnyHandlerReturns

Spec == Init /\ [][Next]_vars

\* The goroutines of the client and of superQueue run; the node answers, and every
\* handler returns unless it may outlast the deadline, as long as the reader passes
\* on the answers.  The timer of a group fires in any case.
FairSpec ==
    /\ Spec
    /\ WF_vars(Listen) /\ WF_vars(OnNotification)
    /\ WF_vars(superQueue) /\ WF_vars(GroupDone) /\ WF_vars(Deadline)
    /\ WF_vars(~ReaderHeld /\ CommonAncestor)
    /\ WF_vars(~DeadlineMayPass /\ ~ReaderHeld /\ AnyHandlerReturns)

-------------------------------------------------------------------------------
(* Properties.                                                              *)

\* As long as every handler keeps to the deadline, handlers of one message never
\* run beside those of another, and while a handler of a group runs every handler
\* of the groups before it is done.  "Groups are run sequentially in the order they
\* are registered."
GroupsInOrder == \A r \in running : r[2] = cur /\ r[1] \in Groups(cur)[grp]

\* Between two messages every follower has exactly the blocks up to the previous
\* one, after any interleaving of extensions, reorganisations and transactions.
FollowersAgree == cur = NoMsg => \A h \in Follower : applied[h] = Chain[previous]

\* When the node's best block stays the same, the notifier gets there unless the
\* queue deadlocks: no sequence of notifications leaves it refusing every block that
\* follows.  "anyQ can cause deadlocks if it gets full": a callback that waits for
\* room keeps the answers from the handlers that have to return to make room.
CatchesUp == \A b \in Block : <>[](nodeTip = b) => <>[](previous = b) \/ <>[]ReaderHeld

===============================================================================
