----------------------------- MODULE BlockPrefetch -----------------------------
(***************************************************************************)
(* rpcutils.BlockPrefetchClient: the last two blocks a caller asked for or *)
(* is expected to ask for, a goroutine (fetcher) that loads the next one,   *)
(* and the channel retargetChan on which it gets its orders.                *)
(*                                                                         *)
(* GetBlockData answers its caller while a goroutine it has launched        *)
(* (retargetAndUnlock) still holds the mutex and sends the next order.      *)
(* Under contention sync.Mutex hands itself over in arrival order           *)
(* (starvation mode): lockQ is the queue of goroutines inside Lock().       *)
(*                                                                         *)
(* The node is external: a tree of blocks and a best block that may move to *)
(* any other; nextblockhash is the child on the best chain, if any.         *)
(***************************************************************************)
EXTENDS Integers, Sequences, FiniteSets

CONSTANTS
    Block,           \* block hashes
    PrevBlock,          \* the parent of each block; the root is its own parent
    None,            \* the zero hash and the empty nextblockhash
    Client,          \* goroutines that call GetBlockData
    ChanCap          \* capacity of retargetChan (10 in the code)

PrefetchConstants ==
    /\ PrevBlock \in [Block -> Block] /\ None \notin Block
    /\ "fetcher" \notin Client
    /\ ChanCap \in Nat \ {0}

VARIABLES
    nodeTip,    \* external: the node's best block
    current,    \* p.current: the block and the nextblockhash of its header result
    next,       \* p.next
    retargetChan,
    closed,     \* Stop has closed retargetChan
    lockQ,      \* goroutines waiting in p.Lock(), in order of arrival
    holder,     \* "none", or "retarget" while retargetAndUnlock keeps the mutex
    target,     \* the hash retarget was called with
    fetcher,    \* "idle" (receiving), "locking" or "done"
    order,      \* the hash the fetcher has received
    req,        \* the hash each client is waiting for, None when it is not
    reply,      \* the last answer each client got
    panicked    \* a send on the closed channel

vars == <<nodeTip, current, next, retargetChan, closed, lockQ, holder, target, fetcher,
          order, req, reply, panicked>>

BlockData == [hash : Block \cup {None}, nextHash : Block \cup {None}]
Empty == [hash |-> None, nextHash |-> None]

\* b and its ancestors: one more generation for each block is always enough.
ChainTo(b) ==
    LET Up[n \in 0..Cardinality(Block)] ==
            IF n = 0 THEN {b} ELSE Up[n - 1] \cup {PrevBlock[x] : x \in Up[n - 1]}
    IN  Up[Cardinality(Block)]

\* External: nextblockhash of the node's getblockheader.
NextHash(b) ==
    LET kids == {x \in ChainTo(nodeTip) : x # b /\ PrevBlock[x] = b}
    IN  IF kids = {} THEN None ELSE CHOOSE x \in kids : TRUE

retrieveBlockAndHeaderResult(b) == [hash |-> b, nextHash |-> NextHash(b)]

haveBlockHash(b) == next.hash = b \/ current.hash = b

NewBlockPrefetchClient ==
    /\ current = Empty /\ next = Empty
    /\ retargetChan = <<>> /\ closed = FALSE
    /\ fetcher = "idle" /\ order = None

Init ==
    /\ nodeTip \in Block
    /\ NewBlockPrefetchClient
    /\ lockQ = <<>> /\ holder = "none" /\ target = None
    /\ req = [c \in Client |-> None]
    /\ reply = [c \in Client |-> Empty]
    /\ panicked = FALSE

-------------------------------------------------------------------------------
(* External: the best chain grows or reorganises.                           *)
NodeMoves(b) ==
    /\ nodeTip' = b
    /\ UNCHANGED <<current, next, retargetChan, closed, lockQ, holder, target, fetcher,
                   order, req, reply, panicked>>

-------------------------------------------------------------------------------
(* GetBlockData (GetBlock and GetBlockHeaderVerbose are projections of it). *)

\* p.Lock(): the client joins the queue.  A stopped prefetcher is not used.
CallGetBlockData(c, b) ==
    /\ req[c] = None
    /\ ~closed
    /\ req' = [req EXCEPT ![c] = b]
    /\ lockQ' = Append(lockQ, c)
    /\ UNCHANGED <<nodeTip, current, next, retargetChan, closed, holder, target, fetcher,
                   order, reply, panicked>>

HasLock(g) == holder = "none" /\ lockQ # <<>> /\ Head(lockQ) = g

Answer(c, data) ==
    /\ reply' = [reply EXCEPT ![c] = data]
    /\ req' = [req EXCEPT ![c] = None]
    /\ lockQ' = Tail(lockQ)
    /\ UNCHANGED <<nodeTip, current, next, retargetChan, closed, fetcher, order, panicked>>

\* Already fetched and current: the answer, without retargeting.
HitCurrent(c) ==
    /\ HasLock(c)
    /\ current.hash = req[c]
    /\ Answer(c, current)
    /\ UNCHANGED <<holder, target>>

\* Already fetched and next: the answer, and the prefetcher moves on.
HitNext(c) ==
    /\ HasLock(c)
    /\ current.hash # req[c] /\ next.hash = req[c]
    /\ Answer(c, next)
    /\ holder' = "retarget" /\ target' = next.nextHash

\* Not fetched: retrieved under the mutex, then retargeted; a node error is returned.
Miss(c) ==
    LET data == retrieveBlockAndHeaderResult(req[c])
    IN  /\ HasLock(c)
        /\ ~haveBlockHash(req[c])
        /\ \/ /\ Answer(c, data)
              /\ holder' = "retarget" /\ target' = data.nextHash
           \/ /\ Answer(c, Empty)
              /\ UNCHANGED <<holder, target>>

GetBlockData(c) == HitCurrent(c) \/ HitNext(c) \/ Miss(c)

\* retarget, then Unlock: nothing to do, or the order is sent; while the channel
\* is full the goroutine stays blocked in the send with the mutex locked.
retarget ==
    /\ holder = "retarget"
    /\ \/ /\ target = None \/ haveBlockHash(target)
          /\ UNCHANGED <<retargetChan, panicked>>
       \/ /\ target # None /\ ~haveBlockHash(target)
          /\ ~closed /\ Len(retargetChan) < ChanCap
          /\ retargetChan' = Append(retargetChan, target)
          /\ UNCHANGED panicked
       \/ /\ target # None /\ ~haveBlockHash(target)
          /\ closed
          /\ panicked' = TRUE
          /\ UNCHANGED retargetChan
    /\ holder' = "none" /\ target' = None
    /\ UNCHANGED <<nodeTip, current, next, closed, lockQ, fetcher, order, req, reply>>

-------------------------------------------------------------------------------
(* The fetcher goroutine.                                                   *)

FetcherReceive ==
    /\ fetcher = "idle"
    /\ retargetChan # <<>>
    /\ order' = Head(retargetChan)
    /\ retargetChan' = Tail(retargetChan)
    /\ fetcher' = "locking"
    /\ lockQ' = Append(lockQ, "fetcher")
    /\ UNCHANGED <<nodeTip, current, next, closed, holder, target, req, reply, panicked>>

\* A bug in fetcher: the receive does not notice that the channel is closed.
FetcherExit_receivesZero ==
    /\ fetcher = "idle"
    /\ retargetChan = <<>> /\ closed
    /\ fetcher' = "locking"
    /\ lockQ' = Append(lockQ, "fetcher")
    /\ UNCHANGED <<nodeTip, current, next, retargetChan, closed, holder, target, order,
                   req, reply, panicked>>

\* The range loop ends when the channel is closed and drained.
FetcherExit ==
    /\ fetcher = "idle"
    /\ retargetChan = <<>> /\ closed
    /\ fetcher' = "done"
    /\ UNCHANGED <<nodeTip, current, next, retargetChan, closed, lockQ, holder, target,
                   order, req, reply, panicked>>

\* A bug in RetrieveAndStoreNext: the order is trusted to be still needed.
RetrieveAndStoreNext_unchecked ==
    /\ HasLock("fetcher")
    /\ current' = next /\ next' = retrieveBlockAndHeaderResult(order)
    /\ fetcher' = "idle" /\ order' = None
    /\ lockQ' = Tail(lockQ)
    /\ UNCHANGED <<nodeTip, retargetChan, closed, holder, target, req, reply, panicked>>

\* RetrieveAndStoreNext with storeNext: next becomes current, unless the block is
\* already there or the node returns an error.
RetrieveAndStoreNext ==
    /\ HasLock("fetcher")
    /\ \/ /\ ~haveBlockHash(order)
          /\ current' = next
          /\ next' = retrieveBlockAndHeaderResult(order)
       \/ UNCHANGED <<current, next>>
    /\ fetcher' = "idle" /\ order' = None
    /\ lockQ' = Tail(lockQ)
    /\ UNCHANGED <<nodeTip, retargetChan, closed, holder, target, req, reply, panicked>>

\* A bug in Stop: the channel is closed without taking the mutex.
Stop_unlocked ==
    /\ ~closed
    /\ \A c \in Client : req[c] = None
    /\ closed' = TRUE
    /\ UNCHANGED <<nodeTip, current, next, retargetChan, lockQ, holder, target, fetcher,
                   order, req, reply, panicked>>

\* Stop, called when no call is outstanding; it needs the mutex, so it waits for
\* the retarget of the last call.  (The sync is over: main.go defers it.)
Stop ==
    /\ ~closed
    /\ \A c \in Client : req[c] = None
    /\ holder = "none" /\ lockQ = <<>>
    /\ closed' = TRUE
    /\ UNCHANGED <<nodeTip, current, next, retargetChan, lockQ, holder, target, fetcher,
                   order, req, reply, panicked>>

\* The end: stopped, everything handed out, the goroutine gone.
Stopped == closed /\ fetcher = "done" /\ UNCHANGED vars

-------------------------------------------------------------------------------
Next ==
    \/ \E b \in Block : NodeMoves(b)
    \/ \E c \in Client, b \in Block : CallGetBlockData(c, b)
    \/ \E c \in Client : GetBlockData(c)
    \/ retarget
    \/ FetcherReceive \/ FetcherExit \/ RetrieveAndStoreNext
    \/ Stop \/ Stopped

Spec == Init /\ [][Next]_vars

\* A goroutine that can run does: the callers inside GetBlockData, the launched
\* retargetAndUnlock and the fetcher.
Fairness ==
    /\ \A c \in Client : WF_vars(GetBlockData(c))
    /\ WF_vars(retarget)
    /\ WF_vars(FetcherReceive) /\ WF_vars(FetcherExit) /\ WF_vars(RetrieveAndStoreNext)

-------------------------------------------------------------------------------
(* Properties.                                                              *)

\* Stop never makes a retarget that is still under way send on a closed channel.
NoSendOnClosed == ~panicked

\* The fetcher never takes a block that it holds a second time, which would push
\* the other one out, although retarget may order a block again while an earlier
\* order for it is still in the channel (RetrieveAndStoreNext looks once more).
SlotsDiffer == current.hash = None \/ current.hash # next.hash

\* After Stop the fetcher goroutine ends.
FetcherEnds == closed ~> fetcher = "done"

===============================================================================
