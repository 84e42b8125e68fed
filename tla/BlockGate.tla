------------------------------ MODULE BlockGate ------------------------------
(***************************************************************************)
(* rpcutils.BlockGate: a bounded block cache in front of the node, with    *)
(* channels for callers that wait for a height or a hash.  The methods     *)
(* hold g.mtx throughout, so each is one step; the goroutines launched by  *)
(* signalHeight and signalHash deliver later, in any order.                *)
(*                                                                         *)
(* A block is its hash; BlockHeight is the height in its header.  The node is *)
(* external: GetBlock(height) answers with any block of that height (the   *)
(* chain may reorganise between two calls) or with an error.               *)
(***************************************************************************)
EXTENDS Integers, Sequences, FiniteSets

CONSTANTS
    Block,       \* block hashes
    BlockHeight,    \* the height of each block
    Capacity,    \* capacity of the expiration queue
    Waiter       \* calls of WaitForHeight and WaitForHash, one channel each

GateConstants == BlockHeight \in [Block -> Nat] /\ Capacity \in Nat

VARIABLES
    height,         \* g.height, -1 before the first update
    fetchToHeight,  \* g.fetchToHeight
    hashAtHeight,   \* g.hashAtHeight: cached heights -> hash
    blockWithHash,  \* the hashes in g.blockWithHash
    queue,          \* g.expireQueue.q, the hash of each pair
    heightWaiters,  \* g.heightWaiters: height -> channels
    hashWaiters,    \* g.hashWaiters: hash -> channels
    sending,        \* <<channel, block>> a signal goroutine has yet to send
    chan,           \* the buffer (capacity 1) of each channel
    panicked        \* a signal found the channel full

vars == <<height, fetchToHeight, hashAtHeight, blockWithHash, queue, heightWaiters,
          hashWaiters, sending, chan, panicked>>
waitVars == <<heightWaiters, hashWaiters, sending, chan, panicked>>

Heights == {BlockHeight[b] : b \in Block}
InQueue(q) == {q[i] : i \in 1..Len(q)}

NewBlockGate ==
    /\ height = -1
    /\ fetchToHeight = -1
    /\ hashAtHeight = [h \in {} |-> 0]
    /\ blockWithHash = {}
    /\ queue = <<>>
    /\ heightWaiters = [h \in Heights |-> {}]
    /\ hashWaiters = [b \in Block |-> {}]

Init ==
    /\ NewBlockGate
    /\ sending = {}
    /\ chan = [w \in Waiter |-> <<>>]
    /\ panicked = FALSE

-------------------------------------------------------------------------------
(* The cache: the new pair is pushed, and above capacity the oldest is      *)
(* popped and dropped from the maps unless its hash (its height) is still   *)
(* in the queue.                                                            *)

hashInQueue(q, b) == b \in InQueue(q)
heightInQueue(q, h) == \E i \in 1..Len(q) : BlockHeight[q[i]] = h

\* A bug in rotateIn: the hash is dropped although it was cached again since.
rotateIn_dropsHash(b) ==
    LET pushed == Append(queue, b)
        at     == [h \in DOMAIN hashAtHeight \cup {BlockHeight[b]} |->
                     IF h = BlockHeight[b] THEN b ELSE hashAtHeight[h]]
        old    == Head(pushed)
        q      == Tail(pushed)
    IN  IF Len(pushed) > Capacity
        THEN /\ queue' = q
             /\ blockWithHash' = (blockWithHash \cup {b}) \ {old}
             /\ hashAtHeight' = [h \in {x \in DOMAIN at : x = BlockHeight[old] => heightInQueue(q, x)}
                                   |-> at[h]]
        ELSE queue' = pushed /\ blockWithHash' = blockWithHash \cup {b} /\ hashAtHeight' = at

rotateIn(b) ==
    LET pushed == Append(queue, b)
        at     == [h \in DOMAIN hashAtHeight \cup {BlockHeight[b]} |->
                     IF h = BlockHeight[b] THEN b ELSE hashAtHeight[h]]
        old    == Head(pushed)
        q      == Tail(pushed)
    IN  IF Len(pushed) > Capacity
        THEN /\ queue' = q
             /\ blockWithHash' = {x \in blockWithHash \cup {b} : x = old => hashInQueue(q, x)}
             /\ hashAtHeight' = [h \in {x \in DOMAIN at : x = BlockHeight[old] => heightInQueue(q, x)}
                                   |-> at[h]]
        ELSE queue' = pushed /\ blockWithHash' = blockWithHash \cup {b} /\ hashAtHeight' = at

\* signalHeight and signalHash: the channels leave the lists and a goroutine is
\* launched to send to each of them.
signal(b, hw, xw) ==
    /\ heightWaiters' = [hw EXCEPT ![BlockHeight[b]] = {}]
    /\ hashWaiters' = [xw EXCEPT ![b] = {}]
    /\ sending' = sending \cup {<<w, b>> : w \in hw[BlockHeight[b]] \cup xw[b]}

\* updateToBlock: b is the block the node returned for its height.
updateToBlock(b, hw, xw) ==
    /\ height' = BlockHeight[b]
    /\ rotateIn(b)
    /\ signal(b, hw, xw)

UpdateToBlock(b) ==
    /\ updateToBlock(b, heightWaiters, hashWaiters)
    /\ UNCHANGED <<fetchToHeight, chan, panicked>>

\* UpdateToNextBlock: the height is read in a critical section of its own, but
\* only this goroutine advances it (the sync loop), so the block is the next one.
UpdateToNextBlock(b) == BlockHeight[b] = height + 1 /\ UpdateToBlock(b)

SetFetchToHeight(h) ==
    /\ fetchToHeight' = h
    /\ UNCHANGED <<height, hashAtHeight, blockWithHash, queue, waitVars>>

-------------------------------------------------------------------------------
(* The waiters.  A waiter is a call: its channel is fresh.                  *)

Fresh(w) ==
    /\ \A h \in Heights : w \notin heightWaiters[h]
    /\ \A b \in Block : w \notin hashWaiters[b] /\ <<w, b>> \notin sending
    /\ chan[w] = <<>>

\* A bug in WaitForHeight: the cache is consulted before the channel is queued.
WaitForHeight_cachedOnly(w, h) ==
    LET hw == [heightWaiters EXCEPT ![h] = @ \cup {w}]
    IN  /\ Fresh(w)
        /\ heightWaiters' = hw
        /\ UNCHANGED <<height, fetchToHeight, hashAtHeight, blockWithHash, queue,
                       hashWaiters, sending, chan, panicked>>

WaitForHeight(w, h) ==
    LET hw == [heightWaiters EXCEPT ![h] = @ \cup {w}]
    IN  /\ Fresh(w)
        /\ \/ /\ h \in DOMAIN hashAtHeight
              /\ heightWaiters' = [hw EXCEPT ![h] = {}]
              /\ sending' = sending \cup {<<x, hashAtHeight[h]>> : x \in hw[h]}
              /\ UNCHANGED <<height, hashAtHeight, blockWithHash, queue, hashWaiters>>
           \/ /\ h \notin DOMAIN hashAtHeight
              /\ h <= fetchToHeight
              /\ \E b \in Block : BlockHeight[b] = h /\ updateToBlock(b, hw, hashWaiters)
           \* The node's error: the caller gets nil, its channel stays queued.
           \/ /\ h \notin DOMAIN hashAtHeight
              /\ heightWaiters' = hw
              /\ UNCHANGED <<height, hashAtHeight, blockWithHash, queue, hashWaiters, sending>>
        /\ UNCHANGED <<fetchToHeight, chan, panicked>>

\* A bug in WaitForHash: a block that is already cached is not looked for.
WaitForHash_noLookup(w, b) ==
    /\ Fresh(w)
    /\ hashWaiters' = [hashWaiters EXCEPT ![b] = @ \cup {w}]
    /\ UNCHANGED <<height, fetchToHeight, hashAtHeight, blockWithHash, queue,
                   heightWaiters, sending, chan, panicked>>

WaitForHash(w, b) ==
    LET xw == [hashWaiters EXCEPT ![b] = @ \cup {w}]
    IN  /\ Fresh(w)
        /\ IF b \in blockWithHash
           THEN /\ hashWaiters' = [xw EXCEPT ![b] = {}]
                /\ sending' = sending \cup {<<x, b>> : x \in xw[b]}
           ELSE hashWaiters' = xw /\ UNCHANGED sending
        /\ UNCHANGED <<height, fetchToHeight, hashAtHeight, blockWithHash, queue,
                       heightWaiters, chan, panicked>>

\* A bug in WaitForHash: an unbuffered channel, so that a signal that finds no
\* receiver is lost.
Deliver_unbuffered(w, b) ==
    /\ <<w, b>> \in sending
    /\ sending' = sending \ {<<w, b>>}
    /\ UNCHANGED <<height, fetchToHeight, hashAtHeight, blockWithHash, queue,
                   heightWaiters, hashWaiters, chan, panicked>>

\* A send of a signal goroutine: a full channel is a panic.
Deliver(w, b) ==
    /\ <<w, b>> \in sending
    /\ sending' = sending \ {<<w, b>>}
    /\ IF chan[w] = <<>>
       THEN chan' = [chan EXCEPT ![w] = <<b>>] /\ UNCHANGED panicked
       ELSE panicked' = TRUE /\ UNCHANGED chan
    /\ UNCHANGED <<height, fetchToHeight, hashAtHeight, blockWithHash, queue,
                   heightWaiters, hashWaiters>>

-------------------------------------------------------------------------------
Next ==
    \/ \E b \in Block : UpdateToBlock(b) \/ UpdateToNextBlock(b)
    \/ \E h \in Heights : SetFetchToHeight(h)
    \/ \E w \in Waiter, h \in Heights : WaitForHeight(w, h)
    \/ \E w \in Waiter, b \in Block : WaitForHash(w, b)
    \/ \E w \in Waiter, b \in Block : Deliver(w, b)

Spec == Init /\ [][Next]_vars

\* A launched goroutine runs.
Fairness == \A w \in Waiter, b \in Block : WF_vars(Deliver(w, b))

-------------------------------------------------------------------------------
(* Properties.                                                              *)

\* A cached height always leads to a cached block of that height, through any
\* sequence of updates, re-updates of a reorganised height and evictions: the
\* lookups of BestBlock (hashAtHeight, then blockWithHash) cannot come apart.
HeightLeadsToBlock ==
    \A h \in DOMAIN hashAtHeight :
        hashAtHeight[h] \in blockWithHash /\ BlockHeight[hashAtHeight[h]] = h

\* No lost wake-up: a channel queued for a hash (for a height) is not left there
\* while the block (the height) is in the cache.
NoWaiterStranded ==
    /\ \A b \in blockWithHash : hashWaiters[b] = {}
    /\ \A h \in DOMAIN hashAtHeight : heightWaiters[h] = {}

\* A channel gets one signal, whatever is announced while it waits: no goroutine of
\* signalHeight or signalHash finds it full, which is a panic in the code.
SignalFindsRoom == ~panicked

\* A signal that was launched reaches its channel.
SignalDelivered ==
    \A w \in Waiter, b \in Block : <<w, b>> \in sending ~> chan[w] = <<b>>

===============================================================================
