----------------------------- MODULE PoolInfoCache -----------------------------
(***************************************************************************)
(* stakedb.PoolInfoCache: the ticket pool info of recent blocks, evicted    *)
(* in the order of the calls of Set.  Set is called for every block         *)
(* connected to the stake database and, at start-up, for every block read   *)
(* from PostgreSQL (ChargePoolInfoCache), so a block that is connected      *)
(* again (a reorganisation back, a rewound stake database) is set again.    *)
(*                                                                         *)
(* The methods hold c.mtx throughout: each is one step.  The info itself is *)
(* never inspected, so poolInfo is the set of the keys of the map.          *)
(***************************************************************************)
EXTENDS Integers, Sequences, FiniteSets

CONSTANTS
    Block,         \* block hashes
    MaxSize        \* bound: the largest capacity asked for

CacheConstants == MaxSize \in Nat /\ MaxSize >= 2

VARIABLES
    poolInfo,      \* keys of c.poolInfo
    expireQueue,   \* c.expireQueue
    maxSize        \* c.maxSize

vars == <<poolInfo, expireQueue, maxSize>>

InQueue(q) == {q[i] : i \in 1..Len(q)}

\* NewPoolInfoCache refuses a size below 2.
Init ==
    /\ maxSize \in 2..MaxSize
    /\ poolInfo = {}
    /\ expireQueue = <<>>

\* A bug in Set: the oldest entry stays in the map when it leaves the queue.
Set_leaks(h) ==
    /\ poolInfo' = poolInfo \cup {h}
    /\ expireQueue' = IF Len(expireQueue) + 1 >= maxSize
                      THEN Append(Tail(expireQueue), h) ELSE Append(expireQueue, h)

\* A bug in Set: the queue is compared with the capacity one element too late.
Set_late(h) ==
    IF Len(expireQueue) >= maxSize + 1
    THEN /\ poolInfo' = (poolInfo \cup {h}) \ {Head(expireQueue)}
         /\ expireQueue' = Append(Tail(expireQueue), h)
    ELSE /\ poolInfo' = poolInfo \cup {h}
         /\ expireQueue' = Append(expireQueue, h)

\* The entry is stored first; then the oldest key of the queue is evicted, if
\* the queue is full, and the new key joins the queue.
Set(h) ==
    IF Len(expireQueue) + 1 >= maxSize
    THEN /\ poolInfo' = (poolInfo \cup {h}) \ {Head(expireQueue)}
         /\ expireQueue' = Append(Tail(expireQueue), h)
    ELSE /\ poolInfo' = poolInfo \cup {h}
         /\ expireQueue' = Append(expireQueue, h)

SetPoolInfo(h) ==
    /\ Set(h)
    /\ UNCHANGED maxSize

\* The oldest keys go until the queue is shorter than the new capacity; a size
\* below 2 is refused.
SetCapacity(size) ==
    LET keep == IF Len(expireQueue) >= size THEN size - 1 ELSE Len(expireQueue)
        drop == Len(expireQueue) - keep
    IN  /\ size >= 2
        /\ maxSize' = size
        /\ expireQueue' = SubSeq(expireQueue, drop + 1, Len(expireQueue))
        /\ poolInfo' = poolInfo \ InQueue(SubSeq(expireQueue, 1, drop))

Next ==
    \/ \E h \in Block : SetPoolInfo(h)
    \/ \E size \in 0..MaxSize : SetCapacity(size)

Spec == Init /\ [][Next]_vars

-------------------------------------------------------------------------------
(* Properties.                                                              *)

\* The cache never outgrows its capacity, through any mix of insertions and
\* changes of capacity, and so Set never pops an empty queue.
CapacityRespected == Len(expireQueue) < maxSize

\* No entry is stuck in the map: every key is still due for eviction.
EveryKeyExpires == poolInfo \subseteq InQueue(expireQueue)

===============================================================================
