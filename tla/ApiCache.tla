------------------------------- MODULE ApiCache -------------------------------
(***************************************************************************)
(* apitypes.APICache, the cache of block summaries, as operations on a      *)
(* record: every exported method holds the mutex from its first read to its *)
(* last write.                                                              *)
(*                                                                         *)
(* The map and the expiry queue hold different copies of a block, since     *)
(* StoreBlockSummary makes one and Push another.  What an access counts is  *)
(* counted on the map's copy, which nothing compares, and the map's copy    *)
(* keeps heapIdx -1; so neither is part of the record.  The hit and miss    *)
(* counters are left out.                                                   *)
(***************************************************************************)
EXTENDS Integers, Sequences, SequencesExt

CONSTANTS
    Capacity,       \* blocks the cache holds (10000)
    Bin             \* MakeLessByAccessTimeThenCount: times this close are equal

Without(f, k) == [x \in DOMAIN f \ {k} |-> f[x]]
With(f, k, v) == [x \in DOMAIN f \cup {k} |-> IF x = k THEN v ELSE f[x]]

NewAPICache ==
  [isEnabled |-> FALSE, blockCache |-> <<>>, MainchainBlocks |-> <<>>,
   bh |-> <<>>, needsReheap |-> FALSE, maxHeight |-> -1, minHeight |-> 1000,
   lessFn |-> "timeThenCount"]

-----------------------------------------------------------------------------
(* The expiry queue, a binary heap of copies [hash, height, accesses, time]. *)

LessByHeight(i, j) == i.height < j.height
LessByAccessCount(i, j) == i.accesses < j.accesses
LessByAccessTime(i, j) == i.time < j.time
LessByAccessCountThenHeight(i, j) ==
  IF i.accesses = j.accesses THEN LessByHeight(i, j) ELSE LessByAccessCount(i, j)
LessByAccessTimeThenCount(i, j) ==
  IF i.time - j.time < Bin /\ j.time - i.time < Bin
  THEN LessByAccessCount(i, j) ELSE LessByAccessTime(i, j)

Less(c, i, j) ==
  CASE c.lessFn = "height" -> LessByHeight(i, j)
    [] c.lessFn = "count" -> LessByAccessCount(i, j)
    [] c.lessFn = "time" -> LessByAccessTime(i, j)
    [] c.lessFn = "countThenHeight" -> LessByAccessCountThenHeight(i, j)
    [] c.lessFn = "timeThenCount" -> LessByAccessTimeThenCount(i, j)

Swap(h, i, j) == [h EXCEPT ![i] = h[j], ![j] = h[i]]

\* One level of container/heap's up and down, and all of them.
UpOnce(c, i) ==
  LET p == i \div 2
  IN  IF i > 1 /\ Less(c, c.bh[i], c.bh[p])
      THEN <<[c EXCEPT !.bh = Swap(@, i, p)], p>> ELSE <<c, i>>
DownOnce(c, i) ==
  LET kids == {k \in {2 * i, 2 * i + 1} : k <= Len(c.bh)}
      small == IF 2 * i + 1 \in kids /\ Less(c, c.bh[2 * i + 1], c.bh[2 * i])
               THEN 2 * i + 1 ELSE 2 * i
  IN  IF kids # {} /\ Less(c, c.bh[small], c.bh[i])
      THEN <<[c EXCEPT !.bh = Swap(@, i, small)], small>> ELSE <<c, i>>
Up(c, i) == FoldLeft(LAMBDA at, k : UpOnce(at[1], at[2]), <<c, i>>, c.bh)[1]
Down(c, i) == FoldLeft(LAMBDA at, k : DownOnce(at[1], at[2]), <<c, i>>, c.bh)[1]

Reheap(c) ==
  LET half == Len(c.bh) \div 2
  IN  FoldLeft(LAMBDA d, k : Down(d, half + 1 - k), [c EXCEPT !.needsReheap = FALSE],
               [k \in 1..half |-> k])

\* The heights only widen: RescanMinMax starts from the values it has.
updateMinMax(c, h) ==
  [c EXCEPT !.maxHeight = IF h > @ THEN h ELSE @, !.minHeight = IF h < @ THEN h ELSE @]
RescanMinMax(c) == FoldLeft(LAMBDA d, b : updateMinMax(d, b.height), c, c.bh)
RescanMinMaxForUpdate(c, added, removed) ==
  LET rescan == \/ removed = c.minHeight /\ added >= removed
                \/ removed = c.maxHeight /\ added <= removed
  IN  updateMinMax(IF rescan THEN RescanMinMax(c) ELSE c, added)

newCachedBlock(b, now) == [hash |-> b.hash, height |-> b.height, accesses |-> 1, time |-> now]

Push(c, b, now) ==
  LET d == [c EXCEPT !.bh = Append(@, newCachedBlock(b, now))]
  IN  Up(updateMinMax(d, b.height), Len(d.bh))

\* The root takes the new block's place, with one access.
UpdateBlock(c, b, now) ==
  RescanMinMaxForUpdate(Down([c EXCEPT !.bh[1] = newCachedBlock(b, now)], 1),
                        b.height, c.bh[1].height)

\* What Insert returns: the queue, whether the block was added, what it removed.
Insert(c, b, now) ==
  IF Capacity = 0 THEN [c |-> c, added |-> FALSE, removed |-> <<>>]
  ELSE IF Len(c.bh) < Capacity
       THEN [c |-> Push(c, b, now), added |-> TRUE, removed |-> <<>>]
  ELSE IF Less(c, c.bh[1], newCachedBlock(b, now))
       THEN [c |-> UpdateBlock(c, b, now), added |-> TRUE, removed |-> <<c.bh[1]>>]
  ELSE [c |-> c, added |-> FALSE, removed |-> <<>>]

-----------------------------------------------------------------------------
(* The cache.                                                              *)

\* A bug in InsertBlock: what the queue removes stays in the index by height.
Forget_keepsIndex(c, b) == [c EXCEPT !.blockCache = Without(@, b.hash)]
Forget(c, b) == [c EXCEPT !.blockCache = Without(@, b.hash),
                          !.MainchainBlocks = Without(@, b.height)]

InsertBlock(c, b, entry, now) ==
  LET r == Insert(c, b, now)
      d == IF r.removed = <<>> THEN r.c ELSE Forget(r.c, r.removed[1])
  IN  IF ~r.added THEN d
      ELSE [d EXCEPT !.blockCache = With(@, b.hash, entry),
                     !.MainchainBlocks = With(@, b.height, b.hash)]

StoreBlockSummary(c, b, now) ==
  IF ~c.isEnabled THEN c
  ELSE IF b.hash \notin DOMAIN c.blockCache
       THEN InsertBlock(c, b, [summary |-> "plain", stakeInfo |-> FALSE], now)
  ELSE IF c.blockCache[b.hash].summary # "none" THEN c
  ELSE [c EXCEPT !.blockCache[b.hash].summary = "plain"]

StoreStakeInfo(c, b, now) ==
  IF ~c.isEnabled THEN c
  ELSE IF b.hash \notin DOMAIN c.blockCache
       THEN InsertBlock(c, b, [summary |-> "none", stakeInfo |-> TRUE], now)
  ELSE [c EXCEPT !.blockCache[b.hash].stakeInfo = TRUE]

\* removeCachedBlock: heapIdx is -1, so the queue keeps its copy, and the test
\* of the hash is inverted, so the map keeps its own; the index loses the height.
removeCachedBlock(c, h) == [c EXCEPT !.MainchainBlocks = Without(@, h)]
RemoveCachedBlockByHeight(c, h) ==
  IF h \in DOMAIN c.MainchainBlocks THEN removeCachedBlock(c, h) ELSE c

\* The hash of a cached block by height or by hash; none is <<>>.
GetBlockHash(c, h) ==
  IF c.isEnabled /\ h \in DOMAIN c.MainchainBlocks THEN <<c.MainchainBlocks[h]>> ELSE <<>>
getCachedBlockByHash(c, hash) == IF hash \in DOMAIN c.blockCache THEN <<hash>> ELSE <<>>
GetCachedBlockByHeight(c, h) ==
  IF h \in DOMAIN c.MainchainBlocks
  THEN getCachedBlockByHash(c, c.MainchainBlocks[h]) ELSE <<>>
HasSummary(c, found) ==
  c.isEnabled /\ found # <<>> /\ c.blockCache[found[1]].summary # "none"
Accessed(c, found) == IF found = <<>> THEN c ELSE [c EXCEPT !.needsReheap = TRUE]

=============================================================================
