---------------------------- MODULE BlockSummaries ----------------------------
(***************************************************************************)
(* The summaries of blocks that the API and the pages ask ChainDB for: the  *)
(* blocks and stats tables while blocks are stored, side chains imported    *)
(* and the chain reorganised, the queries over them, and the APICache in    *)
(* front of BlockSummary, BlockSummaryByHash and BlockSize.                 *)
(*                                                                         *)
(* A request reads the cache, then the database, then fills the cache, and  *)
(* the tables change in between.  Nothing in the repository enables the     *)
(* cache; Enable is one of its exported operations, like StoreStakeInfo,    *)
(* RemoveCachedBlockByHeight and SetLessFn.                                 *)
(***************************************************************************)
EXTENDS BlockTree, ApiCache

CONSTANTS
    NoBlock,        \* the empty hash of a query without a row
    LessFns,        \* the orders the expiry queue may be given
    MaxStores,      \* blocks stored in a behaviour
    MaxAsks,        \* requests and cache operations in a behaviour
    MaxClock        \* milliseconds that pass

VARIABLES
    rows,       \* blocks table: hash -> is_mainchain
    stats,      \* stats table, unique on height: height -> block
    best,       \* memory: ChainDB.bestBlock
    meta,       \* meta table: best block
    pc,         \* the chain writer: "idle", a step of StoreBlock, "side"
    todo,       \* blocks it has still to store
    stores,
    apic, clock,
    req,        \* the request under way
    asks

chain == <<rows, stats, best, meta, pc, todo, stores>>
vars == <<chain, apic, clock, req, asks>>

Item(b) == [hash |-> b, height |-> HeightOf(b)]
NoReq == [at |-> "none", kind |-> "none", h |-> 0, hash |-> NoBlock,
          using |-> FALSE, found |-> NoBlock]

SummariesConstants == NoBlock \notin Block /\ Capacity \in Nat /\ Bin > 0

Init ==
  /\ rows = [b \in {Genesis} |-> TRUE] /\ stats = [h \in {0} |-> Genesis]
  /\ best = Genesis /\ meta = Genesis
  /\ pc = "idle" /\ todo = <<>> /\ stores = 0
  /\ apic = NewAPICache /\ clock = 0
  /\ req = NoReq /\ asks = 0

-----------------------------------------------------------------------------
(* The chain writer: StoreBlock and TipToSideChain.                         *)

Connect(b) ==
  /\ pc = "idle" /\ stores < MaxStores
  /\ b # Genesis /\ Parent(b) = best /\ todo' = <<b>> /\ pc' = "row"
  /\ UNCHANGED <<rows, stats, best, meta, stores, apic, clock, req, asks>>

\* A reorganisation to tip b, never to a lower height.
Reorg(b) ==
  /\ pc = "idle" /\ stores < MaxStores
  /\ HeightOf(b) >= HeightOf(best) /\ ~IsAncestor(best, b)
  /\ todo' = SubSeq(Chain[b], ForkHeight(best, b) + 1, HeightOf(b))
  /\ pc' = "side"
  /\ UNCHANGED <<rows, stats, best, meta, stores, apic, clock, req, asks>>

TipToSideChain ==
  /\ pc = "side"
  /\ IF Parent(todo[1]) = best
     THEN pc' = "row" /\ UNCHANGED <<rows, best>>
     ELSE /\ rows' = [rows EXCEPT ![best] = FALSE]
          /\ best' = Parent(best) /\ UNCHANGED pc
  /\ UNCHANGED <<stats, meta, todo, stores, apic, clock, req, asks>>

PutRow(b, main) == rows' = With(rows, b, main)

\* StoreBlock: the blocks row, the best block in memory, the stats row, and
\* last the meta table.
StoreRow ==
  /\ pc = "row" /\ PutRow(todo[1], TRUE)
  /\ pc' = "best" /\ stores' = stores + 1
  /\ UNCHANGED <<stats, best, meta, todo, apic, clock, req, asks>>
\* A bug in StoreBlock: the meta table goes with the best block in memory.
StoreBest_metaFirst ==
  /\ pc = "best" /\ best' = todo[1] /\ meta' = todo[1] /\ pc' = "stats"
  /\ UNCHANGED <<rows, stats, todo, stores, apic, clock, req, asks>>
StoreBest ==
  /\ pc = "best" /\ best' = todo[1] /\ pc' = "stats"
  /\ UNCHANGED <<rows, stats, meta, todo, stores, apic, clock, req, asks>>

\* A bug in the statement: a height that has a row keeps it.
UpsertStats_doNothing(b) ==
  IF HeightOf(b) \in DOMAIN stats THEN stats ELSE With(stats, HeightOf(b), b)
UpsertStats(b) == With(stats, HeightOf(b), b)

InsertBlockStats ==
  /\ pc = "stats" /\ stats' = UpsertStats(todo[1]) /\ pc' = "meta"
  /\ UNCHANGED <<rows, best, meta, todo, stores, apic, clock, req, asks>>

NextStep == todo' = Tail(todo) /\ pc' = IF Len(todo) = 1 THEN "idle" ELSE "row"
SetDBBestBlock ==
  /\ pc = "meta" /\ meta' = todo[1] /\ NextStep
  /\ UNCHANGED <<rows, stats, best, stores, apic, clock, req, asks>>

ImportSideChain(b) ==                         \* StoreBlock without isMainchain
  /\ pc = "idle" /\ stores < MaxStores /\ b \notin DOMAIN rows
  /\ Parent(b) \in DOMAIN rows /\ Parent(b) # best
  /\ PutRow(b, FALSE) /\ stores' = stores + 1
  /\ UNCHANGED <<stats, best, meta, pc, todo, apic, clock, req, asks>>

-----------------------------------------------------------------------------
(* The queries.  A join with stats has the rows whose stats row names them.  *)

Joined == {b \in DOMAIN rows : \E h \in DOMAIN stats : stats[h] = b}
One(S) == IF S = {} THEN NoBlock ELSE CHOOSE b \in S : TRUE
Below(S, b) == {a \in S : HeightOf(a) < HeightOf(b)}
Ascending(S) ==                               \* ORDER BY height
  [k \in 1..Cardinality(S) |-> CHOOSE b \in S : Cardinality(Below(S, b)) = k - 1]
Between(S, lo, hi) == {b \in S : HeightOf(b) \in lo..hi}
MainRows == {b \in DOMAIN rows : rows[b]}

RetrieveBlockSummary(h) == One({b \in Joined : HeightOf(b) = h})
RetrieveBlockSummaryByHash(hash) == One({b \in Joined : b = hash})
RetrieveBlockSummaryRange(i, j) ==
  IF i <= j THEN Ascending(Between(Joined, i, j)) ELSE Reverse(Ascending(Between(Joined, j, i)))
\* SelectBlockDataRangeWithSkip and its Desc: a condition on the height's remainder.
RetrieveBlockSummaryRangeStepped(i, j, step) ==
  LET every(lo, hi) == {b \in Between(Joined, lo, hi) : HeightOf(b) % step = i % step}
  IN  IF i <= j THEN Ascending(every(i, j)) ELSE Reverse(Ascending(every(j, i)))
RetrieveLatestBlockSummary ==
  One({b \in Joined \cap MainRows : \A x \in Joined \cap MainRows : HeightOf(x) <= HeightOf(b)})
RetrieveBlockSize(h) == One({b \in MainRows : HeightOf(b) = h})
RetrieveBlockSizeRange(i, j) == Between(MainRows, i, j)
RetrieveSDiff(h) == One({b \in MainRows : HeightOf(b) = h})
RetrievePoolInfo(h) ==
  One({b \in MainRows : h \in DOMAIN stats /\ stats[h] = b})
RetrievePoolInfoByHash(hash) == One({b \in Joined : b = hash})
RetrievePoolInfoRange(i, j) ==
  {b \in MainRows : \E h \in DOMAIN stats : h \in i..j /\ stats[h] = b}
\* BlockSizeRange, GetPoolInfoRange, SDiffRange: refused outside the chain.
InChain(i, j) == ~(j > HeightOf(best) \/ i < 0)
ChargePoolInfoCache(start) ==
  IF start > HeightOf(best) THEN {}
  ELSE RetrievePoolInfoRange(IF start < 0 THEN 0 ELSE start, HeightOf(best))
\* GetStakeInfoExtendedByHeight: BlockHash, then the pool info of that hash.
GetStakeInfoExtendedByHeight(h) ==
  RetrievePoolInfoByHash(One({b \in MainRows : HeightOf(b) = h}))

-----------------------------------------------------------------------------
(* One request at a time; each step is one access of the cache or database.  *)

Ask(kind, h, hash) ==
  /\ req.at \in {"none", "done"} /\ asks < MaxAsks /\ asks' = asks + 1
  /\ req' = [NoReq EXCEPT !.at = IF kind = "best" THEN "height" ELSE "cache",
                          !.kind = kind, !.h = h, !.hash = hash]
  /\ UNCHANGED <<chain, apic, clock>>

Answer(b) == [req EXCEPT !.at = "done", !.found = b]

BestHeight ==                                    \* GetBestBlockSummary: HeightDB
  /\ req.at = "height"
  /\ req' = [req EXCEPT !.at = "cache", !.h = HeightOf(meta)]
  /\ UNCHANGED <<chain, apic, clock, asks>>

Cached == IF req.kind = "hash" THEN getCachedBlockByHash(apic, req.hash)
          ELSE GetCachedBlockByHeight(apic, req.h)

ReadCache ==
  /\ req.at = "cache"
  /\ IF apic.isEnabled
     THEN /\ apic' = Accessed(apic, Cached)
          /\ req' = IF HasSummary(apic, Cached) THEN Answer(Cached[1])
                    ELSE [req EXCEPT !.at = "db", !.using = TRUE]
     ELSE req' = [req EXCEPT !.at = "db"] /\ UNCHANGED apic
  /\ UNCHANGED <<chain, clock, asks>>

Query == CASE req.kind = "hash" -> RetrieveBlockSummaryByHash(req.hash)
           [] req.kind = "size" -> IF InChain(req.h, req.h) THEN RetrieveBlockSize(req.h)
                                   ELSE NoBlock
           [] OTHER -> RetrieveBlockSummary(req.h)

ReadDB ==
  /\ req.at = "db"
  /\ req' = IF Query # NoBlock /\ req.using /\ req.kind # "size"
            THEN [req EXCEPT !.at = "store", !.found = Query] ELSE Answer(Query)
  /\ UNCHANGED <<chain, apic, clock, asks>>

FillCache ==
  /\ req.at = "store"
  /\ apic' = StoreBlockSummary(apic, Item(req.found), clock)
  /\ req' = Answer(req.found)
  /\ UNCHANGED <<chain, clock, asks>>

\* GetSummaryByHash writes the totals into the summary the cache holds too.
GetSummaryByHash ==
  /\ req.at = "done" /\ req.kind = "hash" /\ req.found \in DOMAIN apic.blockCache
  /\ req' = NoReq
  /\ apic' = [apic EXCEPT !.blockCache[req.found].summary = "totals"]
  /\ UNCHANGED <<chain, clock, asks>>

CacheOp ==                                \* the other exported operations
  /\ asks < MaxAsks /\ asks' = asks + 1
  /\ \/ ~apic.isEnabled /\ apic' = [apic EXCEPT !.isEnabled = TRUE]
     \/ apic.isEnabled /\ apic' = [apic EXCEPT !.isEnabled = FALSE]
     \/ \E b \in DOMAIN rows : apic' = StoreStakeInfo(apic, Item(b), clock)
     \/ \E h \in DOMAIN apic.MainchainBlocks : apic' = RemoveCachedBlockByHeight(apic, h)
     \/ \E f \in LessFns : apic' = [apic EXCEPT !.lessFn = f]
  /\ apic' # apic
  /\ UNCHANGED <<chain, clock, req>>

WatchPriorityQueue ==
  /\ apic.needsReheap /\ apic' = Reheap(apic)
  /\ UNCHANGED <<chain, clock, req, asks>>

Tick == clock < MaxClock /\ clock' = clock + 1 /\ UNCHANGED <<chain, apic, req, asks>>

Next ==
  \/ \E b \in Block : Connect(b) \/ Reorg(b) \/ ImportSideChain(b)
                      \/ Ask("hash", 0, b)
  \/ TipToSideChain \/ StoreRow \/ StoreBest \/ InsertBlockStats \/ SetDBBestBlock
  \/ \E h \in {HeightOf(b) : b \in Block}, k \in {"height", "size"} : Ask(k, h, NoBlock)
  \/ Ask("best", 0, NoBlock) \/ BestHeight
  \/ ReadCache \/ ReadDB \/ FillCache \/ GetSummaryByHash
  \/ CacheOp \/ WatchPriorityQueue \/ Tick

Spec == Init /\ [][Next]_vars

-----------------------------------------------------------------------------
(* Properties.                                                             *)

\* Between two changes of the chain every query by height, range, stepped range
\* or hash answers with the blocks of the main chain, each once and in order:
\* the stats table holds one row per height, so the join that has no condition
\* on is_mainchain needs every reorganisation to have replaced that row.
SummariesFollowChain ==
  pc = "idle" =>
    LET top == HeightOf(best)
        main(i, j) == [k \in 1..(j - i + 1) |-> At(best, i + k - 1)]
    IN  /\ RetrieveLatestBlockSummary = best /\ meta = best
        /\ \A h \in 0..top :
             /\ {RetrieveBlockSummary(h), RetrieveBlockSize(h), RetrieveSDiff(h),
                 RetrievePoolInfo(h), RetrieveBlockSummaryByHash(At(best, h)),
                 GetStakeInfoExtendedByHeight(h)} = {At(best, h)}
             /\ ChargePoolInfoCache(h) = {At(best, k) : k \in h..top}
        /\ \A i, j \in 0..top : i <= j =>
             /\ RetrieveBlockSummaryRange(i, j) = main(i, j)
             /\ RetrieveBlockSummaryRange(j, i) = Reverse(main(i, j))
             /\ InChain(i, j) /\ RetrieveBlockSizeRange(i, j) = {At(best, k) : k \in i..j}
             /\ RetrieveBlockSummaryRangeStepped(i, j, 2)
                  = [k \in 1..((j - i) \div 2 + 1) |-> At(best, i + 2 * (k - 1))]
             /\ RetrieveBlockSummaryRangeStepped(j, i, 2)
                  = [k \in 1..((j - i) \div 2 + 1) |-> At(best, j - 2 * (k - 1))]

\* GetBestBlockSummary reads the best height from the meta table and then asks
\* for that height: it finds a block whatever the chain writer does in between,
\* because StoreBlock writes the meta table last and no reorganisation takes a
\* stats row away.
BestSummaryIsFound == req.at = "done" /\ req.kind = "best" => req.found # NoBlock

\* The map, the index by height and the expiry queue of the APICache stay one
\* cache: the queue holds the map's blocks, no more than the capacity, and the
\* index leads only to blocks the map holds, at their own height.
ApiCacheIsOne ==
  /\ Len(apic.bh) <= Capacity /\ IsInjective(apic.bh)
  /\ {apic.bh[i].hash : i \in DOMAIN apic.bh} = DOMAIN apic.blockCache
  /\ Cardinality(DOMAIN apic.blockCache) = Len(apic.bh)
  /\ \A h \in DOMAIN apic.MainchainBlocks :
        apic.MainchainBlocks[h] \in DOMAIN apic.blockCache
          /\ HeightOf(apic.MainchainBlocks[h]) = h

=============================================================================
