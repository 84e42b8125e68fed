----------------------------- MODULE AddressCache -----------------------------
(***************************************************************************)
(* The address cache of ChainDB (db/cache/addresscache.go) between those    *)
(* who ask about an address (AddressBalance, AddressUTXO, TxHistoryData,    *)
(* AddressRowsCompact, AddressHistory, DevBalance) and the goroutine that   *)
(* stores blocks and reorganises.  A request reads the best block, looks in *)
(* the cache, and on a miss takes the address's CacheLock, queries and      *)
(* stores what it got under the hash it had read; a request that finds the  *)
(* lock taken waits for the holder and starts again.  The storing goroutine *)
(* writes the tables, moves the best block and then clears the addresses of *)
(* the block, or, after a reorganisation, everything.                       *)
(*                                                                         *)
(* What the tables say of an address is the set of the blocks of the chain  *)
(* that have a row of it: its balance, rows, outputs and charts follow.     *)
(***************************************************************************)
EXTENDS Integers, FiniteSets, Sequences, FiniteSetsExt

CONSTANTS
    Reader,          \* requests that may run at once
    Fund,            \* the goroutine of updateProjectFundCache
    Addr, Project,   \* addresses, and ac.ProjectAddress
    Block, Genesis,
    Path,            \* Path[b]: the chain from genesis to b
    Touch,           \* Touch[b]: the addresses with a row in b
    cap, capAddr, maxUTXOsPerAddr,   \* capacities of the cache
    None, Error,
    Calls,           \* per reader, the functions that it calls, and with which addresses
    MaxReorgs,       \* bound: reorganisations
    MaxRequests      \* bound: requests of all readers

VARIABLES
    tables,     \* the block whose chain the tables hold
    best,       \* pgb.bestBlock
    left,       \* history: the blocks that have been the best block and no longer are
    inReorg,    \* pgb.InReorg
    writer,     \* the storing goroutine: the blocks it has yet to connect, and where it is
    reorgs,     \* reorganisations so far
    cache,      \* ac.a
    stuck,      \* whether purgeRowsToFit spins, with ac.mtx held
    locks,      \* CacheLocks: per kind and address, the holder
    rd,         \* the requests
    fundDue,    \* whether a project fund update has been launched and not begun
    requests,   \* requests so far
    ask, answer   \* history: see AddressService

chainVars == <<tables, best, left, inReorg, writer, reorgs>>
cacheVars == <<cache, stuck>>
historyVars == <<ask, answer>>
Quiet == answer' = None /\ UNCHANGED ask
vars == <<chainVars, cacheVars, locks, rd, fundDue, requests, historyVars>>

Process == Reader \cup {Fund}
Kinds == {"balance", "utxos", "chart", "rows", "history", "dev"}
LockOf(kind) == CASE kind \in {"balance", "chart"} -> "bal"
                  [] kind = "utxos" -> "utxo"
                  [] OTHER -> "rows"
Fields == {"balance", "utxos", "chart", "rows"}
FieldOf(kind) == CASE kind = "history" -> "rows" [] kind = "dev" -> "balance" [] OTHER -> kind

Ancestors(b) == {Path[b][i] : i \in 1..Len(Path[b])}
Parent(b) == Path[b][Len(Path[b]) - 1]
Data(a, t) == {b \in Ancestors(t) : a \in Touch[b]}

Question == [addr : Addr, since : SUBSET Block, old : BOOLEAN]

ASSUME AddressCacheAssumption ==
    /\ Calls \in [Reader -> SUBSET (Kinds \X Addr)]
    /\ \A p \in Reader : \A call \in Calls[p] : call[1] = "dev" => call[2] = Project
    /\ Project \in Addr /\ Fund \notin Reader
    /\ cap \in Nat \ {0} /\ capAddr \in Nat \ {0} /\ maxUTXOsPerAddr \in Nat
    /\ \A b \in Block : Touch[b] \subseteq Addr
    /\ Genesis \in Block /\ Path \in [Block -> Seq(Block)] /\ Path[Genesis] = <<Genesis>>
    /\ \A b \in Block \ {Genesis} :
          Path[b][1] = Genesis /\ Len(Path[b]) > 1 /\ Path[b] = Append(Path[Parent(b)], b)
    /\ \A x \in Process \cup Block \cup (SUBSET Block) \cup Question : x # None

-------------------------------------------------------------------------------
(* The cache. *)

Item(hash) == [hash |-> hash, balance |-> None, utxos |-> None, chart |-> None, rows |-> None]
NumRows(item) == IF item.rows = None THEN 0 ELSE Cardinality(item.rows)
length(c) == MapThenSumSet(LAMBDA a : NumRows(c[a]), DOMAIN c)
Restricted(c, S) == [a \in S |-> c[a]]
With(c, a, item) == [x \in DOMAIN c \cup {a} |-> IF x = a THEN item ELSE c[x]]

\* First the addresses, down to one less than capAddr; the project's stays.
PurgeAddrs(c) ==
    LET keep == DOMAIN c \cap {Project}
    IN  IF Cardinality(DOMAIN c) < capAddr THEN {c}
        ELSE {Restricted(c, S \cup keep) :
                 S \in kSubset(Max({capAddr - 1 - Cardinality(keep), 0}), DOMAIN c \ keep)}

Over(c, n) == length(c) > 0 /\ length(c) + n > cap
Purgeable(c) == {a \in DOMAIN c \ {Project} : NumRows(c[a]) > 0}
\* Then addresses with rows, one at a time, until n more rows fit.  When none
\* is left but the project's the loop ends; it never does while an address
\* without rows is there too.
Spins(c, n) == LET rest == Restricted(c, DOMAIN c \ Purgeable(c))
               IN  Over(rest, n) /\ DOMAIN rest # {Project}
PurgeRows(c, n) ==
    LET without(D) == Restricted(c, DOMAIN c \ D)
        enough(D) == ~Over(without(D), n) \/ D = Purgeable(c)
    IN  {without(D) : D \in {E \in SUBSET Purgeable(c) :
             enough(E) /\ (E = {} \/ \E a \in E : ~enough(E \ {a}))}}

\* A bug in haveSpace: only the rows are counted.
HaveSpace_rowsOnly(c, n) == length(c) + n <= cap

HaveSpace(c, n) == length(c) + n <= cap /\ Cardinality(DOMAIN c) < capAddr

purgeRowsToFit(c, n) == UNION {PurgeRows(d, n) : d \in PurgeAddrs(c)}

AlreadyStored(c, a) == IF a \in DOMAIN c THEN NumRows(c[a]) ELSE 0

\* addCacheItem replaces the item of the address if there is space for it.
addCacheItem(c, a, item) ==
    LET n == NumRows(item) - AlreadyStored(c, a)
    IN  {IF HaveSpace(d, n) THEN With(d, a, item) ELSE d : d \in purgeRowsToFit(c, n)}

SameBlock(c, a, hash) == a \in DOMAIN c /\ c[a].hash = hash

\* setCacheItemRows under the item's own block: the purge may take the item
\* itself out of the map, and the rows are then set in an item nobody has.
setCacheItemRows(c, a, rows) ==
    LET n == Cardinality(rows) - NumRows(c[a])
        set(d) == IF a \in DOMAIN d /\ HaveSpace(d, n) THEN With(d, a, [d[a] EXCEPT !.rows = rows]) ELSE d
    IN  IF c[a].rows # None /\ n = 0 THEN {c}
        ELSE {set(d) : d \in purgeRowsToFit(c, n)}

\* StoreBalance, StoreUTXOs, StoreHistoryChart, StoreRows: the possible caches
\* after value is stored under the block hash.
Store(c, a, field, value, hash) ==
    CASE field = "utxos" /\ Cardinality(value) > maxUTXOsPerAddr /\ a # Project -> {c}
      [] field = "rows" /\ SameBlock(c, a, hash) -> setCacheItemRows(c, a, value)
      [] field # "rows" /\ SameBlock(c, a, hash) -> {With(c, a, [c[a] EXCEPT ![field] = value])}
      [] OTHER -> addCacheItem(c, a, [Item(hash) EXCEPT ![field] = value])

\* Whether that store never returns.
StoreSpins(c, a, field, value, hash) ==
    LET item == IF field = "rows" THEN Cardinality(value) ELSE 0
        n == item - AlreadyStored(c, a)
    IN  /\ field = "rows" \/ ~SameBlock(c, a, hash)
        /\ \E d \in PurgeAddrs(c) : Spins(d, n)

Clear(c, addrs) == Restricted(c, DOMAIN c \ addrs)
ClearField(c, a, field) == IF a \in DOMAIN c THEN With(c, a, [c[a] EXCEPT ![field] = None]) ELSE c

-------------------------------------------------------------------------------
(* The requests. *)

Idle == [pc |-> "idle", kind |-> "rows", addr |-> Project, hash |-> None, label |-> None, got |-> None]

Init ==
    /\ tables = Genesis /\ best = Genesis /\ left = {} /\ inReorg = FALSE /\ reorgs = 0
    /\ writer = [pc |-> "idle", todo |-> <<>>, root |-> None]
    /\ cache = [a \in {} |-> None] /\ stuck = FALSE
    /\ locks = [l \in {"bal", "utxo", "rows"} \X Addr |-> None]
    /\ rd = [p \in Process |-> Idle] /\ fundDue = FALSE /\ requests = 0
    /\ ask = [p \in Process |-> None] /\ answer = None

At(p, pc) == rd[p].pc = pc
Goto(p, r) == rd' = [rd EXCEPT ![p] = r]
MyLock(p) == <<LockOf(rd[p].kind), rd[p].addr>>

Begin(p, kind, a) ==
    /\ At(p, "idle")
    /\ Goto(p, [Idle EXCEPT !.pc = IF kind = "dev" THEN "devlook" ELSE "best", !.kind = kind, !.addr = a])
    /\ ask' = [ask EXCEPT ![p] = [addr |-> a, since |-> {tables, best}, old |-> FALSE]]
    /\ answer' = None
    /\ UNCHANGED <<chainVars, cacheVars, locks>>

\* A page or an API call asks; DevBalance is asked about the project only.
Request(p, kind, a) ==
    /\ <<kind, a>> \in Calls[p]
    /\ requests < MaxRequests /\ requests' = requests + 1
    /\ Begin(p, kind, a)
    /\ UNCHANGED fundDue

\* The goroutine launched by FreshenAddressCaches: AddressHistoryAll.
UpdateProjectFundCache ==
    /\ fundDue /\ fundDue' = FALSE
    /\ requests < MaxRequests /\ requests' = requests + 1
    /\ Begin(Fund, "history", Project)

\* The request ends: the answer is given.
Answered(p, value) ==
    /\ ask' = [ask EXCEPT ![p] = None]
    /\ answer' = <<p, value>>
Reply(p, value) == Goto(p, Idle) /\ Answered(p, value)

Wake(p) == [q \in Process |-> IF At(q, "wait") /\ MyLock(q) = MyLock(p) THEN [rd[q] EXCEPT !.pc = "best"] ELSE rd[q]]

\* A bug in the release: the waiters' channel is not closed.
Release_silent(p, r) ==
    /\ locks' = [locks EXCEPT ![MyLock(p)] = None]
    /\ rd' = [rd EXCEPT ![p] = r]

\* done(): the lock is free, and all who wait on its channel start again.
Release(p, r) ==
    /\ locks' = [locks EXCEPT ![MyLock(p)] = None]
    /\ rd' = [Wake(p) EXCEPT ![p] = r]

\* BestBlock(), the first thing a request does.
ReadBest(p) ==
    /\ At(p, "best")
    /\ Goto(p, [rd[p] EXCEPT !.pc = "look", !.hash = best, !.label = best])
    /\ ask' = [ask EXCEPT ![p].old = @ \/ inReorg \/ best \in left]
    /\ answer' = None
    /\ UNCHANGED <<chainVars, cacheVars, locks, fundDue, requests>>

Cached(a, field) == IF a \in DOMAIN cache THEN cache[a][field] ELSE None

\* A bug in the lookup: the block of the cached data is not compared.
Hit_anyBlock(p, field) ==
    Cached(rd[p].addr, field) # None

Hit(p, field) ==
    Cached(rd[p].addr, field) # None /\ cache[rd[p].addr].hash = rd[p].hash

\* The cached data is used if it was stored under the best block read above.
\* AddressHistory goes on to the balance, the others reply.
Look(p) ==
    LET r == rd[p]
        value == Cached(r.addr, FieldOf(r.kind))
    IN  /\ At(p, "look") /\ ~stuck
        /\ IF Hit(p, FieldOf(r.kind))
           THEN IF r.kind = "history"
                THEN /\ Goto(p, [r EXCEPT !.pc = "lookbal", !.got = value, !.label = None])
                     /\ Quiet
                ELSE Reply(p, value)
           ELSE /\ Goto(p, [r EXCEPT !.pc = "lock", !.got = IF r.kind = "utxos" THEN value ELSE None])
                /\ Quiet
        /\ UNCHANGED <<chainVars, cacheVars, locks, fundDue, requests>>

\* TryLock.  Whoever gets it throws away the rows, or the old outputs it saw.
TryLock(p) ==
    LET r == rd[p]
    IN  /\ At(p, "lock")
        /\ \/ /\ locks[MyLock(p)] # None
              /\ Goto(p, [r EXCEPT !.pc = "wait", !.hash = None, !.label = None, !.got = None])
              /\ UNCHANGED <<locks, cache>>
           \/ /\ locks[MyLock(p)] = None /\ ~stuck
              /\ locks' = [locks EXCEPT ![MyLock(p)] = p]
              /\ cache' = CASE LockOf(r.kind) = "rows" -> ClearField(cache, r.addr, "rows")
                            [] r.kind = "utxos" /\ r.got # None -> ClearField(cache, r.addr, "utxos")
                            [] OTHER -> cache
              /\ Goto(p, [r EXCEPT !.pc = IF LockOf(r.kind) = "rows" THEN "rebest" ELSE "query",
                                     !.got = None, !.hash = IF r.kind = "history" THEN @ ELSE None])
        /\ Quiet /\ UNCHANGED <<chainVars, stuck, fundDue, requests>>

\* updateAddressRows reads the best block again, for the rows' label only.
ReadBestAgain(p) ==
    /\ At(p, "rebest")
    /\ Goto(p, [rd[p] EXCEPT !.pc = "query", !.label = best])
    /\ Quiet /\ UNCHANGED <<chainVars, cacheVars, locks, fundDue, requests>>

QueryDone(p) ==
    /\ At(p, "query")
    /\ Goto(p, [rd[p] EXCEPT !.pc = "store", !.got = Data(rd[p].addr, tables)])
    /\ Quiet /\ UNCHANGED <<chainVars, cacheVars, locks, fundDue, requests>>

\* A bug in the error path: the lock is not released.
QueryFails_locked(p) ==
    /\ At(p, "query")
    /\ Reply(p, Error)
    /\ UNCHANGED <<chainVars, cacheVars, locks, fundDue, requests>>

\* The query is cancelled or times out; done is deferred.
QueryFails(p) ==
    /\ At(p, "query")
    /\ Release(p, Idle)
    /\ Answered(p, Error)
    /\ UNCHANGED <<chainVars, cacheVars, fundDue, requests>>

StoreInto(a, field, value, hash) ==
    /\ ~stuck
    /\ IF StoreSpins(cache, a, field, value, hash)
       THEN stuck' = TRUE /\ UNCHANGED cache
       ELSE stuck' = FALSE /\ cache' \in Store(cache, a, field, value, hash)

\* What was read is stored under the block read before, and the lock released.
StoreResult(p) ==
    LET r == rd[p]
    IN  /\ At(p, "store")
        /\ StoreInto(r.addr, FieldOf(r.kind), r.got, r.label)
        /\ Release(p, IF r.kind = "history" THEN [r EXCEPT !.pc = "lookbal", !.label = None] ELSE Idle)
        /\ IF r.kind = "history" THEN Quiet ELSE Answered(p, r.got)
        /\ UNCHANGED <<chainVars, fundDue, requests>>

\* The second half of AddressHistory: the balance, cached under the block read
\* first, or added up from the rows if the page has them all, or asked for.
\* The project fund update asks for a page of one row.
LookBalance(p) ==
    LET r == rd[p]
    IN  /\ At(p, "lookbal") /\ ~stuck
        /\ \/ /\ Hit(p, "balance")
              /\ Reply(p, Cached(r.addr, "balance"))
              /\ UNCHANGED cacheVars
           \/ /\ ~Hit(p, "balance") /\ (p = Fund => r.got = {})
              /\ StoreInto(r.addr, "balance", r.got, r.hash)
              /\ Reply(p, r.got)
           \/ /\ ~Hit(p, "balance") /\ (p = Fund => r.got # {})
              /\ Goto(p, [r EXCEPT !.pc = "best", !.kind = "balance", !.hash = None, !.got = None])
              /\ UNCHANGED cacheVars /\ Quiet
        /\ UNCHANGED <<chainVars, locks, fundDue, requests>>

\* DevBalance looks in the cache first and reads the best block after.
DevLook(p) ==
    LET a == rd[p].addr
    IN  /\ At(p, "devlook") /\ ~stuck
        /\ Goto(p, [rd[p] EXCEPT !.pc = "devbest", !.got = Cached(a, "balance"),
                                 !.hash = IF Cached(a, "balance") # None THEN cache[a].hash ELSE None])
        /\ Quiet /\ UNCHANGED <<chainVars, cacheVars, locks, fundDue, requests>>

\* During a reorganisation the cached balance is good enough, whatever its block.
DevBest(p) ==
    LET r == rd[p]
    IN  /\ At(p, "devbest")
        /\ \/ /\ r.hash = best \/ inReorg
              /\ Reply(p, IF r.got = None THEN Error ELSE r.got)
           \/ /\ r.hash # best /\ ~inReorg
              /\ Goto(p, [r EXCEPT !.pc = "best", !.kind = "balance", !.hash = None, !.got = None])
              /\ Quiet
        /\ UNCHANGED <<chainVars, cacheVars, locks, fundDue, requests>>

Serve(p) ==
    ReadBest(p) \/ Look(p) \/ TryLock(p) \/ ReadBestAgain(p) \/ QueryDone(p) \/ QueryFails(p)
        \/ StoreResult(p) \/ LookBalance(p) \/ DevLook(p) \/ DevBest(p)

-------------------------------------------------------------------------------
(* The goroutine that stores blocks. *)

Writer(pc) == writer' = [writer EXCEPT !.pc = pc]
WriteTables(t) ==
    /\ tables' = t
    /\ ask' = [p \in Process |-> IF ask[p] = None THEN None ELSE [ask[p] EXCEPT !.since = @ \cup {t}]]
    /\ UNCHANGED <<best, left, inReorg, reorgs, cacheVars, locks, rd, fundDue, requests>>
    /\ answer' = None
MoveBest(b) ==
    /\ best' = b
    /\ left' = left \cup {best}
    /\ Quiet /\ UNCHANGED <<tables, inReorg, reorgs, cacheVars, locks, rd, fundDue, requests>>

Connect(b) ==
    /\ writer.pc = "idle"
    /\ b # Genesis /\ Parent(b) = best
    /\ writer' = [pc |-> "write", todo |-> <<b>>, root |-> best]
    /\ Quiet /\ UNCHANGED <<tables, best, left, inReorg, reorgs, cacheVars, locks, rd, fundDue, requests>>

\* ReorgHandler: TipToSideChain down to the common root, then the new blocks.
ReorgHandler(h) ==
    LET common == {i \in 1..Len(Path[h]) : Path[h][i] \in Ancestors(best)}
    IN  /\ writer.pc = "idle" /\ reorgs < MaxReorgs
        /\ best \notin Ancestors(h) /\ h \notin Ancestors(best)
        /\ inReorg' = TRUE /\ reorgs' = reorgs + 1
        /\ writer' = [pc |-> "back", todo |-> SubSeq(Path[h], Max(common) + 1, Len(Path[h])),
                      root |-> Path[h][Max(common)]]
        /\ Quiet /\ UNCHANGED <<tables, best, left, cacheVars, locks, rd, fundDue, requests>>

TipToSideChain ==
    \/ writer.pc = "back" /\ WriteTables(Parent(best)) /\ Writer("backbest")
    \/ /\ writer.pc = "backbest" /\ MoveBest(tables)
       /\ Writer(IF tables = writer.root THEN "write" ELSE "back")

\* StoreBlock: the rows of the block, then the best block, ...
StoreBlock ==
    \/ writer.pc = "write" /\ WriteTables(Head(writer.todo)) /\ Writer("setbest")
    \/ writer.pc = "setbest" /\ MoveBest(tables) /\ Writer("freshen")

\* ... then FreshenAddressCaches with the addresses of the block.
FreshenBlock ==
    /\ writer.pc = "freshen" /\ ~stuck
    /\ cache' = Clear(cache, Touch[best])
    /\ fundDue' = (fundDue \/ ~inReorg)
    /\ writer' = [writer EXCEPT !.todo = Tail(@),
                    !.pc = CASE Len(writer.todo) > 1 -> "write" [] inReorg -> "endreorg" [] OTHER -> "idle"]
    /\ Quiet /\ UNCHANGED <<tables, best, left, inReorg, reorgs, stuck, locks, rd, requests>>

\* The end of ReorgHandler: the flag, then the whole cache.
EndReorg ==
    \/ /\ writer.pc = "endreorg"
       /\ inReorg' = FALSE /\ Writer("clearall")
       /\ Quiet /\ UNCHANGED <<tables, best, left, reorgs, cacheVars, locks, rd, fundDue, requests>>
    \/ /\ writer.pc = "clearall" /\ ~stuck
       /\ cache' = Clear(cache, Addr)
       /\ fundDue' = TRUE /\ Writer("idle")
       /\ Quiet /\ UNCHANGED <<tables, best, left, inReorg, reorgs, stuck, locks, rd, requests>>

WriterStep == TipToSideChain \/ StoreBlock \/ FreshenBlock \/ EndReorg

Next ==
    \/ \E p \in Reader, kind \in Kinds, a \in Addr : Request(p, kind, a)
    \/ UpdateProjectFundCache
    \/ \E p \in Process : Serve(p)
    \/ \E b \in Block : Connect(b) \/ ReorgHandler(b)
    \/ WriterStep

Spec == Init /\ [][Next]_vars

-------------------------------------------------------------------------------
(* Properties. *)

\* The cache refines the service without a cache.
Service == INSTANCE AddressService WITH
    Reader <- Process, tip <- best, reorg <- inReorg
Implements == Service!Spec

\* Once the storing goroutine is at rest, what is cached under the best block is
\* what the tables say, unless the chain has come back to that block.
CacheIsCurrent ==
    writer.pc = "idle" /\ best \notin left =>
        \A a \in DOMAIN cache : cache[a].hash = best =>
            \A f \in Fields : cache[a][f] \in {None, Data(a, best)}

\* The limits hold up to one address's rows: addCacheItem credits itself with
\* rows of the address that the purge may already have thrown away.
CacheIsBounded ==
    /\ Cardinality(DOMAIN cache) <= capAddr
    /\ length(cache) <= cap + Max({Cardinality(Data(a, b)) : a \in Addr, b \in Block})

\* NewAddressCache: "rowCapacity is an absolute limit on the number of address
\* data table rows that may have cached data".
RowCapacityIsAbsolute == length(cache) <= cap

\* Nobody waits on the channel of a CacheLock that nobody holds, and whoever
\* holds one has a query under way or its result to store: a failed query
\* leaves no request waiting.
WaitersAreWoken ==
    \A p \in Process : At(p, "wait") =>
        \E q \in Process : locks[MyLock(p)] = q /\ rd[q].pc \in {"rebest", "query", "store"}

===============================================================================
