-------------------------- MODULE AddressCacheProofs --------------------------
(***************************************************************************)
(* Proofs about AddressCache for every tree of blocks, every set of readers *)
(* and addresses and every capacity: nobody waits for ever on a CacheLock   *)
(* that is free, the cache implements the service without a cache, and it   *)
(* and the pool info cache keep to their capacities.                        *)
(*                                                                         *)
(* The second rests on what a hash is good for.  As long as a block is the  *)
(* best block for the first time, whatever is labelled with it was read     *)
(* from the tables of that block or of the one being stored on it           *)
(* (FreshLabels), and once a request has read the best block, whatever is   *)
(* labelled with it, now or later, was read from the tables of a block      *)
(* within the request's own span (CacheInSpan, ResultsInSpan).              *)
(***************************************************************************)
EXTENDS MCCaches, WellFoundedInduction, SequenceTheorems, FiniteSetTheorems, TLAPS

Stages == {"idle", "devlook", "devbest", "best", "look", "lock", "wait", "rebest", "query",
           "store", "lookbal"}
Value == (SUBSET Block) \cup {None}
CacheItem == [hash : Block, balance : Value, utxos : Value, chart : Value, rows : Value]
Record == [pc : Stages, kind : Kinds, addr : Addr, hash : Block \cup {None},
           label : Block \cup {None}, got : Value]
Places == {"idle", "back", "backbest", "write", "setbest", "freshen", "endreorg", "clearall"}

\* The blocks that are or have been the best block.
Known == left \cup {best}

\* What the tables say of address a for the blocks of S.
Answers(a, S) == {Data(a, t) : t \in S}

-------------------------------------------------------------------------------
(* The storing goroutine.                                                   *)

ChainType ==
    /\ tables \in Block /\ best \in Block /\ left \subseteq Block
    /\ inReorg \in BOOLEAN
    /\ writer \in [pc : Places, todo : Seq(Block), root : Block \cup {None}]

\* The tables are at the best block but for the moment between writing a block and
\* moving the best block; what is to be disconnected is above the common root.
WriterInv ==
    /\ writer.pc \notin {"backbest", "setbest"} => tables = best
    /\ writer.pc = "back" => writer.root \in Ancestors(best) /\ writer.root # best
    /\ writer.pc = "backbest" => writer.root \in Ancestors(tables)
    /\ writer.pc \in {"back", "backbest", "write", "setbest", "freshen"} => writer.todo # <<>>

ChainInv == ChainType /\ WriterInv

-------------------------------------------------------------------------------
(* The locks.                                                               *)

Holds(p) == rd[p].pc \in {"rebest", "query", "store"}

\* Who is past TryLock has the lock, and nobody else; who waits has somebody to
\* wait for.
LockInv ==
    /\ locks \in [{"bal", "utxo", "rows"} \X Addr -> Process \cup {None}]
    /\ \A p \in Process : Holds(p) => locks[MyLock(p)] = p
    /\ \A l \in {"bal", "utxo", "rows"} \X Addr :
          locks[l] # None => Holds(locks[l]) /\ MyLock(locks[l]) = l
    /\ \A p \in Process : At(p, "wait") => locks[MyLock(p)] # None

RequestType == rd \in [Process -> Record]

-------------------------------------------------------------------------------
(* Questions, hashes and values.                                            *)

\* A request that is not idle has a question, whose span holds the tables and the
\* best block.
QuestionInv ==
    /\ ask \in [Process -> Question \cup {None}]
    /\ \A p \in Process :
          IF At(p, "idle") THEN ask[p] = None
          ELSE ask[p] # None /\ ask[p].addr = rd[p].addr /\ {tables, best} \subseteq ask[p].since

\* The request has read the best block, and goes by that hash.
ByHash(p) == rd[p].pc \in {"look", "lock", "rebest", "query", "store", "lookbal"} /\ rd[p].hash # None

\* A hash that labels something has been the best block.
HashesKnown ==
    /\ \A a \in DOMAIN cache : cache[a].hash \in Known
    /\ \A p \in Process :
          /\ rd[p].hash \in Known \cup {None}
          /\ rd[p].pc \in {"look", "lock", "lookbal"} => rd[p].hash \in Known
          /\ rd[p].kind = "history" /\ Holds(p) => rd[p].hash \in Known
          /\ rd[p].pc \in {"look", "lock", "rebest", "query", "store"} => rd[p].label \in Known

\* Every cached value, and every result at hand, is what the tables once said.
ValuesInv ==
    /\ DOMAIN cache \subseteq Addr
    /\ \A a \in DOMAIN cache :
          cache[a] \in CacheItem /\ \A f \in Fields : cache[a][f] \in Answers(a, Block) \cup {None}
    /\ \A p \in Process :
          /\ rd[p].pc \in {"store", "lookbal"} => rd[p].got \in Answers(rd[p].addr, Block)
          /\ rd[p].pc = "devbest" => rd[p].got \in Answers(rd[p].addr, Block) \cup {None}

\* The label under which a result is, or may yet be, stored.
Labelled(p, hash) ==
    \/ rd[p].pc = "store" /\ hash \in {rd[p].hash, rd[p].label}
    \/ rd[p].pc \in {"lookbal", "devbest"} /\ hash = rd[p].hash

\* What is labelled with the best block, while it is that for the first time, is
\* what the tables say of it or of the block being stored on it.
FreshLabels ==
    best \notin left =>
        /\ \A a \in DOMAIN cache : cache[a].hash = best =>
              \A f \in Fields : cache[a][f] \in Answers(a, {tables, best}) \cup {None}
        /\ \A p \in Process : Labelled(p, best) =>
              rd[p].got \in Answers(rd[p].addr, {tables, best}) \cup {None}

\* The answer must be from the request's span.
Strict(p) == ask[p] # None /\ ~ask[p].old

\* What is cached under the hash that a request goes by is from its span.
CacheInSpan ==
    \A p \in Process :
        Strict(p) /\ ByHash(p) /\ SameBlock(cache, rd[p].addr, rd[p].hash) =>
            \A f \in Fields :
                cache[rd[p].addr][f] \in Answers(rd[p].addr, ask[p].since) \cup {None}

\* What another request may yet store under that hash is from its span too.
ResultsInSpan ==
    \A p \in Process, q \in Process :
        Strict(p) /\ ByHash(p) /\ rd[q].addr = rd[p].addr
          /\ rd[q].pc \in {"store", "lookbal"} /\ Labelled(q, rd[p].hash) =>
            rd[q].got \in Answers(rd[p].addr, ask[p].since)

\* A request's own result is from its span.
OwnInSpan ==
    \A p \in Process : Strict(p) /\ rd[p].pc \in {"store", "lookbal"} =>
        rd[p].got \in Answers(rd[p].addr, ask[p].since)

SpanInv == FreshLabels /\ CacheInSpan /\ ResultsInSpan /\ OwnInSpan

IInv == ChainInv /\ RequestType /\ QuestionInv /\ HashesKnown /\ ValuesInv /\ SpanInv

-------------------------------------------------------------------------------
(* The operations on the map.                                               *)

CacheType(c) == DOMAIN c \subseteq Addr /\ \A a \in DOMAIN c : c[a] \in CacheItem

\* A purge only takes addresses out.
LEMMA PurgeRestricts ==
    ASSUME NEW c, NEW n, NEW d \in purgeRowsToFit(c, n)
    PROVE  DOMAIN d \subseteq DOMAIN c /\ \A x \in DOMAIN d : d[x] = c[x]
  <1>1. ASSUME NEW e \in PurgeAddrs(c)
        PROVE  DOMAIN e \subseteq DOMAIN c /\ \A x \in DOMAIN e : e[x] = c[x]
    BY <1>1 DEF PurgeAddrs, Restricted, kSubset
  <1>2. ASSUME NEW e, NEW f \in PurgeRows(e, n)
        PROVE  DOMAIN f \subseteq DOMAIN e /\ \A x \in DOMAIN f : f[x] = e[x]
    BY <1>2 DEF PurgeRows, Restricted
  <1>3. PICK e \in PurgeAddrs(c) : d \in PurgeRows(e, n)
    BY DEF purgeRowsToFit
  <1> QED
    BY <1>1, <1>2, <1>3

\* One field of an item set.
LEMMA FieldSet ==
    ASSUME NEW old \in CacheItem, NEW field \in Fields, NEW value \in Value,
           NEW item, item = [old EXCEPT ![field] = value]
    PROVE  /\ item \in CacheItem /\ item.hash = old.hash
           /\ item[field] = value
           /\ \A f \in Fields : f # field => item[f] = old[f]
  BY DEF CacheItem, Fields

\* A new item with one field set.
LEMMA ItemSet ==
    ASSUME NEW hash \in Block, NEW field \in Fields, NEW value \in Value,
           NEW item, item = [Item(hash) EXCEPT ![field] = value]
    PROVE  /\ item \in CacheItem /\ item.hash = hash
           /\ \A f \in Fields : item[f] \in {None, value}
  <1>1. Item(hash) \in CacheItem /\ Item(hash).hash = hash
    BY DEF Item, CacheItem, Value
  <1>2. \A f \in Fields : Item(hash)[f] = None
    BY DEF Item, Fields
  <1>3. PICK old \in CacheItem : old = Item(hash)
    BY <1>1
  <1>4. item = [old EXCEPT ![field] = value]
    BY <1>3
  <1>5. /\ item \in CacheItem /\ item.hash = old.hash
        /\ item[field] = value
        /\ \A f \in Fields : f # field => item[f] = old[f]
    BY <1>4 DEF CacheItem, Fields
  <1> QED
    BY <1>1, <1>2, <1>3, <1>5

\* What a step may make of the item of address a: it keeps its block and its fields,
\* or loses some, ...
Keeps(c, d, a) ==
    /\ a \in DOMAIN c /\ d[a].hash = c[a].hash
    /\ \A f \in Fields : d[a][f] \in {None, c[a][f]}

\* ... or holds a value stored under a hash, and what was there under the same hash.
StoredAt(c, d, a, value, hash) ==
    /\ d[a].hash = hash
    /\ \A f \in Fields : d[a][f] \in {None, value} \/ (SameBlock(c, a, hash) /\ d[a][f] = c[a][f])

Shrinks(c, d) == CacheType(d) /\ \A a \in DOMAIN d : Keeps(c, d, a)
Stores(c, d, a, value, hash) ==
    /\ CacheType(d)
    /\ \A x \in DOMAIN d : Keeps(c, d, x) \/ (x = a /\ StoredAt(c, d, a, value, hash))

\* Taking addresses out shrinks the cache.
LEMMA RestrictShrinks ==
    ASSUME NEW c, CacheType(c), NEW d, DOMAIN d \subseteq DOMAIN c,
           \A x \in DOMAIN d : d[x] = c[x]
    PROVE  Shrinks(c, d)
  BY DEF CacheType, Shrinks, Keeps

\* Putting an item at a into a cache with fewer addresses.
LEMMA WithStores ==
    ASSUME NEW c, CacheType(c), NEW d, DOMAIN d \subseteq DOMAIN c,
           \A x \in DOMAIN d : d[x] = c[x],
           NEW a \in Addr, NEW item \in CacheItem, NEW value, NEW hash, item.hash = hash,
           \A f \in Fields : item[f] \in {None, value} \/ (SameBlock(c, a, hash) /\ item[f] = c[a][f])
    PROVE  Stores(c, With(d, a, item), a, value, hash)
  <1>1. /\ DOMAIN With(d, a, item) = DOMAIN d \cup {a}
        /\ With(d, a, item)[a] = item
        /\ \A x \in DOMAIN d : x # a => With(d, a, item)[x] = d[x]
    BY DEF With
  <1>2. CacheType(With(d, a, item))
    BY <1>1 DEF CacheType
  <1>3. StoredAt(c, With(d, a, item), a, value, hash)
    BY <1>1 DEF StoredAt
  <1>4. \A x \in DOMAIN d : x # a => Keeps(c, With(d, a, item), x)
    BY <1>1 DEF Keeps
  <1> QED
    BY <1>1, <1>2, <1>3, <1>4 DEF Stores

\* A store puts the value, under its hash, at the address, or nowhere.
LEMMA StoreStores ==
    ASSUME NEW c, CacheType(c), NEW a \in Addr, NEW field \in Fields,
           NEW value \in SUBSET Block, NEW hash \in Block,
           NEW d \in Store(c, a, field, value, hash)
    PROVE  Stores(c, d, a, value, hash)
  <1>0. value \in Value
    BY DEF Value
  <1>s. ASSUME NEW e, DOMAIN e \subseteq DOMAIN c, \A x \in DOMAIN e : e[x] = c[x]
        PROVE  Stores(c, e, a, value, hash)
    BY <1>s, RestrictShrinks DEF Shrinks, Stores
  <1>1. CASE d = c
    BY <1>1, <1>s
  <1>2. CASE SameBlock(c, a, hash) /\ d \in setCacheItemRows(c, a, value)
    <2> DEFINE n == Cardinality(value) - NumRows(c[a])
    <2>1. CASE d # c
      <3>1. PICK e \in purgeRowsToFit(c, n) :
               d = IF a \in DOMAIN e /\ HaveSpace(e, n)
                   THEN With(e, a, [e[a] EXCEPT !.rows = value]) ELSE e
        BY <1>2, <2>1 DEF setCacheItemRows
      <3>2. DOMAIN e \subseteq DOMAIN c /\ \A x \in DOMAIN e : e[x] = c[x]
        BY <3>1, PurgeRestricts
      <3>3. CASE a \in DOMAIN e /\ HaveSpace(e, n)
        <4> DEFINE item == [e[a] EXCEPT !.rows = value]
        <4>1. e[a] \in CacheItem /\ e[a].hash = hash /\ e[a] = c[a]
          BY <3>2, <3>3, <1>2 DEF CacheType, SameBlock
        <4>2. item \in CacheItem /\ item.hash = hash
              /\ \A f \in Fields : item[f] \in {None, value} \/ item[f] = c[a][f]
          BY <4>1, <1>0, FieldSet DEF Fields
        <4>3. d = With(e, a, item)
          BY <3>1, <3>3
        <4> QED
          BY <4>2, <4>3, <3>2, <1>2, WithStores
      <3>4. CASE ~(a \in DOMAIN e /\ HaveSpace(e, n))
        BY <3>1, <3>2, <3>4, <1>s
      <3> QED
        BY <3>3, <3>4
    <2> QED
      BY <2>1, <1>1
  <1>3. CASE SameBlock(c, a, hash) /\ d = With(c, a, [c[a] EXCEPT ![field] = value])
    <2> DEFINE item == [c[a] EXCEPT ![field] = value]
    <2>1. c[a] \in CacheItem /\ c[a].hash = hash
      BY <1>3 DEF CacheType, SameBlock
    <2>2. item \in CacheItem /\ item.hash = hash
          /\ \A f \in Fields : item[f] \in {None, value} \/ item[f] = c[a][f]
      BY <2>1, <1>0, FieldSet
    <2> QED
      BY <2>2, <1>3, WithStores
  <1>4. CASE d \in addCacheItem(c, a, [Item(hash) EXCEPT ![field] = value])
    <2> DEFINE item == [Item(hash) EXCEPT ![field] = value]
               n == NumRows(item) - AlreadyStored(c, a)
    <2>1. item \in CacheItem /\ item.hash = hash /\ \A f \in Fields : item[f] \in {None, value}
      BY <1>0, ItemSet
    <2>2. PICK e \in purgeRowsToFit(c, n) : d = IF HaveSpace(e, n) THEN With(e, a, item) ELSE e
      BY <1>4 DEF addCacheItem
    <2>3. DOMAIN e \subseteq DOMAIN c /\ \A x \in DOMAIN e : e[x] = c[x]
      BY <2>2, PurgeRestricts
    <2> HIDE DEF item
    <2>4. CASE HaveSpace(e, n)
      BY <2>1, <2>2, <2>3, <2>4, WithStores
    <2>5. CASE ~HaveSpace(e, n)
      BY <2>2, <2>3, <2>5, <1>s
    <2> QED
      BY <2>4, <2>5
  <1> QED
    BY <1>1, <1>2, <1>3, <1>4 DEF Store

\* Clearing a field shrinks the cache.
LEMMA ClearFieldShrinks ==
    ASSUME NEW c, CacheType(c), NEW a, NEW field \in Fields
    PROVE  Shrinks(c, ClearField(c, a, field))
  <1>1. CASE a \in DOMAIN c
    <2> DEFINE item == [c[a] EXCEPT ![field] = None]
    <2>1. c[a] \in CacheItem /\ None \in Value
      BY <1>1 DEF CacheType, Value
    <2>2. item \in CacheItem /\ item.hash = c[a].hash
          /\ \A f \in Fields : item[f] \in {None, c[a][f]}
      BY <2>1, FieldSet
    <2>3. ClearField(c, a, field) = With(c, a, item)
      BY <1>1 DEF ClearField
    <2>4. /\ DOMAIN With(c, a, item) = DOMAIN c
          /\ With(c, a, item)[a] = item
          /\ \A x \in DOMAIN c : x # a => With(c, a, item)[x] = c[x]
      BY <1>1 DEF With
    <2> HIDE DEF item
    <2> QED
      BY <2>2, <2>3, <2>4 DEF CacheType, Shrinks, Keeps
  <1>2. CASE a \notin DOMAIN c
    BY <1>2, RestrictShrinks DEF ClearField
  <1> QED
    BY <1>1, <1>2

\* So does clearing addresses.
LEMMA ClearShrinks ==
    ASSUME NEW c, CacheType(c), NEW S
    PROVE  Shrinks(c, Clear(c, S))
  BY RestrictShrinks DEF Clear, Restricted

-------------------------------------------------------------------------------
(* What a step of one request does, as far as hashes and values go.          *)

\* The other requests stay where they are, or are woken.
OthersStay(p) ==
    \A q \in Process \ {p} :
        /\ ask'[q] = ask[q]
        /\ \/ rd'[q] = rd[q]
           \/ At(q, "wait") /\ rd'[q] = [rd[q] EXCEPT !.pc = "best"]

\* The cache loses something, or is given the request's result under its hash.
CacheStep(p) ==
    \/ Shrinks(cache, cache')
    \/ /\ rd[p].pc \in {"store", "lookbal"}
       /\ \E hash \in Block :
             Labelled(p, hash) /\ Stores(cache, cache', rd[p].addr, rd[p].got, hash)

\* The request has no hash and no result: it begins, begins again, waits or ends.
Rests(p) ==
    /\ rd'[p].pc \in {"idle", "wait", "best", "devlook"} /\ rd'[p].hash = None
    /\ \/ rd'[p].pc = "idle" /\ ask'[p] = None
       \/ /\ rd'[p].pc # "idle" /\ rd[p].pc = "idle"
          /\ ask'[p] = [addr |-> rd'[p].addr, since |-> {tables, best}, old |-> FALSE]
       \/ /\ rd'[p].pc # "idle" /\ rd[p].pc # "idle" /\ rd'[p].addr = rd[p].addr
          /\ ask'[p] = ask[p]

TakesHash(p) ==
    /\ rd[p].pc = "best" /\ rd'[p].pc = "look" /\ rd'[p].addr = rd[p].addr
    /\ rd'[p].hash = best /\ rd'[p].label = best
    /\ ask'[p] = [ask[p] EXCEPT !.old = @ \/ inReorg \/ best \in left]

GoesOn(p) ==
    /\ \/ rd[p].pc = "look" /\ rd'[p].pc = "lock"
       \/ rd[p].pc \in {"lock", "rebest"} /\ rd'[p].pc \in {"rebest", "query"}
    /\ rd'[p].addr = rd[p].addr /\ rd'[p].kind = rd[p].kind
    /\ rd'[p].label \in {rd[p].label, best}
    /\ \/ rd'[p].hash = rd[p].hash
       \/ rd'[p].hash = None /\ rd'[p].kind # "history" /\ rd'[p].pc # "lock"
    /\ ask'[p] = ask[p]

Queries(p) ==
    /\ rd[p].pc = "query" /\ rd'[p].pc = "store"
    /\ rd'[p].addr = rd[p].addr /\ rd'[p].kind = rd[p].kind
    /\ rd'[p].label = rd[p].label /\ rd'[p].hash = rd[p].hash
    /\ rd'[p].got = Data(rd[p].addr, tables)
    /\ ask'[p] = ask[p]

KeepsRows(p) ==
    /\ rd[p].pc = "store" /\ rd'[p].pc = "lookbal" /\ rd[p].kind = "history"
    /\ rd'[p].addr = rd[p].addr
    /\ rd'[p].hash = rd[p].hash /\ rd'[p].got = rd[p].got
    /\ ask'[p] = ask[p]

TakesRows(p) ==
    /\ rd[p].pc = "look" /\ rd'[p].pc = "lookbal"
    /\ rd'[p].addr = rd[p].addr /\ rd'[p].hash = rd[p].hash
    /\ SameBlock(cache, rd[p].addr, rd[p].hash)
    /\ rd'[p].got = cache[rd[p].addr]["rows"] /\ rd'[p].got # None
    /\ ask'[p] = ask[p] /\ cache' = cache

PeeksBalance(p) ==
    /\ rd[p].pc = "devlook" /\ rd'[p].pc = "devbest" /\ rd'[p].addr = rd[p].addr
    /\ \/ rd'[p].got = None /\ rd'[p].hash = None
       \/ SameBlock(cache, rd[p].addr, rd'[p].hash) /\ rd'[p].got = cache[rd[p].addr]["balance"]
    /\ ask'[p] = ask[p] /\ cache' = cache

SelfStep(p) ==
    Rests(p) \/ TakesHash(p) \/ GoesOn(p) \/ Queries(p) \/ KeepsRows(p) \/ TakesRows(p) \/ PeeksBalance(p)

ProcessStep(p) ==
    /\ UNCHANGED chainVars
    /\ RequestType' /\ ask' \in [Process -> Question \cup {None}]
    /\ CacheType(cache')
    /\ OthersStay(p) /\ CacheStep(p) /\ SelfStep(p)

-------------------------------------------------------------------------------
(* Such a step keeps the invariant.                                         *)

\* What the tables say of an address is a set of blocks.
LEMMA DataType ==
    ASSUME NEW a, NEW t \in Block
    PROVE  Data(a, t) \in SUBSET Block /\ Data(a, t) # None
  <1>1. Path[t] \in Seq(Block)
    BY AddressCacheAssumption
  <1>2. Ancestors(t) \subseteq Block
    BY <1>1 DEF Ancestors
  <1> QED
    BY <1>2, AddressCacheAssumption DEF Data

\* Hence so is every answer, and more blocks allow more answers.
LEMMA AnswersType ==
    ASSUME NEW a, NEW S \in SUBSET Block
    PROVE  /\ \A v \in Answers(a, S) : v \in SUBSET Block /\ v # None
           /\ \A R \in SUBSET S : Answers(a, R) \subseteq Answers(a, S)
  BY DataType DEF Answers

\* The question of a request stays its own, and its span is not cut.
LEMMA QuestionStep ==
    ASSUME IInv, NEW p \in Process, ProcessStep(p)
    PROVE  QuestionInv'
  <1> USE DEF ProcessStep, IInv, QuestionInv, At, chainVars
  <1>1. ASSUME NEW q \in Process, q # p
        PROVE  IF rd'[q].pc = "idle" THEN ask'[q] = None
               ELSE ask'[q] # None /\ ask'[q].addr = rd'[q].addr
                    /\ {tables, best} \subseteq ask'[q].since
    BY <1>1 DEF OthersStay, RequestType, Record
  <1>2. IF rd'[p].pc = "idle" THEN ask'[p] = None
        ELSE ask'[p] # None /\ ask'[p].addr = rd'[p].addr
             /\ {tables, best} \subseteq ask'[p].since
    <2>1. CASE Rests(p)
      <3>1. [addr |-> rd'[p].addr, since |-> {tables, best}, old |-> FALSE] # None
        BY AddressCacheAssumption DEF ChainInv, ChainType, RequestType, Record, Question
      <3> QED
        BY <2>1, <3>1 DEF Rests
    <2>2. CASE TakesHash(p)
      <3>1. ask[p] \in Question
        BY <2>2 DEF TakesHash
      <3>2. ask'[p] \in Question /\ ask'[p].addr = ask[p].addr /\ ask'[p].since = ask[p].since
        BY <2>2, <3>1 DEF TakesHash, Question
      <3> QED
        BY <2>2, <3>1, <3>2, AddressCacheAssumption DEF TakesHash
    <2>3. CASE GoesOn(p) \/ Queries(p) \/ KeepsRows(p) \/ TakesRows(p) \/ PeeksBalance(p)
      BY <2>3 DEF GoesOn, Queries, KeepsRows, TakesRows, PeeksBalance
    <2> QED
      BY <2>1, <2>2, <2>3 DEF SelfStep
  <1> QED
    BY <1>1, <1>2

\* Every hash stays that of a block that has been the best block.
LEMMA HashesStep ==
    ASSUME IInv, NEW p \in Process, ProcessStep(p)
    PROVE  HashesKnown'
  <1> USE DEF ProcessStep, IInv, chainVars
  <1>0. Known' = Known
    BY DEF Known
  <1>1. ASSUME NEW a \in DOMAIN cache' PROVE cache'[a].hash \in Known
    <2>1. CASE Keeps(cache, cache', a)
      BY <2>1 DEF Keeps, HashesKnown
    <2>2. ASSUME NEW hash \in Block, rd[p].pc \in {"store", "lookbal"}, Labelled(p, hash),
                 cache'[a].hash = hash
          PROVE  hash \in Known
      BY <2>2, AddressCacheAssumption DEF Labelled, HashesKnown, Holds
    <2> QED
      BY <1>1, <2>1, <2>2 DEF CacheStep, Shrinks, Stores, StoredAt
  <1>2. ASSUME NEW q \in Process
        PROVE  /\ rd'[q].hash \in Known \cup {None}
               /\ rd'[q].pc \in {"look", "lock", "lookbal"} => rd'[q].hash \in Known
               /\ rd'[q].kind = "history" /\ Holds(q)' => rd'[q].hash \in Known
               /\ rd'[q].pc \in {"look", "lock", "rebest", "query", "store"} => rd'[q].label \in Known
    <2>1. CASE q # p /\ rd'[q] = rd[q]
      BY <2>1 DEF HashesKnown, Holds
    <2>2. CASE q # p /\ rd'[q] # rd[q]
      BY <2>2 DEF HashesKnown, Holds, OthersStay, RequestType, Record
    <2>3. CASE q = p
      BY <2>3 DEF HashesKnown, Holds, SelfStep, Rests, TakesHash, GoesOn, Queries, KeepsRows,
                  TakesRows, PeeksBalance, SameBlock, Known
    <2> QED
      BY <2>1, <2>2, <2>3
  <1> QED
    BY <1>0, <1>1, <1>2 DEF HashesKnown, Holds

\* Every value stays one that the tables have said.
LEMMA ValuesStep ==
    ASSUME IInv, NEW p \in Process, ProcessStep(p)
    PROVE  ValuesInv'
  <1> USE DEF ProcessStep, IInv, chainVars
  <1>1. ASSUME NEW a \in DOMAIN cache', NEW f \in Fields
        PROVE  cache'[a][f] \in Answers(a, Block) \cup {None}
    <2>1. CASE Keeps(cache, cache', a)
      BY <2>1 DEF Keeps, ValuesInv
    <2>2. ASSUME NEW hash \in Block, rd[p].pc \in {"store", "lookbal"}, a = rd[p].addr,
                 StoredAt(cache, cache', a, rd[p].got, hash)
          PROVE  cache'[a][f] \in Answers(a, Block) \cup {None}
      BY <2>2 DEF ValuesInv, StoredAt, SameBlock
    <2> QED
      BY <1>1, <2>1, <2>2 DEF CacheStep, Shrinks, Stores
  <1>2. ASSUME NEW q \in Process
        PROVE  /\ rd'[q].pc \in {"store", "lookbal"} => rd'[q].got \in Answers(rd'[q].addr, Block)
               /\ rd'[q].pc = "devbest" => rd'[q].got \in Answers(rd'[q].addr, Block) \cup {None}
    <2>1. CASE q # p /\ rd'[q] = rd[q]
      BY <2>1 DEF ValuesInv
    <2>2. CASE q # p /\ rd'[q] # rd[q]
      BY <2>2 DEF OthersStay, RequestType, Record
    <2>3. CASE q = p
      <3>1. tables \in Block
        BY DEF ChainInv, ChainType
      <3>2. Data(rd[p].addr, tables) \in Answers(rd[p].addr, Block)
        BY <3>1 DEF Answers
      <3> QED
        BY <2>3, <3>2 DEF ValuesInv, SelfStep, Rests, TakesHash, GoesOn, Queries, KeepsRows,
                  TakesRows, PeeksBalance, SameBlock, Fields
    <2> QED
      BY <2>1, <2>2, <2>3
  <1>3. \A a : Answers(a, Block)' = Answers(a, Block)
    BY DEF Answers, Data, Ancestors
  <1> QED
    BY <1>1, <1>2, <1>3 DEF ValuesInv, CacheType

\* A request that stays or is woken goes by no other hash, and has no other result.
LEMMA OtherStays ==
    ASSUME RequestType, NEW p \in Process, OthersStay(p), NEW q \in Process, q # p
    PROVE  /\ rd'[q].addr = rd[q].addr /\ rd'[q].hash = rd[q].hash /\ rd'[q].got = rd[q].got
           /\ ByHash(q)' => ByHash(q)
           /\ \A hash : Labelled(q, hash)' => Labelled(q, hash)
           /\ rd'[q].pc \in {"store", "lookbal"} => rd[q].pc \in {"store", "lookbal"}
           /\ ask'[q] = ask[q]
  <1>1. CASE rd'[q] = rd[q]
    BY <1>1 DEF OthersStay, ByHash, Labelled
  <1>2. CASE rd'[q] # rd[q]
    <2>1. rd[q] \in Record /\ rd'[q] = [rd[q] EXCEPT !.pc = "best"]
      BY <1>2 DEF OthersStay, RequestType
    <2>2. /\ rd'[q].addr = rd[q].addr /\ rd'[q].hash = rd[q].hash /\ rd'[q].got = rd[q].got
          /\ rd'[q].pc = "best"
      BY <2>1 DEF Record
    <2> QED
      BY <2>2 DEF OthersStay, ByHash, Labelled
  <1> QED
    BY <1>1, <1>2

\* A fresh hash stays a label of fresh values.
LEMMA FreshStep ==
    ASSUME IInv, NEW p \in Process, ProcessStep(p)
    PROVE  FreshLabels'
  <1> USE DEF ProcessStep, IInv, chainVars
  <1>0. best' = best /\ left' = left /\ tables' = tables
    OBVIOUS
  <1>a. \A a, S : Answers(a, S)' = Answers(a, S)
    BY DEF Answers, Data, Ancestors
  <1> SUFFICES ASSUME best \notin left
               PROVE  /\ \A a \in DOMAIN cache' : cache'[a].hash = best =>
                            \A f \in Fields : cache'[a][f] \in Answers(a, {tables, best}) \cup {None}
                      /\ \A q \in Process : Labelled(q, best)' =>
                            rd'[q].got \in Answers(rd'[q].addr, {tables, best}) \cup {None}
    BY <1>0, <1>a DEF FreshLabels, Labelled
  <1>f. /\ \A a \in DOMAIN cache : cache[a].hash = best =>
              \A f \in Fields : cache[a][f] \in Answers(a, {tables, best}) \cup {None}
        /\ \A q \in Process : Labelled(q, best) =>
              rd[q].got \in Answers(rd[q].addr, {tables, best}) \cup {None}
    BY DEF SpanInv, FreshLabels
  <1>1. ASSUME NEW a \in DOMAIN cache', cache'[a].hash = best, NEW f \in Fields
        PROVE  cache'[a][f] \in Answers(a, {tables, best}) \cup {None}
    <2>1. CASE Keeps(cache, cache', a)
      BY <2>1, <1>1, <1>f DEF Keeps
    <2>2. ASSUME NEW hash \in Block, Labelled(p, hash), a = rd[p].addr,
                 StoredAt(cache, cache', a, rd[p].got, hash)
          PROVE  cache'[a][f] \in Answers(a, {tables, best}) \cup {None}
      BY <2>2, <1>1, <1>f DEF StoredAt, SameBlock
    <2> QED
      BY <1>1, <2>1, <2>2 DEF CacheStep, Shrinks, Stores
  <1>2. ASSUME NEW q \in Process, Labelled(q, best)'
        PROVE  rd'[q].got \in Answers(rd'[q].addr, {tables, best}) \cup {None}
    <2>1. CASE q # p
      BY <2>1, <1>2, <1>f, <1>0, OtherStays
    <2>2. CASE q = p
      <3>1. CASE Rests(p) \/ TakesHash(p) \/ GoesOn(p)
        BY <3>1, <2>2, <1>2 DEF Rests, TakesHash, GoesOn, Labelled
      <3>2. CASE Queries(p)
        BY <3>2, <2>2 DEF Queries, Answers
      <3>3. CASE KeepsRows(p)
        BY <3>3, <2>2, <1>2, <1>0, <1>f DEF KeepsRows, Labelled
      <3>4. CASE TakesRows(p)
        BY <3>4, <2>2, <1>2, <1>0, <1>f DEF TakesRows, Labelled, SameBlock, Fields
      <3>5. CASE PeeksBalance(p)
        BY <3>5, <2>2, <1>2, <1>0, <1>f DEF PeeksBalance, Labelled, SameBlock, Fields
      <3> QED
        BY <3>1, <3>2, <3>3, <3>4, <3>5 DEF SelfStep
    <2> QED
      BY <2>1, <2>2
  <1> QED
    BY <1>1, <1>2

\* What is, or may yet be, cached under the hash of a request stays from its span.
LEMMA SpanStep ==
    ASSUME IInv, NEW p \in Process, ProcessStep(p)
    PROVE  CacheInSpan' /\ ResultsInSpan' /\ OwnInSpan'
  <1> USE DEF ProcessStep, IInv, chainVars
  <1>a. \A a, S : Answers(a, S)' = Answers(a, S)
    BY DEF Answers, Data, Ancestors
  <1>q. \A q \in Process : Strict(q) => ask[q] \in Question /\ ask[q].since \in SUBSET Block
    BY DEF Strict, QuestionInv, Question
  \* Whoever goes by a hash has gone by it before, or reads the best block.
  <1>h. ASSUME NEW q \in Process, Strict(q)', ByHash(q)', ~(q = p /\ TakesHash(p))
        PROVE  /\ Strict(q) /\ ByHash(q)
               /\ rd'[q].addr = rd[q].addr /\ rd'[q].hash = rd[q].hash /\ ask'[q] = ask[q]
    <2>1. CASE q # p
      BY <2>1, <1>h, OtherStays DEF Strict
    <2>2. CASE q = p
      BY <2>2, <1>h, AddressCacheAssumption
         DEF SelfStep, Rests, GoesOn, Queries, KeepsRows, TakesRows, PeeksBalance, ByHash, Strict
    <2> QED
      BY <2>1, <2>2
  <1>t. ASSUME TakesHash(p), Strict(p)'
        PROVE  /\ best \notin left /\ rd'[p].hash = best /\ rd'[p].addr = rd[p].addr
               /\ \A a : Answers(a, {tables, best}) \subseteq Answers(a, ask'[p].since)
               /\ Shrinks(cache, cache')
    <2>1. ask[p] \in Question /\ {tables, best} \subseteq ask[p].since
      BY <1>t DEF TakesHash, QuestionInv, At
    <2>2. ask'[p].since = ask[p].since /\ ask'[p].old = (ask[p].old \/ inReorg \/ best \in left)
      BY <1>t, <2>1 DEF TakesHash, Question
    <2>3. ask[p].since \in SUBSET Block
      BY <2>1 DEF Question
    <2>4. \A a : Answers(a, {tables, best}) \subseteq Answers(a, ask[p].since)
      BY <2>1, <2>3, AnswersType
    <2> QED
      BY <1>t, <2>2, <2>4 DEF Strict, TakesHash, CacheStep
  <1>1. ASSUME NEW q \in Process, Strict(q)', ByHash(q)', SameBlock(cache', rd'[q].addr, rd'[q].hash),
               NEW f \in Fields
        PROVE  cache'[rd'[q].addr][f] \in Answers(rd'[q].addr, ask'[q].since) \cup {None}
    <2>1. CASE q = p /\ TakesHash(p)
      <3> DEFINE a == rd[p].addr
      <3>1. a \in DOMAIN cache' /\ cache'[a].hash = best /\ rd'[q].addr = a
        BY <2>1, <1>1, <1>t DEF SameBlock
      <3>2. Keeps(cache, cache', a)
        BY <2>1, <1>1, <1>t, <3>1 DEF Shrinks
      <3>3. cache'[a][f] \in Answers(a, {tables, best}) \cup {None}
        BY <2>1, <1>1, <1>t, <3>1, <3>2 DEF Keeps, SpanInv, FreshLabels
      <3> QED
        BY <2>1, <1>1, <1>t, <3>1, <3>3
    <2>2. CASE ~(q = p /\ TakesHash(p))
      <3> DEFINE a == rd[q].addr
      <3>1. /\ Strict(q) /\ ByHash(q)
            /\ rd'[q].addr = a /\ rd'[q].hash = rd[q].hash /\ ask'[q] = ask[q]
        BY <2>2, <1>1, <1>h
      <3>2. SameBlock(cache, a, rd[q].hash) =>
               \A k \in Fields : cache[a][k] \in Answers(a, ask[q].since) \cup {None}
        BY <3>1 DEF SpanInv, CacheInSpan
      <3>3. a \in DOMAIN cache' /\ cache'[a].hash = rd[q].hash
        BY <3>1, <1>1 DEF SameBlock
      <3>4. CASE Keeps(cache, cache', a)
        BY <3>1, <3>2, <3>3, <3>4 DEF Keeps, SameBlock
      <3>5. ASSUME NEW hash \in Block, rd[p].pc \in {"store", "lookbal"}, Labelled(p, hash),
                   a = rd[p].addr, StoredAt(cache, cache', a, rd[p].got, hash)
            PROVE  cache'[a][f] \in Answers(a, ask[q].since) \cup {None}
        <4>1. hash = rd[q].hash
          BY <3>3, <3>5 DEF StoredAt
        <4>2. rd[p].got \in Answers(a, ask[q].since)
          BY <4>1, <3>1, <3>5 DEF SpanInv, ResultsInSpan
        <4> QED
          BY <4>1, <4>2, <3>2, <3>5 DEF StoredAt
      <3> QED
        BY <3>1, <3>3, <3>4, <3>5 DEF CacheStep, Shrinks, Stores
    <2> QED
      BY <2>1, <2>2
  <1>r. ASSUME NEW q \in Process, Strict(q), ByHash(q)
        PROVE  tables \in ask[q].since
    BY <1>r DEF QuestionInv, ByHash, At
  <1>d. ASSUME NEW S \in SUBSET Block, tables \in S, NEW a
        PROVE  Data(a, tables) \in Answers(a, S)
    BY <1>d DEF Answers
  <1>2. ASSUME NEW q \in Process, NEW s \in Process, Strict(q)', ByHash(q)',
               rd'[s].addr = rd'[q].addr, rd'[s].pc \in {"store", "lookbal"},
               NEW hash, hash = rd'[q].hash, Labelled(s, hash)'
        PROVE  rd'[s].got \in Answers(rd'[q].addr, ask'[q].since)
    <2>1. CASE q = p /\ TakesHash(p)
      <3>1. s # p
        BY <2>1, <1>2 DEF TakesHash
      <3>2. /\ Labelled(s, best) /\ rd[s].pc \in {"store", "lookbal"}
            /\ rd'[s].got = rd[s].got /\ rd'[s].addr = rd[s].addr
        BY <2>1, <3>1, <1>2, <1>t, OtherStays
      <3>3. rd[s].got \in Answers(rd[s].addr, {tables, best}) \cup {None}
        BY <2>1, <1>2, <3>2, <1>t DEF SpanInv, FreshLabels
      <3>4. rd[s].got # None
        BY <3>2, AnswersType DEF ValuesInv
      <3> QED
        BY <2>1, <1>2, <1>t, <3>2, <3>3, <3>4
    <2>2. CASE ~(q = p /\ TakesHash(p))
      <3> DEFINE a == rd[q].addr
      <3>1. /\ Strict(q) /\ ByHash(q)
            /\ rd'[q].addr = a /\ rd'[q].hash = rd[q].hash /\ ask'[q] = ask[q]
        BY <2>2, <1>2, <1>h
      <3>2. CASE s # p
        <4>1. /\ Labelled(s, rd[q].hash) /\ rd[s].pc \in {"store", "lookbal"}
              /\ rd'[s].got = rd[s].got /\ rd[s].addr = a
          BY <3>2, <1>2, <3>1, OtherStays
        <4> QED
          BY <4>1, <3>1 DEF SpanInv, ResultsInSpan
      <3>3. CASE s = p /\ KeepsRows(p)
        <4>1. /\ Labelled(s, rd[q].hash) /\ rd[s].pc \in {"store", "lookbal"}
              /\ rd'[s].got = rd[s].got /\ rd[s].addr = a
          BY <3>3, <1>2, <3>1 DEF KeepsRows, Labelled
        <4> QED
          BY <4>1, <3>1 DEF SpanInv, ResultsInSpan
      <3>4. CASE s = p /\ Queries(p)
        BY <3>1, <3>4, <1>2, <1>q, <1>r, <1>d DEF Queries
      <3>5. CASE s = p /\ TakesRows(p)
        <4>1. SameBlock(cache, a, rd[q].hash) /\ rd'[s].got = cache[a]["rows"] /\ rd'[s].got # None
          BY <3>5, <1>2, <3>1 DEF TakesRows, Labelled
        <4> QED
          BY <4>1, <3>1 DEF SpanInv, CacheInSpan, Fields
      <3> QED
        BY <1>2, <3>2, <3>3, <3>4, <3>5
           DEF SelfStep, Rests, TakesHash, GoesOn, PeeksBalance
    <2> QED
      BY <2>1, <2>2
  <1>3. ASSUME NEW q \in Process, Strict(q)', rd'[q].pc \in {"store", "lookbal"}
        PROVE  rd'[q].got \in Answers(rd'[q].addr, ask'[q].since)
    <2>1. CASE q # p
      BY <2>1, <1>3, OtherStays DEF Strict, SpanInv, OwnInSpan
    <2>2. CASE q = p /\ KeepsRows(p)
      BY <2>2, <1>3 DEF Strict, SpanInv, OwnInSpan, KeepsRows
    <2>3. CASE q = p /\ Queries(p)
      <3>1. Strict(p) /\ tables \in ask[p].since
        BY <2>3, <1>3 DEF Queries, Strict, QuestionInv, At
      <3> QED
        BY <2>3, <3>1, <1>q, <1>d DEF Queries
    <2>4. CASE q = p /\ TakesRows(p)
      <3>1. Strict(p) /\ ByHash(p)
        BY <2>4, <1>3, AddressCacheAssumption
           DEF TakesRows, Strict, ByHash, HashesKnown, Known, ChainInv, ChainType
      <3> QED
        BY <2>4, <3>1 DEF TakesRows, SpanInv, CacheInSpan, Fields
    <2> QED
      BY <1>3, <2>1, <2>2, <2>3, <2>4 DEF SelfStep, Rests, TakesHash, GoesOn, PeeksBalance
  <1>4. CacheInSpan'
    BY <1>1, <1>a DEF CacheInSpan, SameBlock, Strict, ByHash
  <1>5. ResultsInSpan'
    BY <1>2, <1>a DEF ResultsInSpan, Labelled, Strict, ByHash
  <1>6. OwnInSpan'
    BY <1>3, <1>a DEF OwnInSpan, Strict
  <1> QED
    BY <1>4, <1>5, <1>6

-------------------------------------------------------------------------------
(* Every step of a request is such a step.                                  *)

\* A request at rest.
LEMMA IdleType == Idle \in Record
  BY AddressCacheAssumption DEF Idle, Record, Stages, Kinds, Value

\* A step that touches one request only.
LEMMA GotoStays ==
    ASSUME RequestType, QuestionInv, NEW p \in Process, NEW r \in Record, Goto(p, r),
           NEW x \in Question \cup {None}, ask' = [ask EXCEPT ![p] = x]
    PROVE  /\ RequestType' /\ ask' \in [Process -> Question \cup {None}]
           /\ OthersStay(p) /\ rd'[p] = r /\ ask'[p] = x
  BY DEF RequestType, QuestionInv, Goto, OthersStay

\* The same if it says nothing about the question.
LEMMA GotoQuiet ==
    ASSUME RequestType, QuestionInv, NEW p \in Process, NEW r \in Record, Goto(p, r), Quiet
    PROVE  /\ RequestType' /\ ask' \in [Process -> Question \cup {None}]
           /\ OthersStay(p) /\ rd'[p] = r /\ ask'[p] = ask[p]
  BY DEF RequestType, QuestionInv, Goto, OthersStay, Quiet

\* The same for the end of a request.
LEMMA ReplyRests ==
    ASSUME RequestType, QuestionInv, NEW p \in Process, NEW value, Reply(p, value)
    PROVE  /\ RequestType' /\ ask' \in [Process -> Question \cup {None}]
           /\ OthersStay(p) /\ Rests(p)
  <1>1. ask' = [ask EXCEPT ![p] = None] /\ Goto(p, Idle)
    BY DEF Reply, Answered
  <1>2. /\ RequestType' /\ ask' \in [Process -> Question \cup {None}]
        /\ OthersStay(p) /\ rd'[p] = Idle /\ ask'[p] = None
    BY <1>1, GotoStays, IdleType
  <1> QED
    BY <1>2 DEF Rests, Idle

\* done() wakes others and moves the request itself.
LEMMA ReleaseStays ==
    ASSUME RequestType, NEW p \in Process, NEW r \in Record, Release(p, r),
           \A q \in Process \ {p} : ask'[q] = ask[q]
    PROVE  RequestType' /\ OthersStay(p) /\ rd'[p] = r
  <1>1. rd' = [Wake(p) EXCEPT ![p] = r]
    BY DEF Release
  <1>2. ASSUME NEW q \in Process
        PROVE  /\ Wake(p)[q] \in Record
               /\ Wake(p)[q] = rd[q] \/ (At(q, "wait") /\ Wake(p)[q] = [rd[q] EXCEPT !.pc = "best"])
    <2>1. rd[q] \in Record /\ [rd[q] EXCEPT !.pc = "best"] \in Record
      BY DEF RequestType, Record, Stages
    <2> QED
      BY <2>1 DEF Wake
  <1>3. rd' \in [Process -> Record] /\ rd'[p] = r /\ \A q \in Process \ {p} : rd'[q] = Wake(p)[q]
    BY <1>1, <1>2 DEF Wake
  <1> QED
    BY <1>2, <1>3 DEF RequestType, OthersStay

\* The cache is as it was.
LEMMA CacheStays ==
    ASSUME ValuesInv, UNCHANGED cache
    PROVE  CacheType(cache) /\ CacheType(cache') /\ Shrinks(cache, cache')
  BY RestrictShrinks DEF ValuesInv, CacheType

\* A request begins.
LEMMA BeginStep ==
    ASSUME IInv, NEW p \in Process, NEW kind \in Kinds, NEW a \in Addr, Begin(p, kind, a)
    PROVE  ProcessStep(p)
  <1> DEFINE r == [Idle EXCEPT !.pc = IF kind = "dev" THEN "devlook" ELSE "best", !.kind = kind, !.addr = a]
             x == [addr |-> a, since |-> {tables, best}, old |-> FALSE]
  <1>1. /\ r \in Record /\ r.pc \in {"devlook", "best"} /\ r.hash = None /\ r.addr = a
        /\ x \in Question
    BY AddressCacheAssumption
       DEF Idle, Record, Stages, Value, Kinds, Question, IInv, ChainInv, ChainType
  <1>2. Goto(p, r) /\ ask' = [ask EXCEPT ![p] = x] /\ At(p, "idle") /\ UNCHANGED <<chainVars, cache>>
    BY DEF Begin, cacheVars
  <1> HIDE DEF r
  <1>3. /\ RequestType' /\ ask' \in [Process -> Question \cup {None}]
        /\ OthersStay(p) /\ rd'[p] = r /\ ask'[p] = x
    BY <1>1, <1>2, GotoStays DEF IInv
  <1>4. Rests(p)
    BY <1>1, <1>2, <1>3 DEF Rests, At
  <1> QED
    BY <1>2, <1>3, <1>4, CacheStays DEF ProcessStep, IInv, CacheStep, SelfStep

\* A request reads the best block.
LEMMA ReadBestStep ==
    ASSUME IInv, NEW p \in Process, ReadBest(p)
    PROVE  ProcessStep(p)
  <1> DEFINE r == [rd[p] EXCEPT !.pc = "look", !.hash = best, !.label = best]
             x == [ask[p] EXCEPT !.old = @ \/ inReorg \/ best \in left]
  <1>0. rd[p] \in Record /\ best \in Block /\ inReorg \in BOOLEAN /\ rd[p].pc = "best" /\ ask[p] \in Question
    BY DEF IInv, RequestType, ChainInv, ChainType, ReadBest, At, QuestionInv
  <1>1. /\ r \in Record /\ r.pc = "look" /\ r.hash = best /\ r.label = best /\ r.addr = rd[p].addr
    BY <1>0 DEF Record, Stages
  <1>2. x \in Question
    BY <1>0 DEF Question
  <1>3. Goto(p, r) /\ ask' = [ask EXCEPT ![p] = x] /\ UNCHANGED <<chainVars, cache>>
    BY DEF ReadBest, cacheVars
  <1> HIDE DEF r
  <1>4. /\ RequestType' /\ ask' \in [Process -> Question \cup {None}]
        /\ OthersStay(p) /\ rd'[p] = r /\ ask'[p] = x
    BY <1>1, <1>2, <1>3, GotoStays DEF IInv
  <1>5. TakesHash(p)
    BY <1>0, <1>1, <1>4 DEF TakesHash
  <1> QED
    BY <1>3, <1>4, <1>5, CacheStays DEF ProcessStep, IInv, CacheStep, SelfStep

\* Every kind of request is about one field of the item.
LEMMA FieldOfType == \A kind \in Kinds : FieldOf(kind) \in Fields
  BY DEF FieldOf, Kinds, Fields

\* A request looks in the cache.
LEMMA LookStep ==
    ASSUME IInv, NEW p \in Process, Look(p)
    PROVE  ProcessStep(p)
  <1> DEFINE r == rd[p]
             value == Cached(r.addr, FieldOf(r.kind))
  <1>0. /\ r \in Record /\ r.pc = "look" /\ UNCHANGED <<chainVars, cache>>
        /\ FieldOf(r.kind) \in Fields
    BY FieldOfType DEF IInv, RequestType, Look, At, Record, cacheVars
  <1>v. value \in Value
    BY <1>0 DEF Cached, IInv, ValuesInv, CacheItem, Fields, Value
  <1>1. CASE Hit(p, FieldOf(r.kind)) /\ r.kind = "history"
    <2> DEFINE s == [r EXCEPT !.pc = "lookbal", !.got = value, !.label = None]
    <2>1. Goto(p, s) /\ Quiet
      BY <1>1 DEF Look
    <2>2. s \in Record /\ s.pc = "lookbal" /\ s.got = value /\ s.addr = r.addr /\ s.hash = r.hash
      BY <1>0, <1>v DEF Record, Stages
    <2>3. SameBlock(cache, r.addr, r.hash) /\ value # None /\ value = cache[r.addr]["rows"]
      BY <1>1, <1>0 DEF Hit, Cached, SameBlock, FieldOf
    <2> HIDE DEF s, value
    <2>4. /\ RequestType' /\ ask' \in [Process -> Question \cup {None}]
          /\ OthersStay(p) /\ rd'[p] = s /\ ask'[p] = ask[p]
      BY <2>1, <2>2, GotoQuiet DEF IInv
    <2>5. TakesRows(p)
      BY <1>0, <2>2, <2>3, <2>4 DEF TakesRows
    <2> QED
      BY <1>0, <2>4, <2>5, CacheStays DEF ProcessStep, IInv, CacheStep, SelfStep
  <1>2. CASE Hit(p, FieldOf(r.kind)) /\ r.kind # "history"
    <2>1. Reply(p, value)
      BY <1>2 DEF Look
    <2> HIDE DEF value
    <2> QED
      BY <1>0, <2>1, ReplyRests, CacheStays DEF ProcessStep, IInv, CacheStep, SelfStep
  <1>3. CASE ~Hit(p, FieldOf(r.kind))
    <2> DEFINE s == [r EXCEPT !.pc = "lock", !.got = IF r.kind = "utxos" THEN value ELSE None]
    <2>1. Goto(p, s) /\ Quiet
      BY <1>3 DEF Look
    <2>2. /\ s \in Record /\ s.pc = "lock" /\ s.addr = r.addr /\ s.hash = r.hash
          /\ s.kind = r.kind /\ s.label = r.label
      BY <1>0, <1>v DEF Record, Stages, Value
    <2> HIDE DEF s, value
    <2>4. /\ RequestType' /\ ask' \in [Process -> Question \cup {None}]
          /\ OthersStay(p) /\ rd'[p] = s /\ ask'[p] = ask[p]
      BY <2>1, <2>2, GotoQuiet DEF IInv
    <2>5. GoesOn(p)
      BY <1>0, <2>2, <2>4 DEF GoesOn
    <2> QED
      BY <1>0, <2>4, <2>5, CacheStays DEF ProcessStep, IInv, CacheStep, SelfStep
  <1> QED
    BY <1>1, <1>2, <1>3

\* A request tries the lock.
LEMMA TryLockStep ==
    ASSUME IInv, NEW p \in Process, TryLock(p)
    PROVE  ProcessStep(p)
  <1> DEFINE r == rd[p]
  <1>0. r \in Record /\ r.pc = "lock" /\ UNCHANGED chainVars /\ Quiet
    BY DEF IInv, RequestType, TryLock, At
  <1>1. CASE Goto(p, [r EXCEPT !.pc = "wait", !.hash = None, !.label = None, !.got = None])
             /\ UNCHANGED cache
    <2> DEFINE s == [r EXCEPT !.pc = "wait", !.hash = None, !.label = None, !.got = None]
    <2>1. s \in Record /\ s.pc = "wait" /\ s.addr = r.addr /\ s.hash = None
      BY <1>0 DEF Record, Stages, Value
    <2>2. Goto(p, s)
      BY <1>1
    <2> HIDE DEF s
    <2>3. /\ RequestType' /\ ask' \in [Process -> Question \cup {None}]
          /\ OthersStay(p) /\ rd'[p] = s /\ ask'[p] = ask[p]
      BY <1>0, <2>1, <2>2, GotoQuiet DEF IInv
    <2>4. Rests(p)
      BY <1>0, <2>1, <2>3 DEF Rests
    <2> QED
      BY <1>0, <1>1, <2>3, <2>4, CacheStays DEF ProcessStep, IInv, CacheStep, SelfStep
  <1>2. CASE /\ cache' = CASE LockOf(r.kind) = "rows" -> ClearField(cache, r.addr, "rows")
                           [] r.kind = "utxos" /\ r.got # None -> ClearField(cache, r.addr, "utxos")
                           [] OTHER -> cache
             /\ Goto(p, [r EXCEPT !.pc = IF LockOf(r.kind) = "rows" THEN "rebest" ELSE "query",
                                  !.got = None, !.hash = IF r.kind = "history" THEN @ ELSE None])
    <2> DEFINE s == [r EXCEPT !.pc = IF LockOf(r.kind) = "rows" THEN "rebest" ELSE "query",
                              !.got = None, !.hash = IF r.kind = "history" THEN @ ELSE None]
    <2>1. /\ s \in Record /\ s.pc \in {"rebest", "query"} /\ s.addr = r.addr /\ s.kind = r.kind
          /\ s.label = r.label /\ s.hash = IF r.kind = "history" THEN r.hash ELSE None
      BY <1>0 DEF Record, Stages, Value
    <2>2. Goto(p, s)
      BY <1>2
    <2> HIDE DEF s
    <2>3. /\ RequestType' /\ ask' \in [Process -> Question \cup {None}]
          /\ OthersStay(p) /\ rd'[p] = s /\ ask'[p] = ask[p]
      BY <1>0, <2>1, <2>2, GotoQuiet DEF IInv
    <2>4. GoesOn(p)
      BY <1>0, <2>1, <2>3 DEF GoesOn
    <2>5. CacheType(cache) /\ {"rows", "utxos"} \subseteq Fields
      BY DEF IInv, ValuesInv, CacheType, Fields
    <2>6. Shrinks(cache, cache')
      <3>1. CASE cache' = cache
        BY <3>1, CacheStays DEF IInv
      <3>2. CASE cache' = ClearField(cache, r.addr, "rows")
        BY <3>2, <2>5, ClearFieldShrinks
      <3>3. CASE cache' = ClearField(cache, r.addr, "utxos")
        BY <3>3, <2>5, ClearFieldShrinks
      <3> QED
        BY <1>2, <3>1, <3>2, <3>3
    <2> QED
      BY <1>0, <1>2, <2>3, <2>4, <2>6 DEF ProcessStep, CacheStep, SelfStep, Shrinks
  <1> QED
    BY <1>1, <1>2 DEF TryLock

\* updateAddressRows reads the best block for the label.
LEMMA ReadBestAgainStep ==
    ASSUME IInv, NEW p \in Process, ReadBestAgain(p)
    PROVE  ProcessStep(p)
  <1> DEFINE s == [rd[p] EXCEPT !.pc = "query", !.label = best]
  <1>0. rd[p] \in Record /\ best \in Block /\ rd[p].pc = "rebest" /\ Goto(p, s) /\ Quiet /\ UNCHANGED <<chainVars, cache>>
    BY DEF IInv, RequestType, ChainInv, ChainType, ReadBestAgain, At, cacheVars
  <1>1. /\ s \in Record /\ s.pc = "query" /\ s.addr = rd[p].addr /\ s.kind = rd[p].kind
        /\ s.hash = rd[p].hash /\ s.label = best
    BY <1>0 DEF Record, Stages
  <1> HIDE DEF s
  <1>2. /\ RequestType' /\ ask' \in [Process -> Question \cup {None}]
        /\ OthersStay(p) /\ rd'[p] = s /\ ask'[p] = ask[p]
    BY <1>0, <1>1, GotoQuiet DEF IInv
  <1>3. GoesOn(p)
    BY <1>0, <1>1, <1>2 DEF GoesOn
  <1> QED
    BY <1>0, <1>2, <1>3, CacheStays DEF ProcessStep, IInv, CacheStep, SelfStep

\* The query answers.
LEMMA QueryDoneStep ==
    ASSUME IInv, NEW p \in Process, QueryDone(p)
    PROVE  ProcessStep(p)
  <1> DEFINE data == Data(rd[p].addr, tables)
             s == [rd[p] EXCEPT !.pc = "store", !.got = data]
  <1>0. rd[p] \in Record /\ rd[p].pc = "query" /\ Goto(p, s) /\ Quiet /\ UNCHANGED <<chainVars, cache>>
    BY DEF IInv, RequestType, QueryDone, At, cacheVars
  <1>d. data \in Value
    BY DataType DEF IInv, ChainInv, ChainType, Value
  <1>1. /\ s \in Record /\ s.pc = "store" /\ s.addr = rd[p].addr /\ s.kind = rd[p].kind
        /\ s.hash = rd[p].hash /\ s.label = rd[p].label /\ s.got = data
    BY <1>0, <1>d DEF Record, Stages
  <1> HIDE DEF s
  <1>2. /\ RequestType' /\ ask' \in [Process -> Question \cup {None}]
        /\ OthersStay(p) /\ rd'[p] = s /\ ask'[p] = ask[p]
    BY <1>0, <1>1, GotoQuiet DEF IInv
  <1>3. Queries(p)
    BY <1>0, <1>1, <1>2 DEF Queries
  <1> QED
    BY <1>0, <1>2, <1>3, CacheStays DEF ProcessStep, IInv, CacheStep, SelfStep

\* The query fails.
LEMMA QueryFailsStep ==
    ASSUME IInv, NEW p \in Process, QueryFails(p)
    PROVE  ProcessStep(p)
  <1>1. Release(p, Idle) /\ ask' = [ask EXCEPT ![p] = None] /\ UNCHANGED <<chainVars, cache>>
    BY DEF QueryFails, Answered, cacheVars
  <1>2. ask' \in [Process -> Question \cup {None}] /\ ask'[p] = None
        /\ \A q \in Process \ {p} : ask'[q] = ask[q]
    BY <1>1 DEF IInv, QuestionInv
  <1>3. RequestType' /\ OthersStay(p) /\ rd'[p] = Idle
    BY <1>1, <1>2, IdleType, ReleaseStays DEF IInv
  <1>4. Rests(p)
    BY <1>2, <1>3 DEF Rests, Idle
  <1> QED
    BY <1>1, <1>2, <1>3, <1>4, CacheStays DEF ProcessStep, IInv, CacheStep, SelfStep

\* The cache after a result has been stored.
LEMMA StoreIntoStores ==
    ASSUME ValuesInv, NEW a \in Addr, NEW field \in Fields, NEW value \in SUBSET Block,
           NEW hash \in Block, StoreInto(a, field, value, hash)
    PROVE  CacheType(cache') /\ Stores(cache, cache', a, value, hash)
  <1>0. CacheType(cache)
    BY DEF ValuesInv, CacheType
  <1>1. CASE UNCHANGED cache
    BY <1>1, CacheStays DEF Shrinks, Stores
  <1>2. CASE cache' \in Store(cache, a, field, value, hash)
    <2>1. Stores(cache, cache', a, value, hash)
      BY <1>0, <1>2, StoreStores
    <2> QED
      BY <2>1 DEF Stores
  <1> QED
    BY <1>1, <1>2 DEF StoreInto

\* A result is stored, and the lock released.
LEMMA StoreResultStep ==
    ASSUME IInv, NEW p \in Process, StoreResult(p)
    PROVE  ProcessStep(p)
  <1> DEFINE r == rd[p]
             s == IF r.kind = "history" THEN [r EXCEPT !.pc = "lookbal", !.label = None] ELSE Idle
  <1>0. /\ r \in Record /\ r.pc = "store" /\ UNCHANGED chainVars
        /\ FieldOf(r.kind) \in Fields /\ r.addr \in Addr
        /\ StoreInto(r.addr, FieldOf(r.kind), r.got, r.label)
        /\ Release(p, s)
        /\ IF r.kind = "history" THEN Quiet ELSE Answered(p, r.got)
    BY FieldOfType DEF IInv, RequestType, StoreResult, At, Record
  <1>1. r.got \in SUBSET Block /\ r.label \in Block
    <2>1. r.got \in Answers(r.addr, Block)
      BY <1>0 DEF IInv, ValuesInv
    <2> QED
      BY <1>0, <2>1, AnswersType DEF IInv, HashesKnown, Known, ChainInv, ChainType
  <1>2. CacheType(cache') /\ CacheStep(p)
    BY <1>0, <1>1, StoreIntoStores DEF IInv, CacheStep, Labelled
  <1>3. s \in Record
    BY <1>0, IdleType DEF Record, Stages
  <1>4. ask' \in [Process -> Question \cup {None}]
        /\ ask'[p] = (IF r.kind = "history" THEN ask[p] ELSE None)
        /\ \A q \in Process \ {p} : ask'[q] = ask[q]
    BY <1>0 DEF IInv, QuestionInv, Quiet, Answered
  <1>5. RequestType' /\ OthersStay(p) /\ rd'[p] = s
    <2> HIDE DEF s
    <2> QED BY <1>0, <1>3, <1>4, ReleaseStays DEF IInv
  <1>6. SelfStep(p)
    <2>1. CASE r.kind = "history"
      <3>1. rd'[p].pc = "lookbal" /\ rd'[p].addr = r.addr /\ rd'[p].hash = r.hash /\ rd'[p].got = r.got
        BY <1>0, <1>5, <2>1 DEF Record
      <3> QED
        BY <1>0, <1>4, <2>1, <3>1 DEF SelfStep, KeepsRows
    <2>2. CASE r.kind # "history"
      BY <1>4, <1>5, <2>2 DEF SelfStep, Rests, Idle
    <2> QED
      BY <2>1, <2>2
  <1> QED
    BY <1>0, <1>2, <1>4, <1>5, <1>6 DEF ProcessStep

\* AddressHistory goes on to the balance.
LEMMA LookBalanceStep ==
    ASSUME IInv, NEW p \in Process, LookBalance(p)
    PROVE  ProcessStep(p)
  <1> DEFINE r == rd[p]
  <1>0. r \in Record /\ r.pc = "lookbal" /\ UNCHANGED chainVars /\ r.addr \in Addr
    BY DEF IInv, RequestType, LookBalance, At, Record
  <1>1. CASE Reply(p, Cached(r.addr, "balance")) /\ UNCHANGED cacheVars
    <2>1. UNCHANGED cache
      BY <1>1 DEF cacheVars
    <2> QED
      BY <1>0, <1>1, <2>1, ReplyRests, CacheStays DEF ProcessStep, IInv, CacheStep, SelfStep
  <1>2. CASE StoreInto(r.addr, "balance", r.got, r.hash) /\ Reply(p, r.got)
    <2>1. r.got \in SUBSET Block /\ r.hash \in Block
      <3>1. r.got \in Answers(r.addr, Block)
        BY <1>0 DEF IInv, ValuesInv
      <3> QED
        BY <1>0, <3>1, AnswersType DEF IInv, HashesKnown, Known, ChainInv, ChainType
    <2>2. CacheType(cache') /\ CacheStep(p)
      BY <1>0, <1>2, <2>1, StoreIntoStores DEF IInv, CacheStep, Labelled, Fields
    <2> QED
      BY <1>0, <1>2, <2>2, ReplyRests DEF ProcessStep, IInv, SelfStep
  <1>3. CASE /\ Goto(p, [r EXCEPT !.pc = "best", !.kind = "balance", !.hash = None, !.got = None])
             /\ UNCHANGED cacheVars /\ Quiet
    <2> DEFINE s == [r EXCEPT !.pc = "best", !.kind = "balance", !.hash = None, !.got = None]
    <2>1. s \in Record /\ s.pc = "best" /\ s.addr = r.addr /\ s.hash = None
      BY <1>0 DEF Record, Stages, Value, Kinds
    <2>2. Goto(p, s) /\ Quiet /\ UNCHANGED cache
      BY <1>3 DEF cacheVars
    <2> HIDE DEF s
    <2>3. /\ RequestType' /\ ask' \in [Process -> Question \cup {None}]
          /\ OthersStay(p) /\ rd'[p] = s /\ ask'[p] = ask[p]
      BY <2>1, <2>2, GotoQuiet DEF IInv
    <2>4. Rests(p)
      BY <1>0, <2>1, <2>3 DEF Rests
    <2> QED
      BY <1>0, <2>2, <2>3, <2>4, CacheStays DEF ProcessStep, IInv, CacheStep, SelfStep
  <1> QED
    BY <1>1, <1>2, <1>3 DEF LookBalance

\* DevBalance looks in the cache, whatever the block.
LEMMA DevLookStep ==
    ASSUME IInv, NEW p \in Process, DevLook(p)
    PROVE  ProcessStep(p)
  <1> DEFINE r == rd[p]
             value == Cached(r.addr, "balance")
             hash == IF value # None THEN cache[r.addr].hash ELSE None
             s == [r EXCEPT !.pc = "devbest", !.got = value, !.hash = hash]
  <1>0. r \in Record /\ r.pc = "devlook" /\ Goto(p, s) /\ Quiet /\ UNCHANGED <<chainVars, cache>>
    BY DEF IInv, RequestType, DevLook, At, cacheVars
  <1>1. value \in Value /\ hash \in Block \cup {None}
    BY DEF Cached, IInv, ValuesInv, CacheItem, Value
  <1>2. \/ value = None /\ hash = None
        \/ SameBlock(cache, r.addr, hash) /\ value = cache[r.addr]["balance"]
    BY DEF Cached, SameBlock
  <1> HIDE DEF value, hash
  <1>3. s \in Record /\ s.pc = "devbest" /\ s.addr = r.addr /\ s.hash = hash /\ s.got = value
    BY <1>0, <1>1 DEF Record, Stages
  <1> HIDE DEF s
  <1>4. /\ RequestType' /\ ask' \in [Process -> Question \cup {None}]
        /\ OthersStay(p) /\ rd'[p] = s /\ ask'[p] = ask[p]
    BY <1>0, <1>3, GotoQuiet DEF IInv
  <1>5. PeeksBalance(p)
    BY <1>0, <1>2, <1>3, <1>4 DEF PeeksBalance
  <1> QED
    BY <1>0, <1>4, <1>5, CacheStays DEF ProcessStep, IInv, CacheStep, SelfStep

\* DevBalance replies, or asks like everybody else.
LEMMA DevBestStep ==
    ASSUME IInv, NEW p \in Process, DevBest(p)
    PROVE  ProcessStep(p)
  <1> DEFINE r == rd[p]
  <1>0. r \in Record /\ r.pc = "devbest" /\ UNCHANGED <<chainVars, cache>>
    BY DEF IInv, RequestType, DevBest, At, Record, cacheVars
  <1>1. ASSUME NEW value, Reply(p, value)
        PROVE  ProcessStep(p)
    BY <1>0, <1>1, ReplyRests, CacheStays DEF ProcessStep, IInv, CacheStep, SelfStep
  <1>3. CASE /\ Goto(p, [r EXCEPT !.pc = "best", !.kind = "balance", !.hash = None, !.got = None])
             /\ Quiet
    <2> DEFINE s == [r EXCEPT !.pc = "best", !.kind = "balance", !.hash = None, !.got = None]
    <2>1. s \in Record /\ s.pc = "best" /\ s.addr = r.addr /\ s.hash = None
      BY <1>0 DEF Record, Stages, Value, Kinds
    <2>2. Goto(p, s) /\ Quiet
      BY <1>3
    <2> HIDE DEF s
    <2>3. /\ RequestType' /\ ask' \in [Process -> Question \cup {None}]
          /\ OthersStay(p) /\ rd'[p] = s /\ ask'[p] = ask[p]
      BY <2>1, <2>2, GotoQuiet DEF IInv
    <2>4. Rests(p)
      BY <1>0, <2>1, <2>3 DEF Rests
    <2> QED
      BY <1>0, <2>3, <2>4, CacheStays DEF ProcessStep, IInv, CacheStep, SelfStep
  <1> QED
    BY <1>1, <1>3 DEF DevBest

\* Whatever a request does is such a step.
LEMMA ServeStep ==
    ASSUME IInv, NEW p \in Process, Serve(p)
    PROVE  ProcessStep(p)
  BY ReadBestStep, LookStep, TryLockStep, ReadBestAgainStep, QueryDoneStep, QueryFailsStep,
     StoreResultStep, LookBalanceStep, DevLookStep, DevBestStep DEF Serve

\* A process step keeps the invariant.
LEMMA ProcessKeeps ==
    ASSUME IInv, NEW p \in Process, ProcessStep(p)
    PROVE  IInv'
  <1>1. ChainInv'
    BY DEF ProcessStep, IInv, ChainInv, ChainType, WriterInv, chainVars, Ancestors
  <1>2. RequestType'
    BY DEF ProcessStep
  <1> QED
    BY <1>1, <1>2, QuestionStep, HashesStep, ValuesStep, FreshStep, SpanStep DEF IInv, SpanInv

-------------------------------------------------------------------------------
(* The storing goroutine.                                                   *)

\* A nonempty set of numbers up to N has a greatest element.
LEMMA GreatestNumber ==
    ASSUME NEW N \in Nat, NEW S \in SUBSET (0..N), S # {}
    PROVE  Max(S) \in S /\ \A m \in S : Max(S) >= m
  <1> DEFINE T == {N - n : n \in S}
  <1>1. T \in SUBSET Nat /\ T # {}
    <2>1. \A n \in S : n \in 0..N /\ N - n \in Nat
      OBVIOUS
    <2> QED
      BY <2>1
  <1>2. IsWellFoundedOn(OpToRel(<, Nat), Nat)
    BY NatLessThanWellFounded
  <1>3. PICK t \in T : \A u \in T : ~ (<<u, t>> \in OpToRel(<, Nat))
    BY <1>1, <1>2, WFMin
  <1>4. \A u \in T : ~ (<<u, t>> \in {ss \in Nat \X Nat : ss[1] < ss[2]})
    BY <1>3 DEF OpToRel
  <1>5. PICK n \in S : t = N - n
    OBVIOUS
  <1>6. ASSUME NEW m \in S PROVE n >= m
    <2>1. N - m \in T /\ N - m \in Nat /\ N - n \in Nat /\ m \in Nat /\ n \in Nat
      BY <1>1, <1>5
    <2>2. ~ (<<N - m, N - n>> \in {ss \in Nat \X Nat : ss[1] < ss[2]})
      BY <1>4, <1>5, <2>1
    <2>3. ~ (N - m < N - n)
      BY <2>1, <2>2
    <2> QED
      BY <2>1, <2>3
  <1> QED
    BY <1>6 DEF Max

\* The chain of a block is that of its parent and the block itself.
LEMMA AncestorsOf ==
    ASSUME NEW b \in Block
    PROVE  /\ Ancestors(b) \subseteq Block /\ Genesis \in Ancestors(b) /\ b \in Ancestors(b)
           /\ b = Genesis => Ancestors(b) = {Genesis}
           /\ b # Genesis => Parent(b) \in Block /\ Ancestors(b) = Ancestors(Parent(b)) \cup {b}
  <1>1. Path[b] \in Seq(Block)
    BY AddressCacheAssumption
  <1>2. CASE b = Genesis
    BY <1>2, AddressCacheAssumption DEF Ancestors
  <1>3. CASE b # Genesis
    <2>1. Path[b][1] = Genesis /\ Len(Path[b]) > 1 /\ Path[b] = Append(Path[Parent(b)], b)
      BY <1>3, AddressCacheAssumption
    <2>2. Parent(b) \in Block
      BY <1>1, <2>1 DEF Parent
    <2>3. PICK s \in Seq(Block) : s = Path[Parent(b)]
      BY <2>2, AddressCacheAssumption
    <2>4. PICK t \in Seq(Block) : t = Path[b]
      BY <1>1
    <2>5. t = Append(s, b) /\ t[1] = Genesis /\ Len(t) > 1
      BY <2>1, <2>3, <2>4
    <2>6. Len(t) = Len(s) + 1 /\ t[Len(t)] = b /\ \A i \in 1..Len(s) : t[i] = s[i]
      BY <2>5
    <2>7. {t[i] : i \in 1..Len(t)} = {s[i] : i \in 1..Len(s)} \cup {b}
      BY <2>6
    <2>8. Ancestors(b) = Ancestors(Parent(b)) \cup {b}
      BY <2>3, <2>4, <2>7 DEF Ancestors
    <2>9. {t[i] : i \in 1..Len(t)} \subseteq Block /\ Genesis \in {t[i] : i \in 1..Len(t)}
      BY <2>5
    <2> QED
      BY <1>3, <2>2, <2>4, <2>8, <2>9 DEF Ancestors
  <1> QED
    BY <1>2, <1>3

\* What the storing goroutine's steps do to the requests, their questions and the cache.
Behind ==
    /\ UNCHANGED rd /\ Shrinks(cache, cache')
    /\ ChainInv'
    /\ \/ tables' = tables /\ best' = best /\ left' = left /\ ask' = ask
       \/ /\ tables = best /\ best' = best /\ left' = left
          /\ ask' = [p \in Process |-> IF ask[p] = None THEN None
                                       ELSE [ask[p] EXCEPT !.since = @ \cup {tables'}]]
       \/ tables' = tables /\ best' = tables /\ left' = left \cup {best} /\ ask' = ask

\* Connect and ReorgHandler begin with what there is to do.
LEMMA ConnectStep ==
    ASSUME IInv, NEW b \in Block, Connect(b)
    PROVE  Behind
  <1>1. UNCHANGED <<tables, best, left, inReorg, rd, cache, ask>>
        /\ writer.pc = "idle" /\ writer' = [pc |-> "write", todo |-> <<b>>, root |-> best]
    BY DEF Connect, cacheVars, Quiet
  <1>2. writer' \in [pc : Places, todo : Seq(Block), root : Block \cup {None}]
    BY <1>1 DEF IInv, ChainInv, ChainType, Places
  <1>3. ChainInv'
    BY <1>1, <1>2 DEF IInv, ChainInv, ChainType, WriterInv
  <1> QED
    BY <1>1, <1>3, CacheStays DEF Behind, IInv

\* The common root is on both chains and is not the best block.
LEMMA ReorgStep ==
    ASSUME IInv, NEW h \in Block, ReorgHandler(h)
    PROVE  Behind
  <1> DEFINE common == {i \in 1..Len(Path[h]) : Path[h][i] \in Ancestors(best)}
             m == Max(common)
  <1>1. /\ UNCHANGED <<tables, best, left, rd, cache, ask>> /\ inReorg' = TRUE
        /\ writer.pc = "idle" /\ best \notin Ancestors(h) /\ h \notin Ancestors(best)
        /\ writer' = [pc |-> "back", todo |-> SubSeq(Path[h], m + 1, Len(Path[h])), root |-> Path[h][m]]
    BY DEF ReorgHandler, cacheVars, Quiet
  <1>2. best \in Block /\ tables = best
    BY <1>1 DEF IInv, ChainInv, ChainType, WriterInv
  <1>3. Path[h] \in Seq(Block) /\ Len(Path[h]) \in Nat
    BY AddressCacheAssumption
  <1>4. Path[h][1] = Genesis /\ Len(Path[h]) >= 1 /\ Path[h][Len(Path[h])] = h
    <2>1. CASE h = Genesis
      BY <2>1, AddressCacheAssumption
    <2>2. CASE h # Genesis
      <3>1. Path[h][1] = Genesis /\ Len(Path[h]) > 1 /\ Path[h] = Append(Path[Parent(h)], h)
        BY <2>2, AddressCacheAssumption
      <3>2. Path[Parent(h)] \in Seq(Block)
        BY <2>2, AncestorsOf, AddressCacheAssumption
      <3> QED
        BY <1>3, <3>1, <3>2
    <2> QED
      BY <2>1, <2>2
  <1>5. common \in SUBSET (0..Len(Path[h])) /\ common # {}
    <2>1. 1 \in common
      BY <1>2, <1>3, <1>4, AncestorsOf
    <2> QED
      BY <1>3, <2>1
  <1>6. m \in common
    BY <1>3, <1>5, GreatestNumber
  <1> HIDE DEF m
  <1>7. PICK k \in 1..Len(Path[h]) : k = m /\ Path[h][k] \in Ancestors(best)
    BY <1>6
  <1>8. Path[h][k] \in Block /\ Path[h][k] # best
    BY <1>1, <1>3, <1>7 DEF Ancestors
  <1>9. k \in Nat /\ k < Len(Path[h])
    BY <1>1, <1>3, <1>4, <1>7
  <1>10. PICK s \in Seq(Block) : s = Path[h] /\ k < Len(s)
    BY <1>3, <1>9
  <1>11. SubSeq(s, k + 1, Len(s)) \in Seq(Block) /\ SubSeq(s, k + 1, Len(s)) # <<>>
    <2>1. SubSeq(s, k + 1, Len(s)) \in Seq(Block) /\ Len(SubSeq(s, k + 1, Len(s))) = Len(s) - k
      <3>1. k + 1 \in Int /\ Len(s) \in Int /\ k + 1 <= Len(s) /\ \A i \in (k + 1)..Len(s) : s[i] \in Block
        BY <1>9, <1>10
      <3> QED
        BY <3>1, SubSeqProperties
    <2>2. Len(SubSeq(s, k + 1, Len(s))) # 0
      BY <1>9, <1>10, <2>1
    <2> QED
      BY <2>1, <2>2, EmptySeq
  <1>12. writer' \in [pc : Places, todo : Seq(Block), root : Block \cup {None}]
         /\ writer'.todo # <<>> /\ writer'.pc = "back" /\ writer'.root = Path[h][k]
    BY <1>1, <1>7, <1>8, <1>10, <1>11 DEF Places
  <1>13. ChainInv'
    BY <1>1, <1>2, <1>7, <1>8, <1>12 DEF IInv, ChainInv, ChainType, WriterInv, Ancestors
  <1> QED
    BY <1>1, <1>13, CacheStays DEF Behind, IInv

\* What is left of the blocks to connect.
LEMMA TailType ==
    ASSUME NEW S, NEW w \in Seq(S), w # <<>>
    PROVE  Tail(w) \in Seq(S) /\ (Len(w) > 1 => Tail(w) # <<>>)
  <1>1. Tail(w) \in Seq(S) /\ Len(Tail(w)) = Len(w) - 1
    BY HeadTailProperties
  <1>2. ASSUME Len(w) > 1, Tail(w) = <<>> PROVE FALSE
    <2>1. PICK n \in Nat : n = Len(w)
      BY LenProperties
    <2>2. Len(Tail(w)) = 0
      BY <1>2, EmptySeq
    <2>3. 0 = n - 1
      BY <2>1, <2>2, <1>1, Zenon
    <2>4. n > 1
      BY <2>1, <1>2, Zenon
    <2> QED
      BY <2>3, <2>4
  <1> QED
    BY <1>1, <1>2

\* Blocks are disconnected, stored and made known, and the cache cleared.
LEMMA WriterStepBehind ==
    ASSUME IInv, WriterStep
    PROVE  Behind
  <1> USE DEF IInv, ChainInv
  <1>0. /\ writer \in [pc : Places, todo : Seq(Block), root : Block \cup {None}]
        /\ tables \in Block /\ best \in Block /\ left \subseteq Block /\ inReorg \in BOOLEAN
    BY DEF ChainType
  <1>w. ASSUME NEW pc \in Places, Writer(pc)
        PROVE  /\ writer' \in [pc : Places, todo : Seq(Block), root : Block \cup {None}]
               /\ writer'.pc = pc /\ writer'.todo = writer.todo /\ writer'.root = writer.root
    BY <1>0, <1>w DEF Writer
  <1>1. CASE writer.pc = "back" /\ WriteTables(Parent(best)) /\ Writer("backbest")
    <2>1. /\ tables' = Parent(best) /\ UNCHANGED <<best, left, inReorg, rd, cache>>
          /\ ask' = [p \in Process |-> IF ask[p] = None THEN None
                                       ELSE [ask[p] EXCEPT !.since = @ \cup {tables'}]]
      BY <1>1 DEF WriteTables, cacheVars
    <2>2. writer.root \in Ancestors(best) /\ writer.root # best /\ tables = best /\ writer.todo # <<>>
      BY <1>1 DEF WriterInv
    <2>3. Parent(best) \in Block /\ writer.root \in Ancestors(Parent(best))
      BY <1>0, <2>2, AncestorsOf
    <2>4. ChainInv'
      BY <1>0, <1>1, <1>w, <2>1, <2>2, <2>3 DEF ChainType, WriterInv, Places, Ancestors
    <2> QED
      BY <2>1, <2>2, <2>4, CacheStays DEF Behind
  <1>2. CASE /\ writer.pc = "backbest" /\ MoveBest(tables)
             /\ Writer(IF tables = writer.root THEN "write" ELSE "back")
    <2>1. best' = tables /\ left' = left \cup {best} /\ UNCHANGED <<tables, inReorg, rd, cache, ask>>
      BY <1>2 DEF MoveBest, cacheVars, Quiet
    <2>2. writer.root \in Ancestors(tables) /\ writer.todo # <<>>
      BY <1>2 DEF WriterInv
    <2>3. ChainInv'
      BY <1>0, <1>2, <1>w, <2>1, <2>2 DEF ChainType, WriterInv, Places, Ancestors
    <2> QED
      BY <2>1, <2>3, CacheStays DEF Behind
  <1>3. CASE writer.pc = "write" /\ WriteTables(Head(writer.todo)) /\ Writer("setbest")
    <2>1. /\ tables' = Head(writer.todo) /\ UNCHANGED <<best, left, inReorg, rd, cache>>
          /\ ask' = [p \in Process |-> IF ask[p] = None THEN None
                                       ELSE [ask[p] EXCEPT !.since = @ \cup {tables'}]]
      BY <1>3 DEF WriteTables, cacheVars
    <2>2. tables = best /\ writer.todo # <<>>
      BY <1>3 DEF WriterInv
    <2>3. Head(writer.todo) \in Block
      BY <1>0, <2>2
    <2>4. ChainInv'
      BY <1>0, <1>3, <1>w, <2>1, <2>2, <2>3 DEF ChainType, WriterInv, Places
    <2> QED
      BY <2>1, <2>2, <2>4, CacheStays DEF Behind
  <1>4. CASE writer.pc = "setbest" /\ MoveBest(tables) /\ Writer("freshen")
    <2>1. best' = tables /\ left' = left \cup {best} /\ UNCHANGED <<tables, inReorg, rd, cache, ask>>
      BY <1>4 DEF MoveBest, cacheVars, Quiet
    <2>2. writer.todo # <<>>
      BY <1>4 DEF WriterInv
    <2>3. ChainInv'
      BY <1>0, <1>4, <1>w, <2>1, <2>2 DEF ChainType, WriterInv, Places
    <2> QED
      BY <2>1, <2>3, CacheStays DEF Behind
  <1>5. CASE FreshenBlock
    <2>1. /\ writer.pc = "freshen" /\ cache' = Clear(cache, Touch[best])
          /\ UNCHANGED <<tables, best, left, inReorg, rd, ask>>
      BY <1>5 DEF FreshenBlock, Quiet
    <2>2. tables = best /\ writer.todo # <<>>
      BY <2>1 DEF WriterInv
    <2>3. /\ writer' \in [pc : Places, todo : Seq(Block), root : Block \cup {None}]
          /\ writer'.pc \in {"write", "endreorg", "idle"}
          /\ writer'.pc = "write" => writer'.todo # <<>>
      <3>1. Tail(writer.todo) \in Seq(Block) /\ (Len(writer.todo) > 1 => Tail(writer.todo) # <<>>)
        <4>1. writer.todo \in Seq(Block)
          BY <1>0
        <4> QED
          BY <2>2, <4>1, TailType
      <3>2. writer' = [writer EXCEPT !.todo = Tail(@),
                         !.pc = CASE Len(writer.todo) > 1 -> "write" [] inReorg -> "endreorg" [] OTHER -> "idle"]
        BY <1>5 DEF FreshenBlock
      <3>3. PICK pc \in {"write", "endreorg", "idle"} :
               /\ pc = CASE Len(writer.todo) > 1 -> "write" [] inReorg -> "endreorg" [] OTHER -> "idle"
               /\ pc = "write" => Len(writer.todo) > 1
        BY <1>0
      <3>4. writer' = [writer EXCEPT !.todo = Tail(@), !.pc = pc]
        BY <3>2, <3>3
      <3> QED
        BY <1>0, <3>1, <3>3, <3>4 DEF Places
    <2>4. ChainInv'
      BY <1>0, <2>1, <2>2, <2>3 DEF ChainType, WriterInv, Places
    <2> QED
      BY <2>1, <2>4, ClearShrinks DEF Behind, ValuesInv, CacheType
  <1>6. CASE writer.pc = "endreorg" /\ inReorg' = FALSE /\ Writer("clearall")
             /\ UNCHANGED <<tables, best, left, rd, cache, ask>>
    <2>1. ChainInv'
      BY <1>0, <1>6, <1>w DEF ChainType, WriterInv, Places
    <2> QED
      BY <1>6, <2>1, CacheStays DEF Behind
  <1>7. CASE writer.pc = "clearall" /\ cache' = Clear(cache, Addr) /\ Writer("idle")
             /\ UNCHANGED <<tables, best, left, inReorg, rd, ask>>
    <2>1. ChainInv'
      BY <1>0, <1>7, <1>w DEF ChainType, WriterInv, Places
    <2> QED
      BY <1>7, <2>1, ClearShrinks DEF Behind, ValuesInv, CacheType
  <1> QED
    BY <1>1, <1>2, <1>3, <1>4, <1>5, <1>6, <1>7
       DEF WriterStep, TipToSideChain, StoreBlock, EndReorg, cacheVars, Quiet

\* None of this puts anything into a question's span or the cache that was not there.
LEMMA BehindKeeps ==
    ASSUME IInv, Behind
    PROVE  IInv'
  <1> USE DEF IInv
  <1>c. /\ tables \in Block /\ best \in Block /\ left \subseteq Block
        /\ tables' \in Block /\ best' \in Block /\ left' \subseteq Block
    BY DEF Behind, ChainInv, ChainType
  <1>a. \A a, S : Answers(a, S)' = Answers(a, S)
    BY DEF Answers, Data, Ancestors
  <1>k. Known \subseteq Known'
    BY DEF Known, Behind
  <1>r. rd' = rd /\ Shrinks(cache, cache')
    BY DEF Behind
  <1>q. ASSUME NEW p \in Process, ask[p] # None
        PROVE  /\ ask[p] \in Question /\ ask'[p] \in Question
               /\ ask'[p].addr = ask[p].addr /\ ask'[p].old = ask[p].old
               /\ ask[p].since \subseteq ask'[p].since /\ ask'[p].since \in SUBSET Block
               /\ {tables, best} \subseteq ask[p].since => {tables', best'} \subseteq ask'[p].since
               /\ \A a : Answers(a, ask[p].since) \subseteq Answers(a, ask'[p].since)
    <2>1. ask[p] \in Question
      BY <1>q DEF QuestionInv
    <2>2. /\ ask'[p] \in Question
          /\ ask'[p].addr = ask[p].addr /\ ask'[p].old = ask[p].old
          /\ ask[p].since \subseteq ask'[p].since
          /\ {tables, best} \subseteq ask[p].since => {tables', best'} \subseteq ask'[p].since
      <3>1. CASE ask' = ask
        BY <2>1, <3>1, <1>q DEF Behind, Question
      <3>2. CASE /\ ask' = [x \in Process |-> IF ask[x] = None THEN None
                                              ELSE [ask[x] EXCEPT !.since = @ \cup {tables'}]]
                 /\ best' = best
        <4>1. ask'[p] = [ask[p] EXCEPT !.since = @ \cup {tables'}]
          BY <3>2, <1>q
        <4>2. ask'[p] \in Question /\ ask'[p].since = ask[p].since \cup {tables'}
              /\ ask'[p].addr = ask[p].addr /\ ask'[p].old = ask[p].old
          BY <2>1, <4>1, <1>c DEF Question
        <4> QED
          BY <3>2, <4>2
      <3> QED
        BY <3>1, <3>2 DEF Behind
    <2>3. ask'[p].since \in SUBSET Block
      BY <2>2 DEF Question
    <2> QED
      BY <2>1, <2>2, <2>3, AnswersType
  <1>n. ASSUME NEW p \in Process, ask[p] = None PROVE ask'[p] = None
    BY <1>n DEF Behind
  <1>f. ask' \in [Process -> Question \cup {None}]
    <2>1. \A p \in Process : ask'[p] \in Question \cup {None}
      BY <1>q, <1>n
    <2>2. ask' = [p \in Process |-> ask'[p]]
      BY DEF Behind, QuestionInv
    <2> QED
      BY <2>1, <2>2
  <1>1. ChainInv' /\ RequestType'
    BY DEF Behind, RequestType
  <1>2. QuestionInv'
    <2>1. ASSUME NEW p \in Process
          PROVE  IF rd'[p].pc = "idle" THEN ask'[p] = None
                 ELSE ask'[p] # None /\ ask'[p].addr = rd'[p].addr /\ {tables', best'} \subseteq ask'[p].since
      <3>1. CASE rd[p].pc = "idle"
        BY <3>1, <1>r, <1>n DEF QuestionInv, At
      <3>2. CASE rd[p].pc # "idle"
        <4>1. ask[p] # None /\ ask[p].addr = rd[p].addr /\ {tables, best} \subseteq ask[p].since
          BY <3>2 DEF QuestionInv, At
        <4> QED
          BY <3>2, <4>1, <1>r, <1>q, AddressCacheAssumption
      <3> QED
        BY <3>1, <3>2
    <2> QED
      BY <2>1, <1>f DEF QuestionInv, At
  <1>3. HashesKnown'
    BY <1>k, <1>r DEF HashesKnown, Holds, Shrinks, Keeps
  <1>4. ValuesInv'
    BY <1>a, <1>r DEF ValuesInv, Shrinks, Keeps, CacheType
  <1>5. FreshLabels'
    <2> SUFFICES ASSUME best' \notin left'
                 PROVE  /\ \A a \in DOMAIN cache' : cache'[a].hash = best' =>
                              \A f \in Fields : cache'[a][f] \in Answers(a, {tables', best'}) \cup {None}
                        /\ \A q \in Process : Labelled(q, best)' =>
                              rd'[q].got \in Answers(rd'[q].addr, {tables', best'}) \cup {None}
      BY <1>a DEF FreshLabels, Labelled
    <2>1. CASE best' = best /\ left' = left
      <3>1. {tables, best} \subseteq {tables', best'}
        BY <2>1 DEF Behind
      <3>2. \A a : Answers(a, {tables, best}) \subseteq Answers(a, {tables', best'})
        BY <1>c, <3>1, AnswersType
      <3> QED
        BY <2>1, <3>2, <1>r DEF SpanInv, FreshLabels, Shrinks, Keeps, Labelled
    <2>2. CASE best' = tables /\ left' = left \cup {best}
      <3>1. best' \notin Known /\ best' # None
        BY <2>2, <1>c, AddressCacheAssumption DEF Known
      <3>2. \A a \in DOMAIN cache' : cache'[a].hash # best'
        BY <3>1, <1>r DEF HashesKnown, Shrinks, Keeps
      <3>3. \A q \in Process : ~(Labelled(q, best)')
        BY <3>1, <1>r DEF HashesKnown, Labelled
      <3> QED
        BY <3>2, <3>3
    <2> QED
      BY <2>1, <2>2 DEF Behind
  <1>s. ASSUME NEW p \in Process, Strict(p)'
        PROVE  Strict(p) /\ \A a : Answers(a, ask[p].since) \subseteq Answers(a, ask'[p].since)
    BY <1>s, <1>q, <1>n DEF Strict
  <1>6. CacheInSpan'
    <2> SUFFICES ASSUME NEW p \in Process, Strict(p)', ByHash(p)',
                        SameBlock(cache', rd'[p].addr, rd'[p].hash), NEW f \in Fields
                 PROVE  cache'[rd'[p].addr][f] \in Answers(rd'[p].addr, ask'[p].since) \cup {None}
      BY <1>a DEF CacheInSpan, SameBlock
    <2>1. Keeps(cache, cache', rd[p].addr) /\ SameBlock(cache, rd[p].addr, rd[p].hash) /\ ByHash(p)
      BY <1>r DEF Shrinks, Keeps, SameBlock, ByHash
    <2>2. cache[rd[p].addr][f] \in Answers(rd[p].addr, ask[p].since) \cup {None}
      BY <2>1, <1>s DEF SpanInv, CacheInSpan
    <2> QED
      BY <2>1, <2>2, <1>s, <1>r DEF Keeps
  <1>7. ResultsInSpan'
    <2> SUFFICES ASSUME NEW p \in Process, NEW q \in Process, Strict(p)', ByHash(p)',
                        rd'[q].addr = rd'[p].addr, rd'[q].pc \in {"store", "lookbal"},
                        Labelled(q, rd[p].hash)'
                 PROVE  rd'[q].got \in Answers(rd'[p].addr, ask'[p].since)
      BY <1>a DEF ResultsInSpan
    <2>1. ByHash(p) /\ Labelled(q, rd[p].hash)
      BY <1>r DEF ByHash, Labelled
    <2> QED
      BY <2>1, <1>r, <1>s DEF SpanInv, ResultsInSpan
  <1>8. OwnInSpan'
    BY <1>a, <1>r, <1>s DEF SpanInv, OwnInSpan
  <1> QED
    BY <1>1, <1>2, <1>3, <1>4, <1>5, <1>6, <1>7, <1>8 DEF SpanInv

-------------------------------------------------------------------------------
(* The cache implements the service.                                        *)

\* The state in which the invariant begins.
LEMMA InitInvariant == Init => IInv
  <1> SUFFICES ASSUME Init PROVE IInv
    OBVIOUS
  <1>1. /\ tables = Genesis /\ best = Genesis /\ left = {} /\ inReorg = FALSE
        /\ writer = [pc |-> "idle", todo |-> <<>>, root |-> None]
        /\ DOMAIN cache = {} /\ rd = [p \in Process |-> Idle] /\ ask = [p \in Process |-> None]
    BY DEF Init
  <1>2. ChainInv
    <2>1. writer \in [pc : Places, todo : Seq(Block), root : Block \cup {None}] /\ writer.pc = "idle"
      <3>1. <<>> \in Seq(Block)
        BY EmptySeq
      <3> QED
        BY <1>1, <3>1 DEF Places
    <2> QED
      BY <1>1, <2>1, AddressCacheAssumption DEF ChainInv, ChainType, WriterInv
  <1>3. RequestType /\ \A p \in Process : rd[p] = Idle /\ rd[p].pc = "idle" /\ rd[p].hash = None
    BY <1>1, IdleType DEF RequestType, Idle
  <1> QED
    BY <1>1, <1>2, <1>3 DEF IInv, QuestionInv, HashesKnown, ValuesInv, SpanInv, FreshLabels,
       CacheInSpan, ResultsInSpan, OwnInSpan, At, ByHash, Holds, Labelled, Strict

\* Every step keeps the invariant.
LEMMA NextInvariant == IInv /\ [Next]_vars => IInv'
  <1> SUFFICES ASSUME IInv, [Next]_vars PROVE IInv'
    OBVIOUS
  <1>1. ASSUME NEW p \in Reader, NEW kind \in Kinds, NEW a \in Addr, Request(p, kind, a)
        PROVE  IInv'
    BY <1>1, BeginStep, ProcessKeeps DEF Request, Process
  <1>2. CASE UpdateProjectFundCache
    <2>1. Fund \in Process /\ "history" \in Kinds /\ Project \in Addr
      BY AddressCacheAssumption DEF Process, Kinds
    <2> QED
      BY <1>2, <2>1, BeginStep, ProcessKeeps DEF UpdateProjectFundCache
  <1>3. ASSUME NEW p \in Process, Serve(p) PROVE IInv'
    BY <1>3, ServeStep, ProcessKeeps
  <1>4. ASSUME NEW b \in Block, Connect(b) \/ ReorgHandler(b) PROVE IInv'
    BY <1>4, ConnectStep, ReorgStep, BehindKeeps
  <1>5. CASE WriterStep
    BY <1>5, WriterStepBehind, BehindKeeps
  <1>6. CASE UNCHANGED vars
    <2>1. ChainInv'
      BY <1>6 DEF vars, chainVars, IInv, ChainInv, ChainType, WriterInv, Ancestors
    <2>2. Behind
      BY <1>6, <2>1, CacheStays DEF Behind, vars, chainVars, cacheVars, historyVars, IInv
    <2> QED
      BY <2>2, BehindKeeps
  <1> QED
    BY <1>1, <1>2, <1>3, <1>4, <1>5, <1>6 DEF Next

\* Whatever is cached or at hand under the hash a request goes by is from the
\* request's own span.
THEOREM CacheInvariant == Spec => []IInv
  BY InitInvariant, NextInvariant, PTL DEF Spec

\* Once a block is stored and the storing goroutine at rest, what is cached under
\* the best block is what the tables say, unless the chain has come back to it.
THEOREM CacheAlwaysCurrent == Spec => []CacheIsCurrent
  <1>1. IInv => CacheIsCurrent
    <2> SUFFICES ASSUME IInv, writer.pc = "idle", best \notin left
                 PROVE  \A a \in DOMAIN cache : cache[a].hash = best =>
                            \A f \in Fields : cache[a][f] \in {None, Data(a, best)}
      BY DEF CacheIsCurrent
    <2>1. tables = best
      BY DEF IInv, ChainInv, WriterInv
    <2> QED
      BY <2>1 DEF IInv, SpanInv, FreshLabels, Answers
  <1> QED
    BY <1>1, CacheInvariant, PTL

\* A value of the request's span, or any value once an old one will do, is an answer.
LEMMA GivesAnswer ==
    ASSUME IInv, NEW p \in Process, ask[p] # None, NEW v,
           UNCHANGED <<tables, best, inReorg, left>>, Answered(p, v),
           v \in Answers(ask[p].addr, IF ask[p].old \/ inReorg \/ best \in left THEN Block
                                      ELSE ask[p].since)
    PROVE  Service!Answer(p)
  BY DEF Service!Answer, Service!Asking, Answered, Answers

\* The questions and answers of a step of a request that neither asks nor replies.
LEMMA QuietIsSilent ==
    ASSUME Quiet, UNCHANGED chainVars
    PROVE  Service!Silent
  BY DEF Quiet, chainVars, Service!Silent

\* A cached value under the request's hash is an answer.
LEMMA HitAnswers ==
    ASSUME IInv, NEW p \in Process, NEW field \in Fields, rd[p].pc \in {"look", "lookbal"},
           Hit(p, field), Answered(p, Cached(rd[p].addr, field)), UNCHANGED chainVars
    PROVE  Service!Answer(p)
  <1> DEFINE a == rd[p].addr
             v == cache[a][field]
  <1>1. a \in DOMAIN cache /\ cache[a].hash = rd[p].hash /\ v # None /\ Cached(a, field) = v
    BY DEF Hit, Cached
  <1>2. ask[p] # None /\ ask[p].addr = a
    BY DEF IInv, QuestionInv, At
  <1>3. v \in Answers(a, Block)
    BY <1>1 DEF IInv, ValuesInv
  <1>4. ByHash(p) /\ SameBlock(cache, a, rd[p].hash)
    BY <1>1, AddressCacheAssumption DEF IInv, HashesKnown, Known, ChainInv, ChainType, ByHash, SameBlock
  <1>5. Strict(p) => v \in Answers(a, ask[p].since)
    BY <1>1, <1>4 DEF IInv, SpanInv, CacheInSpan
  <1>6. v \in Answers(ask[p].addr, IF ask[p].old \/ inReorg \/ best \in left THEN Block
                                   ELSE ask[p].since)
    BY <1>2, <1>3, <1>5 DEF Strict
  <1> QED
    BY <1>1, <1>2, <1>6, GivesAnswer DEF chainVars

\* So is the request's own result.
LEMMA ResultAnswers ==
    ASSUME IInv, NEW p \in Process, rd[p].pc \in {"store", "lookbal"},
           Answered(p, rd[p].got), UNCHANGED chainVars
    PROVE  Service!Answer(p)
  <1>1. ask[p] # None /\ ask[p].addr = rd[p].addr
    BY DEF IInv, QuestionInv, At
  <1>2. rd[p].got \in Answers(rd[p].addr, Block) /\ (Strict(p) => rd[p].got \in Answers(rd[p].addr, ask[p].since))
    BY DEF IInv, ValuesInv, SpanInv, OwnInSpan
  <1>3. rd[p].got \in Answers(ask[p].addr, IF ask[p].old \/ inReorg \/ best \in left THEN Block
                                           ELSE ask[p].since)
    BY <1>1, <1>2 DEF Strict
  <1> QED
    BY <1>1, <1>3, GivesAnswer DEF chainVars

\* Every step of a request is one of the service.
LEMMA ServeRefines ==
    ASSUME IInv, NEW p \in Process, Serve(p)
    PROVE  Service!Next
  <1>1. CASE ReadBest(p)
    <2>1. Service!ReadTip(p)
      <3>1. ask[p] # None
        BY <1>1 DEF ReadBest, IInv, QuestionInv, At
      <3> QED
        BY <1>1, <3>1 DEF ReadBest, Service!ReadTip, Service!Asking, chainVars
    <2> QED
      BY <2>1 DEF Service!Next
  <1>2. CASE Look(p)
    <2>0. FieldOf(rd[p].kind) \in Fields /\ UNCHANGED chainVars /\ rd[p].pc = "look"
      BY <1>2, FieldOfType DEF Look, At, IInv, RequestType, Record
    <2>1. CASE Quiet
      BY <2>0, <2>1, QuietIsSilent DEF Service!Next
    <2>2. CASE Hit(p, FieldOf(rd[p].kind)) /\ Reply(p, Cached(rd[p].addr, FieldOf(rd[p].kind)))
      BY <2>0, <2>2, HitAnswers DEF Reply, Service!Next
    <2> QED
      BY <1>2, <2>1, <2>2 DEF Look
  <1>3. CASE TryLock(p) \/ ReadBestAgain(p) \/ QueryDone(p) \/ DevLook(p)
    <2>1. Quiet /\ UNCHANGED chainVars
      BY <1>3 DEF TryLock, ReadBestAgain, QueryDone, DevLook
    <2> QED
      BY <2>1, QuietIsSilent DEF Service!Next
  <1>4. CASE QueryFails(p)
    <2>1. Service!Fail(p)
      <3>1. ask[p] # None
        BY <1>4 DEF QueryFails, IInv, QuestionInv, At
      <3> QED
        BY <1>4, <3>1 DEF QueryFails, Answered, Service!Fail, Service!Asking, chainVars
    <2> QED
      BY <2>1 DEF Service!Next
  <1>5. CASE StoreResult(p)
    <2>1. rd[p].pc = "store" /\ UNCHANGED chainVars /\ (Quiet \/ Answered(p, rd[p].got))
      BY <1>5 DEF StoreResult, At
    <2> QED
      BY <2>1, QuietIsSilent, ResultAnswers DEF Service!Next
  <1>6. CASE LookBalance(p)
    <2>0. rd[p].pc = "lookbal" /\ UNCHANGED chainVars /\ "balance" \in Fields
      BY <1>6 DEF LookBalance, At, Fields
    <2>1. CASE Quiet
      BY <2>0, <2>1, QuietIsSilent DEF Service!Next
    <2>2. CASE Hit(p, "balance") /\ Reply(p, Cached(rd[p].addr, "balance"))
      BY <2>0, <2>2, HitAnswers DEF Reply, Service!Next
    <2>3. CASE Reply(p, rd[p].got)
      BY <2>0, <2>3, ResultAnswers DEF Reply, Service!Next
    <2> QED
      BY <1>6, <2>1, <2>2, <2>3 DEF LookBalance
  <1>7. CASE DevBest(p)
    <2>0. rd[p].pc = "devbest" /\ UNCHANGED chainVars /\ ask[p] # None /\ ask[p].addr = rd[p].addr
          /\ {tables, best} \subseteq ask[p].since
      BY <1>7 DEF DevBest, At, IInv, QuestionInv
    <2>1. CASE Quiet
      BY <2>0, <2>1, QuietIsSilent DEF Service!Next
    <2>2. CASE rd[p].got = None /\ Reply(p, Error)
      <3>1. Service!Fail(p)
        BY <2>0, <2>2 DEF Reply, Answered, Service!Fail, Service!Asking, chainVars
      <3> QED
        BY <3>1 DEF Service!Next
    <2>3. CASE rd[p].got # None /\ Reply(p, rd[p].got) /\ (rd[p].hash = best \/ inReorg)
      <3>1. rd[p].got \in Answers(rd[p].addr, Block)
        BY <2>0, <2>3 DEF IInv, ValuesInv
      <3>2. best \notin left /\ rd[p].hash = best => rd[p].got \in Answers(rd[p].addr, {tables, best})
        BY <2>0, <2>3 DEF IInv, SpanInv, FreshLabels, Labelled
      <3>3. Answers(rd[p].addr, {tables, best}) \subseteq Answers(rd[p].addr, ask[p].since)
        <4>1. ask[p].since \in SUBSET Block
          BY <2>0 DEF IInv, QuestionInv, Question
        <4> QED
          BY <2>0, <4>1, AnswersType
      <3>4. rd[p].got \in Answers(ask[p].addr, IF ask[p].old \/ inReorg \/ best \in left THEN Block
                                               ELSE ask[p].since)
        BY <2>0, <2>3, <3>1, <3>2, <3>3
      <3> QED
        BY <2>0, <2>3, <3>4, GivesAnswer DEF Reply, chainVars, Service!Next
    <2> QED
      BY <1>7, <2>1, <2>2, <2>3 DEF DevBest
  <1> QED
    BY <1>1, <1>2, <1>3, <1>4, <1>5, <1>6, <1>7 DEF Serve

\* So is the beginning of one.
LEMMA BeginRefines ==
    ASSUME IInv, NEW p \in Process, NEW kind, NEW a \in Addr, Begin(p, kind, a)
    PROVE  Service!Next
  <1>1. ask[p] = None
    BY DEF Begin, IInv, QuestionInv
  <1>2. Service!Ask(p)
    BY <1>1 DEF Begin, Service!Ask, Service!Asking, chainVars
  <1> QED
    BY <1>2 DEF Service!Next

\* And every step of the storing goroutine.
LEMMA WriterRefines ==
    ASSUME IInv, WriterStep \/ \E b \in Block : Connect(b) \/ ReorgHandler(b)
    PROVE  Service!Next
  <1>b. Behind
    BY ConnectStep, ReorgStep, WriterStepBehind
  <1>t. tables' \in Block /\ inReorg \in BOOLEAN /\ inReorg' \in BOOLEAN
    BY <1>b DEF Behind, IInv, ChainInv, ChainType
  <1>1. ASSUME NEW t, WriteTables(t) PROVE Service!Write
    BY <1>1, <1>t DEF WriteTables, Service!Write, Service!Asking
  <1>2. CASE MoveBest(tables)
    BY <1>2 DEF MoveBest, Quiet, Service!MoveTip, Service!Next
  <1>3. CASE Quiet /\ UNCHANGED <<tables, best, left>>
    <2>1. CASE inReorg' = inReorg
      BY <1>3, <2>1 DEF Quiet, Service!Silent, Service!Next
    <2>2. CASE inReorg' # inReorg
      <3>1. inReorg' = ~inReorg
        BY <1>t, <2>2
      <3> QED
        BY <1>3, <3>1 DEF Quiet, Service!Reorganise, Service!Next
    <2> QED
      BY <2>1, <2>2
  <1> QED
    BY <1>1, <1>2, <1>3 DEF WriterStep, TipToSideChain, StoreBlock, FreshenBlock, EndReorg,
       Connect, ReorgHandler, Service!Next

\* The cache implements the service without a cache: whatever the interleaving of
\* requests with the storing of blocks, reorganisations and clears of the cache, an
\* answer is what the tables said at some moment between the question and the
\* answer, unless the best block was one that had been the best block before.
THEOREM CacheRefinesService == Spec => Implements
  <1>1. Init => Service!Init
    BY AddressCacheAssumption DEF Init, Service!Init
  <1>2. ASSUME IInv, [Next]_vars
        PROVE  [Service!Next]_Service!serviceVars
    <2>1. ASSUME NEW p \in Reader, NEW kind \in Kinds, NEW a \in Addr, Request(p, kind, a)
          PROVE  Service!Next
      BY <1>2, <2>1, BeginRefines DEF Request, Process
    <2>2. CASE UpdateProjectFundCache
      BY <1>2, <2>2, BeginRefines, AddressCacheAssumption DEF UpdateProjectFundCache, Process
    <2>3. ASSUME NEW p \in Process, Serve(p) PROVE Service!Next
      BY <1>2, <2>3, ServeRefines
    <2>4. CASE WriterStep \/ \E b \in Block : Connect(b) \/ ReorgHandler(b)
      BY <1>2, <2>4, WriterRefines
    <2>5. CASE UNCHANGED vars
      BY <2>5 DEF vars, chainVars, historyVars, Service!serviceVars
    <2> QED
      BY <1>2, <2>1, <2>2, <2>3, <2>4, <2>5 DEF Next
  <1> QED
    BY <1>1, <1>2, CacheInvariant, PTL DEF Spec, Implements, Service!Spec

-------------------------------------------------------------------------------
(* The locks.                                                               *)

LockId == {"bal", "utxo", "rows"} \X Addr

\* The lock of a request.
LEMMA MyLockType ==
    ASSUME RequestType, NEW p \in Process
    PROVE  MyLock(p) \in LockId /\ rd[p].pc \in Stages
  <1>1. rd[p] \in Record
    BY DEF RequestType
  <1>2. LockOf(rd[p].kind) \in {"bal", "utxo", "rows"}
    BY <1>1 DEF LockOf, Record, Kinds
  <1> QED
    BY <1>1, <1>2 DEF MyLock, LockId, Record

\* A step of one request that leaves the locks alone and is no step into or out of
\* the stages that hold one; it waits only on a lock that is taken.
LEMMA LocksStay ==
    ASSUME RequestType, LockInv, NEW p \in Process, NEW r, Goto(p, r), UNCHANGED locks,
           r.pc \in {"rebest", "query", "store"} <=> Holds(p),
           Holds(p) => LockOf(r.kind) = LockOf(rd[p].kind) /\ r.addr = rd[p].addr,
           r.pc = "wait" => locks[<<LockOf(r.kind), r.addr>>] # None
    PROVE  LockInv'
  <1>1. rd'[p] = r /\ \A q \in Process : q # p => rd'[q] = rd[q]
    BY DEF Goto, RequestType
  <1>2. \A q \in Process : Holds(q)' = Holds(q) /\ (Holds(q) => MyLock(q)' = MyLock(q))
    BY <1>1 DEF Holds, MyLock
  <1>3. \A q \in Process : At(q, "wait")' => locks[MyLock(q)'] # None
    BY <1>1 DEF LockInv, At, MyLock
  <1>4. \A q \in Process : Holds(q)' => locks[MyLock(q)'] = q
    BY <1>2 DEF LockInv
  <1>5. \A l \in LockId : locks[l] # None => Holds(locks[l])' /\ MyLock(locks[l])' = l
    <2> SUFFICES ASSUME NEW l \in LockId, locks[l] # None
                 PROVE  Holds(locks[l])' /\ MyLock(locks[l])' = l
      OBVIOUS
    <2>1. PICK q \in Process : q = locks[l]
      BY DEF LockInv, LockId
    <2>2. Holds(q) /\ MyLock(q) = l
      BY <2>1 DEF LockInv, LockId
    <2>3. Holds(q)' /\ MyLock(q)' = l
      BY <1>2, <2>2
    <2> QED
      BY <2>1, <2>3 DEF Holds, MyLock
  <1> QED
    BY <1>3, <1>4, <1>5 DEF LockInv, LockId

\* done(): the holder is past it, and all who waited start again.
LEMMA LocksReleased ==
    ASSUME RequestType, LockInv, NEW p \in Process, Holds(p), NEW r, Release(p, r),
           r.pc \notin {"rebest", "query", "store", "wait"}
    PROVE  LockInv'
  <1> DEFINE l0 == MyLock(p)
  <1>0. l0 \in LockId /\ locks[l0] = p /\ locks \in [LockId -> Process \cup {None}]
    BY MyLockType DEF LockInv, LockId
  <1>1. locks' = [locks EXCEPT ![l0] = None] /\ rd' = [Wake(p) EXCEPT ![p] = r]
    BY DEF Release
  <1>2. /\ locks' \in [LockId -> Process \cup {None}] /\ locks'[l0] = None
        /\ \A l \in LockId : l # l0 => locks'[l] = locks[l]
    BY <1>0, <1>1
  <1>3. rd'[p] = r /\ \A q \in Process : q # p => rd'[q] = Wake(p)[q]
    BY <1>1 DEF Wake
  <1>4. ASSUME NEW q \in Process, q # p
        PROVE  /\ MyLock(q)' = MyLock(q) /\ Holds(q)' = Holds(q)
               /\ At(q, "wait")' => At(q, "wait") /\ MyLock(q) # l0
    <2>1. rd'[q] = IF At(q, "wait") /\ MyLock(q) = l0 THEN [rd[q] EXCEPT !.pc = "best"] ELSE rd[q]
      BY <1>3, <1>4 DEF Wake
    <2>2. CASE At(q, "wait") /\ MyLock(q) = l0
      <3>1. rd'[q].pc = "best" /\ rd'[q].kind = rd[q].kind /\ rd'[q].addr = rd[q].addr
        BY <2>1, <2>2 DEF RequestType, Record
      <3> QED
        BY <2>2, <3>1 DEF MyLock, Holds, At
    <2>3. CASE ~(At(q, "wait") /\ MyLock(q) = l0)
      BY <2>1, <2>3 DEF MyLock, Holds, At
    <2> QED
      BY <2>2, <2>3
  <1>5. ~Holds(p)' /\ ~At(p, "wait")'
    BY <1>3 DEF Holds, At
  <1>6. \A q \in Process : Holds(q) => locks[MyLock(q)] = q
    BY DEF LockInv
  <1> HIDE DEF l0
  <1>7. ASSUME NEW q \in Process, Holds(q)' PROVE locks'[MyLock(q)'] = q
    <2>1. q # p /\ Holds(q) /\ MyLock(q)' = MyLock(q) /\ MyLock(q) \in LockId
      BY <1>4, <1>5, <1>7, MyLockType
    <2>2. MyLock(q) # l0
      BY <1>0, <1>6, <2>1
    <2> QED
      BY <1>2, <1>6, <2>1, <2>2
  <1>8. ASSUME NEW q \in Process, At(q, "wait")' PROVE locks'[MyLock(q)'] # None
    <2>1. q # p /\ At(q, "wait") /\ MyLock(q)' = MyLock(q) /\ MyLock(q) \in LockId /\ MyLock(q) # l0
      BY <1>4, <1>5, <1>8, MyLockType
    <2> QED
      BY <1>2, <2>1 DEF LockInv
  <1>9. ASSUME NEW l \in LockId, locks'[l] # None
        PROVE  Holds(locks[l])' /\ MyLock(locks[l])' = l
    <2>1. l # l0 /\ locks'[l] = locks[l]
      BY <1>2, <1>9
    <2>2. PICK q \in Process : q = locks[l]
      BY <1>0, <1>9, <2>1
    <2>3. Holds(q) /\ MyLock(q) = l
      BY <1>9, <2>1, <2>2 DEF LockInv, LockId
    <2>4. q # p
      BY <2>1, <2>3 DEF l0
    <2>5. Holds(q)' /\ MyLock(q)' = l
      BY <1>4, <2>3, <2>4
    <2>6. q = locks'[l]
      BY <2>1, <2>2
    <2> QED
      BY <2>5, <2>6 DEF Holds, MyLock
  <1> QED
    BY <1>2, <1>7, <1>8, <1>9 DEF LockInv, LockId

\* TryLock: the lock was free, so nobody holds it and nobody waits.
LEMMA LockTaken ==
    ASSUME RequestType, LockInv, NEW p \in Process, ~Holds(p), NEW r, Goto(p, r),
           locks[MyLock(p)] = None, locks' = [locks EXCEPT ![MyLock(p)] = p],
           r.pc \in {"rebest", "query", "store"}, r.kind = rd[p].kind, r.addr = rd[p].addr
    PROVE  LockInv'
  <1> DEFINE l0 == MyLock(p)
  <1>0. l0 \in LockId /\ locks \in [LockId -> Process \cup {None}]
    BY MyLockType DEF LockInv, LockId
  <1>1. /\ locks' \in [LockId -> Process \cup {None}] /\ locks'[l0] = p
        /\ \A l \in LockId : l # l0 => locks'[l] = locks[l]
    BY <1>0
  <1>2. rd'[p] = r /\ \A q \in Process : q # p => rd'[q] = rd[q]
    BY DEF Goto, RequestType
  <1>3. Holds(p)' /\ ~At(p, "wait")' /\ MyLock(p)' = l0
    BY <1>2 DEF Holds, At, MyLock
  <1>4. \A q \in Process : q # p =>
           (Holds(q)' <=> Holds(q)) /\ MyLock(q)' = MyLock(q) /\ (At(q, "wait")' <=> At(q, "wait"))
    BY <1>2 DEF Holds, At, MyLock
  <1>5. locks[l0] = None /\ p # None
    BY AddressCacheAssumption
  <1> HIDE DEF l0
  <1>6. ASSUME NEW q \in Process, Holds(q)' PROVE locks'[MyLock(q)'] = q
    <2>1. CASE q = p
      BY <1>1, <1>3, <2>1
    <2>2. CASE q # p
      <3>1. Holds(q) /\ MyLock(q)' = MyLock(q) /\ MyLock(q) \in LockId
        BY <1>4, <1>6, <2>2, MyLockType
      <3>2. locks[MyLock(q)] = q /\ q # None
        BY <3>1, AddressCacheAssumption DEF LockInv
      <3> QED
        BY <1>1, <1>5, <3>1, <3>2
    <2> QED
      BY <2>1, <2>2
  <1>7. ASSUME NEW q \in Process, At(q, "wait")' PROVE locks'[MyLock(q)'] # None
    <2>1. q # p /\ At(q, "wait") /\ MyLock(q)' = MyLock(q) /\ MyLock(q) \in LockId
      BY <1>3, <1>4, <1>7, MyLockType
    <2>2. locks[MyLock(q)] # None
      BY <2>1 DEF LockInv
    <2> QED
      BY <1>1, <1>5, <2>1, <2>2
  <1>8. ASSUME NEW l \in LockId, locks'[l] # None
        PROVE  Holds(locks[l])' /\ MyLock(locks[l])' = l
    <2>1. CASE l = l0
      <3>1. p = locks'[l]
        BY <1>1, <2>1
      <3> QED
        BY <1>3, <2>1, <3>1 DEF Holds, MyLock
    <2>2. CASE l # l0
      <3>1. locks'[l] = locks[l]
        BY <1>1, <2>2
      <3>2. PICK q \in Process : q = locks[l]
        BY <1>0, <1>8, <3>1
      <3>3. Holds(q) /\ MyLock(q) = l
        BY <1>8, <3>1, <3>2 DEF LockInv, LockId
      <3>4. q # p
        BY <2>2, <3>3 DEF l0
      <3>5. Holds(q)' /\ MyLock(q)' = l
        BY <1>4, <3>3, <3>4
      <3>6. q = locks'[l]
        BY <3>1, <3>2
      <3> QED
        BY <3>5, <3>6 DEF Holds, MyLock
    <2> QED
      BY <2>1, <2>2
  <1> QED
    BY <1>1, <1>6, <1>7, <1>8 DEF LockInv, LockId

\* A request that begins, starts again or ends without a lock.
LEMMA LocksUntouched ==
    ASSUME RequestType, LockInv, NEW p \in Process, ~Holds(p), NEW r, Goto(p, r), UNCHANGED locks,
           r.pc \notin {"rebest", "query", "store", "wait"}
    PROVE  LockInv'
  BY LocksStay

\* Every step of a request keeps the locks right.
LEMMA ServeLocks ==
    ASSUME RequestType, LockInv, NEW p \in Process, Serve(p)
    PROVE  LockInv'
  <1> DEFINE r == rd[p]
  <1>0. r \in Record /\ Idle.pc = "idle"
    BY DEF RequestType, Idle
  <1>1. CASE ReadBest(p)
    <2> DEFINE s == [r EXCEPT !.pc = "look", !.hash = best, !.label = best]
    <2>1. Goto(p, s) /\ UNCHANGED locks /\ ~Holds(p) /\ s.pc = "look"
      BY <1>0, <1>1 DEF ReadBest, At, Holds, Record
    <2> HIDE DEF s
    <2> QED
      BY <2>1, LocksUntouched
  <1>2. CASE Look(p)
    <2>0. UNCHANGED locks /\ ~Holds(p)
      BY <1>2 DEF Look, At, Holds
    <2>1. CASE \E v : Goto(p, [r EXCEPT !.pc = "lookbal", !.got = v, !.label = None])
      <3>1. PICK v : Goto(p, [r EXCEPT !.pc = "lookbal", !.got = v, !.label = None])
        BY <2>1
      <3> DEFINE s == [r EXCEPT !.pc = "lookbal", !.got = v, !.label = None]
      <3>2. Goto(p, s) /\ s.pc = "lookbal"
        BY <1>0, <3>1 DEF Record
      <3> HIDE DEF s
      <3> QED
        BY <2>0, <3>2, LocksUntouched
    <2>2. CASE \E v : Goto(p, [r EXCEPT !.pc = "lock", !.got = v])
      <3>1. PICK v : Goto(p, [r EXCEPT !.pc = "lock", !.got = v])
        BY <2>2
      <3> DEFINE s == [r EXCEPT !.pc = "lock", !.got = v]
      <3>2. Goto(p, s) /\ s.pc = "lock"
        BY <1>0, <3>1 DEF Record
      <3> HIDE DEF s
      <3> QED
        BY <2>0, <3>2, LocksUntouched
    <2>3. CASE Goto(p, Idle)
      BY <1>0, <2>0, <2>3, LocksUntouched
    <2> QED
      BY <1>2, <2>1, <2>2, <2>3 DEF Look, Reply
  <1>3. CASE TryLock(p)
    <2>0. ~Holds(p)
      BY <1>3 DEF TryLock, At, Holds
    <2>1. CASE /\ locks[MyLock(p)] # None /\ UNCHANGED locks
               /\ Goto(p, [r EXCEPT !.pc = "wait", !.hash = None, !.label = None, !.got = None])
      <3> DEFINE s == [r EXCEPT !.pc = "wait", !.hash = None, !.label = None, !.got = None]
      <3>1. Goto(p, s) /\ s.pc = "wait" /\ s.kind = r.kind /\ s.addr = r.addr
        BY <1>0, <2>1 DEF Record
      <3> HIDE DEF s
      <3>2. locks[<<LockOf(s.kind), s.addr>>] # None
        BY <2>1, <3>1 DEF MyLock
      <3> QED
        BY <2>0, <2>1, <3>1, <3>2, LocksStay
    <2>2. CASE /\ locks[MyLock(p)] = None /\ locks' = [locks EXCEPT ![MyLock(p)] = p]
               /\ Goto(p, [r EXCEPT !.pc = IF LockOf(r.kind) = "rows" THEN "rebest" ELSE "query",
                                    !.got = None, !.hash = IF r.kind = "history" THEN @ ELSE None])
      <3> DEFINE s == [r EXCEPT !.pc = IF LockOf(r.kind) = "rows" THEN "rebest" ELSE "query",
                                !.got = None, !.hash = IF r.kind = "history" THEN @ ELSE None]
      <3>1. Goto(p, s) /\ s.pc \in {"rebest", "query", "store"} /\ s.kind = r.kind /\ s.addr = r.addr
        BY <1>0, <2>2 DEF Record
      <3> HIDE DEF s
      <3> QED
        BY <2>0, <2>2, <3>1, LockTaken
    <2> QED
      BY <1>3, <2>1, <2>2 DEF TryLock
  <1>4. CASE ReadBestAgain(p)
    <2> DEFINE s == [r EXCEPT !.pc = "query", !.label = best]
    <2>1. /\ Goto(p, s) /\ UNCHANGED locks /\ Holds(p) /\ s.pc = "query" /\ s.kind = r.kind /\ s.addr = r.addr
      BY <1>0, <1>4 DEF ReadBestAgain, At, Holds, Record
    <2> HIDE DEF s
    <2> QED
      BY <2>1, LocksStay
  <1>5. CASE QueryDone(p)
    <2> DEFINE s == [r EXCEPT !.pc = "store", !.got = Data(r.addr, tables)]
    <2>1. /\ Goto(p, s) /\ UNCHANGED locks /\ Holds(p) /\ s.pc = "store" /\ s.kind = r.kind /\ s.addr = r.addr
      BY <1>0, <1>5 DEF QueryDone, At, Holds, Record
    <2> HIDE DEF s
    <2> QED
      BY <2>1, LocksStay
  <1>6. CASE QueryFails(p)
    <2>1. Release(p, Idle) /\ Holds(p)
      BY <1>6 DEF QueryFails, At, Holds
    <2> QED
      BY <1>0, <2>1, LocksReleased
  <1>7. CASE StoreResult(p)
    <2> DEFINE s == IF r.kind = "history" THEN [r EXCEPT !.pc = "lookbal", !.label = None] ELSE Idle
    <2>1. Release(p, s) /\ Holds(p) /\ s.pc \in {"lookbal", "idle"}
      BY <1>0, <1>7 DEF StoreResult, At, Holds, Record
    <2> HIDE DEF s
    <2> QED
      BY <2>1, LocksReleased
  <1>8. CASE LookBalance(p) \/ DevBest(p)
    <2>0. UNCHANGED locks /\ ~Holds(p)
      BY <1>8 DEF LookBalance, DevBest, At, Holds
    <2>1. CASE Goto(p, [r EXCEPT !.pc = "best", !.kind = "balance", !.hash = None, !.got = None])
      <3> DEFINE s == [r EXCEPT !.pc = "best", !.kind = "balance", !.hash = None, !.got = None]
      <3>1. Goto(p, s) /\ s.pc = "best"
        BY <1>0, <2>1 DEF Record
      <3> HIDE DEF s
      <3> QED
        BY <2>0, <3>1, LocksUntouched
    <2>2. CASE Goto(p, Idle)
      BY <1>0, <2>0, <2>2, LocksUntouched
    <2> QED
      BY <1>8, <2>1, <2>2 DEF LookBalance, DevBest, Reply
  <1>9. CASE DevLook(p)
    <2> DEFINE value == Cached(r.addr, "balance")
               hash == IF value # None THEN cache[r.addr].hash ELSE None
               s == [r EXCEPT !.pc = "devbest", !.got = value, !.hash = hash]
    <2>1. Goto(p, s) /\ s.pc = "devbest"
      BY <1>0, <1>9 DEF DevLook, Record
    <2> HIDE DEF s
    <2>2. UNCHANGED locks /\ ~Holds(p)
      BY <1>9 DEF DevLook, At, Holds
    <2> QED
      BY <2>1, <2>2, LocksUntouched
  <1> QED
    BY <1>1, <1>2, <1>3, <1>4, <1>5, <1>6, <1>7, <1>8, <1>9 DEF Serve

\* So does everything else.
LEMMA NextLocks == RequestType /\ LockInv /\ [Next]_vars => LockInv'
  <1> SUFFICES ASSUME RequestType, LockInv, [Next]_vars PROVE LockInv'
    OBVIOUS
  <1>1. ASSUME NEW p \in Process, NEW kind, NEW a, Begin(p, kind, a)
        PROVE  LockInv'
    <2> DEFINE s == [Idle EXCEPT !.pc = IF kind = "dev" THEN "devlook" ELSE "best", !.kind = kind, !.addr = a]
    <2>1. Goto(p, s) /\ s.pc \in {"devlook", "best"}
      BY <1>1 DEF Begin, Idle
    <2> HIDE DEF s
    <2>2. UNCHANGED locks /\ ~Holds(p)
      BY <1>1 DEF Begin, At, Holds
    <2> QED
      BY <2>1, <2>2, LocksUntouched
  <1>2. CASE UNCHANGED <<locks, rd>>
    BY <1>2 DEF LockInv, Holds, MyLock, At
  <1>3. CASE WriterStep \/ (\E b \in Block : Connect(b) \/ ReorgHandler(b)) \/ UNCHANGED vars
    <2>1. UNCHANGED <<locks, rd>>
      BY <1>3 DEF WriterStep, TipToSideChain, StoreBlock, FreshenBlock, EndReorg, WriteTables,
                  MoveBest, Connect, ReorgHandler, vars
    <2> QED
      BY <1>2, <2>1
  <1>4. CASE \E p \in Reader, kind \in Kinds, a \in Addr : Request(p, kind, a)
    BY <1>1, <1>4 DEF Request, Process
  <1>5. CASE UpdateProjectFundCache
    BY <1>1, <1>5 DEF UpdateProjectFundCache, Process
  <1>6. CASE \E p \in Process : Serve(p)
    BY <1>6, ServeLocks
  <1> QED
    BY <1>3, <1>4, <1>5, <1>6 DEF Next

\* A request that waits for a CacheLock waits for one that is held, by a request
\* that is on its way to release it: no failed query and no woken waiter leaves
\* anybody waiting for a lock that is free.
THEOREM NobodyWaitsInVain == Spec => []WaitersAreWoken
  <1>1. Init => LockInv
    BY DEF Init, LockInv, Holds, At, Idle
  <1>2. IInv => RequestType
    BY DEF IInv
  <1>3. RequestType /\ LockInv => WaitersAreWoken
    <2> SUFFICES ASSUME RequestType, LockInv, NEW p \in Process, At(p, "wait")
                 PROVE  \E q \in Process : locks[MyLock(p)] = q /\ rd[q].pc \in {"rebest", "query", "store"}
      BY DEF WaitersAreWoken
    <2>1. MyLock(p) \in LockId /\ locks[MyLock(p)] # None
      BY MyLockType DEF LockInv
    <2>2. locks[MyLock(p)] \in Process
      BY <2>1 DEF LockInv, LockId
    <2> QED
      BY <2>1, <2>2 DEF LockInv, LockId, Holds
  <1> QED
    BY <1>1, <1>2, <1>3, NextLocks, CacheInvariant, PTL DEF Spec

-------------------------------------------------------------------------------
(* Sums of rows.  length adds up the rows of a cache by a recursive function *)
(* on the subsets of its addresses: that there is one, and what it returns,  *)
(* is shown by looking at a smallest counterexample.                         *)

\* A nonempty set of natural numbers has a least element.
LEMMA LeastNumber ==
    ASSUME NEW S \in SUBSET Nat, S # {}
    PROVE  \E n \in S : \A m \in S : n <= m
  <1>1. PICK n \in S : \A m \in S : ~ (<<m, n>> \in OpToRel(<, Nat))
    BY NatLessThanWellFounded, WFMin
  <1>2. \A m \in S : ~ (<<m, n>> \in {ss \in Nat \X Nat : ss[1] < ss[2]})
    BY <1>1 DEF OpToRel
  <1>3. ASSUME NEW m \in S PROVE n <= m
    <2>1. m \in Nat /\ n \in Nat
      OBVIOUS
    <2>2. ~ (<<m, n>> \in {ss \in Nat \X Nat : ss[1] < ss[2]})
      BY <1>2
    <2>3. ~ (m < n)
      BY <2>1, <2>2
    <2> QED
      BY <2>1, <2>3
  <1> QED
    BY <1>3

\* The function of length: sum adds up the rows of cache c over the subsets of S.
IsSum(sum, c, S) ==
    sum = [s \in SUBSET S |->
              IF s = {} THEN 0
              ELSE LET x == CHOOSE x \in s : TRUE IN NumRows(c[x]) + sum[s \ {x}]]

LEMMA LengthIsSum ==
    ASSUME NEW c PROVE length(c) = (CHOOSE sum : IsSum(sum, c, DOMAIN c))[DOMAIN c]
  BY DEF length, MapThenSumSet, MapThenFoldSet, IsSum

\* A set without one of its elements is smaller.
LEMMA OneLess ==
    ASSUME NEW S, IsFiniteSet(S), NEW s \in SUBSET S, NEW x \in s
    PROVE  /\ IsFiniteSet(s) /\ Cardinality(s) \in Nat /\ Cardinality(s) > 0
           /\ s \ {x} \in SUBSET S /\ Cardinality(s \ {x}) = Cardinality(s) - 1
  <1>1. IsFiniteSet(s) /\ Cardinality(s) \in Nat
    BY FS_Subset, FS_CardinalityType
  <1>2. Cardinality(s \ {x}) = Cardinality(s) - 1 /\ IsFiniteSet(s \ {x})
    BY <1>1, FS_RemoveElement
  <1>3. Cardinality(s \ {x}) \in Nat
    BY <1>2, FS_CardinalityType
  <1> QED
    BY <1>1, <1>2, <1>3

\* There is such a function.
LEMMA SumExists ==
    ASSUME NEW c, NEW S, IsFiniteSet(S)
    PROVE  \E sum : IsSum(sum, c, S)
  <1> DEFINE Part(n) == {s \in SUBSET S : Cardinality(s) <= n}
             Pick(s) == CHOOSE x \in s : TRUE
             Next1(f, n) == [s \in Part(n) |->
                               IF s = {} THEN 0 ELSE NumRows(c[Pick(s)]) + f[s \ {Pick(s)}]]
             Bad == {n \in Nat : ~ \E f : f = Next1(f, n)}
  <1>1. \A s \in SUBSET S : Cardinality(s) \in Nat /\ (Cardinality(s) = 0 <=> s = {})
    BY FS_Subset, FS_CardinalityType, FS_EmptySet
  <1>2. \A s \in SUBSET S : s # {} => Pick(s) \in s
    OBVIOUS
  <1>3. \A s \in SUBSET S : s # {} =>
           s \ {Pick(s)} \in SUBSET S /\ Cardinality(s \ {Pick(s)}) = Cardinality(s) - 1
    BY <1>2, OneLess
  <1> HIDE DEF Pick
  <1>4. Bad = {}
    <2>1. SUFFICES ASSUME Bad # {} PROVE FALSE
      OBVIOUS
    <2>2. PICK n \in Bad : \A m \in Bad : n <= m
      <3>1. Bad \in SUBSET Nat
        OBVIOUS
      <3> HIDE DEF Bad
      <3> QED
        BY <2>1, <3>1, LeastNumber
    <2>3. n \in Nat /\ ~ \E f : f = Next1(f, n)
      OBVIOUS
    <2>4. CASE n = 0
      <3> DEFINE f == [s \in Part(0) |-> 0]
      <3>1. \A s \in Part(0) : s = {}
        BY <1>1
      <3>2. f = Next1(f, 0)
        BY <3>1
      <3> QED
        BY <2>3, <2>4, <3>2
    <2>5. CASE n # 0
      <3>1. n - 1 \in Nat /\ n - 1 \notin Bad
        <4>1. n - 1 \in Nat /\ ~(n <= n - 1)
          BY <2>3, <2>5
        <4> HIDE DEF Bad
        <4> QED
          BY <2>2, <4>1
      <3>2. PICK f : f = Next1(f, n - 1)
        BY <3>1
      <3> DEFINE k == Next1(f, n)
      <3>3. Part(n - 1) \subseteq Part(n)
        BY <1>1, <2>3
      <3>4. \A s \in Part(n - 1) : k[s] = f[s]
        BY <3>2, <3>3
      <3>5. \A s \in Part(n) : s # {} => s \ {Pick(s)} \in Part(n - 1)
        BY <1>1, <1>3, <2>3
      <3>6. \A s \in Part(n) : s # {} => f[s \ {Pick(s)}] = k[s \ {Pick(s)}]
        BY <3>4, <3>5
      <3>7. k = Next1(k, n)
        BY <3>6
      <3> QED
        BY <2>3, <3>7
    <2> QED
      BY <2>4, <2>5
  <1>5. Cardinality(S) \in Nat /\ Part(Cardinality(S)) = SUBSET S
    BY <1>1, FS_Subset, FS_CardinalityType
  <1>6. PICK f : f = Next1(f, Cardinality(S))
    BY <1>4, <1>5
  <1>7. f = [s \in SUBSET S |-> IF s = {} THEN 0 ELSE NumRows(c[Pick(s)]) + f[s \ {Pick(s)}]]
    BY <1>5, <1>6
  <1> QED
    BY <1>7 DEF IsSum, Pick

\* What it returns: whichever element is taken first, the sum is the same.
LEMMA SumValue ==
    ASSUME NEW c, NEW S, IsFiniteSet(S), \A x \in S : NumRows(c[x]) \in Nat,
           NEW sum, IsSum(sum, c, S)
    PROVE  /\ sum[{}] = 0
           /\ \A s \in SUBSET S : sum[s] \in Nat
           /\ \A s \in SUBSET S : \A x \in s : sum[s] = NumRows(c[x]) + sum[s \ {x}]
  <1> DEFINE Pick(s) == CHOOSE x \in s : TRUE
  <1>1. \A s \in SUBSET S : s # {} =>
           Pick(s) \in s /\ s \ {Pick(s)} \in SUBSET S
             /\ sum[s] = NumRows(c[Pick(s)]) + sum[s \ {Pick(s)}]
    BY DEF IsSum
  <1>2. sum[{}] = 0
    BY DEF IsSum
  <1> HIDE DEF Pick
  <1> DEFINE Good(s) == /\ sum[s] \in Nat
                        /\ \A x \in s : sum[s] = NumRows(c[x]) + sum[s \ {x}]
             Bad == {n \in Nat : \E s \in SUBSET S : Cardinality(s) = n /\ ~Good(s)}
  <1>3. \A s \in SUBSET S : Cardinality(s) \in Nat
    BY FS_Subset, FS_CardinalityType
  <1>4. Bad = {}
    <2>1. SUFFICES ASSUME Bad # {} PROVE FALSE
      OBVIOUS
    <2>2. PICK n \in Bad : \A m \in Bad : n <= m
      <3>1. Bad \in SUBSET Nat
        OBVIOUS
      <3> HIDE DEF Bad
      <3> QED
        BY <2>1, <3>1, LeastNumber
    <2>3. PICK s \in SUBSET S : Cardinality(s) = n /\ ~Good(s)
      OBVIOUS
    <2>4. s # {}
      BY <1>2, <2>3
    <2>5. \A t \in SUBSET S : Cardinality(t) = n - 1 => Good(t)
      BY <1>3, <2>2, <2>3
    <2>6. \A x \in s : s \ {x} \in SUBSET S /\ Good(s \ {x})
      <3>1. ASSUME NEW x \in s PROVE s \ {x} \in SUBSET S /\ Cardinality(s \ {x}) = n - 1
        BY <2>3, OneLess
      <3> HIDE DEF Good
      <3> QED
        BY <2>5, <3>1
    <2>7. Pick(s) \in s /\ sum[s] = NumRows(c[Pick(s)]) + sum[s \ {Pick(s)}]
      BY <1>1, <2>4
    <2>8. sum[s] \in Nat
      <3>1. sum[s \ {Pick(s)}] \in Nat /\ NumRows(c[Pick(s)]) \in Nat
        BY <2>6, <2>7
      <3> HIDE DEF Good, Bad
      <3> QED
        BY <2>7, <3>1
    <2>9. ASSUME NEW x \in s PROVE sum[s] = NumRows(c[x]) + sum[s \ {x}]
      <3>1. CASE x = Pick(s)
        BY <2>7, <3>1
      <3>2. CASE x # Pick(s)
        <4> DEFINE y == Pick(s)
                   r == (s \ {x}) \ {y}
        <4>1. y \in s \ {x} /\ x \in s \ {y} /\ r = (s \ {y}) \ {x}
          BY <2>7, <3>2
        <4>2. sum[s \ {y}] = NumRows(c[x]) + sum[r]
          BY <2>6, <2>7, <4>1
        <4>3. sum[s \ {x}] = NumRows(c[y]) + sum[r]
          BY <2>6, <4>1
        <4>4. sum[r] \in Nat
          <5>1. s \ {x} \in SUBSET S /\ Good(s \ {x})
            BY <2>6
          <5>2. sum[s \ {x}] = NumRows(c[y]) + sum[r] /\ r \in SUBSET S
            BY <4>1, <5>1
          <5>3. Cardinality(s \ {x}) = n - 1
            BY <2>3, OneLess
          <5>4. Cardinality(r) = Cardinality(s \ {x}) - 1
            BY <4>1, <5>1, OneLess
          <5>5. Cardinality(r) \in Nat /\ n \in Nat /\ ~(n <= Cardinality(r))
            BY <1>3, <5>2, <5>3, <5>4
          <5>6. Cardinality(r) \notin Bad
            <6> HIDE DEF Bad, r
            <6> QED
              BY <2>2, <5>5
          <5>7. Good(r)
            <6> HIDE DEF Good, r
            <6> QED
              BY <5>2, <5>5, <5>6
          <5> QED
            BY <5>7
        <4>5. NumRows(c[x]) \in Nat /\ NumRows(c[y]) \in Nat
          BY <2>7
        <4> HIDE DEF y, r, Good, Bad
        <4>6. sum[s] = NumRows(c[y]) + sum[s \ {y}]
          BY <2>7 DEF y
        <4> QED
          BY <4>2, <4>3, <4>4, <4>5, <4>6
      <3> QED
        BY <3>1, <3>2
    <2> QED
      BY <2>3, <2>8, <2>9
  <1>5. \A s \in SUBSET S : Good(s)
    BY <1>3, <1>4
  <1> QED
    BY <1>2, <1>5

\* Fewer addresses with fewer rows have a smaller sum.
LEMMA SumShrinks ==
    ASSUME NEW c, NEW S, IsFiniteSet(S), \A x \in S : NumRows(c[x]) \in Nat,
           NEW d, NEW T, IsFiniteSet(T), \A x \in T : NumRows(d[x]) \in Nat,
           NEW sumC, IsSum(sumC, c, S), NEW sumD, IsSum(sumD, d, T),
           NEW R \in SUBSET (S \cap T), \A x \in R : NumRows(d[x]) <= NumRows(c[x])
    PROVE  sumD[R] <= sumC[S]
  <1>1. /\ \A s \in SUBSET S : sumC[s] \in Nat
        /\ \A s \in SUBSET S : \A x \in s : sumC[s] = NumRows(c[x]) + sumC[s \ {x}]
    BY SumValue
  <1>2. /\ \A s \in SUBSET T : sumD[s] \in Nat
        /\ \A s \in SUBSET T : \A x \in s : sumD[s] = NumRows(d[x]) + sumD[s \ {x}]
        /\ sumD[{}] = 0
    BY SumValue
  <1> DEFINE Good(s) == sumD[s \cap R] <= sumC[s]
             Bad == {n \in Nat : \E s \in SUBSET S : Cardinality(s) = n /\ ~Good(s)}
  <1>3. \A s \in SUBSET S : Cardinality(s) \in Nat
    BY FS_Subset, FS_CardinalityType
  <1>4. Bad = {}
    <2>1. SUFFICES ASSUME Bad # {} PROVE FALSE
      OBVIOUS
    <2>2. PICK n \in Bad : \A m \in Bad : n <= m
      <3>1. Bad \in SUBSET Nat
        OBVIOUS
      <3> HIDE DEF Bad
      <3> QED
        BY <2>1, <3>1, LeastNumber
    <2>3. PICK s \in SUBSET S : Cardinality(s) = n /\ ~Good(s)
      OBVIOUS
    <2>4. PICK x \in s : TRUE
      <3>1. s = {} => Good(s)
        <4>1. {} \cap R = {} /\ sumC[{}] \in Nat
          BY <1>1
        <4> QED
          BY <1>2, <4>1
      <3> QED
        BY <2>3, <3>1
    <2>5. s \ {x} \in SUBSET S /\ Good(s \ {x})
      <3>1. s \ {x} \in SUBSET S /\ Cardinality(s \ {x}) = n - 1
        BY <2>3, OneLess
      <3>2. n - 1 \notin Bad /\ n - 1 \in Nat
        BY <1>3, <2>2, <3>1
      <3> QED
        BY <3>1, <3>2
    <2>6. sumC[s] = NumRows(c[x]) + sumC[s \ {x}] /\ sumC[s \ {x}] \in Nat /\ NumRows(c[x]) \in Nat
      BY <1>1, <2>5
    <2>7. (s \ {x}) \cap R \in SUBSET T /\ sumD[(s \ {x}) \cap R] \in Nat
      BY <1>2
    <2>8. CASE x \in R
      <3>1. s \cap R \in SUBSET T /\ x \in s \cap R /\ (s \cap R) \ {x} = (s \ {x}) \cap R
        BY <2>8
      <3>2. sumD[s \cap R] = NumRows(d[x]) + sumD[(s \ {x}) \cap R]
        BY <1>2, <3>1
      <3>3. NumRows(d[x]) \in Nat /\ NumRows(d[x]) <= NumRows(c[x])
        BY <2>8
      <3>4. sumD[(s \ {x}) \cap R] <= sumC[s \ {x}]
        BY <2>5
      <3>5. sumD[s \cap R] <= sumC[s]
        <4> HIDE DEF Good, Bad
        <4> QED
          BY <2>6, <2>7, <3>2, <3>3, <3>4
      <3> QED
        BY <2>3, <3>5
    <2>9. CASE x \notin R
      <3>1. s \cap R = (s \ {x}) \cap R
        BY <2>9
      <3>2. sumD[(s \ {x}) \cap R] <= sumC[s \ {x}]
        BY <2>5
      <3>3. sumD[s \cap R] = sumD[(s \ {x}) \cap R]
        BY <3>1
      <3>4. sumD[s \cap R] <= sumC[s]
        <4> HIDE DEF Good, Bad
        <4> QED
          BY <2>6, <2>7, <3>2, <3>3
      <3> QED
        BY <2>3, <3>4
    <2> QED
      BY <2>8, <2>9
  <1>5. Good(S)
    BY <1>3, <1>4
  <1>6. S \cap R = R
    OBVIOUS
  <1> QED
    BY <1>5, <1>6

\* The rows of a finite cache, and their sum.
LEMMA LengthSum ==
    ASSUME NEW c, IsFiniteSet(DOMAIN c)
    PROVE  \E sum : IsSum(sum, c, DOMAIN c) /\ length(c) = sum[DOMAIN c]
  <1> DEFINE sum == CHOOSE f : IsSum(f, c, DOMAIN c)
  <1>1. IsSum(sum, c, DOMAIN c)
    BY SumExists
  <1>2. length(c) = sum[DOMAIN c]
    BY LengthIsSum
  <1> QED
    BY <1>1, <1>2

Counted(c) == IsFiniteSet(DOMAIN c) /\ \A a \in DOMAIN c : NumRows(c[a]) \in Nat

LEMMA LengthType ==
    ASSUME NEW c, Counted(c)
    PROVE  length(c) \in Nat
  <1>1. PICK sum : IsSum(sum, c, DOMAIN c) /\ length(c) = sum[DOMAIN c]
    BY LengthSum DEF Counted
  <1>2. \A s \in SUBSET (DOMAIN c) : sum[s] \in Nat
    BY <1>1, SumValue DEF Counted
  <1> QED
    BY <1>1, <1>2

\* A cache with fewer addresses, of fewer rows each, has fewer rows.
LEMMA LengthShrinks ==
    ASSUME NEW c, Counted(c), NEW d, DOMAIN d \subseteq DOMAIN c,
           \A a \in DOMAIN d : NumRows(d[a]) \in Nat /\ NumRows(d[a]) <= NumRows(c[a])
    PROVE  Counted(d) /\ length(d) <= length(c)
  <1>1. IsFiniteSet(DOMAIN d) /\ Counted(d)
    BY FS_Subset DEF Counted
  <1>2. PICK sumC : IsSum(sumC, c, DOMAIN c) /\ length(c) = sumC[DOMAIN c]
    BY LengthSum DEF Counted
  <1>3. PICK sumD : IsSum(sumD, d, DOMAIN d) /\ length(d) = sumD[DOMAIN d]
    BY <1>1, LengthSum
  <1>4. DOMAIN d \in SUBSET (DOMAIN c \cap DOMAIN d)
    OBVIOUS
  <1>5. sumD[DOMAIN d] <= sumC[DOMAIN c]
    BY <1>1, <1>2, <1>3, <1>4, SumShrinks DEF Counted
  <1> QED
    BY <1>1, <1>2, <1>3, <1>5

\* An item added, or put in the place of another, adds its rows at most.
LEMMA LengthWith ==
    ASSUME NEW c, Counted(c), NEW a, NEW item, NumRows(item) \in Nat
    PROVE  Counted(With(c, a, item)) /\ length(With(c, a, item)) <= length(c) + NumRows(item)
  <1> DEFINE d == With(c, a, item)
             R == DOMAIN c \ {a}
  <1>1. DOMAIN d = DOMAIN c \cup {a} /\ d[a] = item /\ \A x \in R : d[x] = c[x]
    BY DEF With
  <1>2. IsFiniteSet(DOMAIN d)
    BY <1>1, FS_AddElement DEF Counted
  <1>3. Counted(d)
    BY <1>1, <1>2 DEF Counted
  <1> HIDE DEF d
  <1>4. PICK sumC : IsSum(sumC, c, DOMAIN c) /\ length(c) = sumC[DOMAIN c]
    BY LengthSum DEF Counted
  <1>5. PICK sumD : IsSum(sumD, d, DOMAIN d) /\ length(d) = sumD[DOMAIN d]
    BY <1>2, LengthSum
  <1>6. /\ \A s \in SUBSET (DOMAIN d) : sumD[s] \in Nat
        /\ \A s \in SUBSET (DOMAIN d) : \A x \in s : sumD[s] = NumRows(d[x]) + sumD[s \ {x}]
    <2>1. \A x \in DOMAIN d : NumRows(d[x]) \in Nat
      BY <1>3 DEF Counted
    <2>2. IsSum(sumD, d, DOMAIN d)
      BY <1>5
    <2> QED
      BY <1>2, <2>1, <2>2, SumValue
  <1>7. sumD[DOMAIN d] = NumRows(item) + sumD[R] /\ sumD[R] \in Nat
    <2>1. a \in DOMAIN d /\ R = DOMAIN d \ {a}
      BY <1>1
    <2> QED
      BY <1>1, <1>6, <2>1
  <1>8. R \in SUBSET (DOMAIN c \cap DOMAIN d) /\ \A x \in R : NumRows(d[x]) <= NumRows(c[x])
    BY <1>1 DEF Counted
  <1>9. sumD[R] <= sumC[DOMAIN c]
    <2> HIDE DEF R
    <2> QED
      BY <1>2, <1>3, <1>4, <1>5, <1>8, SumShrinks DEF Counted
  <1>10. length(c) \in Nat
    BY LengthType
  <1>11. length(d) <= length(c) + NumRows(item)
    BY <1>4, <1>5, <1>7, <1>9, <1>10
  <1> QED
    BY <1>3, <1>11 DEF d

-------------------------------------------------------------------------------
(* The capacities.                                                          *)

MostRows == Max({Cardinality(Data(a, b)) : a \in Addr, b \in Block})

\* What the tables can say of an address is finite if the blocks are, and bounded.
LEMMA DataBounded ==
    ASSUME IsFiniteSet(Block)
    PROVE  MostRows \in Nat /\ \A a \in Addr, b \in Block : Cardinality(Data(a, b)) \in 0..MostRows
  <1> DEFINE N == Cardinality(Block)
             S == {Cardinality(Data(a, b)) : a \in Addr, b \in Block}
  <1>1. \A a \in Addr, b \in Block : Cardinality(Data(a, b)) \in 0..N
    <2> TAKE a \in Addr, b \in Block
    <2>1. Data(a, b) \subseteq Block
      BY DataType
    <2>2. IsFiniteSet(Data(a, b)) /\ Cardinality(Data(a, b)) \in Nat /\ Cardinality(Data(a, b)) <= N
      BY <2>1, FS_Subset, FS_CardinalityType
    <2>3. N \in Nat
      BY FS_CardinalityType
    <2> QED
      BY <2>2, <2>3
  <1>2. N \in Nat /\ S \in SUBSET (0..N)
    BY <1>1, FS_CardinalityType
  <1>3. S # {}
    <2>1. Project \in Addr /\ Genesis \in Block
      BY AddressCacheAssumption
    <2>2. Cardinality(Data(Project, Genesis)) \in S
      BY <2>1
    <2> QED
      BY <2>2
  <1> HIDE DEF N, S
  <1>4. Max(S) \in S /\ \A m \in S : Max(S) >= m
    BY <1>2, <1>3, GreatestNumber
  <1>5. MostRows = Max(S)
    BY DEF MostRows, S
  <1>6. MostRows \in 0..N
    BY <1>2, <1>4, <1>5
  <1>7. \A m \in S : m \in 0..MostRows
    <2> SUFFICES ASSUME NEW m \in S PROVE m \in 0..MostRows
      OBVIOUS
    <2>1. m \in 0..N /\ MostRows >= m
      BY <1>2, <1>4, <1>5
    <2> QED
      BY <1>2, <1>6, <2>1
  <1>8. MostRows \in Nat
    BY <1>2, <1>6
  <1> QED
    BY <1>7, <1>8 DEF S

FewRows(c) == \A a \in DOMAIN c : NumRows(c[a]) \in 0..MostRows

Bounded(c) ==
    /\ IsFiniteSet(DOMAIN c)
    /\ Cardinality(DOMAIN c) <= capAddr
    /\ length(c) <= cap + MostRows

\* A cache with fewer addresses, of fewer rows each, is bounded if the other is.
LEMMA FewerBounded ==
    ASSUME MostRows \in Nat, NEW c, Bounded(c), FewRows(c), NEW d, DOMAIN d \subseteq DOMAIN c,
           \A a \in DOMAIN d : NumRows(d[a]) \in Nat /\ NumRows(d[a]) <= NumRows(c[a])
    PROVE  Bounded(d) /\ Counted(d)
  <1>1. Counted(c)
    BY DEF Bounded, FewRows, Counted
  <1>2. Counted(d) /\ length(d) <= length(c)
    BY <1>1, LengthShrinks
  <1>3. length(c) \in Nat /\ length(d) \in Nat
    BY <1>1, <1>2, LengthType
  <1>4. IsFiniteSet(DOMAIN d) /\ Cardinality(DOMAIN d) <= Cardinality(DOMAIN c)
        /\ Cardinality(DOMAIN d) \in Nat /\ Cardinality(DOMAIN c) \in Nat
    BY FS_Subset, FS_CardinalityType DEF Bounded
  <1> QED
    BY <1>2, <1>3, <1>4, AddressCacheAssumption DEF Bounded

\* An item put where there is space for it, its address credited with rows that the
\* purge may have thrown away.
LEMMA WithBounded ==
    ASSUME MostRows \in Nat, NEW e, Counted(e), NEW a, NEW item, NumRows(item) \in Nat,
           NEW k \in 0..MostRows, HaveSpace(e, NumRows(item) - k)
    PROVE  Bounded(With(e, a, item))
  <1> DEFINE d == With(e, a, item)
  <1>1. Counted(d) /\ length(d) <= length(e) + NumRows(item)
    BY LengthWith
  <1>2. length(e) \in Nat /\ length(d) \in Nat
    BY <1>1, LengthType
  <1>3. length(e) + (NumRows(item) - k) <= cap /\ Cardinality(DOMAIN e) < capAddr
    BY DEF HaveSpace
  <1>4. length(d) <= cap + MostRows
    BY <1>1, <1>2, <1>3, AddressCacheAssumption
  <1>5. DOMAIN d = DOMAIN e \cup {a} /\ IsFiniteSet(DOMAIN e)
    BY DEF With, Counted
  <1>6. Cardinality(DOMAIN d) <= Cardinality(DOMAIN e) + 1 /\ Cardinality(DOMAIN e) \in Nat
        /\ Cardinality(DOMAIN d) \in Nat
    <2>1. /\ IsFiniteSet(DOMAIN e \cup {a})
          /\ Cardinality(DOMAIN e \cup {a}) =
                IF a \in DOMAIN e THEN Cardinality(DOMAIN e) ELSE Cardinality(DOMAIN e) + 1
      BY <1>5, FS_AddElement
    <2>2. Cardinality(DOMAIN e) \in Nat
      BY <1>5, FS_CardinalityType
    <2> HIDE DEF d
    <2> QED
      BY <1>5, <2>1, <2>2
  <1>7. Cardinality(DOMAIN d) <= capAddr
    BY <1>3, <1>6, AddressCacheAssumption
  <1> QED
    BY <1>1, <1>4, <1>7 DEF Bounded, Counted

\* A store leaves the cache within its limits.
LEMMA StoreBounded ==
    ASSUME MostRows \in Nat, NEW c, CacheType(c), Bounded(c), FewRows(c),
           NEW a \in Addr, NEW field \in Fields, NEW value \in SUBSET Block,
           Cardinality(value) \in 0..MostRows, NEW hash \in Block,
           NEW d \in Store(c, a, field, value, hash)
    PROVE  Bounded(d)
  <1>0. value \in Value
    BY DEF Value
  <1>k. AlreadyStored(c, a) \in 0..MostRows
    BY DEF AlreadyStored, FewRows
  <1>s. ASSUME NEW e, DOMAIN e \subseteq DOMAIN c, \A x \in DOMAIN e : e[x] = c[x]
        PROVE  Bounded(e) /\ Counted(e)
    <2>1. \A x \in DOMAIN e : NumRows(e[x]) \in Nat /\ NumRows(e[x]) <= NumRows(c[x])
      BY <1>s DEF FewRows
    <2> QED
      BY <1>s, <2>1, FewerBounded
  <1>1. CASE d = c
    BY <1>1
  <1>2. CASE field = "rows" /\ SameBlock(c, a, hash) /\ d \in setCacheItemRows(c, a, value)
    <2> DEFINE n == Cardinality(value) - NumRows(c[a])
    <2>1. CASE d # c
      <3>1. PICK e \in purgeRowsToFit(c, n) :
               d = IF a \in DOMAIN e /\ HaveSpace(e, n)
                   THEN With(e, a, [e[a] EXCEPT !.rows = value]) ELSE e
        BY <1>2, <2>1 DEF setCacheItemRows
      <3>2. DOMAIN e \subseteq DOMAIN c /\ \A x \in DOMAIN e : e[x] = c[x]
        BY <3>1, PurgeRestricts
      <3>3. CASE a \in DOMAIN e /\ HaveSpace(e, n)
        <4> DEFINE item == [e[a] EXCEPT !.rows = value]
        <4>1. e[a] \in CacheItem
          BY <3>2, <3>3 DEF CacheType
        <4>2. item.rows = value
          BY <4>1 DEF CacheItem
        <4>3. d = With(e, a, item)
          BY <3>1, <3>3
        <4>4. NumRows(c[a]) \in 0..MostRows
          BY <1>2 DEF FewRows, SameBlock
        <4>5. Counted(e)
          BY <3>2, <1>s
        <4> HIDE DEF item
        <4>6. CASE value = None
          <5>1. NumRows(item) = 0
            BY <4>2, <4>6 DEF NumRows
          <5> QED
            BY <4>6, AddressCacheAssumption
        <4>7. CASE value # None
          <5>1. NumRows(item) = Cardinality(value)
            BY <4>2, <4>7 DEF NumRows
          <5>2. HaveSpace(e, NumRows(item) - NumRows(c[a]))
            BY <3>3, <5>1
          <5> QED
            BY <4>3, <4>4, <4>5, <5>1, <5>2, WithBounded
        <4> QED
          BY <4>6, <4>7
      <3>4. CASE ~(a \in DOMAIN e /\ HaveSpace(e, n))
        BY <3>1, <3>2, <3>4, <1>s
      <3> QED
        BY <3>3, <3>4
    <2> QED
      BY <2>1, <1>1
  <1>3. CASE field # "rows" /\ SameBlock(c, a, hash) /\ d = With(c, a, [c[a] EXCEPT ![field] = value])
    <2> DEFINE item == [c[a] EXCEPT ![field] = value]
    <2>1. a \in DOMAIN c /\ c[a] \in CacheItem
      BY <1>3 DEF CacheType, SameBlock
    <2>2. item.rows = c[a].rows
      BY <1>3, <2>1 DEF CacheItem, Fields
    <2>3. /\ DOMAIN d = DOMAIN c
          /\ d[a] = item
          /\ \A x \in DOMAIN c : x # a => d[x] = c[x]
      BY <1>3, <2>1 DEF With
    <2>4. \A x \in DOMAIN d : NumRows(d[x]) \in Nat /\ NumRows(d[x]) <= NumRows(c[x])
      <3> HIDE DEF item
      <3>1. \A x \in DOMAIN d : NumRows(d[x]) = NumRows(c[x])
        BY <2>2, <2>3 DEF NumRows
      <3> QED
        BY <2>3, <3>1 DEF FewRows
    <2> QED
      BY <2>3, <2>4, FewerBounded
  <1>4. CASE d \in addCacheItem(c, a, [Item(hash) EXCEPT ![field] = value])
    <2> DEFINE item == [Item(hash) EXCEPT ![field] = value]
               n == NumRows(item) - AlreadyStored(c, a)
    <2>1. item.rows \in {None, value}
      BY <1>0, ItemSet DEF Fields
    <2>2. PICK e \in purgeRowsToFit(c, n) : d = IF HaveSpace(e, n) THEN With(e, a, item) ELSE e
      BY <1>4 DEF addCacheItem
    <2>3. DOMAIN e \subseteq DOMAIN c /\ \A x \in DOMAIN e : e[x] = c[x]
      BY <2>2, PurgeRestricts
    <2> HIDE DEF item
    <2>4. NumRows(item) \in Nat
      BY <2>1 DEF NumRows
    <2>5. CASE HaveSpace(e, n)
      BY <1>k, <1>s, <2>2, <2>3, <2>4, <2>5, WithBounded
    <2>6. CASE ~HaveSpace(e, n)
      BY <2>2, <2>3, <2>6, <1>s
    <2> QED
      BY <2>5, <2>6
  <1> QED
    BY <1>1, <1>2, <1>3, <1>4 DEF Store

\* What is cached is what the tables once said, and so has few rows.
LEMMA CachedFewRows ==
    ASSUME IsFiniteSet(Block), ValuesInv
    PROVE  FewRows(cache) /\ CacheType(cache)
  <1>1. MostRows \in Nat /\ \A a \in Addr, b \in Block : Cardinality(Data(a, b)) \in 0..MostRows
    BY DataBounded
  <1>2. ASSUME NEW a \in DOMAIN cache PROVE NumRows(cache[a]) \in 0..MostRows
    <2>1. a \in Addr /\ cache[a].rows \in Answers(a, Block) \cup {None}
      BY DEF ValuesInv, Fields
    <2>2. CASE cache[a].rows = None
      BY <1>1, <2>2 DEF NumRows
    <2>3. CASE cache[a].rows # None
      <3>1. PICK b \in Block : cache[a].rows = Data(a, b)
        BY <2>1, <2>3 DEF Answers
      <3> QED
        BY <1>1, <2>1, <2>3, <3>1 DEF NumRows
    <2> QED
      BY <2>2, <2>3
  <1> QED
    BY <1>2 DEF FewRows, ValuesInv, CacheType

\* A cache that keeps or loses what it has stays within its limits, ...
LEMMA ShrinksBounded ==
    ASSUME MostRows \in Nat, NEW c, Bounded(c), FewRows(c), NEW d, Shrinks(c, d)
    PROVE  Bounded(d)
  <1>1. DOMAIN d \subseteq DOMAIN c
    BY DEF Shrinks, Keeps
  <1>2. \A a \in DOMAIN d : d[a].rows \in {None, c[a].rows}
    BY DEF Shrinks, Keeps, Fields
  <1>3. \A a \in DOMAIN d : NumRows(d[a]) \in {0, NumRows(c[a])}
    BY <1>2 DEF NumRows
  <1>4. \A a \in DOMAIN d : NumRows(d[a]) \in Nat /\ NumRows(d[a]) <= NumRows(c[a])
    BY <1>1, <1>3 DEF FewRows
  <1> QED
    BY <1>1, <1>4, FewerBounded

\* ... and so does one into which a request stores what it read.
LEMMA StoreIntoBounded ==
    ASSUME IsFiniteSet(Block), ValuesInv, Bounded(cache), NEW a \in Addr, NEW field \in Fields,
           NEW value \in Answers(a, Block), NEW hash \in Block, StoreInto(a, field, value, hash)
    PROVE  Bounded(cache)'
  <1>1. value \in SUBSET Block
    BY AnswersType
  <1>2. MostRows \in Nat /\ Cardinality(value) \in 0..MostRows
    BY DataBounded DEF Answers
  <1>3. CASE UNCHANGED cache
    BY <1>3
  <1>4. CASE cache' \in Store(cache, a, field, value, hash)
    <2>1. Bounded(cache')
      BY <1>1, <1>2, <1>4, CachedFewRows, StoreBounded
    <2> QED
      BY <2>1
  <1> QED
    BY <1>3, <1>4 DEF StoreInto

LEMMA NextBounded ==
    ASSUME IsFiniteSet(Block), IInv, Bounded(cache), [Next]_vars
    PROVE  Bounded(cache)'
  <1>0. ValuesInv /\ FewRows(cache) /\ CacheType(cache) /\ MostRows \in Nat
    BY CachedFewRows, DataBounded DEF IInv
  <1>s. ASSUME Shrinks(cache, cache') PROVE Bounded(cache)'
    <2>1. Bounded(cache')
      BY <1>0, <1>s, ShrinksBounded
    <2> QED
      BY <2>1
  <1>1. CASE UNCHANGED cache
    BY <1>1
  <1>2. ASSUME NEW p \in Process, TryLock(p) PROVE Bounded(cache)'
    <2>1. CASE cache' = ClearField(cache, rd[p].addr, "rows")
      BY <1>0, <1>s, <2>1, ClearFieldShrinks DEF Fields
    <2>2. CASE cache' = ClearField(cache, rd[p].addr, "utxos")
      BY <1>0, <1>s, <2>2, ClearFieldShrinks DEF Fields
    <2> QED
      BY <1>1, <1>2, <2>1, <2>2 DEF TryLock
  <1>3. ASSUME NEW p \in Process, StoreResult(p) PROVE Bounded(cache)'
    <2>1. rd[p] \in Record /\ rd[p].pc = "store"
      BY <1>3 DEF IInv, RequestType, StoreResult, At
    <2>2. /\ rd[p].addr \in Addr /\ FieldOf(rd[p].kind) \in Fields
          /\ rd[p].got \in Answers(rd[p].addr, Block) /\ rd[p].label \in Block
      BY <2>1, FieldOfType DEF Record, IInv, ValuesInv, HashesKnown, Known, ChainInv, ChainType
    <2>3. StoreInto(rd[p].addr, FieldOf(rd[p].kind), rd[p].got, rd[p].label)
      BY <1>3 DEF StoreResult
    <2> QED
      BY <1>0, <2>2, <2>3, StoreIntoBounded
  <1>4. ASSUME NEW p \in Process, LookBalance(p) PROVE Bounded(cache)'
    <2>1. rd[p] \in Record /\ rd[p].pc = "lookbal"
      BY <1>4 DEF IInv, RequestType, LookBalance, At
    <2>2. /\ rd[p].addr \in Addr /\ "balance" \in Fields
          /\ rd[p].got \in Answers(rd[p].addr, Block) /\ rd[p].hash \in Block
      BY <2>1 DEF Record, Fields, IInv, ValuesInv, HashesKnown, Known, ChainInv, ChainType
    <2>3. CASE StoreInto(rd[p].addr, "balance", rd[p].got, rd[p].hash)
      BY <1>0, <2>2, <2>3, StoreIntoBounded
    <2> QED
      BY <1>1, <1>4, <2>3 DEF LookBalance, cacheVars
  <1>5. ASSUME NEW S, cache' = Clear(cache, S) PROVE Bounded(cache)'
    BY <1>0, <1>5, <1>s, ClearShrinks
  <1>6. ASSUME NEW p \in Process, Serve(p) PROVE Bounded(cache)'
    <2>1. CASE ReadBest(p) \/ Look(p) \/ ReadBestAgain(p) \/ QueryDone(p) \/ QueryFails(p)
                 \/ DevLook(p) \/ DevBest(p)
      BY <1>1, <2>1 DEF ReadBest, Look, ReadBestAgain, QueryDone, QueryFails, DevLook, DevBest, cacheVars
    <2> QED
      BY <1>2, <1>3, <1>4, <1>6, <2>1 DEF Serve
  <1>7. CASE WriterStep
    <2>1. CASE FreshenBlock
      BY <1>5, <2>1 DEF FreshenBlock
    <2>2. CASE EndReorg
      BY <1>1, <1>5, <2>2 DEF EndReorg, cacheVars
    <2>3. CASE TipToSideChain \/ StoreBlock
      BY <1>1, <2>3 DEF TipToSideChain, StoreBlock, WriteTables, MoveBest, cacheVars
    <2> QED
      BY <1>7, <2>1, <2>2, <2>3 DEF WriterStep
  <1>8. ASSUME NEW b \in Block, Connect(b) \/ ReorgHandler(b) PROVE Bounded(cache)'
    BY <1>1, <1>8 DEF Connect, ReorgHandler, cacheVars
  <1>9. CASE \E p \in Reader, kind \in Kinds, a \in Addr : Request(p, kind, a)
    BY <1>1, <1>9 DEF Request, Begin, cacheVars
  <1>10. CASE UpdateProjectFundCache
    BY <1>1, <1>10 DEF UpdateProjectFundCache, Begin, cacheVars
  <1>11. CASE UNCHANGED vars
    BY <1>1, <1>11 DEF vars, cacheVars
  <1> QED
    BY <1>6, <1>7, <1>8, <1>9, <1>10, <1>11 DEF Next

-------------------------------------------------------------------------------
(* The pool info cache.                                                     *)

\* Every key is in the queue, and the queue shorter than the capacity.
PoolInfoInv ==
    part = "pool" =>
        /\ maxSize \in Nat /\ maxSize >= 2
        /\ expireQueue \in Seq(PoolBlock)
        /\ PoolInfo!CapacityRespected /\ PoolInfo!EveryKeyExpires

\* Evicting the first keys of the queue, and adding one at its end.
LEMMA QueueEvicts ==
    ASSUME NEW q \in Seq(PoolBlock), NEW keys, keys \subseteq PoolInfo!InQueue(q), NEW k \in 0..Len(q)
    PROVE  /\ SubSeq(q, k + 1, Len(q)) \in Seq(PoolBlock)
           /\ Len(SubSeq(q, k + 1, Len(q))) = Len(q) - k
           /\ keys \ PoolInfo!InQueue(SubSeq(q, 1, k))
                \subseteq PoolInfo!InQueue(SubSeq(q, k + 1, Len(q)))
  <1> DEFINE s == SubSeq(q, k + 1, Len(q))
             e == SubSeq(q, 1, k)
  <1>1. /\ s \in Seq(PoolBlock) /\ Len(s) = Len(q) - k
        /\ \A i \in 1..(Len(q) - k) : s[i] = q[k + i]
    <2>1. Len(q) \in Nat /\ k + 1 \in 1..(Len(q) + 1)
      OBVIOUS
    <2>2. /\ s \in Seq(PoolBlock)
          /\ Len(s) = IF k + 1 <= Len(q) THEN Len(q) - (k + 1) + 1 ELSE 0
          /\ \A i \in 1..Len(s) : s[i] = q[k + 1 + i - 1]
      BY <2>1, SubSeqProperties
    <2> HIDE DEF s
    <2> QED
      BY <2>1, <2>2
  <1>2. Len(e) = k /\ \A i \in 1..k : e[i] = q[i]
    <2>1. Len(q) \in Nat
      OBVIOUS
    <2>2. /\ Len(e) = IF 1 <= k THEN k - 1 + 1 ELSE 0
          /\ \A i \in 1..Len(e) : e[i] = q[1 + i - 1]
      BY <2>1, SubSeqProperties
    <2> HIDE DEF e
    <2> QED
      BY <2>1, <2>2
  <1> HIDE DEF s, e
  <1>3. ASSUME NEW x \in keys, x \notin PoolInfo!InQueue(e) PROVE x \in PoolInfo!InQueue(s)
    <2>1. PICK i \in 1..Len(q) : x = q[i]
      BY DEF PoolInfo!InQueue
    <2>2. ~(i \in 1..k)
      BY <1>2, <1>3, <2>1 DEF PoolInfo!InQueue
    <2>3. i - k \in 1..Len(s) /\ s[i - k] = x
      BY <1>1, <2>1, <2>2
    <2> QED
      BY <2>3 DEF PoolInfo!InQueue
  <1> QED
    BY <1>1, <1>3 DEF s, e

LEMMA QueueAppends ==
    ASSUME NEW q \in Seq(PoolBlock), NEW h \in PoolBlock
    PROVE  /\ Append(q, h) \in Seq(PoolBlock) /\ Len(Append(q, h)) = Len(q) + 1
           /\ PoolInfo!InQueue(Append(q, h)) = PoolInfo!InQueue(q) \cup {h}
  BY AppendProperties DEF PoolInfo!InQueue

LEMMA SetKeeps ==
    ASSUME NEW h \in PoolBlock, part = "pool", PoolInfoInv, PoolInfo!SetPoolInfo(h), UNCHANGED part
    PROVE  PoolInfoInv'
  <1>0. /\ maxSize \in Nat /\ maxSize >= 2 /\ expireQueue \in Seq(PoolBlock)
        /\ Len(expireQueue) < maxSize /\ poolInfo \subseteq PoolInfo!InQueue(expireQueue)
        /\ maxSize' = maxSize /\ Len(expireQueue) \in Nat
    BY DEF PoolInfoInv, PoolInfo!CapacityRespected, PoolInfo!EveryKeyExpires, PoolInfo!SetPoolInfo
  <1>1. CASE Len(expireQueue) + 1 >= maxSize
    <2>1. /\ poolInfo' = (poolInfo \cup {h}) \ {Head(expireQueue)}
          /\ expireQueue' = Append(Tail(expireQueue), h)
      BY <1>1 DEF PoolInfo!SetPoolInfo, PoolInfo!Set
    <2>2. /\ expireQueue # <<>>
          /\ Head(expireQueue) = expireQueue[1]
          /\ Tail(expireQueue) \in Seq(PoolBlock)
          /\ Len(Tail(expireQueue)) = Len(expireQueue) - 1
          /\ \A i \in 1..Len(Tail(expireQueue)) : Tail(expireQueue)[i] = expireQueue[i + 1]
      BY <1>0, <1>1, HeadTailProperties
    <2>3. /\ expireQueue' \in Seq(PoolBlock) /\ Len(expireQueue') = Len(expireQueue)
          /\ PoolInfo!InQueue(expireQueue') = PoolInfo!InQueue(Tail(expireQueue)) \cup {h}
      <3> DEFINE t == Tail(expireQueue)
      <3>1. t \in Seq(PoolBlock) /\ Len(t) = Len(expireQueue) - 1
        BY <2>2
      <3> HIDE DEF t
      <3>2. /\ Append(t, h) \in Seq(PoolBlock) /\ Len(Append(t, h)) = Len(t) + 1
            /\ PoolInfo!InQueue(Append(t, h)) = PoolInfo!InQueue(t) \cup {h}
        BY <3>1, QueueAppends
      <3>3. Len(t) + 1 = Len(expireQueue)
        BY <1>0, <3>1
      <3> QED
        BY <2>1, <3>2, <3>3 DEF t
    <2>4. ASSUME NEW x \in poolInfo, x # Head(expireQueue) PROVE x \in PoolInfo!InQueue(Tail(expireQueue))
      <3>1. PICK i \in 1..Len(expireQueue) : x = expireQueue[i]
        BY <1>0 DEF PoolInfo!InQueue
      <3>2. i - 1 \in 1..Len(Tail(expireQueue)) /\ Tail(expireQueue)[i - 1] = x
        BY <1>0, <2>2, <2>4, <3>1
      <3> QED
        BY <3>2 DEF PoolInfo!InQueue
    <2>5. poolInfo' \subseteq PoolInfo!InQueue(expireQueue')
      BY <2>1, <2>3, <2>4
    <2> QED
      BY <1>0, <2>3, <2>5 DEF PoolInfoInv, PoolInfo!CapacityRespected, PoolInfo!EveryKeyExpires, PoolInfo!InQueue
  <1>2. CASE ~(Len(expireQueue) + 1 >= maxSize)
    <2>1. poolInfo' = poolInfo \cup {h} /\ expireQueue' = Append(expireQueue, h)
      BY <1>2 DEF PoolInfo!SetPoolInfo, PoolInfo!Set
    <2>2. /\ expireQueue' \in Seq(PoolBlock) /\ Len(expireQueue') = Len(expireQueue) + 1
          /\ PoolInfo!InQueue(expireQueue') = PoolInfo!InQueue(expireQueue) \cup {h}
      BY <1>0, <2>1, QueueAppends
    <2>3. poolInfo' \subseteq PoolInfo!InQueue(expireQueue') /\ Len(expireQueue') < maxSize'
      BY <1>0, <1>2, <2>1, <2>2
    <2> QED
      BY <1>0, <2>2, <2>3 DEF PoolInfoInv, PoolInfo!CapacityRespected, PoolInfo!EveryKeyExpires, PoolInfo!InQueue
  <1> QED
    BY <1>1, <1>2

LEMMA SetCapacityKeeps ==
    ASSUME NEW size \in 0..MaxSize, MaxSize \in Nat, part = "pool", PoolInfoInv,
           PoolInfo!SetCapacity(size), UNCHANGED part
    PROVE  PoolInfoInv'
  <1> DEFINE n == Len(expireQueue)
             keep == IF n >= size THEN size - 1 ELSE n
             drop == n - keep
  <1>0. /\ expireQueue \in Seq(PoolBlock) /\ poolInfo \subseteq PoolInfo!InQueue(expireQueue)
        /\ size \in Nat /\ size >= 2 /\ maxSize' = size /\ n \in Nat
        /\ expireQueue' = SubSeq(expireQueue, drop + 1, Len(expireQueue))
        /\ poolInfo' = poolInfo \ PoolInfo!InQueue(SubSeq(expireQueue, 1, drop))
    BY DEF PoolInfoInv, PoolInfo!EveryKeyExpires, PoolInfo!SetCapacity
  <1>1. keep \in Nat /\ drop \in 0..n /\ n - drop < size
    BY <1>0
  <1> HIDE DEF drop, keep
  <1>2. /\ expireQueue' \in Seq(PoolBlock) /\ Len(expireQueue') = n - drop
        /\ poolInfo' \subseteq PoolInfo!InQueue(expireQueue')
    BY <1>0, <1>1, QueueEvicts
  <1>3. Len(expireQueue') < maxSize'
    BY <1>0, <1>1, <1>2
  <1> QED
    BY <1>0, <1>2, <1>3 DEF PoolInfoInv, PoolInfo!CapacityRespected, PoolInfo!EveryKeyExpires, PoolInfo!InQueue

\* Whatever is asked for, stored, evicted or reorganised, and whatever the capacities:
\* the address cache keeps to its limits up to the rows of one address (purgeRowsToFit
\* and haveSpace), and the pool info cache to its own, with every entry due for
\* eviction (Set and SetCapacity).
THEOREM CachesAlwaysBounded ==
    ASSUME IsFiniteSet(Block)
    PROVE  MCSpec => []CachesAreBounded
  <1> DEFINE Inv == IInv /\ Bounded(cache) /\ PoolInfoInv
             Step == AddressStep \/ PoolStep \/ ViewsStep \/ ChartsStep
             all == <<part, vars, poolVars, historyOfViews, chartVars>>
  <1>1. MCInit => Inv
    <2> SUFFICES ASSUME MCInit PROVE Inv
      OBVIOUS
    <2>1. IInv
      BY InitInvariant DEF MCInit
    <2>2. Bounded(cache)
      <3>1. DOMAIN cache = {}
        BY DEF MCInit, Init
      <3>2. IsFiniteSet(DOMAIN cache) /\ Cardinality(DOMAIN cache) = 0
        BY <3>1, FS_EmptySet
      <3>3. PICK sum : IsSum(sum, cache, DOMAIN cache) /\ length(cache) = sum[DOMAIN cache]
        BY <3>2, LengthSum
      <3>4. length(cache) = 0
        BY <3>1, <3>3 DEF IsSum
      <3> QED
        BY <3>2, <3>4, DataBounded, AddressCacheAssumption DEF Bounded
    <2>3. PoolInfoInv
      <3>1. CASE part = "pool"
        <4>1. maxSize \in 2..MaxSize /\ poolInfo = {} /\ expireQueue = <<>> /\ MaxSize \in Nat
          BY <3>1, PoolInfoAssumption DEF MCInit, PoolInfo!Init, PoolInfo!CacheConstants
        <4> QED
          BY <4>1 DEF PoolInfoInv, PoolInfo!CapacityRespected, PoolInfo!EveryKeyExpires
      <3> QED
        BY <3>1 DEF PoolInfoInv
    <2> QED
      BY <2>1, <2>2, <2>3
  <1>2. Inv /\ [Step]_all => Inv'
    <2> SUFFICES ASSUME Inv, [Step]_all PROVE Inv'
      OBVIOUS
    <2>1. [Next]_vars
      BY DEF AddressStep, PoolStep, ViewsStep, ChartsStep
    <2>2. IInv' /\ Bounded(cache)'
      BY <2>1, NextInvariant, NextBounded
    <2>3. PoolInfoInv'
      <3>1. CASE UNCHANGED <<part, poolVars>>
        BY <3>1 DEF PoolInfoInv, poolVars, PoolInfo!CapacityRespected, PoolInfo!EveryKeyExpires, PoolInfo!InQueue
      <3>2. CASE PoolStep
        <4>1. part = "pool" /\ UNCHANGED part /\ PoolInfo!Next /\ MaxSize \in Nat
          BY <3>2, PoolInfoAssumption DEF PoolStep, PoolInfo!CacheConstants
        <4>2. CASE \E h \in PoolBlock : PoolInfo!SetPoolInfo(h)
          BY <4>1, <4>2, SetKeeps
        <4>3. CASE \E size \in 0..MaxSize : PoolInfo!SetCapacity(size)
          BY <4>1, <4>3, SetCapacityKeeps
        <4> QED
          BY <4>1, <4>2, <4>3 DEF PoolInfo!Next
      <3> QED
        BY <3>1, <3>2 DEF AddressStep, ViewsStep, ChartsStep
    <2> QED
      BY <2>2, <2>3
  <1>3. Inv => CachesAreBounded
    <2> SUFFICES ASSUME Inv PROVE CachesAreBounded
      OBVIOUS
    <2>1. CacheIsBounded
      BY DEF Bounded, CacheIsBounded, MostRows
    <2> QED
      BY <2>1 DEF CachesAreBounded, PoolInfoInv
  <1> QED
    BY <1>1, <1>2, <1>3, PTL DEF MCSpec

===============================================================================
