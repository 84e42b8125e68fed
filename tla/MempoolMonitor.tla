--------------------------- MODULE MempoolMonitor ---------------------------
(***************************************************************************)
(* MempoolMonitor (mempool/monitor.go) and the collector it refreshes from *)
(* (mempool/collector.go).  The notifier calls TxHandler and BlockHandler  *)
(* one after the other, in the order of the node's signals; the node moves *)
(* on between any two requests of a collection; pages ask for the          *)
(* unconfirmed transactions of an address at any moment; and the data      *)
(* savers run in goroutines of their own.                                  *)
(***************************************************************************)
EXTENDS MempoolData

CONSTANTS Addr,
          Pools,       \* the mempools the node may have at the start
          MaxBlocks, MaxTxs, \* bounds on the node's blocks and on what it receives
          Times,       \* the seconds that clocks may show
          MaxFaults    \* requests to the node that fail

VARIABLES \* the node
          pool, best, signals,
          clock,       \* what happened at the node: arrivals and blocks
          came, found, \* when a transaction came (0: not yet), a block was found
          minedAt,     \* the block that mined a transaction, or 0
          \* seconds: the notifier's clock when it heard of a transaction (0: it
          \* did not), the header's time of a block
          heard, btime,
          \* the monitor
          lastBlock, inventory, txnsStore, addrMap,
          pc,          \* where the handler that is running is
          job,         \* what the running handler carries along
          savers,      \* StoreMPData goroutines that have not run yet
          cache,       \* MempoolDataCache
          faults, lost \* lost: a request failed since the last whole collection

node == <<pool, best, signals, clock, came, found, minedAt, heard, btime>>
vars == <<pool, best, signals, clock, came, found, minedAt, heard, btime, lastBlock,
          inventory, txnsStore, addrMap, pc, job, savers, cache, faults, lost>>

MonitorConstants ==
  /\ MempoolDataConstants
  /\ \A t \in Tx : TxInfo[t].pays \subseteq Addr
  /\ Pools \subseteq SUBSET Tx
  /\ Times \subseteq Nat \ {0} /\ 1 \in Times   \* seconds from the first block

BlockID(h) == [hash |-> h, height |-> h, time |-> btime[h]]
PrevsOf(t) == {p.tx : p \in TxInfo[t].prev}

-----------------------------------------------------------------------------
(* The node (external).  The miner's clock gives a block its time and      *)
(* onTxAcceptedVerbose stamps a transaction with hdfdata's own: neither     *)
(* bounds the other, and both are in whole seconds.                        *)

NodeAccepts(t) ==
  /\ came[t] = 0 /\ clock - best < MaxTxs
  /\ TypeOf(t) = "Vote" => VoteOf(t).height <= best
  /\ clock' = clock + 1
  /\ came' = [came EXCEPT ![t] = clock + 1]
  /\ \E now \in Times : heard' = [heard EXCEPT ![t] = now]
  /\ pool' = pool \cup {t}
  /\ signals' = Append(signals, [tx |-> TRUE, id |-> t])
  /\ UNCHANGED <<best, found, btime, minedAt, lastBlock, inventory, txnsStore, addrMap,
                 pc, job, savers, cache, faults, lost>>

\* A block mines some of the mempool, parents with their children.
NodeMines ==
  /\ best < MaxBlocks
  /\ \E mined \in SUBSET pool :
       /\ \A t \in mined : PrevsOf(t) \cap pool \subseteq mined
       /\ pool' = pool \ mined
       /\ minedAt' = [t \in Tx |-> IF t \in mined THEN best + 1
                                   ELSE minedAt[t]]
  /\ \E stamp \in Times : btime' = Append(btime, stamp)
  /\ clock' = clock + 1 /\ best' = best + 1 /\ found' = Append(found, clock + 1)
  /\ signals' = Append(signals, [tx |-> FALSE, id |-> best + 1])
  /\ UNCHANGED <<came, heard, lastBlock, inventory, txnsStore, addrMap, pc, job,
                 savers, cache, faults, lost>>

-----------------------------------------------------------------------------
(* The address index (txhelpers).                                          *)

TxOutpointsByAddr(m, t) ==
  [a \in Addr |-> IF a \notin TxInfo[t].pays THEN m[a]
                  ELSE [m[a] EXCEPT !.outs = @ \cup {t}, !.known = TRUE]]

\* The outputs of an address that a transaction spends.
SpendsOf(t, a) ==
  {[spender |-> t, prev |-> p.tx] : p \in {q \in TxInfo[t].prev : q.addr = a}}

\* A previous transaction that the node cannot return ends the loop.
TxPrevOutsByAddr(m, t, ok) ==
  [a \in Addr |->
     IF SpendsOf(t, a) = {} \/ ~ok THEN m[a]
     ELSE [m[a] EXCEPT !.prev = @ \cup SpendsOf(t, a), !.known = TRUE]]

StorePrevs(s, t, ok) == IF ok THEN s \cup PrevsOf(t) ELSE s

-----------------------------------------------------------------------------
(* TxHandler.                                                              *)

TxPending == pc = "idle" /\ signals # <<>> /\ Head(signals).tx

Ignored_heldOnly(t) == t \in Held(inventory)
Ignored(t) == heard[t] < lastBlock.time \/ t \in Held(inventory)

TxIgnored ==
  /\ TxPending /\ Ignored(Head(signals).id)
  /\ signals' = Tail(signals)
  /\ UNCHANGED <<pool, best, clock, came, found, minedAt, heard, btime, lastBlock, inventory,
                 txnsStore, addrMap, pc, job, savers, cache, faults, lost>>

\* Under addrMap's lock, before the address signals go out.
TxToAddresses(ok) ==
  /\ TxPending /\ ~Ignored(Head(signals).id)
  /\ LET t == Head(signals).id
     IN /\ addrMap' = TxPrevOutsByAddr(TxOutpointsByAddr(addrMap, t), t, ok)
        /\ txnsStore' = StorePrevs(txnsStore, t, ok)
        /\ job' = [job EXCEPT !.tx = t]
  /\ ~ok => faults < MaxFaults
  /\ faults' = faults + (IF ok THEN 0 ELSE 1)
  /\ lost' = (lost \/ ~ok)
  /\ signals' = Tail(signals)
  /\ pc' = "txStored"
  /\ UNCHANGED <<pool, best, clock, came, found, minedAt, heard, btime, lastBlock, inventory,
                 savers, cache>>

\* Once the address signals are out.  A vote for a block that is not here yet
\* is left for the next collection.
TxToInventory ==
  /\ pc = "txStored"
  /\ txnsStore' = txnsStore \cup {job.tx}
  /\ inventory' = IF /\ TypeOf(job.tx) = "Vote"
                     /\ VoteOf(job.tx).height > lastBlock.height
                  THEN inventory ELSE AddTx(inventory, job.tx)
  /\ pc' = "idle"
  /\ UNCHANGED <<node, lastBlock, addrMap, job, savers, cache, faults, lost>>

-----------------------------------------------------------------------------
(* BlockHandler: CollectAndStore, Refresh and Collect.                     *)

CollectStake ==                       \* the tickets, the fees, the best block
  /\ pc = "idle" /\ signals # <<>> /\ ~Head(signals).tx
  /\ signals' = Tail(signals)
  /\ job' = [job EXCEPT !.tickets = {t \in pool : TypeOf(t) = "Ticket"},
                        !.block = BlockID(best)]
  /\ pc' = "txs"
  /\ UNCHANGED <<pool, best, clock, came, found, minedAt, heard, btime, lastBlock, inventory,
                 txnsStore, addrMap, savers, cache, faults, lost>>

\* All the transactions at once; the ones that fail one by one are skipped.
mempoolTxns ==
  /\ pc = "txs"
  /\ \E got \in SUBSET pool :
       /\ Cardinality(pool \ got) + faults <= MaxFaults
       /\ faults' = faults + Cardinality(pool \ got)
       /\ job' = [job EXCEPT !.txs = got]
       /\ lost' = (got # pool)
  /\ pc' = "parsed"
  /\ UNCHANGED <<node, lastBlock, inventory, txnsStore, addrMap, savers, cache>>

\* BlockHandler ignores the error: everything stays as it was.
CollectFails ==
  /\ pc = "txs" /\ faults < MaxFaults
  /\ faults' = faults + 1 /\ lost' = TRUE /\ pc' = "idle"
  /\ UNCHANGED <<node, lastBlock, inventory, txnsStore, addrMap, job, savers,
                 cache>>

RefreshInventory ==                                    \* under p.mtx
  /\ pc = "parsed"
  /\ lastBlock' = job.block
  /\ inventory' = ParseTxns(MPTxsByTime(job.txs, came), job.block)
  /\ txnsStore' = job.txs \cup UNION {PrevsOf(t) : t \in job.txs}
  /\ pc' = "addresses"
  /\ UNCHANGED <<node, addrMap, job, savers, cache, faults, lost>>

\* The two functions above, for every transaction that was collected.
AddrsOf(S) ==
  [a \in Addr |->
     LET outs == {t \in S : a \in TxInfo[t].pays}
         prev == UNION {SpendsOf(t, a) : t \in S}
     IN [outs |-> outs, prev |-> prev, txns |-> <<>>, known |-> outs # {} \/ prev # {}]]

StakeData ==
  LET f == MinableFeeInfo(job.tickets)
  IN [height |-> job.block.height, hash |-> job.block.hash,
      numTickets |-> Cardinality(job.tickets), allFees |-> f.allFees,
      allFeeRates |-> f.allFees, lowestMineable |-> f.lowestMineableFee,
      details |-> f.allFees, stakeDiff |-> 0, txns |-> job.txs]

RefreshAddresses ==                                    \* under addrMap's lock
  /\ pc = "addresses"
  /\ addrMap' = AddrsOf(job.txs)
  /\ savers' = savers \cup {StakeData}
  /\ pc' = "idle"
  /\ UNCHANGED <<node, lastBlock, inventory, txnsStore, job, cache, faults, lost>>

StoreMPData(d) ==
  /\ d \in savers
  /\ cache' = d /\ savers' = savers \ {d}
  /\ UNCHANGED <<node, lastBlock, inventory, txnsStore, addrMap, pc, job,
                 faults, lost>>

-----------------------------------------------------------------------------
(* UnconfirmedTxnsForAddress fills the address's own map from txnsStore,   *)
(* whose reads are not under p.mtx.  TRUE: the entry points to data.       *)

Fill(a) ==
  LET m == addrMap[a]
      spends == {p.spender : p \in m.prev} \cup {p.prev : p \in m.prev}
      want == {t \in m.outs : t \in txnsStore} \cup spends
  IN [t \in DOMAIN m.txns \cup want |->
        IF t \in DOMAIN m.txns THEN m.txns[t] ELSE t \in txnsStore]

UnconfirmedTxnsForAddress(a) ==
  /\ addrMap[a].known
  /\ addrMap' = [addrMap EXCEPT ![a].txns = Fill(a)]
  /\ addrMap' # addrMap
  /\ UNCHANGED <<node, lastBlock, inventory, txnsStore, pc, job, savers,
                 cache, faults, lost>>

-----------------------------------------------------------------------------
Init ==                                \* NewMempoolMonitor collects and stores
  /\ pool \in Pools
  /\ best = 1 /\ clock = 1 /\ found = <<1>> /\ signals = <<>>
  /\ came = [t \in Tx |-> IF t \in pool THEN 1 ELSE 0]
  /\ heard = [t \in Tx |-> 0]
  /\ btime = <<1>>
  /\ minedAt = [t \in Tx |-> 0]
  /\ lastBlock = BlockID(1)
  /\ inventory = ParseTxns(MPTxsByTime(pool, came), lastBlock)
  /\ txnsStore = pool \cup UNION {PrevsOf(t) : t \in pool}
  /\ addrMap = AddrsOf(pool)
  /\ job = [tx |-> CHOOSE t \in Tx : TRUE, txs |-> pool, block |-> lastBlock,
            tickets |-> {t \in pool : TypeOf(t) = "Ticket"}]
  /\ pc = "idle" /\ savers = {} /\ cache = StakeData
  /\ faults = 0 /\ lost = FALSE

Next ==
  \/ \E t \in Tx : NodeAccepts(t)
  \/ NodeMines
  \/ TxIgnored \/ (\E ok \in BOOLEAN : TxToAddresses(ok)) \/ TxToInventory
  \/ CollectStake \/ mempoolTxns \/ CollectFails
  \/ RefreshInventory \/ RefreshAddresses
  \/ \E d \in savers : StoreMPData(d)
  \/ \E a \in Addr : UnconfirmedTxnsForAddress(a)

Spec == Init /\ [][Next]_vars

-----------------------------------------------------------------------------
(* Properties                                                              *)

\* The inventory that TxHandler has kept up one transaction at a time is the
\* one that ParseTxns would build from the same transactions: the counts, the
\* totals, the votes for the last block and their tally; and every transaction
\* it claims is found (monitor.go TxHandler against collector.go ParseTxns).
\* The latest transactions are some of them, as many as fit (a transaction whose
\* signal was late, or that an earlier collection lost, stands in front of newer
\* ones: which they are depends on what the monitor heard first).
SameInventory(i, j) ==
  /\ Len(i.latest) = Len(j.latest)
  /\ IsInjective(i.latest) /\ ToSet(i.latest) \subseteq Held(i)
  /\ i.numAll = j.numAll /\ i.totalOut = j.totalOut
  /\ i.likelyCount = j.likelyCount /\ i.likelyTotal = j.likelyTotal
  /\ i.voteTotal = j.voteTotal
  /\ i.voting.voted = j.voting.voted
  /\ i.voting.ticketsVoted = j.voting.ticketsVoted
  /\ \A h \in 1..MaxBlocks : BlockStatus(i.voting, h) = BlockStatus(j.voting, h)
  /\ \A h \in DOMAIN j.inds : ToSet(i.inds[h]) = ToSet(j.inds[h])
  /\ Trim(i).fees = Trim(j).fees
InventoryAgrees ==
  /\ SameInventory(inventory,
       ParseTxns(MPTxsByTime(Held(inventory), came), lastBlock))
  /\ \A t \in Tx : FindTx(inventory, t) <=> t \in Held(inventory)
  /\ inventory.block = lastBlock

\* The monitor lists a transaction that its last block, or one before, has mined
\* only when it heard of it in or after the second that this block gives as its
\* own time: TxHandler takes that for a transaction that is newer than the block.
\* Once every signal is handled, it knows the node's best block and lists just
\* what is in the node's mempool, but for what came after the last block and was
\* heard in a second before the block's own, which TxHandler takes for older; and
\* the address index has the outputs and the spends of the transactions listed
\* and no others.  After a request that failed, all this holds again from the next
\* collection that is whole (TxHandler's early returns, Refresh).
MempoolIsMirrored ==
  /\ \A t \in Held(inventory) :
       minedAt[t] = 0 \/ minedAt[t] > lastBlock.hash \/ heard[t] >= lastBlock.time
  /\ (pc = "idle" /\ signals = <<>> /\ ~lost) =>
       /\ lastBlock.hash = best
       /\ Held(inventory) \subseteq pool
       /\ \A t \in pool \ Held(inventory) :
            heard[t] < lastBlock.time /\ came[t] > found[lastBlock.hash]
       /\ \A a \in Addr :
            /\ addrMap[a].outs = AddrsOf(Held(inventory))[a].outs
            /\ addrMap[a].prev = AddrsOf(Held(inventory))[a].prev

\* The fee answers are the highest fees of the tickets that were collected,
\* and the lowest mineable fee is the least of those a block has room for
\* (MempoolDataCache.GetFees, Collect).
FeesAreHighest ==
  \A n \in -1..3 :
    LET f == GetFees(cache, n).fees
        all == cache.allFees
        k == IF n < 0 THEN Len(all) ELSE Min({n, Len(all)})
    IN /\ Len(f) = k
       /\ \A v \in ToSet(all) : v \notin ToSet(f) => \A w \in ToSet(f) : v <= w
       /\ Len(all) > 0 =>
            cache.lowestMineable =
              Highest(all, MaxFreshStakePerBlock)[1]

\* Every transaction in the map that a page gets for an address has its data
\* ("they are already allocated and stored in MempoolMonitor.txnsStore",
\* monitor.go:451-452): the pages use the entries without another check.
UnconfirmedHaveData ==
  \A a \in Addr : \A t \in DOMAIN addrMap[a].txns : addrMap[a].txns[t]
=============================================================================
