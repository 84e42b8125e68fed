------------------------------ MODULE MCServices ------------------------------
(***************************************************************************)
(* The services that collect data outside the tables, in one run: the        *)
(* exchange bot, the mempool monitor, the block summaries with the API's     *)
(* block cache, and the publication of new blocks.  They share nothing, so a *)
(* behaviour is a behaviour of one of them: service says which, and the      *)
(* variables of the others are 0.                                            *)
(*                                                                         *)
(* Exchange bot: one bitcoin source and one index source, a channel of one   *)
(* place, moves of the market and failures as the cfg bounds them.  Mempool: *)
(* tickets of two fees, two votes on one ticket, a transaction and one that  *)
(* spends it; two blocks are mined, at the second of a receipt, before or    *)
(* after it.  Summaries and publication: two competing branches of two blocks*)
(***************************************************************************)
EXTENDS BlockTree, TLC

CONSTANTS
    Services,                                                       \* those that run
    Configs, MaxRefresh, ChanSize, MarketMoves, BotFaults, Codes,   \* of ExchangeBot
    TxInfo, NumLatestMempoolTxns, TicketsPerBlock, MaxFreshStakePerBlock, feeRad,
    Addr, Pools, PoolBlocks, PoolTxs, Times, PoolFaults,          \* of MempoolMonitor
    Capacity, Bin, LessFns, MaxStores, MaxAsks, MaxClock,           \* of BlockSummaries
    NoBlock, NodeMoves, NodeFaults                                  \* of BlockPublisher

SourceSets == {{"Binance", "Coinbase"}}

MinedSets == {{"t1"}, {"r1"}}

Branches == ("g" :> <<>>) @@ ("a1" :> <<"a1">>) @@ ("a2" :> <<"a1", "a2">>) @@
            ("b1" :> <<"b1">>) @@ ("b2" :> <<"b1", "b2">>)

\* A transaction of the mempool: its type, fee, the addresses that it pays and
\* the outputs that it spends.
TxOf(type, fee, pays, prev, vote) ==
    [type |-> type, out |-> fee, fee |-> fee, coinbase |-> FALSE, pays |-> pays,
     prev |-> prev, vote |-> vote]
VoteOn(n, valid, ticket) == [hash |-> n, height |-> n, valid |-> valid, ticket |-> ticket]
NoVote == VoteOn(0, TRUE, "none")
Transactions ==
    ("t1" :> TxOf("Ticket", 1, {}, {}, NoVote)) @@
    ("t2" :> TxOf("Ticket", 3, {}, {}, NoVote)) @@
    ("v1" :> TxOf("Vote", 1, {}, {}, VoteOn(1, TRUE, "k"))) @@
    ("v2" :> TxOf("Vote", 2, {}, {}, VoteOn(2, FALSE, "k"))) @@
    ("r1" :> TxOf("Regular", 3, {"a"}, {}, NoVote)) @@
    ("r2" :> TxOf("Regular", 4, {}, {[tx |-> "r1", addr |-> "a"]}, NoVote))

VARIABLES
    service,
    master, xcs, market, currency, botJob, due, stale, exchangeChan, indexChan, loop,
    DcrBtc, FiatIndices, Price, indexMap, botFailed, stateCopy, asked, chart, reader, answer,
    botFaults,
    txPool, poolBest, signals, poolClock, came, found, minedAt, heard, btime, lastBlock,
    inventory, txnsStore, addrMap, poolPC, poolJob, savers, cache, poolFaults, lost,
    rows, stats, best, meta, writerPC, writerTodo, stores, apic, clock, req, asks,
    node, moves, nodeFaults, notices, job, known, work, state, shown, psh, bg

botVars == <<master, xcs, market, currency, botJob, due, stale, exchangeChan, indexChan,
             loop, DcrBtc, FiatIndices, Price, indexMap, botFailed, stateCopy, asked, chart,
             reader, answer, botFaults>>
mempoolVars == <<txPool, poolBest, signals, poolClock, came, found, minedAt, heard, btime, lastBlock,
                 inventory, txnsStore, addrMap, poolPC, poolJob, savers, cache,
                 poolFaults, lost>>
summaryVars == <<rows, stats, best, meta, writerPC, writerTodo, stores, apic, clock, req,
                 asks>>
publisherVars == <<node, moves, nodeFaults, notices, job, known, work, state, shown, psh,
                   bg>>
serviceVars == <<service, botVars, mempoolVars, summaryVars, publisherVars>>

Bot == INSTANCE ExchangeBot WITH
    MaxMoves <- MarketMoves, MaxFaults <- BotFaults, job <- botJob,
    failed <- botFailed, faults <- botFaults, cur <- currency

Mempool == INSTANCE MempoolMonitor WITH
    MaxBlocks <- PoolBlocks, MaxTxs <- PoolTxs, MaxFaults <- PoolFaults,
    pool <- txPool, best <- poolBest, clock <- poolClock, pc <- poolPC, job <- poolJob,
    faults <- poolFaults

Summaries == INSTANCE BlockSummaries WITH pc <- writerPC, todo <- writerTodo

Publisher == INSTANCE BlockPublisher WITH
    MaxMoves <- NodeMoves, MaxFaults <- NodeFaults, faults <- nodeFaults,
    queue <- notices, page <- shown

ASSUME MempoolDataAssumption == Mempool!MempoolDataConstants
ASSUME MonitorAssumption == Mempool!MonitorConstants
ASSUME SummariesAssumption == Summaries!SummariesConstants
ASSUME PublisherAssumption == Publisher!PublisherConstants

IdleBot ==
    /\ master = 0 /\ xcs = 0 /\ market = 0 /\ currency = 0 /\ botJob = 0 /\ due = 0
    /\ stale = 0 /\ exchangeChan = 0 /\ indexChan = 0 /\ loop = 0 /\ DcrBtc = 0
    /\ FiatIndices = 0 /\ Price = 0 /\ indexMap = 0 /\ botFailed = 0 /\ stateCopy = 0 /\ asked = 0
    /\ chart = 0 /\ reader = 0 /\ answer = 0 /\ botFaults = 0
IdleMempool ==
    /\ txPool = 0 /\ poolBest = 0 /\ signals = 0 /\ poolClock = 0 /\ came = 0 /\ found = 0
    /\ minedAt = 0 /\ heard = 0 /\ btime = 0 /\ lastBlock = 0 /\ inventory = 0 /\ txnsStore = 0
    /\ addrMap = 0 /\ poolPC = 0 /\ poolJob = 0 /\ savers = 0 /\ cache = 0
    /\ poolFaults = 0 /\ lost = 0
IdleSummaries ==
    /\ rows = 0 /\ stats = 0 /\ best = 0 /\ meta = 0 /\ writerPC = 0 /\ writerTodo = 0
    /\ stores = 0 /\ apic = 0 /\ clock = 0 /\ req = 0 /\ asks = 0
IdlePublisher ==
    /\ node = 0 /\ moves = 0 /\ nodeFaults = 0 /\ notices = 0 /\ job = 0 /\ known = 0
    /\ work = 0 /\ state = 0 /\ shown = 0 /\ psh = 0 /\ bg = 0

ServicesInit ==
    /\ service \in Services
    /\ IF service = "bot" THEN Bot!Init ELSE IdleBot
    /\ IF service = "mempool" THEN Mempool!Init ELSE IdleMempool
    /\ IF service = "summaries" THEN Summaries!Init ELSE IdleSummaries
    /\ IF service = "publisher" THEN Publisher!Init ELSE IdlePublisher

BotStep == /\ service = "bot" /\ Bot!Next
           /\ UNCHANGED <<service, mempoolVars, summaryVars, publisherVars>>
MempoolStep == /\ service = "mempool" /\ Mempool!Next
               /\ UNCHANGED <<service, botVars, summaryVars, publisherVars>>
SummariesStep == /\ service = "summaries" /\ Summaries!Next
                 /\ UNCHANGED <<service, botVars, mempoolVars, publisherVars>>
PublisherStep == /\ service = "publisher" /\ Publisher!Next
                 /\ UNCHANGED <<service, botVars, mempoolVars, summaryVars>>

ServicesSpec ==
    /\ ServicesInit
    /\ [][BotStep \/ MempoolStep \/ SummariesStep \/ PublisherStep]_serviceVars

-------------------------------------------------------------------------------
(* Properties.                                                              *)

\* The depth or the candlesticks that QuickSticks or QuickDepth answer from the cache
\* are those the bot holds, whatever updates come in while other callers encode and
\* store.  The price beside them is that of when the chart was encoded.
BotChartsAreCurrent == service = "bot" => Bot!HitsAreCurrent


\* The monitor lists a mined transaction only when it heard of it in or after the
\* second that the block gives as its own.  Once all signals are handled, its
\* inventory and its address index are the node's mempool, but for what it heard of
\* in a second before that of the last block.  The ticket fees that the API answers
\* with are the highest ones collected.
MempoolIsMirrored ==
    service = "mempool" => Mempool!MempoolIsMirrored /\ Mempool!FeesAreHighest

\* The summary queries answer with the main chain's blocks through every
\* reorganisation, the best block's summary is always found, and the map, the
\* index and the queue of the API cache stay one cache.
SummariesFollowChain ==
    service = "summaries" => /\ Summaries!SummariesFollowChain
                          /\ Summaries!BestSummaryIsFound
                          /\ Summaries!ApiCacheIsOne

\* Once every notification is handled the pages show the node's best block, and
\* every figure collected for the home page is of it.  The annual staking rate is
\* not among them: goroutines of their own write it, in any order.
PageSettles == service = "publisher" => Publisher!PageSettles

\* UnconfirmedTxnsForAddress: "the values stored in TxnsStore are pointers, and
\* they are already allocated and stored in MempoolMonitor.txnsStore".
UnconfirmedHaveData == service = "mempool" => Mempool!UnconfirmedHaveData

===============================================================================
