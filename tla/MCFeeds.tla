-------------------------------- MODULE MCFeeds --------------------------------
(***************************************************************************)
(* The feeds in one run: order books streamed by exchanges, the PubSubHub,   *)
(* the explorer's websocket hub, the pubsub client, the bulk load of the     *)
(* tables and its status page.  They share nothing, so a behaviour is a      *)
(* behaviour of one of them: part says which, and the others stay in their   *)
(* initial states.  The fairness of a part is asked only while it runs.      *)
(*                                                                         *)
(* The run: order book with two prices, four books, two faults; hubs with    *)
(* one client, two transactions, a spoke of one place and a buffer of two,   *)
(* so that spokes and buffers are full; two callers of the pubsub client and *)
(* two pushed messages; a bulk load of three blocks, one with a transaction  *)
(* that an earlier one held too, in chunks of two blocks, with two faults; a *)
(* status page over two syncs with four bars and a channel of two places.    *)
(***************************************************************************)
EXTENDS Integers, Sequences, TLC

CONSTANTS
    ExchangeBooks, QueueSize, BookFaults,                        \* of OrderBook
    Client, Tx, SpokeCap,                                        \* of both hubs
    Signals, NewTxBufferSize, MaxBlocks, MaxRequests, MayTimeOut, \* of PubSubHub
    XcCap, newTxBufferSize, clientSignalSize, MaxUpdates,        \* of ExplorerHub
    Caller, Cap, Events, MaxPush, MayFail,                       \* of PubSubClient
    MaxHeight, LoadFaults, Remined, Chunk,                       \* of ChainSync
    MaxSends, MaxSyncs, Room                                     \* of SyncStatus

FourBooks == <<<<0, 1>>, <<1, 1>>, <<2, 0>>, <<0, 0>>>>

VARIABLES
    part,
    venue, n, bookConn, old, book, orderSeq, queue, obRequested, status, bookPC,
    bookFaults,
    hub, clients, numClients, timeToSend, offers, block, txsLeft, requests, handler,
    spoke, closed, subs, newTxs, loops, ws, told, got,
    pageHub, pageTodo, pages, newTxBuffer, bufferTicker, sendBuffer, senders, periodic,
    pageTxsLeft, updates, quit, panic, pageHandler, pageSpoke, pageClosed, xc, batch,
    pageWs,
    nextRequestID, pending, call, toServer, fromServer, pushes, deliver, inbox, receiver,
    conn,
    indexes, height, ibd, dups, leftover, unset, unmatched, pc, todo, newIndexes,
    updateAll, reindexing, dupChecks, nodeHeight, cursor, failed, kept, tip, faults,
    main, syncs, muted, sent, barLoad, progressBars, statusReceiver, ticker, page, relayed

bookVars == <<venue, n, bookConn, old, book, orderSeq, queue, obRequested, status,
              bookPC, bookFaults>>
hubVars == <<hub, clients, numClients, timeToSend, offers, block, txsLeft, requests,
             handler, spoke, closed, subs, newTxs, loops, ws, told, got>>
pageVars == <<pageHub, pageTodo, pages, newTxBuffer, bufferTicker, sendBuffer, senders,
              periodic, pageTxsLeft, updates, quit, panic, pageHandler, pageSpoke,
              pageClosed, xc, batch, pageWs>>
clientVars == <<nextRequestID, pending, call, toServer, fromServer, pushes, deliver,
                inbox, receiver, conn>>
syncVars == <<indexes, height, ibd, dups, leftover, unset, unmatched, pc, todo,
              newIndexes, updateAll, reindexing, dupChecks, nodeHeight, cursor, failed,
              kept, tip, faults>>
statusVars == <<main, syncs, muted, sent, barLoad, progressBars, statusReceiver, ticker,
                page, relayed>>
feedVars == <<part, bookVars, hubVars, pageVars, clientVars, syncVars, statusVars>>

Books == INSTANCE OrderBook WITH
    Books <- ExchangeBooks, maxBittrexQueueSize <- QueueSize, MaxFaults <- BookFaults,
    conn <- bookConn, pc <- bookPC, faults <- bookFaults

Hub == INSTANCE PubSubHub

Pages == INSTANCE ExplorerHub WITH
    hub <- pageHub, todo <- pageTodo, clients <- pages, ticker <- bufferTicker,
    txsLeft <- pageTxsLeft, handler <- pageHandler, spoke <- pageSpoke,
    closed <- pageClosed, ws <- pageWs

Calls == INSTANCE PubSubClient WITH requests <- pending

Load == INSTANCE ChainSync WITH MaxFaults <- LoadFaults

Status == INSTANCE SyncStatus WITH receiver <- statusReceiver

ASSUME BooksAssumption == Books!OrderBookConstants
ASSUME HubAssumption == Hub!HubConstants
ASSUME PagesAssumption == Pages!ExplorerHubConstants
ASSUME ClientAssumption == Calls!ClientConstants
ASSUME LoadAssumption == Load!SyncConstants
ASSUME StatusAssumption == Status!StatusConstants

\* A part that does not run stays in its initial state; the exchange of the
\* order book is fixed then, to have one such state.
MCInit ==
    /\ part \in {"book", "hub", "page", "client", "sync", "status"}
    /\ Books!Init /\ (part # "book" => venue = "bittrex")
    /\ Hub!Init /\ Pages!Init /\ Calls!Init /\ Load!Init /\ Status!Init

BooksRuns == /\ part = "book"
             /\ UNCHANGED <<part, hubVars, pageVars, clientVars, syncVars, statusVars>>
HubRuns == /\ part = "hub"
           /\ UNCHANGED <<part, bookVars, pageVars, clientVars, syncVars, statusVars>>
PagesRuns == /\ part = "page"
             /\ UNCHANGED <<part, bookVars, hubVars, clientVars, syncVars, statusVars>>
ClientRuns == /\ part = "client"
              /\ UNCHANGED <<part, bookVars, hubVars, pageVars, syncVars, statusVars>>
LoadRuns == /\ part = "sync"
            /\ UNCHANGED <<part, bookVars, hubVars, pageVars, clientVars, statusVars>>
StatusRuns == /\ part = "status"
              /\ UNCHANGED <<part, bookVars, hubVars, pageVars, clientVars, syncVars>>

MCNext ==
    \/ BooksRuns /\ Books!Next
    \/ HubRuns /\ Hub!Next
    \/ PagesRuns /\ Pages!Next
    \/ ClientRuns /\ Calls!Next
    \/ LoadRuns /\ Load!Next
    \/ StatusRuns /\ Status!Next

\* The strongly fair activities of the three parts that have them: as only one
\* part ever moves, those of one number or page share one condition.
Ordinal == {"first", "second"}
StronglyFairVars == <<hubVars, pageVars, statusVars>>
StronglyFairStep(k) ==
    \/ /\ part = "hub" /\ UNCHANGED <<pageVars, statusVars>>
       /\ k \in Ordinal /\ Hub!StronglyFair([first |-> "takebye", second |-> "unregister"][k])
    \/ /\ part = "page" /\ UNCHANGED <<hubVars, statusVars>>
       /\ \/ k \in Ordinal /\ Pages!StronglyFair([first |-> "send", second |-> "end"][k])
          \/ k \in Client /\ Pages!StronglyFair(k)
    \/ /\ part = "status" /\ UNCHANGED <<hubVars, pageVars>>
       /\ \/ k \in Ordinal /\ Status!StronglyFair([first |-> 1, second |-> 2][k])
          \/ k \in Client /\ Status!StronglyFair(3)

MCSpec ==
    /\ MCInit /\ [][MCNext]_feedVars
    /\ \A k \in 1..7 : WF_bookVars(part = "book" /\ Books!Fair(k))
    /\ \A k \in {"loop", "ping", "takeping"} \cup Client :
           WF_hubVars(part = "hub" /\ Hub!Fair(k))
    /\ \A k \in {"exchange", "resets", "asks", "tick", "periodic"} \cup Client :
           WF_pageVars(part = "page" /\ Pages!Fair(k))
    /\ \A k \in {"server", "application", "receiver"} \cup Caller :
           WF_clientVars(part = "client" /\ Calls!Fair(k))
    /\ WF_syncVars(part = "sync" /\ Load!Sync)
    /\ \A k \in 1..6 : WF_statusVars(part = "status" /\ Status!Fair(k))
    /\ \A k \in Ordinal \cup Client : SF_StronglyFairVars(StronglyFairStep(k))

-------------------------------------------------------------------------------
(* Properties.                                                              *)

\* While an exchange's feed counts as listening the book shown is the exchange's
\* book of its number, whatever was lost, came early or came twice.
BookFollowsExchange == part = "book" => Books!BookFollowsExchange

\* Messages reach the right reader and nothing panics: the PubSubHub sends every
\* transaction once and in order and never on a closed spoke, the explorer's hub
\* closes no channel twice, and a call of the pubsub client returns the answer
\* to its own request.
HubsAreSafe ==
    /\ part = "hub" => Hub!TxsArriveOnce /\ Hub!SpokesAreSafe
    /\ part = "page" => Pages!NoPanicWhileRunning
    /\ part = "client" => Calls!AnswersMatch

\* A process that reports "All ready" has every index and every block's spending
\* information, whatever crashes came before; and the status page lists every bar
\* once and never goes back to an older value.
SyncIsSound ==
    /\ part = "sync" => Load!ReadyIsSound
    /\ part = "status" => Status!PageIsOrdered

\* The book is the exchange's latest again and again: later refreshes repair lost
\* updates and connections.
BookCatchesUp == []<>(part = "book" => Books!BookIsLatest)

\* A dead client leaves the PubSubHub, which ends after Stop; the explorer's
\* buffer of new transactions is sent; and a client's call returns while the
\* connection is up.
MessagesArrive ==
    []<>(/\ part = "hub" => Hub!HubIsSettled
         /\ part = "page" => Pages!BufferIsEmpty
         /\ part = "client" => Calls!NobodyWaits)

\* However it is interrupted, the bulk load is completed; and once the nil is on
\* the channel the status page ends.
SyncEnds ==
    []<>(/\ part = "sync" => Load!Complete
         /\ part = "status" => Status!NilIsHeeded)

===============================================================================
