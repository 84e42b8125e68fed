----------------------------- MODULE ExplorerHub -----------------------------
(***************************************************************************)
(* The websocket hub of the explorer's pages (explorer/websocket.go) and   *)
(* the handler of a page's connection (explorer/websockethandlers.go).     *)
(* The hub never waits for a slow page, except with exchange updates; the  *)
(* new transactions are gathered once for all pages, and a goroutine, or   *)
(* the ticker, asks the hub to send them.                                  *)
(***************************************************************************)
EXTENDS Naturals, Sequences, FiniteSets

CONSTANTS Client, Tx,
          SpokeCap,         \* capacity of a page's signal channel
          XcCap,            \* capacity of a page's exchange channel
          newTxBufferSize,
          clientSignalSize, \* capacity of the two ticker channels
          MaxUpdates        \* exchange updates

VARIABLES hub,          \* "select", "exchange", "stopped"
          todo,         \* pages the exchange update has still to go to
          clients,
          newTxBuffer,
          ticker,       \* bufferTickerChan, or closed
          sendBuffer,   \* how many requests are in sendBufferChan
          senders,      \* goroutines of maybeSendTxns, at their first or second step
          periodic,     \* the ticker's goroutine: "select", "sending", "ended"
          txsLeft, updates, quit,
          panic,        \* a send on a closed channel
          handler, spoke, closed, xc, batch, ws

vars == <<hub, todo, clients, newTxBuffer, ticker, sendBuffer, senders,
          periodic, txsLeft, updates, quit, panic, handler, spoke, closed, xc,
          batch, ws>>
page == <<handler, spoke, closed, xc, batch, ws>>
buffer == <<newTxBuffer, ticker, sendBuffer, senders, periodic>>
world == <<txsLeft, updates, quit, panic>>

ExplorerHubConstants ==
  /\ SpokeCap > 0 /\ XcCap > 0 /\ newTxBufferSize > 0 /\ clientSignalSize > 0

Init ==                                              \* NewWebsocketHub
  /\ hub = "select" /\ todo = {} /\ clients = {} /\ newTxBuffer = <<>>
  /\ ticker = [n |-> 0, stop |-> FALSE, closed |-> FALSE] /\ sendBuffer = 0
  /\ senders = <<0, 0>> /\ periodic = "select"
  /\ txsLeft = Tx /\ updates = 0 /\ quit = FALSE /\ panic = FALSE
  /\ handler = [c \in Client |-> "none"] /\ spoke = [c \in Client |-> <<>>]
  /\ closed = [c \in Client |-> FALSE] /\ xc = [c \in Client |-> 0]
  /\ batch = [c \in Client |-> <<>>] /\ ws = [c \in Client |-> FALSE]

Free == hub = "select"

-----------------------------------------------------------------------------
(* The hub's loop.                                                         *)

registerClient(c) ==
  /\ Free /\ handler[c] = "registering"
  /\ clients' = clients \cup {c}
  /\ handler' = [handler EXCEPT ![c] = "loop"]
  /\ ws' = [ws EXCEPT ![c] = TRUE]
  /\ UNCHANGED <<hub, todo, buffer, world, spoke, closed, xc, batch>>

\* Closing a spoke twice panics; the second call finds the page gone.
unregister_always(S) ==
  /\ clients' = clients \ S
  /\ closed' = [c \in Client |-> closed[c] \/ c \in S]
  /\ panic' = (panic \/ \E c \in S : closed[c])
unregister(S) ==
  /\ clients' = clients \ S
  /\ closed' = [c \in Client |-> closed[c] \/ c \in S \cap clients]
  /\ panic' = (panic \/ \E c \in S \cap clients : closed[c])

unregisterClient(c) ==
  /\ Free /\ handler[c] = "leaving"
  /\ unregister({c})
  /\ handler' = [handler EXCEPT ![c] = "done"]
  /\ UNCHANGED <<hub, todo, buffer, txsLeft, updates, quit, spoke, xc, batch, ws>>

\* A page whose channel is full is dropped at once.
Broadcast(sig) ==
  LET full == {c \in clients : Len(spoke[c]) = SpokeCap}
  IN /\ spoke' = [c \in Client |-> IF c \in clients \ full
                                   THEN Append(spoke[c], sig) ELSE spoke[c]]
     /\ unregister(full)

HubSignal(sig) ==                       \* a block, the mempool, a ping
  /\ Free
  /\ Broadcast(sig)
  /\ UNCHANGED <<hub, todo, buffer, txsLeft, updates, quit, handler, xc, batch, ws>>

\* maybeSendTxns: a full buffer starts a goroutine.
NewTx(t) ==
  /\ Free /\ t \in txsLeft
  /\ txsLeft' = txsLeft \ {t}
  /\ newTxBuffer' = Append(newTxBuffer, t)
  /\ senders' = IF Len(newTxBuffer) + 1 >= newTxBufferSize
                THEN <<senders[1] + 1, senders[2]>> ELSE senders
  /\ UNCHANGED <<hub, todo, clients, ticker, sendBuffer, periodic, updates,
                 quit, panic, page>>

\* The batch replaces the one before in every page, sent or not.
SendBuffer ==
  /\ Free /\ sendBuffer > 0
  /\ sendBuffer' = sendBuffer - 1
  /\ newTxBuffer' = <<>>
  /\ IF newTxBuffer = <<>> THEN UNCHANGED <<batch, spoke, clients, closed, panic>>
     ELSE /\ batch' = [c \in Client |-> IF c \in clients THEN newTxBuffer
                                        ELSE batch[c]]
          /\ Broadcast("newtxs")
  /\ UNCHANGED <<hub, todo, ticker, senders, periodic, txsLeft, updates, quit,
                 handler, xc, ws>>

\* An exchange update goes to every page's own channel, and waits for room.
ExchangeUpdate ==
  /\ Free /\ updates < MaxUpdates
  /\ updates' = updates + 1 /\ todo' = clients /\ hub' = "exchange"
  /\ UNCHANGED <<clients, buffer, txsLeft, quit, panic, page>>

ExchangeSend(c) ==
  /\ hub = "exchange" /\ c \in todo /\ xc[c] < XcCap
  /\ xc' = [xc EXCEPT ![c] = @ + 1] /\ todo' = todo \ {c}
  /\ UNCHANGED <<hub, clients, buffer, world, handler, spoke, closed, batch, ws>>

ExchangeSent ==
  /\ hub = "exchange" /\ todo = {}
  /\ hub' = "select"
  /\ UNCHANGED <<todo, clients, buffer, world, page>>

Stop ==
  /\ ~quit /\ quit' = TRUE
  /\ UNCHANGED <<hub, todo, clients, buffer, txsLeft, updates, panic, page>>

RunEnds ==
  /\ Free /\ quit /\ ticker.n < clientSignalSize
  /\ ticker' = [ticker EXCEPT !.stop = TRUE]           \* tickerSigStop
  /\ unregister(clients)                               \* unregisterAllClients
  /\ hub' = "stopped"
  /\ UNCHANGED <<todo, newTxBuffer, sendBuffer, senders, periodic, txsLeft,
                 updates, quit, handler, spoke, xc, batch, ws>>

-----------------------------------------------------------------------------
(* The ticker and the goroutines that ask for the buffer to be sent.       *)

SenderResets ==
  /\ senders[1] > 0
  /\ IF ticker.closed
     THEN /\ panic' = TRUE /\ senders' = <<senders[1] - 1, senders[2]>>
          /\ UNCHANGED ticker
     ELSE /\ ticker.n < clientSignalSize
          /\ ticker' = [ticker EXCEPT !.n = @ + 1]
          /\ senders' = <<senders[1] - 1, senders[2] + 1>>
          /\ UNCHANGED panic
  /\ UNCHANGED <<hub, todo, clients, newTxBuffer, sendBuffer, periodic, txsLeft,
                 updates, quit, page>>

SenderAsks ==
  /\ senders[2] > 0 /\ sendBuffer < clientSignalSize
  /\ senders' = <<senders[1], senders[2] - 1>> /\ sendBuffer' = sendBuffer + 1
  /\ UNCHANGED <<hub, todo, clients, newTxBuffer, ticker, periodic, world, page>>

PeriodicTick ==
  /\ periodic = "select" /\ newTxBuffer # <<>> /\ periodic' = "sending"
  /\ UNCHANGED <<hub, todo, clients, newTxBuffer, ticker, sendBuffer, senders,
                 world, page>>

PeriodicAsks_forgets ==
  /\ periodic = "sending" /\ periodic' = "select"
  /\ UNCHANGED <<hub, todo, clients, newTxBuffer, ticker, sendBuffer, senders,
                 world, page>>
PeriodicAsks ==
  /\ periodic = "sending" /\ sendBuffer < clientSignalSize
  /\ periodic' = "select" /\ sendBuffer' = sendBuffer + 1
  /\ UNCHANGED <<hub, todo, clients, newTxBuffer, ticker, senders, world, page>>

PeriodicReset ==
  /\ periodic = "select" /\ ticker.n > 0
  /\ ticker' = [ticker EXCEPT !.n = @ - 1]
  /\ UNCHANGED <<hub, todo, clients, newTxBuffer, sendBuffer, senders, periodic,
                 world, page>>

PeriodicStop ==
  /\ periodic = "select" /\ ticker.n = 0 /\ ticker.stop
  /\ periodic' = "ended" /\ ticker' = [ticker EXCEPT !.closed = TRUE]
  /\ UNCHANGED <<hub, todo, clients, newTxBuffer, sendBuffer, senders, world, page>>

-----------------------------------------------------------------------------
(* RootWebsocket: the handler of a page.                                   *)

RootWebsocket(c) ==
  /\ handler[c] = "none" /\ handler' = [handler EXCEPT ![c] = "registering"]
  /\ UNCHANGED <<hub, todo, clients, buffer, world, spoke, closed, xc, batch, ws>>

PageCloses(c) ==                      \* the browser goes, or the read times out
  /\ ws[c] /\ ws' = [ws EXCEPT ![c] = FALSE]
  /\ UNCHANGED <<hub, todo, clients, buffer, world, handler, spoke, closed, xc,
                 batch>>

\* A signal, or an exchange update, is sent; a send that fails ends the loop.
Forward(c) ==
  handler' = IF ws[c] THEN handler ELSE [handler EXCEPT ![c] = "leaving"]

PageSignal(c) ==
  /\ handler[c] = "loop" /\ spoke[c] # <<>>
  /\ spoke' = [spoke EXCEPT ![c] = Tail(@)]
  /\ Forward(c)
  /\ UNCHANGED <<hub, todo, clients, buffer, world, closed, xc, batch, ws>>

PageUpdate(c) ==
  /\ handler[c] = "loop" /\ xc[c] > 0
  /\ xc' = [xc EXCEPT ![c] = @ - 1]
  /\ Forward(c)
  /\ UNCHANGED <<hub, todo, clients, buffer, world, spoke, closed, batch, ws>>

PageEnds(c) ==          \* the hub closed the spoke, or the hub is stopping
  /\ handler[c] = "loop" /\ ((spoke[c] = <<>> /\ closed[c]) \/ quit)
  /\ handler' = [handler EXCEPT ![c] = "leaving"]
  /\ ws' = [ws EXCEPT ![c] = FALSE]
  /\ UNCHANGED <<hub, todo, clients, buffer, world, spoke, closed, xc, batch>>

-----------------------------------------------------------------------------
Next ==
  \/ HubSignal("ping") \/ SendBuffer \/ ExchangeUpdate \/ ExchangeSent
  \/ Stop \/ RunEnds
  \/ SenderResets \/ SenderAsks
  \/ PeriodicTick \/ PeriodicAsks \/ PeriodicReset \/ PeriodicStop
  \/ \E t \in Tx : NewTx(t)
  \/ \E c \in Client :
       \/ registerClient(c) \/ unregisterClient(c) \/ ExchangeSend(c)
       \/ RootWebsocket(c) \/ PageCloses(c) \/ PageSignal(c) \/ PageUpdate(c)
       \/ PageEnds(c)

\* The goroutines run and the tickers tick; select does not pass over a ready
\* channel forever.  Pages come and go, and Stop is called, as they like.
Fair(k) ==
  \/ k = "exchange" /\ (ExchangeSent \/ \E c \in Client : ExchangeSend(c))
  \/ k = "resets" /\ SenderResets
  \/ k = "asks" /\ SenderAsks
  \/ k = "tick" /\ PeriodicTick
  \/ k = "periodic" /\ PeriodicAsks
  \/ k \in Client /\ (PageSignal(k) \/ PageUpdate(k) \/ PageEnds(k))
StronglyFair(k) ==
  \/ k = "send" /\ SendBuffer
  \/ k = "end" /\ RunEnds
  \/ k \in Client /\ unregisterClient(k)

Fairness ==
  /\ \A k \in {"exchange", "resets", "asks", "tick", "periodic"} \cup Client : WF_vars(Fair(k))
  /\ \A k \in {"send", "end"} \cup Client : SF_vars(StronglyFair(k))

Spec == Init /\ [][Next]_vars /\ Fairness

-----------------------------------------------------------------------------
(* Properties                                                              *)

\* While the hub runs nothing panics: no spoke is closed twice, though both
\* the hub (a slow page) and the page's handler unregister it, and nothing is
\* sent on a spoke that is closed (unregisterClient).
NoPanicWhileRunning ==
  /\ hub # "stopped" => ~panic
  /\ \A c \in clients : ~closed[c]

\* New transactions do not stay in the buffer while the hub runs: the full
\* buffer's goroutine or the ticker gets them sent (periodicBufferSend).
BufferIsEmpty == newTxBuffer = <<>> \/ quit
BufferIsSent == []<>BufferIsEmpty

\* "This call will block if the run() loop is not running" (websocket.go:
\* 137-138): so long as run() has not ended, UnregisterClient returns, that
\* is, the hub is not waiting for a page that is waiting for the hub.
NotWaitingForLeaver ==
  \A c \in todo : ~quit /\ xc[c] = XcCap => handler[c] # "leaving"
=============================================================================
