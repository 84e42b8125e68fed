------------------------------ MODULE PubSubHub ------------------------------
(***************************************************************************)
(* The pubsub server (pubsub/pubsubhub.go, pubsub/websocket.go): the hub's *)
(* loop takes messages from many goroutines and copies them to the spokes  *)
(* (channels) of the clients that want them; every connection has a loop   *)
(* that sends and one that receives; transactions are gathered per client  *)
(* and sent in batches.  One handler per client, started once.             *)
(***************************************************************************)
EXTENDS Naturals, Sequences, FiniteSets

CONSTANTS Client, Tx,
          Signals,          \* signals other than the transactions'
          SpokeCap,         \* capacity of a spoke
          NewTxBufferSize,
          MaxBlocks, MaxRequests,
          MayTimeOut        \* whether offers and sends may time out

VARIABLES hub,        \* what the hub's loop is doing
          clients,    \* the hub's map
          numClients,
          timeToSend, \* the flag of the periodic sender
          offers,     \* messages that goroutines are trying to hand to the hub
          block, txsLeft, requests,
          handler,    \* client -> stage of its WebSocketHandler
          spoke, closed, subs, newTxs,
          loops,      \* client -> its loops that still run
          ws,         \* client -> the connection is open
          told, got   \* transactions the hub took for a client, and it received

vars == <<hub, clients, numClients, timeToSend, offers, block, txsLeft,
          requests, handler, spoke, closed, subs, newTxs, loops, ws, told, got>>
hubVars == <<hub, clients, numClients, timeToSend, offers>>
peer == <<handler, spoke, closed, subs, newTxs, loops, ws, told, got>>
env == <<block, txsLeft, requests>>

HubConstants == SpokeCap > 0 /\ NewTxBufferSize > 0

Msg(s) == [sig |-> s, tx |-> 0]
NewTx(t) == [sig |-> "newtx", tx |-> t]
Idle == [at |-> "select", msg |-> Msg("none"), todo |-> {}, quit |-> FALSE]
Free == hub.at = "select"

Init ==                                     \* NewPubSubHub, NewWebsocketHub
  /\ hub = Idle /\ clients = {} /\ numClients = 0 /\ timeToSend = FALSE
  /\ offers = {} /\ block = 0 /\ txsLeft = Tx /\ requests = 0
  /\ handler = [c \in Client |-> "none"] /\ spoke = [c \in Client |-> <<>>]
  /\ closed = [c \in Client |-> FALSE] /\ subs = [c \in Client |-> {}]
  /\ newTxs = [c \in Client |-> <<>>] /\ loops = [c \in Client |-> {}]
  /\ ws = [c \in Client |-> FALSE]
  /\ told = [c \in Client |-> <<>>] /\ got = [c \in Client |-> <<>>]

-----------------------------------------------------------------------------
(* The goroutines that feed the hub.                                       *)

Offer(m) == offers' = offers \cup {m}

\* Store offers the new block, and the coinbase transaction, each from a
\* goroutine of its own (the transaction here is one of txsLeft).
Store ==
  /\ block < MaxBlocks /\ hub.at # "stopped"
  /\ block' = block + 1
  /\ Offer(Msg("newblock"))
  /\ UNCHANGED <<hub, clients, numClients, timeToSend, txsLeft, requests, peer>>

\* hubSend of the mempool monitor: one transaction at a time.
OfferTx(t) ==
  /\ t \in txsLeft /\ \A m \in offers : m.sig # "newtx"
  /\ txsLeft' = txsLeft \ {t} /\ Offer(NewTx(t))
  /\ UNCHANGED <<hub, clients, numClients, timeToSend, block, requests, peer>>

OfferTimesOut(m) ==
  /\ MayTimeOut /\ m \in offers /\ m.sig # "ping"
  /\ offers' = offers \ {m}
  /\ UNCHANGED <<hub, clients, numClients, timeToSend, env, peer>>

pingClients ==
  /\ hub.at # "stopped" /\ Msg("ping") \notin offers
  /\ Offer(Msg("ping"))
  /\ UNCHANGED <<hub, clients, numClients, timeToSend, env, peer>>

\* periodicTxBufferSend only raises a flag.
periodicTxBufferSend ==
  /\ hub.at # "stopped" /\ ~timeToSend /\ txsLeft # {}
  /\ timeToSend' = TRUE
  /\ UNCHANGED <<hub, clients, numClients, offers, env, peer>>

-----------------------------------------------------------------------------
(* The hub's loop.                                                         *)

Drop(c) == clients' = clients \ {c} /\ numClients' = Cardinality(clients \ {c})

registerClient(c) ==
  /\ Free /\ handler[c] = "registering"
  /\ clients' = clients \cup {c}
  /\ numClients' = Cardinality(clients \cup {c})
  /\ handler' = [handler EXCEPT ![c] = "up"]
  /\ ws' = [ws EXCEPT ![c] = TRUE]
  /\ loops' = [loops EXCEPT ![c] = {"send", "receive"}]
  /\ UNCHANGED <<hub, timeToSend, offers, env, spoke, closed, subs, newTxs,
                 told, got>>

isSubscribed(c, m) == m.sig \in subs[c]

AddTxToBuffer(t) ==
  /\ newTxs' = [c \in Client |-> IF c \in clients THEN Append(newTxs[c], t)
                                 ELSE newTxs[c]]
  /\ told' = [c \in Client |-> IF c \in clients THEN Append(told[c], t)
                               ELSE told[c]]

\* The value of the loop is that of the client it visits last.
AnyReady == \E c \in clients : Len(newTxs'[c]) >= NewTxBufferSize
maybeSendTxns(last) == Len(newTxs'[last]) >= NewTxBufferSize

Copy(m) == [hub EXCEPT !.at = "copy", !.msg = m, !.todo = clients]

\* A message is received: the transactions become a batch when it is time.
TakeTx(m) ==
  /\ Free /\ m \in offers /\ m.sig = "newtx" /\ clients # {}
  /\ offers' = offers \ {m}
  /\ AddTxToBuffer(m.tx)
  /\ \E last \in clients :
       hub' = IF maybeSendTxns(last) \/ timeToSend
              THEN Copy(Msg("newtxs")) ELSE Copy(m)
  /\ UNCHANGED <<clients, numClients, timeToSend, env, handler, spoke, closed,
                 subs, loops, ws, got>>

TakeMsg(m) ==
  /\ Free /\ m \in offers /\ (m.sig # "newtx" \/ clients = {})
  /\ offers' = offers \ {m}
  /\ hub' = [(IF clients = {} THEN hub ELSE Copy(m))
                EXCEPT !.quit = @ \/ m.sig = "bye"]   \* Stop closes the channel
  /\ UNCHANGED <<clients, numClients, timeToSend, env, peer>>

ToAll(m) == m.sig \in {"ping", "bye"}
Copying(c) == hub.at = "copy" /\ c \in hub.todo
Copied(c) == hub' = [hub EXCEPT !.todo = @ \ {c}]

Wanted(c) == Copying(c) /\ (ToAll(hub.msg) \/ isSubscribed(c, hub.msg))

sendMsg(c) ==
  /\ Wanted(c) /\ Len(spoke[c]) < SpokeCap
  /\ spoke' = [spoke EXCEPT ![c] = Append(@, hub.msg)]
  /\ Copied(c)
  /\ UNCHANGED <<clients, numClients, timeToSend, offers, env, handler, closed,
                 subs, newTxs, loops, ws, told, got>>

\* unregisterClient closes the spoke and waits for the killed channel, which
\* is closed already when sendMsg finds it so.
unregisterClient_keeps(c) == UNCHANGED <<clients, numClients, closed>>
unregisterClient(c) == Drop(c) /\ closed' = [closed EXCEPT ![c] = TRUE]

SendFindsKilled(c) ==
  /\ Wanted(c) /\ handler[c] = "killed"
  /\ unregisterClient(c)
  /\ Copied(c)
  /\ UNCHANGED <<timeToSend, offers, env, handler, spoke, subs, newTxs, loops,
                 ws, told, got>>

\* The timer of five seconds fires while neither other case is ready.
SendTimesOut(c) ==
  /\ MayTimeOut /\ Wanted(c) /\ Len(spoke[c]) = SpokeCap /\ handler[c] # "killed"
  /\ Copied(c)
  /\ UNCHANGED <<clients, numClients, timeToSend, offers, env, peer>>

CopyEnds ==
  /\ hub.at = "copy" /\ \A c \in hub.todo : ~Wanted(c)  \* the rest want it not
  /\ timeToSend' = (timeToSend /\ hub.msg.sig # "newtxs")
  /\ hub' = [Idle EXCEPT !.quit = hub.quit]
  /\ UNCHANGED <<clients, numClients, offers, env, peer>>

-----------------------------------------------------------------------------
(* Stop: a farewell, then every spoke is closed and every handler awaited. *)

Stop ==
  /\ ~hub.quit /\ Msg("bye") \notin offers /\ block = MaxBlocks
  /\ Offer(Msg("bye"))
  /\ UNCHANGED <<hub, clients, numClients, timeToSend, env, peer>>

unregisterAllClients ==
  /\ Free /\ hub.quit
  /\ closed' = [c \in Client |-> closed[c] \/ c \in clients]
  /\ hub' = [hub EXCEPT !.at = "draining", !.todo = clients]
  /\ clients' = {} /\ numClients' = 0
  /\ UNCHANGED <<timeToSend, offers, env, handler, spoke, subs, newTxs, loops,
                 ws, told, got>>

\* Whatever is offered when the loop ends is dropped; killed is closed last.
RunEnds ==
  /\ hub.at = "draining" /\ \A c \in hub.todo : handler[c] = "killed"
  /\ hub' = [hub EXCEPT !.at = "stopped"] /\ offers' = {}
  /\ UNCHANGED <<clients, numClients, timeToSend, env, peer>>

-----------------------------------------------------------------------------
(* The connections.                                                        *)

WebSocketHandler(c) ==
  /\ handler[c] = "none" /\ hub.at \in {"select", "copy"}
  /\ handler' = [handler EXCEPT ![c] = "registering"]
  /\ UNCHANGED <<hubVars, env, spoke, closed, subs, newTxs, loops, ws, told, got>>

\* receiveLoop: one request; the answer goes out before the next is read.
subscribe(c, s) ==
  /\ "receive" \in loops[c] /\ ws[c] /\ requests < MaxRequests
  /\ s \in Signals /\ s \notin subs[c]
  /\ requests' = requests + 1
  /\ subs' = [subs EXCEPT ![c] = @ \cup {s}]
  /\ UNCHANGED <<hubVars, block, txsLeft, handler, spoke, closed, newTxs, loops,
                 ws, told, got>>

unsubscribe(c, s) ==
  /\ "receive" \in loops[c] /\ ws[c] /\ requests < MaxRequests
  /\ s \in subs[c]
  /\ requests' = requests + 1
  /\ subs' = [subs EXCEPT ![c] = @ \ {s}]
  /\ UNCHANGED <<hubVars, block, txsLeft, handler, spoke, closed, newTxs, loops,
                 ws, told, got>>

Disconnect(c) ==                 \* the client goes away: the read fails
  /\ ws[c] /\ ws' = [ws EXCEPT ![c] = FALSE]
  /\ loops' = [loops EXCEPT ![c] = @ \ {"receive"}]
  /\ UNCHANGED <<hubVars, env, handler, spoke, closed, subs, newTxs, told, got>>

\* A message that cannot be decoded, or an answer that cannot be sent, ends
\* receiveLoop too, and the connection stays.
ReceiveFails(c) ==
  /\ "receive" \in loops[c] /\ ws[c] /\ requests < MaxRequests
  /\ requests' = requests + 1
  /\ loops' = [loops EXCEPT ![c] = @ \ {"receive"}]
  /\ UNCHANGED <<hubVars, block, txsLeft, handler, spoke, closed, subs, newTxs,
                 ws, told, got>>

\* A batch is encoded and the buffer reset under the buffer's lock.
Batch_kept(c) == /\ got' = [got EXCEPT ![c] = @ \o newTxs[c]]
                 /\ UNCHANGED newTxs
Batch(c) == /\ got' = [got EXCEPT ![c] = @ \o newTxs[c]]
            /\ newTxs' = [newTxs EXCEPT ![c] = <<>>]

sendLoop(c) ==
  /\ "send" \in loops[c] /\ spoke[c] # <<>>
  /\ LET m == Head(spoke[c])
         skip == \/ ~ToAll(m) /\ ~isSubscribed(c, m)
                 \/ m.sig = "newtxs" /\ newTxs[c] = <<>>
     IN /\ IF m.sig = "newtxs" /\ ~skip THEN Batch(c)
           ELSE UNCHANGED <<got, newTxs>>
        /\ IF skip \/ ws[c]
           THEN UNCHANGED <<loops, ws>>
           ELSE /\ loops' = [loops EXCEPT ![c] = @ \ {"send"}]   \* Send fails
                /\ UNCHANGED ws
  /\ spoke' = [spoke EXCEPT ![c] = Tail(@)]
  /\ UNCHANGED <<hubVars, env, handler, closed, subs, told>>

\* The end of the spoke ends the loop, and closes the connection with it.
SpokeClosed(c) ==
  /\ "send" \in loops[c] /\ spoke[c] = <<>> /\ closed[c]
  /\ loops' = [loops EXCEPT ![c] = {}]
  /\ ws' = [ws EXCEPT ![c] = FALSE]
  /\ UNCHANGED <<hubVars, env, handler, spoke, closed, subs, newTxs, told, got>>

HandlerEnds(c) ==
  /\ handler[c] = "up" /\ loops[c] = {}
  /\ handler' = [handler EXCEPT ![c] = "killed"]
  /\ subs' = [subs EXCEPT ![c] = {}]                  \* unsubscribeAll
  /\ UNCHANGED <<hubVars, env, spoke, closed, newTxs, loops, ws, told, got>>

-----------------------------------------------------------------------------
Next ==
  \/ Store \/ pingClients \/ periodicTxBufferSend
  \/ \E t \in Tx : OfferTx(t)
  \/ \E m \in offers : OfferTimesOut(m) \/ TakeTx(m) \/ TakeMsg(m)
  \/ CopyEnds \/ Stop \/ unregisterAllClients \/ RunEnds
  \/ \E c \in Client :
       \/ registerClient(c) \/ sendMsg(c)
       \/ SendFindsKilled(c) \/ SendTimesOut(c)
       \/ WebSocketHandler(c) \/ Disconnect(c) \/ ReceiveFails(c)
       \/ sendLoop(c) \/ SpokeClosed(c) \/ HandlerEnds(c)
       \/ \E s \in Signals : subscribe(c, s) \/ unsubscribe(c, s)

\* The goroutines run, the tickers tick, a timer fires when nothing else can;
\* select does not pass over a channel forever; nothing makes clients come or
\* ask, offers be made, or Stop be called.
LoopStep ==
  \/ CopyEnds \/ RunEnds
  \/ \E c \in Client : sendMsg(c) \/ SendFindsKilled(c) \/ SendTimesOut(c)
Fair(k) ==
  \/ k = "loop" /\ LoopStep
  \/ k = "ping" /\ pingClients
  \/ k = "takeping" /\ \E m \in offers : m.sig = "ping" /\ TakeMsg(m)
  \/ k \in Client /\ (sendLoop(k) \/ SpokeClosed(k) \/ HandlerEnds(k))
StronglyFair(k) ==
  \/ k = "takebye" /\ \E m \in offers : m.sig = "bye" /\ TakeMsg(m)
  \/ k = "unregister" /\ unregisterAllClients

Fairness ==
  /\ \A k \in {"loop", "ping", "takeping"} \cup Client : WF_vars(Fair(k))
  /\ \A k \in {"takebye", "unregister"} : SF_vars(StronglyFair(k))

Spec == Init /\ [][Next]_vars /\ Fairness

-----------------------------------------------------------------------------
(* Properties                                                              *)

\* Every transaction that the hub took while a client was registered reaches
\* the client at most once and in order: what was sent and what waits in its
\* buffer are together what the hub took (addTxToBuffer and sendLoop share
\* the buffer from two goroutines).
TxsArriveOnce == \A c \in Client : got[c] \o newTxs[c] = told[c]

\* A spoke is closed once, when the client leaves the map, nothing is sent on
\* it then, and the count of clients that pings carry is that of the map
\* (unregisterClient, sendMsg).
SpokesAreSafe ==
  /\ \A c \in clients : ~closed[c]
  /\ hub.at = "copy" => hub.todo \subseteq clients
  /\ numClients = Cardinality(clients)

\* A client whose handler has ended leaves the hub's map, found out by the
\* pings if by nothing else; and once Stop has said goodbye, the hub closes
\* every connection and ends (sendMsg, unregisterAllClients, Run).
HubIsSettled ==
  /\ \A c \in Client : handler[c] = "killed" => c \notin clients
  /\ hub.quit => hub.at = "stopped"
HubServes == []<>HubIsSettled

\* "addTxToBuffer adds the transaction to each client's tx buffer, and
\* indicates if at least one client has a buffer at or above the send limit"
\* (pubsub/websocket.go:528-529): then the hub sends.
LimitTriggersSend ==
  [][\A m \in offers : TakeTx(m) /\ AnyReady => hub'.msg.sig = "newtxs"]_vars
=============================================================================
