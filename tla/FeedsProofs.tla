------------------------------ MODULE FeedsProofs ------------------------------
(***************************************************************************)
(* Proofs about the feeds, for every number of clients, pages and callers,  *)
(* every capacity of a channel and every bound of the run: each part of the *)
(* run has an invariant of its own, and the parts share no variable.        *)
(***************************************************************************)
EXTENDS MCFeeds, BlockTreeProofs, SequenceTheorems, FiniteSetTheorems, TLAPS

-------------------------------------------------------------------------------
(* Steps of sequences.                                                      *)

\* What a channel holds after its first element was taken.
LEMMA TailOf ==
    ASSUME NEW S, NEW s \in Seq(S), s # <<>>
    PROVE  /\ Head(s) \in S /\ Tail(s) \in Seq(S) /\ Len(Tail(s)) = Len(s) - 1
           /\ Head(s) = s[1] /\ 1 \in DOMAIN s
           /\ \A i \in DOMAIN Tail(s) : i + 1 \in DOMAIN s /\ Tail(s)[i] = s[i + 1]
  OBVIOUS

\* What it holds after one more was put in.
LEMMA AppendOfConcat ==
    ASSUME NEW S, NEW s \in Seq(S), NEW t \in Seq(S), NEW e \in S
    PROVE  s \o Append(t, e) = Append(s \o t, e)
  OBVIOUS

LEMMA AppendOf ==
    ASSUME NEW S, NEW s \in Seq(S), NEW e \in S
    PROVE  /\ Append(s, e) \in Seq(S)
           /\ \A i \in DOMAIN Append(s, e) :
                 \/ i \in DOMAIN s /\ Append(s, e)[i] = s[i]
                 \/ i = Len(s) + 1 /\ Append(s, e)[i] = e
  OBVIOUS

-------------------------------------------------------------------------------
(* The PubSubHub.                                                           *)

Stage == {"none", "registering", "up", "killed"}

\* The transactions in a client's buffer and those it was sent are what the hub
\* took for it; only a client that has been registered is in the map or has a
\* closed spoke, never both, and what is copied goes to the clients of the map.
OffersOK == \A m \in offers : m.sig = "newtx" => m.tx \in Tx
BuffersOK == /\ newTxs \in [Client -> Seq(Tx)] /\ got \in [Client -> Seq(Tx)]
             /\ told \in [Client -> Seq(Tx)] /\ Hub!TxsArriveOnce
HubIsRecord == \E a, m, t, q : hub = [at |-> a, msg |-> m, todo |-> t, quit |-> q]
SpokesOK == /\ HubIsRecord /\ clients \subseteq Client
            /\ handler \in [Client -> Stage] /\ closed \in [Client -> BOOLEAN]
            /\ \A c \in Client : handler[c] \in {"none", "registering"} =>
                                     ~closed[c] /\ c \notin clients
            /\ Hub!SpokesAreSafe

HubInv == OffersOK /\ BuffersOK /\ SpokesOK

LEMMA HubStart == ASSUME Hub!Init PROVE HubInv
  <1>1. Hub!Cardinality({}) = Cardinality({})
    BY DEF Hub!Cardinality, Cardinality
  <1>2. Cardinality({}) = 0
    BY FS_EmptySet
  <1>3. hub = [at |-> "select", msg |-> Hub!Msg("none"), todo |-> {}, quit |-> FALSE]
    BY DEF Hub!Init, Hub!Idle
  <1>4. HubIsRecord /\ hub.at = "select"
    BY <1>3 DEF HubIsRecord
  <1>5. SpokesOK
    <2>1. numClients = 0 /\ clients = {}
      BY DEF Hub!Init
    <2>2. Hub!SpokesAreSafe
      BY <1>1, <1>2, <1>4, <2>1 DEF Hub!SpokesAreSafe
    <2>3. handler = [c \in Client |-> "none"] /\ closed = [c \in Client |-> FALSE]
      BY DEF Hub!Init
    <2>4. handler \in [Client -> Stage]
      BY <2>3 DEF Stage
    <2>5. closed \in [Client -> BOOLEAN] /\ \A c \in Client : ~closed[c]
      BY <2>3, Zenon
    <2> QED
      BY <1>4, <2>1, <2>2, <2>4, <2>5 DEF SpokesOK
  <1>6. BuffersOK
    BY DEF Hub!Init, Hub!TxsArriveOnce, BuffersOK
  <1> QED
    BY <1>5, <1>6 DEF Hub!Init, HubInv, OffersOK

LEMMA OffersRest == ASSUME OffersOK, offers' \subseteq offers PROVE OffersOK'
  BY DEF OffersOK

LEMMA BuffersRest == ASSUME BuffersOK, UNCHANGED <<newTxs, got, told>> PROVE BuffersOK'
  BY DEF BuffersOK, Hub!TxsArriveOnce

LEMMA SpokesRest ==
    ASSUME SpokesOK, UNCHANGED <<hub, clients, numClients, handler, closed>>
    PROVE  SpokesOK'
  BY DEF SpokesOK, HubIsRecord, Hub!SpokesAreSafe

LEMMA HubRests == ASSUME HubInv, UNCHANGED hubVars PROVE HubInv'
  BY OffersRest, BuffersRest, SpokesRest DEF HubInv, hubVars

\* A handler that moves on, but not back before its registration.
LEMMA HandlerMoves ==
    ASSUME SpokesOK, UNCHANGED <<hub, clients, numClients, closed>>,
           handler' \in [Client -> Stage],
           \A c \in Client : handler'[c] \in {"none", "registering"} =>
                               handler[c] \in {"none", "registering"}
    PROVE  SpokesOK'
  BY DEF SpokesOK, HubIsRecord, Hub!SpokesAreSafe

\* The loop of the hub moves and the map does not.
LEMMA HubMoves ==
    ASSUME SpokesOK, UNCHANGED <<clients, numClients, handler, closed>>,
           HubIsRecord', hub'.at = "copy" => hub'.todo \subseteq clients
    PROVE  SpokesOK'
  BY DEF SpokesOK, Hub!SpokesAreSafe

-------------------------------------------------------------------------------
(* What goroutines offer to the hub.                                        *)

LEMMA OfferKeeps ==
    ASSUME HubInv, NEW m, m.sig = "newtx" => m.tx \in Tx, Hub!Offer(m),
           UNCHANGED <<hub, clients, numClients, handler, closed, newTxs, got, told>>
    PROVE  HubInv'
  <1>1. OffersOK'
    BY DEF HubInv, OffersOK, Hub!Offer
  <1> QED
    BY <1>1, BuffersRest, SpokesRest DEF HubInv

LEMMA WorldKeeps ==
    ASSUME HubInv,
           \/ Hub!Store \/ Hub!pingClients \/ Hub!periodicTxBufferSend \/ Hub!Stop
           \/ \E t \in Tx : Hub!OfferTx(t)
           \/ \E m \in offers : Hub!OfferTimesOut(m)
    PROVE  HubInv'
  <1>1. CASE Hub!Store \/ Hub!pingClients \/ Hub!Stop
    <2>1. \A s : Hub!Msg(s).sig = s
      BY DEF Hub!Msg
    <2>2. UNCHANGED <<hub, clients, numClients, handler, closed, newTxs, got, told>>
      BY <1>1 DEF Hub!Store, Hub!pingClients, Hub!Stop, Hub!peer
    <2>3. \E s \in {"newblock", "ping", "bye"} : Hub!Offer(Hub!Msg(s))
      BY <1>1 DEF Hub!Store, Hub!pingClients, Hub!Stop
    <2> QED
      BY <2>1, <2>2, <2>3, OfferKeeps
  <1>2. ASSUME NEW t \in Tx, Hub!OfferTx(t) PROVE HubInv'
    <2>1. Hub!NewTx(t).tx \in Tx
      BY DEF Hub!NewTx
    <2> QED
      BY <1>2, <2>1, OfferKeeps DEF Hub!OfferTx, Hub!peer
  <1>3. CASE Hub!periodicTxBufferSend
    BY <1>3, OffersRest, BuffersRest, SpokesRest
    DEF HubInv, Hub!periodicTxBufferSend, Hub!peer
  <1>4. CASE \E m \in offers : Hub!OfferTimesOut(m)
    BY <1>4, OffersRest, BuffersRest, SpokesRest DEF HubInv, Hub!OfferTimesOut, Hub!peer
  <1> QED
    BY <1>1, <1>2, <1>3, <1>4

-------------------------------------------------------------------------------
(* The loop of the hub.                                                     *)

\* The hub takes an offer and copies it, or a batch in its place, to the clients.
LEMMA TakeTxKeeps ==
    ASSUME HubInv, NEW m \in offers, Hub!TakeTx(m) PROVE HubInv'
  <1>1. OffersOK'
    BY OffersRest DEF HubInv, Hub!TakeTx
  <1>2. m.tx \in Tx
    BY DEF HubInv, OffersOK, Hub!TakeTx
  <1>3. BuffersOK'
    <2>1. /\ newTxs' = [c \in Client |-> IF c \in clients THEN Append(newTxs[c], m.tx)
                                         ELSE newTxs[c]]
          /\ told' = [c \in Client |-> IF c \in clients THEN Append(told[c], m.tx) ELSE told[c]]
          /\ got' = got
      BY DEF Hub!TakeTx, Hub!AddTxToBuffer
    <2> DEFINE t == m.tx
    <2> HIDE DEF t
    <2>2. t \in Tx /\ newTxs \in [Client -> Seq(Tx)] /\ told \in [Client -> Seq(Tx)]
          /\ got \in [Client -> Seq(Tx)]
      BY <1>2 DEF HubInv, BuffersOK, t
    <2>3. /\ newTxs' = [c \in Client |-> IF c \in clients THEN Append(newTxs[c], t)
                                         ELSE newTxs[c]]
          /\ told' = [c \in Client |-> IF c \in clients THEN Append(told[c], t) ELSE told[c]]
      BY <2>1 DEF t
    <2>4. newTxs' \in [Client -> Seq(Tx)] /\ told' \in [Client -> Seq(Tx)]
      BY <2>2, <2>3
    <2>5. ASSUME NEW c \in Client PROVE got[c] \o newTxs'[c] = told'[c]
      <3>1. got[c] \o newTxs[c] = told[c]
        BY DEF HubInv, BuffersOK, Hub!TxsArriveOnce
      <3>2. got[c] \in Seq(Tx) /\ newTxs[c] \in Seq(Tx)
        BY <2>2
      <3>3. got[c] \o Append(newTxs[c], t) = Append(got[c] \o newTxs[c], t)
        BY <2>2, <3>2, AppendOfConcat
      <3> QED
        BY <2>3, <3>1, <3>3
    <2> QED
      BY <2>1, <2>2, <2>4, <2>5 DEF BuffersOK, Hub!TxsArriveOnce
  <1>4. HubIsRecord' /\ hub'.todo = clients
    <2>1. \E k : hub' = [hub EXCEPT !.at = "copy", !.msg = k, !.todo = clients]
      BY DEF Hub!TakeTx, Hub!Copy
    <2>2. HubIsRecord
      BY DEF HubInv, SpokesOK
    <2> QED
      BY <2>1, <2>2 DEF HubIsRecord
  <1>5. SpokesOK'
    BY <1>4, HubMoves DEF HubInv, Hub!TakeTx
  <1> QED
    BY <1>1, <1>3, <1>5 DEF HubInv

LEMMA TakeMsgKeeps ==
    ASSUME HubInv, NEW m \in offers, Hub!TakeMsg(m) PROVE HubInv'
  <1>1. OffersOK' /\ BuffersOK'
    BY OffersRest, BuffersRest DEF HubInv, Hub!TakeMsg, Hub!peer
  <1>2. PICK a, k, t, q : hub = [at |-> a, msg |-> k, todo |-> t, quit |-> q]
    BY DEF HubInv, SpokesOK, HubIsRecord
  <1>3. \E x : \/ hub' = [hub EXCEPT !.quit = x] /\ hub.at = "select"
               \/ hub' = [Hub!Copy(m) EXCEPT !.quit = x]
    BY Zenon DEF Hub!TakeMsg, Hub!Free
  <1>4. HubIsRecord' /\ (hub'.at = "copy" => hub'.todo = clients)
    BY <1>2, <1>3 DEF HubIsRecord, Hub!Copy
  <1> QED
    BY <1>1, <1>4, HubMoves DEF HubInv, Hub!TakeMsg, Hub!peer

\* A client that has registered is in the map, and one that has left is not.
LEMMA RegisterKeeps ==
    ASSUME HubInv, NEW c \in Client, Hub!registerClient(c) PROVE HubInv'
  <1>1. OffersOK' /\ BuffersOK'
    BY OffersRest, BuffersRest DEF HubInv, Hub!registerClient
  <1>2. SpokesOK'
    <2>1. /\ hub' = hub /\ hub.at = "select" /\ clients' = clients \cup {c}
          /\ numClients' = Hub!Cardinality(clients') /\ closed' = closed
          /\ handler[c] = "registering" /\ handler' = [handler EXCEPT ![c] = "up"]
      BY DEF Hub!registerClient, Hub!Free
    <2>2. /\ HubIsRecord /\ clients \subseteq Client
          /\ handler \in [Client -> Stage] /\ closed \in [Client -> BOOLEAN]
          /\ \A d \in Client : handler[d] \in {"none", "registering"} =>
                                  ~closed[d] /\ d \notin clients
          /\ \A d \in clients : ~closed[d]
      BY DEF HubInv, SpokesOK, Hub!SpokesAreSafe
    <2>3. Hub!SpokesAreSafe'
      BY <2>1, <2>2 DEF Hub!SpokesAreSafe
    <2>4. HubIsRecord'
      BY <2>1, <2>2 DEF HubIsRecord
    <2>5. clients' \subseteq Client /\ handler' \in [Client -> Stage]
      BY <2>1, <2>2 DEF Stage
    <2>6. \A d \in Client : handler'[d] \in {"none", "registering"} =>
                               ~closed'[d] /\ d \notin clients'
      BY <2>1, <2>2
    <2> QED
      BY <2>1, <2>2, <2>3, <2>4, <2>5, <2>6 DEF SpokesOK
  <1> QED
    BY <1>1, <1>2 DEF HubInv

LEMMA CopyKeeps ==
    ASSUME HubInv, NEW c \in Client,
           Hub!sendMsg(c) \/ Hub!SendFindsKilled(c) \/ Hub!SendTimesOut(c)
    PROVE  HubInv'
  <1>1. OffersOK' /\ BuffersOK'
    BY OffersRest, BuffersRest
    DEF HubInv, Hub!sendMsg, Hub!SendFindsKilled, Hub!SendTimesOut, Hub!peer
  <1>2. /\ hub.at = "copy" /\ hub' = [hub EXCEPT !.todo = @ \ {c}]
        /\ HubIsRecord /\ clients \subseteq Client /\ hub.todo \subseteq clients
    BY DEF HubInv, Hub!sendMsg, Hub!SendFindsKilled, Hub!SendTimesOut, Hub!Wanted,
                    Hub!Copying, Hub!Copied, SpokesOK, Hub!SpokesAreSafe
  <1>3. HubIsRecord' /\ hub'.todo = hub.todo \ {c} /\ hub'.at = "copy"
    BY <1>2 DEF HubIsRecord
  <1>4. CASE Hub!sendMsg(c) \/ Hub!SendTimesOut(c)
    BY <1>1, <1>2, <1>3, <1>4, HubMoves DEF HubInv, Hub!sendMsg, Hub!SendTimesOut, Hub!peer
  <1>5. CASE Hub!SendFindsKilled(c)
    <2>1. /\ handler[c] = "killed" /\ handler' = handler /\ clients' = clients \ {c}
          /\ closed' = [closed EXCEPT ![c] = TRUE]
          /\ numClients' = Hub!Cardinality(clients \ {c})
      BY <1>5 DEF Hub!SendFindsKilled, Hub!unregisterClient, Hub!Drop
    <2>2. SpokesOK'
      BY <1>2, <1>3, <2>1 DEF HubInv, SpokesOK, Hub!SpokesAreSafe
    <2> QED
      BY <1>1, <2>2 DEF HubInv
  <1> QED
    BY <1>4, <1>5

LEMMA LoopKeeps ==
    ASSUME HubInv, Hub!CopyEnds \/ Hub!unregisterAllClients \/ Hub!RunEnds PROVE HubInv'
  <1>1. OffersOK' /\ BuffersOK'
    BY OffersRest, BuffersRest
    DEF HubInv, Hub!CopyEnds, Hub!unregisterAllClients, Hub!RunEnds, Hub!peer
  <1>2. HubIsRecord /\ clients \subseteq Client
    BY DEF HubInv, SpokesOK
  <1>3. CASE Hub!CopyEnds
    <2>1. hub' = [at |-> "select", msg |-> Hub!Msg("none"), todo |-> {}, quit |-> hub.quit]
      BY <1>3 DEF Hub!CopyEnds, Hub!Idle
    <2>2. HubIsRecord' /\ hub'.at = "select"
      BY <2>1 DEF HubIsRecord
    <2> QED
      BY <1>1, <1>3, <2>2, HubMoves DEF HubInv, Hub!CopyEnds, Hub!peer
  <1>4. CASE Hub!RunEnds
    <2>1. HubIsRecord' /\ hub'.at = "stopped"
      BY <1>2, <1>4 DEF Hub!RunEnds, HubIsRecord
    <2> QED
      BY <1>1, <1>4, <2>1, HubMoves DEF HubInv, Hub!RunEnds, Hub!peer
  <1>5. CASE Hub!unregisterAllClients
    <2>1. HubIsRecord' /\ hub'.at = "draining"
      BY <1>2, <1>5 DEF Hub!unregisterAllClients, HubIsRecord
    <2>2. Hub!Cardinality({}) = Cardinality({}) /\ Cardinality({}) = 0
      BY FS_EmptySet DEF Hub!Cardinality, Cardinality
    <2>3. SpokesOK'
      BY <1>5, <2>1, <2>2 DEF HubInv, Hub!unregisterAllClients, SpokesOK, Hub!SpokesAreSafe
    <2> QED
      BY <1>1, <2>3 DEF HubInv
  <1> QED
    BY <1>3, <1>4, <1>5

-------------------------------------------------------------------------------
(* The connections.                                                         *)

LEMMA ConnectionKeeps ==
    ASSUME HubInv, NEW c \in Client,
           \/ Hub!WebSocketHandler(c) \/ Hub!Disconnect(c) \/ Hub!ReceiveFails(c)
           \/ Hub!SpokeClosed(c) \/ Hub!HandlerEnds(c)
           \/ \E s \in Signals : Hub!subscribe(c, s) \/ Hub!unsubscribe(c, s)
    PROVE  HubInv'
  <1>1. OffersOK' /\ BuffersOK'
    BY OffersRest, BuffersRest
    DEF HubInv, Hub!WebSocketHandler, Hub!Disconnect, Hub!ReceiveFails, Hub!SpokeClosed,
        Hub!HandlerEnds, Hub!subscribe, Hub!unsubscribe, Hub!hubVars
  <1>2. CASE Hub!WebSocketHandler(c)
    <2>1. /\ handler[c] = "none" /\ handler' = [handler EXCEPT ![c] = "registering"]
          /\ UNCHANGED <<hub, clients, numClients, closed>>
      BY <1>2 DEF Hub!WebSocketHandler, Hub!hubVars
    <2>2. SpokesOK /\ handler \in [Client -> Stage]
      BY DEF HubInv, SpokesOK
    <2>3. /\ handler' \in [Client -> Stage]
          /\ \A d \in Client : handler'[d] \in {"none", "registering"} =>
                                  handler[d] \in {"none", "registering"}
      BY <2>1, <2>2 DEF Stage
    <2>4. SpokesOK'
      BY <2>1, <2>2, <2>3, HandlerMoves
    <2> QED
      BY <1>1, <2>4 DEF HubInv
  <1>3. CASE Hub!HandlerEnds(c)
    <2>1. /\ handler' = [handler EXCEPT ![c] = "killed"]
          /\ UNCHANGED <<hub, clients, numClients, closed>>
      BY <1>3 DEF Hub!HandlerEnds, Hub!hubVars
    <2>2. SpokesOK /\ handler \in [Client -> Stage]
      BY DEF HubInv, SpokesOK
    <2>3. /\ handler' \in [Client -> Stage]
          /\ \A d \in Client : handler'[d] \in {"none", "registering"} =>
                                  handler[d] \in {"none", "registering"}
      BY <2>1, <2>2 DEF Stage
    <2>4. SpokesOK'
      BY <2>1, <2>2, <2>3, HandlerMoves
    <2> QED
      BY <1>1, <2>4 DEF HubInv
  <1>4. CASE \/ Hub!Disconnect(c) \/ Hub!ReceiveFails(c) \/ Hub!SpokeClosed(c)
             \/ \E s \in Signals : Hub!subscribe(c, s) \/ Hub!unsubscribe(c, s)
    BY <1>1, <1>4, SpokesRest
    DEF HubInv, Hub!Disconnect, Hub!ReceiveFails, Hub!SpokeClosed, Hub!subscribe, Hub!unsubscribe,
        Hub!hubVars
  <1> QED
    BY <1>2, <1>3, <1>4

\* A batch leaves the buffer as it is sent.
LEMMA SendLoopKeeps ==
    ASSUME HubInv, NEW c \in Client, Hub!sendLoop(c) PROVE HubInv'
  <1>1. OffersOK' /\ SpokesOK'
    BY OffersRest, SpokesRest DEF HubInv, Hub!sendLoop, Hub!hubVars
  <1>2. told' = told /\ (UNCHANGED <<got, newTxs>> \/ Hub!Batch(c))
    BY DEF Hub!sendLoop
  <1>3. CASE Hub!Batch(c)
    <2>1. /\ got' = [got EXCEPT ![c] = @ \o newTxs[c]]
          /\ newTxs' = [newTxs EXCEPT ![c] = <<>>]
      BY <1>3 DEF Hub!Batch
    <2>2. /\ got \in [Client -> Seq(Tx)] /\ newTxs \in [Client -> Seq(Tx)]
          /\ told \in [Client -> Seq(Tx)] /\ Hub!TxsArriveOnce
      BY DEF HubInv, BuffersOK
    <2>3. got' \in [Client -> Seq(Tx)] /\ newTxs' \in [Client -> Seq(Tx)]
      <3>1. got[c] \o newTxs[c] \in Seq(Tx) /\ <<>> \in Seq(Tx)
        BY <2>2
      <3> QED
        BY <2>1, <2>2, <3>1
    <2>4. ASSUME NEW d \in Client PROVE got'[d] \o newTxs'[d] = told'[d]
      <3>1. got[d] \o newTxs[d] = told[d] /\ told[d] \in Seq(Tx)
            /\ got[d] \in Seq(Tx) /\ newTxs[d] \in Seq(Tx)
        BY <2>2 DEF Hub!TxsArriveOnce
      <3>2. told[d] \o <<>> = told[d]
        BY <3>1
      <3> QED
        BY <1>2, <2>1, <2>2, <3>1, <3>2
    <2> QED
      BY <1>1, <1>2, <2>2, <2>3, <2>4 DEF HubInv, BuffersOK, Hub!TxsArriveOnce
  <1> QED
    BY <1>1, <1>2, <1>3, BuffersRest DEF HubInv

LEMMA HubKeeps == ASSUME HubInv, Hub!Next PROVE HubInv'
  BY WorldKeeps, TakeTxKeeps, TakeMsgKeeps, RegisterKeeps, CopyKeeps, LoopKeeps,
     ConnectionKeeps, SendLoopKeeps
  DEF Hub!Next

-------------------------------------------------------------------------------
(* The explorer's websocket hub.                                            *)

PageStage == {"none", "registering", "loop", "leaving", "done"}

\* Only a page that has been registered is in the map or has a closed channel,
\* never both; the ticker's channel is closed after the hub has ended, and
\* nothing panics before.
TickerIsRecord == \E i, s, x : bufferTicker = [n |-> i, stop |-> s, closed |-> x]
TickerOK == /\ TickerIsRecord
            /\ bufferTicker.closed => bufferTicker.stop
            /\ bufferTicker.stop => pageHub = "stopped"
PagesOK == /\ pages \subseteq Client
           /\ pageHandler \in [Client -> PageStage] /\ pageClosed \in [Client -> BOOLEAN]
           /\ \A c \in Client : pageHandler[c] \in {"none", "registering"} =>
                                    ~pageClosed[c] /\ c \notin pages
           /\ Pages!NoPanicWhileRunning

PageInv == TickerOK /\ PagesOK

LEMMA PageStart == ASSUME Pages!Init PROVE PageInv
  <1>1. bufferTicker = [n |-> 0, stop |-> FALSE, closed |-> FALSE]
    BY DEF Pages!Init
  <1>2. TickerOK
    BY <1>1 DEF TickerOK, TickerIsRecord
  <1>3. /\ pageHandler = [c \in Client |-> "none"]
        /\ pageClosed = [c \in Client |-> FALSE] /\ pages = {} /\ ~panic
    BY DEF Pages!Init
  <1>4. pageHandler \in [Client -> PageStage]
    BY <1>3 DEF PageStage
  <1>5. pageClosed \in [Client -> BOOLEAN] /\ \A c \in Client : ~pageClosed[c]
    BY <1>3, Zenon
  <1> QED
    BY <1>2, <1>3, <1>4, <1>5 DEF PageInv, PagesOK, Pages!NoPanicWhileRunning

\* What a step that leaves the ticker, or the map and the channels, alone keeps.
LEMMA TickerRests ==
    ASSUME TickerOK, bufferTicker' = bufferTicker,
           pageHub = "stopped" => pageHub' = "stopped"
    PROVE  TickerOK'
  BY DEF TickerOK, TickerIsRecord

LEMMA PagesRest ==
    ASSUME PagesOK, UNCHANGED <<pages, pageClosed, panic>>,
           pageHub = "stopped" => pageHub' = "stopped",
           pageHandler' \in [Client -> PageStage],
           \A c \in Client : pageHandler'[c] \in {"none", "registering"} =>
                               pageHandler[c] \in {"none", "registering"}
    PROVE  PagesOK'
  BY DEF PagesOK, Pages!NoPanicWhileRunning

LEMMA PageRests == ASSUME PageInv, UNCHANGED pageVars PROVE PageInv'
  BY TickerRests, PagesRest DEF PageInv, pageVars, PagesOK

\* Whoever is unregistered was in the map: its channel was open and is closed
\* once.
LEMMA Unregistered ==
    ASSUME PagesOK, NEW S, Pages!unregister(S),
           pageHub = "stopped" => pageHub' = "stopped",
           pageHandler' \in [Client -> PageStage],
           \A c \in Client : pageHandler'[c] \in {"none", "registering"} =>
                               pageHandler[c] \in {"none", "registering"}
    PROVE  PagesOK'
  <1>1. /\ pages' = pages \ S
        /\ pageClosed' = [c \in Client |-> pageClosed[c] \/ c \in S \cap pages]
        /\ panic' = (panic \/ \E c \in S \cap pages : pageClosed[c])
    BY DEF Pages!unregister
  <1>2. /\ pageClosed' \in [Client -> BOOLEAN]
        /\ \A c \in Client : pageClosed'[c] <=> pageClosed[c] \/ c \in S \cap pages
    BY <1>1, Zenon DEF PagesOK
  <1>3. pageHub' # "stopped" => ~panic'
    BY <1>1 DEF PagesOK, Pages!NoPanicWhileRunning
  <1> QED
    BY <1>1, <1>2, <1>3 DEF PagesOK, Pages!NoPanicWhileRunning

LEMMA Broadcasted ==
    ASSUME PagesOK, NEW sig, Pages!Broadcast(sig), UNCHANGED <<pageHub, pageHandler>>
    PROVE  PagesOK'
  BY Unregistered DEF Pages!Broadcast, PagesOK

-------------------------------------------------------------------------------
(* The loop of the explorer's hub, the ticker and the pages.                *)

LEMMA PageLoopKeeps ==
    ASSUME PageInv,
           \/ Pages!HubSignal("ping") \/ Pages!SendBuffer \/ Pages!RunEnds
           \/ \E c \in Client : Pages!registerClient(c) \/ Pages!unregisterClient(c)
    PROVE  PageInv'
  <1>1. CASE Pages!HubSignal("ping")
    BY <1>1, TickerRests, Broadcasted DEF PageInv, Pages!HubSignal, Pages!buffer
  <1>2. CASE Pages!SendBuffer
    <2>1. UNCHANGED <<pageHub, pageHandler, bufferTicker>>
      BY <1>2 DEF Pages!SendBuffer
    <2>2. Pages!Broadcast("newtxs") \/ UNCHANGED <<pages, pageClosed, panic>>
      BY <1>2 DEF Pages!SendBuffer
    <2> QED
      BY <2>1, <2>2, TickerRests, PagesRest, Broadcasted DEF PageInv, PagesOK
  <1>3. CASE Pages!RunEnds
    <2>1. /\ pageHub' = "stopped" /\ Pages!unregister(pages) /\ pageHandler' = pageHandler
          /\ bufferTicker' = [bufferTicker EXCEPT !.stop = TRUE]
      BY <1>3 DEF Pages!RunEnds
    <2>2. TickerOK'
      BY <2>1 DEF PageInv, TickerOK, TickerIsRecord
    <2> QED
      BY <2>1, <2>2, Unregistered DEF PageInv, PagesOK
  <1>4. ASSUME NEW c \in Client, Pages!registerClient(c) PROVE PageInv'
    <2>1. /\ pageHandler[c] = "registering"
          /\ pageHandler' = [pageHandler EXCEPT ![c] = "loop"]
          /\ pages' = pages \cup {c}
          /\ UNCHANGED <<pageHub, bufferTicker, pageClosed, panic>>
      BY <1>4 DEF Pages!registerClient, Pages!buffer, Pages!world
    <2>2. pageHandler' \in [Client -> PageStage] /\ pageHandler'[c] = "loop"
          /\ \A d \in Client : d # c => pageHandler'[d] = pageHandler[d]
      BY <2>1 DEF PageInv, PagesOK, PageStage
    <2>3. PagesOK'
      BY <2>1, <2>2 DEF PageInv, PagesOK, Pages!NoPanicWhileRunning
    <2> QED
      BY <2>1, <2>3, TickerRests DEF PageInv
  <1>5. ASSUME NEW c \in Client, Pages!unregisterClient(c) PROVE PageInv'
    <2>1. /\ pageHandler' = [pageHandler EXCEPT ![c] = "done"] /\ Pages!unregister({c})
          /\ UNCHANGED <<pageHub, bufferTicker>>
      BY <1>5 DEF Pages!unregisterClient, Pages!buffer
    <2>2. /\ pageHandler' \in [Client -> PageStage]
          /\ \A d \in Client : pageHandler'[d] \in {"none", "registering"} =>
                                  pageHandler[d] \in {"none", "registering"}
      BY <2>1 DEF PageInv, PagesOK, PageStage
    <2> QED
      BY <2>1, <2>2, TickerRests, Unregistered DEF PageInv
  <1> QED
    BY <1>1, <1>2, <1>3, <1>4, <1>5

\* A sender panics only when the ticker's channel is closed, after the hub's end.
LEMMA TickerKeeps ==
    ASSUME PageInv, Pages!SenderResets \/ Pages!PeriodicReset \/ Pages!PeriodicStop
    PROVE  PageInv'
  <1>1. UNCHANGED <<pageHub, pages, pageHandler, pageClosed>>
    BY DEF Pages!SenderResets, Pages!PeriodicReset, Pages!PeriodicStop, Pages!page
  <1>2. TickerOK'
    <2>1. \E i : \/ bufferTicker' = bufferTicker
                 \/ bufferTicker' = [bufferTicker EXCEPT !.n = i]
                 \/ bufferTicker' = [bufferTicker EXCEPT !.closed = TRUE] /\ bufferTicker.stop
      BY DEF Pages!SenderResets, Pages!PeriodicReset, Pages!PeriodicStop
    <2> QED
      BY <1>1, <2>1 DEF PageInv, TickerOK, TickerIsRecord
  <1>3. panic' = panic \/ pageHub = "stopped"
    BY DEF PageInv, TickerOK, Pages!SenderResets, Pages!PeriodicReset, Pages!PeriodicStop,
           Pages!world
  <1> QED
    BY <1>1, <1>2, <1>3 DEF PageInv, PagesOK, Pages!NoPanicWhileRunning

LEMMA PageWorldKeeps ==
    ASSUME PageInv,
           \/ Pages!ExchangeUpdate \/ Pages!ExchangeSent \/ Pages!Stop \/ Pages!SenderAsks
           \/ Pages!PeriodicTick \/ Pages!PeriodicAsks
           \/ \E t \in Tx : Pages!NewTx(t)
           \/ \E c \in Client : Pages!ExchangeSend(c) \/ Pages!PageCloses(c)
    PROVE  PageInv'
  <1>1. UNCHANGED <<pages, pageHandler, pageClosed, panic, bufferTicker>>
    BY DEF Pages!ExchangeUpdate, Pages!ExchangeSent, Pages!Stop, Pages!SenderAsks,
           Pages!PeriodicTick, Pages!PeriodicAsks, Pages!NewTx, Pages!ExchangeSend,
           Pages!PageCloses, Pages!page, Pages!buffer, Pages!world
  <1>2. pageHub = "stopped" => pageHub' = "stopped"
    BY DEF Pages!ExchangeUpdate, Pages!ExchangeSent, Pages!Stop, Pages!SenderAsks,
           Pages!PeriodicTick, Pages!PeriodicAsks, Pages!NewTx, Pages!ExchangeSend,
           Pages!PageCloses, Pages!Free
  <1> QED
    BY <1>1, <1>2, TickerRests, PagesRest DEF PageInv, PagesOK

LEMMA PageHandlerKeeps ==
    ASSUME PageInv, NEW c \in Client,
           \/ Pages!RootWebsocket(c) \/ Pages!PageSignal(c) \/ Pages!PageUpdate(c)
           \/ Pages!PageEnds(c)
    PROVE  PageInv'
  <1>1. UNCHANGED <<pageHub, pages, pageClosed, panic, bufferTicker>>
    BY DEF Pages!RootWebsocket, Pages!PageSignal, Pages!PageUpdate, Pages!PageEnds,
           Pages!buffer, Pages!world
  <1>2. \/ pageHandler' = pageHandler
        \/ pageHandler' = [pageHandler EXCEPT ![c] = "leaving"]
        \/ pageHandler[c] = "none" /\ pageHandler' = [pageHandler EXCEPT ![c] = "registering"]
    BY DEF Pages!RootWebsocket, Pages!PageSignal, Pages!PageUpdate, Pages!PageEnds,
           Pages!Forward
  <1>3. /\ pageHandler' \in [Client -> PageStage]
        /\ \A d \in Client : pageHandler'[d] \in {"none", "registering"} =>
                                pageHandler[d] \in {"none", "registering"}
    BY <1>2 DEF PageInv, PagesOK, PageStage
  <1> QED
    BY <1>1, <1>3, TickerRests, PagesRest DEF PageInv

LEMMA PageKeeps == ASSUME PageInv, Pages!Next PROVE PageInv'
  BY PageLoopKeeps, TickerKeeps, PageWorldKeeps, PageHandlerKeeps DEF Pages!Next

-------------------------------------------------------------------------------
(* The pubsub client.                                                       *)

CallStage == {"idle", "asking", "waiting", "failed", "pinged", "returned"}
CallRecord == [at : CallStage, id : Nat, got : Nat]
Open(c) == call[c].at \in {"asking", "waiting"}

\* The number of an open call was given out, and to no other open call.
CallInv ==
    /\ nextRequestID \in Nat /\ call \in [Caller -> CallRecord]
    /\ \A c \in Caller : /\ Open(c) => call[c].id < nextRequestID
                         /\ call[c].at = "returned" => call[c].got = call[c].id
    /\ \A c, d \in Caller : Open(c) /\ Open(d) /\ call[c].id = call[d].id => c = d

LEMMA CallStart == ASSUME Calls!Init PROVE CallInv
  BY DEF Calls!Init, Calls!NoCall, CallInv, CallRecord, CallStage, Open

LEMMA CallRests == ASSUME CallInv, UNCHANGED <<nextRequestID, call>> PROVE CallInv'
  BY DEF CallInv, Open

LEMMA CallInvIsSafe == ASSUME CallInv PROVE Calls!AnswersMatch
  BY DEF CallInv, Open, Calls!AnswersMatch

\* A caller moves on without a new number.
LEMMA CallMoves ==
    ASSUME CallInv, nextRequestID' \in Nat, nextRequestID <= nextRequestID',
           NEW c \in Caller, call' \in [Caller -> CallRecord],
           \A d \in Caller : d # c => call'[d] = call[d],
           Open(c)' => Open(c) /\ call'[c].id = call[c].id,
           call'[c].at = "returned" => call'[c].got = call'[c].id
    PROVE  CallInv'
  <1>1. \A d \in Caller : Open(d)' => Open(d) /\ call'[d].id = call[d].id
    BY DEF Open
  <1>2. \A d \in Caller : call'[d].at = "returned" => call'[d].got = call'[d].id
    BY DEF CallInv
  <1>3. \A d \in Caller : call[d].id \in Nat
    BY DEF CallInv, CallRecord
  <1> QED
    BY <1>1, <1>2, <1>3 DEF CallInv

LEMMA AskKeeps == ASSUME CallInv, NEW c \in Caller, Calls!Ask(c) PROVE CallInv'
  <1> DEFINE r == [Calls!NoCall EXCEPT !.at = "asking", !.id = nextRequestID]
  <1>1. call' = [call EXCEPT ![c] = r] /\ nextRequestID' = nextRequestID + 1
    BY DEF Calls!Ask, Calls!newResponseChan
  <1>2. nextRequestID \in Nat
    BY DEF CallInv
  <1>3. r \in CallRecord /\ r.at = "asking" /\ r.id = nextRequestID
    BY <1>2 DEF Calls!NoCall, CallRecord, CallStage
  <1> HIDE DEF r
  <1>4. /\ call'[c] = r /\ call' \in [Caller -> CallRecord]
        /\ \A d \in Caller : d # c => call'[d] = call[d]
    BY <1>1, <1>3 DEF CallInv
  <1>5. \A d \in Caller : call[d].id \in Nat
    BY DEF CallInv, CallRecord
  <1> QED
    BY <1>1, <1>3, <1>4, <1>5 DEF CallInv, Open

LEMMA CallerKeeps ==
    ASSUME CallInv, NEW c \in Caller,
           Calls!send(c) \/ Calls!Ping(c) \/ \E id \in deliver : Calls!Return(c, id)
    PROVE  CallInv'
  <1>1. call \in [Caller -> CallRecord] /\ call[c] \in CallRecord /\ nextRequestID \in Nat
    BY DEF CallInv
  <1>2. CASE Calls!send(c)
    <2>1. PICK at \in {"waiting", "failed"} : call' = [call EXCEPT ![c].at = at]
      BY <1>2 DEF Calls!send
    <2>2. call[c].at = "asking" /\ nextRequestID' = nextRequestID
      BY <1>2 DEF Calls!send
    <2> DEFINE r == [call[c] EXCEPT !.at = at]
    <2>3. r \in CallRecord /\ r.at = at /\ r.id = call[c].id
      BY <1>1 DEF CallRecord, CallStage
    <2>4. /\ call'[c] = r /\ call' \in [Caller -> CallRecord]
          /\ \A d \in Caller : d # c => call'[d] = call[d]
      BY <1>1, <2>1, <2>3
    <2> HIDE DEF r
    <2> QED
      BY <1>1, <2>2, <2>3, <2>4, CallMoves DEF Open
  <1>3. CASE Calls!Ping(c)
    <2> DEFINE r == [Calls!NoCall EXCEPT !.at = "pinged"]
    <2>1. call' = [call EXCEPT ![c] = r] /\ nextRequestID' = nextRequestID + 1
      BY <1>3 DEF Calls!Ping
    <2>2. r \in CallRecord /\ r.at = "pinged"
      BY DEF Calls!NoCall, CallRecord, CallStage
    <2> HIDE DEF r
    <2>3. /\ call'[c] = r /\ call' \in [Caller -> CallRecord]
          /\ \A d \in Caller : d # c => call'[d] = call[d]
      BY <1>1, <2>1, <2>2
    <2> QED
      BY <1>1, <2>1, <2>2, <2>3, CallMoves DEF Open
  <1>4. CASE \E id \in deliver : Calls!Return(c, id)
    <2>1. PICK id : /\ call' = [call EXCEPT ![c].at = "returned", ![c].got = id]
                    /\ call[c].id = id /\ nextRequestID' = nextRequestID
      BY <1>4 DEF Calls!Return, Calls!Deliver
    <2> DEFINE r == [call[c] EXCEPT !.at = "returned", !.got = id]
    <2>2. r \in CallRecord /\ r.at = "returned" /\ r.id = id /\ r.got = id
      BY <1>1, <2>1 DEF CallRecord, CallStage
    <2>3. /\ call'[c] = r /\ call' \in [Caller -> CallRecord]
          /\ \A d \in Caller : d # c => call'[d] = call[d]
      BY <1>1, <2>1, <2>2
    <2> HIDE DEF r
    <2> QED
      BY <1>1, <2>1, <2>2, <2>3, CallMoves DEF Open
  <1> QED
    BY <1>2, <1>3, <1>4

LEMMA CallKeeps == ASSUME CallInv, Calls!Next PROVE CallInv'
  <1>1. CASE \E c \in Caller : \/ Calls!Ask(c) \/ Calls!send(c) \/ Calls!Ping(c)
                               \/ \E id \in deliver : Calls!Return(c, id)
    BY <1>1, AskKeeps, CallerKeeps
  <1>2. CASE ~\E c \in Caller : \/ Calls!Ask(c) \/ Calls!send(c) \/ Calls!Ping(c)
                                \/ \E id \in deliver : Calls!Return(c, id)
    <2>1. UNCHANGED <<nextRequestID, call>>
      BY <1>2
      DEF Calls!Next, Calls!ServerAnswers, Calls!ServerPushes, Calls!ConnectionLost,
          Calls!Stop, Calls!ReceiveError, Calls!ReceiveAnswer, Calls!ReceiveMessage,
          Calls!Enqueue, Calls!ReceiverEnds, Calls!Receive
    <2> QED
      BY <2>1, CallRests
  <1> QED
    BY <1>1, <1>2

-------------------------------------------------------------------------------
(* The status page.                                                         *)

BarRecord == [id : Status!BarID, n : Nat, only : BOOLEAN]
Entry == [id : Status!BarID, n : Nat, subtitle : Nat]

LEMMA BarMade ==
    ASSUME NEW id \in Status!BarID, NEW k \in Nat, NEW only \in BOOLEAN
    PROVE  /\ [id |-> id, n |-> k, only |-> only] \in BarRecord
           /\ [id |-> id, n |-> k, only |-> only].n = k
  <1>1. [id |-> id, n |-> k, only |-> only] \in BarRecord
    BY Zenon DEF BarRecord
  <1>2. [id |-> id, n |-> k, only |-> only].n = k
    OBVIOUS
  <1> QED
    BY <1>1, <1>2

LEMMA BarFields == ASSUME NEW b \in BarRecord PROVE b.id \in Status!BarID /\ b.n \in Nat
  BY Zenon DEF BarRecord

\* The bars on the channel are numbered in the order in which they were sent, and
\* an entry of the page is older than all of them.
BarIn(k) == k \in DOMAIN barLoad /\ barLoad[k] # <<>>
ChannelOK == /\ sent \in Nat /\ barLoad \in Seq(Seq(BarRecord))
             /\ \A k : BarIn(k) => barLoad[k][1].n <= sent
             /\ \A i, k \in Nat : BarIn(i) /\ BarIn(k) /\ i < k =>
                                      barLoad[i][1].n < barLoad[k][1].n
BarsOK == /\ progressBars \in Seq(Entry)
          /\ \A i \in DOMAIN progressBars : progressBars[i].subtitle <= sent
          /\ Status!PageIsOrdered

StatusInv == ChannelOK /\ BarsOK

LEMMA StatusStart == ASSUME Status!Init PROVE StatusInv
  BY DEF Status!Init, StatusInv, ChannelOK, BarsOK, BarIn, Status!PageIsOrdered

LEMMA StatusRests ==
    ASSUME StatusInv, UNCHANGED <<sent, barLoad, progressBars>> PROVE StatusInv'
  BY DEF StatusInv, ChannelOK, BarsOK, BarIn, Status!PageIsOrdered

\* A bar on the channel is one of the records.
LEMMA BarsAreRecords ==
    ASSUME ChannelOK, NEW k, BarIn(k)
    PROVE  barLoad[k][1] \in BarRecord /\ barLoad[k][1].n \in Nat
           /\ barLoad[k][1].id \in Status!BarID
  <1>1. barLoad[k] \in Seq(BarRecord) /\ barLoad[k] # <<>>
    BY DEF ChannelOK, BarIn
  <1>2. barLoad[k][1] \in BarRecord
    BY <1>1
  <1> QED
    BY <1>2, BarFields

\* A bar is numbered and put on the channel.
LEMMA BarSent ==
    ASSUME StatusInv, NEW b \in BarRecord, b.n = sent + 1, sent' = sent + 1,
           barLoad' = Append(barLoad, <<b>>), progressBars' = progressBars
    PROVE  StatusInv'
  <1>1. sent \in Nat /\ barLoad \in Seq(Seq(BarRecord)) /\ <<b>> \in Seq(BarRecord)
    BY DEF StatusInv, ChannelOK
  <1>2. /\ barLoad' \in Seq(Seq(BarRecord))
        /\ \A k \in DOMAIN barLoad' : \/ k \in DOMAIN barLoad /\ barLoad'[k] = barLoad[k]
                                      \/ k = Len(barLoad) + 1 /\ barLoad'[k] = <<b>>
    BY <1>1, AppendOf
  <1>3. \A k : BarIn(k)' => \/ BarIn(k) /\ barLoad'[k][1].n = barLoad[k][1].n
                            \/ k = Len(barLoad) + 1 /\ barLoad'[k][1].n = sent + 1
    BY <1>2 DEF BarIn
  <1>4. \A k : BarIn(k) => barLoad[k][1].n <= sent /\ barLoad[k][1].n \in Nat
                           /\ k \in 1 .. Len(barLoad)
    BY <1>1, BarsAreRecords DEF StatusInv, ChannelOK, BarIn
  <1>5. ChannelOK'
    <2>1. \A k : BarIn(k)' => barLoad'[k][1].n <= sent'
      BY <1>1, <1>3, <1>4
    <2>2. ASSUME NEW i \in Nat, NEW k \in Nat, BarIn(i)', BarIn(k)', i < k
          PROVE  barLoad'[i][1].n < barLoad'[k][1].n
      <3>1. Len(barLoad) \in Nat
        BY <1>1
      <3> QED
        BY <1>1, <1>3, <1>4, <2>2, <3>1 DEF StatusInv, ChannelOK
    <2>3. sent' \in Nat
      BY <1>1
    <2> QED
      BY <1>2, <2>1, <2>2, <2>3 DEF ChannelOK
  <1>6. \A i \in DOMAIN progressBars : progressBars[i] \in Entry
    BY DEF StatusInv, BarsOK
  <1>7. \A i \in DOMAIN progressBars : progressBars[i].subtitle \in Nat
    BY <1>6 DEF Entry
  <1>8. \A i \in DOMAIN progressBars :
          /\ progressBars[i].n <= progressBars[i].subtitle
          /\ \A k \in DOMAIN barLoad' : barLoad'[k] # <<>> =>
               progressBars[i].subtitle < barLoad'[k][1].n
    BY <1>1, <1>3, <1>7 DEF StatusInv, BarsOK, Status!PageIsOrdered, BarIn
  <1>9. BarsOK'
    BY <1>1, <1>7, <1>8 DEF StatusInv, BarsOK, Status!PageIsOrdered
  <1> QED
    BY <1>5, <1>9 DEF StatusInv

\* main's nil is put on the channel.
LEMMA NilSent ==
    ASSUME StatusInv, barLoad' = Append(barLoad, <<>>), UNCHANGED <<sent, progressBars>>
    PROVE  StatusInv'
  <1>1. barLoad \in Seq(Seq(BarRecord)) /\ <<>> \in Seq(BarRecord)
    BY DEF StatusInv, ChannelOK
  <1>2. /\ barLoad' \in Seq(Seq(BarRecord))
        /\ \A k \in DOMAIN barLoad' : \/ k \in DOMAIN barLoad /\ barLoad'[k] = barLoad[k]
                                      \/ k = Len(barLoad) + 1 /\ barLoad'[k] = <<>>
    BY <1>1, AppendOf
  <1>3. \A k : BarIn(k)' => BarIn(k) /\ barLoad'[k] = barLoad[k]
    BY <1>2 DEF BarIn
  <1>4. ChannelOK'
    BY <1>2, <1>3 DEF StatusInv, ChannelOK
  <1>5. BarsOK'
    BY <1>3 DEF StatusInv, BarsOK, Status!PageIsOrdered, BarIn
  <1> QED
    BY <1>4, <1>5 DEF StatusInv

\* What is left on the channel once its head was taken.
LEMMA HeadTaken ==
    ASSUME ChannelOK, barLoad # <<>>, barLoad' = Tail(barLoad), sent' = sent
    PROVE  /\ ChannelOK'
           /\ \A k : BarIn(k)' => /\ BarIn(k + 1) /\ barLoad'[k] = barLoad[k + 1]
                                  /\ BarIn(1) => barLoad[1][1].n < barLoad'[k][1].n
  <1>1. /\ barLoad' \in Seq(Seq(BarRecord))
        /\ \A k \in DOMAIN barLoad' : k + 1 \in DOMAIN barLoad /\ barLoad'[k] = barLoad[k + 1]
    BY TailOf DEF ChannelOK
  <1>2. \A k : BarIn(k)' => BarIn(k + 1) /\ barLoad'[k] = barLoad[k + 1] /\ k \in Nat \ {0}
    BY <1>1 DEF BarIn
  <1>3. ASSUME NEW k, BarIn(k)', BarIn(1) PROVE barLoad[1][1].n < barLoad'[k][1].n
    <2>1. k + 1 \in Nat /\ 1 < k + 1 /\ 1 \in Nat
      BY <1>2, <1>3
    <2> QED
      BY <1>2, <1>3, <2>1 DEF ChannelOK
  <1>4. ASSUME NEW i \in Nat, NEW k \in Nat, BarIn(i)', BarIn(k)', i < k
        PROVE  barLoad'[i][1].n < barLoad'[k][1].n
    <2>1. i + 1 < k + 1 /\ i + 1 \in Nat /\ k + 1 \in Nat
      BY <1>2, <1>4
    <2> QED
      BY <1>2, <1>4, <2>1 DEF ChannelOK
  <1>5. ChannelOK'
    BY <1>1, <1>2, <1>4 DEF ChannelOK
  <1> QED
    BY <1>2, <1>3, <1>5

\* A bar replaces the entry of its ID, or comes last; whatever it replaces is older.
LEMMA EntriesOf ==
    ASSUME NEW bars \in Seq(Entry), NEW b \in BarRecord,
           \A i, j \in DOMAIN bars : bars[i].id = bars[j].id => i = j,
           \A i \in DOMAIN bars : bars[i].n <= bars[i].subtitle /\ bars[i].subtitle < b.n
    PROVE  /\ Status!Apply(bars, b) \in Seq(Entry)
           /\ \A i, j \in DOMAIN Status!Apply(bars, b) :
                Status!Apply(bars, b)[i].id = Status!Apply(bars, b)[j].id => i = j
           /\ \A i \in DOMAIN Status!Apply(bars, b) :
                LET e == Status!Apply(bars, b)[i] IN e.n <= e.subtitle /\ e.subtitle <= b.n
  <1> DEFINE at == {i \in DOMAIN bars : bars[i].id = b.id}
             new == Status!Apply(bars, b)
             bar == Status!Shown(b)
  <1>1. b.id \in Status!BarID /\ b.n \in Nat
    BY BarFields
  <1>2. bar \in Entry /\ bar.id = b.id /\ bar.n = b.n /\ bar.subtitle = b.n
    BY <1>1 DEF Entry, Status!Shown
  <1>3. \A i \in DOMAIN bars : bars[i] \in Entry
    OBVIOUS
  <1>4. \A i \in DOMAIN bars : bars[i].n \in Nat /\ bars[i].subtitle \in Nat
    BY <1>3 DEF Entry
  <1>5. CASE at = {}
    <2>1. new = Append(bars, bar)
      BY <1>5, Zenon DEF Status!Apply
    <2> HIDE DEF bar, new
    <2>2. /\ new \in Seq(Entry)
          /\ \A i \in DOMAIN new : \/ i \in DOMAIN bars /\ new[i] = bars[i]
                                   \/ i = Len(bars) + 1 /\ new[i] = bar
      BY <1>2, <2>1, AppendOf
    <2>3. \A i \in DOMAIN bars : bars[i].id # b.id
      BY <1>5
    <2>4. \A i, j \in DOMAIN new : new[i].id = new[j].id => i = j
      BY <1>2, <2>2, <2>3
    <2>5. \A i \in DOMAIN new : new[i].n <= new[i].subtitle /\ new[i].subtitle <= b.n
      BY <1>1, <1>2, <1>4, <2>2
    <2> QED
      BY <2>2, <2>4, <2>5 DEF new
  <1>6. CASE at # {}
    <2>1. new = [i \in DOMAIN bars |->
                   IF i \notin at THEN bars[i]
                   ELSE IF b.only THEN [bars[i] EXCEPT !.subtitle = b.n] ELSE bar]
      BY <1>6, Zenon DEF Status!Apply
    <2> HIDE DEF bar, new
    <2>2. DOMAIN new = DOMAIN bars
      BY <2>1
    <2>3. ASSUME NEW i \in DOMAIN bars
          PROVE  /\ new[i] \in Entry /\ new[i].id = bars[i].id
                 /\ new[i].n <= new[i].subtitle /\ new[i].subtitle <= b.n
      <3>1. CASE i \notin at
        BY <1>1, <1>3, <1>4, <2>1, <3>1
      <3>2. CASE i \in at /\ ~b.only
        BY <1>1, <1>2, <2>1, <3>2
      <3>3. CASE i \in at /\ b.only
        <4>1. new[i] = [bars[i] EXCEPT !.subtitle = b.n]
          BY <2>1, <3>3
        <4>2. bars[i] \in Entry
          BY <1>3
        <4>3. new[i] \in Entry /\ new[i].id = bars[i].id /\ new[i].n = bars[i].n
              /\ new[i].subtitle = b.n
          BY <1>1, <4>1, <4>2 DEF Entry
        <4> QED
          BY <1>1, <1>4, <4>3
      <3> QED
        BY <3>1, <3>2, <3>3
    <2>4. new \in [1 .. Len(bars) -> Entry]
      BY <2>1, <2>2, <2>3
    <2>5. new \in Seq(Entry)
      BY <2>4
    <2> QED
      BY <2>2, <2>3, <2>5 DEF new
  <1> QED
    BY <1>5, <1>6

LEMMA ReceiveBarKeeps == ASSUME StatusInv, Status!ReceiveBar PROVE StatusInv'
  <1> DEFINE b == barLoad[1][1]
  <1>1. barLoad # <<>> /\ barLoad[1] # <<>> /\ barLoad' = Tail(barLoad) /\ sent' = sent
        /\ Head(barLoad) = barLoad[1] /\ 1 \in DOMAIN barLoad
    BY TailOf DEF Status!ReceiveBar, StatusInv, ChannelOK
  <1>2. BarIn(1)
    BY <1>1 DEF BarIn
  <1>3. b \in BarRecord /\ b.n \in Nat /\ b.n <= sent /\ sent \in Nat
    BY <1>2, BarsAreRecords DEF StatusInv, ChannelOK
  <1>4. /\ ChannelOK' /\ \A k : BarIn(k)' => b.n < barLoad'[k][1].n
        /\ \A k : BarIn(k)' => barLoad'[k][1].n \in Nat
    BY <1>1, <1>2, HeadTaken, BarsAreRecords DEF StatusInv
  <1>5. progressBars' = Status!Apply(progressBars, b)
    BY <1>1 DEF Status!ReceiveBar
  <1> HIDE DEF b
  <1>6. /\ progressBars' \in Seq(Entry)
        /\ \A i, j \in DOMAIN progressBars' :
             progressBars'[i].id = progressBars'[j].id => i = j
        /\ \A i \in DOMAIN progressBars' :
             progressBars'[i].n <= progressBars'[i].subtitle /\ progressBars'[i].subtitle <= b.n
    <2>1. /\ progressBars \in Seq(Entry)
          /\ \A i, j \in DOMAIN progressBars : progressBars[i].id = progressBars[j].id => i = j
          /\ \A i \in DOMAIN progressBars :
               progressBars[i].n <= progressBars[i].subtitle /\ progressBars[i].subtitle < b.n
      BY <1>1 DEF StatusInv, BarsOK, Status!PageIsOrdered, b
    <2> QED
      BY <1>3, <1>5, <2>1, EntriesOf
  <1>7. \A i \in DOMAIN progressBars' : progressBars'[i] \in Entry
    BY <1>6
  <1>8. \A i \in DOMAIN progressBars' : progressBars'[i].subtitle \in Nat
    BY <1>7 DEF Entry
  <1>9. \A i \in DOMAIN progressBars' :
          /\ progressBars'[i].subtitle <= sent'
          /\ \A k \in DOMAIN barLoad' : barLoad'[k] # <<>> =>
               progressBars'[i].subtitle < barLoad'[k][1].n
    BY <1>1, <1>3, <1>4, <1>6, <1>8 DEF BarIn
  <1> QED
    BY <1>4, <1>6, <1>9 DEF StatusInv, BarsOK, Status!PageIsOrdered

LEMMA StatusKeeps == ASSUME StatusInv, Status!Next PROVE StatusInv'
  <1>1. CASE \E id \in Status!BarID, only \in BOOLEAN :
               Status!SendProgressUpdate(id, only) \/ Status!SendSubtitle(id, only)
    <2>1. PICK id \in Status!BarID, only \in BOOLEAN :
            Status!SendProgressUpdate(id, only) \/ Status!SendSubtitle(id, only)
      BY <1>1
    <2> DEFINE b == [id |-> id, n |-> sent + 1, only |-> only]
    <2>2. sent + 1 \in Nat
      BY DEF StatusInv, ChannelOK
    <2>3. b \in BarRecord /\ b.n = sent + 1
      BY <2>2, BarMade
    <2>4. \/ UNCHANGED <<sent, barLoad, progressBars>>
          \/ /\ barLoad' = Append(barLoad, <<b>>) /\ sent' = sent + 1
             /\ progressBars' = progressBars
      BY <2>1 DEF Status!SendProgressUpdate, Status!SendSubtitle
    <2> HIDE DEF b
    <2> QED
      BY <2>3, <2>4, BarSent, StatusRests
  <1>2. CASE Status!StopStatus
    BY <1>2, NilSent, StatusRests DEF Status!StopStatus
  <1>3. CASE Status!ReceiveBar
    BY <1>3, ReceiveBarKeeps
  <1>4. CASE Status!ReceiveNil
    <2>1. /\ barLoad # <<>> /\ barLoad' = Tail(barLoad)
          /\ UNCHANGED <<sent, progressBars>>
      BY <1>4 DEF Status!ReceiveNil
    <2>2. ChannelOK' /\ \A k : BarIn(k)' => BarIn(k + 1) /\ barLoad'[k] = barLoad[k + 1]
      BY <2>1, HeadTaken DEF StatusInv
    <2>3. BarsOK'
      BY <2>1, <2>2 DEF StatusInv, BarsOK, Status!PageIsOrdered, BarIn
    <2> QED
      BY <2>2, <2>3 DEF StatusInv
  <1>5. CASE \/ Status!SyncReturns \/ Status!SyncAgain \/ Status!AllReady
             \/ Status!StopTimer \/ Status!LastSignal \/ Status!Tick \/ Status!Relay
             \/ Status!HubSends
    <2>1. UNCHANGED <<sent, barLoad, progressBars>>
      BY <1>5
      DEF Status!SyncReturns, Status!SyncAgain, Status!AllReady, Status!StopTimer,
          Status!LastSignal, Status!Tick, Status!Relay, Status!HubSends
    <2> QED
      BY <2>1, StatusRests
  <1> QED
    BY <1>1, <1>2, <1>3, <1>4, <1>5 DEF Status!Next

-------------------------------------------------------------------------------
(* The bulk load.                                                           *)

Elements(s) == {s[i] : i \in DOMAIN s}
NoRepeat(s) == \A i, j \in DOMAIN s : s[i] = s[j] => i = j
Every == Load!AllIndexes
OfUpdate == {"spendtx", "matching"}
NoDebt == unset = {} /\ unmatched = {}
Fine == ""

\* What holds at every step: a table with colliding rows has no unique index, and
\* once the load was marked complete no block lacks its spending information.
LoadAlways ==
    /\ indexes \subseteq Every /\ todo \in Seq(Every)
    /\ dups \subseteq {"vins", "vouts"} /\ leftover \subseteq {"vins", "vouts"}
    /\ height \in Int /\ height >= -1 /\ tip \in Nat /\ cursor \in Nat
    /\ unset \subseteq 0 .. height /\ unmatched \subseteq 0 .. height
    /\ dups \cap indexes = {}
    /\ ibd => NoDebt
    /\ failed # Fine => pc = "down" /\ kept # {}

\* Whoever loads without reindexing has every index, and whoever reindexes has
\* those only that a DROP failed to remove.
LoadPrepares ==
    /\ pc = "sync" => (updateAll => newIndexes) /\ (~newIndexes => indexes = Every)
    /\ pc = "deindex" => reindexing /\ indexes \ Elements(todo) \subseteq kept
    /\ pc \in {"flag", "load"} =>
         /\ reindexing => indexes \subseteq kept /\ ~dupChecks
         /\ ~reindexing => indexes = Every /\ ~updateAll /\ dupChecks
    /\ pc = "load" /\ updateAll => ~ibd
    /\ pc \in {"deindex", "flag", "load", "dedupe", "index"} /\ ~updateAll => NoDebt

\* No table collides when its index is built, and each is built once.
LoadBuilds ==
    /\ pc = "dedupe" => indexes \subseteq kept /\ dups \subseteq Elements(todo)
    /\ pc = "index" =>
         /\ dups = {} /\ NoRepeat(todo)
         /\ Every \ indexes \subseteq Elements(todo) \cup (IF updateAll THEN OfUpdate ELSE {})
         /\ kept = {} => indexes \cap Elements(todo) = {}

\* The spends of the blocks below the cursor are in the addresses table.
LoadCompletes ==
    /\ pc \in {"vouts", "spendtx"} => Every \ indexes \subseteq OfUpdate
    /\ pc \in {"unmatch", "addresses"} => Every \ indexes \subseteq {"matching"}
    /\ pc \in {"spendtx", "unmatch", "addresses"} => unset = {}
    /\ pc = "addresses" => unmatched \subseteq cursor .. height
    /\ pc \in {"finish", "ensure", "ready"} => indexes = Every /\ NoDebt
    /\ pc \in {"ensure", "ready"} => dupChecks /\ ibd

LoadInv == LoadAlways /\ LoadPrepares /\ LoadBuilds /\ LoadCompletes

\* Steps of a list: its head goes, or two lists follow one another.
LEMMA TailElements ==
    ASSUME NEW S, NEW s \in Seq(S), s # <<>>
    PROVE  /\ Head(s) \in S /\ Tail(s) \in Seq(S)
           /\ Elements(s) = {Head(s)} \cup Elements(Tail(s))
           /\ NoRepeat(s) => NoRepeat(Tail(s)) /\ Head(s) \notin Elements(Tail(s))
  <1>1. /\ Tail(s) \in Seq(S) /\ Head(s) = s[1] /\ 1 \in DOMAIN s /\ Head(s) \in S
        /\ \A i \in DOMAIN Tail(s) : i + 1 \in DOMAIN s /\ Tail(s)[i] = s[i + 1] /\ i \in 1 .. Len(s)
        /\ \A i \in DOMAIN s \ {1} : i - 1 \in DOMAIN Tail(s)
    BY TailOf
  <1>2. Elements(s) = {Head(s)} \cup Elements(Tail(s))
    BY <1>1 DEF Elements
  <1>3. NoRepeat(s) => NoRepeat(Tail(s))
    BY <1>1 DEF NoRepeat
  <1>4. NoRepeat(s) => Head(s) \notin Elements(Tail(s))
    BY <1>1 DEF NoRepeat, Elements
  <1> QED
    BY <1>1, <1>2, <1>3, <1>4

LEMMA ConcatElements ==
    ASSUME NEW S, NEW s \in Seq(S), NEW t \in Seq(S)
    PROVE  /\ s \o t \in Seq(S) /\ Elements(s \o t) = Elements(s) \cup Elements(t)
           /\ NoRepeat(s) /\ NoRepeat(t) /\ Elements(s) \cap Elements(t) = {}
                => NoRepeat(s \o t)
  <1>1. /\ s \o t \in Seq(S) /\ Len(s \o t) = Len(s) + Len(t)
        /\ DOMAIN s = 1 .. Len(s) /\ DOMAIN t = 1 .. Len(t)
        /\ DOMAIN (s \o t) = 1 .. Len(s) + Len(t) /\ Len(s) \in Nat /\ Len(t) \in Nat
    OBVIOUS
  <1>2. \A i \in DOMAIN (s \o t) :
          \/ i \in DOMAIN s /\ (s \o t)[i] = s[i]
          \/ i - Len(s) \in DOMAIN t /\ (s \o t)[i] = t[i - Len(s)]
    OBVIOUS
  <1>3. /\ \A i \in DOMAIN s : i \in DOMAIN (s \o t) /\ (s \o t)[i] = s[i]
        /\ \A i \in DOMAIN t : i + Len(s) \in DOMAIN (s \o t) /\ (s \o t)[i + Len(s)] = t[i]
    OBVIOUS
  <1>4. Elements(s \o t) = Elements(s) \cup Elements(t)
    <2>1. Elements(s \o t) \subseteq Elements(s) \cup Elements(t)
      BY <1>2 DEF Elements
    <2>2. ASSUME NEW e \in Elements(s) PROVE e \in Elements(s \o t)
      <3>1. PICK i \in DOMAIN s : e = s[i]
        BY DEF Elements
      <3> QED
        BY <1>3, <3>1 DEF Elements
    <2>3. ASSUME NEW e \in Elements(t) PROVE e \in Elements(s \o t)
      <3>1. PICK i \in DOMAIN t : e = t[i]
        BY DEF Elements
      <3> QED
        BY <1>3, <3>1 DEF Elements
    <2> QED
      BY <2>1, <2>2, <2>3
  <1>5. ASSUME NoRepeat(s), NoRepeat(t), Elements(s) \cap Elements(t) = {}
        PROVE  NoRepeat(s \o t)
    <2>1. \A i \in DOMAIN s, j \in DOMAIN t : s[i] # t[j]
      BY <1>5 DEF Elements
    <2>2. ASSUME NEW i \in DOMAIN (s \o t), NEW j \in DOMAIN (s \o t),
                 (s \o t)[i] = (s \o t)[j]
          PROVE  i = j
      BY <1>1, <1>2, <1>5, <2>1, <2>2 DEF NoRepeat
    <2> QED
      BY <2>2 DEF NoRepeat
  <1> QED
    BY <1>1, <1>4, <1>5

LEMMA NoElements == Elements(<<>>) = {}
  BY DEF Elements

\* The lists of the load.
LEMMA EveryIs ==
    Every = {"blocks", "transactions", "vins", "vouts", "spendtx", "addresses",
             "matching", "votes", "misses", "agendas", "agenda_votes", "proposals",
             "proposal_votes", "stats", "tickets"}
  BY DEF Every, Load!AllIndexes, Load!DeindexAll, Load!ToSet

LEMMA DeindexAllIs == Load!DeindexAll \in Seq(Every) /\ Elements(Load!DeindexAll) = Every
  <1>1. Elements(Load!DeindexAll) = Every
    BY DEF Every, Load!AllIndexes, Load!ToSet, Elements
  <1>2. Load!DeindexAll \in Seq(Every)
    BY EveryIs DEF Load!DeindexAll
  <1> QED
    BY <1>1, <1>2

LEMMA DeleteDuplicatesIs ==
    Load!DeleteDuplicates \in Seq(Every) /\ {"vins", "vouts"} \subseteq Elements(Load!DeleteDuplicates)
  BY EveryIs DEF Load!DeleteDuplicates, Elements

LEMMA IndexAllIs ==
    /\ Load!IndexAll \in Seq(Every) /\ NoRepeat(Load!IndexAll)
    /\ Elements(Load!IndexAll) = Every \ {"spendtx", "matching", "tickets"}
  <1>1. Load!IndexAll \in Seq(Every)
    BY EveryIs DEF Load!IndexAll
  <1>2. NoRepeat(Load!IndexAll)
    BY DEF Load!IndexAll, NoRepeat
  <1>3. Elements(Load!IndexAll) =
          {"blocks", "transactions", "vins", "vouts", "votes", "misses", "agendas",
           "agenda_votes", "addresses", "proposals", "proposal_votes", "stats"}
    BY DEF Load!IndexAll, Elements
  <1> QED
    BY <1>1, <1>2, <1>3, EveryIs

LEMMA LoadStart == ASSUME Load!Init PROVE LoadInv
  <1>1. failed = Fine
    BY Zenon DEF Load!Init, Fine
  <1>2. /\ indexes = {} /\ height = -1 /\ ibd = FALSE /\ dups = {} /\ leftover = {}
        /\ unset = {} /\ unmatched = {} /\ pc = "down" /\ todo = <<>> /\ cursor = 0
        /\ tip = 0
    BY Zenon DEF Load!Init
  <1> QED
    BY <1>1, <1>2 DEF LoadInv, LoadAlways, LoadPrepares, LoadBuilds, LoadCompletes, NoDebt

\* The node's chain grows, or nothing happens.
LEMMA LoadRests ==
    ASSUME LoadInv, tip' \in Nat,
           UNCHANGED <<indexes, height, ibd, dups, leftover, unset, unmatched, pc, todo,
                       newIndexes, updateAll, reindexing, dupChecks, cursor, failed, kept>>
    PROVE  LoadInv'
  BY DEF LoadInv, LoadAlways, LoadPrepares, LoadBuilds, LoadCompletes, NoDebt

LEMMA NodeGrowsKeeps == ASSUME LoadInv, Load!NodeGrows PROVE LoadInv'
  <1>1. tip' \in Nat
    BY DEF LoadInv, LoadAlways, Load!NodeGrows
  <1> QED
    BY <1>1, LoadRests DEF Load!NodeGrows, Load!args, Load!db

\* A run ends; what it leaves in the tables has only to be sound by itself.
LEMMA DownKeeps ==
    ASSUME LoadInv, NEW why, Load!Down(why), why = Fine \/ kept # {},
           UNCHANGED <<indexes, height, ibd, dups, unset, unmatched, kept>>,
           leftover' \subseteq {"vins", "vouts"}, tip' \in Nat
    PROVE  LoadInv'
  BY DEF LoadInv, LoadAlways, LoadPrepares, LoadBuilds, LoadCompletes, NoDebt, Load!Down

-------------------------------------------------------------------------------
(* The steps of the bulk load.                                              *)

LEMMA StartKeeps == ASSUME LoadInv, Load!Start PROVE LoadInv'
  <1>1. /\ pc' = "sync" /\ failed' = Fine /\ kept' = {}
        /\ newIndexes' = (Load!MissingIndexes # {}) /\ updateAll' = (Load!MissingIndexes # {})
        /\ UNCHANGED <<indexes, height, ibd, dups, leftover, unset, unmatched, todo, cursor,
                       tip>>
    BY Zenon DEF Load!Start, Load!db, Fine
  <1> QED
    BY <1>1 DEF LoadInv, LoadAlways, LoadPrepares, LoadBuilds, LoadCompletes, NoDebt,
       Load!MissingIndexes, Every

LEMMA DropIndexesKeeps == ASSUME LoadInv, Load!DropIndexes PROVE LoadInv'
  BY DEF LoadInv, LoadAlways, LoadPrepares, LoadBuilds, LoadCompletes, NoDebt,
     Load!DropIndexes, Load!args

LEMMA BeginKeeps == ASSUME LoadInv, Load!Begin PROVE LoadInv'
  BY DeindexAllIs DEF LoadInv, LoadAlways, LoadPrepares, LoadBuilds, LoadCompletes, NoDebt,
     Load!Begin, Load!db

\* A DROP that fails is remembered.
LEMMA DeindexKeeps == ASSUME LoadInv, Load!Deindex PROVE LoadInv'
  <1>1. /\ Elements(todo) = {Head(todo)} \cup Elements(todo') /\ todo' \in Seq(Every)
        /\ pc = "deindex"
    BY TailElements DEF LoadInv, LoadAlways, Load!Deindex
  <1>2. /\ indexes' \subseteq indexes
        /\ indexes' \ Elements(todo') \subseteq kept'
    BY <1>1 DEF LoadInv, LoadPrepares, Load!Deindex
  <1> QED
    BY <1>1, <1>2 DEF LoadInv, LoadAlways, LoadPrepares, LoadBuilds, LoadCompletes, NoDebt,
       Load!Deindex, Load!args

LEMMA EnableDuplicateCheckOnInsertKeeps ==
    ASSUME LoadInv, Load!EnableDuplicateCheckOnInsert PROVE LoadInv'
  <1>1. Elements(todo) = {}
    BY NoElements DEF Load!EnableDuplicateCheckOnInsert
  <1> QED
    BY <1>1 DEF LoadInv, LoadAlways, LoadPrepares, LoadBuilds, LoadCompletes, NoDebt,
       Load!EnableDuplicateCheckOnInsert, Load!db

LEMMA FlagKeeps == ASSUME LoadInv, Load!Flag PROVE LoadInv'
  BY DEF LoadInv, LoadAlways, LoadPrepares, LoadBuilds, LoadCompletes, NoDebt,
     Load!Flag, Load!args

\* Without conflict checks no unique index is there to be broken.
LEMMA StoreBlockKeeps == ASSUME LoadInv, Load!StoreBlock PROVE LoadInv'
  <1>1. /\ pc = "load" /\ height' = height + 1 /\ leftover' = {}
        /\ UNCHANGED <<indexes, ibd, pc, todo, newIndexes, updateAll, reindexing,
                       dupChecks, cursor, failed, kept, tip>>
    BY DEF Load!StoreBlock
  <1>2. height' \in Int /\ height' >= -1 /\ 0 .. height \subseteq 0 .. height'
        /\ height' \in 0 .. height'
    BY <1>1 DEF LoadInv, LoadAlways
  <1>3. \/ UNCHANGED <<unset, unmatched>>
        \/ updateAll /\ unset' = unset \cup {height'} /\ unmatched' = unmatched \cup {height'}
    BY <1>1 DEF Load!StoreBlock
  <1>4. dups' \subseteq {"vins", "vouts"} /\ dups' \cap indexes' = {}
    BY <1>1 DEF LoadInv, LoadAlways, Load!StoreBlock, Load!Collides
  <1>5. unset' \subseteq 0 .. height' /\ unmatched' \subseteq 0 .. height'
    BY <1>2, <1>3 DEF LoadInv, LoadAlways
  <1>6. ibd' => NoDebt'
    BY <1>1, <1>3 DEF LoadInv, LoadAlways, LoadPrepares, NoDebt
  <1>7. ~updateAll' => NoDebt'
    BY <1>1, <1>3 DEF LoadInv, LoadPrepares, NoDebt
  <1> QED
    BY <1>1, <1>2, <1>4, <1>5, <1>6, <1>7
    DEF LoadInv, LoadAlways, LoadPrepares, LoadBuilds, LoadCompletes

\* An insert is refused only by an index that a DROP failed to remove.
LEMMA StoreBlockFailsKeeps == ASSUME LoadInv, Load!StoreBlockFails PROVE LoadInv'
  <1>1. pc = "load" /\ Load!Down("insert") /\ UNCHANGED <<leftover, tip>>
        /\ UNCHANGED <<indexes, height, ibd, dups, unset, unmatched, kept>>
    BY DEF Load!StoreBlockFails, Load!db
  <1>2. kept # {}
    <2>1. Load!UniqueIndexes \subseteq Every
      BY DEF Load!UniqueIndexes, Every
    <2> QED
      BY <1>1, <2>1 DEF LoadInv, LoadPrepares, Load!StoreBlockFails
  <1> QED
    BY <1>1, <1>2, DownKeeps DEF LoadInv, LoadAlways

LEMMA LoadEndsKeeps == ASSUME LoadInv, Load!LoadEnds PROVE LoadInv'
  BY DeleteDuplicatesIs DEF LoadInv, LoadAlways, LoadPrepares, LoadBuilds, LoadCompletes, NoDebt,
     Load!LoadEnds, Load!args, Load!db

LEMMA DeleteDuplicateKeeps == ASSUME LoadInv, Load!DeleteDuplicate PROVE LoadInv'
  <1>1. /\ Elements(todo) = {Head(todo)} \cup Elements(todo') /\ todo' \in Seq(Every)
        /\ pc = "dedupe"
    BY TailElements DEF LoadInv, LoadAlways, Load!DeleteDuplicate
  <1>2. dups' \subseteq dups /\ dups' \subseteq Elements(todo')
    BY <1>1 DEF LoadInv, LoadAlways, LoadBuilds, Load!DeleteDuplicate
  <1> QED
    BY <1>1, <1>2 DEF LoadInv, LoadAlways, LoadPrepares, LoadBuilds, LoadCompletes, NoDebt,
       Load!DeleteDuplicate, Load!args

\* The list of the indexes to build names each once, and all but those that the
\* update of the spending information builds itself.
LEMMA DuplicatesGoneKeeps == ASSUME LoadInv, Load!DuplicatesGone PROVE LoadInv'
  <1> DEFINE two == IF updateAll THEN <<>> ELSE <<"matching", "spendtx">>
  <1>1. /\ pc = "dedupe" /\ pc' = "index" /\ todo = <<>>
        /\ todo' = Load!IndexAll \o two \o Load!IndexTicketsTable
        /\ UNCHANGED <<indexes, height, ibd, dups, leftover, unset, unmatched, newIndexes,
                       updateAll, reindexing, dupChecks, cursor, failed, kept, tip>>
    BY DEF Load!DuplicatesGone, Load!db, Load!args
  <1>2. two \in Seq(Every) /\ NoRepeat(two)
        /\ Elements(two) = IF updateAll THEN {} ELSE OfUpdate
    <2>1. CASE updateAll
      <3>1. two = <<>>
        BY <2>1
      <3> QED
        BY <2>1, <3>1, NoElements DEF NoRepeat
    <2>2. CASE ~updateAll
      <3>1. two = <<"matching", "spendtx">>
        BY <2>2
      <3> QED
        BY <2>2, <3>1, EveryIs DEF NoRepeat, Elements, OfUpdate
    <2> QED
      BY <2>1, <2>2
  <1>3. /\ Load!IndexTicketsTable \in Seq(Every) /\ NoRepeat(Load!IndexTicketsTable)
        /\ Elements(Load!IndexTicketsTable) = {"tickets"}
    BY EveryIs DEF Load!IndexTicketsTable, NoRepeat, Elements
  <1> HIDE DEF two
  <1>4. /\ Load!IndexAll \o two \in Seq(Every) /\ NoRepeat(Load!IndexAll \o two)
        /\ Elements(Load!IndexAll \o two) = Elements(Load!IndexAll) \cup Elements(two)
    <2>1. Elements(Load!IndexAll) \cap Elements(two) = {}
      BY <1>2, IndexAllIs DEF OfUpdate
    <2> QED
      BY <1>2, <2>1, IndexAllIs, ConcatElements
  <1>5. /\ todo' \in Seq(Every) /\ NoRepeat(todo')
        /\ Elements(todo') = Elements(Load!IndexAll) \cup Elements(two) \cup {"tickets"}
    <2>1. Elements(Load!IndexAll \o two) \cap {"tickets"} = {}
      BY <1>2, <1>4, IndexAllIs DEF OfUpdate
    <2> DEFINE front == Load!IndexAll \o two
    <2>2. todo' = front \o Load!IndexTicketsTable
      BY <1>1
    <2>3. front \in Seq(Every) /\ NoRepeat(front)
      BY <1>4
    <2> HIDE DEF front
    <2>4. /\ todo' \in Seq(Every)
          /\ Elements(todo') = Elements(front) \cup Elements(Load!IndexTicketsTable)
      BY <1>3, <2>2, <2>3, ConcatElements
    <2>5. NoRepeat(todo')
      BY <1>3, <2>1, <2>2, <2>3, ConcatElements DEF front
    <2> QED
      BY <1>3, <1>4, <2>4, <2>5 DEF front
  <1>6. Every \subseteq Elements(todo') \cup (IF updateAll THEN OfUpdate ELSE {})
    BY <1>2, <1>5, IndexAllIs DEF OfUpdate
  <1>7. dups = {}
    BY <1>1, NoElements DEF LoadInv, LoadBuilds
  <1> QED
    BY <1>1, <1>5, <1>6, <1>7
    DEF LoadInv, LoadAlways, LoadPrepares, LoadBuilds, LoadCompletes, NoDebt

LEMMA IndexKeeps == ASSUME LoadInv, Load!Index PROVE LoadInv'
  <1>1. /\ Elements(todo) = {Head(todo)} \cup Elements(todo') /\ todo' \in Seq(Every)
        /\ Head(todo) \in Every /\ NoRepeat(todo') /\ Head(todo) \notin Elements(todo')
        /\ pc = "index"
    BY TailElements DEF LoadInv, LoadAlways, LoadBuilds, Load!Index
  <1> QED
    BY <1>1 DEF LoadInv, LoadAlways, LoadPrepares, LoadBuilds, LoadCompletes, NoDebt,
       Load!Index, Load!args

\* No table collides and no index is built twice: one that is there was kept.
LEMMA IndexFailsKeeps == ASSUME LoadInv, Load!IndexFails PROVE LoadInv'
  <1>1. pc = "index" /\ Load!Down("index") /\ UNCHANGED <<leftover, tip>>
        /\ UNCHANGED <<indexes, height, ibd, dups, unset, unmatched, kept>>
    BY DEF Load!IndexFails, Load!db
  <1>2. Head(todo) \in Elements(todo)
    BY TailElements DEF LoadInv, LoadAlways, Load!IndexFails
  <1>3. kept # {}
    BY <1>1, <1>2 DEF LoadInv, LoadBuilds, Load!IndexFails, Load!Refused
  <1> QED
    BY <1>1, <1>3, DownKeeps DEF LoadInv, LoadAlways

LEMMA IndexedKeeps == ASSUME LoadInv, Load!Indexed PROVE LoadInv'
  <1>1. Elements(todo) = {}
    BY NoElements DEF Load!Indexed
  <1> QED
    BY <1>1 DEF LoadInv, LoadAlways, LoadPrepares, LoadBuilds, LoadCompletes, NoDebt,
       Load!Indexed, Load!args, Load!db

LEMMA UpdateSpendTxInfoInAllVoutsKeeps == ASSUME LoadInv, Load!UpdateSpendTxInfoInAllVouts PROVE LoadInv'
  BY DEF LoadInv, LoadAlways, LoadPrepares, LoadBuilds, LoadCompletes, NoDebt,
     Load!UpdateSpendTxInfoInAllVouts, Load!args

LEMMA IndexVoutTableOnSpendTxIDKeeps == ASSUME LoadInv, Load!IndexVoutTableOnSpendTxID PROVE LoadInv'
  BY EveryIs DEF LoadInv, LoadAlways, LoadPrepares, LoadBuilds, LoadCompletes, NoDebt,
     Load!IndexVoutTableOnSpendTxID, Load!args, OfUpdate

LEMMA DeindexAddressTableOnMatchingTxHashKeeps == ASSUME LoadInv, Load!DeindexAddressTableOnMatchingTxHash PROVE LoadInv'
  BY DEF LoadInv, LoadAlways, LoadPrepares, LoadBuilds, LoadCompletes, NoDebt,
     Load!DeindexAddressTableOnMatchingTxHash, Load!args

\* The blocks of a chunk are done: their spends are in vouts already.
LEMMA UpdateSpendingInfoKeeps == ASSUME LoadInv, Load!UpdateSpendingInfo PROVE LoadInv'
  <1> DEFINE end == IF cursor + Chunk > height + 1 THEN height + 1 ELSE cursor + Chunk
  <1>1. /\ pc = "addresses" /\ cursor' = cursor + Chunk
        /\ unmatched' = unmatched \ ((cursor .. end - 1) \ unset)
        /\ UNCHANGED <<indexes, height, ibd, dups, leftover, unset, pc, todo, newIndexes,
                       updateAll, reindexing, dupChecks, failed, kept, tip>>
    BY DEF Load!UpdateSpendingInfo, Load!args
  <1>2. Chunk \in Nat \ {0}
    BY LoadAssumption DEF Load!SyncConstants
  <1>3. cursor' \in Nat
    BY <1>1, <1>2 DEF LoadInv, LoadAlways
  <1>4. unset = {} /\ unmatched \subseteq cursor .. height
    BY <1>1 DEF LoadInv, LoadCompletes
  <1>5. unmatched' \subseteq cursor' .. height'
    BY <1>1, <1>2, <1>4 DEF LoadInv, LoadAlways
  <1>6. unmatched' \subseteq unmatched
    BY <1>1
  <1> QED
    BY <1>1, <1>3, <1>5, <1>6
    DEF LoadInv, LoadAlways, LoadPrepares, LoadBuilds, LoadCompletes, NoDebt

LEMMA IndexAddressTableOnMatchingTxHashKeeps ==
    ASSUME LoadInv, Load!IndexAddressTableOnMatchingTxHash PROVE LoadInv'
  <1>1. /\ pc = "addresses" /\ pc' = "finish" /\ cursor > height /\ cursor' = 0
        /\ indexes' = indexes \cup {"matching"}
        /\ UNCHANGED <<height, ibd, dups, leftover, unset, unmatched, todo, newIndexes,
                       updateAll, reindexing, dupChecks, failed, kept, tip>>
    BY DEF Load!IndexAddressTableOnMatchingTxHash, Load!args
  <1>2. NoDebt
    BY <1>1 DEF LoadInv, LoadAlways, LoadCompletes, NoDebt
  <1>3. indexes' = Every
    BY <1>1, EveryIs DEF LoadInv, LoadAlways, LoadCompletes
  <1> QED
    BY <1>1, <1>2, <1>3
    DEF LoadInv, LoadAlways, LoadPrepares, LoadBuilds, LoadCompletes, NoDebt

LEMMA FinishKeeps == ASSUME LoadInv, Load!Finish PROVE LoadInv'
  BY DEF LoadInv, LoadAlways, LoadPrepares, LoadBuilds, LoadCompletes, NoDebt,
     Load!Finish

LEMMA EnsureSyncKeeps == ASSUME LoadInv, Load!EnsureSync PROVE LoadInv'
  BY DEF LoadInv, LoadAlways, LoadPrepares, LoadBuilds, LoadCompletes, NoDebt,
     Load!EnsureSync, Load!db

LEMMA ConnectKeeps == ASSUME LoadInv, Load!Connect PROVE LoadInv'
  <1>1. /\ pc = "ready" /\ height = tip /\ tip' = tip + 1 /\ height' = tip + 1
        /\ leftover' = {}
        /\ UNCHANGED <<indexes, ibd, dups, unset, unmatched, pc, todo, newIndexes, updateAll,
                       reindexing, dupChecks, cursor, failed, kept>>
    BY DEF Load!Connect, Load!args
  <1>2. tip' \in Nat /\ height' \in Int /\ height' >= -1
    BY <1>1 DEF LoadInv, LoadAlways
  <1>3. NoDebt /\ indexes = Every
    BY <1>1 DEF LoadInv, LoadCompletes
  <1> QED
    BY <1>1, <1>2, <1>3
    DEF LoadInv, LoadAlways, LoadPrepares, LoadBuilds, LoadCompletes, NoDebt

LEMMA RunEndsKeeps == ASSUME LoadInv, Load!Cancel \/ Load!Crash PROVE LoadInv'
  <1>1. Load!Down(Fine) /\ UNCHANGED <<indexes, height, ibd, dups, unset, unmatched, kept>>
    BY Zenon DEF Load!Cancel, Load!Crash, Load!db, Fine
  <1>2. leftover' = leftover \/ leftover' = {"vins", "vouts"}
    BY Zenon DEF Load!Cancel, Load!Crash, Load!db
  <1>3. tip' = tip \/ tip' = tip + 1
    BY Zenon DEF Load!Cancel, Load!Crash, Load!db
  <1>4. leftover' \subseteq {"vins", "vouts"} /\ tip' \in Nat
    <2>1. leftover \subseteq {"vins", "vouts"} /\ tip \in Nat
      BY Zenon DEF LoadInv, LoadAlways
    <2>2. tip' \in Nat
      BY <1>3, <2>1
    <2>3. leftover' \subseteq {"vins", "vouts"}
      BY <1>2, <2>1
    <2> QED
      BY <2>2, <2>3
  <1> QED
    BY <1>1, <1>4, DownKeeps

LEMMA LoadKeeps == ASSUME LoadInv, Load!Next PROVE LoadInv'
  BY StartKeeps, DropIndexesKeeps, BeginKeeps, DeindexKeeps,
     EnableDuplicateCheckOnInsertKeeps, FlagKeeps, StoreBlockKeeps, StoreBlockFailsKeeps,
     LoadEndsKeeps, DeleteDuplicateKeeps, DuplicatesGoneKeeps, IndexKeeps, IndexFailsKeeps,
     IndexedKeeps, UpdateSpendTxInfoInAllVoutsKeeps, IndexVoutTableOnSpendTxIDKeeps,
     DeindexAddressTableOnMatchingTxHashKeeps, UpdateSpendingInfoKeeps,
     IndexAddressTableOnMatchingTxHashKeeps, FinishKeeps, EnsureSyncKeeps, ConnectKeeps,
     RunEndsKeeps, NodeGrowsKeeps
  DEF Load!Next, Load!Sync

LEMMA LoadInvIsSafe == ASSUME LoadInv PROVE Load!ReadyIsSound
  <1>1. pc = "ready" => /\ indexes = Every /\ dups = {} /\ unset = {} /\ unmatched = {}
                        /\ dupChecks /\ ibd
    BY EveryIs DEF LoadInv, LoadAlways, LoadCompletes, NoDebt
  <1>2. failed # Fine => kept # {}
    BY DEF LoadInv, LoadAlways
  <1> QED
    BY <1>1, <1>2, Zenon DEF Load!ReadyIsSound, Every, Fine

-------------------------------------------------------------------------------
(* The order books.                                                         *)

\* Runs of a queue: what the updates s of the queue q make of base, taken in order.
QueueStep(u, s) ==
    CASE u <= s.orderSeq -> s
      [] u = s.orderSeq + 1 -> Books!processBittrexOrderbookPoint(s, u)
      [] OTHER -> [s EXCEPT !.queue = Append(@, u)]
IsRun(f, q, base) ==
    f = [s \in SUBSET DOMAIN q |->
           IF s = {} THEN base ELSE QueueStep(q[Last(s)], f[s \ {Last(s)}])]

LEMMA QueueIsRun ==
    ASSUME NEW r
    PROVE  Books!processQueue(r) =
              (CHOOSE f : IsRun(f, r.queue, [r EXCEPT !.queue = <<>>]))[DOMAIN r.queue]
  BY DEF Books!processQueue, Books!FoldLeft, Books!MapThenFoldSet, Books!Max, IsRun,
         QueueStep, Last

\* Every queue has a run.
LEMMA RunExists ==
    ASSUME NEW q, NEW k \in Nat, DOMAIN q = 1 .. k, NEW base
    PROVE  \E f : IsRun(f, q, base)
  <1> DEFINE Part(m) == {s \in SUBSET (1 .. k) : Cardinality(s) <= m}
             Longer(f, m) == [s \in Part(m) |->
                                IF s = {} THEN base
                                ELSE QueueStep(q[Last(s)], f[s \ {Last(s)}])]
             Bad == {m \in Nat : ~ \E f : f = Longer(f, m)}
  <1>1. \A s \in SUBSET (1 .. k) :
           Cardinality(s) \in Nat /\ (Cardinality(s) = 0 <=> s = {})
    BY LastLess
  <1>2. \A s \in SUBSET (1 .. k) : s # {} =>
           /\ s \ {Last(s)} \in SUBSET (1 .. k)
           /\ Cardinality(s \ {Last(s)}) = Cardinality(s) - 1
    BY LastLess
  <1>3. Bad = {}
    <2>1. SUFFICES ASSUME Bad # {} PROVE FALSE
      OBVIOUS
    <2>2. PICK m \in Bad : \A j \in Bad : m <= j
      <3>1. Bad \in SUBSET Nat
        OBVIOUS
      <3> HIDE DEF Bad
      <3> QED
        BY <2>1, <3>1, LeastNatural
    <2>3. m \in Nat /\ ~ \E f : f = Longer(f, m)
      OBVIOUS
    <2>4. CASE m = 0
      <3> DEFINE f == [s \in Part(0) |-> base]
      <3>1. \A s \in Part(0) : s = {}
        BY <1>1
      <3>2. f = Longer(f, 0)
        BY <3>1
      <3> QED
        BY <2>3, <2>4, <3>2
    <2>5. CASE m # 0
      <3>1. m - 1 \in Nat /\ m - 1 \notin Bad
        <4>1. m - 1 \in Nat /\ ~(m <= m - 1)
          BY <2>3, <2>5
        <4> HIDE DEF Bad
        <4> QED
          BY <2>2, <4>1
      <3>2. PICK f : f = Longer(f, m - 1)
        BY <3>1
      <3> DEFINE g == Longer(f, m)
      <3>3. Part(m - 1) \subseteq Part(m)
        BY <1>1, <2>3
      <3>4. \A s \in Part(m - 1) : g[s] = f[s]
        BY <3>2, <3>3
      <3>5. \A s \in Part(m) : s # {} => s \ {Last(s)} \in Part(m - 1)
        BY <1>1, <1>2, <2>3
      <3>6. \A s \in Part(m) : s # {} => f[s \ {Last(s)}] = g[s \ {Last(s)}]
        BY <3>4, <3>5
      <3>7. g = Longer(g, m)
        BY <3>6
      <3> QED
        BY <2>3, <3>7
    <2> QED
      BY <2>4, <2>5
  <1>4. Part(k) = SUBSET (1 .. k)
    <2>1. IsFiniteSet(1 .. k) /\ Cardinality(1 .. k) = k
      BY FS_Interval
    <2>2. \A s \in SUBSET (1 .. k) : Cardinality(s) <= k
      BY <2>1, FS_Subset
    <2> QED
      BY <2>2
  <1>5. PICK f : f = Longer(f, k)
    BY <1>3
  <1>6. f = [s \in SUBSET (1 .. k) |->
               IF s = {} THEN base ELSE QueueStep(q[Last(s)], f[s \ {Last(s)}])]
    BY <1>4, <1>5
  <1> QED
    BY <1>6 DEF IsRun

\* What handling a message returns, with a book that is the exchange's of its number:
\* always (all = 1), or while the feed counts as listening.
Field == {"book", "orderSeq", "queue", "ask", "status", "fail"}
IsResult(s) == s = [x \in Field |-> s[x]]
Follows(s) == \A p \in Books!Price : s.book[p] = ExchangeBooks[s.orderSeq][p]
Good(s, all) ==
    /\ IsResult(s) /\ s.orderSeq \in Nat \ {0} /\ s.queue \in Seq(Nat)
    /\ all = 1 \/ s.status = "listening" => Follows(s)

\* setWsFail only changes the state of the feed.
LEMMA FailIs ==
    ASSUME NEW s, IsResult(s), NEW r, r = Books!setWsFail(s)
    PROVE  /\ IsResult(r) /\ r.status = "failed"
           /\ r.book = s.book /\ r.orderSeq = s.orderSeq /\ r.queue = s.queue
  BY DEF IsResult, Field, Books!setWsFail

\* What an update makes of a book.
LEMMA PointIs ==
    ASSUME NEW s, IsResult(s), NEW u, NEW r, r = Books!processBittrexOrderbookPoint(s, u)
    PROVE  /\ IsResult(r) /\ r.orderSeq = u /\ r.queue = s.queue
           /\ r.status \in {s.status, "failed"}
           /\ \A p \in Books!Price :
                 r.book[p] = IF p \in Books!Changed(u) THEN ExchangeBooks[u][p] ELSE s.book[p]
  <1> DEFINE b == [p \in Books!Price |-> IF p \in Books!Changed(u)
                                        THEN ExchangeBooks[u][p] ELSE s.book[p]]
             a == [s EXCEPT !.orderSeq = u, !.book = b]
  <1>1. r = a \/ r = Books!setWsFail(a)
    BY DEF Books!processBittrexOrderbookPoint
  <1> HIDE DEF b
  <1>2. /\ IsResult(a) /\ a.orderSeq = u /\ a.queue = s.queue /\ a.status = s.status
        /\ a.book = b
    BY DEF IsResult, Field
  <1> HIDE DEF a
  <1>3. /\ IsResult(r) /\ r.orderSeq = u /\ r.queue = s.queue /\ r.book = b
        /\ r.status \in {s.status, "failed"}
    BY <1>1, <1>2, FailIs
  <1> QED
    BY <1>3 DEF b

\* The next update makes the exchange's next book of its last one.
LEMMA PointKeeps ==
    ASSUME NEW all, NEW s, Good(s, all)
    PROVE  Good(Books!processBittrexOrderbookPoint(s, s.orderSeq + 1), all)
  <1> DEFINE o == s.orderSeq
             r == Books!processBittrexOrderbookPoint(s, o + 1)
  <1>1. /\ IsResult(r) /\ r.orderSeq = o + 1 /\ r.queue = s.queue
        /\ r.status \in {s.status, "failed"}
        /\ \A p \in Books!Price :
              r.book[p] = IF p \in Books!Changed(o + 1) THEN ExchangeBooks[o + 1][p]
                          ELSE s.book[p]
    <2>1. IsResult(s)
      BY DEF Good
    <2>2. r = Books!processBittrexOrderbookPoint(s, o + 1)
      OBVIOUS
    <2> HIDE DEF r, o
    <2> QED
      BY <2>1, <2>2, PointIs
  <1>2. o \in Nat /\ o + 1 \in Nat \ {0} /\ o + 1 - 1 = o /\ s.queue \in Seq(Nat)
    BY DEF Good
  <1> HIDE DEF r
  <1>3. ASSUME all = 1 \/ r.status = "listening" PROVE Follows(r)
    <2>1. all = 1 \/ s.status = "listening"
      BY <1>1, <1>3
    <2>2. \A p \in Books!Price : s.book[p] = ExchangeBooks[o][p]
      BY <2>1 DEF Good, Follows
    <2> HIDE DEF o
    <2>3. \A p \in Books!Price : r.book[p] = ExchangeBooks[o + 1][p]
      BY <1>1, <1>2, <2>2 DEF Books!Changed
    <2> QED
      BY <1>1, <2>3 DEF Follows
  <1>4. Good(r, all)
    BY <1>1, <1>2, <1>3 DEF Good
  <1> QED
    BY <1>4 DEF r

\* One queued update: skipped, applied or queued again.
LEMMA QueueStepKeeps ==
    ASSUME NEW all, NEW s, Good(s, all), NEW u \in Nat
    PROVE  Good(QueueStep(u, s), all)
  <1>1. CASE u <= s.orderSeq
    <2>1. QueueStep(u, s) = s
      BY <1>1 DEF QueueStep, Good
    <2> QED
      BY <2>1
  <1>2. CASE u = s.orderSeq + 1
    <2>1. QueueStep(u, s) = Books!processBittrexOrderbookPoint(s, s.orderSeq + 1)
      BY <1>2 DEF QueueStep, Good
    <2> QED
      BY <2>1, PointKeeps
  <1>3. CASE ~(u <= s.orderSeq) /\ u # s.orderSeq + 1
    <2> DEFINE r == [s EXCEPT !.queue = Append(@, u)]
    <2>1. QueueStep(u, s) = r
      BY <1>3 DEF QueueStep
    <2>2. /\ IsResult(r) /\ r.book = s.book /\ r.orderSeq = s.orderSeq
          /\ r.status = s.status /\ r.queue = Append(s.queue, u)
      BY DEF Good, IsResult, Field
    <2>3. Append(s.queue, u) \in Seq(Nat)
      BY AppendOf DEF Good
    <2> HIDE DEF r
    <2> QED
      BY <2>1, <2>2, <2>3 DEF Good, Follows
  <1> QED
    BY <1>1, <1>2, <1>3

\* The updates of a queue, taken in order.
LEMMA RunKeeps ==
    ASSUME NEW all, NEW base, Good(base, all), NEW q \in Seq(Nat),
           NEW f, IsRun(f, q, base)
    PROVE  Good(f[DOMAIN q], all)
  <1> DEFINE k == Len(q)
             Bad == {m \in Nat : \E s \in SUBSET (1 .. k) :
                                    Cardinality(s) = m /\ ~Good(f[s], all)}
  <1>1. k \in Nat /\ DOMAIN q = 1 .. k /\ \A i \in 1 .. k : q[i] \in Nat
    OBVIOUS
  <1>2. \A s \in SUBSET (1 .. k) :
           f[s] = IF s = {} THEN base ELSE QueueStep(q[Last(s)], f[s \ {Last(s)}])
    BY <1>1 DEF IsRun
  <1> HIDE DEF k
  <1>3. Bad = {}
    <2>1. SUFFICES ASSUME Bad # {} PROVE FALSE
      OBVIOUS
    <2>2. PICK m \in Bad : \A j \in Bad : m <= j
      <3>1. Bad \in SUBSET Nat
        OBVIOUS
      <3> HIDE DEF Bad
      <3> QED
        BY <2>1, <3>1, LeastNatural
    <2>3. PICK s \in SUBSET (1 .. k) : Cardinality(s) = m /\ ~Good(f[s], all)
      OBVIOUS
    <2>4. s # {}
      BY <1>2, <2>3
    <2>5. /\ Last(s) \in s /\ s \ {Last(s)} \in SUBSET (1 .. k) /\ m \in Nat
          /\ Cardinality(s \ {Last(s)}) = m - 1 /\ Cardinality(s \ {Last(s)}) \in Nat
      BY <1>1, <2>3, <2>4, LastLess
    <2>6. Good(f[s \ {Last(s)}], all)
      <3>1. m - 1 \in Nat /\ ~(m <= m - 1)
        BY <2>5
      <3>2. m - 1 \notin Bad
        <4> HIDE DEF Bad
        <4> QED
          BY <2>2, <3>1
      <3> QED
        BY <2>5, <3>1, <3>2
    <2>7. q[Last(s)] \in Nat
      BY <1>1, <2>5
    <2>8. f[s] = QueueStep(q[Last(s)], f[s \ {Last(s)}])
      BY <1>2, <2>4
    <2> QED
      BY <2>3, <2>6, <2>7, <2>8, QueueStepKeeps
  <1>4. \A s \in SUBSET (1 .. k) : Cardinality(s) \in Nat
    BY <1>1, LastLess
  <1> QED
    BY <1>1, <1>3, <1>4

\* processQueue keeps the book the exchange's.
LEMMA ProcessQueueKeeps ==
    ASSUME NEW all, NEW r, Good(r, all)
    PROVE  Good(Books!processQueue(r), all)
  <1> DEFINE base == [r EXCEPT !.queue = <<>>]
             f == CHOOSE f : IsRun(f, r.queue, base)
  <1>1. r.queue \in Seq(Nat)
    BY DEF Good
  <1>2. Good(base, all)
    <2>1. /\ IsResult(base) /\ base.book = r.book /\ base.orderSeq = r.orderSeq
          /\ base.status = r.status /\ base.queue = <<>>
      BY DEF Good, IsResult, Field
    <2>2. <<>> \in Seq(Nat)
      OBVIOUS
    <2> HIDE DEF base
    <2> QED
      BY <2>1, <2>2 DEF Good, Follows
  <1>3. Books!processQueue(r) = f[DOMAIN r.queue]
    BY QueueIsRun
  <1> HIDE DEF base
  <1>4. IsRun(f, r.queue, base)
    <2>1. Len(r.queue) \in Nat /\ DOMAIN r.queue = 1 .. Len(r.queue)
      BY <1>1
    <2>2. \E g : IsRun(g, r.queue, base)
      BY <2>1, RunExists
    <2> QED
      BY <2>2
  <1> HIDE DEF f
  <1> QED
    BY <1>1, <1>2, <1>3, <1>4, RunKeeps

\* ByNonce keeps a queue a queue of numbers.
LEMMA ByNonceType ==
    ASSUME NEW q \in Seq(Nat), NEW u \in Nat PROVE Books!ByNonce(q, u) \in Seq(Nat)
  <1> DEFINE below == {i \in DOMAIN q : q[i] <= u}
             k == 1 + Books!Cardinality(below)
  <1>1. IsFiniteSet(1 .. Len(q)) /\ Cardinality(1 .. Len(q)) = Len(q) /\ DOMAIN q = 1 .. Len(q)
    <2>1. Len(q) \in Nat /\ Len(q) \in Int /\ 1 \in Int /\ DOMAIN q = 1 .. Len(q)
      OBVIOUS
    <2>2. /\ IsFiniteSet(1 .. Len(q))
          /\ Cardinality(1 .. Len(q)) = IF 1 > Len(q) THEN 0 ELSE Len(q) - 1 + 1
      BY <2>1, FS_Interval
    <2> QED
      BY <2>1, <2>2
  <1>2. below \in SUBSET (1 .. Len(q))
    BY <1>1
  <1>3. Books!Cardinality(below) = Cardinality(below)
    BY DEF Books!Cardinality, Cardinality
  <1> HIDE DEF below
  <1>4. IsFiniteSet(below) /\ Cardinality(below) <= Cardinality(1 .. Len(q))
    BY <1>1, <1>2, FS_Subset
  <1>5. Cardinality(below) \in Nat
    BY <1>4, FS_CardinalityType
  <1>6. k \in Int /\ k - 1 \in Int /\ k >= 1 /\ k - 1 <= Len(q) /\ Len(q) \in Int
    BY <1>1, <1>3, <1>4, <1>5
  <1> HIDE DEF k
  <1>7. SubSeq(q, 1, k - 1) \in Seq(Nat)
    <2>1. \A i \in 1 .. k - 1 : q[i] \in Nat
      BY <1>6
    <2> QED
      BY <1>6, <2>1, SubSeqProperties
  <1>8. SubSeq(q, k, Len(q)) \in Seq(Nat)
    <2>1. \A i \in k .. Len(q) : q[i] \in Nat
      BY <1>6
    <2> QED
      BY <1>6, <2>1, SubSeqProperties
  <1>9. Books!InsertAt(q, k, u) \in Seq(Nat)
    <2>1. <<u>> \in Seq(Nat)
      OBVIOUS
    <2>2. SubSeq(q, 1, k - 1) \o <<u>> \in Seq(Nat)
      BY <1>7, <2>1, ConcatProperties
    <2>3. (SubSeq(q, 1, k - 1) \o <<u>>) \o SubSeq(q, k, Len(q)) \in Seq(Nat)
      BY <1>8, <2>2, ConcatProperties
    <2> QED
      BY <2>3 DEF Books!InsertAt
  <1> QED
    BY <1>9 DEF Books!ByNonce, k, below

\* queueOrderbookUpdate leaves the book alone.
LEMMA QueuedIs ==
    ASSUME NEW s, IsResult(s), s.queue \in Seq(Nat), NEW u \in Nat,
           NEW r, r = Books!queueOrderbookUpdate(s, u)
    PROVE  /\ IsResult(r) /\ r.queue \in Seq(Nat) /\ r.book = s.book
           /\ r.orderSeq = s.orderSeq /\ r.status \in {s.status, "failed"}
  <1> DEFINE q == Books!ByNonce(s.queue, u)
             a == [s EXCEPT !.queue = <<>>]
             b == [s EXCEPT !.queue = q]
  <1>1. r = Books!setWsFail(a) \/ r = b
    BY DEF Books!queueOrderbookUpdate
  <1>2. q \in Seq(Nat) /\ <<>> \in Seq(Nat)
    BY ByNonceType
  <1> HIDE DEF q
  <1>3. /\ IsResult(a) /\ a.queue = <<>> /\ a.book = s.book /\ a.orderSeq = s.orderSeq
        /\ IsResult(b) /\ b.queue = q /\ b.book = s.book /\ b.orderSeq = s.orderSeq
        /\ b.status = s.status
    BY DEF IsResult, Field
  <1> HIDE DEF a, b
  <1>4. CASE r = Books!setWsFail(a)
    <2>1. /\ IsResult(r) /\ r.status = "failed" /\ r.book = a.book
          /\ r.orderSeq = a.orderSeq /\ r.queue = a.queue
      <3>1. IsResult(a)
        BY <1>3
      <3> QED
        BY <1>4, <3>1, FailIs
    <2> QED
      BY <1>2, <1>3, <2>1
  <1>5. CASE r = b
    BY <1>2, <1>3, <1>5
  <1> QED
    BY <1>1, <1>4, <1>5

\* The invariant: numbers and messages are what they are taken for, only Bittrex
\* forgets the number of its book, and only Bittrex listens before it has one.
Message == [k : {"book", "update"}, n : Nat \ {0}]
ConnOK(c) == /\ c = [x \in {"open", "sub", "reader", "inbox"} |-> c[x]]
             /\ c.inbox \in Seq(Message)
OldOK(o) == o = <<>> \/ o = <<<<>>>> \/ \E m \in Message : o = <<<<m>>>>
BookInv ==
    /\ n \in Nat \ {0} /\ orderSeq \in Nat /\ queue \in Seq(Nat)
    /\ venue \in {"bittrex", "poloniex"}
    /\ ConnOK(bookConn) /\ OldOK(old)
    /\ bookPC = "reset" => venue = "bittrex"
    /\ venue = "poloniex" /\ status = "listening" => orderSeq # 0
    /\ Books!BookFollowsExchange

LEMMA BookStart == ASSUME Books!Init PROVE BookInv
  <1>1. /\ venue \in {"bittrex", "poloniex"} /\ n = 1 /\ bookConn = Books!NoConn
        /\ old = <<>> /\ orderSeq = 0 /\ queue = <<>> /\ status = "starting"
        /\ bookPC = "idle"
    BY DEF Books!Init
  <1>2. ConnOK(bookConn)
    BY <1>1 DEF ConnOK, Books!NoConn
  <1> QED
    BY <1>1, <1>2 DEF BookInv, OldOK, Books!BookFollowsExchange

LEMMA BookRests == ASSUME BookInv, UNCHANGED bookVars PROVE BookInv'
  BY DEF BookInv, bookVars, Books!BookFollowsExchange, Books!Price

\* Connections.
LEMMA ConnSteps ==
    ASSUME NEW c, ConnOK(c), NEW m \in Message
    PROVE  /\ ConnOK(Books!Closed(c)) /\ ConnOK(Books!Post(c, m))
           /\ ConnOK([c EXCEPT !.sub = TRUE])
           /\ c.inbox # <<>> => ConnOK([c EXCEPT !.inbox = Tail(@)])
  <1>1. ConnOK(Books!Closed(c))
    BY DEF ConnOK, Books!Closed
  <1>2. ConnOK(Books!Post(c, m))
    <2>1. Append(c.inbox, m) \in Seq(Message)
      BY AppendOf DEF ConnOK
    <2> QED
      BY <2>1 DEF ConnOK, Books!Post
  <1>3. ConnOK([c EXCEPT !.sub = TRUE])
    BY DEF ConnOK
  <1>4. ASSUME c.inbox # <<>> PROVE ConnOK([c EXCEPT !.inbox = Tail(@)])
    <2>1. Tail(c.inbox) \in Seq(Message)
      BY <1>4, TailOf DEF ConnOK
    <2> QED
      BY <2>1 DEF ConnOK
  <1> QED
    BY <1>1, <1>2, <1>3, <1>4

\* A message taken out of the middle.
LEMMA RemoveIs ==
    ASSUME NEW c, ConnOK(c), NEW i \in DOMAIN c.inbox
    PROVE  ConnOK([c EXCEPT !.inbox = Books!RemoveAt(@, i)]) /\ c.inbox[i] \in Message
  <1> DEFINE s == c.inbox
  <1>1. s \in Seq(Message) /\ i \in 1 .. Len(s) /\ s[i] \in Message
    BY DEF ConnOK
  <1> HIDE DEF s
  <1>2. SubSeq(s, 1, i - 1) \in Seq(Message)
    <2>1. \A j \in 1 .. i - 1 : s[j] \in Message
      BY <1>1
    <2>2. i - 1 \in Int
      BY <1>1
    <2> QED
      BY <2>1, <2>2, SubSeqProperties
  <1>3. SubSeq(s, i + 1, Len(s)) \in Seq(Message)
    <2>1. \A j \in i + 1 .. Len(s) : s[j] \in Message
      BY <1>1
    <2>2. i + 1 \in Int /\ Len(s) \in Int
      BY <1>1
    <2> QED
      BY <2>1, <2>2, SubSeqProperties
  <1>4. Books!RemoveAt(s, i) \in Seq(Message)
    BY <1>2, <1>3, ConcatProperties DEF Books!RemoveAt
  <1> QED
    BY <1>1, <1>4 DEF ConnOK, s

\* What a handler may return.
Sound(r) ==
    /\ IsResult(r) /\ r.orderSeq \in Nat /\ r.queue \in Seq(Nat)
    /\ venue = "poloniex" /\ r.status = "listening" => r.orderSeq # 0
    /\ r.status = "listening" /\ r.orderSeq # 0 =>
         \A p \in Books!Price :
           venue = "bittrex" \/ ExchangeBooks[r.orderSeq][p] # 0 =>
             r.book[p] = ExchangeBooks[r.orderSeq][p]

LEMMA SameIs ==
    /\ IsResult(Books!Same) /\ Books!Same.book = book /\ Books!Same.orderSeq = orderSeq
    /\ Books!Same.queue = queue /\ Books!Same.status = status
  BY DEF IsResult, Field, Books!Same

\* Bittrex's updates.
LEMMA ProcessNextUpdateIs ==
    ASSUME BookInv, venue = "bittrex", NEW u \in Nat
    PROVE  Sound(Books!processNextUpdate(u))
  <1> DEFINE q == Books!queueOrderbookUpdate(Books!Same, u)
  <1>1. /\ IsResult(q) /\ q.queue \in Seq(Nat) /\ q.book = book
        /\ q.orderSeq = orderSeq /\ q.status \in {status, "failed"}
    <2>1. Books!Same.queue \in Seq(Nat)
      BY SameIs DEF BookInv
    <2> QED
      BY <2>1, SameIs, QueuedIs
  <1> HIDE DEF q
  <1>2. CASE orderSeq = 0
    <2> DEFINE r == [q EXCEPT !.ask = ~obRequested]
    <2>1. Books!processNextUpdate(u) = r
      BY <1>2 DEF Books!processNextUpdate, q
    <2>2. IsResult(r) /\ r.queue = q.queue /\ r.orderSeq = 0
      BY <1>1, <1>2 DEF IsResult, Field
    <2> HIDE DEF r
    <2> QED
      BY <1>1, <2>1, <2>2 DEF Sound
  <1>3. CASE orderSeq # 0
    <2>1. Good(Books!Same, 0)
      BY <1>3, SameIs DEF BookInv, Good, Follows, Books!BookFollowsExchange
    <2>2. Good(q, 0)
      BY <1>1, <1>3, <2>1, SameIs DEF BookInv, Good, Follows
    <2>3. /\ Good(Books!processQueue(q), 0)
          /\ Good(Books!processBittrexOrderbookPoint(Books!Same, orderSeq + 1), 0)
      BY <2>1, <2>2, ProcessQueueKeeps, PointKeeps, SameIs
    <2>4. Books!processNextUpdate(u) = Books!processOrderbookUpdate(Books!Same, u)
      BY <1>3 DEF Books!processNextUpdate
    <2>5. Books!processNextUpdate(u) \in
            {Books!Same, Books!processBittrexOrderbookPoint(Books!Same, orderSeq + 1),
             Books!processQueue(q), q}
      BY <2>4, SameIs DEF Books!processOrderbookUpdate, q
    <2>6. Good(Books!processNextUpdate(u), 0)
      BY <2>1, <2>2, <2>3, <2>5
    <2> QED
      BY <2>6 DEF Good, Follows, Sound
  <1> QED
    BY <1>2, <1>3

\* Bittrex's full book.
LEMMA ProcessFullOrderbookIs ==
    ASSUME BookInv, venue = "bittrex", NEW b \in Nat \ {0}
    PROVE  Sound(Books!processFullOrderbook(b))
  <1> DEFINE a == [Books!Same EXCEPT !.book = ExchangeBooks[b], !.orderSeq = b]
             q == Books!processQueue(a)
             r == [q EXCEPT !.queue = <<>>, !.status = "listening"]
  <1>1. Good(a, 1)
    <2>1. /\ IsResult(a) /\ a.book = ExchangeBooks[b] /\ a.orderSeq = b
          /\ a.queue = queue
      BY SameIs DEF IsResult, Field
    <2> HIDE DEF a
    <2> QED
      BY <2>1 DEF BookInv, Good, Follows
  <1> HIDE DEF a
  <1>2. Good(q, 1)
    BY <1>1, ProcessQueueKeeps
  <1> HIDE DEF q
  <1>3. IsResult(r) /\ r.book = q.book /\ r.orderSeq = q.orderSeq /\ r.queue = <<>>
    BY <1>2 DEF Good, IsResult, Field
  <1>4. Books!processFullOrderbook(b) = r
    BY DEF Books!processFullOrderbook, q, a
  <1> HIDE DEF r
  <1>5. <<>> \in Seq(Nat)
    OBVIOUS
  <1> QED
    BY <1>2, <1>3, <1>4, <1>5 DEF Good, Follows, Sound

\* Poloniex's full book, which adds to the old maps.
LEMMA ProcessWsOrderbookIs ==
    ASSUME BookInv, venue = "poloniex", NEW b \in Nat \ {0}
    PROVE  Sound(Books!processWsOrderbook(b))
  <1> DEFINE d == Books!parseOrderMap(b)
             r == [Books!Same EXCEPT !.orderSeq = b, !.book = d, !.status = "listening"]
  <1>1. \A p \in Books!Price : ExchangeBooks[b][p] # 0 => d[p] = ExchangeBooks[b][p]
    BY DEF Books!parseOrderMap
  <1> HIDE DEF d
  <1>2. IsResult(r) /\ r.book = d /\ r.orderSeq = b /\ r.queue = queue
    BY SameIs DEF IsResult, Field
  <1>3. Books!processWsOrderbook(b) = r
    BY DEF Books!processWsOrderbook, d
  <1> HIDE DEF r
  <1> QED
    BY <1>1, <1>2, <1>3 DEF Sound, BookInv

\* Poloniex's updates.
LEMMA AccumulateOrdersIs ==
    ASSUME BookInv, venue = "poloniex", NEW u \in Nat
    PROVE  Sound(Books!accumulateOrders(u))
  <1>1. orderSeq \in Nat /\ queue \in Seq(Nat)
    BY DEF BookInv
  <1>2. CASE u = orderSeq + 1
    <2> DEFINE d == Books!mergePoloniexDepthUpdates(u)
               r == [Books!Same EXCEPT !.orderSeq = u, !.book = d]
    <2>1. ASSUME status = "listening"
          PROVE  \A p \in Books!Price : ExchangeBooks[u][p] # 0 => d[p] = ExchangeBooks[u][p]
      <3>1. \A p \in Books!Price :
               ExchangeBooks[orderSeq][p] # 0 => book[p] = ExchangeBooks[orderSeq][p]
        BY <2>1 DEF BookInv, Books!BookFollowsExchange
      <3>2. u - 1 = orderSeq
        BY <1>1, <1>2
      <3> QED
        BY <3>1, <3>2 DEF Books!mergePoloniexDepthUpdates, Books!Changed
    <2> HIDE DEF d
    <2>2. /\ IsResult(r) /\ r.book = d /\ r.orderSeq = u /\ r.queue = queue
          /\ r.status = status
      BY SameIs DEF IsResult, Field
    <2>3. Books!accumulateOrders(u) = r
      BY <1>2 DEF Books!accumulateOrders, d
    <2> HIDE DEF r
    <2>4. u # 0
      BY <1>1, <1>2
    <2> QED
      BY <1>1, <2>1, <2>2, <2>3, <2>4 DEF Sound
  <1>3. CASE u # orderSeq + 1
    <2> DEFINE a == [Books!Same EXCEPT !.orderSeq = orderSeq + 1]
               r == Books!setWsFail(a)
    <2>1. IsResult(a) /\ a.orderSeq = orderSeq + 1 /\ a.queue = queue
      BY SameIs DEF IsResult, Field
    <2> HIDE DEF a
    <2>2. /\ IsResult(r) /\ r.orderSeq = orderSeq + 1 /\ r.queue = queue
          /\ r.status = "failed"
      BY <2>1, FailIs
    <2>3. Books!accumulateOrders(u) = r
      BY <1>3 DEF Books!accumulateOrders, a
    <2> HIDE DEF r
    <2> QED
      BY <1>1, <2>2, <2>3 DEF Sound
  <1> QED
    BY <1>2, <1>3

\* A reader handles a message.
LEMMA HandleKeeps ==
    ASSUME BookInv, NEW m \in Message, NEW c, ConnOK(c), NEW o, OldOK(o),
           Books!Handle(m, c, o)
    PROVE  BookInv'
  <1> DEFINE r == IF venue = "bittrex" THEN Books!msgHandler(m) ELSE Books!processWsMessage(m)
  <1>1. m.n \in Nat \ {0} /\ m.n \in Nat /\ m.k \in {"book", "update"}
    BY DEF Message
  <1>2. Sound(r)
    <2>1. CASE venue = "bittrex"
      BY <1>1, <2>1, ProcessFullOrderbookIs, ProcessNextUpdateIs DEF Books!msgHandler
    <2>2. CASE venue = "poloniex"
      BY <1>1, <2>2, ProcessWsOrderbookIs, AccumulateOrdersIs DEF Books!processWsMessage
    <2> QED
      BY <2>1, <2>2 DEF BookInv
  <1>3. /\ book' = r.book /\ orderSeq' = r.orderSeq /\ queue' = r.queue
        /\ status' = r.status /\ old' = o /\ UNCHANGED <<venue, n, bookPC>>
        /\ bookConn' \in {Books!Closed(c), Books!Post(c, [k |-> "book", n |-> n]), c}
    BY DEF Books!Handle
  <1> HIDE DEF r
  <1>4. [k |-> "book", n |-> n] \in Message
    BY DEF Message, BookInv
  <1>5. ConnOK(bookConn')
    BY <1>3, <1>4, ConnSteps
  <1>6. Books!BookFollowsExchange'
    BY <1>2, <1>3 DEF Sound, Books!BookFollowsExchange, Books!Price
  <1> QED
    BY <1>2, <1>3, <1>5, <1>6 DEF Sound, BookInv, ConnOK

LEMMA ReadKeeps ==
    ASSUME BookInv, (\E i \in DOMAIN bookConn.inbox : Books!Read(i)) \/ Books!ReadOld
    PROVE  BookInv'
  <1>1. ASSUME NEW i \in DOMAIN bookConn.inbox, Books!Read(i) PROVE BookInv'
    <2>1. ConnOK(bookConn) /\ OldOK(old)
      BY DEF BookInv
    <2>2. /\ ConnOK([bookConn EXCEPT !.inbox = Books!RemoveAt(@, i)])
          /\ bookConn.inbox[i] \in Message
      BY <2>1, RemoveIs
    <2>3. Books!Handle(bookConn.inbox[i],
                       [bookConn EXCEPT !.inbox = Books!RemoveAt(@, i)], old)
      BY <1>1 DEF Books!Read
    <2> QED
      BY <2>1, <2>2, <2>3, HandleKeeps
  <1>2. ASSUME Books!ReadOld PROVE BookInv'
    <2>1. ConnOK(bookConn) /\ OldOK(old) /\ OldOK(<<<<>>>>)
      BY DEF BookInv, OldOK
    <2>2. /\ old # <<>> /\ old[1] # <<>>
          /\ Books!Handle(old[1][1], bookConn, <<<<>>>>)
      BY <1>2 DEF Books!ReadOld
    <2>3. old[1][1] \in Message
      BY <2>1, <2>2 DEF OldOK
    <2> QED
      BY <2>1, <2>2, <2>3, HandleKeeps
  <1> QED
    BY <1>1, <1>2

\* The exchange, the network and the ends of the readers: the book stays.
LEMMA BookStays ==
    ASSUME BookInv, n' \in Nat \ {0}, ConnOK(bookConn'), OldOK(old'),
           UNCHANGED <<venue, book, orderSeq, queue>>, status' \in {status, "failed"},
           bookPC' = "reset" => venue = "bittrex"
    PROVE  BookInv'
  <1>1. Books!BookFollowsExchange'
    BY DEF BookInv, Books!BookFollowsExchange, Books!Price
  <1> QED
    BY <1>1 DEF BookInv, ConnOK, OldOK

LEMMA NetworkKeeps ==
    ASSUME BookInv,
           \/ Books!ServerMoves \/ Books!EmptyUpdate \/ Books!LoseMessage
           \/ Books!LoseConnection \/ Books!ReaderEnds \/ Books!OldReaderEnds
    PROVE  BookInv'
  <1>1. /\ n \in Nat \ {0} /\ n + 1 \in Nat \ {0} /\ ConnOK(bookConn) /\ OldOK(old)
        /\ bookPC = "reset" => venue = "bittrex"
    BY DEF BookInv
  <1>2. [k |-> "update", n |-> n] \in Message /\ [k |-> "update", n |-> n + 1] \in Message
    BY <1>1 DEF Message
  <1>3. ConnOK(Books!NoConn) /\ OldOK(<<>>)
    BY DEF ConnOK, OldOK, Books!NoConn
  <1>4. CASE Books!ServerMoves \/ Books!EmptyUpdate
    <2>1. /\ n' \in {n, n + 1} /\ UNCHANGED <<venue, book, orderSeq, queue, status, old, bookPC>>
          /\ \/ bookConn' = Books!Post(bookConn, [k |-> "update", n |-> n])
             \/ bookConn' = Books!Post(bookConn, [k |-> "update", n |-> n + 1])
      BY <1>4 DEF Books!ServerMoves, Books!EmptyUpdate, Books!client
    <2>2. ConnOK(bookConn')
      BY <1>1, <1>2, <2>1, ConnSteps
    <2>3. OldOK(old') /\ n' \in Nat \ {0}
      BY <1>1, <2>1
    <2> QED
      BY <1>1, <2>1, <2>2, <2>3, BookStays
  <1>5. CASE Books!LoseMessage \/ Books!LoseConnection
    <2>1. /\ UNCHANGED <<n, venue, book, orderSeq, queue, status, old, bookPC>>
          /\ \/ bookConn.inbox # <<>> /\ bookConn' = [bookConn EXCEPT !.inbox = Tail(@)]
             \/ bookConn' = Books!Closed(bookConn)
      BY <1>5 DEF Books!LoseMessage, Books!LoseConnection, Books!client, Books!Closed
    <2>2. ConnOK(bookConn')
      BY <1>1, <1>2, <2>1, ConnSteps
    <2>3. OldOK(old') /\ n' \in Nat \ {0}
      BY <1>1, <2>1
    <2> QED
      BY <1>1, <2>1, <2>2, <2>3, BookStays
  <1>6. CASE Books!ReaderEnds \/ Books!OldReaderEnds
    <2>1. /\ UNCHANGED <<n, venue, book, orderSeq, queue, bookPC>> /\ old' \in {old, <<>>}
          /\ status' \in {status, "failed"}
          /\ bookConn' \in {Books!NoConn, Books!Closed(bookConn), bookConn}
      BY <1>6 DEF Books!ReaderEnds, Books!OldReaderEnds, Books!client
    <2>2. ConnOK(bookConn')
      BY <1>1, <1>2, <1>3, <2>1, ConnSteps
    <2>3. OldOK(old') /\ n' \in Nat \ {0}
      BY <1>1, <1>3, <2>1
    <2> QED
      BY <1>1, <2>1, <2>2, <2>3, BookStays
  <1> QED
    BY <1>4, <1>5, <1>6

LEMMA RefreshKeeps ==
    ASSUME BookInv,
           \/ \E gone \in BOOLEAN : Books!RefreshListening(gone)
           \/ Books!Dial \/ Books!DialFails \/ Books!Reset \/ Books!Subscribe
    PROVE  BookInv'
  <1>1. /\ n \in Nat \ {0} /\ ConnOK(bookConn) /\ OldOK(old)
        /\ bookPC = "reset" => venue = "bittrex"
        /\ venue \in {"bittrex", "poloniex"}
    BY DEF BookInv
  <1>2. [k |-> "book", n |-> n] \in Message
    BY <1>1 DEF Message
  <1>3. ASSUME NEW gone, Books!RefreshListening(gone) PROVE BookInv'
    <2>1. /\ UNCHANGED <<n, venue, book, orderSeq, queue, old, bookPC>>
          /\ status' \in {status, "failed"}
          /\ bookConn' \in {Books!Closed(bookConn), bookConn}
      BY <1>3 DEF Books!RefreshListening, Books!client
    <2>2. ConnOK(bookConn')
      BY <1>1, <1>2, <2>1, ConnSteps
    <2>3. OldOK(old') /\ n' \in Nat \ {0}
      BY <1>1, <2>1
    <2> QED
      BY <1>1, <2>1, <2>2, <2>3, BookStays
  <1>4. CASE Books!Dial
    <2>1. /\ UNCHANGED <<n, venue, book, orderSeq, queue, status>>
          /\ bookConn' = [open |-> TRUE, sub |-> FALSE, reader |-> TRUE, inbox |-> <<>>]
          /\ bookPC' = "reset" => venue = "bittrex"
          /\ old' = IF bookConn.reader
                    THEN <<IF bookConn.inbox = <<>> THEN <<>> ELSE <<Head(bookConn.inbox)>>>>
                    ELSE <<>>
      BY <1>4 DEF Books!Dial, Books!client
    <2>2. ConnOK(bookConn')
      BY <2>1 DEF ConnOK
    <2>3. bookConn.inbox # <<>> => Head(bookConn.inbox) \in Message
      BY <1>1, TailOf DEF ConnOK
    <2>4. OldOK(old')
      BY <2>1, <2>3 DEF OldOK
    <2> QED
      BY <1>1, <2>1, <2>2, <2>4, BookStays
  <1>5. CASE Books!DialFails
    <2>1. CASE venue = "bittrex"
      <3>1. /\ queue' = <<>> /\ orderSeq' = 0 /\ status' = "failed"
            /\ bookConn' = Books!Closed(bookConn) /\ UNCHANGED <<venue, n, old, bookPC>>
        BY <1>5, <2>1 DEF Books!DialFails
      <3>2. ConnOK(bookConn')
        BY <1>1, <1>2, <3>1, ConnSteps
      <3> QED
        BY <1>1, <3>1, <3>2 DEF BookInv, Books!BookFollowsExchange, ConnOK
    <2>2. CASE venue # "bittrex"
      <3>1. UNCHANGED <<venue, n, old, bookPC, book, queue, orderSeq, status, bookConn>>
        BY <1>5, <2>2 DEF Books!DialFails
      <3>2. OldOK(old') /\ ConnOK(bookConn')
        BY <1>1, <3>1
      <3> QED
        BY <1>1, <3>1, <3>2, BookStays
    <2> QED
      BY <2>1, <2>2
  <1>6. CASE Books!Reset
    <2>1. /\ bookPC = "reset" /\ bookPC' = "subscribe" /\ queue' = <<>> /\ orderSeq' = 0
          /\ UNCHANGED <<venue, n, old, bookConn>>
      BY <1>6 DEF Books!Reset
    <2>2. venue' = "bittrex"
      BY <1>1, <2>1
    <2> QED
      BY <1>1, <2>1, <2>2 DEF BookInv, Books!BookFollowsExchange
  <1>7. CASE Books!Subscribe
    <2> DEFINE c == [bookConn EXCEPT !.sub = TRUE]
    <2>1. /\ UNCHANGED <<venue, n, old, book, orderSeq, queue, status>>
          /\ bookPC' = "idle"
          /\ bookConn' \in {c, Books!Post(c, [k |-> "book", n |-> n])}
      BY <1>7 DEF Books!Subscribe
    <2>2. ConnOK(c)
      BY <1>1, <1>2, ConnSteps
    <2> HIDE DEF c
    <2>3. ConnOK(bookConn')
      BY <1>2, <2>1, <2>2, ConnSteps
    <2>4. OldOK(old') /\ n' \in Nat \ {0}
      BY <1>1, <2>1
    <2> QED
      BY <2>1, <2>3, <2>4, BookStays
  <1> QED
    BY <1>3, <1>4, <1>5, <1>6, <1>7

LEMMA BookKeeps == ASSUME BookInv, Books!Next PROVE BookInv'
  BY NetworkKeeps, ReadKeeps, RefreshKeeps DEF Books!Next

-------------------------------------------------------------------------------
(* The feeds together: one of them moves, the others stay.                  *)

FeedsInv == BookInv /\ HubInv /\ PageInv /\ CallInv /\ LoadInv /\ StatusInv

LEMMA FeedsStart == ASSUME MCInit PROVE FeedsInv
  BY BookStart, HubStart, PageStart, CallStart, LoadStart, StatusStart DEF MCInit, FeedsInv

\* The parts that stay.
LEMMA FeedsRest ==
    ASSUME FeedsInv
    PROVE  /\ UNCHANGED bookVars => BookInv'
           /\ UNCHANGED hubVars => HubInv'
           /\ UNCHANGED pageVars => PageInv'
           /\ UNCHANGED clientVars => CallInv'
           /\ UNCHANGED syncVars => LoadInv'
           /\ UNCHANGED statusVars => StatusInv'
  <1>1. UNCHANGED syncVars => LoadInv'
    <2>1. SUFFICES ASSUME UNCHANGED syncVars PROVE LoadInv'
      OBVIOUS
    <2>2. tip' \in Nat
      BY <2>1 DEF syncVars, FeedsInv, LoadInv, LoadAlways
    <2> QED
      BY <2>1, <2>2, LoadRests DEF syncVars, FeedsInv
  <1> QED
    BY <1>1, BookRests, HubRests, PageRests, CallRests, StatusRests
    DEF FeedsInv, clientVars, statusVars

LEMMA FeedsKeep == ASSUME FeedsInv, [MCNext]_feedVars PROVE FeedsInv'
  <1>1. CASE BooksRuns /\ Books!Next
    BY <1>1, FeedsRest, BookKeeps DEF FeedsInv, BooksRuns
  <1>2. CASE HubRuns /\ Hub!Next
    BY <1>2, FeedsRest, HubKeeps DEF FeedsInv, HubRuns
  <1>3. CASE PagesRuns /\ Pages!Next
    BY <1>3, FeedsRest, PageKeeps DEF FeedsInv, PagesRuns
  <1>4. CASE ClientRuns /\ Calls!Next
    BY <1>4, FeedsRest, CallKeeps DEF FeedsInv, ClientRuns
  <1>5. CASE LoadRuns /\ Load!Next
    BY <1>5, FeedsRest, LoadKeeps DEF FeedsInv, LoadRuns
  <1>6. CASE StatusRuns /\ Status!Next
    BY <1>6, FeedsRest, StatusKeeps DEF FeedsInv, StatusRuns
  <1>7. CASE UNCHANGED feedVars
    BY <1>7, FeedsRest DEF FeedsInv, feedVars
  <1> QED
    BY <1>1, <1>2, <1>3, <1>4, <1>5, <1>6, <1>7 DEF MCNext

\* Every feed keeps its invariant, whichever of them runs.
THEOREM FeedsInvariant == MCSpec => []FeedsInv
  <1>1. FeedsInv /\ [MCNext]_feedVars => FeedsInv'
    BY FeedsKeep
  <1> QED
    BY <1>1, FeedsStart, PTL DEF MCSpec

\* For every sequence of books an exchange can go through, every size of the queue
\* and every number of lost messages, lost connections and failed dials: while wsSync
\* counts as listening, the book that wsDepths shows has every order of the
\* exchange's book of the number the client holds.
THEOREM BookAlwaysFollows == MCSpec => []BookFollowsExchange
  <1>1. FeedsInv => BookFollowsExchange
    BY DEF FeedsInv, BookInv, BookFollowsExchange
  <1> QED
    BY <1>1, FeedsInvariant, PTL

\* For every number of clients, pages and callers and every capacity of a channel:
\* sendLoop sends each transaction of newTxs once and in the order the PubSubHub took
\* them, nobody sends on the spoke that unregisterClient has closed or closes it
\* twice, the explorer's hub closes no channel twice while it runs, and a call of the
\* pubsub client returns the answer that has its own request number.
THEOREM HubsAlwaysSafe == MCSpec => []HubsAreSafe
  <1>1. FeedsInv => HubsAreSafe
    BY CallInvIsSafe
    DEF FeedsInv, HubInv, BuffersOK, SpokesOK, PageInv, PagesOK, HubsAreSafe
  <1> QED
    BY <1>1, FeedsInvariant, PTL

\* For every height of the chain, size of a chunk and number of crashes, failed
\* queries and blocks the node adds: when SyncChainDB reports "All ready" every index
\* of IndexAll and IndexAddressTable exists, no duplicate is left, and the spending
\* information of every block is set; and for every number of bars and messages the
\* status page lists each bar once and never goes back to an older value.
THEOREM SyncAlwaysSound == MCSpec => []SyncIsSound
  <1>1. FeedsInv => SyncIsSound
    BY LoadInvIsSafe DEF FeedsInv, StatusInv, BarsOK, SyncIsSound
  <1> QED
    BY <1>1, FeedsInvariant, PTL

===============================================================================
