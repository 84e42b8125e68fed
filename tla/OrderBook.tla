------------------------------ MODULE OrderBook ------------------------------
(***************************************************************************)
(* The order books that Bittrex and Poloniex keep over a websocket         *)
(* (exchanges/exchanges.go, exchanges/websocket.go): the exchange numbers  *)
(* its updates, Bittrex queues the ones that come too early and asks for   *)
(* the full book once the first has come, Poloniex sends the full book     *)
(* first and is given up at the first gap.  A connection is replaced by    *)
(* the refresh that finds it failed, while the reader of the one before    *)
(* may still be at work.  One side of the book stands for both.            *)
(***************************************************************************)
EXTENDS Naturals, Sequences, SequencesExt

CONSTANTS Books,               \* the book of the exchange after each update
          maxBittrexQueueSize,
          MaxFaults            \* lost messages, lost connections, failed dials

VARIABLES venue,       \* which of the two exchanges this is
          n,           \* the exchange's last update
          conn,        \* the connection: open, subscribed, unread messages
          old,         \* what the reader of the connection before has left
          book, orderSeq, queue, obRequested,
          status,      \* wsSync: "starting", "listening" or "failed"
          pc,          \* where the refresh that connects is
          faults

vars == <<venue, n, conn, old, book, orderSeq, queue, obRequested, status,
          pc, faults>>
client == <<book, orderSeq, queue, obRequested>>

OrderBookConstants == Len(Books) > 1 /\ maxBittrexQueueSize > 0

Price == DOMAIN Books[1]
EmptyBook == [p \in Price |-> 0]
NoConn == [open |-> FALSE, sub |-> FALSE, reader |-> FALSE, inbox |-> <<>>]

Init ==
  /\ venue \in {"bittrex", "poloniex"}
  /\ n = 1 /\ conn = NoConn /\ old = <<>>
  /\ book = EmptyBook /\ orderSeq = 0 /\ queue = <<>> /\ obRequested = FALSE
  /\ status = "starting" /\ pc = "idle" /\ faults = 0

-----------------------------------------------------------------------------
(* The exchange and the network (external).                                *)

Post(c, m) == IF c.open /\ c.sub THEN [c EXCEPT !.inbox = Append(@, m)] ELSE c

ServerMoves ==
  /\ n < Len(Books)
  /\ n' = n + 1
  /\ conn' = Post(conn, [k |-> "update", n |-> n + 1])
  /\ UNCHANGED <<venue, old, client, status, pc, faults>>

\* connectWs counts on it: Bittrex sends empty updates now and then.
EmptyUpdate ==
  /\ venue = "bittrex"
  /\ conn.open /\ conn.sub /\ conn.inbox = <<>>
  /\ conn' = Post(conn, [k |-> "update", n |-> n])
  /\ UNCHANGED <<venue, n, old, client, status, pc, faults>>

LoseMessage ==
  /\ faults < MaxFaults /\ conn.inbox # <<>>
  /\ conn' = [conn EXCEPT !.inbox = Tail(@)]
  /\ faults' = faults + 1
  /\ UNCHANGED <<venue, n, old, client, status, pc>>

LoseConnection ==
  /\ faults < MaxFaults /\ conn.open
  /\ conn' = [conn EXCEPT !.open = FALSE]
  /\ faults' = faults + 1
  /\ UNCHANGED <<venue, n, old, client, status, pc>>

-----------------------------------------------------------------------------
(* The client.                                                             *)

\* setWsFail closes the connection of the moment, whoever calls it.
Closed(c) == [c EXCEPT !.open = FALSE]

\* What handling a message does to the client: the book and its number, the
\* queue, whether the full book is asked for, and the state of the feed.
Same == [book |-> book, orderSeq |-> orderSeq, queue |-> queue,
         ask |-> FALSE, status |-> status, fail |-> FALSE]
setWsFail(r) == [r EXCEPT !.status = "failed", !.fail = TRUE]

Changed(u) == {p \in Price : Books[u][p] # Books[u - 1][p]}

\* processBittrexOrderbookPoint for every point of update u: one that removes
\* an order the book lacks fails the feed; the others are still applied.
processBittrexOrderbookPoint(r, u) ==
  LET a == [r EXCEPT !.orderSeq = u,
                     !.book = [p \in Price |-> IF p \in Changed(u)
                                               THEN Books[u][p] ELSE r.book[p]]]
  IN IF \E p \in Changed(u) : Books[u][p] = 0 /\ r.book[p] = 0
     THEN setWsFail(a) ELSE a

\* The queue with one more update, sorted: it was in order before.
ByNonce(q, u) == InsertAt(q, 1 + Cardinality({i \in DOMAIN q : q[i] <= u}), u)

\* queueOrderbookUpdate: too long a queue fails the feed and is dropped.
queueOrderbookUpdate_forgets(r, u) ==
  LET q == ByNonce(r.queue, u) IN
  IF Len(q) > maxBittrexQueueSize THEN [r EXCEPT !.queue = <<>>]
  ELSE [r EXCEPT !.queue = q]
queueOrderbookUpdate(r, u) ==
  LET q == ByNonce(r.queue, u) IN
  IF Len(q) > maxBittrexQueueSize
  THEN setWsFail([r EXCEPT !.queue = <<>>])
  ELSE [r EXCEPT !.queue = q]

\* processQueue: the queued updates in order, up to the first gap; what is
\* beyond is queued again.
processQueue_gaps(r) ==
  FoldLeft(LAMBDA s, u : IF u <= s.orderSeq THEN s
                         ELSE processBittrexOrderbookPoint(s, u),
           [r EXCEPT !.queue = <<>>], r.queue)
processQueue(r) ==
  LET step(u, s) ==
        CASE u <= s.orderSeq -> s
          [] u = s.orderSeq + 1 -> processBittrexOrderbookPoint(s, u)
          [] OTHER -> [s EXCEPT !.queue = Append(@, u)]
  IN FoldLeft(LAMBDA s, u : step(u, s), [r EXCEPT !.queue = <<>>], r.queue)

\* processOrderbookUpdate: an update is applied only if it is the next; a
\* queue it makes whole waits for the update after it.
processOrderbookUpdate(r, u) ==
  IF u <= r.orderSeq THEN r
  ELSE IF u = r.orderSeq + 1 THEN processBittrexOrderbookPoint(r, u)
  ELSE LET q == queueOrderbookUpdate(r, u) IN
       IF q.queue = <<>> \/ Head(q.queue) <= r.orderSeq + 1
       THEN processQueue(q) ELSE q

\* processNextUpdate: until the full book has come updates are queued.
processNextUpdate(u) ==
  IF orderSeq = 0
  THEN [queueOrderbookUpdate(Same, u) EXCEPT !.ask = ~obRequested]
  ELSE processOrderbookUpdate(Same, u)

\* processFullOrderbook; what the queue still holds after it is dropped.
processFullOrderbook(b) ==
  LET r == processQueue([Same EXCEPT !.book = Books[b], !.orderSeq = b])
  IN [r EXCEPT !.queue = <<>>, !.status = "listening"]

msgHandler(m) ==
  IF m.k = "book" THEN processFullOrderbook(m.n) ELSE processNextUpdate(m.n)

\* parseOrderMap adds to the maps it is given: it removes nothing.
parseOrderMap(b) == [p \in Price |-> IF Books[b][p] # 0 THEN Books[b][p] ELSE book[p]]

processWsOrderbook(b) ==
  [Same EXCEPT !.orderSeq = b, !.book = parseOrderMap(b), !.status = "listening"]

\* mergePoloniexDepthUpdates: volume 0 deletes, found or not.
mergePoloniexDepthUpdates(u) ==
  [p \in Price |-> IF p \in Changed(u) THEN Books[u][p] ELSE book[p]]

\* accumulateOrders counts even the update it refuses.
accumulateOrders(u) ==
  IF u = orderSeq + 1
  THEN [Same EXCEPT !.orderSeq = u, !.book = mergePoloniexDepthUpdates(u)]
  ELSE setWsFail([Same EXCEPT !.orderSeq = orderSeq + 1])

processWsMessage(m) ==
  IF m.k = "book" THEN processWsOrderbook(m.n) ELSE accumulateOrders(m.n)

\* The step of a reader that has read m, leaving the messages of c and o.
Handle(m, c, o) ==
  LET r == IF venue = "bittrex" THEN msgHandler(m) ELSE processWsMessage(m)
  IN /\ book' = r.book /\ orderSeq' = r.orderSeq /\ queue' = r.queue
     /\ status' = r.status
     /\ obRequested' = (obRequested \/ r.ask)
     /\ conn' = IF r.fail THEN Closed(c)
                ELSE IF r.ask THEN Post(c, [k |-> "book", n |-> n]) ELSE c
     /\ old' = o
     /\ UNCHANGED <<venue, n, pc, faults>>

\* The reader of the connection; Bittrex copes with any order.
Read(i) ==
  /\ conn.reader /\ (venue = "poloniex" => i = 1)
  /\ Handle(conn.inbox[i], [conn EXCEPT !.inbox = RemoveAt(@, i)], old)

\* A reader of an older connection finishes with the message it had read,
\* then reports its error like any other: setWsFail closes the new one.
ReadOld ==
  /\ old # <<>> /\ old[1] # <<>>
  /\ Handle(old[1][1], conn, <<<<>>>>)

\* The end of a reader whose connection is closed.  A Poloniex reader always
\* reports the error; the SignalR client (external) may.
ReaderEnds ==
  /\ conn.reader /\ ~conn.open
  /\ conn' = NoConn
  /\ status' \in {"failed"} \cup (IF venue = "bittrex" THEN {status} ELSE {})
  /\ UNCHANGED <<venue, n, old, client, pc, faults>>

OldReaderEnds ==
  /\ old # <<>>
  /\ old' = <<>>
  /\ \/ /\ status' = "failed" /\ conn' = Closed(conn)
     \/ /\ venue = "bittrex" /\ UNCHANGED <<status, conn>>
  /\ UNCHANGED <<venue, n, client, pc, faults>>

-----------------------------------------------------------------------------
(* Refresh and wsDepthStatus.                                              *)

\* A refresh comes minutes after the one before: one that finds messages on
\* their way, the reader of a closed connection still at work, or Bittrex's
\* first update still to come, counts as a fault.
InTime ==
  /\ conn.inbox = <<>> /\ (conn.reader => conn.open)
  /\ venue = "bittrex" /\ conn.open /\ conn.sub => status = "listening"
Refreshes ==
  /\ pc = "idle" /\ old = <<>>
  /\ InTime \/ faults < MaxFaults
  /\ faults' = IF InTime THEN faults ELSE faults + 1

\* Nothing can be heard of for depthDataExpiration: not while Bittrex sends
\* its empty updates (wsUpdated), but on any Poloniex connection, whose
\* heartbeats do not count.
Silent == conn.inbox = <<>> /\ ~(venue = "bittrex" /\ conn.open /\ conn.sub)

\* The websocket is listening: its depth is used, and nothing heard of for
\* depthDataExpiration is a lost connection.
RefreshListening(lost) ==
  /\ Refreshes /\ status = "listening"
  /\ IF lost /\ Silent
     THEN status' = "failed" /\ conn' = Closed(conn)
     ELSE UNCHANGED <<status, conn>>
  /\ UNCHANGED <<venue, n, old, client, pc>>

\* wsDepthStatus when it is not: connect, unless there were so many errors
\* that the refresh has to wait.  connectWebsocket and connectSignalr close
\* the connection they replace; its reader notices later.
Dial ==
  /\ Refreshes /\ status # "listening"
  /\ old' = IF conn.reader
            THEN <<IF conn.inbox = <<>> THEN <<>> ELSE <<Head(conn.inbox)>>>>
            ELSE <<>>
  /\ conn' = [open |-> TRUE, sub |-> FALSE, reader |-> TRUE, inbox |-> <<>>]
  /\ pc' = IF venue = "bittrex" THEN "reset" ELSE "subscribe"
  /\ UNCHANGED <<venue, n, client, status>>

\* The dial fails: only Bittrex's connectWs calls setWsFail.
DialFails ==
  /\ Refreshes /\ status # "listening" /\ faults' < MaxFaults
  /\ IF venue = "bittrex"
     THEN /\ queue' = <<>> /\ orderSeq' = 0
          /\ status' = "failed" /\ conn' = Closed(conn)
     ELSE UNCHANGED <<queue, orderSeq, status, conn>>
  /\ UNCHANGED <<venue, n, old, book, obRequested, pc>>

\* connectWs of Bittrex forgets the queue and the number once connected.
Reset ==
  /\ pc = "reset"
  /\ queue' = <<>> /\ orderSeq' = 0
  /\ pc' = "subscribe"
  /\ UNCHANGED <<venue, n, conn, old, book, obRequested, status, faults>>

\* The subscription, which Poloniex answers with the full book.
Subscribe ==
  /\ pc = "subscribe"
  /\ obRequested' = FALSE
  /\ LET c == [conn EXCEPT !.sub = TRUE] IN
     conn' = IF venue = "poloniex" THEN Post(c, [k |-> "book", n |-> n]) ELSE c
  /\ pc' = "idle"
  /\ UNCHANGED <<venue, n, old, book, orderSeq, queue, status, faults>>

Next ==
  \/ ServerMoves \/ EmptyUpdate \/ LoseMessage \/ LoseConnection
  \/ \E i \in DOMAIN conn.inbox : Read(i)
  \/ ReadOld \/ ReaderEnds \/ OldReaderEnds
  \/ \E lost \in BOOLEAN : RefreshListening(lost)
  \/ Dial \/ DialFails \/ Reset \/ Subscribe

\* The exchange's messages, the readers and the bot's refreshes keep coming.
Fair(k) ==
  \/ k = 1 /\ EmptyUpdate
  \/ k = 2 /\ \E i \in DOMAIN conn.inbox : Read(i)
  \/ k = 3 /\ (ReadOld \/ OldReaderEnds)
  \/ k = 4 /\ ReaderEnds
  \/ k = 5 /\ (RefreshListening(TRUE) \/ Dial)
  \/ k = 6 /\ Reset
  \/ k = 7 /\ Subscribe

Fairness == \A k \in 1..7 : WF_vars(Fair(k))

Spec == Init /\ [][Next]_vars /\ Fairness

-----------------------------------------------------------------------------
(* Properties.                                                             *)

\* While the feed counts as listening, the book that wsDepths shows has every
\* order of the exchange's book of that number, with its volume, whatever was
\* lost, came early, came twice or came over an older connection.  Bittrex's
\* book has no other orders; Poloniex's keeps those of an earlier connection,
\* since processWsOrderbook adds to the old maps.
BookFollowsExchange ==
  status = "listening" /\ orderSeq # 0 =>
    \A p \in Price :
      venue = "bittrex" \/ Books[orderSeq][p] # 0 => book[p] = Books[orderSeq][p]

\* Once the exchange rests, the book is again and again the latest one: a lost
\* update, a lost connection and a reader that fails the connection that
\* replaced its own are all repaired by later refreshes.
BookIsLatest == status = "listening" /\ orderSeq = n
BookCatchesUp == []<>BookIsLatest
=============================================================================
