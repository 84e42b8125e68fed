----------------------------- MODULE ExchangeBot -----------------------------
(***************************************************************************)
(* The exchange bot (exchanges/bot.go) and the part of an exchange that    *)
(* every source shares (CommonExchange, exchanges/exchanges.go): refreshes *)
(* run in goroutines of their own and send their update to the bot's loop  *)
(* over a bounded channel while they hold the mutex of their exchange; the *)
(* loop, which reads those mutexes, averages what is fresh, publishes it   *)
(* and answers charts from a cache of versioned charts.  The bot may also  *)
(* take its updates from a master bot over one stream.                     *)
(***************************************************************************)
EXTENDS ExchangeApis, FiniteSets

CONSTANTS Configs,      \* the sets of sources a configuration may enable
          MaxRefresh,   \* refreshes of one source that may overlap
          ChanSize,     \* capacity of exchangeChan and of indexChan
          MaxMoves,     \* bound on the market's moves
          MaxFaults,    \* bound on the requests and streams that fail or are late
          Codes         \* the currencies a caller may ask for

VARIABLES master,       \* the master bot: "none", "stream", or "refused" it
          xcs,          \* the sources that were built
          market,       \* version of the market each source would show
          cur,          \* xc.currentState
          job,          \* the refreshes under way and the master's stream
          due, stale,   \* LastTry older than DataExpiry, LastUpdate than RequestExpiry
          exchangeChan, indexChan,
          loop,         \* where the loop of Start is, with the update it took
          DcrBtc, FiatIndices, \* currentState: version shown per tracked source
          Price,        \* currentState: the versions averaged last
          indexMap,     \* the currencies each index last sent
          failed,
          stateCopy,    \* the published state
          asked,        \* the chart the callers ask for
          chart,        \* its entry of versionedCharts while that has the best version
          reader,       \* a caller of QuickSticks or QuickDepth that missed
          answer,       \* what the last step answered a caller
          faults

source == <<market, cur, job, due, stale, faults>>
state == <<DcrBtc, FiatIndices, Price, indexMap, failed, stateCopy>>
vars == <<master, xcs, market, cur, job, due, stale, exchangeChan, indexChan,
          loop, DcrBtc, FiatIndices, Price, indexMap, failed, stateCopy,
          asked, chart, reader, answer, faults>>

BtcIndices == {"Coinbase", "Coindesk"}
DcrExchanges == {"Binance", "Bittrex", "DragonEx", "Huobi", "Poloniex"}
IsBtcIndex(x) == x \in BtcIndices
IsDcrExchange(x) == x \in DcrExchanges
BtcIndex == "USD"
aggregated == "aggregated"

Jobs == (xcs \X (1..MaxRefresh)) \cup {<<"master", 0>>}
Idle == [pc |-> "idle"]
Restrict2(f, S) == [x \in (DOMAIN f) \cap S |-> f[x]]
NewState == [v |-> 0, depth |-> Absent, sticks |-> Absent]
ChartIDs == {<<k, x>> : k \in {"sticks", "depth"}, x \in xcs \cap DcrExchanges}
            \cup {<<"depth", aggregated>>}

\* NewExchangeBot: a source that is disabled or cannot be built is left out;
\* there must be an exchange and an index.  Start then connects to the
\* master bot, or starts a refresh of every source.  A master bot that can be
\* dialled but refuses the subscription ("Falling back to direct connection")
\* leaves masterConnection set: no refresh is started, and the first timer,
\* which is not drained, gives the only Cycle there is.
Init ==
  /\ xcs \in Configs
  /\ xcs \cap BtcIndices # {} /\ xcs \cap DcrExchanges # {}
  /\ master \in {"none", "stream", "refused"}
  /\ market = [x \in xcs |-> 1]
  /\ cur = [x \in xcs |-> NewState]
  /\ job = [j \in Jobs |-> IF master = "none" /\ j[2] = 1
                           THEN [pc |-> "request", x |-> j[1]] ELSE Idle]
  /\ due = (IF master = "refused" THEN xcs ELSE {}) /\ stale = xcs
  /\ exchangeChan = <<>> /\ indexChan = <<>>
  /\ loop = [pc |-> "select"]
  /\ DcrBtc = <<>> /\ FiatIndices = <<>> /\ Price = {} /\ indexMap = <<>>
  /\ failed = FALSE /\ stateCopy = <<>>
  /\ asked \in ChartIDs /\ chart = <<>>
  /\ reader = [pc |-> "idle"] /\ answer = <<>>
  /\ faults = 0

-----------------------------------------------------------------------------
(* The sources.                                                            *)

\* External: the market of an exchange moves on.
Move(x) ==
  /\ IsDcrExchange(x) /\ market[x] < MaxMoves
  /\ market' = [market EXCEPT ![x] = @ + 1]
  /\ answer' = <<>>
  /\ UNCHANGED <<master, xcs, asked, cur, job, due, stale, exchangeChan, indexChan,
                 loop, state, chart, reader, faults>>

\* CommonExchange.update and UpdateIndices hold xc.mtx until the update is
\* in the channel; LastUpdate and LastTry wait for it.
Locked(x) == \E j \in Jobs : job[j].pc = "send" /\ job[j].x = x

\* The loop has nothing to do: the timers are minutes, its steps are not.
LoopIdle == loop.pc = "select" /\ exchangeChan = <<>> /\ indexChan = <<>>

\* DataExpiry passes after a request (LastTry), with room for a refresh.
DataExpires(x) ==
  /\ master = "none" /\ LoopIdle /\ x \notin due
  /\ \E k \in 1..MaxRefresh : job[<<x, k>>] = Idle
  /\ due' = due \cup {x}
  /\ answer' = <<>>
  /\ UNCHANGED <<master, xcs, asked, market, cur, job, stale, exchangeChan,
                 indexChan, loop, state, chart, reader, faults>>

\* RequestExpiry passes since the last update: NewExchangeBot refuses one
\* shorter than DataExpiry, so a refresh is due or still under way.
RequestExpires(x) ==
  /\ LoopIdle /\ x \notin stale /\ faults < MaxFaults
  /\ x \in due \/ master # "none" \/ \E k \in 1..MaxRefresh : job[<<x, k>>] # Idle
  /\ stale' = stale \cup {x}
  /\ faults' = faults + 1
  /\ answer' = <<>>
  /\ UNCHANGED <<master, xcs, asked, market, cur, job, due, exchangeChan, indexChan,
                 loop, state, chart, reader>>

\* The update a refresh makes of its answers: p, d and s are how the
\* requests for price, depth and candlesticks end.
StateFrom(x, d, s, again) ==
  [v |-> market[x],
   depth |-> DepthOf(x, d, market[x]),
   sticks |-> IF cur[x].sticks = Absent \/ again
              THEN NewSticks(cur[x].sticks, SticksOf(x, s, market[x]))
              ELSE Absent]

Faulty(p, d, s) == IF {p, d, s} = {"ok"} THEN 0 ELSE 1

\* Refresh of an exchange up to its call of Update.
RefreshExchange(j, p, d, s) ==
  LET x == job[j].x IN
  /\ job[j].pc = "request" /\ IsDcrExchange(x)
  /\ faults + Faulty(p, d, s) <= MaxFaults
  /\ faults' = faults + Faulty(p, d, s)
  /\ \/ /\ FailsOf(x, p)
        /\ d = "ok" /\ s = "ok"
        /\ job' = [job EXCEPT ![j] = Idle]
     \/ /\ ~FailsOf(x, p)
        /\ \E again \in needsUpdate(cur[x].sticks, market[x]) :
             job' = [job EXCEPT ![j] = [pc |-> "update", x |-> x,
                                        state |-> StateFrom(x, d, s, again)]]
  /\ answer' = <<>>
  /\ UNCHANGED <<master, xcs, asked, market, cur, due, stale, exchangeChan,
                 indexChan, loop, state, chart, reader>>

\* Refresh of an index up to its call of UpdateIndices.
RefreshIndex(j, p) ==
  LET x == job[j].x IN
  /\ job[j].pc = "request" /\ IsBtcIndex(x)
  /\ faults + Faulty(p, "ok", "ok") <= MaxFaults
  /\ faults' = faults + Faulty(p, "ok", "ok")
  /\ job' = [job EXCEPT ![j] =
       IF FailsOf(x, p) THEN Idle
       ELSE [pc |-> "update", x |-> x,
             state |-> [v |-> market[x],
                        codes |-> IF x = "Coinbase"
                                  THEN CoinbaseIndices(p, {BtcIndex}, {BtcIndex})
                                  ELSE CoindeskIndices({BtcIndex})]]]
  /\ answer' = <<>>
  /\ UNCHANGED <<master, xcs, asked, market, cur, due, stale, exchangeChan,
                 indexChan, loop, state, chart, reader>>

\* exchangeStateFromProto copies what the master's update carries; a depth and
\* candlesticks it lacks, because the master's own requests failed, stay nil.
exchangeStateFromProto(x, d) ==
  [v |-> market[x], depth |-> IF d THEN <<market[x]>> ELSE Absent,
   sticks |-> IF d THEN <<market[x]>> ELSE Absent]

\* The goroutine of Start that reads the master's stream: it calls Update for
\* one message after the other, however full the channels are.
StreamRecv(x, d) ==
  LET j == <<"master", 0>> IN
  /\ master = "stream" /\ job[j] = Idle
  /\ faults' = (IF d THEN faults ELSE faults + 1) /\ faults' <= MaxFaults
  /\ job' = [job EXCEPT ![j] =
       [pc |-> "update", x |-> x,
        state |-> IF IsDcrExchange(x) THEN exchangeStateFromProto(x, d)
                  ELSE [v |-> market[x], codes |-> {BtcIndex}]]]
  /\ answer' = <<>>
  /\ UNCHANGED <<master, xcs, asked, market, cur, due, stale, exchangeChan,
                 indexChan, loop, state, chart, reader>>

\* Recv fails: connectMasterBot is tried every ten seconds, then every minute.
StreamFails ==
  /\ master = "stream" /\ job[<<"master", 0>>] = Idle /\ faults < MaxFaults
  /\ faults' = faults + 1
  /\ job' = [job EXCEPT ![<<"master", 0>>] = [pc |-> "down", x |-> "master"]]
  /\ answer' = <<>>
  /\ UNCHANGED <<master, xcs, asked, market, cur, due, stale, exchangeChan,
                 indexChan, loop, state, chart, reader>>

connectMasterBot ==
  /\ job[<<"master", 0>>].pc = "down"
  /\ job' = [job EXCEPT ![<<"master", 0>>] = Idle]
  /\ answer' = <<>>
  /\ UNCHANGED <<master, xcs, asked, market, cur, due, stale, exchangeChan,
                 indexChan, loop, state, chart, reader, faults>>

\* CommonExchange.update up to its send: the mutex is taken, the update is
\* current and completed with the old candlesticks.
update(j) ==
  LET x == job[j].x IN
  /\ job[j].pc = "update" /\ ~Locked(x)
  /\ stale' = stale \ {x}
  /\ IF IsDcrExchange(x)
     THEN LET s == stealSticks(job[j].state, cur[x]) IN
          /\ cur' = [cur EXCEPT ![x] = s]
          /\ job' = [job EXCEPT ![j] = [@ EXCEPT !.pc = "send", !.state = s]]
     ELSE /\ job' = [job EXCEPT ![j].pc = "send"]
          /\ UNCHANGED cur
  /\ answer' = <<>>
  /\ UNCHANGED <<master, xcs, asked, market, due, exchangeChan, indexChan, loop,
                 state, chart, reader, faults>>

\* Whether a channel of the bot has room.
HasRoom(ch) == Len(ch) < ChanSize

\* The send that ends update and UpdateIndices, and frees the mutex.
Send(j) ==
  LET m == [x |-> job[j].x, state |-> job[j].state] IN
  /\ job[j].pc = "send"
  /\ IF IsDcrExchange(m.x)
     THEN /\ HasRoom(exchangeChan)
          /\ exchangeChan' = Append(exchangeChan, m)
          /\ UNCHANGED indexChan
     ELSE /\ HasRoom(indexChan)
          /\ indexChan' = Append(indexChan, m)
          /\ UNCHANGED exchangeChan
  /\ job' = [job EXCEPT ![j] = Idle]
  /\ answer' = <<>>
  /\ UNCHANGED <<master, xcs, asked, market, cur, due, stale, loop, state, chart,
                 reader, faults>>

-----------------------------------------------------------------------------
(* The loop of Start.                                                      *)

TakeExchange ==
  /\ loop.pc = "select" /\ exchangeChan # <<>>
  /\ loop' = [pc |-> "exchange", m |-> Head(exchangeChan)]
  /\ exchangeChan' = Tail(exchangeChan)
  /\ answer' = <<>>
  /\ UNCHANGED <<master, xcs, asked, source, indexChan, state, chart, reader>>

TakeIndex ==
  /\ loop.pc = "select" /\ indexChan # <<>>
  /\ loop' = [pc |-> "index", m |-> Head(indexChan)]
  /\ indexChan' = Tail(indexChan)
  /\ answer' = <<>>
  /\ UNCHANGED <<master, xcs, asked, source, exchangeChan, state, chart, reader>>

\* incrementChart: the version only grows, so that a cached chart, or one a
\* caller is about to cache, has the best version until the next increment
\* and never again.
incrementChart_notAggregated(ids) ==
  IF asked \in ids \ {<<"depth", aggregated>>}
  THEN chart' = <<>> /\ UNCHANGED reader
  ELSE UNCHANGED <<chart, reader>>
incrementChart(ids) ==
  IF asked \in ids
  THEN /\ chart' = <<>>
       /\ reader' = IF reader.pc = "idle" THEN reader
                    ELSE [reader EXCEPT !.best = FALSE]
  ELSE UNCHANGED <<chart, reader>>

\* processState: the sources of a map whose last update is not too old; the
\* others are deleted from it.  There is no average of none.
processState(states) == Restrict2(states, xcs \ stale)

\* updateState: the map of exchanges and that of indices are cleaned, the
\* price is the average of what is left unless a map is empty, and a copy is
\* published.
Versions(states) == {<<x, states[x].v>> : x \in DOMAIN states}
updateState(dcr, fiat) ==
  LET d == processState(dcr)
      f == processState(fiat)
      none == DOMAIN d = {} \/ DOMAIN f = {}
  IN /\ DcrBtc' = d /\ FiatIndices' = f
     /\ failed' = none
     /\ Price' = IF none THEN Price ELSE Versions(d) \cup Versions(f)
     /\ stateCopy' = <<[DcrBtc |-> d, Price |-> Price']>>

\* updateExchange waits for the mutex of every source it reads.
updateExchange ==
  LET x == loop.m.x
      s == loop.m.state
      dcr == [y \in DOMAIN DcrBtc \cup {x} |-> IF y = x THEN s ELSE DcrBtc[y]]
  IN /\ loop.pc = "exchange"
     /\ \A y \in DOMAIN dcr \cup DOMAIN FiatIndices : ~Locked(y)
     /\ incrementChart((IF s.sticks # Absent THEN {<<"sticks", x>>} ELSE {})
          \cup (IF s.depth # Absent
                THEN {<<"depth", x>>, <<"depth", aggregated>>} ELSE {}))
     /\ updateState(dcr, FiatIndices)
     /\ loop' = [pc |-> "next"]
     /\ answer' = <<>>
     /\ UNCHANGED <<master, xcs, asked, source, exchangeChan, indexChan, indexMap>>

\* updateIndices: rates without the bot's currency do not touch the state.
updateIndices ==
  LET x == loop.m.x
      s == loop.m.state
      fiat == [y \in DOMAIN FiatIndices \cup {x} |->
                 IF y = x THEN s ELSE FiatIndices[y]]
  IN /\ loop.pc = "index"
     /\ indexMap' = [y \in DOMAIN indexMap \cup {x} |->
                       IF y = x THEN s ELSE indexMap[y]]
     /\ IF BtcIndex \in s.codes
        THEN /\ \A y \in DOMAIN DcrBtc \cup DOMAIN fiat : ~Locked(y)
             /\ updateState(DcrBtc, fiat)
        ELSE UNCHANGED <<DcrBtc, FiatIndices, Price, failed, stateCopy>>
     /\ loop' = [pc |-> "next"]
     /\ answer' = <<>>
     /\ UNCHANGED <<master, xcs, asked, source, exchangeChan, indexChan, chart, reader>>

\* nextTick reads the LastTry of every source.
nextTick ==
  /\ loop.pc = "next"
  /\ master # "none" \/ \A x \in xcs : ~Locked(x)
  /\ loop' = [pc |-> "select"]
  /\ answer' = <<>>
  /\ UNCHANGED <<master, xcs, asked, source, exchangeChan, indexChan, state, chart, reader>>

\* Cycle starts a refresh of every source that is due; LogRequest is the
\* first thing a refresh does.
FreeSlot(x) == CHOOSE k \in 1..MaxRefresh : job[<<x, k>>] = Idle
Cycle ==
  /\ loop.pc = "select" /\ due # {}
  /\ \A x \in xcs : ~Locked(x)
  /\ job' = [j \in Jobs |-> IF j[1] \in due /\ j[2] = FreeSlot(j[1])
                             THEN [pc |-> "request", x |-> j[1]] ELSE job[j]]
  /\ due' = {}
  /\ loop' = [pc |-> "next"]
  /\ answer' = <<>>
  /\ UNCHANGED <<master, xcs, asked, market, cur, stale, exchangeChan, indexChan,
                 state, chart, reader, faults>>

-----------------------------------------------------------------------------
(* The callers: the API's handlers.                                        *)

\* ConvertedState cleans the map of the current state, under the read lock,
\* and fails for a currency no fresh index knows.
ConvertedState(code) ==
  LET d == processState(DcrBtc)
      f == processState([x \in {y \in DOMAIN indexMap : code \in indexMap[y].codes}
                          |-> indexMap[x]])
      ok == DOMAIN d # {} /\ DOMAIN f # {}
  IN /\ loop.pc \in {"select", "next"}
     /\ \A x \in DOMAIN DcrBtc \cup DOMAIN indexMap : ~Locked(x)
     /\ DcrBtc' = d
     /\ failed' = (failed \/ ~ok)
     /\ answer' = <<[op |-> "convert", ok |-> ok, code |-> code]>>
     /\ UNCHANGED <<master, xcs, asked, source, exchangeChan, indexChan, loop,
                    FiatIndices, Price, indexMap, stateCopy, chart, reader>>

\* fetchFromCache: a hit needs the best version, a miss remembers it.  One
\* caller at a time misses; others hit meanwhile.
fetchFromCache ==
  /\ IF chart # <<>>
     THEN answer' = <<[op |-> "hit", chart |-> chart[1]]>> /\ UNCHANGED reader
     ELSE /\ reader.pc = "idle"
          /\ answer' = <<>> /\ reader' = [pc |-> "encode", best |-> TRUE]
  /\ UNCHANGED <<master, xcs, asked, source, exchangeChan, indexChan, loop, state, chart>>

\* aggOrderbook merges the depths of the published copy (mapifyDepthPoints,
\* unmapAgOrders): every exchange with a depth has its column.
aggOrderbook ==
  LET d == stateCopy[1].DcrBtc IN
  [price |-> stateCopy[1].Price,
   data |-> {<<x, d[x].depth>> : x \in {y \in DOMAIN d : d[y].depth # Absent}}]

\* QuickSticks and QuickDepth encode the chart, with the price of the moment,
\* or return an error ({}).
Encoded ==
  LET x == asked[2]
      d == IF x \notin DOMAIN DcrBtc THEN Absent
           ELSE IF asked[1] = "depth" THEN DcrBtc[x].depth
           ELSE IF DcrBtc[x].sticks = Empty THEN Absent ELSE DcrBtc[x].sticks
  IN IF x = aggregated THEN IF stateCopy = <<>> THEN {} ELSE {aggOrderbook}
     ELSE IF d = Absent THEN {} ELSE {[price |-> Price, data |-> {<<x, d>>}]}

\* What they do after a miss, under the bot's mutex.  The chart is stored under
\* the version read before.
Quick ==
  /\ reader.pc = "encode" /\ asked[2] # aggregated
  /\ chart' = IF Encoded = {} THEN chart
              ELSE IF reader.best THEN <<CHOOSE d \in Encoded : TRUE>> ELSE <<>>
  /\ reader' = [pc |-> "idle"]
  /\ answer' = <<>>
  /\ UNCHANGED <<master, xcs, asked, source, exchangeChan, indexChan, loop, state>>

\* The aggregated book is encoded from the copy and stored without the mutex.
EncodeAggregated ==
  /\ reader.pc = "encode" /\ asked[2] = aggregated
  /\ reader' = IF Encoded = {} THEN [pc |-> "idle"]
               ELSE [pc |-> "store", best |-> reader.best, chart |-> CHOOSE d \in Encoded : TRUE]
  /\ answer' = <<>>
  /\ UNCHANGED <<master, xcs, asked, source, exchangeChan, indexChan, loop, state, chart>>

StoreAggregated ==
  /\ reader.pc = "store"
  /\ chart' = IF reader.best THEN <<reader.chart>> ELSE <<>>
  /\ reader' = [pc |-> "idle"]
  /\ answer' = <<>>
  /\ UNCHANGED <<master, xcs, asked, source, exchangeChan, indexChan, loop, state>>

Next ==
  \/ \E x \in xcs : Move(x) \/ DataExpires(x) \/ RequestExpires(x)
                    \/ \E d \in BOOLEAN : StreamRecv(x, d)
  \/ \E j \in Jobs : update(j) \/ Send(j)
  \/ \E j \in Jobs, p \in Outcome : RefreshIndex(j, p)
  \/ \E j \in Jobs, p, d, s \in Outcome : RefreshExchange(j, p, d, s)
  \/ StreamFails \/ connectMasterBot
  \/ TakeExchange \/ TakeIndex \/ updateExchange \/ updateIndices \/ nextTick
  \/ Cycle
  \/ \E code \in Codes : ConvertedState(code)
  \/ fetchFromCache \/ Quick \/ EncodeAggregated \/ StoreAggregated

-----------------------------------------------------------------------------
(* Properties.                                                             *)

\* The depth or the candlesticks of a chart answered from the cache are those
\* the bot holds: callers that miss, encode and store while updates come in
\* never leave older data under the best version.  (A depth that an update
\* drops, and an exchange that expires, do not change the version: the last
\* chart is still served.  Nor does the price: see HitsShowPrice.)
HitsAreCurrent ==
  answer # <<>> /\ answer[1].op = "hit" =>
    LET held(x) == IF asked[1] = "depth" THEN DcrBtc[x].depth ELSE DcrBtc[x].sticks
        tracked == {x \in DOMAIN DcrBtc : held(x) # Absent}
        data == answer[1].chart.data
    IN /\ \A e \in data : e[1] \in tracked => e[2] = held(e[1])
       /\ asked[2] = aggregated => tracked \subseteq {e[1] : e \in data}

\* fetchFromCache: "data is considered expired only when newer data has been
\* received".  The price of an encoded chart is not data in that sense: another
\* source's update, and an index's, change it and leave the version.
HitsShowPrice ==
  answer # <<>> /\ answer[1].op = "hit" => answer[1].chart.price = Price

\* The loop waits for the mutex of a source that is itself waiting for room in
\* a channel only the loop empties (update holds xc.mtx over its send,
\* processState and nextTick take it): the bot stands still for good.
LoopIsWedged ==
  \E j \in Jobs :
    /\ job[j].pc = "send" /\ loop.pc # "select"
    /\ ~HasRoom(IF IsDcrExchange(job[j].x) THEN exchangeChan ELSE indexChan)

\* IsFailed's comment: the flag is set when no index or no exchange is
\* up to date.
FailedIsHonest ==
  failed => DOMAIN processState(DcrBtc) = {} \/ DOMAIN processState(FiatIndices) = {}
=============================================================================
