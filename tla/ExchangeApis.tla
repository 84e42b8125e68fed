---------------------------- MODULE ExchangeApis ----------------------------
(***************************************************************************)
(* What one Refresh of each price source makes of the answers it gets      *)
(* (exchanges/exchanges.go).  A request ends in one of the outcomes of     *)
(* Outcome; the data of an answer is the version of the market it shows.   *)
(* A depth or a list of candlesticks is <<>> when it is absent (nil),      *)
(* <<0>> when it is present but empty and <<v>> when it shows version v.   *)
(***************************************************************************)
EXTENDS Naturals, Sequences

\* How one HTTP request ends: a good answer, no answer or one that is not
\* JSON, an answer whose status says it failed, an answer with a value that
\* cannot be parsed.
Outcome == {"ok", "fetch", "status", "value"}

Absent == <<>>
Empty == <<0>>

\* The prices and volumes are taken from the first answer; the update is
\* given up, and lastFail set, on the outcomes each exchange looks at.
CoinbaseFails(o) == o = "fetch"
CoindeskFails(o) == o = "fetch"
BinanceFails(o) == o \in {"fetch", "value"}
BittrexFails(o) == o \in {"fetch", "status", "value"}
DragonExFails(o) == o \in {"fetch", "status", "value"}
HuobiFails(o) == o \in {"fetch", "status"}
PoloniexFails(o) == o \in {"fetch", "value"}

\* A code whose rate does not parse is left out and sets lastFail, but the
\* other rates are still sent: the index is the worse for it, not failed.
CoinbaseIndices(o, codes, bad) == IF o = "value" THEN codes \ bad ELSE codes
CoindeskIndices(codes) == codes

\* parseBinanceDepthPoints and BinanceDepthResponse.translate: a failed
\* request is logged and the zero response translated all the same.
parseBinanceDepthPoints(o) == o # "value"
BinanceDepth(o, v) ==
  IF ~parseBinanceDepthPoints(o) THEN Absent
  ELSE IF o = "fetch" THEN Empty ELSE <<v>>

BittrexDepth(o, v) == IF o \in {"fetch", "status"} THEN Absent ELSE <<v>>

\* Two requests, one per side; a point that does not parse empties its side.
getDragonExDepthData(o) == o \notin {"fetch", "status"}
DragonExDepth(o, v) ==
  IF ~getDragonExDepthData(o) THEN Absent
  ELSE IF o = "value" THEN Empty ELSE <<v>>

HuobiDepth(o, v) == IF o \in {"fetch", "status"} THEN Absent ELSE <<v>>

PoloniexDepth(o, v) ==
  CASE o = "value" -> Absent [] o = "fetch" -> Empty [] OTHER -> <<v>>

\* The candlesticks of one answer; Absent is the continue of the loop.
BinanceSticks(o, v) ==
  CASE o = "fetch" -> Absent [] o = "value" -> Empty [] OTHER -> <<v>>
BittrexSticks(o, v) ==
  CASE o = "fetch" -> Absent [] o \in {"status", "value"} -> Empty
    [] OTHER -> <<v>>
DragonExSticks(o, v) ==
  CASE o = "fetch" -> Absent [] o \in {"status", "value"} -> Empty
    [] OTHER -> <<v>>
HuobiSticks(o, v) == IF o \in {"fetch", "status"} THEN Absent ELSE <<v>>
PoloniexSticks(o, v) == IF o = "fetch" THEN Absent ELSE <<v>>

\* Candlesticks.time: the zero time of an empty list is before every other.
time(sticks) == IF sticks = Absent THEN 0 ELSE sticks[1]

\* Candlesticks.needsUpdate: an empty list always does; otherwise the last
\* stick must be two bins old, which only the market moving on can make it.
needsUpdate(sticks, v) ==
  IF time(sticks) = 0 THEN {TRUE}
  ELSE IF time(sticks) < v THEN BOOLEAN ELSE {FALSE}

\* The loop over the candlestick requests that the five exchanges share:
\* a list is sent on if there was none or if it ends later than the old one.
NewSticks(old, fetched) ==
  IF fetched # Absent /\ (old = Absent \/ time(fetched) > time(old))
  THEN fetched ELSE Absent

\* ExchangeState.stealSticks: what the update lacks is taken from the last.
stealSticks(state, top) ==
  IF top.sticks # Absent /\ state.sticks = Absent
  THEN [state EXCEPT !.sticks = top.sticks] ELSE state

FailsOf(kind, o) ==
  CASE kind = "Coinbase" -> CoinbaseFails(o)
    [] kind = "Coindesk" -> CoindeskFails(o)
    [] kind = "Binance" -> BinanceFails(o)
    [] kind = "Bittrex" -> BittrexFails(o)
    [] kind = "DragonEx" -> DragonExFails(o)
    [] kind = "Huobi" -> HuobiFails(o)
    [] kind = "Poloniex" -> PoloniexFails(o)

DepthOf(kind, o, v) ==
  CASE kind = "Binance" -> BinanceDepth(o, v)
    [] kind = "Bittrex" -> BittrexDepth(o, v)
    [] kind = "DragonEx" -> DragonExDepth(o, v)
    [] kind = "Huobi" -> HuobiDepth(o, v)
    [] kind = "Poloniex" -> PoloniexDepth(o, v)

SticksOf(kind, o, v) ==
  CASE kind = "Binance" -> BinanceSticks(o, v)
    [] kind = "Bittrex" -> BittrexSticks(o, v)
    [] kind = "DragonEx" -> DragonExSticks(o, v)
    [] kind = "Huobi" -> HuobiSticks(o, v)
    [] kind = "Poloniex" -> PoloniexSticks(o, v)
=============================================================================
