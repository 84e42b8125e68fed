-------------------------------- MODULE Charts --------------------------------
(***************************************************************************)
(* ChartData of db/cache/charts.go with the updaters that dcrpg registers.  *)
(*                                                                         *)
(* A connected block starts Update in a goroutine of its own; updateMtx     *)
(* makes the updates take turns, and the block and reorganisation handlers  *)
(* go on while an update runs.  An updater reads the state id and queries   *)
(* the tables without charts.mtx, then takes the lock, compares the state   *)
(* id and appends.  ReorgHandler runs after the tables were reorganised.    *)
(*                                                                         *)
(* A series holds, at each place, the block its value was read from; the    *)
(* five series of appendChartBlocks (Height, Time, TxCount, BlockSize,      *)
(* Chainwork) grow together and are one, as are PoolSize and PoolValue.  A  *)
(* window holds the blocks summed in it, and a day of the day bin holds     *)
(* its midnight stamp, the interval of blocks it was made of and the block   *)
(* whose chain work it took.  A point                                        *)
(* of a chart is the sequence of values it was computed from; the last one  *)
(* is what the point stands for.                                            *)
(***************************************************************************)
EXTENDS BlockTree, SequencesExt

CONSTANTS
    BlockTime,          \* header timestamp of each block
    aDay,               \* seconds of a day (86400)
    DiffInterval,       \* blocks of a stake difficulty window
    StartPOS,           \* StakeValidationHeight
    HashrateAvgLength,  \* 120
    MaxQueued,          \* bound: updates that wait for updateMtx
    Start,              \* best block of the tables when the program first starts
    MaxEvents           \* bound: reorganisations, restarts and failed queries

VARIABLES
    ser,        \* Blocks: series -> blocks, in height order from genesis
    win,        \* Windows: series -> windows, each the blocks counted in it
    days,       \* Days: the day bin
    tip,        \* best block of the tables
    side,       \* stored blocks that are not in the main chain
    reorging,   \* a reorganisation is under way
    reorg,      \* blocks it has still to store
    root,       \* its common ancestor
    diffs,      \* mixSetDiffs: height -> block
    stats,      \* stats table: the block of each height stored last
    queued,     \* updates that wait for updateMtx
    upd,        \* the running update: next updater, state id, rows fetched
    file,       \* the dumped cache file: Blocks and Windows, if there is one
    failed,     \* history: an update was abandoned because a query failed
    events      \* reorganisations, restarts and failed queries so far

BlockSeries == {"basic", "atoms", "fees", "mixed", "anon", "pool"}
WindowSeries == {"price", "missed"}

\* MainChain(t) is the main chain that ends in t, genesis included.
MainChain(t) == <<Genesis>> \o Chain[t]

Times(s) == [i \in DOMAIN s |-> BlockTime[s[i]]]
Points(s) == [i \in DOMAIN s |-> <<s[i]>>]

snip(s, max) == SubSeq(s, 1, IF Len(s) < max THEN Len(s) ELSE max)
Snip(set, length) == [f \in DOMAIN set |-> snip(set[f], IF length < 0 THEN 0 ELSE length)]

Lengths(set) == {Len(set[f]) : f \in DOMAIN set}
\* Lens is not empty; an error unless all lengths agree.
ValidateLengths(lens) == [len |-> CHOOSE n \in lens : \A m \in lens : n <= m,
                          ok |-> \A n, m \in lens : n = m]

midnight(t) == t - (t % aDay)

\* The chart requests: a window chart has one bin, and a word that is neither
\* "block" nor "window" asks for the day bin.
WindowCharts == {"pow-difficulty", "ticket-price", "missed-votes"}
ParseBin(w) == IF w \in {"block", "window"} THEN w ELSE "day"
ParseAxis(w) == IF w = "height" THEN "height" ELSE "time"

\* encode cuts every set to the shortest one.
encode(sets) == LET n == ValidateLengths(Lengths(sets)).len
                IN  [k \in DOMAIN sets |-> SubSeq(sets[k], 1, n)]

accumulate(s) == [i \in DOMAIN s |-> SubSeq(s, 1, i)]

\* Differences of successive times; a negative one is written as zero.
blockTimes(s) == IF Len(s) < 2 THEN <<>> ELSE [i \in 1..(Len(s) - 1) |-> <<s[i], s[i + 1]>>]

-------------------------------------------------------------------------------
(* Day averages of the block times.  Times and averages are appended when   *)
(* a block passes the next tick; workingOn then becomes the tick after the  *)
(* one just passed.                                                         *)

avgBlockTimes(ticks, blocks) ==
    LET Scan(a, i) ==
            IF a.done \/ BlockTime[blocks[i]] <= ticks[a.nextIdx].time THEN a
            ELSE LET b == [a EXCEPT !.times = Append(@, <<ticks[a.workingOn]>>),
                                    !.avgs = Append(@, <<ticks[a.nextIdx - 1]>>),
                                    !.nextIdx = @ + 1]
                 IN  IF b.nextIdx > Len(ticks) THEN [b EXCEPT !.done = TRUE]
                     ELSE [b EXCEPT !.workingOn = b.nextIdx]
        start == [times |-> <<>>, avgs |-> <<>>, nextIdx |-> 2, workingOn |-> 1, done |-> FALSE]
    IN  IF Len(ticks) < 2 THEN [times |-> <<>>, avgs |-> <<>>]
        ELSE LET r == FoldLeft(Scan, start, [i \in DOMAIN blocks |-> i])
             IN  [times |-> r.times, avgs |-> r.avgs]

\* A rate is made of the work and the time of the block and of earlier ones.
\* The rotator has HashrateAvgLength places, so the oldest work in it is
\* HashrateAvgLength - 1 blocks old when the time is HashrateAvgLength old.
hashrate(s) ==
    LET n == Len(s) - HashrateAvgLength
    IN  IF n <= 0 THEN <<>>
        ELSE [i \in 1..n |-> <<s[i], s[i + 1], s[i + HashrateAvgLength]>>]

\* The work of a day is that of the first block of the next day.
WorkOf(d) == [time |-> d.time, blocks |-> <<d.work>>]

dailyHashrate(d) == IF d = <<>> THEN <<>> ELSE [i \in 1..(Len(d) - 1) |-> <<WorkOf(d[i]), WorkOf(d[i + 1])>>]

-------------------------------------------------------------------------------
(* The chart makers.  Sets(bin, axis, blockSets, daySets) adds the axis.    *)

\* A request that fails has no sets.
InvalidBinErr == <<>>
TooFewErr == <<>>
UnknownChartErr == <<>>

Sets(bin, axis, blockSets, daySets) ==
    CASE bin = "block" -> encode(blockSets @@ IF axis = "height" THEN <<>> ELSE [t |-> Points(ser.basic)])
      [] bin = "day"   -> encode(daySets @@ IF axis = "height" THEN [h |-> Points(days)] ELSE [t |-> Points(days)])
      [] OTHER         -> InvalidBinErr

blockSizeChart(bin, axis) == Sets(bin, axis, [size |-> Points(ser.basic)], [size |-> Points(days)])
blockchainSizeChart(bin, axis) ==
    Sets(bin, axis, [size |-> accumulate(ser.basic)], [size |-> accumulate(days)])
chainWorkChart(bin, axis) ==
    Sets(bin, axis, [work |-> Points(ser.basic)], [work |-> [i \in DOMAIN days |-> <<WorkOf(days[i])>>]])
coinSupplyChart(bin, axis) ==
    Sets(bin, axis, [supply |-> accumulate(ser.atoms), anonymitySet |-> Points(ser.anon)],
         [supply |-> accumulate(days), anonymitySet |-> Points(days), h |-> Points(days)])

durationBTWChart(bin, axis) ==
    LET avg == avgBlockTimes(days, ser.basic)
    IN  CASE bin = "block" ->
                encode([duration |-> blockTimes(ser.basic)] @@
                       IF axis = "height" THEN <<>>
                       ELSE [t |-> IF Len(ser.basic) < 2 THEN <<>> ELSE Points(Tail(ser.basic))])
          [] bin = "day" /\ axis = "height" ->
                IF Len(days) < 2 THEN TooFewErr
                ELSE encode([duration |-> avg.avgs, h |-> Points(Front(days))])
          [] bin = "day" /\ axis = "time" -> encode([duration |-> avg.avgs, t |-> avg.times])
          [] OTHER -> InvalidBinErr

hashRateChart(bin, axis) ==
    CASE bin = "block" /\ Len(ser.basic) < 2 -> TooFewErr
      [] bin = "block" /\ Len(ser.basic) >= 2 ->
            encode([rate |-> hashrate(ser.basic)] @@
                   IF axis = "height" THEN <<>>
                   ELSE [t |-> Points(SubSeq(ser.basic, HashrateAvgLength + 1, Len(ser.basic)))])
      [] bin = "day" /\ Len(days) < 2 -> TooFewErr
      [] bin = "day" /\ Len(days) >= 2 ->
            encode([rate |-> dailyHashrate(days)] @@
                   IF axis = "height" THEN [h |-> Points(Tail(days))] ELSE [t |-> Points(Tail(days))])
      [] OTHER -> InvalidBinErr

powDifficultyChart(axis) ==
    encode([diff |-> win.price] @@ IF axis = "height" THEN <<>> ELSE [t |-> win.price])
ticketPriceChart(axis) ==
    encode([price |-> win.price, count |-> win.price] @@ IF axis = "height" THEN <<>> ELSE [t |-> win.price])

txCountChart(bin, axis) == Sets(bin, axis, [count |-> Points(ser.basic)], [count |-> Points(days)])
feesChart(bin, axis) == Sets(bin, axis, [fees |-> Points(ser.fees)], [fees |-> Points(days)])
\* By block, the height axis of this chart is the Height series itself.
anonymitySetChart(bin, axis) ==
    Sets(bin, axis, [mixed |-> Points(ser.mixed)] @@ IF axis = "height" THEN [h |-> Points(ser.basic)] ELSE <<>>,
         [mixed |-> Points(days)])
ticketPoolSizeChart(bin, axis) == Sets(bin, axis, [count |-> Points(ser.pool)], [count |-> Points(days)])
poolValueChart(bin, axis) == Sets(bin, axis, [poolval |-> Points(ser.pool)], [poolval |-> Points(days)])

\* The windows before voting started are left out unless nothing would remain.
missedVotesChart(axis) ==
    LET pre == StartPOS \div DiffInterval
        skip == IF pre >= Len(win.missed) \/ pre >= Len(win.price) THEN 0 ELSE pre
        From(s) == SubSeq(s, skip + 1, Len(s))
    IN  encode([missed |-> From(win.missed)] @@ IF axis = "height" THEN <<>> ELSE [t |-> From(win.price)])

stakedCoinsChart(bin, axis) ==
    Sets(bin, axis, [circulation |-> accumulate(ser.atoms), poolval |-> Points(ser.pool)],
         [circulation |-> accumulate(days), poolval |-> Points(days)])

Charts == WindowCharts \cup
    {"block-size", "blockchain-size", "chainwork", "coin-supply", "duration-btw-blocks", "hashrate",
     "tx-count", "fees", "privacy-participation", "ticket-pool-size", "ticket-pool-value",
     "stake-participation"}

\* Chart, without its cache: the maker of a chart and its errors.
Make(chart, binWord, axisWord) ==
    LET bin == ParseBin(IF chart \in WindowCharts THEN "window" ELSE binWord)
        axis == ParseAxis(axisWord)
    IN  CASE chart = "block-size"            -> blockSizeChart(bin, axis)
          [] chart = "blockchain-size"       -> blockchainSizeChart(bin, axis)
          [] chart = "chainwork"             -> chainWorkChart(bin, axis)
          [] chart = "coin-supply"           -> coinSupplyChart(bin, axis)
          [] chart = "duration-btw-blocks"   -> durationBTWChart(bin, axis)
          [] chart = "hashrate"              -> hashRateChart(bin, axis)
          [] chart = "pow-difficulty"        -> powDifficultyChart(axis)
          [] chart = "ticket-price"          -> ticketPriceChart(axis)
          [] chart = "tx-count"              -> txCountChart(bin, axis)
          [] chart = "fees"                  -> feesChart(bin, axis)
          [] chart = "privacy-participation" -> anonymitySetChart(bin, axis)
          [] chart = "ticket-pool-size"      -> ticketPoolSizeChart(bin, axis)
          [] chart = "ticket-pool-value"     -> poolValueChart(bin, axis)
          [] chart = "missed-votes"          -> missedVotesChart(axis)
          [] chart = "stake-participation"   -> stakedCoinsChart(bin, axis)
          [] OTHER                           -> UnknownChartErr

-------------------------------------------------------------------------------
vars == <<ser, win, days, tip, side, reorging, reorg, root, diffs, stats, queued, upd, file, failed, events>>
data == <<ser, win, days>>
db == <<tip, side, reorging, reorg, root, diffs, stats>>
bounds == <<failed, events>>

Updaters == <<"basic", "atoms", "price", "missed", "fees", "mixed", "anon", "pool">>
NoUpdate == [next |-> 0, fetched |-> FALSE, state |-> 0, rows |-> <<>>, cached |-> FALSE]

EmptyBlocks == [f \in BlockSeries |-> <<>>]
EmptyWindows == [f \in WindowSeries |-> <<>>]

Init ==
    /\ ser = EmptyBlocks /\ win = EmptyWindows /\ days = <<>>
    /\ tip = Start /\ side = {} /\ reorging = FALSE /\ reorg = <<>> /\ root = Start
    /\ diffs = <<>> /\ stats = MainChain(Start)
    /\ queued = 1 /\ upd = NoUpdate /\ file = <<>>
    /\ failed = FALSE /\ events = 0

-------------------------------------------------------------------------------
(* The chain moves.  Heights in diffs and places in the series: the block   *)
(* of height h is at place h + 1.                                           *)

Store(b) ==
    /\ tip' = b /\ side' = side \ {b}
    /\ diffs' = (HeightOf(b) :> b) @@ diffs
    /\ stats' = [i \in DOMAIN stats \cup {HeightOf(b) + 1} |-> IF i = HeightOf(b) + 1 THEN b ELSE stats[i]]

\* StoreBlock of a new block, then the savers, charts.TriggerUpdate among them.
Connect(b) ==
    /\ ~reorging /\ b \in Block \ {Genesis} /\ Parent(b) = tip
    /\ queued < MaxQueued
    /\ Store(b) /\ queued' = queued + 1
    /\ UNCHANGED <<data, reorging, reorg, root, upd, file, bounds>>

TipToSideChain(b) ==
    /\ ~reorging /\ events < MaxEvents
    /\ HeightOf(b) > HeightOf(tip) /\ ~IsAncestor(tip, b)
    /\ events' = events + 1
    /\ root' = At(b, ForkHeight(tip, b)) /\ tip' = root'
    /\ side' = side \cup {x \in Block : IsAncestor(x, tip) /\ HeightOf(x) > HeightOf(root')}
    /\ reorging' = TRUE
    /\ reorg' = SubSeq(Chain[b], HeightOf(root') + 1, HeightOf(b))
    /\ UNCHANGED <<data, diffs, stats, queued, upd, file, failed>>

ReorgStore ==
    /\ reorg # <<>>
    /\ Store(Head(reorg)) /\ reorg' = Tail(reorg)
    /\ UNCHANGED <<data, reorging, root, queued, upd, file, bounds>>

\* The last handler group: charts.ReorgHandler snips.
ReorgHandler ==
    /\ reorging /\ reorg = <<>>
    /\ ser' = Snip(ser, HeightOf(root) + 1)
    /\ days' = snip(days, IF Len(days) < 2 THEN 0 ELSE Len(days) - 2)
    /\ win' = Snip(win, Len(win.price) - 1)
    /\ reorging' = FALSE
    /\ UNCHANGED <<tip, side, reorg, root, diffs, stats, queued, upd, file, bounds>>

-------------------------------------------------------------------------------
(* The queries of the updaters, above the last height of their series.      *)

stateID == IF ser.basic = <<>> THEN 0 ELSE BlockTime[Last(ser.basic)]

MainRows(h) == SubSeq(MainChain(tip), h + 2, HeightOf(tip) + 1)

\* SelectBlocksTicketsPrice does not ask for the main chain: stored side chain
\* blocks come too, in either order within a height.
AllRows(h, sideFirst) ==
    LET rows == {b \in side : HeightOf(b) > h} \cup ToSet(MainRows(h))
        Before(x, y) == \/ HeightOf(x) < HeightOf(y)
                        \/ HeightOf(x) = HeightOf(y) /\ (x \in side) = sideFirst /\ x # y
    IN  SortSeq(FoldSet(LAMBDA b, s : Append(s, b), <<>>, rows), Before)

Cached == \A h \in Len(ser.anon)..(Len(ser.basic) - 1) : h \in DOMAIN diffs
AnonHeights == {h \in DOMAIN diffs : h >= Len(ser.anon) /\ h < Len(ser.basic)}

\* The fetchers.  Window series ask above their last complete window, and
\* anonymitySet asks nothing when the differences it needs are in memory.
chartBlocks == MainRows(Len(ser.basic) - 1)
coinSupply == MainRows(Len(ser.atoms) - 1)
windowStats(sideFirst) == AllRows((Len(win.price) * DiffInterval) - 1, sideFirst)
missedVotesStats == MainRows((Len(win.missed) * DiffInterval) - 1)
blockFees == MainRows(Len(ser.fees) - 1)
privacyParticipation == MainRows(Len(ser.mixed) - 1)
anonymitySet == IF Cached /\ ser.basic # <<>> THEN <<>> ELSE MainChain(tip)
poolStats == SubSeq(stats, Len(ser.pool) + 1, Len(stats))

Rows(u, sideFirst) ==
    CASE u = "basic"  -> chartBlocks
      [] u = "atoms"  -> coinSupply
      [] u = "price"  -> windowStats(sideFirst)
      [] u = "missed" -> missedVotesStats
      [] u = "fees"   -> blockFees
      [] u = "mixed"  -> privacyParticipation
      [] u = "anon"   -> anonymitySet
      [] u = "pool"   -> poolStats

UpdateLock ==
    /\ queued > 0 /\ upd = NoUpdate
    /\ queued' = queued - 1 /\ upd' = [NoUpdate EXCEPT !.next = 1]
    /\ UNCHANGED <<data, db, file, bounds>>

Fetch(sideFirst) ==
    /\ upd.next \in DOMAIN Updaters /\ ~upd.fetched
    /\ LET u == Updaters[upd.next]
       IN  upd' = [upd EXCEPT !.fetched = TRUE, !.state = stateID, !.rows = Rows(u, sideFirst),
                              !.cached = u = "anon" /\ Cached /\ ser.basic # <<>>]
    /\ UNCHANGED <<data, db, queued, file, bounds>>

\* A query fails or times out: the update is abandoned.
FetchFails ==
    /\ upd.next \in DOMAIN Updaters /\ ~upd.fetched /\ events < MaxEvents
    /\ upd' = NoUpdate /\ failed' = TRUE /\ events' = events + 1
    /\ UNCHANGED <<data, db, queued, file>>

-------------------------------------------------------------------------------
(* The appenders.                                                           *)

\* appendWindowStats and appendMissedVotesPerWindow: a window is closed by the
\* row of its last height; rows above it are an error that keeps what was done.
AppendWindows(s, rows) ==
    LET Row(a, b) ==
            IF a.failed THEN a
            ELSE LET sum == Append(a.sum, b)
                     full == HeightOf(b) = DiffInterval * (Len(a.s) + 1) - 1
                 IN  IF full THEN [a EXCEPT !.s = Append(@, sum), !.sum = <<>>]
                     ELSE [a EXCEPT !.sum = sum,
                                    !.failed = HeightOf(b) >= DiffInterval * (Len(a.s) + 1)]
    IN  FoldLeft(Row, [s |-> s, sum |-> <<>>, failed |-> FALSE], rows)

\* The rows give the differences of the heights up to the end of Height; the
\* cached differences are used up.  A height without rows adds nothing to the
\* set, and is written down as the block the height stands for.
AnonRows == [i \in 1..(Len(ser.basic) - Len(ser.anon)) |->
                LET h == Len(ser.anon) + i
                IN  IF h <= Len(upd.rows) THEN upd.rows[h] ELSE ser.basic[h]]
CachedRows == [i \in 1..(Len(ser.basic) - Len(ser.anon)) |-> diffs[Len(ser.anon) + i - 1]]

\* What an appender leaves behind, and whether it ended without an error.
AppendTo(u) == [ser |-> [ser EXCEPT ![u] = @ \o upd.rows], win |-> win, ok |-> TRUE]
AppendToWindows(u) == LET r == AppendWindows(win[u], upd.rows)
                       IN  [ser |-> ser, win |-> [win EXCEPT ![u] = r.s], ok |-> ~r.failed]

\* The last height must be the place of the last value; what was appended stays.
appendChartBlocks ==
    [AppendTo("basic") EXCEPT
        !.ok = upd.rows # <<>> => Len(ser.basic) + Len(upd.rows) - 1 = HeightOf(Last(upd.rows))]
appendCoinSupply == AppendTo("atoms")
appendWindowStats == AppendToWindows("price")
appendMissedVotesPerWindow == AppendToWindows("missed")
appendBlockFees == AppendTo("fees")
appendPrivacyParticipation == AppendTo("mixed")
appendPoolStats == AppendTo("pool")
appendAnonymitySet ==
    IF upd.cached /\ ~Cached THEN [ser |-> ser, win |-> win, ok |-> FALSE]
    ELSE [ser |-> [ser EXCEPT !.anon = @ \o IF upd.cached THEN CachedRows ELSE AnonRows],
          win |-> win, ok |-> TRUE]

Appended(u) ==
    CASE u = "basic"  -> appendChartBlocks
      [] u = "atoms"  -> appendCoinSupply
      [] u = "price"  -> appendWindowStats
      [] u = "missed" -> appendMissedVotesPerWindow
      [] u = "fees"   -> appendBlockFees
      [] u = "mixed"  -> appendPrivacyParticipation
      [] u = "anon"   -> appendAnonymitySet
      [] u = "pool"   -> appendPoolStats

validState_any(id) == TRUE
validState(id) == stateID = id

Appender ==
    /\ upd.fetched
    /\ IF ~validState(upd.state) THEN upd' = NoUpdate /\ UNCHANGED <<data, diffs>>
       ELSE LET u == Updaters[upd.next]
                r == Appended(u)
            IN  /\ ser' = r.ser /\ win' = r.win /\ UNCHANGED days
                /\ diffs' = IF u = "anon" /\ upd.cached
                            THEN [h \in DOMAIN diffs \ AnonHeights |-> diffs[h]] ELSE diffs
                /\ upd' = IF r.ok THEN [NoUpdate EXCEPT !.next = upd.next + 1] ELSE NoUpdate
    /\ UNCHANGED <<tip, side, reorging, reorg, root, stats, queued, file, bounds>>

-------------------------------------------------------------------------------
(* Lengthen: cut the series to one length and add the complete days.        *)

\* The day that starts at stamp: blocks first to last - 1 (0-based), and the block
\* at last, whose chain work the code takes.
Day(stamp, b, first, last) ==
    [time |-> stamp, blocks |-> SubSeq(b, first + 1, last), work |-> b[last + 1]]

Intervals_late(b, offset, start, end) ==
    LET t(i) == BlockTime[b[i + 1]]
        Scan(a, i) ==
            IF a.done \/ t(i) <= a.start + aDay THEN a
            ELSE [start |-> a.start + aDay, from |-> i, done |-> t(i) > end,
                  days |-> Append(a.days, Day(a.start, b, a.from, i))]
    IN  FoldLeft(Scan, [start |-> start, from |-> offset, done |-> FALSE, days |-> <<>>],
                 [i \in 1..(Len(b) - offset) |-> offset + i - 1]).days

\* Intervals of a scan of the block times from offset (0-based, as in the
\* code); a block at or after next closes the day and opens the following one.
Intervals(b, offset, start, end) ==
    LET t(i) == BlockTime[b[i + 1]]
        Scan(a, i) ==
            IF a.done \/ t(i) < a.start + aDay THEN a
            ELSE [start |-> a.start + aDay, from |-> i, done |-> t(i) > end,
                  days |-> Append(a.days, Day(a.start, b, a.from, i))]
    IN  FoldLeft(Scan, [start |-> start, from |-> offset, done |-> FALSE, days |-> <<>>],
                 [i \in 1..(Len(b) - offset) |-> offset + i - 1]).days

NewDays(b) ==
    LET end == midnight(BlockTime[Last(b)])
        start == IF days # <<>> THEN Last(days).time + aDay ELSE midnight(BlockTime[b[1]])
        later == {i \in DOMAIN b : BlockTime[b[i]] > start}
        offset == IF later = {} THEN 0 ELSE (CHOOSE i \in later : \A j \in later : i <= j) - 1
    IN  IF end > start + aDay THEN Intervals(b, offset, start, end) ELSE <<>>

\* Lengthened(s, w): Blocks and Windows of one length each, and the days.
Lengthened(s, w) ==
    LET n == ValidateLengths(Lengths(s)).len
        m == ValidateLengths(Lengths(w)).len
        b == Snip(s, n)
    IN  [ser |-> b, win |-> IF n = 0 THEN w ELSE Snip(w, m), ok |-> n = 0 \/ m > 0,
         days |-> IF n = 0 \/ m = 0 THEN days ELSE days \o NewDays(b.basic)]

Lengthen ==
    /\ upd.next = Len(Updaters) + 1
    /\ LET r == Lengthened(ser, win) IN ser' = r.ser /\ win' = r.win /\ days' = r.days
    /\ upd' = NoUpdate
    /\ UNCHANGED <<db, queued, file, bounds>>

-------------------------------------------------------------------------------
(* Stop and start.  Dump writes the file on exit, a crash leaves the old    *)
(* one; Days are not in it and mixSetDiffs is lost.  While the program is   *)
(* down the node goes on, and the tables follow it before Load.             *)

Down == upd.next = -1

Stop(newFile) ==
    /\ ~reorging /\ ~Down /\ events < MaxEvents
    /\ file' = newFile /\ events' = events + 1
    /\ ser' = EmptyBlocks /\ win' = EmptyWindows /\ days' = <<>> /\ diffs' = <<>>
    /\ queued' = 0 /\ upd' = [NoUpdate EXCEPT !.next = -1]
    /\ UNCHANGED <<tip, side, reorging, reorg, root, stats, failed>>

Dump == Stop(<<[ser |-> ser, win |-> win]>>)
Crash == Stop(file)

\* The start of the program brings the tables to the node's best block.
Resync(b) ==
    /\ Down /\ HeightOf(b) > HeightOf(tip)
    /\ tip' = b
    /\ side' = (side \cup {x \in Block : IsAncestor(x, tip)}) \ {x \in Block : IsAncestor(x, b)}
    /\ stats' = MainChain(b)
    /\ UNCHANGED <<data, reorging, reorg, root, diffs, queued, upd, file, bounds>>

\* readCacheFile: data that Lengthen refuses is dropped.  Then the first Update.
Load ==
    /\ Down
    /\ LET r == IF file = <<>> THEN [ok |-> FALSE] ELSE Lengthened(file[1].ser, file[1].win)
       IN  IF r.ok THEN ser' = r.ser /\ win' = r.win /\ days' = r.days ELSE UNCHANGED data
    /\ queued' = 1 /\ upd' = NoUpdate
    /\ UNCHANGED <<db, file, bounds>>

-------------------------------------------------------------------------------
Next ==
    \/ \E b \in Block : Connect(b) \/ TipToSideChain(b) \/ Resync(b)
    \/ ReorgStore \/ ReorgHandler
    \/ UpdateLock
    \/ \E sideFirst \in BOOLEAN : Fetch(sideFirst)
    \/ FetchFails \/ Appender \/ Lengthen
    \/ Dump \/ Crash \/ Load

Spec == Init /\ [][Next]_vars

ChartsConstants ==
    /\ Start \in Block
    /\ BlockTime \in [Block -> Nat] /\ {aDay, DiffInterval, HashrateAvgLength} \subseteq Nat \ {0}
    /\ {StartPOS, MaxQueued, MaxEvents} \subseteq Nat

-------------------------------------------------------------------------------
(* Properties.                                                              *)

\* The value at place h + 1 of every block series is of a block of height h, in
\* every interleaving of an update with ReorgHandler: an updater that queried
\* above a height that was then snipped does not append (validState).  The
\* state id is only that of the block times: a series that an abandoned update
\* left longer than them can be snipped unnoticed.
SeriesAligned ==
    \A f \in IF failed THEN {"basic"} ELSE BlockSeries : \A i \in DOMAIN ser[f] : HeightOf(ser[f][i]) = i - 1

\* As long as the block times are those of the main chain, the values at one place of
\* the block series are of the same block, not only of one height: an update that
\* straddles a reorganisation never mixes the branches.  The condition is needed: a
\* block fetched before a reorganisation that snips nothing, because the series end
\* at or below the ancestor, is appended after it (validState compares the time of
\* the last block), and the other series then continue with the new branch.
SeriesOfOneBlock ==
    ~failed /\ ~reorging /\ IsPrefix(ser.basic, MainChain(tip)) =>
        \A f \in BlockSeries : \A i \in DOMAIN ser[f] \cap DOMAIN ser.basic : ser[f][i] = ser.basic[i]

PairsUp(r, Is(_)) ==
    \A k \in DOMAIN r : LET l == CHOOSE x \in DOMAIN r : TRUE
                        IN  \A i \in DOMAIN r[k] : Is(Last(r[k][i])) = Is(Last(r[l][i]))

\* In every chart, the values that stand at one place (time or height, and each
\* value) belong to one height or to one day, and to one block while the series
\* follow the main chain (SeriesOfOneBlock), though encode is given series of
\* different lengths while an update runs.  The day bin of duration-btw-blocks
\* on the time axis is apart: see DurationsPairUp.
ChartsPairUp ==
    /\ SeriesAligned /\ SeriesOfOneBlock
    /\ ~failed /\ ~upd.fetched => \A c \in Charts \ WindowCharts, axis \in {"height", "time"} :
          /\ PairsUp(Make(c, "block", axis), HeightOf)
          /\ (c # "duration-btw-blocks" \/ axis = "height") =>
                PairsUp(Make(c, "day", axis), LAMBDA d : d.time)

\* The time axis of the average block times names the day each average is of
\* (avgBlockTimes: "the average block times on the intervals defined by the
\* ticks argument").
DurationsPairUp == PairsUp(Make("duration-btw-blocks", "day", "time"), LAMBDA d : d.time)

\* Each day of the day bin holds the blocks of that day and of no other, and
\* the days follow each other, whether Lengthen found them in one scan of the
\* file or one by one; a block stamped at midnight sharp can be missing from
\* the first day that a scan adds (Lengthen, "t > start").  Every day of the chains
\* has a block.  The chain work of a day is that of the first block of the next day
\* ("some use the last value of the day").
DaysAreDays ==
    /\ \A i \in DOMAIN days : i > 1 => days[i].time = days[i - 1].time + aDay
    /\ \A i \in DOMAIN days :
          LET d == days[i]
              inDay == SelectSeq(ser.basic, LAMBDA b : midnight(BlockTime[b]) = d.time)
              later == SelectSeq(ser.basic, LAMBDA b : BlockTime[b] >= d.time + aDay)
          IN  /\ later # <<>> /\ d.work = Head(later)
              /\ d.blocks \in {inDay} \cup IF inDay # <<>> /\ BlockTime[inDay[1]] = d.time THEN {Tail(inDay)} ELSE {}

\* The block data are those of the main chain whenever no update and no
\* reorganisation is under way (Height: "complete and without extraneous
\* entries").
ChartsFollowChain ==
    (upd = NoUpdate /\ queued = 0 /\ ~reorging) => IsPrefix(ser.basic, MainChain(tip))
===============================================================================
