------------------------------- MODULE MCCaches -------------------------------
(***************************************************************************)
(* The four caches over the tables in one run.  They share nothing, so a     *)
(* behaviour is a behaviour of one of them: part says which.  The address    *)
(* cache is there in every behaviour and rests while another part runs, so   *)
(* that it implements AddressService in all of them; the variables of the    *)
(* other idle parts are 0.                                                   *)
(*                                                                         *)
(* Address cache: two readers, the project fund's goroutine, which asks for  *)
(* the whole history, and a reorganisation from b1 to c1 that touches both   *)
(* addresses; one address fits at a time besides the project's.  Pool info   *)
(* cache: five blocks and capacities of two to four, so that every block can *)
(* be evicted and set again.  Address views: every history of MaxRows rows   *)
(* and its pages.  Charts: seven blocks in four days, two branches          *)
(* that part in the middle of a day and of a ticket-price window.            *)
(***************************************************************************)
EXTENDS AddressCache, TLC

CONSTANTS
    PoolBlock, MaxSize,                            \* of PoolInfoCache
    g, b1, c1, r1, r2, fund, proj, addr, a1, a2, a3, a4, b4, b5   \* model values

MCBlock == {g, b1, c1}
MCPath == (g :> <<g>>) @@ (b1 :> <<g, b1>>) @@ (c1 :> <<g, c1>>)
MCTouch == (g :> {addr}) @@ (b1 :> {addr}) @@ (c1 :> {addr, proj})
MCCalls == (r1 :> {<<"utxos", addr>>, <<"rows", addr>>}) @@
           (r2 :> {<<"rows", proj>>, <<"dev", proj>>})
FiveBlocks == {g, a1, a2, a3, a4}

ChartChain == (g :> <<>>) @@ (a1 :> <<a1>>) @@ (a2 :> <<a1, a2>>) @@
              (a3 :> <<a1, a2, a3>>) @@ (a4 :> <<a1, a2, a3, a4>>) @@
              (b4 :> <<a1, a2, a3, b4>>) @@ (b5 :> <<a1, a2, a3, b4, b5>>)
ChartTime == (g :> 1) @@ (a1 :> 3) @@ (a2 :> 4) @@ (a3 :> 9) @@ (a4 :> 13) @@
             (b4 :> 14) @@ (b5 :> 18)

VARIABLES
    part,
    poolInfo, expireQueue, maxSize,
    hist, mined,
    ser, win, days, tip, side, reorging, reorg, root, diffs, stats, queued, upd,
    file, failed, events

poolVars == <<poolInfo, expireQueue, maxSize>>
historyOfViews == <<hist, mined>>
chartVars == <<ser, win, days, tip, side, reorging, reorg, root, diffs, stats,
               queued, upd, file, failed, events>>

PoolInfo == INSTANCE PoolInfoCache WITH Block <- PoolBlock

Views == INSTANCE AddressViews WITH MaxRows <- 4, MaxN <- 3

ChartData == INSTANCE Charts WITH
    Block <- DOMAIN ChartChain, Chain <- ChartChain, BlockTime <- ChartTime,
    Genesis <- g, aDay <- 4, DiffInterval <- 2, StartPOS <- 2,
    HashrateAvgLength <- 2, MaxQueued <- 1, MaxEvents <- 1, Start <- a2

ASSUME PoolInfoAssumption == PoolInfo!CacheConstants
ASSUME ViewsAssumption == Views!ViewsConstants
ASSUME ChartsAssumption == ChartData!ChartsConstants

IdlePool == poolInfo = 0 /\ expireQueue = 0 /\ maxSize = 0
IdleViews == hist = 0 /\ mined = 0
IdleCharts ==
    /\ ser = 0 /\ win = 0 /\ days = 0 /\ tip = 0 /\ side = 0 /\ reorging = 0
    /\ reorg = 0 /\ root = 0 /\ diffs = 0 /\ stats = 0 /\ queued = 0 /\ upd = 0
    /\ file = 0 /\ failed = 0 /\ events = 0

MCInit ==
    /\ part \in {"address", "pool", "views", "charts"}
    /\ Init
    /\ IF part = "pool" THEN PoolInfo!Init ELSE IdlePool
    /\ IF part = "views" THEN Views!Init ELSE IdleViews
    /\ IF part = "charts" THEN ChartData!Init ELSE IdleCharts

AddressStep == /\ part = "address" /\ Next
               /\ UNCHANGED <<part, poolVars, historyOfViews, chartVars>>
PoolStep == /\ part = "pool" /\ PoolInfo!Next
            /\ UNCHANGED <<part, vars, historyOfViews, chartVars>>
ViewsStep == /\ part = "views" /\ Views!Next
             /\ UNCHANGED <<part, vars, poolVars, chartVars>>
ChartsStep == /\ part = "charts" /\ ChartData!Next
              /\ UNCHANGED <<part, vars, poolVars, historyOfViews>>

MCSpec ==
    MCInit /\ [][AddressStep \/ PoolStep \/ ViewsStep \/ ChartsStep]_
                  <<part, vars, poolVars, historyOfViews, chartVars>>

-------------------------------------------------------------------------------
(* Properties.                                                              *)

\* The caches keep to their capacities: the address cache through purges and
\* reorganisations, up to one address's rows; the pool info cache through any mix
\* of Set and SetCapacity, with every entry of its map due for eviction.
CachesAreBounded ==
    /\ CacheIsBounded
    /\ part = "pool" => PoolInfo!CapacityRespected /\ PoolInfo!EveryKeyExpires

\* The two copies of the page algorithms agree: a page of the cached rows is the page
\* of the rows just read (but for the unspent view), merged pages are cut from the
\* merged listing, and the balances and counts of ReduceAddressHistory, of the
\* database and of AddressData are those of the rows.
ViewsAgree == part = "views" => Views!AddressViewsAgree

\* In every chart the values at one place are of one height or one day, and of one
\* block while the series follow the main chain, and every day of the binned series
\* ends at a midnight and sums that day's blocks, through updates, reorganisations,
\* dumps and restarts (ChartData).
ChartsAgree == part = "charts" => ChartData!ChartsPairUp /\ ChartData!DaysAreDays

===============================================================================
