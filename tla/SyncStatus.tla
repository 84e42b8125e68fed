------------------------------ MODULE SyncStatus ------------------------------
(***************************************************************************)
(* The sync status page (explorer/syncstatus.go) and what feeds it:        *)
(* SyncChainDB and the maintenance loops it calls put progress bars on the *)
(* channel barLoad, two of them with a send that gives up and one with a   *)
(* send that waits; a goroutine of the explorer receives them, another     *)
(* signals the websocket hub on a ticker; main ends the page with a nil.   *)
(*                                                                         *)
(* A bar is its ID and whether it only carries a subtitle; what the page   *)
(* holds for an ID is the number of the last full bar and of the last      *)
(* subtitle, in the order they were sent.  The hub's loop (module          *)
(* ExplorerHub) is only what receives from HubRelay here.                  *)
(***************************************************************************)
EXTENDS Naturals, Sequences, FiniteSets

CONSTANTS
    MaxSends,     \* bound: bars sent
    MaxSyncs,     \* bound: calls of SyncChainDB by getSyncd and ensureSync
    Room          \* capacity of barLoad (2)

StatusConstants ==
    MaxSends \in Nat /\ MaxSyncs \in Nat \ {0} /\ Room \in Nat \ {0}

BarID == {"InitialDBLoad", "AddressesTableSync"}

VARIABLES
    main,         \* "sync", "between" two syncs, "over" when the nil is due, "live"
    syncs,        \* calls of SyncChainDB so far
    muted,        \* this call of SyncChainDB has set its barLoad to nil
    sent,         \* bars put on the channel
    barLoad,      \* the channel: bars, or <<>> for the nil
    progressBars, \* blockchainSyncStatus.ProgressBars, in order
    receiver,     \* "range", "stopping", "signal", "done"
    ticker,       \* "select", "relay", "stopped"
    page,         \* displaySyncStatusPage
    relayed       \* a sync status signal the hub has to send to the pages

vars == <<main, syncs, muted, sent, barLoad, progressBars, receiver, ticker, page, relayed>>

Bar == [id : BarID, n : 1 .. MaxSends, only : BOOLEAN]

HasRoom == Len(barLoad) < Room

(* sendProgressUpdate: the bar is put if there is room, and otherwise this *)
(* call of SyncChainDB sends no more.  Most bars are full ones; the one    *)
(* that says "sync complete" has only a subtitle.                          *)
SendProgressUpdate(id, only) ==
    /\ main = "sync" /\ ~muted /\ sent < MaxSends
    /\ IF HasRoom
       THEN /\ barLoad' = Append(barLoad, <<[id |-> id, n |-> sent + 1, only |-> only]>>)
            /\ sent' = sent + 1
            /\ UNCHANGED muted
       ELSE muted' = TRUE /\ UNCHANGED <<barLoad, sent>>
    /\ UNCHANGED <<main, syncs, progressBars, receiver, ticker, page, relayed>>

(* DeleteDuplicates, IndexAll, IndexTicketsTable: barLoad <- a subtitle.    *)
(* UpdateSpendingInfoInAllAddresses: barLoad <- a full bar.  The send       *)
(* waits for room.                                                         *)
SendSubtitle(id, only) ==
    /\ main = "sync" /\ ~muted /\ sent < MaxSends
    /\ HasRoom
    /\ barLoad' = Append(barLoad, <<[id |-> id, n |-> sent + 1, only |-> only]>>)
    /\ sent' = sent + 1
    /\ UNCHANGED <<main, syncs, muted, progressBars, receiver, ticker, page, relayed>>

(* SyncChainDB returns; getSyncd may call it again, with main's channel. *)
SyncReturns ==
    /\ main = "sync"
    /\ main' = "between"
    /\ UNCHANGED <<syncs, muted, sent, barLoad, progressBars, receiver, ticker, page, relayed>>

SyncAgain ==
    /\ main = "between" /\ syncs < MaxSyncs
    /\ main' = "sync"
    /\ syncs' = syncs + 1
    /\ muted' = FALSE
    /\ UNCHANGED <<sent, barLoad, progressBars, receiver, ticker, page, relayed>>

AllReady ==
    /\ main = "between"
    /\ main' = "over"
    /\ UNCHANGED <<syncs, muted, sent, barLoad, progressBars, receiver, ticker, page, relayed>>

(* main: the nil that ends the page, or nothing when the buffer is full. *)
StopStatus ==
    /\ main = "over"
    /\ main' = "live"
    /\ barLoad' = IF HasRoom THEN Append(barLoad, <<>>) ELSE barLoad
    /\ UNCHANGED <<syncs, muted, sent, progressBars, receiver, ticker, page, relayed>>

-------------------------------------------------------------------------------
(* The receiver's map of a bar onto the page: the entry with its ID is     *)
(* replaced, or only its subtitle, and a new ID is appended.               *)
Shown(bar) == [id |-> bar.id, n |-> bar.n, subtitle |-> bar.n]

(* Mutant: every bar is appended. *)
Apply_appends(bars, bar) == Append(bars, Shown(bar))

Apply(bars, bar) ==
    LET at == {i \in DOMAIN bars : bars[i].id = bar.id}
    IN  IF at = {} THEN Append(bars, Shown(bar))
        ELSE [i \in DOMAIN bars |->
                IF i \notin at THEN bars[i]
                ELSE IF bar.only THEN [bars[i] EXCEPT !.subtitle = bar.n]
                ELSE Shown(bar)]

ReceiveBar ==
    /\ receiver = "range" /\ barLoad # <<>> /\ Head(barLoad) # <<>>
    /\ progressBars' = Apply(progressBars, Head(barLoad)[1])
    /\ barLoad' = Tail(barLoad)
    /\ UNCHANGED <<main, syncs, muted, sent, receiver, ticker, page, relayed>>

ReceiveNil ==
    /\ receiver = "range" /\ barLoad # <<>> /\ Head(barLoad) = <<>>
    /\ barLoad' = Tail(barLoad)
    /\ receiver' = "stopping"
    /\ UNCHANGED <<main, syncs, muted, sent, progressBars, ticker, page, relayed>>

(* stopTimer <- struct{}{} meets the ticker goroutine in its select. *)
StopTimer ==
    /\ receiver = "stopping" /\ ticker = "select"
    /\ receiver' = "signal" /\ ticker' = "stopped"
    /\ UNCHANGED <<main, syncs, muted, sent, barLoad, progressBars, page, relayed>>

(* Mutant: the page stays enabled. *)
LastSignal_stays ==
    /\ receiver = "signal" /\ ~relayed
    /\ relayed' = TRUE
    /\ receiver' = "done"
    /\ UNCHANGED <<main, syncs, muted, sent, barLoad, progressBars, ticker, page>>

(* The deferred function: one last signal on HubRelay, then the page off. *)
LastSignal ==
    /\ receiver = "signal" /\ ~relayed
    /\ relayed' = TRUE
    /\ receiver' = "done"
    /\ page' = FALSE
    /\ UNCHANGED <<main, syncs, muted, sent, barLoad, progressBars, ticker>>

(* The ticker goroutine: a tick, and the signal on HubRelay. *)
Tick ==
    /\ ticker = "select"
    /\ ticker' = "relay"
    /\ UNCHANGED <<main, syncs, muted, sent, barLoad, progressBars, receiver, page, relayed>>

Relay ==
    /\ ticker = "relay" /\ ~relayed
    /\ relayed' = TRUE
    /\ ticker' = "select"
    /\ UNCHANGED <<main, syncs, muted, sent, barLoad, progressBars, receiver, page>>

(* The hub's loop sends the bars to the pages and is back at its select. *)
HubSends ==
    /\ relayed
    /\ relayed' = FALSE
    /\ UNCHANGED <<main, syncs, muted, sent, barLoad, progressBars, receiver, ticker, page>>

-------------------------------------------------------------------------------
(* BeginSyncStatusUpdates, then the first sync. *)
Init ==
    /\ main = "sync" /\ syncs = 1 /\ muted = FALSE /\ sent = 0
    /\ barLoad = <<>> /\ progressBars = <<>>
    /\ receiver = "range" /\ ticker = "select"
    /\ page = TRUE /\ relayed = FALSE

Next ==
    \/ \E id \in BarID, only \in BOOLEAN : SendProgressUpdate(id, only) \/ SendSubtitle(id, only)
    \/ SyncReturns \/ SyncAgain \/ AllReady \/ StopStatus
    \/ ReceiveBar \/ ReceiveNil \/ StopTimer \/ LastSignal
    \/ Tick \/ Relay \/ HubSends

(* The goroutines run.  The receiver meets the ticker goroutine in its      *)
(* select again and again, not always: SF, as Go's select picks among the   *)
(* ready cases at random.  The sync ends.                                  *)
Fair(k) ==
    \/ k = 1 /\ SyncReturns
    \/ k = 2 /\ AllReady
    \/ k = 3 /\ StopStatus
    \/ k = 4 /\ ReceiveBar
    \/ k = 5 /\ ReceiveNil
    \/ k = 6 /\ HubSends
StronglyFair(k) ==
    \/ k = 1 /\ StopTimer
    \/ k = 2 /\ LastSignal
    \/ k = 3 /\ Relay

Fairness ==
    /\ \A k \in 1..6 : WF_vars(Fair(k))
    /\ \A k \in 1..3 : SF_vars(StronglyFair(k))

Spec == Init /\ [][Next]_vars /\ Fairness

-------------------------------------------------------------------------------
(* The page lists each bar once, in an order that does not change, and     *)
(* never goes back to an older bar or subtitle than it has shown; nothing  *)
(* is received after the nil.                                              *)
PageIsOrdered ==
    /\ \A i, j \in DOMAIN progressBars :
         progressBars[i].id = progressBars[j].id => i = j
    /\ \A i \in DOMAIN progressBars :
         /\ progressBars[i].n <= progressBars[i].subtitle
         /\ \A k \in DOMAIN barLoad : barLoad[k] # <<>> =>
              progressBars[i].subtitle < barLoad[k][1].n

(* Once the nil is on the channel the page ends: the ticker is stopped, the *)
(* last signal is sent, and the explorer's own pages are back.             *)
NilIsHeeded ==
    (receiver # "range" \/ \E k \in DOMAIN barLoad : barLoad[k] = <<>>)
        => ~page /\ ticker = "stopped"
NilEndsPage == []<>NilIsHeeded

(* main: "Block further usage of the barLoad by sending a nil value": the   *)
(* page ends once the sync is over.                                        *)
SyncPageEnds == main = "live" ~> ~page

===============================================================================
