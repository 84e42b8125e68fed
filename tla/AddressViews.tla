----------------------------- MODULE AddressViews -----------------------------
(***************************************************************************)
(* The pages of an address's rows.  AddressHistory answers a page either    *)
(* from the rows in the address cache (AddressCacheItem.Transactions, on    *)
(* compact rows) or from the rows just read (dbtypes.SliceAddressRows): two *)
(* copies of the same algorithms, which must agree.  AddressData then adds  *)
(* what the mempool holds for the address.                                  *)
(*                                                                         *)
(* hist is the address's history, oldest row first: a row credits the       *)
(* address by an output or debits it by an input, and a debit matches one   *)
(* credit.  Rows are read newest first, those of a transaction together     *)
(* (ORDER BY block_time DESC, tx_hash), and only valid main chain rows are  *)
(* read.  The transactions are numbered in the order of their blocks; those *)
(* after mined are in the mempool.                                          *)
(***************************************************************************)
EXTENDS Integers, Sequences, FiniteSets, SequencesExt, FiniteSetsExt

CONSTANTS
    MaxRows,       \* bound: rows of the address, mined or not
    MaxN           \* bound: the page sizes and offsets asked for

ViewsConstants == MaxRows \in Nat /\ MaxN \in Nat

VARIABLES
    hist,          \* the rows, oldest first
    mined          \* how many of them are mined

viewVars == <<hist, mined>>

Views == {"all", "credit", "debit", "unspent", "merged", "merged_credit", "merged_debit"}
MergedViews == {"merged", "merged_credit", "merged_debit"}
IsMerged(view) == view \in MergedViews

-------------------------------------------------------------------------------
(* Pages of plain rows. *)

IsFunding(r) == r.funding
IsDebit(r) == ~r.funding
IsUnspent(r) == r.funding /\ r.matching = 0

\* The rows that satisfy keep, from the offset-th on, at most N of them.
Page(rows, keep(_), N, offset) ==
    LET kept == SelectSeq(rows, keep)
    IN  SubSeq(kept, offset + 1, Min({offset + N, Len(kept)}))

CountRows(rows, keep(_)) == Len(SelectSeq(rows, keep))
CountCreditDebitRows(rows) == <<CountRows(rows, IsFunding), CountRows(rows, IsDebit)>>
CountUnspentCreditRows(rows) == CountRows(rows, IsUnspent)

SliceAddressRowsAll(rows, N, offset) == Page(rows, LAMBDA r : TRUE, N, offset)
SliceAddressCreditRows(rows, N, offset) == Page(rows, IsFunding, N, offset)
SliceAddressDebitRows(rows, N, offset) == Page(rows, IsDebit, N, offset)

\* The unspent credits are counted, but the page is taken from all the credits.
SliceAddressUnspentCreditRows(rows, N, offset) ==
    LET unspent == CountUnspentCreditRows(rows)
    IN  IF offset >= unspent THEN <<>>
        ELSE Page(rows, IsFunding, Min({N, unspent}), offset)

\* The copies of the address cache, on compact rows.
addressRows(rows, N, offset) ==
    IF offset >= Len(rows) THEN <<>>
    ELSE SubSeq(rows, offset + 1, Min({offset + N, Len(rows)}))

creditAddressRows(rows, N, offset) ==
    IF offset >= CountCreditDebitRows(rows)[1] THEN <<>>
    ELSE Page(rows, IsFunding, N, offset)

debitAddressRows(rows, N, offset) ==
    IF offset >= Len(rows) THEN <<>>
    ELSE Page(rows, IsDebit, Min({N, CountCreditDebitRows(rows)[2]}), offset)

unspentCreditAddressRows(rows, N, offset) ==
    IF offset >= CountUnspentCreditRows(rows) THEN <<>>
    ELSE Page(rows, IsUnspent, N, offset)

AllCreditAddressRows(rows) == SelectSeq(rows, IsFunding)

\* As many nil rows come first as there are debits: the slice is made with
\* that length, not that capacity.
NilRow == [tx |-> 0]
AllDebitAddressRows(rows) ==
    LET debits == SelectSeq(rows, IsDebit)
    IN  [i \in 1..Len(debits) |-> NilRow] \o debits

-------------------------------------------------------------------------------
(* Merged rows: one per transaction, in the order of its first row. *)

NewMerged(r) ==
    [tx |-> r.tx, count |-> 1, stake |-> r.stake,
     credit |-> IF r.funding THEN r.value ELSE 0,
     debit |-> IF r.funding THEN 0 ELSE r.value]
AddTo(m, r) ==
    [m EXCEPT !.count = @ + 1,
              !.credit = IF r.funding THEN @ + r.value ELSE @,
              !.debit = IF r.funding THEN @ ELSE @ + r.value]
Place(out, tx) == SelectInSeq(out, LAMBDA m : m.tx = tx)

MergeOne(out, r) ==
    IF Place(out, r.tx) = 0 THEN Append(out, NewMerged(r))
    ELSE [out EXCEPT ![Place(out, r.tx)] = AddTo(@, r)]

MergeRows(rows) == FoldLeft(MergeOne, <<>>, rows)
MergeRowsCompact(rows) == MergeRows(rows)

wrongDirection(view, funding) ==
    \/ view = "merged_credit" /\ ~funding
    \/ view = "merged_debit" /\ funding

\* A bug in MergeRowsRange: it stops as soon as the page is full.
MergeRowsRange_stops(rows, N, offset, view) ==
    LET step(acc, r) ==
            IF wrongDirection(view, r.funding) \/ Len(acc.out) = N THEN acc
            ELSE IF Place(acc.out, r.tx) # 0
                 THEN [acc EXCEPT !.out = MergeOne(@, r)]
            ELSE IF Cardinality(acc.seen) < offset
                 THEN [acc EXCEPT !.seen = @ \cup {r.tx}]
            ELSE [acc EXCEPT !.out = MergeOne(@, r)]
    IN  FoldLeft(step, [out |-> <<>>, seen |-> {}], rows).out

\* Only rows of the direction asked for are merged.  Transactions are skipped
\* until offset of them were seen, then taken until the page is full; later
\* rows of a transaction on the page still join it.  Once offset transactions
\* were seen nothing is looked up in seen: the next row of the last of them
\* opens the page.
MergeRowsRange(rows, N, offset, view) ==
    LET step(acc, r) ==
            IF wrongDirection(view, r.funding) THEN acc
            ELSE IF Place(acc.out, r.tx) # 0
                 THEN [acc EXCEPT !.out = MergeOne(@, r)]
            ELSE IF Len(acc.out) = N THEN acc
            ELSE IF Cardinality(acc.seen) < offset
                 THEN [acc EXCEPT !.seen = @ \cup {r.tx}]
            ELSE [acc EXCEPT !.out = MergeOne(@, r)]
    IN  FoldLeft(step, [out |-> <<>>, seen |-> {}], rows).out

MergeRowsCompactRange(rows, N, offset, view) ==
    LET step(acc, r) ==
            CASE wrongDirection(view, r.funding) -> acc
              [] Place(acc.out, r.tx) = 0 /\ Len(acc.out) < N /\ Cardinality(acc.seen) < offset ->
                     [acc EXCEPT !.seen = @ \cup {r.tx}]
              [] Place(acc.out, r.tx) = 0 /\ Len(acc.out) = N -> acc
              [] OTHER -> [acc EXCEPT !.out = MergeOne(@, r)]
    IN  FoldLeft(step, [out |-> <<>>, seen |-> {}], rows).out

CountMergedRows(rows, view) ==
    Cardinality({rows[i].tx : i \in {j \in 1..Len(rows) : ~wrongDirection(view, rows[j].funding)}})

\* UncompactMergedRows: the net value, its sign, and no matching transaction.
IsNetFunding(m) == m.credit > m.debit
NetValue(m) == IF IsNetFunding(m) THEN m.credit - m.debit ELSE m.debit - m.credit
UncompactMergedRows(rows) ==
    [i \in 1..Len(rows) |->
        [tx |-> rows[i].tx, io |-> 0, funding |-> IsNetFunding(rows[i]), matching |-> 0,
         value |-> NetValue(rows[i]), stake |-> rows[i].stake, merged |-> rows[i].count]]

\* creditAddressRowsMerged and debitAddressRowsMerged.
creditAddressRowsMerged(rows, N, offset) == Page(rows, IsNetFunding, N, offset)
debitAddressRowsMerged(rows, N, offset) == Page(rows, LAMBDA m : ~IsNetFunding(m), N, offset)

-------------------------------------------------------------------------------
(* A page by its view, from the rows read and from the cached rows. *)

SliceAddressRows(rows, N, offset, view) ==
    CASE N = 0 \/ offset >= Len(rows) -> <<>>
      [] view = "all" -> SliceAddressRowsAll(rows, N, offset)
      [] view = "credit" -> SliceAddressCreditRows(rows, N, offset)
      [] view = "debit" -> SliceAddressDebitRows(rows, N, offset)
      [] view = "unspent" -> SliceAddressUnspentCreditRows(rows, N, offset)
      [] IsMerged(view) -> UncompactMergedRows(MergeRowsRange(rows, N, offset, view))

\* AddressCacheItem.Transactions, uncompacted by AddressCache.Transactions.
Transactions(rows, N, offset, view) ==
    CASE N = 0 \/ offset >= Len(rows) -> <<>>
      [] view = "all" -> addressRows(rows, N, offset)
      [] view = "credit" -> creditAddressRows(rows, N, offset)
      [] view = "debit" -> debitAddressRows(rows, N, offset)
      [] view = "unspent" -> unspentCreditAddressRows(rows, N, offset)
      [] IsMerged(view) -> UncompactMergedRows(MergeRowsCompactRange(rows, N, offset, view))

SumValues(rows, keep(_)) ==
    FoldLeft(LAMBDA sum, r : sum + r.value, 0, SelectSeq(rows, keep))

\* A bug in ReduceAddressHistory: what was sent is not taken off what is left.
ReduceAddressHistory_received(rows) ==
    [numSpent |-> CountRows(rows, IsDebit),
     numUnspent |-> CountRows(rows, IsFunding) - CountRows(rows, IsDebit),
     totalSpent |-> SumValues(rows, IsDebit),
     totalUnspent |-> SumValues(rows, IsFunding),
     fromStake |-> SumValues(rows, LAMBDA r : r.funding /\ r.stake),
     toStake |-> SumValues(rows, LAMBDA r : ~r.funding /\ r.stake)]

\* ReduceAddressHistory, with the balance AddressHistory makes of it.  The
\* stake fractions are represented by their numerators.
ReduceAddressHistory(rows) ==
    [numSpent |-> CountRows(rows, IsDebit),
     numUnspent |-> CountRows(rows, IsFunding) - CountRows(rows, IsDebit),
     totalSpent |-> SumValues(rows, IsDebit),
     totalUnspent |-> SumValues(rows, IsFunding) - SumValues(rows, IsDebit),
     fromStake |-> SumValues(rows, LAMBDA r : r.funding /\ r.stake),
     toStake |-> SumValues(rows, LAMBDA r : ~r.funding /\ r.stake)]

\* RetrieveAddressBalance: the groups of rows that the database adds up.
RetrieveAddressBalance(rows) ==
    [numSpent |-> CountRows(rows, IsDebit),
     numUnspent |-> CountRows(rows, IsUnspent),
     totalSpent |-> SumValues(rows, IsDebit),
     totalUnspent |-> SumValues(rows, IsUnspent),
     fromStake |-> SumValues(rows, LAMBDA r : r.funding /\ r.stake),
     toStake |-> SumValues(rows, LAMBDA r : ~r.funding /\ r.stake)]

-------------------------------------------------------------------------------
(* The history.  Transaction 2 is a stake transaction. *)

TxAt(i) == hist[i].tx
LastTx == IF hist = <<>> THEN 0 ELSE TxAt(Len(hist))
Spenders(i, k) == {j \in 1..k : ~hist[j].funding /\ hist[j].of = i}
RowOf(i, k) ==
    LET h == hist[i]
        other == IF h.funding THEN {TxAt(j) : j \in Spenders(i, k)} ELSE {TxAt(h.of)}
    IN  [tx |-> h.tx, io |-> h.io, funding |-> h.funding, stake |-> h.tx = 2,
         value |-> IF h.funding THEN i ELSE h.of,
         matching |-> IF other = {} THEN 0 ELSE CHOOSE t \in other : TRUE]
RowsUpTo(k) == Reverse([i \in 1..k |-> RowOf(i, k)])

Init ==
    /\ hist = <<>>
    /\ mined = 0

FreeIO(tx, funding) ==
    (0..1) \ {hist[i].io : i \in {j \in 1..Len(hist) : TxAt(j) = tx /\ hist[j].funding = funding}}
NewTxs == {LastTx, LastTx + 1} \ ({0} \cup {TxAt(i) : i \in 1..mined})

\* A transaction of the mempool pays the address or spends one of its outputs.
FundAddress == \E tx \in NewTxs : \E io \in FreeIO(tx, TRUE) :
    /\ Len(hist) < MaxRows
    /\ hist' = Append(hist, [tx |-> tx, io |-> io, funding |-> TRUE, of |-> 0])
    /\ UNCHANGED mined

Spend == \E tx \in NewTxs : \E io \in FreeIO(tx, FALSE) : \E i \in 1..Len(hist) :
    /\ Len(hist) < MaxRows
    /\ hist[i].funding /\ TxAt(i) < tx /\ Spenders(i, Len(hist)) = {}
    /\ hist' = Append(hist, [tx |-> tx, io |-> io, funding |-> FALSE, of |-> i])
    /\ UNCHANGED mined

\* A block takes the oldest transaction of the mempool.
Mine ==
    /\ mined < Len(hist)
    /\ mined' = Max({i \in 1..Len(hist) : TxAt(i) = TxAt(mined + 1)})
    /\ UNCHANGED hist

Next == FundAddress \/ Spend \/ Mine

Spec == Init /\ [][Next]_viewVars

-------------------------------------------------------------------------------
(* AddressData: the page, the counts and the unconfirmed transactions. *)

\* The unconfirmed rows that AddressData adds.  Those of a transaction and
\* index that are listed already are taken for the same row, mined meanwhile.
Listed(list, tx, io) == \E i \in 1..Len(list) : list[i].tx = tx /\ list[i].io = io
AddUnconfirmed(acc, r) ==
    IF Listed(acc.list, r.tx, r.io) THEN acc
    ELSE [list |-> IF r.shown THEN Append(acc.list, r) ELSE acc.list, new |-> Append(acc.new, r)]

Unconfirmed(list, view, store) ==
    LET shown(r) == IF r.funding THEN view \in {"all", "credit", "unspent"}
                                 ELSE view \in {"all", "debit"}
        row(i) == [tx |-> TxAt(i), io |-> hist[i].io, funding |-> hist[i].funding,
                   value |-> IF hist[i].funding THEN i ELSE hist[i].of, shown |-> shown(hist[i])]
        of(funding) == LET ids == SelectSeq(store, LAMBDA i : hist[i].funding = funding)
                       IN  [k \in 1..Len(ids) |-> row(ids[k])]
    IN  IF IsMerged(view) THEN <<>>
        ELSE FoldLeft(AddUnconfirmed, [list |-> list, new |-> <<>>], of(TRUE) \o of(FALSE)).new

\* Balance of AddressData.  An empty page is taken for an address without
\* confirmed transactions.
AddressData(rows, store, N, offset, view) ==
    LET page == Transactions(rows, N, offset, view)
        balance == IF page = <<>> THEN RetrieveAddressBalance(<<>>) ELSE RetrieveAddressBalance(rows)
        new == Unconfirmed(page, view, store)
        received == CountRows(new, IsFunding)
        sent == CountRows(new, IsDebit)
    IN  [balance EXCEPT
            !.numSpent = @ + sent,
            !.numUnspent = @ + received - sent,
            !.totalSpent = @ + SumValues(new, IsDebit),
            !.totalUnspent = @ + SumValues(new, IsFunding) - SumValues(new, IsDebit)]

TxnCount(rows, view) ==
    LET bal == RetrieveAddressBalance(rows)
    IN  CASE IsMerged(view) -> CountMergedRows(rows, view)
          [] view = "all" -> 2 * bal.numSpent + bal.numUnspent
          [] view = "credit" -> bal.numSpent + bal.numUnspent
          [] view = "debit" -> bal.numSpent

-------------------------------------------------------------------------------
(* Properties. *)

Sizes == 1..MaxN
Offsets == 0..MaxN
Rows == RowsUpTo(mined)
PlainViews == Views \ {"unspent"}

\* The merged rows of a view: those of its direction, merged.
Merged(view) == MergeRows(SelectSeq(Rows, LAMBDA r : ~wrongDirection(view, r.funding)))

\* A page is the same whether its rows come from the cache or from the
\* database, for every view but the unspent one (see UnspentPagesAreUnspent).
PagesAgree ==
    \A view \in PlainViews, N \in Sizes, off \in Offsets :
        SliceAddressRows(Rows, N, off, view) = Transactions(Rows, N, off, view)

\* A merged page against the whole merged listing, whose length CountMergedRows
\* gives.  The page is the listing's part from its offset on, except that a
\* transaction of several rows just before the offset opens the page, less the row
\* by which it was skipped: the pages do not tile (see MergedPagesTile).
MergedPages ==
    \A view \in MergedViews :
        LET all == Merged(view)
            part(from, size) == SubSeq(all, from + 1, Min({from + size, Len(all)}))
            reopened(off) == off \in 1..Len(all) /\ all[off].count > 1
        IN  /\ CountMergedRows(Rows, view) = Len(all)
            /\ \A N \in Sizes, off \in Offsets :
                  LET page == MergeRowsRange(Rows, N, off, view)
                  IN  IF reopened(off)
                      THEN /\ page # <<>>
                           /\ Head(page).tx = all[off].tx /\ Head(page).count = all[off].count - 1
                           /\ Tail(page) = part(off, N - 1)
                      ELSE page = part(off, N)

\* The balance computed from the rows is the one the database computes, and
\* the counts shown for a view are the rows that its pages list.
BalancesAgree ==
    /\ ReduceAddressHistory(Rows) = RetrieveAddressBalance(Rows)
    /\ \A view \in PlainViews \ MergedViews :
          TxnCount(Rows, view) = Len(Transactions(Rows, MaxRows, 0, view))

\* The page of an address with confirmed rows counts the mempool's transactions
\* in the balance as it will once they are mined: the mempool may still hold
\* the transactions of the page, which were mined meanwhile.  No unconfirmed
\* transaction pays the address at the index at which it spends from it.
NoSharedIndex ==
    \A i, j \in (mined + 1)..Len(hist) :
        TxAt(i) = TxAt(j) /\ hist[i].io = hist[j].io => i = j
UnconfirmedCounted ==
    NoSharedIndex /\ mined > 0 =>
        \A first \in {1, mined + 1} :
            LET store == [k \in 1..(Len(hist) - first + 1) |-> first + k - 1]
                shown == AddressData(Rows, store, MaxRows, 0, "all")
                whole == RetrieveAddressBalance(RowsUpTo(Len(hist)))
            IN  \A f \in {"numSpent", "numUnspent", "totalSpent", "totalUnspent"} : shown[f] = whole[f]

AddressViewsAgree == PagesAgree /\ MergedPages /\ BalancesAgree /\ UnconfirmedCounted

\* MergeRowsRange: "offset applies to a hypothetical full results slice where
\* there are no repeated transaction hashes rather than to the input slice
\* where there may be repeated hashes".
MergedPagesTile ==
    \A view \in MergedViews, N \in Sizes, off \in Offsets :
        LET all == Merged(view)
        IN  MergeRowsRange(Rows, N, off, view) = SubSeq(all, off + 1, Min({off + N, Len(all)}))

\* SliceAddressUnspentCreditRows "selects a subset of the unspent crediting
\* elements of the AddressRow slice given the count and offset".
UnspentPagesAreUnspent ==
    \A N \in Sizes, off \in Offsets :
        LET page == SliceAddressUnspentCreditRows(Rows, N, off)
        IN  \A i \in 1..Len(page) : IsUnspent(page[i])

===============================================================================
