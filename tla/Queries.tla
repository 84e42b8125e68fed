-------------------------------- MODULE Queries --------------------------------
(***************************************************************************)
(* What dcrpg answers about addresses, transactions, blocks and tickets:    *)
(* each SELECT as a set of rows or of groups of rows, and the function that *)
(* scans it, over the tables d of TxRows and s of StakeRows; a is an        *)
(* address.  A row's time is its block; ORDER BY block_time is the order of *)
(* heights.  "First" rows are those an ORDER BY without a total order may   *)
(* put first, so an answer is a member of the set.                          *)
(***************************************************************************)
EXTENDS StakeRows, SequencesExt

AddressRows(d, a) == {r \in DOMAIN d.addrs : AddrOf(r) = a}
ValidRows(d, a) == {r \in AddressRows(d, a) : d.addrs[r].valid}
IsFunding(r) == r[1] = "credit"
IsRegular(r) == TxOf(r) \in Regular
SumOf(R) == MapThenSumSet(ValueOf, R)
TxsOf(R) == {TxOf(r) : r \in R}

-------------------------------------------------------------------------------
(* Addresses: balances. *)

\* GROUP BY tx_type=0, is_funding, matching_tx_hash=''.
SelectAddressSpentUnspentCountAndValue(d, a) ==
    LET rows(g) == {r \in ValidRows(d, a) : /\ IsRegular(r) = g.isRegular
                                            /\ IsFunding(r) = g.isFunding
                                            /\ (d.addrs[r].matching = None) = g.noMatchingTx}
        keys == [isRegular : BOOLEAN, isFunding : BOOLEAN, noMatchingTx : BOOLEAN]
    IN  {[key |-> g, count |-> Cardinality(rows(g)), value |-> SumOf(rows(g))] :
            g \in {k \in keys : rows(k) # {}}}

SumField(G, f(_)) == MapThenSumSet(f, G)

\* A bug in RetrieveAddressBalance: spent outputs count as unspent too.
RetrieveAddressBalance_allCredits(d, a) ==
    LET G == SelectAddressSpentUnspentCountAndValue(d, a)
        unspent == {g \in G : g.key.isFunding}
        spent == {g \in G : ~g.key.isFunding /\ ~g.key.noMatchingTx}
    IN  [numUnspent |-> SumField(unspent, LAMBDA g : g.count),
         totalUnspent |-> SumField(unspent, LAMBDA g : g.value),
         numSpent |-> SumField(spent, LAMBDA g : g.count),
         totalSpent |-> SumField(spent, LAMBDA g : g.value),
         fromStake |-> 0, toStake |-> 0]

\* RetrieveAddressBalance.  FromStake and ToStake are fractions of the totals;
\* here they are their numerators.
RetrieveAddressBalance(d, a) ==
    LET G == SelectAddressSpentUnspentCountAndValue(d, a)
        unspent == {g \in G : g.key.isFunding /\ g.key.noMatchingTx}
        spent == {g \in G : ~g.key.isFunding /\ ~g.key.noMatchingTx}
    IN  [numUnspent |-> SumField(unspent, LAMBDA g : g.count),
         totalUnspent |-> SumField(unspent, LAMBDA g : g.value),
         numSpent |-> SumField(spent, LAMBDA g : g.count),
         totalSpent |-> SumField(spent, LAMBDA g : g.value),
         fromStake |-> SumField({g \in G : g.key.isFunding /\ ~g.key.isRegular}, LAMBDA g : g.value),
         toStake |-> SumField({g \in spent : ~g.key.isRegular}, LAMBDA g : g.value)]

\* RetrieveAddressUnspent and RetrieveAddressSpent.
SelectAddressUnspentCountANDValue(d, a) ==
    LET R == {r \in ValidRows(d, a) : IsFunding(r) /\ d.addrs[r].matching = None}
    IN  <<Cardinality(R), SumOf(R)>>

SelectAddressSpentCountANDValue(d, a) ==
    LET R == {r \in ValidRows(d, a) : ~IsFunding(r) /\ d.addrs[r].matching # None}
    IN  <<Cardinality(R), SumOf(R)>>

\* One row for each pair of an unspent credit and a row of its transaction: the
\* join does not ask for the main chain.
SelectAddressUnspentWithTxn(d, a) ==
    {<<r, x>> \in AddressRows(d, a) \X (DOMAIN d.txs) :
        /\ IsFunding(r) /\ d.addrs[r].matching = None /\ d.addrs[r].valid
        /\ x[1] = TxOf(r) /\ r[2] \in DOMAIN d.vouts}

\* RetrieveAddressUTXOs and RetrieveAddressDbUTXOs.
RetrieveAddressUTXOs(d, a, currentBlockHeight) ==
    {[out |-> p[1][2], satoshis |-> ValueOf(p[1]), height |-> HeightOf(p[2][2]),
      confirmations |-> currentBlockHeight - HeightOf(p[2][2]) + 1] :
        p \in SelectAddressUnspentWithTxn(d, a)}

-------------------------------------------------------------------------------
(* Lists of transactions. *)

\* The members of S in the order of op, ties in any order.
OrderBy(S, op(_, _)) == SortSeq(FoldSet(LAMBDA x, seq : Append(seq, x), <<>>, S), op)

\* ORDER BY block_time DESC.
Newest(d, R) == OrderBy(R, LAMBDA r, s : HeightOf(d.addrs[r].time) > HeightOf(d.addrs[s].time))

\* LIMIT N OFFSET offset.
Page(seq, N, offset) == SubSeq(seq, offset + 1, IF offset + N < Len(seq) THEN offset + N ELSE Len(seq))

\* SelectAddressesAllTxn; the recent ones are those after recentBlockTime.
RetrieveAddressTxnsOrdered(d, A, recentBlockTime) ==
    LET R == UNION {ValidRows(d, a) : a \in A}
    IN  [txs |-> TxsOf(R), recent |-> TxsOf({r \in R : HeightOf(d.addrs[r].time) > recentBlockTime})]

RetrieveAllAddressTxns(d, a) == Newest(d, AddressRows(d, a))
RetrieveAllMainchainAddressTxns(d, a) == Newest(d, ValidRows(d, a))

\* The rows of the three views that are not merged.
ViewRows(d, a, view) ==
    {r \in ValidRows(d, a) : CASE view = "all" -> TRUE
                               [] view = "credit" -> IsFunding(r)
                               [] view = "debit" -> ~IsFunding(r)}

\* scanAddressQueryRows, with the query type the caller passes.
scanAddressQueryRows(seq, queryType) ==
    [i \in DOMAIN seq |->
        [row |-> seq[i],
         atomsCredit |-> IF queryType = "credit" \/ (queryType = "creditDebit" /\ IsFunding(seq[i]))
                         THEN ValueOf(seq[i]) ELSE 0,
         atomsDebit |-> IF queryType = "debit" \/ (queryType = "creditDebit" /\ ~IsFunding(seq[i]))
                        THEN ValueOf(seq[i]) ELSE 0]]

\* RetrieveAddressTxns, RetrieveAddressCreditTxns and RetrieveAddressDebitTxns:
\* the last two pass each other's query type.
RetrieveAddressTxns(d, a, view, N, offset) ==
    scanAddressQueryRows(Page(Newest(d, ViewRows(d, a, view)), N, offset),
        CASE view = "all" -> "creditDebit" [] view = "credit" -> "debit" [] view = "debit" -> "credit")

\* GROUP BY (tx_hash, valid_mainchain, block_time), valid or not.
SelectAddressMergedView(d, a, view) ==
    LET R == {r \in AddressRows(d, a) : CASE view = "merged" -> TRUE
                                   [] view = "mergedCredit" -> IsFunding(r)
                                   [] view = "mergedDebit" -> ~IsFunding(r)}
        group(r) == {s \in R : TxOf(s) = TxOf(r) /\ d.addrs[s].valid = d.addrs[r].valid
                               /\ d.addrs[s].time = d.addrs[r].time}
    IN  OrderBy({group(r) : r \in R},
            LAMBDA S, T : HeightOf(d.addrs[CHOOSE r \in S : TRUE].time) >
                          HeightOf(d.addrs[CHOOSE r \in T : TRUE].time))

\* scanAddressMergedRows: rows off the main chain are dropped after LIMIT.
scanAddressMergedRows(d, seq, onlyValidMainchain) ==
    LET credit(S) == SumOf({r \in S : IsFunding(r)})
        debit(S) == SumOf({r \in S : ~IsFunding(r)})
        kept == SelectSeq(seq, LAMBDA S : ~onlyValidMainchain \/ \A r \in S : d.addrs[r].valid)
    IN  [i \in DOMAIN kept |->
            LET S == kept[i] IN
            [tx |-> TxOf(CHOOSE r \in S : TRUE), credit |-> credit(S), debit |-> debit(S),
             isFunding |-> credit(S) >= debit(S), mergedCount |-> Cardinality(S),
             value |-> IF credit(S) >= debit(S) THEN credit(S) - debit(S) ELSE debit(S) - credit(S)]]

RetrieveAddressMergedTxns(d, a, view, N, offset) ==
    scanAddressMergedRows(d, Page(SelectAddressMergedView(d, a, view), N, offset), TRUE)

RetrieveAllAddressMergedTxns(d, a, onlyValidMainchain) ==
    scanAddressMergedRows(d, SelectAddressMergedView(d, a, "merged"), onlyValidMainchain)

\* CountMergedTxns, CountMergedFundingTxns and CountMergedSpendingTxns.
countMerged(d, a, view) ==
    Cardinality(TxsOf({r \in ValidRows(d, a) : CASE view = "merged" -> TRUE
                                                 [] view = "mergedCredit" -> IsFunding(r)
                                                 [] view = "mergedDebit" -> ~IsFunding(r)}))

-------------------------------------------------------------------------------
(* Charts of an address, one point for each block time; they count rows of    *)
(* side chains and of disapproved blocks too.                                  *)

Times(d, a) == {HeightOf(d.addrs[r].time) : r \in AddressRows(d, a)}
RowsAt(d, a, h) == {r \in AddressRows(d, a) : HeightOf(d.addrs[r].time) = h}

\* retrieveAddressTxsCount: the number of points.
retrieveAddressTxsCount(d, a) == Cardinality(Times(d, a))

retrieveTxHistoryByType(d, a) ==
    [h \in Times(d, a) |->
        [sent |-> Cardinality({r \in RowsAt(d, a, h) : IsRegular(r) /\ ~IsFunding(r)}),
         received |-> Cardinality({r \in RowsAt(d, a, h) : IsRegular(r) /\ IsFunding(r)}),
         stake |-> Cardinality({r \in RowsAt(d, a, h) : ~IsRegular(r)})]]

retrieveTxHistoryByAmountFlow(d, a) ==
    [h \in Times(d, a) |->
        [received |-> SumOf({r \in RowsAt(d, a, h) : IsFunding(r)}),
         sent |-> SumOf({r \in RowsAt(d, a, h) : ~IsFunding(r)})]]

\* retrieveAddressIoCsv: a line for each row, valid or not.
retrieveAddressIoCsv(d, a) ==
    [i \in DOMAIN Newest(d, AddressRows(d, a)) |->
        LET r == Newest(d, AddressRows(d, a))[i] IN
        [tx |-> TxOf(r), direction |-> IF IsFunding(r) THEN 1 ELSE -1,
         validMainchain |-> d.addrs[r].valid, value |-> ValueOf(r), matching |-> d.addrs[r].matching]]

\* retrieveOldestTxBlockTime.
retrieveOldestTxBlockTime(d, a) == Min(Times(d, a))

-------------------------------------------------------------------------------
(* Chain: the order of rows. *)

\* ORDER BY with the keys of rank, best first: the rows that may come first.
FirstBy(R, rank(_)) ==
    {x \in R : \A y \in R :
        \/ rank(x) = rank(y)
        \/ \E i \in DOMAIN rank(x) : /\ rank(x)[i] > rank(y)[i]
                                     /\ \A j \in 1 .. i - 1 : rank(x)[j] = rank(y)[j]}
Flag(p) == IF p THEN 1 ELSE 0

-------------------------------------------------------------------------------
(* Transactions. *)

\* SelectFullTxsByHash: RetrieveDbTxsByHash, behind ChainDB.Transaction.
RetrieveDbTxsByHash(d, t) == {x \in DOMAIN d.txs : x[1] = t}

\* A bug in SelectFullTxByHash: the main chain does not come first.
RetrieveDbTxByHash_anyChain(d, t) ==
    FirstBy(RetrieveDbTxsByHash(d, t), LAMBDA x : <<Flag(d.txs[x].valid), HeightOf(x[2])>>)

\* SelectFullTxByHash: RetrieveDbTxByHash and RetrieveFullTxByHash.
RetrieveDbTxByHash(d, t) ==
    FirstBy(RetrieveDbTxsByHash(d, t),
            LAMBDA x : <<Flag(d.txs[x].main), Flag(d.txs[x].valid), HeightOf(x[2])>>)

\* SelectTxByHash: RetrieveTxByHash, behind ChainDB.TransactionBlock.
RetrieveTxByHash(d, t) ==
    FirstBy(RetrieveDbTxsByHash(d, t), LAMBDA x : <<Flag(d.txs[x].main), Flag(d.txs[x].valid)>>)

\* SelectTxBlockTimeByHash.
RetrieveTxBlockTimeByHash(d, t) == {HeightOf(x[2]) : x \in RetrieveDbTxByHash(d, t)}

\* SelectTxsByBlockHash: RetrieveTxsByBlockHash, behind ChainDB.BlockTransactions.
RetrieveTxsByBlockHash(d, b) == TxsOfBlock(d, b)

\* SelectTxsBlocks: RetrieveTxnsBlocks and ChainDB.TransactionBlocks, whose pages
\* take the first entry for the transaction's block.
TransactionBlocks(d, t) ==
    FirstBy(RetrieveDbTxsByHash(d, t),
            LAMBDA x : <<Flag(d.txs[x].valid), Flag(d.txs[x].main), HeightOf(x[2])>>)

\* RetrieveTxnsVinsVoutsByBlock.
RetrieveTxnsVinsVoutsByBlock(d, b, onlyRegular) ==
    LET T == IF onlyRegular THEN TxsOfBlock(d, b) \cap Regular ELSE TxsOfBlock(d, b)
    IN  [vins |-> InsOf(T), vouts |-> OutsOf(T)]

\* VinsForTx and VoutsForTx read the rows by id: a missing row is an error.
VinsForTx(d, x) == {k \in InsOf({x[1]}) : k \in DOMAIN d.vins}
VoutsForTx(d, x) == {o \in OutsOf({x[1]}) : o \in DOMAIN d.vouts}

\* SelectSpendingTxsByPrevTx: RetrieveSpendingTxsByFundingTx, behind
\* SpendingTransactions: spenders on any chain.
RetrieveSpendingTxsByFundingTx(d, t) == {k \in DOMAIN d.vins : Prev(k) # Coinbase /\ Prev(k)[1] = t}

\* SelectSpendingTxsByPrevTxWithBlockHeight; the join leaves a NULL height.
RetrieveSpendingTxsByFundingTxWithBlockHeight(d, t) ==
    {[vin |-> k, heights |-> {HeightOf(x[2]) : x \in {y \in DOMAIN d.txs :
                                 y[1] = k[1] /\ d.txs[y].valid /\ d.txs[y].main}}] :
        k \in {j \in RetrieveSpendingTxsByFundingTx(d, t) : d.vins[j].valid /\ d.vins[j].main}}

\* SelectSpendingTxByPrevOut: RetrieveSpendingTxByTxOut, behind SpendingTransaction.
RetrieveSpendingTxByTxOut(d, o) ==
    FirstBy({k \in DOMAIN d.vins : Prev(k) = o},
            LAMBDA k : <<Flag(d.vins[k].valid), Flag(d.vins[k].main), HeightOf(d.vins[k].time)>>)

\* RetrieveFundingOutpointByTxIn and its variants by row id.
RetrieveFundingOutpointByTxIn(d, k) == IF k \in DOMAIN d.vins THEN {Prev(k)} ELSE {}

\* SelectTxsBestBlock: RetrieveTxsBestBlockMainchain.
RetrieveTxsBestBlockMainchain(d) ==
    FirstBy({x[2] : x \in {y \in DOMAIN d.txs : d.txs[y].main}}, LAMBDA b : <<HeightOf(b)>>)

-------------------------------------------------------------------------------
(* The value of mixed outputs at each height, for the charts. *)

\* SelectMixedVouts, for spends above height h0: fund and spend heights.
SelectMixedVouts(d, h0) ==
    LET spent(o) == d.vouts[o].spend \in DOMAIN d.txs
    IN  {<<o, x>> \in (DOMAIN d.vouts) \X (DOMAIN d.txs) :
            /\ x[1] = o[1] /\ d.txs[x].main /\ d.vouts[o].mixed /\ Value(o) > 0
            /\ spent(o) => HeightOf(d.vouts[o].spend[2]) > h0}

\* The differences appendAnonymitySet computes from those rows.
AnonymitySetDiff(d, h) ==
    LET R == SelectMixedVouts(d, h - 1)
        spentAt == {p \in R : d.vouts[p[1]].spend \in DOMAIN d.txs /\ HeightOf(d.vouts[p[1]].spend[2]) = h}
    IN  MapThenSumSet(LAMBDA p : Value(p[1]), {p \in R : HeightOf(p[2][2]) = h})
        - MapThenSumSet(LAMBDA p : Value(p[1]), spentAt)

\* MixedUtxosByHeight: the value held in mixed outputs of a tree at height h.
MixedUtxosByHeight(d, h, regular) ==
    MapThenSumSet(LAMBDA p : Value(p[1]),
        {p \in SelectMixedVouts(d, -1) :
            /\ (p[1][1] \in Regular) = regular /\ HeightOf(p[2][2]) <= h
            /\ d.vouts[p[1]].spend \in DOMAIN d.txs => h < HeightOf(d.vouts[p[1]].spend[2])})

-------------------------------------------------------------------------------
(* Blocks. *)

\* RetrieveSideChainBlocks, RetrieveDisapprovedBlocks, RetrieveBlockStatus(es) and
\* RetrieveBlockFlags.
RetrieveSideChainBlocks(d) == {b \in DOMAIN d.blocks : ~d.blocks[b].main}
RetrieveDisapprovedBlocks(d) == {b \in DOMAIN d.blocks : ~d.blocks[b].valid}
RetrieveBlockStatuses(d, h) == {b \in DOMAIN d.blocks : HeightOf(b) = h}
RetrieveBlockFlags(d, b) == <<d.blocks[b].valid, d.blocks[b].main>>

\* RetrieveBlockHash: the block of the main chain at a height.
RetrieveBlockHash(d, h) == {b \in RetrieveBlockStatuses(d, h) : d.blocks[b].main}

RetrieveBestBlockHeight(d) == FirstBy({b \in DOMAIN d.blocks : d.blocks[b].main}, LAMBDA b : <<HeightOf(b)>>)
RetrieveBestBlockHeightAny(d) == FirstBy(DOMAIN d.blocks, LAMBDA b : <<HeightOf(b)>>)

\* retrieveWindowBlocks: the windows of the main chain, newest first.
retrieveWindowBlocks(d, windowSize, currentHeight, limit, offset) ==
    LET endWindow == currentHeight \div windowSize - offset
        heights == (endWindow - limit + 1) * windowSize .. (endWindow + 1) * windowSize - 1
        blocks == {b \in DOMAIN d.blocks : d.blocks[b].main /\ HeightOf(b) \in heights}
    IN  {[window |-> w, count |-> Cardinality({b \in blocks : HeightOf(b) \div windowSize = w})] :
            w \in {HeightOf(b) \div windowSize : b \in blocks}}

\* retrieveTimeBasedBlockListing groups every block, whichever chain it is on.
retrieveTimeBasedBlockListing(d, interval) ==
    [i \in {HeightOf(b) \div interval : b \in DOMAIN d.blocks} |->
        LET B == {b \in DOMAIN d.blocks : HeightOf(b) \div interval = i}
        IN  [endBlock |-> Max({HeightOf(b) : b \in B}), blocksCount |-> Cardinality(B)]]

-------------------------------------------------------------------------------
(* Tickets, votes and misses. *)

RetrieveMissedVotesInBlock(s, b) == {x[1] : x \in {y \in s.misses : y[2] = b}}

\* RetrieveMissesForTicket: on any chain.  RetrieveMissForTicket: on the main one.
RetrieveMissesForTicket(s, t) == {x[2] : x \in {y \in s.misses : y[1] = t}}
RetrieveMissForTicket(d, s, t) == {b \in RetrieveMissesForTicket(s, t) : b \in DOMAIN d.blocks /\ d.blocks[b].main}

\* RetrieveTicketStatusByHash and PoolStatusForTicket: main chain rows first.
RetrieveTicketStatusByHash(s, t) == {s.tickets[x].info : x \in RetrieveTicketIDByHash(s, t)}

\* RetrieveTicketInfoByHash: the block of the vote, when there is one and its
\* transaction row is still there.
RetrieveTicketInfoByHash(d, s, t) ==
    {[purchase |-> x[2], status |-> s.tickets[x].info.status,
      lottery |-> IF s.tickets[x].info.spend = "voted" THEN s.tickets[x].info.by[2] ELSE None,
      error |-> s.tickets[x].info.spend # "unspent" /\ s.tickets[x].info.by \notin DOMAIN d.txs] :
        x \in RetrieveTicketIDByHash(s, t)}

\* The live and immature tickets of retrieveTicketsByDate, retrieveTicketByPrice
\* and retrieveTicketsGroupedByType, whose groups partition them.
PoolTickets(s, maturityBlock) ==
    LET R == {x \in DOMAIN s.tickets : s.tickets[x].main /\ s.tickets[x].info.status = "live"}
    IN  [immature |-> {x[1] : x \in {y \in R : HeightOf(y[2]) >= maturityBlock}},
         live |-> {x[1] : x \in {y \in R : HeightOf(y[2]) < maturityBlock}}]

\* RetrieveBlockVoteCount, and the votes the page of a block lists.
VotesInBlock(d, b) == TxsOfBlock(d, b) \cap Votes

===============================================================================
