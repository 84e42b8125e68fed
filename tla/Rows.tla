--------------------------------- MODULE Rows ---------------------------------
(***************************************************************************)
(* The tables of dcrpg as a whole: ChainDB.StoreBlock for blocks of the     *)
(* main chain and for imported side chain blocks, TipToSideChain, the purge *)
(* of the best block, the end of the initial sync and a restart.  A step is *)
(* a whole call; ChainDB has the crashes between its parts.                 *)
(***************************************************************************)
EXTENDS Queries

CONSTANTS
    ResetMax,   \* bound: vouts that one purge resets by accident
    MaxPast,    \* bound: how often "reorg", "purge", "import" and "restart" happen
    MaxEvents   \* bound: how often any of them happens

ASSUME RowsAssumption == ResetMax \in Nat /\ MaxEvents \in Nat /\
    MaxPast \in [{"reorg", "purge", "import", "restart"} -> Nat]

VARIABLES
    best,       \* ChainDB.bestBlock
    failed,     \* StoreBlock has returned an error
    past        \* how often "reorg", "purge", "import" and "restart" have happened

vars == <<db, utxoCache, mixDiffs, batch, stk, unspentTicketCache, best, failed, past>>

Empty == [x \in {} |-> None]

Init ==
    /\ db = [blocks |-> [b \in {Genesis} |-> [valid |-> TRUE, main |-> TRUE]],
             txs |-> Empty, vins |-> Empty, vouts |-> Empty, addrs |-> Empty]
    /\ stk = [tickets |-> Empty, votes |-> Empty, misses |-> {}]
    /\ utxoCache = Empty /\ unspentTicketCache = Empty /\ mixDiffs = Empty
    /\ batch \in BOOLEAN
    /\ best = Genesis /\ failed = FALSE /\ past = [e \in DOMAIN MaxPast |-> 0]

\* Event e happens, at most MaxPast[e] times.
Count(e) ==
    /\ past[e] < MaxPast[e]
    /\ MapThenSumSet(LAMBDA f : past[f], DOMAIN past) < MaxEvents
    /\ past' = [past EXCEPT ![e] = @ + 1]

-------------------------------------------------------------------------------
(* StoreBlock. *)

InsertBlock(d, b, main) ==
    [d EXCEPT !.blocks = Upsert(@, [x \in {b} |-> [valid |-> TRUE, main |-> main]], TakeNew)]

\* UpdateLastBlock has a parent to invalidate: the header's vote bits disapprove
\* it, and a side block does not speak for a parent on the main chain.
Invalidates(d, b, main) ==
    ~Approves[b] /\ (main \/ ~d.blocks[Parent(b)].main)

\* A bug in UpdateLastBlock: the outputs that the disapproved transactions spent
\* are not given back.
UpdateLastBlock_keepsSpends(d, b, main) ==
    LET p == Parent(b)
    IN  IF ~Invalidates(d, b, main) THEN d
        ELSE UpdateLastAddressesValid(UpdateTransactionsValid(UpdateLastVins(
                UpdateLastBlockValid(d, p), p, main), p), p)

\* UpdateLastBlock.  Where a transaction of the parent has been taken over by
\* another block its error ends StoreBlock half way.
UpdateLastBlock(d, b, main) ==
    LET p == Parent(b)
        d1 == clearVoutRegularSpendTxRowIDs(UpdateLastBlockValid(d, p), p)
    IN  IF ~Invalidates(d, b, main) THEN d
        ELSE IF TakenOver(d, p) # {} THEN d1
        ELSE UpdateLastAddressesValid(UpdateTransactionsValid(UpdateLastVins(d1, p, main), p), p)

\* StoreBlock(b) on the main chain (update TRUE) or beside it (update FALSE).
StoreBlock(b, main, node) ==
    LET T == BlockTxs[b]
        cache1 == updateUtxoCache(utxoCache, [o \in OutsOf(T) |-> o \in MixOut])
        mixed == MixedOuts(cache1, T)
        cache2 == updateUtxoCache(cache1, mixed)
        d0 == storeTxns(db, b, T, mixed, main, main)
        lost == Unfunded(d0, cache2, b) # {}
        d == InsertBlock(storeBlockTxnTree(db, b, mixed, main, main, ~batch), b, main)
        fails == lost \/ (Invalidates(d, b, main) /\ TakenOver(d, Parent(b)) # {})
        tickets == CacheTickets(unspentTicketCache, b)
        inserted == InsertTickets(stk, b, main, main)
    IN  /\ ~failed
        /\ \E row \in CollectTicketSpendDBInfo(inserted, tickets, b) :
              stk' = StoreStakeTree(stk, tickets, b, row, main, main, node)
        /\ unspentTicketCache' = ExpireCached(tickets, b, main)
        /\ utxoCache' = Get(cache2, Spends(T))
        /\ mixDiffs' = IF main /\ ~lost
                       THEN Upsert(mixDiffs, [h \in {HeightOf(b)} |-> mixDiff(d0, cache2, b, mixed)], TakeNew)
                       ELSE mixDiffs
        /\ db' = IF lost THEN d0 ELSE UpdateLastBlock(d, b, main)
        /\ failed' = fails
        /\ best' = IF main /\ ~fails THEN b ELSE best
        /\ UNCHANGED batch

\* Store, switchToSideChain and SyncChainDB: the next block of the main chain.
StoreMain(b) ==
    /\ b # Genesis /\ Parent(b) = best
    /\ StoreBlock(b, TRUE, b)
    /\ UNCHANGED past

\* main.go's import of side chain blocks the node has and the tables have not.
StoreSide(b) ==
    /\ ~batch
    /\ b \notin DOMAIN db.blocks /\ Parent(b) \in DOMAIN db.blocks
    /\ HeightOf(b) <= HeightOf(best)
    /\ StoreBlock(b, FALSE, best)
    /\ Count("import")

\* One turn of the loop of TipToSideChain.
TipToSideChain ==
    /\ ~failed /\ ~batch /\ best # Genesis
    /\ db' = BlockToSideChain(db, best)
    /\ stk' = StakeToSideChain(stk, best)
    /\ best' = Parent(best)
    /\ Count("reorg")
    /\ UNCHANGED <<utxoCache, unspentTicketCache, mixDiffs, batch, failed>>

\* DeleteBlocks(1), as the program starts: NewChainDB has loaded the tickets, the
\* outputs are loaded after the purge.
PurgeBestBlock ==
    /\ ~failed /\ ~batch /\ best # Genesis
    /\ \E hit \in SUBSET DOMAIN db.vouts :
          /\ Cardinality(hit) <= ResetMax
          /\ db' = DeleteBlockData(db, best, hit)
          /\ utxoCache' = Reinit(Empty, retrieveUTXOs(db', SelectUTXOs(db')))
    /\ stk' = DeleteStakeRows(stk, best)
    /\ unspentTicketCache' = RetrieveUnspentTickets(stk)
    /\ mixDiffs' = Empty
    /\ best' = Parent(best)
    /\ Count("purge")
    /\ UNCHANGED <<batch, failed>>

\* The end of SyncChainDB after updateAllAddresses.
BatchDone ==
    /\ batch /\ ~failed
    /\ batch' = FALSE
    /\ db' = UpdateSpendingInfoInAllAddresses(updateSpendTxInfoInAllVouts(db))
    /\ UNCHANGED <<utxoCache, mixDiffs, stk, unspentTicketCache, best, failed, past>>

\* A restart: SyncChainDB warms the cache with RetrieveUTXOs, or, when it is about
\* to update all addresses, with the vins join.
Restart ==
    /\ ~failed
    /\ utxoCache' = Reinit(Empty, retrieveUTXOs(db, IF batch THEN SelectUTXOsViaVinsMatch(db) ELSE SelectUTXOs(db)))
    /\ unspentTicketCache' = RetrieveUnspentTickets(stk)
    /\ mixDiffs' = Empty
    /\ Count("restart")
    /\ UNCHANGED <<db, batch, stk, best, failed>>

Next ==
    \/ \E b \in Block : StoreMain(b) \/ StoreSide(b)
    \/ TipToSideChain \/ PurgeBestBlock \/ BatchDone \/ Restart

Spec == Init /\ [][Next]_vars

-------------------------------------------------------------------------------
(* What the chain that ends in best says. *)

OnMain(b) == IsAncestor(b, best)
\* b's regular transactions count.  The blocks table decides: ChainDB shows that a
\* block stays invalid when the one that disapproved it leaves the main chain.
Stands(b) == db.blocks[b].valid
ChainTxs == {t \in Tx : \E b \in DOMAIN db.blocks : OnMain(b) /\ t \in BlockTxs[b] /\ (t \in Regular => Stands(b))}
SpentOnChain == {Prev(k) : k \in Spends(ChainTxs)}
ChainUtxos == {o \in OutsOf(ChainTxs) : Value(o) > 0 /\ o \notin SpentOnChain}

\* SelectUTXOs is the set of unspent outputs of the main chain.
UtxosAreUnspent == ~failed /\ ~batch /\ past.purge = 0 => SelectUTXOs(db) = ChainUtxos

\* An address row counts exactly when its transaction stands in the main chain,
\* and an output is never shown as unspent after its spender was stored.
CreditUnspent == {r \in DOMAIN db.addrs : r[1] = "credit" /\ db.addrs[r].valid /\ db.addrs[r].matching = None}
AddressRowsFollowChain ==
    ~failed /\ past.purge = 0 =>
        /\ {r \in DOMAIN db.addrs : db.addrs[r].valid} =
              {Credit(o) : o \in {x \in OutsOf(ChainTxs) : Value(x) > 0}} \cup {Debit(k) : k \in Spends(ChainTxs)}
        /\ ~batch => {r[2] : r \in CreditUnspent} \subseteq ChainUtxos
        /\ ~batch /\ past.reorg + past.import = 0 /\ (\A b \in DOMAIN db.blocks : OnMain(b) => Stands(b)) => \A o \in ChainUtxos : Credit(o) \in CreditUnspent

\* No reorganisation, side chain block or purge so far, and no block disapproved.
Plain == /\ past.reorg + past.import + past.purge = 0
         /\ \A b \in DOMAIN db.blocks : Stands(b)

\* A ticket that a vote or a revocation of the main chain spends has its row say so.
MainTicket(t) == CHOOSE x \in DOMAIN stk.tickets : x[1] = t /\ stk.tickets[x].main
TicketsFollowVotes ==
    ~failed /\ past.import = 0 =>
       \A v \in Votes \cup Revokes : v \in ChainTxs /\ Spent[v] \in ChainTxs =>
           LET by == stk.tickets[MainTicket(Spent[v])].info.by IN by # None /\ by[1] = v

\* The anonymity set of the charts is the same whether it is summed from the
\* differences StoreBlock leaves in mixSetDiffs or computed from the vouts table.
MixDiffsAgree ==
    ~failed /\ ~batch /\ Plain =>
        /\ \A h \in DOMAIN mixDiffs : mixDiffs[h] = AnonymitySetDiff(db, h)
        /\ \A h \in 0 .. HeightOf(best) :
              MixedUtxosByHeight(db, h, TRUE) + MixedUtxosByHeight(db, h, FALSE) =
              MapThenSumSet(LAMBDA i : AnonymitySetDiff(db, i), 0 .. h)

\* The pages of a list put together.
Pages(seq, N) == FlattenSeq([i \in 1 .. Len(seq) |-> Page(seq, N, (i - 1) * N)])
SumSeq(seq, f(_)) == FoldSeq(LAMBDA x, n : f(x) + n, 0, seq)

\* The answers about an address agree with each other and with the chain.
Addresses == {Addr(o) : o \in OutsOf(Tx)}
AddressQueriesAgree ==
    ~failed /\ ~batch /\ past.purge = 0 => \A a \in Addresses :
        LET bal == RetrieveAddressBalance(db, a)
            utxos == RetrieveAddressUTXOs(db, a, HeightOf(best))
            all == RetrieveAllMainchainAddressTxns(db, a)
            merged == RetrieveAllAddressMergedTxns(db, a, TRUE)
            mine == {o \in ChainUtxos : Addr(o) = a}
        IN  /\ <<bal.numUnspent, bal.totalUnspent>> = SelectAddressUnspentCountANDValue(db, a)
            /\ <<bal.numSpent, bal.totalSpent>> = SelectAddressSpentCountANDValue(db, a)
            /\ {Credit(u.out) : u \in utxos} =
                  {r \in ViewRows(db, a, "credit") : db.addrs[r].matching = None}
            /\ Pages(all, 2) = all
            /\ Len(merged) = countMerged(db, a, "merged")
            /\ SumSeq(merged, LAMBDA e : e.credit - e.debit) =
                  SumOf(ViewRows(db, a, "credit")) - bal.totalSpent
            /\ Plain => /\ bal.totalUnspent = MapThenSumSet(Value, mine)
                        /\ {u.out : u \in utxos} = mine
                        /\ Cardinality(utxos) = bal.numUnspent

\* The answers about transactions, blocks and tickets are those of the main chain.
ChainQueriesAgree ==
    ~failed /\ past.purge = 0 =>
        /\ \A t \in ChainTxs : \A x \in RetrieveDbTxByHash(db, t) : OnMain(x[2]) /\ db.txs[x].valid
        /\ \A o \in SpentOnChain : RetrieveSpendingTxByTxOut(db, o) \subseteq Spends(ChainTxs)
        /\ \A h \in 0 .. HeightOf(best) : RetrieveBlockHash(db, h) = {At(best, h)}
        /\ RetrieveBestBlockHeight(db) = {best}
        /\ \A t \in Tickets : RetrieveMissForTicket(db, stk, t) =
                {b \in DOMAIN db.blocks : OnMain(b) /\ t \in Missed(b, TRUE)}

\* The three above: two ways the program has of computing one thing agree, and
\* they agree with the main chain, whatever blocks were stored, imported,
\* disapproved and reorganised away.
QueriesAgree == MixDiffsAgree /\ AddressQueriesAgree /\ ChainQueriesAgree
===============================================================================
