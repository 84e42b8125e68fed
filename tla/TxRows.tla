-------------------------------- MODULE TxRows --------------------------------
(***************************************************************************)
(* The blocks, transactions, vins, vouts and addresses tables of dcrpg and  *)
(* the cache of unspent outputs, while StoreBlock, TipToSideChain and       *)
(* DeleteBlockData change them.                                             *)
(*                                                                         *)
(* A table is a function from its unique key to the columns that change;    *)
(* the columns a transaction fixes (its outpoints, values and addresses)    *)
(* are the constants Ins and Outs.  A row id is the row's key.  block_time  *)
(* is the block.  Each operator on tables is one SQL statement or one Go    *)
(* function over them, so that StoreBlock is their composition.             *)
(***************************************************************************)
EXTENDS BlockTree, FiniteSetsExt

CONSTANTS
    Tx,         \* transaction hashes
    Ins,        \* Ins[t]: previous outpoints in order, or Coinbase
    Outs,       \* Outs[t]: outputs in order, [addr, value]
    Regular,    \* the transactions of tree 0; the others are stake transactions
    MixOut,     \* outpoints the extraction of a mix transaction marks as mixed
    BlockTxs,   \* the transactions of each block
    Approves,   \* VoteBits & 1 of each header
    Coinbase,   \* the zero hash of an input without a previous output
    None        \* SQL NULL and the empty string

ASSUME TxAssumption ==
    /\ Regular \subseteq Tx
    /\ BlockTxs \in [Block -> SUBSET Tx]
    /\ Approves \in [Block -> BOOLEAN]
    /\ DOMAIN Ins = Tx /\ DOMAIN Outs = Tx

VARIABLES
    db,         \* the tables
    utxoCache,  \* outpoint -> mixed flag
    mixDiffs,   \* ChainDB.mixSetDiffs: height -> change of the mixed value
    batch       \* the initial sync, which leaves spending info to its end

-------------------------------------------------------------------------------
(* Rows and keys. *)

InsOf(T) == UNION {{t} \X DOMAIN Ins[t] : t \in T}
OutsOf(T) == UNION {{t} \X DOMAIN Outs[t] : t \in T}
Prev(k) == Ins[k[1]][k[2]]
Spends(T) == {k \in InsOf(T) : Prev(k) # Coinbase}
Value(o) == Outs[o[1]][o[2]].value
Addr(o) == Outs[o[1]][o[2]].addr

\* Rows of the addresses table: credits come from vouts, debits from vins.
Credit(o) == <<"credit", o>>
Debit(k) == <<"debit", k>>
AddrOf(r) == IF r[1] = "credit" THEN Addr(r[2]) ELSE Addr(Prev(r[2]))
ValueOf(r) == IF r[1] = "credit" THEN Value(r[2]) ELSE Value(Prev(r[2]))
TxOf(r) == r[2][1]

\* Insert the rows new[k]; where the key exists, apply the ON CONFLICT rule.
Upsert(table, new, onConflict(_, _)) ==
    [k \in DOMAIN table \cup DOMAIN new |->
        IF k \notin DOMAIN new THEN table[k]
        ELSE IF k \notin DOMAIN table THEN new[k] ELSE onConflict(table[k], new[k])]

Update(table, where(_), set(_)) ==
    [k \in DOMAIN table |-> IF where(k) THEN set(table[k]) ELSE table[k]]

Delete(table, K) == [k \in DOMAIN table \ K |-> table[k]]

KeepOld(old, new) == old
TakeNew(old, new) == new

\* MakeVinInsertStatement, with duplicate checks on: the upsert rewrites every
\* column that can differ, the other form leaves the row of another block alone.
MakeVinInsertStatement(table, new, update) ==
    IF update THEN Upsert(table, new, TakeNew) ELSE Upsert(table, new, KeepOld)

\* The upsert of a vout sets its version only.
MakeVoutInsertStatement(table, new, update) == Upsert(table, new, KeepOld)

MakeTxInsertStatement(table, new, update) ==
    IF update THEN Upsert(table, new, TakeNew) ELSE Upsert(table, new, KeepOld)

MakeAddressRowInsertStatement(table, new, update) ==
    IF update THEN Upsert(table, new, TakeNew) ELSE Upsert(table, new, KeepOld)

-------------------------------------------------------------------------------
(* The cache of unspent outputs. *)

updateUtxoCache(c, outs) ==
    Upsert(c, [o \in {x \in DOMAIN outs : Value(x) > 0} |-> outs[o]], TakeNew)

\* utxoStore.Get removes what it finds.
Get(c, ks) == Delete(c, {Prev(k) : k \in ks})

\* utxoStore.Reinit: nothing found leaves the cache as it is.
Reinit(c, utxos) == IF DOMAIN utxos = {} THEN c ELSE utxos

-------------------------------------------------------------------------------
(* Storing the transactions of a block. *)

\* The mixed flags of the outputs of T: those of mix transactions come from the
\* extraction; a stake transaction whose inputs are all cached and mixed passes
\* the flag on, a regular one does not.
MixedOuts(c, T) ==
    LET inherits(t) == /\ t \notin Regular
                       /\ \A k \in Spends({t}) : Prev(k) \in DOMAIN c /\ c[Prev(k)]
    IN  [o \in OutsOf(T) |-> o \in MixOut \/ inherits(o[1])]

\* storeTxns: one transaction writes the vouts, the vins and the transactions.
storeTxns(d, b, T, mixed, main, update) ==
    [d EXCEPT
        !.vouts = MakeVoutInsertStatement(@,
            [o \in OutsOf(T) |-> [spend |-> None, mixed |-> mixed[o]]], update),
        !.vins = MakeVinInsertStatement(@,
            [k \in InsOf(T) |-> [valid |-> TRUE, main |-> main, time |-> b]], update),
        !.txs = MakeTxInsertStatement(@,
            [x \in T \X {b} |-> [valid |-> TRUE, main |-> main]], update)]

\* flattenAddressRows: outputs of no value have no row.  Every block is stored
\* as valid, so valid_mainchain is the block's place.
flattenAddressRows(T, b, main) ==
    [r \in {Credit(o) : o \in {x \in OutsOf(T) : Value(x) > 0}} |->
        [matching |-> None, time |-> b, valid |-> main]]

\* SetAddressMatchingTxHashForOutpoint over the inputs ks of the block.
SetSpendingForFundingOP(addrs, ks, main) ==
    [r \in DOMAIN addrs |->
        LET by == {k \in ks : r = Credit(Prev(k))}
        IN  IF by # {} /\ addrs[r].valid = main
            THEN [addrs[r] EXCEPT !.matching = (CHOOSE k \in by : TRUE)[1]]
            ELSE addrs[r]]

\* insertSpendingAddressRow for every input of the block.
insertSpendingAddressRow(addrs, b, ks, main, update, spending) ==
    LET debits == [r \in {Debit(k) : k \in ks} |->
                      [matching |-> Prev(r[2])[1], time |-> b, valid |-> main]]
        added == MakeAddressRowInsertStatement(addrs, debits, update)
    IN  IF spending THEN SetSpendingForFundingOP(added, ks, main) ELSE added

setSpendingForVouts(vouts, b, ks) ==
    [o \in DOMAIN vouts |->
        LET by == {k \in ks : Prev(k) = o}
        IN  IF by = {} THEN vouts[o]
            ELSE [vouts[o] EXCEPT !.spend = <<(CHOOSE k \in by : TRUE)[1], b>>]]

\* storeBlockTxnTree for both trees of b: they touch no common row.
storeBlockTxnTree(d, b, mixed, main, update, spending) ==
    LET T == BlockTxs[b]
        d1 == storeTxns(d, b, T, mixed, main, update)
        credits == MakeAddressRowInsertStatement(d1.addrs, flattenAddressRows(T, b, main), update)
        addrs == insertSpendingAddressRow(credits, b, Spends(T), main, update, spending)
        vouts == IF spending /\ main THEN setSpendingForVouts(d1.vouts, b, Spends(T)) ELSE d1.vouts
    IN  [d1 EXCEPT !.addrs = addrs, !.vouts = vouts]

\* The inputs of b that neither the cache nor the vouts table knows: an error.
Unfunded(d, c, b) == {k \in Spends(BlockTxs[b]) : Prev(k) \notin DOMAIN c \cup DOMAIN d.vouts}

\* A bug in the change of the mixed value: spends of mixed outputs are not taken off.
mixDiff_noSpends(d, c, b, mixed) == MapThenSumSet(Value, {o \in OutsOf(BlockTxs[b]) : mixed[o]})

\* The change of the mixed value: what the block creates less what it spends.
\* An input's flag comes from the cache, else from its vouts row.
mixDiff(d, c, b, mixed) ==
    LET T == BlockTxs[b]
        isMixed(o) == IF o \in DOMAIN c THEN c[o] ELSE d.vouts[o].mixed
    IN  MapThenSumSet(Value, {o \in OutsOf(T) : mixed[o]})
        - MapThenSumSet(LAMBDA k : Value(Prev(k)), {k \in Spends(T) : isMixed(Prev(k))})
-------------------------------------------------------------------------------
(* The parent of a stored block, and blocks that leave the main chain. *)

TxsOfBlock(d, b) == {x[1] : x \in {y \in DOMAIN d.txs : y[2] = b}}

ClearSpend(vouts, X) ==
    Update(vouts, LAMBDA o : vouts[o].spend \in X, LAMBDA row : [row EXCEPT !.spend = None])

clearVoutRegularSpendTxRowIDs(d, b) ==
    [d EXCEPT !.vouts = ClearSpend(@, {x \in DOMAIN d.txs : x[2] = b /\ x[1] \in Regular})]

clearVoutAllSpendTxRowIDs(d, b) ==
    [d EXCEPT !.vouts = ClearSpend(@, {x \in DOMAIN d.txs : x[2] = b})]

\* The transactions of b none of whose vins rows carry b's time: another block
\* has taken them over, and UpdateLastVins fails on them.
TakenOver(d, b) == 
    {t \in TxsOfBlock(d, b) : \A k \in InsOf({t}) \cap DOMAIN d.vins : d.vins[k].time # b}

\* UpdateLastVins(b, FALSE, main): the vins of stake transactions stay valid.
UpdateLastVins(d, b, main) ==
    [d EXCEPT !.vins = [k \in DOMAIN @ |->
        IF k[1] \in TxsOfBlock(d, b) /\ @[k].time = b
        THEN [@[k] EXCEPT !.valid = k[1] \notin Regular, !.main = main] ELSE @[k]]]

UpdateTransactionsValid(d, b) ==
    [d EXCEPT !.txs = Update(@, LAMBDA x : x[2] = b /\ x[1] \in Regular,
                             LAMBDA row : [row EXCEPT !.valid = FALSE])]

\* A bug in UpdateAddressesMainchainByIDs: the debits are forgotten.
UpdateAddressesMainchainByIDs_creditsOnly(d, T) ==
    [d EXCEPT !.addrs = Update(@, LAMBDA r : r[1] = "credit" /\ TxOf(r) \in T,
                               LAMBDA row : [row EXCEPT !.valid = FALSE])]

\* valid_mainchain := FALSE for the rows of the vins and vouts of T.
UpdateAddressesMainchainByIDs(d, T) ==
    [d EXCEPT !.addrs = Update(@, LAMBDA r : TxOf(r) \in T,
                               LAMBDA row : [row EXCEPT !.valid = FALSE])]

UpdateLastAddressesValid(d, b) ==
    UpdateAddressesMainchainByIDs(d, TxsOfBlock(d, b) \cap Regular)

UpdateLastBlockValid(d, b) == [d EXCEPT !.blocks[b].valid = FALSE]

UpdateTransactionsMainchain(d, b) ==
    [d EXCEPT !.txs = Update(@, LAMBDA x : x[2] = b, LAMBDA row : [row EXCEPT !.main = FALSE])]

\* SetVinsMainchainByBlock reads the flag just written to the transactions.
SetVinsMainchainByBlock(d, b) ==
    [d EXCEPT !.vins = [k \in DOMAIN @ |->
        IF <<k[1], b>> \in DOMAIN d.txs THEN [@[k] EXCEPT !.main = d.txs[<<k[1], b>>].main] ELSE @[k]]]

SetMainchainByBlockHash(d, b) == [d EXCEPT !.blocks[b].main = FALSE]

\* One turn of the loop of TipToSideChain over the transaction tables.
BlockToSideChain(d, b) ==
    LET d1 == UpdateTransactionsMainchain(SetMainchainByBlockHash(d, b), b)
        d2 == SetVinsMainchainByBlock(clearVoutAllSpendTxRowIDs(d1, b), b)
    IN  UpdateAddressesMainchainByIDs(d2, TxsOfBlock(d2, b))

-------------------------------------------------------------------------------
(* Purging a block. *)

\* resetSpendingForVoutsByTxRowID compares the ids of the removed transactions
\* with the ids of vouts, two unrelated sequences: any few vouts may be hit.
resetSpendingForVoutsByTxRowID(d, hit) ==
    [d EXCEPT !.vouts = Update(@, LAMBDA o : o \in hit, LAMBDA row : [row EXCEPT !.spend = None])]

\* DeleteBlockData over the transaction tables: vins, vouts and addresses of the
\* block's transactions go even when another block holds the same transaction.
DeleteBlockData(d, b, hit) ==
    LET T == TxsOfBlock(d, b)
        d1 == [d EXCEPT !.vins = Delete(@, InsOf(T)),
                        !.vouts = Delete(@, OutsOf(T)),
                        !.addrs = Delete(@, {r \in DOMAIN @ : TxOf(r) \in T}),
                        !.txs = Delete(@, {x \in DOMAIN @ : x[2] = b}),
                        !.blocks = Delete(@, {b})]
    IN  resetSpendingForVoutsByTxRowID(d1, hit)

-------------------------------------------------------------------------------
(* The whole tables: unspent outputs, and the end of the initial sync. *)

InMain(d, t) == \E x \in DOMAIN d.txs : x[1] = t /\ d.txs[x].main /\ d.txs[x].valid

SelectUTXOs(d) ==
    {o \in DOMAIN d.vouts : d.vouts[o].spend = None /\ Value(o) > 0 /\ InMain(d, o[1])}

\* No vins row of any block spends the output.
SelectUTXOsViaVinsMatch(d) ==
    {o \in DOMAIN d.vouts : InMain(d, o[1]) /\ \A k \in DOMAIN d.vins : Prev(k) # o}

\* retrieveUTXOs with either query.
retrieveUTXOs(d, outs) == [o \in outs |-> d.vouts[o].mixed]

\* updateSpendTxInfoInAllVouts: the join does not ask which block of the main
\* chain the valid row of the spending transaction belongs to.
SpendersOf(d, o) ==
    {x \in DOMAIN d.txs : /\ d.txs[x].valid
                          /\ \E k \in DOMAIN d.vins : k[1] = x[1] /\ Prev(k) = o /\ d.vins[k].main}

updateSpendTxInfoInAllVouts(d) ==
    [d EXCEPT !.vouts = [o \in DOMAIN @ |->
        IF Value(o) > 0 /\ SpendersOf(d, o) # {}
        THEN [@[o] EXCEPT !.spend = CHOOSE x \in SpendersOf(d, o) : TRUE] ELSE @[o]]]

\* UpdateSpendingInfoInAllAddresses: its chunks cover every height.
UpdateSpendingInfoInAllAddresses(d) ==
    [d EXCEPT !.addrs = [r \in DOMAIN @ |->
        IF r[1] = "credit" /\ r[2] \in DOMAIN d.vouts /\ d.vouts[r[2]].spend \in DOMAIN d.txs
        THEN [@[r] EXCEPT !.matching = d.vouts[r[2]].spend[1]] ELSE @[r]]]
===============================================================================
