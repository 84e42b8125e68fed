------------------------------- MODULE ChainSync -------------------------------
(***************************************************************************)
(* The bulk load of the PostgreSQL tables: main.go's start-up, the         *)
(* synchronisation SyncChainDB of db/dcrpg/sync.go with the index and      *)
(* duplicate maintenance it calls (indexing.go, tables.go, queries.go), and *)
(* ensureSync, which repeats it until the tables are level with the node.  *)
(*                                                                         *)
(* The load drops every index, inserts without conflict checks, removes    *)
(* the duplicate rows this allows, and only then builds the unique indexes *)
(* and fills in the spending information.  The process may be killed       *)
(* between any two statements; what the next start finds is indexes,      *)
(* height, ibd, dups, leftover, unset and unmatched.  The rows of a block  *)
(* are the business of module ChainDB: here a block is its height, and a   *)
(* table is whether it holds duplicate rows.                               *)
(***************************************************************************)
EXTENDS Naturals, Integers, Sequences, FiniteSets, SequencesExt

CONSTANTS
    MaxHeight,    \* bound: the node's chain grows to this height
    MaxFaults,    \* bound: crashes, cancellations and statements that fail
    Remined,      \* heights that hold a transaction an earlier block held too
    Chunk         \* blocks per UPDATE of the addresses table (10000)

SyncConstants ==
    /\ MaxHeight \in Nat \ {0} /\ MaxFaults \in Nat
    /\ Remined \subseteq 1 .. MaxHeight
    /\ Chunk \in Nat \ {0}

VARIABLES
    (* PostgreSQL *)
    indexes,      \* the indexes that exist, one name for a table's own ones
    height,       \* meta.best_block_height, -1 when empty
    ibd,          \* meta.ibd_complete
    dups,         \* tables with rows that break their unique index
    leftover,     \* tables that keep rows of a block whose storing was cut off
    unset,        \* heights whose spends are not in vouts.spend_tx_row_id
    unmatched,    \* heights whose spends are not in addresses.matching_tx_hash
    (* the process *)
    pc, todo,     \* the step of the sync, and what is left of its loop
    newIndexes, updateAll, reindexing, dupChecks,
    nodeHeight,   \* SyncChainDB's nodeHeight
    cursor,       \* the first block of the next UPDATE of addresses
    failed,       \* why the last run stopped: "", or the refused statement
    kept,         \* indexes a DROP failed to remove in this run
    (* outside *)
    tip,          \* the node's best height
    faults

db == <<indexes, height, ibd, dups, leftover, unset, unmatched>>
args == <<newIndexes, updateAll, reindexing, dupChecks, nodeHeight>>
vars == <<db, pc, todo, args, cursor, failed, kept, tip, faults>>

-------------------------------------------------------------------------------
(* The indexes.                                                            *)

(* DeindexAll's list, table by table: the indexes on vouts.spend_tx_row_id *)
(* and addresses.matching_tx_hash have names of their own because they are *)
(* built separately.                                                       *)
DeindexAll ==
    <<"blocks", "transactions", "vins", "vouts", "spendtx", "addresses",
      "matching", "votes", "misses", "agendas", "agenda_votes", "proposals",
      "proposal_votes", "stats", "tickets">>

IndexAll ==
    <<"blocks", "transactions", "vins", "vouts", "votes", "misses", "agendas",
      "agenda_votes", "addresses", "proposals", "proposal_votes", "stats">>

IndexTicketsTable == <<"tickets">>

AllIndexes == ToSet(DeindexAll)

(* The tables whose index is unique: CREATE UNIQUE INDEX is refused while  *)
(* rows collide, and an INSERT ... ON CONFLICT is refused without it.       *)
UniqueIndexes ==
    AllIndexes \ {"spendtx", "matching", "proposal_votes", "stats"}

(* CREATE INDEX IF NOT EXISTS; the other statements fail on an index that  *)
(* is there already.                                                       *)
IfNotExists == {"vouts", "spendtx", "addresses", "matching", "tickets"}

(* MissingIndexes asks pg for every name of IndexDescriptions. *)
MissingIndexes == AllIndexes \ indexes

(* DeleteDuplicates' tables, in order. *)
DeleteDuplicates == <<"vins", "vouts", "transactions", "agendas", "agenda_votes">>

-------------------------------------------------------------------------------
(* The run ends with an error or with the process; what pg holds stays. *)
Down(why) ==
    /\ pc' = "down"
    /\ failed' = why
    /\ todo' = <<>>
    /\ cursor' = 0
    /\ newIndexes' = FALSE /\ updateAll' = FALSE /\ reindexing' = FALSE
    /\ dupChecks' = TRUE
    /\ nodeHeight' = 0

(* main: the command starts, checks the indexes, and, when one is missing, *)
(* asks for new indexes and for the addresses' spending information.       *)
Start ==
    /\ pc = "down"
    /\ pc' = "sync"
    /\ newIndexes' = (MissingIndexes # {})
    /\ updateAll' = (MissingIndexes # {})
    /\ failed' = "" /\ kept' = {}
    /\ UNCHANGED <<db, todo, reindexing, dupChecks, nodeHeight, cursor, tip, faults>>

(* main with --drop-indexes: all indexes are dropped, and the command ends. *)
DropIndexes ==
    /\ pc = "down" /\ faults < MaxFaults
    /\ faults' = faults + 1
    /\ indexes' = {}
    /\ UNCHANGED <<height, ibd, dups, leftover, unset, unmatched, pc, todo,
                   args, cursor, failed, kept, tip>>

(* SyncChainDB up to the removal of the indexes: an incomplete initial     *)
(* load forces a full reindexing and a full update of the addresses.       *)
Begin ==
    /\ pc = "sync"
    /\ nodeHeight' = tip
    /\ reindexing' = (newIndexes \/ height = -1 \/ ~ibd)
    /\ updateAll' = (updateAll \/ ~ibd)
    /\ IF reindexing'
       THEN pc' = "deindex" /\ todo' = DeindexAll /\ UNCHANGED dupChecks
       ELSE pc' = "flag" /\ dupChecks' = TRUE /\ UNCHANGED todo
    /\ kept' = {}
    /\ UNCHANGED <<db, newIndexes, cursor, failed, tip, faults>>

(* DeindexAll: one DROP.  A statement that fails is only logged. *)
Deindex ==
    /\ pc = "deindex" /\ todo # <<>>
    /\ todo' = Tail(todo)
    /\ \/ /\ indexes' = indexes \ {Head(todo)}
          /\ UNCHANGED <<kept, faults>>
       \/ /\ Head(todo) \in indexes /\ faults < MaxFaults
          /\ faults' = faults + 1
          /\ kept' = kept \union {Head(todo)}
          /\ UNCHANGED indexes
    /\ UNCHANGED <<height, ibd, dups, leftover, unset, unmatched, pc, args,
                   cursor, failed, tip>>

EnableDuplicateCheckOnInsert ==
    /\ pc = "deindex" /\ todo = <<>>
    /\ dupChecks' = FALSE
    /\ pc' = "flag"
    /\ UNCHANGED <<db, todo, newIndexes, updateAll, reindexing, nodeHeight,
                   cursor, failed, kept, tip, faults>>

(* SetIBDComplete(false), after the UTXO cache has been filled: a crash    *)
(* before this statement leaves the flag TRUE with the indexes gone.       *)
Flag ==
    /\ pc = "flag"
    /\ ibd' = (ibd /\ ~(reindexing \/ updateAll))
    /\ pc' = "load"
    /\ UNCHANGED <<indexes, height, dups, leftover, unset, unmatched, todo,
                   args, cursor, failed, kept, tip, faults>>

(* What an insert of block h does to the tables: with conflict checks a row *)
(* that is there is updated; without them it is there twice, and the       *)
(* unique index, when a failed DROP has left it, refuses it.               *)
Collides(h) == leftover \union (IF h \in Remined THEN {"vins", "vouts"} ELSE {})

(* One round of the loop: StoreBlock(block ib), then the node's height. *)
StoreBlock ==
    LET h == height + 1
    IN  /\ pc = "load" /\ height < nodeHeight
        /\ IF dupChecks
           THEN UniqueIndexes \subseteq indexes /\ UNCHANGED dups
           ELSE Collides(h) \cap indexes = {} /\ dups' = dups \union Collides(h)
        /\ leftover' = {}
        /\ height' = h
        /\ IF updateAll
           THEN unset' = unset \union {h} /\ unmatched' = unmatched \union {h}
           ELSE UNCHANGED <<unset, unmatched>>
        /\ nodeHeight' = tip
        /\ UNCHANGED <<indexes, ibd, pc, todo, newIndexes, updateAll, reindexing,
                       dupChecks, cursor, failed, kept, tip, faults>>

StoreBlockFails ==
    /\ pc = "load" /\ height < nodeHeight
    /\ IF dupChecks THEN ~(UniqueIndexes \subseteq indexes)
                    ELSE Collides(height + 1) \cap indexes # {}
    /\ Down("insert")
    /\ UNCHANGED <<db, kept, tip, faults>>

(* The loop is done: what follows depends on the kind of load. *)
LoadEnds ==
    /\ pc = "load" /\ height >= nodeHeight
    /\ IF reindexing
       THEN pc' = "dedupe" /\ todo' = DeleteDuplicates
       ELSE pc' = (IF updateAll THEN "vouts" ELSE "finish") /\ UNCHANGED todo
    /\ UNCHANGED <<db, args, cursor, failed, kept, tip, faults>>

(* DeleteDuplicate<table>: nothing to do when the unique index exists,     *)
(* otherwise every row of a group but the one with the lowest id goes.     *)
DeleteDuplicate ==
    /\ pc = "dedupe" /\ todo # <<>>
    /\ todo' = Tail(todo)
    /\ dups' = IF Head(todo) \in indexes THEN dups ELSE dups \ {Head(todo)}
    /\ UNCHANGED <<indexes, height, ibd, leftover, unset, unmatched, pc, args,
                   cursor, failed, kept, tip, faults>>

DuplicatesGone ==
    /\ pc = "dedupe" /\ todo = <<>>
    /\ pc' = "index"
    /\ todo' = IndexAll
               \o (IF updateAll THEN <<>> ELSE <<"matching", "spendtx">>)
               \o IndexTicketsTable
    /\ UNCHANGED <<db, args, cursor, failed, kept, tip, faults>>

(* CREATE INDEX is refused on colliding rows and, for most, when the index *)
(* exists.                                                                 *)
Refused(i) ==
    \/ i \in dups /\ i \in UniqueIndexes
    \/ i \in indexes /\ i \notin IfNotExists

Index ==
    /\ pc = "index" /\ todo # <<>> /\ ~Refused(Head(todo))
    /\ indexes' = indexes \union {Head(todo)}
    /\ todo' = Tail(todo)
    /\ UNCHANGED <<height, ibd, dups, leftover, unset, unmatched, pc, args,
                   cursor, failed, kept, tip, faults>>

IndexFails ==
    /\ pc = "index" /\ todo # <<>> /\ Refused(Head(todo))
    /\ Down("index")
    /\ UNCHANGED <<db, kept, tip, faults>>

Indexed ==
    /\ pc = "index" /\ todo = <<>>
    /\ pc' = IF updateAll THEN "vouts" ELSE "finish"
    /\ UNCHANGED <<db, todo, args, cursor, failed, kept, tip, faults>>

(* updateSpendTxInfoInAllVouts sets every spent output's spender in one     *)
(* statement; the index on it follows, and the one on the addresses'       *)
(* matching transaction is dropped.                                        *)
UpdateSpendTxInfoInAllVouts ==
    /\ pc = "vouts"
    /\ unset' = {}
    /\ pc' = "spendtx"
    /\ UNCHANGED <<indexes, height, ibd, dups, leftover, unmatched, todo, args,
                   cursor, failed, kept, tip, faults>>

IndexVoutTableOnSpendTxID ==
    /\ pc = "spendtx"
    /\ indexes' = indexes \union {"spendtx"}
    /\ pc' = "unmatch"
    /\ UNCHANGED <<height, ibd, dups, leftover, unset, unmatched, todo, args,
                   cursor, failed, kept, tip, faults>>

DeindexAddressTableOnMatchingTxHash ==
    /\ pc = "unmatch"
    /\ indexes' = indexes \ {"matching"}
    /\ pc' = "addresses" /\ cursor' = 0
    /\ UNCHANGED <<height, ibd, dups, leftover, unset, unmatched, todo, args,
                   failed, kept, tip, faults>>

(* Mutant: the last UPDATE stops short of the best block. *)
UpdateSpendingInfo_short ==
    LET end == IF cursor + Chunk > height THEN height ELSE cursor + Chunk
    IN  /\ pc = "addresses" /\ cursor <= height
        /\ unmatched' = unmatched \ ((cursor .. end - 1) \ unset)
        /\ cursor' = cursor + Chunk
        /\ UNCHANGED <<indexes, height, ibd, dups, leftover, unset, pc, todo,
                       args, failed, kept, tip, faults>>

(* UpdateSpendingInfoInAllAddresses: one UPDATE for the spends of blocks    *)
(* cursor to end - 1, from what vouts says of them.                        *)
UpdateSpendingInfo ==
    LET end == IF cursor + Chunk > height + 1 THEN height + 1 ELSE cursor + Chunk
    IN  /\ pc = "addresses" /\ cursor <= height
        /\ unmatched' = unmatched \ ((cursor .. end - 1) \ unset)
        /\ cursor' = cursor + Chunk
        /\ UNCHANGED <<indexes, height, ibd, dups, leftover, unset, pc, todo,
                       args, failed, kept, tip, faults>>

IndexAddressTableOnMatchingTxHash ==
    /\ pc = "addresses" /\ cursor > height
    /\ indexes' = indexes \union {"matching"}
    /\ pc' = "finish" /\ cursor' = 0
    /\ UNCHANGED <<height, ibd, dups, leftover, unset, unmatched, todo, args,
                   failed, kept, tip, faults>>

(* Conflict checks on again, and meta.ibd_complete. *)
Finish ==
    /\ pc = "finish"
    /\ dupChecks' = TRUE
    /\ ibd' = TRUE
    /\ pc' = "ensure"
    /\ UNCHANGED <<indexes, height, dups, leftover, unset, unmatched, todo,
                   newIndexes, updateAll, reindexing, nodeHeight, cursor,
                   failed, kept, tip, faults>>

(* Mutant: the node is not asked again. *)
EnsureSync_once ==
    /\ pc = "ensure"
    /\ newIndexes' = FALSE /\ updateAll' = FALSE /\ reindexing' = FALSE
    /\ pc' = "ready"
    /\ UNCHANGED <<db, todo, dupChecks, nodeHeight, cursor, failed, kept, tip,
                   faults>>

(* main's ensureSync: a plain sync as long as the node is ahead. *)
EnsureSync ==
    /\ pc = "ensure"
    /\ newIndexes' = FALSE /\ updateAll' = FALSE /\ reindexing' = FALSE
    /\ pc' = IF height < tip THEN "sync" ELSE "ready"
    /\ UNCHANGED <<db, todo, dupChecks, nodeHeight, cursor, failed, kept, tip,
                   faults>>

(* Live: the chain monitor stores each block the node connects from now on. *)
Connect ==
    /\ pc = "ready" /\ height = tip /\ tip < MaxHeight
    /\ UniqueIndexes \subseteq indexes
    /\ tip' = tip + 1
    /\ height' = tip'
    /\ leftover' = {}
    /\ UNCHANGED <<indexes, ibd, dups, unset, unmatched, pc, todo, args, cursor,
                   failed, kept, faults>>

-------------------------------------------------------------------------------
(* The loop's select on ctx.Done: SyncChainDB returns no error, but         *)
(* waitForSync reports the shutdown, and the command ends.                 *)
Cancel ==
    /\ pc = "load" /\ faults < MaxFaults
    /\ faults' = faults + 1
    /\ Down("")
    /\ UNCHANGED <<db, kept, tip>>

(* The process is killed.  In the middle of a StoreBlock the block's        *)
(* inputs and outputs may be in while its transactions are not: start-up   *)
(* removes a half-stored block by its transactions (module ChainDB) and    *)
(* does not see those rows.                                                *)
Crash ==
    /\ pc # "down" /\ faults < MaxFaults
    /\ faults' = faults + 1
    /\ \/ UNCHANGED <<leftover, tip>>
       \/ /\ \/ pc = "load" /\ height < nodeHeight /\ UNCHANGED tip
             \/ pc = "ready" /\ height = tip /\ tip < MaxHeight /\ tip' = tip + 1
          /\ leftover' = {"vins", "vouts"}
    /\ Down("")
    /\ UNCHANGED <<indexes, height, ibd, dups, unset, unmatched, kept>>

NodeGrows ==
    /\ pc # "ready" /\ tip < MaxHeight
    /\ tip' = tip + 1
    /\ UNCHANGED <<db, pc, todo, args, cursor, failed, kept, faults>>

(* CreateTables: empty tables and no index yet. *)
Init ==
    /\ indexes = {} /\ height = -1 /\ ibd = FALSE
    /\ dups = {} /\ leftover = {} /\ unset = {} /\ unmatched = {}
    /\ pc = "down" /\ todo = <<>>
    /\ newIndexes = FALSE /\ updateAll = FALSE /\ reindexing = FALSE
    /\ dupChecks = TRUE /\ nodeHeight = 0 /\ cursor = 0
    /\ failed = "" /\ kept = {}
    /\ tip = 0 /\ faults = 0

Sync ==
    \/ Start \/ Begin \/ Deindex \/ EnableDuplicateCheckOnInsert \/ Flag
    \/ StoreBlock \/ StoreBlockFails \/ LoadEnds \/ DeleteDuplicate
    \/ DuplicatesGone \/ Index \/ IndexFails \/ Indexed
    \/ UpdateSpendTxInfoInAllVouts \/ IndexVoutTableOnSpendTxID
    \/ DeindexAddressTableOnMatchingTxHash \/ UpdateSpendingInfo
    \/ IndexAddressTableOnMatchingTxHash \/ Finish \/ EnsureSync

Next == Sync \/ Connect \/ DropIndexes \/ Cancel \/ Crash \/ NodeGrows

(* The process is started again after it ended, and its goroutine runs. *)
Spec == Init /\ [][Next]_vars /\ WF_vars(Sync)

-------------------------------------------------------------------------------
(* Whatever the crashes before it, a process that reports "All ready" has  *)
(* every index, no colliding rows, the spending information of every       *)
(* block, conflict checks on and the initial load marked complete; and a   *)
(* load is refused an insert or an index only if a DROP failed before it.  *)
ReadyIsSound ==
    /\ pc = "ready" =>
         /\ indexes = AllIndexes
         /\ dups = {} /\ unset = {} /\ unmatched = {}
         /\ dupChecks /\ ibd
    /\ failed # "" => kept # {}

(* However it is interrupted, the load is completed in the end: the process *)
(* becomes ready at the node's height.                                     *)
Complete == pc = "ready" /\ height = tip
SyncCompletes == []<>Complete

===============================================================================
