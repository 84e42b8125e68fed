-------------------------------- MODULE ChainDB --------------------------------
(***************************************************************************)
(* dcrpg.ChainDB: the PostgreSQL tables, the best block kept in the meta    *)
(* table and in memory, and the stake database beside them, while main.go   *)
(* starts the program, SyncChainDB catches up with the node and the chain   *)
(* monitors store new blocks and reorganise.                                *)
(*                                                                         *)
(* Every step ends in one committed statement or transaction, so a crash    *)
(* can fall between any two.  The transactions, vins, vouts, addresses,     *)
(* votes and tickets of a block are one entry of txs: StoreBlock writes     *)
(* them together before the blocks row, and every query that decides        *)
(* anything at start reads the transactions table only.                     *)
(***************************************************************************)
EXTENDS BlockTree, FiniteSetsExt

CONSTANTS
    Approves,       \* VoteBits & 1 of each header: its view of the parent
    NoBlock,        \* the empty hash of an empty table
    ChargeDepth,    \* blocks below the best that ChargePoolInfoCache loads (2)
    TornCrash       \* a crash may also part the transactions and blocks tables

ASSUME VoteAssumption == Approves \in [Block -> BOOLEAN]
ASSUME NoBlockAssumption == NoBlock \notin Block
ASSUME ChargeAssumption == ChargeDepth \in Nat
ASSUME CrashAssumption == TornCrash \in BOOLEAN

VARIABLES
    nodeTip,    \* the node's best block (external)
    blocks,     \* blocks table: hash -> is_mainchain, is_valid
    txs,        \* transactions table: block hash -> is_mainchain
    next,       \* block_chain table: hash -> next_hash
    meta,       \* meta table: best block
    stake,      \* best block of the stake database
    best,       \* memory: ChainDB.bestBlock
    known,      \* memory: blocks whose pool info is in the stake DB's cache
    phase,      \* "down", "failed", a step of the start, "sync" or "running"
    count,      \* the start: dbHeightInit, then the blocks left to purge
    pc,         \* where a handler or StoreBlock is
    root,       \* CommonAncestor of the reorganisation
    newChain    \* blocks still to be stored

tables == <<blocks, txs, next, meta>>
job == <<pc, root, newChain>>
vars == <<nodeTip, tables, stake, best, known, phase, count, job>>

H(b) == IF b = NoBlock THEN -1 ELSE HeightOf(b)

Put(f, b, v) == [x \in DOMAIN f \cup {b} |-> IF x = b THEN v ELSE f[x]]
Drop(f, b) == [x \in DOMAIN f \ {b} |-> f[x]]

\* A block of greatest height in S; NoBlock when the query has no row.
Highest(S) == IF S = {} THEN NoBlock ELSE CHOOSE b \in S : \A x \in S : HeightOf(x) <= HeightOf(b)

MainBlocks == {b \in DOMAIN blocks : blocks[b].main}
MainTxs == {b \in DOMAIN txs : txs[b]}

RetrieveBestBlock == Highest(MainBlocks)
RetrieveTxsBestBlockMainchain == Highest(MainTxs)

Idle == phase = "running" /\ pc = "idle"

\* Empty tables and a fresh stake database.
Init ==
    /\ nodeTip \in Block
    /\ blocks = <<>> /\ txs = <<>> /\ next = <<>> /\ meta = NoBlock
    /\ stake = Genesis
    /\ best = NoBlock /\ known = {}
    /\ phase = "down" /\ count = 0
    /\ pc = "idle" /\ root = Genesis /\ newChain = <<>>

-------------------------------------------------------------------------------
(* The node (external).  Its best block never gets lower.  It does not      *)
(* return to a branch the stake database is leaving while the tables are    *)
(* still on it, and stays where it is while the program starts.             *)

StakeTarget == IF newChain = <<>> THEN stake ELSE newChain[Len(newChain)]

NodeMoves(b) ==
    /\ phase \in {"down", "failed", "running"}
    /\ b # nodeTip
    /\ HeightOf(b) >= HeightOf(nodeTip)
    /\ meta # NoBlock => ForkHeight(b, meta) <= ForkHeight(b, StakeTarget)
    /\ nodeTip' = b
    /\ UNCHANGED <<tables, stake, best, known, phase, count, job>>

-------------------------------------------------------------------------------
(* StoreBlock of the first block of newChain, called with isValid and       *)
(* isMainchain TRUE.                                                        *)

\* An error from StoreBlock ends the handler, or the start.
StoreFails ==
    /\ newChain' = <<>>
    /\ pc' = "idle"
    /\ phase' = IF phase = "sync" THEN "failed" ELSE phase

\* The pool info of the block and of its parent must be in the stake DB's cache;
\* then storeBlockTxnTree commits the rows of both trees.
StoreTxns ==
    LET b == Head(newChain)
    IN  /\ pc = "store"
        /\ IF b \in known /\ Parent(b) \in known
           THEN /\ txs' = Put(txs, b, TRUE)
                /\ pc' = "block"
                /\ UNCHANGED <<phase, newChain>>
           ELSE StoreFails /\ UNCHANGED txs
        /\ UNCHANGED <<nodeTip, blocks, next, meta, stake, best, known, count, root>>

\* InsertBlock: an upsert that sets both flags.
InsertBlock ==
    /\ pc = "block"
    /\ blocks' = Put(blocks, Head(newChain), [main |-> TRUE, valid |-> TRUE])
    /\ pc' = "link"
    /\ UNCHANGED <<nodeTip, txs, next, meta, stake, best, known, phase, count, root, newChain>>

\* InsertBlockPrevNext: an existing row is kept as it is.
InsertBlockPrevNext ==
    /\ pc = "link"
    /\ next' = IF Head(newChain) \in DOMAIN next THEN next
               ELSE Put(next, Head(newChain), NoBlock)
    /\ pc' = "last"
    /\ UNCHANGED <<nodeTip, blocks, txs, meta, stake, best, known, phase, count, root, newChain>>

\* A bug in UpdateLastBlock: a parent that already has a next block keeps it.
UpdateLastBlock_keepsNext ==
    LET b == Head(newChain)
        p == Parent(b)
    IN  /\ pc = "last"
        /\ next' = IF b # Genesis /\ next[p] = NoBlock THEN Put(next, p, b) ELSE next
        /\ blocks' = IF b = Genesis \/ Approves[b] THEN blocks
                     ELSE [blocks EXCEPT ![p].valid = FALSE]
        /\ best' = b
        /\ pc' = "meta"
        /\ UNCHANGED <<nodeTip, txs, meta, stake, known, count, root, phase, newChain>>

\* A bug in UpdateLastBlock: the votes are not looked at.
UpdateLastBlock_noVotes ==
    LET b == Head(newChain)
    IN  /\ pc = "last"
        /\ next' = IF b = Genesis THEN next ELSE Put(next, Parent(b), b)
        /\ best' = b
        /\ pc' = "meta"
        /\ UNCHANGED <<nodeTip, blocks, txs, meta, stake, known, count, root, phase, newChain>>

\* UpdateLastBlock, then the best block in memory.  The parent's next hash is set,
\* and its rows are made invalid when this block's votes disapprove it.
UpdateLastBlock ==
    LET b == Head(newChain)
        p == Parent(b)
    IN  /\ pc = "last"
        /\ IF b = Genesis \/ p \in DOMAIN next
           THEN /\ next' = IF b = Genesis THEN next ELSE Put(next, p, b)
                /\ blocks' = IF b = Genesis \/ Approves[b] \/ p \notin DOMAIN blocks
                             THEN blocks
                             ELSE [blocks EXCEPT ![p].valid = FALSE]
                /\ best' = b
                /\ pc' = "meta"
                /\ UNCHANGED <<phase, newChain>>
           ELSE StoreFails /\ UNCHANGED <<next, blocks, best>>
        /\ UNCHANGED <<nodeTip, txs, meta, stake, known, count, root>>

\* A bug in StoreBlock: only the batch sync updates the meta table.
SetDBBestBlock_syncOnly ==
    /\ pc = "meta"
    /\ meta' = IF phase = "sync" THEN Head(newChain) ELSE meta
    /\ newChain' = Tail(newChain)
    /\ pc' = IF Tail(newChain) = <<>> THEN "idle" ELSE "store"
    /\ UNCHANGED <<nodeTip, blocks, txs, next, stake, best, known, phase, count, root>>

\* InsertBlockStats and SetDBBestBlock; the caller goes on to its next block.
SetDBBestBlock ==
    /\ pc = "meta"
    /\ meta' = Head(newChain)
    /\ newChain' = Tail(newChain)
    /\ pc' = IF Tail(newChain) = <<>> THEN "idle" ELSE "store"
    /\ UNCHANGED <<nodeTip, blocks, txs, next, stake, best, known, phase, count, root>>

StoreBlock == StoreTxns \/ InsertBlock \/ InsertBlockPrevNext \/ UpdateLastBlock \/ SetDBBestBlock

-------------------------------------------------------------------------------
(* The notifier's handlers: the stake database's group first, then this     *)
(* one's.  The notifier's previous block is the one they handled last.      *)

\* ConnectBlock of both monitors for the next block on the node's branch.
ConnectBlock(b) ==
    /\ Idle
    /\ IsAncestor(b, nodeTip)
    /\ b # Genesis /\ Parent(b) = stake
    /\ stake' = b
    /\ known' = known \cup {b}
    /\ newChain' = <<b>>
    /\ pc' = "store"
    /\ UNCHANGED <<nodeTip, tables, best, phase, count, root>>

\* A bug in ReorgHandler: a new head that is no higher is not followed.
ReorgHandler_higherOnly ==
    LET fork == ForkHeight(nodeTip, stake)
    IN  /\ Idle
        /\ ~IsAncestor(stake, nodeTip)
        /\ HeightOf(nodeTip) > HeightOf(stake)
        /\ root' = At(nodeTip, fork)
        /\ newChain' = SubSeq(Chain[nodeTip], fork + 1, HeightOf(nodeTip))
        /\ pc' = "stakeDown"
        /\ UNCHANGED <<nodeTip, tables, stake, best, known, phase, count>>

\* The node is on another branch: its best block is the new head.
ReorgHandler ==
    LET fork == ForkHeight(nodeTip, stake)
    IN  /\ Idle
        /\ ~IsAncestor(stake, nodeTip)
        /\ root' = At(nodeTip, fork)
        /\ newChain' = SubSeq(Chain[nodeTip], fork + 1, HeightOf(nodeTip))
        /\ pc' = "stakeDown"
        /\ UNCHANGED <<nodeTip, tables, stake, best, known, phase, count>>

\* The stake database's ReorgHandler, one block at a time, down and up.
StakeDown ==
    /\ pc = "stakeDown"
    /\ IF stake = root
       THEN pc' = "stakeUp" /\ UNCHANGED stake
       ELSE stake' = Parent(stake) /\ UNCHANGED pc
    /\ UNCHANGED <<nodeTip, tables, best, known, phase, count, root, newChain>>

StakeUp ==
    /\ pc = "stakeUp"
    /\ stake' = newChain[HeightOf(stake) - HeightOf(root) + 1]
    /\ known' = known \cup {stake'}
    /\ pc' = IF stake' = newChain[Len(newChain)] THEN "side" ELSE pc
    /\ UNCHANGED <<nodeTip, tables, best, phase, count, root, newChain>>

\* A bug in TipToSideChain: the blocks row of the tip stays on the main chain.
SetMainchainByBlockHash_none ==
    /\ pc = "side"
    /\ pc' = IF best = root THEN "store" ELSE "sideTxns"
    /\ UNCHANGED <<nodeTip, tables, stake, best, known, phase, count, root, newChain>>

\* TipToSideChain.  The loop ends when the tip is mainRoot; otherwise the tip's
\* blocks row leaves the main chain first ...
SetMainchainByBlockHash ==
    /\ pc = "side"
    /\ IF best = root
       THEN pc' = "store" /\ UNCHANGED blocks
       ELSE /\ blocks' = [blocks EXCEPT ![best].main = FALSE]
            /\ pc' = "sideTxns"
    /\ UNCHANGED <<nodeTip, txs, next, meta, stake, best, known, phase, count, root, newChain>>

\* ... then the rows of its transactions, and memory moves to the previous block.
\* The meta table is not touched.
UpdateTransactionsMainchain ==
    /\ pc = "sideTxns"
    /\ txs' = [txs EXCEPT ![best] = FALSE]
    /\ best' = Parent(best)
    /\ pc' = "side"
    /\ UNCHANGED <<nodeTip, blocks, next, meta, stake, known, phase, count, root, newChain>>

-------------------------------------------------------------------------------
(* The start: NewChainDB, the tip check, the purge, the rewind of the stake *)
(* database, the pool info cache, SyncChainDB.                              *)

Crash ==
    /\ phase \notin {"down", "failed"}
    /\ TornCrash \/ pc \notin {"block", "sideTxns"}
    /\ phase' = "down"
    /\ best' = NoBlock /\ known' = {} /\ count' = 0
    /\ pc' = "idle" /\ root' = Genesis /\ newChain' = <<>>
    /\ UNCHANGED <<nodeTip, tables, stake>>

\* NewChainDB: the best block is the higher of the two tables' best.
NewChainDB ==
    /\ phase \in {"down", "failed"}
    /\ best' = IF H(RetrieveTxsBestBlockMainchain) > H(RetrieveBestBlock)
               THEN RetrieveTxsBestBlockMainchain
               ELSE RetrieveBestBlock
    /\ count' = H(meta)
    /\ known' = {Genesis}
    /\ phase' = "open"
    /\ UNCHANGED <<nodeTip, tables, stake, job>>

\* DeleteBlockData of the best main chain block of the blocks table, in one SQL
\* transaction: its rows go and its parent has no next block.  The parent's
\* is_valid stays.
DeleteBlockData ==
    LET b == RetrieveBestBlock
    IN  IF b = NoBlock THEN UNCHANGED <<blocks, txs, next>>
        ELSE /\ blocks' = Drop(blocks, b)
             /\ txs' = Drop(txs, b)
             /\ next' = IF b # Genesis /\ Parent(b) \in DOMAIN next
                        THEN Put(Drop(next, b), Parent(b), NoBlock)
                        ELSE Drop(next, b)

\* A bug in NewChainDB: only the heights are compared.
MustPurge_heightsOnly == count < H(best)

\* NewChainDB purges while the hashes differ or the tables are ahead of the height
\* the meta table started with.  A meta table ahead of the tables differs in its
\* hash, and the one purge it gets makes the two equal.
MustPurge == meta # best \/ count < H(best)

PurgeUnfinished ==
    /\ phase = "open"
    /\ MustPurge
    /\ DeleteBlockData
    /\ phase' = "openMeta"
    /\ UNCHANGED <<nodeTip, meta, stake, best, known, count, job>>

\* The end of DeleteBestBlock in NewChainDB: the meta table follows.
PurgeUnfinishedMeta ==
    /\ phase = "openMeta"
    /\ meta' = RetrieveBestBlock
    /\ best' = RetrieveBestBlock
    /\ phase' = IF RetrieveBestBlock = NoBlock THEN "tips" ELSE "open"
    /\ UNCHANGED <<nodeTip, blocks, txs, next, stake, known, count, job>>

NewChainDBDone ==
    /\ phase = "open"
    /\ ~MustPurge
    /\ phase' = "tips"
    /\ UNCHANGED <<nodeTip, tables, stake, best, known, count, job>>

\* OrphanedTipLength walks down from the meta height to the first height at which
\* the main chain row is the node's block; a height without a row, or above the
\* node's best, is an error.
Matches(h) == At(nodeTip, h) \in MainBlocks
CommonHeight == Max({h \in 0..H(meta) : Matches(h)} \cup {-1})
OrphanedTipFails ==
    \/ H(meta) > HeightOf(nodeTip)
    \/ CommonHeight = -1
    \/ \E h \in CommonHeight..H(meta) : \A b \in MainBlocks : HeightOf(b) # h

OrphanedTipLength ==
    /\ phase = "tips"
    /\ IF meta = NoBlock
       THEN phase' = "rewind" /\ UNCHANGED count
       ELSE IF OrphanedTipFails
       THEN phase' = "failed" /\ UNCHANGED count
       ELSE /\ count' = H(meta) - CommonHeight
            /\ phase' = IF CommonHeight = H(meta) THEN "rewind" ELSE "purge"
    /\ UNCHANGED <<nodeTip, tables, stake, best, known, job>>

\* PurgeBestBlocks: one DeleteBestBlock per orphaned block.
PurgeBestBlocks ==
    /\ phase = "purge" /\ count > 0
    /\ DeleteBlockData
    /\ phase' = "purgeMeta"
    /\ UNCHANGED <<nodeTip, meta, stake, best, known, count, job>>

PurgeBestBlocksMeta ==
    /\ phase = "purgeMeta"
    /\ meta' = RetrieveBestBlock
    /\ count' = count - 1
    /\ phase' = IF count = 1 \/ RetrieveBestBlock = NoBlock THEN "purgeStake" ELSE "purge"
    /\ UNCHANGED <<nodeTip, blocks, txs, next, stake, best, known, job>>

\* RewindStakeDB, a block at a time: after a purge, and for a stake database that
\* is ahead of the tables.
RewindStakeDB ==
    /\ phase \in {"purgeStake", "rewind"}
    /\ HeightOf(stake) > H(meta) /\ stake # Genesis
    /\ stake' = Parent(stake)
    /\ UNCHANGED <<nodeTip, tables, best, known, phase, count, job>>

\* After a purge the stake database must have reached the height of the tables.
RewindDone ==
    /\ phase = "purgeStake"
    /\ HeightOf(stake) <= H(meta) \/ stake = Genesis
    /\ phase' = IF HeightOf(stake) = H(meta) THEN "rewind" ELSE "failed"
    /\ UNCHANGED <<nodeTip, tables, stake, best, known, count, job>>

\* ChargePoolInfoCache(heightDB - 2), then SyncChainDB.
ChargePoolInfoCache ==
    /\ phase = "rewind"
    /\ HeightOf(stake) <= H(meta) \/ stake = Genesis
    /\ known' = known \cup {b \in MainBlocks : HeightOf(b) >= H(meta) - ChargeDepth}
    /\ phase' = "sync"
    /\ UNCHANGED <<nodeTip, tables, stake, best, count, job>>

\* One turn of SyncChainDB's loop: the stake database connects the block first, and
\* panics unless it is exactly one block behind.
SyncChainDB ==
    LET ib == H(meta) + 1
        b == At(nodeTip, ib)
    IN  /\ phase = "sync" /\ pc = "idle"
        /\ ib <= HeightOf(nodeTip)
        /\ IF ib <= HeightOf(stake)
           THEN /\ newChain' = <<b>> /\ pc' = "store"
                /\ UNCHANGED <<stake, known, phase>>
           ELSE IF ib = HeightOf(stake) + 1
           THEN /\ stake' = b /\ known' = known \cup {b}
                /\ newChain' = <<b>> /\ pc' = "store"
                /\ UNCHANGED phase
           ELSE phase' = "failed" /\ UNCHANGED <<stake, known, newChain, pc>>
        /\ UNCHANGED <<nodeTip, tables, best, count, root>>

\* The tables are at the node's height: the handlers are registered.
SyncDone ==
    /\ phase = "sync" /\ pc = "idle"
    /\ H(meta) >= HeightOf(nodeTip)
    /\ phase' = "running"
    /\ UNCHANGED <<nodeTip, tables, stake, best, known, count, job>>

-------------------------------------------------------------------------------
Start ==
    \/ PurgeUnfinished \/ PurgeUnfinishedMeta \/ NewChainDBDone
    \/ OrphanedTipLength
    \/ PurgeBestBlocks \/ PurgeBestBlocksMeta
    \/ RewindStakeDB \/ RewindDone
    \/ ChargePoolInfoCache \/ SyncChainDB \/ SyncDone

Handlers ==
    \/ \E b \in Block : ConnectBlock(b)
    \/ ReorgHandler
    \/ StakeDown \/ StakeUp
    \/ SetMainchainByBlockHash \/ UpdateTransactionsMainchain

Next ==
    \/ \E b \in Block : NodeMoves(b)
    \/ NewChainDB \/ Start
    \/ Handlers \/ StoreBlock
    \/ Crash

Spec == Init /\ [][Next]_vars

\* A start that has begun goes on, and the notifier calls its handlers.
FairSpec == Spec /\ WF_vars(Start) /\ WF_vars(Handlers) /\ WF_vars(StoreBlock)

-------------------------------------------------------------------------------
(* Properties.                                                              *)

\* Between two handlers the meta table, the best block in memory, the best main
\* chain row and the stake database name one block, whatever crashes, purges and
\* reorganisations came before.  "Aux DB height and stakedb height must be equal."
BestBlocksAgree == Idle => meta = best /\ best = RetrieveBestBlock /\ stake = best

\* The main chain rows of the blocks and of the transactions table are those of the
\* branch of the best block: no height has two, none is missing, and nothing of an
\* orphaned branch is left.
MainIsOneChain ==
    Idle => LET branch == {b \in Block : IsAncestor(b, best)}
            IN  MainBlocks = branch /\ MainTxs = branch

\* The next hashes lead from genesis along the main chain to the best block, although
\* InsertBlockPrevNext keeps the next hash of a block that comes back from a side
\* chain.
NextFollowsMain ==
    Idle => \A b \in MainBlocks : next[b] = (IF b = best THEN NoBlock ELSE At(best, HeightOf(b) + 1))

\* Both of the above: whichever way the main chain is walked it is one chain.
ChainIsWhole == MainIsOneChain /\ NextFollowsMain

\* A main chain block that its main chain child disapproves is not valid.
DisapprovedIsInvalid ==
    Idle => \A b \in MainBlocks \ {Genesis} :
                ~Approves[b] => ~blocks[Parent(b)].valid

\* A main chain block is valid exactly when its main chain child approves it.  "Do
\* nothing otherwise since blocks' transactions are initially added as valid."
ValidityIsVoted ==
    Idle => \A b \in MainBlocks \ {Genesis} : blocks[Parent(b)].valid = Approves[b]

\* No start ends in an error or a panic, wherever the run before it died.
StartSucceeds == phase # "failed"

\* The tables reach the node's best block, from any state of a running program or a
\* start, unless the node moves on or the program dies.
ReachesNode ==
    \A b \in Block :
        nodeTip = b /\ phase # "down" ~>
            (Idle /\ meta = b) \/ nodeTip # b \/ phase \in {"down", "failed"}

===============================================================================
