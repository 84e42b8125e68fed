----------------------------- MODULE ChainDBProofs -----------------------------
(***************************************************************************)
(* The tables, the stake database and the memory of ChainDB always agree    *)
(* again: proofs for every tree of blocks.                                  *)
(*                                                                         *)
(* The theorems assume that a crash does not part the transactions and the  *)
(* blocks table (TornCrash = FALSE), and that no reorganisation goes deeper *)
(* than ChargePoolInfoCache reaches below the best block.                   *)
(***************************************************************************)
EXTENDS ChainDB, BlockTreeProofs

\* The branch that is left is at most ChargeDepth blocks long.
ShallowForks ==
    \A a, b \in Block : HeightOf(a) <= HeightOf(b) => HeightOf(a) - ForkHeight(b, a) <= ChargeDepth

-------------------------------------------------------------------------------
(* The invariant.                                                           *)

\* The branch of t; the empty table has none.
Under(t) == IF t = NoBlock THEN {} ELSE {x \in Block : IsAncestor(x, t)}

\* The best main chain row of the blocks table.
Tip == RetrieveBestBlock

\* The block StoreBlock is at, and what the tables must hold before it.
This == Head(newChain)
Before(b) == IF b = Genesis THEN NoBlock ELSE Parent(b)
Final == newChain[Len(newChain)]

Starting == {"open", "openMeta", "tips", "purge", "purgeMeta", "purgeStake", "rewind"}
Reorganising == {"stakeDown", "stakeUp", "side", "sideTxns"}
Storing == {"store", "block", "link", "last", "meta"}

\* The columns of the tables and the types of what is in memory.
TypeInv ==
    /\ nodeTip \in Block /\ stake \in Block /\ root \in Block
    /\ meta \in Block \cup {NoBlock} /\ best \in Block \cup {NoBlock}
    /\ DOMAIN blocks \subseteq Block /\ blocks \in [DOMAIN blocks -> [main : BOOLEAN, valid : BOOLEAN]]
    /\ DOMAIN txs \subseteq Block /\ txs \in [DOMAIN txs -> BOOLEAN]
    /\ DOMAIN next \subseteq Block /\ next \in [DOMAIN next -> Block \cup {NoBlock}]
    /\ known \subseteq Block /\ count \in Int /\ newChain \in Seq(Block)
    /\ phase \in {"down", "sync", "running"} \cup Starting
    /\ pc \in {"idle"} \cup Reorganising \cup Storing
    /\ pc = "idle" <=> newChain = <<>>
    /\ phase \notin {"sync", "running"} => pc = "idle"
    /\ pc \in Reorganising => phase = "running"

\* The main chain rows are one branch.  The transactions table is one step ahead
\* of the blocks table when a block is stored, and one behind when it is taken off.
RowsInv ==
    /\ Tip \in Block \cup {NoBlock}
    /\ MainBlocks = Under(Tip)
    /\ MainTxs = Under(CASE pc = "block" -> This [] pc = "sideTxns" -> best [] OTHER -> Tip)

\* The row of a block is complete: its parent leads to it, and is invalid if the
\* block disapproves it.
Linked(y) == next[Parent(y)] = y /\ (~Approves[y] => ~blocks[Parent(y)].valid)

\* A block whose StoreBlock has not come to its end is not the one in the meta
\* table; every other main chain block is complete.
Unfinished(y, pcs) ==
    y = Tip /\ meta # Tip /\ pc \in pcs /\ phase \notin {"openMeta", "purgeMeta"}
LinkInv ==
    /\ \A x \in DOMAIN next : next[x] # NoBlock =>
          next[x] \in DOMAIN next \ {Genesis} /\ Parent(next[x]) = x
    /\ \A x \in MainBlocks : x \in DOMAIN next \/ Unfinished(x, {"idle", "link"})
    /\ \A y \in MainBlocks \ {Genesis} : Linked(y) \/ Unfinished(y, {"idle", "link", "last"})

\* Nothing is higher than the node's best block.
HeightInv ==
    /\ \A x \in DOMAIN next : HeightOf(x) <= HeightOf(nodeTip)
    /\ meta # NoBlock => HeightOf(meta) <= HeightOf(nodeTip)
    /\ HeightOf(stake) <= HeightOf(nodeTip)
    /\ \A i \in 1..Len(newChain) : HeightOf(newChain[i]) <= HeightOf(nodeTip)

\* What the node's branch shares with the tables it shares with the stake database.
StakeInv ==
    /\ Tip \in Under(meta) \cup Under(stake) \cup {NoBlock}
    /\ \A x \in Block : IsAncestor(x, nodeTip) /\ x \in Under(meta) \cup Under(Tip) => IsAncestor(x, stake)

\* The steps of a start.
StartInv ==
    /\ phase \in Starting => Genesis \in known
    /\ phase = "open" => best = Tip
    /\ phase = "tips" => best = Tip /\ meta = Tip
    /\ phase \in {"purge", "purgeMeta"} =>
          /\ meta # NoBlock /\ count \in 1..HeightOf(meta)
          /\ Tip = IF phase = "purge" THEN meta ELSE Parent(meta)
          /\ IsAncestor(At(meta, HeightOf(meta) - count), nodeTip)
          /\ HeightOf(meta) - count < HeightOf(nodeTip)
    /\ phase \in {"purgeStake", "rewind"} =>
          /\ meta = Tip
          /\ meta # NoBlock => IsAncestor(meta, nodeTip)
          /\ best = Tip \/ H(meta) < HeightOf(nodeTip)
    /\ phase = "purgeStake" => meta # NoBlock

\* The block the job at hand ends at.
Goal == IF newChain = <<>> THEN meta ELSE Final

\* The pool infos of the recent blocks are in the cache.
KnownInv ==
    phase \in {"sync", "running"} =>
        /\ Genesis \in known
        /\ \A x \in MainBlocks : HeightOf(x) >= H(Goal) - ChargeDepth => x \in known

\* Between two blocks.
IdleInv ==
    /\ phase = "sync" /\ pc = "idle" =>
          /\ meta = Tip
          /\ meta = NoBlock => stake = Genesis
          /\ meta # NoBlock => stake = meta /\ IsAncestor(meta, nodeTip)
          /\ best = Tip \/ H(meta) < HeightOf(nodeTip)
    /\ Idle => meta # NoBlock /\ meta = Tip /\ best = meta /\ stake = meta
    /\ phase = "running" => Goal # NoBlock /\ \A x \in DOMAIN next : HeightOf(x) <= HeightOf(Goal)

\* The blocks to be stored are a branch; the tables are not on it yet.
ChainInv ==
    /\ \A i \in 1..Len(newChain) :
          /\ HeightOf(newChain[i]) = HeightOf(Final) - Len(newChain) + i
          /\ IsAncestor(newChain[i], Final)
    /\ newChain # <<>> => This \notin Under(meta)
    /\ phase = "sync" /\ pc # "idle" => newChain = <<This>> /\ IsAncestor(This, nodeTip)

\* StoreBlock.
StoreInv ==
    pc \in Storing =>
        /\ stake = Final
        /\ \A i \in 1..Len(newChain) : newChain[i] \in known
        /\ pc \in {"store", "block"} => Tip = Before(This) /\ Tip \in known \cup {NoBlock}
        /\ pc \in {"link", "last", "meta"} => Tip = This
        /\ pc \in {"last", "meta"} => This \in DOMAIN next
        /\ pc = "meta" => best = This

\* The reorganisation: the stake database first, then the main chain rows.
ReorgInv ==
    pc \in Reorganising =>
        /\ meta # NoBlock /\ best # NoBlock
        /\ This # Genesis /\ Parent(This) = root /\ root \in known
        /\ IsAncestor(root, stake) /\ IsAncestor(root, best) /\ IsAncestor(best, meta)
        /\ \A x \in Block : IsAncestor(x, nodeTip) /\ IsAncestor(x, meta) => IsAncestor(x, root)
        /\ pc \in {"stakeDown", "stakeUp"} => best = meta
        /\ pc \in {"stakeDown", "stakeUp", "side"} => Tip = best
        /\ pc = "stakeDown" => IsAncestor(stake, meta)
        /\ pc = "stakeUp" =>
              LET k == HeightOf(stake) - HeightOf(root)
              IN  /\ k \in 0..(Len(newChain) - 1)
                  /\ stake = IF k = 0 THEN root ELSE newChain[k]
                  /\ \A i \in 1..k : newChain[i] \in known
        /\ pc \in {"side", "sideTxns"} =>
              stake = Final /\ \A i \in 1..Len(newChain) : newChain[i] \in known
        /\ pc = "sideTxns" => best # root /\ Tip = Parent(best)

IInv ==
    /\ TypeInv /\ RowsInv /\ LinkInv /\ HeightInv /\ StakeInv /\ StartInv
    /\ KnownInv /\ IdleInv /\ ChainInv /\ StoreInv /\ ReorgInv

-------------------------------------------------------------------------------
(* Branches.                                                                *)

\* Under(t) is the branch of a block, and nothing for NoBlock.
LEMMA UnderIs ==
    ASSUME NEW t \in Block \cup {NoBlock}
    PROVE  /\ Under(NoBlock) = {}
           /\ Under(t) \subseteq Block
           /\ \A x \in Block : x \in Under(t) <=> t \in Block /\ IsAncestor(x, t)
           /\ t \in Block => t \in Under(t)
           /\ NoBlock \notin Under(t)
  BY NoBlockAssumption, AncestorSelf DEF Under

\* Branches are nested.
LEMMA UnderTrans ==
    ASSUME NEW t \in Block \cup {NoBlock}, NEW y \in Under(t), NEW x \in Under(y)
    PROVE  x \in Under(t)
  <1>1. t \in Block /\ y \in Block /\ IsAncestor(y, t)
    BY UnderIs
  <1>2. x \in Block /\ IsAncestor(x, y)
    BY <1>1, UnderIs
  <1>3. IsAncestor(x, t)
    BY <1>1, <1>2, AncestorTrans
  <1> QED
    BY <1>1, <1>2, <1>3, UnderIs

\* A branch is its last block on top of the branch of the block before.
LEMMA UnderBefore ==
    ASSUME NEW b \in Block
    PROVE  /\ Before(b) \in Block \cup {NoBlock}
           /\ Under(b) = Under(Before(b)) \cup {b}
           /\ b \notin Under(Before(b))
           /\ Under(Before(b)) = Under(b) \ {b}
  <1>1. CASE b = Genesis
    <2>1. Before(b) = NoBlock /\ Under(NoBlock) = {}
      BY <1>1, UnderIs DEF Before
    <2>2. Under(b) = {b}
      BY <1>1, UnderIs, AncestorGenesis
    <2> QED
      BY <2>1, <2>2
  <1>2. CASE b # Genesis
    <2>1. /\ Parent(b) \in Block /\ ~IsAncestor(b, Parent(b)) /\ Before(b) = Parent(b)
          /\ \A a \in Block : IsAncestor(a, b) <=> a = b \/ IsAncestor(a, Parent(b))
      BY <1>2, AncestorParent DEF Before
    <2>2. Under(b) \subseteq Block /\ \A x \in Block : x \in Under(b) <=> IsAncestor(x, b)
      BY UnderIs
    <2>3. Under(Parent(b)) \subseteq Block /\ \A x \in Block : x \in Under(Parent(b)) <=> IsAncestor(x, Parent(b))
      BY <2>1, UnderIs
    <2> QED
      BY <2>1, <2>2, <2>3
  <1> QED
    BY <1>1, <1>2

\* The highest block of a branch is the one it ends in.
LEMMA HighestUnder ==
    ASSUME NEW t \in Block \cup {NoBlock}
    PROVE  Highest(Under(t)) = t
  <1>1. CASE t = NoBlock
    BY <1>1, UnderIs DEF Highest
  <1>2. CASE t \in Block
    <2>1. t \in Under(t) /\ \A x \in Under(t) : x \in Block /\ IsAncestor(x, t)
      BY <1>2, UnderIs
    <2>2. \A x \in Under(t) : HeightOf(x) <= HeightOf(t)
      BY <1>2, <2>1, AncestorHeight
    <2>3. PICK S : S = Under(t)
      OBVIOUS
    <2>4. PICK m : m = Highest(S)
      OBVIOUS
    <2>5. m = CHOOSE b \in S : \A x \in S : HeightOf(x) <= HeightOf(b)
      BY <2>1, <2>3, <2>4 DEF Highest
    <2>6. m \in S /\ \A x \in S : HeightOf(x) <= HeightOf(m)
      BY <2>1, <2>2, <2>3, <2>5
    <2>7. HeightOf(m) = HeightOf(t) /\ m \in Block /\ IsAncestor(m, t)
      BY <1>2, <2>1, <2>2, <2>3, <2>6, HeightType
    <2> QED
      BY <1>2, <2>3, <2>4, <2>7, AncestorHeight
  <1> QED
    BY <1>1, <1>2

\* The main chain rows decide the best block row.
LEMMA TipFrom ==
    ASSUME NEW t \in Block \cup {NoBlock}, MainBlocks' = Under(t)
    PROVE  Tip' = t
  BY HighestUnder DEF Tip, RetrieveBestBlock

\* Without a write to the two tables their rows stay.
LEMMA SameRows ==
    /\ UNCHANGED blocks => MainBlocks' = MainBlocks /\ Tip' = Tip
    /\ UNCHANGED txs => MainTxs' = MainTxs
  BY DEF Tip, RetrieveBestBlock, MainBlocks, MainTxs

\* The empty sequence is the one of length 0.
LEMMA EmptyIsZero == ASSUME NEW s \in Seq(Block) PROVE s = <<>> <=> Len(s) = 0
  OBVIOUS

\* The height of a block or of the empty table.
LEMMA HIs ==
    /\ H(NoBlock) = -1
    /\ \A b \in Block : H(b) = HeightOf(b) /\ H(b) \in Nat
  BY HeightType, NoBlockAssumption DEF H

\* The blocks to be stored: the first and the last, and the step from one to the next.
LEMMA NewChainIs ==
    ASSUME TypeInv, ChainInv, newChain # <<>>
    PROVE  /\ Len(newChain) \in Nat /\ Len(newChain) >= 1
           /\ This = newChain[1] /\ This \in Block /\ Final \in Block
           /\ \A i \in 1..Len(newChain) : newChain[i] \in Block
           /\ IsAncestor(This, Final)
           /\ HeightOf(Final) = HeightOf(This) + Len(newChain) - 1
  <1>1. Len(newChain) \in Nat /\ Len(newChain) >= 1 /\ This = newChain[1]
        /\ \A i \in 1..Len(newChain) : newChain[i] \in Block
    BY DEF TypeInv, This
  <1>2. This \in Block /\ Final \in Block
    BY <1>1 DEF Final
  <1>3. 1 \in 1..Len(newChain)
    BY <1>1
  <1>4. IsAncestor(This, Final) /\ HeightOf(This) = HeightOf(Final) - Len(newChain) + 1
    BY <1>1, <1>3 DEF ChainInv
  <1>5. HeightOf(Final) \in Nat /\ HeightOf(This) \in Nat
    BY <1>2, HeightType
  <1> QED
    BY <1>1, <1>2, <1>4, <1>5

\* What the branch to be stored shares with the meta table's is below its first block.
LEMMA OffBranch ==
    ASSUME TypeInv, ChainInv, newChain # <<>>, This # Genesis, meta \in Block,
           NEW x \in Block, IsAncestor(x, Final), IsAncestor(x, meta)
    PROVE  IsAncestor(x, Parent(This))
  <1>1. This \in Block /\ Final \in Block /\ IsAncestor(This, Final)
    BY NewChainIs
  <1>2. ~IsAncestor(This, meta)
    BY <1>1, UnderIs DEF ChainInv
  <1>3. ~(HeightOf(This) <= HeightOf(x))
    <2>1. ASSUME HeightOf(This) <= HeightOf(x) PROVE FALSE
      <3>1. IsAncestor(This, x)
        BY <1>1, <2>1, AncestorTotal
      <3> QED
        BY <1>1, <1>2, <3>1, AncestorTrans
    <2> QED
      BY <2>1
  <1>4. HeightOf(x) <= HeightOf(This) /\ x # This
    BY <1>1, <1>3, HeightType
  <1>5. IsAncestor(x, This)
    BY <1>1, <1>4, AncestorTotal
  <1> QED
    BY <1>1, <1>4, <1>5, AncestorParent


\* The parent of a block of a branch is on the branch, and is not its last block; it
\* is the parent of no other block of the branch.
LEMMA ParentUnder ==
    ASSUME NEW t \in Block \cup {NoBlock}, NEW y \in Under(t), y # Genesis
    PROVE  /\ y \in Block /\ Parent(y) \in Block
           /\ Parent(y) \in Under(t) /\ Parent(y) # t
           /\ \A z \in Under(t) : z # Genesis /\ Parent(z) = Parent(y) => z = y
  <1>1. t \in Block /\ y \in Block /\ IsAncestor(y, t)
    BY UnderIs
  <1>2. /\ Parent(y) \in Block /\ IsAncestor(Parent(y), y) /\ ~IsAncestor(y, Parent(y))
        /\ HeightOf(Parent(y)) = HeightOf(y) - 1
    BY <1>1, AncestorParent
  <1>3. IsAncestor(Parent(y), t)
    BY <1>1, <1>2, AncestorTrans
  <1>4. ASSUME NEW z \in Under(t), z # Genesis, Parent(z) = Parent(y) PROVE z = y
    <2>1. z \in Block /\ IsAncestor(z, t)
      BY UnderIs
    <2>2. HeightOf(Parent(z)) = HeightOf(z) - 1
      BY <1>4, <2>1, AncestorParent
    <2>3. HeightOf(z) = HeightOf(y) /\ HeightOf(z) <= HeightOf(y)
      BY <1>1, <1>2, <1>4, <2>1, <2>2, HeightType
    <2>4. IsAncestor(z, y)
      BY <1>1, <2>1, <2>3, AncestorTotal
    <2> QED
      BY <1>1, <2>1, <2>3, <2>4, AncestorHeight
  <1> QED
    BY <1>1, <1>2, <1>3, <1>4, UnderIs

-------------------------------------------------------------------------------
(* Conjuncts about what is not going on.                                    *)

\* Between two jobs there are no blocks to be stored.
LEMMA QuietJob == ASSUME TypeInv', pc' = "idle" PROVE ChainInv' /\ StoreInv' /\ ReorgInv'
  <1>1. newChain' = <<>> /\ Len(newChain') = 0
    BY DEF TypeInv
  <1> QED
    BY <1>1 DEF ChainInv, StoreInv, ReorgInv, Storing, Reorganising

\* The conjunct on the start is about the start.
LEMMA NotStarting == ASSUME phase' \in {"down", "sync", "running"} PROVE StartInv'
  BY DEF StartInv, Starting

-------------------------------------------------------------------------------
(* StoreBlock.                                                              *)

\* Facts that every step of StoreBlock starts from.
LEMMA StoreFacts ==
    ASSUME IInv, pc \in Storing
    PROVE  /\ newChain # <<>> /\ phase \in {"sync", "running"} /\ pc \notin Reorganising
           /\ This \in Block /\ Final \in Block /\ This \in known
           /\ stake = Final /\ This \in Under(stake) /\ This \notin Under(meta)
           /\ HeightOf(This) <= HeightOf(Final) /\ Goal = Final /\ Tip \in Block \cup {NoBlock}
  <1>1. newChain # <<>> /\ phase \in {"sync", "running"} /\ pc \notin Reorganising
    BY DEF IInv, TypeInv, Storing, Reorganising, Starting
  <1>2. This \in Block /\ Final \in Block /\ IsAncestor(This, Final) /\ This = newChain[1]
        /\ Len(newChain) \in Nat /\ Len(newChain) >= 1
    BY <1>1, NewChainIs DEF IInv
  <1>3. stake = Final /\ This \in known /\ This \notin Under(meta)
    BY <1>1, <1>2 DEF IInv, StoreInv, ChainInv
  <1>4. This \in Under(stake) /\ HeightOf(This) <= HeightOf(Final)
    BY <1>2, <1>3, UnderIs, AncestorHeight
  <1> QED
    BY <1>1, <1>2, <1>3, <1>4 DEF Goal, IInv, RowsInv

\* The pool infos are there, so StoreBlock writes the rows of the block's trees.
LEMMA StoreTxnsStep == ASSUME IInv, StoreTxns PROVE IInv'
  <1>1. pc = "store" /\ pc \in Storing
    BY DEF StoreTxns, Storing
  <1>2. /\ newChain # <<>> /\ phase \in {"sync", "running"} /\ This \in Block /\ This \in known
        /\ Tip = Before(This) /\ Tip \in known \cup {NoBlock}
    BY <1>1, StoreFacts DEF IInv, StoreInv
  <1>3. Parent(This) \in known
    BY <1>2, TreeAssumption, NoBlockAssumption, ParentType, HeightZero DEF Before, Parent
  <1>4. /\ txs' = Put(txs, This, TRUE) /\ pc' = "block"
        /\ UNCHANGED <<nodeTip, blocks, next, meta, stake, best, known, phase, count, root, newChain>>
    BY <1>2, <1>3 DEF StoreTxns, This
  <1>5. MainBlocks' = MainBlocks /\ Tip' = Tip /\ This' = This /\ Final' = Final /\ Goal' = Goal
    BY <1>4, SameRows DEF This, Final, Goal
  <1>6. MainTxs' = MainTxs \cup {This}
    BY <1>4 DEF MainTxs, Put
  <1>7. MainTxs = Under(Tip) /\ MainBlocks = Under(Tip)
    BY <1>1 DEF IInv, RowsInv
  <1>8. RowsInv'
    <2>1. Under(This) = Under(Before(This)) \cup {This}
      BY <1>2, UnderBefore
    <2>2. MainTxs' = Under(This)
      BY <1>2, <1>6, <1>7, <2>1
    <2> QED
      BY <1>4, <1>5, <2>2 DEF IInv, RowsInv
  <1>9. TypeInv'
    <2>1. txs' \in [DOMAIN txs' -> BOOLEAN] /\ DOMAIN txs' \subseteq Block
      BY <1>2, <1>4 DEF IInv, TypeInv, Put
    <2> QED
      BY <1>1, <1>2, <1>4, <2>1 DEF IInv, TypeInv, Storing, Reorganising
  <1>10. LinkInv'
    BY <1>1, <1>4, <1>5 DEF IInv, LinkInv, Linked, Unfinished
  <1>11. HeightInv' /\ StakeInv' /\ KnownInv'
    BY <1>1, <1>4, <1>5 DEF IInv, HeightInv, StakeInv, KnownInv
  <1>12. StartInv'
    BY <1>2, <1>4, NotStarting
  <1>13. IdleInv'
    BY <1>4, <1>5 DEF IInv, IdleInv, Idle
  <1>14. ChainInv'
    BY <1>1, <1>4, <1>5 DEF IInv, ChainInv
  <1>15. StoreInv'
    BY <1>1, <1>4, <1>5 DEF IInv, StoreInv
  <1>16. ReorgInv'
    BY <1>4 DEF ReorgInv, Reorganising
  <1> QED
    BY <1>8, <1>9, <1>10, <1>11, <1>12, <1>13, <1>14, <1>15, <1>16 DEF IInv

\* The blocks row: the main chain rows are the branch of the block.
LEMMA InsertBlockStep == ASSUME IInv, InsertBlock PROVE IInv'
  <1>1. /\ pc = "block" /\ pc' = "link" /\ pc \in Storing
        /\ blocks' = Put(blocks, This, [main |-> TRUE, valid |-> TRUE])
        /\ UNCHANGED <<nodeTip, txs, next, meta, stake, best, known, phase, count, root, newChain>>
    BY DEF InsertBlock, Storing, This
  <1>2. /\ newChain # <<>> /\ phase \in {"sync", "running"} /\ This \in Block /\ This \in known
        /\ This \in Under(stake) /\ This \notin Under(meta) /\ stake = Final /\ Final \in Block
        /\ Tip = Before(This) /\ stake \in Block /\ meta \in Block \cup {NoBlock}
    BY <1>1, StoreFacts DEF IInv, StoreInv, TypeInv
  <1>3. /\ Under(This) = Under(Before(This)) \cup {This} /\ This \notin Under(Before(This))
        /\ MainBlocks = Under(Tip) /\ MainTxs = Under(This) /\ This \in Under(This)
    BY <1>1, <1>2, UnderBefore, UnderIs DEF IInv, RowsInv
  <1>4. MainBlocks' = MainBlocks \cup {This}
    BY <1>1 DEF MainBlocks, Put
  <1>5. MainBlocks' = Under(This) /\ Tip' = This
    BY <1>2, <1>3, <1>4, TipFrom
  <1>6. This' = This /\ Final' = Final /\ Goal' = Goal /\ MainTxs' = MainTxs
    BY <1>1, SameRows DEF This, Final, Goal
  <1>7. RowsInv'
    BY <1>1, <1>2, <1>3, <1>5, <1>6 DEF RowsInv
  <1>8. TypeInv'
    <2>1. blocks' \in [DOMAIN blocks' -> [main : BOOLEAN, valid : BOOLEAN]] /\ DOMAIN blocks' \subseteq Block
      BY <1>1, <1>2 DEF IInv, TypeInv, Put
    <2> QED
      BY <1>1, <1>2, <2>1 DEF IInv, TypeInv, Storing, Reorganising
  <1>9. LinkInv'
    <2>1. \A x \in MainBlocks : x \in DOMAIN next
      BY <1>1 DEF IInv, LinkInv, Unfinished
    <2>2. \A y \in MainBlocks \ {Genesis} : Linked(y)
      BY <1>1 DEF IInv, LinkInv, Unfinished
    <2>3. Tip' = This /\ meta' # Tip' /\ pc' = "link" /\ phase' \notin {"openMeta", "purgeMeta"}
      BY <1>1, <1>2, <1>5, UnderIs
    <2>4. ASSUME NEW y \in MainBlocks \ {Genesis} PROVE Linked(y)'
      <3>1. y \in Block /\ y \in Under(Tip) /\ Parent(y) \in Block
        BY <1>2, <1>3, UnderIs, ParentType, UnderBefore
      <3>2. Parent(y) \in Under(y)
        BY <3>1, AncestorParent, UnderIs
      <3>3. Parent(y) \in Under(Tip)
        BY <1>2, <3>1, <3>2, UnderTrans, UnderBefore
      <3>4. Parent(y) # This /\ Parent(y) \in DOMAIN blocks
        BY <1>2, <1>3, <3>3 DEF MainBlocks
      <3>5. blocks'[Parent(y)] = blocks[Parent(y)]
        BY <1>1, <3>4 DEF Put
      <3> QED
        BY <1>1, <2>2, <3>5 DEF Linked
    <2> QED
      BY <1>1, <1>4, <2>1, <2>3, <2>4 DEF IInv, LinkInv, Unfinished
  <1>10. HeightInv'
    BY <1>1, <1>6 DEF IInv, HeightInv
  <1>11. StakeInv'
    <2>1. \A x \in Under(This) : x \in Under(stake)
      BY <1>2, UnderTrans
    <2>2. \A x \in Block : x \in Under(stake) => IsAncestor(x, stake)
      BY <1>2, UnderIs
    <2> QED
      BY <1>1, <1>2, <1>5, <2>1, <2>2 DEF IInv, StakeInv
  <1>12. KnownInv'
    BY <1>1, <1>2, <1>4, <1>6 DEF IInv, KnownInv
  <1>13. StartInv'
    BY <1>1, <1>2, NotStarting
  <1>14. IdleInv'
    BY <1>1, <1>6 DEF IInv, IdleInv, Idle
  <1>15. ChainInv'
    BY <1>1, <1>6 DEF IInv, ChainInv
  <1>16. StoreInv'
    BY <1>1, <1>5, <1>6 DEF IInv, StoreInv
  <1>17. ReorgInv'
    BY <1>1 DEF ReorgInv, Reorganising
  <1> QED
    BY <1>7, <1>8, <1>9, <1>10, <1>11, <1>12, <1>13, <1>14, <1>15, <1>16, <1>17 DEF IInv

\* The block_chain row, kept as it is when the block comes back from a side chain.
LEMMA InsertBlockPrevNextStep == ASSUME IInv, InsertBlockPrevNext PROVE IInv'
  <1>1. /\ pc = "link" /\ pc' = "last" /\ pc \in Storing
        /\ next' = IF This \in DOMAIN next THEN next ELSE Put(next, This, NoBlock)
        /\ UNCHANGED <<nodeTip, blocks, txs, meta, stake, best, known, phase, count, root, newChain>>
    BY DEF InsertBlockPrevNext, Storing, This
  <1>2. /\ newChain # <<>> /\ phase \in {"sync", "running"} /\ This \in Block
        /\ Tip = This /\ Goal = Final /\ HeightOf(This) <= HeightOf(Final) /\ Final \in Block
        /\ MainBlocks = Under(Tip)
    BY <1>1, StoreFacts DEF IInv, StoreInv, RowsInv
  <1>3. /\ MainBlocks' = MainBlocks /\ Tip' = Tip /\ MainTxs' = MainTxs
        /\ This' = This /\ Final' = Final /\ Goal' = Goal
    BY <1>1, SameRows DEF This, Final, Goal
  <1>4. /\ DOMAIN next' = DOMAIN next \cup {This}
        /\ \A x \in DOMAIN next : next'[x] = next[x]
        /\ This \notin DOMAIN next => next'[This] = NoBlock
    BY <1>1 DEF Put
  <1>5. TypeInv'
    <2>1. next' \in [DOMAIN next' -> Block \cup {NoBlock}] /\ DOMAIN next' \subseteq Block
      BY <1>1, <1>2 DEF IInv, TypeInv, Put
    <2> QED
      BY <1>1, <1>2, <2>1 DEF IInv, TypeInv, Storing, Reorganising
  <1>6. RowsInv'
    BY <1>1, <1>3 DEF IInv, RowsInv
  <1>7. LinkInv'
    <2>1. \A x \in DOMAIN next' : next'[x] # NoBlock =>
              next'[x] \in DOMAIN next' \ {Genesis} /\ Parent(next'[x]) = x
      BY <1>4 DEF IInv, LinkInv
    <2>2. \A x \in MainBlocks : x \in DOMAIN next'
      BY <1>2, <1>4 DEF IInv, LinkInv, Unfinished
    <2>3. ASSUME NEW y \in MainBlocks \ {Genesis}, y # Tip PROVE Linked(y)'
      <3>1. Linked(y)
        BY <2>3 DEF IInv, LinkInv, Unfinished
      <3>2. Parent(y) \in MainBlocks /\ Parent(y) # Tip
        BY <1>2, ParentUnder
      <3>3. Parent(y) \in DOMAIN next
        BY <3>2 DEF IInv, LinkInv, Unfinished
      <3>4. next'[Parent(y)] = next[Parent(y)]
        BY <1>4, <3>3
      <3> QED
        BY <1>1, <3>1, <3>4 DEF Linked
    <2>4. Tip \in MainBlocks \ {Genesis} => Linked(Tip)' \/ (meta # Tip /\ phase \notin {"openMeta", "purgeMeta"})
      <3>1. SUFFICES ASSUME Tip \in MainBlocks \ {Genesis}, Linked(Tip) PROVE Linked(Tip)'
        BY DEF IInv, LinkInv, Unfinished
      <3>2. Parent(Tip) \in MainBlocks /\ Parent(Tip) # Tip
        BY <1>2, <3>1, ParentUnder
      <3>3. Parent(Tip) \in DOMAIN next
        BY <3>2 DEF IInv, LinkInv, Unfinished
      <3>4. next'[Parent(Tip)] = next[Parent(Tip)]
        BY <1>4, <3>3
      <3> QED
        BY <1>1, <1>3, <3>1, <3>4 DEF Linked
    <2>5. \A y \in MainBlocks \ {Genesis} : Linked(y)' \/ (y = Tip /\ meta # Tip /\ phase \notin {"openMeta", "purgeMeta"})
      BY <1>3, <2>3, <2>4 DEF Linked
    <2> QED
      BY <1>1, <1>3, <2>1, <2>2, <2>5 DEF LinkInv, Unfinished
  <1>8. HeightInv'
    <2>1. HeightOf(This) <= HeightOf(nodeTip)
      BY <1>2, NewChainIs DEF IInv, HeightInv
    <2> QED
      BY <1>1, <1>3, <1>4, <2>1 DEF IInv, HeightInv
  <1>9. StakeInv' /\ KnownInv'
    BY <1>1, <1>3 DEF IInv, StakeInv, KnownInv
  <1>10. StartInv'
    BY <1>1, <1>2, NotStarting
  <1>11. IdleInv'
    BY <1>1, <1>2, <1>3, <1>4 DEF IInv, IdleInv, Idle
  <1>12. ChainInv'
    BY <1>1, <1>3 DEF IInv, ChainInv
  <1>13. StoreInv'
    BY <1>1, <1>3, <1>4 DEF IInv, StoreInv
  <1>14. ReorgInv'
    BY <1>1 DEF ReorgInv, Reorganising
  <1> QED
    BY <1>5, <1>6, <1>7, <1>8, <1>9, <1>10, <1>11, <1>12, <1>13, <1>14 DEF IInv

\* The parent leads to the block and takes its verdict; memory follows.
LEMMA UpdateLastBlockStep == ASSUME IInv, UpdateLastBlock PROVE IInv'
  <1>1. pc = "last" /\ pc \in Storing
    BY DEF UpdateLastBlock, Storing
  <1>2. /\ newChain # <<>> /\ phase \in {"sync", "running"} /\ This \in Block
        /\ Tip = This /\ MainBlocks = Under(Tip) /\ This \in DOMAIN next /\ This \in MainBlocks
    BY <1>1, StoreFacts, UnderIs DEF IInv, StoreInv, RowsInv
  <1>3. \A x \in MainBlocks : x \in DOMAIN next
    BY <1>1 DEF IInv, LinkInv, Unfinished
  <1>4. This # Genesis => Parent(This) \in MainBlocks /\ Parent(This) # Tip
    BY <1>2, ParentUnder
  <1>5. This # Genesis => Parent(This) \in DOMAIN next /\ Parent(This) \in DOMAIN blocks
    BY <1>3, <1>4 DEF MainBlocks
  <1>6. /\ next' = IF This = Genesis THEN next ELSE Put(next, Parent(This), This)
        /\ blocks' = IF This = Genesis \/ Approves[This] THEN blocks
                     ELSE [blocks EXCEPT ![Parent(This)].valid = FALSE]
        /\ best' = This /\ pc' = "meta"
        /\ UNCHANGED <<nodeTip, txs, meta, stake, known, count, root, phase, newChain>>
    BY <1>5 DEF UpdateLastBlock, This
  <1>7. /\ DOMAIN next' = DOMAIN next
        /\ \A x \in DOMAIN next : x # Parent(This) => next'[x] = next[x]
        /\ This = Genesis => next' = next
        /\ This # Genesis => next'[Parent(This)] = This
    BY <1>5, <1>6 DEF Put
  <1>8. /\ DOMAIN blocks' = DOMAIN blocks
        /\ \A x \in DOMAIN blocks : blocks'[x].main = blocks[x].main
        /\ \A x \in DOMAIN blocks : ~blocks[x].valid => ~blocks'[x].valid
        /\ This # Genesis /\ ~Approves[This] => ~blocks'[Parent(This)].valid
    <2>1. blocks \in [DOMAIN blocks -> [main : BOOLEAN, valid : BOOLEAN]]
      BY DEF IInv, TypeInv
    <2> QED
      BY <1>5, <1>6, <2>1
  <1>9. MainBlocks' = MainBlocks
    BY <1>8 DEF MainBlocks
  <1>10. Tip' = Tip /\ MainTxs' = MainTxs
    BY <1>6, <1>9, SameRows DEF Tip, RetrieveBestBlock
  <1>11. This' = This /\ Final' = Final /\ Goal' = Goal
    BY <1>6 DEF This, Final, Goal
  <1>12. TypeInv'
    <2>1. next' \in [DOMAIN next' -> Block \cup {NoBlock}] /\ DOMAIN next' \subseteq Block
      BY <1>2, <1>5, <1>6 DEF IInv, TypeInv, Put
    <2>2. blocks' \in [DOMAIN blocks' -> [main : BOOLEAN, valid : BOOLEAN]] /\ DOMAIN blocks' \subseteq Block
      BY <1>5, <1>6 DEF IInv, TypeInv
    <2> QED
      BY <1>1, <1>2, <1>6, <2>1, <2>2 DEF IInv, TypeInv, Storing, Reorganising
  <1>13. RowsInv'
    BY <1>1, <1>6, <1>9, <1>10, <1>11 DEF IInv, RowsInv
  <1>14. LinkInv'
    <2>1. \A x \in DOMAIN next' : next'[x] # NoBlock =>
              next'[x] \in DOMAIN next' \ {Genesis} /\ Parent(next'[x]) = x
      BY <1>2, <1>7 DEF IInv, LinkInv
    <2>2. This # Genesis => Linked(This)'
      BY <1>7, <1>8, <1>11 DEF Linked
    <2>3. ASSUME NEW y \in MainBlocks \ {Genesis}, y # Tip PROVE Linked(y)'
      <3>1. Linked(y)
        BY <2>3 DEF IInv, LinkInv, Unfinished
      <3>2. Parent(y) \in MainBlocks
        BY <1>2, ParentUnder
      <3>3. This # Genesis => Parent(y) # Parent(This)
        BY <1>2, <2>3, ParentUnder
      <3>4. next'[Parent(y)] = next[Parent(y)]
        BY <1>3, <1>7, <3>2, <3>3
      <3>5. Parent(y) \in DOMAIN blocks
        BY <3>2 DEF MainBlocks
      <3> QED
        BY <1>8, <3>1, <3>4, <3>5 DEF Linked
    <2>4. \A y \in MainBlocks \ {Genesis} : Linked(y)'
      BY <1>2, <1>11, <2>2, <2>3 DEF Linked
    <2> QED
      BY <1>3, <1>7, <1>9, <2>1, <2>4 DEF LinkInv
  <1>15. HeightInv' /\ StakeInv' /\ KnownInv'
    BY <1>6, <1>7, <1>9, <1>10, <1>11 DEF IInv, HeightInv, StakeInv, KnownInv
  <1>16. StartInv'
    BY <1>2, <1>6, NotStarting
  <1>17. IdleInv'
    BY <1>6, <1>7, <1>10, <1>11 DEF IInv, IdleInv, Idle
  <1>18. ChainInv'
    BY <1>1, <1>6, <1>11 DEF IInv, ChainInv
  <1>19. StoreInv'
    BY <1>1, <1>6, <1>7, <1>10, <1>11 DEF IInv, StoreInv
  <1>20. ReorgInv'
    BY <1>6 DEF ReorgInv, Reorganising
  <1> QED
    BY <1>12, <1>13, <1>14, <1>15, <1>16, <1>17, <1>18, <1>19, <1>20 DEF IInv

\* The meta table follows, and StoreBlock of the next block begins.
LEMMA SetDBBestBlockStep == ASSUME IInv, SetDBBestBlock PROVE IInv'
  <1>1. /\ pc = "meta" /\ pc \in Storing /\ meta' = This /\ newChain' = Tail(newChain)
        /\ pc' = IF Tail(newChain) = <<>> THEN "idle" ELSE "store"
        /\ UNCHANGED <<nodeTip, blocks, txs, next, stake, best, known, phase, count, root>>
    BY DEF SetDBBestBlock, Storing, This
  <1>2. /\ newChain # <<>> /\ phase \in {"sync", "running"} /\ This \in Block /\ Final \in Block
        /\ Tip = This /\ best = This /\ stake = Final /\ MainBlocks = Under(Tip) /\ MainTxs = Under(Tip)
        /\ This \in Under(stake) /\ Goal = Final /\ This \in known /\ This # NoBlock
    BY <1>1, StoreFacts, NoBlockAssumption DEF IInv, StoreInv, RowsInv
  <1>3. /\ Len(newChain) \in Nat /\ Len(newChain) >= 1 /\ This = newChain[1]
        /\ newChain \in Seq(Block) /\ Final = newChain[Len(newChain)]
    BY <1>2, NewChainIs DEF IInv, Final, TypeInv
  <1>4. /\ newChain' \in Seq(Block) /\ Len(newChain') = Len(newChain) - 1
        /\ \A i \in 1..Len(newChain') : newChain'[i] = newChain[i + 1] /\ i + 1 \in 1..Len(newChain)
        /\ (newChain' = <<>>) <=> (Len(newChain) = 1)
    <2>1. newChain' \in Seq(Block) /\ Len(newChain') = Len(newChain) - 1
      BY <1>1, <1>2, <1>3
    <2>2. \A i \in 1..Len(newChain') : i + 1 \in 1..Len(newChain)
      BY <1>3, <2>1
    <2>3. \A i \in 1..Len(newChain') : newChain'[i] = newChain[i + 1]
      BY <1>1, <1>2, <1>3, <2>1
    <2>4. newChain' = <<>> <=> Len(newChain') = 0
      BY <2>1, EmptyIsZero
    <2>5. Len(newChain') = 0 <=> Len(newChain) = 1
      BY <1>3, <2>1
    <2> QED
      BY <2>1, <2>2, <2>3, <2>4, <2>5
  <1>5. MainBlocks' = MainBlocks /\ Tip' = Tip /\ MainTxs' = MainTxs
    BY <1>1, SameRows
  <1>6. newChain' # <<>> => Final' = Final /\ This' = newChain[2] /\ Len(newChain) >= 2
    <2>1. SUFFICES ASSUME newChain' # <<>> PROVE Final' = Final /\ This' = newChain[2] /\ Len(newChain) >= 2
      OBVIOUS
    <2>2. Len(newChain) >= 2
      BY <1>3, <1>4, <2>1
    <2>3. newChain'[Len(newChain')] = newChain[Len(newChain)]
      BY <1>3, <1>4, <2>2
    <2>4. Head(newChain') = newChain'[1] /\ newChain'[1] = newChain[2]
      BY <1>3, <1>4, <2>2
    <2> QED
      BY <2>2, <2>3, <2>4 DEF Final, This
  <1>7. newChain' = <<>> => Final = This
    BY <1>3, <1>4
  <1>8. Goal' = Goal
    BY <1>1, <1>2, <1>6, <1>7 DEF Goal
  <1>9. TypeInv'
    BY <1>1, <1>2, <1>4 DEF IInv, TypeInv, Storing, Reorganising
  <1>10. RowsInv'
    BY <1>1, <1>2, <1>5 DEF IInv, RowsInv
  <1>11. LinkInv'
    <2>1. \A x \in MainBlocks : x \in DOMAIN next
      BY <1>1 DEF IInv, LinkInv, Unfinished
    <2>2. \A y \in MainBlocks \ {Genesis} : Linked(y)
      BY <1>1 DEF IInv, LinkInv, Unfinished
    <2> QED
      BY <1>1, <1>5, <2>1, <2>2 DEF IInv, LinkInv, Linked
  <1>12. \A i \in 1..Len(newChain) : HeightOf(newChain[i]) <= HeightOf(nodeTip)
    BY DEF IInv, HeightInv
  <1>13. HeightInv'
    <2>1. HeightOf(This) <= HeightOf(nodeTip)
      BY <1>3, <1>12
    <2>2. \A i \in 1..Len(newChain') : HeightOf(newChain'[i]) <= HeightOf(nodeTip)
      BY <1>4, <1>12
    <2> QED
      BY <1>1, <2>1, <2>2 DEF IInv, HeightInv
  <1>14. StakeInv'
    <2>1. \A x \in Under(This) : x \in Under(stake)
      BY <1>2, UnderTrans
    <2>2. \A x \in Block : x \in Under(stake) => IsAncestor(x, stake)
      BY <1>2, UnderIs
    <2>3. This \in Under(This)
      BY <1>2, UnderIs
    <2> QED
      BY <1>1, <1>2, <1>5, <2>1, <2>2, <2>3 DEF StakeInv
  <1>15. KnownInv'
    BY <1>1, <1>5, <1>8 DEF IInv, KnownInv
  <1>16. StartInv'
    BY <1>1, <1>2, NotStarting
  <1>17. IdleInv'
    <2>1. phase = "sync" => IsAncestor(This, nodeTip)
      BY <1>1 DEF IInv, ChainInv
    <2>2. phase = "running" => Goal # NoBlock /\ \A x \in DOMAIN next : HeightOf(x) <= HeightOf(Goal)
      BY DEF IInv, IdleInv
    <2>3. pc' = "idle" => stake = This
      BY <1>1, <1>2, <1>7
    <2> QED
      BY <1>1, <1>2, <1>5, <1>8, <2>1, <2>2, <2>3 DEF IdleInv, Idle
  <1>18. \A i \in 1..Len(newChain) :
            /\ HeightOf(newChain[i]) = HeightOf(Final) - Len(newChain) + i
            /\ IsAncestor(newChain[i], Final)
    BY DEF IInv, ChainInv
  <1>19. newChain' # <<>> =>
            /\ This' \in Block /\ This' # Genesis /\ Parent(This') = This /\ This' \notin Under(This)
    <2>1. SUFFICES ASSUME newChain' # <<>>
                   PROVE  /\ newChain[2] \in Block /\ newChain[2] # Genesis
                          /\ Parent(newChain[2]) = This /\ newChain[2] \notin Under(This)
      BY <1>6
    <2>2. PICK z : z = newChain[2]
      OBVIOUS
    <2>3. 1 \in 1..Len(newChain) /\ 2 \in 1..Len(newChain)
      BY <1>3, <1>6, <2>1
    <2>4. z \in Block /\ IsAncestor(z, Final) /\ IsAncestor(This, Final) /\ HeightOf(z) = HeightOf(This) + 1
      <3>1. z \in Block
        BY <1>3, <2>2, <2>3
      <3>2. HeightOf(Final) \in Nat
        BY <1>2, HeightType
      <3> QED
        BY <1>3, <1>18, <2>2, <2>3, <3>1, <3>2
    <2>5. z # Genesis
      BY <1>2, <2>4, HeightType, HeightZero
    <2>6. /\ Parent(z) \in Block /\ HeightOf(Parent(z)) = HeightOf(z) - 1
          /\ IsAncestor(Parent(z), z) /\ ~IsAncestor(z, Parent(z))
      BY <2>4, <2>5, AncestorParent
    <2>7. IsAncestor(Parent(z), Final)
      BY <1>2, <2>4, <2>6, AncestorTrans
    <2>8. HeightOf(Parent(z)) = HeightOf(This) /\ HeightOf(Parent(z)) <= HeightOf(This)
      BY <1>2, <2>4, <2>6, HeightType
    <2>9. Parent(z) = This
      BY <1>2, <2>4, <2>6, <2>7, <2>8, AncestorTotal, AncestorHeight
    <2> QED
      BY <1>2, <2>2, <2>4, <2>5, <2>6, <2>9, UnderIs
  <1>20. ChainInv'
    <2>1. ASSUME NEW i \in 1..Len(newChain')
          PROVE  /\ HeightOf(newChain'[i]) = HeightOf(Final) - Len(newChain') + i
                 /\ IsAncestor(newChain'[i], Final)
      <3>1. HeightOf(Final) \in Nat
        BY <1>2, HeightType
      <3>2. newChain'[i] = newChain[i + 1] /\ i + 1 \in 1..Len(newChain) /\ i \in Int
        BY <1>4
      <3>3. /\ HeightOf(newChain'[i]) = HeightOf(Final) - Len(newChain) + (i + 1)
            /\ IsAncestor(newChain'[i], Final)
        BY <1>18, <3>2
      <3>4. HeightOf(Final) - Len(newChain) + (i + 1) = HeightOf(Final) - Len(newChain') + i
        BY <1>3, <1>4, <3>1, <3>2
      <3> QED
        BY <3>3, <3>4
    <2>2. newChain' = <<>> => Len(newChain') = 0
      BY <1>3, <1>4
    <2>3. \A i \in 1..Len(newChain') :
              /\ HeightOf(newChain'[i]) = HeightOf(Final') - Len(newChain') + i
              /\ IsAncestor(newChain'[i], Final')
      BY <1>6, <2>1, <2>2
    <2>4. phase = "sync" => newChain' = <<>>
      <3>1. phase = "sync" => newChain = <<This>>
        BY <1>1 DEF IInv, ChainInv
      <3> QED
        BY <1>4, <3>1
    <2> QED
      BY <1>1, <1>2, <1>19, <2>3, <2>4 DEF ChainInv
  <1>21. StoreInv'
    <2>1. pc' \in Storing => pc' = "store" /\ newChain' # <<>>
      BY <1>1 DEF Storing
    <2>2. \A i \in 1..Len(newChain) : newChain[i] \in known
      BY <1>1 DEF IInv, StoreInv
    <2>3. \A i \in 1..Len(newChain') : newChain'[i] \in known
      BY <1>4, <2>2
    <2>4. newChain' # <<>> => Before(This)' = This
      BY <1>19 DEF Before
    <2> QED
      BY <1>1, <1>2, <1>5, <1>6, <2>1, <2>3, <2>4 DEF StoreInv
  <1>22. ReorgInv'
    BY <1>1 DEF ReorgInv, Reorganising
  <1> QED
    BY <1>9, <1>10, <1>11, <1>13, <1>14, <1>15, <1>16, <1>17, <1>20, <1>21, <1>22 DEF IInv

\* Every step of StoreBlock.
LEMMA StoreBlockStep == ASSUME IInv, StoreBlock PROVE IInv'
  BY StoreTxnsStep, InsertBlockStep, InsertBlockPrevNextStep, UpdateLastBlockStep, SetDBBestBlockStep
  DEF StoreBlock

-------------------------------------------------------------------------------
(* The node and the crash.                                                  *)

\* The node's new branch shares no more with the meta table's than with the branch
\* the stake database is on or moves to.
LEMMA NodeMovesStep == ASSUME IInv, NEW b \in Block, NodeMoves(b) PROVE IInv'
  <1>1. /\ nodeTip' = b /\ HeightOf(b) >= HeightOf(nodeTip)
        /\ phase \in {"down", "failed", "running"}
        /\ UNCHANGED <<blocks, txs, next, meta, stake, best, known, phase, count, pc, root, newChain>>
    BY DEF NodeMoves, tables, job
  <1>2. phase \in {"down", "running"} /\ nodeTip \in Block /\ stake \in Block /\ meta \in Block \cup {NoBlock}
    BY <1>1 DEF IInv, TypeInv, Starting
  <1>3. /\ MainBlocks' = MainBlocks /\ Tip' = Tip /\ MainTxs' = MainTxs
        /\ This' = This /\ Final' = Final /\ Goal' = Goal
    BY <1>1, SameRows DEF This, Final, Goal
  <1>4. meta # NoBlock => \A x \in Block :
            IsAncestor(x, b) /\ IsAncestor(x, meta) => IsAncestor(x, StakeTarget)
    <2>1. SUFFICES ASSUME meta # NoBlock, NEW x \in Block, IsAncestor(x, b), IsAncestor(x, meta)
                   PROVE  IsAncestor(x, StakeTarget)
      OBVIOUS
    <2>2. ForkHeight(b, meta) <= ForkHeight(b, StakeTarget) /\ meta \in Block
      BY <1>2, <2>1 DEF NodeMoves
    <2>3. StakeTarget \in Block
      BY <1>2, NewChainIs DEF IInv, StakeTarget, Final
    <2> QED
      BY <2>1, <2>2, <2>3, ForkOrder
  <1>5. pc \in Reorganising => \A x \in Block :
            IsAncestor(x, b) /\ IsAncestor(x, meta) => IsAncestor(x, root)
    <2>1. SUFFICES ASSUME pc \in Reorganising, NEW x \in Block, IsAncestor(x, b), IsAncestor(x, meta)
                   PROVE  IsAncestor(x, root)
      OBVIOUS
    <2>2. newChain # <<>> /\ meta \in Block /\ This # Genesis /\ Parent(This) = root
      BY <1>2, <2>1 DEF IInv, ReorgInv, TypeInv, Reorganising
    <2>3. IsAncestor(x, Final)
      BY <1>4, <2>1, <2>2, NoBlockAssumption DEF StakeTarget, Final
    <2> QED
      BY <2>1, <2>2, <2>3, OffBranch DEF IInv
  <1>6. \A x \in Block : IsAncestor(x, b) /\ x \in Under(meta) => IsAncestor(x, stake)
    <2>1. SUFFICES ASSUME NEW x \in Block, IsAncestor(x, b), x \in Under(meta)
                   PROVE  IsAncestor(x, stake)
      OBVIOUS
    <2>2. meta \in Block /\ IsAncestor(x, meta) /\ meta # NoBlock
      BY <1>2, <2>1, UnderIs, NoBlockAssumption
    <2>3. CASE pc = "idle"
      BY <1>4, <2>1, <2>2, <2>3 DEF StakeTarget, IInv, TypeInv
    <2>4. CASE pc \in Storing
      <3>1. newChain # <<>> /\ stake = Final
        BY <2>4, StoreFacts
      <3> QED
        BY <1>4, <2>1, <2>2, <3>1 DEF StakeTarget, Final
    <2>5. CASE pc \in Reorganising
      <3>1. IsAncestor(x, root) /\ IsAncestor(root, stake) /\ root \in Block
        BY <1>5, <2>1, <2>2, <2>5 DEF IInv, ReorgInv, TypeInv
      <3> QED
        BY <1>2, <3>1, AncestorTrans
    <2> QED
      BY <2>3, <2>4, <2>5 DEF IInv, TypeInv
  <1>7. TypeInv'
    BY <1>1 DEF IInv, TypeInv
  <1>8. RowsInv' /\ LinkInv'
    BY <1>1, <1>3 DEF IInv, RowsInv, LinkInv, Linked, Unfinished
  <1>9. HeightInv'
    <2>1. \A x : HeightOf(x) \in Int /\ HeightOf(x) <= HeightOf(nodeTip) => HeightOf(x) <= HeightOf(b)
      BY <1>1, <1>2, HeightType
    <2>2. \A x \in DOMAIN next : HeightOf(x) \in Int
      BY HeightType DEF IInv, TypeInv
    <2>3. \A i \in 1..Len(newChain) : HeightOf(newChain[i]) \in Int
      BY HeightType DEF IInv, TypeInv
    <2>4. meta # NoBlock => HeightOf(meta) \in Int
      BY <1>2, HeightType
    <2>5. HeightOf(stake) \in Int
      BY <1>2, HeightType
    <2> QED
      BY <1>1, <2>1, <2>2, <2>3, <2>4, <2>5 DEF IInv, HeightInv
  <1>10. StakeInv'
    <2>1. Tip \in Under(meta) \cup Under(stake) \cup {NoBlock} /\ Tip \in Block \cup {NoBlock}
      BY DEF IInv, StakeInv, RowsInv
    <2>2. ASSUME NEW x \in Block, IsAncestor(x, b), x \in Under(Tip) PROVE IsAncestor(x, stake)
      <3>1. CASE Tip \in Under(meta)
        BY <1>2, <1>6, <2>2, <3>1, UnderTrans
      <3>2. CASE Tip \in Under(stake)
        BY <1>2, <2>2, <3>2, UnderTrans, UnderIs
      <3>3. CASE Tip = NoBlock
        BY <2>2, <3>3, UnderIs
      <3> QED
        BY <2>1, <3>1, <3>2, <3>3
    <2> QED
      BY <1>1, <1>3, <1>6, <2>1, <2>2 DEF StakeInv
  <1>11. StartInv'
    BY <1>1, <1>2, NotStarting
  <1>12. KnownInv'
    BY <1>1, <1>3 DEF IInv, KnownInv
  <1>13. IdleInv'
    BY <1>1, <1>2, <1>3 DEF IInv, IdleInv, Idle
  <1>14. ChainInv'
    BY <1>1, <1>2, <1>3 DEF IInv, ChainInv
  <1>15. StoreInv'
    BY <1>1, <1>3 DEF IInv, StoreInv
  <1>16. ReorgInv'
    BY <1>1, <1>3, <1>5 DEF IInv, ReorgInv
  <1> QED
    BY <1>7, <1>8, <1>9, <1>10, <1>11, <1>12, <1>13, <1>14, <1>15, <1>16 DEF IInv

\* What a crash leaves is what the next start is prepared for.
LEMMA CrashStep == ASSUME IInv, Crash, TornCrash = FALSE PROVE IInv'
  <1>1. /\ pc \notin {"block", "sideTxns"} /\ phase' = "down" /\ best' = NoBlock /\ known' = {}
        /\ count' = 0 /\ pc' = "idle" /\ root' = Genesis /\ newChain' = <<>>
        /\ UNCHANGED <<nodeTip, blocks, txs, next, meta, stake>>
    BY DEF Crash, tables
  <1>2. MainBlocks' = MainBlocks /\ Tip' = Tip /\ MainTxs' = MainTxs
    BY <1>1, SameRows
  <1>3. TypeInv'
    BY <1>1, TreeAssumption DEF IInv, TypeInv, Reorganising
  <1>4. ChainInv' /\ StoreInv' /\ ReorgInv'
    BY <1>1, <1>3, QuietJob
  <1>5. RowsInv'
    BY <1>1, <1>2 DEF IInv, RowsInv
  <1>6. LinkInv'
    BY <1>1, <1>2 DEF IInv, LinkInv, Linked, Unfinished
  <1>7. HeightInv'
    <2>1. Len(newChain') = 0
      BY <1>1
    <2> QED
      BY <1>1, <2>1 DEF IInv, HeightInv
  <1>8. StakeInv'
    BY <1>1, <1>2 DEF IInv, StakeInv
  <1>9. StartInv' /\ KnownInv' /\ IdleInv'
    BY <1>1, NotStarting DEF KnownInv, IdleInv, Idle
  <1> QED
    BY <1>3, <1>4, <1>5, <1>6, <1>7, <1>8, <1>9 DEF IInv

-------------------------------------------------------------------------------
(* The handlers.                                                            *)

\* One block to be stored.
LEMMA OneBlock ==
    ASSUME NEW b \in Block, newChain' = <<b>>
    PROVE  /\ This' = b /\ Final' = b /\ Goal' = b /\ Len(newChain') = 1
           /\ \A i \in 1..Len(newChain') : i = 1 /\ newChain'[i] = b
           /\ newChain' # <<>> /\ newChain' \in Seq(Block)
  BY DEF This, Final, Goal

\* A block on top of the tables and of the stake database is ready to be stored.
LEMMA NextBlock ==
    ASSUME IInv, TypeInv', meta \in Block, NEW b \in Block, b # Genesis, Parent(b) = meta,
           Tip = meta, IsAncestor(b, nodeTip), pc = "idle", phase \in {"sync", "running"},
           newChain' = <<b>>, pc' = "store", stake' = b, known' = known \cup {b},
           UNCHANGED <<nodeTip, blocks, txs, next, meta, best, phase, count, root>>
    PROVE  IInv'
  <1>1. /\ This' = b /\ Final' = b /\ Goal' = b /\ Len(newChain') = 1
        /\ \A i \in 1..Len(newChain') : i = 1 /\ newChain'[i] = b
        /\ newChain' # <<>> /\ newChain' \in Seq(Block)
    BY OneBlock
  <1>2. MainBlocks' = MainBlocks /\ Tip' = Tip /\ MainTxs' = MainTxs
    BY SameRows
  <1>3. /\ IsAncestor(meta, b) /\ ~IsAncestor(b, meta) /\ HeightOf(meta) = HeightOf(b) - 1
        /\ HeightOf(b) <= HeightOf(nodeTip) /\ HeightOf(b) \in Nat /\ meta # NoBlock
        /\ nodeTip \in Block
    <2>1. nodeTip \in Block
      BY DEF IInv, TypeInv
    <2> QED
      BY <2>1, AncestorParent, AncestorHeight, HeightType, NoBlockAssumption
  <1>4. newChain = <<>> /\ Goal = meta
    BY DEF IInv, TypeInv, Goal
  <1>5. RowsInv'
    BY <1>2 DEF IInv, RowsInv
  <1>6. LinkInv'
    BY <1>2 DEF IInv, LinkInv, Linked, Unfinished
  <1>7. HeightInv'
    BY <1>1, <1>3 DEF IInv, HeightInv
  <1>8. StakeInv'
    <2>1. meta \in Under(b) /\ \A x \in Under(meta) : x \in Under(b)
      BY <1>3, UnderIs, UnderTrans
    <2>2. \A x \in Block : x \in Under(b) => IsAncestor(x, b)
      BY UnderIs
    <2> QED
      BY <1>2, <2>1, <2>2 DEF StakeInv
  <1>9. StartInv'
    BY NotStarting
  <1>10. H(Goal) = HeightOf(b) - 1 /\ H(Goal)' = HeightOf(b)
    BY <1>1, <1>3, <1>4, HIs
  <1>11. KnownInv'
    <2>1. \A x \in MainBlocks : HeightOf(x) \in Nat
      BY HeightType, UnderIs DEF IInv, RowsInv
    <2>2. \A x \in MainBlocks : HeightOf(x) >= HeightOf(b) - ChargeDepth =>
              HeightOf(x) >= (HeightOf(b) - 1) - ChargeDepth
      BY <1>3, <2>1, ChargeAssumption
    <2>3. \A x \in MainBlocks : HeightOf(x) >= HeightOf(b) - ChargeDepth => x \in known
      BY <1>10, <2>2 DEF IInv, KnownInv
    <2> QED
      BY <1>2, <1>10, <2>3 DEF IInv, KnownInv
  <1>12. IdleInv'
    <2>1. phase = "running" => \A x \in DOMAIN next : HeightOf(x) <= HeightOf(b) - 1
      BY <1>3, <1>4 DEF IInv, IdleInv
    <2>2. phase = "running" => \A x \in DOMAIN next : HeightOf(x) <= HeightOf(b)
      <3>1. \A x \in DOMAIN next : HeightOf(x) \in Nat
        BY HeightType DEF IInv, TypeInv
      <3> QED
        BY <1>3, <2>1, <3>1
    <2> QED
      BY <1>1, <2>2, NoBlockAssumption DEF IdleInv, Idle
  <1>13. ChainInv'
    <2>1. b \notin Under(meta)
      BY <1>3, UnderIs
    <2> QED
      BY <1>1, <1>3, <2>1, AncestorSelf DEF ChainInv
  <1>14. StoreInv'
    <2>1. Tip = Before(b)
      BY DEF Before
    <2>2. Tip \in known
      <3>1. meta \in MainBlocks
        BY UnderIs DEF IInv, RowsInv
      <3>2. HeightOf(meta) >= H(Goal) - ChargeDepth
        BY <1>3, <1>10, ChargeAssumption
      <3> QED
        BY <3>1, <3>2 DEF IInv, KnownInv
    <2> QED
      BY <1>1, <1>2, <2>1, <2>2 DEF StoreInv
  <1>15. ReorgInv'
    BY DEF ReorgInv, Reorganising
  <1> QED
    BY <1>5, <1>6, <1>7, <1>8, <1>9, <1>11, <1>12, <1>13, <1>14, <1>15 DEF IInv

\* What holds between two handlers.
LEMMA IdleFacts ==
    ASSUME IInv, Idle
    PROVE  /\ meta \in Block /\ meta = Tip /\ best = meta /\ stake = meta /\ newChain = <<>>
           /\ Goal = meta /\ MainBlocks = Under(meta) /\ MainTxs = Under(meta) /\ nodeTip \in Block
           /\ phase = "running" /\ pc = "idle"
  <1>1. /\ meta = Tip /\ best = meta /\ stake = meta /\ meta # NoBlock
        /\ phase = "running" /\ pc = "idle" /\ nodeTip \in Block
        /\ meta \in Block \cup {NoBlock} /\ newChain = <<>>
    BY DEF IInv, IdleInv, TypeInv, Idle
  <1> QED
    BY <1>1 DEF IInv, RowsInv, Goal

\* A connected block.
LEMMA ConnectBlockStep == ASSUME IInv, NEW b \in Block, ConnectBlock(b) PROVE IInv'
  <1>1. /\ Idle /\ IsAncestor(b, nodeTip) /\ b # Genesis /\ Parent(b) = stake
        /\ stake' = b /\ known' = known \cup {b} /\ newChain' = <<b>> /\ pc' = "store"
        /\ UNCHANGED <<nodeTip, blocks, txs, next, meta, best, phase, count, root>>
    BY DEF ConnectBlock, tables
  <1>2. meta \in Block /\ meta = Tip /\ stake = meta /\ phase = "running" /\ pc = "idle"
    BY <1>1, IdleFacts
  <1>3. TypeInv'
    BY <1>1, <1>2, OneBlock DEF IInv, TypeInv, Storing, Reorganising
  <1> QED
    BY <1>1, <1>2, <1>3, NextBlock

\* The beginning of a reorganisation: the branches part at root.
LEMMA ReorgHandlerStep == ASSUME IInv, ReorgHandler, ShallowForks PROVE IInv'
  <1> DEFINE fork == ForkHeight(nodeTip, stake)
             f == At(nodeTip, fork)
             top == HeightOf(nodeTip)
  <1>1. /\ Idle /\ ~IsAncestor(stake, nodeTip) /\ root' = f
        /\ newChain' = SubSeq(Chain[nodeTip], fork + 1, top) /\ pc' = "stakeDown"
        /\ UNCHANGED <<nodeTip, blocks, txs, next, meta, stake, best, known, phase, count>>
    BY DEF ReorgHandler, tables
  <1>2. /\ meta \in Block /\ meta = Tip /\ best = meta /\ stake = meta /\ nodeTip \in Block
        /\ Goal = meta /\ MainBlocks = Under(meta) /\ MainTxs = Under(meta)
        /\ phase = "running" /\ pc = "idle" /\ meta # NoBlock
    BY <1>1, IdleFacts, NoBlockAssumption
  <1>3. /\ f \in Block /\ HeightOf(f) = fork /\ IsAncestor(f, nodeTip) /\ IsAncestor(f, meta)
        /\ \A x \in Block : IsAncestor(x, nodeTip) /\ IsAncestor(x, meta) => IsAncestor(x, f)
    BY <1>2, ForkBlock
  <1>4. /\ fork \in Nat /\ top \in Nat /\ HeightOf(meta) \in Nat
        /\ fork < HeightOf(meta) /\ HeightOf(meta) <= top
    <2>1. fork \in Nat /\ top \in Nat /\ HeightOf(meta) \in Nat /\ HeightOf(meta) <= top
      BY <1>2, <1>3, HeightType DEF IInv, HeightInv
    <2>2. fork <= HeightOf(meta) /\ (fork = HeightOf(meta) => f = meta)
      BY <1>2, <1>3, AncestorHeight
    <2>3. f # meta
      BY <1>1, <1>2, <1>3
    <2> QED
      BY <2>1, <2>2, <2>3
  <1> HIDE DEF fork, f, top
  <1>5. Chain[nodeTip] \in Seq(Block) /\ Len(Chain[nodeTip]) = top
    BY <1>2, TreeAssumption DEF top, HeightOf
  <1>6. /\ newChain' \in Seq(Block) /\ Len(newChain') = top - fork /\ Len(newChain') \in Nat
        /\ \A i \in 1..Len(newChain') : newChain'[i] = Chain[nodeTip][fork + i]
    <2>1. newChain' \in Seq(Block) /\ Len(newChain') = top - fork
      BY <1>1, <1>4, <1>5
    <2>2. \A i \in 1..(top - fork) : newChain'[i] = Chain[nodeTip][fork + i]
      BY <1>1, <1>4, <1>5
    <2> QED
      BY <1>4, <2>1, <2>2
  <1>7. \A i \in 1..Len(newChain') :
            /\ newChain'[i] = At(nodeTip, fork + i) /\ newChain'[i] \in Block
            /\ IsAncestor(newChain'[i], nodeTip) /\ HeightOf(newChain'[i]) = fork + i
    <2>1. SUFFICES ASSUME NEW i \in 1..Len(newChain')
                   PROVE  /\ newChain'[i] = At(nodeTip, fork + i) /\ newChain'[i] \in Block
                          /\ IsAncestor(newChain'[i], nodeTip) /\ HeightOf(newChain'[i]) = fork + i
      OBVIOUS
    <2>2. fork + i \in 0..top /\ fork + i # 0
      BY <1>4, <1>6
    <2>3. newChain'[i] = At(nodeTip, fork + i)
      BY <1>6, <2>2 DEF At
    <2>4. fork + i \in 0..HeightOf(nodeTip)
      BY <2>2 DEF top
    <2> QED
      BY <1>2, <2>3, <2>4, AncestorAt
  <1>8. newChain' # <<>> /\ 1 \in 1..Len(newChain') /\ Len(newChain') \in 1..Len(newChain')
    <2>1. Len(newChain') >= 1
      BY <1>4, <1>6
    <2> QED
      BY <1>6, <2>1
  <1>9. This' = newChain'[1] /\ Final' = newChain'[Len(newChain')]
    BY <1>6, <1>8 DEF This, Final
  <1>10. Final' = nodeTip /\ Goal' = nodeTip
    <2>1. HeightOf(Final') = HeightOf(nodeTip) /\ IsAncestor(Final', nodeTip) /\ Final' \in Block
      <3>1. HeightOf(Final') = fork + Len(newChain') /\ IsAncestor(Final', nodeTip) /\ Final' \in Block
        BY <1>7, <1>8, <1>9
      <3>2. fork + Len(newChain') = top
        BY <1>4, <1>6
      <3> QED
        BY <3>1, <3>2 DEF top
    <2>2. Final' = nodeTip
      BY <1>2, <2>1, AncestorHeight
    <2> QED
      BY <1>8, <2>2 DEF Goal
  <1>11. /\ This' \in Block /\ This' # Genesis /\ Parent(This') = f
         /\ IsAncestor(This', nodeTip) /\ HeightOf(This') = fork + 1 /\ This' \notin Under(meta)
    <2>1. /\ This' \in Block /\ This' = At(nodeTip, fork + 1)
          /\ IsAncestor(This', nodeTip) /\ HeightOf(This') = fork + 1
      BY <1>7, <1>8, <1>9
    <2>2. fork + 1 \in 1..HeightOf(nodeTip) /\ (fork + 1) - 1 = fork
      BY <1>4 DEF top
    <2>3. This' # Genesis /\ Parent(This') = f
      BY <1>2, <2>1, <2>2, ParentOnBranch DEF f
    <2>4. ~IsAncestor(This', f)
      BY <1>3, <1>4, <2>1, AncestorHeight
    <2>5. This' \notin Under(meta)
      BY <1>2, <1>3, <2>1, <2>4, UnderIs
    <2> QED
      BY <2>1, <2>3, <2>5
  <1>12. MainBlocks' = MainBlocks /\ Tip' = Tip /\ MainTxs' = MainTxs
    BY <1>1, SameRows
  <1>13. TypeInv'
    BY <1>1, <1>2, <1>3, <1>6, <1>8 DEF IInv, TypeInv, Reorganising
  <1>14. RowsInv'
    BY <1>1, <1>2, <1>12 DEF IInv, RowsInv
  <1>15. LinkInv'
    BY <1>1, <1>2, <1>12 DEF IInv, LinkInv, Linked, Unfinished
  <1>16. HeightInv'
    <2>1. \A i \in 1..Len(newChain') : HeightOf(newChain'[i]) <= HeightOf(nodeTip)
      BY <1>2, <1>7, AncestorHeight
    <2> QED
      BY <1>1, <2>1 DEF IInv, HeightInv
  <1>17. StakeInv'
    BY <1>1, <1>12 DEF IInv, StakeInv
  <1>18. StartInv'
    BY <1>1, <1>2, NotStarting
  <1>19. \A x \in MainBlocks : HeightOf(x) >= HeightOf(meta) - ChargeDepth => x \in known
    BY <1>2, HIs DEF IInv, KnownInv
  <1>20. KnownInv'
    <2>1. \A x \in MainBlocks : HeightOf(x) >= top - ChargeDepth => HeightOf(x) >= HeightOf(meta) - ChargeDepth
      <3>1. \A x \in MainBlocks : HeightOf(x) \in Nat
        BY <1>2, HeightType, UnderIs
      <3> QED
        BY <1>4, <3>1, ChargeAssumption
    <2>2. H(Goal)' = top
      BY <1>2, <1>10, HIs DEF top
    <2> QED
      BY <1>1, <1>2, <1>12, <1>19, <2>1, <2>2 DEF IInv, KnownInv
  <1>21. IdleInv'
    BY <1>1, <1>2, <1>10, NoBlockAssumption DEF IInv, IdleInv, Idle, HeightInv
  <1>22. ChainInv'
    <2>1. \A i \in 1..Len(newChain') : HeightOf(newChain'[i]) = top - Len(newChain') + i
      BY <1>4, <1>6, <1>7
    <2> QED
      BY <1>1, <1>2, <1>7, <1>10, <1>11, <2>1 DEF ChainInv, top
  <1>23. StoreInv'
    BY <1>1 DEF StoreInv, Storing
  <1>24. ReorgInv'
    <2>1. f \in known
      <3>1. HeightOf(meta) - fork <= ChargeDepth
        BY <1>2, <1>4 DEF ShallowForks, fork, top
      <3>2. HeightOf(f) >= HeightOf(meta) - ChargeDepth
        BY <1>3, <1>4, <3>1, ChargeAssumption
      <3>3. f \in MainBlocks
        BY <1>2, <1>3, UnderIs
      <3> QED
        BY <1>19, <3>2, <3>3
    <2>2. IsAncestor(meta, meta)
      BY <1>2, AncestorSelf
    <2> QED
      BY <1>1, <1>2, <1>3, <1>11, <1>12, <2>1, <2>2 DEF ReorgInv
  <1> QED
    BY <1>13, <1>14, <1>15, <1>16, <1>17, <1>18, <1>20, <1>21, <1>22, <1>23, <1>24 DEF IInv

\* What holds during a reorganisation.
LEMMA ReorgFacts ==
    ASSUME IInv, pc \in Reorganising
    PROVE  /\ phase = "running" /\ newChain # <<>> /\ pc \notin Storing
           /\ meta \in Block /\ best \in Block /\ root \in Block /\ stake \in Block
           /\ This \in Block /\ Final \in Block /\ IsAncestor(This, Final)
           /\ This # Genesis /\ Parent(This) = root /\ IsAncestor(root, This)
           /\ HeightOf(This) = HeightOf(root) + 1
           /\ IsAncestor(root, stake) /\ IsAncestor(root, best) /\ IsAncestor(best, meta)
           /\ Tip \in Under(meta) \cup {NoBlock} /\ Tip \in Block \cup {NoBlock}
           /\ \A x \in Block : IsAncestor(x, nodeTip) /\ x \in Under(meta) => IsAncestor(x, root)
  <1>1. /\ phase = "running" /\ newChain # <<>> /\ pc \notin Storing
        /\ meta \in Block /\ best \in Block /\ root \in Block /\ stake \in Block
    BY DEF IInv, TypeInv, ReorgInv, Reorganising, Storing
  <1>2. This \in Block /\ Final \in Block /\ IsAncestor(This, Final)
    BY <1>1, NewChainIs DEF IInv
  <1>3. /\ This # Genesis /\ Parent(This) = root
        /\ IsAncestor(root, stake) /\ IsAncestor(root, best) /\ IsAncestor(best, meta)
        /\ \A x \in Block : IsAncestor(x, nodeTip) /\ IsAncestor(x, meta) => IsAncestor(x, root)
    BY DEF IInv, ReorgInv
  <1>4. IsAncestor(root, This) /\ HeightOf(root) = HeightOf(This) - 1
    BY <1>2, <1>3, AncestorParent
  <1>5. HeightOf(This) = HeightOf(root) + 1
    BY <1>1, <1>2, <1>4, HeightType
  <1>6. Tip = best \/ (Tip = Parent(best) /\ best # root)
    BY DEF IInv, ReorgInv, Reorganising
  <1>7. Tip \in Under(meta)
    <2>1. best \in Under(meta)
      BY <1>1, <1>3, UnderIs
    <2>2. best # root => best # Genesis
      BY <1>1, <1>3, AncestorGenesis
    <2>3. best # root => Parent(best) \in Under(meta)
      BY <1>1, <2>1, <2>2, ParentUnder
    <2> QED
      BY <1>6, <2>1, <2>3
  <1>8. Tip \in Block
    BY <1>1, <1>7, UnderIs
  <1> QED
    BY <1>1, <1>2, <1>3, <1>4, <1>5, <1>7, <1>8, UnderIs

\* The conjunct on the stake database holds wherever it is above the root.
LEMMA StakeAboveRoot ==
    ASSUME IInv, pc \in Reorganising, stake' \in Block, IsAncestor(root, stake'),
           UNCHANGED <<nodeTip, meta, blocks>>
    PROVE  StakeInv'
  <1>1. MainBlocks' = MainBlocks /\ Tip' = Tip
    BY SameRows
  <1>2. /\ meta \in Block /\ root \in Block /\ Tip \in Under(meta) \cup {NoBlock}
        /\ \A x \in Block : IsAncestor(x, nodeTip) /\ x \in Under(meta) => IsAncestor(x, root)
    BY ReorgFacts
  <1>3. \A x \in Under(Tip) : x \in Under(meta)
    BY <1>2, UnderTrans, UnderIs
  <1>4. \A x \in Block : IsAncestor(x, root) => IsAncestor(x, stake')
    BY <1>2, AncestorTrans
  <1> QED
    BY <1>1, <1>2, <1>3, <1>4 DEF StakeInv

\* The stake database goes down to the root.
LEMMA StakeDownStep == ASSUME IInv, StakeDown PROVE IInv'
  <1>1. /\ pc = "stakeDown" /\ pc \in Reorganising
        /\ IF stake = root THEN pc' = "stakeUp" /\ stake' = stake
           ELSE stake' = Parent(stake) /\ pc' = pc
        /\ UNCHANGED <<nodeTip, blocks, txs, next, meta, best, known, phase, count, root, newChain>>
    BY DEF StakeDown, tables, Reorganising
  <1>2. /\ phase = "running" /\ newChain # <<>> /\ stake \in Block /\ root \in Block /\ meta \in Block
        /\ IsAncestor(root, stake) /\ IsAncestor(stake, meta)
    BY <1>1, ReorgFacts DEF IInv, ReorgInv
  <1>3. /\ MainBlocks' = MainBlocks /\ Tip' = Tip /\ MainTxs' = MainTxs
        /\ This' = This /\ Final' = Final /\ Goal' = Goal
    BY <1>1, SameRows DEF This, Final, Goal
  <1>4. /\ stake' \in Block /\ IsAncestor(root, stake') /\ IsAncestor(stake', meta)
        /\ HeightOf(stake') <= HeightOf(stake)
    <2>1. CASE stake = root
      BY <1>1, <1>2, <2>1, HeightType
    <2>2. CASE stake # root
      <3>1. stake # Genesis
        BY <1>2, <2>2, AncestorGenesis
      <3>2. /\ Parent(stake) \in Block /\ IsAncestor(Parent(stake), stake) /\ IsAncestor(root, Parent(stake))
            /\ HeightOf(Parent(stake)) <= HeightOf(stake)
        BY <1>2, <2>2, <3>1, AncestorParent, AncestorHeight
      <3>3. IsAncestor(Parent(stake), meta)
        BY <1>2, <3>2, AncestorTrans
      <3> QED
        BY <1>1, <2>2, <3>2, <3>3
    <2> QED
      BY <2>1, <2>2
  <1>5. pc' \in {"stakeDown", "stakeUp"} /\ (pc' = "stakeUp" => stake' = root)
    BY <1>1
  <1>6. TypeInv'
    BY <1>1, <1>2, <1>4, <1>5 DEF IInv, TypeInv, Reorganising
  <1>7. RowsInv'
    BY <1>1, <1>3, <1>5 DEF IInv, RowsInv
  <1>8. LinkInv'
    BY <1>1, <1>3, <1>5 DEF IInv, LinkInv, Linked, Unfinished
  <1>9. HeightInv'
    <2>1. HeightOf(stake) <= HeightOf(nodeTip) /\ nodeTip \in Block
      BY DEF IInv, HeightInv, TypeInv
    <2>2. HeightOf(stake') <= HeightOf(nodeTip)
      BY <1>2, <1>4, <2>1, HeightType
    <2> QED
      BY <1>1, <2>2 DEF IInv, HeightInv
  <1>10. StakeInv'
    BY <1>1, <1>4, StakeAboveRoot
  <1>11. StartInv'
    BY <1>1, <1>2, NotStarting
  <1>12. KnownInv'
    BY <1>1, <1>3 DEF IInv, KnownInv
  <1>13. IdleInv'
    BY <1>1, <1>2, <1>3, <1>5 DEF IInv, IdleInv, Idle
  <1>14. ChainInv'
    BY <1>1, <1>2, <1>3 DEF IInv, ChainInv
  <1>15. StoreInv'
    BY <1>5 DEF StoreInv, Storing
  <1>16. ReorgInv'
    <2>1. Len(newChain) \in Nat /\ Len(newChain) >= 1
      BY <1>2, NewChainIs DEF IInv
    <2>2. pc' = "stakeUp" => HeightOf(stake') - HeightOf(root') = 0
      BY <1>1, <1>2, <1>5, HeightType
    <2>3. \A i \in 1..0 : FALSE
      OBVIOUS
    <2>4. pc' = "stakeUp" =>
              LET k == HeightOf(stake') - HeightOf(root')
              IN  /\ k \in 0..(Len(newChain') - 1)
                  /\ stake' = IF k = 0 THEN root' ELSE newChain'[k]
                  /\ \A i \in 1..k : newChain'[i] \in known'
      BY <1>1, <1>5, <2>1, <2>2, <2>3
    <2> QED
      BY <1>1, <1>3, <1>4, <1>5, <2>4 DEF IInv, ReorgInv
  <1> QED
    BY <1>6, <1>7, <1>8, <1>9, <1>10, <1>11, <1>12, <1>13, <1>14, <1>15, <1>16 DEF IInv

\* The stake database goes up the new branch.
LEMMA StakeUpStep == ASSUME IInv, StakeUp PROVE IInv'
  <1> DEFINE k == HeightOf(stake) - HeightOf(root)
  <1>1. /\ pc = "stakeUp" /\ pc \in Reorganising
        /\ stake' = newChain[k + 1] /\ known' = known \cup {stake'}
        /\ pc' = IF stake' = Final THEN "side" ELSE pc
        /\ UNCHANGED <<nodeTip, blocks, txs, next, meta, best, phase, count, root, newChain>>
    BY DEF StakeUp, tables, Reorganising, Final
  <1>2. /\ phase = "running" /\ newChain # <<>> /\ stake \in Block /\ root \in Block
        /\ This \in Block /\ Final \in Block /\ IsAncestor(This, Final) /\ IsAncestor(root, This)
        /\ HeightOf(This) = HeightOf(root) + 1
    BY <1>1, ReorgFacts
  <1>3. /\ Len(newChain) \in Nat /\ HeightOf(Final) = HeightOf(This) + Len(newChain) - 1
        /\ \A i \in 1..Len(newChain) : newChain[i] \in Block
    BY <1>2, NewChainIs DEF IInv
  <1>4. /\ k \in 0..(Len(newChain) - 1)
        /\ \A i \in 1..k : newChain[i] \in known
    BY <1>1 DEF IInv, ReorgInv
  <1> HIDE DEF k
  <1>5. k + 1 \in 1..Len(newChain) /\ k \in Nat
    BY <1>3, <1>4
  <1>6. \A i \in 1..Len(newChain) :
            HeightOf(newChain[i]) = HeightOf(root) + i /\ IsAncestor(newChain[i], Final)
    <2>1. \A i \in 1..Len(newChain) :
              HeightOf(newChain[i]) = HeightOf(Final) - Len(newChain) + i /\ IsAncestor(newChain[i], Final)
      BY DEF IInv, ChainInv
    <2>2. HeightOf(Final) - Len(newChain) = HeightOf(root) /\ HeightOf(root) \in Nat
      BY <1>2, <1>3, HeightType
    <2> QED
      BY <2>1, <2>2
  <1>7. stake' \in Block /\ IsAncestor(stake', Final) /\ HeightOf(stake') = HeightOf(root) + (k + 1)
    BY <1>1, <1>3, <1>5, <1>6
  <1>8. IsAncestor(root, stake')
    <2>1. IsAncestor(root, Final)
      BY <1>2, AncestorTrans
    <2>2. HeightOf(root) <= HeightOf(stake')
      BY <1>2, <1>5, <1>7, HeightType
    <2> QED
      BY <1>2, <1>7, <2>1, <2>2, AncestorTotal
  <1>9. /\ MainBlocks' = MainBlocks /\ Tip' = Tip /\ MainTxs' = MainTxs
        /\ This' = This /\ Final' = Final /\ Goal' = Goal
    BY <1>1, SameRows DEF This, Final, Goal
  <1>10. pc' \in {"stakeUp", "side"} /\ (pc' = "side" <=> stake' = Final)
    BY <1>1
  <1>11. TypeInv'
    BY <1>1, <1>2, <1>7, <1>10 DEF IInv, TypeInv, Reorganising
  <1>12. RowsInv'
    BY <1>1, <1>9, <1>10 DEF IInv, RowsInv
  <1>13. LinkInv'
    BY <1>1, <1>9, <1>10 DEF IInv, LinkInv, Linked, Unfinished
  <1>14. HeightInv'
    BY <1>1, <1>5 DEF IInv, HeightInv
  <1>15. StakeInv'
    BY <1>1, <1>7, <1>8, StakeAboveRoot
  <1>16. StartInv'
    BY <1>1, <1>2, NotStarting
  <1>17. KnownInv'
    BY <1>1, <1>9 DEF IInv, KnownInv
  <1>18. IdleInv'
    BY <1>1, <1>2, <1>9, <1>10 DEF IInv, IdleInv, Idle
  <1>19. ChainInv'
    BY <1>1, <1>2, <1>9 DEF IInv, ChainInv
  <1>20. StoreInv'
    BY <1>10 DEF StoreInv, Storing
  <1>21. \A i \in 1..(k + 1) : newChain[i] \in known'
    <2>1. \A i \in 1..(k + 1) : i = k + 1 \/ i \in 1..k
      BY <1>5
    <2> QED
      BY <1>1, <1>4, <2>1
  <1>22. ReorgInv'
    <2>1. pc' = "side" => k + 1 = Len(newChain)
      <3>1. HeightOf(Final) = HeightOf(root) + Len(newChain) /\ HeightOf(root) \in Nat
        BY <1>2, <1>3, HeightType
      <3> QED
        BY <1>3, <1>5, <1>7, <1>10, <3>1
    <2>2. pc' = "side" => stake' = Final' /\ \A i \in 1..Len(newChain') : newChain'[i] \in known'
      BY <1>1, <1>9, <1>10, <1>21, <2>1
    <2>3. HeightOf(stake') - HeightOf(root') = k + 1
      BY <1>1, <1>2, <1>5, <1>7, HeightType
    <2>4. pc' = "stakeUp" => k + 1 # Len(newChain)
      BY <1>1, <1>10 DEF Final
    <2>5. pc' = "stakeUp" => k + 1 \in 0..(Len(newChain') - 1)
      BY <1>1, <1>3, <1>5, <2>4
    <2>6. k + 1 # 0
      BY <1>5
    <2>7. pc' = "stakeUp" =>
              LET j == HeightOf(stake') - HeightOf(root')
              IN  /\ j \in 0..(Len(newChain') - 1)
                  /\ stake' = IF j = 0 THEN root' ELSE newChain'[j]
                  /\ \A i \in 1..j : newChain'[i] \in known'
      BY <1>1, <1>21, <2>3, <2>5, <2>6
    <2> QED
      BY <1>1, <1>8, <1>9, <1>10, <2>2, <2>7 DEF IInv, ReorgInv
  <1> QED
    BY <1>11, <1>12, <1>13, <1>14, <1>15, <1>16, <1>17, <1>18, <1>19, <1>20, <1>22 DEF IInv

\* TipToSideChain: the blocks row of the tip leaves the main chain.
LEMMA SetMainchainByBlockHashStep == ASSUME IInv, SetMainchainByBlockHash PROVE IInv'
  <1>1. /\ pc = "side" /\ pc \in Reorganising
        /\ UNCHANGED <<nodeTip, txs, next, meta, stake, best, known, phase, count, root, newChain>>
    BY DEF SetMainchainByBlockHash, Reorganising
  <1>2. /\ phase = "running" /\ newChain # <<>> /\ best \in Block /\ root \in Block /\ meta \in Block
        /\ stake \in Block /\ This \in Block /\ This # Genesis /\ Parent(This) = root
        /\ IsAncestor(root, best) /\ IsAncestor(best, meta) /\ Tip = best
        /\ MainBlocks = Under(best) /\ MainTxs = Under(best) /\ root \in known /\ stake = Final
        /\ \A i \in 1..Len(newChain) : newChain[i] \in known
    BY <1>1, ReorgFacts DEF IInv, ReorgInv, RowsInv
  <1>3. This' = This /\ Final' = Final /\ Goal' = Goal /\ MainTxs' = MainTxs
    BY <1>1, SameRows DEF This, Final, Goal
  <1>4. \A x \in MainBlocks : x \in DOMAIN next
    BY <1>1 DEF IInv, LinkInv, Unfinished
  <1>5. \A y \in MainBlocks \ {Genesis} : Linked(y)
    BY <1>1 DEF IInv, LinkInv, Unfinished
  <1>6. CASE best = root
    <2>1. pc' = "store" /\ blocks' = blocks
      BY <1>6 DEF SetMainchainByBlockHash
    <2>2. MainBlocks' = MainBlocks /\ Tip' = Tip
      BY <2>1, SameRows
    <2>3. TypeInv'
      BY <1>1, <1>2, <2>1 DEF IInv, TypeInv, Storing, Reorganising
    <2>4. RowsInv'
      BY <1>1, <1>3, <2>1, <2>2 DEF IInv, RowsInv
    <2>5. LinkInv'
      BY <1>1, <1>4, <1>5, <2>1, <2>2 DEF IInv, LinkInv, Linked
    <2>6. HeightInv' /\ StakeInv' /\ KnownInv'
      BY <1>1, <1>3, <2>2 DEF IInv, HeightInv, StakeInv, KnownInv
    <2>7. StartInv'
      BY <1>1, <1>2, NotStarting
    <2>8. IdleInv'
      BY <1>1, <1>2, <1>3, <2>1 DEF IInv, IdleInv, Idle
    <2>9. ChainInv'
      BY <1>1, <1>2, <1>3 DEF IInv, ChainInv
    <2>10. StoreInv'
      BY <1>1, <1>2, <1>3, <1>6, <2>1, <2>2 DEF StoreInv, Before
    <2>11. ReorgInv'
      BY <2>1 DEF ReorgInv, Reorganising
    <2> QED
      BY <2>3, <2>4, <2>5, <2>6, <2>7, <2>8, <2>9, <2>10, <2>11 DEF IInv
  <1>7. CASE best # root
    <2>1. pc' = "sideTxns" /\ blocks' = [blocks EXCEPT ![best].main = FALSE]
      BY <1>7 DEF SetMainchainByBlockHash
    <2>2. best # Genesis
      BY <1>2, <1>7, AncestorGenesis
    <2>3. /\ Before(best) = Parent(best) /\ Parent(best) \in Block
          /\ Under(Parent(best)) = Under(best) \ {best} /\ best \in Under(best)
      BY <1>2, <2>2, UnderBefore, UnderIs, ParentType DEF Before
    <2>4. /\ DOMAIN blocks' = DOMAIN blocks
          /\ \A x \in DOMAIN blocks : blocks'[x].valid = blocks[x].valid
          /\ \A x \in DOMAIN blocks : x # best => blocks'[x].main = blocks[x].main
          /\ best \in DOMAIN blocks => ~blocks'[best].main
      <3>1. blocks \in [DOMAIN blocks -> [main : BOOLEAN, valid : BOOLEAN]]
        BY DEF IInv, TypeInv
      <3> QED
        BY <2>1, <3>1
    <2>5. MainBlocks' = MainBlocks \ {best}
      BY <2>4 DEF MainBlocks
    <2>6. MainBlocks' = Under(Parent(best)) /\ Tip' = Parent(best)
      BY <1>2, <2>3, <2>5, TipFrom
    <2>7. TypeInv'
      <3>1. blocks' \in [DOMAIN blocks' -> [main : BOOLEAN, valid : BOOLEAN]] /\ DOMAIN blocks' \subseteq Block
        BY <2>1 DEF IInv, TypeInv
      <3> QED
        BY <1>1, <1>2, <2>1, <3>1 DEF IInv, TypeInv, Reorganising
    <2>8. RowsInv'
      BY <1>1, <1>2, <1>3, <2>1, <2>3, <2>6 DEF RowsInv
    <2>9. LinkInv'
      <3>1. ASSUME NEW y \in MainBlocks \ {Genesis} PROVE Linked(y)'
        <4>1. Parent(y) \in DOMAIN blocks
          BY <1>2, ParentUnder DEF MainBlocks
        <4> QED
          BY <1>1, <1>5, <2>4, <4>1 DEF Linked
      <3> QED
        BY <1>1, <1>4, <2>5, <3>1 DEF IInv, LinkInv
    <2>10. HeightInv'
      BY <1>1 DEF IInv, HeightInv
    <2>11. StakeInv'
      <3>1. Parent(best) \in Under(meta)
        <4>1. best \in Under(meta)
          BY <1>2, UnderIs
        <4> QED
          BY <1>2, <2>2, <4>1, ParentUnder
      <3>2. Under(Tip') \subseteq Under(Tip)
        BY <1>2, <2>3, <2>6
      <3> QED
        BY <1>1, <2>6, <3>1, <3>2 DEF IInv, StakeInv
    <2>12. KnownInv'
      BY <1>1, <1>3, <2>5 DEF IInv, KnownInv
    <2>13. StartInv'
      BY <1>1, <1>2, NotStarting
    <2>14. IdleInv'
      BY <1>1, <1>2, <1>3, <2>1 DEF IInv, IdleInv, Idle
    <2>15. ChainInv'
      BY <1>1, <1>2, <1>3 DEF IInv, ChainInv
    <2>16. StoreInv'
      BY <2>1 DEF StoreInv, Storing
    <2>17. ReorgInv'
      BY <1>1, <1>3, <1>7, <2>1, <2>6 DEF IInv, ReorgInv
    <2> QED
      BY <2>7, <2>8, <2>9, <2>10, <2>11, <2>12, <2>13, <2>14, <2>15, <2>16, <2>17 DEF IInv
  <1> QED
    BY <1>6, <1>7

\* TipToSideChain: the rows of the tip's transactions follow, and memory.
LEMMA UpdateTransactionsMainchainStep == ASSUME IInv, UpdateTransactionsMainchain PROVE IInv'
  <1>1. /\ pc = "sideTxns" /\ pc \in Reorganising /\ pc' = "side"
        /\ txs' = [txs EXCEPT ![best] = FALSE] /\ best' = Parent(best)
        /\ UNCHANGED <<nodeTip, blocks, next, meta, stake, known, phase, count, root, newChain>>
    BY DEF UpdateTransactionsMainchain, Reorganising
  <1>2. /\ phase = "running" /\ newChain # <<>> /\ best \in Block /\ root \in Block /\ meta \in Block
        /\ IsAncestor(root, best) /\ IsAncestor(best, meta) /\ Tip = Parent(best) /\ best # root
        /\ MainTxs = Under(best)
    BY <1>1, ReorgFacts DEF IInv, ReorgInv, RowsInv
  <1>3. /\ This' = This /\ Final' = Final /\ Goal' = Goal
        /\ MainBlocks' = MainBlocks /\ Tip' = Tip
    BY <1>1, SameRows DEF This, Final, Goal
  <1>4. best # Genesis
    BY <1>2, AncestorGenesis
  <1>5. Under(Parent(best)) = Under(best) \ {best} /\ Parent(best) \in Block /\ Parent(best) # NoBlock
    BY <1>2, <1>4, UnderBefore, ParentType, NoBlockAssumption DEF Before
  <1>6. MainTxs' = MainTxs \ {best}
    BY <1>1 DEF MainTxs, IInv, TypeInv
  <1>7. TypeInv'
    <2>1. txs' \in [DOMAIN txs' -> BOOLEAN] /\ DOMAIN txs' \subseteq Block
      BY <1>1 DEF IInv, TypeInv
    <2> QED
      BY <1>1, <1>2, <1>5, <2>1 DEF IInv, TypeInv, Reorganising
  <1>8. RowsInv'
    BY <1>1, <1>2, <1>3, <1>5, <1>6 DEF IInv, RowsInv
  <1>9. LinkInv'
    BY <1>1, <1>3 DEF IInv, LinkInv, Linked, Unfinished
  <1>10. HeightInv' /\ StakeInv' /\ KnownInv'
    BY <1>1, <1>3 DEF IInv, HeightInv, StakeInv, KnownInv
  <1>11. StartInv'
    BY <1>1, <1>2, NotStarting
  <1>12. IdleInv'
    BY <1>1, <1>2, <1>3 DEF IInv, IdleInv, Idle
  <1>13. ChainInv'
    BY <1>1, <1>2, <1>3 DEF IInv, ChainInv
  <1>14. StoreInv'
    BY <1>1 DEF StoreInv, Storing
  <1>15. ReorgInv'
    <2>1. IsAncestor(root, Parent(best)) /\ IsAncestor(Parent(best), best)
      BY <1>2, <1>4, AncestorParent
    <2>2. IsAncestor(Parent(best), meta)
      BY <1>2, <1>5, <2>1, AncestorTrans
    <2> QED
      BY <1>1, <1>2, <1>3, <1>5, <2>1, <2>2 DEF IInv, ReorgInv
  <1> QED
    BY <1>7, <1>8, <1>9, <1>10, <1>11, <1>12, <1>13, <1>14, <1>15 DEF IInv

\* Every step of the handlers.
LEMMA HandlersStep == ASSUME IInv, Handlers, ShallowForks PROVE IInv'
  BY ConnectBlockStep, ReorgHandlerStep, StakeDownStep, StakeUpStep,
     SetMainchainByBlockHashStep, UpdateTransactionsMainchainStep
  DEF Handlers

-------------------------------------------------------------------------------
(* The start.                                                               *)

\* What holds during a start.
LEMMA StartFacts ==
    ASSUME IInv, phase \in Starting \cup {"down"}
    PROVE  /\ pc = "idle" /\ newChain = <<>> /\ Len(newChain) = 0 /\ Tip \in Block \cup {NoBlock}
           /\ MainBlocks = Under(Tip) /\ MainTxs = Under(Tip) /\ Goal = meta
           /\ nodeTip \in Block /\ stake \in Block /\ meta \in Block \cup {NoBlock}
           /\ best \in Block \cup {NoBlock}
  <1>1. /\ pc = "idle" /\ newChain = <<>> /\ nodeTip \in Block /\ stake \in Block
        /\ meta \in Block \cup {NoBlock} /\ best \in Block \cup {NoBlock}
    BY DEF IInv, TypeInv, Starting
  <1> QED
    BY <1>1 DEF IInv, RowsInv, Goal

\* A step that leaves the tables, the stake database and the job alone.
LEMMA StartFrame ==
    ASSUME IInv, phase \in Starting \cup {"down"}, TypeInv', StartInv',
           phase' \in Starting \ {"openMeta", "purgeMeta"},
           UNCHANGED <<nodeTip, blocks, txs, next, meta, stake, pc, root, newChain>>
    PROVE  IInv'
  <1>1. MainBlocks' = MainBlocks /\ Tip' = Tip /\ MainTxs' = MainTxs
    BY SameRows
  <1>2. pc = "idle" /\ Len(newChain) = 0
    BY StartFacts
  <1>3. RowsInv' /\ LinkInv'
    BY <1>1, <1>2 DEF IInv, RowsInv, LinkInv, Linked, Unfinished
  <1>4. HeightInv' /\ StakeInv'
    BY <1>1 DEF IInv, HeightInv, StakeInv
  <1>5. KnownInv' /\ IdleInv'
    BY DEF KnownInv, IdleInv, Idle, Starting
  <1>6. ChainInv' /\ StoreInv' /\ ReorgInv'
    BY <1>2, QuietJob
  <1> QED
    BY <1>3, <1>4, <1>5, <1>6 DEF IInv

\* NewChainDB opens the tables: both have the same best block.
LEMMA NewChainDBStep == ASSUME IInv, NewChainDB PROVE IInv'
  <1>1. /\ phase \in {"down", "failed"} /\ count' = H(meta) /\ known' = {Genesis} /\ phase' = "open"
        /\ UNCHANGED <<nodeTip, blocks, txs, next, meta, stake, pc, root, newChain>>
    BY DEF NewChainDB, tables, job
  <1>2. phase = "down"
    BY <1>1 DEF IInv, TypeInv, Starting
  <1>3. Tip \in Block \cup {NoBlock} /\ MainTxs = Under(Tip) /\ meta \in Block \cup {NoBlock}
    BY <1>2, StartFacts
  <1>4. RetrieveTxsBestBlockMainchain = Tip
    BY <1>3, HighestUnder DEF RetrieveTxsBestBlockMainchain
  <1>5. best' = Tip
    BY <1>4 DEF NewChainDB, Tip
  <1>6. Tip' = Tip
    BY <1>1, SameRows
  <1>7. H(meta) \in Int
    BY <1>3, HIs
  <1>8. TypeInv'
    BY <1>1, <1>2, <1>3, <1>5, <1>7, TreeAssumption DEF IInv, TypeInv, Starting
  <1>9. StartInv'
    BY <1>1, <1>5, <1>6 DEF StartInv
  <1> QED
    BY <1>1, <1>2, <1>8, <1>9, StartFrame DEF Starting

\* NewChainDB does not have to purge (any more).
LEMMA NewChainDBDoneStep == ASSUME IInv, NewChainDBDone PROVE IInv'
  <1>1. /\ phase = "open" /\ meta = best /\ phase' = "tips"
        /\ UNCHANGED <<nodeTip, blocks, txs, next, meta, stake, best, known, count, pc, root, newChain>>
    BY DEF NewChainDBDone, MustPurge, tables, job
  <1>2. Tip' = Tip /\ best = Tip /\ Genesis \in known /\ pc = "idle"
    BY <1>1, SameRows, StartFacts DEF IInv, StartInv, Starting
  <1>3. TypeInv'
    BY <1>1 DEF IInv, TypeInv, Starting
  <1>4. StartInv'
    BY <1>1, <1>2 DEF StartInv
  <1> QED
    BY <1>1, <1>3, <1>4, StartFrame DEF Starting

\* DeleteBlockData takes the last block off the main chain, the rows of an unfinished
\* StoreBlock included: what is left is complete.
LEMMA DeleteBlockDataStep ==
    ASSUME IInv, phase \in Starting, DeleteBlockData, phase' \in {"openMeta", "purgeMeta"},
           UNCHANGED <<nodeTip, meta, stake, best, known, count, pc, root, newChain>>
    PROVE  /\ TypeInv' /\ RowsInv' /\ LinkInv' /\ HeightInv' /\ StakeInv' /\ KnownInv' /\ IdleInv'
           /\ ChainInv' /\ StoreInv' /\ ReorgInv'
           /\ Tip' = IF Tip = NoBlock THEN NoBlock ELSE Before(Tip)
  <1>1. /\ pc = "idle" /\ newChain = <<>> /\ Len(newChain) = 0 /\ Tip \in Block \cup {NoBlock}
        /\ MainBlocks = Under(Tip) /\ MainTxs = Under(Tip)
        /\ stake \in Block /\ meta \in Block \cup {NoBlock}
    BY StartFacts
  <1>2. KnownInv' /\ IdleInv'
    BY DEF KnownInv, IdleInv, Idle
  <1>3. CASE Tip = NoBlock
    <2>1. UNCHANGED <<blocks, txs, next>>
      BY <1>3 DEF DeleteBlockData, Tip
    <2>2. MainBlocks' = MainBlocks /\ Tip' = Tip /\ MainTxs' = MainTxs
      BY <2>1, SameRows
    <2>3. TypeInv'
      BY <1>1, <2>1 DEF IInv, TypeInv, Starting
    <2>4. RowsInv'
      BY <1>1, <2>2 DEF RowsInv
    <2>5. MainBlocks' = {}
      BY <1>1, <1>3, <2>2, UnderIs
    <2>6. LinkInv'
      BY <2>1, <2>5 DEF IInv, LinkInv
    <2>7. HeightInv' /\ StakeInv'
      BY <2>1, <2>2 DEF IInv, HeightInv, StakeInv
    <2>8. ChainInv' /\ StoreInv' /\ ReorgInv'
      BY <1>1, <2>3, QuietJob
    <2> QED
      BY <1>2, <1>3, <2>2, <2>3, <2>4, <2>6, <2>7, <2>8
  <1>4. CASE Tip # NoBlock
    <2>1. /\ blocks' = Drop(blocks, Tip) /\ txs' = Drop(txs, Tip)
          /\ next' = IF Tip # Genesis /\ Parent(Tip) \in DOMAIN next
                     THEN Put(Drop(next, Tip), Parent(Tip), NoBlock)
                     ELSE Drop(next, Tip)
      BY <1>4 DEF DeleteBlockData, Tip
    <2>2. /\ Tip \in Block /\ Before(Tip) \in Block \cup {NoBlock}
          /\ Under(Before(Tip)) = Under(Tip) \ {Tip} /\ Tip \in Under(Tip)
          /\ Tip # Genesis => Parent(Tip) # Tip /\ Parent(Tip) \in Block /\ Before(Tip) = Parent(Tip)
      BY <1>1, <1>4, UnderBefore, UnderIs, ParentUnder DEF Before
    <2>3. MainBlocks' = MainBlocks \ {Tip} /\ MainTxs' = MainTxs \ {Tip}
      BY <2>1 DEF MainBlocks, MainTxs, Drop
    <2>4. MainBlocks' = Under(Before(Tip)) /\ MainTxs' = Under(Before(Tip))
      BY <1>1, <2>2, <2>3
    <2>5. Tip' = Before(Tip)
      BY <2>2, <2>4, TipFrom
    <2>6. /\ DOMAIN next' = DOMAIN next \ {Tip}
          /\ \A x \in DOMAIN next' : x # Parent(Tip) => next'[x] = next[x]
          /\ Tip # Genesis /\ Parent(Tip) \in DOMAIN next => next'[Parent(Tip)] = NoBlock
          /\ Tip = Genesis => \A x \in DOMAIN next' : next'[x] = next[x]
      <3>1. CASE Tip # Genesis /\ Parent(Tip) \in DOMAIN next
        BY <2>1, <2>2, <3>1 DEF Put, Drop
      <3>2. CASE ~(Tip # Genesis /\ Parent(Tip) \in DOMAIN next)
        BY <2>1, <2>2, <3>2 DEF Drop
      <3> QED
        BY <3>1, <3>2
    <2>7. TypeInv'
      <3>1. blocks' \in [DOMAIN blocks' -> [main : BOOLEAN, valid : BOOLEAN]] /\ DOMAIN blocks' \subseteq Block
        BY <2>1 DEF IInv, TypeInv, Drop
      <3>2. txs' \in [DOMAIN txs' -> BOOLEAN] /\ DOMAIN txs' \subseteq Block
        BY <2>1 DEF IInv, TypeInv, Drop
      <3>3. next' \in [DOMAIN next' -> Block \cup {NoBlock}] /\ DOMAIN next' \subseteq Block
        BY <2>1, <2>2 DEF IInv, TypeInv, Drop, Put
      <3> QED
        BY <1>1, <3>1, <3>2, <3>3 DEF IInv, TypeInv, Starting
    <2>8. RowsInv'
      BY <1>1, <2>2, <2>4, <2>5 DEF RowsInv
    <2>9. LinkInv'
      <3>1. ASSUME NEW x \in DOMAIN next', next'[x] # NoBlock
            PROVE  next'[x] \in DOMAIN next' \ {Genesis} /\ Parent(next'[x]) = x
        <4>1. x \in DOMAIN next /\ next'[x] = next[x]
          BY <2>6, <3>1
        <4>2. next[x] \in DOMAIN next \ {Genesis} /\ Parent(next[x]) = x
          BY <3>1, <4>1 DEF IInv, LinkInv
        <4>3. next[x] # Tip
          BY <2>6, <3>1, <4>1, <4>2
        <4> QED
          BY <2>6, <4>1, <4>2, <4>3
      <3>2. \A x \in MainBlocks' : x \in DOMAIN next'
        BY <2>3, <2>6 DEF IInv, LinkInv, Unfinished
      <3>3. ASSUME NEW y \in MainBlocks', y # Genesis PROVE Linked(y)'
        <4>1. Linked(y) /\ y \in Under(Tip) /\ y # Tip
          BY <1>1, <2>3, <3>3 DEF IInv, LinkInv, Unfinished
        <4>2. Parent(y) \in Under(Before(Tip)) /\ Parent(y) \in Block
          BY <2>2, <2>4, <3>3, ParentUnder
        <4>3. Parent(y) \in DOMAIN next' /\ Parent(y) \in MainBlocks'
          BY <2>4, <3>2, <4>2
        <4>4. Tip # Genesis => Parent(y) # Parent(Tip)
          BY <1>1, <2>2, <3>3, <4>1, ParentUnder
        <4>5. next'[Parent(y)] = next[Parent(y)]
          BY <2>6, <4>3, <4>4
        <4>6. blocks'[Parent(y)] = blocks[Parent(y)]
          BY <2>1, <4>3 DEF MainBlocks, Drop
        <4> QED
          BY <4>1, <4>5, <4>6 DEF Linked
      <3> QED
        BY <3>1, <3>2, <3>3 DEF LinkInv
    <2>10. HeightInv'
      BY <2>6 DEF IInv, HeightInv
    <2>11. StakeInv'
      <3>1. Before(Tip) \in Under(meta) \cup Under(stake) \cup {NoBlock}
        BY <1>1, <1>4, <2>2, ParentUnder DEF IInv, StakeInv, Before
      <3>2. Under(Tip') \subseteq Under(Tip)
        BY <2>2, <2>5
      <3> QED
        BY <2>5, <3>1, <3>2 DEF IInv, StakeInv
    <2>12. ChainInv' /\ StoreInv' /\ ReorgInv'
      BY <1>1, <2>7, QuietJob
    <2> QED
      BY <1>2, <1>4, <2>5, <2>7, <2>8, <2>9, <2>10, <2>11, <2>12
  <1> QED
    BY <1>3, <1>4

\* NewChainDB purges the block that the meta table does not name.
LEMMA PurgeUnfinishedStep == ASSUME IInv, PurgeUnfinished PROVE IInv'
  <1>1. /\ phase = "open" /\ DeleteBlockData /\ phase' = "openMeta"
        /\ UNCHANGED <<nodeTip, meta, stake, best, known, count, pc, root, newChain>>
    BY DEF PurgeUnfinished, job
  <1>2. StartInv'
    BY <1>1 DEF IInv, StartInv, Starting
  <1> QED
    BY <1>1, <1>2, DeleteBlockDataStep DEF IInv, Starting

\* PurgeBestBlocks deletes an orphaned block.
LEMMA PurgeBestBlocksStep == ASSUME IInv, PurgeBestBlocks PROVE IInv'
  <1>1. /\ phase = "purge" /\ DeleteBlockData /\ phase' = "purgeMeta" /\ phase \in Starting
        /\ UNCHANGED <<nodeTip, meta, stake, best, known, count, pc, root, newChain>>
    BY DEF PurgeBestBlocks, job, Starting
  <1>2. /\ TypeInv' /\ RowsInv' /\ LinkInv' /\ HeightInv' /\ StakeInv' /\ KnownInv' /\ IdleInv'
        /\ ChainInv' /\ StoreInv' /\ ReorgInv'
        /\ Tip' = IF Tip = NoBlock THEN NoBlock ELSE Before(Tip)
    BY <1>1, DeleteBlockDataStep
  <1>3. meta # NoBlock /\ count \in 1..HeightOf(meta) /\ Tip = meta /\ meta \in Block
    BY <1>1 DEF IInv, StartInv, TypeInv
  <1>4. meta # Genesis
    BY <1>3, HeightZero, HeightType
  <1>5. Tip' = Parent(meta)
    BY <1>2, <1>3, <1>4 DEF Before
  <1>6. StartInv'
    BY <1>1, <1>5 DEF IInv, StartInv, Starting
  <1> QED
    BY <1>2, <1>6 DEF IInv

\* The meta table follows the main chain rows once a block has been deleted.
LEMMA MetaFollows ==
    ASSUME IInv, phase \in {"openMeta", "purgeMeta"}, meta' = Tip,
           TypeInv', StartInv', phase' \in Starting \ {"openMeta", "purgeMeta"},
           UNCHANGED <<nodeTip, blocks, txs, next, stake, pc, root, newChain>>
    PROVE  IInv'
  <1>1. MainBlocks' = MainBlocks /\ Tip' = Tip /\ MainTxs' = MainTxs
    BY SameRows
  <1>2. pc = "idle" /\ Len(newChain) = 0 /\ Tip \in Block \cup {NoBlock} /\ MainBlocks = Under(Tip)
    BY StartFacts DEF Starting
  <1>3. \A x \in MainBlocks : x \in DOMAIN next
    BY DEF IInv, LinkInv, Unfinished
  <1>4. \A y \in MainBlocks \ {Genesis} : Linked(y)
    BY DEF IInv, LinkInv, Unfinished
  <1>5. RowsInv'
    BY <1>1, <1>2 DEF IInv, RowsInv
  <1>6. LinkInv'
    BY <1>1, <1>3, <1>4 DEF IInv, LinkInv, Linked
  <1>7. HeightInv'
    <2>1. Tip # NoBlock => Tip \in DOMAIN next
      BY <1>2, <1>3, UnderIs
    <2> QED
      BY <2>1 DEF IInv, HeightInv
  <1>8. StakeInv'
    <2>1. Tip \in Under(Tip) \cup {NoBlock}
      BY <1>2, UnderIs
    <2> QED
      BY <1>1, <2>1 DEF IInv, StakeInv
  <1>9. KnownInv' /\ IdleInv'
    BY DEF KnownInv, IdleInv, Idle, Starting
  <1>10. ChainInv' /\ StoreInv' /\ ReorgInv'
    BY <1>2, QuietJob
  <1> QED
    BY <1>5, <1>6, <1>7, <1>8, <1>9, <1>10 DEF IInv

\* The end of DeleteBestBlock in NewChainDB.
LEMMA PurgeUnfinishedMetaStep == ASSUME IInv, PurgeUnfinishedMeta PROVE IInv'
  <1>1. /\ phase = "openMeta" /\ meta' = Tip /\ best' = Tip /\ phase' \in {"tips", "open"}
        /\ UNCHANGED <<nodeTip, blocks, txs, next, stake, known, count, pc, root, newChain>>
    BY DEF PurgeUnfinishedMeta, job, Tip
  <1>2. Tip' = Tip /\ Tip \in Block \cup {NoBlock} /\ pc = "idle"
    BY <1>1, SameRows, StartFacts DEF Starting
  <1>3. TypeInv'
    BY <1>1, <1>2 DEF IInv, TypeInv, Starting
  <1>4. Genesis \in known
    BY <1>1 DEF IInv, StartInv, Starting
  <1>5. StartInv'
    BY <1>1, <1>2, <1>4 DEF StartInv
  <1> QED
    BY <1>1, <1>3, <1>5, MetaFollows DEF Starting

\* The end of DeleteBestBlock in PurgeBestBlocks.
LEMMA PurgeBestBlocksMetaStep == ASSUME IInv, PurgeBestBlocksMeta PROVE IInv'
  <1>1. /\ phase = "purgeMeta" /\ meta' = Tip /\ count' = count - 1
        /\ phase' = IF count = 1 \/ Tip = NoBlock THEN "purgeStake" ELSE "purge"
        /\ UNCHANGED <<nodeTip, blocks, txs, next, stake, best, known, pc, root, newChain>>
    BY DEF PurgeBestBlocksMeta, job, Tip
  <1>2. /\ meta # NoBlock /\ count \in 1..HeightOf(meta) /\ Tip = Parent(meta)
        /\ IsAncestor(At(meta, HeightOf(meta) - count), nodeTip)
        /\ HeightOf(meta) - count < HeightOf(nodeTip) /\ Genesis \in known
    BY <1>1 DEF IInv, StartInv, Starting
  <1>3. meta \in Block /\ nodeTip \in Block /\ pc = "idle"
    BY <1>1, <1>2, StartFacts DEF Starting
  <1>4. HeightOf(meta) \in Nat /\ HeightOf(nodeTip) \in Nat /\ meta # Genesis /\ count \in Nat
    BY <1>2, <1>3, HeightType, HeightZero
  <1>5. /\ Tip \in Block /\ Tip # NoBlock /\ HeightOf(Tip) = HeightOf(meta) - 1
        /\ Tip = At(meta, HeightOf(meta) - 1) /\ Tip' = Tip
    BY <1>1, <1>2, <1>3, <1>4, AncestorParent, ParentIsAt, NoBlockAssumption, SameRows
  <1>6. phase' = IF count = 1 THEN "purgeStake" ELSE "purge"
    BY <1>1, <1>5
  <1>7. TypeInv'
    BY <1>1, <1>3, <1>4, <1>5, <1>6 DEF IInv, TypeInv, Starting
  <1>8. count = 1 => IsAncestor(Tip, nodeTip) /\ H(Tip) < HeightOf(nodeTip)
    BY <1>2, <1>5, HIs
  <1>9. count # 1 =>
            /\ count' \in 1..HeightOf(Tip)
            /\ IsAncestor(At(Tip, HeightOf(Tip) - count'), nodeTip)
            /\ HeightOf(Tip) - count' < HeightOf(nodeTip)
    <2>1. SUFFICES ASSUME count # 1
                   PROVE  /\ count - 1 \in 1..HeightOf(Tip)
                          /\ IsAncestor(At(Tip, HeightOf(Tip) - (count - 1)), nodeTip)
                          /\ HeightOf(Tip) - (count - 1) < HeightOf(nodeTip)
      BY <1>1
    <2>2. count - 1 \in 1..HeightOf(Tip)
      BY <1>2, <1>4, <1>5, <2>1
    <2>3. HeightOf(Tip) - (count - 1) = HeightOf(meta) - count
      BY <1>4, <1>5
    <2>4. /\ HeightOf(meta) - 1 \in 0..HeightOf(meta)
          /\ HeightOf(meta) - count \in 0..(HeightOf(meta) - 1)
      BY <1>2, <1>4
    <2>5. At(Tip, HeightOf(meta) - count) = At(meta, HeightOf(meta) - count)
      BY <1>3, <1>5, <2>4, AtOfAt
    <2> QED
      BY <1>2, <2>2, <2>3, <2>5
  <1>10. StartInv'
    BY <1>1, <1>2, <1>5, <1>6, <1>8, <1>9 DEF StartInv
  <1> QED
    BY <1>1, <1>6, <1>7, <1>10, MetaFollows DEF Starting

\* OrphanedTipLength finds the last block the tables share with the node.
LEMMA OrphanedTipLengthStep == ASSUME IInv, OrphanedTipLength PROVE IInv'
  <1>1. /\ phase = "tips" /\ phase \in Starting
        /\ UNCHANGED <<nodeTip, blocks, txs, next, meta, stake, best, known, pc, root, newChain>>
    BY DEF OrphanedTipLength, tables, job, Starting
  <1>2. /\ best = Tip /\ meta = Tip /\ Genesis \in known /\ pc = "idle" /\ MainBlocks = Under(Tip)
        /\ meta \in Block \cup {NoBlock} /\ nodeTip \in Block
    BY <1>1, StartFacts DEF IInv, StartInv
  <1>3. Tip' = Tip
    BY <1>1, SameRows
  <1>4. CASE meta = NoBlock
    <2>1. phase' = "rewind" /\ count' = count
      BY <1>4 DEF OrphanedTipLength
    <2>2. TypeInv'
      BY <1>1, <1>2, <2>1 DEF IInv, TypeInv, Starting
    <2>3. StartInv'
      BY <1>1, <1>2, <1>3, <1>4, <2>1 DEF StartInv
    <2> QED
      BY <1>1, <2>1, <2>2, <2>3, StartFrame DEF Starting
  <1>5. CASE meta # NoBlock
    <2>1. /\ meta \in Block /\ H(meta) = HeightOf(meta) /\ HeightOf(meta) \in Nat
          /\ HeightOf(nodeTip) \in Nat /\ HeightOf(meta) <= HeightOf(nodeTip)
      BY <1>2, <1>5, HIs, HeightType DEF IInv, HeightInv
    <2>2. \A h \in 0..HeightOf(meta) : Matches(h) <=> At(nodeTip, h) = At(meta, h)
      <3>1. SUFFICES ASSUME NEW h \in 0..HeightOf(meta) PROVE Matches(h) <=> At(nodeTip, h) = At(meta, h)
        OBVIOUS
      <3>2. h \in 0..HeightOf(nodeTip)
        BY <2>1
      <3>3. /\ At(nodeTip, h) \in Block /\ HeightOf(At(nodeTip, h)) = h
            /\ At(meta, h) \in Block /\ IsAncestor(At(meta, h), meta)
        BY <1>2, <2>1, <3>2, AncestorAt
      <3>4. Matches(h) <=> IsAncestor(At(nodeTip, h), meta)
        BY <1>2, <2>1, <3>3, UnderIs DEF Matches
      <3> QED
        BY <2>1, <3>3, <3>4 DEF IsAncestor
    <2>3. PICK S : S = {h \in 0..HeightOf(meta) : Matches(h)}
      OBVIOUS
    <2>4. 0 \in S /\ S \in SUBSET (0..HeightOf(meta))
      BY <2>1, <2>2, <2>3 DEF At
    <2>5. PICK m \in S : \A h \in S : h <= m
      BY <2>1, <2>4, GreatestNatural
    <2>6. PICK c : c = CommonHeight
      OBVIOUS
    <2>7. c = CHOOSE x \in S \cup {-1} : \A y \in S \cup {-1} : x >= y
      BY <2>1, <2>3, <2>6 DEF CommonHeight, Max
    <2>8. m \in S \cup {-1} /\ \A y \in S \cup {-1} : m >= y
      BY <2>4, <2>5
    <2>9. c \in S \cup {-1} /\ \A y \in S \cup {-1} : c >= y
      BY <2>7, <2>8
    <2>10. c \in S
      BY <2>4, <2>9
    <2>11. c \in 0..HeightOf(meta) /\ At(nodeTip, c) = At(meta, c)
      BY <2>2, <2>3, <2>4, <2>10
    <2>12. ~OrphanedTipFails
      <3>1. ASSUME NEW h \in c..HeightOf(meta) PROVE \E b \in MainBlocks : HeightOf(b) = h
        <4>1. h \in 0..HeightOf(meta)
          BY <2>1, <2>11
        <4>2. At(meta, h) \in Block /\ IsAncestor(At(meta, h), meta) /\ HeightOf(At(meta, h)) = h
          BY <2>1, <4>1, AncestorAt
        <4> QED
          BY <1>2, <2>1, <4>2, UnderIs
      <3>2. c # -1 /\ ~(HeightOf(meta) > HeightOf(nodeTip))
        BY <2>1, <2>11
      <3> QED
        BY <2>1, <2>6, <3>1, <3>2 DEF OrphanedTipFails
    <2>13. /\ count' = HeightOf(meta) - c
           /\ phase' = IF c = HeightOf(meta) THEN "rewind" ELSE "purge"
      BY <1>5, <2>1, <2>6, <2>12 DEF OrphanedTipLength
    <2>14. TypeInv'
      BY <1>1, <1>2, <2>1, <2>11, <2>13 DEF IInv, TypeInv, Starting
    <2>15. c = HeightOf(meta) => IsAncestor(meta, nodeTip)
      BY <2>1, <2>11, TipOfBranch DEF IsAncestor
    <2>16. c # HeightOf(meta) =>
              /\ count' \in 1..HeightOf(meta)
              /\ IsAncestor(At(meta, HeightOf(meta) - count'), nodeTip)
              /\ HeightOf(meta) - count' < HeightOf(nodeTip)
      <3>1. HeightOf(meta) - count' = c
        BY <2>1, <2>11, <2>13
      <3>2. c \in 0..HeightOf(nodeTip)
        BY <2>1, <2>11
      <3>3. IsAncestor(At(meta, c), nodeTip)
        BY <1>2, <2>11, <3>2, AncestorAt
      <3> QED
        BY <2>1, <2>11, <2>13, <3>1, <3>3
    <2>17. StartInv'
      BY <1>1, <1>2, <1>3, <1>5, <2>13, <2>15, <2>16 DEF StartInv
    <2> QED
      BY <1>1, <2>13, <2>14, <2>17, StartFrame DEF Starting
  <1> QED
    BY <1>4, <1>5

\* What the stake database holds when the tables are on the node's branch: at least
\* the tables' best block.
LEMMA RewindFacts ==
    ASSUME IInv, phase \in {"purgeStake", "rewind"}
    PROVE  /\ pc = "idle" /\ meta = Tip /\ stake \in Block /\ nodeTip \in Block
           /\ meta \in Block \cup {NoBlock} /\ MainBlocks = Under(meta) /\ newChain = <<>> /\ Goal = meta
           /\ meta # NoBlock => meta \in Block /\ IsAncestor(meta, nodeTip) /\ IsAncestor(meta, stake)
           /\ meta # NoBlock /\ (HeightOf(stake) <= H(meta) \/ stake = Genesis) => stake = meta
           /\ Genesis \in known
  <1>1. /\ pc = "idle" /\ meta = Tip /\ stake \in Block /\ nodeTip \in Block
        /\ meta \in Block \cup {NoBlock} /\ MainBlocks = Under(meta) /\ newChain = <<>> /\ Goal = meta
        /\ meta # NoBlock => IsAncestor(meta, nodeTip)
        /\ Genesis \in known
    BY StartFacts DEF IInv, StartInv, Starting
  <1>2. meta # NoBlock => meta \in Block /\ IsAncestor(meta, stake)
    BY <1>1, UnderIs DEF IInv, StakeInv
  <1>3. ASSUME meta # NoBlock, HeightOf(stake) <= H(meta) \/ stake = Genesis PROVE stake = meta
    <2>1. meta \in Block /\ IsAncestor(meta, stake) /\ H(meta) = HeightOf(meta)
      BY <1>2, <1>3, HIs
    <2>2. CASE stake = Genesis
      BY <2>1, <2>2, AncestorGenesis
    <2>3. CASE HeightOf(stake) <= H(meta)
      BY <1>1, <2>1, <2>3, AncestorHeight, HeightType
    <2> QED
      BY <1>3, <2>2, <2>3
  <1> QED
    BY <1>1, <1>2, <1>3

\* RewindStakeDB takes off what the tables do not have.
LEMMA RewindStakeDBStep == ASSUME IInv, RewindStakeDB PROVE IInv'
  <1>1. /\ phase \in {"purgeStake", "rewind"} /\ HeightOf(stake) > H(meta) /\ stake # Genesis
        /\ stake' = Parent(stake)
        /\ UNCHANGED <<nodeTip, blocks, txs, next, meta, best, known, phase, count, pc, root, newChain>>
    BY DEF RewindStakeDB, tables, job
  <1>2. /\ pc = "idle" /\ meta = Tip /\ stake \in Block /\ nodeTip \in Block
        /\ meta \in Block \cup {NoBlock} /\ newChain = <<>>
    BY <1>1, RewindFacts
  <1>3. /\ Parent(stake) \in Block /\ HeightOf(Parent(stake)) = HeightOf(stake) - 1
        /\ HeightOf(stake) \in Nat
        /\ \A a \in Block : IsAncestor(a, stake) <=> a = stake \/ IsAncestor(a, Parent(stake))
    BY <1>1, <1>2, AncestorParent, HeightType
  <1>4. MainBlocks' = MainBlocks /\ Tip' = Tip /\ MainTxs' = MainTxs
    BY <1>1, SameRows
  <1>5. TypeInv'
    BY <1>1, <1>3 DEF IInv, TypeInv
  <1>6. RowsInv'
    BY <1>1, <1>2, <1>4 DEF IInv, RowsInv
  <1>7. LinkInv'
    BY <1>1, <1>4 DEF IInv, LinkInv, Linked, Unfinished
  <1>8. HeightInv'
    <2>1. HeightOf(Parent(stake)) <= HeightOf(nodeTip)
      BY <1>2, <1>3, HeightType DEF IInv, HeightInv
    <2> QED
      BY <1>1, <2>1 DEF IInv, HeightInv
  <1>9. StakeInv'
    <2>1. Tip \in Under(meta) \cup {NoBlock}
      BY <1>2, UnderIs
    <2>2. ASSUME NEW x \in Block, IsAncestor(x, nodeTip), x \in Under(meta)
          PROVE  IsAncestor(x, Parent(stake))
      <3>1. IsAncestor(x, stake)
        BY <2>2 DEF IInv, StakeInv
      <3>2. meta \in Block /\ IsAncestor(x, meta)
        BY <1>2, <2>2, UnderIs
      <3>3. HeightOf(x) <= HeightOf(meta) /\ H(meta) = HeightOf(meta)
        BY <3>2, AncestorHeight, HIs
      <3>4. x # stake
        BY <1>1, <1>2, <3>2, <3>3, HeightType
      <3> QED
        BY <1>3, <3>1, <3>4
    <2> QED
      BY <1>1, <1>2, <1>4, <2>1, <2>2 DEF StakeInv
  <1>10. StartInv'
    BY <1>1, <1>4 DEF IInv, StartInv
  <1>11. KnownInv' /\ IdleInv'
    BY <1>1 DEF KnownInv, IdleInv, Idle
  <1>12. ChainInv' /\ StoreInv' /\ ReorgInv'
    BY <1>1, <1>2, <1>5, QuietJob
  <1> QED
    BY <1>5, <1>6, <1>7, <1>8, <1>9, <1>10, <1>11, <1>12 DEF IInv

\* After a purge the stake database is at the height of the tables.
LEMMA RewindDoneStep == ASSUME IInv, RewindDone PROVE IInv'
  <1>1. /\ phase = "purgeStake" /\ (HeightOf(stake) <= H(meta) \/ stake = Genesis)
        /\ phase' = IF HeightOf(stake) = H(meta) THEN "rewind" ELSE "failed"
        /\ UNCHANGED <<nodeTip, blocks, txs, next, meta, stake, best, known, count, pc, root, newChain>>
    BY DEF RewindDone, tables, job
  <1>2. meta # NoBlock
    BY <1>1 DEF IInv, StartInv
  <1>3. stake = meta /\ H(meta) = HeightOf(meta) /\ pc = "idle"
    BY <1>1, <1>2, RewindFacts, HIs
  <1>4. phase' = "rewind"
    BY <1>1, <1>3
  <1>5. TypeInv'
    BY <1>1, <1>3, <1>4 DEF IInv, TypeInv, Starting
  <1>6. Tip' = Tip
    BY <1>1, SameRows
  <1>7. StartInv'
    BY <1>1, <1>4, <1>6 DEF IInv, StartInv, Starting
  <1> QED
    BY <1>1, <1>4, <1>5, <1>7, StartFrame DEF Starting

\* The last blocks of the tables are charged, and the stake database is level.
LEMMA ChargePoolInfoCacheStep == ASSUME IInv, ChargePoolInfoCache PROVE IInv'
  <1>1. /\ phase = "rewind" /\ (HeightOf(stake) <= H(meta) \/ stake = Genesis) /\ phase' = "sync"
        /\ known' = known \cup {b \in MainBlocks : HeightOf(b) >= H(meta) - ChargeDepth}
        /\ UNCHANGED <<nodeTip, blocks, txs, next, meta, stake, best, count, pc, root, newChain>>
    BY DEF ChargePoolInfoCache, tables, job
  <1>2. /\ pc = "idle" /\ meta = Tip /\ stake \in Block /\ meta \in Block \cup {NoBlock}
        /\ MainBlocks = Under(meta) /\ newChain = <<>> /\ Goal = meta /\ Genesis \in known
        /\ meta # NoBlock => stake = meta /\ IsAncestor(meta, nodeTip)
    BY <1>1, RewindFacts
  <1>3. MainBlocks' = MainBlocks /\ Tip' = Tip /\ MainTxs' = MainTxs /\ Goal' = Goal
    BY <1>1, SameRows DEF Goal, Final
  <1>4. TypeInv'
    <2>1. known' \subseteq Block
      BY <1>1, <1>2, UnderIs DEF IInv, TypeInv
    <2> QED
      BY <1>1, <1>2, <2>1 DEF IInv, TypeInv, Reorganising
  <1>5. RowsInv'
    BY <1>1, <1>2, <1>3 DEF IInv, RowsInv
  <1>6. LinkInv'
    BY <1>1, <1>3 DEF IInv, LinkInv, Linked, Unfinished
  <1>7. HeightInv' /\ StakeInv'
    BY <1>1, <1>3 DEF IInv, HeightInv, StakeInv
  <1>8. StartInv'
    BY <1>1, NotStarting
  <1>9. KnownInv'
    BY <1>1, <1>2, <1>3 DEF KnownInv
  <1>10. IdleInv'
    <2>1. meta = NoBlock => stake = Genesis
      <3>1. meta = NoBlock => H(meta) = -1
        BY HIs
      <3> QED
        BY <1>1, <1>2, <3>1, HeightType
    <2>2. best = Tip \/ H(meta) < HeightOf(nodeTip)
      BY <1>1 DEF IInv, StartInv
    <2> QED
      BY <1>1, <1>2, <1>3, <2>1, <2>2 DEF IdleInv, Idle
  <1>11. ChainInv' /\ StoreInv' /\ ReorgInv'
    BY <1>1, <1>2, <1>4, QuietJob
  <1> QED
    BY <1>4, <1>5, <1>6, <1>7, <1>8, <1>9, <1>10, <1>11 DEF IInv

\* SyncChainDB stores the block above the tables: the stake database is where it must be.
LEMMA SyncChainDBStep == ASSUME IInv, SyncChainDB PROVE IInv'
  <1> DEFINE ib == H(meta) + 1
             b == At(nodeTip, ib)
  <1>1. /\ phase = "sync" /\ pc = "idle" /\ ib <= HeightOf(nodeTip)
        /\ UNCHANGED <<nodeTip, blocks, txs, next, meta, best, count, root>>
    BY DEF SyncChainDB, tables
  <1>2. /\ meta = Tip /\ nodeTip \in Block /\ meta \in Block \cup {NoBlock} /\ newChain = <<>>
        /\ meta = NoBlock => stake = Genesis
        /\ meta # NoBlock => stake = meta /\ IsAncestor(meta, nodeTip)
        /\ Genesis \in known
    BY <1>1 DEF IInv, IdleInv, TypeInv, KnownInv
  <1>3. CASE meta = NoBlock
    <2>1. ib = 0 /\ b = Genesis /\ HeightOf(stake) = 0 /\ stake = Genesis /\ Genesis \in Block
      <3>1. H(meta) = -1 /\ stake = Genesis /\ Genesis \in Block
        BY <1>2, <1>3, HIs, TreeAssumption
      <3>2. ib = 0
        BY <3>1
      <3>3. HeightOf(stake) = 0
        BY <3>1, HeightZero
      <3> QED
        BY <3>1, <3>2, <3>3 DEF At
    <2>2. newChain' = <<Genesis>> /\ pc' = "store" /\ UNCHANGED <<stake, known, phase>>
      BY <2>1 DEF SyncChainDB
    <2>3. /\ This' = Genesis /\ Final' = Genesis /\ Goal' = Genesis /\ Len(newChain') = 1
          /\ \A i \in 1..Len(newChain') : i = 1 /\ newChain'[i] = Genesis
          /\ newChain' # <<>> /\ newChain' \in Seq(Block)
      BY <2>1, <2>2, OneBlock
    <2>4. /\ MainBlocks' = MainBlocks /\ Tip' = Tip /\ MainTxs' = MainTxs
          /\ Under(NoBlock) = {} /\ MainBlocks = Under(Tip)
      BY <1>1, SameRows, UnderIs DEF IInv, RowsInv
    <2>5. TypeInv'
      BY <1>1, <1>2, <2>2, <2>3 DEF IInv, TypeInv, Storing, Reorganising
    <2>6. RowsInv'
      BY <1>1, <2>2, <2>4 DEF IInv, RowsInv
    <2>7. LinkInv'
      BY <1>1, <1>2, <1>3, <2>4 DEF IInv, LinkInv
    <2>8. HeightInv'
      BY <1>1, <2>1, <2>2, <2>3 DEF IInv, HeightInv
    <2>9. StakeInv'
      BY <1>1, <2>2, <2>4 DEF IInv, StakeInv
    <2>10. StartInv'
      BY <1>1, <2>2, NotStarting
    <2>11. KnownInv'
      BY <1>2, <1>3, <2>2, <2>4 DEF KnownInv
    <2>12. IdleInv'
      BY <1>1, <2>2 DEF IdleInv, Idle
    <2>13. ChainInv'
      <3>1. IsAncestor(Genesis, Genesis) /\ IsAncestor(Genesis, nodeTip) /\ HeightOf(Genesis) = HeightOf(Genesis) - 1 + 1
        BY <1>2, <2>1, AncestorGenesis, HeightType
      <3> QED
        BY <1>1, <1>3, <2>2, <2>3, <2>4, <3>1 DEF ChainInv
    <2>14. StoreInv'
      BY <1>2, <1>3, <2>1, <2>2, <2>3, <2>4 DEF StoreInv, Before
    <2>15. ReorgInv'
      BY <2>2 DEF ReorgInv, Reorganising
    <2> QED
      BY <2>5, <2>6, <2>7, <2>8, <2>9, <2>10, <2>11, <2>12, <2>13, <2>14, <2>15 DEF IInv
  <1>4. CASE meta # NoBlock
    <2>1. /\ meta \in Block /\ stake = meta /\ IsAncestor(meta, nodeTip)
          /\ H(meta) = HeightOf(meta) /\ HeightOf(meta) \in Nat /\ HeightOf(nodeTip) \in Nat
      BY <1>2, <1>4, HIs, HeightType
    <2>2. ib = HeightOf(stake) + 1 /\ ~(ib <= HeightOf(stake)) /\ ib \in 1..HeightOf(nodeTip) /\ ib - 1 = HeightOf(meta)
      BY <1>1, <2>1
    <2>3. /\ stake' = b /\ known' = known \cup {b} /\ newChain' = <<b>> /\ pc' = "store" /\ phase' = phase
      BY <2>2 DEF SyncChainDB
    <2>4. b # Genesis /\ Parent(b) = meta /\ b \in Block /\ IsAncestor(b, nodeTip)
      <3>1. ib \in 0..HeightOf(nodeTip)
        BY <2>2
      <3>2. b # Genesis /\ Parent(b) = At(nodeTip, ib - 1)
        BY <1>2, <2>2, ParentOnBranch
      <3>3. At(nodeTip, HeightOf(meta)) = meta
        BY <2>1 DEF IsAncestor
      <3> QED
        BY <1>2, <2>2, <3>1, <3>2, <3>3, AncestorAt
    <2> HIDE DEF b, ib
    <2>5. TypeInv'
      BY <1>1, <1>2, <2>3, <2>4, OneBlock DEF IInv, TypeInv, Storing, Reorganising
    <2> QED
      BY <1>1, <1>2, <2>1, <2>3, <2>4, <2>5, NextBlock
  <1> QED
    BY <1>3, <1>4

\* The tables are at the node's height.
LEMMA SyncDoneStep == ASSUME IInv, SyncDone PROVE IInv'
  <1>1. /\ phase = "sync" /\ pc = "idle" /\ H(meta) >= HeightOf(nodeTip) /\ phase' = "running"
        /\ UNCHANGED <<nodeTip, blocks, txs, next, meta, stake, best, known, count, pc, root, newChain>>
    BY DEF SyncDone, tables, job
  <1>2. /\ meta = Tip /\ nodeTip \in Block /\ meta \in Block \cup {NoBlock} /\ newChain = <<>>
        /\ meta # NoBlock => stake = meta
        /\ best = Tip \/ H(meta) < HeightOf(nodeTip)
    BY <1>1 DEF IInv, IdleInv, TypeInv
  <1>3. HeightOf(nodeTip) \in Nat
    BY <1>2, HeightType
  <1>4. meta \in Block /\ meta # NoBlock /\ H(meta) = HeightOf(meta) /\ HeightOf(meta) \in Nat
    BY <1>1, <1>2, <1>3, HIs, NoBlockAssumption
  <1>5. best = Tip
    BY <1>1, <1>2, <1>3, <1>4
  <1>6. /\ MainBlocks' = MainBlocks /\ Tip' = Tip /\ MainTxs' = MainTxs
        /\ Goal' = Goal /\ This' = This /\ Final' = Final /\ Goal = meta
    BY <1>1, <1>2, SameRows DEF Goal, Final, This
  <1>7. TypeInv'
    BY <1>1 DEF IInv, TypeInv
  <1>8. RowsInv' /\ LinkInv'
    BY <1>1, <1>6 DEF IInv, RowsInv, LinkInv, Linked, Unfinished
  <1>9. HeightInv' /\ StakeInv' /\ KnownInv'
    BY <1>1, <1>6 DEF IInv, HeightInv, StakeInv, KnownInv
  <1>10. StartInv'
    BY <1>1, NotStarting
  <1>11. IdleInv'
    <2>1. ASSUME NEW x \in DOMAIN next PROVE HeightOf(x) <= HeightOf(meta)
      <3>1. HeightOf(x) <= HeightOf(nodeTip) /\ x \in Block
        BY DEF IInv, HeightInv, TypeInv
      <3> QED
        BY <1>1, <1>3, <1>4, <3>1, HeightType
    <2> QED
      BY <1>1, <1>2, <1>4, <1>5, <1>6, <2>1 DEF IdleInv, Idle
  <1>12. ChainInv' /\ StoreInv' /\ ReorgInv'
    BY <1>1, <1>7, QuietJob
  <1> QED
    BY <1>7, <1>8, <1>9, <1>10, <1>11, <1>12 DEF IInv

\* Every step of the start.
LEMMA StartStep == ASSUME IInv, Start PROVE IInv'
  BY PurgeUnfinishedStep, PurgeUnfinishedMetaStep, NewChainDBDoneStep, OrphanedTipLengthStep,
     PurgeBestBlocksStep, PurgeBestBlocksMetaStep, RewindStakeDBStep, RewindDoneStep,
     ChargePoolInfoCacheStep, SyncChainDBStep, SyncDoneStep
  DEF Start

-------------------------------------------------------------------------------
(* The theorems.                                                            *)

\* The empty tables and the fresh stake database.
LEMMA InitIInv == ASSUME Init PROVE IInv
  <1>1. /\ nodeTip \in Block /\ blocks = <<>> /\ txs = <<>> /\ next = <<>> /\ meta = NoBlock
        /\ stake = Genesis /\ best = NoBlock /\ known = {} /\ phase = "down" /\ count = 0
        /\ pc = "idle" /\ root = Genesis /\ newChain = <<>> /\ Genesis \in Block
    BY TreeAssumption DEF Init
  <1>2. DOMAIN blocks = {} /\ DOMAIN txs = {} /\ DOMAIN next = {} /\ Len(newChain) = 0 /\ newChain \in Seq(Block)
    BY <1>1
  <1>3. MainBlocks = {} /\ MainTxs = {}
    BY <1>2 DEF MainBlocks, MainTxs
  <1>4. Tip = NoBlock /\ Under(NoBlock) = {}
    BY <1>3, UnderIs DEF Tip, RetrieveBestBlock, Highest
  <1>5. TypeInv
    <2>1. /\ blocks \in [DOMAIN blocks -> [main : BOOLEAN, valid : BOOLEAN]]
          /\ txs \in [DOMAIN txs -> BOOLEAN] /\ next \in [DOMAIN next -> Block \cup {NoBlock}]
      BY <1>1, <1>2
    <2> QED
      BY <1>1, <1>2, <2>1 DEF TypeInv, Reorganising
  <1>6. RowsInv
    BY <1>1, <1>3, <1>4 DEF RowsInv
  <1>7. LinkInv
    BY <1>2, <1>3 DEF LinkInv
  <1>8. HeightInv
    <2>1. HeightOf(stake) = 0 /\ HeightOf(nodeTip) \in Nat
      BY <1>1, HeightZero, HeightType
    <2> QED
      BY <1>1, <1>2, <2>1 DEF HeightInv
  <1>9. StakeInv
    BY <1>1, <1>4 DEF StakeInv
  <1>10. StartInv /\ KnownInv /\ IdleInv
    BY <1>1 DEF StartInv, Starting, KnownInv, IdleInv, Idle
  <1>11. ChainInv /\ StoreInv /\ ReorgInv
    BY <1>1, <1>2 DEF ChainInv, StoreInv, ReorgInv, Storing, Reorganising
  <1> QED
    BY <1>5, <1>6, <1>7, <1>8, <1>9, <1>10, <1>11 DEF IInv

\* The invariant is inductive.
LEMMA NextIInv == ASSUME IInv, [Next]_vars, TornCrash = FALSE, ShallowForks PROVE IInv'
  <1>1. CASE UNCHANGED vars
    <2>1. /\ MainBlocks' = MainBlocks /\ Tip' = Tip /\ MainTxs' = MainTxs
          /\ Goal' = Goal /\ This' = This /\ Final' = Final
          /\ UNCHANGED <<nodeTip, blocks, txs, next, meta, stake, best, known, phase, count, pc, root, newChain>>
      BY <1>1, SameRows DEF vars, tables, job, Goal, Final, This
    <2>2. TypeInv' /\ RowsInv'
      BY <2>1 DEF IInv, TypeInv, RowsInv
    <2>3. LinkInv' /\ HeightInv' /\ StakeInv'
      BY <2>1 DEF IInv, LinkInv, Linked, Unfinished, HeightInv, StakeInv
    <2>4. StartInv' /\ KnownInv' /\ IdleInv'
      BY <2>1 DEF IInv, StartInv, KnownInv, IdleInv, Idle
    <2>5. ChainInv' /\ StoreInv' /\ ReorgInv'
      BY <2>1 DEF IInv, ChainInv, StoreInv, ReorgInv
    <2> QED
      BY <2>2, <2>3, <2>4, <2>5 DEF IInv
  <1>2. CASE \E b \in Block : NodeMoves(b)
    BY <1>2, NodeMovesStep
  <1>3. CASE NewChainDB
    BY <1>3, NewChainDBStep
  <1>4. CASE Start
    BY <1>4, StartStep
  <1>5. CASE Handlers
    BY <1>5, HandlersStep
  <1>6. CASE StoreBlock
    BY <1>6, StoreBlockStep
  <1>7. CASE Crash
    BY <1>7, CrashStep
  <1> QED
    BY <1>1, <1>2, <1>3, <1>4, <1>5, <1>6, <1>7 DEF Next

\* Whatever crashes, purges and reorganisations came before, the invariant holds.
THEOREM ChainDBInvariant ==
    ASSUME TornCrash = FALSE, ShallowForks
    PROVE  Spec => []IInv
  BY InitIInv, NextIInv, PTL DEF Spec

\* Between two handlers the meta table, the best block in memory, the best main chain
\* row and the stake database name one block.
THEOREM BestBlocksAlwaysAgree ==
    ASSUME TornCrash = FALSE, ShallowForks
    PROVE  Spec => []BestBlocksAgree
  <1>1. IInv => BestBlocksAgree
    BY IdleFacts DEF BestBlocksAgree, Tip
  <1> QED
    BY <1>1, ChainDBInvariant, PTL

\* Between two handlers the main chain rows of both tables are the branch of the best
\* block, and the next hashes lead along it and end there.
THEOREM ChainIsAlwaysWhole ==
    ASSUME TornCrash = FALSE, ShallowForks
    PROVE  Spec => []ChainIsWhole
  <1>1. ASSUME IInv PROVE ChainIsWhole
    <2>1. SUFFICES ASSUME Idle PROVE ChainIsWhole
      BY DEF ChainIsWhole, MainIsOneChain, NextFollowsMain
    <2>2. /\ meta \in Block /\ meta = Tip /\ best = meta /\ Goal = meta
          /\ MainBlocks = Under(meta) /\ MainTxs = Under(meta) /\ phase = "running"
      BY <1>1, <2>1, IdleFacts
    <2>3. MainIsOneChain
      <3>1. Under(best) = {b \in Block : IsAncestor(b, best)}
        BY <2>2, NoBlockAssumption DEF Under
      <3> QED
        BY <2>2, <3>1 DEF MainIsOneChain
    <2>4. ASSUME NEW b \in MainBlocks, b # best PROVE next[b] = At(best, HeightOf(b) + 1)
      <3>1. b \in Block /\ IsAncestor(b, meta) /\ HeightOf(b) \in Nat /\ HeightOf(meta) \in Nat
        BY <2>2, UnderIs, HeightType
      <3>2. HeightOf(b) + 1 \in 1..HeightOf(meta) /\ HeightOf(b) + 1 \in 0..HeightOf(meta)
            /\ (HeightOf(b) + 1) - 1 = HeightOf(b)
        BY <2>2, <2>4, <3>1, AncestorHeight
      <3>3. PICK y : y = At(meta, HeightOf(b) + 1)
        OBVIOUS
      <3>4. y # Genesis /\ Parent(y) = At(meta, HeightOf(b))
        BY <2>2, <3>2, <3>3, ParentOnBranch
      <3>5. Parent(y) = b
        BY <3>1, <3>4 DEF IsAncestor
      <3>6. y \in MainBlocks
        BY <2>2, <3>2, <3>3, AncestorAt, UnderIs
      <3>7. Linked(y)
        BY <1>1, <2>2, <3>4, <3>6 DEF IInv, LinkInv, Unfinished
      <3> QED
        BY <2>2, <3>3, <3>5, <3>7 DEF Linked
    <2>5. next[best] = NoBlock
      <3>1. best \in DOMAIN next
        <4>1. best \in MainBlocks
          BY <2>2, UnderIs
        <4> QED
          BY <1>1, <2>2, <4>1 DEF IInv, LinkInv, Unfinished
      <3>2. ASSUME next[best] # NoBlock PROVE FALSE
        <4>1. next[best] \in DOMAIN next /\ next[best] # Genesis /\ Parent(next[best]) = best
          BY <1>1, <3>1, <3>2 DEF IInv, LinkInv
        <4>2. next[best] \in Block
          BY <1>1, <4>1 DEF IInv, TypeInv
        <4>3. HeightOf(best) = HeightOf(next[best]) - 1 /\ HeightOf(next[best]) \in Nat
          BY <4>1, <4>2, AncestorParent, HeightType
        <4>4. HeightOf(next[best]) <= HeightOf(best)
          BY <1>1, <2>2, <4>1 DEF IInv, IdleInv
        <4> QED
          BY <4>3, <4>4
      <3> QED
        BY <3>2
    <2> QED
      BY <2>3, <2>4, <2>5 DEF ChainIsWhole, NextFollowsMain
  <1>2. IInv => ChainIsWhole
    BY <1>1
  <1> QED
    BY <1>2, ChainDBInvariant, PTL

\* A main chain block whose main chain child disapproves it is never left valid.
THEOREM DisapprovedStayInvalid ==
    ASSUME TornCrash = FALSE, ShallowForks
    PROVE  Spec => []DisapprovedIsInvalid
  <1>1. ASSUME IInv, Idle, NEW b \in MainBlocks \ {Genesis}, ~Approves[b] PROVE ~blocks[Parent(b)].valid
    <2>1. meta = Tip
      BY <1>1, IdleFacts
    <2> QED
      BY <1>1, <2>1 DEF IInv, LinkInv, Unfinished, Linked
  <1>2. IInv => DisapprovedIsInvalid
    BY <1>1 DEF DisapprovedIsInvalid
  <1> QED
    BY <1>2, ChainDBInvariant, PTL

\* No start fails, wherever the run before it died: NewChainDB, OrphanedTipLength,
\* RewindStakeDB, StoreBlock and SyncChainDB never come to their error branches.
THEOREM EveryStartSucceeds ==
    ASSUME TornCrash = FALSE, ShallowForks
    PROVE  Spec => []StartSucceeds
  <1>1. IInv => StartSucceeds
    BY DEF IInv, TypeInv, StartSucceeds, Starting
  <1> QED
    BY <1>1, ChainDBInvariant, PTL

===============================================================================
