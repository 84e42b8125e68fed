------------------------------- MODULE BlockTree -------------------------------
(***************************************************************************)
(* The blocks the node knows: a tree rooted at Genesis.  Chain[b] is the    *)
(* sequence of blocks from height 1 up to b, so the block of height h on    *)
(* the branch of b is Chain[b][h].                                          *)
(***************************************************************************)
EXTENDS Integers, Sequences, FiniteSets

CONSTANTS
    Block,      \* block hashes, Genesis included
    Genesis,
    Chain

HeightOf(b) == Len(Chain[b])

\* The block of height h on the branch that ends in b.
At(b, h) == IF h = 0 THEN Genesis ELSE Chain[b][h]

\* PrevBlock of the header of b; Genesis stands for its own missing parent.
Parent(b) == IF HeightOf(b) = 0 THEN Genesis ELSE At(b, HeightOf(b) - 1)

ASSUME TreeAssumption ==
    /\ Genesis \in Block
    /\ Chain \in [Block -> Seq(Block)]
    /\ Chain[Genesis] = <<>>
    /\ \A b \in Block \ {Genesis} :
          /\ HeightOf(b) > 0
          /\ Chain[b] = Append(Chain[Parent(b)], b)

\* a is b or an ancestor of b.
IsAncestor(a, b) == HeightOf(a) <= HeightOf(b) /\ At(b, HeightOf(a)) = a

\* Height of the last block the branches of a and b share.
ForkHeight(a, b) ==
    LET shared == {h \in 0..HeightOf(a) : h <= HeightOf(b) /\ At(a, h) = At(b, h)}
    IN  CHOOSE h \in shared : \A i \in shared : i <= h

===============================================================================
