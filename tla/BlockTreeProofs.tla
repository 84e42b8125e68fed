---------------------------- MODULE BlockTreeProofs ----------------------------
(***************************************************************************)
(* Facts about the tree of blocks that the proofs of the chain modules      *)
(* share, and about folds over 1 .. k, which the library's folds over       *)
(* sequences come down to.  That the branch of an ancestor is a part of the *)
(* branch needs induction on the height, and that a fold keeps an invariant *)
(* induction on the positions: both are done by looking at a smallest       *)
(* counterexample, as the natural numbers are well founded.                 *)
(***************************************************************************)
EXTENDS BlockTree, WellFoundedInduction, FiniteSetTheorems, TLAPS

-------------------------------------------------------------------------------
(* Natural numbers.                                                         *)

\* Every nonempty set of natural numbers has a least element.
LEMMA LeastNatural ==
    ASSUME NEW S \in SUBSET Nat, S # {}
    PROVE  \E n \in S : \A m \in S : n <= m
  <1>1. IsWellFoundedOn(OpToRel(<, Nat), Nat)
    BY NatLessThanWellFounded
  <1>2. PICK n \in S : \A m \in S : ~ (<<m, n>> \in OpToRel(<, Nat))
    BY <1>1, WFMin
  <1>3. \A m \in S : ~ (<<m, n>> \in {ss \in Nat \X Nat : ss[1] < ss[2]})
    BY <1>2 DEF OpToRel
  <1>4. ASSUME NEW m \in S PROVE n <= m
    <2>1. m \in Nat /\ n \in Nat
      OBVIOUS
    <2>2. ~ (<<m, n>> \in {ss \in Nat \X Nat : ss[1] < ss[2]})
      BY <1>3
    <2>3. ~ (m < n)
      BY <2>1, <2>2
    <2> QED
      BY <2>1, <2>3
  <1> QED
    BY <1>4

\* A nonempty set of natural numbers that has a bound has a greatest element.
LEMMA GreatestNatural ==
    ASSUME NEW N \in Nat, NEW S \in SUBSET (0..N), S # {}
    PROVE  \E n \in S : \A m \in S : m <= n
  <1> DEFINE T == {N - n : n \in S}
  <1>1. T \in SUBSET Nat /\ T # {}
    <2>1. \A n \in S : n \in 0..N /\ N - n \in Nat
      OBVIOUS
    <2> QED
      BY <2>1
  <1>2. PICK t \in T : \A u \in T : t <= u
    BY <1>1, LeastNatural
  <1>3. PICK n \in S : t = N - n
    OBVIOUS
  <1>4. ASSUME NEW m \in S PROVE m <= n
    <2>1. N - m \in T
      OBVIOUS
    <2>2. N - n <= N - m
      BY <1>2, <1>3, <2>1
    <2> QED
      BY <2>2
  <1> QED
    BY <1>4

-------------------------------------------------------------------------------
(* Heights and parents.                                                     *)

\* The height of a block is a natural number.
LEMMA HeightType == ASSUME NEW b \in Block PROVE HeightOf(b) \in Nat
  BY TreeAssumption DEF HeightOf

\* Genesis, and no other block, has height 0.
LEMMA HeightZero == ASSUME NEW b \in Block PROVE HeightOf(b) = 0 <=> b = Genesis
  BY TreeAssumption DEF HeightOf

\* The block of a height on a branch is a block.
LEMMA AtType == ASSUME NEW b \in Block, NEW h \in 0..HeightOf(b) PROVE At(b, h) \in Block
  BY TreeAssumption DEF At, HeightOf

\* The parent of a block is a block.
LEMMA ParentType == ASSUME NEW b \in Block PROVE Parent(b) \in Block
  BY TreeAssumption, AtType, HeightType DEF Parent

\* The parent is one block lower, and its branch is the block's without the block.
LEMMA ParentBelow ==
    ASSUME NEW b \in Block, b # Genesis
    PROVE  /\ Chain[b] = Append(Chain[Parent(b)], b)
           /\ HeightOf(Parent(b)) = HeightOf(b) - 1
           /\ HeightOf(b) > 0
  <1>1. Parent(b) \in Block /\ Chain[Parent(b)] \in Seq(Block)
    BY ParentType, TreeAssumption
  <1>2. Chain[b] = Append(Chain[Parent(b)], b) /\ HeightOf(b) > 0
    BY TreeAssumption
  <1>3. Len(Append(Chain[Parent(b)], b)) = Len(Chain[Parent(b)]) + 1
    BY <1>1
  <1>4. Len(Chain[Parent(b)]) \in Nat
    BY <1>1
  <1> QED
    BY <1>2, <1>3, <1>4 DEF HeightOf

\* A block that is not genesis is the last one of its branch.
LEMMA TipOfBranch == ASSUME NEW b \in Block PROVE At(b, HeightOf(b)) = b
  <1>1. CASE b = Genesis
    BY <1>1, HeightZero DEF At
  <1>2. CASE b # Genesis
    <2>1. Parent(b) \in Block /\ Chain[Parent(b)] \in Seq(Block)
      BY ParentType, TreeAssumption
    <2>2. HeightOf(b) # 0 /\ Chain[b][HeightOf(b)] = b
      BY <1>2, <2>1, ParentBelow, HeightZero DEF HeightOf
    <2> QED
      BY <2>2 DEF At
  <1> QED
    BY <1>1, <1>2

\* The branch of the block of height h on a branch is the first h blocks of it.
LEMMA BranchPrefix ==
    ASSUME NEW b \in Block, NEW h \in 0..HeightOf(b)
    PROVE  /\ Chain[At(b, h)] = SubSeq(Chain[b], 1, h)
           /\ HeightOf(At(b, h)) = h
  <1> DEFINE Good(a) == \A i \in 0..HeightOf(a) : Chain[At(a, i)] = SubSeq(Chain[a], 1, i)
             Bad == {n \in Nat : \E a \in Block : HeightOf(a) = n /\ ~Good(a)}
  <1>1. SUFFICES ASSUME Bad # {} PROVE FALSE
    <2>1. Good(b)
      BY <1>1, HeightType
    <2>2. Chain[At(b, h)] = SubSeq(Chain[b], 1, h)
      BY <2>1
    <2>3. Chain[b] \in Seq(Block) /\ h \in 0..Len(Chain[b])
      BY TreeAssumption DEF HeightOf
    <2>4. Len(SubSeq(Chain[b], 1, h)) = h
      BY <2>3
    <2> QED
      BY <2>2, <2>4 DEF HeightOf
  <1>2. PICK n \in Bad : \A m \in Bad : n <= m
    BY <1>1, LeastNatural
  <1>3. PICK a \in Block : HeightOf(a) = n /\ ~Good(a)
    OBVIOUS
  <1>4. a # Genesis
    <2>1. ASSUME a = Genesis PROVE Good(a)
      BY <2>1, TreeAssumption DEF At, HeightOf
    <2> QED
      BY <1>3, <2>1
  <1>5. /\ Parent(a) \in Block /\ HeightOf(Parent(a)) = n - 1
        /\ Chain[a] = Append(Chain[Parent(a)], a) /\ n > 0
    BY <1>3, <1>4, ParentType, ParentBelow
  <1>6. Good(Parent(a))
    <2>1. n \in Nat /\ n - 1 \in Nat
      BY <1>5
    <2>2. n - 1 \notin Bad
      BY <1>2, <2>1
    <2> QED
      BY <1>5, <2>1, <2>2
  <1>7. ASSUME NEW i \in 0..HeightOf(a) PROVE Chain[At(a, i)] = SubSeq(Chain[a], 1, i)
    <2>1. /\ Chain[Parent(a)] \in Seq(Block) /\ Len(Chain[Parent(a)]) = n - 1
          /\ Chain[a] \in Seq(Block) /\ Len(Chain[a]) = n /\ n \in Nat
      BY <1>3, <1>5, TreeAssumption DEF HeightOf
    <2>2. CASE i = n
      <3>1. At(a, i) = a
        BY <2>2, <1>3, TipOfBranch
      <3>2. SubSeq(Chain[a], 1, n) = Chain[a]
        BY <2>1
      <3> QED
        BY <2>2, <3>1, <3>2
    <2>3. CASE i < n
      <3>1. i \in 0..(n - 1)
        BY <2>1, <2>3, <1>3
      <3>2. At(a, i) = At(Parent(a), i)
        BY <1>5, <2>1, <3>1 DEF At
      <3>3. Chain[At(Parent(a), i)] = SubSeq(Chain[Parent(a)], 1, i)
        BY <1>5, <1>6, <3>1
      <3>4. SubSeq(Chain[Parent(a)], 1, i) = SubSeq(Chain[a], 1, i)
        BY <1>5, <2>1, <3>1
      <3> QED
        BY <3>2, <3>3, <3>4
    <2> QED
      BY <2>1, <2>2, <2>3, <1>3
  <1> QED
    BY <1>3, <1>7

\* An ancestor's ancestor is an ancestor.
LEMMA AtOfAt ==
    ASSUME NEW b \in Block, NEW h \in 0..HeightOf(b), NEW i \in 0..h
    PROVE  At(At(b, h), i) = At(b, i)
  <1>1. Chain[At(b, h)] = SubSeq(Chain[b], 1, h)
    BY BranchPrefix
  <1>2. Chain[b] \in Seq(Block) /\ h \in 0..Len(Chain[b])
    BY TreeAssumption DEF HeightOf
  <1>3. i # 0 => SubSeq(Chain[b], 1, h)[i] = Chain[b][i]
    BY <1>2
  <1> QED
    BY <1>1, <1>3 DEF At

\* Neighbours on a branch are parent and child.
LEMMA ParentOnBranch ==
    ASSUME NEW b \in Block, NEW h \in 1..HeightOf(b)
    PROVE  /\ At(b, h) # Genesis
           /\ Parent(At(b, h)) = At(b, h - 1)
  <1>1. HeightOf(b) \in Nat /\ h \in 0..HeightOf(b) /\ h - 1 \in 0..h /\ h # 0
    BY HeightType
  <1>2. HeightOf(At(b, h)) = h
    BY <1>1, BranchPrefix
  <1>3. At(b, h) # Genesis
    BY <1>1, <1>2, TreeAssumption DEF HeightOf
  <1>4. Parent(At(b, h)) = At(At(b, h), h - 1)
    BY <1>1, <1>2 DEF Parent
  <1> QED
    BY <1>1, <1>3, <1>4, AtOfAt

\* The parent of a block is the block below it on every branch through the block.
LEMMA ParentIsAt ==
    ASSUME NEW b \in Block, b # Genesis
    PROVE  Parent(b) = At(b, HeightOf(b) - 1)
  BY HeightZero, HeightType DEF Parent

-------------------------------------------------------------------------------
(* Ancestors and forks.                                                     *)

\* An ancestor of b is a block of the branch of b.
LEMMA AncestorOnBranch ==
    ASSUME NEW a \in Block, NEW b \in Block
    PROVE  IsAncestor(a, b) <=> \E h \in 0..HeightOf(b) : a = At(b, h)
  <1>1. HeightOf(a) \in Nat /\ HeightOf(b) \in Nat
    BY HeightType
  <1>2. ASSUME NEW h \in 0..HeightOf(b), a = At(b, h) PROVE IsAncestor(a, b)
    <2>1. HeightOf(a) = h
      BY <1>2, BranchPrefix
    <2> QED
      BY <1>1, <1>2, <2>1 DEF IsAncestor
  <1>3. ASSUME IsAncestor(a, b) PROVE \E h \in 0..HeightOf(b) : a = At(b, h)
    BY <1>1, <1>3 DEF IsAncestor
  <1> QED
    BY <1>2, <1>3

\* ForkHeight(a, b) is a height of both branches, with one block of both, and the
\* highest such height.
LEMMA ForkIsShared ==
    ASSUME NEW a \in Block, NEW b \in Block
    PROVE  /\ ForkHeight(a, b) \in 0..HeightOf(a)
           /\ ForkHeight(a, b) \in 0..HeightOf(b)
           /\ At(a, ForkHeight(a, b)) = At(b, ForkHeight(a, b))
           /\ \A h \in 0..HeightOf(a) :
                 h <= HeightOf(b) /\ At(a, h) = At(b, h) => h <= ForkHeight(a, b)
  <1> DEFINE shared == {h \in 0..HeightOf(a) : h <= HeightOf(b) /\ At(a, h) = At(b, h)}
  <1>1. HeightOf(a) \in Nat /\ HeightOf(b) \in Nat
    BY HeightType
  <1>2. 0 \in shared
    BY <1>1 DEF At
  <1>3. \E h \in shared : \A i \in shared : i <= h
    <2>1. shared \in SUBSET (0..HeightOf(a)) /\ shared # {}
      BY <1>2
    <2> HIDE DEF shared
    <2> QED
      BY <1>1, <2>1, GreatestNatural
  <1>4. ForkHeight(a, b) = CHOOSE h \in shared : \A i \in shared : i <= h
    BY DEF ForkHeight
  <1>5. ForkHeight(a, b) \in shared /\ \A i \in shared : i <= ForkHeight(a, b)
    <2> HIDE DEF shared
    <2> QED
      BY <1>3, <1>4
  <1> QED
    BY <1>1, <1>5

\* A branch that does not end on the other one goes on above the fork.
LEMMA ForkBelowTip ==
    ASSUME NEW a \in Block, NEW b \in Block, ~IsAncestor(a, b)
    PROVE  ForkHeight(a, b) < HeightOf(a)
  <1>1. HeightOf(a) \in Nat /\ HeightOf(b) \in Nat
    BY HeightType
  <1>2. ASSUME ForkHeight(a, b) = HeightOf(a) PROVE FALSE
    BY <1>1, <1>2, ForkIsShared, TipOfBranch DEF IsAncestor
  <1> QED
    BY <1>1, <1>2, ForkIsShared

-------------------------------------------------------------------------------
(* The order of ancestors.                                                  *)

\* An ancestor is not higher, and at the same height it is the block itself.
LEMMA AncestorHeight ==
    ASSUME NEW a \in Block, NEW b \in Block, IsAncestor(a, b)
    PROVE  HeightOf(a) <= HeightOf(b) /\ (HeightOf(a) = HeightOf(b) => a = b)
  BY HeightType, TipOfBranch DEF IsAncestor

\* Every block is its own ancestor.
LEMMA AncestorSelf == ASSUME NEW a \in Block PROVE IsAncestor(a, a)
  BY HeightType, TipOfBranch DEF IsAncestor

\* Of two ancestors of a block, the lower is an ancestor of the higher.
LEMMA AncestorTotal ==
    ASSUME NEW a \in Block, NEW b \in Block, NEW c \in Block,
           IsAncestor(a, c), IsAncestor(b, c), HeightOf(a) <= HeightOf(b)
    PROVE  IsAncestor(a, b)
  <1>1. HeightOf(a) \in Nat /\ HeightOf(b) \in Nat /\ HeightOf(c) \in Nat
    BY HeightType
  <1>2. HeightOf(b) \in 0..HeightOf(c) /\ HeightOf(a) \in 0..HeightOf(b)
        /\ At(c, HeightOf(b)) = b /\ At(c, HeightOf(a)) = a
    BY <1>1 DEF IsAncestor
  <1>3. At(At(c, HeightOf(b)), HeightOf(a)) = At(c, HeightOf(a))
    BY <1>2, AtOfAt
  <1> QED
    BY <1>2, <1>3 DEF IsAncestor

\* An ancestor of an ancestor is an ancestor.
LEMMA AncestorTrans ==
    ASSUME NEW a \in Block, NEW b \in Block, NEW c \in Block,
           IsAncestor(a, b), IsAncestor(b, c)
    PROVE  IsAncestor(a, c)
  <1>1. HeightOf(a) \in Nat /\ HeightOf(b) \in Nat /\ HeightOf(c) \in Nat
    BY HeightType
  <1>2. HeightOf(b) \in 0..HeightOf(c) /\ HeightOf(a) \in 0..HeightOf(b)
        /\ At(c, HeightOf(b)) = b /\ At(b, HeightOf(a)) = a
    BY <1>1 DEF IsAncestor
  <1>3. At(At(c, HeightOf(b)), HeightOf(a)) = At(c, HeightOf(a))
    BY <1>2, AtOfAt
  <1>4. HeightOf(a) <= HeightOf(c)
    BY <1>1, <1>2
  <1>5. At(c, HeightOf(a)) = a
    BY <1>2, <1>3
  <1> QED
    BY <1>4, <1>5 DEF IsAncestor

\* Genesis is an ancestor of all, and has none but itself.
LEMMA AncestorGenesis ==
    ASSUME NEW b \in Block
    PROVE  /\ Genesis \in Block /\ IsAncestor(Genesis, b)
           /\ IsAncestor(b, Genesis) => b = Genesis
  <1>1. Genesis \in Block /\ HeightOf(Genesis) = 0 /\ HeightOf(b) \in Nat
    BY TreeAssumption, HeightZero, HeightType
  <1>2. IsAncestor(Genesis, b)
    BY <1>1 DEF IsAncestor, At
  <1>3. IsAncestor(b, Genesis) => HeightOf(b) = 0
    BY <1>1 DEF IsAncestor
  <1> QED
    BY <1>1, <1>2, <1>3, HeightZero

\* The block of a height on a branch is an ancestor of that height.
LEMMA AncestorAt ==
    ASSUME NEW b \in Block, NEW h \in 0..HeightOf(b)
    PROVE  At(b, h) \in Block /\ IsAncestor(At(b, h), b) /\ HeightOf(At(b, h)) = h
  BY AtType, BranchPrefix, AncestorOnBranch

\* The ancestors of a block are the block and the ancestors of its parent.
LEMMA AncestorParent ==
    ASSUME NEW b \in Block, b # Genesis
    PROVE  /\ Parent(b) \in Block /\ IsAncestor(Parent(b), b) /\ ~IsAncestor(b, Parent(b))
           /\ HeightOf(Parent(b)) = HeightOf(b) - 1
           /\ \A a \in Block : IsAncestor(a, b) <=> a = b \/ IsAncestor(a, Parent(b))
  <1>1. /\ Parent(b) \in Block /\ HeightOf(Parent(b)) = HeightOf(b) - 1 /\ HeightOf(b) > 0
        /\ Parent(b) = At(b, HeightOf(b) - 1) /\ HeightOf(b) \in Nat
    BY ParentType, ParentBelow, ParentIsAt, HeightType
  <1>2. IsAncestor(Parent(b), b)
    BY <1>1, AncestorAt
  <1>3. ~IsAncestor(b, Parent(b))
    BY <1>1 DEF IsAncestor
  <1>4. ASSUME NEW a \in Block, IsAncestor(a, b), a # b PROVE IsAncestor(a, Parent(b))
    <2>1. HeightOf(a) \in Nat /\ HeightOf(a) <= HeightOf(b) /\ HeightOf(a) # HeightOf(b)
      BY <1>4, AncestorHeight, HeightType
    <2>2. HeightOf(a) <= HeightOf(Parent(b))
      BY <1>1, <2>1
    <2> QED
      BY <1>1, <1>2, <1>4, <2>2, AncestorTotal
  <1>5. ASSUME NEW a \in Block, IsAncestor(a, Parent(b)) PROVE IsAncestor(a, b)
    BY <1>1, <1>2, <1>5, AncestorTrans
  <1>6. IsAncestor(b, b)
    BY AncestorSelf
  <1> QED
    BY <1>1, <1>2, <1>3, <1>4, <1>5, <1>6

\* The block at the fork is the last common ancestor.
LEMMA ForkBlock ==
    ASSUME NEW a \in Block, NEW b \in Block, NEW f, f = At(a, ForkHeight(a, b))
    PROVE  /\ f \in Block /\ HeightOf(f) = ForkHeight(a, b)
           /\ IsAncestor(f, a) /\ IsAncestor(f, b)
           /\ \A x \in Block : IsAncestor(x, a) /\ IsAncestor(x, b) => IsAncestor(x, f)
  <1>1. /\ ForkHeight(a, b) \in 0..HeightOf(a) /\ ForkHeight(a, b) \in 0..HeightOf(b)
        /\ f = At(b, ForkHeight(a, b))
    BY ForkIsShared
  <1>2. f \in Block /\ HeightOf(f) = ForkHeight(a, b) /\ IsAncestor(f, a) /\ IsAncestor(f, b)
    BY <1>1, AncestorAt
  <1>3. ASSUME NEW x \in Block, IsAncestor(x, a), IsAncestor(x, b) PROVE IsAncestor(x, f)
    <2>1. HeightOf(x) \in 0..HeightOf(a) /\ HeightOf(x) <= HeightOf(b) /\ At(a, HeightOf(x)) = At(b, HeightOf(x))
      BY <1>3, HeightType DEF IsAncestor
    <2>2. HeightOf(x) <= HeightOf(f)
      BY <1>2, <2>1, ForkIsShared
    <2> QED
      BY <1>2, <1>3, <2>2, AncestorTotal
  <1> QED
    BY <1>2, <1>3

\* A fork that is not lower shares at least as much.
LEMMA ForkOrder ==
    ASSUME NEW a \in Block, NEW b \in Block, NEW c \in Block, ForkHeight(c, a) <= ForkHeight(c, b),
           NEW x \in Block, IsAncestor(x, c), IsAncestor(x, a)
    PROVE  IsAncestor(x, b)
  <1> DEFINE f == At(c, ForkHeight(c, a))
             k == At(c, ForkHeight(c, b))
  <1>1. f \in Block /\ HeightOf(f) = ForkHeight(c, a) /\ IsAncestor(f, c) /\ IsAncestor(x, f)
    BY ForkBlock
  <1>2. k \in Block /\ HeightOf(k) = ForkHeight(c, b) /\ IsAncestor(k, c) /\ IsAncestor(k, b)
    BY ForkBlock
  <1>3. IsAncestor(f, k)
    BY <1>1, <1>2, AncestorTotal
  <1>4. IsAncestor(x, k)
    BY <1>1, <1>2, <1>3, AncestorTrans
  <1> QED
    BY <1>2, <1>4, AncestorTrans

-------------------------------------------------------------------------------
(* Folds over 1 .. k.                                                       *)

Last(s) == CHOOSE x \in s : \A y \in s : x >= y
IsFold(f, k, base, G) ==
    f = [s \in SUBSET (1 .. k) |->
           IF s = {} THEN base ELSE G[<<Last(s), f[s \ {Last(s)}]>>]]

\* A set of positions without its last one is smaller.
LEMMA LastLess ==
    ASSUME NEW k \in Nat, NEW s \in SUBSET (1 .. k)
    PROVE  /\ Cardinality(s) \in Nat /\ (Cardinality(s) = 0 <=> s = {})
           /\ s # {} => /\ Last(s) \in s /\ Last(s) \in 1 .. k
                        /\ s \ {Last(s)} \in SUBSET (1 .. k)
                        /\ Cardinality(s \ {Last(s)}) = Cardinality(s) - 1
  <1>1. IsFiniteSet(s)
    <2>1. IsFiniteSet(1 .. k)
      BY FS_Interval
    <2> QED
      BY <2>1, FS_Subset
  <1>2. Cardinality(s) \in Nat /\ (Cardinality(s) = 0 <=> s = {})
    BY <1>1, FS_CardinalityType, FS_EmptySet
  <1>3. ASSUME s # {}
        PROVE  Last(s) \in s /\ Cardinality(s \ {Last(s)}) = Cardinality(s) - 1
    <2>1. PICK x \in s : \A y \in s : y <= x
      <3>1. s \in SUBSET (0 .. k)
        OBVIOUS
      <3> QED
        BY <1>3, <3>1, GreatestNatural
    <2>2. \A y \in s : x >= y
      BY <2>1
    <2>3. Last(s) \in s
      BY <2>2 DEF Last
    <2> QED
      BY <1>1, <2>3, FS_RemoveElement
  <1> QED
    BY <1>2, <1>3

\* Every step function has a fold.
LEMMA FoldExists ==
    ASSUME NEW k \in Nat, NEW base, NEW G
    PROVE  \E f : IsFold(f, k, base, G)
  <1> DEFINE Part(m) == {s \in SUBSET (1 .. k) : Cardinality(s) <= m}
             Longer(f, m) == [s \in Part(m) |->
                                IF s = {} THEN base ELSE G[<<Last(s), f[s \ {Last(s)}]>>]]
             Bad == {m \in Nat : ~ \E f : f = Longer(f, m)}
  <1>1. \A s \in SUBSET (1 .. k) :
           Cardinality(s) \in Nat /\ (Cardinality(s) = 0 <=> s = {})
    BY LastLess
  <1>2. \A s \in SUBSET (1 .. k) : s # {} =>
           /\ s \ {Last(s)} \in SUBSET (1 .. k)
           /\ Cardinality(s \ {Last(s)}) = Cardinality(s) - 1
    BY LastLess
  <1>3. Bad = {}
    <2>1. SUFFICES ASSUME Bad # {} PROVE FALSE
      OBVIOUS
    <2>2. PICK m \in Bad : \A j \in Bad : m <= j
      <3>1. Bad \in SUBSET Nat
        OBVIOUS
      <3> HIDE DEF Bad
      <3> QED
        BY <2>1, <3>1, LeastNatural
    <2>3. m \in Nat /\ ~ \E f : f = Longer(f, m)
      OBVIOUS
    <2>4. CASE m = 0
      <3> DEFINE f == [s \in Part(0) |-> base]
      <3>1. \A s \in Part(0) : s = {}
        BY <1>1
      <3>2. f = Longer(f, 0)
        BY <3>1
      <3> QED
        BY <2>3, <2>4, <3>2
    <2>5. CASE m # 0
      <3>1. m - 1 \in Nat /\ m - 1 \notin Bad
        <4>1. m - 1 \in Nat /\ ~(m <= m - 1)
          BY <2>3, <2>5
        <4> HIDE DEF Bad
        <4> QED
          BY <2>2, <4>1
      <3>2. PICK f : f = Longer(f, m - 1)
        BY <3>1
      <3> DEFINE gg == Longer(f, m)
      <3>3. Part(m - 1) \subseteq Part(m)
        BY <1>1, <2>3
      <3>4. \A s \in Part(m - 1) : gg[s] = f[s]
        BY <3>2, <3>3
      <3>5. \A s \in Part(m) : s # {} => s \ {Last(s)} \in Part(m - 1)
        BY <1>1, <1>2, <2>3
      <3>6. \A s \in Part(m) : s # {} => f[s \ {Last(s)}] = gg[s \ {Last(s)}]
        BY <3>4, <3>5
      <3>7. gg = Longer(gg, m)
        BY <3>6
      <3> QED
        BY <2>3, <3>7
    <2> QED
      BY <2>4, <2>5
  <1>4. Part(k) = SUBSET (1 .. k)
    <2>1. IsFiniteSet(1 .. k) /\ Cardinality(1 .. k) = k
      BY FS_Interval
    <2>2. \A s \in SUBSET (1 .. k) : Cardinality(s) <= k
      BY <2>1, FS_Subset
    <2> QED
      BY <2>2
  <1>5. PICK f : f = Longer(f, k)
    BY <1>3
  <1>6. f = [s \in SUBSET (1 .. k) |->
               IF s = {} THEN base ELSE G[<<Last(s), f[s \ {Last(s)}]>>]]
    BY <1>4, <1>5
  <1> QED
    BY <1>6 DEF IsFold

\* A set that holds the base and that no step leaves holds every value of a fold.
LEMMA FoldStays ==
    ASSUME NEW k \in Nat, NEW T, NEW f, f[{}] \in T,
           \A s \in SUBSET (1 .. k) :
              s # {} /\ f[s \ {Last(s)}] \in T => f[s] \in T
    PROVE  \A s \in SUBSET (1 .. k) : f[s] \in T
  <1> DEFINE Bad == {m \in Nat : \E s \in SUBSET (1 .. k) : Cardinality(s) = m /\ f[s] \notin T}
  <1>1. Bad = {}
    <2>1. SUFFICES ASSUME Bad # {} PROVE FALSE
      OBVIOUS
    <2>2. PICK m \in Bad : \A j \in Bad : m <= j
      <3>1. Bad \in SUBSET Nat
        OBVIOUS
      <3> HIDE DEF Bad
      <3> QED
        BY <2>1, <3>1, LeastNatural
    <2>3. PICK s \in SUBSET (1 .. k) : Cardinality(s) = m /\ f[s] \notin T
      OBVIOUS
    <2>4. s # {}
      BY <2>3
    <2>5. /\ s \ {Last(s)} \in SUBSET (1 .. k) /\ m \in Nat
          /\ Cardinality(s \ {Last(s)}) = m - 1 /\ Cardinality(s \ {Last(s)}) \in Nat
      BY <2>3, <2>4, LastLess
    <2>6. f[s \ {Last(s)}] \in T
      <3>1. m - 1 \in Nat /\ ~(m <= m - 1)
        BY <2>5
      <3>2. m - 1 \notin Bad
        <4> HIDE DEF Bad
        <4> QED
          BY <2>2, <3>1
      <3> QED
        BY <2>5, <3>1, <3>2
    <2> QED
      BY <2>3, <2>4, <2>6
  <1>2. \A s \in SUBSET (1 .. k) : Cardinality(s) \in Nat
    BY LastLess
  <1> QED
    BY <1>1, <1>2

\* A fold of a step function on a set that holds the base.
LEMMA FoldOn ==
    ASSUME NEW k \in Nat, NEW T, NEW base \in T, NEW G \in [(1 .. k) \X T -> T]
    PROVE  \E f : IsFold(f, k, base, G) /\ \A s \in SUBSET (1 .. k) : f[s] \in T
  <1>1. PICK f : IsFold(f, k, base, G)
    BY FoldExists
  <1>2. \A s \in SUBSET (1 .. k) :
           f[s] = IF s = {} THEN base ELSE G[<<Last(s), f[s \ {Last(s)}]>>]
    BY <1>1 DEF IsFold
  <1>3. f[{}] \in T
    BY <1>2
  <1>4. ASSUME NEW s \in SUBSET (1 .. k), s # {}, f[s \ {Last(s)}] \in T PROVE f[s] \in T
    <2>1. Last(s) \in 1 .. k
      BY <1>4, LastLess
    <2> QED
      BY <1>2, <1>4, <2>1
  <1>5. \A s \in SUBSET (1 .. k) : f[s] \in T
    BY <1>3, <1>4, FoldStays
  <1> QED
    BY <1>1, <1>5

\* What holds of no position, and of one more with each step, holds of all.
LEMMA FoldProves ==
    ASSUME NEW k \in Nat, NEW P, {} \in P,
           \A s \in SUBSET (1 .. k) : s # {} /\ s \ {Last(s)} \in P => s \in P
    PROVE  \A s \in SUBSET (1 .. k) : s \in P
  <1> DEFINE f == [s \in SUBSET (1 .. k) |-> IF s \in P THEN 0 ELSE 1]
             T == {0}
  <1>1. f[{}] \in T
    OBVIOUS
  <1>2. \A s \in SUBSET (1 .. k) : f[s] \in T <=> s \in P
    OBVIOUS
  <1>3. \A s \in SUBSET (1 .. k) : s # {} /\ f[s \ {Last(s)}] \in T => f[s] \in T
    BY <1>2
  <1> HIDE DEF f, T
  <1>4. \A s \in SUBSET (1 .. k) : f[s] \in T
    BY <1>1, <1>3, FoldStays
  <1> QED
    BY <1>2, <1>4

===============================================================================
