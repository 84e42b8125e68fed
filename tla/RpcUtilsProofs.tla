---------------------------- MODULE RpcUtilsProofs ----------------------------
(***************************************************************************)
(* Proofs about the three parts of rpcutils: the walks for every tree of    *)
(* blocks and every limit, BlockGate for every set of blocks and waiters    *)
(* and every capacity, the prefetcher for every set of callers and every    *)
(* size of its order channel.                                               *)
(***************************************************************************)
EXTENDS MCRpcUtils, BlockTreeProofs, SequenceTheorems

-------------------------------------------------------------------------------
(* The invariants of the walks.                                             *)

\* The blocks of the branch of t above height h, lowest first.
Above(t, h) == SubSeq(Chain[t], h + 1, HeightOf(t))

Longer(h, k) == IF h > k THEN h ELSE k

\* Both cursors of CommonAncestor are on their branches above the last block
\* below both tips, what they have passed is collected, and length counts the
\* steps of the higher one.
CursorInv ==
    /\ hashA \in Block /\ IsAncestor(hashA, tipA) /\ chainA = Above(tipA, HeightOf(hashA))
    /\ hashB \in Block /\ IsAncestor(hashB, tipB) /\ chainB = Above(tipB, HeightOf(hashB))
    /\ HeightOf(hashA) > CommonHeight(tipA, tipB)
    /\ HeightOf(hashB) > CommonHeight(tipA, tipB)
    /\ length = Longer(HeightOf(tipA), HeightOf(tipB))
                  - Longer(HeightOf(hashA), HeightOf(hashB))

\* OrphanedTipLength has not passed the fork, and moves only below the node's tip.
OrphanInv ==
    /\ ForkHeight(tipA, tipB) <= HeightOf(tipA) - length
    /\ length > 0 => HeightOf(tipA) <= HeightOf(tipB)

\* SideChainFull has not passed the fork and has collected what is above, tip first.
SideInv ==
    /\ hashA \in Block /\ IsAncestor(hashA, tipA)
    /\ ForkHeight(tipA, tipB) <= HeightOf(hashA)
    /\ chainA = [i \in 1..(HeightOf(tipA) - HeightOf(hashA)) |->
                    Chain[tipA][HeightOf(tipA) + 1 - i]]

WalkInv ==
    /\ tipA \in Block /\ tipB \in Block /\ length \in Nat
    /\ result = "none" =>
          /\ walk = "CommonAncestor" => CursorInv
          /\ walk = "OrphanedTipLength" => OrphanInv
          /\ walk = "SideChainFull" => SideInv
    /\ AncestorIsRight /\ AncestorErrors /\ OrphansAreCounted /\ SideChainIsRight

-------------------------------------------------------------------------------
(* Branches.                                                                *)

\* A branch has nothing above its tip, and a block is below what is above it.
LEMMA AboveBlock ==
    ASSUME NEW t \in Block
    PROVE  /\ Above(t, HeightOf(t)) = <<>>
           /\ \A h \in 1..HeightOf(t) : <<At(t, h)>> \o Above(t, h) = Above(t, h - 1)
  <1>1. Chain[t] \in Seq(Block) /\ HeightOf(t) = Len(Chain[t]) /\ HeightOf(t) \in Nat
    BY TreeAssumption DEF HeightOf
  <1>2. Above(t, HeightOf(t)) = <<>>
    BY <1>1 DEF Above
  <1>3. ASSUME NEW h \in 1..HeightOf(t) PROVE <<At(t, h)>> \o Above(t, h) = Above(t, h - 1)
    <2>1. At(t, h) = Chain[t][h]
      BY DEF At
    <2> QED
      BY <1>1, <2>1 DEF Above
  <1> QED
    BY <1>2, <1>3

\* The last block below both tips: on both branches, and no higher one is shared by
\* branches that go on above it.
LEMMA CommonIsShared ==
    ASSUME NEW a \in Block, NEW b \in Block
    PROVE  /\ CommonHeight(a, b) \in Int /\ CommonHeight(a, b) >= -1
           /\ CommonHeight(a, b) < HeightOf(a) /\ CommonHeight(a, b) < HeightOf(b)
           /\ CommonHeight(a, b) = -1 => Genesis \in {a, b}
           /\ CommonHeight(a, b) >= 0 => At(a, CommonHeight(a, b)) = At(b, CommonHeight(a, b))
           /\ \A h \in Nat : h < HeightOf(a) /\ h < HeightOf(b) /\ At(a, h) = At(b, h)
                               => h <= CommonHeight(a, b)
  <1> DEFINE f == ForkHeight(a, b)
  <1>1. HeightOf(a) \in Nat /\ HeightOf(b) \in Nat
    BY HeightType
  <1>2. /\ f \in 0..HeightOf(a) /\ f \in 0..HeightOf(b) /\ At(a, f) = At(b, f)
        /\ \A h \in 0..HeightOf(a) : h <= HeightOf(b) /\ At(a, h) = At(b, h) => h <= f
    BY ForkIsShared
  <1>3. CASE f = HeightOf(a) \/ f = HeightOf(b)
    <2>1. CommonHeight(a, b) = f - 1
      BY <1>3 DEF CommonHeight
    <2>2. f = 0 => Genesis \in {a, b}
      BY <1>3, HeightZero
    <2>3. f > 0 => At(a, f - 1) = At(b, f - 1)
      <3>1. SUFFICES ASSUME f > 0 PROVE At(a, f - 1) = At(b, f - 1)
        OBVIOUS
      <3>2. f - 1 \in 0..f
        BY <1>1, <1>2, <3>1
      <3> QED
        BY <1>2, <3>2, AtOfAt
    <2>4. ASSUME NEW h \in Nat, h < HeightOf(a), h < HeightOf(b), At(a, h) = At(b, h)
          PROVE  h <= f - 1
      <3>1. h <= f /\ h # f
        BY <1>1, <1>2, <1>3, <2>4
      <3> QED
        BY <1>1, <1>2, <3>1
    <2>5. f - 1 \in Int /\ f - 1 >= -1 /\ f - 1 < HeightOf(a) /\ f - 1 < HeightOf(b)
      BY <1>1, <1>2
    <2>6. (f - 1 = -1 => f = 0) /\ (f - 1 >= 0 => f > 0)
      BY <1>1, <1>2
    <2> HIDE DEF f
    <2> QED
      BY <2>1, <2>2, <2>3, <2>4, <2>5, <2>6
  <1>4. CASE ~(f = HeightOf(a) \/ f = HeightOf(b))
    <2>1. CommonHeight(a, b) = f
      BY <1>4 DEF CommonHeight
    <2>2. f \in Int /\ f >= 0 /\ f < HeightOf(a) /\ f < HeightOf(b)
      BY <1>1, <1>2, <1>4
    <2>3. \A h \in Nat : h < HeightOf(a) /\ h < HeightOf(b) /\ At(a, h) = At(b, h) => h <= f
      BY <1>1, <1>2
    <2> HIDE DEF f
    <2> QED
      BY <1>2, <2>1, <2>2, <2>3
  <1> QED
    BY <1>3, <1>4

\* The cursor one block further down.
LEMMA CursorDown ==
    ASSUME NEW t \in Block, NEW x \in Block, IsAncestor(x, t), x # Genesis
    PROVE  /\ Parent(x) \in Block /\ IsAncestor(Parent(x), t)
           /\ HeightOf(Parent(x)) = HeightOf(x) - 1 /\ HeightOf(x) > 0
           /\ <<x>> \o Above(t, HeightOf(x)) = Above(t, HeightOf(Parent(x)))
  <1>1. /\ Parent(x) \in Block /\ IsAncestor(Parent(x), x)
        /\ HeightOf(Parent(x)) = HeightOf(x) - 1
    BY AncestorParent
  <1>2. HeightOf(x) \in Nat /\ HeightOf(t) \in Nat /\ HeightOf(x) # 0
    BY HeightType, HeightZero
  <1>3. HeightOf(x) \in 1..HeightOf(t) /\ At(t, HeightOf(x)) = x
    BY <1>2 DEF IsAncestor
  <1> QED
    BY <1>1, <1>2, <1>3, AncestorTrans, AboveBlock

\* A function on 1..n is a sequence of length n.
LEMMA SeqOfFunction ==
    ASSUME NEW S, NEW n \in Nat, NEW s \in [1..n -> S]
    PROVE  s \in Seq(S) /\ Len(s) = n
  <1>1. s \in Seq(S)
    BY SeqDef
  <1> QED
    BY <1>1

-------------------------------------------------------------------------------
(* The walks.                                                               *)

\* A walk starts at the tips, and an idle one stays there.
LEMMA WalksStart == ASSUME Init \/ WalksInit PROVE WalkInv
  <1>1. /\ tipA \in Block /\ tipB \in Block /\ hashA = tipA /\ hashB = tipB
        /\ chainA = <<>> /\ chainB = <<>> /\ length = 0 /\ result = "none"
    BY TreeAssumption DEF Init, WalksInit
  <1>2. HeightOf(tipA) \in Nat /\ HeightOf(tipB) \in Nat
    BY <1>1, HeightType
  <1>3. CursorInv
    <2>1. IsAncestor(tipA, tipA) /\ IsAncestor(tipB, tipB)
      BY <1>1, AncestorSelf
    <2>2. Above(tipA, HeightOf(tipA)) = <<>> /\ Above(tipB, HeightOf(tipB)) = <<>>
      BY <1>1, AboveBlock
    <2>3. /\ CommonHeight(tipA, tipB) < HeightOf(tipA)
          /\ CommonHeight(tipA, tipB) < HeightOf(tipB)
          /\ CommonHeight(tipA, tipB) \in Int
      BY <1>1, CommonIsShared
    <2>4. length = Longer(HeightOf(tipA), HeightOf(tipB))
                     - Longer(HeightOf(hashA), HeightOf(hashB))
      BY <1>1, <1>2 DEF Longer
    <2> QED
      BY <1>1, <1>2, <2>1, <2>2, <2>3, <2>4 DEF CursorInv
  <1>4. ForkHeight(tipA, tipB) \in 0..HeightOf(tipA)
    BY <1>1, ForkIsShared
  <1>5. OrphanInv
    BY <1>1, <1>2, <1>4 DEF OrphanInv
  <1>6. SideInv
    <2>1. IsAncestor(tipA, tipA)
      BY <1>1, AncestorSelf
    <2>2. <<>> = [i \in 1..(HeightOf(tipA) - HeightOf(tipA)) |-> Chain[tipA][HeightOf(tipA) + 1 - i]]
      BY <1>2
    <2> QED
      BY <1>1, <1>2, <1>4, <2>1, <2>2 DEF SideInv
  <1> QED
    BY <1>1, <1>3, <1>5, <1>6
    DEF WalkInv, AncestorIsRight, AncestorErrors, OrphansAreCounted, SideChainIsRight

\* The other walks' claims do not concern this one.
LEMMA OneWalk ==
    /\ walk = "CommonAncestor" => OrphansAreCounted /\ SideChainIsRight
    /\ walk = "OrphanedTipLength" => AncestorIsRight /\ AncestorErrors /\ SideChainIsRight
    /\ walk = "SideChainFull" => AncestorIsRight /\ AncestorErrors /\ OrphansAreCounted
  BY DEF AncestorIsRight, AncestorErrors, OrphansAreCounted, SideChainIsRight

\* One iteration of CommonAncestor.
LEMMA CommonAncestorStep == ASSUME WalkInv, CommonAncestor PROVE WalkInv'
  <1> DEFINE c == CommonHeight(tipA, tipB)
             long == Longer(HeightOf(tipA), HeightOf(tipB))
  <1>1. /\ walk = "CommonAncestor" /\ result = "none" /\ UNCHANGED <<walk, tipA, tipB>>
        /\ tipA \in Block /\ tipB \in Block /\ length \in Nat /\ CursorInv
    BY DEF WalkInv, CommonAncestor
  <1>2. /\ HeightOf(tipA) \in Nat /\ HeightOf(tipB) \in Nat /\ MaxAncestorChainLength \in Nat
        /\ HeightOf(hashA) \in Nat /\ HeightOf(hashB) \in Nat
    BY <1>1, HeightType, WalkAssumption DEF CursorInv
  <1>3. /\ c \in Int /\ c >= -1 /\ c < HeightOf(tipA) /\ c < HeightOf(tipB)
        /\ c = -1 => Genesis \in {tipA, tipB}
        /\ c >= 0 => At(tipA, c) = At(tipB, c)
        /\ \A h \in Nat : h < HeightOf(tipA) /\ h < HeightOf(tipB) /\ At(tipA, h) = At(tipB, h)
                            => h <= c
    BY <1>1, CommonIsShared
  <1>4. /\ CommonHeight(tipA, tipB)' = c /\ HeightOf(tipA)' = HeightOf(tipA)
        /\ HeightOf(tipB)' = HeightOf(tipB) /\ OrphansAreCounted' /\ SideChainIsRight'
    BY <1>1 DEF OrphansAreCounted, SideChainIsRight
  <1>5. CASE TooLong
    <2>1. long - c > MaxAncestorChainLength
      BY <1>1, <1>2, <1>3, <1>5 DEF TooLong, CursorInv, Longer
    <2>2. AncestorErrors'
      BY <1>1, <1>4, <1>5, <2>1 DEF TooLong, AncestorErrors, Longer
    <2> QED
      BY <1>1, <1>4, <1>5, <2>2 DEF TooLong, WalkInv, AncestorIsRight
  <1>6. ASSUME length' = length + 1, DownA PROVE WalkInv'
    <2>1. HeightOf(hashA) > HeightOf(hashB) /\ hashA # Genesis
      BY <1>2, <1>6, HeightZero, <1>1 DEF DownA, CursorInv
    <2>2. /\ hashA' \in Block /\ IsAncestor(hashA', tipA) /\ chainA' = Above(tipA, HeightOf(hashA'))
          /\ HeightOf(hashA') = HeightOf(hashA) - 1
      BY <1>1, <1>6, <2>1, CursorDown DEF DownA, CursorInv
    <2>3. UNCHANGED <<hashB, chainB, result>>
      BY <1>6 DEF DownA
    <2>4. HeightOf(hashA') > c /\ HeightOf(hashB) > c
      BY <1>1, <1>2, <1>3, <2>1, <2>2 DEF CursorInv
    <2>5. length' = long - Longer(HeightOf(hashA'), HeightOf(hashB))
      BY <1>1, <1>2, <1>6, <2>1, <2>2 DEF CursorInv, Longer
    <2>6. CursorInv'
      BY <1>1, <2>2, <2>3, <2>4, <2>5 DEF CursorInv
    <2> QED
      BY <1>1, <1>4, <1>6, <2>3, <2>6 DEF WalkInv, AncestorIsRight, AncestorErrors
  <1>7. ASSUME length' = length + 1, DownB PROVE WalkInv'
    <2>1. HeightOf(hashB) > HeightOf(hashA) /\ hashB # Genesis
      BY <1>2, <1>7, HeightZero, <1>1 DEF DownB, CursorInv
    <2>2. /\ hashB' \in Block /\ IsAncestor(hashB', tipB) /\ chainB' = Above(tipB, HeightOf(hashB'))
          /\ HeightOf(hashB') = HeightOf(hashB) - 1
      BY <1>1, <1>7, <2>1, CursorDown DEF DownB, CursorInv
    <2>3. UNCHANGED <<hashA, chainA, result>>
      BY <1>7 DEF DownB
    <2>4. HeightOf(hashB') > c /\ HeightOf(hashA) > c
      BY <1>1, <1>2, <1>3, <2>1, <2>2 DEF CursorInv
    <2>5. length' = long - Longer(HeightOf(hashA), HeightOf(hashB'))
      BY <1>1, <1>2, <1>7, <2>1, <2>2 DEF CursorInv, Longer
    <2>6. CursorInv'
      BY <1>1, <2>2, <2>3, <2>4, <2>5 DEF CursorInv
    <2> QED
      BY <1>1, <1>4, <1>7, <2>3, <2>6 DEF WalkInv, AncestorIsRight, AncestorErrors
  <1>8. ASSUME length' = length + 1, DownBoth, hashA = Genesis PROVE WalkInv'
    <2>1. HeightOf(hashA) = 0
      BY <1>8, <1>1, HeightZero DEF CursorInv
    <2>2. c = -1
      BY <1>1, <1>3, <2>1 DEF CursorInv
    <2>3. result' = "ErrAncestorAtGenesis"
      BY <1>8 DEF DownBoth
    <2>4. AncestorErrors'
      BY <1>1, <1>3, <2>2, <2>3 DEF AncestorErrors
    <2> QED
      BY <1>1, <1>4, <1>8, <2>3, <2>4 DEF WalkInv, AncestorIsRight
  <1>9. ASSUME length' = length + 1, DownBoth, hashA # Genesis PROVE WalkInv'
    <2>1. HeightOf(hashB) = HeightOf(hashA) /\ hashB # Genesis
      <3>1. HeightOf(hashB) = HeightOf(hashA)
        BY <1>9 DEF DownBoth
      <3> QED
        BY <1>9, <3>1, <1>1, HeightZero DEF CursorInv
    <2>2. /\ hashA' \in Block /\ IsAncestor(hashA', tipA) /\ chainA' = Above(tipA, HeightOf(hashA'))
          /\ HeightOf(hashA') = HeightOf(hashA) - 1 /\ HeightOf(hashA) > 0
      BY <1>1, <1>9, CursorDown DEF DownBoth, CursorInv
    <2>3. /\ hashB' \in Block /\ IsAncestor(hashB', tipB) /\ chainB' = Above(tipB, HeightOf(hashB'))
          /\ HeightOf(hashB') = HeightOf(hashA')
      BY <1>1, <1>9, <2>1, <2>2, CursorDown DEF DownBoth, CursorInv
    <2>4. /\ hashA' = At(tipA, HeightOf(hashA')) /\ hashB' = At(tipB, HeightOf(hashA'))
          /\ HeightOf(hashA') \in Nat /\ HeightOf(hashA) <= HeightOf(tipA)
          /\ HeightOf(hashB) <= HeightOf(tipB)
      BY <1>1, <1>2, <2>2, <2>3 DEF IsAncestor, CursorInv
    <2>5. HeightOf(hashA') < HeightOf(tipA) /\ HeightOf(hashA') < HeightOf(tipB)
      BY <1>2, <2>1, <2>2, <2>4
    <2>6. HeightOf(hashA') >= c
      BY <1>1, <1>2, <1>3, <2>2 DEF CursorInv
    <2>7. CASE hashA' = hashB'
      <3>1. HeightOf(hashA') = c
        BY <1>3, <2>4, <2>5, <2>6, <2>7
      <3>2. result' = "ok"
        BY <1>9, <2>7 DEF DownBoth
      <3>3. AncestorIsRight'
        BY <1>1, <2>2, <2>3, <2>4, <3>1, <3>2 DEF AncestorIsRight, Above
      <3> QED
        BY <1>1, <1>4, <1>9, <3>2, <3>3 DEF WalkInv, AncestorErrors
    <2>8. CASE hashA' # hashB'
      <3>1. HeightOf(hashA') > c /\ HeightOf(hashB') > c
        BY <1>3, <2>3, <2>4, <2>6, <2>8
      <3>2. result' = "none"
        BY <1>9, <2>8 DEF DownBoth
      <3>3. length' = long - Longer(HeightOf(hashA'), HeightOf(hashB'))
        BY <1>1, <1>2, <1>9, <2>1, <2>2, <2>3 DEF CursorInv, Longer
      <3>4. CursorInv'
        BY <1>1, <2>2, <2>3, <3>1, <3>3 DEF CursorInv
      <3> QED
        BY <1>1, <1>4, <1>9, <3>2, <3>4 DEF WalkInv, AncestorIsRight, AncestorErrors
    <2> QED
      BY <2>7, <2>8
  <1> QED
    BY <1>5, <1>6, <1>7, <1>8, <1>9 DEF CommonAncestor

\* One iteration of OrphanedTipLength.
LEMMA OrphanedTipLengthStep == ASSUME WalkInv, OrphanedTipLength PROVE WalkInv'
  <1> DEFINE f == ForkHeight(tipA, tipB)
             h == HeightOf(tipA) - length
  <1>1. /\ walk = "OrphanedTipLength" /\ result = "none" /\ UNCHANGED <<walk, tipA, tipB>>
        /\ tipA \in Block /\ tipB \in Block /\ length \in Nat /\ OrphanInv
    BY DEF WalkInv, OrphanedTipLength
  <1>2. HeightOf(tipA) \in Nat /\ HeightOf(tipB) \in Nat
    BY <1>1, HeightType
  <1>3. /\ f \in 0..HeightOf(tipA) /\ f \in 0..HeightOf(tipB) /\ At(tipA, f) = At(tipB, f)
        /\ \A i \in 0..HeightOf(tipA) : i <= HeightOf(tipB) /\ At(tipA, i) = At(tipB, i) => i <= f
    BY <1>1, ForkIsShared
  <1>4. AncestorIsRight' /\ AncestorErrors' /\ SideChainIsRight'
    BY <1>1 DEF AncestorIsRight, AncestorErrors, SideChainIsRight
  <1>5. f <= h /\ h \in 0..HeightOf(tipA) /\ (length > 0 => HeightOf(tipA) <= HeightOf(tipB))
    BY <1>1, <1>2, <1>3 DEF OrphanInv
  <1>6. ASSUME h > HeightOf(tipB), result' = "no hdfd block", UNCHANGED length PROVE WalkInv'
    <2>1. HeightOf(tipA) > HeightOf(tipB)
      <3>1. h > HeightOf(tipB) /\ length \in Nat
        BY <1>1, <1>6
      <3> QED
        BY <1>2, <3>1
    <2> QED
      BY <1>1, <1>4, <1>6, <2>1 DEF WalkInv, OrphansAreCounted
  <1>7. ASSUME h <= HeightOf(tipB), At(tipA, h) = At(tipB, h), result' = "ok", UNCHANGED length
        PROVE  WalkInv'
    <2>1. length = HeightOf(tipA) - f
      BY <1>1, <1>2, <1>3, <1>5, <1>7
    <2> QED
      BY <1>1, <1>4, <1>7, <2>1 DEF WalkInv, OrphansAreCounted
  <1>8. ASSUME h <= HeightOf(tipB), At(tipA, h) # At(tipB, h), length' = length + 1,
               result' = IF h - 1 < 0 THEN "no ancestor" ELSE "none"
        PROVE  WalkInv'
    <2>1. f # h /\ h <= HeightOf(tipB) /\ length' = length + 1 /\ length \in Nat
      BY <1>1, <1>3, <1>8
    <2>2. f <= HeightOf(tipA) - length' /\ ~(h - 1 < 0) /\ length' \in Nat
      BY <1>2, <1>3, <1>5, <2>1
    <2>3. HeightOf(tipA) <= HeightOf(tipB)
      BY <1>2, <1>5, <2>1
    <2>4. result' = "none"
      BY <1>8, <2>2
    <2>5. OrphanInv'
      BY <1>1, <2>2, <2>3 DEF OrphanInv
    <2> QED
      BY <1>1, <1>4, <2>2, <2>4, <2>5 DEF WalkInv, OrphansAreCounted
  <1>9. \/ h > HeightOf(tipB) /\ result' = "no hdfd block" /\ UNCHANGED length
        \/ /\ h <= HeightOf(tipB) /\ At(tipA, h) = At(tipB, h)
           /\ result' = "ok" /\ UNCHANGED length
        \/ /\ h <= HeightOf(tipB) /\ At(tipA, h) # At(tipB, h) /\ length' = length + 1
           /\ result' = IF h - 1 < 0 THEN "no ancestor" ELSE "none"
    BY DEF OrphanedTipLength
  <1> QED
    BY <1>6, <1>7, <1>8, <1>9

\* One iteration of SideChainFull.
LEMMA SideChainFullStep == ASSUME WalkInv, SideChainFull PROVE WalkInv'
  <1> DEFINE f == ForkHeight(tipA, tipB)
             n == HeightOf(tipA) - HeightOf(hashA)
  <1>1. /\ walk = "SideChainFull" /\ result = "none" /\ UNCHANGED <<walk, tipA, tipB, length>>
        /\ tipA \in Block /\ tipB \in Block /\ length \in Nat /\ SideInv
    BY DEF WalkInv, SideChainFull
  <1>2. HeightOf(tipA) \in Nat /\ HeightOf(tipB) \in Nat /\ HeightOf(hashA) \in Nat
    BY <1>1, HeightType DEF SideInv
  <1>3. /\ f \in 0..HeightOf(tipA) /\ f \in 0..HeightOf(tipB) /\ At(tipA, f) = At(tipB, f)
        /\ \A i \in 0..HeightOf(tipA) : i <= HeightOf(tipB) /\ At(tipA, i) = At(tipB, i) => i <= f
    BY <1>1, ForkIsShared
  <1>4. AncestorIsRight' /\ AncestorErrors' /\ OrphansAreCounted'
    BY <1>1 DEF AncestorIsRight, AncestorErrors, OrphansAreCounted
  <1>5. /\ hashA \in Block /\ HeightOf(hashA) <= HeightOf(tipA) /\ hashA = At(tipA, HeightOf(hashA))
        /\ f <= HeightOf(hashA) /\ n \in Nat
        /\ chainA = [i \in 1..n |-> Chain[tipA][HeightOf(tipA) + 1 - i]]
    BY <1>1, <1>2 DEF SideInv, IsAncestor
  <1>6. Chain[tipA] \in Seq(Block) /\ Len(Chain[tipA]) = HeightOf(tipA)
    BY <1>1, TreeAssumption DEF HeightOf
  <1>7. chainA \in Seq(Block) /\ Len(chainA) = n
    <2>1. \A i \in 1..n : Chain[tipA][HeightOf(tipA) + 1 - i] \in Block
      <3>1. \A i \in 1..n : HeightOf(tipA) + 1 - i \in 1..Len(Chain[tipA])
        BY <1>2, <1>5, <1>6
      <3> QED
        BY <1>6, <3>1
    <2> HIDE DEF n
    <2>2. chainA \in [1..n -> Block]
      BY <1>5, <2>1
    <2> QED
      BY <1>5, <2>2, SeqOfFunction
  <1>8. CASE OnMainChain(hashA)
    <2>1. HeightOf(hashA) <= HeightOf(tipB) /\ At(tipB, HeightOf(hashA)) = hashA
      BY <1>8 DEF OnMainChain, IsAncestor
    <2>2. HeightOf(hashA) = f
      <3>1. HeightOf(hashA) \in 0..HeightOf(tipA)
        BY <1>2, <1>5
      <3>2. HeightOf(hashA) <= f
        BY <1>3, <1>5, <2>1, <3>1
      <3> QED
        BY <1>2, <1>3, <1>5, <3>2
    <2>3. /\ result' = IF hashA = tipA THEN "not a side chain" ELSE "ok"
          /\ chainA' = reverseStringSlice(chainA)
      BY <1>8 DEF SideChainFull
    <2>4. chainA' = Above(tipA, HeightOf(hashA))
      <3>1. chainA \in Seq(Block) /\ Len(chainA) = n
        BY <1>7
      <3>2. chainA' = [i \in 1..n |-> chainA[n + 1 - i]]
        BY <2>3, <3>1 DEF reverseStringSlice
      <3>3. \A i \in 1..n : chainA[n + 1 - i] = Chain[tipA][HeightOf(hashA) + i]
        <4>1. SUFFICES ASSUME NEW i \in 1..n
                       PROVE  chainA[n + 1 - i] = Chain[tipA][HeightOf(hashA) + i]
          OBVIOUS
        <4>2. n + 1 - i \in 1..n /\ HeightOf(tipA) + 1 - (n + 1 - i) = HeightOf(hashA) + i
          BY <1>2, <1>5
        <4> HIDE DEF n
        <4> QED
          BY <1>5, <4>2
      <3>4. Above(tipA, HeightOf(hashA)) = [i \in 1..n |-> Chain[tipA][HeightOf(hashA) + i]]
        BY <1>2, <1>5, <1>6 DEF Above
      <3> QED
        BY <3>2, <3>3, <3>4
    <2>5. hashA = tipA => IsAncestor(tipA, tipB)
      BY <1>8 DEF OnMainChain
    <2>6. SideChainIsRight'
      BY <1>1, <2>2, <2>3, <2>4, <2>5 DEF SideChainIsRight, Above
    <2>7. result' # "none"
      BY <2>3
    <2> QED
      BY <1>1, <1>4, <2>6, <2>7 DEF WalkInv
  <1>9. CASE ~OnMainChain(hashA)
    <2>1. chainA' = Append(chainA, hashA) /\ hashA' = Parent(hashA) /\ result' = "none"
      BY <1>1, <1>9 DEF SideChainFull
    <2>2. f # HeightOf(hashA)
      BY <1>2, <1>3, <1>5, <1>9 DEF OnMainChain, IsAncestor
    <2>3. f <= HeightOf(hashA) - 1 /\ HeightOf(hashA) > 0
      BY <1>2, <1>3, <1>5, <2>2
    <2>4. hashA # Genesis
      BY <1>5, <2>3, HeightZero
    <2>5. hashA' \in Block /\ IsAncestor(hashA', tipA) /\ HeightOf(hashA') = HeightOf(hashA) - 1
      BY <1>1, <1>5, <2>1, <2>4, CursorDown DEF SideInv
    <2>6. chainA' = [i \in 1..(HeightOf(tipA) - HeightOf(hashA')) |->
                        Chain[tipA][HeightOf(tipA) + 1 - i]]
      <3>1. chainA \in Seq(Block) /\ Len(chainA) = n
        BY <1>7
      <3>2. hashA = Chain[tipA][HeightOf(hashA)]
        BY <1>5, <2>3 DEF At
      <3>3. HeightOf(tipA) - HeightOf(hashA') = n + 1 /\ HeightOf(tipA) + 1 - (n + 1) = HeightOf(hashA)
        BY <1>2, <2>5
      <3>4. Append(chainA, hashA) = [i \in 1..(n + 1) |-> Chain[tipA][HeightOf(tipA) + 1 - i]]
        <4> HIDE DEF n
        <4>1. Append(chainA, hashA) = [i \in 1..(n + 1) |-> IF i = n + 1 THEN hashA ELSE chainA[i]]
          BY <1>5, <3>1
        <4>2. \A i \in 1..(n + 1) : (IF i = n + 1 THEN hashA ELSE chainA[i])
                                      = Chain[tipA][HeightOf(tipA) + 1 - i]
          BY <1>2, <1>5, <3>2, <3>3
        <4> QED
          BY <4>1, <4>2
      <3> QED
        BY <2>1, <3>3, <3>4
    <2>7. SideInv'
      BY <1>1, <2>3, <2>5, <2>6 DEF SideInv
    <2> QED
      BY <1>1, <1>4, <2>1, <2>7 DEF WalkInv, SideChainIsRight
  <1> QED
    BY <1>8, <1>9

\* A walk that has returned, or does not run, stays as it is.
LEMMA WalkRests == ASSUME WalkInv, UNCHANGED vars PROVE WalkInv'
  BY DEF WalkInv, vars, CursorInv, OrphanInv, SideInv, AncestorIsRight, AncestorErrors,
         OrphansAreCounted, SideChainIsRight

-------------------------------------------------------------------------------
(* The invariants of BlockGate.                                             *)

GateType ==
    /\ DOMAIN hashAtHeight \subseteq Gate!Heights
    /\ hashAtHeight \in [DOMAIN hashAtHeight -> GateBlock]
    /\ queue \in Seq(GateBlock)
    /\ heightWaiters \in [Gate!Heights -> SUBSET Waiter]
    /\ hashWaiters \in [GateBlock -> SUBSET Waiter]
    /\ sending \subseteq Waiter \X GateBlock
    /\ chan \in [Waiter -> Seq(GateBlock)]

\* Block b is in the queue q, and no block of its height after it.
LastOfHeight(q, b) ==
    \E i \in 1..Len(q) :
        q[i] = b /\ \A j \in 1..Len(q) : j > i => BlockHeight[q[j]] # BlockHeight[b]

\* The maps hold what the queue holds: evicting the head of the queue may drop an
\* entry of a map only because nothing else in the queue needs it.
QueueInv ==
    /\ blockWithHash = Gate!InQueue(queue)
    /\ \A h \in DOMAIN hashAtHeight :
          BlockHeight[hashAtHeight[h]] = h /\ LastOfHeight(queue, hashAtHeight[h])

\* A channel is in one list, or has one signal on its way, or has been signalled.
WaitsOnce(w, hw, xw, snd, ch) ==
    /\ \A h \in Gate!Heights : w \in hw[h] =>
          /\ ch[w] = <<>>
          /\ \A k \in Gate!Heights : w \in hw[k] => k = h
          /\ \A b \in GateBlock : w \notin xw[b] /\ <<w, b>> \notin snd
    /\ \A b \in GateBlock : w \in xw[b] =>
          /\ ch[w] = <<>>
          /\ \A c \in GateBlock : w \in xw[c] => c = b
          /\ \A c \in GateBlock : <<w, c>> \notin snd
    /\ \A b \in GateBlock : <<w, b>> \in snd =>
          /\ ch[w] = <<>>
          /\ \A c \in GateBlock : <<w, c>> \in snd => c = b

Waits(hw, xw, snd, ch) == \A w \in Waiter : WaitsOnce(w, hw, xw, snd, ch)

WaiterInv == Waits(heightWaiters, hashWaiters, sending, chan)

GateInv ==
    /\ GateType /\ QueueInv /\ WaiterInv
    /\ Gate!NoWaiterStranded /\ Gate!SignalFindsRoom

-------------------------------------------------------------------------------
(* BlockGate.                                                               *)

\* The maps lead from a height to its block because both follow the queue.
LEMMA QueueLeads == ASSUME GateInv PROVE Gate!HeightLeadsToBlock
  <1>1. ASSUME NEW h \in DOMAIN hashAtHeight
        PROVE  hashAtHeight[h] \in blockWithHash /\ BlockHeight[hashAtHeight[h]] = h
    BY DEF GateInv, QueueInv, LastOfHeight, Gate!InQueue
  <1> QED
    BY <1>1 DEF Gate!HeightLeadsToBlock

\* The height of a block is a height.
LEMMA HeightIsHeight == ASSUME NEW b \in GateBlock PROVE BlockHeight[b] \in Gate!Heights
  BY DEF Gate!Heights

LEMMA GateStart == ASSUME Gate!Init PROVE GateInv
  <1>1. /\ hashAtHeight = [h \in {} |-> 0] /\ blockWithHash = {} /\ queue = <<>>
        /\ heightWaiters = [h \in Gate!Heights |-> {}] /\ hashWaiters = [b \in GateBlock |-> {}]
        /\ sending = {} /\ chan = [w \in Waiter |-> <<>>] /\ gatePanicked = FALSE
    BY DEF Gate!Init, Gate!NewBlockGate
  <1>2. DOMAIN hashAtHeight = {}
    BY <1>1
  <1>3. GateType
    BY <1>1, <1>2 DEF GateType
  <1>4. Gate!InQueue(<<>>) = {}
    BY DEF Gate!InQueue
  <1>5. QueueInv
    BY <1>1, <1>2, <1>4 DEF QueueInv
  <1>6. WaiterInv
    BY <1>1 DEF WaiterInv, Waits, WaitsOnce
  <1> QED
    BY <1>1, <1>2, <1>3, <1>5, <1>6 DEF GateInv, Gate!NoWaiterStranded, Gate!SignalFindsRoom

\* What rotateIn leaves in the maps: entries they had before and the new block's, in
\* agreement with the queue, whichever block it evicts.
LEMMA RotateIn ==
    ASSUME GateType, QueueInv, NEW b \in GateBlock, Gate!rotateIn(b)
    PROVE  /\ queue' \in Seq(GateBlock)
           /\ hashAtHeight' \in [DOMAIN hashAtHeight' -> GateBlock]
           /\ DOMAIN hashAtHeight' \subseteq DOMAIN hashAtHeight \cup {BlockHeight[b]}
           /\ blockWithHash' \subseteq blockWithHash \cup {b}
           /\ QueueInv'
  <1> DEFINE pushed == Append(queue, b)
             D  == DOMAIN hashAtHeight \cup {BlockHeight[b]}
             at == [h \in D |-> IF h = BlockHeight[b] THEN b ELSE hashAtHeight[h]]
             q  == Tail(pushed)
             K  == {x \in D : x = BlockHeight[Head(pushed)] => Gate!heightInQueue(q, x)}
  <1>1. /\ queue \in Seq(GateBlock) /\ hashAtHeight \in [DOMAIN hashAtHeight -> GateBlock]
        /\ blockWithHash = Gate!InQueue(queue)
        /\ \A h \in DOMAIN hashAtHeight :
              BlockHeight[hashAtHeight[h]] = h /\ LastOfHeight(queue, hashAtHeight[h])
    BY DEF GateType, QueueInv
  <1>2. /\ pushed \in Seq(GateBlock) /\ Len(pushed) = Len(queue) + 1 /\ Len(queue) \in Nat
        /\ pushed[Len(queue) + 1] = b /\ \A i \in 1..Len(queue) : pushed[i] = queue[i]
    BY <1>1
  <1>3. at \in [D -> GateBlock]
    BY <1>1
  <1>4. \A x : x \in Gate!InQueue(pushed) <=> x \in Gate!InQueue(queue) \cup {b}
    BY <1>2 DEF Gate!InQueue
  <1>5. ASSUME NEW h \in D PROVE BlockHeight[at[h]] = h /\ LastOfHeight(pushed, at[h])
    <2>1. CASE h = BlockHeight[b]
      <3>1. LastOfHeight(pushed, b)
        <4>1. Len(pushed) \in 1..Len(pushed) /\ pushed[Len(pushed)] = b
              /\ \A j \in 1..Len(pushed) : ~(j > Len(pushed))
          BY <1>2
        <4> HIDE DEF pushed
        <4> QED
          BY <4>1 DEF LastOfHeight
      <3> QED
        BY <2>1, <3>1
    <2>2. CASE h # BlockHeight[b]
      <3>1. at[h] = hashAtHeight[h] /\ BlockHeight[hashAtHeight[h]] = h
        BY <1>1, <2>2
      <3>2. PICK i \in 1..Len(queue) :
               /\ queue[i] = hashAtHeight[h]
               /\ \A j \in 1..Len(queue) : j > i => BlockHeight[queue[j]] # BlockHeight[hashAtHeight[h]]
        BY <1>1, <2>2 DEF LastOfHeight
      <3>3. i \in 1..Len(pushed) /\ pushed[i] = hashAtHeight[h]
        BY <1>2, <3>2
      <3>4. \A j \in 1..Len(pushed) : j > i => BlockHeight[pushed[j]] # BlockHeight[hashAtHeight[h]]
        BY <1>2, <2>2, <3>1, <3>2
      <3> HIDE DEF pushed, at
      <3> QED
        BY <3>1, <3>3, <3>4 DEF LastOfHeight
    <2> QED
      BY <2>1, <2>2
  <1>6. CASE Len(pushed) > Capacity
    <2>1. /\ queue' = q
          /\ blockWithHash' = {x \in blockWithHash \cup {b} :
                                  x = Head(pushed) => Gate!hashInQueue(q, x)}
          /\ hashAtHeight' = [h \in K |-> at[h]]
      BY <1>6 DEF Gate!rotateIn
    <2>2. /\ Head(pushed) = pushed[1] /\ q \in Seq(GateBlock) /\ Len(q) = Len(queue)
          /\ \A i \in 1..Len(q) : q[i] = pushed[i + 1]
      BY <1>2
    <2> HIDE DEF pushed, at, q
    <2>3. \A x : x \in Gate!InQueue(pushed) <=> x = Head(pushed) \/ x \in Gate!InQueue(q)
      <3>1. ASSUME NEW i \in 1..Len(pushed) PROVE i = 1 \/ (i - 1 \in 1..Len(q) /\ pushed[i] = q[i - 1])
        BY <1>2, <2>2
      <3>2. \A i \in 1..Len(q) : i + 1 \in 1..Len(pushed) /\ q[i] = pushed[i + 1]
        BY <1>2, <2>2
      <3>3. 1 \in 1..Len(pushed)
        BY <1>2
      <3>4. ASSUME NEW x, x \in Gate!InQueue(pushed)
            PROVE  x = Head(pushed) \/ x \in Gate!InQueue(q)
        <4>1. PICK i \in 1..Len(pushed) : x = pushed[i]
          BY <3>4 DEF Gate!InQueue
        <4> QED
          BY <2>2, <3>1, <4>1 DEF Gate!InQueue
      <3>5. ASSUME NEW x, x = Head(pushed) \/ x \in Gate!InQueue(q)
            PROVE  x \in Gate!InQueue(pushed)
        BY <2>2, <3>2, <3>3, <3>5 DEF Gate!InQueue
      <3> QED
        BY <3>4, <3>5
    <2>4. blockWithHash' = Gate!InQueue(q)
      BY <1>1, <1>4, <2>1, <2>3 DEF Gate!hashInQueue
    <2>5. ASSUME NEW h \in K PROVE BlockHeight[at[h]] = h /\ LastOfHeight(q, at[h])
      <3>1. PICK i \in 1..Len(pushed) :
               /\ pushed[i] = at[h]
               /\ \A j \in 1..Len(pushed) : j > i => BlockHeight[pushed[j]] # BlockHeight[at[h]]
        BY <1>5 DEF LastOfHeight
      <3>2. i # 1
        <4>1. SUFFICES ASSUME i = 1 PROVE FALSE
          OBVIOUS
        <4>2. h = BlockHeight[Head(pushed)]
          BY <1>5, <2>2, <3>1, <4>1
        <4>3. PICK k \in 1..Len(q) : BlockHeight[q[k]] = h
          BY <4>2 DEF Gate!heightInQueue
        <4>4. k + 1 \in 1..Len(pushed) /\ k + 1 > i /\ pushed[k + 1] = q[k]
          BY <1>2, <2>2, <4>1
        <4> QED
          BY <1>5, <3>1, <4>3, <4>4
      <3>3. i - 1 \in 1..Len(q) /\ q[i - 1] = at[h]
        BY <1>2, <2>2, <3>1, <3>2
      <3>4. \A j \in 1..Len(q) : j > i - 1 => BlockHeight[q[j]] # BlockHeight[at[h]]
        <4>1. \A j \in 1..Len(q) : j + 1 \in 1..Len(pushed) /\ q[j] = pushed[j + 1]
                                     /\ (j > i - 1 => j + 1 > i)
          BY <1>2, <2>2
        <4> QED
          BY <3>1, <4>1
      <3> QED
        BY <1>5, <3>3, <3>4 DEF LastOfHeight
    <2>6. K \subseteq D /\ DOMAIN hashAtHeight' = K /\ \A h \in K : hashAtHeight'[h] = at[h]
      BY <2>1
    <2>7. QueueInv'
      <3>1. blockWithHash' = Gate!InQueue(queue')
        BY <2>1, <2>4
      <3> QED
        BY <2>1, <2>5, <2>6, <3>1 DEF QueueInv, LastOfHeight, Gate!InQueue
    <2>8. hashAtHeight' \in [K -> GateBlock]
      BY <1>3, <2>1
    <2> QED
      BY <2>1, <2>2, <2>6, <2>7, <2>8
  <1>7. CASE ~(Len(pushed) > Capacity)
    <2>1. queue' = pushed /\ blockWithHash' = blockWithHash \cup {b} /\ hashAtHeight' = at
      BY <1>7 DEF Gate!rotateIn
    <2>2. DOMAIN hashAtHeight' = D
      BY <2>1
    <2> HIDE DEF pushed, at
    <2>3. blockWithHash' = Gate!InQueue(queue')
      BY <1>1, <1>4, <2>1
    <2>4. QueueInv'
      BY <1>5, <2>1, <2>2, <2>3 DEF QueueInv, LastOfHeight, Gate!InQueue
    <2> QED
      BY <1>2, <1>3, <2>1, <2>2, <2>4
  <1> QED
    BY <1>6, <1>7

\* A new channel is in no list and no signal is on its way to it.
LEMMA FreshWaits ==
    ASSUME GateInv, NEW w \in Waiter, Gate!Fresh(w), NEW hw, NEW xw,
           \/ xw = hashWaiters /\ \E h \in Gate!Heights :
                 hw = [heightWaiters EXCEPT ![h] = @ \cup {w}]
           \/ hw = heightWaiters /\ \E b \in GateBlock :
                 xw = [hashWaiters EXCEPT ![b] = @ \cup {w}]
    PROVE  /\ hw \in [Gate!Heights -> SUBSET Waiter] /\ xw \in [GateBlock -> SUBSET Waiter]
           /\ Waits(hw, xw, sending, chan)
  <1>1. /\ heightWaiters \in [Gate!Heights -> SUBSET Waiter]
        /\ hashWaiters \in [GateBlock -> SUBSET Waiter]
    BY DEF GateInv, GateType
  <1>2. /\ \A h \in Gate!Heights : w \notin heightWaiters[h]
        /\ \A b \in GateBlock : w \notin hashWaiters[b] /\ <<w, b>> \notin sending
        /\ chan[w] = <<>>
    BY DEF Gate!Fresh
  <1>3. ASSUME xw = hashWaiters, NEW h0 \in Gate!Heights,
               hw = [heightWaiters EXCEPT ![h0] = @ \cup {w}]
        PROVE  /\ hw \in [Gate!Heights -> SUBSET Waiter] /\ xw \in [GateBlock -> SUBSET Waiter]
               /\ \A h \in Gate!Heights, x \in Waiter : x \in hw[h] <=>
                     x \in heightWaiters[h] \/ (h = h0 /\ x = w)
    BY <1>1, <1>3
  <1>4. ASSUME hw = heightWaiters, NEW b0 \in GateBlock,
               xw = [hashWaiters EXCEPT ![b0] = @ \cup {w}]
        PROVE  /\ hw \in [Gate!Heights -> SUBSET Waiter] /\ xw \in [GateBlock -> SUBSET Waiter]
               /\ \A b \in GateBlock, x \in Waiter : x \in xw[b] <=>
                     x \in hashWaiters[b] \/ (b = b0 /\ x = w)
    BY <1>1, <1>4
  <1>5. WaiterInv
    BY DEF GateInv
  <1>6. CASE xw = hashWaiters /\ \E h \in Gate!Heights :
                 hw = [heightWaiters EXCEPT ![h] = @ \cup {w}]
    <2>1. PICK h0 \in Gate!Heights : hw = [heightWaiters EXCEPT ![h0] = @ \cup {w}]
      BY <1>6
    <2>2. /\ hw \in [Gate!Heights -> SUBSET Waiter] /\ xw \in [GateBlock -> SUBSET Waiter]
          /\ \A h \in Gate!Heights, x \in Waiter : x \in hw[h] <=>
                x \in heightWaiters[h] \/ (h = h0 /\ x = w)
      BY <1>3, <1>6, <2>1
    <2>3. Waits(hw, xw, sending, chan)
      <3>1. ASSUME NEW x \in Waiter, x # w
            PROVE  /\ \A h \in Gate!Heights : x \in hw[h] <=> x \in heightWaiters[h]
                   /\ \A b \in GateBlock : x \in xw[b] <=> x \in hashWaiters[b]
        BY <1>6, <2>2, <3>1
      <3>2. ASSUME NEW x \in Waiter, x # w PROVE WaitsOnce(x, hw, xw, sending, chan)
        <4>1. WaitsOnce(x, heightWaiters, hashWaiters, sending, chan)
          BY <1>5 DEF WaiterInv, Waits
        <4> QED
          BY <3>1, <3>2, <4>1 DEF WaitsOnce
      <3>3. WaitsOnce(w, hw, xw, sending, chan)
        <4>1. /\ \A b \in GateBlock : w \notin xw[b]
              /\ \A h \in Gate!Heights : w \in hw[h] => h = h0
          BY <1>2, <1>6, <2>2
        <4>2. chan[w] = <<>> /\ \A b \in GateBlock : <<w, b>> \notin sending
          BY <1>2
        <4> QED
          BY <4>1, <4>2 DEF WaitsOnce
      <3> QED
        BY <3>2, <3>3 DEF Waits
    <2> QED
      BY <2>2, <2>3
  <1>7. CASE hw = heightWaiters /\ \E b \in GateBlock :
                 xw = [hashWaiters EXCEPT ![b] = @ \cup {w}]
    <2>1. PICK b0 \in GateBlock : xw = [hashWaiters EXCEPT ![b0] = @ \cup {w}]
      BY <1>7
    <2>2. /\ hw \in [Gate!Heights -> SUBSET Waiter] /\ xw \in [GateBlock -> SUBSET Waiter]
          /\ \A b \in GateBlock, x \in Waiter : x \in xw[b] <=>
                x \in hashWaiters[b] \/ (b = b0 /\ x = w)
      BY <1>4, <1>7, <2>1
    <2>3. Waits(hw, xw, sending, chan)
      <3>1. ASSUME NEW x \in Waiter, x # w
            PROVE  /\ \A h \in Gate!Heights : x \in hw[h] <=> x \in heightWaiters[h]
                   /\ \A b \in GateBlock : x \in xw[b] <=> x \in hashWaiters[b]
        BY <1>7, <2>2, <3>1
      <3>2. ASSUME NEW x \in Waiter, x # w PROVE WaitsOnce(x, hw, xw, sending, chan)
        <4>1. WaitsOnce(x, heightWaiters, hashWaiters, sending, chan)
          BY <1>5 DEF WaiterInv, Waits
        <4> QED
          BY <3>1, <3>2, <4>1 DEF WaitsOnce
      <3>3. WaitsOnce(w, hw, xw, sending, chan)
        <4>1. /\ \A h \in Gate!Heights : w \notin hw[h]
              /\ \A b \in GateBlock : w \in xw[b] => b = b0
          BY <1>2, <1>7, <2>2
        <4>2. chan[w] = <<>> /\ \A b \in GateBlock : <<w, b>> \notin sending
          BY <1>2
        <4> QED
          BY <4>1, <4>2 DEF WaitsOnce
      <3> QED
        BY <3>2, <3>3 DEF Waits
    <2> QED
      BY <2>2, <2>3
  <1> QED
    BY <1>6, <1>7

\* signalHeight and signalHash move the channels of block b from the lists to the
\* signals on their way.
LEMMA SignalMoves ==
    ASSUME GateType, NEW b \in GateBlock,
           NEW hw \in [Gate!Heights -> SUBSET Waiter], NEW xw \in [GateBlock -> SUBSET Waiter],
           Waits(hw, xw, sending, chan), Gate!signal(b, hw, xw), UNCHANGED chan
    PROVE  /\ heightWaiters' \in [Gate!Heights -> SUBSET Waiter]
           /\ hashWaiters' \in [GateBlock -> SUBSET Waiter]
           /\ sending' \subseteq Waiter \X GateBlock
           /\ WaiterInv'
           /\ \A h \in Gate!Heights :
                 heightWaiters'[h] = IF h = BlockHeight[b] THEN {} ELSE hw[h]
           /\ \A c \in GateBlock : hashWaiters'[c] = IF c = b THEN {} ELSE xw[c]
  <1>1. /\ heightWaiters' = [hw EXCEPT ![BlockHeight[b]] = {}]
        /\ hashWaiters' = [xw EXCEPT ![b] = {}]
        /\ sending' = sending \cup {<<w, b>> : w \in hw[BlockHeight[b]] \cup xw[b]}
    BY DEF Gate!signal
  <1>2. BlockHeight[b] \in Gate!Heights
    BY HeightIsHeight
  <1>3. /\ heightWaiters' \in [Gate!Heights -> SUBSET Waiter]
        /\ hashWaiters' \in [GateBlock -> SUBSET Waiter]
        /\ \A h \in Gate!Heights : heightWaiters'[h] = IF h = BlockHeight[b] THEN {} ELSE hw[h]
        /\ \A c \in GateBlock : hashWaiters'[c] = IF c = b THEN {} ELSE xw[c]
    BY <1>1, <1>2
  <1>4. sending' \subseteq Waiter \X GateBlock
    BY <1>1, <1>2 DEF GateType
  <1>5. ASSUME NEW w \in Waiter, NEW c \in GateBlock
        PROVE  <<w, c>> \in sending' <=>
                  <<w, c>> \in sending \/ (c = b /\ (w \in hw[BlockHeight[b]] \/ w \in xw[b]))
    BY <1>1
  <1>6. ASSUME NEW w \in Waiter
        PROVE  WaitsOnce(w, heightWaiters', hashWaiters', sending', chan')
    <2>1. WaitsOnce(w, hw, xw, sending, chan)
      BY DEF Waits
    <2>2. CASE w \in hw[BlockHeight[b]] \/ w \in xw[b]
      <3>1. /\ chan[w] = <<>> /\ \A c \in GateBlock : <<w, c>> \notin sending
            /\ \A h \in Gate!Heights : w \in hw[h] => h = BlockHeight[b]
            /\ \A c \in GateBlock : w \in xw[c] => c = b
        BY <1>2, <2>1, <2>2 DEF WaitsOnce
      <3>2. /\ \A h \in Gate!Heights : w \notin heightWaiters'[h]
            /\ \A c \in GateBlock : w \notin hashWaiters'[c]
            /\ \A c \in GateBlock : <<w, c>> \in sending' => c = b
        BY <1>3, <1>5, <3>1
      <3> QED
        BY <3>1, <3>2 DEF WaitsOnce
    <2>3. CASE ~(w \in hw[BlockHeight[b]] \/ w \in xw[b])
      <3>1. /\ \A h \in Gate!Heights : w \in heightWaiters'[h] => w \in hw[h]
            /\ \A c \in GateBlock : w \in hashWaiters'[c] => w \in xw[c]
            /\ \A c \in GateBlock : <<w, c>> \in sending' <=> <<w, c>> \in sending
        BY <1>3, <1>5, <2>3
      <3> QED
        BY <2>1, <3>1 DEF WaitsOnce
    <2> QED
      BY <2>2, <2>3
  <1>7. WaiterInv'
    BY <1>6 DEF WaiterInv, Waits
  <1> QED
    BY <1>3, <1>4, <1>7

\* updateToBlock after a channel has joined the lists hw and xw.
LEMMA UpdateKeeps ==
    ASSUME GateInv, NEW b \in GateBlock,
           NEW hw \in [Gate!Heights -> SUBSET Waiter], NEW xw \in [GateBlock -> SUBSET Waiter],
           Waits(hw, xw, sending, chan),
           \A h \in DOMAIN hashAtHeight : hw[h] = {}, \A c \in blockWithHash : xw[c] = {},
           Gate!updateToBlock(b, hw, xw), UNCHANGED <<chan, gatePanicked>>
    PROVE  GateInv'
  <1>1. GateType /\ QueueInv /\ BlockHeight[b] \in Gate!Heights
    BY HeightIsHeight DEF GateInv
  <1>2. /\ queue' \in Seq(GateBlock) /\ QueueInv'
        /\ hashAtHeight' \in [DOMAIN hashAtHeight' -> GateBlock]
        /\ DOMAIN hashAtHeight' \subseteq DOMAIN hashAtHeight \cup {BlockHeight[b]}
        /\ blockWithHash' \subseteq blockWithHash \cup {b}
    BY <1>1, RotateIn DEF Gate!updateToBlock
  <1>3. /\ heightWaiters' \in [Gate!Heights -> SUBSET Waiter]
        /\ hashWaiters' \in [GateBlock -> SUBSET Waiter]
        /\ sending' \subseteq Waiter \X GateBlock /\ WaiterInv'
        /\ \A h \in Gate!Heights : heightWaiters'[h] = IF h = BlockHeight[b] THEN {} ELSE hw[h]
        /\ \A c \in GateBlock : hashWaiters'[c] = IF c = b THEN {} ELSE xw[c]
    BY <1>1, SignalMoves DEF Gate!updateToBlock
  <1>4. DOMAIN hashAtHeight' \subseteq Gate!Heights /\ DOMAIN hashAtHeight \subseteq Gate!Heights
    BY <1>1, <1>2 DEF GateType
  <1>5. GateType'
    BY <1>1, <1>2, <1>3, <1>4 DEF GateType
  <1>6. blockWithHash \subseteq GateBlock
    BY <1>1 DEF GateType, QueueInv, Gate!InQueue
  <1>7. Gate!NoWaiterStranded'
    <2>1. \A c \in blockWithHash' : hashWaiters'[c] = {}
      BY <1>2, <1>3, <1>6
    <2>2. \A h \in DOMAIN hashAtHeight' : heightWaiters'[h] = {}
      BY <1>2, <1>3, <1>4
    <2> QED
      BY <2>1, <2>2 DEF Gate!NoWaiterStranded
  <1> QED
    BY <1>2, <1>3, <1>5, <1>7 DEF GateInv, Gate!SignalFindsRoom

LEMMA WaitForHeightKeeps ==
    ASSUME GateInv, NEW w \in Waiter, NEW h \in Gate!Heights, Gate!WaitForHeight(w, h)
    PROVE  GateInv'
  <1> DEFINE hw == [heightWaiters EXCEPT ![h] = @ \cup {w}]
  <1>1. /\ hw \in [Gate!Heights -> SUBSET Waiter] /\ hashWaiters \in [GateBlock -> SUBSET Waiter]
        /\ Waits(hw, hashWaiters, sending, chan)
    BY FreshWaits DEF Gate!WaitForHeight
  <1>2. \A k \in Gate!Heights : k # h => hw[k] = heightWaiters[k]
    BY DEF GateInv, GateType
  <1>3. GateType /\ QueueInv /\ Gate!NoWaiterStranded /\ Gate!SignalFindsRoom
        /\ UNCHANGED <<chan, gatePanicked>>
    BY DEF GateInv, Gate!WaitForHeight
  <1>4. CASE /\ h \in DOMAIN hashAtHeight
             /\ heightWaiters' = [hw EXCEPT ![h] = {}]
             /\ sending' = sending \cup {<<x, hashAtHeight[h]>> : x \in hw[h]}
             /\ UNCHANGED <<height, hashAtHeight, blockWithHash, queue, hashWaiters>>
    <2> DEFINE b == hashAtHeight[h]
    <2>1. b \in GateBlock /\ BlockHeight[b] = h /\ b \in blockWithHash /\ hashWaiters[b] = {}
      BY <1>3, <1>4, QueueLeads DEF GateType, Gate!HeightLeadsToBlock, Gate!NoWaiterStranded
    <2>2. Gate!signal(b, hw, hashWaiters)
      <3>1. [hashWaiters EXCEPT ![b] = {}] = hashWaiters
        BY <1>1, <2>1
      <3>2. hw[h] \cup hashWaiters[b] = hw[h]
        BY <2>1
      <3> HIDE DEF hw
      <3> QED
        BY <1>4, <2>1, <3>1, <3>2 DEF Gate!signal
    <2> HIDE DEF hw, b
    <2>3. /\ heightWaiters' \in [Gate!Heights -> SUBSET Waiter]
          /\ hashWaiters' \in [GateBlock -> SUBSET Waiter]
          /\ sending' \subseteq Waiter \X GateBlock /\ WaiterInv'
          /\ \A k \in Gate!Heights : heightWaiters'[k] = IF k = BlockHeight[b] THEN {} ELSE hw[k]
      BY <1>1, <1>3, <2>1, <2>2, SignalMoves
    <2>4. GateType' /\ QueueInv'
      BY <1>3, <1>4, <2>3 DEF GateType, QueueInv, LastOfHeight, Gate!InQueue
    <2>5. Gate!NoWaiterStranded'
      <3>1. \A k \in DOMAIN hashAtHeight' : heightWaiters'[k] = {}
        BY <1>2, <1>3, <1>4, <2>1, <2>3 DEF Gate!NoWaiterStranded, GateType
      <3> QED
        BY <1>3, <1>4, <3>1 DEF Gate!NoWaiterStranded
    <2> QED
      BY <1>3, <2>3, <2>4, <2>5 DEF GateInv, Gate!SignalFindsRoom
  <1>5. ASSUME h \notin DOMAIN hashAtHeight, NEW b \in GateBlock, BlockHeight[b] = h,
               Gate!updateToBlock(b, hw, hashWaiters)
        PROVE  GateInv'
    <2>1. \A k \in DOMAIN hashAtHeight : hw[k] = {}
      BY <1>2, <1>3, <1>5 DEF Gate!NoWaiterStranded, GateType
    <2>2. \A c \in blockWithHash : hashWaiters[c] = {}
      BY <1>3 DEF Gate!NoWaiterStranded
    <2> HIDE DEF hw
    <2> QED
      BY <1>1, <1>3, <1>5, <2>1, <2>2, UpdateKeeps
  <1>6. CASE /\ h \notin DOMAIN hashAtHeight /\ heightWaiters' = hw
             /\ UNCHANGED <<height, hashAtHeight, blockWithHash, queue, hashWaiters, sending>>
    <2>1. WaiterInv'
      BY <1>1, <1>3, <1>6 DEF WaiterInv
    <2>2. GateType' /\ QueueInv'
      BY <1>1, <1>3, <1>6 DEF GateType, QueueInv, LastOfHeight, Gate!InQueue
    <2>3. Gate!NoWaiterStranded'
      <3>1. \A k \in DOMAIN hashAtHeight : hw[k] = {}
        BY <1>2, <1>3, <1>6 DEF Gate!NoWaiterStranded, GateType
      <3> QED
        BY <1>3, <1>6, <3>1 DEF Gate!NoWaiterStranded
    <2> QED
      BY <1>3, <2>1, <2>2, <2>3 DEF GateInv, Gate!SignalFindsRoom
  <1> QED
    BY <1>4, <1>5, <1>6 DEF Gate!WaitForHeight

LEMMA WaitForHashKeeps ==
    ASSUME GateInv, NEW w \in Waiter, NEW b \in GateBlock, Gate!WaitForHash(w, b)
    PROVE  GateInv'
  <1> DEFINE xw == [hashWaiters EXCEPT ![b] = @ \cup {w}]
  <1>1. /\ heightWaiters \in [Gate!Heights -> SUBSET Waiter] /\ xw \in [GateBlock -> SUBSET Waiter]
        /\ Waits(heightWaiters, xw, sending, chan)
    BY FreshWaits DEF Gate!WaitForHash
  <1>2. \A c \in GateBlock : c # b => xw[c] = hashWaiters[c]
    BY DEF GateInv, GateType
  <1>3. /\ GateType /\ QueueInv /\ Gate!NoWaiterStranded /\ Gate!SignalFindsRoom
        /\ UNCHANGED <<hashAtHeight, blockWithHash, queue, heightWaiters, chan, gatePanicked>>
        /\ blockWithHash \subseteq GateBlock
    BY DEF GateInv, Gate!WaitForHash, GateType, QueueInv, Gate!InQueue
  <1>4. QueueInv'
    BY <1>3 DEF QueueInv, LastOfHeight, Gate!InQueue
  <1>5. CASE b \in blockWithHash
    <2>1. hashWaiters' = [xw EXCEPT ![b] = {}] /\ sending' = sending \cup {<<x, b>> : x \in xw[b]}
      BY <1>5 DEF Gate!WaitForHash
    <2> HIDE DEF xw
    <2>2. /\ hashWaiters' \in [GateBlock -> SUBSET Waiter]
          /\ \A c \in GateBlock : hashWaiters'[c] = IF c = b THEN {} ELSE xw[c]
          /\ \A x \in Waiter, c \in GateBlock :
                <<x, c>> \in sending' <=> <<x, c>> \in sending \/ (c = b /\ x \in xw[b])
      BY <1>1, <2>1
    <2>3. ASSUME NEW x \in Waiter
          PROVE  WaitsOnce(x, heightWaiters', hashWaiters', sending', chan')
      <3>1. WaitsOnce(x, heightWaiters, xw, sending, chan)
        BY <1>1 DEF Waits
      <3> QED
        BY <1>3, <2>2, <3>1 DEF WaitsOnce
    <2>4. WaiterInv'
      BY <2>3 DEF WaiterInv, Waits
    <2>5. sending' \subseteq Waiter \X GateBlock
      BY <1>1, <1>3, <2>1 DEF GateType
    <2>6. GateType'
      BY <1>3, <2>2, <2>5 DEF GateType
    <2>7. Gate!NoWaiterStranded'
      BY <1>2, <1>3, <2>2 DEF Gate!NoWaiterStranded
    <2> QED
      BY <1>3, <1>4, <2>4, <2>6, <2>7 DEF GateInv, Gate!SignalFindsRoom
  <1>6. CASE b \notin blockWithHash
    <2>1. hashWaiters' = xw /\ UNCHANGED sending
      BY <1>6 DEF Gate!WaitForHash
    <2>2. WaiterInv'
      BY <1>1, <1>3, <2>1 DEF WaiterInv
    <2>3. GateType'
      BY <1>1, <1>3, <2>1 DEF GateType
    <2>4. Gate!NoWaiterStranded'
      BY <1>2, <1>3, <1>6, <2>1 DEF Gate!NoWaiterStranded
    <2> QED
      BY <1>3, <1>4, <2>2, <2>3, <2>4 DEF GateInv, Gate!SignalFindsRoom
  <1> QED
    BY <1>5, <1>6

\* The signal on its way to a channel finds it empty, and is the only one.
LEMMA DeliverKeeps ==
    ASSUME GateInv, NEW w \in Waiter, NEW b \in GateBlock, Gate!Deliver(w, b)
    PROVE  GateInv'
  <1>1. /\ GateType /\ QueueInv /\ WaiterInv /\ Gate!NoWaiterStranded /\ Gate!SignalFindsRoom
        /\ <<w, b>> \in sending /\ sending' = sending \ {<<w, b>>}
        /\ UNCHANGED <<hashAtHeight, blockWithHash, queue, heightWaiters, hashWaiters>>
    BY DEF GateInv, Gate!Deliver
  <1>2. WaitsOnce(w, heightWaiters, hashWaiters, sending, chan)
    BY <1>1 DEF WaiterInv, Waits
  <1>3. /\ chan[w] = <<>> /\ \A h \in Gate!Heights : w \notin heightWaiters[h]
        /\ \A c \in GateBlock : w \notin hashWaiters[c]
        /\ \A c \in GateBlock : <<w, c>> \in sending => c = b
    BY <1>1, <1>2 DEF WaitsOnce
  <1>4. chan' = [chan EXCEPT ![w] = <<b>>] /\ UNCHANGED gatePanicked
    BY <1>3 DEF Gate!Deliver
  <1>5. chan' \in [Waiter -> Seq(GateBlock)] /\ \A x \in Waiter : x # w => chan'[x] = chan[x]
    BY <1>1, <1>4 DEF GateType
  <1>6. ASSUME NEW x \in Waiter
        PROVE  WaitsOnce(x, heightWaiters', hashWaiters', sending', chan')
    <2>1. CASE x = w
      <3>1. \A c \in GateBlock : <<w, c>> \notin sending'
        BY <1>1, <1>3
      <3> QED
        BY <1>1, <1>3, <2>1, <3>1 DEF WaitsOnce
    <2>2. CASE x # w
      <3>1. WaitsOnce(x, heightWaiters, hashWaiters, sending, chan)
        BY <1>1 DEF WaiterInv, Waits
      <3>2. \A c \in GateBlock : <<x, c>> \in sending' <=> <<x, c>> \in sending
        BY <1>1, <2>2
      <3> QED
        BY <1>1, <1>5, <2>2, <3>1, <3>2 DEF WaitsOnce
    <2> QED
      BY <2>1, <2>2
  <1>7. WaiterInv'
    BY <1>6 DEF WaiterInv, Waits
  <1>8. GateType'
    BY <1>1, <1>5 DEF GateType
  <1>9. QueueInv' /\ Gate!NoWaiterStranded' /\ Gate!SignalFindsRoom'
    BY <1>1, <1>4 DEF QueueInv, LastOfHeight, Gate!InQueue, Gate!NoWaiterStranded, Gate!SignalFindsRoom
  <1> QED
    BY <1>7, <1>8, <1>9 DEF GateInv

\* A step that leaves the maps, the lists and the channels alone.
LEMMA GateRests ==
    ASSUME GateInv,
           UNCHANGED <<hashAtHeight, blockWithHash, queue, heightWaiters, hashWaiters, sending,
                       chan, gatePanicked>>
    PROVE  GateInv'
  BY DEF GateInv, GateType, QueueInv, LastOfHeight, Gate!InQueue, WaiterInv, Waits, WaitsOnce,
         Gate!NoWaiterStranded, Gate!SignalFindsRoom

\* Every step of BlockGate keeps its invariant.
LEMMA GateKeeps == ASSUME GateInv, Gate!Next PROVE GateInv'
  <1>1. ASSUME NEW b \in GateBlock, Gate!UpdateToBlock(b) \/ Gate!UpdateToNextBlock(b)
        PROVE  GateInv'
    <2>1. /\ Gate!updateToBlock(b, heightWaiters, hashWaiters) /\ UNCHANGED <<chan, gatePanicked>>
      BY <1>1 DEF Gate!UpdateToBlock, Gate!UpdateToNextBlock
    <2>2. /\ heightWaiters \in [Gate!Heights -> SUBSET Waiter]
          /\ hashWaiters \in [GateBlock -> SUBSET Waiter]
          /\ Waits(heightWaiters, hashWaiters, sending, chan)
          /\ \A h \in DOMAIN hashAtHeight : heightWaiters[h] = {}
          /\ \A c \in blockWithHash : hashWaiters[c] = {}
      BY DEF GateInv, GateType, WaiterInv, Gate!NoWaiterStranded
    <2> QED
      BY <2>1, <2>2, UpdateKeeps
  <1>2. ASSUME NEW h \in Gate!Heights, Gate!SetFetchToHeight(h) PROVE GateInv'
    BY <1>2, GateRests DEF Gate!SetFetchToHeight, Gate!waitVars
  <1>3. ASSUME NEW w \in Waiter, NEW h \in Gate!Heights, Gate!WaitForHeight(w, h) PROVE GateInv'
    BY <1>3, WaitForHeightKeeps
  <1>4. ASSUME NEW w \in Waiter, NEW b \in GateBlock, Gate!WaitForHash(w, b) PROVE GateInv'
    BY <1>4, WaitForHashKeeps
  <1>5. ASSUME NEW w \in Waiter, NEW b \in GateBlock, Gate!Deliver(w, b) PROVE GateInv'
    BY <1>5, DeliverKeeps
  <1> QED
    BY <1>1, <1>2, <1>3, <1>4, <1>5 DEF Gate!Next

-------------------------------------------------------------------------------
(* The invariant of the prefetcher.                                         *)

\* A caller is in the mutex's queue once, while its call is outstanding; when the
\* channel is closed no call is, and no retarget is under way.
PrefetchInv ==
    /\ lockQ \in Seq(Client \cup {"fetcher"})
    /\ DOMAIN req = Client /\ req = [c \in Client |-> req[c]]
    /\ reply = [c \in Client |-> reply[c]]
    /\ \A i \in 1..Len(lockQ) : lockQ[i] \in Client =>
          /\ req[lockQ[i]] # None
          /\ \A j \in 1..Len(lockQ) : lockQ[j] = lockQ[i] => j = i
    /\ closed => holder = "none" /\ \A c \in Client : req[c] = None
    /\ holder \in {"none", "retarget"}
    /\ Prefetch!NoSendOnClosed /\ Prefetch!SlotsDiffer

-------------------------------------------------------------------------------
(* The prefetcher.                                                          *)

LEMMA PrefetchStart == ASSUME Prefetch!Init PROVE PrefetchInv
  BY DEF Prefetch!Init, Prefetch!NewBlockPrefetchClient, PrefetchInv, Prefetch!NoSendOnClosed, Prefetch!SlotsDiffer, Prefetch!Empty

\* The head of the queue leaves it.
LEMMA QueueTail ==
    ASSUME NEW S, NEW q \in Seq(S), q # <<>>
    PROVE  /\ Head(q) = q[1] /\ Tail(q) \in Seq(S) /\ 1 \in 1..Len(q)
           /\ \A i \in 1..Len(Tail(q)) : i + 1 \in 1..Len(q) /\ Tail(q)[i] = q[i + 1]
  OBVIOUS

\* GetBlockData answers the head of the queue; the channel is not closed then.
LEMMA AnswerKeeps ==
    ASSUME PrefetchInv, NEW c \in Client, NEW data, Prefetch!HasLock(c),
           Prefetch!Answer(c, data),
           holder' = "retarget" \/ UNCHANGED holder
    PROVE  PrefetchInv'
  <1>1. /\ reply' = [reply EXCEPT ![c] = data] /\ req' = [req EXCEPT ![c] = None]
        /\ lockQ' = Tail(lockQ) /\ UNCHANGED <<closed, current, next, prefetchPanicked>>
    BY DEF Prefetch!Answer
  <1>2. lockQ # <<>> /\ Head(lockQ) = c /\ lockQ \in Seq(Client \cup {"fetcher"})
    BY DEF Prefetch!HasLock, PrefetchInv
  <1>3. /\ lockQ[1] = c /\ 1 \in 1..Len(lockQ) /\ lockQ' \in Seq(Client \cup {"fetcher"})
        /\ \A i \in 1..Len(lockQ') : i + 1 \in 1..Len(lockQ) /\ lockQ'[i] = lockQ[i + 1]
    BY <1>1, <1>2, QueueTail
  <1>4. req[c] # None /\ ~closed
    BY <1>3 DEF PrefetchInv
  <1>5. /\ req' = [d \in Client |-> IF d = c THEN None ELSE req[d]]
        /\ reply' = [d \in Client |-> IF d = c THEN data ELSE reply[d]]
    BY <1>1 DEF PrefetchInv
  <1>6. ASSUME NEW i \in 1..Len(lockQ'), lockQ'[i] \in Client
        PROVE  /\ req'[lockQ'[i]] # None
               /\ \A j \in 1..Len(lockQ') : lockQ'[j] = lockQ'[i] => j = i
    <2>1. i \in Nat /\ i + 1 \in 1..Len(lockQ) /\ lockQ'[i] = lockQ[i + 1] /\ i + 1 # 1
      BY <1>3
    <2>2. lockQ[i + 1] # c /\ req[lockQ[i + 1]] # None
      BY <1>3, <1>6, <2>1 DEF PrefetchInv
    <2>3. ASSUME NEW j \in 1..Len(lockQ'), lockQ'[j] = lockQ'[i] PROVE j = i
      <3>1. j + 1 \in 1..Len(lockQ) /\ lockQ[j + 1] = lockQ[i + 1]
        BY <1>3, <2>1, <2>3
      <3>2. j + 1 = i + 1
        BY <1>6, <2>1, <3>1 DEF PrefetchInv
      <3> QED
        BY <2>1, <3>2
    <2> QED
      BY <1>5, <1>6, <2>1, <2>2, <2>3
  <1>7. PrefetchInv'
    <2>1. /\ DOMAIN req' = Client /\ req' = [d \in Client |-> req'[d]]
          /\ reply' = [d \in Client |-> reply'[d]]
      BY <1>5
    <2>2. holder' \in {"none", "retarget"} /\ ~closed' /\ ~prefetchPanicked'
      BY <1>1, <1>4 DEF PrefetchInv, Prefetch!NoSendOnClosed
    <2> QED
      BY <1>1, <1>3, <1>6, <2>1, <2>2 DEF PrefetchInv, Prefetch!NoSendOnClosed, Prefetch!SlotsDiffer
  <1> QED
    BY <1>7

\* GetBlockData: a hit on current, a hit on next, or the node's answer.
LEMMA GetBlockDataKeeps ==
    ASSUME PrefetchInv, NEW c \in Client, Prefetch!GetBlockData(c)
    PROVE  PrefetchInv'
  <1>1. CASE Prefetch!HitCurrent(c)
    BY <1>1, AnswerKeeps DEF Prefetch!HitCurrent
  <1>2. CASE Prefetch!HitNext(c)
    BY <1>2, AnswerKeeps DEF Prefetch!HitNext
  <1>3. CASE Prefetch!Miss(c)
    BY <1>3, AnswerKeeps DEF Prefetch!Miss
  <1> QED
    BY <1>1, <1>2, <1>3 DEF Prefetch!GetBlockData

\* A caller or the fetcher joins the queue of the mutex.
LEMMA JoinKeeps ==
    ASSUME PrefetchInv, NEW p \in Client \cup {"fetcher"}, lockQ' = Append(lockQ, p),
           \/ p = "fetcher" /\ UNCHANGED req
           \/ p \in Client /\ req[p] = None /\ ~closed /\ \E b \in PrefetchBlock :
                 req' = [req EXCEPT ![p] = b],
           UNCHANGED <<current, next, closed, holder, reply, prefetchPanicked>>
    PROVE  PrefetchInv'
  <1>1. /\ lockQ \in Seq(Client \cup {"fetcher"}) /\ lockQ' \in Seq(Client \cup {"fetcher"})
        /\ Len(lockQ') = Len(lockQ) + 1 /\ lockQ'[Len(lockQ) + 1] = p /\ Len(lockQ) \in Nat
        /\ \A i \in 1..Len(lockQ) : lockQ'[i] = lockQ[i]
    BY DEF PrefetchInv
  <1>2. "fetcher" \notin Client /\ None \notin PrefetchBlock
    BY PrefetchAssumption DEF Prefetch!PrefetchConstants
  <1>3. /\ \A c \in Client : c # p => req'[c] = req[c]
        /\ p \in Client => req'[p] # None /\ req[p] = None /\ ~closed
        /\ DOMAIN req' = Client /\ req' = [c \in Client |-> req'[c]]
    BY <1>2 DEF PrefetchInv
  <1>4. \A i \in 1..Len(lockQ) : lockQ[i] \in Client => lockQ[i] # p
    BY <1>2, <1>3 DEF PrefetchInv
  <1>5. ASSUME NEW i \in 1..Len(lockQ'), lockQ'[i] \in Client
        PROVE  /\ req'[lockQ'[i]] # None
               /\ \A j \in 1..Len(lockQ') : lockQ'[j] = lockQ'[i] => j = i
    <2>1. CASE i = Len(lockQ) + 1
      BY <1>1, <1>3, <1>4, <1>5, <2>1
    <2>2. CASE i \in 1..Len(lockQ)
      <3>1. lockQ'[i] = lockQ[i] /\ lockQ[i] # p /\ req[lockQ[i]] # None
        BY <1>1, <1>4, <1>5, <2>2 DEF PrefetchInv
      <3>2. \A j \in 1..Len(lockQ) : lockQ[j] = lockQ[i] => j = i
        BY <1>5, <2>2, <3>1 DEF PrefetchInv
      <3>3. \A j \in 1..Len(lockQ') : lockQ'[j] = lockQ'[i] => j = i
        BY <1>1, <3>1, <3>2
      <3> QED
        BY <1>3, <1>5, <3>1, <3>3
    <2> QED
      BY <1>1, <2>1, <2>2
  <1>6. closed' => holder' = "none" /\ \A c \in Client : req'[c] = None
    BY <1>3 DEF PrefetchInv
  <1>7. /\ reply' = [c \in Client |-> reply'[c]] /\ holder' \in {"none", "retarget"}
        /\ Prefetch!NoSendOnClosed' /\ Prefetch!SlotsDiffer'
    BY DEF PrefetchInv, Prefetch!NoSendOnClosed, Prefetch!SlotsDiffer
  <1> QED
    BY <1>1, <1>3, <1>5, <1>6, <1>7 DEF PrefetchInv

\* A step that neither calls nor answers.
LEMMA PrefetchRests ==
    ASSUME PrefetchInv, UNCHANGED <<current, next, lockQ, req, reply, prefetchPanicked>>,
           \/ UNCHANGED <<closed, holder>>
           \/ UNCHANGED closed /\ holder' = "none"
           \/ closed' = TRUE /\ UNCHANGED holder /\ holder = "none"
                /\ \A c \in Client : req[c] = None
    PROVE  PrefetchInv'
  BY DEF PrefetchInv, Prefetch!NoSendOnClosed, Prefetch!SlotsDiffer

\* Every step of the prefetcher keeps its invariant.
LEMMA PrefetchKeeps == ASSUME PrefetchInv, Prefetch!Next PROVE PrefetchInv'
  <1>1. ASSUME NEW b \in PrefetchBlock, Prefetch!NodeMoves(b) PROVE PrefetchInv'
    BY <1>1, PrefetchRests DEF Prefetch!NodeMoves
  <1>2. ASSUME NEW c \in Client, NEW b \in PrefetchBlock, Prefetch!CallGetBlockData(c, b)
        PROVE  PrefetchInv'
    BY <1>2, JoinKeeps DEF Prefetch!CallGetBlockData
  <1>3. ASSUME NEW c \in Client, Prefetch!GetBlockData(c) PROVE PrefetchInv'
    BY <1>3, GetBlockDataKeeps
  <1>4. CASE Prefetch!retarget
    <2>1. ~closed
      BY <1>4 DEF Prefetch!retarget, PrefetchInv
    <2>2. UNCHANGED <<current, next, lockQ, req, reply, prefetchPanicked, closed>> /\ holder' = "none"
      BY <1>4, <2>1 DEF Prefetch!retarget
    <2> QED
      BY <2>2, PrefetchRests
  <1>5. CASE Prefetch!FetcherReceive
    BY <1>5, JoinKeeps DEF Prefetch!FetcherReceive
  <1>6. CASE Prefetch!FetcherExit
    BY <1>6, PrefetchRests DEF Prefetch!FetcherExit
  <1>7. CASE Prefetch!RetrieveAndStoreNext
    <2>1. /\ lockQ # <<>> /\ Head(lockQ) = "fetcher" /\ lockQ' = Tail(lockQ)
          /\ lockQ \in Seq(Client \cup {"fetcher"})
          /\ UNCHANGED <<closed, holder, req, reply, prefetchPanicked>>
      BY <1>7 DEF Prefetch!RetrieveAndStoreNext, Prefetch!HasLock, PrefetchInv
    <2>2. /\ lockQ' \in Seq(Client \cup {"fetcher"})
          /\ \A i \in 1..Len(lockQ') : i + 1 \in 1..Len(lockQ) /\ lockQ'[i] = lockQ[i + 1]
      BY <2>1, QueueTail
    <2>3. ASSUME NEW i \in 1..Len(lockQ'), lockQ'[i] \in Client
          PROVE  /\ req'[lockQ'[i]] # None
                 /\ \A j \in 1..Len(lockQ') : lockQ'[j] = lockQ'[i] => j = i
      <3>1. i + 1 \in 1..Len(lockQ) /\ lockQ'[i] = lockQ[i + 1] /\ req[lockQ[i + 1]] # None
        BY <2>2, <2>3 DEF PrefetchInv
      <3>2. ASSUME NEW j \in 1..Len(lockQ'), lockQ'[j] = lockQ'[i] PROVE j = i
        <4>1. j + 1 \in 1..Len(lockQ) /\ lockQ[j + 1] = lockQ[i + 1]
          BY <2>2, <3>1, <3>2
        <4>2. j + 1 = i + 1
          BY <2>3, <3>1, <4>1 DEF PrefetchInv
        <4> QED
          BY <4>2
      <3> QED
        BY <2>1, <3>1, <3>2
    <2>4. Prefetch!SlotsDiffer'
      <3>1. CASE UNCHANGED <<current, next>>
        BY <3>1 DEF PrefetchInv, Prefetch!SlotsDiffer
      <3>2. CASE /\ ~Prefetch!haveBlockHash(order) /\ current' = next
                 /\ next' = Prefetch!retrieveBlockAndHeaderResult(order)
        BY <3>2 DEF Prefetch!haveBlockHash, Prefetch!retrieveBlockAndHeaderResult,
                    Prefetch!SlotsDiffer
      <3> QED
        BY <1>7, <3>1, <3>2 DEF Prefetch!RetrieveAndStoreNext
    <2> QED
      BY <2>1, <2>2, <2>3, <2>4 DEF PrefetchInv, Prefetch!NoSendOnClosed
  <1>8. CASE Prefetch!Stop
    BY <1>8, PrefetchRests DEF Prefetch!Stop
  <1>9. CASE Prefetch!Stopped
    BY <1>9, PrefetchRests DEF Prefetch!Stopped, Prefetch!vars
  <1> QED
    BY <1>1, <1>2, <1>3, <1>4, <1>5, <1>6, <1>7, <1>8, <1>9 DEF Prefetch!Next

-------------------------------------------------------------------------------
(* The three parts together.                                                *)

RpcUtilsInv == WalkInv /\ GateInv /\ PrefetchInv

allVars == <<part, vars, gateVars, prefetchVars>>

LEMMA RpcUtilsStart == ASSUME MCInit PROVE RpcUtilsInv
  BY WalksStart, GateStart, PrefetchStart DEF MCInit, RpcUtilsInv

LEMMA RpcUtilsStep ==
    ASSUME RpcUtilsInv, [WalksStep \/ GateStep \/ PrefetchStep]_allVars
    PROVE  RpcUtilsInv'
  <1>1. UNCHANGED vars => WalkInv'
    BY WalkRests DEF RpcUtilsInv
  <1>2. UNCHANGED gateVars => GateInv'
    BY GateRests DEF RpcUtilsInv, gateVars
  <1>3. UNCHANGED prefetchVars => PrefetchInv'
    BY PrefetchRests DEF RpcUtilsInv, prefetchVars
  <1>4. CASE WalksStep
    <2>1. WalkInv'
      BY <1>1, <1>4, CommonAncestorStep, OrphanedTipLengthStep, SideChainFullStep
      DEF WalksStep, Next, Returned, RpcUtilsInv
    <2> QED
      BY <1>2, <1>3, <1>4, <2>1 DEF WalksStep, RpcUtilsInv
  <1>5. CASE GateStep
    BY <1>1, <1>3, <1>5, GateKeeps DEF GateStep, RpcUtilsInv
  <1>6. CASE PrefetchStep
    BY <1>1, <1>2, <1>6, PrefetchKeeps DEF PrefetchStep, RpcUtilsInv
  <1>7. CASE UNCHANGED allVars
    BY <1>1, <1>2, <1>3, <1>7 DEF allVars, RpcUtilsInv
  <1> QED
    BY <1>4, <1>5, <1>6, <1>7

\* The invariants of the three parts hold always.
THEOREM RpcUtilsInvariant == MCSpec => []RpcUtilsInv
  <1>1. RpcUtilsInv /\ [WalksStep \/ GateStep \/ PrefetchStep]_allVars => RpcUtilsInv'
    BY RpcUtilsStep
  <1> QED
    BY <1>1, RpcUtilsStart, PTL DEF MCSpec, allVars

\* CommonAncestor returns the last block below both tips and the two branches above
\* it, OrphanedTipLength counts the abandoned blocks, SideChainFull returns the side
\* chain lowest first, and the errors come for the documented reasons only, for every
\* tree of blocks, every pair of tips and every limit.
THEOREM WalksAlwaysRight == MCSpec => []WalksAreRight
  <1>1. RpcUtilsInv => WalksAreRight
    BY DEF RpcUtilsInv, WalkInv, WalksAreRight
  <1> QED
    BY <1>1, RpcUtilsInvariant, PTL

\* For every capacity of BlockGate and every set of waiters its maps stay together,
\* nobody waits for a block it has and no channel is signalled twice; for every number
\* of callers the prefetcher never sends on the channel that Stop has closed and
\* never holds one block twice.
THEOREM ChannelsAlwaysSound == MCSpec => []ChannelsAreSound
  <1>1. RpcUtilsInv => ChannelsAreSound
    BY QueueLeads DEF RpcUtilsInv, GateInv, PrefetchInv, ChannelsAreSound
  <1> QED
    BY <1>1, RpcUtilsInvariant, PTL

===============================================================================
