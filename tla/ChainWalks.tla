------------------------------ MODULE ChainWalks ------------------------------
(***************************************************************************)
(* The walks of rpcutils over the node's blocks: CommonAncestor (the two    *)
(* branches of a reorganisation, by hash), OrphanedTipLength (how much of   *)
(* the database's chain the node has abandoned, by height) and              *)
(* SideChainFull (a side chain back to the main chain).                     *)
(*                                                                         *)
(* One step is one iteration of a loop.  The node is external and static    *)
(* during a walk; nodeTip is its best block.                                *)
(***************************************************************************)
EXTENDS BlockTree

CONSTANTS
    MaxAncestorChainLength   \* maxAncestorChainLength (8192)

ASSUME WalkAssumption == MaxAncestorChainLength \in Nat

VARIABLES
    walk,      \* the function that runs
    tipA, tipB,            \* its arguments (the tips; tipA and the node's best block)
    hashA, hashB,          \* the cursors
    chainA, chainB, length,
    result                 \* "none", "ok" or the error

vars == <<walk, tipA, tipB, hashA, hashB, chainA, chainB, length, result>>

Init ==
    /\ walk \in {"CommonAncestor", "OrphanedTipLength", "SideChainFull"}
    /\ tipA \in Block /\ tipB \in Block
    /\ hashA = tipA /\ hashB = tipB
    /\ chainA = <<>> /\ chainB = <<>> /\ length = 0
    /\ result = "none"

-------------------------------------------------------------------------------
(* CommonAncestor(hashA, hashB): the higher cursor goes down until both are *)
(* level; then both go down, at least once, until they meet.                *)

TooLong ==
    /\ length >= MaxAncestorChainLength
    /\ result' = "ErrAncestorMaxChainLength"
    /\ UNCHANGED <<hashA, hashB, chainA, chainB, length>>

DownA ==
    /\ HeightOf(hashA) > HeightOf(hashB)
    /\ chainA' = <<hashA>> \o chainA
    /\ hashA' = Parent(hashA)
    /\ UNCHANGED <<hashB, chainB, result>>

DownB ==
    /\ HeightOf(hashB) > HeightOf(hashA)
    /\ chainB' = <<hashB>> \o chainB
    /\ hashB' = Parent(hashB)
    /\ UNCHANGED <<hashA, chainA, result>>

\* A bug in CommonAncestor: a common tip is taken for the ancestor.
DownBoth_stopsAtTip ==
    /\ HeightOf(hashA) = HeightOf(hashB)
    /\ IF hashA = Genesis
       THEN result' = "ErrAncestorAtGenesis" /\ UNCHANGED <<hashA, hashB, chainA, chainB>>
       ELSE IF hashA = hashB
       THEN result' = "ok" /\ UNCHANGED <<hashA, hashB, chainA, chainB>>
       ELSE /\ chainA' = <<hashA>> \o chainA
            /\ chainB' = <<hashB>> \o chainB
            /\ hashA' = Parent(hashA) /\ hashB' = Parent(hashB)
            /\ result' = IF hashA' = hashB' THEN "ok" ELSE "none"

\* The zero PrevBlock of genesis ends the walk without an ancestor.
DownBoth ==
    /\ HeightOf(hashA) = HeightOf(hashB)
    /\ chainA' = <<hashA>> \o chainA
    /\ chainB' = <<hashB>> \o chainB
    /\ IF hashA = Genesis
       THEN result' = "ErrAncestorAtGenesis" /\ UNCHANGED <<hashA, hashB>>
       ELSE /\ hashA' = Parent(hashA) /\ hashB' = Parent(hashB)
            /\ result' = IF hashA' = hashB' THEN "ok" ELSE "none"

\* A bug in CommonAncestor: the limit is noticed one block too early.
CommonAncestor_early ==
    /\ walk = "CommonAncestor" /\ result = "none"
    /\ \/ /\ length >= MaxAncestorChainLength - 1
          /\ result' = "ErrAncestorMaxChainLength"
          /\ UNCHANGED <<hashA, hashB, chainA, chainB, length>>
       \/ /\ length < MaxAncestorChainLength - 1
          /\ DownA \/ DownB \/ DownBoth
          /\ length' = length + 1
    /\ UNCHANGED <<walk, tipA, tipB>>

CommonAncestor ==
    /\ walk = "CommonAncestor" /\ result = "none"
    /\ \/ TooLong
       \/ /\ length < MaxAncestorChainLength
          /\ DownA \/ DownB \/ DownBoth
          /\ length' = length + 1
    /\ UNCHANGED <<walk, tipA, tipB>>

-------------------------------------------------------------------------------
(* OrphanedTipLength: the database's chain ends in tipA, the node's in      *)
(* tipB; "length" is tipHeight - commonHeight.                              *)

\* A bug in OrphanedTipLength: the height goes down before the comparison.
OrphanedTipLength_skipsTip ==
    /\ walk = "OrphanedTipLength" /\ result = "none"
    /\ LET h == HeightOf(tipA) - length - 1
       IN  IF h >= 0 /\ h <= HeightOf(tipB) /\ At(tipA, h) = At(tipB, h)
           THEN result' = "ok" /\ length' = length + 1
           ELSE IF h < 0 THEN result' = "no ancestor" /\ UNCHANGED length
                ELSE length' = length + 1 /\ UNCHANGED result
    /\ UNCHANGED <<walk, tipA, tipB, hashA, hashB, chainA, chainB>>

\* The node has no block above its best height: an error.  The height goes down to
\* 0 at most; the warning after six blocks is only logged.
OrphanedTipLength ==
    LET commonHeight == HeightOf(tipA) - length
    IN  /\ walk = "OrphanedTipLength" /\ result = "none"
        /\ \/ /\ commonHeight > HeightOf(tipB)
              /\ result' = "no hdfd block"
              /\ UNCHANGED length
           \/ /\ commonHeight <= HeightOf(tipB)
              /\ At(tipA, commonHeight) = At(tipB, commonHeight)
              /\ result' = "ok"
              /\ UNCHANGED length
           \/ /\ commonHeight <= HeightOf(tipB)
              /\ At(tipA, commonHeight) # At(tipB, commonHeight)
              /\ length' = length + 1
              /\ result' = IF commonHeight - 1 < 0 THEN "no ancestor" ELSE "none"
        /\ UNCHANGED <<walk, tipA, tipB, hashA, hashB, chainA, chainB>>

-------------------------------------------------------------------------------
(* SideChainFull: tipA is the side chain's tip, tipB the node's best block; *)
(* the slice is collected tip first and reversed at the end.                *)

\* External: Confirmations # -1.
OnMainChain(b) == IsAncestor(b, tipB)

\* A bug in SideChainFull: the slice is not reversed.
SideChainFull_notReversed ==
    /\ walk = "SideChainFull" /\ result = "none"
    /\ IF OnMainChain(hashA)
       THEN /\ result' = IF hashA = tipA THEN "not a side chain" ELSE "ok"
            /\ UNCHANGED <<hashA, chainA>>
       ELSE /\ chainA' = Append(chainA, hashA)
            /\ hashA' = Parent(hashA)
            /\ UNCHANGED result
    /\ UNCHANGED <<walk, tipA, tipB, hashB, chainB, length>>

\* reverseStringSlice: the i-th and the i-th last elements are swapped.
reverseStringSlice(s) == [i \in 1..Len(s) |-> s[Len(s) + 1 - i]]

SideChainFull ==
    /\ walk = "SideChainFull" /\ result = "none"
    /\ IF OnMainChain(hashA)
       THEN /\ result' = IF hashA = tipA THEN "not a side chain" ELSE "ok"
            /\ chainA' = reverseStringSlice(chainA)
            /\ UNCHANGED hashA
       ELSE /\ chainA' = Append(chainA, hashA)
            /\ hashA' = Parent(hashA)
            /\ UNCHANGED result
    /\ UNCHANGED <<walk, tipA, tipB, hashB, chainB, length>>

\* The function has returned.
Returned == result # "none" /\ UNCHANGED vars

-------------------------------------------------------------------------------
Next == CommonAncestor \/ OrphanedTipLength \/ SideChainFull \/ Returned

Spec == Init /\ [][Next]_vars

-------------------------------------------------------------------------------
(* Properties.                                                              *)

\* The reference: the last common block that is below both tips.
CommonHeight(a, b) ==
    LET f == ForkHeight(a, b)
    IN  IF f = HeightOf(a) \/ f = HeightOf(b) THEN f - 1 ELSE f

\* CommonAncestor returns the last block both branches share that is not itself a
\* tip, and with it exactly the blocks above it on each branch, lowest first: what
\* every reorganisation handler disconnects and connects.
AncestorIsRight ==
    walk = "CommonAncestor" /\ result = "ok" =>
        LET h == CommonHeight(tipA, tipB)
        IN  /\ hashA = At(tipA, h)
            /\ chainA = SubSeq(Chain[tipA], h + 1, HeightOf(tipA))
            /\ chainB = SubSeq(Chain[tipB], h + 1, HeightOf(tipB))

\* It gives up only for one of the two documented reasons: one tip is genesis, or
\* the longer branch has more than MaxAncestorChainLength blocks.
AncestorErrors ==
    LET h    == CommonHeight(tipA, tipB)
        long == IF HeightOf(tipA) > HeightOf(tipB) THEN HeightOf(tipA) ELSE HeightOf(tipB)
    IN  walk = "CommonAncestor" =>
          /\ result = "ErrAncestorMaxChainLength" => long - h > MaxAncestorChainLength
          /\ result = "ErrAncestorAtGenesis" => Genesis \in {tipA, tipB}

\* The number of blocks the node has abandoned: rewinding the database by it ends
\* at the last block both have.
OrphansAreCounted ==
    walk = "OrphanedTipLength" =>
        /\ result = "ok" => length = HeightOf(tipA) - ForkHeight(tipA, tipB)
        /\ result = "no hdfd block" => HeightOf(tipA) > HeightOf(tipB)
        /\ result # "no ancestor"

\* The side chain is returned from its lowest block to its tip.
SideChainIsRight ==
    walk = "SideChainFull" =>
        /\ result = "ok" =>
              chainA = SubSeq(Chain[tipA], ForkHeight(tipA, tipB) + 1, HeightOf(tipA))
        /\ result = "not a side chain" => IsAncestor(tipA, tipB)

===============================================================================
