---------------------------- MODULE ServicesProofs ----------------------------
(***************************************************************************)
(* Proofs about the notifier and about the services beside the block        *)
(* database: the exchange bot, the block summaries and the publication of   *)
(* new blocks.                                                              *)
(*                                                                         *)
(* The notifier, for every tree of blocks, every registration of handler     *)
(* groups and every capacity of the queue.  That the followers are level     *)
(* between two messages depends on what is still in the queue and on its     *)
(* way: the node announces a reorganisation from the block it was on, and a  *)
(* follower is there when the message is taken only if everything before it  *)
(* leads there.  Pending says so.                                            *)
(*                                                                         *)
(* The publisher, for every chain and every number of faults: what its       *)
(* handler has collected so far is of the last block announced (Collected).  *)
(*                                                                         *)
(* The bot, for every set of sources and every capacity of the channels: a   *)
(* chart that is in the cache, or is about to be stored under the version    *)
(* that was read, has the data that the bot holds (ChartInv).                *)
(*                                                                         *)
(* The summaries, for every tree of blocks, every capacity and every order   *)
(* of the expiry queue: the tables at each step of the chain writer          *)
(* (TablesInv), the cache through every move of its heap (CacheOK), and the  *)
(* request under way (ReqOK).                                                *)
(***************************************************************************)
EXTENDS MCNotifier, MCServices, BlockTreeProofs, SequenceTheorems, FiniteSetTheorems,
        TLAPS

Message == {BlockMsg(b) : b \in Block} \cup {BranchTips(b, c) : b \in Block, c \in Block}
             \cup {TxMsg}

TypeOK ==
    /\ nodeTip \in Block /\ previous \in Block
    /\ wire \in Seq(Message) /\ anyQ \in Seq(Message)
    /\ cur \in Message \cup {NoMsg}
    /\ grp \in Nat

\* The handlers that run are those of the current group of the current message; none
\* runs while signalReorg asks for the common ancestor.
Goroutines ==
    /\ cur = NoMsg => grp = 0
    /\ grp = 0 => running = {}
    /\ cur # NoMsg => /\ grp \in 0..Len(Groups(cur))
                      /\ \A r \in running : r[2] = cur /\ r[1] \in Groups(cur)[grp]
    /\ \A r \in running : r = <<r[1], r[2]>>

OrderInv == TypeOK /\ Goroutines

\* The block that is the previous one once the current message is done.
Due ==
    CASE cur.type = "block" -> cur.b
      [] cur.type = "reorg" -> cur.new
      [] OTHER              -> previous

\* Where superQueue is after message m when it was at p.
Moves(p, m, q) ==
    \/ m.type = "block" /\ m.b # Genesis /\ q = (IF Parent(m.b) = p THEN m.b ELSE p)
    \/ m.type = "reorg" /\ m.old = p /\ q = m.new
    \/ m.type = "tx" /\ q = p

\* The messages msgs lead from block p to block q.
Leads(p, q, msgs) ==
    \E path \in [0..Len(msgs) -> Block] :
        /\ path[0] = p /\ path[Len(msgs)] = q
        /\ \A i \in 1..Len(msgs) : Moves(path[i - 1], msgs[i], path[i])

\* What is queued and on its way leads from the message at hand to the node's tip.
Pending == Leads(Due, nodeTip, anyQ \o wire)

\* The current message starts from the previous block.
Current ==
    /\ cur.type = "block" => cur.b # Genesis /\ Parent(cur.b) = previous
    /\ cur.type = "reorg" => cur.old = previous

\* The handler of h for the current message has not returned yet.
Waiting(h) ==
    \E i \in 1..Len(Groups(cur)) :
        h \in Groups(cur)[i] /\ (i > grp \/ (i = grp /\ <<h, cur>> \in running))

\* A follower is at the previous block until its handler returns, then at the next.
Progress ==
    /\ applied \in [Follower -> Seq(Block)]
    /\ \A h \in Follower :
          applied[h] = Chain[IF cur # NoMsg /\ Waiting(h) THEN previous ELSE Due]

LevelInv == OrderInv /\ listening = TRUE /\ Pending /\ Current /\ Progress

-------------------------------------------------------------------------------
(* Sequences.                                                               *)

\* A function on 1..n is a sequence of length n.
LEMMA FunctionIsSeq ==
    ASSUME NEW S, NEW n \in Nat, NEW s \in [1..n -> S]
    PROVE  s \in Seq(S) /\ Len(s) = n
  <1>1. s \in Seq(S)
    BY SeqDef
  <1> QED
    BY <1>1

\* The part of a sequence above its first f elements.
LEMMA SeqAbove ==
    ASSUME NEW S, NEW s \in Seq(S), NEW f \in 0..Len(s)
    PROVE  /\ SubSeq(s, f + 1, Len(s)) \in Seq(S)
           /\ Len(SubSeq(s, f + 1, Len(s))) = Len(s) - f
           /\ \A i \in 1..(Len(s) - f) : SubSeq(s, f + 1, Len(s))[i] = s[f + i]
  OBVIOUS

\* One more element at the end.
LEMMA SeqAndOne ==
    ASSUME NEW S, NEW s \in Seq(S), NEW m \in S
    PROVE  /\ s \o <<m>> \in Seq(S) /\ Len(s \o <<m>>) = Len(s) + 1
           /\ (s \o <<m>>)[Len(s) + 1] = m
           /\ \A i \in 1..Len(s) : (s \o <<m>>)[i] = s[i]
  OBVIOUS

\* A sequence is its first k elements and the others.
LEMMA SplitSeq ==
    ASSUME NEW S, NEW s \in Seq(S), NEW k \in 0..Len(s)
    PROVE  SubSeq(s, 1, k) \o SubSeq(s, k + 1, Len(s)) = s
  <1>1. PICK u \in Seq(S) :
            u = SubSeq(s, 1, k) /\ Len(u) = k /\ \A i \in 1..k : u[i] = s[i]
    <2>1. /\ SubSeq(s, 1, k) \in Seq(S) /\ Len(SubSeq(s, 1, k)) = k
          /\ \A i \in 1..k : SubSeq(s, 1, k)[i] = s[i]
      OBVIOUS
    <2> QED
      BY <2>1, Zenon
  <1>2. PICK v \in Seq(S) :
            /\ v = SubSeq(s, k + 1, Len(s)) /\ Len(v) = Len(s) - k
            /\ \A i \in 1..(Len(s) - k) : v[i] = s[k + i]
    <2>1. /\ SubSeq(s, k + 1, Len(s)) \in Seq(S)
          /\ Len(SubSeq(s, k + 1, Len(s))) = Len(s) - k
          /\ \A i \in 1..(Len(s) - k) : SubSeq(s, k + 1, Len(s))[i] = s[k + i]
      BY SeqAbove
    <2> QED
      BY <2>1, Zenon
  <1>3. Len(s) \in Nat /\ k \in Nat /\ k + (Len(s) - k) = Len(s)
    OBVIOUS
  <1>4. PICK w \in Seq(S) :
            /\ w = u \o v /\ Len(w) = Len(s)
            /\ \A i \in 1..Len(s) : w[i] = IF i <= k THEN u[i] ELSE v[i - k]
    <2>1. /\ u \o v \in Seq(S) /\ Len(u \o v) = Len(u) + Len(v)
          /\ \A i \in 1..(Len(u) + Len(v)) :
                (u \o v)[i] = IF i <= Len(u) THEN u[i] ELSE v[i - Len(u)]
      BY ConcatProperties
    <2>2. Len(u) + Len(v) = Len(s) /\ Len(u) = k
      BY <1>1, <1>2, <1>3
    <2> QED
      BY <2>1, <2>2, Zenon
  <1>5. ASSUME NEW i \in 1..Len(s) PROVE w[i] = s[i]
    <2>1. CASE i <= k
      <3>1. i \in 1..k
        BY <1>3, <2>1
      <3> QED
        BY <1>1, <1>4, <2>1, <3>1
    <2>2. CASE ~(i <= k)
      <3>1. i - k \in 1..(Len(s) - k) /\ k + (i - k) = i
        BY <1>3, <2>2
      <3> QED
        BY <1>2, <1>4, <2>2, <3>1
    <2> QED
      BY <2>1, <2>2
  <1>6. w = s
    BY <1>4, <1>5, SeqEqual
  <1> QED
    BY <1>1, <1>2, <1>4, <1>6

-------------------------------------------------------------------------------
(* Messages and their groups.                                               *)

\* A message is of one of three kinds, and has at least one group of handlers.
LEMMA Kinds ==
    ASSUME NEW m \in Message
    PROVE  /\ m.type \in {"block", "reorg", "tx"}
           /\ m.type = "block" => m.b \in Block
           /\ m.type = "reorg" => m.old \in Block /\ m.new \in Block
           /\ m # NoMsg
           /\ Groups(m) \in Seq(SUBSET Handler)
           /\ 1 \in 1..Len(Groups(m))
  <1>1. /\ m.type \in {"block", "reorg", "tx"}
        /\ m.type = "block" => m.b \in Block
        /\ m.type = "reorg" => m.old \in Block /\ m.new \in Block
    BY DEF Message, BlockMsg, BranchTips, TxMsg
  <1>2. m # NoMsg
    BY <1>1 DEF NoMsg
  <1>3. Groups(m) \in {BlockGroups, ReorgGroups, TxGroups}
    BY <1>1 DEF Groups
  <1>4. Groups(m) \in Seq(SUBSET Handler) /\ Groups(m) # <<>>
    BY <1>3, GroupAssumption
  <1>5. Len(Groups(m)) \in Nat /\ Len(Groups(m)) # 0
    BY <1>4
  <1> QED
    BY <1>1, <1>2, <1>4, <1>5

\* A follower is in exactly one group of a block or reorganisation.
LEMMA OneGroup ==
    ASSUME NEW m \in Message, m.type # "tx", NEW h \in Follower
    PROVE  \E i \in 1..Len(Groups(m)) :
              \A j \in 1..Len(Groups(m)) : h \in Groups(m)[j] <=> j = i
  <1>1. Groups(m) \in {BlockGroups, ReorgGroups} /\ Groups(m) \in Seq(SUBSET Handler)
    BY Kinds DEF Groups
  <1>2. DOMAIN Groups(m) = 1..Len(Groups(m))
    BY <1>1
  <1>3. PICK gs \in {BlockGroups, ReorgGroups} : gs = Groups(m)
    BY <1>1
  <1>4. \E i \in DOMAIN gs : \A j \in DOMAIN gs : h \in gs[j] <=> j = i
    BY GroupAssumption
  <1> QED
    BY <1>2, <1>3, <1>4

-------------------------------------------------------------------------------
(* The groups run one after the other.                                      *)

\* At the start of main.go's loop nothing runs.
LEMMA InitOrder == Init => OrderInv
  BY DEF Init, OrderInv, TypeOK, Goroutines

\* Taking a message starts its first group and nothing else.
LEMMA BeginOrder ==
    ASSUME OrderInv, cur = NoMsg, anyQ # <<>>, NEW m, m = Head(anyQ), Begin(m)
    PROVE  /\ OrderInv' /\ m \in Message /\ cur' = m /\ grp' = 1 /\ running' = Run(m, 1)
           /\ anyQ' = Tail(anyQ) /\ UNCHANGED <<nodeTip, listening, wire, previous, applied>>
  <1>1. /\ anyQ' = Tail(anyQ) /\ cur' = m /\ grp' = 1 /\ running' = running \cup Run(m, 1)
        /\ UNCHANGED <<nodeTip, listening, wire, previous, applied>>
    BY DEF Begin
  <1>2. anyQ \in Seq(Message) /\ m \in Message /\ anyQ' \in Seq(Message)
    BY <1>1 DEF OrderInv, TypeOK
  <1>3. running' = Run(m, 1)
    BY <1>1 DEF OrderInv, Goroutines
  <1>4. TypeOK'
    BY <1>1, <1>2 DEF OrderInv, TypeOK
  <1>5. \A r \in Run(m, 1) : r[2] = m /\ r[1] \in Groups(m)[1] /\ r = <<r[1], r[2]>>
    BY DEF Run
  <1>6. m # NoMsg /\ 1 \in 1..Len(Groups(m))
    BY <1>2, Kinds
  <1>7. Goroutines'
    BY <1>1, <1>3, <1>5, <1>6 DEF Goroutines
  <1> QED
    BY <1>1, <1>2, <1>3, <1>4, <1>7 DEF OrderInv

\* Asking for the common ancestor starts nothing yet.
LEMMA ReorgOrder ==
    ASSUME OrderInv, cur = NoMsg, anyQ # <<>>, NEW m, m = Head(anyQ), signalReorg(m)
    PROVE  /\ OrderInv' /\ m \in Message /\ cur' = m /\ grp' = 0
           /\ anyQ' = Tail(anyQ) /\ UNCHANGED <<nodeTip, listening, wire, previous, applied>>
  <1>1. /\ anyQ' = Tail(anyQ) /\ cur' = m
        /\ UNCHANGED <<nodeTip, listening, wire, grp, running, previous, applied>>
    BY DEF signalReorg
  <1>2. anyQ \in Seq(Message) /\ m \in Message /\ anyQ' \in Seq(Message)
    BY <1>1 DEF OrderInv, TypeOK
  <1>3. grp' = 0 /\ running' = {}
    BY <1>1 DEF OrderInv, Goroutines
  <1>4. m # NoMsg /\ 0 \in 0..Len(Groups(m))
    BY <1>2, Kinds
  <1>5. Goroutines'
    BY <1>1, <1>3, <1>4 DEF Goroutines
  <1> QED
    BY <1>1, <1>2, <1>3, <1>5 DEF OrderInv, TypeOK

\* Dropping a message starts nothing.
LEMMA DropOrder ==
    ASSUME OrderInv, anyQ # <<>>, Drop
    PROVE  OrderInv' /\ anyQ' = Tail(anyQ)
           /\ UNCHANGED <<nodeTip, listening, wire, cur, grp, running, previous, applied>>
  <1>1. anyQ' \in Seq(Message)
    BY DEF OrderInv, TypeOK, Drop
  <1> QED
    BY <1>1 DEF OrderInv, TypeOK, Goroutines, Drop

\* When every handler of the group has returned none is running at all.
LEMMA NoneRunning ==
    ASSUME OrderInv, cur # NoMsg, \A h \in Groups(cur)[grp] : <<h, cur>> \notin running
    PROVE  running = {}
  BY DEF OrderInv, Goroutines

\* The next group starts when none runs.
LEMMA NextGroupOrder ==
    ASSUME OrderInv, cur # NoMsg, running = {}, grp < Len(Groups(cur)),
           grp' = grp + 1, running' = running \cup Run(cur, grp + 1),
           UNCHANGED <<nodeTip, wire, anyQ, cur, previous>>
    PROVE  OrderInv' /\ running' = Run(cur, grp + 1) /\ grp + 1 \in 1..Len(Groups(cur))
  <1>1. cur \in Message /\ grp \in 0..Len(Groups(cur)) /\ running' = Run(cur, grp + 1)
    BY DEF OrderInv, TypeOK, Goroutines
  <1>2. Len(Groups(cur)) \in Nat
    BY <1>1, Kinds
  <1>3. grp + 1 \in 1..Len(Groups(cur)) /\ grp + 1 \in Nat /\ grp + 1 # 0
    BY <1>1, <1>2
  <1>4. TypeOK'
    BY <1>3 DEF OrderInv, TypeOK
  <1>5. \A r \in Run(cur, grp + 1) :
           r[2] = cur /\ r[1] \in Groups(cur)[grp + 1] /\ r = <<r[1], r[2]>>
    BY DEF Run
  <1>6. Goroutines'
    <2>1. grp' \in 0..Len(Groups(cur)) /\ grp' # 0
      BY <1>2, <1>3
    <2> QED
      BY <1>1, <1>5, <2>1 DEF Goroutines
  <1> QED
    BY <1>1, <1>3, <1>4, <1>6 DEF OrderInv

\* The next group starts when the previous one is done.
LEMMA GroupDoneOrder == ASSUME OrderInv, GroupDone PROVE OrderInv'
  <1>1. cur \in Message /\ cur # NoMsg /\ running = {}
    BY NoneRunning DEF OrderInv, TypeOK, GroupDone
  <1>2. CASE grp < Len(Groups(cur))
    BY <1>1, <1>2, NextGroupOrder DEF GroupDone
  <1>3. CASE ~(grp < Len(Groups(cur)))
    <2>1. /\ grp' = 0 /\ cur' = NoMsg /\ running' = {} /\ SetPreviousBlock
          /\ UNCHANGED <<nodeTip, wire, anyQ>>
      BY <1>1, <1>3 DEF GroupDone
    <2>2. previous' \in Block
      BY <1>1, <2>1, Kinds DEF SetPreviousBlock, OrderInv, TypeOK
    <2> QED
      BY <2>1, <2>2 DEF OrderInv, TypeOK, Goroutines
  <1> QED
    BY <1>2, <1>3

\* The first group of a reorganisation starts, or the reorganisation is abandoned.
LEMMA AncestorOrder ==
    ASSUME OrderInv, CommonAncestor
    PROVE  /\ OrderInv' /\ cur # NoMsg /\ running = {} /\ grp = 0
           /\ ~RpcMayFail => /\ grp' = grp + 1 /\ running' = Run(cur, grp + 1)
                             /\ grp + 1 \in 1..Len(Groups(cur))
                             /\ UNCHANGED <<nodeTip, listening, wire, anyQ, cur, previous, applied>>
  <1>1. cur # NoMsg /\ grp = 0 /\ running = {} /\ cur \in Message
        /\ UNCHANGED <<nodeTip, listening, wire, anyQ, previous, applied>>
    BY DEF CommonAncestor, OrderInv, TypeOK, Goroutines
  <1>2. CASE grp' = 1 /\ running' = running \cup Run(cur, 1) /\ UNCHANGED cur
    <2>1. grp < Len(Groups(cur)) /\ grp' = grp + 1 /\ running' = running \cup Run(cur, grp + 1)
      BY <1>1, <1>2, Kinds
    <2> QED
      BY <1>1, <1>2, <2>1, NextGroupOrder
  <1>3. CASE RpcMayFail /\ cur' = NoMsg /\ UNCHANGED <<grp, running>>
    BY <1>1, <1>3 DEF OrderInv, TypeOK, Goroutines
  <1> QED
    BY <1>2, <1>3, <1>1 DEF CommonAncestor

\* The callbacks and the node's announcements leave the handlers alone.
LEMMA FeedOrder ==
    ASSUME OrderInv, wire' \in Seq(Message), anyQ' \in Seq(Message), nodeTip' \in Block,
           UNCHANGED <<cur, grp, running, previous>>
    PROVE  OrderInv'
  BY DEF OrderInv, TypeOK, Goroutines

-------------------------------------------------------------------------------
(* What the node announces leads from its old best block to the new one.    *)

SideBranch(b, tip) == SubSeq(Chain[b], ForkHeight(b, tip) + 1, HeightOf(b))
SideBlocks(b, tip) == [i \in 1..Len(SideBranch(b, tip)) |-> BlockMsg(SideBranch(b, tip)[i])]

\* No block of a side branch builds on the tip of the other branch.
LEMMA SideBranchApart ==
    ASSUME NEW b \in Block, NEW tip \in Block, ~IsAncestor(b, tip), ~IsAncestor(tip, b)
    PROVE  /\ SideBranch(b, tip) \in Seq(Block)
           /\ \A i \in 1..Len(SideBranch(b, tip)) :
                 /\ SideBranch(b, tip)[i] # Genesis
                 /\ Parent(SideBranch(b, tip)[i]) # tip
  <1> DEFINE f == ForkHeight(b, tip)
             branch == SideBranch(b, tip)
  <1>1. /\ f \in 0..HeightOf(b) /\ HeightOf(b) \in Nat
        /\ Chain[b] \in Seq(Block) /\ Len(Chain[b]) = HeightOf(b)
    BY ForkIsShared, HeightType, TreeAssumption DEF HeightOf
  <1>2. branch = SubSeq(Chain[b], f + 1, Len(Chain[b]))
    BY <1>1 DEF SideBranch
  <1> HIDE DEF f, branch
  <1>3. /\ branch \in Seq(Block) /\ Len(branch) = HeightOf(b) - f
        /\ \A i \in 1..(HeightOf(b) - f) : branch[i] = Chain[b][f + i]
    BY <1>1, <1>2, SeqAbove
  <1>4. ASSUME NEW i \in 1..Len(branch)
        PROVE  branch[i] # Genesis /\ Parent(branch[i]) # tip
    <2>1. PICK k \in 1..HeightOf(b) : k = f + i
      BY <1>1, <1>3
    <2>2. branch[i] = At(b, k)
      BY <1>1, <1>3, <2>1 DEF At
    <2>3. At(b, k) # Genesis /\ Parent(At(b, k)) = At(b, k - 1)
      BY ParentOnBranch
    <2>4. k - 1 \in 0..HeightOf(b)
      BY <1>1
    <2>5. At(b, k - 1) # tip
      BY <2>4, AncestorOnBranch
    <2> QED
      BY <2>2, <2>3, <2>5
  <1> QED
    BY <1>3, <1>4 DEF branch

\* NodeReorganizes: the block messages are all left to the reorganisation, which
\* starts from the node's previous best block.
LEMMA SideBlocksLead ==
    ASSUME NEW b \in Block, NEW tip \in Block, ~IsAncestor(b, tip), ~IsAncestor(tip, b)
    PROVE  /\ SideBlocks(b, tip) \o <<BranchTips(tip, b)>> \in Seq(Message)
           /\ Leads(tip, b, SideBlocks(b, tip) \o <<BranchTips(tip, b)>>)
  <1>1. PICK branch \in Seq(Block) :
            /\ branch = SideBranch(b, tip)
            /\ \A i \in 1..Len(branch) : branch[i] # Genesis /\ Parent(branch[i]) # tip
    BY SideBranchApart
  <1>2. PICK n \in Nat : n = Len(branch)
    OBVIOUS
  <1>3. \A i \in 1..n : BlockMsg(branch[i]) \in Message
    BY <1>2 DEF Message
  <1>4. SideBlocks(b, tip) = [i \in 1..n |-> BlockMsg(branch[i])]
    BY <1>1, <1>2 DEF SideBlocks
  <1>5. SideBlocks(b, tip) \in [1..n -> Message]
    BY <1>3, <1>4
  <1>6. PICK blocks \in Seq(Message) :
            /\ blocks = SideBlocks(b, tip) /\ Len(blocks) = n
            /\ \A i \in 1..n : blocks[i] = BlockMsg(branch[i])
    BY <1>4, <1>5, FunctionIsSeq
  <1>7. PICK m \in Message : m = BranchTips(tip, b)
    BY DEF Message
  <1>8. PICK msgs \in Seq(Message) :
            /\ msgs = blocks \o <<m>> /\ Len(msgs) = n + 1 /\ msgs[n + 1] = m
            /\ \A i \in 1..n : msgs[i] = BlockMsg(branch[i])
    <2>1. /\ blocks \o <<m>> \in Seq(Message) /\ Len(blocks \o <<m>>) = n + 1
          /\ (blocks \o <<m>>)[n + 1] = m
          /\ \A i \in 1..n : (blocks \o <<m>>)[i] = blocks[i]
      BY <1>6, SeqAndOne
    <2> QED
      BY <1>6, <2>1
  <1> DEFINE path == [i \in 0..(n + 1) |-> IF i = n + 1 THEN b ELSE tip]
  <1>9. /\ path \in [0..Len(msgs) -> Block] /\ path[0] = tip /\ path[Len(msgs)] = b
        /\ \A i \in 0..n : path[i] = tip
    BY <1>2, <1>8
  <1> HIDE DEF path
  <1>10. ASSUME NEW i \in 1..Len(msgs) PROVE Moves(path[i - 1], msgs[i], path[i])
    <2>1. CASE i = n + 1
      <3>1. path[i - 1] = tip /\ path[i] = b /\ msgs[i] = m
        BY <1>8, <1>9, <2>1
      <3>2. m.type = "reorg" /\ m.old = tip /\ m.new = b
        BY <1>7 DEF BranchTips
      <3> QED
        BY <3>1, <3>2 DEF Moves
    <2>2. CASE i # n + 1
      <3>1. i \in 1..n /\ path[i - 1] = tip /\ path[i] = tip
        BY <1>8, <1>9, <2>2
      <3>2. msgs[i] = BlockMsg(branch[i]) /\ branch[i] # Genesis /\ Parent(branch[i]) # tip
        BY <1>1, <1>2, <1>8, <3>1
      <3>3. BlockMsg(branch[i]).type = "block" /\ BlockMsg(branch[i]).b = branch[i]
        BY DEF BlockMsg
      <3> QED
        BY <3>1, <3>2, <3>3 DEF Moves
    <2> QED
      BY <2>1, <2>2
  <1>11. Leads(tip, b, msgs)
    BY <1>9, <1>10 DEF Leads
  <1> QED
    BY <1>6, <1>7, <1>8, <1>11

\* A message that moves from p to q leads there on its own.
LEMMA OneLeads ==
    ASSUME NEW p \in Block, NEW q \in Block, NEW m, Moves(p, m, q)
    PROVE  Leads(p, q, <<m>>)
  <1> DEFINE path == [i \in 0..1 |-> IF i = 0 THEN p ELSE q]
  <1>1. path \in [0..1 -> Block] /\ path[0] = p /\ path[1] = q
    OBVIOUS
  <1>2. Len(<<m>>) = 1 /\ <<m>>[1] = m
    OBVIOUS
  <1> HIDE DEF path
  <1>3. \A i \in 1..1 : i = 1 /\ i - 1 = 0
    OBVIOUS
  <1> QED
    BY <1>1, <1>2, <1>3 DEF Leads

\* One list of messages after another.
LEMMA BothLead ==
    ASSUME NEW p, NEW q, NEW r, NEW s \in Seq(Message), NEW t \in Seq(Message),
           Leads(p, q, s), Leads(q, r, t)
    PROVE  Leads(p, r, s \o t)
  <1>1. PICK f \in [0..Len(s) -> Block] :
            /\ f[0] = p /\ f[Len(s)] = q
            /\ \A i \in 1..Len(s) : Moves(f[i - 1], s[i], f[i])
    BY DEF Leads
  <1>2. PICK g2 \in [0..Len(t) -> Block] :
            /\ g2[0] = q /\ g2[Len(t)] = r
            /\ \A i \in 1..Len(t) : Moves(g2[i - 1], t[i], g2[i])
    BY DEF Leads
  <1>3. PICK m \in Nat, n \in Nat : m = Len(s) /\ n = Len(t)
    OBVIOUS
  <1>4. PICK u \in Seq(Message) :
            /\ u = s \o t /\ Len(u) = m + n
            /\ \A i \in 1..m : u[i] = s[i]
            /\ \A i \in 1..n : u[m + i] = t[i]
    <2>1. /\ s \o t \in Seq(Message) /\ Len(s \o t) = m + n
          /\ \A i \in 1..m : (s \o t)[i] = s[i]
      BY <1>3
    <2>2. ASSUME NEW i \in 1..n PROVE (s \o t)[m + i] = t[i]
      BY <1>3
    <2> QED
      BY <2>1, <2>2
  <1> DEFINE path == [i \in 0..(m + n) |-> IF i <= m THEN f[i] ELSE g2[i - m]]
  <1>5. path \in [0..(m + n) -> Block]
    <2>1. \A i \in 0..(m + n) : IF i <= m THEN i \in 0..m ELSE i - m \in 0..n
      BY <1>3
    <2> QED
      BY <1>1, <1>2, <1>3, <2>1
  <1>6. \A i \in 0..m : path[i] = f[i]
    BY <1>3
  <1>7. ASSUME NEW i \in 0..n PROVE path[m + i] = g2[i]
    <2>1. m + i \in 0..(m + n) /\ (m + i <= m <=> i = 0) /\ (m + i) - m = i
      BY <1>3
    <2> QED
      BY <1>1, <1>2, <1>3, <2>1
  <1> HIDE DEF path
  <1>8. path[0] = p /\ path[m + n] = r
    BY <1>1, <1>2, <1>3, <1>6, <1>7
  <1>9. ASSUME NEW i \in 1..(m + n) PROVE Moves(path[i - 1], u[i], path[i])
    <2>1. CASE i <= m
      <3>1. i \in 1..m /\ i \in 0..m /\ i - 1 \in 0..m
        BY <1>3, <2>1
      <3> QED
        BY <1>1, <1>3, <1>4, <1>6, <3>1
    <2>2. CASE ~(i <= m)
      <3>1. PICK j \in 1..n : i = m + j
        <4>1. i - m \in 1..n /\ i = m + (i - m)
          BY <1>3, <2>2
        <4> QED
          BY <4>1
      <3>2. j \in 0..n /\ j - 1 \in 0..n /\ i - 1 = m + (j - 1)
        BY <1>3, <3>1
      <3>3. path[i] = g2[j] /\ path[i - 1] = g2[j - 1] /\ u[i] = t[j]
        BY <1>4, <1>7, <3>1, <3>2
      <3> QED
        BY <1>2, <1>3, <3>1, <3>3
    <2> QED
      BY <2>1, <2>2
  <1>10. Leads(p, r, u)
    BY <1>4, <1>5, <1>8, <1>9 DEF Leads
  <1> QED
    BY <1>4, <1>10

\* The first message leads to where the others start.
LEMMA HeadLeads ==
    ASSUME NEW p, NEW q, NEW s \in Seq(Message), s # <<>>, Leads(p, q, s)
    PROVE  \E r \in Block : p \in Block /\ Moves(p, Head(s), r) /\ Leads(r, q, Tail(s))
  <1>1. PICK f \in [0..Len(s) -> Block] :
            /\ f[0] = p /\ f[Len(s)] = q
            /\ \A i \in 1..Len(s) : Moves(f[i - 1], s[i], f[i])
    BY DEF Leads
  <1>2. PICK n \in Nat : n + 1 = Len(s)
    <2>1. Len(s) \in Nat /\ Len(s) # 0
      OBVIOUS
    <2>2. Len(s) - 1 \in Nat /\ (Len(s) - 1) + 1 = Len(s)
      BY <2>1
    <2> QED
      BY <2>2
  <1>3. PICK u \in Seq(Message) :
            u = Tail(s) /\ Len(u) = n /\ \A i \in 1..n : u[i] = s[i + 1]
    BY <1>2
  <1> DEFINE path == [i \in 0..n |-> f[i + 1]]
  <1>4. path \in [0..n -> Block] /\ \A i \in 0..n : path[i] = f[i + 1]
    <2>1. \A i \in 0..n : i + 1 \in 0..Len(s)
      BY <1>2
    <2> QED
      BY <1>1, <2>1
  <1> HIDE DEF path
  <1>5. ASSUME NEW i \in 1..n PROVE Moves(path[i - 1], u[i], path[i])
    <2>1. i \in 0..n /\ i - 1 \in 0..n /\ (i - 1) + 1 = i /\ i + 1 \in 1..Len(s) /\ (i + 1) - 1 = i
      BY <1>2
    <2> QED
      BY <1>1, <1>3, <1>4, <2>1
  <1>6. path[0] = f[1] /\ path[n] = q
    BY <1>1, <1>2, <1>4
  <1>7. Leads(f[1], q, u)
    BY <1>3, <1>4, <1>5, <1>6 DEF Leads
  <1>8. f[0] \in Block /\ f[1] \in Block /\ Moves(f[0], s[1], f[1])
    <2>1. 0 \in 0..Len(s) /\ 1 \in 0..Len(s) /\ 1 \in 1..Len(s) /\ 1 - 1 = 0
      BY <1>2
    <2> QED
      BY <1>1, <2>1
  <1>9. Head(s) = s[1]
    BY <1>2
  <1> QED
    BY <1>1, <1>3, <1>7, <1>8, <1>9

-------------------------------------------------------------------------------
(* GroupsInOrder.                                                           *)

\* What Announce puts on the wire.
LEMMA Announced ==
    ASSUME wire \in Seq(Message), NEW msgs \in Seq(Message), Announce(msgs)
    PROVE  wire' \in Seq(Message) /\ (listening => wire' = wire \o msgs)
  BY ConcatProperties DEF Announce

\* The node's steps put messages on the wire.
LEMMA NodeSteps ==
    ASSUME OrderInv, NEW b \in Block, NodeExtends(b) \/ NodeReorganizes(b) \/ NodeAcceptsTx
    PROVE  \E msgs \in Seq(Message) :
              /\ Announce(msgs) /\ Leads(nodeTip, nodeTip', msgs) /\ nodeTip' \in Block
              /\ UNCHANGED <<listening, anyQ, cur, grp, running, previous, applied>>
  <1>1. nodeTip \in Block
    BY DEF OrderInv, TypeOK
  <1>2. CASE NodeExtends(b)
    <2>1. PICK m \in Message : m = BlockMsg(b)
      BY DEF Message
    <2>2. Moves(nodeTip, m, b)
      BY <1>2, <2>1 DEF NodeExtends, Moves, BlockMsg
    <2>3. <<m>> \in Seq(Message) /\ Leads(nodeTip, b, <<m>>)
      BY <1>1, <2>2, OneLeads
    <2> QED
      BY <1>2, <2>1, <2>3 DEF NodeExtends
  <1>3. CASE NodeReorganizes(b)
    <2>1. ~IsAncestor(b, nodeTip) /\ ~IsAncestor(nodeTip, b) /\ nodeTip' = b
      BY <1>3 DEF NodeReorganizes
    <2>2. PICK msgs \in Seq(Message) :
              /\ msgs = SideBlocks(b, nodeTip) \o <<BranchTips(nodeTip, b)>>
              /\ Leads(nodeTip, b, msgs)
      BY <1>1, <2>1, SideBlocksLead
    <2>3. Announce(SideBlocks(b, nodeTip) \o <<BranchTips(nodeTip, b)>>)
      BY <1>3 DEF NodeReorganizes, SideBlocks, SideBranch
    <2> QED
      BY <1>3, <2>1, <2>2, <2>3 DEF NodeReorganizes
  <1>4. CASE NodeAcceptsTx
    <2>1. PICK m \in Message : m = TxMsg
      BY DEF Message
    <2>2. Moves(nodeTip, m, nodeTip)
      BY <2>1 DEF Moves, TxMsg
    <2>3. <<m>> \in Seq(Message) /\ Leads(nodeTip, nodeTip, <<m>>)
      BY <1>1, <2>2, OneLeads
    <2> QED
      BY <1>1, <1>4, <2>1, <2>3 DEF NodeAcceptsTx
  <1> QED
    BY <1>2, <1>3, <1>4

\* The node's steps leave the handlers alone.
LEMMA NodeOrder ==
    ASSUME OrderInv, NEW b \in Block, NodeExtends(b) \/ NodeReorganizes(b) \/ NodeAcceptsTx
    PROVE  OrderInv'
  <1>1. PICK msgs \in Seq(Message) :
            /\ Announce(msgs) /\ nodeTip' \in Block
            /\ UNCHANGED <<listening, anyQ, cur, grp, running, previous, applied>>
    BY NodeSteps
  <1>2. wire' \in Seq(Message)
    BY <1>1, Announced DEF OrderInv, TypeOK
  <1> QED
    BY <1>1, <1>2, FeedOrder DEF OrderInv, TypeOK

\* A callback moves a message from the wire to the queue.
LEMMA CallbackOrder ==
    ASSUME OrderInv, OnNotification
    PROVE  /\ OrderInv' /\ anyQ' \o wire' = anyQ \o wire
           /\ UNCHANGED <<nodeTip, listening, cur, grp, running, previous, applied>>
  <1>1. wire \in Seq(Message) /\ anyQ \in Seq(Message) /\ wire # <<>>
        /\ anyQ' = Append(anyQ, Head(wire)) /\ wire' = Tail(wire)
        /\ UNCHANGED <<nodeTip, listening, cur, grp, running, previous, applied>>
    BY DEF OrderInv, TypeOK, OnNotification
  <1>2. ASSUME NEW s \in Seq(Message), NEW t \in Seq(Message), t # <<>>
        PROVE  /\ Append(s, Head(t)) \in Seq(Message) /\ Tail(t) \in Seq(Message)
               /\ Append(s, Head(t)) \o Tail(t) = s \o t
    <2>1. Head(t) \in Message /\ Tail(t) \in Seq(Message) /\ Append(s, Head(t)) \in Seq(Message)
      BY <1>2
    <2>2. Len(t) \in Nat /\ Len(t) # 0 /\ Len(s) \in Nat
      BY <1>2
    <2>3. PICK u \in Seq(Message) : u = Append(s, Head(t)) \o Tail(t)
      BY <2>1, ConcatProperties
    <2>4. PICK v \in Seq(Message) : v = s \o t
      BY ConcatProperties
    <2>5. Len(u) = Len(s) + Len(t) /\ Len(v) = Len(s) + Len(t)
      BY <2>1, <2>2, <2>3, <2>4
    <2>6. ASSUME NEW i \in 1..Len(u) PROVE u[i] = v[i]
      <3>1. CASE i <= Len(s)
        BY <2>1, <2>2, <2>3, <2>4, <2>5, <3>1
      <3>2. CASE i = Len(s) + 1
        BY <2>1, <2>2, <2>3, <2>4, <2>5, <3>2
      <3>3. CASE i > Len(s) + 1
        BY <2>1, <2>2, <2>3, <2>4, <2>5, <3>3
      <3> QED
        BY <2>2, <2>5, <3>1, <3>2, <3>3
    <2>7. u = v
      BY <2>5, <2>6, SeqEqual
    <2> QED
      BY <2>1, <2>3, <2>4, <2>7
  <1>3. anyQ' \in Seq(Message) /\ wire' \in Seq(Message) /\ anyQ' \o wire' = anyQ \o wire
    BY <1>1, <1>2
  <1> QED
    BY <1>1, <1>3, FeedOrder DEF OrderInv, TypeOK

\* superQueue takes one message, which it drops, begins or asks the node about.
LEMMA SuperQueueOrder ==
    ASSUME OrderInv, superQueue
    PROVE  OrderInv' /\ cur = NoMsg /\ anyQ # <<>>
  <1>1. cur = NoMsg /\ anyQ # <<>>
    BY DEF superQueue
  <1>2. Begin(Head(anyQ)) \/ Drop \/ signalReorg(Head(anyQ))
    BY DEF superQueue, processBlock, processTx
  <1> QED
    BY <1>1, <1>2, BeginOrder, DropOrder, ReorgOrder

\* A handler that returns is one of the current group.
LEMMA ReturnOrder ==
    ASSUME OrderInv, AnyHandlerReturns
    PROVE  /\ OrderInv' /\ cur # NoMsg
           /\ \E h \in Groups(cur)[grp] : <<h, cur>> \in running /\ HandlerReturns(h, cur)
  <1>1. PICK r \in running : HandlerReturns(r[1], r[2])
    BY DEF AnyHandlerReturns
  <1>2. cur # NoMsg /\ r[2] = cur /\ r[1] \in Groups(cur)[grp] /\ <<r[1], cur>> \in running
    BY <1>1 DEF OrderInv, Goroutines
  <1>3. running' \subseteq running /\ UNCHANGED <<nodeTip, wire, anyQ, cur, grp, previous>>
    BY <1>1 DEF HandlerReturns
  <1>4. OrderInv'
    BY <1>2, <1>3 DEF OrderInv, TypeOK, Goroutines
  <1> QED
    BY <1>1, <1>2, <1>4

\* Every step keeps the groups in order as long as the deadline is kept.
LEMMA NextOrder == ASSUME DeadlineMayPass = FALSE, OrderInv, [Next]_vars PROVE OrderInv'
  <1>1. ASSUME NEW b \in Block, NodeExtends(b) \/ NodeReorganizes(b) PROVE OrderInv'
    BY <1>1, NodeOrder
  <1>2. CASE NodeAcceptsTx
    BY <1>2, NodeOrder, TreeAssumption
  <1>3. CASE Listen
    BY <1>3, FeedOrder DEF Listen, OrderInv, TypeOK
  <1>4. CASE OnNotification
    BY <1>4, CallbackOrder
  <1>5. CASE superQueue
    BY <1>5, SuperQueueOrder
  <1>6. CASE GroupDone
    BY <1>6, GroupDoneOrder
  <1>7. CASE AnyHandlerReturns
    BY <1>7, ReturnOrder
  <1>8. CASE UNCHANGED vars
    BY <1>8 DEF vars, OrderInv, TypeOK, Goroutines
  <1>9. CASE CommonAncestor
    BY <1>9, AncestorOrder
  <1> QED
    BY <1>1, <1>2, <1>3, <1>4, <1>5, <1>6, <1>7, <1>8, <1>9 DEF Next, Deadline

\* The invariant says what the property says.
LEMMA OrderIsOrder == OrderInv => GroupsInOrder
  BY DEF OrderInv, Goroutines, GroupsInOrder

\* processBlock, signalReorg and processTx run one message at a time and one group
\* after the other while no handler outlasts SyncHandlerDeadline.
THEOREM GroupsSequential ==
    ASSUME DeadlineMayPass = FALSE
    PROVE  Spec => []GroupsInOrder
  <1>1. OrderInv /\ [Next]_vars => OrderInv'
    BY NextOrder
  <1> QED
    BY <1>1, InitOrder, OrderIsOrder, PTL DEF Spec

\* The same for the behaviours the model checker explores: those with faults do not
\* disturb those without.
THEOREM GroupsSequentialMC ==
    ASSUME DeadlineMayPass = FALSE
    PROVE  MCSpec => []GroupsAreInOrder
  <1> DEFINE J == faults \in BOOLEAN /\ (~faults => OrderInv)
  <1>1. MCInit => J
    BY InitOrder DEF MCInit
  <1>2. J /\ [SoundStep \/ FaultyStep]_<<faults, vars>> => J'
    <2>1. SUFFICES ASSUME J, [SoundStep \/ FaultyStep]_<<faults, vars>> PROVE J'
      OBVIOUS
    <2>2. faults' = faults /\ (~faults => [Next]_vars)
      BY <2>1 DEF SoundStep, FaultyStep
    <2> QED
      BY <2>1, <2>2, NextOrder
  <1>3. J => GroupsAreInOrder
    BY OrderIsOrder DEF GroupsAreInOrder
  <1> QED
    BY <1>1, <1>2, <1>3, PTL DEF MCSpec

-------------------------------------------------------------------------------
(* FollowersAgree.                                                          *)

\* The switches of a run in which nothing fails.
Undisturbed == ~DeadlineMayPass /\ ~HandlerMayFail /\ ~RpcMayFail /\ ~LateListen

\* Without a message superQueue is at the previous block.
LEMMA DueIdle == ASSUME cur = NoMsg PROVE Due = previous /\ Current
  BY DEF Due, NoMsg, Current

\* The block due is a block.
LEMMA DueType == ASSUME OrderInv PROVE Due \in Block
  <1>1. cur = NoMsg \/ cur \in Message
    BY DEF OrderInv, TypeOK
  <1> QED
    BY <1>1, DueIdle, Kinds DEF OrderInv, TypeOK, Due

\* After main.go's start the followers are at the previous block.
LEMMA InitLevel == ASSUME Undisturbed, Init PROVE LevelInv
  <1>1. /\ nodeTip \in Block /\ previous = nodeTip /\ listening = TRUE
        /\ wire = <<>> /\ anyQ = <<>> /\ cur = NoMsg
        /\ applied = [h \in Follower |-> Chain[nodeTip]]
    BY DEF Init, Undisturbed
  <1>2. OrderInv
    BY InitOrder
  <1>3. Due = previous /\ Current
    BY <1>1, DueIdle
  <1>4. Pending
    <2> DEFINE path == [i \in 0..0 |-> nodeTip]
    <2>1. anyQ \o wire = <<>> /\ Len(anyQ \o wire) = 0
      BY <1>1
    <2>2. path \in [0..0 -> Block] /\ path[0] = nodeTip
      BY <1>1
    <2> HIDE DEF path
    <2>3. \A i \in 1..0 : FALSE
      OBVIOUS
    <2>4. Leads(nodeTip, nodeTip, anyQ \o wire)
      BY <2>1, <2>2, <2>3 DEF Leads
    <2> QED
      BY <1>1, <1>3, <2>4 DEF Pending
  <1>5. Progress
    BY <1>1, <1>3, TreeAssumption DEF Progress
  <1> QED
    BY <1>1, <1>2, <1>3, <1>4, <1>5 DEF LevelInv

\* Nothing superQueue or a follower holds has changed.
LEMMA SameFollowers ==
    ASSUME Current, Progress, UNCHANGED <<cur, grp, running, previous, applied>>
    PROVE  Current' /\ Progress' /\ Due' = Due
  BY DEF Current, Progress, Due, Waiting

\* The node announces what leads from its old best block to the new one.
LEMMA NodeLevel ==
    ASSUME LevelInv, NEW b \in Block, NodeExtends(b) \/ NodeReorganizes(b) \/ NodeAcceptsTx
    PROVE  LevelInv'
  <1>1. PICK msgs \in Seq(Message) :
            /\ Announce(msgs) /\ Leads(nodeTip, nodeTip', msgs)
            /\ UNCHANGED <<listening, anyQ, cur, grp, running, previous, applied>>
    BY NodeSteps DEF LevelInv
  <1>2. OrderInv'
    BY NodeOrder DEF LevelInv
  <1>3. Current' /\ Progress' /\ Due' = Due
    BY <1>1, SameFollowers DEF LevelInv
  <1>4. wire \in Seq(Message) /\ anyQ \in Seq(Message) /\ wire' = wire \o msgs
    BY <1>1, Announced DEF LevelInv, OrderInv, TypeOK
  <1>5. anyQ \o wire \in Seq(Message)
    BY <1>4, ConcatProperties
  <1>6. Leads(Due, nodeTip', (anyQ \o wire) \o msgs)
    BY <1>1, <1>5, BothLead DEF LevelInv, Pending
  <1>7. (anyQ \o wire) \o msgs = anyQ \o (wire \o msgs)
    BY <1>4, ConcatAssociative
  <1>8. Pending'
    BY <1>1, <1>3, <1>4, <1>6, <1>7 DEF Pending
  <1> QED
    BY <1>1, <1>2, <1>3, <1>8 DEF LevelInv

\* A callback only moves a message along.
LEMMA CallbackLevel == ASSUME LevelInv, OnNotification PROVE LevelInv'
  <1>1. /\ OrderInv' /\ anyQ' \o wire' = anyQ \o wire
        /\ UNCHANGED <<nodeTip, listening, cur, grp, running, previous, applied>>
    BY CallbackOrder DEF LevelInv
  <1>2. Current' /\ Progress' /\ Due' = Due
    BY <1>1, SameFollowers DEF LevelInv
  <1> QED
    BY <1>1, <1>2 DEF LevelInv, Pending

\* What the first message of the queue does to superQueue.
LEMMA FirstMessage ==
    ASSUME LevelInv, cur = NoMsg, anyQ # <<>>
    PROVE  /\ Head(anyQ) \in Message
           /\ \E q \in Block : Moves(previous, Head(anyQ), q) /\ Leads(q, nodeTip, Tail(anyQ) \o wire)
  <1>1. wire \in Seq(Message) /\ anyQ \in Seq(Message)
    BY DEF LevelInv, OrderInv, TypeOK
  <1>2. PICK s \in Seq(Message) : s = anyQ \o wire
    BY <1>1, ConcatProperties
  <1>3. s # <<>> /\ Head(s) = Head(anyQ) /\ Tail(s) = Tail(anyQ) \o wire
    <2>1. Len(anyQ) \in Nat /\ Len(anyQ) # 0 /\ Len(wire) \in Nat
      BY <1>1
    <2>2. Len(s) = Len(anyQ) + Len(wire) /\ s[1] = anyQ[1]
      BY <1>1, <1>2, <2>1
    <2>3. s # <<>> /\ Head(s) = Head(anyQ)
      BY <1>1, <2>1, <2>2
    <2>4. Tail(anyQ) \in Seq(Message) /\ Tail(s) \in Seq(Message)
      BY <1>1, <2>3
    <2>5. PICK u \in Seq(Message) : u = Tail(anyQ) \o wire
      BY <1>1, <2>4, ConcatProperties
    <2>6. PICK v \in Seq(Message) : v = Tail(s)
      BY <2>4
    <2>7. Len(u) = Len(anyQ) + Len(wire) - 1 /\ Len(v) = Len(anyQ) + Len(wire) - 1
      BY <1>1, <2>1, <2>2, <2>3, <2>4, <2>5, <2>6
    <2>8. ASSUME NEW i \in 1..Len(v) PROVE v[i] = u[i]
      <3>1. i + 1 \in 1..Len(s) /\ v[i] = s[i + 1]
        BY <2>1, <2>2, <2>6, <2>7
      <3>2. CASE i <= Len(anyQ) - 1
        BY <1>1, <1>2, <2>1, <2>4, <2>5, <2>7, <3>1, <3>2
      <3>3. CASE i > Len(anyQ) - 1
        BY <1>1, <1>2, <2>1, <2>4, <2>5, <2>7, <3>1, <3>3
      <3> QED
        BY <2>1, <2>7, <3>2, <3>3
    <2>9. v = u
      BY <2>7, <2>8, SeqEqual
    <2> QED
      BY <2>3, <2>5, <2>6, <2>9
  <1>4. Leads(previous, nodeTip, s)
    BY <1>2, DueIdle DEF LevelInv, Pending
  <1>5. \E q \in Block : Moves(previous, Head(s), q) /\ Leads(q, nodeTip, Tail(s))
    BY <1>3, <1>4, HeadLeads
  <1>6. Head(anyQ) \in Message
    BY <1>1
  <1> QED
    BY <1>3, <1>5, <1>6

\* A message taken: every follower is still at the previous block.
LEMMA TakenLevel ==
    ASSUME LevelInv, cur = NoMsg, anyQ # <<>>, NEW m, m = Head(anyQ),
           OrderInv', m \in Message, cur' = m, anyQ' = Tail(anyQ),
           grp' = 0 \/ (grp' = 1 /\ running' = Run(m, 1)),
           UNCHANGED <<nodeTip, listening, wire, previous, applied>>,
           m.type = "block" => Parent(m.b) = previous
    PROVE  LevelInv'
  <1>1. /\ OrderInv' /\ m \in Message /\ cur' = m
        /\ anyQ' = Tail(anyQ) /\ UNCHANGED <<nodeTip, listening, wire, previous, applied>>
    OBVIOUS
  <1>2. PICK q \in Block : Moves(previous, m, q) /\ Leads(q, nodeTip, Tail(anyQ) \o wire)
    BY FirstMessage
  <1>3. Due' = q /\ Current'
    BY <1>1, <1>2, Kinds DEF Due, Current, Moves
  <1>4. Pending'
    BY <1>1, <1>2, <1>3 DEF Pending
  <1>5. Progress'
    <2>1. \A h \in Follower : applied[h] = Chain[previous]
      BY DueIdle DEF LevelInv, Progress
    <2>2. m # NoMsg /\ 1 \in 1..Len(Groups(m)) /\ Len(Groups(m)) \in Nat
      BY <1>1, Kinds
    <2>3. ASSUME NEW h \in Follower, m.type # "tx" PROVE Waiting(h)'
      <3>1. PICK i \in 1..Len(Groups(m)) :
               \A j \in 1..Len(Groups(m)) : h \in Groups(m)[j] <=> j = i
        BY <1>1, <2>3, OneGroup
      <3>2. h \in Groups(m)[i] /\ i > 0 /\ (i > 1 \/ i = 1)
        BY <2>2, <3>1
      <3>3. i = 1 => <<h, m>> \in Run(m, 1)
        BY <3>2 DEF Run
      <3>4. i > grp' \/ (i = grp' /\ <<h, m>> \in running')
        BY <3>2, <3>3
      <3> QED
        BY <1>1, <3>2, <3>4 DEF Waiting
    <2>4. m.type = "tx" => q = previous
      BY <1>2 DEF Moves
    <2>5. ASSUME NEW h \in Follower
          PROVE  applied'[h] = Chain[IF cur' # NoMsg /\ Waiting(h)' THEN previous' ELSE Due']
      <3>1. CASE m.type = "tx"
        BY <1>1, <1>3, <2>1, <2>4, <3>1
      <3>2. CASE m.type # "tx"
        BY <1>1, <2>1, <2>2, <2>3, <3>2
      <3> QED
        BY <3>1, <3>2
    <2> QED
      BY <1>1, <2>5 DEF LevelInv, Progress
  <1> QED
    BY <1>1, <1>3, <1>4, <1>5 DEF LevelInv

\* superQueue takes the next message.
LEMMA SuperQueueLevel == ASSUME Undisturbed, LevelInv, superQueue PROVE LevelInv'
  <1> DEFINE m == Head(anyQ)
  <1>1. cur = NoMsg /\ anyQ # <<>> /\ OrderInv
    BY DEF superQueue, LevelInv
  <1>2. PICK q \in Block : Moves(previous, m, q) /\ Leads(q, nodeTip, Tail(anyQ) \o wire)
    BY <1>1, FirstMessage
  <1>3. CASE Begin(m) /\ (m.type = "block" => Parent(m.b) = previous)
    BY <1>1, <1>3, BeginOrder, TakenLevel
  <1>5. CASE signalReorg(m)
    <2>1. m.type # "block"
      BY <1>5 DEF signalReorg
    <2> QED
      BY <1>1, <1>5, <2>1, ReorgOrder, TakenLevel
  <1>4. CASE Drop /\ m.type = "block" /\ Parent(m.b) # previous
    <2>1. OrderInv' /\ anyQ' = Tail(anyQ)
          /\ UNCHANGED <<nodeTip, listening, wire, cur, grp, running, previous, applied>>
      BY <1>1, <1>4, DropOrder
    <2>2. q = previous
      BY <1>2, <1>4 DEF Moves
    <2>3. Current' /\ Progress' /\ Due' = Due /\ Due = previous
      BY <1>1, <2>1, SameFollowers, DueIdle DEF LevelInv
    <2>4. Pending'
      BY <1>2, <2>1, <2>2, <2>3 DEF Pending
    <2> QED
      BY <2>1, <2>3, <2>4 DEF LevelInv
  <1> QED
    BY <1>3, <1>4, <1>5 DEF superQueue, processBlock, processTx

\* What a follower's handler does with a message brings it to the block due.
LEMMA FollowReachesDue ==
    ASSUME OrderInv, Current, cur # NoMsg
    PROVE  Follow(Chain[previous], cur) = Chain[Due]
  <1>1. cur \in Message /\ previous \in Block
    BY DEF OrderInv, TypeOK
  <1>2. CASE cur.type = "block"
    BY <1>1, <1>2, Kinds, ParentBelow DEF Follow, Due, Current
  <1>3. CASE cur.type = "reorg"
    <2>1. PICK a \in Block, b \in Block : a = cur.old /\ b = cur.new /\ a = previous
      BY <1>1, <1>3, Kinds DEF Current
    <2>2. PICK f \in 0..HeightOf(a) : /\ f = ForkHeight(a, b) /\ f \in 0..HeightOf(b)
                                      /\ At(a, f) = At(b, f)
      BY ForkIsShared
    <2>3. SubSeq(Chain[a], 1, f) = SubSeq(Chain[b], 1, f)
      BY <2>2, BranchPrefix
    <2>4. Chain[b] \in Seq(Block) /\ Len(Chain[b]) = HeightOf(b) /\ HeightOf(b) \in Nat
      BY TreeAssumption DEF HeightOf
    <2>6. SubSeq(Chain[b], 1, f) \o SubSeq(Chain[b], f + 1, HeightOf(b)) = Chain[b]
      BY <2>2, <2>4, SplitSeq
    <2>7. Follow(Chain[a], cur) = SubSeq(Chain[a], 1, f) \o SubSeq(Chain[b], f + 1, HeightOf(b))
      BY <1>3, <2>1, <2>2 DEF Follow
    <2> QED
      BY <1>3, <2>1, <2>3, <2>6, <2>7 DEF Due
  <1>4. CASE cur.type = "tx"
    BY <1>4 DEF Follow, Due
  <1> QED
    BY <1>1, <1>2, <1>3, <1>4, Kinds

\* A handler returns: its follower, if it has one, is at the block due.
LEMMA ReturnLevel == ASSUME Undisturbed, LevelInv, AnyHandlerReturns PROVE LevelInv'
  <1>1. OrderInv' /\ cur # NoMsg /\ OrderInv
    BY ReturnOrder DEF LevelInv
  <1>2. PICK h \in Groups(cur)[grp] : <<h, cur>> \in running /\ HandlerReturns(h, cur)
    BY ReturnOrder DEF LevelInv
  <1>3. /\ running' = running \ {<<h, cur>>}
        /\ UNCHANGED <<nodeTip, listening, wire, anyQ, cur, grp, previous>>
    BY <1>2 DEF HandlerReturns
  <1>4. cur \in Message /\ grp \in 1..Len(Groups(cur)) /\ previous \in Block
    <2>1. grp # 0
      BY <1>1, <1>2 DEF OrderInv, Goroutines
    <2> QED
      BY <1>1, <2>1 DEF OrderInv, TypeOK, Goroutines
  <1>5. Due' = Due /\ Current' /\ Pending'
    BY <1>3 DEF LevelInv, Due, Current, Pending
  <1>6. Due \in Block /\ applied \in [Follower -> Seq(Block)]
    BY <1>1, DueType DEF LevelInv, Progress
  <1>7. ASSUME NEW k \in Follower, k # h
        PROVE  applied'[k] = applied[k] /\ (Waiting(k)' <=> Waiting(k))
    <2>1. applied'[k] = applied[k]
      BY <1>2, <1>6, <1>7 DEF HandlerReturns
    <2>2. <<k, cur>> \in running' <=> <<k, cur>> \in running
      BY <1>3, <1>7
    <2> QED
      BY <1>3, <2>1, <2>2 DEF Waiting
  <1>8. ASSUME h \in Follower
        PROVE  applied'[h] = Chain[IF Waiting(h)' THEN previous ELSE Due]
    <2>1. Waiting(h)
      BY <1>2, <1>4 DEF Waiting
    <2>2. applied[h] = Chain[previous]
      BY <1>1, <1>8, <2>1 DEF LevelInv, Progress
    <2>3. applied'[h] = Follow(applied[h], cur)
      BY <1>2, <1>6, <1>8 DEF HandlerReturns, Undisturbed
    <2>4. applied'[h] = Chain[Due]
      BY <1>1, <2>2, <2>3, FollowReachesDue DEF LevelInv
    <2>5. CASE cur.type = "tx"
      <3>1. Due = previous
        BY <2>5 DEF Due
      <3> QED
        BY <2>4, <3>1
    <2>6. CASE cur.type # "tx"
      <3>1. PICK i \in 1..Len(Groups(cur)) :
               \A j \in 1..Len(Groups(cur)) : h \in Groups(cur)[j] <=> j = i
        BY <1>4, <1>8, <2>6, OneGroup
      <3>2. i = grp /\ ~(grp > grp)
        BY <1>2, <1>4, <3>1
      <3>3. ~Waiting(h)'
        BY <1>3, <3>1, <3>2 DEF Waiting
      <3> QED
        BY <2>4, <3>3
    <2> QED
      BY <2>5, <2>6
  <1>9. applied' \in [Follower -> Seq(Block)]
    <2>1. CASE h \in Follower
      <3>1. applied' = [applied EXCEPT ![h] = Follow(@, cur)]
        BY <1>2, <2>1 DEF HandlerReturns, Undisturbed
      <3>2. applied'[h] \in Seq(Block)
        BY <1>4, <1>6, <1>8, <2>1, TreeAssumption
      <3> QED
        BY <1>6, <2>1, <3>1, <3>2
    <2>2. CASE h \notin Follower
      BY <1>2, <1>6, <2>2 DEF HandlerReturns
    <2> QED
      BY <2>1, <2>2
  <1>10. Progress'
    <2>1. ASSUME NEW k \in Follower
          PROVE  applied'[k] = Chain[IF cur' # NoMsg /\ Waiting(k)' THEN previous' ELSE Due']
      <3>1. CASE k = h
        BY <1>1, <1>3, <1>5, <1>8, <3>1
      <3>2. CASE k # h
        <4>1. applied[k] = Chain[IF Waiting(k) THEN previous ELSE Due]
          BY <1>1 DEF LevelInv, Progress
        <4> QED
          BY <1>1, <1>3, <1>5, <1>7, <3>2, <4>1
      <3> QED
        BY <3>1, <3>2
    <2> QED
      BY <1>9, <2>1 DEF Progress
  <1> QED
    BY <1>1, <1>3, <1>5, <1>10 DEF LevelInv

\* The next group waits in full.
LEMMA NextGroupLevel ==
    ASSUME LevelInv, OrderInv', cur # NoMsg, running = {}, grp + 1 \in 1..Len(Groups(cur)),
           grp' = grp + 1, running' = Run(cur, grp + 1),
           UNCHANGED <<nodeTip, listening, wire, anyQ, cur, previous, applied>>
    PROVE  LevelInv'
  <1>1. cur \in Message /\ grp \in Nat
    BY DEF LevelInv, OrderInv, TypeOK
  <1>2. Due' = Due /\ Current' /\ Pending'
    BY DEF LevelInv, Due, Current, Pending
  <1>3. Len(Groups(cur)) \in Nat
    BY <1>1, Kinds
  <1>4. ASSUME NEW h \in Follower PROVE Waiting(h)' <=> Waiting(h)
    <2>1. ASSUME NEW i \in 1..Len(Groups(cur)), h \in Groups(cur)[i]
          PROVE  (i > grp + 1 \/ (i = grp + 1 /\ <<h, cur>> \in Run(cur, grp + 1)))
                   <=> (i > grp \/ (i = grp /\ <<h, cur>> \in running))
      <3>1. i = grp + 1 => <<h, cur>> \in Run(cur, grp + 1)
        BY <2>1 DEF Run
      <3>2. i > grp <=> (i > grp + 1 \/ i = grp + 1)
        BY <1>1
      <3> QED
        BY <1>1, <3>1, <3>2
    <2> QED
      BY <2>1 DEF Waiting
  <1>5. Progress'
    BY <1>2, <1>4 DEF LevelInv, Progress
  <1> QED
    BY <1>2, <1>5 DEF LevelInv

\* A group is done: the next one waits in full, or every follower is at the block due.
LEMMA GroupDoneLevel == ASSUME LevelInv, GroupDone PROVE LevelInv'
  <1>1. OrderInv' /\ OrderInv
    BY GroupDoneOrder DEF LevelInv
  <1>2. cur \in Message /\ cur # NoMsg /\ running = {} /\ grp \in 1..Len(Groups(cur))
    BY <1>1, NoneRunning DEF OrderInv, TypeOK, GroupDone, Goroutines
  <1>3. Len(Groups(cur)) \in Nat /\ UNCHANGED <<nodeTip, listening, wire, anyQ, applied>>
    BY <1>2, Kinds DEF GroupDone
  <1>4. CASE grp < Len(Groups(cur))
    <2>1. grp' = grp + 1 /\ running' = Run(cur, grp + 1) /\ UNCHANGED <<cur, previous>>
      BY <1>2, <1>4 DEF GroupDone
    <2>2. grp + 1 \in 1..Len(Groups(cur))
      BY <1>2, <1>3, <1>4
    <2> QED
      BY <1>1, <1>2, <1>3, <2>1, <2>2, NextGroupLevel
  <1>5. CASE ~(grp < Len(Groups(cur)))
    <2>1. cur' = NoMsg /\ SetPreviousBlock
      BY <1>2, <1>5 DEF GroupDone
    <2>2. previous' = Due
      BY <2>1 DEF SetPreviousBlock, Due
    <2>3. Due' = previous' /\ Current'
      BY <2>1 DEF Due, Current, NoMsg
    <2>4. Pending'
      BY <1>3, <2>2, <2>3 DEF LevelInv, Pending
    <2>5. ASSUME NEW h \in Follower PROVE ~Waiting(h)
      <3>1. \A i \in 1..Len(Groups(cur)) : ~(i > grp)
        BY <1>2, <1>3, <1>5
      <3> QED
        BY <1>2, <3>1 DEF Waiting
    <2>6. Progress'
      BY <1>3, <2>1, <2>2, <2>3, <2>5 DEF LevelInv, Progress
    <2> QED
      BY <1>1, <1>3, <2>3, <2>4, <2>6 DEF LevelInv
  <1> QED
    BY <1>4, <1>5

\* Every step keeps the followers in step with superQueue.
LEMMA NextLevel == ASSUME Undisturbed, LevelInv, [Next]_vars PROVE LevelInv'
  <1>1. ASSUME NEW b \in Block, NodeExtends(b) \/ NodeReorganizes(b) PROVE LevelInv'
    BY <1>1, NodeLevel
  <1>2. CASE NodeAcceptsTx
    BY <1>2, NodeLevel, TreeAssumption
  <1>3. CASE Listen
    BY <1>3 DEF Listen, LevelInv
  <1>4. CASE OnNotification
    BY <1>4, CallbackLevel
  <1>5. CASE superQueue
    BY <1>5, SuperQueueLevel
  <1>6. CASE GroupDone
    BY <1>6, GroupDoneLevel
  <1>7. CASE AnyHandlerReturns
    BY <1>7, ReturnLevel
  <1>9. CASE CommonAncestor
    BY <1>9, AncestorOrder, NextGroupLevel DEF LevelInv, Undisturbed
  <1>8. CASE UNCHANGED vars
    <2>1. UNCHANGED <<nodeTip, listening, wire, anyQ, cur, grp, running, previous, applied>>
      BY <1>8 DEF vars
    <2>2. OrderInv'
      BY <2>1 DEF LevelInv, OrderInv, TypeOK, Goroutines
    <2>3. Current' /\ Progress' /\ Due' = Due
      BY <2>1, SameFollowers DEF LevelInv
    <2> QED
      BY <2>1, <2>2, <2>3 DEF LevelInv, Pending
  <1> QED
    BY <1>1, <1>2, <1>3, <1>4, <1>5, <1>6, <1>7, <1>8, <1>9 DEF Next, Deadline, Undisturbed

\* The invariant says what the property says.
LEMMA LevelIsLevel == LevelInv => FollowersAgree
  BY DueIdle DEF LevelInv, Progress, FollowersAgree

\* When no handler fails or outlasts the deadline, CommonAncestor answers and Listen
\* is in time, the stake database and PostgreSQL have exactly the blocks up to the
\* previous one whenever superQueue takes a message, for every tree of blocks.
THEOREM FollowersLevel ==
    ASSUME Undisturbed
    PROVE  Spec => []FollowersAgree
  <1>1. Init => LevelInv
    BY InitLevel
  <1>2. LevelInv /\ [Next]_vars => LevelInv'
    BY NextLevel
  <1> QED
    BY <1>1, <1>2, LevelIsLevel, PTL DEF Spec

\* The same for the behaviours the model checker explores.
THEOREM FollowersLevelMC ==
    ASSUME Undisturbed
    PROVE  MCSpec => []FollowersAreLevel
  <1> DEFINE J == faults \in BOOLEAN /\ (~faults => LevelInv)
  <1>1. MCInit => J
    BY InitLevel DEF MCInit
  <1>2. J /\ [SoundStep \/ FaultyStep]_<<faults, vars>> => J'
    <2>1. SUFFICES ASSUME J, [SoundStep \/ FaultyStep]_<<faults, vars>> PROVE J'
      OBVIOUS
    <2>2. faults' = faults /\ (~faults => [Next]_vars)
      BY <2>1 DEF SoundStep, FaultyStep
    <2> QED
      BY <2>1, <2>2, NextLevel
  <1>3. J => FollowersAreLevel
    BY LevelIsLevel DEF FollowersAreLevel
  <1> QED
    BY <1>1, <1>2, <1>3, PTL DEF MCSpec

-------------------------------------------------------------------------------
(* Lemmas about sequences.                                                  *)

LEMMA TailOf ==
    ASSUME NEW S, NEW s \in Seq(S), s # <<>>
    PROVE  /\ Head(s) \in S /\ Tail(s) \in Seq(S) /\ Len(Tail(s)) = Len(s) - 1
           /\ Head(s) = s[1] /\ 1 \in DOMAIN s
           /\ \A i \in DOMAIN Tail(s) : i + 1 \in DOMAIN s /\ Tail(s)[i] = s[i + 1]
  OBVIOUS

-------------------------------------------------------------------------------
(* The publication of new blocks.                                           *)

\* The last notification is about the node's best block.  Once it is taken, the
\* handler is about that block, and so is what it has collected at each step.
Notice == [kind : {"connect", "reorg"}, b : Block]
DataOK(d) == d = [x \in {"header", "diff", "supply", "pool", "info"} |-> d[x]]
JobOK == job = [x \in {"at", "kind", "b", "ok", "data"} |-> job[x]] /\ DataOK(job.data)
HasData(fields) == \A x \in fields : job.data[x] = node
Collected ==
    /\ job.b = node /\ node \in known
    /\ job.at \in {"block", "count", "best", "diff", "supply", "pool", "chaindb",
                   "pubsub", "explore"}
    /\ job.at = "diff" => HasData({"header", "info"})
    /\ job.at = "supply" => HasData({"header", "info", "diff"})
    /\ job.at = "pool" => HasData({"header", "info", "diff", "supply"})
    /\ job.at \in {"chaindb", "pubsub", "explore"} => job.data = Publisher!All(node)
    /\ job.at = "explore" /\ job.kind = "connect" =>
         psh = [block |-> node, home |-> Publisher!All(node)]
PublisherInv ==
    /\ node \in Block /\ notices \in Seq(Notice) /\ JobOK
    /\ shown = [x \in {"block", "home", "asr"} |-> shown[x]]
    /\ notices # <<>> => notices[Len(notices)].b = node
    /\ notices = <<>> /\ job.at # "idle" => Collected
    /\ Publisher!PageSettles

LEMMA AllIs == ASSUME NEW b PROVE DataOK(Publisher!All(b)) /\
   \A d : DataOK(d) /\ (\A x \in {"header", "diff", "supply", "pool", "info"} : d[x] = b) => d = Publisher!All(b)
  BY DEF DataOK, Publisher!All

LEMMA PublisherStart == ASSUME Publisher!Init PROVE PublisherInv
  <1>1. /\ node = Genesis /\ notices = <<>> /\ job = Publisher!NoJob
        /\ shown = [block |-> Genesis, home |-> Publisher!All(Genesis), asr |-> Genesis]
    BY DEF Publisher!Init
  <1>2. JobOK /\ job.at = "idle" /\ job.kind = "none"
    BY <1>1 DEF JobOK, DataOK, Publisher!NoJob, Publisher!NoData
  <1>3. /\ shown = [x \in {"block", "home", "asr"} |-> shown[x]]
        /\ shown.block = Genesis /\ shown.home = Publisher!All(Genesis)
    BY <1>1
  <1> QED
    BY <1>1, <1>2, <1>3, TreeAssumption DEF PublisherInv, Publisher!PageSettles

LEMMA PublisherRests ==
    ASSUME PublisherInv, UNCHANGED publisherVars PROVE PublisherInv'
  BY DEF PublisherInv, publisherVars, JobOK, Collected, HasData, Publisher!PageSettles, Publisher!All, DataOK

\* The node moves: a notification is queued.
LEMMA NodeMovesKeep ==
    ASSUME PublisherInv, NEW b \in Block,
           Publisher!NodeConnects(b) \/ Publisher!NodeReorgs(b)
    PROVE  PublisherInv'
  <1>1. PICK m \in Notice : /\ m.b = b /\ node' = b /\ notices' = Append(notices, m)
                            /\ UNCHANGED <<job, known, shown, psh>>
    <2>1. [kind |-> "connect", b |-> b] \in Notice /\ [kind |-> "reorg", b |-> b] \in Notice
      BY DEF Notice
    <2> QED
      BY <2>1 DEF Publisher!NodeConnects, Publisher!NodeReorgs, Publisher!published
  <1>2. /\ notices' \in Seq(Notice) /\ notices' # <<>> /\ notices'[Len(notices')] = m
    BY <1>1 DEF PublisherInv
  <1> QED
    BY <1>1, <1>2 DEF PublisherInv, JobOK, DataOK, Publisher!PageSettles

LEMMA NotifyKeeps == ASSUME PublisherInv, Publisher!Notify PROVE PublisherInv'
  <1> DEFINE m == Head(notices)
  <1>1. /\ job' = [Publisher!NoJob EXCEPT !.at = "block", !.kind = m.kind, !.b = m.b]
        /\ notices # <<>> /\ notices' = Tail(notices) /\ known' = known \cup {m.b}
        /\ UNCHANGED <<node, shown>>
    BY DEF Publisher!Notify, Publisher!published
  <1>2. /\ m \in Notice /\ Tail(notices) \in Seq(Notice) /\ m = notices[1]
        /\ Len(Tail(notices)) = Len(notices) - 1 /\ Len(notices) \in Nat
        /\ \A i \in DOMAIN Tail(notices) : Tail(notices)[i] = notices[i + 1]
    BY <1>1, TailOf DEF PublisherInv
  <1>3. CASE notices' = <<>>
    <2>1. Len(notices) = 1
      BY <1>1, <1>2, <1>3
    <2>2. m.b = node
      BY <1>1, <1>2, <2>1 DEF PublisherInv
    <2>3. job'.at = "block" /\ job'.b = node /\ JobOK'
      BY <1>1, <2>2 DEF Publisher!NoJob, Publisher!NoData, JobOK, DataOK
    <2>4. Collected'
      BY <1>1, <2>2, <2>3 DEF Collected
    <2> QED
      BY <1>1, <1>2, <1>3, <2>3, <2>4 DEF PublisherInv, Publisher!PageSettles
  <1>4. CASE notices' # <<>>
    <2>1. Len(notices') \in DOMAIN notices' /\ notices'[Len(notices')] = notices[Len(notices)]
      BY <1>1, <1>2, <1>4
    <2>2. JobOK'
      BY <1>1 DEF Publisher!NoJob, Publisher!NoData, JobOK, DataOK
    <2> QED
      BY <1>1, <1>2, <1>4, <2>1, <2>2 DEF PublisherInv, Publisher!PageSettles
  <1> QED
    BY <1>3, <1>4

\* A step of the handler leaves the node, the notifications and the page alone.
LEMMA CollectKeeps ==
    ASSUME PublisherInv, JobOK', job'.at # "idle", notices = <<>> => Collected',
           UNCHANGED <<node, notices, shown>>
    PROVE  PublisherInv'
  BY DEF PublisherInv, Publisher!PageSettles

LEMMA CallsKeep ==
    ASSUME PublisherInv,
           \/ Publisher!GetBlock \/ Publisher!GetBlockCount \/ Publisher!GetBlockChainInfo
           \/ Publisher!GetStakeDifficulty \/ Publisher!GetCoinSupply
           \/ Publisher!GetPoolInfo \/ Publisher!GetBestInfo
    PROVE  PublisherInv'
  <1>1. /\ UNCHANGED <<node, notices, shown, known, psh>> /\ job.at # "idle" /\ JobOK
    BY DEF Publisher!GetBlock, Publisher!GetBlockCount, Publisher!GetBlockChainInfo,
           Publisher!GetStakeDifficulty, Publisher!GetCoinSupply, Publisher!GetPoolInfo,
           Publisher!GetBestInfo, Publisher!Doing, Publisher!world, Publisher!published, PublisherInv
  <1>2. CASE Publisher!GetBlock
    <2>1. job' = [job EXCEPT !.at = "count"] /\ job.at = "block"
      BY <1>2 DEF Publisher!GetBlock, Publisher!Doing, Publisher!Step
    <2> QED
      BY <1>1, <2>1, CollectKeeps DEF PublisherInv, JobOK, DataOK, Collected, HasData
  <1>3. CASE Publisher!GetBlockCount
    <2>1. CASE HeightOf(node) # HeightOf(job.b)
      <3>1. job' = [job EXCEPT !.at = "supply", !.data.header = job.b, !.data.diff = job.b]
            /\ job.at = "count"
        BY <1>3, <2>1 DEF Publisher!GetBlockCount, Publisher!Doing, Publisher!HeightOf, HeightOf
      <3>2. JobOK' /\ job'.at = "supply"
        BY <1>1, <3>1 DEF JobOK, DataOK
      <3>3. notices # <<>>
        BY <1>1, <2>1 DEF PublisherInv, Collected
      <3> QED
        BY <1>1, <3>2, <3>3, CollectKeeps
    <2>2. CASE HeightOf(node) = HeightOf(job.b)
      <3>1. job' = [job EXCEPT !.at = "best"] /\ job.at = "count"
        BY <1>3, <2>2 DEF Publisher!GetBlockCount, Publisher!Doing, Publisher!HeightOf, HeightOf, Publisher!Step
      <3> QED
        BY <1>1, <3>1, CollectKeeps DEF PublisherInv, JobOK, DataOK, Collected, HasData
    <2> QED
      BY <2>1, <2>2
  <1>4. CASE Publisher!GetBlockChainInfo
    <2>1. job' = [job EXCEPT !.at = "diff", !.data.header = node, !.data.info = node]
          /\ job.at = "best"
      BY <1>4 DEF Publisher!GetBlockChainInfo, Publisher!Doing
    <2> QED
      BY <1>1, <2>1, CollectKeeps DEF PublisherInv, JobOK, DataOK, Collected, HasData
  <1>5. CASE Publisher!GetStakeDifficulty
    <2>1. job' = [job EXCEPT !.at = "supply", !.data["diff"] = node] /\ job.at = "diff"
      BY <1>5 DEF Publisher!GetStakeDifficulty, Publisher!Doing, Publisher!Get
    <2> QED
      BY <1>1, <2>1, CollectKeeps DEF PublisherInv, JobOK, DataOK, Collected, HasData
  <1>6. CASE Publisher!GetCoinSupply
    <2>1. job' = [job EXCEPT !.at = "pool", !.data["supply"] = node] /\ job.at = "supply"
      BY <1>6 DEF Publisher!GetCoinSupply, Publisher!Doing, Publisher!Get
    <2> QED
      BY <1>1, <2>1, CollectKeeps DEF PublisherInv, JobOK, DataOK, Collected, HasData
  <1>7. CASE Publisher!GetPoolInfo
    <2> DEFINE at == IF job.data.info = NoBlock THEN "info" ELSE "chaindb"
               p == Publisher!PoolInfo(job.data.header)
    <2>1. job' = [job EXCEPT !.at = at, !.data["pool"] = p] /\ job.at = "pool"
      BY <1>7 DEF Publisher!GetPoolInfo, Publisher!Doing, Publisher!Get
    <2>2. JobOK' /\ job'.at = at /\ job'.b = job.b /\ job'.data.pool = p
          /\ \A x \in {"header", "diff", "supply", "info"} : job'.data[x] = job.data[x]
      BY <1>1, <2>1 DEF JobOK, DataOK
    <2>3. ASSUME notices = <<>> PROVE Collected'
      <3>1. job.data.header = node /\ job.data.info = node /\ node \in known /\ node \in Block
            /\ job.data.diff = node /\ job.data.supply = node
        BY <1>1, <2>1, <2>3 DEF PublisherInv, Collected, HasData
      <3>2. p = node /\ at = "chaindb"
        BY <3>1, PublisherAssumption DEF Publisher!PoolInfo, Publisher!PublisherConstants
      <3>3. job'.data = Publisher!All(node)
        BY <2>2, <3>1, <3>2, AllIs DEF JobOK
      <3> QED
        BY <1>1, <2>1, <2>2, <2>3, <3>1, <3>2, <3>3 DEF Collected, PublisherInv
    <2> QED
      BY <1>1, <2>2, <2>3, CollectKeeps
  <1>8. CASE Publisher!GetBestInfo
    <2>1. PICK i : job' = [job EXCEPT !.at = "chaindb", !.data["info"] = i] /\ job.at = "info"
      BY <1>8 DEF Publisher!GetBestInfo, Publisher!Doing, Publisher!Get
    <2> QED
      BY <1>1, <2>1, CollectKeeps DEF PublisherInv, JobOK, DataOK, Collected
  <1> QED
    BY <1>2, <1>3, <1>4, <1>5, <1>6, <1>7, <1>8

LEMMA CollectFailsKeeps == ASSUME PublisherInv, Publisher!CollectFails PROVE PublisherInv'
  <1>1. /\ job' = [Publisher!NoJob EXCEPT !.ok = FALSE] /\ UNCHANGED <<node, notices, shown>>
    BY DEF Publisher!CollectFails, Publisher!world, Publisher!published
  <1>2. job'.at = "idle" /\ job'.ok = FALSE /\ JobOK'
    BY <1>1 DEF Publisher!NoJob, Publisher!NoData, JobOK, DataOK
  <1> QED
    BY <1>1, <1>2 DEF PublisherInv, Publisher!PageSettles

LEMMA SaversKeep ==
    ASSUME PublisherInv, Publisher!StoreChainDB \/ Publisher!StorePubSub
    PROVE  PublisherInv'
  <1>1. PICK at \in {"pubsub", "explore"} :
           /\ job' = [job EXCEPT !.at = at]
           /\ job.at \in {"chaindb", "pubsub"}
           /\ at = "explore" /\ job.kind = "connect" => psh' = [block |-> job.b, home |-> job.data]
    BY DEF Publisher!StoreChainDB, Publisher!StorePubSub, Publisher!Step
  <1>2. UNCHANGED <<node, notices, shown, known>>
    BY DEF Publisher!StoreChainDB, Publisher!StorePubSub, Publisher!world
  <1>3. JobOK' /\ job'.at = at /\ job'.data = job.data /\ job'.b = job.b /\ job'.kind = job.kind
    BY <1>1 DEF PublisherInv, JobOK, DataOK
  <1>4. ASSUME notices = <<>> PROVE Collected'
    <2>1. Collected
      BY <1>1, <1>4 DEF PublisherInv
    <2> QED
      BY <1>1, <1>2, <1>3, <2>1 DEF Collected, Publisher!All
  <1> QED
    BY <1>1, <1>2, <1>3, <1>4, CollectKeeps

LEMMA StoreExplorerKeeps == ASSUME PublisherInv, Publisher!StoreExplorer PROVE PublisherInv'
  <1>1. /\ job' = [Publisher!NoJob EXCEPT !.kind = job.kind] /\ job.at = "explore"
        /\ shown' = [shown EXCEPT !.block = job.b, !.home = job.data]
        /\ UNCHANGED <<node, notices, psh>>
    BY DEF Publisher!StoreExplorer, Publisher!world
  <1>2. JobOK' /\ job'.at = "idle" /\ job'.kind = job.kind
    BY <1>1 DEF Publisher!NoJob, Publisher!NoData, JobOK, DataOK
  <1>3. shown' = [x \in {"block", "home", "asr"} |-> shown'[x]]
        /\ shown'.block = job.b /\ shown'.home = job.data
    BY <1>1 DEF PublisherInv
  <1>4. notices = <<>> => Collected
    BY <1>1 DEF PublisherInv
  <1> QED
    BY <1>1, <1>2, <1>3, <1>4 DEF PublisherInv, Collected, Publisher!PageSettles, Publisher!All

LEMMA SimulateKeeps ==
    ASSUME PublisherInv, NEW b, Publisher!simulateASR(b) PROVE PublisherInv'
  <1>1. /\ shown' = [shown EXCEPT !.asr = b]
        /\ UNCHANGED <<node, notices, job, known, psh>>
    BY DEF Publisher!simulateASR, Publisher!world
  <1>2. shown' = [x \in {"block", "home", "asr"} |-> shown'[x]]
        /\ shown'.block = shown.block /\ shown'.home = shown.home
    BY <1>1 DEF PublisherInv
  <1> QED
    BY <1>1, <1>2
    DEF PublisherInv, JobOK, DataOK, Collected, HasData, Publisher!PageSettles, Publisher!All

LEMMA PublisherKeeps == ASSUME PublisherInv, Publisher!Next PROVE PublisherInv'
  BY NodeMovesKeep, NotifyKeeps, CallsKeep, CollectFailsKeeps, SaversKeep,
     StoreExplorerKeeps, SimulateKeeps
  DEF Publisher!Next

-------------------------------------------------------------------------------
(* The exchange bot: charts.                                                *)

\* What a chart answered from the cache is compared with.
BotHolds(x) == IF asked[1] = "depth" THEN DcrBtc[x].depth ELSE DcrBtc[x].sticks
Tracked == {x \in DOMAIN DcrBtc : BotHolds(x) # Bot!Absent}
IsCurrent(data) ==
    /\ \A e \in data : e[1] \in Tracked => e[2] = BotHolds(e[1])
    /\ asked[2] = Bot!aggregated => Tracked \subseteq {e[1] : e \in data}
OfAsked(data) == asked[2] # Bot!aggregated => \A e \in data : e[1] = asked[2]

\* A caller that encodes the aggregated book without the mutex: as long as the
\* version it read is the best one, what it has encoded is current.
ReaderOK ==
    /\ reader.pc \in {"idle", "encode", "store"}
    /\ reader.pc = "encode" => reader = [pc |-> "encode", best |-> reader.best]
    /\ reader.pc = "store" =>
         /\ reader = [pc |-> "store", best |-> reader.best, chart |-> reader.chart]
         /\ asked[2] = Bot!aggregated
         /\ reader.best => IsCurrent(reader.chart.data)

\* The chart cached under the best version is current, and it is of the exchange
\* that was asked for; the bot holds no more than the copy it published last.
ChartInv ==
    /\ asked \in Bot!ChartIDs
    /\ chart # <<>> => IsCurrent(chart[1].data) /\ OfAsked(chart[1].data)
    /\ ReaderOK
    /\ stateCopy # <<>> => /\ DOMAIN DcrBtc \subseteq DOMAIN stateCopy[1].DcrBtc
                           /\ \A x \in DOMAIN DcrBtc : DcrBtc[x] = stateCopy[1].DcrBtc[x]
    /\ Bot!HitsAreCurrent

LEMMA HitIsCurrent ==
    Bot!HitsAreCurrent <=> (answer # <<>> /\ answer[1].op = "hit" => IsCurrent(answer[1].chart.data))
  BY DEF Bot!HitsAreCurrent, IsCurrent, Tracked, BotHolds

LEMMA ChartStart == ASSUME Bot!Init PROVE ChartInv
  BY DEF Bot!Init, ChartInv, ReaderOK, Bot!HitsAreCurrent

LEMMA ChartRests ==
    ASSUME ChartInv, UNCHANGED <<xcs, asked, DcrBtc, stateCopy>>,
           reader' = reader \/ reader' = [pc |-> "idle"],
           chart' = chart \/ chart' = <<>>, answer' = answer \/ answer' = <<>>
    PROVE  ChartInv'
  <1>1. ReaderOK'
    BY DEF ChartInv, ReaderOK, IsCurrent, Tracked, BotHolds
  <1>2. chart' # <<>> => IsCurrent(chart[1].data)' /\ OfAsked(chart[1].data)'
    BY DEF ChartInv, IsCurrent, OfAsked, Tracked, BotHolds
  <1>3. Bot!HitsAreCurrent'
    BY DEF ChartInv, Bot!HitsAreCurrent
  <1> QED
    BY <1>1, <1>2, <1>3 DEF ChartInv, Bot!ChartIDs

\* The bot loses exchanges, or takes an update that the chart asked for is not of.
LEMMA CurrentStays ==
    ASSUME NEW data, IsCurrent(data), asked' = asked,
           asked[2] # Bot!aggregated => \A e \in data : e[1] = asked[2],
           \A x \in DOMAIN DcrBtc' :
              \/ x \in DOMAIN DcrBtc /\ DcrBtc'[x] = DcrBtc[x]
              \/ BotHolds(x)' = Bot!Absent
              \/ asked[2] # Bot!aggregated /\ asked[2] # x
    PROVE  /\ \A e \in data : e[1] \in Tracked' => e[2] = BotHolds(e[1])'
           /\ asked'[2] = Bot!aggregated => Tracked' \subseteq {e[1] : e \in data}
  BY DEF IsCurrent, Tracked, BotHolds

LEMMA UpdateStateIs ==
    ASSUME NEW dcr, NEW fiat, Bot!updateState(dcr, fiat)
    PROVE  /\ DOMAIN DcrBtc' \subseteq DOMAIN dcr
           /\ \A x \in DOMAIN DcrBtc' : DcrBtc'[x] = dcr[x]
           /\ stateCopy'[1].DcrBtc = DcrBtc' /\ stateCopy' # <<>>
  BY DEF Bot!updateState, Bot!processState, Bot!Restrict2

LEMMA UpdateExchangeCharts == ASSUME ChartInv, Bot!updateExchange PROVE ChartInv'
  <1> DEFINE x == loop.m.x
             s == loop.m.state
             dcr == [y \in DOMAIN DcrBtc \cup {x} |-> IF y = x THEN s ELSE DcrBtc[y]]
             ids == (IF s.sticks # Bot!Absent THEN {<<"sticks", x>>} ELSE {})
                       \cup (IF s.depth # Bot!Absent
                             THEN {<<"depth", x>>, <<"depth", Bot!aggregated>>} ELSE {})
  <1>1. /\ Bot!incrementChart(ids) /\ Bot!updateState(dcr, FiatIndices)
        /\ answer' = <<>> /\ UNCHANGED <<xcs, asked>>
    BY DEF Bot!updateExchange
  <1>2. /\ DOMAIN DcrBtc' \subseteq DOMAIN DcrBtc \cup {x}
        /\ \A y \in DOMAIN DcrBtc' : DcrBtc'[y] = IF y = x THEN s ELSE DcrBtc[y]
        /\ stateCopy'[1].DcrBtc = DcrBtc'
    BY <1>1, UpdateStateIs
  <1>3. asked' \in Bot!ChartIDs'
    BY <1>1 DEF ChartInv, Bot!ChartIDs
  <1>4. ASSUME asked \notin ids, NEW data, IsCurrent(data), OfAsked(data)
        PROVE  /\ \A e \in data : e[1] \in Tracked' => e[2] = BotHolds(e[1])'
               /\ asked'[2] = Bot!aggregated => Tracked' \subseteq {e[1] : e \in data}
    <2>1. \A y \in DOMAIN DcrBtc' :
             \/ y \in DOMAIN DcrBtc /\ DcrBtc'[y] = DcrBtc[y]
             \/ BotHolds(y)' = Bot!Absent
             \/ asked[2] # Bot!aggregated /\ asked[2] # y
      <3> SUFFICES ASSUME NEW y \in DOMAIN DcrBtc', y = x,
                          asked[2] = Bot!aggregated \/ asked[2] = x
                   PROVE  BotHolds(y)' = Bot!Absent
        <4>1. \A y \in DOMAIN DcrBtc' : y # x => y \in DOMAIN DcrBtc /\ DcrBtc'[y] = DcrBtc[y]
          BY <1>2
        <4> QED
          BY <4>1
      <3>1. DcrBtc'[y] = s
        BY <1>2
      <3>2. \/ asked[1] = "sticks" /\ asked = <<"sticks", asked[2]>> /\ asked[2] # Bot!aggregated
            \/ asked[1] = "depth" /\ asked = <<"depth", asked[2]>>
        BY DEF ChartInv, Bot!ChartIDs, Bot!aggregated, Bot!DcrExchanges
      <3> QED
        BY <1>1, <1>4, <3>1, <3>2 DEF BotHolds
    <2> QED
      BY <1>1, <1>4, <2>1, CurrentStays DEF OfAsked
  <1>5. ASSUME chart' # <<>>
        PROVE  IsCurrent(chart[1].data)' /\ OfAsked(chart[1].data)'
    <2>1. asked \notin ids /\ chart' = chart
      BY <1>1, <1>5 DEF Bot!incrementChart
    <2>2. IsCurrent(chart[1].data) /\ OfAsked(chart[1].data)
      BY <1>5, <2>1 DEF ChartInv
    <2> QED
      BY <1>1, <1>4, <2>1, <2>2 DEF IsCurrent, OfAsked
  <1>6. ReaderOK'
    <2>1. CASE asked \in ids /\ reader.pc # "idle"
      <3>1. reader' = [reader EXCEPT !.best = FALSE]
        BY <1>1, <2>1 DEF Bot!incrementChart
      <3>2. CASE reader.pc = "encode"
        <4>1. reader' = [pc |-> "encode", best |-> FALSE]
          BY <3>1, <3>2 DEF ChartInv, ReaderOK
        <4> QED
          BY <4>1 DEF ReaderOK
      <3>3. CASE reader.pc = "store"
        <4>1. reader' = [pc |-> "store", best |-> FALSE, chart |-> reader.chart]
          BY <3>1, <3>3 DEF ChartInv, ReaderOK
        <4>2. asked'[2] = Bot!aggregated
          BY <1>1, <3>3 DEF ChartInv, ReaderOK
        <4> QED
          BY <4>1, <4>2 DEF ReaderOK
      <3> QED
        BY <2>1, <3>2, <3>3 DEF ChartInv, ReaderOK
    <2>2. CASE asked \notin ids \/ reader.pc = "idle"
      <3>1. reader' = reader
        BY <1>1, <2>2 DEF Bot!incrementChart
      <3>2. ASSUME reader.pc = "store", reader.best PROVE IsCurrent(reader.chart.data)'
        <4>1. asked \notin ids /\ asked[2] = Bot!aggregated /\ IsCurrent(reader.chart.data)
          BY <2>2, <3>2 DEF ChartInv, ReaderOK
        <4> QED
          BY <1>4, <3>1, <4>1 DEF IsCurrent, OfAsked
      <3> QED
        BY <1>1, <3>1, <3>2 DEF ChartInv, ReaderOK
    <2> QED
      BY <2>1, <2>2
  <1> QED
    BY <1>1, <1>2, <1>3, <1>5, <1>6, HitIsCurrent DEF ChartInv, Bot!HitsAreCurrent

\* Exchanges are taken out.
LEMMA LossKeepsCharts ==
    ASSUME ChartInv, UNCHANGED <<xcs, asked, chart, reader>>,
           DOMAIN DcrBtc' \subseteq DOMAIN DcrBtc,
           \A x \in DOMAIN DcrBtc' : DcrBtc'[x] = DcrBtc[x],
           stateCopy' = stateCopy \/ stateCopy'[1].DcrBtc = DcrBtc',
           answer' = <<>> \/ answer'[1].op # "hit"
    PROVE  ChartInv'
  <1>1. ASSUME NEW data, IsCurrent(data), OfAsked(data)
        PROVE  /\ \A e \in data : e[1] \in Tracked' => e[2] = BotHolds(e[1])'
               /\ asked'[2] = Bot!aggregated => Tracked' \subseteq {e[1] : e \in data}
    BY <1>1, CurrentStays DEF OfAsked
  <1>2. chart' # <<>> => IsCurrent(chart[1].data)' /\ OfAsked(chart[1].data)'
    BY <1>1 DEF ChartInv, IsCurrent, OfAsked
  <1>3. ReaderOK'
    BY <1>1 DEF ChartInv, ReaderOK, IsCurrent, OfAsked
  <1> QED
    BY <1>2, <1>3 DEF ChartInv, Bot!HitsAreCurrent, Bot!ChartIDs

LEMMA UpdateIndicesCharts == ASSUME ChartInv, Bot!updateIndices PROVE ChartInv'
  <1>1. /\ answer' = <<>> /\ UNCHANGED <<xcs, asked, chart, reader>>
        /\ \/ \E fiat : Bot!updateState(DcrBtc, fiat)
           \/ UNCHANGED <<DcrBtc, stateCopy>>
    BY DEF Bot!updateIndices
  <1> QED
    BY <1>1, UpdateStateIs, LossKeepsCharts

LEMMA ConvertedCharts ==
    ASSUME ChartInv, NEW code, Bot!ConvertedState(code) PROVE ChartInv'
  <1>1. /\ UNCHANGED <<xcs, asked, chart, reader, stateCopy>>
        /\ DcrBtc' = Bot!processState(DcrBtc) /\ answer'[1].op = "convert"
    BY DEF Bot!ConvertedState
  <1> QED
    BY <1>1, LossKeepsCharts DEF Bot!processState, Bot!Restrict2

LEMMA FetchCharts == ASSUME ChartInv, Bot!fetchFromCache PROVE ChartInv'
  <1>1. UNCHANGED <<xcs, asked, chart, stateCopy, DcrBtc>>
    BY DEF Bot!fetchFromCache, Bot!state
  <1>2. CASE chart # <<>>
    <2>1. answer' = <<[op |-> "hit", chart |-> chart[1]]>> /\ reader' = reader
      BY <1>2 DEF Bot!fetchFromCache
    <2>2. answer'[1].chart = chart[1] /\ IsCurrent(chart[1].data)
      BY <1>2, <2>1 DEF ChartInv
    <2>3. Bot!HitsAreCurrent'
      BY <1>1, <2>2 DEF Bot!HitsAreCurrent, IsCurrent, Tracked, BotHolds
    <2> QED
      BY <1>1, <2>1, <2>3
      DEF ChartInv, ReaderOK, IsCurrent, OfAsked, Tracked, BotHolds, Bot!ChartIDs
  <1>3. CASE chart = <<>>
    <2>1. answer' = <<>> /\ reader' = [pc |-> "encode", best |-> TRUE]
      BY <1>3 DEF Bot!fetchFromCache
    <2> QED
      BY <1>1, <1>3, <2>1 DEF ChartInv, ReaderOK, Bot!HitsAreCurrent, Bot!ChartIDs
  <1> QED
    BY <1>2, <1>3

\* What a caller encodes is current, from the exchange or from the published copy.
LEMMA EncodedIsCurrent ==
    ASSUME ChartInv, Bot!Encoded # {}, NEW d, d = CHOOSE e \in Bot!Encoded : TRUE
    PROVE  IsCurrent(d.data) /\ OfAsked(d.data)
  <1>1. d \in Bot!Encoded
    OBVIOUS
  <1>2. CASE asked[2] = Bot!aggregated
    <2>1. stateCopy # <<>> /\ d = Bot!aggOrderbook
      BY <1>1, <1>2 DEF Bot!Encoded
    <2>2. asked[1] = "depth"
      BY <1>2 DEF ChartInv, Bot!ChartIDs, Bot!aggregated, Bot!DcrExchanges
    <2> DEFINE copy == stateCopy[1].DcrBtc
    <2> DEFINE Columns == {<<x, copy[x].depth>> : x \in {y \in DOMAIN copy : copy[y].depth # Bot!Absent}}
    <2>c. d = [price |-> stateCopy[1].Price, data |-> Columns]
      BY <2>1, Zenon DEF Bot!aggOrderbook
    <2>r. \A p, q : [price |-> p, data |-> q].data = q
      OBVIOUS
    <2>3. d.data = Columns
      BY <2>c, <2>r, Zenon
    <2>4. \A x \in Tracked : x \in DOMAIN copy /\ copy[x].depth = BotHolds(x) /\ BotHolds(x) # Bot!Absent
      BY <2>1, <2>2 DEF ChartInv, Tracked, BotHolds
    <2>5. \A x \in Tracked : <<x, BotHolds(x)>> \in d.data
      BY <2>3, <2>4
    <2>6. ASSUME NEW e \in d.data, e[1] \in Tracked PROVE e[2] = BotHolds(e[1])
      <3>1. PICK x \in DOMAIN copy : e = <<x, copy[x].depth>>
        BY <2>3
      <3>2. e[1] = x /\ e[2] = copy[x].depth
        BY <3>1
      <3> QED
        BY <2>4, <2>6, <3>2
    <2>7. Tracked \subseteq {e[1] : e \in d.data}
      <3> SUFFICES ASSUME NEW x \in Tracked PROVE \E e \in d.data : x = e[1]
        OBVIOUS
      <3> QED
        BY <2>5
    <2> QED
      BY <1>2, <2>6, <2>7 DEF IsCurrent, OfAsked
  <1>3. CASE asked[2] # Bot!aggregated
    <2> DEFINE x == asked[2]
               c == IF asked[1] = "depth" THEN DcrBtc[x].depth
                    ELSE IF DcrBtc[x].sticks = Bot!Empty THEN Bot!Absent ELSE DcrBtc[x].sticks
    <2>1. x \in DOMAIN DcrBtc /\ c # Bot!Absent /\ d = [price |-> Price, data |-> {<<x, c>>}]
      BY <1>1, <1>3 DEF Bot!Encoded
    <2>2. c = BotHolds(x)
      BY <2>1 DEF BotHolds
    <2> HIDE DEF x, c
    <2>r. \A p, q : [price |-> p, data |-> q].data = q
      OBVIOUS
    <2>3. d.data = {<<x, c>>}
      BY <2>1, <2>r, Zenon
    <2>4. ASSUME NEW e \in d.data PROVE e[1] = x /\ e[2] = BotHolds(x)
      <3>1. e = <<x, c>>
        BY <2>3
      <3> QED
        BY <2>2, <3>1
    <2> QED
      BY <1>3, <2>4 DEF IsCurrent, OfAsked, x
  <1> QED
    BY <1>2, <1>3

\* A chart that is current is stored, or none is.
LEMMA StoreCharts ==
    ASSUME ChartInv, UNCHANGED <<xcs, asked, stateCopy, DcrBtc>>, answer' = <<>>,
           reader' = [pc |-> "idle"],
           NEW c, chart' = chart \/ chart' = <<>> \/ chart' = <<c>>,
           chart' = <<c>> => IsCurrent(c.data) /\ OfAsked(c.data)
    PROVE  ChartInv'
  <1>1. CASE chart' = <<c>>
    <2>1. chart'[1] = c
      BY <1>1
    <2>2. ReaderOK' /\ Bot!HitsAreCurrent'
      BY DEF ReaderOK, Bot!HitsAreCurrent
    <2> QED
      BY <1>1, <2>1, <2>2 DEF ChartInv, IsCurrent, OfAsked, Tracked, BotHolds, Bot!ChartIDs
  <1> QED
    BY <1>1, ChartRests

LEMMA QuickCharts == ASSUME ChartInv, Bot!Quick PROVE ChartInv'
  <1> DEFINE d == CHOOSE e \in Bot!Encoded : TRUE
  <1>1. /\ UNCHANGED <<xcs, asked, stateCopy, DcrBtc>> /\ answer' = <<>>
        /\ reader' = [pc |-> "idle"]
        /\ \/ chart' = chart \/ chart' = <<>>
           \/ Bot!Encoded # {} /\ chart' = <<d>>
    BY DEF Bot!Quick, Bot!state
  <1>2. Bot!Encoded # {} => IsCurrent(d.data) /\ OfAsked(d.data)
    BY EncodedIsCurrent
  <1> HIDE DEF d
  <1>3. CASE chart' = chart \/ chart' = <<>>
    BY <1>1, <1>3, ChartRests
  <1>4. CASE Bot!Encoded # {} /\ chart' = <<d>>
    BY <1>1, <1>2, <1>4, StoreCharts
  <1> QED
    BY <1>1, <1>3, <1>4

LEMMA EncodeAggregatedCharts == ASSUME ChartInv, Bot!EncodeAggregated PROVE ChartInv'
  <1> DEFINE d == CHOOSE e \in Bot!Encoded : TRUE
  <1>1. /\ UNCHANGED <<xcs, asked, stateCopy, DcrBtc, chart>> /\ answer' = <<>>
        /\ asked[2] = Bot!aggregated
        /\ \/ reader' = [pc |-> "idle"]
           \/ Bot!Encoded # {} /\ reader' = [pc |-> "store", best |-> reader.best, chart |-> d]
    BY DEF Bot!EncodeAggregated, Bot!state
  <1>2. Bot!Encoded # {} => IsCurrent(d.data) /\ OfAsked(d.data)
    BY EncodedIsCurrent
  <1> HIDE DEF d
  <1>3. CASE reader' = [pc |-> "idle"]
    BY <1>1, <1>3, ChartRests
  <1>4. CASE Bot!Encoded # {} /\ reader' = [pc |-> "store", best |-> reader.best, chart |-> d]
    <2>1. reader'.pc = "store" /\ reader'.chart = d /\ reader'.best = reader.best
      BY <1>4
    <2>2. IsCurrent(reader.chart.data)'
      BY <1>1, <1>2, <1>4, <2>1 DEF IsCurrent, Tracked, BotHolds
    <2>3. ReaderOK'
      BY <1>1, <1>4, <2>1, <2>2 DEF ReaderOK
    <2> QED
      BY <1>1, <2>3
      DEF ChartInv, IsCurrent, OfAsked, Tracked, BotHolds, Bot!HitsAreCurrent, Bot!ChartIDs
  <1> QED
    BY <1>1, <1>3, <1>4

LEMMA StoreAggregatedCharts == ASSUME ChartInv, Bot!StoreAggregated PROVE ChartInv'
  <1>1. /\ UNCHANGED <<xcs, asked, stateCopy, DcrBtc>> /\ answer' = <<>>
        /\ reader.pc = "store" /\ reader' = [pc |-> "idle"]
        /\ \/ chart' = <<>>
           \/ reader.best /\ chart' = <<reader.chart>>
    BY DEF Bot!StoreAggregated, Bot!state
  <1>2. CASE chart' = <<>>
    BY <1>1, <1>2, ChartRests
  <1>3. CASE reader.best /\ chart' = <<reader.chart>>
    <2>1. IsCurrent(reader.chart.data) /\ OfAsked(reader.chart.data)
      BY <1>1, <1>3 DEF ChartInv, ReaderOK, OfAsked
    <2> QED
      BY <1>1, <1>3, <2>1, StoreCharts
  <1> QED
    BY <1>1, <1>2, <1>3

LEMMA OthersKeepCharts ==
    ASSUME ChartInv,
           \/ \E x \in xcs : \/ Bot!Move(x) \/ Bot!DataExpires(x) \/ Bot!RequestExpires(x)
                             \/ \E d \in BOOLEAN : Bot!StreamRecv(x, d)
           \/ \E j \in Bot!Jobs : Bot!update(j) \/ Bot!Send(j)
           \/ \E j \in Bot!Jobs, p \in Bot!Outcome : Bot!RefreshIndex(j, p)
           \/ \E j \in Bot!Jobs, p, d, s \in Bot!Outcome : Bot!RefreshExchange(j, p, d, s)
           \/ Bot!StreamFails \/ Bot!connectMasterBot
           \/ Bot!TakeExchange \/ Bot!TakeIndex \/ Bot!nextTick \/ Bot!Cycle
    PROVE  ChartInv'
  <1> DEFINE Rest == UNCHANGED <<xcs, asked, DcrBtc, stateCopy, chart, reader>> /\ answer' = <<>>
  <1>1. ASSUME NEW x \in xcs,
               \/ Bot!Move(x) \/ Bot!DataExpires(x) \/ Bot!RequestExpires(x)
               \/ \E d \in BOOLEAN : Bot!StreamRecv(x, d)
        PROVE  Rest
    BY <1>1 DEF Bot!Move, Bot!DataExpires, Bot!RequestExpires, Bot!StreamRecv, Bot!state
  <1>2. ASSUME NEW j \in Bot!Jobs, Bot!update(j) \/ Bot!Send(j) PROVE Rest
    BY <1>2, Zenon DEF Bot!update, Bot!Send, Bot!state
  <1>3. ASSUME NEW j, NEW p, Bot!RefreshIndex(j, p) PROVE Rest
    BY <1>3, Zenon DEF Bot!RefreshIndex, Bot!state
  <1>4. ASSUME NEW j, NEW p, NEW d, NEW s, Bot!RefreshExchange(j, p, d, s) PROVE Rest
    BY <1>4, Zenon DEF Bot!RefreshExchange, Bot!state
  <1>5. ASSUME \/ Bot!StreamFails \/ Bot!connectMasterBot \/ Bot!TakeExchange
               \/ Bot!TakeIndex \/ Bot!nextTick \/ Bot!Cycle
        PROVE  Rest
    BY <1>5 DEF Bot!StreamFails, Bot!connectMasterBot, Bot!TakeExchange, Bot!TakeIndex,
                Bot!nextTick, Bot!Cycle, Bot!state
  <1>6. Rest
    BY <1>1, <1>2, <1>3, <1>4, <1>5
  <1> QED
    BY <1>6, ChartRests

LEMMA ChartsKeep == ASSUME ChartInv, Bot!Next PROVE ChartInv'
  <1>1. CASE \E code \in Codes : Bot!ConvertedState(code)
    BY <1>1, ConvertedCharts
  <1> QED
    BY <1>1, UpdateExchangeCharts, UpdateIndicesCharts, FetchCharts, QuickCharts,
       EncodeAggregatedCharts, StoreAggregatedCharts, OthersKeepCharts
    DEF Bot!Next

-------------------------------------------------------------------------------
(* The summaries: ORDER BY height.                                          *)

\* The tree of blocks is the same one.
LEMMA SameTree ==
    /\ \A b : Summaries!HeightOf(b) = HeightOf(b) /\ Summaries!Parent(b) = Parent(b)
    /\ \A b, h : Summaries!At(b, h) = At(b, h)
    /\ \A a, b : /\ Summaries!IsAncestor(a, b) <=> IsAncestor(a, b)
                 /\ Summaries!ForkHeight(a, b) = ForkHeight(a, b)
  BY DEF Summaries!HeightOf, Summaries!Parent, Summaries!At, Summaries!IsAncestor,
         Summaries!ForkHeight, HeightOf, Parent, At, IsAncestor, ForkHeight

\* Blocks in ascending order.
Climbs(m, n) ==
    /\ m \in [1 .. n -> Block]
    /\ \A k, l \in 1 .. n : k < l => HeightOf(m[k]) < HeightOf(m[l])

\* Different positions of an ascending sequence have different blocks.
LEMMA ClimbSize ==
    ASSUME NEW n \in Nat, NEW m, Climbs(m, n)
    PROVE  /\ IsFiniteSet({m[k] : k \in 1 .. n})
           /\ Summaries!Cardinality({m[k] : k \in 1 .. n}) = n
  <1> DEFINE S == {m[k] : k \in 1 .. n}
  <1>1. m \in [1 .. n -> S] /\ \A k, l \in 1 .. n : m[k] = m[l] => k = l
    BY HeightType DEF Climbs
  <1>2. m \in Bijection(1 .. n, S)
    BY <1>1 DEF Bijection, Injection, Surjection, IsInjective
  <1>3. ExistsBijection(1 .. n, S)
    BY <1>2 DEF ExistsBijection
  <1>4. IsFiniteSet(1 .. n)
    BY FS_Interval
  <1> HIDE DEF S
  <1>5. Cardinality(S) = n /\ IsFiniteSet(S)
    BY <1>3, <1>4, FS_CountingElements, FS_Bijection
  <1>6. Summaries!Cardinality(S) = n
    BY <1>5 DEF Summaries!Cardinality, Cardinality
  <1> QED
    BY <1>5, <1>6 DEF S

\* ORDER BY height: the blocks in ascending order.
LEMMA SortedIsAscending ==
    ASSUME NEW n \in Nat, NEW m, Climbs(m, n)
    PROVE  Summaries!Ascending({m[k] : k \in 1 .. n}) = m
  <1> DEFINE S == {m[k] : k \in 1 .. n}
             Rank(b) == Summaries!Cardinality(Summaries!Below(S, b))
  <1>1. ASSUME NEW k \in 1 .. n PROVE Rank(m[k]) = k - 1
    <2>1. Summaries!Below(S, m[k]) = {m[l] : l \in 1 .. (k - 1)}
      <3>1. \A l \in 1 .. n : HeightOf(m[l]) < HeightOf(m[k]) <=> l \in 1 .. (k - 1)
        <4>1. \A l \in 1 .. n : HeightOf(m[l]) \in Nat
          BY HeightType DEF Climbs
        <4> QED
          BY <4>1 DEF Climbs
      <3>2. Summaries!Below(S, m[k]) = {a \in S : HeightOf(a) < HeightOf(m[k])}
        BY SameTree DEF Summaries!Below
      <3> QED
        BY <3>1, <3>2
    <2>2. \E r : Climbs(r, k - 1) /\ \A l \in 1 .. (k - 1) : r[l] = m[l]
      <3>1. Climbs([l \in 1 .. (k - 1) |-> m[l]], k - 1)
        BY DEF Climbs
      <3> QED
        BY <3>1
    <2>3. PICK r : Climbs(r, k - 1) /\ \A l \in 1 .. (k - 1) : r[l] = m[l]
      BY <2>2
    <2>4. Summaries!Cardinality({r[l] : l \in 1 .. (k - 1)}) = k - 1
      <3>1. k - 1 \in Nat
        OBVIOUS
      <3> QED
        BY <2>3, <3>1, ClimbSize
    <2>5. {r[l] : l \in 1 .. (k - 1)} = {m[l] : l \in 1 .. (k - 1)}
      BY <2>3
    <2> QED
      BY <2>1, <2>4, <2>5
  <1>2. Summaries!Cardinality(S) = n
    BY ClimbSize
  <1>3. Summaries!Ascending(S) = [k \in 1 .. n |-> CHOOSE b \in S : Rank(b) = k - 1]
    BY <1>2 DEF Summaries!Ascending
  <1>4. ASSUME NEW k \in 1 .. n PROVE (CHOOSE b \in S : Rank(b) = k - 1) = m[k]
    <2>1. m[k] \in S /\ \A b \in S : Rank(b) = k - 1 => b = m[k]
      <3> HIDE DEF Rank
      <3> QED
        BY <1>1
    <2> HIDE DEF S, Rank
    <2> QED
      BY <1>1, <2>1
  <1>5. Summaries!Ascending(S) = [k \in 1 .. n |-> m[k]]
    BY <1>3, <1>4
  <1> QED
    BY <1>5 DEF Climbs

-------------------------------------------------------------------------------
(* The summaries: the tables.                                               *)

Ancestors(b) == {a \in Block : IsAncestor(a, b)}
Target == writerTodo[Len(writerTodo)]

\* What is still to be stored is the end of the target's branch.
TodoOK ==
    /\ writerTodo \in Seq(Block)
    /\ writerPC # "idle" =>
         /\ writerTodo # <<>> /\ Len(writerTodo) <= HeightOf(Target)
         /\ \A k \in 1 .. Len(writerTodo) : writerTodo[k] = At(Target, HeightOf(Target) - Len(writerTodo) + k)
         /\ IsAncestor(Parent(writerTodo[1]), best) \/ best = writerTodo[1]
    /\ writerPC \in {"row", "best"} => Parent(writerTodo[1]) = best
    /\ writerPC \in {"stats", "meta"} => best = writerTodo[1]
    /\ writerPC = "side" => IsAncestor(Parent(writerTodo[1]), best)

\* The main chain's rows are the best block's branch, the block being stored besides.
RowsOK ==
    /\ rows = [b \in DOMAIN rows |-> rows[b]] /\ DOMAIN rows \subseteq Block
    /\ Summaries!MainRows =
         IF writerPC = "best" THEN Ancestors(best) \cup {writerTodo[1]} ELSE Ancestors(best)

\* The stats rows of the heights of the branch are its blocks', the one being stored
\* excepted; those above are of the branch that was left, and no higher than the target.
StatsOK ==
    /\ stats = [h \in DOMAIN stats |-> stats[h]]
    /\ \A h \in DOMAIN stats :
          /\ h \in Nat /\ stats[h] \in DOMAIN rows /\ HeightOf(stats[h]) = h
          /\ h <= HeightOf(IF writerPC = "idle" THEN best ELSE Target)
    /\ \A h \in 0 .. HeightOf(best) :
          writerPC # "stats" \/ h < HeightOf(best) =>
            h \in DOMAIN stats /\ stats[h] = At(best, h)
    /\ HeightOf(meta) \in DOMAIN stats

TablesInv ==
    /\ best \in Block /\ meta \in Block
    /\ writerPC \in {"idle", "side", "row", "best", "stats", "meta"}
    /\ writerPC = "idle" => meta = best
    /\ TodoOK /\ RowsOK /\ StatsOK

LEMMA TablesStart == ASSUME Summaries!Init PROVE TablesInv
  <1>1. /\ rows = [b \in {Genesis} |-> TRUE] /\ stats = [h \in {0} |-> Genesis]
        /\ best = Genesis /\ meta = Genesis /\ writerPC = "idle" /\ writerTodo = <<>>
    BY DEF Summaries!Init
  <1>2. /\ Genesis \in Block /\ HeightOf(Genesis) = 0 /\ At(Genesis, 0) = Genesis
        /\ Ancestors(Genesis) = {Genesis}
    <2>1. Genesis \in Block /\ HeightOf(Genesis) = 0
      BY TreeAssumption, HeightZero
    <2>2. \A a \in Block : IsAncestor(a, Genesis) <=> a = Genesis
      BY <2>1, AncestorGenesis
    <2> QED
      BY <2>1, <2>2 DEF Ancestors, At
  <1>3. TodoOK
    BY <1>1 DEF TodoOK
  <1>4. RowsOK
    BY <1>1, <1>2 DEF RowsOK, Summaries!MainRows
  <1>5. StatsOK
    BY <1>1, <1>2 DEF StatsOK
  <1> QED
    BY <1>1, <1>2, <1>3, <1>4, <1>5 DEF TablesInv

LEMMA TablesRest ==
    ASSUME TablesInv, UNCHANGED <<rows, stats, best, meta, writerPC, writerTodo>>
    PROVE  TablesInv'
  BY DEF TablesInv, TodoOK, RowsOK, StatsOK, Target, Summaries!MainRows

\* The ancestors of a block are itself and its parent's.
LEMMA AncestorsStep ==
    ASSUME NEW b \in Block, b # Genesis
    PROVE  /\ Ancestors(b) = Ancestors(Parent(b)) \cup {b} /\ b \notin Ancestors(Parent(b))
           /\ Parent(b) \in Block /\ HeightOf(Parent(b)) = HeightOf(b) - 1
           /\ HeightOf(b) \in Nat /\ HeightOf(b) > 0
           /\ \A h \in 0 .. HeightOf(Parent(b)) : At(Parent(b), h) = At(b, h)
  <1>1. /\ Parent(b) \in Block /\ ~IsAncestor(b, Parent(b))
        /\ HeightOf(Parent(b)) = HeightOf(b) - 1 /\ HeightOf(Parent(b)) \in Nat
        /\ HeightOf(b) \in Nat /\ Parent(b) = At(b, HeightOf(b) - 1)
        /\ \A a \in Block : IsAncestor(a, b) <=> a = b \/ IsAncestor(a, Parent(b))
    BY AncestorParent, HeightType, ParentIsAt
  <1>2. \A h \in 0 .. HeightOf(Parent(b)) : At(Parent(b), h) = At(b, h)
    BY <1>1, AtOfAt
  <1> QED
    BY <1>1, <1>2 DEF Ancestors

LEMMA ParentAbove ==
    ASSUME NEW b \in Block, NEW h \in Nat, h + 1 <= HeightOf(b)
    PROVE  Parent(At(b, h + 1)) = At(b, h)
  <1> DEFINE i == h + 1
  <1>1. i \in 1 .. HeightOf(b) /\ i - 1 = h
    BY HeightType
  <1> HIDE DEF i
  <1>2. Parent(At(b, i)) = At(b, i - 1)
    BY <1>1, ParentOnBranch
  <1> QED
    BY <1>1, <1>2 DEF i

LEMMA SummariesConnect ==
    ASSUME TablesInv, NEW b \in Block, Summaries!Connect(b) PROVE TablesInv'
  <1>1. /\ writerPC = "idle" /\ b # Genesis /\ Parent(b) = best /\ best \in Block
        /\ writerTodo' = <<b>> /\ writerPC' = "row"
        /\ UNCHANGED <<rows, stats, best, meta>>
    BY SameTree DEF Summaries!Connect, TablesInv
  <1>2. HeightOf(b) \in Nat /\ HeightOf(best) = HeightOf(b) - 1 /\ HeightOf(b) >= 1
    BY <1>1, AncestorsStep
  <1>3. Target' = b /\ Len(writerTodo') = 1 /\ writerTodo'[1] = b
    BY <1>1 DEF Target
  <1>4. TodoOK'
    <2>1. At(b, HeightOf(b)) = b /\ IsAncestor(best, best)
      BY <1>1, TipOfBranch, AncestorSelf
    <2> QED
      BY <1>1, <1>2, <1>3, <2>1 DEF TodoOK
  <1>5. RowsOK'
    BY <1>1 DEF TablesInv, RowsOK, Summaries!MainRows
  <1>6. StatsOK'
    BY <1>1, <1>2, <1>3 DEF TablesInv, StatsOK
  <1> QED
    BY <1>1, <1>4, <1>5, <1>6 DEF TablesInv

LEMMA SummariesReorg ==
    ASSUME TablesInv, NEW b \in Block, Summaries!Reorg(b) PROVE TablesInv'
  <1> DEFINE f == ForkHeight(best, b)
             n == HeightOf(b) - f
  <1>1. /\ writerPC = "idle" /\ HeightOf(b) >= HeightOf(best) /\ ~IsAncestor(best, b)
        /\ best \in Block /\ writerTodo' = SubSeq(Chain[b], f + 1, HeightOf(b))
        /\ writerPC' = "side" /\ UNCHANGED <<rows, stats, best, meta>>
    BY SameTree DEF Summaries!Reorg, TablesInv
  <1>2. /\ HeightOf(b) \in Nat /\ HeightOf(best) \in Nat
        /\ f \in 0 .. HeightOf(best) /\ f \in 0 .. HeightOf(b) /\ f < HeightOf(best)
        /\ At(best, f) = At(b, f)
    BY <1>1, HeightType, ForkIsShared, ForkBelowTip
  <1> HIDE DEF f
  <1>3. n \in Nat /\ n >= 1 /\ f + 1 \in 1 .. HeightOf(b) /\ f + 1 # 0
    BY <1>1, <1>2
  <1>4. /\ writerTodo' \in Seq(Block) /\ Len(writerTodo') = n
        /\ \A k \in 1 .. n : writerTodo'[k] = At(b, f + k)
    <2>1. Chain[b] \in Seq(Block) /\ Len(Chain[b]) = HeightOf(b)
      BY TreeAssumption DEF HeightOf
    <2>2. /\ writerTodo' \in Seq(Block) /\ Len(writerTodo') = n
          /\ \A k \in 1 .. n : writerTodo'[k] = Chain[b][f + k]
      <3> HIDE DEF n
      <3>1. n = HeightOf(b) - f
        BY DEF n
      <3> QED
        BY <1>1, <1>2, <1>3, <2>1, <3>1
    <2>3. \A k \in 1 .. n : f + k # 0
      BY <1>2
    <2> QED
      BY <2>2, <2>3 DEF At
  <1>5. Target' = b /\ HeightOf(Target') = HeightOf(b)
    <2>1. Target' = At(b, f + n)
      BY <1>3, <1>4 DEF Target
    <2>2. f + n = HeightOf(b)
      BY <1>2
    <2> QED
      BY <2>1, <2>2, TipOfBranch
  <1>6. IsAncestor(Parent(writerTodo'[1]), best)
    <2>1. Parent(At(b, f + 1)) = At(b, f)
      BY <1>2, <1>3, ParentAbove
    <2>2. 1 \in 1 .. n
      BY <1>2, <1>3
    <2>3. Parent(writerTodo'[1]) = At(best, f)
      BY <1>2, <1>4, <2>1, <2>2
    <2> QED
      BY <1>1, <1>2, <2>3, AncestorAt
  <1>7. TodoOK'
    <2>1. writerTodo' # <<>> /\ n <= HeightOf(b) /\ HeightOf(b) - n = f
      BY <1>2, <1>3, <1>4
    <2> HIDE DEF n
    <2> QED
      BY <1>1, <1>4, <1>5, <1>6, <2>1 DEF TodoOK
  <1>8. RowsOK'
    BY <1>1 DEF TablesInv, RowsOK, Summaries!MainRows
  <1>9. StatsOK'
    BY <1>1, <1>2, <1>5 DEF TablesInv, StatsOK
  <1> QED
    BY <1>1, <1>7, <1>8, <1>9 DEF TablesInv

LEMMA SummariesTip == ASSUME TablesInv, Summaries!TipToSideChain PROVE TablesInv'
  <1>1. /\ writerPC = "side" /\ best \in Block /\ IsAncestor(Parent(writerTodo[1]), best)
        /\ UNCHANGED <<stats, meta, writerTodo>>
    BY DEF Summaries!TipToSideChain, TablesInv, TodoOK
  <1>2. CASE Parent(writerTodo[1]) = best
    <2>1. writerPC' = "row" /\ UNCHANGED <<rows, best>>
      BY <1>2, SameTree DEF Summaries!TipToSideChain
    <2> QED
      BY <1>1, <1>2, <2>1
         DEF TablesInv, TodoOK, RowsOK, StatsOK, Target, Summaries!MainRows
  <1>3. CASE Parent(writerTodo[1]) # best
    <2>1. /\ rows' = [rows EXCEPT ![best] = FALSE] /\ best' = Parent(best)
          /\ writerPC' = writerPC
      BY <1>3, SameTree DEF Summaries!TipToSideChain
    <2>2. writerTodo[1] \in Block /\ Parent(writerTodo[1]) \in Block
      <3>1. writerTodo[1] \in Block
        BY <1>1 DEF TablesInv, TodoOK
      <3> QED
        BY <3>1, ParentType
    <2>3. best # Genesis
      BY <1>1, <1>3, <2>2, AncestorGenesis
    <2>4. /\ Ancestors(best) = Ancestors(best') \cup {best} /\ best \notin Ancestors(best')
          /\ best' \in Block /\ HeightOf(best') = HeightOf(best) - 1
          /\ HeightOf(best) \in Nat /\ HeightOf(best) > 0
          /\ \A h \in 0 .. HeightOf(best') : At(best', h) = At(best, h)
      BY <1>1, <2>1, <2>3, AncestorsStep
    <2>5. IsAncestor(Parent(writerTodo[1]), best')
      BY <1>1, <1>3, <2>1, <2>2, <2>3, AncestorParent
    <2>6. TodoOK'
      BY <1>1, <2>1, <2>5 DEF TablesInv, TodoOK, Target
    <2>7. RowsOK'
      BY <1>1, <2>1, <2>4 DEF TablesInv, RowsOK, Summaries!MainRows
    <2>8. StatsOK'
      BY <1>1, <2>1, <2>4 DEF TablesInv, StatsOK, Target
    <2> QED
      BY <1>1, <2>1, <2>4, <2>6, <2>7, <2>8 DEF TablesInv
  <1> QED
    BY <1>2, <1>3

\* The block being stored: it is a block above genesis, no higher than the target.
LEMMA FirstTodo ==
    ASSUME TablesInv, writerPC # "idle"
    PROVE  /\ writerTodo[1] \in Block /\ writerTodo[1] # Genesis
           /\ HeightOf(writerTodo[1]) <= HeightOf(Target)
           /\ writerTodo # <<>> /\ writerTodo \in Seq(Block)
           /\ Len(writerTodo) \in Nat /\ Len(writerTodo) >= 1
  <1> DEFINE n == Len(writerTodo)
             t == Target
  <1>1. /\ writerTodo \in Seq(Block) /\ writerTodo # <<>> /\ n <= HeightOf(t)
        /\ \A k \in 1 .. n : writerTodo[k] = At(t, HeightOf(t) - n + k)
    BY DEF TablesInv, TodoOK
  <1>2. n \in Nat /\ n >= 1 /\ t \in Block /\ writerTodo[1] \in Block
    BY <1>1 DEF Target
  <1>3. HeightOf(t) \in Nat
    BY <1>2, HeightType
  <1> DEFINE h == HeightOf(t) - n + 1
  <1> HIDE DEF n, t
  <1>4. h \in 0 .. HeightOf(t) /\ h >= 1 /\ writerTodo[1] = At(t, h)
    BY <1>1, <1>2, <1>3
  <1> HIDE DEF h
  <1>5. HeightOf(writerTodo[1]) = h
    BY <1>2, <1>4, AncestorAt
  <1>6. writerTodo[1] # Genesis
    BY <1>2, <1>4, <1>5, HeightZero
  <1> QED
    BY <1>1, <1>2, <1>3, <1>4, <1>5, <1>6 DEF n, t

LEMMA SummariesRow == ASSUME TablesInv, Summaries!StoreRow PROVE TablesInv'
  <1>1. /\ writerPC = "row" /\ writerPC' = "best"
        /\ rows' = Summaries!With(rows, writerTodo[1], TRUE)
        /\ UNCHANGED <<stats, best, meta, writerTodo>>
    BY DEF Summaries!StoreRow, Summaries!PutRow
  <1>2. writerTodo[1] \in Block
    BY <1>1, FirstTodo
  <1>3. rows' = [x \in DOMAIN rows \cup {writerTodo[1]} |->
                   IF x = writerTodo[1] THEN TRUE ELSE rows[x]]
    BY <1>1 DEF Summaries!With
  <1>4. TodoOK'
    BY <1>1 DEF TablesInv, TodoOK, Target
  <1>5. RowsOK'
    <2>1. Summaries!MainRows = Ancestors(best) /\ DOMAIN rows \subseteq Block
      BY <1>1 DEF TablesInv, RowsOK
    <2>2. Summaries!MainRows' = Ancestors(best) \cup {writerTodo[1]}
      BY <1>3, <2>1 DEF Summaries!MainRows
    <2> QED
      BY <1>1, <1>2, <1>3, <2>1, <2>2 DEF RowsOK, Ancestors
  <1>6. StatsOK'
    BY <1>1, <1>3 DEF TablesInv, StatsOK, Target
  <1> QED
    BY <1>1, <1>4, <1>5, <1>6 DEF TablesInv

LEMMA SummariesBest == ASSUME TablesInv, Summaries!StoreBest PROVE TablesInv'
  <1>1. /\ writerPC = "best" /\ writerPC' = "stats" /\ best' = writerTodo[1]
        /\ UNCHANGED <<rows, stats, meta, writerTodo>>
    BY DEF Summaries!StoreBest
  <1>2. Parent(best') = best /\ best' \in Block /\ best' # Genesis
    BY <1>1, FirstTodo DEF TablesInv, TodoOK
  <1>3. /\ Ancestors(best') = Ancestors(best) \cup {best'}
        /\ HeightOf(best) = HeightOf(best') - 1 /\ HeightOf(best') \in Nat
        /\ \A h \in 0 .. HeightOf(best) : At(best, h) = At(best', h)
    BY <1>2, AncestorsStep
  <1>4. TodoOK'
    BY <1>1, <1>2 DEF TablesInv, TodoOK, Target
  <1>5. RowsOK'
    BY <1>1, <1>3 DEF TablesInv, RowsOK, Summaries!MainRows, Ancestors
  <1>6. StatsOK'
    BY <1>1, <1>3 DEF TablesInv, StatsOK, Target
  <1> QED
    BY <1>1, <1>2, <1>4, <1>5, <1>6 DEF TablesInv

LEMMA SummariesStats == ASSUME TablesInv, Summaries!InsertBlockStats PROVE TablesInv'
  <1>1. /\ writerPC = "stats" /\ writerPC' = "meta" /\ best = writerTodo[1]
        /\ stats' = Summaries!UpsertStats(writerTodo[1])
        /\ UNCHANGED <<rows, best, meta, writerTodo>>
    BY DEF Summaries!InsertBlockStats, TablesInv, TodoOK
  <1>2. stats' = [h \in DOMAIN stats \cup {HeightOf(best)} |->
                    IF h = HeightOf(best) THEN best ELSE stats[h]]
    BY <1>1, SameTree DEF Summaries!UpsertStats, Summaries!With
  <1>3. best \in Block /\ HeightOf(best) \in Nat /\ At(best, HeightOf(best)) = best
    BY HeightType, TipOfBranch DEF TablesInv
  <1>4. HeightOf(best) <= HeightOf(Target)
    BY <1>1, FirstTodo
  <1>5. best \in DOMAIN rows
    <2>1. best \in Ancestors(best)
      BY <1>3, AncestorSelf DEF Ancestors
    <2> QED
      BY <1>1, <2>1 DEF TablesInv, RowsOK, Summaries!MainRows
  <1>6. TodoOK'
    BY <1>1 DEF TablesInv, TodoOK, Target
  <1>7. RowsOK'
    BY <1>1 DEF TablesInv, RowsOK, Summaries!MainRows
  <1>8. StatsOK'
    <2>1. Target' = Target
      BY <1>1 DEF Target
    <2>2. /\ \A h \in DOMAIN stats' :
                /\ h \in Nat /\ stats'[h] \in DOMAIN rows /\ HeightOf(stats'[h]) = h
                /\ h <= HeightOf(Target)
          /\ HeightOf(meta) \in DOMAIN stats'
      BY <1>1, <1>2, <1>3, <1>4, <1>5 DEF TablesInv, StatsOK
    <2>3. \A h \in 0 .. HeightOf(best) : h \in DOMAIN stats' /\ stats'[h] = At(best, h)
      BY <1>1, <1>2, <1>3 DEF TablesInv, StatsOK
    <2> QED
      BY <1>1, <1>2, <2>1, <2>2, <2>3 DEF StatsOK
  <1> QED
    BY <1>1, <1>3, <1>6, <1>7, <1>8 DEF TablesInv

LEMMA SummariesMeta == ASSUME TablesInv, Summaries!SetDBBestBlock PROVE TablesInv'
  <1> DEFINE n == Len(writerTodo)
  <1>1. /\ writerPC = "meta" /\ best = writerTodo[1] /\ meta' = best
        /\ writerTodo' = Tail(writerTodo)
        /\ writerPC' = IF n = 1 THEN "idle" ELSE "row"
        /\ UNCHANGED <<rows, stats, best>>
    BY DEF Summaries!SetDBBestBlock, Summaries!NextStep, TablesInv, TodoOK
  <1>2. /\ writerTodo \in Seq(Block) /\ writerTodo # <<>> /\ n \in Nat /\ n >= 1
        /\ n <= HeightOf(Target)
        /\ \A k \in 1 .. n : writerTodo[k] = At(Target, HeightOf(Target) - n + k)
    BY <1>1, FirstTodo DEF TablesInv, TodoOK
  <1>3. /\ Tail(writerTodo) \in Seq(Block) /\ Len(Tail(writerTodo)) = n - 1
        /\ \A k \in 1 .. (n - 1) : Tail(writerTodo)[k] = writerTodo[k + 1]
    BY <1>2
  <1>4. best \in Block /\ Target \in Block /\ HeightOf(Target) \in Nat
    <2>1. Target \in Block
      BY <1>2 DEF Target
    <2> QED
      BY <2>1, HeightType DEF TablesInv
  <1>5. n # 1 => Target' = Target /\ writerTodo' # <<>> /\ Len(writerTodo') = n - 1
    <2> HIDE DEF n
    <2>1. ASSUME n # 1 PROVE Tail(writerTodo)[n - 1] = writerTodo[n] /\ Tail(writerTodo) # <<>>
      <3>1. n - 1 \in 1 .. (n - 1) /\ n - 1 + 1 = n
        BY <1>2, <2>1
      <3>2. Tail(writerTodo)[n - 1] = writerTodo[n - 1 + 1]
        BY <1>3, <3>1
      <3>3. n - 1 # 0
        BY <1>2, <2>1
      <3>4. Len(<<>>) = 0
        OBVIOUS
      <3> QED
        BY <1>3, <3>1, <3>2, <3>3, <3>4
    <2> QED
      BY <1>1, <1>3, <2>1 DEF Target, n
  <1>6. TodoOK'
    <2>1. CASE n = 1
      BY <1>1, <1>3, <2>1 DEF TodoOK
    <2>2. CASE n # 1
      <3> HIDE DEF n
      <3>1. \A k \in 1 .. (n - 1) : writerTodo'[k] = At(Target, HeightOf(Target) - (n - 1) + k)
        <4>1. ASSUME NEW k \in 1 .. (n - 1)
              PROVE  writerTodo'[k] = At(Target, HeightOf(Target) - n + (k + 1))
          BY <1>1, <1>2, <1>3
        <4>2. \A k \in 1 .. (n - 1) :
                 HeightOf(Target) - n + (k + 1) = HeightOf(Target) - (n - 1) + k
          BY <1>2, <1>4
        <4> QED
          BY <4>1, <4>2
      <3>2. Parent(writerTodo'[1]) = best
        <4> DEFINE h == HeightOf(Target) - n + 1
        <4>1. /\ h \in Nat /\ h + 1 <= HeightOf(Target)
              /\ 2 \in 1 .. n /\ 1 \in 1 .. (n - 1) /\ 1 \in 1 .. n
              /\ HeightOf(Target) - n + 2 = h + 1
          BY <1>2, <1>4, <2>2
        <4>2. writerTodo'[1] = At(Target, h + 1) /\ best = At(Target, h)
          BY <1>1, <1>2, <1>3, <4>1
        <4> HIDE DEF h
        <4> QED
          BY <1>4, <4>1, <4>2, ParentAbove
      <3>3. IsAncestor(best, best)
        BY <1>4, AncestorSelf
      <3>4. /\ writerTodo' \in Seq(Block) /\ writerTodo' # <<>> /\ Len(writerTodo') = n - 1
            /\ Target' = Target /\ writerPC' = "row" /\ best' = best
        BY <1>1, <1>3, <1>5, <2>2 DEF n
      <3>5. n - 1 <= HeightOf(Target)
        BY <1>2, <1>4
      <3> QED
        BY <3>1, <3>2, <3>3, <3>4, <3>5 DEF TodoOK
    <2> QED
      BY <2>1, <2>2
  <1>7. RowsOK'
    BY <1>1 DEF TablesInv, RowsOK, Summaries!MainRows
  <1>8. StatsOK'
    <2>1. HeightOf(best) \in Nat
      BY <1>4, HeightType
    <2>2. \A h \in 0 .. HeightOf(best) : h \in DOMAIN stats /\ stats[h] = At(best, h)
      BY <1>1 DEF TablesInv, StatsOK
    <2>3. n = 1 => Target = best
      BY <1>1 DEF Target
    <2>4. HeightOf(best) \in DOMAIN stats
      BY <2>1, <2>2
    <2>5. \A h \in DOMAIN stats : h <= HeightOf(Target)
      BY <1>1 DEF TablesInv, StatsOK
    <2> QED
      BY <1>1, <1>5, <2>2, <2>3, <2>4, <2>5 DEF TablesInv, StatsOK
  <1> QED
    BY <1>1, <1>4, <1>6, <1>7, <1>8 DEF TablesInv

LEMMA SummariesImport ==
    ASSUME TablesInv, NEW b \in Block, Summaries!ImportSideChain(b) PROVE TablesInv'
  <1>1. /\ writerPC = "idle" /\ b \notin DOMAIN rows
        /\ rows' = Summaries!With(rows, b, FALSE)
        /\ UNCHANGED <<stats, best, meta, writerPC, writerTodo>>
    BY DEF Summaries!ImportSideChain, Summaries!PutRow
  <1>2. rows' = [x \in DOMAIN rows \cup {b} |-> IF x = b THEN FALSE ELSE rows[x]]
    BY <1>1 DEF Summaries!With
  <1>3. RowsOK'
    BY <1>1, <1>2 DEF TablesInv, RowsOK, Summaries!MainRows
  <1>4. StatsOK' /\ TodoOK'
    BY <1>1, <1>2 DEF TablesInv, StatsOK, TodoOK, Target
  <1> QED
    BY <1>1, <1>3, <1>4 DEF TablesInv

-------------------------------------------------------------------------------
(* The summaries: the answers.                                              *)

\* Between two changes of the chain: what the tables hold.
LEMMA TablesSettled ==
    ASSUME TablesInv, writerPC = "idle"
    PROVE  /\ meta = best /\ best \in Block /\ HeightOf(best) \in Nat
           /\ stats = [h \in 0 .. HeightOf(best) |-> At(best, h)]
           /\ \A h \in 0 .. HeightOf(best) : At(best, h) \in Block /\ HeightOf(At(best, h)) = h
           /\ Summaries!MainRows = {At(best, h) : h \in 0 .. HeightOf(best)}
           /\ Summaries!Joined = {At(best, h) : h \in 0 .. HeightOf(best)}
  <1>1. meta = best /\ best \in Block /\ HeightOf(best) \in Nat
    BY HeightType DEF TablesInv
  <1>2. \A h \in 0 .. HeightOf(best) :
           At(best, h) \in Block /\ IsAncestor(At(best, h), best) /\ HeightOf(At(best, h)) = h
    BY <1>1, AncestorAt
  <1>3. Ancestors(best) = {At(best, h) : h \in 0 .. HeightOf(best)}
    <2>1. \A a \in Block : IsAncestor(a, best) <=> \E h \in 0 .. HeightOf(best) : a = At(best, h)
      BY <1>1, AncestorOnBranch
    <2> QED
      BY <1>2, <2>1 DEF Ancestors
  <1>4. stats = [h \in 0 .. HeightOf(best) |-> At(best, h)]
    <2>1. \A h \in DOMAIN stats : h \in Nat /\ h <= HeightOf(best)
      BY DEF TablesInv, StatsOK
    <2>2. \A h \in 0 .. HeightOf(best) : h \in DOMAIN stats /\ stats[h] = At(best, h)
      BY DEF TablesInv, StatsOK
    <2>3. DOMAIN stats = 0 .. HeightOf(best)
      <3>1. ASSUME NEW h \in DOMAIN stats PROVE h \in 0 .. HeightOf(best)
        BY <1>1, <2>1
      <3>2. \A h \in 0 .. HeightOf(best) : h \in DOMAIN stats
        BY <2>2
      <3> QED
        BY <3>1, <3>2
    <2>4. stats = [h \in DOMAIN stats |-> stats[h]]
      BY DEF TablesInv, StatsOK
    <2> QED
      BY <2>2, <2>3, <2>4
  <1>5. Summaries!MainRows = Ancestors(best)
    BY DEF TablesInv, RowsOK
  <1>6. Summaries!Joined = {At(best, h) : h \in 0 .. HeightOf(best)}
    <2>1. Summaries!MainRows \subseteq DOMAIN rows
      BY DEF Summaries!MainRows
    <2>2. \A b : (\E h \in DOMAIN stats : stats[h] = b) <=> b \in Ancestors(best)
      BY <1>3, <1>4
    <2> QED
      BY <1>3, <1>5, <2>1, <2>2 DEF Summaries!Joined
  <1> QED
    BY <1>1, <1>2, <1>3, <1>4, <1>5, <1>6

\* The blocks of a branch at some heights, by height.
Picks(S, t, hs, n) ==
    /\ hs \in [1 .. n -> 0 .. HeightOf(t)] /\ \A k, l \in 1 .. n : k < l => hs[k] < hs[l]
    /\ S = {At(t, hs[k]) : k \in 1 .. n}

LEMMA BranchOrder ==
    ASSUME NEW t \in Block, NEW n \in Nat, NEW hs, NEW S, Picks(S, t, hs, n)
    PROVE  Summaries!Ascending(S) = [k \in 1 .. n |-> At(t, hs[k])]
  <1> DEFINE m == [k \in 1 .. n |-> At(t, hs[k])]
  <1>1. \A k \in 1 .. n : At(t, hs[k]) \in Block /\ HeightOf(At(t, hs[k])) = hs[k]
    BY AncestorAt DEF Picks
  <1>2. Climbs(m, n)
    BY <1>1 DEF Climbs, Picks
  <1>3. S = {m[k] : k \in 1 .. n}
    BY DEF Picks
  <1> HIDE DEF m
  <1>4. Summaries!Ascending(S) = m
    BY <1>2, <1>3, SortedIsAscending
  <1> QED
    BY <1>4 DEF m

LEMMA OneIs == \A x : Summaries!One({x}) = x
  <1>1. \A x : {x} # {} /\ (CHOOSE b \in {x} : TRUE) = x
    OBVIOUS
  <1> QED
    BY <1>1 DEF Summaries!One

\* The queries for one height, one hash or the whole rest.
LEMMA SingleAnswers ==
    ASSUME TablesInv, writerPC = "idle"
    PROVE  /\ Summaries!RetrieveLatestBlockSummary = best
           /\ \A h \in 0 .. HeightOf(best) :
                /\ Summaries!RetrieveBlockSummary(h) = At(best, h)
                /\ Summaries!RetrieveBlockSize(h) = At(best, h)
                /\ Summaries!RetrieveSDiff(h) = At(best, h)
                /\ Summaries!RetrievePoolInfo(h) = At(best, h)
                /\ Summaries!RetrieveBlockSummaryByHash(At(best, h)) = At(best, h)
                /\ Summaries!GetStakeInfoExtendedByHeight(h) = At(best, h)
                /\ Summaries!ChargePoolInfoCache(h)
                     = {At(best, k) : k \in h .. HeightOf(best)}
  <1> DEFINE top == HeightOf(best)
             M == {At(best, h) : h \in 0 .. top}
  <1>1. /\ best \in Block /\ top \in Nat /\ stats = [h \in 0 .. top |-> At(best, h)]
        /\ \A h \in 0 .. top : At(best, h) \in Block /\ HeightOf(At(best, h)) = h
        /\ Summaries!MainRows = M /\ Summaries!Joined = M
    BY TablesSettled
  <1>2. At(best, top) = best
    BY <1>1, TipOfBranch
  <1> HIDE DEF top
  <1>3. Summaries!RetrieveLatestBlockSummary = best
    <2>1. {b \in M \cap M : \A x \in M \cap M : HeightOf(x) <= HeightOf(b)} = {best}
      BY <1>1, <1>2
    <2>2. Summaries!RetrieveLatestBlockSummary
            = Summaries!One({b \in M \cap M : \A x \in M \cap M : HeightOf(x) <= HeightOf(b)})
      BY <1>1, SameTree DEF Summaries!RetrieveLatestBlockSummary
    <2> QED
      BY <2>1, <2>2, OneIs
  <1>4. ASSUME NEW h \in 0 .. top
        PROVE  /\ Summaries!RetrieveBlockSummary(h) = At(best, h)
               /\ Summaries!RetrieveBlockSize(h) = At(best, h)
               /\ Summaries!RetrieveSDiff(h) = At(best, h)
               /\ Summaries!RetrievePoolInfo(h) = At(best, h)
               /\ Summaries!RetrieveBlockSummaryByHash(At(best, h)) = At(best, h)
               /\ Summaries!GetStakeInfoExtendedByHeight(h) = At(best, h)
               /\ Summaries!ChargePoolInfoCache(h) = {At(best, k) : k \in h .. top}
    <2>1. {b \in M : HeightOf(b) = h} = {At(best, h)}
      BY <1>1
    <2>2. {b \in M : b = At(best, h)} = {At(best, h)}
      OBVIOUS
    <2>3. {b \in M : h \in DOMAIN stats /\ stats[h] = b} = {At(best, h)}
      BY <1>1
    <2>4. /\ Summaries!RetrieveBlockSummary(h) = At(best, h)
          /\ Summaries!RetrieveBlockSize(h) = At(best, h)
          /\ Summaries!RetrieveSDiff(h) = At(best, h)
      BY <1>1, <2>1, OneIs, SameTree DEF Summaries!RetrieveBlockSummary,
         Summaries!RetrieveBlockSize, Summaries!RetrieveSDiff
    <2>5. Summaries!RetrievePoolInfo(h) = At(best, h)
      BY <1>1, <2>3, OneIs DEF Summaries!RetrievePoolInfo
    <2>6. /\ Summaries!RetrieveBlockSummaryByHash(At(best, h)) = At(best, h)
          /\ Summaries!RetrievePoolInfoByHash(At(best, h)) = At(best, h)
      BY <1>1, <2>2, OneIs DEF Summaries!RetrieveBlockSummaryByHash,
         Summaries!RetrievePoolInfoByHash
    <2>7. Summaries!GetStakeInfoExtendedByHeight(h) = At(best, h)
      <3>1. Summaries!One({b \in Summaries!MainRows : Summaries!HeightOf(b) = h}) = At(best, h)
        BY <1>1, <2>1, OneIs, SameTree
      <3> QED
        BY <2>6, <3>1 DEF Summaries!GetStakeInfoExtendedByHeight
    <2>8. Summaries!ChargePoolInfoCache(h) = {At(best, k) : k \in h .. top}
      <3>1. ~(h > top) /\ ~(h < 0)
        BY <1>1
      <3>2. Summaries!ChargePoolInfoCache(h)
              = {b \in M : \E k \in DOMAIN stats : k \in h .. top /\ stats[k] = b}
        BY <1>1, <3>1, SameTree DEF top, Summaries!ChargePoolInfoCache,
           Summaries!RetrievePoolInfoRange
      <3> QED
        BY <1>1, <3>2
    <2> QED
      BY <2>4, <2>5, <2>6, <2>7, <2>8
  <1> QED
    BY <1>3, <1>4 DEF top

\* The queries for a range of heights, up or down, every one or every second.
Upward(i, j) == [k \in 1 .. (j - i + 1) |-> At(best, i + k - 1)]

LEMMA RangeAnswers ==
    ASSUME TablesInv, writerPC = "idle",
           NEW i \in 0 .. HeightOf(best), NEW j \in 0 .. HeightOf(best), i <= j
    PROVE  /\ Summaries!RetrieveBlockSummaryRange(i, j) = Upward(i, j)
           /\ Summaries!RetrieveBlockSummaryRange(j, i) = Summaries!Reverse(Upward(i, j))
           /\ Summaries!InChain(i, j)
           /\ Summaries!RetrieveBlockSizeRange(i, j) = {At(best, k) : k \in i .. j}
  <1> DEFINE top == HeightOf(best)
             M == {At(best, h) : h \in 0 .. top}
             n == j - i + 1
             hs == [k \in 1 .. n |-> i + k - 1]
             S == {At(best, h) : h \in i .. j}
  <1>1. /\ best \in Block /\ top \in Nat
        /\ \A h \in 0 .. top : At(best, h) \in Block /\ HeightOf(At(best, h)) = h
        /\ Summaries!MainRows = M /\ Summaries!Joined = M
    BY TablesSettled
  <1>2. Summaries!Between(M, i, j) = S
    <2>1. Summaries!Between(M, i, j) = {b \in M : HeightOf(b) \in i .. j}
      BY SameTree DEF Summaries!Between
    <2>2. \A h \in i .. j : h \in 0 .. top
      BY <1>1
    <2> HIDE DEF top
    <2> QED
      BY <1>1, <2>1, <2>2
  <1>3. n \in Nat /\ n >= 1 /\ hs \in [1 .. n -> 0 .. top]
    BY <1>1
  <1>4. \A k, l \in 1 .. n : k < l => hs[k] < hs[l]
    OBVIOUS
  <1>5. S = {At(best, hs[k]) : k \in 1 .. n}
    <2>1. ASSUME NEW h \in i .. j PROVE \E k \in 1 .. n : hs[k] = h
      <3>1. h - i + 1 \in 1 .. n /\ hs[h - i + 1] = h
        OBVIOUS
      <3> QED
        BY <3>1
    <2>2. \A k \in 1 .. n : hs[k] \in i .. j
      OBVIOUS
    <2> HIDE DEF hs, n
    <2> QED
      BY <2>1, <2>2
  <1>6. Upward(i, j) = [k \in 1 .. n |-> At(best, hs[k])]
    BY DEF Upward
  <1>7. Summaries!Ascending(S) = Upward(i, j)
    <2> HIDE DEF hs, n, S
    <2>1. Picks(S, best, hs, n)
      BY <1>3, <1>4, <1>5 DEF Picks
    <2> QED
      BY <1>1, <1>3, <1>6, <2>1, BranchOrder
  <1>8. Summaries!RetrieveBlockSummaryRange(i, j) = Upward(i, j)
    <2> HIDE DEF S, M
    <2> QED
      BY <1>1, <1>2, <1>7 DEF Summaries!RetrieveBlockSummaryRange
  <1>9. Summaries!RetrieveBlockSummaryRange(j, i) = Summaries!Reverse(Upward(i, j))
    <2>1. CASE j <= i
      <3>1. i = j /\ n = 1
        BY <1>1, <2>1
      <3>2. Upward(i, j) = <<At(best, i)>>
        BY <3>1 DEF Upward
      <3>3. Summaries!Reverse(<<At(best, i)>>) = <<At(best, i)>>
        BY DEF Summaries!Reverse
      <3> QED
        BY <1>8, <3>1, <3>2, <3>3
    <2>2. CASE ~(j <= i)
      <3> HIDE DEF S, M
      <3> QED
        BY <1>1, <1>2, <1>7, <2>2 DEF Summaries!RetrieveBlockSummaryRange
    <2> QED
      BY <2>1, <2>2
  <1>10. Summaries!InChain(i, j)
    BY <1>1, SameTree DEF Summaries!InChain
  <1>11. Summaries!RetrieveBlockSizeRange(i, j) = S
    <2> HIDE DEF S, M
    <2> QED
      BY <1>1, <1>2 DEF Summaries!RetrieveBlockSizeRange
  <1> QED
    BY <1>8, <1>9, <1>10, <1>11

LEMMA SteppedAnswers ==
    ASSUME TablesInv, writerPC = "idle",
           NEW i \in 0 .. HeightOf(best), NEW j \in 0 .. HeightOf(best), i <= j
    PROVE  /\ Summaries!RetrieveBlockSummaryRangeStepped(i, j, 2)
                = [k \in 1 .. ((j - i) \div 2 + 1) |-> At(best, i + 2 * (k - 1))]
           /\ Summaries!RetrieveBlockSummaryRangeStepped(j, i, 2)
                = [k \in 1 .. ((j - i) \div 2 + 1) |-> At(best, j - 2 * (k - 1))]
  <1> DEFINE top == HeightOf(best)
             M == {At(best, h) : h \in 0 .. top}
             n == (j - i) \div 2 + 1
             Every(r) == {At(best, h) : h \in {x \in i .. j : x % 2 = r % 2}}
             up == [k \in 1 .. n |-> i + 2 * (k - 1)]
             down == [k \in 1 .. n |-> j - 2 * (n - k)]
  <1>1. /\ best \in Block /\ top \in Nat
        /\ \A h \in 0 .. top : At(best, h) \in Block /\ HeightOf(At(best, h)) = h
        /\ Summaries!Joined = M
    BY TablesSettled
  <1>2. ASSUME NEW r
        PROVE  {b \in Summaries!Between(M, i, j) : Summaries!HeightOf(b) % 2 = r % 2} = Every(r)
    <2>1. {b \in Summaries!Between(M, i, j) : Summaries!HeightOf(b) % 2 = r % 2}
            = {b \in M : HeightOf(b) \in i .. j /\ HeightOf(b) % 2 = r % 2}
      BY SameTree DEF Summaries!Between
    <2>2. \A h \in i .. j : h \in 0 .. top
      BY <1>1
    <2> HIDE DEF top
    <2> QED
      BY <1>1, <2>1, <2>2
  <1>3. n \in Nat /\ n >= 1 /\ i + 2 * (n - 1) <= j /\ j - 2 * (n - 1) >= i
    OBVIOUS
  <1>4. /\ up \in [1 .. n -> 0 .. top] /\ down \in [1 .. n -> 0 .. top]
        /\ \A k, l \in 1 .. n : k < l => up[k] < up[l] /\ down[k] < down[l]
    <2> HIDE DEF n, top
    <2>1. \A k \in 1 .. n : /\ i + 2 * (k - 1) \in 0 .. top
                            /\ j - 2 * (n - k) \in 0 .. top
      BY <1>1, <1>3 DEF top
    <2> QED
      BY <1>3, <2>1
  <1>5. Every(i) = {At(best, up[k]) : k \in 1 .. n}
    <2>1. ASSUME NEW h \in i .. j, h % 2 = i % 2 PROVE \E k \in 1 .. n : up[k] = h
      <3> DEFINE k == (h - i) \div 2 + 1
      <3>1. k \in 1 .. n /\ i + 2 * (k - 1) = h
        BY <2>1
      <3> HIDE DEF k, n
      <3>2. up[k] = i + 2 * (k - 1)
        BY <3>1
      <3> QED
        BY <3>1, <3>2
    <2>2. \A k \in 1 .. n : up[k] \in i .. j /\ up[k] % 2 = i % 2
      <3>1. \A k \in 1 .. n : i + 2 * (k - 1) \in i .. j /\ (i + 2 * (k - 1)) % 2 = i % 2
        <4> HIDE DEF n
        <4> QED
          BY <1>3
      <3> QED
        BY <3>1
    <2> HIDE DEF up, n
    <2> QED
      BY <2>1, <2>2
  <1>6. Every(j) = {At(best, down[k]) : k \in 1 .. n}
    <2>1. ASSUME NEW h \in i .. j, h % 2 = j % 2 PROVE \E k \in 1 .. n : down[k] = h
      <3> DEFINE k == n - (j - h) \div 2
      <3>1. k \in 1 .. n /\ j - 2 * (n - k) = h
        BY <2>1
      <3> HIDE DEF k, n
      <3>2. down[k] = j - 2 * (n - k)
        BY <3>1
      <3> QED
        BY <3>1, <3>2
    <2>2. \A k \in 1 .. n : down[k] \in i .. j /\ down[k] % 2 = j % 2
      <3>1. \A k \in 1 .. n : j - 2 * (n - k) \in i .. j /\ (j - 2 * (n - k)) % 2 = j % 2
        <4> HIDE DEF n
        <4> QED
          BY <1>3
      <3> QED
        BY <3>1
    <2> HIDE DEF down, n
    <2> QED
      BY <2>1, <2>2
  <1>7. /\ Summaries!Ascending(Every(i)) = [k \in 1 .. n |-> At(best, up[k])]
        /\ Summaries!Ascending(Every(j)) = [k \in 1 .. n |-> At(best, down[k])]
    <2> HIDE DEF up, down, n, Every
    <2>1. Picks(Every(i), best, up, n) /\ Picks(Every(j), best, down, n)
      BY <1>4, <1>5, <1>6 DEF Picks
    <2> QED
      BY <1>1, <1>3, <2>1, BranchOrder
  <1>8. Summaries!Ascending(Every(i)) = [k \in 1 .. n |-> At(best, i + 2 * (k - 1))]
    <2> HIDE DEF n, Every
    <2> QED
      BY <1>7
  <1>9. Summaries!Reverse(Summaries!Ascending(Every(j)))
          = [k \in 1 .. n |-> At(best, j - 2 * (k - 1))]
    <2> DEFINE a == [k \in 1 .. n |-> At(best, j - 2 * (n - k))]
    <2> HIDE DEF n
    <2>1. Summaries!Ascending(Every(j)) = a
      <3> HIDE DEF Every
      <3> QED
        BY <1>7
    <2>2. Len(a) = n
      BY <1>3
    <2>3. Summaries!Reverse(a) = [k \in 1 .. n |-> a[n - k + 1]]
      <3> HIDE DEF a
      <3> QED
        BY <2>2 DEF Summaries!Reverse
    <2>4. ASSUME NEW k \in 1 .. n PROVE a[n - k + 1] = At(best, j - 2 * (k - 1))
      <3>1. n - k + 1 \in 1 .. n /\ n - (n - k + 1) = k - 1
        BY <1>3
      <3> QED
        BY <3>1
    <2> HIDE DEF a, Every
    <2> QED
      BY <2>1, <2>3, <2>4
  <1>10. Summaries!RetrieveBlockSummaryRangeStepped(i, j, 2) = Summaries!Ascending(Every(i))
    <2> HIDE DEF M, Every
    <2> QED
      BY <1>1, <1>2 DEF Summaries!RetrieveBlockSummaryRangeStepped
  <1>11. Summaries!RetrieveBlockSummaryRangeStepped(j, i, 2)
           = [k \in 1 .. n |-> At(best, j - 2 * (k - 1))]
    <2>1. CASE j <= i
      <3>1. i = j /\ n = 1
        BY <2>1
      <3> HIDE DEF n, Every
      <3> QED
        BY <1>8, <1>10, <3>1
    <2>2. CASE ~(j <= i)
      <3>1. Summaries!RetrieveBlockSummaryRangeStepped(j, i, 2)
              = Summaries!Reverse(Summaries!Ascending(Every(j)))
        <4> HIDE DEF M, Every
        <4> QED
          BY <1>1, <1>2, <2>2 DEF Summaries!RetrieveBlockSummaryRangeStepped
      <3> QED
        BY <1>9, <3>1
    <2> QED
      BY <2>1, <2>2
  <1> QED
    BY <1>8, <1>10, <1>11

LEMMA SummariesAnswer == ASSUME TablesInv PROVE Summaries!SummariesFollowChain
  <1>1. SUFFICES ASSUME writerPC = "idle" PROVE Summaries!SummariesFollowChain
    BY DEF Summaries!SummariesFollowChain
  <1> DEFINE top == HeightOf(best)
             Main(i, j) == [k \in 1 .. (j - i + 1) |-> Summaries!At(best, i + k - 1)]
  <1>2. meta = best /\ Summaries!RetrieveLatestBlockSummary = best
    BY <1>1, TablesSettled, SingleAnswers
  <1>3. ASSUME NEW h \in 0 .. top
        PROVE  /\ {Summaries!RetrieveBlockSummary(h), Summaries!RetrieveBlockSize(h),
                   Summaries!RetrieveSDiff(h), Summaries!RetrievePoolInfo(h),
                   Summaries!RetrieveBlockSummaryByHash(Summaries!At(best, h)),
                   Summaries!GetStakeInfoExtendedByHeight(h)} = {Summaries!At(best, h)}
               /\ Summaries!ChargePoolInfoCache(h) = {Summaries!At(best, k) : k \in h .. top}
    <2>1. \A k : Summaries!At(best, k) = At(best, k)
      BY SameTree
    <2> QED
      BY <1>1, <2>1, SingleAnswers
  <1>4. ASSUME NEW i \in 0 .. top, NEW j \in 0 .. top, i <= j
        PROVE  /\ Summaries!RetrieveBlockSummaryRange(i, j) = Main(i, j)
               /\ Summaries!RetrieveBlockSummaryRange(j, i) = Summaries!Reverse(Main(i, j))
               /\ Summaries!InChain(i, j)
               /\ Summaries!RetrieveBlockSizeRange(i, j)
                    = {Summaries!At(best, k) : k \in i .. j}
    <2>1. \A k : Summaries!At(best, k) = At(best, k)
      BY SameTree
    <2>2. Main(i, j) = Upward(i, j)
      BY <2>1 DEF Upward
    <2> HIDE DEF Main
    <2> QED
      BY <1>1, <1>4, <2>1, <2>2, RangeAnswers
  <1>5. ASSUME NEW i \in 0 .. top, NEW j \in 0 .. top, i <= j
        PROVE  /\ Summaries!RetrieveBlockSummaryRangeStepped(i, j, 2)
                    = [k \in 1 .. ((j - i) \div 2 + 1) |-> Summaries!At(best, i + 2 * (k - 1))]
               /\ Summaries!RetrieveBlockSummaryRangeStepped(j, i, 2)
                    = [k \in 1 .. ((j - i) \div 2 + 1) |-> Summaries!At(best, j - 2 * (k - 1))]
    <2>1. \A k : Summaries!At(best, k) = At(best, k)
      BY SameTree
    <2>2. /\ Summaries!RetrieveBlockSummaryRangeStepped(i, j, 2)
               = [k \in 1 .. ((j - i) \div 2 + 1) |-> At(best, i + 2 * (k - 1))]
          /\ Summaries!RetrieveBlockSummaryRangeStepped(j, i, 2)
               = [k \in 1 .. ((j - i) \div 2 + 1) |-> At(best, j - 2 * (k - 1))]
      BY <1>1, <1>5, SteppedAnswers
    <2> QED
      BY <2>1, <2>2
  <1>6. Summaries!HeightOf(best) = top
    BY SameTree
  <1> HIDE DEF top
  <1> QED
    BY <1>2, <1>3, <1>4, <1>5, <1>6, Zenon DEF Summaries!SummariesFollowChain

-------------------------------------------------------------------------------
(* The summaries: the heap of the cache.                                    *)

CacheField == {"isEnabled", "blockCache", "MainchainBlocks", "bh", "needsReheap",
               "maxHeight", "minHeight", "lessFn"}
Entry == {e \in [hash : Block, height : Int, accesses : Int, time : Int] :
            e.height = HeightOf(e.hash)}
IsCache(c) ==
    /\ c = [x \in CacheField |-> c[x]]
    /\ c.bh \in Seq(Entry) /\ c.maxHeight \in Int /\ c.minHeight \in Int

\* The same cache with its queue in another order.
Orders(c) == Bijection(1 .. Len(c.bh), Range(c.bh))
Shuffled(c) == {[c EXCEPT !.bh = h] : h \in Orders(c)}

LEMMA ShuffleIs ==
    ASSUME NEW c, IsCache(c), NEW d \in Shuffled(c)
    PROVE  /\ IsCache(d) /\ d.bh \in Orders(c) /\ Len(d.bh) = Len(c.bh)
           /\ d.blockCache = c.blockCache /\ d.MainchainBlocks = c.MainchainBlocks
           /\ \A h \in Orders(c) : [d EXCEPT !.bh = h] \in Shuffled(c)
           /\ Len(c.bh) \in Nat
  <1>1. PICK h \in Orders(c) : d = [c EXCEPT !.bh = h]
    BY DEF Shuffled
  <1>2. /\ c = [x \in CacheField |-> c[x]] /\ c.bh \in Seq(Entry)
        /\ c.maxHeight \in Int /\ c.minHeight \in Int
    BY DEF IsCache
  <1>3. d = [x \in CacheField |-> IF x = "bh" THEN h ELSE c[x]]
    BY <1>1, <1>2
  <1>4. Len(c.bh) \in Nat /\ Range(c.bh) \subseteq Entry
    BY <1>2 DEF Range
  <1>5. h \in [1 .. Len(c.bh) -> Entry]
    BY <1>4 DEF Orders, Bijection, Injection
  <1>6. h \in Seq(Entry) /\ Len(h) = Len(c.bh)
    BY <1>4, <1>5
  <1>7. /\ d.bh = h /\ d.maxHeight = c.maxHeight /\ d.minHeight = c.minHeight
        /\ d.blockCache = c.blockCache /\ d.MainchainBlocks = c.MainchainBlocks
    BY <1>3 DEF CacheField
  <1>8. d = [x \in CacheField |-> d[x]]
    BY <1>3
  <1>9. ASSUME NEW gg \in Orders(c) PROVE [d EXCEPT !.bh = gg] \in Shuffled(c)
    <2>1. [d EXCEPT !.bh = gg] = [c EXCEPT !.bh = gg]
      BY <1>2, <1>3
    <2> QED
      BY <2>1 DEF Shuffled
  <1> QED
    BY <1>1, <1>2, <1>4, <1>6, <1>7, <1>8, <1>9 DEF IsCache

LEMMA SwapIs ==
    ASSUME NEW c, IsCache(c), NEW h \in Orders(c),
           NEW i \in 1 .. Len(c.bh), NEW j \in 1 .. Len(c.bh)
    PROVE  Summaries!Swap(h, i, j) \in Orders(c)
  <1> DEFINE n == Len(c.bh)
             R == Range(c.bh)
             gg == Summaries!Swap(h, i, j)
  <1>1. /\ h \in [1 .. n -> R] /\ \A a, b \in 1 .. n : h[a] = h[b] => a = b
        /\ \A e \in R : \E a \in 1 .. n : h[a] = e
    BY DEF Orders, Bijection, Injection, Surjection, IsInjective
  <1> HIDE DEF n, R
  <1>2. i \in 1 .. n /\ j \in 1 .. n
    BY DEF n
  <1>3. gg = [a \in 1 .. n |-> IF a = j THEN h[i] ELSE IF a = i THEN h[j] ELSE h[a]]
    BY <1>1, <1>2 DEF Summaries!Swap
  <1> HIDE DEF gg
  <1>4. gg \in [1 .. n -> R]
    BY <1>1, <1>2, <1>3
  <1>5. \A a, b \in 1 .. n : gg[a] = gg[b] => a = b
    BY <1>1, <1>2, <1>3
  <1>6. ASSUME NEW e \in R PROVE \E a \in 1 .. n : gg[a] = e
    <2>1. PICK a \in 1 .. n : h[a] = e
      BY <1>1
    <2>2. gg[IF a = i THEN j ELSE IF a = j THEN i ELSE a] = e
      BY <1>2, <1>3, <2>1
    <2>3. (IF a = i THEN j ELSE IF a = j THEN i ELSE a) \in 1 .. n
      BY <1>2, <2>1
    <2> QED
      BY <2>2, <2>3
  <1> QED
    BY <1>4, <1>5, <1>6 DEF gg, n, R, Orders, Bijection, Injection, Surjection, IsInjective

\* One level up or down.
LEMMA UpOnceStays ==
    ASSUME NEW c, IsCache(c), NEW d \in Shuffled(c), NEW i \in 1 .. Len(c.bh)
    PROVE  Summaries!UpOnce(d, i) \in Shuffled(c) \X (1 .. Len(c.bh))
  <1> DEFINE p == i \div 2
             gg == Summaries!Swap(d.bh, i, p)
             r == Summaries!UpOnce(d, i)
  <1>1. d.bh \in Orders(c) /\ Len(c.bh) \in Nat
    BY ShuffleIs
  <1>2. (r = <<[d EXCEPT !.bh = gg], p>> /\ i > 1) \/ r = <<d, i>>
    BY DEF Summaries!UpOnce
  <1>3. CASE r = <<[d EXCEPT !.bh = gg], p>> /\ i > 1
    <2>1. p \in 1 .. Len(c.bh)
      BY <1>1, <1>3
    <2> HIDE DEF p, r
    <2>2. gg \in Orders(c)
      BY <1>1, <2>1, SwapIs
    <2> HIDE DEF gg
    <2>3. [d EXCEPT !.bh = gg] \in Shuffled(c)
      BY <2>2, ShuffleIs
    <2> QED
      BY <1>3, <2>1, <2>3 DEF r
  <1>4. CASE r = <<d, i>>
    BY <1>4
  <1> HIDE DEF r, gg, p
  <1> QED
    BY <1>2, <1>3, <1>4 DEF r

LEMMA DownOnceStays ==
    ASSUME NEW c, IsCache(c), NEW d \in Shuffled(c), NEW i \in 1 .. Len(c.bh)
    PROVE  Summaries!DownOnce(d, i) \in Shuffled(c) \X (1 .. Len(c.bh))
  <1> DEFINE kids == {k \in {2 * i, 2 * i + 1} : k <= Len(d.bh)}
             p == IF 2 * i + 1 \in kids /\ Summaries!Less(d, d.bh[2 * i + 1], d.bh[2 * i])
                  THEN 2 * i + 1 ELSE 2 * i
             gg == Summaries!Swap(d.bh, i, p)
             r == Summaries!DownOnce(d, i)
  <1>1. d.bh \in Orders(c) /\ Len(c.bh) \in Nat /\ Len(d.bh) = Len(c.bh)
    BY ShuffleIs
  <1>2. (r = <<[d EXCEPT !.bh = gg], p>> /\ kids # {}) \/ r = <<d, i>>
    BY DEF Summaries!DownOnce
  <1>3. CASE r = <<[d EXCEPT !.bh = gg], p>> /\ kids # {}
    <2>1. p \in 1 .. Len(c.bh)
      <3>1. (p = 2 * i + 1 /\ 2 * i + 1 \in kids) \/ p = 2 * i
        OBVIOUS
      <3> HIDE DEF p, r
      <3> QED
        BY <1>1, <1>3, <3>1
    <2> HIDE DEF p, r, kids
    <2>2. gg \in Orders(c)
      BY <1>1, <2>1, SwapIs
    <2> HIDE DEF gg
    <2>3. [d EXCEPT !.bh = gg] \in Shuffled(c)
      BY <2>2, ShuffleIs
    <2> QED
      BY <1>3, <2>1, <2>3 DEF r
  <1>4. CASE r = <<d, i>>
    BY <1>4
  <1> HIDE DEF r, gg, p, kids
  <1> QED
    BY <1>2, <1>3, <1>4 DEF r

\* heap.Fix and its parts: the queue is the same one in another order.
UpRun(f, c, i) ==
    f = [s \in SUBSET DOMAIN c.bh |->
           IF s = {} THEN <<c, i>>
           ELSE Summaries!UpOnce(f[s \ {Last(s)}][1], f[s \ {Last(s)}][2])]

LEMMA UpIsRun ==
    ASSUME NEW c, NEW i
    PROVE  Summaries!Up(c, i) = (CHOOSE f : UpRun(f, c, i))[DOMAIN c.bh][1]
  BY DEF Summaries!Up, Summaries!FoldLeft, Summaries!MapThenFoldSet, Summaries!Max,
         UpRun, Last

LEMMA UpStays ==
    ASSUME NEW c, IsCache(c), NEW d \in Shuffled(c), NEW i \in 1 .. Len(c.bh)
    PROVE  Summaries!Up(d, i) \in Shuffled(c)
  <1> DEFINE k == Len(c.bh)
             T == Shuffled(c) \X (1 .. k)
             base == <<d, i>>
             G == [q \in (1 .. k) \X T |-> Summaries!UpOnce(q[2][1], q[2][2])]
  <1>1. k \in Nat /\ DOMAIN d.bh = 1 .. k
    BY ShuffleIs DEF IsCache
  <1>2. base \in T
    OBVIOUS
  <1>3. \A at \in T : Summaries!UpOnce(at[1], at[2]) \in T
    <2>1. ASSUME NEW e \in Shuffled(c), NEW j \in 1 .. k
          PROVE  Summaries!UpOnce(e, j) \in T
      BY UpOnceStays
    <2> QED
      BY <2>1
  <1> HIDE DEF k, T, base
  <1>4. G \in [(1 .. k) \X T -> T]
    BY <1>3
  <1>5. \E f : UpRun(f, d, i)
    <2>1. PICK f : IsFold(f, k, base, G) /\ \A s \in SUBSET (1 .. k) : f[s] \in T
      <3> HIDE DEF G
      <3> QED
        BY <1>1, <1>2, <1>4, FoldOn
    <2>2. \A s \in SUBSET (1 .. k) : s # {} =>
             G[<<Last(s), f[s \ {Last(s)}]>>]
               = Summaries!UpOnce(f[s \ {Last(s)}][1], f[s \ {Last(s)}][2])
      <3>1. ASSUME NEW s \in SUBSET (1 .. k), s # {}
            PROVE  Last(s) \in 1 .. k /\ f[s \ {Last(s)}] \in T
        BY <1>1, <2>1, <3>1, LastLess
      <3> QED
        BY <3>1
    <2>3. f = [s \in SUBSET (1 .. k) |->
                 IF s = {} THEN <<d, i>>
                 ELSE Summaries!UpOnce(f[s \ {Last(s)}][1], f[s \ {Last(s)}][2])]
      <3> HIDE DEF G
      <3> QED
        BY <2>1, <2>2 DEF IsFold, base
    <2> QED
      BY <1>1, <2>3 DEF UpRun
  <1> DEFINE f == CHOOSE f : UpRun(f, d, i)
  <1>6. UpRun(f, d, i)
    BY <1>5
  <1> HIDE DEF f
  <1>7. \A s \in SUBSET (1 .. k) :
           f[s] = IF s = {} THEN base
                  ELSE Summaries!UpOnce(f[s \ {Last(s)}][1], f[s \ {Last(s)}][2])
    BY <1>1, <1>6 DEF UpRun, base
  <1>8. f[{}] \in T
    BY <1>2, <1>7
  <1>9. ASSUME NEW s \in SUBSET (1 .. k), s # {}, f[s \ {Last(s)}] \in T PROVE f[s] \in T
    BY <1>3, <1>7, <1>9
  <1>10. f[1 .. k] \in T
    BY <1>1, <1>8, <1>9, FoldStays
  <1>11. f[1 .. k][1] \in Shuffled(c)
    BY <1>10 DEF T
  <1> QED
    BY <1>1, <1>11, UpIsRun DEF f

DownRun(f, c, i) ==
    f = [s \in SUBSET DOMAIN c.bh |->
           IF s = {} THEN <<c, i>>
           ELSE Summaries!DownOnce(f[s \ {Last(s)}][1], f[s \ {Last(s)}][2])]

LEMMA DownIsRun ==
    ASSUME NEW c, NEW i
    PROVE  Summaries!Down(c, i) = (CHOOSE f : DownRun(f, c, i))[DOMAIN c.bh][1]
  BY DEF Summaries!Down, Summaries!FoldLeft, Summaries!MapThenFoldSet, Summaries!Max,
         DownRun, Last

LEMMA DownStays ==
    ASSUME NEW c, IsCache(c), NEW d \in Shuffled(c), NEW i \in 1 .. Len(c.bh)
    PROVE  Summaries!Down(d, i) \in Shuffled(c)
  <1> DEFINE k == Len(c.bh)
             T == Shuffled(c) \X (1 .. k)
             base == <<d, i>>
             G == [q \in (1 .. k) \X T |-> Summaries!DownOnce(q[2][1], q[2][2])]
  <1>1. k \in Nat /\ DOMAIN d.bh = 1 .. k
    BY ShuffleIs DEF IsCache
  <1>2. base \in T
    OBVIOUS
  <1>3. \A at \in T : Summaries!DownOnce(at[1], at[2]) \in T
    <2>1. ASSUME NEW e \in Shuffled(c), NEW j \in 1 .. k
          PROVE  Summaries!DownOnce(e, j) \in T
      BY DownOnceStays
    <2> QED
      BY <2>1
  <1> HIDE DEF k, T, base
  <1>4. G \in [(1 .. k) \X T -> T]
    BY <1>3
  <1>5. \E f : DownRun(f, d, i)
    <2>1. PICK f : IsFold(f, k, base, G) /\ \A s \in SUBSET (1 .. k) : f[s] \in T
      <3> HIDE DEF G
      <3> QED
        BY <1>1, <1>2, <1>4, FoldOn
    <2>2. \A s \in SUBSET (1 .. k) : s # {} =>
             G[<<Last(s), f[s \ {Last(s)}]>>]
               = Summaries!DownOnce(f[s \ {Last(s)}][1], f[s \ {Last(s)}][2])
      <3>1. ASSUME NEW s \in SUBSET (1 .. k), s # {}
            PROVE  Last(s) \in 1 .. k /\ f[s \ {Last(s)}] \in T
        BY <1>1, <2>1, <3>1, LastLess
      <3> QED
        BY <3>1
    <2>3. f = [s \in SUBSET (1 .. k) |->
                 IF s = {} THEN <<d, i>>
                 ELSE Summaries!DownOnce(f[s \ {Last(s)}][1], f[s \ {Last(s)}][2])]
      <3> HIDE DEF G
      <3> QED
        BY <2>1, <2>2 DEF IsFold, base
    <2> QED
      BY <1>1, <2>3 DEF DownRun
  <1> DEFINE f == CHOOSE f : DownRun(f, d, i)
  <1>6. DownRun(f, d, i)
    BY <1>5
  <1> HIDE DEF f
  <1>7. \A s \in SUBSET (1 .. k) :
           f[s] = IF s = {} THEN base
                  ELSE Summaries!DownOnce(f[s \ {Last(s)}][1], f[s \ {Last(s)}][2])
    BY <1>1, <1>6 DEF DownRun, base
  <1>8. f[{}] \in T
    BY <1>2, <1>7
  <1>9. ASSUME NEW s \in SUBSET (1 .. k), s # {}, f[s \ {Last(s)}] \in T PROVE f[s] \in T
    BY <1>3, <1>7, <1>9
  <1>10. f[1 .. k] \in T
    BY <1>1, <1>8, <1>9, FoldStays
  <1>11. f[1 .. k][1] \in Shuffled(c)
    BY <1>10 DEF T
  <1> QED
    BY <1>1, <1>11, DownIsRun DEF f

\* What a cache keeps when its queue is put in another order.
Alike(c, d) ==
    /\ IsCache(d) /\ d.bh \in Orders(c) /\ Len(d.bh) = Len(c.bh)
    /\ d.blockCache = c.blockCache /\ d.MainchainBlocks = c.MainchainBlocks

ReheapBase(c) == [c EXCEPT !.needsReheap = FALSE]
ReheapRun(f, c) ==
    LET half == Len(c.bh) \div 2
        upTo == [k \in 1 .. half |-> k]
    IN  f = [s \in SUBSET DOMAIN upTo |->
               IF s = {} THEN ReheapBase(c)
               ELSE Summaries!Down(f[s \ {Last(s)}], half + 1 - upTo[Last(s)])]

LEMMA ReheapIsRun ==
    ASSUME NEW c
    PROVE  Summaries!Reheap(c) = (CHOOSE f : ReheapRun(f, c))[DOMAIN [k \in 1 .. (Len(c.bh) \div 2) |-> k]]
  BY DEF Summaries!Reheap, Summaries!FoldLeft, Summaries!MapThenFoldSet, Summaries!Max,
         ReheapRun, ReheapBase, Last

LEMMA ReheapKeeps ==
    ASSUME NEW c, IsCache(c), c.bh \in Orders(c) PROVE Alike(c, Summaries!Reheap(c))
  <1> DEFINE b == ReheapBase(c)
             half == Len(c.bh) \div 2
             T == Shuffled(b)
             G == [q \in (1 .. half) \X T |-> Summaries!Down(q[2], half + 1 - q[1])]
  <1>1. /\ IsCache(b) /\ b.bh = c.bh /\ b.blockCache = c.blockCache
        /\ b.MainchainBlocks = c.MainchainBlocks /\ Orders(b) = Orders(c)
    <2>1. /\ c = [x \in CacheField |-> c[x]] /\ c.bh \in Seq(Entry)
          /\ c.maxHeight \in Int /\ c.minHeight \in Int
      BY DEF IsCache
    <2>2. b = [x \in CacheField |-> IF x = "needsReheap" THEN FALSE ELSE c[x]]
      BY <2>1 DEF ReheapBase, CacheField
    <2> HIDE DEF b
    <2>3. /\ b = [x \in CacheField |-> b[x]] /\ b.bh = c.bh /\ b.blockCache = c.blockCache
          /\ b.MainchainBlocks = c.MainchainBlocks /\ b.maxHeight = c.maxHeight
          /\ b.minHeight = c.minHeight
      BY <2>2 DEF CacheField
    <2> QED
      BY <2>1, <2>3 DEF IsCache, Orders
  <1>2. b \in T
    <2>1. b = [b EXCEPT !.bh = c.bh]
      <3> HIDE DEF b
      <3>1. b = [x \in CacheField |-> b[x]]
        BY <1>1 DEF IsCache
      <3> QED
        BY <1>1, <3>1
    <2> HIDE DEF b
    <2> QED
      BY <1>1, <2>1 DEF Shuffled
  <1>3. half \in Nat /\ Len(c.bh) \in Nat /\ half <= Len(c.bh) /\ DOMAIN [k \in 1 .. half |-> k] = 1 .. half
    <2>1. Len(c.bh) \in Nat
      BY DEF IsCache
    <2> DEFINE n == Len(c.bh)
    <2> HIDE DEF n
    <2>2. n \in Nat => n \div 2 \in Nat /\ n \div 2 <= n
      OBVIOUS
    <2>3. half \in Nat /\ half <= Len(c.bh)
      BY <2>1, <2>2 DEF n
    <2> QED
      BY <2>1, <2>3
  <1> HIDE DEF half
  <1>4. \A k \in 1 .. half : \A d \in T : Summaries!Down(d, half + 1 - k) \in T
    <2>1. ASSUME NEW k \in 1 .. half, NEW d \in T PROVE Summaries!Down(d, half + 1 - k) \in T
      <3> DEFINE i == half + 1 - k
      <3>1. i \in 1 .. Len(b.bh)
        <4> HIDE DEF b
        <4> QED
          BY <1>1, <1>3
      <3> HIDE DEF b, i
      <3>2. Summaries!Down(d, i) \in T
        BY <1>1, <3>1, DownStays
      <3> QED
        BY <3>2 DEF i
    <2> QED
      BY <2>1
  <1> HIDE DEF T, b
  <1>5. G \in [(1 .. half) \X T -> T]
    BY <1>4
  <1>6. \E f : ReheapRun(f, c)
    <2>1. PICK f : IsFold(f, half, b, G) /\ \A s \in SUBSET (1 .. half) : f[s] \in T
      <3> HIDE DEF G
      <3> QED
        BY <1>2, <1>3, <1>5, FoldOn
    <2>2. \A s \in SUBSET (1 .. half) : s # {} =>
             /\ Last(s) \in 1 .. half
             /\ G[<<Last(s), f[s \ {Last(s)}]>>]
                  = Summaries!Down(f[s \ {Last(s)}], half + 1 - Last(s))
      <3>1. ASSUME NEW s \in SUBSET (1 .. half), s # {}
            PROVE  Last(s) \in 1 .. half /\ f[s \ {Last(s)}] \in T
        BY <1>3, <2>1, <3>1, LastLess
      <3> QED
        BY <3>1
    <2>3. f = [s \in SUBSET (1 .. half) |->
                 IF s = {} THEN b
                 ELSE Summaries!Down(f[s \ {Last(s)}], half + 1 - [k \in 1 .. half |-> k][Last(s)])]
      <3> HIDE DEF G
      <3> QED
        BY <2>1, <2>2 DEF IsFold
    <2> QED
      BY <1>3, <2>3 DEF ReheapRun, b, half
  <1> DEFINE f == CHOOSE f : ReheapRun(f, c)
  <1>7. ReheapRun(f, c)
    BY <1>6
  <1> HIDE DEF f
  <1>8. \A s \in SUBSET (1 .. half) :
           f[s] = IF s = {} THEN b
                  ELSE Summaries!Down(f[s \ {Last(s)}], half + 1 - [k \in 1 .. half |-> k][Last(s)])
    <2>1. f = [s \in SUBSET (1 .. half) |->
                 IF s = {} THEN b
                 ELSE Summaries!Down(f[s \ {Last(s)}], half + 1 - [k \in 1 .. half |-> k][Last(s)])]
      BY <1>3, <1>7 DEF ReheapRun, b, half
    <2> QED
      BY <2>1
  <1>9. f[{}] \in T
    BY <1>2, <1>8
  <1>10. ASSUME NEW s \in SUBSET (1 .. half), s # {}, f[s \ {Last(s)}] \in T PROVE f[s] \in T
    <2>1. Last(s) \in 1 .. half
      BY <1>3, <1>10, LastLess
    <2> QED
      BY <1>4, <1>8, <1>10, <2>1
  <1>11. f[1 .. half] \in T
    BY <1>3, <1>9, <1>10, FoldStays
  <1>12. Summaries!Reheap(c) = f[1 .. half]
    BY <1>3, ReheapIsRun DEF f, half
  <1> DEFINE r == Summaries!Reheap(c)
  <1>13. r \in Shuffled(b)
    BY <1>11, <1>12 DEF T
  <1> HIDE DEF r
  <1> QED
    BY <1>1, <1>13, ShuffleIs DEF Alike, r

\* The heights that the cache has seen.
WithRange(c, p) == [c EXCEPT !.maxHeight = p[1], !.minHeight = p[2]]
Ranged(c) == {WithRange(c, p) : p \in Int \X Int}

LEMMA RangedIs ==
    ASSUME NEW c, NEW a \in Int, NEW b \in Int
    PROVE  [c EXCEPT !.maxHeight = a, !.minHeight = b] \in Ranged(c)
  <1>1. <<a, b>> \in Int \X Int /\ WithRange(c, <<a, b>>) \in Ranged(c)
    BY DEF Ranged
  <1> QED
    BY <1>1 DEF WithRange

LEMMA RangeIs ==
    ASSUME NEW c, IsCache(c), NEW d \in Ranged(c)
    PROVE  /\ IsCache(d) /\ d.bh = c.bh /\ d.blockCache = c.blockCache
           /\ d.MainchainBlocks = c.MainchainBlocks
           /\ \A h \in Int : Summaries!updateMinMax(d, h) \in Ranged(c)
  <1>1. PICK a \in Int, b \in Int : d = [c EXCEPT !.maxHeight = a, !.minHeight = b]
    <2>1. PICK p \in Int \X Int : d = WithRange(c, p)
      BY DEF Ranged
    <2>2. p[1] \in Int /\ p[2] \in Int
      BY <2>1
    <2> QED
      BY <2>1, <2>2 DEF WithRange
  <1>2. /\ c = [x \in CacheField |-> c[x]] /\ c.bh \in Seq(Entry)
        /\ c.maxHeight \in Int /\ c.minHeight \in Int
    BY DEF IsCache
  <1>3. d = [x \in CacheField |-> IF x = "maxHeight" THEN a
                                  ELSE IF x = "minHeight" THEN b ELSE c[x]]
    BY <1>1, <1>2
  <1>4. /\ d.bh = c.bh /\ d.blockCache = c.blockCache /\ d.maxHeight = a /\ d.minHeight = b
        /\ d.MainchainBlocks = c.MainchainBlocks /\ d = [x \in CacheField |-> d[x]]
    BY <1>3 DEF CacheField
  <1>5. ASSUME NEW h \in Int PROVE Summaries!updateMinMax(d, h) \in Ranged(c)
    <2> DEFINE x == IF h > a THEN h ELSE a
               y == IF h < b THEN h ELSE b
    <2>1. Summaries!updateMinMax(d, h) = [d EXCEPT !.maxHeight = x, !.minHeight = y]
      BY <1>4 DEF Summaries!updateMinMax
    <2>2. x \in Int /\ y \in Int
      OBVIOUS
    <2> HIDE DEF x, y
    <2>3. [d EXCEPT !.maxHeight = x, !.minHeight = y] = [c EXCEPT !.maxHeight = x, !.minHeight = y]
      BY <1>2, <1>3
    <2> QED
      BY <2>1, <2>2, <2>3, RangedIs
  <1> QED
    BY <1>1, <1>2, <1>4, <1>5 DEF IsCache

RescanRun(f, c) ==
    f = [s \in SUBSET DOMAIN c.bh |->
           IF s = {} THEN c
           ELSE Summaries!updateMinMax(f[s \ {Last(s)}], c.bh[Last(s)].height)]

LEMMA RescanIsRun ==
    ASSUME NEW c
    PROVE  Summaries!RescanMinMax(c) = (CHOOSE f : RescanRun(f, c))[DOMAIN c.bh]
  BY DEF Summaries!RescanMinMax, Summaries!FoldLeft, Summaries!MapThenFoldSet, Summaries!Max,
         RescanRun, Last

LEMMA RescanKeeps ==
    ASSUME NEW c, IsCache(c) PROVE Summaries!RescanMinMax(c) \in Ranged(c)
  <1> DEFINE k == Len(c.bh)
             T == Ranged(c)
             G == [q \in (1 .. k) \X T |-> Summaries!updateMinMax(q[2], c.bh[q[1]].height)]
  <1>1. k \in Nat /\ DOMAIN c.bh = 1 .. k /\ \A i \in 1 .. k : c.bh[i].height \in Int
    <2>1. c.bh \in Seq(Entry)
      BY DEF IsCache
    <2>2. \A e \in Entry : e.height \in Int
      BY DEF Entry
    <2> QED
      BY <2>1, <2>2
  <1>2. c \in T
    <2>1. /\ c = [x \in CacheField |-> c[x]] /\ c.maxHeight \in Int /\ c.minHeight \in Int
      BY DEF IsCache
    <2>2. c = [c EXCEPT !.maxHeight = c.maxHeight, !.minHeight = c.minHeight]
      BY <2>1
    <2> QED
      BY <2>1, <2>2, RangedIs
  <1>3. \A i \in 1 .. k : \A d \in T : Summaries!updateMinMax(d, c.bh[i].height) \in T
    BY <1>1, RangeIs
  <1> HIDE DEF k, T
  <1>4. G \in [(1 .. k) \X T -> T]
    BY <1>3
  <1>5. \E f : RescanRun(f, c)
    <2>1. PICK f : IsFold(f, k, c, G) /\ \A s \in SUBSET (1 .. k) : f[s] \in T
      <3> HIDE DEF G
      <3> QED
        BY <1>1, <1>2, <1>4, FoldOn
    <2>2. \A s \in SUBSET (1 .. k) : s # {} =>
             G[<<Last(s), f[s \ {Last(s)}]>>]
               = Summaries!updateMinMax(f[s \ {Last(s)}], c.bh[Last(s)].height)
      <3>1. ASSUME NEW s \in SUBSET (1 .. k), s # {}
            PROVE  Last(s) \in 1 .. k /\ f[s \ {Last(s)}] \in T
        BY <1>1, <2>1, <3>1, LastLess
      <3> QED
        BY <3>1
    <2>3. f = [s \in SUBSET (1 .. k) |->
                 IF s = {} THEN c
                 ELSE Summaries!updateMinMax(f[s \ {Last(s)}], c.bh[Last(s)].height)]
      <3> HIDE DEF G
      <3> QED
        BY <2>1, <2>2 DEF IsFold
    <2> QED
      BY <1>1, <2>3 DEF RescanRun
  <1> DEFINE f == CHOOSE f : RescanRun(f, c)
  <1>6. RescanRun(f, c)
    BY <1>5
  <1> HIDE DEF f
  <1>7. \A s \in SUBSET (1 .. k) :
           f[s] = IF s = {} THEN c
                  ELSE Summaries!updateMinMax(f[s \ {Last(s)}], c.bh[Last(s)].height)
    BY <1>1, <1>6 DEF RescanRun
  <1>8. f[{}] \in T
    BY <1>2, <1>7
  <1>9. ASSUME NEW s \in SUBSET (1 .. k), s # {}, f[s \ {Last(s)}] \in T PROVE f[s] \in T
    <2>1. Last(s) \in 1 .. k
      BY <1>1, <1>9, LastLess
    <2> QED
      BY <1>3, <1>7, <1>9, <2>1
  <1>10. f[1 .. k] \in T
    BY <1>1, <1>8, <1>9, FoldStays
  <1> QED
    BY <1>1, <1>10, RescanIsRun DEF f, T

-------------------------------------------------------------------------------
(* The summaries: the operations of the cache.                              *)

\* The queue holds the hashes H, each once, and no more than the capacity.
QueueOK(c, H) ==
    /\ IsCache(c) /\ Len(c.bh) <= Capacity
    /\ \A i, j \in 1 .. Len(c.bh) : c.bh[i].hash = c.bh[j].hash => i = j
    /\ \A x : x \in H <=> \E i \in 1 .. Len(c.bh) : c.bh[i].hash = x

\* Both maps are those of another cache.
SameMaps(c, d) == d.blockCache = c.blockCache /\ d.MainchainBlocks = c.MainchainBlocks

LEMMA QueueTypes ==
    ASSUME NEW c, IsCache(c)
    PROVE  /\ Len(c.bh) \in Nat /\ DOMAIN c.bh = 1 .. Len(c.bh)
           /\ \A i \in 1 .. Len(c.bh) : /\ c.bh[i] \in Entry /\ c.bh[i].hash \in Block
                                        /\ c.bh[i].height = HeightOf(c.bh[i].hash)
  <1>1. c.bh \in Seq(Entry)
    BY DEF IsCache
  <1>2. \A e \in Entry : e.hash \in Block /\ e.height = HeightOf(e.hash)
    BY DEF Entry
  <1> QED
    BY <1>1, <1>2

LEMMA SelfOrder ==
    ASSUME NEW c, NEW H, QueueOK(c, H) PROVE c.bh \in Orders(c) /\ c \in Shuffled(c)
  <1>1. IsCache(c) /\ \A i, j \in 1 .. Len(c.bh) : c.bh[i].hash = c.bh[j].hash => i = j
    BY DEF QueueOK
  <1>2. c.bh \in Orders(c)
    <2>1. Len(c.bh) \in Nat /\ DOMAIN c.bh = 1 .. Len(c.bh) /\ c.bh \in Seq(Entry)
      BY <1>1, QueueTypes DEF IsCache
    <2>2. \A e \in Range(c.bh) : \E i \in 1 .. Len(c.bh) : c.bh[i] = e
      BY <2>1 DEF Range
    <2>3. c.bh \in [1 .. Len(c.bh) -> Range(c.bh)]
      BY <2>1 DEF Range
    <2>4. \A i, j \in 1 .. Len(c.bh) : c.bh[i] = c.bh[j] => i = j
      BY <1>1
    <2> QED
      BY <2>2, <2>3, <2>4 DEF Orders, Bijection, Injection, Surjection, IsInjective
  <1>3. c = [c EXCEPT !.bh = c.bh]
    <2>1. c = [x \in CacheField |-> c[x]]
      BY <1>1 DEF IsCache
    <2> QED
      BY <2>1
  <1> QED
    BY <1>2, <1>3 DEF Shuffled

LEMMA AlikeKeeps ==
    ASSUME NEW c, NEW d, NEW H, QueueOK(c, H), Alike(c, d)
    PROVE  QueueOK(d, H) /\ SameMaps(c, d)
  <1> DEFINE n == Len(c.bh)
  <1>1. /\ IsCache(c) /\ n <= Capacity
        /\ \A x : x \in H <=> \E i \in 1 .. n : c.bh[i].hash = x
        /\ \A i, j \in 1 .. n : c.bh[i].hash = c.bh[j].hash => i = j
    BY DEF QueueOK
  <1>2. IsCache(d) /\ d.bh \in Orders(c) /\ Len(d.bh) = n /\ SameMaps(c, d)
    BY DEF Alike, SameMaps
  <1>3. DOMAIN c.bh = 1 .. n
    BY <1>1, QueueTypes
  <1>4. /\ \A i \in 1 .. n : \E a \in 1 .. n : d.bh[i] = c.bh[a]
        /\ \A i, j \in 1 .. n : d.bh[i] = d.bh[j] => i = j
        /\ \A a \in 1 .. n : \E i \in 1 .. n : d.bh[i] = c.bh[a]
    <2>1. /\ d.bh \in [1 .. n -> Range(c.bh)]
          /\ \A i, j \in 1 .. n : d.bh[i] = d.bh[j] => i = j
          /\ \A e \in Range(c.bh) : \E i \in 1 .. n : d.bh[i] = e
      BY <1>2 DEF Orders, Bijection, Injection, Surjection, IsInjective
    <2>2. \A e : e \in Range(c.bh) <=> \E a \in 1 .. n : e = c.bh[a]
      BY <1>3 DEF Range
    <2> HIDE DEF n
    <2> QED
      BY <2>1, <2>2
  <1> HIDE DEF n
  <1>5. ASSUME NEW i \in 1 .. n, NEW j \in 1 .. n, d.bh[i].hash = d.bh[j].hash PROVE i = j
    <2>1. PICK a \in 1 .. n : d.bh[i] = c.bh[a]
      BY <1>4
    <2>2. PICK z \in 1 .. n : d.bh[j] = c.bh[z]
      BY <1>4
    <2>3. a = z
      BY <1>1, <1>5, <2>1, <2>2
    <2> QED
      BY <1>4, <2>1, <2>2, <2>3
  <1>6. \A x : x \in H <=> \E i \in 1 .. n : d.bh[i].hash = x
    <2>1. ASSUME NEW x \in H PROVE \E i \in 1 .. n : d.bh[i].hash = x
      <3>1. PICK a \in 1 .. n : c.bh[a].hash = x
        BY <1>1
      <3>2. PICK i \in 1 .. n : d.bh[i] = c.bh[a]
        BY <1>4
      <3> QED
        BY <3>1, <3>2
    <2>2. ASSUME NEW x, NEW i \in 1 .. n, d.bh[i].hash = x PROVE x \in H
      <3>1. PICK a \in 1 .. n : d.bh[i] = c.bh[a]
        BY <1>4
      <3> QED
        BY <1>1, <2>2, <3>1
    <2> QED
      BY <2>1, <2>2
  <1> QED
    BY <1>1, <1>2, <1>5, <1>6 DEF QueueOK

LEMMA ShuffledAlike ==
    ASSUME NEW c, IsCache(c), NEW d \in Shuffled(c) PROVE Alike(c, d)
  BY ShuffleIs DEF Alike

LEMMA RangedKeeps ==
    ASSUME NEW c, NEW H, QueueOK(c, H), NEW d \in Ranged(c)
    PROVE  QueueOK(d, H) /\ SameMaps(c, d)
  <1>1. IsCache(c)
    BY DEF QueueOK
  <1>2. IsCache(d) /\ d.bh = c.bh /\ SameMaps(c, d)
    BY <1>1, RangeIs DEF SameMaps
  <1> QED
    BY <1>2 DEF QueueOK

LEMMA SelfRanged == ASSUME NEW c, IsCache(c) PROVE c \in Ranged(c)
  <1>1. /\ c = [x \in CacheField |-> c[x]] /\ c.maxHeight \in Int /\ c.minHeight \in Int
    BY DEF IsCache
  <1>2. c = [c EXCEPT !.maxHeight = c.maxHeight, !.minHeight = c.minHeight]
    BY <1>1
  <1> QED
    BY <1>1, <1>2, RangedIs

\* Another queue for the same maps.
LEMMA QueuePut ==
    ASSUME NEW c, IsCache(c), NEW h \in Seq(Entry)
    PROVE  /\ IsCache([c EXCEPT !.bh = h]) /\ [c EXCEPT !.bh = h].bh = h
           /\ SameMaps(c, [c EXCEPT !.bh = h])
  <1> DEFINE d == [c EXCEPT !.bh = h]
  <1>1. /\ c = [x \in CacheField |-> c[x]] /\ c.maxHeight \in Int /\ c.minHeight \in Int
    BY DEF IsCache
  <1>2. d = [x \in CacheField |-> IF x = "bh" THEN h ELSE c[x]]
    BY <1>1
  <1> HIDE DEF d
  <1>3. /\ d = [x \in CacheField |-> d[x]] /\ d.bh = h /\ d.maxHeight = c.maxHeight
        /\ d.minHeight = c.minHeight /\ d.blockCache = c.blockCache
        /\ d.MainchainBlocks = c.MainchainBlocks
    BY <1>2 DEF CacheField
  <1>4. IsCache(d) /\ d.bh = h /\ SameMaps(c, d)
    BY <1>1, <1>3 DEF IsCache, SameMaps
  <1> QED
    BY <1>4 DEF d

\* A block's place in the queue.
Queued(b, now) == Summaries!newCachedBlock(Summaries!Item(b), now)

LEMMA QueuedIs ==
    ASSUME NEW b \in Block, NEW now \in Int
    PROVE  /\ Queued(b, now) \in Entry /\ Queued(b, now).hash = b
           /\ Summaries!Item(b).hash = b /\ Summaries!Item(b).height = HeightOf(b)
           /\ HeightOf(b) \in Int
  <1>1. Summaries!Item(b) = [hash |-> b, height |-> HeightOf(b)] /\ HeightOf(b) \in Nat
    BY SameTree, HeightType DEF Summaries!Item
  <1>2. Queued(b, now) = [hash |-> b, height |-> HeightOf(b), accesses |-> 1, time |-> now]
    BY <1>1 DEF Queued, Summaries!newCachedBlock
  <1> QED
    BY <1>1, <1>2 DEF Entry

LEMMA PushKeeps ==
    ASSUME NEW c, NEW H, QueueOK(c, H), Len(c.bh) < Capacity, Capacity \in Nat,
           NEW b \in Block, b \notin H, NEW now \in Int
    PROVE  /\ QueueOK(Summaries!Push(c, Summaries!Item(b), now), H \cup {b})
           /\ SameMaps(c, Summaries!Push(c, Summaries!Item(b), now))
  <1> DEFINE n == Len(c.bh)
             h == Append(c.bh, Queued(b, now))
             d == [c EXCEPT !.bh = h]
             e == Summaries!updateMinMax(d, HeightOf(b))
             r == Summaries!Up(e, n + 1)
  <1>1. /\ IsCache(c) /\ n \in Nat /\ c.bh \in Seq(Entry)
        /\ \A x : x \in H <=> \E i \in 1 .. n : c.bh[i].hash = x
        /\ \A i, j \in 1 .. n : c.bh[i].hash = c.bh[j].hash => i = j
    BY QueueTypes DEF QueueOK, IsCache
  <1>2. /\ Queued(b, now) \in Entry /\ Queued(b, now).hash = b /\ HeightOf(b) \in Int
        /\ Summaries!Item(b).height = HeightOf(b)
    BY QueuedIs
  <1>3. /\ h \in Seq(Entry) /\ Len(h) = n + 1 /\ h[n + 1].hash = b
        /\ \A i \in 1 .. n : h[i] = c.bh[i]
    BY <1>1, <1>2
  <1>4. IsCache(d) /\ d.bh = h /\ SameMaps(c, d)
    BY <1>1, <1>3, QueuePut
  <1>5. QueueOK(d, H \cup {b})
    <2> HIDE DEF n, h, d
    <2>1. \A i \in 1 .. (n + 1) : i \in 1 .. n \/ i = n + 1
      BY <1>1
    <2>2. \A i \in 1 .. n : h[i].hash \in H
      BY <1>1, <1>3
    <2>3. \A i, j \in 1 .. (n + 1) : h[i].hash = h[j].hash => i = j
      BY <1>1, <1>3, <2>1, <2>2
    <2>4. \A x : x \in H \cup {b} <=> \E i \in 1 .. (n + 1) : h[i].hash = x
      <3>1. n + 1 \in 1 .. (n + 1) /\ \A i \in 1 .. n : i \in 1 .. (n + 1)
        BY <1>1
      <3>2. ASSUME NEW x \in H PROVE \E i \in 1 .. (n + 1) : h[i].hash = x
        <4>1. PICK i \in 1 .. n : c.bh[i].hash = x
          BY <1>1
        <4> QED
          BY <1>3, <3>1, <4>1
      <3>3. \E i \in 1 .. (n + 1) : h[i].hash = b
        BY <1>3, <3>1
      <3>4. \A i \in 1 .. (n + 1) : h[i].hash \in H \cup {b}
        BY <1>3, <2>1, <2>2
      <3> QED
        BY <3>2, <3>3, <3>4
    <2>5. n + 1 <= Capacity
      BY <1>1 DEF n
    <2> QED
      BY <1>3, <1>4, <2>3, <2>4, <2>5 DEF QueueOK
  <1> HIDE DEF d, h
  <1>6. e \in Ranged(d)
    BY <1>2, <1>4, SelfRanged, RangeIs
  <1>7. QueueOK(e, H \cup {b}) /\ SameMaps(d, e) /\ Len(e.bh) = n + 1
    <2>1. IsCache(e) /\ e.bh = d.bh
      BY <1>4, <1>6, RangeIs
    <2> QED
      BY <1>3, <1>4, <1>5, <1>6, <2>1, RangedKeeps
  <1> HIDE DEF e
  <1>8. IsCache(e) /\ e \in Shuffled(e)
    BY <1>7, SelfOrder DEF QueueOK
  <1>9. r \in Shuffled(e)
    <2>1. n + 1 \in 1 .. Len(e.bh)
      BY <1>1, <1>7
    <2> QED
      BY <1>8, <2>1, UpStays
  <1> HIDE DEF r
  <1>10. QueueOK(r, H \cup {b}) /\ SameMaps(e, r)
    BY <1>7, <1>8, <1>9, ShuffledAlike, AlikeKeeps
  <1>11. Summaries!Push(c, Summaries!Item(b), now) = r
    BY <1>2, <1>3, <1>4 DEF Summaries!Push, Queued, d, h, e, r
  <1> QED
    BY <1>4, <1>7, <1>10, <1>11 DEF SameMaps

LEMMA UpdateKeeps ==
    ASSUME NEW c, NEW H, QueueOK(c, H), Len(c.bh) > 0, NEW b \in Block, b \notin H, NEW now \in Int
    PROVE  /\ QueueOK(Summaries!UpdateBlock(c, Summaries!Item(b), now), (H \ {c.bh[1].hash}) \cup {b})
           /\ SameMaps(c, Summaries!UpdateBlock(c, Summaries!Item(b), now))
  <1> DEFINE n == Len(c.bh)
             q == Queued(b, now)
             h == [c.bh EXCEPT ![1] = q]
             d == [c EXCEPT !.bh = h]
             e == Summaries!Down(d, 1)
             gone == c.bh[1].height
             r == Summaries!RescanMinMaxForUpdate(e, HeightOf(b), gone)
             HH == (H \ {c.bh[1].hash}) \cup {b}
  <1>1. /\ IsCache(c) /\ n \in Nat /\ c.bh \in Seq(Entry)
        /\ \A x : x \in H <=> \E i \in 1 .. n : c.bh[i].hash = x
        /\ \A i, j \in 1 .. n : c.bh[i].hash = c.bh[j].hash => i = j
        /\ n <= Capacity /\ 1 \in 1 .. n /\ DOMAIN c.bh = 1 .. n
    <2>1. IsCache(c)
      BY DEF QueueOK
    <2>2. n \in Nat /\ DOMAIN c.bh = 1 .. n /\ c.bh \in Seq(Entry)
      BY <2>1, QueueTypes DEF IsCache
    <2>3. 1 \in 1 .. n
      BY <2>2
    <2> QED
      BY <2>1, <2>2, <2>3 DEF QueueOK
  <1>2. /\ q \in Entry /\ q.hash = b /\ HeightOf(b) \in Int
        /\ Summaries!Item(b).height = HeightOf(b)
    BY QueuedIs
  <1> HIDE DEF q
  <1>3. /\ h \in Seq(Entry) /\ Len(h) = n /\ h[1] = q
        /\ \A i \in 1 .. n : i # 1 => h[i] = c.bh[i]
    BY <1>1, <1>2
  <1> HIDE DEF h
  <1>4. IsCache(d) /\ d.bh = h /\ SameMaps(c, d)
    BY <1>1, <1>3, QueuePut
  <1>5. QueueOK(d, HH)
    <2> HIDE DEF n, d
    <2>1. \A i \in 1 .. n : c.bh[i].hash \in H
      BY <1>1
    <2>2. \A i, j \in 1 .. n : h[i].hash = h[j].hash => i = j
      BY <1>1, <1>2, <1>3, <2>1
    <2>3. \A x : x \in HH <=> \E i \in 1 .. n : h[i].hash = x
      <3>1. ASSUME NEW i \in 1 .. n PROVE h[i].hash \in HH
        <4>1. CASE i = 1
          BY <1>2, <1>3, <4>1
        <4>2. CASE i # 1
          BY <1>1, <1>3, <2>1, <4>2
        <4> QED
          BY <4>1, <4>2
      <3>2. ASSUME NEW x \in HH PROVE \E i \in 1 .. n : h[i].hash = x
        <4>1. CASE x = b
          BY <1>1, <1>2, <1>3, <4>1
        <4>2. CASE x \in H /\ x # c.bh[1].hash
          <5>1. PICK i \in 1 .. n : x = c.bh[i].hash
            BY <1>1, <4>2
          <5> QED
            BY <1>3, <4>2, <5>1
        <4> QED
          BY <4>1, <4>2
      <3> QED
        BY <3>1, <3>2
    <2> HIDE DEF HH
    <2> QED
      BY <1>1, <1>3, <1>4, <2>2, <2>3 DEF QueueOK
  <1> HIDE DEF d, HH
  <1>6. QueueOK(e, HH) /\ SameMaps(d, e)
    <2>1. d \in Shuffled(d) /\ 1 \in 1 .. Len(d.bh)
      BY <1>1, <1>3, <1>4, <1>5, SelfOrder
    <2>2. e \in Shuffled(d)
      BY <1>4, <2>1, DownStays
    <2> HIDE DEF e
    <2> QED
      BY <1>4, <1>5, <2>2, ShuffledAlike, AlikeKeeps
  <1> HIDE DEF e, gone
  <1>7. r \in Ranged(e)
    <2>1. IsCache(e)
      BY <1>6 DEF QueueOK
    <2>2. e \in Ranged(e) /\ Summaries!RescanMinMax(e) \in Ranged(e)
      BY <2>1, SelfRanged, RescanKeeps
    <2>3. \A f \in Ranged(e) : Summaries!updateMinMax(f, HeightOf(b)) \in Ranged(e)
      BY <1>2, <2>1, RangeIs
    <2> QED
      BY <2>2, <2>3 DEF Summaries!RescanMinMaxForUpdate
  <1> HIDE DEF r
  <1>8. QueueOK(r, HH) /\ SameMaps(e, r)
    BY <1>6, <1>7, RangedKeeps
  <1>9. Summaries!UpdateBlock(c, Summaries!Item(b), now) = r
    <2>1. [c EXCEPT !.bh[1] = q] = d
      BY DEF d, h
    <2> QED
      BY <1>2, <2>1 DEF Summaries!UpdateBlock, Queued, q, e, gone, r
  <1> QED
    BY <1>4, <1>6, <1>8, <1>9 DEF SameMaps, HH

\* The cache is one: the queue holds the map's hashes, and the index leads to
\* blocks of the map, at their own height.
CacheOK(c) ==
    /\ QueueOK(c, DOMAIN c.blockCache)
    /\ \A h \in DOMAIN c.MainchainBlocks :
          /\ c.MainchainBlocks[h] \in DOMAIN c.blockCache
          /\ HeightOf(c.MainchainBlocks[h]) = h

\* The same cache with other maps.
MapsSet(c, d, m, i) == d = [c EXCEPT !.blockCache = m, !.MainchainBlocks = i]

LEMMA MapsPut ==
    ASSUME NEW c, NEW H, QueueOK(c, H), NEW m, NEW i, NEW d, MapsSet(c, d, m, i)
    PROVE  QueueOK(d, H) /\ d.blockCache = m /\ d.MainchainBlocks = i /\ d.bh = c.bh
  <1>1. /\ IsCache(c) /\ c = [x \in CacheField |-> c[x]] /\ c.maxHeight \in Int
        /\ c.minHeight \in Int
    BY DEF QueueOK, IsCache
  <1>2. d = [x \in CacheField |-> IF x = "MainchainBlocks" THEN i
                                  ELSE IF x = "blockCache" THEN m ELSE c[x]]
    BY <1>1 DEF CacheField, MapsSet
  <1>3. /\ d = [x \in CacheField |-> d[x]] /\ d.bh = c.bh /\ d.maxHeight = c.maxHeight
        /\ d.minHeight = c.minHeight /\ d.blockCache = m /\ d.MainchainBlocks = i
    BY <1>2 DEF CacheField
  <1>4. IsCache(d)
    BY <1>1, <1>3 DEF IsCache
  <1>5. QueueOK(d, H)
    BY <1>3, <1>4 DEF QueueOK
  <1> QED
    BY <1>3, <1>5

\* A cache with another value of a field that no one of these is.
LEMMA FlagPut ==
    ASSUME NEW c, CacheOK(c), NEW x \in {"isEnabled", "lessFn", "needsReheap"}, NEW v
    PROVE  CacheOK([c EXCEPT ![x] = v])
  <1> DEFINE d == [c EXCEPT ![x] = v]
  <1>1. /\ IsCache(c) /\ c = [y \in CacheField |-> c[y]] /\ c.maxHeight \in Int
        /\ c.minHeight \in Int
    BY DEF CacheOK, QueueOK, IsCache
  <1>2. d = [y \in CacheField |-> IF y = x THEN v ELSE c[y]]
    BY <1>1
  <1> HIDE DEF d
  <1>3. /\ d = [y \in CacheField |-> d[y]] /\ d.bh = c.bh /\ d.maxHeight = c.maxHeight
        /\ d.minHeight = c.minHeight /\ d.blockCache = c.blockCache
        /\ d.MainchainBlocks = c.MainchainBlocks
    BY <1>2 DEF CacheField
  <1>4. IsCache(d)
    BY <1>1, <1>3 DEF IsCache
  <1>5. QueueOK(d, DOMAIN d.blockCache)
    BY <1>3, <1>4 DEF CacheOK, QueueOK
  <1>6. CacheOK(d)
    BY <1>3, <1>5 DEF CacheOK
  <1> QED
    BY <1>6 DEF d

\* What Insert answers: nothing added, a block added, or one added for another.
Inserted(c, b, r) ==
    \/ r.c = c /\ ~r.added /\ r.removed = <<>>
    \/ /\ r.added /\ r.removed = <<>>
       /\ QueueOK(r.c, DOMAIN c.blockCache \cup {b}) /\ SameMaps(c, r.c)
    \/ /\ r.added /\ r.removed = <<c.bh[1]>> /\ Len(c.bh) > 0
       /\ QueueOK(r.c, (DOMAIN c.blockCache \ {c.bh[1].hash}) \cup {b}) /\ SameMaps(c, r.c)

LEMMA InsertIs ==
    ASSUME NEW c, CacheOK(c), NEW b \in Block, b \notin DOMAIN c.blockCache, NEW now \in Int
    PROVE  Inserted(c, b, Summaries!Insert(c, Summaries!Item(b), now))
  <1> DEFINE i == Summaries!Item(b)
             r == Summaries!Insert(c, i, now)
  <1>1. QueueOK(c, DOMAIN c.blockCache) /\ Capacity \in Nat /\ Len(c.bh) \in Nat
    BY QueueTypes, SummariesAssumption DEF Summaries!SummariesConstants, CacheOK, QueueOK
  <1>2. \/ r = [c |-> c, added |-> FALSE, removed |-> <<>>]
        \/ /\ Len(c.bh) < Capacity
           /\ r = [c |-> Summaries!Push(c, i, now), added |-> TRUE, removed |-> <<>>]
        \/ /\ ~(Len(c.bh) < Capacity) /\ Capacity # 0
           /\ r = [c |-> Summaries!UpdateBlock(c, i, now), added |-> TRUE,
                   removed |-> <<c.bh[1]>>]
    BY DEF Summaries!Insert
  <1> SUFFICES Inserted(c, b, r)
    OBVIOUS
  <1> HIDE DEF r
  <1>3. CASE r = [c |-> c, added |-> FALSE, removed |-> <<>>]
    <2>1. r.c = c /\ ~r.added /\ r.removed = <<>>
      BY <1>3
    <2> QED
      BY <2>1 DEF Inserted
  <1>4. CASE /\ Len(c.bh) < Capacity
             /\ r = [c |-> Summaries!Push(c, i, now), added |-> TRUE, removed |-> <<>>]
    <2> DEFINE e == Summaries!Push(c, i, now)
    <2>1. QueueOK(e, DOMAIN c.blockCache \cup {b}) /\ SameMaps(c, e)
      BY <1>1, <1>4, PushKeeps
    <2>2. r.c = e /\ r.added /\ r.removed = <<>>
      BY <1>4
    <2> HIDE DEF e
    <2> QED
      BY <2>1, <2>2 DEF Inserted
  <1>5. CASE /\ ~(Len(c.bh) < Capacity) /\ Capacity # 0
             /\ r = [c |-> Summaries!UpdateBlock(c, i, now), added |-> TRUE,
                     removed |-> <<c.bh[1]>>]
    <2> DEFINE e == Summaries!UpdateBlock(c, i, now)
    <2>1. Len(c.bh) > 0
      BY <1>1, <1>5
    <2>2. QueueOK(e, (DOMAIN c.blockCache \ {c.bh[1].hash}) \cup {b}) /\ SameMaps(c, e)
      BY <1>1, <2>1, UpdateKeeps
    <2>3. r.c = e /\ r.added /\ r.removed = <<c.bh[1]>>
      BY <1>5
    <2> HIDE DEF e
    <2> QED
      BY <2>1, <2>2, <2>3 DEF Inserted
  <1> QED
    BY <1>2, <1>3, <1>4, <1>5

LEMMA InsertBlockKeeps ==
    ASSUME NEW c, CacheOK(c), NEW b \in Block, b \notin DOMAIN c.blockCache,
           NEW entry, NEW now \in Int
    PROVE  CacheOK(Summaries!InsertBlock(c, Summaries!Item(b), entry, now))
  <1> DEFINE i == Summaries!Item(b)
             r == Summaries!Insert(c, i, now)
             z == Summaries!InsertBlock(c, i, entry, now)
             m == c.blockCache
             ix == c.MainchainBlocks
             x == c.bh[1]
  <1>1. /\ QueueOK(c, DOMAIN m) /\ IsCache(c)
        /\ \A h \in DOMAIN ix : ix[h] \in DOMAIN m /\ HeightOf(ix[h]) = h
    BY DEF CacheOK, QueueOK
  <1>2. i.hash = b /\ i.height = HeightOf(b)
    BY QueuedIs
  <1>3. Inserted(c, b, r)
    BY InsertIs
  <1> HIDE DEF r, i
  <1>4. CASE r.c = c /\ ~r.added /\ r.removed = <<>>
    <2>1. z = c
      BY <1>4 DEF Summaries!InsertBlock, r
    <2> QED
      BY <2>1 DEF i
  <1>5. CASE /\ r.added /\ r.removed = <<>>
             /\ QueueOK(r.c, DOMAIN m \cup {b}) /\ SameMaps(c, r.c)
    <2> DEFINE mm == Summaries!With(m, b, entry)
               ii == Summaries!With(ix, HeightOf(b), b)
               d == [r.c EXCEPT !.blockCache = mm, !.MainchainBlocks = ii]
    <2>1. z = d
      BY <1>2, <1>5 DEF Summaries!InsertBlock, r, SameMaps
    <2>2. DOMAIN mm = DOMAIN m \cup {b}
      BY DEF Summaries!With
    <2>3. \A h \in DOMAIN ii : ii[h] \in DOMAIN mm /\ HeightOf(ii[h]) = h
      BY <1>1, <2>2 DEF Summaries!With
    <2> HIDE DEF mm, ii
    <2>4. QueueOK(d, DOMAIN m \cup {b}) /\ d.blockCache = mm /\ d.MainchainBlocks = ii
      <3>1. MapsSet(r.c, d, mm, ii)
        BY DEF MapsSet
      <3> HIDE DEF m, d
      <3> QED
        BY <1>5, <3>1, MapsPut
    <2> HIDE DEF d, z, m
    <2> QED
      BY <2>1, <2>2, <2>3, <2>4 DEF CacheOK, z, i
  <1>6. CASE /\ r.added /\ r.removed = <<x>> /\ Len(c.bh) > 0
             /\ QueueOK(r.c, (DOMAIN m \ {x.hash}) \cup {b}) /\ SameMaps(c, r.c)
    <2> DEFINE mm == Summaries!With(Summaries!Without(m, x.hash), b, entry)
               ii == Summaries!With(Summaries!Without(ix, x.height), HeightOf(b), b)
               gg == Summaries!Forget(r.c, x)
               d == [gg EXCEPT !.blockCache = mm, !.MainchainBlocks = ii]
    <2>1. x.height = HeightOf(x.hash)
      <3>1. Len(c.bh) \in Nat /\ 1 \in 1 .. Len(c.bh)
        BY <1>1, <1>6, QueueTypes
      <3> QED
        BY <1>1, <3>1, QueueTypes
    <2>2. /\ gg = [r.c EXCEPT !.blockCache = Summaries!Without(m, x.hash),
                             !.MainchainBlocks = Summaries!Without(ix, x.height)]
      BY <1>6 DEF Summaries!Forget, SameMaps
    <2>3. /\ QueueOK(gg, (DOMAIN m \ {x.hash}) \cup {b})
          /\ gg.blockCache = Summaries!Without(m, x.hash)
          /\ gg.MainchainBlocks = Summaries!Without(ix, x.height)
      <3>1. MapsSet(r.c, gg, Summaries!Without(m, x.hash), Summaries!Without(ix, x.height))
        BY <2>2 DEF MapsSet
      <3> HIDE DEF gg, m, ix, x
      <3> QED
        BY <1>6, <3>1, MapsPut
    <2>4. z = d
      <3>1. r.removed # <<>> /\ r.removed[1] = x
        BY <1>6
      <3>2. z = [gg EXCEPT !.blockCache = Summaries!With(@, b, entry),
                          !.MainchainBlocks = Summaries!With(@, HeightOf(b), b)]
        <4> HIDE DEF x
        <4> QED
          BY <1>2, <1>6, <3>1 DEF Summaries!InsertBlock, r
      <3> HIDE DEF gg
      <3> QED
        BY <2>3, <3>2
    <2>5. DOMAIN mm = (DOMAIN m \ {x.hash}) \cup {b}
      BY DEF Summaries!With, Summaries!Without
    <2>6. \A h \in DOMAIN ii : ii[h] \in DOMAIN mm /\ HeightOf(ii[h]) = h
      <3>1. ASSUME NEW h \in DOMAIN ii PROVE ii[h] \in DOMAIN mm /\ HeightOf(ii[h]) = h
        <4>1. CASE h = HeightOf(b)
          <5>1. ii[h] = b
            BY <4>1 DEF Summaries!With, Summaries!Without
          <5> QED
            BY <2>5, <4>1, <5>1
        <4>2. CASE h # HeightOf(b)
          <5>1. h \in DOMAIN ix /\ h # x.height /\ ii[h] = ix[h]
            BY <4>2 DEF Summaries!With, Summaries!Without
          <5> HIDE DEF ii, mm, ix, m, x
          <5> QED
            BY <1>1, <2>1, <2>5, <5>1
        <4> QED
          BY <4>1, <4>2
      <3> QED
        BY <3>1
    <2> HIDE DEF mm, ii, gg
    <2>7. /\ QueueOK(d, (DOMAIN m \ {x.hash}) \cup {b}) /\ d.blockCache = mm
          /\ d.MainchainBlocks = ii
      <3>1. MapsSet(gg, d, mm, ii)
        BY DEF MapsSet
      <3> HIDE DEF d
      <3> QED
        BY <2>3, <3>1, MapsPut
    <2> HIDE DEF d, z, m, x
    <2> QED
      BY <2>4, <2>5, <2>6, <2>7 DEF CacheOK, z, i
  <1> HIDE DEF z, m, x
  <1> QED
    BY <1>3, <1>4, <1>5, <1>6 DEF Inserted, z, i, m, x

\* The maps may change their entries: the hashes are what matters.
LEMMA EntryPut ==
    ASSUME NEW c, CacheOK(c), NEW m, DOMAIN m = DOMAIN c.blockCache
    PROVE  CacheOK([c EXCEPT !.blockCache = m])
  <1> DEFINE d == [c EXCEPT !.blockCache = m]
             e == [c EXCEPT !.blockCache = m, !.MainchainBlocks = c.MainchainBlocks]
  <1>1. QueueOK(c, DOMAIN m)
    BY DEF CacheOK
  <1>2. /\ QueueOK(e, DOMAIN m) /\ e.blockCache = m
        /\ e.MainchainBlocks = c.MainchainBlocks
    <2>1. MapsSet(c, e, m, c.MainchainBlocks)
      BY DEF MapsSet
    <2> HIDE DEF e
    <2> QED
      BY <1>1, <2>1, MapsPut
  <1>3. d = e
    <2>1. c = [x \in CacheField |-> c[x]]
      BY DEF CacheOK, QueueOK, IsCache
    <2> QED
      BY <2>1
  <1> HIDE DEF d, e
  <1>4. CacheOK(d)
    BY <1>2, <1>3 DEF CacheOK
  <1> QED
    BY <1>4 DEF d

LEMMA StoreKeeps ==
    ASSUME NEW c, CacheOK(c), NEW b \in Block, NEW now \in Int
    PROVE  /\ CacheOK(Summaries!StoreBlockSummary(c, Summaries!Item(b), now))
           /\ CacheOK(Summaries!StoreStakeInfo(c, Summaries!Item(b), now))
  <1> DEFINE i == Summaries!Item(b)
             plain == [c.blockCache EXCEPT ![b].summary = "plain"]
             stake == [c.blockCache EXCEPT ![b].stakeInfo = TRUE]
             s1 == [summary |-> "plain", stakeInfo |-> FALSE]
             s2 == [summary |-> "none", stakeInfo |-> TRUE]
  <1>1. i.hash = b
    BY QueuedIs
  <1>2. /\ CacheOK([c EXCEPT !.blockCache = plain])
        /\ CacheOK([c EXCEPT !.blockCache = stake])
    <2>1. DOMAIN plain = DOMAIN c.blockCache /\ DOMAIN stake = DOMAIN c.blockCache
      OBVIOUS
    <2> HIDE DEF plain, stake
    <2> QED
      BY <2>1, EntryPut
  <1>3. b \notin DOMAIN c.blockCache =>
           /\ CacheOK(Summaries!InsertBlock(c, i, s1, now))
           /\ CacheOK(Summaries!InsertBlock(c, i, s2, now))
    <2> HIDE DEF s1, s2
    <2> QED
      BY InsertBlockKeeps
  <1> HIDE DEF i
  <1>4. \/ Summaries!StoreBlockSummary(c, i, now) = c
        \/ /\ b \notin DOMAIN c.blockCache
           /\ Summaries!StoreBlockSummary(c, i, now) = Summaries!InsertBlock(c, i, s1, now)
        \/ Summaries!StoreBlockSummary(c, i, now) = [c EXCEPT !.blockCache = plain]
    BY <1>1 DEF Summaries!StoreBlockSummary
  <1>5. \/ Summaries!StoreStakeInfo(c, i, now) = c
        \/ /\ b \notin DOMAIN c.blockCache
           /\ Summaries!StoreStakeInfo(c, i, now) = Summaries!InsertBlock(c, i, s2, now)
        \/ Summaries!StoreStakeInfo(c, i, now) = [c EXCEPT !.blockCache = stake]
    BY <1>1 DEF Summaries!StoreStakeInfo
  <1> HIDE DEF plain, stake, s1, s2
  <1>6. /\ CacheOK(Summaries!StoreBlockSummary(c, i, now))
        /\ CacheOK(Summaries!StoreStakeInfo(c, i, now))
    BY <1>2, <1>3, <1>4, <1>5
  <1> QED
    BY <1>6 DEF i

LEMMA RemoveKeeps ==
    ASSUME NEW c, CacheOK(c), NEW h
    PROVE  CacheOK(Summaries!RemoveCachedBlockByHeight(c, h))
  <1> DEFINE ix == Summaries!Without(c.MainchainBlocks, h)
             d == [c EXCEPT !.MainchainBlocks = ix]
             e == [c EXCEPT !.blockCache = c.blockCache, !.MainchainBlocks = ix]
  <1>1. \A y \in DOMAIN ix : y \in DOMAIN c.MainchainBlocks /\ ix[y] = c.MainchainBlocks[y]
    BY DEF Summaries!Without
  <1> HIDE DEF ix
  <1>2. /\ QueueOK(e, DOMAIN c.blockCache) /\ e.blockCache = c.blockCache
        /\ e.MainchainBlocks = ix
    <2>1. MapsSet(c, e, c.blockCache, ix) /\ QueueOK(c, DOMAIN c.blockCache)
      BY DEF MapsSet, CacheOK
    <2> HIDE DEF e
    <2> QED
      BY <2>1, MapsPut
  <1>3. d = e
    <2>1. c = [x \in CacheField |-> c[x]]
      BY DEF CacheOK, QueueOK, IsCache
    <2> QED
      BY <2>1
  <1>4. Summaries!RemoveCachedBlockByHeight(c, h) \in {c, d}
    BY DEF Summaries!RemoveCachedBlockByHeight, Summaries!removeCachedBlock, ix
  <1> HIDE DEF d, e
  <1>5. CacheOK(d)
    BY <1>1, <1>2, <1>3 DEF CacheOK
  <1> QED
    BY <1>4, <1>5

LEMMA ReheapKeepsCache == ASSUME NEW c, CacheOK(c) PROVE CacheOK(Summaries!Reheap(c))
  <1> DEFINE d == Summaries!Reheap(c)
  <1>1. QueueOK(c, DOMAIN c.blockCache) /\ IsCache(c)
    BY DEF CacheOK, QueueOK
  <1>2. Alike(c, d)
    BY <1>1, SelfOrder, ReheapKeeps
  <1> HIDE DEF d
  <1>3. QueueOK(d, DOMAIN c.blockCache) /\ SameMaps(c, d)
    BY <1>1, <1>2, AlikeKeeps
  <1>4. CacheOK(d)
    BY <1>3 DEF CacheOK, SameMaps
  <1> QED
    BY <1>4 DEF d

LEMMA NewCacheOK == CacheOK(Summaries!NewAPICache)
  <1> DEFINE c == Summaries!NewAPICache
  <1>1. /\ c = [x \in CacheField |-> c[x]] /\ c.bh = <<>> /\ c.maxHeight \in Int
        /\ c.minHeight \in Int /\ c.blockCache = <<>> /\ c.MainchainBlocks = <<>>
    BY DEF Summaries!NewAPICache, CacheField
  <1>2. Capacity \in Nat
    BY SummariesAssumption DEF Summaries!SummariesConstants
  <1> HIDE DEF c
  <1>3. IsCache(c)
    <2>1. <<>> \in Seq(Entry)
      OBVIOUS
    <2>2. c.bh \in Seq(Entry)
      BY <1>1, <2>1
    <2> QED
      BY <1>1, <2>2 DEF IsCache
  <1>4. QueueOK(c, DOMAIN c.blockCache)
    BY <1>1, <1>2, <1>3 DEF QueueOK
  <1>5. CacheOK(c)
    BY <1>1, <1>4 DEF CacheOK
  <1> QED
    BY <1>5 DEF c

LEMMA CacheIsOne == ASSUME CacheOK(apic) PROVE Summaries!ApiCacheIsOne
  <1> DEFINE n == Len(apic.bh)
             D == DOMAIN apic.blockCache
             f == [i \in 1 .. n |-> apic.bh[i].hash]
  <1>1. /\ n \in Nat /\ n <= Capacity /\ DOMAIN apic.bh = 1 .. n
        /\ \A i, j \in 1 .. n : apic.bh[i].hash = apic.bh[j].hash => i = j
        /\ \A x : x \in D <=> \E i \in 1 .. n : apic.bh[i].hash = x
    BY QueueTypes DEF CacheOK, QueueOK
  <1>2. Summaries!IsInjective(apic.bh)
    BY <1>1 DEF Summaries!IsInjective
  <1>3. {apic.bh[i].hash : i \in DOMAIN apic.bh} = D
    <2> HIDE DEF n, D
    <2> QED
      BY <1>1
  <1>4. Summaries!Cardinality(D) = n
    <2>1. f \in Bijection(1 .. n, D)
      <3> HIDE DEF n, D
      <3>1. f \in [1 .. n -> D] /\ \A i, j \in 1 .. n : f[i] = f[j] => i = j
        BY <1>1
      <3>2. \A x \in D : \E i \in 1 .. n : f[i] = x
        BY <1>1
      <3> HIDE DEF f
      <3> QED
        BY <3>1, <3>2 DEF Bijection, Injection, Surjection, IsInjective
    <2>2. IsFiniteSet(1 .. n) /\ Cardinality(1 .. n) = n
      BY <1>1, FS_Interval
    <2>3. Cardinality(D) = n
      <3> HIDE DEF D, f, n
      <3> QED
        BY <2>1, <2>2, FS_Bijection DEF ExistsBijection
    <2> QED
      BY <2>3 DEF Summaries!Cardinality, Cardinality
  <1>5. \A h \in DOMAIN apic.MainchainBlocks :
           /\ apic.MainchainBlocks[h] \in D
           /\ Summaries!HeightOf(apic.MainchainBlocks[h]) = h
    BY SameTree DEF CacheOK
  <1> QED
    BY <1>1, <1>2, <1>3, <1>4, <1>5 DEF Summaries!ApiCacheIsOne

-------------------------------------------------------------------------------
(* The summaries: the request under way, and the invariant.                 *)

ReqField == {"at", "kind", "h", "hash", "using", "found"}

\* The request for the best block's summary has a height with a row in stats.
ReqOK ==
    /\ clock \in Nat
    /\ req = [x \in ReqField |-> req[x]]
    /\ req.at = "store" => req.found \in Block
    /\ req.kind = "best" => /\ req.at \in {"cache", "db"} => req.h \in DOMAIN stats
                            /\ req.at = "done" => req.found # NoBlock

SummaryInv == TablesInv /\ CacheOK(apic) /\ ReqOK

LEMMA SummariesStart == ASSUME Summaries!Init PROVE SummaryInv
  <1>1. TablesInv
    BY TablesStart
  <1>2. apic = Summaries!NewAPICache /\ clock = 0 /\ req = Summaries!NoReq
    BY DEF Summaries!Init
  <1>3. CacheOK(apic)
    BY <1>2, NewCacheOK
  <1>4. /\ req = [x \in ReqField |-> req[x]] /\ req.at = "none" /\ req.kind = "none"
    BY <1>2 DEF ReqField, Summaries!NoReq
  <1> QED
    BY <1>1, <1>2, <1>3, <1>4 DEF ReqOK, SummaryInv

LEMMA SummariesRest ==
    ASSUME SummaryInv, UNCHANGED summaryVars PROVE SummaryInv'
  <1>1. UNCHANGED <<rows, stats, best, meta, writerPC, writerTodo, apic, clock, req>>
    BY DEF summaryVars
  <1>2. TablesInv'
    BY <1>1, TablesRest DEF SummaryInv
  <1>3. CacheOK(apic)' /\ ReqOK'
    BY <1>1 DEF SummaryInv, ReqOK
  <1> QED
    BY <1>2, <1>3 DEF SummaryInv

\* A step of the chain writer takes no row of stats away.
LEMMA WriterSteps ==
    ASSUME TablesInv, NEW b \in Block,
           \/ Summaries!Connect(b) \/ Summaries!Reorg(b) \/ Summaries!ImportSideChain(b)
           \/ Summaries!TipToSideChain \/ Summaries!StoreRow \/ Summaries!StoreBest
           \/ Summaries!InsertBlockStats \/ Summaries!SetDBBestBlock
    PROVE  TablesInv' /\ DOMAIN stats \subseteq DOMAIN stats' /\ UNCHANGED <<apic, clock, req>>
  <1>1. CASE Summaries!Connect(b)
    BY <1>1, SummariesConnect DEF Summaries!Connect
  <1>2. CASE Summaries!Reorg(b)
    BY <1>2, SummariesReorg DEF Summaries!Reorg
  <1>3. CASE Summaries!ImportSideChain(b)
    BY <1>3, SummariesImport DEF Summaries!ImportSideChain
  <1>4. CASE Summaries!TipToSideChain
    BY <1>4, SummariesTip DEF Summaries!TipToSideChain
  <1>5. CASE Summaries!StoreRow
    BY <1>5, SummariesRow DEF Summaries!StoreRow
  <1>6. CASE Summaries!StoreBest
    BY <1>6, SummariesBest DEF Summaries!StoreBest
  <1>7. CASE Summaries!InsertBlockStats
    <2>1. stats' = Summaries!With(stats, Summaries!HeightOf(writerTodo[1]), writerTodo[1])
      BY <1>7 DEF Summaries!InsertBlockStats, Summaries!UpsertStats
    <2>2. DOMAIN stats \subseteq DOMAIN stats'
      BY <2>1 DEF Summaries!With
    <2> QED
      BY <1>7, <2>2, SummariesStats DEF Summaries!InsertBlockStats
  <1>8. CASE Summaries!SetDBBestBlock
    BY <1>8, SummariesMeta DEF Summaries!SetDBBestBlock
  <1> QED
    BY <1>1, <1>2, <1>3, <1>4, <1>5, <1>6, <1>7, <1>8

LEMMA WriterKeeps ==
    ASSUME SummaryInv, TablesInv', DOMAIN stats \subseteq DOMAIN stats',
           UNCHANGED <<apic, clock, req>>
    PROVE  SummaryInv'
  <1>1. ReqOK'
    BY DEF SummaryInv, ReqOK
  <1>2. CacheOK(apic)'
    BY DEF SummaryInv
  <1> QED
    BY <1>1, <1>2 DEF SummaryInv

\* A request's step leaves the tables alone.
LEMMA ReaderKeeps ==
    ASSUME SummaryInv, UNCHANGED Summaries!chain, CacheOK(apic)', ReqOK'
    PROVE  SummaryInv'
  <1>1. UNCHANGED <<rows, stats, best, meta, writerPC, writerTodo>>
    BY DEF Summaries!chain
  <1>2. TablesInv'
    BY <1>1, TablesRest DEF SummaryInv
  <1> QED
    BY <1>2 DEF SummaryInv

\* The answers of the database.
LEMMA FoundIs ==
    ASSUME TablesInv
    PROVE  /\ NoBlock \notin Block
           /\ \A h \in DOMAIN stats : Summaries!RetrieveBlockSummary(h) \in Block
           /\ \A h : Summaries!RetrieveBlockSummary(h) \in Block \cup {NoBlock}
           /\ \A b : Summaries!RetrieveBlockSummaryByHash(b) \in Block \cup {NoBlock}
  <1>1. /\ DOMAIN rows \subseteq Block
        /\ \A h \in DOMAIN stats : stats[h] \in DOMAIN rows /\ HeightOf(stats[h]) = h
    BY DEF TablesInv, RowsOK, StatsOK
  <1>2. \A S : S \subseteq Block => Summaries!One(S) \in Block \cup {NoBlock}
    BY DEF Summaries!One
  <1>3. \A S : S \subseteq Block /\ S # {} => Summaries!One(S) \in Block
    BY DEF Summaries!One
  <1>4. Summaries!Joined \subseteq Block /\ \A h \in DOMAIN stats : stats[h] \in Summaries!Joined
    BY <1>1 DEF Summaries!Joined
  <1>5. ASSUME NEW h
        PROVE  /\ Summaries!RetrieveBlockSummary(h) \in Block \cup {NoBlock}
               /\ h \in DOMAIN stats => Summaries!RetrieveBlockSummary(h) \in Block
    <2> DEFINE S == {x \in Summaries!Joined : Summaries!HeightOf(x) = h}
    <2>1. S \subseteq Block /\ (h \in DOMAIN stats => stats[h] \in S)
      BY <1>1, <1>4, SameTree
    <2>2. Summaries!RetrieveBlockSummary(h) = Summaries!One(S)
      BY DEF Summaries!RetrieveBlockSummary
    <2> HIDE DEF S
    <2> QED
      BY <1>2, <1>3, <2>1, <2>2
  <1>6. ASSUME NEW b PROVE Summaries!RetrieveBlockSummaryByHash(b) \in Block \cup {NoBlock}
    <2> DEFINE S == {x \in Summaries!Joined : x = b}
    <2>1. S \subseteq Block
      BY <1>4
    <2>2. Summaries!RetrieveBlockSummaryByHash(b) = Summaries!One(S)
      BY DEF Summaries!RetrieveBlockSummaryByHash
    <2> HIDE DEF S
    <2> QED
      BY <1>2, <2>1, <2>2
  <1>7. NoBlock \notin Block
    BY SummariesAssumption DEF Summaries!SummariesConstants
  <1> QED
    BY <1>5, <1>6, <1>7

\* What an answer to the request is.
LEMMA AnswerIs ==
    ASSUME req = [x \in ReqField |-> req[x]], NEW b
    PROVE  LET r == Summaries!Answer(b)
           IN  /\ r = [x \in ReqField |-> r[x]] /\ r.at = "done" /\ r.found = b
               /\ r.kind = req.kind
  BY DEF Summaries!Answer, ReqField

LEMMA AskKeeps ==
    ASSUME SummaryInv, NEW kind, NEW h, NEW hash, Summaries!Ask(kind, h, hash)
    PROVE  SummaryInv'
  <1> DEFINE at == IF kind = "best" THEN "height" ELSE "cache"
  <1>1. /\ req' = [Summaries!NoReq EXCEPT !.at = at, !.kind = kind, !.h = h, !.hash = hash]
        /\ UNCHANGED Summaries!chain /\ apic' = apic /\ clock' = clock
    BY DEF Summaries!Ask
  <1>2. req' = [x \in ReqField |-> req'[x]] /\ req'.kind = kind /\ req'.at = at
    <2> HIDE DEF at
    <2>1. Summaries!NoReq = [x \in ReqField |-> Summaries!NoReq[x]]
      BY DEF Summaries!NoReq, ReqField
    <2> QED
      BY <1>1, <2>1 DEF ReqField
  <1>3. ReqOK'
    <2>1. at # "store" /\ at # "done" /\ (kind = "best" => at \notin {"cache", "db"})
      OBVIOUS
    <2> HIDE DEF at
    <2>2. clock' \in Nat
      BY <1>1 DEF SummaryInv, ReqOK
    <2> QED
      BY <1>2, <2>1, <2>2 DEF ReqOK
  <1>4. CacheOK(apic)'
    BY <1>1 DEF SummaryInv
  <1> QED
    BY <1>1, <1>3, <1>4, ReaderKeeps

LEMMA BestHeightKeeps == ASSUME SummaryInv, Summaries!BestHeight PROVE SummaryInv'
  <1>1. /\ req' = [req EXCEPT !.at = "cache", !.h = HeightOf(meta)] /\ req.at = "height"
        /\ UNCHANGED Summaries!chain /\ apic' = apic /\ clock' = clock
    BY SameTree DEF Summaries!BestHeight
  <1>2. req = [x \in ReqField |-> req[x]] /\ HeightOf(meta) \in DOMAIN stats
    BY DEF SummaryInv, ReqOK, TablesInv, StatsOK
  <1>3. /\ req' = [x \in ReqField |-> req'[x]] /\ req'.at = "cache" /\ req'.h = HeightOf(meta)
        /\ req'.kind = req.kind
    BY <1>1, <1>2 DEF ReqField
  <1>4. stats' = stats
    BY <1>1 DEF Summaries!chain
  <1>5. ReqOK'
    BY <1>1, <1>2, <1>3, <1>4 DEF SummaryInv, ReqOK
  <1>6. CacheOK(apic)'
    BY <1>1 DEF SummaryInv
  <1> QED
    BY <1>1, <1>5, <1>6, ReaderKeeps

LEMMA ReadCacheKeeps == ASSUME SummaryInv, Summaries!ReadCache PROVE SummaryInv'
  <1> DEFINE cached == Summaries!Cached
  <1>1. /\ req.at = "cache" /\ UNCHANGED Summaries!chain /\ clock' = clock
        /\ apic' \in {apic, [apic EXCEPT !.needsReheap = TRUE]}
        /\ \/ cached # <<>> /\ req' = Summaries!Answer(cached[1])
           \/ req' = [req EXCEPT !.at = "db", !.using = TRUE]
           \/ req' = [req EXCEPT !.at = "db"]
    BY DEF Summaries!ReadCache, Summaries!Accessed, Summaries!HasSummary
  <1>2. req = [x \in ReqField |-> req[x]] /\ CacheOK(apic)
    BY DEF SummaryInv, ReqOK
  <1>3. CacheOK(apic)'
    <2>1. CacheOK([apic EXCEPT !.needsReheap = TRUE])
      BY <1>2, FlagPut
    <2> QED
      BY <1>1, <1>2, <2>1
  <1>4. cached # <<>> => cached[1] \in Block
    <2>1. \A x \in DOMAIN apic.blockCache : x \in Block
      BY <1>2, QueueTypes DEF CacheOK, QueueOK
    <2> QED
      BY <2>1 DEF Summaries!Cached, Summaries!getCachedBlockByHash,
                  Summaries!GetCachedBlockByHeight
  <1>5. stats' = stats
    BY <1>1 DEF Summaries!chain
  <1>6. NoBlock \notin Block
    BY FoundIs DEF SummaryInv
  <1> HIDE DEF cached
  <1>7. ReqOK'
    <2>1. CASE cached # <<>> /\ req' = Summaries!Answer(cached[1])
      <3>1. /\ req' = [x \in ReqField |-> req'[x]] /\ req'.at = "done" /\ req'.found = cached[1]
        BY <1>2, <2>1, AnswerIs
      <3> QED
        BY <1>1, <1>4, <1>6, <2>1, <3>1 DEF SummaryInv, ReqOK
    <2>2. CASE req' = [req EXCEPT !.at = "db", !.using = TRUE] \/ req' = [req EXCEPT !.at = "db"]
      <3>1. /\ req' = [x \in ReqField |-> req'[x]] /\ req'.at = "db" /\ req'.h = req.h
            /\ req'.kind = req.kind
        BY <1>2, <2>2 DEF ReqField
      <3> QED
        BY <1>1, <1>5, <3>1 DEF SummaryInv, ReqOK
    <2> QED
      BY <1>1, <2>1, <2>2
  <1> QED
    BY <1>1, <1>3, <1>7, ReaderKeeps

LEMMA ReadDBKeeps == ASSUME SummaryInv, Summaries!ReadDB PROVE SummaryInv'
  <1> DEFINE q == Summaries!Query
  <1>1. /\ req.at = "db" /\ UNCHANGED Summaries!chain /\ apic' = apic /\ clock' = clock
        /\ \/ /\ q # NoBlock /\ req.kind # "size"
              /\ req' = [req EXCEPT !.at = "store", !.found = q]
           \/ req' = Summaries!Answer(q)
    BY DEF Summaries!ReadDB
  <1>2. req = [x \in ReqField |-> req[x]] /\ TablesInv
    BY DEF SummaryInv, ReqOK
  <1>3. /\ q # NoBlock /\ req.kind # "size" => q \in Block
        /\ req.kind = "best" => q \in Block
    <2>1. req.kind = "best" => req.h \in DOMAIN stats
      BY <1>1 DEF SummaryInv, ReqOK
    <2>2. /\ req.kind = "hash" => q = Summaries!RetrieveBlockSummaryByHash(req.hash)
          /\ req.kind # "hash" /\ req.kind # "size" => q = Summaries!RetrieveBlockSummary(req.h)
      BY DEF Summaries!Query
    <2> HIDE DEF q
    <2> QED
      BY <1>2, <2>1, <2>2, FoundIs
  <1>4. NoBlock \notin Block
    BY <1>2, FoundIs
  <1> HIDE DEF q
  <1>5. ReqOK'
    <2>1. CASE req' = Summaries!Answer(q)
      <3>1. /\ req' = [x \in ReqField |-> req'[x]] /\ req'.at = "done" /\ req'.found = q
            /\ req'.kind = req.kind
        BY <1>2, <2>1, AnswerIs
      <3> QED
        BY <1>1, <1>3, <1>4, <3>1 DEF SummaryInv, ReqOK
    <2>2. CASE /\ q # NoBlock /\ req.kind # "size"
               /\ req' = [req EXCEPT !.at = "store", !.found = q]
      <3>1. /\ req' = [x \in ReqField |-> req'[x]] /\ req'.at = "store" /\ req'.found = q
        BY <1>2, <2>2 DEF ReqField
      <3> QED
        BY <1>1, <1>3, <2>2, <3>1 DEF SummaryInv, ReqOK
    <2> QED
      BY <1>1, <2>1, <2>2
  <1>6. CacheOK(apic)'
    BY <1>1 DEF SummaryInv
  <1> QED
    BY <1>1, <1>5, <1>6, ReaderKeeps

LEMMA FillCacheKeeps == ASSUME SummaryInv, Summaries!FillCache PROVE SummaryInv'
  <1>1. /\ req.at = "store" /\ UNCHANGED Summaries!chain /\ clock' = clock
        /\ apic' = Summaries!StoreBlockSummary(apic, Summaries!Item(req.found), clock)
        /\ req' = Summaries!Answer(req.found)
    BY DEF Summaries!FillCache
  <1>2. /\ req = [x \in ReqField |-> req[x]] /\ req.found \in Block /\ clock \in Int
        /\ CacheOK(apic)
    BY <1>1 DEF SummaryInv, ReqOK
  <1>3. CacheOK(apic)'
    BY <1>1, <1>2, StoreKeeps
  <1>4. /\ req' = [x \in ReqField |-> req'[x]] /\ req'.at = "done" /\ req'.found = req.found
    BY <1>1, <1>2, AnswerIs
  <1>5. NoBlock \notin Block
    BY FoundIs DEF SummaryInv
  <1>6. ReqOK'
    BY <1>1, <1>2, <1>4, <1>5 DEF SummaryInv, ReqOK
  <1> QED
    BY <1>1, <1>3, <1>6, ReaderKeeps

LEMMA ByHashKeeps == ASSUME SummaryInv, Summaries!GetSummaryByHash PROVE SummaryInv'
  <1> DEFINE m == [apic.blockCache EXCEPT ![req.found].summary = "totals"]
  <1>1. /\ UNCHANGED Summaries!chain /\ clock' = clock /\ req' = Summaries!NoReq
        /\ apic' = [apic EXCEPT !.blockCache = m]
    BY DEF Summaries!GetSummaryByHash
  <1>2. CacheOK(apic)'
    <2>1. CacheOK(apic) /\ DOMAIN m = DOMAIN apic.blockCache
      BY DEF SummaryInv
    <2> HIDE DEF m
    <2> QED
      BY <1>1, <2>1, EntryPut
  <1>3. /\ req' = [x \in ReqField |-> req'[x]] /\ req'.at = "none" /\ req'.kind = "none"
    BY <1>1 DEF ReqField, Summaries!NoReq
  <1>4. ReqOK'
    BY <1>1, <1>3 DEF SummaryInv, ReqOK
  <1> QED
    BY <1>1, <1>2, <1>4, ReaderKeeps

LEMMA CacheOpKeeps ==
    ASSUME SummaryInv, Summaries!CacheOp \/ Summaries!WatchPriorityQueue PROVE SummaryInv'
  <1>1. UNCHANGED Summaries!chain /\ clock' = clock /\ req' = req
    BY DEF Summaries!CacheOp, Summaries!WatchPriorityQueue
  <1>2. /\ CacheOK(apic) /\ clock \in Int /\ DOMAIN rows \subseteq Block
    BY DEF SummaryInv, ReqOK, TablesInv, RowsOK
  <1>3. CacheOK(apic)'
    <2>1. CASE Summaries!WatchPriorityQueue
      BY <1>2, <2>1, ReheapKeepsCache DEF Summaries!WatchPriorityQueue
    <2>2. CASE Summaries!CacheOp
      <3>1. \/ apic' = [apic EXCEPT !.isEnabled = TRUE]
            \/ apic' = [apic EXCEPT !.isEnabled = FALSE]
            \/ \E b \in DOMAIN rows :
                 apic' = Summaries!StoreStakeInfo(apic, Summaries!Item(b), clock)
            \/ \E h : apic' = Summaries!RemoveCachedBlockByHeight(apic, h)
            \/ \E f : apic' = [apic EXCEPT !.lessFn = f]
        BY <2>2 DEF Summaries!CacheOp
      <3>2. CASE \/ apic' = [apic EXCEPT !.isEnabled = TRUE]
                 \/ apic' = [apic EXCEPT !.isEnabled = FALSE]
        BY <1>2, <3>2, FlagPut
      <3>3. ASSUME NEW b \in DOMAIN rows,
                   apic' = Summaries!StoreStakeInfo(apic, Summaries!Item(b), clock)
            PROVE  CacheOK(apic)'
        BY <1>2, <3>3, StoreKeeps
      <3>4. ASSUME NEW h, apic' = Summaries!RemoveCachedBlockByHeight(apic, h)
            PROVE  CacheOK(apic)'
        BY <1>2, <3>4, RemoveKeeps
      <3>5. ASSUME NEW f, apic' = [apic EXCEPT !.lessFn = f] PROVE CacheOK(apic)'
        BY <1>2, <3>5, FlagPut
      <3> QED
        BY <3>1, <3>2, <3>3, <3>4, <3>5
    <2> QED
      BY <2>1, <2>2
  <1>4. ReqOK'
    <2>1. stats' = stats
      BY <1>1 DEF Summaries!chain
    <2> QED
      BY <1>1, <2>1 DEF SummaryInv, ReqOK
  <1> QED
    BY <1>1, <1>3, <1>4, ReaderKeeps

LEMMA TickKeeps == ASSUME SummaryInv, Summaries!Tick PROVE SummaryInv'
  <1>1. /\ UNCHANGED Summaries!chain /\ clock' = clock + 1 /\ req' = req /\ apic' = apic
    BY DEF Summaries!Tick
  <1>2. ReqOK' /\ CacheOK(apic)'
    <2>1. stats' = stats
      BY <1>1 DEF Summaries!chain
    <2> QED
      BY <1>1, <2>1 DEF SummaryInv, ReqOK
  <1> QED
    BY <1>1, <1>2, ReaderKeeps

LEMMA SummariesKeep == ASSUME SummaryInv, Summaries!Next PROVE SummaryInv'
  <1>1. TablesInv /\ Genesis \in Block
    BY TreeAssumption DEF SummaryInv
  <1>2. ASSUME NEW b \in Block,
               Summaries!Connect(b) \/ Summaries!Reorg(b) \/ Summaries!ImportSideChain(b)
        PROVE  SummaryInv'
    BY <1>1, <1>2, WriterSteps, WriterKeeps
  <1>3. CASE \/ Summaries!TipToSideChain \/ Summaries!StoreRow \/ Summaries!StoreBest
             \/ Summaries!InsertBlockStats \/ Summaries!SetDBBestBlock
    BY <1>1, <1>3, WriterSteps, WriterKeeps
  <1>4. ASSUME NEW kind, NEW h, NEW hash, Summaries!Ask(kind, h, hash) PROVE SummaryInv'
    BY <1>4, AskKeeps
  <1>5. CASE \/ Summaries!BestHeight \/ Summaries!ReadCache \/ Summaries!ReadDB
             \/ Summaries!FillCache \/ Summaries!GetSummaryByHash
    BY <1>5, BestHeightKeeps, ReadCacheKeeps, ReadDBKeeps, FillCacheKeeps, ByHashKeeps
  <1>6. CASE Summaries!CacheOp \/ Summaries!WatchPriorityQueue \/ Summaries!Tick
    BY <1>6, CacheOpKeeps, TickKeeps
  <1> QED
    BY <1>2, <1>3, <1>4, <1>5, <1>6 DEF Summaries!Next

LEMMA SummariesAreSound ==
    ASSUME SummaryInv
    PROVE  /\ Summaries!SummariesFollowChain /\ Summaries!BestSummaryIsFound
           /\ Summaries!ApiCacheIsOne
  <1>1. Summaries!SummariesFollowChain /\ Summaries!ApiCacheIsOne
    BY SummariesAnswer, CacheIsOne DEF SummaryInv
  <1>2. Summaries!BestSummaryIsFound
    BY DEF SummaryInv, ReqOK, Summaries!BestSummaryIsFound
  <1> QED
    BY <1>1, <1>2

-------------------------------------------------------------------------------
(* The services in one run.                                                 *)

ServicesInv == /\ service = "bot" => ChartInv
               /\ service = "summaries" => SummaryInv
               /\ service = "publisher" => PublisherInv

LEMMA ServicesStart == ASSUME ServicesInit PROVE ServicesInv
  BY ChartStart, SummariesStart, PublisherStart DEF ServicesInit, ServicesInv

LEMMA ServicesKeep ==
    ASSUME ServicesInv,
           [BotStep \/ MempoolStep \/ SummariesStep \/ PublisherStep]_serviceVars
    PROVE  ServicesInv'
  <1>1. CASE BotStep
    BY <1>1, ChartsKeep DEF BotStep, ServicesInv
  <1>2. CASE PublisherStep
    BY <1>2, PublisherKeeps DEF PublisherStep, ServicesInv
  <1>3. CASE SummariesStep
    BY <1>3, SummariesKeep DEF SummariesStep, ServicesInv
  <1>4. CASE MempoolStep
    BY <1>4 DEF MempoolStep, ServicesInv
  <1>5. CASE UNCHANGED serviceVars
    <2>1. UNCHANGED <<service, summaryVars, publisherVars, xcs, asked, DcrBtc, stateCopy,
                      chart, reader, answer>>
      BY <1>5 DEF serviceVars, botVars
    <2> QED
      BY <2>1, ChartRests, SummariesRest, PublisherRests DEF ServicesInv
  <1> QED
    BY <1>1, <1>2, <1>3, <1>4, <1>5

THEOREM ServicesInvariant == ServicesSpec => []ServicesInv
  <1>1. ServicesInit => ServicesInv
    BY ServicesStart
  <1>2. ServicesInv
          /\ [BotStep \/ MempoolStep \/ SummariesStep \/ PublisherStep]_serviceVars
          => ServicesInv'
    BY ServicesKeep
  <1> QED
    BY <1>1, <1>2, PTL DEF ServicesSpec

\* BotChartsAreCurrent: a chart that QuickSticks or QuickDepth answers from the cache
\* has the depth or the candlesticks that the bot holds, whatever updates come in while
\* other callers encode and store; with the master's stream too, and when the channels
\* are full.
THEOREM BotChartsAlwaysCurrent == ServicesSpec => []BotChartsAreCurrent
  <1>1. ServicesInv => BotChartsAreCurrent
    BY DEF ServicesInv, BotChartsAreCurrent, ChartInv
  <1> QED
    BY <1>1, ServicesInvariant, PTL

\* SummariesFollowChain: between two changes of the chain every summary query of
\* ChainDB answers with the main chain's blocks, GetBestBlockSummary finds a block
\* whatever the chain writer does meanwhile, and the APICache's map, index by height and
\* expiry queue stay one cache through every heap move, insertion and eviction.
THEOREM SummariesAlwaysFollow == ServicesSpec => []SummariesFollowChain
  <1>1. ServicesInv => SummariesFollowChain
    BY SummariesAreSound DEF ServicesInv, SummariesFollowChain
  <1> QED
    BY <1>1, ServicesInvariant, PTL

\* PageSettles: once explorerUI.Store has handled every notification, the last one
\* without an error, the pages show the node's best block, and the home page's figures
\* that are collected with a block are of that block (the staking return, which a
\* goroutine writes, is not among them).
THEOREM PageAlwaysSettles == ServicesSpec => []PageSettles
  <1>1. ServicesInv => PageSettles
    BY DEF ServicesInv, PageSettles, PublisherInv
  <1> QED
    BY <1>1, ServicesInvariant, PTL

===============================================================================
