---------------------------- MODULE BlockPublisher ----------------------------
(***************************************************************************)
(* blockdata's chainMonitor and Collector, and what the savers publish: the *)
(* chain work and chain state of ChainDB, the state of the PubSubHub, the   *)
(* data of the explorer's home page and the goroutines that amend it.       *)
(*                                                                         *)
(* Every call of the node answers for the block that is the node's best at  *)
(* that moment.  A piece of data is recorded as the block it is about, so   *)
(* the numbers themselves are left out.  The stake database has handled the *)
(* notification before blockdata does (the order of the notifier's groups). *)
(* The refreshes of agendas, proposals and the vote tracker that            *)
(* explorerUI.Store starts belong to components that are not modelled.      *)
(***************************************************************************)
EXTENDS BlockTree

CONSTANTS
    NoBlock,        \* nil data
    MaxMoves,       \* changes of the node's best block
    MaxFaults       \* calls of the node that fail or time out

VARIABLES
    node,       \* the node's best block (external)
    moves, faults,
    queue,      \* notifications the notifier has still to hand over
    job,        \* the handler under way: ConnectBlock or ReorgHandler
    known,      \* blocks in the stake database's pool info cache
    work,       \* blocks table: block -> the block its chain work is of
    state,      \* ChainDB.deployments: UpdateChainState's last block
    page,       \* explorerUI.pageData
    psh,        \* PubSubHub.state
    bg          \* blocks whose reward a goroutine of explorerUI.Store simulates

vars == <<node, moves, faults, queue, job, known, work, state, page, psh, bg>>
world == <<node, moves, queue>>
published == <<work, state, page, psh, bg>>

NoData == [header |-> NoBlock, diff |-> NoBlock, supply |-> NoBlock,
           pool |-> NoBlock, info |-> NoBlock]
NoJob == [at |-> "idle", kind |-> "none", b |-> Genesis, ok |-> TRUE, data |-> NoData]
All(b) == [header |-> b, diff |-> b, supply |-> b, pool |-> b, info |-> b]

PublisherConstants == NoBlock \notin Block

\* main.go has collected and stored the best block before the handlers start.
Init ==
  /\ node = Genesis /\ moves = 0 /\ faults = 0 /\ queue = <<>> /\ job = NoJob
  /\ known = {Genesis} /\ work = [b \in {Genesis} |-> b] /\ state = Genesis
  /\ page = [block |-> Genesis, home |-> All(Genesis), asr |-> Genesis]
  /\ psh = [block |-> Genesis, home |-> All(Genesis)] /\ bg = {}

-----------------------------------------------------------------------------
NodeConnects(b) ==
  /\ moves < MaxMoves /\ b # Genesis /\ Parent(b) = node
  /\ node' = b /\ moves' = moves + 1
  /\ queue' = Append(queue, [kind |-> "connect", b |-> b])
  /\ UNCHANGED <<faults, job, known, published>>

NodeReorgs(b) ==
  /\ moves < MaxMoves /\ ~IsAncestor(node, b) /\ HeightOf(b) >= HeightOf(node)
  /\ node' = b /\ moves' = moves + 1
  /\ queue' = Append(queue, [kind |-> "reorg", b |-> b])
  /\ UNCHANGED <<faults, job, known, published>>

\* The notifier hands over one notification at a time, the stake database first.
Notify ==
  /\ job.at = "idle" /\ queue # <<>>
  /\ job' = [NoJob EXCEPT !.at = "block", !.kind = Head(queue).kind, !.b = Head(queue).b]
  /\ queue' = Tail(queue) /\ known' = known \cup {Head(queue).b}
  /\ UNCHANGED <<node, moves, faults, published>>

-----------------------------------------------------------------------------
(* collect: GetBlock, GetBlockCount, then CollectHash or Collect.            *)

Doing(step) == job.at = step /\ UNCHANGED <<world, faults, known, published>>
Step(step) == job' = [job EXCEPT !.at = step]
Get(step, field, b) == job' = [job EXCEPT !.at = step, !.data[field] = b]

GetBlock == Doing("block") /\ Step("count")

GetBlockCount ==
  /\ Doing("count")
  /\ IF HeightOf(node) # HeightOf(job.b)
     THEN job' = [job EXCEPT !.at = "supply", !.data.header = job.b, !.data.diff = job.b]
     ELSE Step("best")

\* Collect: the best block, its stake difficulty, then CollectBlockInfo of it.
GetBlockChainInfo ==
  /\ Doing("best")
  /\ job' = [job EXCEPT !.at = "diff", !.data.header = node, !.data.info = node]
GetStakeDifficulty == Doing("diff") /\ Get("supply", "diff", node)

\* CollectBlockInfo.  PoolInfoBest is of the stake database's best block, and
\* only its height is compared.
GetCoinSupply == Doing("supply") /\ Get("pool", "supply", node)
PoolInfo(b) == IF b \in known THEN b
               ELSE IF HeightOf(job.b) = HeightOf(b) THEN job.b ELSE NoBlock
GetPoolInfo ==
  /\ Doing("pool")
  /\ Get(IF job.data.info = NoBlock THEN "info" ELSE "chaindb", "pool",
         PoolInfo(job.data.header))

\* CollectHash keeps the blockchain info only if the node is at that block.
GetBestInfo ==
  /\ Doing("info")
  /\ Get("chaindb", "info", IF node = job.data.header THEN node ELSE NoBlock)

\* A call that returns an error ends the handler.
CollectFails ==
  /\ faults < MaxFaults /\ faults' = faults + 1
  /\ job.at \in {"block", "count", "best", "diff", "supply"}
  /\ job' = [NoJob EXCEPT !.ok = FALSE]
  /\ UNCHANGED <<world, known, published>>

-----------------------------------------------------------------------------
(* The savers, in the order of main.go; the reorganisation has explore only. *)

StoreChainDB ==                                            \* ChainDB.Store
  /\ job.at = "chaindb"
  /\ IF job.kind = "reorg" THEN UNCHANGED <<work, state>>
     ELSE /\ work' = [x \in DOMAIN work \cup {job.b} |->
                        IF x = job.b THEN job.data.header ELSE work[x]]
          /\ state' = IF job.data.info = NoBlock THEN state ELSE job.data.info
  /\ Step(IF job.kind = "reorg" THEN "explore" ELSE "pubsub")
  /\ UNCHANGED <<world, faults, known, page, psh, bg>>

StorePubSub ==                                             \* PubSubHub.Store
  /\ job.at = "pubsub" /\ Step("explore")
  /\ psh' = [block |-> job.b, home |-> job.data]
  /\ UNCHANGED <<world, faults, known, work, state, page, bg>>

\* A bug in main.go: the explorer is not among the savers of a reorganisation.
StoreExplorer_connectOnly ==
  /\ job.at = "explore" /\ job' = [NoJob EXCEPT !.kind = job.kind]
  /\ \/ /\ job.kind = "connect"
        /\ page' = [page EXCEPT !.block = job.b, !.home = job.data]
        /\ bg' = bg \cup {job.b}
     \/ job.kind = "reorg" /\ UNCHANGED <<page, bg>>
  /\ UNCHANGED <<world, faults, known, work, state, psh>>

\* explorerUI.Store writes the page under its lock; the reward is simulated in a
\* goroutine of its own and written when that ends.
StoreExplorer ==
  /\ job.at = "explore" /\ job' = [NoJob EXCEPT !.kind = job.kind]
  /\ page' = [page EXCEPT !.block = job.b, !.home = job.data]
  /\ bg' = bg \cup {job.b}
  /\ UNCHANGED <<world, faults, known, work, state, psh>>

simulateASR(b) ==
  /\ b \in bg /\ bg' = bg \ {b} /\ page' = [page EXCEPT !.asr = b]
  /\ UNCHANGED <<world, faults, job, known, work, state, psh>>

Next ==
  \/ \E b \in Block : NodeConnects(b) \/ NodeReorgs(b)
  \/ Notify \/ GetBlock \/ GetBlockCount \/ GetBlockChainInfo \/ GetStakeDifficulty
  \/ GetCoinSupply \/ GetPoolInfo \/ GetBestInfo \/ CollectFails
  \/ StoreChainDB \/ StorePubSub \/ StoreExplorer
  \/ \E b \in bg : simulateASR(b)

Spec == Init /\ [][Next]_vars

-----------------------------------------------------------------------------
(* Properties.                                                             *)

\* Whatever the node does between the calls of a collection, the page settles:
\* once every notification is handled, the last one without an error, the block
\* and every figure collected for the home page are of the node's best block,
\* though each was asked for separately.  The annual staking rate (page.asr) is
\* not collected: every Store starts a goroutine that simulates it and writes it
\* when it ends, and AsrSettles does not hold.  The PubSubHub's state settles with
\* the page unless the last handler was for a reorganisation, which tells only the
\* explorer.
PageSettles ==
  queue = <<>> /\ job.at = "idle" /\ job.ok =>
    /\ page.block = node /\ page.home = All(node)
    /\ job.kind = "connect" => psh = [block |-> node, home |-> All(node)]

\* Two goroutines of explorerUI.Store may end in the other order, and the page
\* keeps the older block's rate until the next one.
AsrSettles == queue = <<>> /\ job.at = "idle" /\ job.ok /\ bg = {} => page.asr = node

\* ConnectBlock collects and stores the data of the block it was called for: the
\* chain work stored with a block is its own.  (collect compares only heights
\* with the node's best block, and Collect asks for the best block again.)
ChainWorkIsOwn == \A b \in DOMAIN work : work[b] = b

=============================================================================
