------------------------------ MODULE MCRpcUtils ------------------------------
(***************************************************************************)
(* The three parts of rpcutils in one run.  They share nothing, so a        *)
(* behaviour is a behaviour of one of them: part says which, and the        *)
(* variables of the two others keep the values they were created with.      *)
(*                                                                         *)
(* Walks: branches of different lengths from genesis and from height 2, so  *)
(* that tips are level, apart, on one branch and on genesis.  BlockGate:    *)
(* two blocks compete at height 1, and the cache holds two of four blocks.  *)
(* BlockPrefetchClient: a chain g - a1 - a2 with a competing b1; the order  *)
(* channel holds one hash.                                                  *)
(***************************************************************************)
EXTENDS ChainWalks

CONSTANTS
    GateBlock, BlockHeight, Capacity, Waiter,            \* of BlockGate
    PrefetchBlock, PrevBlock, None, Client, ChanCap,     \* of BlockPrefetch
    g, a1, a2, a3, a4, b1, b2, b3, c3, c4, w1, w2, c1    \* model values

MCBlock == {g, a1, a2, a3, a4, b1, b2, b3, c3, c4}
MCChain == [b \in MCBlock |->
    CASE b = g  -> <<>>
      [] b = a1 -> <<a1>>
      [] b = a2 -> <<a1, a2>>
      [] b = a3 -> <<a1, a2, a3>>
      [] b = a4 -> <<a1, a2, a3, a4>>
      [] b = b1 -> <<b1>>
      [] b = b2 -> <<b1, b2>>
      [] b = b3 -> <<b1, b2, b3>>
      [] b = c3 -> <<a1, a2, c3>>
      [] b = c4 -> <<a1, a2, c3, c4>>]
FewBlocks == {g, a1, a2, b1}
FewHeights == [b \in FewBlocks |-> HeightOf(b)]
FewParents == [b \in FewBlocks |-> Parent(b)]
TwoWaiters == {w1, w2}
OneClient == {c1}

VARIABLES
    part,
    height, fetchToHeight, hashAtHeight, blockWithHash, queue, heightWaiters,
    hashWaiters, sending, chan, gatePanicked,
    nodeTip, current, next, retargetChan, closed, lockQ, holder, target, fetcher,
    order, req, reply, prefetchPanicked

gateVars == <<height, fetchToHeight, hashAtHeight, blockWithHash, queue, heightWaiters,
              hashWaiters, sending, chan, gatePanicked>>
prefetchVars == <<nodeTip, current, next, retargetChan, closed, lockQ, holder, target,
                  fetcher, order, req, reply, prefetchPanicked>>

Gate == INSTANCE BlockGate WITH Block <- GateBlock, panicked <- gatePanicked
Prefetch == INSTANCE BlockPrefetch WITH Block <- PrefetchBlock, panicked <- prefetchPanicked

ASSUME GateAssumption == Gate!GateConstants
ASSUME PrefetchAssumption == Prefetch!PrefetchConstants

WalksInit == /\ tipA = Genesis /\ tipB = Genesis /\ hashA = Genesis /\ hashB = Genesis
             /\ walk = "none"
             /\ chainA = <<>> /\ chainB = <<>> /\ length = 0 /\ result = "none"

MCInit ==
    /\ part \in {"walks", "gate", "prefetch"}
    /\ IF part = "walks" THEN Init ELSE WalksInit
    /\ Gate!Init
    /\ Prefetch!Init /\ (part # "prefetch" => nodeTip = Genesis)

WalksStep == part = "walks" /\ Next /\ UNCHANGED <<part, gateVars, prefetchVars>>
GateStep == part = "gate" /\ Gate!Next /\ UNCHANGED <<part, vars, prefetchVars>>
PrefetchStep == part = "prefetch" /\ Prefetch!Next /\ UNCHANGED <<part, vars, gateVars>>

\* The fair actions of a part are disabled in its initial state, so that the
\* fairness of a part that does not run asks nothing.
MCSpec ==
    /\ MCInit /\ [][WalksStep \/ GateStep \/ PrefetchStep]_<<part, vars, gateVars, prefetchVars>>
    /\ Gate!Fairness /\ Prefetch!Fairness

-------------------------------------------------------------------------------
(* Properties.                                                              *)

\* The walks of rpcclient.go return what a definition over whole branches says.
WalksAreRight ==
    part = "walks" =>
        AncestorIsRight /\ AncestorErrors /\ OrphansAreCounted /\ SideChainIsRight

\* BlockGate's hashAtHeight and blockWithHash never come apart, whatever is
\* re-announced, reorganised and evicted; no channel of WaitForHeight or
\* WaitForHash is left waiting for a block that the gate has, and none is signalled
\* when it is full; Stop never makes a retarget of the prefetcher that is under way
\* send on a closed channel; and an order that came too late, or twice, never makes
\* the prefetcher hold one block twice.
ChannelsAreSound ==
    /\ Gate!HeightLeadsToBlock /\ Gate!NoWaiterStranded /\ Gate!SignalFindsRoom
    /\ Prefetch!NoSendOnClosed /\ Prefetch!SlotsDiffer

\* A signal that signalHash or signalHeight launched reaches its channel, and
\* after Stop the fetcher goroutine ends.
GoroutinesEnd == Gate!SignalDelivered /\ Prefetch!FetcherEnds

===============================================================================
