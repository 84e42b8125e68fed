---------------------------- MODULE AddressService ----------------------------
(***************************************************************************)
(* What ChainDB promises to those who ask about an address, whatever its    *)
(* cache does: an answer is an error, or what the tables said of the        *)
(* address at some moment between the question and the answer, or for the   *)
(* chain of the tip then, which a block being stored is ahead of.  Two      *)
(* exceptions: while the tip is a block that had been the tip before, an    *)
(* answer may be an old one, for the cache knows a state of the tables only *)
(* by the hash of the tip; and so may one given during a reorganisation.    *)
(***************************************************************************)
CONSTANTS Reader, Addr, Block, Data(_, _), None, Error

VARIABLES
    tables,   \* the block whose chain the tables hold
    tip,      \* the best block
    reorg,    \* whether a reorganisation is under way
    left,     \* the blocks that have been the tip and no longer are
    ask,      \* per reader, its question: the address, the states of the tables
              \* since it was asked, and whether an old answer will do
    answer    \* the answer given in the last step, if one was

serviceVars == <<tables, tip, reorg, left, ask, answer>>

Init ==
    /\ tables \in Block /\ tip = tables /\ left = {} /\ reorg = FALSE
    /\ ask = [r \in Reader |-> None]
    /\ answer = None

Asking(r) == ask[r] # None

Ask(r) ==
    /\ ~Asking(r)
    /\ \E a \in Addr : ask' = [ask EXCEPT ![r] = [addr |-> a, since |-> {tables, tip}, old |-> FALSE]]
    /\ answer' = None
    /\ UNCHANGED <<tables, tip, reorg, left>>

ReadTip(r) ==
    /\ Asking(r)
    /\ ask' = [ask EXCEPT ![r].old = @ \/ reorg \/ tip \in left]
    /\ answer' = None
    /\ UNCHANGED <<tables, tip, reorg, left>>

Answer(r) ==
    /\ Asking(r)
    /\ ask' = [ask EXCEPT ![r] = None]
    /\ \E t \in IF ask[r].old \/ reorg \/ tip \in left THEN Block ELSE ask[r].since :
          answer' = <<r, Data(ask[r].addr, t)>>
    /\ UNCHANGED <<tables, tip, reorg, left>>

Fail(r) ==
    /\ Asking(r)
    /\ ask' = [ask EXCEPT ![r] = None]
    /\ answer' = <<r, Error>>
    /\ UNCHANGED <<tables, tip, reorg, left>>

Write ==
    /\ tables' \in Block
    /\ ask' = [r \in Reader |-> IF Asking(r) THEN [ask[r] EXCEPT !.since = @ \cup {tables'}] ELSE None]
    /\ answer' = None
    /\ UNCHANGED <<tip, reorg, left>>

MoveTip ==
    /\ tip' = tables
    /\ left' = left \cup {tip}
    /\ answer' = None
    /\ UNCHANGED <<tables, reorg, ask>>

Reorganise ==
    /\ reorg' = ~reorg
    /\ answer' = None
    /\ UNCHANGED <<tables, tip, left, ask>>

\* Time passes.
Silent == answer' = None /\ UNCHANGED <<tables, tip, reorg, left, ask>>

Next ==
    \/ Silent \/ Write \/ MoveTip \/ Reorganise
    \/ \E r \in Reader : Ask(r) \/ ReadTip(r) \/ Answer(r) \/ Fail(r)

Spec == Init /\ [][Next]_serviceVars
===============================================================================
