------------------------------- MODULE StakeRows -------------------------------
(***************************************************************************)
(* The tickets, votes and misses tables of dcrpg and the cache of ticket    *)
(* row ids, while the stake tree of a block is stored, blocks leave the     *)
(* main chain and blocks are purged.  Transactions and blocks are those of  *)
(* TxRows; a row of tickets or votes is keyed by transaction and block, one *)
(* of misses by ticket and block.                                           *)
(***************************************************************************)
EXTENDS TxRows

CONSTANTS
    Tickets, Votes, Revokes,    \* stake transactions by type
    Spent,      \* Spent[v]: the ticket a vote or a revocation spends
    Winners,    \* Winners[b]: the tickets called to vote in a child of b
    Expires     \* Expires[b]: the tickets that expire in b

ASSUME StakeAssumption ==
    /\ Tickets \cup Votes \cup Revokes \subseteq Tx \ Regular
    /\ Spent \in [Votes \cup Revokes -> Tickets]
    /\ Winners \in [Block -> SUBSET Tickets]
    /\ Expires \in [Block -> SUBSET Tickets]

VARIABLES
    stk,                \* the tables
    unspentTicketCache  \* ticket -> row of the tickets table

TicketLive == [spend |-> "unspent", by |-> None, status |-> "live"]

\* InsertTickets: the upsert touches is_mainchain only.
InsertTickets(s, b, main, update) ==
    LET new == [x \in (BlockTxs[b] \cap Tickets) \X {b} |-> [info |-> TicketLive, main |-> main]]
        setMain(old, row) == [old EXCEPT !.main = row.main]
    IN  [s EXCEPT !.tickets = IF update THEN Upsert(@, new, setMain) ELSE Upsert(@, new, KeepOld)]

\* A bug in the cache: a ticket that is bought again in another block keeps its entry.
CacheTickets_keepsFirst(c, b) ==
    [t \in DOMAIN c \cup (BlockTxs[b] \cap Tickets) |-> IF t \in DOMAIN c THEN c[t] ELSE <<t, b>>]

\* The new rows go into the cache, whichever chain the block is on.
CacheTickets(c, b) ==
    [t \in DOMAIN c \cup (BlockTxs[b] \cap Tickets) |-> IF t \in BlockTxs[b] THEN <<t, b>> ELSE c[t]]

\* RetrieveTicketIDByHashNoCancel: rows of the main chain come first.
RetrieveTicketIDByHash(s, t) ==
    LET rows == {x \in DOMAIN s.tickets : x[1] = t}
        onMain == {x \in rows : s.tickets[x].main}
    IN  IF onMain # {} THEN onMain ELSE rows

\* RetrieveUnspentTickets: what NewChainDB loads into the cache.
RetrieveUnspentTickets(s) ==
    LET rows == {x \in DOMAIN s.tickets : s.tickets[x].main /\ s.tickets[x].info.spend = "unspent"}
    IN  [t \in {x[1] : x \in rows} |-> CHOOSE x \in rows : x[1] = t]

\* TicketTxnIDGetter.TxnDbID: the rows it may answer with; none is an error.
TxnDbID(s, c, t) == IF t \in DOMAIN c THEN {c[t]} ELSE RetrieveTicketIDByHash(s, t)

\* The tickets called in b that no vote of b spends.  A side block has none.
Missed(b, main) ==
    IF main /\ b # Genesis /\ BlockTxs[b] \cap Votes # {}
    THEN Winners[Parent(b)] \ {Spent[v] : v \in BlockTxs[b] \cap Votes} ELSE {}

\* InsertVotes over votes and misses.
InsertVotes(s, b, main, update) ==
    LET new == [x \in (BlockTxs[b] \cap Votes) \X {b} |-> [main |-> main]]
    IN  [s EXCEPT !.votes = IF update THEN Upsert(@, new, TakeNew) ELSE Upsert(@, new, KeepOld),
                  !.misses = @ \cup (Missed(b, main) \X {b})]

\* The votes and revocations of b, with the tickets they spend.
TicketSpenders(b) == BlockTxs[b] \cap (Votes \cup Revokes)

\* CollectTicketSpendDBInfo: a row for every spender, or an error.  Blocks of the
\* main chain take the entries out of the cache.
CollectTicketSpendDBInfo(s, c, b) ==
    {f \in [TicketSpenders(b) -> DOMAIN s.tickets] :
        \A v \in TicketSpenders(b) : f[v] \in TxnDbID(s, c, Spent[v])}

ExpireCached(c, b, main) ==
    IF main THEN Delete(c, {Spent[v] : v \in TicketSpenders(b)}) ELSE c

\* ExistsExpiredTicket of the stake database, whose best block is node.
ExistsExpiredTicket(node, t) == \E h \in 0..HeightOf(node) : t \in Expires[At(node, h)]

\* SetSpendingForTickets with the rows chosen by CollectTicketSpendDBInfo.
SetSpendingForTickets(s, b, row, node) ==
    [s EXCEPT !.tickets = [x \in DOMAIN @ |->
        LET by == {v \in DOMAIN row : row[v] = x}
            v == CHOOSE w \in by : TRUE
        IN  IF by = {} THEN @[x]
            ELSE [@[x] EXCEPT !.info = [
                    by |-> <<v, b>>,
                    spend |-> IF v \in Votes THEN "voted" ELSE "revoked",
                    status |-> IF v \in Votes THEN "voted"
                               ELSE IF ExistsExpiredTicket(node, Spent[v]) THEN "expired" ELSE "missed"]]]]

\* The misses of b not revoked at once, and the tickets that expired in the stake
\* database's best block, get their pool status.
UnspentStatuses(b, main, node) ==
    LET revoked == {Spent[v] : v \in BlockTxs[b] \cap Revokes}
        missed == Missed(b, main) \ revoked
        expired == (Expires[node] \ missed) \ revoked
    IN  [t \in missed \cup expired |-> IF t \in missed THEN "missed" ELSE "expired"]

\* SetPoolStatusForTickets for the rows of those tickets.
SetPoolStatusForTickets(s, c, statuses) ==
    [s EXCEPT !.tickets = [x \in DOMAIN @ |->
        IF x[1] \in DOMAIN statuses /\ x \in TxnDbID(s, c, x[1])
        THEN [@[x] EXCEPT !.info.status = statuses[x[1]]] ELSE @[x]]]

\* The stake part of storeBlockTxnTree with updateTicketsSpendingInfo, for one
\* choice of rows.
StoreStakeTree(s, c, b, row, main, update, node) ==
    LET s1 == InsertVotes(InsertTickets(s, b, main, update), b, main, update)
    IN  SetPoolStatusForTickets(SetSpendingForTickets(s1, b, row, node),
                                ExpireCached(c, b, main), UnspentStatuses(b, main, node))

\* UpdateVotesMainchain and UpdateTicketsMainchain.
StakeToSideChain(s, b) ==
    [s EXCEPT !.votes = Update(@, LAMBDA x : x[2] = b, LAMBDA row : [row EXCEPT !.main = FALSE]),
              !.tickets = Update(@, LAMBDA x : x[2] = b, LAMBDA row : [row EXCEPT !.main = FALSE])]

\* deleteTicketsForBlock, deleteVotesForBlock and deleteMissesForBlock.
DeleteStakeRows(s, b) ==
    [s EXCEPT !.tickets = Delete(@, {x \in DOMAIN @ : x[2] = b}),
              !.votes = Delete(@, {x \in DOMAIN @ : x[2] = b}),
              !.misses = {x \in @ : x[2] # b}]
===============================================================================
