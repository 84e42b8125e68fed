----------------------------- MODULE MempoolData -----------------------------
(***************************************************************************)
(* What hdfdata makes of the transactions of a mempool: the inventory that *)
(* ParseTxns builds (mempool/collector.go), the votes' bookkeeping and the *)
(* trimmed views (explorer/types), the ticket fees that Collect summarises *)
(* and the answers of MempoolDataCache (mempool/mempoolcache.go).  Amounts *)
(* are small integers and one size stands for every transaction.           *)
(***************************************************************************)
EXTENDS Integers, Sequences, FiniteSets, SequencesExt, FiniteSetsExt

CONSTANTS TxInfo,                \* transaction -> what it says
          NumLatestMempoolTxns,
          TicketsPerBlock,
          MaxFreshStakePerBlock,
          feeRad

MempoolDataConstants ==
  /\ NumLatestMempoolTxns > 0 /\ TicketsPerBlock > 0
  /\ MaxFreshStakePerBlock \in Nat \ {0} /\ feeRad >= 0
  /\ IsFiniteSet(DOMAIN TxInfo)
  /\ \A t \in DOMAIN TxInfo : TxInfo[t].fee \in Nat /\ TxInfo[t].vote.height \in Nat

Tx == DOMAIN TxInfo
TypeOf(t) == TxInfo[t].type
VoteOf(t) == TxInfo[t].vote      \* [hash, height, valid, ticket]
Upto(n, s) == IF Len(s) > n THEN SubSeq(s, 1, n) ELSE s
SumOf(s, val(_)) == FoldSeq(LAMBDA t, a : a + val(t), 0, s)

\* The members of S, the smallest key first; a sort that is not stable may put
\* equal keys in any order, so one is fixed.
InOrder(S, key) ==
  FoldLeft(LAMBDA s, i :
             Append(s, CHOOSE t \in S \ ToSet(s) :
                         \A u \in S \ ToSet(s) : key[t] <= key[u]),
           <<>>, [i \in 1..Cardinality(S) |-> i])

\* MPTxsByTime, newest first.
MPTxsByTime(S, time) == InOrder(S, [t \in S |-> -time[t]])

-----------------------------------------------------------------------------
(* The votes of the inventory.                                             *)

NewVotingInfo == [voted |-> {}, ticketsVoted |-> 0, tallys |-> <<>>]

Mark(tally, valid) == Append(tally, valid)

\* tallys is a map from block hash to marks; blocks not voted on are absent.
Tally(vi, v) ==
  [vi EXCEPT !.tallys =
     IF v.hash \in DOMAIN @ THEN [@ EXCEPT ![v.hash] = Mark(@, v.valid)]
     ELSE [h \in DOMAIN @ \cup {v.hash} |->
             IF h = v.hash THEN <<v.valid>> ELSE @[h]]]

Affirmations(marks) == Len(SelectSeq(marks, LAMBDA m : m))
VoteCount(marks) == Len(marks)

\* The consensus of the votes seen so far: needs more than half of all votes.
Status(marks) ==
  LET up == Affirmations(marks)
      down == VoteCount(marks) - up
  IN CASE up > TicketsPerBlock \div 2 -> "affirm"
       [] down > TicketsPerBlock \div 2 -> "reject"
       [] OTHER -> "missing"

BlockStatus(vi, hash) ==
  IF hash \in DOMAIN vi.tallys THEN Status(vi.tallys[hash]) ELSE "missing"

\* The index of a ticket among those that vote on one block, in order of
\* arrival, kept when the ticket is seen again.
SetTicketIndex(inds, v) ==
  LET of == IF v.hash \in DOMAIN inds THEN inds[v.hash] ELSE <<>>
      now == IF v.ticket \in ToSet(of) THEN of ELSE Append(of, v.ticket)
  IN [h \in DOMAIN inds \cup {v.hash} |-> IF h = v.hash THEN now ELSE inds[h]]

VotesOnBlock(v, hash) == v.hash = hash

-----------------------------------------------------------------------------
(* The inventory.                                                          *)

EmptyInventory(block) ==
  [Transactions |-> <<>>, Tickets |-> <<>>, Votes |-> <<>>,
   Revocations |-> <<>>, InvRegular |-> {}, InvStake |-> {},
   latest |-> <<>>, numAll |-> 0, totalOut |-> 0,
   likelyCount |-> 0, likelyTotal |-> 0, voteTotal |-> 0,
   inds |-> <<>>, voting |-> NewVotingInfo, block |-> block]

ListOf(t) ==
  CASE TypeOf(t) = "Ticket" -> "Tickets"
    [] TypeOf(t) = "Vote" -> "Votes"
    [] TypeOf(t) = "Revocation" -> "Revocations"
    [] OTHER -> "Transactions"

\* A vote counts as likely to be mined when it is for the last block and the
\* first of its ticket; everything else always counts.
Counts(inv, t) ==
  TypeOf(t) = "Vote" => /\ VotesOnBlock(VoteOf(t), inv.block.hash)
                        /\ VoteOf(t).ticket \notin inv.voting.voted

MarkVoted(vi, v) ==
  [vi EXCEPT !.voted = @ \cup {v.ticket}, !.ticketsVoted = @ + 1]

\* The bookkeeping that TxHandler and ParseTxns do for one transaction; list is
\* its list with the transaction put at the front or at the end.
CountTx(inv, t, list) ==
  LET i1 == [inv EXCEPT ![ListOf(t)] = list,
               !.InvRegular = IF TypeOf(t) = "Regular" THEN @ \cup {t} ELSE @,
               !.InvStake = IF TypeOf(t) = "Regular" THEN @ ELSE @ \cup {t},
               !.totalOut = @ + TxInfo[t].out]
      i2 == IF TypeOf(t) # "Vote" THEN i1
            ELSE [i1 EXCEPT !.inds = SetTicketIndex(@, VoteOf(t))]
      i3 == IF ~Counts(inv, t) THEN i2
            ELSE [i2 EXCEPT !.likelyCount = @ + 1,
                            !.likelyTotal = @ + TxInfo[t].out]
  IN IF TypeOf(t) # "Vote" \/ ~Counts(inv, t) THEN i3
     ELSE [i3 EXCEPT !.voteTotal = @ + TxInfo[t].out,
                     !.voting = Tally(MarkVoted(@, VoteOf(t)), VoteOf(t))]

\* MPTxsByHeight: the votes for the highest block first, by ticket index.
MPTxsByHeight(votes, inds) ==
  LET idx(t) == CHOOSE i \in 1..Len(inds[VoteOf(t).hash]) :
                   inds[VoteOf(t).hash][i] = VoteOf(t).ticket
  IN SortSeq(votes, LAMBDA t, u :
       IF VoteOf(t).height = VoteOf(u).height THEN idx(t) < idx(u)
       ELSE VoteOf(t).height > VoteOf(u).height)

ParseTxns(txs, block) ==
  LET inv == FoldLeft(LAMBDA i, t : CountTx(i, t, Append(i[ListOf(t)], t)),
                      EmptyInventory(block), txs)
  IN [inv EXCEPT !.Votes = MPTxsByHeight(@, inv.inds),
                 !.numAll = Len(txs),
                 !.latest = Upto(NumLatestMempoolTxns, txs)]


AddTx(inv, t) ==
  [CountTx(inv, t, <<t>> \o inv[ListOf(t)]) EXCEPT
     !.numAll = @ + 1,
     !.latest = IF Len(@) >= NumLatestMempoolTxns
                THEN <<t>> \o SubSeq(@, 1, Len(@) - 1)
                ELSE <<t>> \o @]

Held(inv) == inv.InvRegular \cup inv.InvStake

\* MempoolInfo.Tx looks where the inventory says the transaction is.
getTxFromList(t, s) == t \in ToSet(s)
FindTx(inv, t) ==
  \/ t \in inv.InvRegular /\ getTxFromList(t, inv.Transactions)
  \/ /\ t \notin inv.InvRegular /\ t \in inv.InvStake
     /\ \/ getTxFromList(t, inv.Tickets) \/ getTxFromList(t, inv.Votes)
        \/ getTxFromList(t, inv.Revocations)

\* MempoolInfo.Trim: what the visual blocks page shows.
FilterRegularTx(s) == SelectSeq(s, LAMBDA t : ~TxInfo[t].coinbase)
FilterUniqueLastBlockVotes(s, hash) ==
  SelectSeq(s, LAMBDA t : VotesOnBlock(VoteOf(t), hash))
getTotalFee(s) == SumOf(s, LAMBDA t : TxInfo[t].fee)
Trim(inv) ==
  LET d == [Transactions |-> FilterRegularTx(inv.Transactions),
            Tickets |-> inv.Tickets,
            Votes |-> FilterUniqueLastBlockVotes(inv.Votes, inv.block.hash),
            Revocations |-> inv.Revocations]
  IN [lists |-> d, total |-> inv.totalOut,
      fees |-> getTotalFee(d.Transactions) + getTotalFee(d.Revocations)
                 + getTotalFee(d.Tickets) + getTotalFee(d.Votes)]

-----------------------------------------------------------------------------
(* Ticket fees: Collect's summary and the answers of MempoolDataCache.     *)

Ascending(S) ==
  LET s == InOrder(S, [t \in S |-> TxInfo[t].fee])
  IN [i \in DOMAIN s |-> TxInfo[s[i]].fee]

\* 0-based as in the code: -1 when there are no tickets.
lowestMineableIdx(n) ==
  CASE n >= MaxFreshStakePerBlock -> n - MaxFreshStakePerBlock
    [] n # 0 /\ n < MaxFreshStakePerBlock -> 0
    [] OTHER -> -1

MinableFeeInfo(S) ==
  LET fees == Ascending(S)
      n == Len(fees)
      low == lowestMineableIdx(n)
      lowEnd == Max({low - feeRad, 0})
      highEnd == Min({low + feeRad + 1, n})
  IN [allFees |-> fees,
      lowestMineableFee |-> IF n = 0 THEN 0 ELSE fees[low + 1],
      targetFeeWindow |-> IF n = 0 THEN <<>>
                          ELSE SubSeq(fees, lowEnd + 1, highEnd)]

\* The n highest of an ascending list; all of them for n < 0 or too large.
Highest_first(s, n) ==
  CASE n = 0 -> <<>>
    [] n < 0 \/ n >= Len(s) -> s
    [] OTHER -> SubSeq(s, 1, n)

Highest(s, n) ==
  CASE n = 0 -> <<>>
    [] n < 0 \/ n >= Len(s) -> s
    [] OTHER -> SubSeq(s, Len(s) - n + 1, Len(s))

GetHeight(c) == c.height
SBits(c) == <<c.stakeDiff, c.height>>
GetNumTickets(c) == <<c.height, c.numTickets>>
GetFeeInfoExtra(c) == <<c.height, c.lowestMineable>>
GetFees(c, n) == [height |-> c.height, num |-> Len(c.allFees),
                  fees |-> Highest(c.allFees, n)]
GetFeeRates(c, n) == [height |-> c.height, num |-> Len(c.allFeeRates),
                      fees |-> Highest(c.allFeeRates, n)]
GetTicketsDetails(c, n) == [height |-> c.height, num |-> Len(c.details),
                            tickets |-> Highest(c.details, n)]

\* The average of the highest fees added to the price: with no tickets the
\* code divides by zero, and the answer is not a number (valid = FALSE).
GetTicketPriceCountTime(c, feeAvgLength) ==
  LET n == Min({Len(c.allFees), feeAvgLength})
  IN [count |-> Len(c.allFees), valid |-> n # 0, over |-> n,
      sum |-> FoldSeq(LAMBDA f, a : f + a, 0, Highest(c.allFees, n))]
=============================================================================
