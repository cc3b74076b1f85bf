---------------------------- MODULE BalanceEngine ----------------------------
(***************************************************************************)
(* balance-engine.ts: net balances, pairwise debts and the simplified      *)
(* settle-up plan, over the rows a call has read.  E and S are functions   *)
(* from row numbers to expenses [amount, paid, share] and to settlements   *)
(* [from, to, amount]; paid and share are functions from users to amounts. *)
(***************************************************************************)
EXTENDS Integers, FiniteSets, FiniteSetsExt, Functions

At(f, u) == IF u \in DOMAIN f THEN f[u] ELSE 0

(* assertExpenseIntegrity and the inlined checks of computeNetBalances.  One
   contribution per payer: the table's unique index. *)
Intact(e) ==
  /\ DOMAIN e.paid # {} /\ \A u \in DOMAIN e.paid : e.paid[u] > 0
  /\ SumFunction(e.paid) = e.amount
  /\ SumFunction(e.share) = e.amount

SettlementFits(s) == s.amount > 0 /\ s.from # s.to

(* The sums the viewer aggregates and getMemberNetBalance are made of. *)
Paid(u, E) == SumFunction([i \in DOMAIN E |-> At(E[i].paid, u)])
Share(u, E) == SumFunction([i \in DOMAIN E |-> At(E[i].share, u)])
SettledOut(u, S) == SumFunction([i \in {j \in DOMAIN S : S[j].from = u} |-> S[i].amount])
SettledIn(u, S) == SumFunction([i \in {j \in DOMAIN S : S[j].to = u} |-> S[i].amount])

(* userNet; also the accumulation of computeNetBalances for one user. *)
UserNet(u, E, S) == Paid(u, E) - Share(u, E) + SettledOut(u, S) - SettledIn(u, S)

Appearing(E, S) ==
  (UNION {DOMAIN E[i].paid \union DOMAIN E[i].share : i \in DOMAIN E})
    \union (UNION {{S[i].from, S[i].to} : i \in DOMAIN S})

\* Mutant: users who have left the trip are not reported.
MembersOnly(members, E, S) == [u \in members |-> UserNet(u, E, S)]

(* The members, then everybody else the rows name. *)
ComputeNetBalances(members, E, S) ==
  [u \in members \union Appearing(E, S) |-> UserNet(u, E, S)]

-----------------------------------------------------------------------------
(* computePairwiseDebts.  The north-west corner fill lays the shares and the
   contributions of an expense along one line, both in the order of the
   users: u owes v the overlap of u's share with v's contribution. *)

Offset(f, u) == SumFunctionOnSet(f, {v \in DOMAIN f : v < u})

\* Mutant: each share is laid out from the start of the line.
Unshifted(e, u, v) ==
  LET upto == Min({e.share[u], Offset(e.paid, v) + e.paid[v]})
  IN  Max({0, upto - Offset(e.paid, v)})

Fill(e, u, v) ==
  LET from == Max({Offset(e.share, u), Offset(e.paid, v)})
      upto == Min({Offset(e.share, u) + e.share[u], Offset(e.paid, v) + e.paid[v]})
  IN  Max({0, upto - from})

Owed(u, v, E, S) ==
  SumFunction([i \in {j \in DOMAIN E : u \in DOMAIN E[j].share /\ v \in DOMAIN E[j].paid} |->
                 Fill(E[i], u, v)])
    + SumFunction([i \in {j \in DOMAIN S : S[j].to = u /\ S[j].from = v} |-> S[i].amount])

(* One transfer for every pair whose debts do not cancel. *)
PairwiseDebts(E, S) ==
  LET net(u, v) == Owed(u, v, E, S) - Owed(v, u, E, S)
      ids == Appearing(E, S)
  IN  {[from |-> p[1], to |-> p[2], amount |-> net(p[1], p[2])] :
         p \in {q \in ids \X ids : q[1] # q[2] /\ net(q[1], q[2]) > 0}}

-----------------------------------------------------------------------------
(* simplify.  nets are the balances it sorted, left what is still open of
   them: the pointers i and j stand on the first debtor and creditor, in that
   order, who are still open. *)

Abs(n) == IF n < 0 THEN -n ELSE n

(* |net| DESC, then userId ASC. *)
Before(nets, u, v) ==
  Abs(nets[u]) > Abs(nets[v]) \/ (Abs(nets[u]) = Abs(nets[v]) /\ u < v)

First(nets, S) == CHOOSE u \in S : \A v \in S \ {u} : Before(nets, u, v)

Debtors(left) == {u \in DOMAIN left : left[u] < 0}
Creditors(left) == {u \in DOMAIN left : left[u] > 0}

Unfinished(left) == Debtors(left) # {} /\ Creditors(left) # {}

NextTransfer(nets, left) ==
  LET d == First(nets, Debtors(left))
      c == First(nets, Creditors(left))
      pay == IF -left[d] < left[c] THEN -left[d] ELSE left[c]
  IN  [from |-> d, to |-> c, amount |-> pay]

\* Mutant: one unit less is taken off the debtor's side.
Sloppy(left, t) == [left EXCEPT ![t.from] = @ + t.amount - 1, ![t.to] = @ - t.amount]

Apply(left, t) == [left EXCEPT ![t.from] = @ + t.amount, ![t.to] = @ - t.amount]
=============================================================================
