------------------------------ MODULE MCLedger ------------------------------
(***************************************************************************)
(* Two calls at once, of the few kinds that meet: one expense shared by    *)
(* two users, a settlement, and everything that looks at balances.         *)
(***************************************************************************)
EXTENDS Ledger, TLC

CONSTANTS p1, p2

Dinner ==
  [split |-> "EQUAL", amount |-> 2, payer |-> 1, payments |-> <<>>,
   people |-> << <<1, 0>>, <<2, 0>> >>]

Calls ==
  {[op |-> "expense", by |-> 1, body |-> Dinner],
   [op |-> "settle", by |-> 2, from |-> 2, to |-> 1, amount |-> 1],
   [op |-> "deleteExpense", by |-> 1, row |-> 1],
   [op |-> "remove", by |-> 1, target |-> 2],
   [op |-> "remove", by |-> 1, target |-> 1],
   [op |-> "add", by |-> 1, target |-> 2],
   [op |-> "deleteTrip", by |-> 1],
   [op |-> "deleteAccount", by |-> 1],
   [op |-> "balances", by |-> 1, simplify |-> TRUE],
   [op |-> "dashboard", by |-> 2]}

Twins == Permutations(Process)
=============================================================================
