------------------------------- MODULE MCMoney -------------------------------
(***************************************************************************)
(* One call after the other, with every kind of split, several payers,     *)
(* amounts that do not divide, bodies the checks must refuse, the          *)
(* simplified plan, and the feed of user 4.                                *)
(***************************************************************************)
EXTENDS TripLife

CONSTANTS p1

Body(split, amount, payer, payments, people) ==
  [split |-> split, amount |-> amount, payer |-> payer, payments |-> payments, people |-> people]

Bodies ==
  { \* 10 between all: the payer takes what is left.
    Body("EQUAL", 10, 2, <<>>, <<>>),
    \* Two payers, of whom one owes nothing.
    Body("EXACT", 9, NoPayer, << <<1, 3>>, <<4, 6>> >>, << <<1, 0>>, <<2, 5>>, <<3, 2>>, <<4, 2>> >>),
    \* Figures that are off by one.
    Body("EXACT", 7, 1, <<>>, << <<1, 3>>, <<2, 3>> >>),
    Body("PERCENT", 7, 3, <<>>, << <<2, 3333>>, <<1, 3333>>, <<3, 3333>> >>),
    \* Thirds, the larger remainder not of the first user.
    Body("PERCENT", 10, 3, <<>>, << <<2, 3333>>, <<1, 3333>>, <<3, 3334>> >>),
    Body("SHARES", 5, NoPayer, << <<2, 2>>, <<1, 3>> >>, << <<1, 1000000>>, <<2, 999999>>, <<3, 1>> >>),
    \* The payer does not take part; the amount overflows its column.
    Body("EQUAL", 4, 3, <<>>, << <<1, 0>>, <<2, 0>> >>),
    Body("EQUAL", 50, 1, <<>>, << <<1, 0>> >>) }

(* Two rows of one millisecond, and a younger one whose id is smaller. *)
FeedRows ==
  {[createdAt |-> 1, id |-> 2], [createdAt |-> 1, id |-> 3], [createdAt |-> 2, id |-> 1]}

Calls ==
  {[op |-> "expense", by |-> 1, body |-> b] : b \in Bodies}
    \union {[op |-> "settle", by |-> 2, from |-> 3, to |-> 2, amount |-> 2]}
    \union {[op |-> "settle", by |-> 1, from |-> 1, to |-> 2, amount |-> 3]}
    \union {[op |-> "deleteExpense", by |-> 1, row |-> 1],
            [op |-> "remove", by |-> 1, target |-> 3],
            [op |-> "add", by |-> 1, target |-> 3],
            [op |-> "deleteAccount", by |-> 2],
            [op |-> "dashboard", by |-> 2],
            [op |-> "balances", by |-> 1, simplify |-> TRUE],
            [op |-> "balances", by |-> 2, simplify |-> TRUE]}
=============================================================================
