------------------------------ MODULE TripBook ------------------------------
(***************************************************************************)
(* What a trip's ledger promises, whatever tables, requests and reads it   *)
(* is made of.  It is a set of entries that move money between users;      *)
(* every entry gives as much as it takes; a payment between two users      *)
(* stands for good, an expense may be withdrawn, once; and the balance of  *)
(* a user is never anything but the running total of what stands.          *)
(***************************************************************************)
EXTENDS Integers, Functions

CONSTANTS
  User,
  Entry,    \* the names entries may have
  Moves     \* what an entry may move for each user

VARIABLES
  standing,  \* the entries that stand: what each moves, and whether it is a payment
  balance    \* of every user

vars == <<standing, balance>>

Init ==
  /\ standing = <<>>
  /\ balance = [u \in User |-> 0]

Post(e, move, payment) ==
  /\ e \notin DOMAIN standing
  /\ SumFunction(move) = 0
  /\ standing' = [i \in DOMAIN standing \union {e} |->
                    IF i = e THEN [move |-> move, payment |-> payment] ELSE standing[i]]
  /\ balance' = [u \in User |-> balance[u] + move[u]]

Withdraw(e) ==
  /\ e \in DOMAIN standing
  /\ ~standing[e].payment
  /\ standing' = Restrict(standing, DOMAIN standing \ {e})
  /\ balance' = [u \in User |-> balance[u] - standing[e].move[u]]

Next ==
  /\ standing' # standing
  /\ \E e \in Entry :
       \/ \E move \in Moves, payment \in BOOLEAN : Post(e, move, payment)
       \/ Withdraw(e)

Spec == Init /\ [][Next]_vars
=============================================================================
