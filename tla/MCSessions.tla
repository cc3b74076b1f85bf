----------------------------- MODULE MCSessions -----------------------------
(***************************************************************************)
(* Two calls at once of two persons, who may delete their accounts, come   *)
(* back for another, and pick any handle, that of a deleted user included. *)
(***************************************************************************)
EXTENDS Sessions, TLC

CONSTANTS i1, i2, h1, d1, d2, p1, p2

Names == [i \in Identity |-> <<h1, d2>>]
Anon == <<d1, d2>>

\* Neither the calls nor the persons are told apart.
Twins == {f @@ g : f \in Permutations(Process), g \in Permutations(Identity)}
=============================================================================
