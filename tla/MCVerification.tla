--------------------------- MODULE MCVerification ---------------------------
EXTENDS Verification, TLC

CONSTANTS old, new, u1, u2, w1, w2

NewReplacesOld == old :> NoToken @@ new :> old
OldThenNew == old :> 1 @@ new :> 2

ShortLife == { <<"NONE", "ACTIVE">>, <<"ACTIVE", "REVOKED">> }

PendingLife == ShortLife \union { <<"NONE", "PENDING">>, <<"PENDING", "ACTIVE">> }

Unlinked == old :> NoToken @@ new :> NoToken

Symmetry == Permutations(Worker) \union Permutations(User)
=============================================================================
