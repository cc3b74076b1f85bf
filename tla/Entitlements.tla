---------------------------- MODULE Entitlements ----------------------------
(***************************************************************************)
(* The entitlement tables and the transitions of entitlement.service.ts.   *)
(* A PREMIUM grant from a purchase is one row keyed by (user, source       *)
(* record); the source record is the purchase row of a token, so the table *)
(* is indexed by user and token.  users.isPremium is a cache over it.      *)
(*                                                                         *)
(* The service's methods run inside a transaction of their caller, so they *)
(* are operators on a table value here: the caller decides when the new    *)
(* value is committed.                                                     *)
(***************************************************************************)
EXTENDS PlayStore

CONSTANTS User, NoUser

ASSUME UserAssumption == NoUser \notin User

VARIABLES
  entitlement,  \* user_entitlements: [User -> [Token -> row]]
  premium       \* users.isPremium

EntitlementRow ==
  [status : {"NONE", "ACTIVE", "EXPIRED", "REVOKED"}, expiresAt : Nat]

NoRow == [status |-> "NONE", expiresAt |-> 0]

EntitlementTypeOK ==
  /\ entitlement \in [User -> [Token -> EntitlementRow]]
  /\ premium \in [User -> BOOLEAN]

EntitlementInit ==
  /\ entitlement = [u \in User |-> [t \in Token |-> NoRow]]
  /\ premium = [u \in User |-> FALSE]

DeriveStatus(expiresAt) == IF expiresAt > now THEN "ACTIVE" ELSE "EXPIRED"

Live(row) == row.status = "ACTIVE" /\ row.expiresAt > now

(* findActiveEntitlementsOfType on table ent: what the guards read, and what
   refreshPremiumCache writes to users.isPremium. *)
HasActive(ent, u) == \E t \in Token : Live(ent[u][t])
IsPremium(u) == HasActive(entitlement, u)

\* Mutant: a grant runs one period longer than Google's expiry.
GrantedTooLong(ent, u, t, status, expiresAt) ==
  [ent EXCEPT ![u][t] = [status |-> status, expiresAt |-> expiresAt + 1]]

(* grantWithinTx / upsertEntitlement: idempotent on the source key. *)
Granted(ent, u, t, status, expiresAt) ==
  [ent EXCEPT ![u][t] = [status |-> status, expiresAt |-> expiresAt]]

(* closeBySourceWithinTx: this token's own row only, and only when ACTIVE. *)
Closes(ent, u, t) == ent[u][t].status = "ACTIVE"
Closed(ent, u, t, status) ==
  IF Closes(ent, u, t) THEN [ent EXCEPT ![u][t].status = status] ELSE ent

=============================================================================
