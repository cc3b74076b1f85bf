----------------------------- MODULE GroupLimit -----------------------------
(***************************************************************************)
(* limit-evaluation.service.ts and reward.service.ts: how many active      *)
(* groups a user may own.  Creating a group and earning a slot run in      *)
(* transactions under one advisory lock per user; premium comes and goes   *)
(* underneath (Entitlements), and groups are deleted without the lock.     *)
(* A Request is one such call in flight; a statement of its transaction    *)
(* sees what others committed before it.                                   *)
(***************************************************************************)
EXTENDS Integers

CONSTANTS
  User, NoUser,
  Request, NoRequest,
  FREE_ACTIVE_GROUP_LIMIT,      \* 3
  MAX_FREE_REWARD_GROUP_SLOTS,  \* 0: the reward is switched off, its code is still there
  PREMIUM_ACTIVE_GROUP_LIMIT    \* 10

ASSUME LimitAssumption ==
  /\ NoUser \notin User /\ NoRequest \notin Request
  /\ FREE_ACTIVE_GROUP_LIMIT \in Nat
  /\ MAX_FREE_REWARD_GROUP_SLOTS \in Nat
  /\ PREMIUM_ACTIVE_GROUP_LIMIT \in Nat

VARIABLES
  isPremium,  \* EntitlementGuardService.isPremium, by user
  groups,     \* trips owned and not deleted, by user
  rewards,    \* reward_unlocks, by user
  userLock,   \* holder of pg_advisory_xact_lock(hashtext(userId))
  request     \* the call each request is running

vars == <<isPremium, groups, rewards, userLock, request>>

Call ==
  [pc : {"idle", "lock", "count", "insert", "slot", "grant"},
   kind : {"create", "reward"}, user : User \union {NoUser}, limit : Nat]

NoCall == [pc |-> "idle", kind |-> "create", user |-> NoUser, limit |-> 0]

TypeOK ==
  /\ isPremium \in [User -> BOOLEAN]
  /\ groups \in [User -> Nat]
  /\ rewards \in [User -> Nat]
  /\ userLock \in [User -> Request \union {NoRequest}]
  /\ request \in [Request -> Call]

Init ==
  /\ isPremium = [u \in User |-> FALSE]
  /\ groups = [u \in User |-> 0]
  /\ rewards = [u \in User |-> 0]
  /\ userLock = [u \in User |-> NoRequest]
  /\ request = [r \in Request |-> NoCall]

-----------------------------------------------------------------------------

(* getGroupAllowance: the limit that holds for u now. *)
GetGroupAllowance(u) ==
  IF isPremium[u] THEN PREMIUM_ACTIVE_GROUP_LIMIT
  ELSE IF rewards[u] < MAX_FREE_REWARD_GROUP_SLOTS
    THEN FREE_ACTIVE_GROUP_LIMIT + rewards[u]
    ELSE FREE_ACTIVE_GROUP_LIMIT + MAX_FREE_REWARD_GROUP_SLOTS

Start(r, u, kind) ==
  /\ request[r].pc = "idle"
  /\ request' = [request EXCEPT ![r] = [NoCall EXCEPT !.pc = "lock", !.kind = kind, !.user = u]]
  /\ UNCHANGED <<isPremium, groups, rewards, userLock>>

\* Mutant: the limit is evaluated without the user's lock.
Unlocked(r) ==
  /\ request[r].pc = "lock"
  /\ request' = [request EXCEPT ![r].pc = IF request[r].kind = "create" THEN "count" ELSE "slot",
                                ![r].limit = GetGroupAllowance(request[r].user)]
  /\ UNCHANGED <<isPremium, groups, rewards, userLock>>

(* lockUser, then the first read: the allowance of a creation, which premium
   may outlive or outrun, or nothing yet for a reward. *)
LockUser(r) ==
  LET u == request[r].user
  IN  /\ request[r].pc = "lock"
      /\ userLock[u] = NoRequest
      /\ userLock' = [userLock EXCEPT ![u] = r]
      /\ request' = [request EXCEPT ![r].pc = IF request[r].kind = "create" THEN "count" ELSE "slot",
                                    ![r].limit = GetGroupAllowance(u)]
      /\ UNCHANGED <<isPremium, groups, rewards>>

\* Mutant: a lock of the session, not of the transaction, stays behind.
StillLocked(r) == userLock

Unlock(r) == [u \in User |-> IF userLock[u] = r THEN NoRequest ELSE userLock[u]]

End(r) ==
  /\ userLock' = Unlock(r)
  /\ request' = [request EXCEPT ![r] = NoCall]

\* Mutant: a user at the limit may create one more.
OneMore(usage, limit) == usage <= limit

(* evaluateGroupCreation's verdict. *)
Allowed(usage, limit) == usage < limit

EvaluateGroupCreation(r) ==
  /\ request[r].pc = "count"
  /\ Allowed(groups[request[r].user], request[r].limit)
  /\ request' = [request EXCEPT ![r].pc = "insert"]
  /\ UNCHANGED <<isPremium, groups, rewards, userLock>>

Blocked(r) ==
  /\ request[r].pc = "count"
  /\ ~Allowed(groups[request[r].user], request[r].limit)
  /\ End(r)
  /\ UNCHANGED <<isPremium, groups, rewards>>

CreateGroup(r) ==
  /\ request[r].pc = "insert"
  /\ groups' = [groups EXCEPT ![request[r].user] = @ + 1]
  /\ End(r)
  /\ UNCHANGED <<isPremium, rewards>>

(* grantExtraGroupSlot *)
CountRewards(r) ==
  /\ request[r].pc = "slot"
  /\ rewards[request[r].user] < MAX_FREE_REWARD_GROUP_SLOTS
  /\ request' = [request EXCEPT ![r].pc = "grant"]
  /\ UNCHANGED <<isPremium, groups, rewards, userLock>>

CapReached(r) ==
  /\ request[r].pc = "slot"
  /\ rewards[request[r].user] >= MAX_FREE_REWARD_GROUP_SLOTS
  /\ End(r)
  /\ UNCHANGED <<isPremium, groups, rewards>>

GrantExtraGroupSlot(r) ==
  /\ request[r].pc = "grant"
  /\ rewards' = [rewards EXCEPT ![request[r].user] = @ + 1]
  /\ End(r)
  /\ UNCHANGED <<isPremium, groups>>

(* The transaction is rolled back. *)
Abort(r) ==
  /\ request[r].pc # "idle"
  /\ End(r)
  /\ UNCHANGED <<isPremium, groups, rewards>>

(* The process dies with all of its calls. *)
Crash ==
  /\ userLock' = [u \in User |-> NoRequest]
  /\ request' = [r \in Request |-> NoCall]
  /\ UNCHANGED <<isPremium, groups, rewards>>

(* The owner deletes an active group, without any lock. *)
SoftDelete(u) ==
  /\ groups[u] > 0
  /\ groups' = [groups EXCEPT ![u] = @ - 1]
  /\ UNCHANGED <<isPremium, rewards, userLock, request>>

(* A grant, a revocation, or the end of the paid period. *)
PremiumChanges(u) ==
  /\ isPremium' = [isPremium EXCEPT ![u] = ~@]
  /\ UNCHANGED <<groups, rewards, userLock, request>>

Step(r) ==
  \/ LockUser(r)
  \/ EvaluateGroupCreation(r)
  \/ Blocked(r)
  \/ CreateGroup(r)
  \/ CountRewards(r)
  \/ CapReached(r)
  \/ GrantExtraGroupSlot(r)

Next ==
  \/ \E r \in Request :
       \/ \E u \in User, kind \in {"create", "reward"} : Start(r, u, kind)
       \/ Step(r)
       \/ Abort(r)
  \/ Crash
  \/ \E u \in User : SoftDelete(u) \/ PremiumChanges(u)

Spec == Init /\ [][Next]_vars

(* Postgres queues lock waiters, and a transaction that runs goes on. *)
Fairness == \A r \in Request : SF_vars(LockUser(r)) /\ WF_vars(Step(r))
FairSpec == Spec /\ Fairness

-----------------------------------------------------------------------------
(* Properties. *)

(* A creation once allowed is still within the limit it was allowed under when
   its group is inserted: no other device, no double tap slips in between
   ("they cannot both pass the count", enforceGroupCreation). *)
AdmissionStands ==
  \A r \in Request :
    request[r].pc = "insert" => groups[request[r].user] < request[r].limit

(* Whatever is created, deleted or earned at once, nobody's groups exceed what
   the most generous plan admits, and rewards never stack beyond their cap ("a
   double-tap or replayed request never stacks", grantExtraGroupSlot). *)
WithinCeiling ==
  \A u \in User :
    /\ rewards[u] <= MAX_FREE_REWARD_GROUP_SLOTS
    /\ \/ groups[u] <= PREMIUM_ACTIVE_GROUP_LIMIT
       \/ groups[u] <= FREE_ACTIVE_GROUP_LIMIT + MAX_FREE_REWARD_GROUP_SLOTS

(* A user who is never premium never owns more groups than the free plan and
   the earned slots admit, although premium is read, the groups are counted and
   the group is inserted in three statements. *)
FreePlanHolds ==
  \A u \in User :
    []~isPremium[u] => [](groups[u] <= FREE_ACTIVE_GROUP_LIMIT + rewards[u])

(* Requests of one user queue on the lock, and all of them get their answer. *)
EveryRequestAnswered == \A r \in Request : request[r].pc # "idle" ~> request[r].pc = "idle"

-----------------------------------------------------------------------------

(* A transaction past its lock holds it, and its reads still fit. *)
HoldsLock(r) == request[r].pc \notin {"idle", "lock"} => userLock[request[r].user] = r

LimitIInv ==
  /\ TypeOK
  /\ \A r \in Request :
       /\ request[r].pc # "idle" => request[r].user \in User
       /\ HoldsLock(r)
       /\ request[r].pc = "grant" => rewards[request[r].user] < MAX_FREE_REWARD_GROUP_SLOTS
       /\ \/ request[r].limit <= PREMIUM_ACTIVE_GROUP_LIMIT
          \/ request[r].limit <= FREE_ACTIVE_GROUP_LIMIT + MAX_FREE_REWARD_GROUP_SLOTS
  /\ AdmissionStands
  /\ WithinCeiling

=============================================================================
