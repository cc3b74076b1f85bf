-------------------------- MODULE GroupLimitProofs --------------------------
(***************************************************************************)
(* The group limits of GroupLimit, for every limit and however many        *)
(* requests and users: what a transaction reads under the user's lock can  *)
(* only shrink until it writes, so one evaluation is enough.  The server   *)
(* that runs these calls does nothing GroupLimit does not allow, however   *)
(* it stops.                                                               *)
(***************************************************************************)
EXTENDS Server, TLAPS

(* A call keeps its promise: what a request relies on in its phase. *)
RequestInv(r) ==
  /\ request[r].pc # "idle" => request[r].user \in User
  /\ HoldsLock(r)
  /\ request[r].pc = "grant" => rewards[request[r].user] < MAX_FREE_REWARD_GROUP_SLOTS
  /\ \/ request[r].limit <= PREMIUM_ACTIVE_GROUP_LIMIT
     \/ request[r].limit <= FREE_ACTIVE_GROUP_LIMIT + MAX_FREE_REWARD_GROUP_SLOTS
  /\ request[r].pc = "insert" => groups[request[r].user] < request[r].limit

(* The invariant, regrouped request by request. *)
LEMMA LimitIInvParts ==
  LimitIInv <=> TypeOK /\ WithinCeiling /\ \A r \in Request : RequestInv(r)
  BY DEF LimitIInv, RequestInv, AdmissionStands

(* An idle request is a call. *)
LEMMA NoCallType == NoCall \in Call
  BY DEF NoCall, Call

(* No allowance exceeds the more generous of the two plans. *)
LEMMA AllowanceBound ==
  ASSUME TypeOK, NEW u \in User
  PROVE  /\ GetGroupAllowance(u) \in Nat
         /\ \/ GetGroupAllowance(u) <= PREMIUM_ACTIVE_GROUP_LIMIT
            \/ GetGroupAllowance(u) <= FREE_ACTIVE_GROUP_LIMIT + MAX_FREE_REWARD_GROUP_SLOTS
  BY LimitAssumption DEF TypeOK, GetGroupAllowance

(* A request that is left alone keeps its promise while its user's groups and
   rewards do not grow, or another request holds the lock. *)
LEMMA OthersKept ==
  ASSUME TypeOK, TypeOK', NEW r \in Request, RequestInv(r), request'[r] = request[r],
         \A u \in User : userLock[u] = r =>
           /\ userLock'[u] = r
           /\ groups'[u] <= groups[u]
           /\ rewards'[u] <= rewards[u]
  PROVE  RequestInv(r)'
<1> DEFINE c == request[r]
<1>1. c \in Call /\ MAX_FREE_REWARD_GROUP_SLOTS \in Nat
  BY LimitAssumption DEF TypeOK
<1>2. CASE c.pc \in {"idle", "lock"}
  BY <1>2 DEF RequestInv, HoldsLock
<1>3. CASE c.pc \notin {"idle", "lock"}
  <2>1. c.user \in User /\ userLock[c.user] = r
    BY <1>3 DEF RequestInv, HoldsLock
  <2>2. /\ groups'[c.user] <= groups[c.user] /\ rewards'[c.user] <= rewards[c.user]
        /\ groups[c.user] \in Nat /\ groups'[c.user] \in Nat
        /\ rewards[c.user] \in Nat /\ rewards'[c.user] \in Nat
        /\ c.limit \in Nat
    BY <1>1, <2>1 DEF TypeOK, Call
  <2> QED
    BY <1>1, <1>3, <2>1, <2>2 DEF RequestInv, HoldsLock
<1> QED
  BY <1>2, <1>3

(* It holds before the first request. *)
LEMMA InitLimit == Init => LimitIInv
  BY NoCallType, LimitAssumption
  DEF Init, LimitIInv, TypeOK, AdmissionStands, WithinCeiling, HoldsLock, NoCall

(* A transaction that ends, by a commit or a rollback, releases its lock. *)
LEMMA EndKept ==
  ASSUME LimitIInv, NEW r \in Request, End(r), UNCHANGED isPremium,
         groups' \in [User -> Nat], rewards' \in [User -> Nat],
         \A u \in User : userLock[u] # r => groups'[u] = groups[u] /\ rewards'[u] = rewards[u],
         WithinCeiling'
  PROVE  LimitIInv'
<1>1. TypeOK'
  BY NoCallType DEF LimitIInv, TypeOK, End, Unlock
<1>2. RequestInv(r)'
  BY LimitAssumption DEF LimitIInv, TypeOK, RequestInv, HoldsLock, End, NoCall
<1>3. ASSUME NEW q \in Request, q # r PROVE RequestInv(q)'
  <2>1. request'[q] = request[q] /\ RequestInv(q)
    BY <1>3, LimitIInvParts DEF LimitIInv, TypeOK, End
  <2>2. ASSUME NEW u \in User, userLock[u] = q
        PROVE  userLock'[u] = q /\ groups'[u] <= groups[u] /\ rewards'[u] <= rewards[u]
    BY <1>3, <2>2 DEF LimitIInv, TypeOK, End, Unlock
  <2> QED
    BY <1>1, <2>1, <2>2, OthersKept DEF LimitIInv
<1>4. \A q \in Request : RequestInv(q)'
  BY <1>2, <1>3
<1> QED
  BY <1>1, <1>4 DEF LimitIInv, RequestInv, AdmissionStands

(* A step of r inside its transaction, which writes no table. *)
LEMMA ProceedKept ==
  ASSUME LimitIInv, NEW r \in Request, NEW c \in Call,
         request' = [request EXCEPT ![r] = c],
         userLock' \in [User -> Request \union {NoRequest}],
         \A q \in Request, u \in User : (q # r /\ userLock[u] = q) => userLock'[u] = q,
         UNCHANGED <<isPremium, groups, rewards>>, RequestInv(r)'
  PROVE  LimitIInv'
<1>1. TypeOK'
  BY DEF LimitIInv, TypeOK
<1>2. ASSUME NEW q \in Request, q # r PROVE RequestInv(q)'
  <2>1. request'[q] = request[q] /\ RequestInv(q)
    BY <1>2, LimitIInvParts DEF LimitIInv, TypeOK
  <2>2. ASSUME NEW u \in User, userLock[u] = q
        PROVE  userLock'[u] = q /\ groups'[u] <= groups[u] /\ rewards'[u] <= rewards[u]
    BY <1>2, <2>2 DEF LimitIInv, TypeOK
  <2> QED
    BY <1>1, <2>1, <2>2, OthersKept DEF LimitIInv
<1>3. WithinCeiling'
  BY DEF LimitIInv, WithinCeiling
<1>4. \A q \in Request : RequestInv(q)'
  BY <1>2
<1> QED
  BY <1>1, <1>3, <1>4 DEF LimitIInv, RequestInv, AdmissionStands

(* A new request holds nothing and has read nothing. *)
LEMMA StartKept ==
  ASSUME LimitIInv, NEW r \in Request, NEW u \in User, NEW k \in {"create", "reward"},
         Start(r, u, k)
  PROVE  LimitIInv'
<1> DEFINE c == [NoCall EXCEPT !.pc = "lock", !.kind = k, !.user = u]
<1>1. c \in Call /\ c.pc = "lock" /\ c.user = u /\ c.limit = 0
  BY DEF NoCall, Call
<1>2. request' = [request EXCEPT ![r] = c] /\ UNCHANGED <<isPremium, groups, rewards, userLock>>
  BY DEF Start
<1>3. request'[r] = c
  BY <1>2 DEF LimitIInv, TypeOK
<1> HIDE DEF c
<1>4. RequestInv(r)'
  BY <1>1, <1>2, <1>3, LimitAssumption DEF RequestInv, HoldsLock
<1> QED
  BY <1>1, <1>2, <1>4, ProceedKept DEF LimitIInv, TypeOK

(* The statements of a transaction. *)
LEMMA StepKept ==
  ASSUME LimitIInv, NEW r \in Request, Step(r)
  PROVE  LimitIInv'
<1> DEFINE u == request[r].user
<1>1. request[r] \in Call /\ request[r].pc # "idle" /\ u \in User /\ RequestInv(r)
  BY LimitIInvParts DEF LimitIInv, TypeOK, Step, LockUser, EvaluateGroupCreation, Blocked,
     CreateGroup, CountRewards, CapReached, GrantExtraGroupSlot
<1>2. CASE LockUser(r)
  <2> DEFINE c == [request[r] EXCEPT !.pc = IF request[r].kind = "create" THEN "count" ELSE "slot",
                                     !.limit = GetGroupAllowance(u)]
  <2>1. /\ c \in Call /\ c.pc \in {"count", "slot"} /\ c.user = u
        /\ c.limit = GetGroupAllowance(u)
    BY <1>1, AllowanceBound DEF LimitIInv, Call
  <2>2. request' = [request EXCEPT ![r] = c] /\ request'[r] = c
    BY <1>2 DEF LockUser, LimitIInv, TypeOK
  <2>3. /\ userLock' = [userLock EXCEPT ![u] = r] /\ userLock[u] = NoRequest
        /\ UNCHANGED <<isPremium, groups, rewards>>
    BY <1>2 DEF LockUser
  <2> HIDE DEF c
  <2>4. RequestInv(r)'
    BY <1>1, <2>1, <2>2, <2>3, AllowanceBound DEF RequestInv, HoldsLock, LimitIInv, TypeOK
  <2> QED
    BY <1>1, <2>1, <2>2, <2>3, <2>4, ProceedKept, LimitAssumption DEF LimitIInv, TypeOK
<1>3. CASE EvaluateGroupCreation(r) \/ CountRewards(r)
  <2> DEFINE c == [request[r] EXCEPT !.pc = IF EvaluateGroupCreation(r) THEN "insert" ELSE "grant"]
  <2>1. c \in Call /\ c.user = u /\ c.limit = request[r].limit
    BY <1>1 DEF Call
  <2>2. /\ request' = [request EXCEPT ![r] = c] /\ request'[r] = c
        /\ UNCHANGED <<isPremium, groups, rewards, userLock>>
        /\ request[r].pc \in {"count", "slot"}
        /\ c.pc = "insert" => groups[u] < request[r].limit
        /\ c.pc = "grant" => rewards[u] < MAX_FREE_REWARD_GROUP_SLOTS
    BY <1>1, <1>3 DEF EvaluateGroupCreation, CountRewards, Allowed, LimitIInv, TypeOK, Call
  <2> HIDE DEF c
  <2>3. RequestInv(r)'
    BY <1>1, <2>1, <2>2 DEF RequestInv, HoldsLock
  <2> QED
    BY <2>1, <2>2, <2>3, ProceedKept DEF LimitIInv, TypeOK
<1>4. CASE Blocked(r) \/ CapReached(r)
  BY <1>4, EndKept DEF Blocked, CapReached, LimitIInv, TypeOK, WithinCeiling
<1>5. CASE CreateGroup(r)
  <2>1. /\ request[r].pc = "insert" /\ End(r) /\ UNCHANGED <<isPremium, rewards>>
        /\ groups' = [groups EXCEPT ![u] = groups[u] + 1]
    BY <1>5 DEF CreateGroup
  <2>2. userLock[u] = r /\ groups[u] < request[r].limit
    BY <1>1, <2>1 DEF RequestInv, HoldsLock
  <2>3. groups' \in [User -> Nat] /\ \A x \in User : x # u => groups'[x] = groups[x]
    BY <1>1, <2>1 DEF LimitIInv, TypeOK
  <2>4. request[r].limit \in Nat /\ groups[u] \in Nat /\ groups'[u] = groups[u] + 1
    BY <1>1, <2>1 DEF LimitIInv, TypeOK, Call
  <2>5. WithinCeiling'
    BY <1>1, <2>1, <2>2, <2>3, <2>4, LimitAssumption DEF RequestInv, WithinCeiling, LimitIInv
  <2> QED
    BY <2>1, <2>2, <2>3, <2>5, EndKept DEF LimitIInv, TypeOK
<1>6. CASE GrantExtraGroupSlot(r)
  <2>1. /\ request[r].pc = "grant" /\ End(r) /\ UNCHANGED <<isPremium, groups>>
        /\ rewards' = [rewards EXCEPT ![u] = rewards[u] + 1]
    BY <1>6 DEF GrantExtraGroupSlot
  <2>2. userLock[u] = r /\ rewards[u] < MAX_FREE_REWARD_GROUP_SLOTS
    BY <1>1, <2>1 DEF RequestInv, HoldsLock
  <2>3. /\ rewards' \in [User -> Nat] /\ \A x \in User : x # u => rewards'[x] = rewards[x]
        /\ rewards[u] \in Nat /\ rewards'[u] = rewards[u] + 1
    BY <1>1, <2>1 DEF LimitIInv, TypeOK
  <2>4. WithinCeiling'
    BY <1>1, <2>1, <2>2, <2>3, LimitAssumption DEF WithinCeiling, LimitIInv
  <2> QED
    BY <2>1, <2>2, <2>3, <2>4, EndKept DEF LimitIInv, TypeOK
<1> QED
  BY <1>2, <1>3, <1>4, <1>5, <1>6 DEF Step

(* A process that dies leaves no call and no lock behind. *)
LEMMA CrashKept ==
  ASSUME LimitIInv, Crash
  PROVE  LimitIInv'
<1>1. TypeOK'
  BY NoCallType DEF LimitIInv, TypeOK, Crash
<1>2. WithinCeiling'
  BY DEF LimitIInv, WithinCeiling, Crash
<1>3. ASSUME NEW r \in Request PROVE RequestInv(r)'
  BY <1>3, LimitAssumption DEF Crash, RequestInv, HoldsLock, NoCall
<1> QED
  BY <1>1, <1>2, <1>3 DEF LimitIInv, RequestInv, AdmissionStands

(* The users' own steps: a deletion only makes room, premium changes no count. *)
LEMMA UserKept ==
  ASSUME LimitIInv, NEW u \in User, SoftDelete(u) \/ PremiumChanges(u)
  PROVE  LimitIInv'
<1>1. /\ groups' \in [User -> Nat] /\ \A x \in User : groups'[x] <= groups[x]
      /\ isPremium' \in [User -> BOOLEAN]
      /\ UNCHANGED <<rewards, userLock, request>>
  <2>1. CASE SoftDelete(u)
    BY <2>1 DEF SoftDelete, LimitIInv, TypeOK
  <2>2. CASE PremiumChanges(u)
    BY <2>2 DEF PremiumChanges, LimitIInv, TypeOK
  <2> QED
    BY <2>1, <2>2
<1>2. TypeOK'
  BY <1>1 DEF LimitIInv, TypeOK
<1>3. WithinCeiling'
  BY <1>1, LimitAssumption DEF LimitIInv, TypeOK, WithinCeiling
<1>4. ASSUME NEW r \in Request PROVE RequestInv(r)'
  <2>1. RequestInv(r) /\ TypeOK
    BY LimitIInvParts DEF LimitIInv
  <2>2. \A x \in User : rewards'[x] <= rewards[x]
    BY <1>1, <2>1 DEF TypeOK
  <2> QED
    BY <1>1, <1>2, <2>1, <2>2, OthersKept
<1> QED
  BY <1>2, <1>3, <1>4 DEF LimitIInv, RequestInv, AdmissionStands

(* The inductive invariant holds in every reachable state. *)
THEOREM LimitInvariant == Spec => []LimitIInv
<1>1. LimitIInv /\ [Next]_vars => LimitIInv'
  <2> SUFFICES ASSUME LimitIInv, [Next]_vars PROVE LimitIInv'
    OBVIOUS
  <2>1. CASE UNCHANGED vars
    BY <2>1 DEF vars, LimitIInv, TypeOK, HoldsLock, AdmissionStands, WithinCeiling
  <2>2. ASSUME NEW r \in Request, Abort(r) PROVE LimitIInv'
    BY <2>2, EndKept DEF Abort, LimitIInv, TypeOK, WithinCeiling
  <2> QED
    BY <2>1, <2>2, StartKept, StepKept, CrashKept, UserKept DEF Next
<1> QED
  BY <1>1, InitLimit, PTL DEF Spec

(* No group is inserted beyond the limit its creation was allowed under. *)
THEOREM AdmissionsStand == Spec => []AdmissionStands
<1>1. LimitIInv => AdmissionStands
  BY DEF LimitIInv
<1> QED
  BY <1>1, LimitInvariant, PTL

(* No interleaving takes anybody beyond the most generous plan, or rewards
   beyond their cap. *)
THEOREM CeilingHolds == Spec => []WithinCeiling
<1>1. LimitIInv => WithinCeiling
  BY DEF LimitIInv
<1> QED
  BY <1>1, LimitInvariant, PTL

(* What keeps a user on the free plan: the groups, and every limit that was
   evaluated for the user, are within the free limit and the earned slots. *)
FreeInv(u) ==
  /\ groups[u] <= FREE_ACTIVE_GROUP_LIMIT + rewards[u]
  /\ \A r \in Request :
       (request[r].pc # "idle" /\ request[r].user = u)
         => request[r].limit <= FREE_ACTIVE_GROUP_LIMIT + rewards[u]

(* Every step changes one request, and its user's rows, or rows of one user. *)
LEMMA FreeKept ==
  ASSUME LimitIInv, LimitIInv', NEW u \in User, ~isPremium[u], FreeInv(u), [Next]_vars
  PROVE  FreeInv(u)'
<1>1. /\ TypeOK /\ TypeOK' /\ FREE_ACTIVE_GROUP_LIMIT \in Nat
      /\ MAX_FREE_REWARD_GROUP_SLOTS \in Nat
  BY LimitAssumption DEF LimitIInv
<1>2. groups[u] \in Nat /\ rewards[u] \in Nat /\ groups'[u] \in Nat /\ rewards'[u] \in Nat
  BY <1>1 DEF TypeOK
<1>3. ASSUME rewards[u] <= rewards'[u], groups'[u] <= FREE_ACTIVE_GROUP_LIMIT + rewards'[u],
             NEW q \in Request,
             \A r \in Request \ {q} : request'[r] = request[r],
             (request'[q].pc # "idle" /\ request'[q].user = u)
               => request'[q].limit <= FREE_ACTIVE_GROUP_LIMIT + rewards'[u]
      PROVE  FreeInv(u)'
  <2>1. ASSUME NEW r \in Request, r # q, request'[r].pc # "idle", request'[r].user = u
        PROVE  request'[r].limit <= FREE_ACTIVE_GROUP_LIMIT + rewards'[u]
    <3>1. request'[r] = request[r] /\ request[r].limit \in Nat
      BY <1>1, <1>3, <2>1 DEF TypeOK, Call
    <3> QED
      BY <1>1, <1>2, <1>3, <2>1, <3>1 DEF FreeInv
  <2> QED
    BY <1>3, <2>1 DEF FreeInv
<1>4. ASSUME NEW q \in Request, NEW x \in User, NEW k \in {"create", "reward"}, Start(q, x, k)
      PROVE  FreeInv(u)'
  <2>1. request'[q].limit = 0 /\ \A r \in Request \ {q} : request'[r] = request[r]
    BY <1>1, <1>4 DEF Start, TypeOK, NoCall
  <2> QED
    BY <1>1, <1>2, <1>3, <1>4, <2>1 DEF Start, FreeInv
<1>5. ASSUME NEW q \in Request, Step(q) PROVE FreeInv(u)'
  <2>1. \A r \in Request \ {q} : request'[r] = request[r]
    BY <1>1, <1>5 DEF Step, LockUser, EvaluateGroupCreation, Blocked, CreateGroup, CountRewards,
       CapReached, GrantExtraGroupSlot, End, TypeOK
  <2>2. request[q] \in Call /\ request[q].user \in User /\ request[q].pc # "idle"
    BY <1>1, <1>5 DEF LimitIInv, TypeOK, Step, LockUser, EvaluateGroupCreation, Blocked,
       CreateGroup, CountRewards, CapReached, GrantExtraGroupSlot
  <2>3. CASE LockUser(q)
    <3>1. rewards' = rewards /\ groups' = groups
      BY <2>3 DEF LockUser
    <3>2. request'[q].user = request[q].user
          /\ request'[q].limit = GetGroupAllowance(request[q].user)
      BY <1>1, <2>2, <2>3 DEF LockUser, TypeOK, Call
    <3>3. GetGroupAllowance(u) <= FREE_ACTIVE_GROUP_LIMIT + rewards[u]
      BY <1>1, <1>2 DEF GetGroupAllowance, LimitIInv, WithinCeiling
    <3> QED
      BY <1>2, <1>3, <2>1, <3>1, <3>2, <3>3 DEF FreeInv
  <2>4. CASE EvaluateGroupCreation(q) \/ CountRewards(q)
    <3>1. /\ request'[q].user = request[q].user /\ request'[q].limit = request[q].limit
          /\ rewards' = rewards /\ groups' = groups
      BY <1>1, <2>2, <2>4 DEF EvaluateGroupCreation, CountRewards, TypeOK, Call
    <3> QED
      BY <1>2, <1>3, <2>1, <2>2, <3>1 DEF FreeInv
  <2>5. CASE Blocked(q) \/ CapReached(q) \/ CreateGroup(q) \/ GrantExtraGroupSlot(q)
    <3>1. request'[q].pc = "idle"
      BY <1>1, <2>5 DEF Blocked, CapReached, CreateGroup, GrantExtraGroupSlot, End, NoCall, TypeOK
    <3>2. rewards[u] <= rewards'[u]
      BY <1>1, <1>2, <2>2, <2>5 DEF Blocked, CapReached, CreateGroup, GrantExtraGroupSlot, TypeOK
    <3>3. groups'[u] <= FREE_ACTIVE_GROUP_LIMIT + rewards'[u]
      <4>1. CASE CreateGroup(q) /\ request[q].user = u
        <5>1. request[q].limit \in Nat /\ groups[u] < request[q].limit
          BY <2>2, <4>1 DEF CreateGroup, LimitIInv, AdmissionStands, Call
        <5>2. groups'[u] = groups[u] + 1 /\ rewards' = rewards
          BY <1>1, <4>1 DEF CreateGroup, TypeOK
        <5> QED
          BY <1>1, <1>2, <2>2, <4>1, <5>1, <5>2 DEF FreeInv
      <4>2. CASE ~(CreateGroup(q) /\ request[q].user = u)
        <5>1. groups'[u] = groups[u]
          BY <1>1, <2>2, <2>5, <4>2 DEF Blocked, CapReached, CreateGroup, GrantExtraGroupSlot, TypeOK
        <5> QED
          BY <1>1, <1>2, <3>2, <5>1 DEF FreeInv
      <4> QED
        BY <4>1, <4>2
    <3> QED
      BY <1>3, <2>1, <3>1, <3>2, <3>3
  <2> QED
    BY <1>5, <2>3, <2>4, <2>5 DEF Step
<1>6. ASSUME NEW q \in Request, Abort(q) PROVE FreeInv(u)'
  <2>1. /\ request'[q].pc = "idle" /\ \A r \in Request \ {q} : request'[r] = request[r]
        /\ rewards' = rewards /\ groups' = groups
    BY <1>1, <1>6 DEF Abort, End, NoCall, TypeOK
  <2> QED
    BY <1>2, <1>3, <2>1 DEF FreeInv
<1>7. ASSUME NEW x \in User, SoftDelete(x) \/ PremiumChanges(x) PROVE FreeInv(u)'
  <2>1. rewards' = rewards /\ request' = request
    BY <1>7 DEF SoftDelete, PremiumChanges
  <2>2. groups'[u] <= groups[u]
    BY <1>1, <1>2, <1>7 DEF SoftDelete, PremiumChanges, TypeOK
  <2> QED
    BY <1>1, <1>2, <2>1, <2>2 DEF FreeInv
<1>8. CASE UNCHANGED vars
  BY <1>8 DEF vars, FreeInv
<1>9. CASE Crash
  BY <1>1, <1>2, <1>9 DEF Crash, NoCall, FreeInv
<1> QED
  BY <1>4, <1>5, <1>6, <1>7, <1>8, <1>9 DEF Next

(* For every free limit and reward cap: a user who is never premium stays
   within the free plan and the earned slots. *)
THEOREM FreePlan == Spec => FreePlanHolds
<1> SUFFICES ASSUME NEW u \in User
             PROVE  Spec => ([]~isPremium[u] => [](groups[u] <= FREE_ACTIVE_GROUP_LIMIT + rewards[u]))
  BY DEF FreePlanHolds
<1>1. Init => FreeInv(u)
  BY LimitAssumption DEF Init, FreeInv, NoCall
<1>2. LimitIInv /\ LimitIInv' /\ ~isPremium[u] /\ FreeInv(u) /\ [Next]_vars => FreeInv(u)'
  BY FreeKept
<1>3. FreeInv(u) => groups[u] <= FREE_ACTIVE_GROUP_LIMIT + rewards[u]
  BY DEF FreeInv
<1> QED
  BY <1>1, <1>2, <1>3, LimitInvariant, PTL DEF Spec

-----------------------------------------------------------------------------
(* The server. *)

(* Every step of the server is a step of the calls it serves, or none. *)
LEMMA ServerStep ==
  ASSUME [ServerNext]_serverVars
  PROVE  [Next]_vars
<1>1. ASSUME NEW r \in Request, Accept(r) \/ Leaves(r) \/ Work(r) \/ Fails(r)
      PROVE  [Next]_vars
  BY <1>1 DEF Accept, Leaves, Work, Fails, Next
<1>2. CASE Listen \/ Restart \/ Shutdown
  BY <1>2 DEF Listen, Restart, Shutdown
<1>3. CASE BootFails \/ ShutdownAgain \/ DisconnectDatabase \/ ForceExit \/ Fatal
  BY <1>3 DEF BootFails, ShutdownAgain, DisconnectDatabase, ForceExit, Fatal, Exit, Next
<1>4. CASE Closed
  BY <1>4 DEF Closed, Exit, Next
<1>5. CASE Elsewhere
  BY <1>5 DEF Elsewhere, Next
<1>6. CASE UNCHANGED serverVars
  BY <1>6 DEF serverVars
<1> QED
  BY <1>1, <1>2, <1>3, <1>4, <1>5, <1>6 DEF ServerNext

(* Whatever is proved of the calls holds of a server that drains, is cut short
   or crashes: the detailed specification implements GroupLimit's. *)
THEOREM ServerImplements == ServerSafety => Spec
<1>1. ServerInit => Init
  BY DEF ServerInit
<1>2. [ServerNext]_serverVars => [Next]_vars
  BY ServerStep
<1> QED
  BY <1>1, <1>2, PTL DEF ServerSafety, Spec

(* Connections exist only while the process listens or drains. *)
ShellInv ==
  /\ ServerTypeOK
  /\ phase \notin {"up", "draining"} => open = {}

(* The shell's own invariant. *)
LEMMA ShellKept ==
  ASSUME ShellInv, [ServerNext]_serverVars
  PROVE  ShellInv'
<1> USE SignalAssumption DEF ShellInv, ServerTypeOK, Running
<1>1. CASE Listen \/ Restart \/ Elsewhere \/ UNCHANGED serverVars
  BY <1>1 DEF Listen, Restart, Elsewhere, serverVars, shell
<1>2. CASE BootFails \/ ShutdownAgain \/ DisconnectDatabase \/ ForceExit \/ Fatal
  BY <1>2 DEF BootFails, ShutdownAgain, DisconnectDatabase, ForceExit, Fatal, Exit
<1>3. CASE Shutdown
  <2>1. signals' \in 0 .. MaxSignals
    BY <1>3 DEF Shutdown
  <2> QED
    BY <1>3, <2>1 DEF Shutdown, Waiting
<1>4. CASE Closed
  BY <1>4 DEF Closed, Exit
<1>5. ASSUME NEW r \in Request, Accept(r) \/ Leaves(r) \/ Work(r) \/ Fails(r)
      PROVE  ShellInv'
  BY <1>5 DEF Accept, Leaves, Work, Fails, shell
<1> QED
  BY <1>1, <1>2, <1>3, <1>4, <1>5 DEF ServerNext

(* However many connections: the database is disconnected, and success
   reported, only when no client waits. *)
THEOREM Drains == ServerSafety => []DrainsFirst
<1>1. ServerInit => ShellInv
  BY SignalAssumption DEF ServerInit, ShellInv, ServerTypeOK
<1>2. ShellInv /\ [ServerNext]_serverVars => ShellInv'
  BY ShellKept
<1>3. ShellInv => DrainsFirst
  BY DEF ShellInv, DrainsFirst, Waiting
<1> QED
  BY <1>1, <1>2, <1>3, PTL DEF ServerSafety

=============================================================================
