--------------------------- MODULE PurchaseProofs ---------------------------
(***************************************************************************)
(* Proofs about the write path of purchases and the pipeline around it,    *)
(* for every set of tokens, users and workers, every linking of tokens and *)
(* every life Google may give a subscription: types, the safety            *)
(* properties, the lock order, the pipeline as an implementation of        *)
(* Verification, the repair a fresh answer makes, and the conditions under *)
(* which the comments of the code hold that the runs refute.               *)
(***************************************************************************)
EXTENDS EntitlementPipeline, TLAPS

-----------------------------------------------------------------------------
(* Types. *)

LEMMA IdleJobType == IdleJob \in Job
  BY DEF IdleJob, Job, SubscriptionState, PlayState

LEMMA NoPurchaseType == NoPurchase \in PurchaseRow
  BY DEF NoPurchase, PurchaseRow, SubscriptionState, PlayState

(* What Google answers is a state a purchase row can have. *)
LEMMA ReportedStateType ==
  ASSUME NEW t \in Token, PlayTypeOK, Recognized(t)
  PROVE  ReportedState(t) \in SubscriptionState
  BY DEF PlayTypeOK, PlayRecord, Recognized, ReportedState, SubscriptionState, PlayState

(* The initial state is well typed. *)
LEMMA InitType == Init => TypeOK
  BY IdleJobType, NoPurchaseType
  DEF Init, TypeOK, PlayInit, PlayTypeOK, PlayRecord, PlayState,
      EntitlementInit, EntitlementTypeOK, EntitlementRow, NoRow

(* Google's own steps keep its record well typed. *)
LEMMA EnvironmentType == TypeOK /\ Environment => TypeOK'
<1> SUFFICES ASSUME TypeOK, Environment PROVE TypeOK'
  OBVIOUS
<1>1. CASE Tick
  BY <1>1 DEF Tick, Environment, TypeOK, PlayTypeOK, EntitlementTypeOK
<1>2. CASE \E t \in Token, s \in PlayState : Move(t, s)
  <2>1. PICK t \in Token, s \in PlayState : Move(t, s)
    BY <1>2
  <2>2. now \in Nat /\ \A x \in Token : play[x] \in PlayRecord
    BY DEF TypeOK, PlayTypeOK
  <2>3. \A x \in Token : play'[x] \in PlayRecord
    BY <2>1, <2>2 DEF Move, PlayRecord, PlayState
  <2>4. play' \in [Token -> PlayRecord] /\ now' = now
    BY <2>1, <2>3 DEF Move
  <2> QED
    BY <2>2, <2>4 DEF Environment, TypeOK, PlayTypeOK, EntitlementTypeOK
<1> QED
  BY <1>1, <1>2 DEF Environment

(* A call that starts is well typed. *)
LEMMA CallType ==
  ASSUME NEW w \in Worker, TypeOK, Call(w)
  PROVE  TypeOK'
<1>1. ASSUME NEW t \in Token, NEW u \in User \union {NoUser}, Fetch(w, t, u)
      PROVE  TypeOK'
  <2>1. ReportedState(t) \in SubscriptionState
    BY <1>1, ReportedStateType DEF TypeOK, Fetch
  <2>2. play[t] \in PlayRecord
    BY DEF TypeOK, PlayTypeOK
  <2>3. job' \in [Worker -> Job]
    BY <1>1, <2>1, <2>2, IdleJobType DEF Fetch, TypeOK, Job, IdleJob, PlayRecord
  <2> QED
    BY <1>1, <2>3 DEF Fetch, TypeOK, PlayTypeOK, EntitlementTypeOK
<1>2. ASSUME NEW t \in Token, NEW op \in {"revoke", "expire"}, ForceClose(w, t, op)
      PROVE  TypeOK'
  <2>1. job' \in [Worker -> Job]
    BY <1>2 DEF ForceClose, TypeOK, Job, IdleJob, SubscriptionState, PlayState
  <2> QED
    BY <1>2, <2>1 DEF ForceClose, TypeOK, PlayTypeOK, EntitlementTypeOK
<1>3. \A t \in Token : purchase[t].owner \in User \union {NoUser}
  BY DEF TypeOK, PurchaseRow
<1> QED
  BY <1>1, <1>2, <1>3 DEF Call, Verify, Sync, SyncGone, Migrate, Revoke

(* Releasing locks and going idle is well typed; so ends every call. *)
LEMMA EndType ==
  ASSUME NEW w \in Worker, TypeOK,
         lock' = Released(w), job' = [job EXCEPT ![w] = IdleJob],
         UNCHANGED <<now, play, entitlement, premium, purchase>>
  PROVE  TypeOK'
<1>1. job' \in [Worker -> Job]
  BY IdleJobType DEF TypeOK
<1>2. lock' \in [Token -> Worker \union {NoWorker}]
  BY DEF TypeOK, Released
<1> QED
  BY <1>1, <1>2 DEF TypeOK, PlayTypeOK, EntitlementTypeOK

(* The owner of the chain is an account or nobody. *)
LEMMA ChainOwnerType ==
  ASSUME NEW j \in Job, TypeOK
  PROVE  ChainOwner(j) \in User \union {NoUser}
  BY DEF TypeOK, Job, PurchaseRow, ChainOwner, Migrates, Recorded

(* The rows a decided call writes are rows of the tables. *)
LEMMA NewPurchaseType ==
  ASSUME NEW j \in Job, TypeOK
  PROVE  NewPurchase(j) \in [Token -> PurchaseRow]
<1> SUFFICES ASSUME NEW t \in Token PROVE NewPurchase(j)[t] \in PurchaseRow
  BY DEF NewPurchase
<1>1. purchase[t] \in PurchaseRow
  BY DEF TypeOK
<1>2. {"REVOKED", "EXPIRED"} \subseteq SubscriptionState
  BY DEF SubscriptionState, PlayState
<1> QED
  BY <1>1, <1>2 DEF NewPurchase, Job, PurchaseRow

LEMMA ClosedType ==
  ASSUME NEW ent \in [User -> [Token -> EntitlementRow]],
         NEW u, NEW t, NEW status \in {"EXPIRED", "REVOKED"}
  PROVE  Closed(ent, u, t, status) \in [User -> [Token -> EntitlementRow]]
<1> DEFINE closed == [ent EXCEPT ![u][t].status = status]
<1>1. ASSUME NEW v \in User PROVE closed[v] \in [Token -> EntitlementRow]
  <2>1. ent[v] \in [Token -> EntitlementRow]
    OBVIOUS
  <2>2. CASE v # u
    BY <2>1, <2>2
  <2>3. CASE v = u
    <3>1. closed[v] = [ent[v] EXCEPT ![t].status = status]
      BY <2>3
    <3>2. [ent[v] EXCEPT ![t].status = status] \in [Token -> EntitlementRow]
      BY <2>1 DEF EntitlementRow
    <3> QED
      BY <3>1, <3>2
  <2> QED
    BY <2>2, <2>3
<1>2. closed \in [User -> [Token -> EntitlementRow]]
  BY <1>1
<1> QED
  BY <1>2 DEF Closed

LEMMA GrantedType ==
  ASSUME NEW ent \in [User -> [Token -> EntitlementRow]], NEW u, NEW t,
         NEW status \in {"NONE", "ACTIVE", "EXPIRED"}, NEW n \in Nat
  PROVE  Granted(ent, u, t, status, n) \in [User -> [Token -> EntitlementRow]]
  BY DEF Granted, EntitlementRow

LEMMA NewEntitlementType ==
  ASSUME NEW j \in Job, TypeOK
  PROVE  NewEntitlement(j) \in [User -> [Token -> EntitlementRow]]
<1> DEFINE granted == Granted(entitlement, j.owner, j.token, j.status, j.expiresAt)
<1>1. entitlement \in [User -> [Token -> EntitlementRow]]
  BY DEF TypeOK, EntitlementTypeOK
<1>2. granted \in [User -> [Token -> EntitlementRow]]
  BY <1>1, GrantedType DEF Job
<1>3. Closed(granted, j.owner, LinkedToken(j.token), "EXPIRED")
        \in [User -> [Token -> EntitlementRow]]
  <2> HIDE DEF granted
  <2> QED
    BY <1>2, ClosedType
<1>4. \A status \in {"EXPIRED", "REVOKED"} :
        Closed(entitlement, j.owner, j.token, status) \in [User -> [Token -> EntitlementRow]]
  BY <1>1, ClosedType
<1> QED
  BY <1>2, <1>3, <1>4 DEF NewEntitlement

LEMMA DecisionType ==
  ASSUME NEW j \in Job, TypeOK
  PROVE  Decision(j) \in Job
<1> DEFINE owner == ChainOwner(j)
           migrate == Migrates(j)
           status == IF j.entitling THEN DeriveStatus(j.expiresAt) ELSE "NONE"
<1>1. owner \in User \union {NoUser}
  BY ChainOwnerType
<1>2. migrate \in BOOLEAN
  BY DEF Migrates
<1>3. status \in {"NONE", "ACTIVE", "EXPIRED"}
  BY DEF DeriveStatus
<1>4. Decision(j) = [j EXCEPT !.owner = owner, !.migrate = migrate,
                              !.asserted = NoUser, !.status = status]
  BY DEF Decision
<1> QED
  <2> HIDE DEF owner, migrate, status
  <2> QED
    BY <1>1, <1>2, <1>3, <1>4 DEF Job

LEMMA DecideType ==
  ASSUME NEW w \in Worker, TypeOK, Decide(w)
  PROVE  TypeOK'
<1> DEFINE j == Decision(job[w])
           r == j.entitling \/ Closes(entitlement, j.owner, j.token)
           f == HasActive(NewEntitlement(j), j.owner)
<1>1. job[w] \in Job
  BY DEF TypeOK
<1>2. Decision(job[w]) \in Job
  BY <1>1, DecisionType
<1>3. r \in BOOLEAN /\ f \in BOOLEAN
  BY <1>2 DEF HasActive, Job, Closes
<1>4. job' \in [Worker -> Job]
  <2>1. job' = [job EXCEPT ![w] =
                  [j EXCEPT !.pc = "commit", !.refresh = r, !.flag = f]]
    BY DEF Decide
  <2> HIDE DEF j, r, f
  <2>2. j \in Job
    BY <1>2 DEF j
  <2>3. [j EXCEPT !.pc = "commit", !.refresh = r, !.flag = f] \in Job
    BY <1>3, <2>2 DEF Job
  <2> QED
    BY <2>1, <2>3 DEF TypeOK
<1>5. lock' \in [Token -> Worker \union {NoWorker}]
  BY DEF Decide, TypeOK
<1> QED
  BY <1>4, <1>5 DEF Decide, TypeOK, PlayTypeOK, EntitlementTypeOK

LEMMA CommitType ==
  ASSUME NEW w \in Worker, TypeOK, Commit(w)
  PROVE  TypeOK'
<1>1. job[w] \in Job
  BY DEF TypeOK
<1>2. purchase' \in [Token -> PurchaseRow]
  BY <1>1, NewPurchaseType DEF Commit
<1>3. entitlement' \in [User -> [Token -> EntitlementRow]]
  BY <1>1, NewEntitlementType DEF Commit
<1>4. premium' \in [User -> BOOLEAN]
  BY <1>1 DEF Commit, TypeOK, EntitlementTypeOK, Job
<1>5. AfterCommit(job[w]) \in Job
  BY <1>1, IdleJobType DEF AfterCommit, IdleJob, Job
<1>6. job' \in [Worker -> Job]
  BY <1>5 DEF Commit, TypeOK
<1>7. lock' \in [Token -> Worker \union {NoWorker}]
  BY DEF Commit, Released, TypeOK
<1> QED
  BY <1>2, <1>3, <1>4, <1>6, <1>7 DEF Commit, TypeOK, PlayTypeOK, EntitlementTypeOK

(* Every step of a call in flight keeps the state well typed. *)
LEMMA StepType ==
  ASSUME NEW w \in Worker, TypeOK, Step(w)
  PROVE  TypeOK'
<1>1. CASE AcquireLock(w)
  BY <1>1 DEF AcquireLock, TypeOK, PlayTypeOK, EntitlementTypeOK
<1>2. CASE Refuse(w)
  BY <1>2, EndType DEF Refuse
<1>3. CASE Decide(w)
  BY <1>3, DecideType
<1>4. CASE Commit(w)
  BY <1>4, CommitType
<1>5. CASE AckSkip(w) \/ AckRejected(w)
  <2>1. job' \in [Worker -> Job]
    BY <1>5, IdleJobType DEF AckSkip, AckRejected, TypeOK
  <2> QED
    BY <1>5, <2>1 DEF AckSkip, AckRejected, TypeOK, PlayTypeOK, EntitlementTypeOK
<1>6. CASE AckCall(w)
  <2>1. job' \in [Worker -> Job]
    BY <1>6 DEF AckCall, TypeOK, Job
  <2>2. play' \in [Token -> PlayRecord]
    BY <1>6 DEF AckCall, Acknowledged, TypeOK, PlayTypeOK, PlayRecord
  <2>3. lock' \in [Token -> Worker \union {NoWorker}]
    BY <1>6 DEF AckCall, TypeOK
  <2> QED
    BY <1>6, <2>1, <2>2, <2>3 DEF AckCall, TypeOK, PlayTypeOK, EntitlementTypeOK
<1>7. CASE AckCommit(w)
  <2>1. job' \in [Worker -> Job]
    BY <1>7, IdleJobType DEF AckCommit, TypeOK
  <2>2. purchase' \in [Token -> PurchaseRow]
    BY <1>7 DEF AckCommit, TypeOK, PurchaseRow
  <2>3. lock' \in [Token -> Worker \union {NoWorker}]
    BY <1>7 DEF AckCommit, Released, TypeOK
  <2> QED
    BY <1>7, <2>1, <2>2, <2>3 DEF AckCommit, TypeOK, PlayTypeOK, EntitlementTypeOK
<1> QED
  BY <1>1, <1>2, <1>3, <1>4, <1>5, <1>6, <1>7 DEF Step

(* No step leaves the types, a failing call's included. *)
LEMMA NextType == TypeOK /\ [Next]_vars => TypeOK'
<1> SUFFICES ASSUME TypeOK, [Next]_vars PROVE TypeOK'
  OBVIOUS
<1>1. CASE Environment
  BY <1>1, EnvironmentType
<1>2. ASSUME NEW w \in Worker, Call(w) PROVE TypeOK'
  BY <1>2, CallType
<1>3. ASSUME NEW w \in Worker, Step(w) PROVE TypeOK'
  BY <1>3, StepType
<1>4. ASSUME NEW w \in Worker, Fail(w) PROVE TypeOK'
  BY <1>4, EndType DEF Fail
<1>5. CASE UNCHANGED vars
  BY <1>5 DEF vars, TypeOK, PlayTypeOK, EntitlementTypeOK
<1> QED
  BY <1>1, <1>2, <1>3, <1>4, <1>5 DEF Next

(* Every state of the write path is well typed: no unknown answer of Google, no
   unowned row and no stray call, for any tokens, users and workers. *)
THEOREM TypeCorrect == Spec => []TypeOK
<1>1. Init => TypeOK
  BY InitType
<1>2. TypeOK /\ [Next]_vars => TypeOK'
  BY NextType
<1> QED
  BY <1>1, <1>2, PTL DEF Spec

-----------------------------------------------------------------------------
(* Safety.  The inductive invariant IInv says what each phase of a call may rely
   on; it is preserved because the rows of a locked token change under its lock only,
   an owner once set never changes, a grant once made never vanishes, and Google
   takes nothing back. *)

(* How a step may disturb the calls of other workers. *)

(* What only grows: Google's word, ownership and the grant rows. *)
Monotone ==
  /\ \A t \in Token :
       /\ play[t].acked => play'[t].acked
       /\ play[t].expiresAt <= play'[t].expiresAt
       /\ Recorded(t) => purchase'[t].owner = purchase[t].owner
  /\ \A u \in User, t \in Token :
       entitlement[u][t].status # "NONE" => entitlement'[u][t].status # "NONE"

(* A step that leaves v, its locks and the owners under them alone. *)
Undisturbed(v) ==
  /\ job'[v] = job[v]
  /\ \A t \in Token :
       lock[t] = v => lock'[t] = v /\ purchase'[t].owner = purchase[t].owner

(* What a call relies on survives every step that leaves it undisturbed. *)
LEMMA OthersStand ==
  ASSUME NEW v \in Worker, IInv, TypeOK', Monotone, Undisturbed(v)
  PROVE  CallInv(v)'
<1> DEFINE j == job[v]
<1>1. CallInv(v) /\ job'[v] = j
  BY DEF IInv, Undisturbed
<1>2. j \in Job /\ j.token \in Token \union {NoToken}
  BY DEF IInv, TypeOK, Job
<1>3. j.pc # "idle" => j.token \in Token
  BY <1>1 DEF CallInv
<1>4. HoldsLocks(v)'
  BY <1>1, <1>3 DEF CallInv, HoldsLocks, LockSet, Undisturbed
<1>5. SnapshotIsPast(v)'
  <2>1. SnapshotIsPast(v)
    BY <1>1 DEF CallInv
  <2>2. ASSUME j.pc \in {"lock", "commit"}
        PROVE  /\ j.acked => play'[j.token].acked
               /\ j.expiresAt <= play'[j.token].expiresAt
    <3>1. j.token \in Token
      BY <1>3, <2>2
    <3>2. /\ j.expiresAt \in Nat
          /\ play[j.token].expiresAt \in Nat
          /\ play'[j.token].expiresAt \in Nat
      BY <1>2, <3>1 DEF IInv, TypeOK, PlayTypeOK, PlayRecord, Job
    <3>3. /\ play[j.token].acked => play'[j.token].acked
          /\ play[j.token].expiresAt <= play'[j.token].expiresAt
      BY <3>1 DEF Monotone
    <3> QED
      BY <2>1, <2>2, <3>2, <3>3 DEF SnapshotIsPast
  <2>3. Recorded(j.token) => Recorded(j.token)'
    BY <1>1 DEF Recorded, Monotone
  <2> QED
    BY <1>1, <2>1, <2>2, <2>3 DEF SnapshotIsPast, Recorded
<1>6. DecisionFits(v)'
  <2>1. DecisionFits(v) /\ HoldsLocks(v)
    BY <1>1 DEF CallInv
  <2> SUFFICES ASSUME j.pc = "commit"
               PROVE  DecisionFits(v)'
    BY <1>1 DEF DecisionFits
  <2>2. \A t \in LockSet(j) : purchase'[t].owner = purchase[t].owner
    BY <2>1 DEF HoldsLocks, LockSet, Undisturbed
  <2>3. Recorded(j.token)' <=> Recorded(j.token)
    BY <1>1, <2>2 DEF Recorded, LockSet
  <2>4. j.op = "reconcile" =>
          (Recorded(LinkedToken(j.token))' <=> Recorded(LinkedToken(j.token)))
    BY <1>1, <2>2 DEF Recorded, LockSet
  <2>5. Migrates(j)' <=> Migrates(j)
    BY <1>1, <2>3, <2>4 DEF Migrates, Recorded
  <2> QED
    BY <1>1, <1>3, <2>1, <2>2, <2>5 DEF DecisionFits, LockSet, Migrates, Recorded
<1>7. AckFollowsGrant(v)'
  BY <1>1, <1>3 DEF CallInv, AckFollowsGrant, Monotone, Recorded, IInv, TypeOK, PurchaseRow
<1> QED
  BY <1>1, <1>3, <1>4, <1>5, <1>6, <1>7 DEF CallInv

-----------------------------------------------------------------------------
(* What a committing call writes, row by row. *)

LEMMA GrantedAt ==
  ASSUME NEW ent \in [User -> [Token -> EntitlementRow]],
         NEW u, NEW t, NEW status, NEW n, NEW v \in User, NEW x \in Token
  PROVE  Granted(ent, u, t, status, n)[v][x] =
           IF v = u /\ x = t THEN [status |-> status, expiresAt |-> n] ELSE ent[v][x]
  BY DEF Granted

LEMMA ClosedAt ==
  ASSUME NEW ent \in [User -> [Token -> EntitlementRow]],
         NEW u, NEW t, NEW status, NEW v \in User, NEW x \in Token
  PROVE  /\ Closed(ent, u, t, status)[v][x].expiresAt = ent[v][x].expiresAt
         /\ Closed(ent, u, t, status)[v][x].status =
              IF v = u /\ x = t /\ ent[v][x].status = "ACTIVE"
                THEN status ELSE ent[v][x].status
<1>1. ent[v][x] \in EntitlementRow
  OBVIOUS
<1>2. CASE Closes(ent, u, t) /\ v = u /\ x = t
  <2>1. Closed(ent, u, t, status)[v][x] = [ent[v][x] EXCEPT !.status = status]
    BY <1>2 DEF Closed
  <2> QED
    BY <1>1, <1>2, <2>1 DEF EntitlementRow, Closes
<1>3. CASE ~(Closes(ent, u, t) /\ v = u /\ x = t)
  <2>1. Closed(ent, u, t, status)[v][x] = ent[v][x]
    BY <1>3 DEF Closed
  <2> QED
    BY <1>3, <2>1 DEF Closes
<1> QED
  BY <1>2, <1>3

(* A commit writes the row of its own token and, migrating, closes the
   predecessor's; everything else stays. *)
LEMMA CommitWrites ==
  ASSUME NEW w \in Worker, TypeOK, CallInv(w), Commit(w),
         NEW j, j = job[w], NEW t \in Token
  PROVE  /\ t = j.token /\ j.op = "reconcile" =>
              /\ purchase'[t].owner = j.owner
              /\ purchase'[t].state = j.state
              /\ purchase'[t].expiresAt = j.expiresAt
              /\ purchase'[t].acked = j.acked
         /\ t # j.token \/ j.op # "reconcile" =>
              /\ purchase'[t].owner = purchase[t].owner
              /\ purchase'[t].expiresAt = purchase[t].expiresAt
              /\ purchase'[t].acked = purchase[t].acked
         /\ t # j.token /\ ~(j.migrate /\ j.entitling /\ t = LinkedToken(j.token)) =>
              purchase'[t] = purchase[t]
<1>1. purchase' = NewPurchase(j) /\ j \in Job /\ purchase[t] \in PurchaseRow
  BY DEF Commit, TypeOK
<1>2. j.op \in {"reconcile", "revoke", "expire"}
  BY <1>1 DEF Job
<1> QED
  BY <1>1, <1>2 DEF NewPurchase, PurchaseRow

LEMMA CommitGrants ==
  ASSUME NEW w \in Worker, TypeOK, CallInv(w), Commit(w), NEW v \in User, NEW x \in Token
  PROVE  LET j == job[w]
             own == v = j.owner /\ x = j.token
         IN  /\ j.entitling /\ own =>
                  entitlement'[v][x] = [status |-> j.status, expiresAt |-> j.expiresAt]
             /\ ~(j.entitling /\ own) =>
                  /\ entitlement'[v][x].expiresAt = entitlement[v][x].expiresAt
                  /\ \/ entitlement'[v][x].status = entitlement[v][x].status
                     \/ /\ entitlement[v][x].status = "ACTIVE"
                        /\ entitlement'[v][x].status \in {"EXPIRED", "REVOKED"}
<1> DEFINE j == job[w]
<1> DEFINE granted == Granted(entitlement, j.owner, j.token, j.status, j.expiresAt)
<1>1. /\ entitlement' = NewEntitlement(j)
      /\ j \in Job
      /\ entitlement \in [User -> [Token -> EntitlementRow]]
      /\ j.token \in Token
      /\ j.entitling => j.op = "reconcile"
  BY DEF Commit, TypeOK, EntitlementTypeOK, CallInv, SnapshotIsPast
<1>2. x = j.token => x # LinkedToken(j.token)
  BY <1>1, PlayAssumption DEF LinkedToken
<1>3. CASE ~j.entitling
  BY <1>1, <1>3, ClosedAt DEF NewEntitlement
<1>4. CASE j.entitling
  <2>1. granted \in [User -> [Token -> EntitlementRow]]
    BY <1>1, GrantedType DEF Job
  <2>2. granted[v][x] = IF v = j.owner /\ x = j.token
                          THEN [status |-> j.status, expiresAt |-> j.expiresAt]
                          ELSE entitlement[v][x]
    BY <1>1, GrantedAt
  <2>3. granted[v][x] \in EntitlementRow
    BY <2>1
  <2>4. CASE ~j.migrate
    <3>1. entitlement' = granted
      BY <1>1, <1>4, <2>4 DEF NewEntitlement
    <3> HIDE DEF granted
    <3> QED
      BY <1>4, <2>2, <2>4, <3>1
  <2>5. CASE j.migrate
    <3> DEFINE closed == Closed(granted, j.owner, LinkedToken(j.token), "EXPIRED")
    <3>1. entitlement' = closed
      BY <1>1, <1>4, <2>5 DEF NewEntitlement
    <3>2. CASE v = j.owner /\ x = LinkedToken(j.token)
      <4>1. /\ closed[v][x].expiresAt = granted[v][x].expiresAt
            /\ closed[v][x].status = IF granted[v][x].status = "ACTIVE"
                                       THEN "EXPIRED" ELSE granted[v][x].status
        <5> HIDE DEF granted
        <5> QED
          BY <2>1, <3>2, ClosedAt
      <4> HIDE DEF granted, closed
      <4> QED
        BY <1>2, <1>4, <2>2, <2>5, <3>1, <3>2, <4>1
    <3>3. CASE ~(v = j.owner /\ x = LinkedToken(j.token))
      <4>1. closed[v][x] = granted[v][x]
        BY <1>1, <3>3 DEF Closed, Granted
      <4> HIDE DEF granted, closed
      <4> QED
        BY <1>4, <2>2, <2>5, <3>1, <3>3, <4>1
    <3> QED
      BY <3>2, <3>3
  <2> QED
    BY <2>4, <2>5
<1> QED
  BY <1>1, <1>3, <1>4 DEF Job

(* The same, one case at a time. *)
LEMMA OthersKept ==
  ASSUME NEW w \in Worker, TypeOK, CallInv(w), Commit(w), NEW v \in User, NEW x \in Token,
         ~(job[w].entitling /\ v = job[w].owner /\ x = job[w].token)
  PROVE  /\ entitlement'[v][x].expiresAt = entitlement[v][x].expiresAt
         /\ \/ entitlement'[v][x].status = entitlement[v][x].status
            \/ /\ entitlement[v][x].status = "ACTIVE"
               /\ entitlement'[v][x].status \in {"EXPIRED", "REVOKED"}
  BY CommitGrants

LEMMA OwnClosed ==
  ASSUME NEW w \in Worker, TypeOK, CallInv(w), Commit(w), NEW v \in User, NEW x \in Token,
         v = job[w].owner,
         \/ x = job[w].token /\ ~job[w].entitling
         \/ x = LinkedToken(job[w].token) /\ job[w].entitling /\ job[w].migrate
  PROVE  entitlement'[v][x].status # "ACTIVE"
<1> DEFINE j == job[w]
           granted == Granted(entitlement, j.owner, j.token, j.status, j.expiresAt)
<1>1. /\ entitlement' = NewEntitlement(j)
      /\ j \in Job
      /\ entitlement \in [User -> [Token -> EntitlementRow]]
      /\ j.entitling => j.op = "reconcile"
  BY DEF Commit, TypeOK, EntitlementTypeOK, CallInv, SnapshotIsPast
<1>2. CASE x = j.token /\ ~j.entitling
  BY <1>1, <1>2, ClosedAt DEF NewEntitlement
<1>3. CASE x = LinkedToken(j.token) /\ j.entitling /\ j.migrate
  <2>1. granted \in [User -> [Token -> EntitlementRow]]
    BY <1>1, GrantedType DEF Job
  <2>2. entitlement' = Closed(granted, j.owner, LinkedToken(j.token), "EXPIRED")
    BY <1>1, <1>3 DEF NewEntitlement
  <2> HIDE DEF granted
  <2> QED
    BY <1>3, <2>1, <2>2, ClosedAt
<1> QED
  BY <1>2, <1>3

-----------------------------------------------------------------------------
(* The commit: the step that writes rows. *)

(* It binds no recorded token to another owner and deletes no grant. *)
LEMMA CommitMonotone ==
  ASSUME NEW w \in Worker, IInv, Commit(w)
  PROVE  Monotone
<1> DEFINE j == job[w]
<1>1. j.pc = "commit" /\ play' = play
  BY DEF Commit
<1>2. TypeOK /\ CallInv(w)
  BY DEF IInv
<1>3. DecisionFits(w) /\ SnapshotIsPast(w)
  BY <1>2 DEF CallInv
<1>4. \A t \in Token : Recorded(t) => purchase'[t].owner = purchase[t].owner
  <2> SUFFICES ASSUME NEW t \in Token, Recorded(t)
               PROVE  purchase'[t].owner = purchase[t].owner
    OBVIOUS
  <2>1. CASE t = j.token /\ j.op = "reconcile"
    <3>1. purchase'[t].owner = j.owner
      BY <1>2, <2>1, CommitWrites
    <3> QED
      BY <1>1, <1>3, <2>1, <3>1 DEF DecisionFits, Recorded
  <2>2. CASE t # j.token \/ j.op # "reconcile"
    BY <1>2, <2>2, CommitWrites
  <2> QED
    BY <2>1, <2>2
<1>5. \A u \in User, t \in Token :
        entitlement[u][t].status # "NONE" => entitlement'[u][t].status # "NONE"
  <2> SUFFICES ASSUME NEW u \in User, NEW t \in Token, entitlement[u][t].status # "NONE"
               PROVE  entitlement'[u][t].status # "NONE"
    OBVIOUS
  <2>1. CASE j.entitling /\ u = j.owner /\ t = j.token
    <3>1. entitlement'[u][t] = [status |-> j.status, expiresAt |-> j.expiresAt]
      BY <1>2, <2>1, CommitGrants
    <3> QED
      BY <1>1, <1>3, <2>1, <3>1 DEF DecisionFits
  <2>2. CASE ~(j.entitling /\ u = j.owner /\ t = j.token)
    BY <1>2, <2>2, OthersKept
  <2> QED
    BY <2>1, <2>2
<1> QED
  BY <1>1, <1>4, <1>5, <1>2 DEF Monotone, TypeOK, PlayTypeOK, PlayRecord

(* Every lock it writes under is its own, so the others see none of it. *)
LEMMA CommitUndisturbed ==
  ASSUME NEW w \in Worker, IInv, Commit(w), NEW v \in Worker, v # w
  PROVE  Undisturbed(v)
<1> DEFINE j == job[w]
<1>1. j.pc = "commit" /\ lock' = Released(w) /\ TypeOK /\ CallInv(w)
  BY DEF Commit, IInv
<1>2. job'[v] = job[v]
  BY <1>1 DEF Commit, TypeOK
<1>3. ASSUME NEW t \in Token, lock[t] = v
      PROVE  lock'[t] = v /\ purchase'[t].owner = purchase[t].owner
  <2>1. lock'[t] = v
    BY <1>1, <1>3 DEF Released
  <2>2. t # j.token
    BY <1>1, <1>3 DEF CallInv, HoldsLocks, LockSet
  <2> QED
    BY <1>1, <2>1, <2>2, CommitWrites
<1> QED
  BY <1>2, <1>3 DEF Undisturbed

(* Grants and purchases are written together, for one owner. *)
LEMMA CommitBacked ==
  ASSUME NEW w \in Worker, IInv, Commit(w)
  PROVE  GrantsAreBacked'
<1> DEFINE j == job[w]
<1>1. j.pc = "commit" /\ TypeOK /\ CallInv(w) /\ j \in Job
  BY DEF Commit, IInv, TypeOK
<1>2. DecisionFits(w) /\ SnapshotIsPast(w)
  BY <1>1 DEF CallInv
<1>3. /\ j.owner \in User
      /\ purchase[j.token].owner \in {NoUser, j.owner}
      /\ j.migrate => purchase[LinkedToken(j.token)].owner = j.owner
      /\ j.entitling => j.op = "reconcile" /\ j.state \in EntitlingStates
      /\ j.op # "reconcile" => Recorded(j.token)
  BY <1>1, <1>2 DEF DecisionFits, SnapshotIsPast
<1> SUFFICES ASSUME NEW u \in User, NEW t \in Token
             PROVE  /\ entitlement'[u][t].status # "NONE" => purchase'[t].owner = u
                    /\ entitlement'[u][t].status = "ACTIVE" =>
                         /\ purchase'[t].state \in EntitlingStates
                         /\ purchase'[t].expiresAt = entitlement'[u][t].expiresAt
  BY DEF GrantsAreBacked
<1>4. /\ entitlement[u][t].status # "NONE" => purchase[t].owner = u
      /\ entitlement[u][t].status = "ACTIVE" =>
           /\ purchase[t].state \in EntitlingStates
           /\ purchase[t].expiresAt = entitlement[u][t].expiresAt
  BY DEF IInv, GrantsAreBacked
<1>5. CASE j.entitling /\ u = j.owner /\ t = j.token
  <2>1. entitlement'[u][t] = [status |-> j.status, expiresAt |-> j.expiresAt]
    BY <1>1, <1>5, CommitGrants
  <2>2. /\ purchase'[t].owner = j.owner
        /\ purchase'[t].state = j.state
        /\ purchase'[t].expiresAt = j.expiresAt
    BY <1>1, <1>3, <1>5, CommitWrites
  <2> QED
    BY <1>3, <1>5, <2>1, <2>2
<1>6. CASE ~(j.entitling /\ u = j.owner /\ t = j.token)
  <2>1. /\ entitlement'[u][t].expiresAt = entitlement[u][t].expiresAt
        /\ \/ entitlement'[u][t].status = entitlement[u][t].status
           \/ /\ entitlement[u][t].status = "ACTIVE"
              /\ entitlement'[u][t].status \in {"EXPIRED", "REVOKED"}
    BY <1>1, <1>6, OthersKept
  <2>2. CASE t = j.token
    <3>1. CASE u = j.owner
      <4>1. entitlement'[u][t].status # "ACTIVE"
        BY <1>1, <1>6, <2>2, <3>1, OwnClosed
      <4>2. purchase'[t].owner \in {j.owner, purchase[t].owner}
        BY <1>1, CommitWrites
      <4>3. purchase[t].owner # NoUser => purchase[t].owner = j.owner
        BY <1>3, <2>2
      <4>4. j.op # "reconcile" => purchase[t].owner # NoUser
        BY <1>3, <2>2 DEF Recorded
      <4>5. j.op = "reconcile" => purchase'[t].owner = j.owner
        BY <1>1, <2>2, CommitWrites
      <4> QED
        BY <3>1, <4>1, <4>2, <4>3, <4>4, <4>5
    <3>2. CASE u # j.owner
      <4>1. entitlement[u][t].status = "NONE"
        BY <1>3, <1>4, <2>2, <3>2, UserAssumption
      <4> QED
        BY <2>1, <4>1
    <3> QED
      BY <3>1, <3>2
  <2>3. CASE t # j.token /\ j.migrate /\ j.entitling /\ t = LinkedToken(j.token)
    <3>1. purchase'[t].owner = purchase[t].owner
      BY <1>1, <2>3, CommitWrites
    <3>2. u = j.owner => entitlement'[u][t].status # "ACTIVE"
      BY <1>1, <2>3, OwnClosed
    <3>3. u # j.owner => entitlement[u][t].status = "NONE"
      BY <1>3, <1>4, <2>3
    <3> QED
      BY <1>3, <1>4, <2>1, <2>3, <3>1, <3>2, <3>3
  <2>4. CASE t # j.token /\ ~(j.migrate /\ j.entitling /\ t = LinkedToken(j.token))
    <3>1. purchase'[t] = purchase[t]
      BY <1>1, <2>4, CommitWrites
    <3> QED
      BY <1>4, <2>1, <3>1
  <2> QED
    BY <2>2, <2>3, <2>4
<1> QED
  BY <1>5, <1>6

(* What it writes of Google is what Google said once. *)
LEMMA CommitTruthful ==
  ASSUME NEW w \in Worker, IInv, Commit(w)
  PROVE  AckIsTruthful' /\ PeriodsArePaid'
<1> DEFINE j == job[w]
<1>1. j.pc = "commit" /\ play' = play /\ now' = now /\ TypeOK /\ CallInv(w)
  BY DEF Commit, IInv
<1>2. /\ j.acked => play[j.token].acked
      /\ j.expiresAt <= play[j.token].expiresAt
      /\ j.token \in Token
  BY <1>1 DEF CallInv, SnapshotIsPast
<1>3. ASSUME NEW t \in Token, purchase'[t].acked
      PROVE  play'[t].acked
  <2>1. CASE t = j.token /\ j.op = "reconcile"
    BY <1>1, <1>2, <1>3, <2>1, CommitWrites
  <2>2. CASE t # j.token \/ j.op # "reconcile"
    <3>1. purchase'[t].acked = purchase[t].acked
      BY <1>1, <2>2, CommitWrites
    <3> QED
      BY <1>1, <1>3, <3>1 DEF IInv, AckIsTruthful
  <2> QED
    BY <2>1, <2>2
<1>4. ASSUME NEW t \in Token, NEW u \in User
      PROVE  entitlement'[u][t].expiresAt <= play'[t].expiresAt
  <2>1. entitlement[u][t].expiresAt <= play[t].expiresAt
    BY DEF IInv, PeriodsArePaid
  <2>2. CASE j.entitling /\ u = j.owner /\ t = j.token
    <3>1. entitlement'[u][t] = [status |-> j.status, expiresAt |-> j.expiresAt]
      BY <1>1, <2>2, CommitGrants
    <3> QED
      BY <1>1, <1>2, <2>2, <3>1
  <2>3. CASE ~(j.entitling /\ u = j.owner /\ t = j.token)
    <3>1. entitlement'[u][t].expiresAt = entitlement[u][t].expiresAt
      BY <1>1, <2>3, OthersKept
    <3> QED
      BY <1>1, <2>1, <3>1
  <2> QED
    BY <2>2, <2>3
<1> QED
  BY <1>1, <1>3, <1>4 DEF AckIsTruthful, PeriodsArePaid, IInv

(* Afterwards the worker is idle or owes Google an acknowledgement of the grant
   it has just made. *)
LEMMA CommitOwn ==
  ASSUME NEW w \in Worker, IInv, TypeOK', Commit(w)
  PROVE  CallInv(w)'
<1> DEFINE j == job[w]
<1>1. /\ j.pc = "commit" /\ TypeOK /\ CallInv(w) /\ j.token \in Token
      /\ job'[w] = AfterCommit(j)
  BY DEF Commit, IInv, CallInv, TypeOK
<1>2. CASE j.entitling /\ ~j.acked
  <2>1. job'[w] = [IdleJob EXCEPT !.pc = "ack", !.token = j.token]
    BY <1>1, <1>2 DEF AfterCommit
  <2>2. job'[w].pc = "ack" /\ job'[w].token = j.token
    BY <2>1 DEF IdleJob
  <2>3. j.op = "reconcile" /\ j.owner \in User /\ j.status # "NONE"
    BY <1>1, <1>2 DEF CallInv, SnapshotIsPast, DecisionFits
  <2>4. purchase'[j.token].owner = j.owner
    BY <1>1, <2>3, CommitWrites
  <2>5. entitlement'[j.owner][j.token] = [status |-> j.status, expiresAt |-> j.expiresAt]
    BY <1>1, <1>2, <2>3, CommitGrants
  <2>6. Recorded(j.token)'
    BY <1>1, <2>2, <2>3, <2>4, UserAssumption DEF Recorded
  <2> QED
    BY <1>1, <2>2, <2>3, <2>4, <2>5, UserAssumption
    DEF CallInv, HoldsLocks, SnapshotIsPast, DecisionFits, AckFollowsGrant, Recorded
<1>3. CASE ~(j.entitling /\ ~j.acked)
  <2>1. job'[w].pc = "idle"
    BY <1>1, <1>3 DEF AfterCommit, IdleJob
  <2> QED
    BY <2>1 DEF CallInv, HoldsLocks, SnapshotIsPast, DecisionFits, AckFollowsGrant
<1> QED
  BY <1>2, <1>3

-----------------------------------------------------------------------------
(* The other steps. *)

(* What is left to show of a step that writes nothing but locks and calls. *)
LEMMA RowsStand ==
  ASSUME IInv, UNCHANGED <<now, play, entitlement, purchase>>
  PROVE  Monotone /\ GrantsAreBacked' /\ AckIsTruthful' /\ PeriodsArePaid'
<1>1. Monotone
  BY DEF Monotone, IInv, TypeOK, PlayTypeOK, PlayRecord
<1>2. GrantsAreBacked' /\ AckIsTruthful' /\ PeriodsArePaid'
  BY DEF IInv, GrantsAreBacked, AckIsTruthful, PeriodsArePaid
<1> QED
  BY <1>1, <1>2

LEMMA IdleCall ==
  ASSUME NEW w \in Worker, job'[w] = IdleJob
  PROVE  CallInv(w)'
  BY DEF IdleJob, CallInv, HoldsLocks, SnapshotIsPast, DecisionFits, AckFollowsGrant

(* A call ends: the locks it gives up are its own. *)
LEMMA EndSafe ==
  ASSUME NEW w \in Worker, IInv, TypeOK',
         lock' = Released(w), job' = [job EXCEPT ![w] = IdleJob],
         UNCHANGED <<now, play, entitlement, premium, purchase>>
  PROVE  IInv'
<1>1. Monotone /\ GrantsAreBacked' /\ AckIsTruthful' /\ PeriodsArePaid'
  BY RowsStand
<1>2. CallInv(w)'
  BY IdleCall DEF IInv, TypeOK
<1>3. ASSUME NEW v \in Worker, v # w PROVE CallInv(v)'
  <2>1. Undisturbed(v)
    BY <1>3 DEF Undisturbed, Released, IInv, TypeOK
  <2> QED
    BY <1>1, <2>1, OthersStand
<1> QED
  BY <1>1, <1>2, <1>3 DEF IInv

(* A call starts with what Google says now, or with a row that stays. *)
LEMMA CallSafe ==
  ASSUME NEW w \in Worker, IInv, TypeOK', Call(w)
  PROVE  IInv'
<1>1. /\ UNCHANGED <<now, play, entitlement, premium, purchase, lock>>
      /\ job' = [job EXCEPT ![w] = job'[w]]
      /\ CallInv(w)'
  <2>1. ASSUME NEW t \in Token, NEW u \in User \union {NoUser}, Fetch(w, t, u)
        PROVE  /\ UNCHANGED <<now, play, entitlement, premium, purchase, lock>>
               /\ job' = [job EXCEPT ![w] = job'[w]]
               /\ CallInv(w)'
    <3>1. job' = [job EXCEPT ![w] =
            [IdleJob EXCEPT !.pc = "lock", !.token = t, !.asserted = u,
               !.state = ReportedState(t), !.expiresAt = play[t].expiresAt,
               !.acked = play[t].acked,
               !.entitling = ReportedState(t) \in EntitlingStates
                             /\ play[t].expiresAt > now]]
      BY <2>1 DEF Fetch
    <3>2. /\ job'[w].pc = "lock" /\ job'[w].token = t /\ job'[w].op = "reconcile"
          /\ job'[w].migrate = FALSE
          /\ job'[w].acked = play[t].acked /\ job'[w].expiresAt = play[t].expiresAt
          /\ job'[w].state = ReportedState(t)
          /\ job'[w].entitling => ReportedState(t) \in EntitlingStates
      BY <3>1 DEF IInv, TypeOK, IdleJob
    <3>3. play[t].expiresAt \in Nat /\ play' = play
      BY <2>1 DEF Fetch, IInv, TypeOK, PlayTypeOK, PlayRecord
    <3>4. SnapshotIsPast(w)'
      <4>1. play[t].expiresAt <= play'[t].expiresAt
        BY <3>3
      <4> QED
        BY <3>2, <3>3, <4>1 DEF SnapshotIsPast
    <3>5. CallInv(w)'
      BY <3>2, <3>4 DEF CallInv, HoldsLocks, DecisionFits, AckFollowsGrant
    <3> QED
      BY <2>1, <3>1, <3>5 DEF Fetch, IInv, TypeOK
  <2>2. ASSUME NEW t \in Token, NEW op \in {"revoke", "expire"}, ForceClose(w, t, op)
        PROVE  /\ UNCHANGED <<now, play, entitlement, premium, purchase, lock>>
               /\ job' = [job EXCEPT ![w] = job'[w]]
               /\ CallInv(w)'
    <3>1. job' = [job EXCEPT ![w] = [IdleJob EXCEPT !.pc = "lock", !.op = op, !.token = t]]
      BY <2>2 DEF ForceClose
    <3>2. /\ job'[w].pc = "lock" /\ job'[w].token = t /\ job'[w].op = op
          /\ job'[w].migrate = FALSE /\ job'[w].entitling = FALSE
          /\ job'[w].acked = FALSE /\ job'[w].expiresAt = 0
      BY <3>1 DEF IInv, TypeOK, IdleJob
    <3>3. play[t].expiresAt \in Nat /\ play' = play /\ Recorded(t)'
      BY <2>2 DEF ForceClose, IInv, TypeOK, PlayTypeOK, PlayRecord, Recorded
    <3>4. SnapshotIsPast(w)'
      <4>1. 0 <= play'[t].expiresAt
        BY <3>3
      <4> QED
        BY <3>2, <3>3, <4>1 DEF SnapshotIsPast, Recorded
    <3>5. CallInv(w)'
      BY <3>2, <3>4 DEF CallInv, HoldsLocks, DecisionFits, AckFollowsGrant
    <3> QED
      BY <2>2, <3>1, <3>5 DEF ForceClose, IInv, TypeOK
  <2>3. \A t \in Token : purchase[t].owner \in User \union {NoUser}
    BY DEF IInv, TypeOK, PurchaseRow
  <2> QED
    BY <2>1, <2>2, <2>3 DEF Call, Verify, Sync, SyncGone, Migrate, Revoke
<1>2. Monotone /\ GrantsAreBacked' /\ AckIsTruthful' /\ PeriodsArePaid'
  BY <1>1, RowsStand
<1>3. ASSUME NEW v \in Worker, v # w PROVE CallInv(v)'
  <2>1. Undisturbed(v)
    BY <1>1, <1>3 DEF Undisturbed, IInv, TypeOK
  <2> QED
    BY <1>2, <2>1, OthersStand
<1> QED
  BY <1>1, <1>2, <1>3 DEF IInv

(* A lock is only taken when it is free. *)
LEMMA AcquireLockSafe ==
  ASSUME NEW w \in Worker, IInv, TypeOK', AcquireLock(w)
  PROVE  IInv'
<1>1. UNCHANGED <<now, play, entitlement, premium, purchase, job>> /\ job[w].pc = "lock"
  BY DEF AcquireLock
<1>2. Monotone /\ GrantsAreBacked' /\ AckIsTruthful' /\ PeriodsArePaid'
  BY <1>1, RowsStand
<1>3. CallInv(w)'
  <2>1. CallInv(w)
    BY DEF IInv
  <2> QED
    BY <1>1, <2>1
    DEF CallInv, HoldsLocks, SnapshotIsPast, DecisionFits, AckFollowsGrant, Recorded
<1>4. ASSUME NEW v \in Worker, v # w PROVE CallInv(v)'
  <2>1. Undisturbed(v)
    BY <1>1, <1>4, WorkerAssumption DEF Undisturbed, AcquireLock, IInv, TypeOK
  <2> QED
    BY <1>2, <2>1, OthersStand
<1> QED
  BY <1>2, <1>3, <1>4 DEF IInv

(* A decision is taken with every lock in hand, on rows nobody else can write. *)
LEMMA DecideSafe ==
  ASSUME NEW w \in Worker, IInv, TypeOK', Decide(w)
  PROVE  IInv'
<1> DEFINE j == job[w]
           d == Decision(j)
           r == d.entitling \/ Closes(entitlement, d.owner, d.token)
           f == HasActive(NewEntitlement(d), d.owner)
<1>1. /\ UNCHANGED <<now, play, entitlement, premium, purchase>>
      /\ lock' = [t \in Token |-> IF t \in Missing(w) THEN w ELSE lock[t]]
      /\ job' = [job EXCEPT ![w] = [d EXCEPT !.pc = "commit", !.refresh = r, !.flag = f]]
      /\ LastLock(w) /\ j.pc = "lock" /\ ~Refused(j)
      /\ TypeOK /\ CallInv(w) /\ j \in Job
  BY DEF Decide, LastLock, IInv, TypeOK
<1>2. Monotone /\ GrantsAreBacked' /\ AckIsTruthful' /\ PeriodsArePaid'
  BY <1>1, RowsStand
<1>3. /\ d.op = j.op /\ d.token = j.token /\ d.acked = j.acked
      /\ d.expiresAt = j.expiresAt /\ d.entitling = j.entitling /\ d.state = j.state
      /\ d.owner = ChainOwner(j) /\ d.migrate = Migrates(j)
      /\ d.entitling => d.status # "NONE"
  <2> DEFINE status == IF j.entitling THEN DeriveStatus(j.expiresAt) ELSE "NONE"
  <2>1. d = [j EXCEPT !.owner = ChainOwner(j), !.migrate = Migrates(j),
                      !.asserted = NoUser, !.status = status]
    BY DEF Decision
  <2>2. j.entitling => status # "NONE"
    BY DEF DeriveStatus
  <2> HIDE DEF status, d, j
  <2> QED
    BY <1>1, <2>1, <2>2 DEF Job
<1>4. /\ job'[w].op = j.op /\ job'[w].token = j.token /\ job'[w].acked = j.acked
      /\ job'[w].expiresAt = j.expiresAt /\ job'[w].entitling = j.entitling
      /\ job'[w].state = j.state /\ job'[w].owner = ChainOwner(j)
      /\ job'[w].migrate = Migrates(j) /\ job'[w].pc = "commit"
      /\ job'[w].entitling => job'[w].status # "NONE"
  <2>1. d \in Job
    BY <1>1, DecisionType
  <2>2. job'[w] = [d EXCEPT !.pc = "commit", !.refresh = r, !.flag = f]
    BY <1>1 DEF TypeOK
  <2> HIDE DEF d, r, f
  <2> QED
    BY <1>3, <2>1, <2>2 DEF Job
<1>5. CallInv(w)'
  <2>1. HoldsLocks(w)'
    BY <1>1, <1>4 DEF HoldsLocks, LockSet, Missing
  <2>2. SnapshotIsPast(w)'
    BY <1>1, <1>4 DEF CallInv, SnapshotIsPast, Recorded
  <2>3. DecisionFits(w)'
    <3>1. ChainOwner(j) \in User
      BY <1>1, ChainOwnerType DEF Refused
    <3>2. j.token \in Token
      BY <1>1 DEF CallInv
    <3>3. purchase[j.token].owner \in {NoUser, ChainOwner(j)}
      BY <3>2 DEF ChainOwner, Recorded
    <3>4. Migrates(j) => purchase[LinkedToken(j.token)].owner = ChainOwner(j)
      BY DEF ChainOwner, Migrates
    <3>5. Migrates(job[w])' = Migrates(j)
      BY <1>1, <1>4 DEF Migrates, Recorded
    <3> QED
      BY <1>1, <1>4, <3>1, <3>3, <3>4, <3>5 DEF DecisionFits
  <2> QED
    BY <1>1, <1>4, <2>1, <2>2, <2>3 DEF CallInv, AckFollowsGrant
<1>6. ASSUME NEW v \in Worker, v # w PROVE CallInv(v)'
  <2>1. ASSUME NEW t \in Token, lock[t] = v PROVE lock'[t] = v
    BY <1>1, <1>6, <2>1, WorkerAssumption DEF LastLock, Missing
  <2>2. Undisturbed(v)
    BY <1>1, <1>6, <2>1 DEF Undisturbed, TypeOK
  <2> QED
    BY <1>2, <2>2, OthersStand
<1> QED
  BY <1>2, <1>5, <1>6 DEF IInv

(* An acknowledgement of a grant already made reaches Google. *)
LEMMA AckCallSafe ==
  ASSUME NEW w \in Worker, IInv, TypeOK', AckCall(w)
  PROVE  IInv'
<1> DEFINE t == job[w].token
<1>1. /\ UNCHANGED <<now, entitlement, premium, purchase>>
      /\ job[w].pc = "ack" /\ lock[t] = NoWorker
      /\ play' = [play EXCEPT ![t].acked = TRUE]
      /\ lock' = [lock EXCEPT ![t] = w]
      /\ job' = [job EXCEPT ![w].pc = "ackcommit"]
      /\ TypeOK /\ CallInv(w)
  BY DEF AckCall, Acknowledged, IInv
<1>2. t \in Token
  BY <1>1 DEF CallInv
<1>3. /\ play'[t].acked = TRUE
      /\ \A x \in Token : /\ play[x].acked => play'[x].acked
                         /\ play'[x].expiresAt = play[x].expiresAt
                         /\ play[x].expiresAt \in Nat
  BY <1>1, <1>2 DEF TypeOK, PlayTypeOK, PlayRecord
<1>4. Monotone
  BY <1>1, <1>3 DEF Monotone
<1>5. GrantsAreBacked' /\ AckIsTruthful' /\ PeriodsArePaid'
  BY <1>1, <1>3 DEF IInv, GrantsAreBacked, AckIsTruthful, PeriodsArePaid
<1>6. CallInv(w)'
  <2>1. job'[w].pc = "ackcommit" /\ job'[w].token = t
    BY <1>1 DEF TypeOK, Job
  <2>2. lock'[t] = w
    BY <1>1, <1>2 DEF TypeOK
  <2> QED
    BY <1>2, <1>3, <2>1, <2>2
    DEF CallInv, HoldsLocks, SnapshotIsPast, DecisionFits, AckFollowsGrant
<1>7. ASSUME NEW v \in Worker, v # w PROVE CallInv(v)'
  <2>1. Undisturbed(v)
    BY <1>1, <1>7, WorkerAssumption DEF Undisturbed, TypeOK
  <2> QED
    BY <1>4, <2>1, OthersStand
<1> QED
  BY <1>5, <1>6, <1>7 DEF IInv

(* Its record claims no more than Google has heard. *)
LEMMA AckCommitSafe ==
  ASSUME NEW w \in Worker, IInv, TypeOK', AckCommit(w)
  PROVE  IInv'
<1> DEFINE t == job[w].token
<1>1. /\ UNCHANGED <<now, play, entitlement, premium>>
      /\ job[w].pc = "ackcommit"
      /\ purchase' = [purchase EXCEPT ![t].acked = TRUE]
      /\ lock' = Released(w)
      /\ job' = [job EXCEPT ![w] = IdleJob]
      /\ TypeOK /\ CallInv(w)
  BY DEF AckCommit, IInv
<1>2. play[t].acked
  BY <1>1 DEF CallInv, AckFollowsGrant
<1>3. \A x \in Token : /\ purchase'[x].owner = purchase[x].owner
                      /\ purchase'[x].state = purchase[x].state
                      /\ purchase'[x].expiresAt = purchase[x].expiresAt
                      /\ x # t => purchase'[x].acked = purchase[x].acked
  BY <1>1 DEF TypeOK, PurchaseRow
<1>4. Monotone
  BY <1>1, <1>3 DEF Monotone, TypeOK, PlayTypeOK, PlayRecord
<1>5. GrantsAreBacked' /\ AckIsTruthful' /\ PeriodsArePaid'
  BY <1>1, <1>2, <1>3 DEF IInv, GrantsAreBacked, AckIsTruthful, PeriodsArePaid
<1>6. CallInv(w)'
  BY <1>1, IdleCall DEF TypeOK
<1>7. ASSUME NEW v \in Worker, v # w PROVE CallInv(v)'
  <2>1. Undisturbed(v)
    BY <1>1, <1>3, <1>7 DEF Undisturbed, Released, TypeOK
  <2> QED
    BY <1>4, <2>1, OthersStand
<1> QED
  BY <1>5, <1>6, <1>7 DEF IInv

(* An acknowledgement there is nothing to do for, or that Google rejects. *)
LEMMA AckNoneSafe ==
  ASSUME NEW w \in Worker, IInv, TypeOK', AckSkip(w) \/ AckRejected(w)
  PROVE  IInv'
<1>1. /\ UNCHANGED <<now, play, entitlement, premium, purchase, lock>>
      /\ job' = [job EXCEPT ![w] = IdleJob]
  BY DEF AckSkip, AckRejected
<1>2. Monotone /\ GrantsAreBacked' /\ AckIsTruthful' /\ PeriodsArePaid'
  BY <1>1, RowsStand
<1>3. CallInv(w)'
  BY <1>1, IdleCall DEF IInv, TypeOK
<1>4. ASSUME NEW v \in Worker, v # w PROVE CallInv(v)'
  <2>1. Undisturbed(v)
    BY <1>1, <1>4 DEF Undisturbed, IInv, TypeOK
  <2> QED
    BY <1>2, <2>1, OthersStand
<1> QED
  BY <1>2, <1>3, <1>4 DEF IInv

(* Google takes back neither an acknowledgement nor a period it sold. *)
LEMMA EnvironmentSafe ==
  ASSUME IInv, TypeOK', Environment
  PROVE  IInv'
<1>1. UNCHANGED <<entitlement, premium, purchase, lock, job>>
  BY DEF Environment
<1>2. /\ now \in Nat
      /\ \A x \in Token : play[x].expiresAt \in Nat /\ play[x].expiresAt <= now + 1
  BY DEF IInv, TypeOK, PlayTypeOK, PlayRecord, PeriodsArePaid
<1>3. \A x \in Token : /\ play[x].acked => play'[x].acked
                      /\ play[x].expiresAt <= play'[x].expiresAt
                      /\ play'[x].expiresAt <= now' + 1
  <2>1. CASE Tick
    BY <1>2, <2>1 DEF Tick
  <2>2. CASE \E t \in Token, s \in PlayState : Move(t, s)
    <3>1. PICK t \in Token, s \in PlayState : Move(t, s)
      BY <2>2
    <3> SUFFICES ASSUME NEW x \in Token
                 PROVE  /\ play[x].acked => play'[x].acked
                        /\ play[x].expiresAt <= play'[x].expiresAt
                        /\ play'[x].expiresAt <= now' + 1
      OBVIOUS
    <3>2. play[x] \in PlayRecord /\ now' = now
      BY <3>1 DEF IInv, TypeOK, PlayTypeOK, Move
    <3>3. CASE x = t
      BY <1>2, <3>1, <3>2, <3>3 DEF Move
    <3>4. CASE x # t
      <4>1. play'[x].acked = play[x].acked /\ play'[x].expiresAt = play[x].expiresAt
        BY <3>1, <3>2, <3>4 DEF Move, PlayRecord
      <4> QED
        BY <1>2, <3>2, <4>1
    <3> QED
      BY <3>3, <3>4
  <2> QED
    BY <2>1, <2>2 DEF Environment
<1>4. Monotone
  BY <1>1, <1>3 DEF Monotone
<1>5. GrantsAreBacked' /\ AckIsTruthful'
  BY <1>1, <1>3 DEF IInv, GrantsAreBacked, AckIsTruthful
<1>6. PeriodsArePaid'
  <2> SUFFICES ASSUME NEW x \in Token, NEW u \in User
               PROVE  entitlement'[u][x].expiresAt <= play'[x].expiresAt
    BY <1>3 DEF PeriodsArePaid
  <2>1. /\ entitlement[u][x].expiresAt \in Nat
        /\ play[x].expiresAt \in Nat /\ play'[x].expiresAt \in Nat
    BY <1>2 DEF IInv, TypeOK, PlayTypeOK, PlayRecord, EntitlementTypeOK, EntitlementRow
  <2>2. entitlement[u][x].expiresAt <= play[x].expiresAt
    BY DEF IInv, PeriodsArePaid
  <2> QED
    BY <1>1, <1>3, <2>1, <2>2
<1>7. ASSUME NEW v \in Worker PROVE CallInv(v)'
  <2>1. Undisturbed(v)
    BY <1>1 DEF Undisturbed
  <2> QED
    BY <1>4, <2>1, OthersStand
<1> QED
  BY <1>5, <1>6, <1>7 DEF IInv

-----------------------------------------------------------------------------
(* The invariant. *)

LEMMA InitInvariant == Init => IInv
<1> SUFFICES ASSUME Init PROVE IInv
  OBVIOUS
<1>1. TypeOK
  BY InitType
<1>2. \A w \in Worker : CallInv(w)
  BY DEF Init, IdleJob, CallInv, HoldsLocks, SnapshotIsPast, DecisionFits, AckFollowsGrant
<1>3. GrantsAreBacked
  BY DEF Init, EntitlementInit, NoRow, GrantsAreBacked
<1>4. AckIsTruthful
  BY DEF Init, NoPurchase, AckIsTruthful
<1>5. PeriodsArePaid
  <2>1. \A t \in Token : play[t].expiresAt = 0 /\ now = 0
    BY DEF Init, PlayInit
  <2>2. \A t \in Token, u \in User : entitlement[u][t].expiresAt = 0
    BY DEF Init, EntitlementInit, NoRow
  <2>3. 0 <= 0 + 1 /\ 0 <= 0
    OBVIOUS
  <2> QED
    BY <2>1, <2>2, <2>3 DEF PeriodsArePaid
<1> QED
  BY <1>1, <1>2, <1>3, <1>4, <1>5 DEF IInv

LEMMA CommitSafe ==
  ASSUME NEW w \in Worker, IInv, TypeOK', Commit(w)
  PROVE  IInv'
<1>1. Monotone
  BY CommitMonotone
<1>2. ASSUME NEW v \in Worker, v # w PROVE CallInv(v)'
  BY <1>1, <1>2, CommitUndisturbed, OthersStand
<1> QED
  BY <1>2, CommitOwn, CommitBacked, CommitTruthful DEF IInv

LEMMA NextInvariant == IInv /\ [Next]_vars => IInv'
<1> SUFFICES ASSUME IInv, [Next]_vars PROVE IInv'
  OBVIOUS
<1>1. TypeOK'
  BY NextType DEF IInv
<1>2. CASE Environment
  BY <1>1, <1>2, EnvironmentSafe
<1>3. ASSUME NEW w \in Worker, Call(w) PROVE IInv'
  BY <1>1, <1>3, CallSafe
<1>4. ASSUME NEW w \in Worker, Step(w) PROVE IInv'
  <2>1. CASE AcquireLock(w)
    BY <1>1, <2>1, AcquireLockSafe
  <2>2. CASE Refuse(w)
    BY <1>1, <2>2, EndSafe DEF Refuse
  <2>3. CASE Decide(w)
    BY <1>1, <2>3, DecideSafe
  <2>4. CASE Commit(w)
    BY <1>1, <2>4, CommitSafe
  <2>5. CASE AckSkip(w) \/ AckRejected(w)
    BY <1>1, <2>5, AckNoneSafe
  <2>6. CASE AckCall(w)
    BY <1>1, <2>6, AckCallSafe
  <2>7. CASE AckCommit(w)
    BY <1>1, <2>7, AckCommitSafe
  <2> QED
    BY <1>4, <2>1, <2>2, <2>3, <2>4, <2>5, <2>6, <2>7 DEF Step
<1>5. ASSUME NEW w \in Worker, Fail(w) PROVE IInv'
  BY <1>1, <1>5, EndSafe DEF Fail
<1>6. CASE UNCHANGED vars
  <2>1. UNCHANGED <<now, play, entitlement, purchase>> /\ UNCHANGED <<lock, job>>
    BY <1>6 DEF vars
  <2>2. Monotone /\ GrantsAreBacked' /\ AckIsTruthful' /\ PeriodsArePaid'
    BY <2>1, RowsStand
  <2>3. \A v \in Worker : Undisturbed(v)
    BY <2>1 DEF Undisturbed
  <2> QED
    BY <1>1, <2>2, <2>3, OthersStand DEF IInv
<1> QED
  BY <1>2, <1>3, <1>4, <1>5, <1>6 DEF Next

(* The inductive invariant: what each phase of a call relies on is there. *)
THEOREM InvariantHolds == Spec => []IInv
<1>1. Init => IInv
  BY InitInvariant
<1>2. IInv /\ [Next]_vars => IInv'
  BY NextInvariant
<1> QED
  BY <1>1, <1>2, PTL DEF Spec

-----------------------------------------------------------------------------
(* What follows from it. *)

(* However many verifies, RTDNs and sweeps run at once, and whichever of them
   fail, a token makes at most one account premium, and every ACTIVE grant
   says what the purchase of that account says. *)
THEOREM GrantsBacked == Spec => []GrantsAreBacked
<1>1. IInv => GrantsAreBacked
  BY DEF IInv
<1> QED
  BY <1>1, InvariantHolds, PTL

(* The acknowledged column never claims what Google has not heard. *)
THEOREM AcknowledgementTruthful == Spec => []AckIsTruthful
<1>1. IInv => AckIsTruthful
  BY DEF IInv
<1> QED
  BY <1>1, InvariantHolds, PTL

(* What a transaction decided on locked rows is still so when it commits: the
   ownership guard of upsertVerifiedPurchase is never needed. *)
THEOREM DecisionsHold == Spec => []DecisionStands
<1>1. IInv => DecisionStands
  <2> SUFFICES ASSUME IInv, NEW w \in Worker, job[w].pc = "commit"
               PROVE  /\ purchase[job[w].token].owner \in {NoUser, job[w].owner}
                      /\ job[w].migrate =>
                           /\ ~Recorded(job[w].token)
                           /\ purchase[LinkedToken(job[w].token)].owner = job[w].owner
    BY DEF DecisionStands
  <2>1. DecisionFits(w)
    BY DEF IInv, CallInv
  <2> QED
    BY <2>1 DEF DecisionFits, Migrates
<1> QED
  BY <1>1, InvariantHolds, PTL

(* Nobody is premium beyond a period Google sold on a token of theirs. *)
THEOREM PremiumIsPaid == Spec => []PremiumWithinPaidPeriod
<1>1. IInv => PremiumWithinPaidPeriod
  <2> SUFFICES ASSUME IInv, NEW u \in User, IsPremium(u)
               PROVE  \E t \in Token : purchase[t].owner = u /\ play[t].expiresAt > now
    BY DEF PremiumWithinPaidPeriod
  <2>1. PICK t \in Token : Live(entitlement[u][t])
    BY DEF IsPremium, HasActive
  <2>2. purchase[t].owner = u
    BY <2>1 DEF IInv, GrantsAreBacked, Live
  <2>3. /\ entitlement[u][t].expiresAt <= play[t].expiresAt
        /\ entitlement[u][t].expiresAt \in Nat /\ play[t].expiresAt \in Nat /\ now \in Nat
    BY DEF IInv, PeriodsArePaid, TypeOK, PlayTypeOK, PlayRecord, EntitlementTypeOK,
           EntitlementRow
  <2>4. play[t].expiresAt > now
    BY <2>1, <2>3 DEF Live
  <2> QED
    BY <2>2, <2>4
<1> QED
  BY <1>1, InvariantHolds, PTL

(* Purchases are written by commits and by recorded acknowledgements only. *)
LEMMA PurchaseWriters ==
  ASSUME [Next]_vars
  PROVE  \/ purchase' = purchase
         \/ \E w \in Worker : Commit(w)
         \/ \E w \in Worker : AckCommit(w)
<1>1. ASSUME NEW w \in Worker, Call(w) PROVE purchase' = purchase
  BY <1>1 DEF Call, Verify, Sync, SyncGone, Migrate, Revoke, Fetch, ForceClose
<1> QED
  BY <1>1 DEF Next, Environment, Step, AcquireLock, Refuse, Decide, AckSkip, AckCall,
              AckRejected, Fail, vars

LEMMA AckCommitOwners ==
  ASSUME NEW w \in Worker, IInv, AckCommit(w), NEW t \in Token
  PROVE  purchase'[t].owner = purchase[t].owner
  BY DEF AckCommit, IInv, TypeOK, PurchaseRow

(* No step of any call rebinds a recorded token to another account. *)
THEOREM OwnershipImmutable == Spec => TokenNeverChangesOwner
<1> DEFINE Bound == \A t \in Token : Recorded(t) => purchase'[t].owner = purchase[t].owner
<1>1. IInv /\ [Next]_vars => [Bound]_vars
  <2> SUFFICES ASSUME IInv, [Next]_vars, NEW t \in Token, Recorded(t)
               PROVE  purchase'[t].owner = purchase[t].owner
    OBVIOUS
  <2>1. CASE purchase' = purchase
    BY <2>1
  <2>2. CASE \E w \in Worker : Commit(w)
    BY <2>2, CommitMonotone DEF Monotone
  <2>3. CASE \E w \in Worker : AckCommit(w)
    BY <2>3, AckCommitOwners
  <2> QED
    BY <2>1, <2>2, <2>3, PurchaseWriters
<1> QED
  BY <1>1, InvariantHolds, PTL DEF Spec, TokenNeverChangesOwner

(* A first link after a recorded predecessor goes to the predecessor's owner,
   whoever presents it. *)
THEOREM SuccessorsInherit == Spec => SuccessorInheritsOwner
<1> DEFINE Inherits ==
      \A t \in Token : (~Recorded(t) /\ Recorded(t)' /\ Recorded(LinkedToken(t)))
                        => purchase'[t].owner = purchase[LinkedToken(t)].owner
<1>1. IInv /\ [Next]_vars => [Inherits]_vars
  <2> SUFFICES ASSUME IInv, [Next]_vars, NEW t \in Token,
                      ~Recorded(t), Recorded(t)', Recorded(LinkedToken(t))
               PROVE  purchase'[t].owner = purchase[LinkedToken(t)].owner
    OBVIOUS
  <2>1. purchase'[t].owner # purchase[t].owner
    BY DEF Recorded
  <2>2. PICK w \in Worker : Commit(w)
    BY <2>1, PurchaseWriters, AckCommitOwners
  <2>3. TypeOK /\ CallInv(w) /\ job[w].pc = "commit"
    BY <2>2 DEF IInv, Commit
  <2>4. t = job[w].token /\ job[w].op = "reconcile"
    BY <2>1, <2>2, <2>3, CommitWrites
  <2>5. purchase'[t].owner = job[w].owner
    BY <2>2, <2>3, <2>4, CommitWrites
  <2>6. Migrates(job[w])
    BY <2>4 DEF Migrates
  <2> QED
    BY <2>3, <2>4, <2>5, <2>6 DEF CallInv, DecisionFits
<1> QED
  BY <1>1, InvariantHolds, PTL DEF Spec, SuccessorInheritsOwner

(* Google hears "acknowledged" only of a purchase whose grant is committed. *)
THEOREM AcknowledgedAfterGrant == Spec => AckAfterGrant
<1> DEFINE After ==
      \A t \in Token : (~play[t].acked /\ play'[t].acked)
        => Recorded(t) /\ entitlement[purchase[t].owner][t].status # "NONE"
<1>1. IInv /\ [Next]_vars => [After]_vars
  <2> SUFFICES ASSUME IInv, [Next]_vars, NEW t \in Token, ~play[t].acked, play'[t].acked
               PROVE  Recorded(t) /\ entitlement[purchase[t].owner][t].status # "NONE"
    OBVIOUS
  <2>1. ASSUME NEW w \in Worker, Call(w) PROVE play' = play
    BY <2>1 DEF Call, Verify, Sync, SyncGone, Migrate, Revoke, Fetch, ForceClose
  <2>2. Environment => play'[t].acked = play[t].acked
    <3>1. play[t] \in PlayRecord
      BY DEF IInv, TypeOK, PlayTypeOK
    <3>2. CASE Tick
      BY <3>2 DEF Tick
    <3>3. ASSUME NEW x \in Token, NEW s \in PlayState, Move(x, s)
          PROVE  play'[t].acked = play[t].acked
      <4>1. CASE t = x
        BY <3>3, <4>1 DEF Move
      <4>2. CASE t # x
        BY <3>1, <3>3, <4>2 DEF Move, PlayRecord
      <4> QED
        BY <4>1, <4>2
    <3> QED
      BY <3>2, <3>3 DEF Environment
  <2>3. PICK w \in Worker : AckCall(w)
    BY <2>1, <2>2 DEF Next, Step, AcquireLock, Refuse, Decide, Commit, AckSkip, AckCommit,
                      AckRejected, Fail, vars
  <2>4. t = job[w].token
    BY <2>3 DEF AckCall, Acknowledged, IInv, TypeOK, PlayTypeOK
  <2> QED
    BY <2>3, <2>4 DEF AckCall, IInv, CallInv, AckFollowsGrant
<1> QED
  BY <1>1, InvariantHolds, PTL DEF Spec, AckAfterGrant

-----------------------------------------------------------------------------
(* Locks.  The advisory locks cannot deadlock: a call takes them lowest token first
   and holds none between its transactions. *)

(* A step that changes neither v's call nor the locks v holds. *)
LEMMA OthersWait ==
  ASSUME NEW v \in Worker, LockDiscipline, job'[v] = job[v],
         \A t \in Token : lock'[t] = v <=> lock[t] = v
  PROVE  /\ \A s, t \in Token :
              (job'[v].pc = "lock" /\ lock'[s] = v /\ t \in Missing(v)') => Rank[s] < Rank[t]
         /\ \A t \in Token : job'[v].pc \in {"idle", "ack"} => lock'[t] # v
  BY DEF LockDiscipline, WaitsUpwards, Missing, LockSet

(* Every state keeps the discipline: one case per action of the call. *)
LEMMA DisciplineKept ==
  ASSUME TypeOK, LockDiscipline, [Next]_vars
  PROVE  LockDiscipline'
<1>0. /\ lock \in [Token -> Worker \union {NoWorker}]
      /\ job \in [Worker -> Job]
      /\ NoWorker \notin Worker
  BY WorkerAssumption DEF TypeOK
<1> SUFFICES ASSUME NEW v \in Worker
             PROVE  /\ \A s, t \in Token :
                         (job'[v].pc = "lock" /\ lock'[s] = v /\ t \in Missing(v)')
                           => Rank[s] < Rank[t]
                    /\ \A t \in Token : job'[v].pc \in {"idle", "ack"} => lock'[t] # v
  BY DEF LockDiscipline, WaitsUpwards
<1>1. CASE UNCHANGED vars
  BY <1>1, OthersWait DEF vars
<1>2. CASE Environment
  BY <1>2, OthersWait DEF Environment
<1>3. ASSUME NEW w \in Worker, Call(w) \/ Step(w) \/ Fail(w), w # v
      PROVE  job'[v] = job[v] /\ \A t \in Token : lock'[t] = v <=> lock[t] = v
  BY <1>0, <1>3 DEF Call, Step, Fail, Verify, Sync, SyncGone, Migrate, Revoke, Fetch, ForceClose,
                    AcquireLock, Refuse, Decide, Commit, AckSkip, AckCall, AckRejected, AckCommit,
                    Released, Missing, LastLock, LockSet
<1>4. CASE Call(v)
  <2>1. job[v].pc = "idle" /\ lock' = lock
    BY <1>4 DEF Call, Verify, Sync, SyncGone, Migrate, Revoke, Fetch, ForceClose
  <2>2. \A t \in Token : lock'[t] # v
    BY <2>1 DEF LockDiscipline
  <2> QED
    BY <2>2
<1>5. CASE Step(v)
  <2>1. CASE AcquireLock(v)
    <3>1. PICK x \in Missing(v) :
            /\ \A s \in Missing(v) \ {x} : Rank[x] < Rank[s]
            /\ lock' = [lock EXCEPT ![x] = v]
      BY <2>1 DEF AcquireLock
    <3>2. job' = job /\ job[v].pc = "lock"
      BY <2>1 DEF AcquireLock
    <3>3. Missing(v)' = Missing(v) \ {x}
      BY <1>0, <3>1, <3>2 DEF Missing, LockSet
    <3>4. \A s \in Token : lock'[s] = v => s = x \/ lock[s] = v
      BY <1>0, <3>1
    <3> QED
      BY <3>1, <3>2, <3>3, <3>4 DEF LockDiscipline, WaitsUpwards
  <2>2. CASE Decide(v) \/ AckCall(v)
    <3>1. CASE Decide(v)
      <4> DEFINE d == Decision(job[v])
                 refresh == d.entitling \/ Closes(entitlement, d.owner, d.token)
                 flag == HasActive(NewEntitlement(d), d.owner)
      <4>1. d \in Job
        BY <1>0, DecisionType
      <4>2. job' = [job EXCEPT ![v] = [d EXCEPT !.pc = "commit", !.refresh = refresh, !.flag = flag]]
        BY <3>1 DEF Decide
      <4> HIDE DEF d, refresh, flag
      <4>3. job'[v].pc = "commit"
        BY <1>0, <4>1, <4>2 DEF Job
      <4> QED
        BY <4>3
    <3>2. CASE AckCall(v)
      BY <1>0, <3>2 DEF AckCall, Job
    <3> QED
      BY <2>2, <3>1, <3>2
  <2>3. CASE AckSkip(v) \/ AckRejected(v)
    BY <1>0, <2>3 DEF AckSkip, AckRejected, LockDiscipline, IdleJob
  <2>4. CASE Refuse(v) \/ Commit(v) \/ AckCommit(v)
    BY <1>0, <2>4 DEF Refuse, Commit, AckCommit, Released
  <2> QED
    BY <1>5, <2>1, <2>2, <2>3, <2>4 DEF Step
<1>6. CASE Fail(v)
  BY <1>0, <1>6 DEF Fail, Released
<1> QED
  BY <1>1, <1>2, <1>3, <1>4, <1>5, <1>6, OthersWait DEF Next

(* Calls never wait for each other in a circle. *)
THEOREM NoCircularWait == Spec => []WaitsUpwards
<1>1. Init => LockDiscipline
  BY WorkerAssumption DEF Init, LockDiscipline, WaitsUpwards, IdleJob
<1>2. TypeOK /\ LockDiscipline /\ [Next]_vars => LockDiscipline'
  BY DisciplineKept
<1>3. LockDiscipline => WaitsUpwards
  BY DEF LockDiscipline
<1> QED
  BY <1>1, <1>2, <1>3, TypeCorrect, PTL DEF Spec

-----------------------------------------------------------------------------
(* The pipeline.  Every step of the webhook, of the sweeps, of clients and of failures
   is a step of Verification or leaves its state alone, so that the safety of the
   write path holds of it. *)

(* A notification is about a token, and one of a revocation is never ahead of
   Google: the forced revoke that it triggers is one Verification allows. *)
Genuine(m) == m \in Message /\ (IsRevoke(m) => play[m.token].state = "REVOKED")

NotificationInv ==
  /\ TypeOK
  /\ \A m \in inbox : Genuine(m)
  /\ handling \in [Handler -> Handling]
  /\ \A w \in Handler : handling[w].phase = "routed" => Genuine(handling[w].msg)

LEMMA NotificationInit == PipelineInit => NotificationInv
  BY InitType
  DEF PipelineInit, RtdnInit, NotificationInv, Unoccupied, Handling, NoMessage

(* Once refunded, refunded for good: what a notification says stays true. *)
LEMMA GenuineStays ==
  ASSUME NotificationInv, [Next]_vars, NEW m, Genuine(m)
  PROVE  Genuine(m)'
<1>1. m \in Message /\ (IsRevoke(m) => play[m.token].state = "REVOKED")
  BY DEF Genuine
<1>2. m.token \in Token
  BY <1>1 DEF Message
<1>3. ASSUME IsRevoke(m) PROVE play'[m.token].state = "REVOKED"
  <2>1. play[m.token] \in PlayRecord /\ play[m.token].state = "REVOKED"
    BY <1>1, <1>2, <1>3 DEF NotificationInv, TypeOK, PlayTypeOK
  <2>2. ASSUME NEW w \in Worker, Call(w) PROVE play' = play
    BY <2>2 DEF Call, Verify, Sync, SyncGone, Migrate, Revoke, Fetch, ForceClose
  <2>3. ASSUME NEW w \in Worker, AckCall(w) PROVE play'[m.token].state = "REVOKED"
    BY <1>2, <2>1, <2>3 DEF AckCall, Acknowledged, NotificationInv, TypeOK, PlayTypeOK, PlayRecord
  <2>4. ASSUME NEW t \in Token, NEW s \in PlayState, Move(t, s)
        PROVE  play'[m.token].state = "REVOKED"
    <3>1. m.token # t
      BY <2>1, <2>4, PlayAssumption DEF Move
    <3> QED
      BY <1>2, <2>1, <2>4, <3>1 DEF Move
  <2>5. play' = play => play'[m.token].state = "REVOKED"
    BY <2>1
  <2> QED
    BY <2>2, <2>3, <2>4, <2>5
    DEF Next, Environment, Tick, Step, AcquireLock, Refuse, Decide, Commit, AckSkip, AckCommit,
        AckRejected, Fail, vars
<1> QED
  BY <1>1, <1>3 DEF Genuine, Message, IsRevoke

(* A handler that acts on a genuine notification makes a call of Verification
   or does nothing to it. *)
LEMMA RouteImplements ==
  ASSUME NEW w \in Handler, NotificationInv, Route(w)
  PROVE  [Next]_vars
<1> DEFINE m == handling[w].msg
<1>1. w \in Worker
  BY HandlerAssumption
<1>2. Genuine(m) /\ Routes(w)
  BY DEF Route, NotificationInv
<1>3. m.token \in Token
  BY <1>2 DEF Genuine, Message
<1>4. CASE UNCHANGED vars
  BY <1>4
<1>5. CASE \/ Sync(w, m.token) \/ SyncGone(w, m.token) \/ Migrate(w, m.token)
           \/ IsRevoke(m) /\ ForceClose(w, m.token, "revoke")
  <2>1. IsRevoke(m) /\ ForceClose(w, m.token, "revoke") => Revoke(w, m.token)
    BY <1>2 DEF Genuine, Revoke
  <2>2. Call(w)
    BY <1>3, <1>5, <2>1 DEF Call
  <2> QED
    BY <1>1, <2>2 DEF Next
<1> QED
  BY <1>2, <1>4, <1>5 DEF Routes

(* One step of the pipeline is at most one step of the write path. *)
LEMMA StepImplements ==
  ASSUME NotificationInv, [PipelineNext]_pipelineVars
  PROVE  [Next]_vars
<1>1. CASE Google
  <2>1. Environment
    BY <1>1 DEF Google, Environment
  <2> QED
    BY <2>1 DEF Next
<1>2. ASSUME NEW w \in Client, ClientVerifies(w) PROVE [Next]_vars
  <2>1. w \in Worker /\ Call(w)
    BY <1>2, PipelineAssumption DEF ClientVerifies, Call
  <2> QED
    BY <2>1 DEF Next
<1>3. ASSUME NEW w \in Handler, Webhook(w) PROVE [Next]_vars
  <2>1. ASSUME NEW m \in Message, Deliver(w, m) PROVE [Next]_vars
    BY <2>1 DEF Deliver
  <2>2. CASE RecordProcessed(w)
    BY <2>2 DEF RecordProcessed
  <2> QED
    BY <1>3, <2>1, <2>2, RouteImplements DEF Webhook
<1>4. ASSUME NEW w \in Sweeper, Cron(w) PROVE [Next]_vars
  <2>1. CASE RunAcknowledgementSweep(w) \/ RunReconciliationSweep(w)
    BY <2>1 DEF RunAcknowledgementSweep, RunReconciliationSweep, StartSweep
  <2>2. ASSUME NEW t, Sync(w, t) \/ SyncGone(w, t) PROVE [Next]_vars
    <3>1. t \in Token
      BY <2>2 DEF Sync, SyncGone, ForceClose, Recorded
    <3> QED
      BY <2>2, <3>1, SweeperAssumption DEF Call, Next
  <2> QED
    BY <1>4, <2>1, <2>2 DEF Cron, AckPurchases, ReconcileSubscriptions, Sweep, SweepItem
<1>5. ASSUME NEW w \in Worker, Work(w) PROVE [Next]_vars
  BY <1>5 DEF Work, Next
<1>6. CASE PubSubDrops
  BY <1>6 DEF PubSubDrops, DropDuplicate
<1>7. CASE Fault
  <2>1. ASSUME NEW w \in Worker, Fail(w) PROVE [Next]_vars
    BY <2>1 DEF Next
  <2> QED
    BY <1>7, <2>1, PipelineAssumption, HandlerAssumption, SweeperAssumption
    DEF Fault, Retryable, SweepFail
<1>8. CASE UNCHANGED pipelineVars
  BY <1>8 DEF pipelineVars
<1> QED
  BY <1>1, <1>2, <1>3, <1>4, <1>5, <1>6, <1>7, <1>8 DEF PipelineNext

-----------------------------------------------------------------------------

(* Notifications come from Google's own moves, and a handler holds the one it
   was delivered until it is done with it. *)
LEMMA NotificationNext ==
  NotificationInv /\ [PipelineNext]_pipelineVars => NotificationInv'
<1> SUFFICES ASSUME NotificationInv, [PipelineNext]_pipelineVars
             PROVE  NotificationInv'
  OBVIOUS
<1>1. [Next]_vars
  BY StepImplements
<1>2. TypeOK'
  BY <1>1, NextType DEF NotificationInv
<1>3. \A m : Genuine(m) => Genuine(m)'
  BY <1>1, GenuineStays
<1>4. CASE UNCHANGED rtdnVars
  BY <1>2, <1>3, <1>4 DEF rtdnVars, NotificationInv, Genuine
<1>5. ASSUME NEW t \in Token, NEW s \in PlayState, Move(t, s), Publish(t, s)
      PROVE  NotificationInv'
  <2>1. handling' = handling
    BY <1>5 DEF Publish
  <2>2. ASSUME NEW m \in inbox', m \notin inbox PROVE Genuine(m)'
    <3> DEFINE replaced == {[token |-> x, state |-> "EXPIRED"] :
                     x \in {y \in Token : y = LinkedToken(t) /\ s \in EntitlingStates}}
    <3>1. m \in {[token |-> t, state |-> s]} \union replaced
      BY <1>5, <2>2 DEF Publish
    <3>2. CASE m = [token |-> t, state |-> s]
      <4>1. m \in Message
        BY <1>5, <3>2 DEF Message, Move
      <4>2. s = "REVOKED" => play'[t].state = "REVOKED"
        BY <1>5 DEF Move
      <4> QED
        BY <3>2, <4>1, <4>2 DEF Genuine, IsRevoke, Message
    <3>3. CASE m \in replaced
      BY <3>3 DEF Genuine, IsRevoke, Message
    <3> QED
      BY <3>1, <3>2, <3>3
  <2> QED
    BY <1>2, <1>3, <2>1, <2>2 DEF NotificationInv
<1>6. ASSUME NEW w \in Handler, Webhook(w) PROVE NotificationInv'
  <2>1. ASSUME NEW m \in Message, Deliver(w, m) PROVE NotificationInv'
    <3>1. Genuine(m)' /\ inbox' = inbox
      BY <1>3, <2>1 DEF Deliver, NotificationInv
    <3>2. handling' = [handling EXCEPT ![w] =
                         [phase |-> "routed", msg |-> m, known |-> Recorded(m.token)]]
      BY <2>1 DEF Deliver
    <3>3. handling' \in [Handler -> Handling]
      BY <3>2 DEF NotificationInv, Handling, Recorded
    <3>4. ASSUME NEW v \in Handler, handling'[v].phase = "routed"
          PROVE  Genuine(handling[v].msg)'
      <4>1. CASE v = w
        <5>1. handling'[v].msg = m
          BY <3>2, <4>1 DEF NotificationInv
        <5> QED
          BY <3>1, <5>1
      <4>2. CASE v # w
        <5>1. handling'[v] = handling[v]
          BY <3>2, <4>2 DEF NotificationInv
        <5> QED
          BY <1>3, <3>4, <5>1 DEF NotificationInv
      <4> QED
        BY <4>1, <4>2
    <3> QED
      BY <1>2, <1>3, <3>1, <3>3, <3>4 DEF NotificationInv
  <2>2. CASE Route(w)
    <3>1. inbox' = inbox /\ handling' = [handling EXCEPT ![w].phase = "running"]
      BY <2>2 DEF Route
    <3>2. handling' \in [Handler -> Handling]
      BY <3>1 DEF NotificationInv, Handling
    <3>3. \A v \in Handler : handling'[v].phase = "routed" => handling'[v] = handling[v]
      BY <3>1 DEF NotificationInv, Handling
    <3> QED
      BY <1>2, <1>3, <3>1, <3>2, <3>3 DEF NotificationInv
  <2>3. CASE RecordProcessed(w)
    <3>1. /\ inbox' \subseteq inbox
          /\ handling' = [handling EXCEPT ![w] = Unoccupied]
      BY <2>3 DEF RecordProcessed
    <3>2. handling' \in [Handler -> Handling]
      BY <3>1 DEF NotificationInv, Handling, Unoccupied, NoMessage
    <3>3. \A v \in Handler : handling'[v].phase = "routed" => handling'[v] = handling[v]
      BY <3>1 DEF NotificationInv, Unoccupied
    <3> QED
      BY <1>2, <1>3, <3>1, <3>2, <3>3 DEF NotificationInv
  <2> QED
    BY <1>6, <2>1, <2>2, <2>3 DEF Webhook
<1>7. ASSUME NEW w \in Handler, Retryable(w) PROVE NotificationInv'
  <2>1. inbox' = inbox /\ handling' \in {handling, [handling EXCEPT ![w] = Unoccupied]}
    BY <1>7 DEF Retryable
  <2>2. handling' \in [Handler -> Handling]
    <3>1. Unoccupied \in Handling /\ handling \in [Handler -> Handling]
      BY DEF NotificationInv, Handling, Unoccupied, NoMessage
    <3> QED
      BY <2>1, <3>1
  <2>3. \A v \in Handler : handling'[v].phase = "routed" => handling'[v] = handling[v]
    BY <2>1 DEF NotificationInv, Unoccupied
  <2> QED
    BY <1>2, <1>3, <2>1, <2>2, <2>3 DEF NotificationInv
<1>8. CASE PubSubDrops
  <2>1. inbox' \subseteq inbox /\ handling' = handling
    BY <1>8 DEF PubSubDrops, DropDuplicate
  <2> QED
    BY <1>2, <1>3, <2>1 DEF NotificationInv
<1> QED
  BY <1>4, <1>5, <1>6, <1>7, <1>8
  DEF PipelineNext, Google, ClientVerifies, Cron, AckPurchases, ReconcileSubscriptions, Sweep, Work, Fault, pipelineVars

(* Clients, webhook, sweeps, redelivered and stale notifications, failures:
   together they implement the write path of Verification. *)
THEOREM PipelineImplementsCore == PipelineSpec => ImplementsCore
<1>1. PipelineInit => Init /\ NotificationInv
  BY NotificationInit DEF PipelineInit
<1>2. NotificationInv /\ [PipelineNext]_pipelineVars => [Next]_vars
  BY StepImplements
<1>3. NotificationInv /\ [PipelineNext]_pipelineVars => NotificationInv'
  BY NotificationNext
<1> QED
  BY <1>1, <1>2, <1>3, PTL DEF PipelineSpec, ImplementsCore

(* So a token makes at most one account premium whatever mix of clients,
   notifications and sweeps presents it. *)
THEOREM PipelineGrantsBacked == PipelineSpec => []GrantsAreBacked
  BY PipelineImplementsCore, GrantsBacked, PTL DEF ImplementsCore, Spec

-----------------------------------------------------------------------------

(* What the callers keep for themselves: markers of messages, batches of
   tokens, and the counters that bound a run. *)
CallersInv ==
  /\ seen \subseteq Message
  /\ \A w \in Handler : handling[w].phase = "running" => handling[w].msg \in Message
  /\ SweepTypeOK
  /\ verifies \in [Client -> 0..MaxVerifies]
  /\ faults \in 0..MaxFaults

(* Only a routed message is run, and only a message that ran is marked. *)
LEMMA CallersKept ==
  ASSUME NotificationInv, CallersInv, [PipelineNext]_pipelineVars
  PROVE  CallersInv'
<1>1. CASE UNCHANGED pipelineVars
  BY <1>1 DEF pipelineVars, rtdnVars, CallersInv, SweepTypeOK
<1>2. CASE Google
  <2>1. UNCHANGED <<seen, handling, batch, verifies, faults>>
    BY <1>2 DEF Google, Publish, rtdnVars
  <2> QED
    BY <2>1 DEF CallersInv, SweepTypeOK
<1>3. ASSUME NEW w \in Client, ClientVerifies(w) PROVE CallersInv'
  <2>1. verifies' \in [Client -> 0..MaxVerifies]
    BY <1>3, PipelineAssumption DEF ClientVerifies, CallersInv
  <2> QED
    BY <1>3, <2>1 DEF ClientVerifies, rtdnVars, CallersInv, SweepTypeOK
<1>4. ASSUME NEW w \in Handler, handling' = [handling EXCEPT ![w] = Unoccupied]
      PROVE  \A v \in Handler : handling'[v].phase = "running" => handling'[v] = handling[v]
  BY <1>4 DEF NotificationInv, Unoccupied
<1>5. ASSUME NEW w \in Handler, Webhook(w) PROVE CallersInv'
  <2>1. UNCHANGED <<batch, verifies, faults>>
    BY <1>5 DEF Webhook
  <2>2. ASSUME NEW m \in Message, Deliver(w, m) PROVE CallersInv'
    <3>1. /\ seen' = seen
          /\ \A v \in Handler : handling'[v].phase = "running" => handling'[v] = handling[v]
      BY <2>2 DEF Deliver, NotificationInv
    <3> QED
      BY <2>1, <3>1 DEF CallersInv, SweepTypeOK
  <2>3. CASE Route(w)
    <3>1. /\ seen' = seen
          /\ \A v \in Handler : handling'[v].msg = handling[v].msg
          /\ \A v \in Handler : v # w => handling'[v] = handling[v]
          /\ handling[w].msg \in Message
      BY <2>3 DEF Route, NotificationInv, Handling, Genuine
    <3> QED
      BY <2>1, <3>1 DEF CallersInv, SweepTypeOK
  <2>4. CASE RecordProcessed(w)
    <3>1. /\ seen' = seen \union {handling[w].msg} /\ handling[w].phase = "running"
          /\ handling' = [handling EXCEPT ![w] = Unoccupied]
      BY <2>4 DEF RecordProcessed
    <3> QED
      BY <1>4, <2>1, <3>1 DEF CallersInv, SweepTypeOK
  <2> QED
    BY <1>5, <2>2, <2>3, <2>4 DEF Webhook
<1>6. ASSUME NEW w \in Sweeper, Cron(w) PROVE CallersInv'
  <2>1. batch' \in [Sweeper -> SUBSET Token]
    BY <1>6 DEF Cron, AckPurchases, ReconcileSubscriptions, Sweep, RunAcknowledgementSweep, RunReconciliationSweep, StartSweep, Unacknowledged,
       Reconcilable, SweepItem, CallersInv, SweepTypeOK
  <2> QED
    BY <1>6, <2>1 DEF Cron, AckPurchases, ReconcileSubscriptions, Sweep, rtdnVars, CallersInv, SweepTypeOK
<1>7. ASSUME NEW w \in Worker, Work(w) PROVE CallersInv'
  BY <1>7 DEF Work, rtdnVars, CallersInv, SweepTypeOK
<1>8. CASE PubSubDrops
  BY <1>8 DEF PubSubDrops, DropDuplicate, CallersInv, SweepTypeOK
<1>9. CASE Fault
  <2>1. faults' \in 0..MaxFaults /\ verifies' = verifies
    BY <1>9, PipelineAssumption DEF Fault, CallersInv
  <2>2. ASSUME NEW w \in Handler, Retryable(w), UNCHANGED batch PROVE CallersInv'
    <3>1. seen' = seen /\ handling' \in {handling, [handling EXCEPT ![w] = Unoccupied]}
      BY <2>2 DEF Retryable
    <3>2. \A v \in Handler : handling'[v].phase = "running" => handling'[v] = handling[v]
      BY <1>4, <3>1
    <3> QED
      BY <2>1, <2>2, <3>1, <3>2 DEF CallersInv, SweepTypeOK
  <2>3. ASSUME NEW w \in Sweeper, SweepFail(w), UNCHANGED rtdnVars PROVE CallersInv'
    <3>1. batch' \in [Sweeper -> SUBSET Token]
      BY <2>3 DEF SweepFail, CallersInv, SweepTypeOK
    <3> QED
      BY <2>1, <2>3, <3>1 DEF rtdnVars, CallersInv, SweepTypeOK
  <2>4. CASE UNCHANGED <<rtdnVars, batch>>
    BY <2>1, <2>4 DEF rtdnVars, CallersInv, SweepTypeOK
  <2> QED
    BY <1>9, <2>2, <2>3, <2>4 DEF Fault
<1> QED
  BY <1>1, <1>2, <1>3, <1>5, <1>6, <1>7, <1>8, <1>9 DEF PipelineNext

(* Every state of the whole pipeline is well-typed, whatever its bounds. *)
THEOREM PipelineTypes == PipelineSpec => []PipelineTypeOK
<1>1. PipelineInit => NotificationInv /\ CallersInv
  BY NotificationInit, PipelineAssumption
  DEF PipelineInit, RtdnInit, SweepInit, CallersInv, SweepTypeOK, Unoccupied
<1>2. NotificationInv /\ CallersInv /\ [PipelineNext]_pipelineVars
        => (NotificationInv /\ CallersInv)'
  BY NotificationNext, CallersKept
<1>3. NotificationInv /\ CallersInv => PipelineTypeOK
  BY DEF NotificationInv, CallersInv, PipelineTypeOK, RtdnTypeOK, Genuine
<1> QED
  BY <1>1, <1>2, <1>3, PTL DEF PipelineSpec

-----------------------------------------------------------------------------
(* Who writes what, and where a call in flight comes from. *)

InFlight(v) == job[v].pc \in {"lock", "commit"}

LEMMA Writers ==
  ASSUME [Next]_vars
  PROVE  /\ \/ play' = play
            \/ \E t \in Token, s \in PlayState : Move(t, s)
            \/ \E w \in Worker : AckCall(w)
         /\ \/ now' = now
            \/ Tick
         /\ \/ UNCHANGED <<entitlement, premium>>
            \/ \E w \in Worker : Commit(w)
<1>1. ASSUME NEW w \in Worker, Call(w)
      PROVE  UNCHANGED <<now, play, entitlement, premium>>
  BY <1>1 DEF Call, Verify, Sync, SyncGone, Migrate, Revoke, Fetch, ForceClose
<1>2. ASSUME NEW w \in Worker, Step(w) \/ Fail(w)
      PROVE  /\ play' = play \/ AckCall(w)
             /\ now' = now
             /\ UNCHANGED <<entitlement, premium>> \/ Commit(w)
  BY <1>2 DEF Step, AcquireLock, Refuse, Decide, Commit, AckSkip, AckCall, AckRejected,
              AckCommit, Fail
<1>3. CASE Environment
  BY <1>3 DEF Environment, Tick, Move
<1>4. CASE UNCHANGED vars
  BY <1>4 DEF vars
<1> QED
  BY <1>1, <1>2, <1>3, <1>4 DEF Next

(* A call between its start and its commit stands still, decides, or is new. *)
LEMMA Flights ==
  ASSUME TypeOK, [Next]_vars, NEW v \in Worker, InFlight(v)'
  PROVE  \/ job'[v] = job[v]
         \/ Decide(v)
         \/ \E t \in Token, asserted \in User \union {NoUser} : Fetch(v, t, asserted)
         \/ \E t \in Token : SyncGone(v, t) \/ Revoke(v, t)
<1>1. job \in [Worker -> Job]
  BY DEF TypeOK
<1>2. ASSUME NEW w \in Worker, Call(w)
      PROVE  \/ job'[v] = job[v]
             \/ \E t \in Token, asserted \in User \union {NoUser} : Fetch(v, t, asserted)
             \/ \E t \in Token : SyncGone(v, t) \/ Revoke(v, t)
  <2>1. CASE w = v
    <3>1. ASSUME NEW t \in Token, Sync(v, t)
          PROVE  \E asserted \in User \union {NoUser} : Fetch(v, t, asserted)
      BY <3>1 DEF Sync, TypeOK, PurchaseRow
    <3> QED
      BY <1>2, <2>1, <3>1 DEF Call, Verify, Migrate
  <2>2. CASE w # v
    BY <1>1, <1>2, <2>2 DEF Call, Verify, Sync, SyncGone, Migrate, Revoke, Fetch, ForceClose
  <2> QED
    BY <2>1, <2>2
<1>3. ASSUME NEW w \in Worker, Step(w) \/ Fail(w), w # v
      PROVE  job'[v] = job[v]
  BY <1>1, <1>3 DEF Step, AcquireLock, Refuse, Decide, Commit, AckSkip, AckCall, AckRejected,
                    AckCommit, Fail
<1>4. CASE Step(v) \/ Fail(v)
  <2>1. AfterCommit(job[v]).pc \in {"idle", "ack"}
    BY DEF AfterCommit, IdleJob
  <2>2. AcquireLock(v) => job' = job
    BY DEF AcquireLock
  <2>3. Refuse(v) \/ AckSkip(v) \/ AckRejected(v) \/ AckCommit(v) \/ Fail(v) => job'[v] = IdleJob
    BY <1>1 DEF Refuse, AckSkip, AckRejected, AckCommit, Fail
  <2>4. Commit(v) => job'[v] = AfterCommit(job[v])
    BY <1>1 DEF Commit
  <2>5. AckCall(v) => job'[v].pc = "ackcommit"
    BY <1>1 DEF AckCall, Job
  <2>6. IdleJob.pc = "idle"
    BY DEF IdleJob
  <2> QED
    BY <1>4, <2>1, <2>2, <2>3, <2>4, <2>5, <2>6 DEF Step, InFlight
<1>5. CASE Environment \/ UNCHANGED vars
  BY <1>5 DEF Environment, vars
<1> QED
  BY <1>2, <1>3, <1>4, <1>5 DEF Next

(* What a new call carries. *)
LEMMA Fetched ==
  ASSUME TypeOK, NEW v \in Worker, NEW t \in Token, NEW asserted, Fetch(v, t, asserted)
  PROVE  /\ job'[v].pc = "lock" /\ job'[v].op = "reconcile" /\ job'[v].token = t
         /\ job'[v].state = ReportedState(t) /\ job'[v].expiresAt = play[t].expiresAt
         /\ job'[v].acked = play[t].acked
         /\ job'[v].entitling <=> (ReportedState(t) \in EntitlingStates /\ play[t].expiresAt > now)
         /\ Recognized(t)
         /\ UNCHANGED <<now, play, entitlement, premium, purchase>>
         /\ \A w \in Worker \ {v} : job'[w] = job[w]
  BY DEF Fetch, TypeOK, Job, IdleJob

(* A call that forces a purchase closed reads no state from Google. *)
LEMMA Forced ==
  ASSUME TypeOK, NEW v \in Worker, NEW t \in Token, SyncGone(v, t) \/ Revoke(v, t)
  PROVE  /\ job'[v].pc = "lock" /\ job'[v].op \in {"expire", "revoke"} /\ job'[v].token = t
         /\ ~job'[v].entitling
         /\ Unrecognized(t) /\ Recorded(t)
         /\ UNCHANGED <<now, play, entitlement, premium, purchase>>
         /\ \A w \in Worker \ {v} : job'[w] = job[w]
<1>1. PICK op \in {"expire", "revoke"} : ForceClose(v, t, op)
  BY DEF SyncGone, Revoke
<1>2. /\ job' = [job EXCEPT ![v] = [IdleJob EXCEPT !.pc = "lock", !.op = op, !.token = t]]
      /\ Recorded(t)
      /\ UNCHANGED <<now, play, entitlement, premium, purchase>>
  BY <1>1 DEF ForceClose
<1>3. Unrecognized(t)
  BY DEF SyncGone, Revoke, Unrecognized
<1>4. /\ job'[v] = [IdleJob EXCEPT !.pc = "lock", !.op = op, !.token = t]
      /\ \A w \in Worker \ {v} : job'[w] = job[w]
  BY <1>2 DEF TypeOK
<1>5. /\ job'[v].pc = "lock" /\ job'[v].op = op /\ job'[v].token = t
      /\ ~job'[v].entitling
  BY <1>4 DEF IdleJob
<1> QED
  BY <1>2, <1>3, <1>4, <1>5

LEMMA Decided ==
  ASSUME TypeOK, NEW v \in Worker, Decide(v)
  PROVE  /\ job[v].pc = "lock" /\ job'[v].pc = "commit"
         /\ job'[v].op = job[v].op /\ job'[v].token = job[v].token
         /\ job'[v].state = job[v].state /\ job'[v].expiresAt = job[v].expiresAt
         /\ job'[v].acked = job[v].acked /\ job'[v].entitling = job[v].entitling
         /\ job'[v].status = IF job[v].entitling THEN DeriveStatus(job[v].expiresAt) ELSE "NONE"
         /\ LockSet(job'[v]) = LockSet(job[v])
         /\ UNCHANGED <<now, play, entitlement, premium, purchase>>
         /\ \A w \in Worker \ {v} : job'[w] = job[w]
<1>1. job \in [Worker -> Job]
  BY DEF TypeOK
<1> DEFINE j == Decision(job[v])
           k == [j EXCEPT !.pc = "commit",
                          !.refresh = j.entitling \/ Closes(entitlement, j.owner, j.token),
                          !.flag = HasActive(NewEntitlement(j), j.owner)]
<1>2. job' = [job EXCEPT ![v] = k] /\ job[v].pc = "lock"
      /\ UNCHANGED <<now, play, entitlement, premium, purchase>>
  BY Zenon DEF Decide, LastLock
<1>3. /\ DOMAIN j = DOMAIN job[v]
      /\ j.op = job[v].op /\ j.token = job[v].token
      /\ j.state = job[v].state /\ j.expiresAt = job[v].expiresAt
      /\ j.acked = job[v].acked /\ j.entitling = job[v].entitling
      /\ j.status = IF job[v].entitling THEN DeriveStatus(job[v].expiresAt) ELSE "NONE"
  BY <1>1 DEF Decision, Job
<1>4. {"pc", "op", "token", "state", "expiresAt", "acked", "entitling", "status"} \subseteq DOMAIN job[v]
  BY <1>1 DEF Job
<1> HIDE DEF j
<1>5. /\ k.pc = "commit" /\ k.op = j.op /\ k.token = j.token /\ k.state = j.state
      /\ k.expiresAt = j.expiresAt /\ k.acked = j.acked /\ k.entitling = j.entitling
      /\ k.status = j.status
  BY <1>3, <1>4
<1> HIDE DEF k
<1>6. job'[v] = k /\ \A w \in Worker \ {v} : job'[w] = job[w]
  BY <1>1, <1>2
<1> QED
  BY <1>2, <1>3, <1>5, <1>6 DEF LockSet

-----------------------------------------------------------------------------
(* The repair behind GrantsConverge: what a call with a fresh answer leaves. *)

(* The call still knows what Google says at this moment. *)
Current(j) ==
  IF j.op = "reconcile"
    THEN j.state = ReportedState(j.token) /\ j.expiresAt = play[j.token].expiresAt
    ELSE ~PlayEntitles(j.token)

(* The verdicts of a call on its snapshot, taken at two different times, may only
   have aged: what is still in its period was judged entitling and ACTIVE. *)
Judged(v) ==
  LET j == job[v]
  IN  (InFlight(v) /\ j.op = "reconcile" /\ j.expiresAt > now) =>
        /\ j.state \in EntitlingStates => j.entitling
        /\ j.pc = "commit" /\ j.entitling => j.status = "ACTIVE"

LEMMA ClockForward ==
  ASSUME TypeOK, [Next]_vars
  PROVE  now' \in Nat /\ now \in Nat /\ now <= now'
  BY Writers DEF TypeOK, PlayTypeOK, Tick

LEMMA JudgedKept ==
  ASSUME TypeOK, TypeOK', [Next]_vars, NEW v \in Worker, Judged(v)
  PROVE  Judged(v)'
<1> SUFFICES ASSUME InFlight(v)', job'[v].op = "reconcile", job'[v].expiresAt > now'
             PROVE  /\ job'[v].state \in EntitlingStates => job'[v].entitling
                    /\ job'[v].pc = "commit" /\ job'[v].entitling => job'[v].status = "ACTIVE"
  BY DEF Judged
<1>1. CASE job'[v] = job[v]
  <2>1. job[v].expiresAt \in Nat
    BY DEF TypeOK, Job
  <2>2. job[v].expiresAt > now
    BY <1>1, <2>1, ClockForward
  <2> QED
    BY <1>1, <2>2 DEF Judged, InFlight
<1>2. CASE Decide(v)
  <2>1. job[v].expiresAt > now /\ InFlight(v)
    BY <1>2, Decided DEF InFlight
  <2> QED
    BY <1>2, <2>1, Decided DEF Judged, DeriveStatus
<1>3. ASSUME NEW t \in Token, NEW asserted \in User \union {NoUser}, Fetch(v, t, asserted)
      PROVE  /\ job'[v].state \in EntitlingStates => job'[v].entitling
             /\ job'[v].pc # "commit"
  BY <1>3, Fetched
<1>4. ASSUME NEW t \in Token, SyncGone(v, t) \/ Revoke(v, t) PROVE FALSE
  BY <1>4, Forced
<1> QED
  BY <1>1, <1>2, <1>3, <1>4, Flights

(* Every call is judged on its own answer, at every time. *)
LEMMA EveryCallJudged == Spec => [](\A v \in Worker : Judged(v))
<1>1. Init => \A v \in Worker : Judged(v)
  BY DEF Init, IdleJob, Judged, InFlight
<1>2. TypeOK /\ TypeOK' /\ (\A v \in Worker : Judged(v)) /\ [Next]_vars
        => (\A v \in Worker : Judged(v))'
  BY JudgedKept
<1> QED
  BY <1>1, <1>2, TypeCorrect, PTL DEF Spec

(* A grant is written from the call's own answer. *)
LEMMA RepairedBy ==
  ASSUME IInv, NEW w \in Worker, Judged(w), Commit(w), Current(job[w]),
         NEW t \in Token, t = job[w].token
  PROVE  InStep(t)'
<1> DEFINE j == job[w]
<1>1. /\ j.pc = "commit" /\ TypeOK /\ CallInv(w) /\ j.token \in Token /\ j \in Job
      /\ play' = play /\ now' = now
  BY DEF Commit, IInv, CallInv, TypeOK
<1>2. /\ j.owner \in User
      /\ purchase[j.token].owner \in {NoUser, j.owner}
      /\ j.op # "reconcile" => Recorded(j.token)
      /\ j.entitling => j.op = "reconcile" /\ j.state \in EntitlingStates
  BY <1>1 DEF CallInv, SnapshotIsPast, DecisionFits
<1>3. purchase'[j.token].owner = j.owner
  BY <1>1, <1>2, CommitWrites DEF Recorded
<1> DEFINE row == entitlement'[j.owner][t]
<1>4. (row.status = "ACTIVE" /\ row.expiresAt > now) <=> PlayEntitles(t)
  <2>1. CASE j.entitling
    <3>1. row = [status |-> j.status, expiresAt |-> j.expiresAt]
      BY <1>1, <1>2, <2>1, CommitGrants
    <3>2. play[t].state = j.state /\ play[t].expiresAt = j.expiresAt
      BY <1>2, <2>1 DEF Current, ReportedState, EntitlingStates
    <3>3. j.expiresAt > now => j.status = "ACTIVE"
      BY <1>1, <1>2, <2>1 DEF Judged, InFlight
    <3>4. row.status = j.status /\ row.expiresAt = j.expiresAt
      BY <3>1
    <3> HIDE DEF row
    <3> QED
      BY <1>1, <1>2, <2>1, <3>2, <3>3, <3>4 DEF PlayEntitles
  <2>2. CASE ~j.entitling
    <3>1. row.status # "ACTIVE"
      BY <1>1, <1>2, <2>2, OwnClosed
    <3>2. ~PlayEntitles(t)
      <4>1. CASE j.op = "reconcile"
        <5>1. play[t].state \in EntitlingStates => j.state = play[t].state
          BY <4>1 DEF Current, ReportedState, EntitlingStates
        <5> QED
          BY <1>1, <2>2, <4>1, <5>1 DEF Current, PlayEntitles, Judged, InFlight
      <4>2. CASE j.op # "reconcile"
        BY <4>2 DEF Current
      <4> QED
        BY <4>1, <4>2
    <3> HIDE DEF row
    <3> QED
      BY <3>1, <3>2
  <2> QED
    BY <2>1, <2>2
<1>5. purchase'[t].owner = j.owner
  BY <1>3
<1>6. (row.status = "ACTIVE" /\ row.expiresAt > now')
        <=> (play'[t].state \in EntitlingStates /\ play'[t].expiresAt > now')
  BY <1>1, <1>4 DEF PlayEntitles
<1> HIDE DEF j
<1> QED
  BY <1>5, <1>6 DEF InStep, Live, PlayEntitles

(* One call with an answer that is still Google's repairs a purchase for good or
   ill: after its commit the grant is live exactly when Google entitles, whatever
   stale calls, lost messages and failures did to the row before. *)
THEOREM FreshCallsRepair ==
  Spec => [][\A w \in Worker, t \in Token :
               (Commit(w) /\ Current(job[w]) /\ t = job[w].token) => InStep(t)']_vars
<1>1. IInv /\ (\A v \in Worker : Judged(v)) /\ [Next]_vars
        => [\A w \in Worker, t \in Token :
              (Commit(w) /\ Current(job[w]) /\ t = job[w].token) => InStep(t)']_vars
  BY RepairedBy
<1> QED
  BY <1>1, InvariantHolds, EveryCallJudged, PTL DEF Spec

-----------------------------------------------------------------------------
(* The premium flag, while no two transactions of one account overlap. *)

(* What the missing lock on users would give: one open transaction an account. *)
UsersApart ==
  \A v, w \in Worker :
    (job[v].pc = "commit" /\ job[w].pc = "commit" /\ job[v].owner = job[w].owner) => v = w

(* The table a call leaves behind, as a function of the table it finds. *)
Written(ent, j) ==
  LET granted == Granted(ent, j.owner, j.token, j.status, j.expiresAt)
  IN  IF j.op = "reconcile" /\ j.entitling
        THEN IF j.migrate THEN Closed(granted, j.owner, LinkedToken(j.token), "EXPIRED")
                          ELSE granted
        ELSE Closed(ent, j.owner, j.token, IF j.op = "revoke" THEN "REVOKED" ELSE "EXPIRED")

LEMMA GrantedOn ==
  ASSUME NEW ent1 \in [User -> [Token -> EntitlementRow]],
         NEW ent2 \in [User -> [Token -> EntitlementRow]],
         NEW u \in User, ent1[u] = ent2[u], NEW t, NEW status, NEW n
  PROVE  Granted(ent1, u, t, status, n)[u] = Granted(ent2, u, t, status, n)[u]
  BY DEF Granted

LEMMA ClosedOn ==
  ASSUME NEW ent1 \in [User -> [Token -> EntitlementRow]],
         NEW ent2 \in [User -> [Token -> EntitlementRow]],
         NEW u \in User, ent1[u] = ent2[u], NEW t, NEW status
  PROVE  Closed(ent1, u, t, status)[u] = Closed(ent2, u, t, status)[u]
  BY DEF Closed, Closes

(* What it writes for its owner depends on the owner's rows only ... *)
LEMMA WrittenOwn ==
  ASSUME NEW ent1 \in [User -> [Token -> EntitlementRow]],
         NEW ent2 \in [User -> [Token -> EntitlementRow]],
         NEW j \in Job, j.owner \in User, ent1[j.owner] = ent2[j.owner]
  PROVE  Written(ent1, j)[j.owner] = Written(ent2, j)[j.owner]
<1> DEFINE g1 == Granted(ent1, j.owner, j.token, j.status, j.expiresAt)
           g2 == Granted(ent2, j.owner, j.token, j.status, j.expiresAt)
<1>1. /\ g1 \in [User -> [Token -> EntitlementRow]]
      /\ g2 \in [User -> [Token -> EntitlementRow]]
  BY GrantedType DEF Job
<1>2. g1[j.owner] = g2[j.owner]
  BY GrantedOn
<1>3. /\ Written(ent1, j) =
           IF j.op = "reconcile" /\ j.entitling
             THEN IF j.migrate THEN Closed(g1, j.owner, LinkedToken(j.token), "EXPIRED") ELSE g1
             ELSE Closed(ent1, j.owner, j.token, IF j.op = "revoke" THEN "REVOKED" ELSE "EXPIRED")
      /\ Written(ent2, j) =
           IF j.op = "reconcile" /\ j.entitling
             THEN IF j.migrate THEN Closed(g2, j.owner, LinkedToken(j.token), "EXPIRED") ELSE g2
             ELSE Closed(ent2, j.owner, j.token, IF j.op = "revoke" THEN "REVOKED" ELSE "EXPIRED")
  BY DEF Written
<1> HIDE DEF g1, g2
<1>4. Closed(g1, j.owner, LinkedToken(j.token), "EXPIRED")[j.owner]
        = Closed(g2, j.owner, LinkedToken(j.token), "EXPIRED")[j.owner]
  BY <1>1, <1>2 DEF Closed, Closes
<1>5. \A status : Closed(ent1, j.owner, j.token, status)[j.owner]
                    = Closed(ent2, j.owner, j.token, status)[j.owner]
  <2> TAKE status
  <2> DEFINE u == j.owner
             x == j.token
  <2>1. u \in User /\ ent1[u] = ent2[u]
    OBVIOUS
  <2> HIDE DEF u, x
  <2>2. Closed(ent1, u, x, status)[u] = Closed(ent2, u, x, status)[u]
    BY <2>1, ClosedOn
  <2> QED
    BY <2>2 DEF u, x
<1>6. CASE j.op = "reconcile" /\ j.entitling
  BY <1>2, <1>3, <1>4, <1>6
<1>7. CASE ~(j.op = "reconcile" /\ j.entitling)
  BY <1>3, <1>5, <1>7
<1> QED
  BY <1>6, <1>7

(* ... and it leaves the others' alone. *)
LEMMA WrittenOthers ==
  ASSUME NEW ent \in [User -> [Token -> EntitlementRow]],
         NEW j \in Job, NEW u \in User, u # j.owner
  PROVE  Written(ent, j)[u] = ent[u]
  BY DEF Written, Granted, Closed

(* The flag is never behind the table, and a call about to commit carries, or
   need not change, the flag its table will call for. *)
FlagInv ==
  /\ \A u \in User : IsPremium(u) => premium[u]
  /\ \A w \in Worker :
       (job[w].pc = "commit" /\ HasActive(NewEntitlement(job[w]), job[w].owner))
         => IF job[w].refresh THEN job[w].flag ELSE premium[job[w].owner]

(* What is live later was live before, if its rows stand. *)
LEMMA StillLive ==
  ASSUME TypeOK, [Next]_vars, NEW row \in EntitlementRow,
         row.status = "ACTIVE" /\ row.expiresAt > now'
  PROVE  Live(row)
  BY ClockForward DEF Live, EntitlementRow

LEMMA WrittenType ==
  ASSUME NEW ent \in [User -> [Token -> EntitlementRow]], NEW j \in Job
  PROVE  Written(ent, j) \in [User -> [Token -> EntitlementRow]]
<1> DEFINE g == Granted(ent, j.owner, j.token, j.status, j.expiresAt)
<1>1. g \in [User -> [Token -> EntitlementRow]]
  BY GrantedType DEF Job
<1>2. Written(ent, j) =
        IF j.op = "reconcile" /\ j.entitling
          THEN IF j.migrate THEN Closed(g, j.owner, LinkedToken(j.token), "EXPIRED") ELSE g
          ELSE Closed(ent, j.owner, j.token, IF j.op = "revoke" THEN "REVOKED" ELSE "EXPIRED")
  BY DEF Written
<1> HIDE DEF g
<1> QED
  BY <1>1, <1>2, ClosedType

LEMMA FlagsOfAccounts ==
  ASSUME IInv, IInv', FlagInv, [Next]_vars, NEW u \in User, IsPremium(u)'
  PROVE  premium'[u]
<1>1. PICK t \in Token : entitlement'[u][t].status = "ACTIVE" /\ entitlement'[u][t].expiresAt > now'
  BY DEF IsPremium, HasActive, Live
<1>2. entitlement'[u][t] \in EntitlementRow
  BY DEF IInv, TypeOK, EntitlementTypeOK
<1>3. Live(entitlement'[u][t])
  BY <1>1, <1>2, StillLive DEF IInv
<1>4. CASE UNCHANGED <<entitlement, premium>>
  BY <1>3, <1>4 DEF FlagInv, IsPremium, HasActive
<1>5. ASSUME NEW w \in Worker, Commit(w) PROVE premium'[u]
  <2> DEFINE j == job[w]
  <2>1. /\ j \in Job /\ j.pc = "commit" /\ j.owner \in User
        /\ entitlement' = NewEntitlement(j)
        /\ premium' = IF j.refresh THEN [premium EXCEPT ![j.owner] = j.flag] ELSE premium
    BY <1>5 DEF IInv, TypeOK, CallInv, DecisionFits, Commit
  <2>2. CASE u = j.owner
    <3>1. HasActive(NewEntitlement(j), j.owner)
      BY <1>3, <2>1, <2>2 DEF HasActive
    <3> QED
      BY <2>1, <2>2, <3>1 DEF FlagInv, IInv, TypeOK, EntitlementTypeOK
  <2>3. CASE u # j.owner
    <3>1. entitlement'[u] = entitlement[u]
      BY <2>1, <2>3, WrittenOthers
      DEF NewEntitlement, Written, IInv, TypeOK, EntitlementTypeOK
    <3>2. IsPremium(u)
      BY <1>3, <3>1 DEF IsPremium, HasActive
    <3> QED
      BY <2>1, <2>3, <3>2 DEF FlagInv
  <2> QED
    BY <2>2, <2>3
<1> QED
  BY <1>4, <1>5, Writers

LEMMA FlagsOfCalls ==
  ASSUME IInv, IInv', FlagInv, UsersApart, [Next]_vars, NEW v \in Worker,
         job'[v].pc = "commit", HasActive(NewEntitlement(job[v]), job[v].owner)'
  PROVE  IF job'[v].refresh THEN job'[v].flag ELSE premium'[job'[v].owner]
<1> DEFINE k == job'[v]
<1>1. /\ k \in Job /\ k.owner \in User
      /\ entitlement \in [User -> [Token -> EntitlementRow]]
      /\ entitlement' \in [User -> [Token -> EntitlementRow]]
  BY DEF IInv, TypeOK, EntitlementTypeOK, CallInv, DecisionFits
<1>2. PICK t \in Token : /\ Written(entitlement', k)[k.owner][t].status = "ACTIVE"
                         /\ Written(entitlement', k)[k.owner][t].expiresAt > now'
  BY DEF HasActive, Live, NewEntitlement, Written
<1>3. Written(entitlement', k)[k.owner][t] \in EntitlementRow
  BY <1>1, WrittenType
<1>4. Live(Written(entitlement', k)[k.owner][t])
  BY <1>2, <1>3, StillLive DEF IInv
<1>5. entitlement'[k.owner] = entitlement[k.owner] => HasActive(Written(entitlement, k), k.owner)
  BY <1>1, <1>4, WrittenOwn DEF HasActive
<1>6. ASSUME NEW j \in Job
      PROVE  NewEntitlement(j) = Written(entitlement, j)
  BY DEF NewEntitlement, Written
<1>7. CASE job'[v] = job[v]
  <2>1. CASE UNCHANGED <<entitlement, premium>>
    BY <1>1, <1>5, <1>6, <1>7, <2>1 DEF FlagInv
  <2>2. ASSUME NEW w \in Worker, Commit(w)
        PROVE  /\ entitlement'[k.owner] = entitlement[k.owner]
               /\ premium'[k.owner] = premium[k.owner]
    <3>1. /\ w # v /\ job[w].pc = "commit" /\ job[w] \in Job
          /\ entitlement' = NewEntitlement(job[w])
          /\ premium' = IF job[w].refresh THEN [premium EXCEPT ![job[w].owner] = job[w].flag]
                                          ELSE premium
      <4>1. job'[w] = AfterCommit(job[w]) /\ AfterCommit(job[w]).pc # "commit"
        BY <2>2 DEF Commit, IInv, TypeOK, AfterCommit, IdleJob
      <4> QED
        BY <2>2, <4>1 DEF Commit, IInv, TypeOK
    <3>2. job[w].owner # k.owner
      BY <1>7, <3>1 DEF UsersApart
    <3> QED
      BY <1>1, <1>6, <3>1, <3>2, WrittenOthers
  <2> QED
    BY <1>1, <1>5, <1>6, <1>7, <2>1, <2>2, Writers DEF FlagInv
<1>8. CASE Decide(v)
  <2> DEFINE j == Decision(job[v])
             r == j.entitling \/ Closes(entitlement, j.owner, j.token)
             f == HasActive(NewEntitlement(j), j.owner)
  <2>1. /\ job' = [job EXCEPT ![v] = [j EXCEPT !.pc = "commit", !.refresh = r, !.flag = f]]
        /\ UNCHANGED <<entitlement, premium>>
    BY <1>8, Zenon DEF Decide
  <2>2. j \in Job
    BY DecisionType DEF IInv, TypeOK
  <2> HIDE DEF j, r, f
  <2>3. /\ k = [j EXCEPT !.pc = "commit", !.refresh = r, !.flag = f]
        /\ k.refresh = r /\ k.flag = f
        /\ k.op = j.op /\ k.token = j.token /\ k.owner = j.owner /\ k.migrate = j.migrate
        /\ k.entitling = j.entitling /\ k.status = j.status /\ k.expiresAt = j.expiresAt
    BY <2>1, <2>2 DEF IInv, TypeOK, Job
  <2>4. Written(entitlement, k) = Written(entitlement, j)
    BY <2>3 DEF Written
  <2>5. HasActive(NewEntitlement(j), j.owner)
    BY <1>5, <1>6, <2>1, <2>2, <2>3, <2>4
  <2>6. CASE r
    BY <2>3, <2>5, <2>6 DEF f
  <2>7. CASE ~r
    <3>1. NewEntitlement(j) = entitlement
      BY <2>7 DEF r, NewEntitlement, Closed
    <3>2. premium[j.owner]
      BY <1>1, <2>3, <2>5, <3>1 DEF FlagInv, IsPremium
    <3> QED
      BY <2>1, <2>3, <2>7, <3>2
  <2> QED
    BY <2>6, <2>7
<1>9. ASSUME NEW x \in Token, NEW asserted, Fetch(v, x, asserted) PROVE FALSE
  BY <1>9, Fetched DEF IInv
<1>10. ASSUME NEW x \in Token, SyncGone(v, x) \/ Revoke(v, x) PROVE FALSE
  BY <1>10, Forced DEF IInv
<1> QED
  BY <1>7, <1>8, <1>9, <1>10, Flights DEF InFlight, IInv

(* What refreshPremiumCache promises does hold as long as no two transactions of one
   account are open at once: an account whose entitlements make it premium is
   flagged so.  The lock it lacks is one on the account. *)
THEOREM FlagCoherentAlone == Spec /\ []UsersApart => []PremiumFlagCoherent
<1>1. Init => FlagInv
  BY DEF Init, EntitlementInit, NoRow, IdleJob, FlagInv, IsPremium, HasActive, Live
<1>2. IInv /\ IInv' /\ FlagInv /\ UsersApart /\ [Next]_vars => FlagInv'
  <2> SUFFICES ASSUME IInv, IInv', FlagInv, UsersApart, [Next]_vars PROVE FlagInv'
    OBVIOUS
  <2>1. \A u \in User : IsPremium(u)' => premium'[u]
    BY FlagsOfAccounts
  <2>2. \A w \in Worker :
          (job'[w].pc = "commit" /\ HasActive(NewEntitlement(job[w]), job[w].owner)')
            => IF job'[w].refresh THEN job'[w].flag ELSE premium'[job'[w].owner]
    BY FlagsOfCalls
  <2> QED
    BY <2>1, <2>2, Zenon DEF FlagInv
<1>3. FlagInv => PremiumFlagCoherent
  BY DEF FlagInv, PremiumFlagCoherent
<1> QED
  BY <1>1, <1>2, <1>3, InvariantHolds, PTL DEF Spec

-----------------------------------------------------------------------------
(* Acknowledging once, while calls on one token do not overlap. *)

(* What a lock held from the read of Google to the acknowledgement would give. *)
TokensApart ==
  \A v, w \in Worker :
    (job[v].pc # "idle" /\ job[w].pc # "idle" /\ job[v].token = job[w].token) => v = w

(* Google's acknowledgement changes by an acknowledging call only. *)
LEMMA AckChanges ==
  ASSUME TypeOK, [Next]_vars, NEW t \in Token, play'[t].acked, ~play[t].acked
  PROVE  \E w \in Worker : AckCall(w) /\ t = job[w].token
<1>1. play \in [Token -> PlayRecord]
  BY DEF TypeOK, PlayTypeOK
<1>2. ASSUME NEW x \in Token, NEW s \in PlayState, Move(x, s) PROVE FALSE
  <2>1. CASE t = x
    BY <1>2, <2>1 DEF Move
  <2>2. CASE t # x
    BY <1>1, <1>2, <2>2 DEF Move, PlayRecord
  <2> QED
    BY <2>1, <2>2
<1>3. PICK w \in Worker : AckCall(w)
  BY <1>2, Writers
<1>4. t = job[w].token
  BY <1>1, <1>3 DEF AckCall, Acknowledged
<1> QED
  BY <1>3, <1>4

(* Only a commit that granted what Google still waits for goes on to acknowledge. *)
LEMMA AckStarts ==
  ASSUME TypeOK, [Next]_vars, NEW v \in Worker, job'[v].pc = "ack"
  PROVE  \/ job'[v] = job[v]
         \/ /\ Commit(v) /\ job[v].pc = "commit"
            /\ job[v].entitling /\ ~job[v].acked
            /\ job'[v].token = job[v].token
<1>1. job \in [Worker -> Job]
  BY DEF TypeOK
<1>2. ASSUME NEW w \in Worker, Call(w) \/ Step(w) \/ Fail(w), w # v
      PROVE  job'[v] = job[v]
  BY <1>1, <1>2 DEF Call, Verify, Sync, SyncGone, Migrate, Revoke, Fetch, ForceClose, Step,
                    AcquireLock, Refuse, Decide, Commit, AckSkip, AckCall, AckRejected,
                    AckCommit, Fail
<1>3. ~Call(v)
  <2>1. \A t \in Token : \A asserted : ~Fetch(v, t, asserted)
    BY Fetched
  <2>2. \A t \in Token : ~SyncGone(v, t) /\ ~Revoke(v, t)
    BY Forced
  <2> QED
    BY <2>1, <2>2 DEF Call, Verify, Sync, Migrate
<1>4. CASE Step(v) \/ Fail(v)
  <2>1. IdleJob.pc # "ack"
    BY DEF IdleJob
  <2>2. AcquireLock(v) => job' = job
    BY DEF AcquireLock
  <2>3. ~(Refuse(v) \/ AckSkip(v) \/ AckRejected(v) \/ AckCommit(v) \/ Fail(v))
    BY <1>1, <2>1 DEF Refuse, AckSkip, AckRejected, AckCommit, Fail
  <2>4. ~Decide(v)
    BY Decided
  <2>5. ~AckCall(v)
    BY <1>1 DEF AckCall, Job
  <2>6. Commit(v) => job'[v] = AfterCommit(job[v]) /\ job[v].pc = "commit"
    BY <1>1 DEF Commit
  <2>7. AfterCommit(job[v]).pc = "ack" =>
          /\ job[v].entitling /\ ~job[v].acked
          /\ AfterCommit(job[v]).token = job[v].token
    BY DEF AfterCommit, IdleJob
  <2> QED
    BY <1>4, <2>2, <2>3, <2>4, <2>5, <2>6, <2>7 DEF Step
<1>5. CASE Environment \/ UNCHANGED vars
  BY <1>5 DEF Environment, vars
<1> QED
  BY <1>2, <1>3, <1>4, <1>5 DEF Next

(* What a call knows of the acknowledgement is still so. *)
Unheard(v) ==
  LET j == job[v]
  IN  ((InFlight(v) /\ j.op = "reconcile" /\ ~j.acked) \/ j.pc = "ack")
        => ~play[j.token].acked

LEMMA UnheardKept ==
  ASSUME IInv, IInv', [Next]_vars, TokensApart, NEW v \in Worker, Unheard(v)
  PROVE  Unheard(v)'
<1> DEFINE t == job'[v].token
<1> SUFFICES ASSUME \/ InFlight(v)' /\ job'[v].op = "reconcile" /\ ~job'[v].acked
                    \/ job'[v].pc = "ack",
                    play'[t].acked
             PROVE  FALSE
  BY DEF Unheard
<1>1. TypeOK /\ t \in Token
  BY DEF IInv, CallInv, InFlight
<1>2. ASSUME NEW x \in Token, NEW asserted, Fetch(v, x, asserted) PROVE FALSE
  BY <1>2, <1>1, Fetched
<1>3. ASSUME NEW x \in Token, SyncGone(v, x) \/ Revoke(v, x) PROVE FALSE
  BY <1>3, <1>1, Forced
<1>4. CASE job'[v] = job[v]
  <2>1. ~play[t].acked
    BY <1>4 DEF Unheard, InFlight
  <2>2. PICK w \in Worker : AckCall(w) /\ t = job[w].token
    BY <1>1, <2>1, AckChanges
  <2>3. job[w].pc = "ack" /\ job'[w].pc = "ackcommit"
    BY <1>1, <2>2 DEF AckCall, TypeOK, Job
  <2>4. job[v].pc # "idle" /\ job[w].token = job[v].token
    BY <1>4, <2>2 DEF InFlight
  <2>5. v = w
    BY <2>3, <2>4 DEF TokensApart
  <2> QED
    BY <1>4, <2>3, <2>5
<1>5. CASE Decide(v)
  BY <1>1, <1>5, Decided DEF Unheard, InFlight
<1>6. CASE /\ Commit(v) /\ job[v].pc = "commit"
           /\ job[v].entitling /\ ~job[v].acked
           /\ job'[v].token = job[v].token
  <2>1. job[v].op = "reconcile" /\ play' = play
    BY <1>6 DEF IInv, CallInv, SnapshotIsPast, Commit
  <2> QED
    BY <1>6, <2>1 DEF Unheard, InFlight
<1> QED
  BY <1>1, <1>2, <1>3, <1>4, <1>5, <1>6, Flights, AckStarts

(* acknowledgeIfNeeded does acknowledge exactly once as long as no two calls on one
   token overlap, failures or not: it is the read of Google before the lock, and not
   the lock, that lets a second acknowledgement through. *)
THEOREM AcknowledgedOnceAlone == Spec /\ []TokensApart => AcknowledgedOnce
<1> DEFINE Heard == \A v \in Worker : Unheard(v)
           Once == \A w \in Worker :
                     (job[w].pc = "ack" /\ job'[w].pc = "ackcommit") => ~play[job[w].token].acked
<1>1. Init => Heard
  BY DEF Init, IdleJob, Unheard, InFlight
<1>2. IInv /\ IInv' /\ Heard /\ TokensApart /\ [Next]_vars => Heard'
  BY UnheardKept
<1>3. Heard /\ [Next]_vars => [Once]_vars
  BY DEF Unheard
<1> QED
  BY <1>1, <1>2, <1>3, InvariantHolds, PTL DEF Spec, AcknowledgedOnce

-----------------------------------------------------------------------------
(* Purchases that end for good, while calls on one chain do not overlap. *)

FinalStates == {"EXPIRED", "REVOKED", "GONE"}

(* What the word "terminal" takes for granted of Google: a subscription that has
   ended stays so, and none is ever forgotten to have begun. *)
EndsForGood ==
  \A move \in PlayMoves :
    /\ move[2] # "NONE"
    /\ move[1] \in FinalStates => move[2] \in FinalStates

(* What a lock held from the read of Google to the commit would give. *)
ChainsApart ==
  \A v, w \in Worker :
    (InFlight(v) /\ InFlight(w) /\ LockSet(job[v]) \intersect LockSet(job[w]) # {}) => v = w

Ended(t) == play[t].state \in FinalStates
Terminal(t) == Recorded(t) /\ purchase[t].state \in {"EXPIRED", "REVOKED"}

(* Google ends what it replaces, and a row is terminal only if Google says so. *)
EndsAtGoogle ==
  \A t \in Token :
    /\ (LinkedToken(t) \in Token /\ play[t].state \in EntitlingStates) => Ended(LinkedToken(t))
    /\ Recorded(t) => play[t].state # "NONE"
    /\ Terminal(t) => Ended(t)

(* So does a call: what it is going to write terminal has ended, and what is
   recorded terminal it does not open again. *)
EndsInCall(v) ==
  LET j == job[v]
      t == job[v].token
  IN  InFlight(v) =>
        /\ play[t].state # "NONE"
        /\ j.op # "reconcile" \/ j.state \in {"EXPIRED", "REVOKED"} => Ended(t)
        /\ Terminal(t) /\ j.op = "reconcile" => j.state \in {"EXPIRED", "REVOKED"}
        /\ j.entitling /\ LinkedToken(t) \in Token => Ended(LinkedToken(t))

LEMMA EndedStays ==
  ASSUME EndsForGood, TypeOK, [Next]_vars, NEW t \in Token
  PROVE  /\ Ended(t) => Ended(t)'
         /\ play[t].state # "NONE" => play'[t].state # "NONE"
<1>1. play \in [Token -> PlayRecord]
  BY DEF TypeOK, PlayTypeOK
<1>2. ASSUME NEW x \in Token, NEW s \in PlayState, Move(x, s)
      PROVE  /\ play[t].state \in FinalStates => play'[t].state \in FinalStates
             /\ play[t].state # "NONE" => play'[t].state # "NONE"
  <2>1. <<play[x].state, s>> \in PlayMoves
    BY <1>2 DEF Move
  <2>2. s # "NONE" /\ (play[x].state \in FinalStates => s \in FinalStates)
    BY <2>1 DEF EndsForGood
  <2>3. play'[t].state \in {play[t].state, "EXPIRED"} \/ (t = x /\ play'[t].state = s)
    BY <1>1, <1>2 DEF Move, PlayRecord
  <2> QED
    BY <2>2, <2>3 DEF FinalStates
<1>3. ASSUME NEW w \in Worker, AckCall(w) PROVE play'[t].state = play[t].state
  BY <1>1, <1>3 DEF AckCall, Acknowledged, PlayRecord
<1> QED
  BY <1>2, <1>3, Writers DEF Ended

LEMMA ReplacedEnds ==
  ASSUME EndsForGood, TypeOK, EndsAtGoogle, [Next]_vars, NEW t \in Token,
         LinkedToken(t) \in Token, play'[t].state \in EntitlingStates
  PROVE  Ended(LinkedToken(t))'
<1>1. play \in [Token -> PlayRecord]
  BY DEF TypeOK, PlayTypeOK
<1>2. CASE play[t].state \in EntitlingStates
  BY <1>2, EndedStays DEF EndsAtGoogle
<1>3. ASSUME NEW x \in Token, NEW s \in PlayState, Move(x, s), play[t].state \notin EntitlingStates
      PROVE  play'[LinkedToken(t)].state \in FinalStates
  <2>1. t = x /\ s \in EntitlingStates
    BY <1>1, <1>3 DEF Move, PlayRecord, EntitlingStates
  <2>2. LinkedToken(t) # t
    BY PlayAssumption DEF LinkedToken
  <2>3. play'[LinkedToken(t)].state \in {"EXPIRED", "REVOKED", "GONE"}
    BY <1>1, <1>3, <2>1, <2>2 DEF Move, PlayRecord
  <2> QED
    BY <2>3 DEF FinalStates
<1>4. ASSUME NEW w \in Worker, AckCall(w) PROVE play'[t].state = play[t].state
  BY <1>1, <1>4 DEF AckCall, Acknowledged, PlayRecord
<1> QED
  BY <1>2, <1>3, <1>4, Writers DEF Ended

(* The states a commit writes that CommitWrites leaves open. *)
LEMMA CommitStates ==
  ASSUME NEW w \in Worker, TypeOK, Commit(w), NEW t \in Token
  PROVE  /\ t = job[w].token /\ job[w].op # "reconcile" =>
              purchase'[t].state \in {"EXPIRED", "REVOKED"}
         /\ t # job[w].token /\ purchase'[t] # purchase[t] =>
              /\ purchase'[t].state = "EXPIRED"
              /\ job[w].migrate /\ job[w].entitling /\ t = LinkedToken(job[w].token)
<1>1. /\ purchase' = NewPurchase(job[w]) /\ purchase[t] \in PurchaseRow
      /\ job[w].op \in {"reconcile", "revoke", "expire"}
  BY DEF Commit, TypeOK, Job
<1> QED
  BY <1>1 DEF NewPurchase, PurchaseRow

LEMMA AckCommitStates ==
  ASSUME NEW w \in Worker, TypeOK, AckCommit(w), NEW t \in Token
  PROVE  purchase'[t].state = purchase[t].state /\ purchase'[t].owner = purchase[t].owner
  BY DEF AckCommit, TypeOK, PurchaseRow

(* The row of a call's token stands while calls on a chain do not overlap. *)
LEMMA RowStands ==
  ASSUME IInv, ChainsApart, [Next]_vars, NEW v \in Worker, InFlight(v), InFlight(v)'
  PROVE  /\ purchase'[job[v].token].state = purchase[job[v].token].state
         /\ purchase'[job[v].token].owner = purchase[job[v].token].owner
<1> DEFINE t == job[v].token
<1>1. TypeOK /\ t \in Token /\ t \in LockSet(job[v])
  BY DEF IInv, CallInv, InFlight, LockSet
<1>2. ASSUME NEW w \in Worker, Commit(w) PROVE purchase'[t] = purchase[t]
  <2>1. w # v
    <3>1. job'[w] = AfterCommit(job[w])
      BY <1>1, <1>2 DEF Commit, TypeOK
    <3>2. AfterCommit(job[w]).pc \in {"idle", "ack"}
      BY DEF AfterCommit, IdleJob
    <3> QED
      BY <3>1, <3>2 DEF InFlight
  <2>2. InFlight(w) /\ CallInv(w)
    BY <1>2 DEF Commit, InFlight, IInv
  <2>3. t \notin LockSet(job[w])
    BY <1>1, <2>1, <2>2 DEF ChainsApart
  <2>4. job[w].migrate => job[w].op = "reconcile"
    BY <1>2 DEF Commit, IInv, CallInv, DecisionFits, Migrates
  <2> QED
    BY <1>1, <1>2, <2>3, <2>4, CommitStates DEF LockSet
<1> QED
  BY <1>1, <1>2, AckCommitStates, PurchaseWriters

LEMMA EndsAtGoogleKept ==
  ASSUME EndsForGood, IInv, IInv', EndsAtGoogle, \A v \in Worker : EndsInCall(v), [Next]_vars
  PROVE  EndsAtGoogle'
<1> SUFFICES ASSUME NEW t \in Token
             PROVE  /\ (LinkedToken(t) \in Token /\ play'[t].state \in EntitlingStates)
                         => Ended(LinkedToken(t))'
                    /\ Recorded(t)' => play'[t].state # "NONE"
                    /\ Terminal(t)' => Ended(t)'
  BY DEF EndsAtGoogle
<1>1. TypeOK /\ (Ended(t) => Ended(t)') /\ (play[t].state # "NONE" => play'[t].state # "NONE")
  BY EndedStays DEF IInv
<1>2. (LinkedToken(t) \in Token /\ play'[t].state \in EntitlingStates) => Ended(LinkedToken(t))'
  BY <1>1, ReplacedEnds
<1>3. CASE purchase' = purchase
  BY <1>1, <1>2, <1>3 DEF EndsAtGoogle, Terminal, Recorded
<1>4. ASSUME NEW w \in Worker, AckCommit(w)
      PROVE  (Recorded(t)' => Recorded(t)) /\ (Terminal(t)' => Terminal(t))
  BY <1>1, <1>4, AckCommitStates DEF Terminal, Recorded
<1>5. ASSUME NEW w \in Worker, Commit(w)
      PROVE  /\ Recorded(t)' => play[t].state # "NONE"
             /\ Terminal(t)' => Ended(t)
  <2>1. InFlight(w) /\ CallInv(w) /\ EndsInCall(w) /\ job[w].pc = "commit"
    BY <1>5 DEF Commit, InFlight, IInv
  <2>2. CASE t = job[w].token
    <3>1. play[t].state # "NONE"
      BY <2>1, <2>2 DEF EndsInCall
    <3>2. CASE job[w].op = "reconcile"
      <4>1. purchase'[t].state = job[w].state
        BY <1>1, <1>5, <2>1, <2>2, <3>2, CommitWrites
      <4> QED
        BY <2>1, <2>2, <3>1, <4>1 DEF EndsInCall, Terminal
    <3>3. CASE job[w].op # "reconcile"
      BY <2>1, <2>2, <3>1, <3>3 DEF EndsInCall
    <3> QED
      BY <3>2, <3>3
  <2>3. CASE t # job[w].token /\ purchase'[t] = purchase[t]
    BY <2>3 DEF EndsAtGoogle, Terminal, Recorded
  <2>4. CASE t # job[w].token /\ purchase'[t] # purchase[t]
    <3>1. job[w].entitling /\ t = LinkedToken(job[w].token)
      BY <1>1, <1>5, <2>4, CommitStates
    <3>2. Ended(t)
      BY <2>1, <3>1 DEF EndsInCall
    <3> QED
      BY <3>2 DEF Ended, FinalStates
  <2> QED
    BY <2>2, <2>3, <2>4
<1> QED
  BY <1>1, <1>2, <1>3, <1>4, <1>5, PurchaseWriters DEF EndsAtGoogle

LEMMA EndsInCallKept ==
  ASSUME EndsForGood, IInv, IInv', EndsAtGoogle, ChainsApart, [Next]_vars,
         NEW v \in Worker, EndsInCall(v)
  PROVE  EndsInCall(v)'
<1> DEFINE k == job'[v]
<1> SUFFICES ASSUME InFlight(v)', NEW t \in Token, t = job'[v].token
             PROVE  /\ play'[t].state # "NONE"
                    /\ k.op # "reconcile" \/ k.state \in {"EXPIRED", "REVOKED"} => Ended(t)'
                    /\ Terminal(t)' /\ k.op = "reconcile" => k.state \in {"EXPIRED", "REVOKED"}
                    /\ k.entitling /\ LinkedToken(t) \in Token => Ended(LinkedToken(t))'
  BY DEF IInv, CallInv, InFlight, EndsInCall, Ended, Terminal, Recorded
<1>1. TypeOK
  BY DEF IInv
<1>2. CASE job'[v] = job[v] \/ Decide(v)
  <2>1. /\ InFlight(v)
        /\ k.op = job[v].op /\ k.state = job[v].state /\ t = job[v].token
        /\ k.entitling = job[v].entitling
    BY <1>1, <1>2, Decided DEF InFlight
  <2>2. Terminal(t)' => Terminal(t)
    BY <1>1, <2>1, RowStands DEF Terminal, Recorded
  <2>3. /\ play[t].state # "NONE"
        /\ k.op # "reconcile" \/ k.state \in {"EXPIRED", "REVOKED"} => Ended(t)
        /\ Terminal(t) /\ k.op = "reconcile" => k.state \in {"EXPIRED", "REVOKED"}
        /\ k.entitling /\ LinkedToken(t) \in Token => Ended(LinkedToken(t))
    BY <2>1 DEF EndsInCall
  <2>4. \A x \in Token : /\ Ended(x) => Ended(x)'
                         /\ play[x].state # "NONE" => play'[x].state # "NONE"
    BY <1>1, EndedStays
  <2> HIDE DEF k
  <2> QED
    BY <1>1, <2>2, <2>3, <2>4
<1>3. ASSUME NEW x \in Token, NEW asserted, Fetch(v, x, asserted)
      PROVE  /\ play'[t].state # "NONE"
             /\ k.op # "reconcile" \/ k.state \in {"EXPIRED", "REVOKED"} => Ended(t)'
             /\ Terminal(t)' /\ k.op = "reconcile" => k.state \in {"EXPIRED", "REVOKED"}
             /\ k.entitling /\ LinkedToken(t) \in Token => Ended(LinkedToken(t))'
  <2>1. /\ t = x /\ k.op = "reconcile" /\ k.state = ReportedState(t)
        /\ k.entitling => play[t].state \in EntitlingStates
        /\ play[t].state \notin {"NONE", "GONE"}
        /\ play' = play /\ purchase' = purchase
    BY <1>1, <1>3, Fetched DEF ReportedState, EntitlingStates, Recognized
  <2>2. k.state \in {"EXPIRED", "REVOKED"} <=> play[t].state \in {"EXPIRED", "REVOKED"}
    BY <2>1 DEF ReportedState
  <2>3. Terminal(t)' => play[t].state \in FinalStates
    BY <1>1, <2>1 DEF EndsAtGoogle, Terminal, Recorded, Ended
  <2>4. LinkedToken(t) \in Token /\ k.entitling => play[LinkedToken(t)].state \in FinalStates
    BY <1>1, <2>1 DEF EndsAtGoogle, Ended
  <2> HIDE DEF k
  <2> QED
    BY <2>1, <2>2, <2>3, <2>4 DEF Ended, FinalStates
<1>4. ASSUME NEW x \in Token, SyncGone(v, x) \/ Revoke(v, x)
      PROVE  play'[t].state # "NONE" /\ Ended(t)' /\ k.op # "reconcile" /\ ~k.entitling
  <2>1. /\ t = x /\ k.op # "reconcile" /\ ~k.entitling /\ play' = play
        /\ Recorded(t) /\ play[t].state \in {"NONE", "REVOKED", "GONE"}
    BY <1>1, <1>4, Forced DEF Unrecognized
  <2>2. play[t].state # "NONE"
    BY <1>1, <2>1 DEF EndsAtGoogle
  <2> HIDE DEF k
  <2> QED
    BY <2>1, <2>2 DEF Ended, FinalStates
<1> QED
  BY <1>1, <1>2, <1>3, <1>4, Flights

LEMMA EndsInit == Init => EndsAtGoogle /\ \A v \in Worker : EndsInCall(v)
  BY DEF Init, PlayInit, IdleJob, NoPurchase, EndsAtGoogle, EndsInCall, InFlight, Terminal,
         Recorded, EntitlingStates

LEMMA EndsHold ==
  EndsForGood /\ Spec /\ []ChainsApart => [](EndsAtGoogle /\ \A v \in Worker : EndsInCall(v))
<1> DEFINE Ends == EndsAtGoogle /\ \A v \in Worker : EndsInCall(v)
<1> SUFFICES ASSUME EndsForGood PROVE Spec /\ []ChainsApart => []Ends
  OBVIOUS
<1>1. Init => Ends
  BY EndsInit
<1>2. IInv /\ IInv' /\ Ends /\ ChainsApart /\ [Next]_vars => Ends'
  BY EndsAtGoogleKept, EndsInCallKept
<1> QED
  BY <1>1, <1>2, InvariantHolds, PTL DEF Spec

(* EXPIRED and REVOKED rows are terminal, as listReconcilablePurchases takes them to
   be, if what Google ends stays ended and calls on one chain do not overlap: only
   an answer read before the lock brings a terminal row back. *)
THEOREM TerminalIsFinalAlone == EndsForGood /\ Spec /\ []ChainsApart => TerminalIsFinal
<1> DEFINE Final == \A t \in Token :
              (Recorded(t) /\ purchase[t].state \in {"EXPIRED", "REVOKED"})
                => purchase'[t].state \in {"EXPIRED", "REVOKED"}
<1>1. IInv /\ (\A v \in Worker : EndsInCall(v)) /\ [Next]_vars => [Final]_vars
  <2> SUFFICES ASSUME IInv, \A v \in Worker : EndsInCall(v), [Next]_vars,
                      NEW t \in Token, Terminal(t)
               PROVE  purchase'[t].state \in {"EXPIRED", "REVOKED"}
    BY DEF Terminal
  <2>1. CASE purchase' = purchase
    BY <2>1 DEF Terminal
  <2>2. ASSUME NEW w \in Worker, AckCommit(w) PROVE purchase'[t].state = purchase[t].state
    BY <2>2, AckCommitStates DEF IInv
  <2>3. ASSUME NEW w \in Worker, Commit(w)
        PROVE  purchase'[t].state \in {"EXPIRED", "REVOKED"}
    <3>1. TypeOK /\ CallInv(w) /\ InFlight(w)
      BY <2>3 DEF IInv, Commit, InFlight
    <3>2. CASE t = job[w].token /\ job[w].op = "reconcile"
      <4>1. purchase'[t].state = job[w].state
        BY <2>3, <3>1, <3>2, CommitWrites
      <4> QED
        BY <3>1, <3>2, <4>1 DEF EndsInCall
    <3>3. CASE t = job[w].token /\ job[w].op # "reconcile"
      BY <2>3, <3>1, <3>3, CommitStates
    <3>4. CASE t # job[w].token
      <4>1. purchase'[t] = purchase[t] \/ purchase'[t].state = "EXPIRED"
        BY <2>3, <3>1, <3>4, CommitStates
      <4> QED
        BY <4>1 DEF Terminal
    <3> QED
      BY <3>2, <3>3, <3>4
  <2> QED
    BY <2>1, <2>2, <2>3, PurchaseWriters DEF Terminal
<1> QED
  BY <1>1, InvariantHolds, EndsHold, PTL DEF Spec, TerminalIsFinal

-----------------------------------------------------------------------------
(* One live grant a chain, if besides every successor is first recorded entitling. *)

(* A token that replaces another enters the table with a grant, not PENDING and not
   on hold: its first commit is the migration that closes the predecessor. *)
SuccessorsEntitled ==
  \A w \in Worker :
    (job[w].pc = "commit" /\ LinkedToken(job[w].token) \in Token /\ ~Recorded(job[w].token))
      => job[w].entitling

(* A token that Google has ended, that no call is about to grant, and that nobody
   is premium by. *)
Spent(t) ==
  /\ Ended(t)
  /\ \A w \in Worker : (InFlight(w) /\ job[w].token = t) => ~job[w].entitling
  /\ \A u \in User : ~Live(entitlement[u][t])

(* It stays so. *)
LEMMA SpentStays ==
  ASSUME EndsForGood, IInv, IInv', [Next]_vars, NEW t \in Token, Spent(t)
  PROVE  Spent(t)'
<1>1. TypeOK /\ Ended(t)' /\ Ended(t)
  BY EndedStays DEF IInv, Spent
<1>2. ASSUME NEW v \in Worker, InFlight(v)', job'[v].token = t PROVE ~job'[v].entitling
  <2>1. CASE job'[v] = job[v] \/ Decide(v)
    BY <1>1, <1>2, <2>1, Decided DEF Spent, InFlight
  <2>2. ASSUME NEW x \in Token, NEW asserted, Fetch(v, x, asserted) PROVE ~job'[v].entitling
    <3>1. job'[v].entitling => ReportedState(t) \in EntitlingStates
      BY <1>1, <1>2, <2>2, Fetched
    <3> QED
      BY <1>1, <3>1 DEF Ended, FinalStates, ReportedState, EntitlingStates
  <2>3. ASSUME NEW x \in Token, SyncGone(v, x) \/ Revoke(v, x) PROVE ~job'[v].entitling
    BY <1>1, <2>3, Forced
  <2> QED
    BY <1>1, <1>2, <2>1, <2>2, <2>3, Flights
<1>3. ASSUME NEW u \in User,
             entitlement'[u][t].status = "ACTIVE", entitlement'[u][t].expiresAt > now'
      PROVE  FALSE
  <2>1. entitlement'[u][t] \in EntitlementRow /\ entitlement[u][t] \in EntitlementRow
    BY DEF IInv, TypeOK, EntitlementTypeOK
  <2>2. Live(entitlement'[u][t])
    BY <1>1, <1>3, <2>1, StillLive
  <2>3. ~Live(entitlement[u][t])
    BY DEF Spent
  <2>4. PICK w \in Worker : Commit(w)
    BY <2>2, <2>3, Writers
  <2>5. CallInv(w) /\ job[w].pc = "commit" /\ InFlight(w)
    BY <2>4 DEF Commit, IInv, InFlight
  <2>6. ~(job[w].entitling /\ u = job[w].owner /\ t = job[w].token)
    BY <2>5 DEF Spent
  <2>7. /\ entitlement'[u][t].expiresAt = entitlement[u][t].expiresAt
        /\ \/ entitlement'[u][t].status = entitlement[u][t].status
           \/ entitlement'[u][t].status \in {"EXPIRED", "REVOKED"}
    BY <1>1, <2>4, <2>5, <2>6, OthersKept
  <2> QED
    BY <2>2, <2>3, <2>7 DEF Live
<1> QED
  BY <1>1, <1>2, <1>3 DEF Spent, Live

(* The predecessor of a recorded token is spent. *)
PredecessorsSpent ==
  \A t \in Token : (Recorded(t) /\ LinkedToken(t) \in Token) => Spent(LinkedToken(t))

(* The first commit of a successor leaves its predecessor spent. *)
LEMMA FirstLink ==
  ASSUME EndsForGood, IInv, IInv', ChainsApart, SuccessorsEntitled, [Next]_vars,
         \A v \in Worker : EndsInCall(v),
         NEW w \in Worker, Commit(w), NEW t \in Token, ~Recorded(t), Recorded(t)',
         LinkedToken(t) \in Token
  PROVE  Spent(LinkedToken(t))'
<1> DEFINE x == LinkedToken(t)
<1>1. /\ TypeOK /\ CallInv(w) /\ InFlight(w) /\ job[w].pc = "commit"
      /\ play' = play /\ now' = now
  BY DEF IInv, Commit, InFlight
<1>2. t = job[w].token /\ job[w].op = "reconcile"
  BY <1>1, CommitWrites DEF Recorded
<1>3. job[w].entitling
  BY <1>1, <1>2 DEF SuccessorsEntitled
<1>4. Ended(x)
  BY <1>1, <1>2, <1>3 DEF EndsInCall
<1>5. ASSUME NEW v \in Worker, InFlight(v)', job'[v].token = x PROVE ~job'[v].entitling
  <2>1. job'[w].pc \in {"idle", "ack"}
    BY <1>1 DEF Commit, TypeOK, AfterCommit, IdleJob
  <2>2. v # w
    BY <1>5, <2>1 DEF InFlight
  <2>3. job'[v] = job[v]
    BY <1>1, <2>2 DEF Commit, TypeOK
  <2>4. x \in LockSet(job[v]) /\ x \in LockSet(job[w]) /\ InFlight(v)
    BY <1>2, <1>5, <2>3 DEF LockSet, InFlight
  <2> QED
    BY <1>1, <2>2, <2>4 DEF ChainsApart
<1>6. ASSUME NEW u \in User PROVE entitlement'[u][x].status # "ACTIVE"
  <2>1. x # t
    BY PlayAssumption DEF LinkedToken
  <2>2. entitlement[u][x].status # "NONE" => purchase[x].owner = u
    BY DEF IInv, GrantsAreBacked
  <2>3. CASE u = job[w].owner /\ job[w].migrate
    BY <1>1, <1>2, <1>3, <2>3, OwnClosed
  <2>4. CASE ~(u = job[w].owner /\ job[w].migrate)
    <3>1. job[w].migrate <=> Recorded(x)
      BY <1>1, <1>2 DEF CallInv, DecisionFits, Migrates
    <3>2. job[w].migrate => purchase[x].owner = job[w].owner
      BY <1>1, <1>2 DEF CallInv, DecisionFits
    <3>3. entitlement[u][x].status = "NONE"
      BY <2>2, <2>4, <3>1, <3>2, UserAssumption DEF Recorded
    <3>4. entitlement'[u][x].status = "NONE"
      BY <1>1, <1>2, <2>1, <3>3, OthersKept
    <3> QED
      BY <3>4
  <2> QED
    BY <2>3, <2>4
<1> QED
  BY <1>1, <1>4, <1>5, <1>6 DEF Spent, Ended, Live

LEMMA PredecessorsKept ==
  ASSUME EndsForGood, IInv, IInv', ChainsApart, SuccessorsEntitled, [Next]_vars,
         \A v \in Worker : EndsInCall(v), PredecessorsSpent
  PROVE  PredecessorsSpent'
<1> SUFFICES ASSUME NEW t \in Token, Recorded(t)', LinkedToken(t) \in Token
             PROVE  Spent(LinkedToken(t))'
  BY DEF PredecessorsSpent
<1>1. CASE Recorded(t)
  BY <1>1, SpentStays DEF PredecessorsSpent
<1>2. CASE ~Recorded(t)
  <2>1. purchase'[t].owner # purchase[t].owner
    BY <1>2 DEF Recorded
  <2>2. PICK w \in Worker : Commit(w)
    BY <2>1, PurchaseWriters, AckCommitOwners
  <2> QED
    BY <1>2, <2>2, FirstLink
<1> QED
  BY <1>1, <1>2

(* On a chain the successor is the single active entitlement, as reconcileFromGoogle
   promises, if what Google ends stays ended, calls on one chain do not overlap, and
   every successor is entitling when it is first recorded. *)
THEOREM OneLiveGrantAlone ==
  EndsForGood /\ Spec /\ []ChainsApart /\ []SuccessorsEntitled => []OneLiveGrantPerChain
<1> SUFFICES ASSUME EndsForGood
             PROVE  Spec /\ []ChainsApart /\ []SuccessorsEntitled => []OneLiveGrantPerChain
  OBVIOUS
<1>1. Init => PredecessorsSpent
  BY DEF Init, NoPurchase, PredecessorsSpent, Recorded
<1>2. /\ IInv /\ IInv' /\ ChainsApart /\ SuccessorsEntitled /\ [Next]_vars
      /\ EndsAtGoogle /\ (\A v \in Worker : EndsInCall(v)) /\ PredecessorsSpent
      => PredecessorsSpent'
  BY PredecessorsKept
<1>3. IInv /\ PredecessorsSpent => OneLiveGrantPerChain
  <2> SUFFICES ASSUME IInv, PredecessorsSpent, NEW u \in User, NEW t \in Token,
                      LinkedToken(t) \in Token, Live(entitlement[u][t])
               PROVE  ~Live(entitlement[u][LinkedToken(t)])
    BY DEF OneLiveGrantPerChain
  <2>1. Recorded(t)
    BY UserAssumption DEF IInv, GrantsAreBacked, Live, Recorded
  <2> QED
    BY <2>1 DEF PredecessorsSpent, Spent
<1> QED
  BY <1>1, <1>2, <1>3, InvariantHolds, EndsHold, PTL DEF Spec

-----------------------------------------------------------------------------
(* What the sweeps look at. *)

(* Neither sweep of the pipeline overlooks anybody: a purchase that makes an account
   premium, by right or not, is in the reconciliation batch, and one on record as
   entitling that Google has not heard acknowledged is in the acknowledgement batch. *)
THEOREM SweepsMissNothing ==
  PipelineSpec =>
    [](\A t \in Token :
         /\ (\E u \in User : Live(entitlement[u][t])) => t \in Reconcilable
         /\ (Recorded(t) /\ purchase[t].state \in EntitlingStates /\ ~play[t].acked)
              => t \in Unacknowledged)
<1>1. IInv => \A t \in Token :
         /\ (\E u \in User : Live(entitlement[u][t])) => t \in Reconcilable
         /\ (Recorded(t) /\ purchase[t].state \in EntitlingStates /\ ~play[t].acked)
              => t \in Unacknowledged
  <2> SUFFICES ASSUME IInv, NEW t \in Token
               PROVE  /\ \A u \in User : Live(entitlement[u][t]) => t \in Reconcilable
                      /\ (Recorded(t) /\ purchase[t].state \in EntitlingStates /\ ~play[t].acked)
                           => t \in Unacknowledged
    OBVIOUS
  <2>1. ASSUME NEW u \in User, Live(entitlement[u][t]) PROVE t \in Reconcilable
    <3>1. purchase[t].owner = u /\ purchase[t].state \in EntitlingStates
      BY <2>1 DEF IInv, GrantsAreBacked, Live
    <3> QED
      BY <3>1, UserAssumption DEF Reconcilable, Recorded, EntitlingStates
  <2>2. purchase[t].acked => play[t].acked
    BY DEF IInv, AckIsTruthful
  <2> QED
    BY <2>1, <2>2 DEF Unacknowledged
<1> QED
  BY <1>1, InvariantHolds, PipelineImplementsCore, PTL DEF Spec, ImplementsCore

(* A fresh answer repairs a purchase in the pipeline too, whoever brings it: this is
   the step that GrantsConverge waits for. *)
THEOREM PipelineRepairs ==
  PipelineSpec => [][\A w \in Worker, t \in Token :
                       (Commit(w) /\ Current(job[w]) /\ t = job[w].token) => InStep(t)']_vars
  BY FreshCallsRepair, PipelineImplementsCore, PTL DEF Spec, ImplementsCore

=============================================================================
