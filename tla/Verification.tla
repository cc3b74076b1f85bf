---------------------------- MODULE Verification ----------------------------
(***************************************************************************)
(* verification.service.ts: the one write path by which Google's word      *)
(* becomes purchases, grants and the premium flag.  Client verifies, RTDN  *)
(* handlers and sweeps all run it, concurrently, in many server processes: *)
(* a Worker is one such call in flight.                                    *)
(*                                                                         *)
(* A call reads Google BEFORE its transaction, then takes the advisory     *)
(* locks of its token and of the linked token one by one in sorted order,  *)
(* reads what it decides on, and commits.  Transactions are READ           *)
(* COMMITTED: Decide reads what others committed, and nothing of it is     *)
(* visible before Commit.  Two steps are enough, for the rows of a locked  *)
(* token change under its lock only; what the split exposes is the read of *)
(* the user's OTHER grants by refreshPremiumCache, which no lock covers.   *)
(***************************************************************************)
EXTENDS Entitlements

CONSTANTS
  Worker, NoWorker,
  Rank          \* the sort order of the tokens

ASSUME WorkerAssumption ==
  /\ NoWorker \notin Worker
  /\ Rank \in [Token -> Nat]
  /\ \A s, t \in Token : Rank[s] = Rank[t] => s = t

VARIABLES
  purchase,   \* subscription_purchases, by purchaseToken (unique)
  lock,       \* holder of pg_advisory_xact_lock(hashtext(token))
  job         \* the call each worker is running

storeVars == <<purchase, entitlement, premium>>
vars == <<now, play, entitlement, premium, purchase, lock, job>>

-----------------------------------------------------------------------------
(* Rows and calls. *)

SubscriptionState == PlayState \ {"NONE", "GONE"}

PurchaseRow ==
  [owner : User \union {NoUser}, state : SubscriptionState,
   expiresAt : Nat, acked : BOOLEAN]

(* A token without a row has no owner. *)
NoPurchase == [owner |-> NoUser, state |-> "PENDING", expiresAt |-> 0, acked |-> FALSE]

Recorded(t) == t \in Token /\ purchase[t].owner # NoUser

Job ==
  [pc : {"idle", "lock", "commit", "ack", "ackcommit"},
   op : {"reconcile", "revoke", "expire"},
   token : Token \union {NoToken},
   asserted : User \union {NoUser},        \* assertedUserId
   state : SubscriptionState,              \* the snapshot read from Google
   expiresAt : Nat,
   acked : BOOLEAN,
   entitling : BOOLEAN,
   owner : User \union {NoUser},           \* ownerUserId, once decided
   migrate : BOOLEAN,                      \* isMigration
   status : {"NONE", "ACTIVE", "EXPIRED"}, \* deriveStatus of the grant
   refresh : BOOLEAN,                      \* refreshPremiumCache runs ...
   flag : BOOLEAN]                         \* ... and writes this

IdleJob ==
  [pc |-> "idle", op |-> "reconcile", token |-> NoToken, asserted |-> NoUser,
   state |-> "PENDING", expiresAt |-> 0, acked |-> FALSE, entitling |-> FALSE,
   owner |-> NoUser, migrate |-> FALSE, status |-> "NONE",
   refresh |-> FALSE, flag |-> FALSE]

TypeOK ==
  /\ PlayTypeOK
  /\ EntitlementTypeOK
  /\ purchase \in [Token -> PurchaseRow]
  /\ lock \in [Token -> Worker \union {NoWorker}]
  /\ job \in [Worker -> Job]

Init ==
  /\ PlayInit
  /\ EntitlementInit
  /\ purchase = [t \in Token |-> NoPurchase]
  /\ lock = [t \in Token |-> NoWorker]
  /\ job = [w \in Worker |-> IdleJob]

-----------------------------------------------------------------------------
(* What a call locks, decides and writes. *)

Released(w) == [t \in Token |-> IF lock[t] = w THEN NoWorker ELSE lock[t]]

LockSet(j) ==
  {t \in Token : t = j.token \/ (j.op = "reconcile" /\ t = LinkedToken(j.token))}

MissingNone(w) == {}  \* mutant: the transaction takes no advisory lock

Missing(w) == {t \in LockSet(job[w]) : lock[t] # w}

(* The predecessor counts only while the token itself is new. *)
Migrates(j) ==
  /\ j.op = "reconcile"
  /\ ~Recorded(j.token)
  /\ Recorded(LinkedToken(j.token))

\* Mutant: the asserted identity wins over the predecessor's owner.
AssertedFirst(j) ==
  IF Recorded(j.token) THEN purchase[j.token].owner
  ELSE IF j.asserted # NoUser THEN j.asserted
  ELSE IF Migrates(j) THEN purchase[LinkedToken(j.token)].owner
  ELSE NoUser

(* locked?.userId ?? predecessor?.userId ?? assertedUserId *)
ChainOwner(j) ==
  IF Recorded(j.token) THEN purchase[j.token].owner
  ELSE IF Migrates(j) THEN purchase[LinkedToken(j.token)].owner
  ELSE j.asserted

(* UnattributableTokenError, or 409: the chain belongs to someone else. *)
Refused(j) ==
  \/ ChainOwner(j) = NoUser
  \/ j.asserted # NoUser /\ ChainOwner(j) # j.asserted

\* Mutant: granting marks the purchase acknowledged at once.
AckedOnGrant(j) ==
  [purchase EXCEPT ![j.token] =
     [owner |-> j.owner, expiresAt |-> j.expiresAt, acked |-> j.acked \/ j.entitling,
      state |-> IF j.op = "reconcile" THEN j.state ELSE "REVOKED"]]

(* The rows the call leaves behind, its decision j being made. *)
NewPurchase(j) ==
  [t \in Token |->
     IF t = j.token THEN
       CASE j.op = "reconcile" -> [owner |-> j.owner, state |-> j.state,
                                   expiresAt |-> j.expiresAt, acked |-> j.acked]
         [] j.op = "revoke" -> [purchase[t] EXCEPT !.state = "REVOKED"]
         [] j.op = "expire" -> [purchase[t] EXCEPT !.state = "EXPIRED"]
     ELSE IF j.migrate /\ j.entitling /\ t = LinkedToken(j.token)
       THEN [purchase[t] EXCEPT !.state = "EXPIRED"]
     ELSE purchase[t]]

\* Mutant: a snapshot that does not entitle leaves the grant as it is.
NeverSuspends(j) ==
  IF j.op = "reconcile"
    THEN IF j.entitling
           THEN Granted(entitlement, j.owner, j.token, j.status, j.expiresAt)
           ELSE entitlement
    ELSE Closed(entitlement, j.owner, j.token, "REVOKED")

NewEntitlement(j) ==
  IF j.op = "reconcile" /\ j.entitling
    THEN LET granted == Granted(entitlement, j.owner, j.token, j.status, j.expiresAt)
         IN  IF j.migrate
               THEN Closed(granted, j.owner, LinkedToken(j.token), "EXPIRED")
               ELSE granted
    ELSE Closed(entitlement, j.owner, j.token,
                IF j.op = "revoke" THEN "REVOKED" ELSE "EXPIRED")

-----------------------------------------------------------------------------
(* The call up to its transaction. *)

(* reconcileFromGoogle's fetch, and the verdict taken on it at this time. *)
Fetch(w, t, asserted) ==
  /\ job[w].pc = "idle"
  /\ Recognized(t)
  /\ job' = [job EXCEPT ![w] =
       [IdleJob EXCEPT !.pc = "lock", !.token = t, !.asserted = asserted,
          !.state = ReportedState(t), !.expiresAt = play[t].expiresAt,
          !.acked = play[t].acked,
          !.entitling = ReportedState(t) \in EntitlingStates
                        /\ play[t].expiresAt > now]]
  /\ UNCHANGED <<now, play, entitlement, premium, purchase, lock>>

(* A revoke or an expiry reads no state from Google; a token without a row is
   left alone. *)
ForceClose(w, t, op) ==
  /\ job[w].pc = "idle"
  /\ Recorded(t)
  /\ job' = [job EXCEPT ![w] = [IdleJob EXCEPT !.pc = "lock", !.op = op, !.token = t]]
  /\ UNCHANGED <<now, play, entitlement, premium, purchase, lock>>

(* POST /subscriptions/verify by user u.  A token already bound to another
   user is refused before Google is asked. *)
Verify(w, u, t) ==
  /\ Recorded(t) => purchase[t].owner = u
  /\ Fetch(w, t, u)

(* An RTDN or a sweep on a purchase found in the table ... *)
Sync(w, t) == Recorded(t) /\ Fetch(w, t, purchase[t].owner)

\* Mutant: an error of Google is always taken for a passing one.
SkipsGone(w, t) == Unrecognized(t) /\ Recorded(t) /\ job[w].pc = "idle" /\ UNCHANGED vars

(* ... which Google no longer recognizes ... *)
SyncGone(w, t) == Unrecognized(t) /\ ForceClose(w, t, "expire")

(* ... or an RTDN on a token it did not find: nobody is asserted.  The lookup
   is older than the fetch, so the row may exist by now. *)
Migrate(w, t) == Fetch(w, t, NoUser)

(* An RTDN that the purchase was revoked or voided. *)
Revoke(w, t) == play[t].state = "REVOKED" /\ ForceClose(w, t, "revoke")

-----------------------------------------------------------------------------
(* The transaction. *)

\* Mutant: the locks are taken in whatever order.
AnyLockFirst(w) ==
  /\ job[w].pc = "lock"
  /\ \E t \in Missing(w) :
       /\ Missing(w) # {t}
       /\ lock[t] = NoWorker
       /\ lock' = [lock EXCEPT ![t] = w]
  /\ UNCHANGED <<now, play, entitlement, premium, purchase, job>>

(* The locks are taken one by one, lowest token first.  Nothing happens
   between the last lock and the reads that follow it: they are one step. *)
AcquireLock(w) ==
  /\ job[w].pc = "lock"
  /\ \E t \in Missing(w) :
       /\ \A s \in Missing(w) \ {t} : Rank[t] < Rank[s]
       /\ Missing(w) # {t}
       /\ lock[t] = NoWorker
       /\ lock' = [lock EXCEPT ![t] = w]
  /\ UNCHANGED <<now, play, entitlement, premium, purchase, job>>

LastLock(w) ==
  /\ job[w].pc = "lock"
  /\ \A s, t \in Missing(w) : s = t /\ lock[t] = NoWorker

Refuse(w) ==
  /\ LastLock(w)
  /\ Refused(job[w])
  /\ lock' = Released(w)
  /\ job' = [job EXCEPT ![w] = IdleJob]
  /\ UNCHANGED <<now, play, entitlement, premium, purchase>>

Decision(j) ==
  [j EXCEPT !.owner = ChainOwner(j), !.migrate = Migrates(j), !.asserted = NoUser,
            !.status = IF j.entitling THEN DeriveStatus(j.expiresAt) ELSE "NONE"]

Decide(w) ==
  LET j == Decision(job[w])
  IN  /\ LastLock(w)
      /\ ~Refused(job[w])
      /\ lock' = [t \in Token |-> IF t \in Missing(w) THEN w ELSE lock[t]]
      /\ job' = [job EXCEPT ![w] =
           [j EXCEPT !.pc = "commit",
                     !.refresh = j.entitling \/ Closes(entitlement, j.owner, j.token),
                     !.flag = HasActive(NewEntitlement(j), j.owner)]]
      /\ UNCHANGED <<now, play, entitlement, premium, purchase>>

\* Mutant: whatever Google still waits for is acknowledged, granted or not.
AckAnyState(j) ==
  IF j.op = "reconcile" /\ ~j.acked
    THEN [IdleJob EXCEPT !.pc = "ack", !.token = j.token]
    ELSE IdleJob

\* Mutant: only the verify that inserts the purchase acknowledges it.
AckOnInsert(j) ==
  IF j.entitling /\ ~j.acked /\ ~Recorded(j.token)
    THEN [IdleJob EXCEPT !.pc = "ack", !.token = j.token]
    ELSE IdleJob

(* An entitling purchase Google still waits for is acknowledged next. *)
AfterCommit(j) ==
  IF j.entitling /\ ~j.acked
    THEN [IdleJob EXCEPT !.pc = "ack", !.token = j.token]
    ELSE IdleJob

Commit(w) ==
  LET j == job[w]
  IN  /\ j.pc = "commit"
      /\ purchase' = NewPurchase(j)
      /\ entitlement' = NewEntitlement(j)
      /\ premium' = IF j.refresh THEN [premium EXCEPT ![j.owner] = j.flag] ELSE premium
      /\ lock' = Released(w)
      /\ job' = [job EXCEPT ![w] = AfterCommit(j)]
      /\ UNCHANGED <<now, play>>

-----------------------------------------------------------------------------
(* acknowledgeIfNeeded: a second transaction under the token's lock. *)

AckSkip(w) ==
  LET t == job[w].token
  IN  /\ job[w].pc = "ack"
      /\ lock[t] = NoWorker
      /\ purchase[t].acked
      /\ job' = [job EXCEPT ![w] = IdleJob]
      /\ UNCHANGED <<now, play, entitlement, premium, purchase, lock>>

AckCall(w) ==
  LET t == job[w].token
  IN  /\ job[w].pc = "ack"
      /\ lock[t] = NoWorker
      /\ ~purchase[t].acked
      /\ Recognized(t)
      /\ play' = Acknowledged(t)
      /\ lock' = [lock EXCEPT ![t] = w]
      /\ job' = [job EXCEPT ![w].pc = "ackcommit"]
      /\ UNCHANGED <<now, entitlement, premium, purchase>>

(* Google no longer takes the token: the error is logged and swallowed. *)
AckRejected(w) ==
  LET t == job[w].token
  IN  /\ job[w].pc = "ack"
      /\ lock[t] = NoWorker
      /\ ~purchase[t].acked
      /\ Unrecognized(t)
      /\ job' = [job EXCEPT ![w] = IdleJob]
      /\ UNCHANGED <<now, play, entitlement, premium, purchase, lock>>

AckCommit(w) ==
  /\ job[w].pc = "ackcommit"
  /\ purchase' = [purchase EXCEPT ![job[w].token].acked = TRUE]
  /\ lock' = Released(w)
  /\ job' = [job EXCEPT ![w] = IdleJob]
  /\ UNCHANGED <<now, play, entitlement, premium>>

(* Google refuses or times out, the transaction is rolled back, or the
   process dies: the call ends where it stands and its locks are free. *)
Fail(w) ==
  /\ job[w].pc # "idle"
  /\ lock' = Released(w)
  /\ job' = [job EXCEPT ![w] = IdleJob]
  /\ UNCHANGED <<now, play, entitlement, premium, purchase>>

-----------------------------------------------------------------------------

Environment ==
  /\ \/ Tick
     \/ \E t \in Token, s \in PlayState : Move(t, s)
  /\ UNCHANGED <<entitlement, premium, purchase, lock, job>>

Call(w) ==
  \E t \in Token :
    \/ \E u \in User : Verify(w, u, t)
    \/ Sync(w, t)
    \/ SyncGone(w, t)
    \/ Migrate(w, t)
    \/ Revoke(w, t)

Step(w) ==
  \/ AcquireLock(w)
  \/ Refuse(w)
  \/ Decide(w)
  \/ Commit(w)
  \/ AckSkip(w)
  \/ AckCall(w)
  \/ AckRejected(w)
  \/ AckCommit(w)

Next ==
  \/ Environment
  \/ \E w \in Worker : Call(w) \/ Step(w) \/ Fail(w)

Spec == Init /\ [][Next]_vars

(* The same system in which no call ever fails or is cut off. *)
NoFailNext == Environment \/ \E w \in Worker : Call(w) \/ Step(w)
NoFailSpec == Init /\ [][NoFailNext]_vars

-----------------------------------------------------------------------------
(* Properties. *)

(* A token is bound to one account for good: however verifies, RTDNs and
   sweeps interleave, no step rebinds a recorded purchase ("ownership is
   immutable", upsertVerifiedPurchase; the verify pre-check alone is stale by
   the time of the write). *)
TokenNeverChangesOwner ==
  [][\A t \in Token : Recorded(t) => purchase'[t].owner = purchase[t].owner]_vars

(* A decision made on locked rows still fits them when it is committed: the
   owner guard of upsertVerifiedPurchase, the last line of defence, never has
   to fire, and a migration still finds its token new and its predecessor with
   the owner it inherited. *)
DecisionStands ==
  \A w \in Worker :
    LET j == job[w]
    IN  j.pc = "commit" =>
          /\ purchase[j.token].owner \in {NoUser, j.owner}
          /\ j.migrate => /\ ~Recorded(j.token)
                          /\ purchase[LinkedToken(j.token)].owner = j.owner

(* One token makes at most one account premium, and only while the recorded
   purchase of that same account is in an entitling state: every grant row has
   the purchase's owner, every ACTIVE one its state and expiry too (the promise
   of scripts/subscription-concurrency-smoke.ts under every ordering). *)
GrantsAreBacked ==
  \A u \in User, t \in Token :
    LET row == entitlement[u][t]
    IN  /\ row.status # "NONE" => purchase[t].owner = u
        /\ row.status = "ACTIVE" => /\ purchase[t].state \in EntitlingStates
                                    /\ purchase[t].expiresAt = row.expiresAt

(* A token that appears while its linked predecessor is on record goes to the
   predecessor's owner, whoever presents it: a client cannot claim a chain that
   belongs to someone else (reconcileFromGoogle, steps 3 and 4). *)
SuccessorInheritsOwner ==
  [][\A t \in Token :
       (~Recorded(t) /\ Recorded(t)' /\ Recorded(LinkedToken(t)))
         => purchase'[t].owner = purchase[LinkedToken(t)].owner]_vars

(* The acknowledged column never claims what Google does not know.  A false
   claim would keep the acknowledgement sweep away from the purchase until
   Google refunds it. *)
AckIsTruthful == \A t \in Token : purchase[t].acked => play[t].acked

(* Google is told "acknowledged" only of a purchase whose grant was committed
   before: a failed call can be retried, an acknowledged purchase without its
   entitlement could not. *)
AckAfterGrant ==
  [][\A t \in Token :
       (~play[t].acked /\ play'[t].acked)
         => Recorded(t) /\ entitlement[purchase[t].owner][t].status # "NONE"]_vars

(* Nobody is premium beyond a period Google sold on a token of theirs, even
   when snapshots are committed late and out of order. *)
PremiumWithinPaidPeriod ==
  \A u \in User : IsPremium(u) =>
    \E t \in Token : purchase[t].owner = u /\ play[t].expiresAt > now

(* Calls never wait for each other in a circle, of whatever length: a call only
   waits for tokens above all those it holds ("a deterministic (sorted) order
   so concurrent migrations of the same chain cannot deadlock",
   reconcileFromGoogle, step 1), and a call that waits for Google's answer to
   an acknowledgement holds one lock and wants no other. *)
WaitsUpwards ==
  \A w \in Worker : \A s, t \in Token :
    (job[w].pc = "lock" /\ lock[s] = w /\ t \in Missing(w)) => Rank[s] < Rank[t]

-----------------------------------------------------------------------------
(* The inductive invariant behind the safety properties: what a call in flight
   may rely on in each phase, and what the rows owe to Google. *)

(* An open transaction holds the locks of every token it decided on. *)
HoldsLocks(w) ==
  /\ job[w].pc = "commit" => \A t \in LockSet(job[w]) : lock[t] = w
  /\ job[w].pc = "ackcommit" => lock[job[w].token] = w

(* From its start to its commit, a call carries an old answer of Google: never
   one that Google has not given. *)
SnapshotIsPast(w) ==
  LET j == job[w]
  IN  j.pc \in {"lock", "commit"} =>
        /\ j.entitling => j.op = "reconcile" /\ j.state \in EntitlingStates
        /\ j.op # "reconcile" => Recorded(j.token)
        /\ j.acked => play[j.token].acked
        /\ j.expiresAt <= play[j.token].expiresAt

(* A decided call knows the one owner its rows may have, and whether it is the
   first link after a recorded predecessor. *)
DecisionFits(w) ==
  LET j == job[w]
  IN  j.pc = "commit" =>
        /\ j.owner \in User
        /\ purchase[j.token].owner \in {NoUser, j.owner}
        /\ j.migrate <=> Migrates(j)
        /\ j.migrate => purchase[LinkedToken(j.token)].owner = j.owner
        /\ j.entitling => j.status # "NONE"

(* An acknowledgement follows its grant. *)
AckFollowsGrant(w) ==
  LET t == job[w].token
  IN  /\ job[w].pc = "ack" =>
           Recorded(t) /\ entitlement[purchase[t].owner][t].status # "NONE"
      /\ job[w].pc = "ackcommit" => play[t].acked

CallInv(w) ==
  /\ job[w].pc # "idle" => job[w].token \in Token
  /\ job[w].pc = "lock" => ~job[w].migrate
  /\ HoldsLocks(w)
  /\ SnapshotIsPast(w)
  /\ DecisionFits(w)
  /\ AckFollowsGrant(w)

(* Google sells one period at a time, and no grant outlasts what it sold. *)
PeriodsArePaid ==
  \A t \in Token :
    /\ play[t].expiresAt <= now + 1
    /\ \A u \in User : entitlement[u][t].expiresAt <= play[t].expiresAt

IInv ==
  /\ TypeOK
  /\ \A w \in Worker : CallInv(w)
  /\ GrantsAreBacked
  /\ AckIsTruthful
  /\ PeriodsArePaid

(* A call outside its transactions holds no lock: WaitsUpwards rests on it. *)
LockDiscipline ==
  /\ WaitsUpwards
  /\ \A w \in Worker : \A t \in Token : job[w].pc \in {"idle", "ack"} => lock[t] # w

-----------------------------------------------------------------------------
(* What comments of the code say, and the interleavings below refute. *)

(* "EXPIRED/REVOKED are terminal" (listReconcilablePurchases), and a migrated
   predecessor is marked terminal "so no later event (sweep / out-of-order
   RTDN) re-processes it" (reconcileFromGoogle, step 5). *)
TerminalIsFinal ==
  [][\A t \in Token :
       (Recorded(t) /\ purchase[t].state \in {"EXPIRED", "REVOKED"})
         => purchase'[t].state \in {"EXPIRED", "REVOKED"}]_vars

(* acknowledgeIfNeeded acknowledges "EXACTLY ONCE" and "can never
   double-acknowledge", even with no failure at all. *)
AcknowledgedOnce ==
  [][\A w \in Worker :
       (job[w].pc = "ack" /\ job'[w].pc = "ackcommit") => ~play[job[w].token].acked]_vars

(* On a chain "the successor becomes the single active entitlement"
   (reconcileFromGoogle). *)
OneLiveGrantPerChain ==
  \A u \in User, t \in Token :
    (LinkedToken(t) \in Token /\ Live(entitlement[u][t]))
      => ~Live(entitlement[u][LinkedToken(t)])

(* refreshPremiumCache "keeps the deprecated flag coherent" so that readers of
   users.isPremium "stay correct": with no transaction open, an account whose
   entitlements make it premium is flagged so. *)
PremiumFlagCoherent ==
  (\A w \in Worker : job[w].pc # "commit") => \A u \in User : IsPremium(u) => premium[u]

=============================================================================
