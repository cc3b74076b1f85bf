------------------------ MODULE EntitlementPipeline ------------------------
(***************************************************************************)
(* The whole way from Google to an entitlement: clients that verify, the   *)
(* RTDN webhook, the sweeps, and Google moving underneath.  Every step is  *)
(* one of Verification (ImplementsCore), so what is proved there holds     *)
(* here; this module adds who calls it, when, and what happens after a     *)
(* failure, and asks what the sum of them is for: that the backend ends up *)
(* in step with Google.                                                    *)
(***************************************************************************)
EXTENDS Rtdn, Reconciliation

CONSTANTS
  Client,       \* the workers that serve POST /subscriptions/verify
  MaxVerifies,  \* bound: verifies of one worker
  MaxFaults     \* bound: failures, crashes and rollbacks

ASSUME PipelineAssumption ==
  /\ Client \subseteq Worker
  /\ MaxVerifies \in Nat
  /\ MaxFaults \in Nat

VARIABLES
  verifies,     \* verifies made by each client
  faults        \* failures so far

pipelineVars == <<vars, rtdnVars, batch, verifies, faults>>

PipelineTypeOK ==
  /\ TypeOK /\ RtdnTypeOK /\ SweepTypeOK
  /\ verifies \in [Client -> 0..MaxVerifies]
  /\ faults \in 0..MaxFaults

PipelineInit ==
  /\ Init /\ RtdnInit /\ SweepInit
  /\ verifies = [w \in Client |-> 0]
  /\ faults = 0

-----------------------------------------------------------------------------

Google ==
  /\ \/ Tick /\ UNCHANGED rtdnVars
     \/ \E t \in Token, s \in PlayState : Move(t, s) /\ Publish(t, s)
  /\ UNCHANGED <<entitlement, premium, purchase, lock, job, batch, verifies, faults>>

ClientVerifies(w) ==
  /\ verifies[w] < MaxVerifies
  /\ \E u \in User, t \in Token : Verify(w, u, t)
  /\ verifies' = [verifies EXCEPT ![w] = @ + 1]
  /\ UNCHANGED <<rtdnVars, batch, faults>>

Webhook(w) ==
  /\ \/ \E m \in Message : Deliver(w, m)
     \/ Route(w)
     \/ RecordProcessed(w)
  /\ UNCHANGED <<batch, verifies, faults>>

(* The two scripts, and their sweeps while they run. *)
AckPurchases(w) == RunAcknowledgementSweep(w) /\ UNCHANGED <<rtdnVars, verifies, faults>>
ReconcileSubscriptions(w) == RunReconciliationSweep(w) /\ UNCHANGED <<rtdnVars, verifies, faults>>
Sweep(w) == SweepItem(w) /\ UNCHANGED <<rtdnVars, verifies, faults>>

Cron(w) == AckPurchases(w) \/ ReconcileSubscriptions(w) \/ Sweep(w)

Work(w) == Step(w) /\ UNCHANGED <<rtdnVars, batch, verifies, faults>>

Fault ==
  /\ faults < MaxFaults
  /\ faults' = faults + 1
  /\ \/ \E w \in Client : Fail(w) /\ UNCHANGED <<rtdnVars, batch>>
     \/ \E w \in Handler : Retryable(w) /\ UNCHANGED batch
     \/ \E w \in Sweeper : SweepFail(w) /\ UNCHANGED rtdnVars
  /\ UNCHANGED verifies

PubSubDrops ==
  /\ \E m \in Message : DropDuplicate(m)
  /\ UNCHANGED <<batch, verifies, faults>>

PipelineNext ==
  \/ Google
  \/ \E w \in Client : ClientVerifies(w)
  \/ \E w \in Handler : Webhook(w)
  \/ \E w \in Sweeper : Cron(w)
  \/ \E w \in Worker : Work(w)
  \/ PubSubDrops
  \/ Fault

(* Started calls run on: Postgres queues lock waiters, so a call that wants a
   lock gets it (strong fairness).  Pub/Sub redelivers what is not answered,
   and cron starts the reconciliation sweep again and again.  Nothing is
   assumed of Google, of the clients, of the acknowledgement sweep or of
   failures beyond their bound. *)
Fairness ==
  /\ \A w \in Worker : SF_pipelineVars(Work(w))
  /\ \A w \in Handler :
       /\ \A m \in Message : SF_pipelineVars(Deliver(w, m) /\ UNCHANGED <<batch, verifies, faults>>)
       /\ WF_pipelineVars((Route(w) \/ RecordProcessed(w)) /\ UNCHANGED <<batch, verifies, faults>>)
  /\ \A w \in Sweeper :
       /\ SF_pipelineVars(ReconcileSubscriptions(w))
       /\ WF_pipelineVars(Sweep(w))

PipelineSpec == PipelineInit /\ [][PipelineNext]_pipelineVars
FairPipeline == PipelineSpec /\ Fairness

-----------------------------------------------------------------------------
(* Properties. *)

(* Whatever the webhook and the sweeps do, also after a failure, is a step of
   the write path of Verification. *)
ImplementsCore == Init /\ [][Next]_vars

PlayEntitles(t) == play[t].state \in EntitlingStates /\ play[t].expiresAt > now

InStep(t) ==
  Recorded(t) => (Live(entitlement[purchase[t].owner][t]) <=> PlayEntitles(t))

(* Stale snapshots, lost messages and failures notwithstanding, the grants end
   up saying what Google says: drift is repaired by the sweep. *)
GrantsConverge == <>[](\A t \in Token : InStep(t))

(* A purchase on record that Google holds entitling is acknowledged before its
   refund window, or has stopped entitling: a failed acknowledgement is
   retried until it succeeds. *)
EveryGrantAcknowledged ==
  \A t \in Token :
    (Recorded(t) /\ PlayEntitles(t)) ~> (play[t].acked \/ ~PlayEntitles(t))

(* Every notification Google keeps delivering gets its marker in the end,
   although handlers fail and answers are lost. *)
EveryMessageMarked == <>[](inbox \subseteq seen)

=============================================================================
