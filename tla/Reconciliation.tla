--------------------------- MODULE Reconciliation ---------------------------
(***************************************************************************)
(* reconciliation.service.ts: the two cron sweeps.  A sweep lists purchases*)
(* once and runs the write path of Verification on one after the other; an *)
(* item that fails is skipped, the next sweep finds it again.  The order   *)
(* and the size limit of the batch are left out.                           *)
(***************************************************************************)
EXTENDS Verification

CONSTANT Sweeper   \* the workers that run sweeps

ASSUME SweeperAssumption == Sweeper \subseteq Worker

VARIABLE batch     \* what each sweep has still to process

SweepTypeOK == batch \in [Sweeper -> SUBSET Token]
SweepInit == batch = [w \in Sweeper |-> {}]

(* listUnacknowledgedPurchases *)
Unacknowledged ==
  {t \in Token : Recorded(t) /\ ~purchase[t].acked /\ purchase[t].state \in EntitlingStates}

(* listReconcilablePurchases *)
Reconcilable ==
  {t \in Token : Recorded(t) /\ purchase[t].state \notin {"EXPIRED", "REVOKED"}}

StartSweep(w, tokens) ==
  /\ job[w].pc = "idle"
  /\ batch[w] = {}
  /\ tokens # {}
  /\ batch' = [batch EXCEPT ![w] = tokens]
  /\ UNCHANGED vars

RunAcknowledgementSweep(w) == StartSweep(w, Unacknowledged)
RunReconciliationSweep(w) == StartSweep(w, Reconcilable)

SweepItem(w) ==
  \E t \in batch[w] :
    /\ Sync(w, t) \/ SyncGone(w, t)
    /\ batch' = [batch EXCEPT ![w] = @ \ {t}]

(* An item fails, and the sweep goes on; or the process dies. *)
SweepFail(w) ==
  \/ Fail(w) /\ UNCHANGED batch
  \/ /\ batch[w] # {} \/ job[w].pc # "idle"
     /\ IF job[w].pc = "idle" THEN UNCHANGED vars ELSE Fail(w)
     /\ batch' = [batch EXCEPT ![w] = {}]

=============================================================================
