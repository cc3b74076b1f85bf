----------------------------- MODULE PlayStore -----------------------------
(***************************************************************************)
(* Google Play as src/modules/entitlement uses it: the authority that the  *)
(* backend polls with subscriptionsv2.get and acknowledges purchases to.   *)
(* It is external: the code only shows which answers it can give (STATE_MAP*)
(* and the error branches of google-play-client.ts) and what the services  *)
(* rely on.  The life of one subscription is the relation PlayMoves.       *)
(*                                                                         *)
(* Time is the number of billing periods since the start, up to Horizon.   *)
(* A missing expiry (null) is 0: it is never in the future.                *)
(***************************************************************************)
EXTENDS Naturals

CONSTANTS
  Token,      \* purchase tokens
  NoToken,    \* "no linked purchase token"
  Linked,     \* the linkedPurchaseToken Google reports for each token
  PlayMoves,  \* pairs <<from, to>>: the state changes a subscription can make
  Horizon     \* bound on the clock

(* subscriptionsv2.get's states, with three that are not answers of it: a
   token never issued, one refunded or charged back, one Google forgot. *)
PlayState == { "NONE", "PENDING", "ACTIVE", "CANCELED", "IN_GRACE_PERIOD",
               "ON_HOLD", "PAUSED", "EXPIRED", "REVOKED", "GONE" }

EntitlingStates == { "ACTIVE", "CANCELED", "IN_GRACE_PERIOD" }

ASSUME PlayAssumption ==
  /\ NoToken \notin Token
  /\ Linked \in [Token -> Token \union {NoToken}]
  /\ PlayMoves \subseteq PlayState \X PlayState
  /\ \A move \in PlayMoves : move[1] # "REVOKED"   \* a refund is final
  /\ Horizon \in Nat

VARIABLES
  now,   \* the clock both sides read
  play   \* Google's record of each token

playVars == <<now, play>>

PlayRecord == [state : PlayState, expiresAt : Nat, acked : BOOLEAN]

PlayTypeOK ==
  /\ now \in Nat
  /\ play \in [Token -> PlayRecord]

PlayInit ==
  /\ now = 0
  /\ play = [t \in Token |-> [state |-> "NONE", expiresAt |-> 0, acked |-> FALSE]]

(* The code ignores a token that links to itself. *)
LinkedToken(t) == IF Linked[t] = t THEN NoToken ELSE Linked[t]

Tick ==
  /\ now < Horizon
  /\ now' = now + 1
  /\ UNCHANGED play

(* The subscription behind t moves to state s.  Entering (or renewing) an
   entitling state pays one more period, and replaces the linked token. *)
Move(t, s) ==
  /\ <<play[t].state, s>> \in PlayMoves
  /\ LinkedToken(t) # NoToken => play[LinkedToken(t)].state # "NONE"
  /\ play' = [x \in Token |->
       IF x = t
         THEN [state |-> s, acked |-> play[t].acked,
               expiresAt |-> IF s \in EntitlingStates THEN now + 1 ELSE play[t].expiresAt]
       ELSE IF x = LinkedToken(t) /\ s \in EntitlingStates
               /\ play[x].state \notin {"REVOKED", "GONE"}
         THEN [play[x] EXCEPT !.state = "EXPIRED"]
       ELSE play[x]]
  /\ UNCHANGED now

(* subscriptionsv2.get may answer 400/404/410 for these tokens ...          *)
Unrecognized(t) == play[t].state \in {"NONE", "REVOKED", "GONE"}

(* ... and answers with a state for these: a refunded one reads as expired. *)
Recognized(t) == play[t].state \notin {"NONE", "GONE"}

ReportedState(t) == IF play[t].state = "REVOKED" THEN "EXPIRED" ELSE play[t].state

(* purchases.subscriptions.acknowledge, when Google accepts it. *)
Acknowledged(t) == [play EXCEPT ![t].acked = TRUE]

=============================================================================
