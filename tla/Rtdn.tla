-------------------------------- MODULE Rtdn --------------------------------
(***************************************************************************)
(* rtdn.service.ts: Google's Real-Time Developer Notifications.  Pub/Sub   *)
(* delivers every message at least once, in any order, until the webhook   *)
(* answers 200.  A message names a token and an event; it is a signal to   *)
(* read Google again, never a state to write, except that a revocation is  *)
(* forced.  The marker row (audit log, unique googleMessageId) is written  *)
(* last, after the effect.                                                 *)
(***************************************************************************)
EXTENDS Verification

CONSTANT Handler   \* the workers that serve the webhook

ASSUME HandlerAssumption == Handler \subseteq Worker

VARIABLES
  inbox,     \* messages Pub/Sub still delivers
  seen,      \* messages with a marker row
  handling   \* what each handler is doing

rtdnVars == <<inbox, seen, handling>>

(* The event: the subscription of token entered state. *)
Message == [token : Token, state : {move[2] : move \in PlayMoves} \union {"EXPIRED"}]
NoMessage == [token |-> NoToken, state |-> "NONE"]
IsRevoke(m) == m.state = "REVOKED"

(* known: the purchase lookup found a row. *)
Handling ==
  [phase : {"none", "routed", "running"}, msg : Message \union {NoMessage},
   known : BOOLEAN]
Unoccupied == [phase |-> "none", msg |-> NoMessage, known |-> FALSE]

RtdnTypeOK ==
  /\ inbox \subseteq Message
  /\ seen \subseteq Message
  /\ handling \in [Handler -> Handling]

RtdnInit ==
  /\ inbox = {}
  /\ seen = {}
  /\ handling = [w \in Handler |-> Unoccupied]

-----------------------------------------------------------------------------

(* Google publishes (or loses) the events of a move: t entered s, and the
   token it replaces expired. *)
Publish(t, s) ==
  LET replaced == {[token |-> x, state |-> "EXPIRED"] :
                     x \in {y \in Token : y = LinkedToken(t) /\ s \in EntitlingStates}}
  IN  /\ \E events \in SUBSET ({[token |-> t, state |-> s]} \union replaced) :
           inbox' = inbox \union events
      /\ UNCHANGED <<seen, handling>>

(* The marker is probed, then the purchase is looked up. *)
Deliver(w, m) ==
  /\ handling[w].phase = "none"
  /\ job[w].pc = "idle"
  /\ m \in inbox \ seen
  /\ handling' = [handling EXCEPT ![w] =
       [phase |-> "routed", msg |-> m, known |-> Recorded(m.token)]]
  /\ UNCHANGED <<vars, inbox, seen>>

DropDuplicate(m) ==
  /\ m \in inbox \intersect seen
  /\ inbox' = inbox \ {m}
  /\ UNCHANGED <<vars, seen, handling>>

\* Mutant: the event is written to the row, without the lock or a fresh read.
WritesEvent(w) ==
  LET t == handling[w].msg.token
  IN  /\ Recorded(t)
      /\ purchase' = [purchase EXCEPT ![t].state = "CANCELED"]
      /\ UNCHANGED <<now, play, entitlement, premium, lock, job>>

(* A known purchase is revoked by force or read again, an unknown token may be
   a new link of a known chain, and a revoke of an unknown token is dropped. *)
Routes(w) ==
  LET t == handling[w].msg.token
      revoke == IsRevoke(handling[w].msg)
  IN  IF handling[w].known
        THEN IF revoke THEN ForceClose(w, t, "revoke") ELSE Sync(w, t) \/ SyncGone(w, t)
        ELSE \/ ~revoke /\ Migrate(w, t)
             \/ (revoke \/ Unrecognized(t)) /\ UNCHANGED vars

Route(w) ==
  /\ handling[w].phase = "routed"
  /\ Routes(w)
  /\ handling' = [handling EXCEPT ![w].phase = "running"]
  /\ UNCHANGED <<inbox, seen>>

\* Mutant: a message about an unknown token leaves no marker.
MarksKnownOnly(w) ==
  LET m == handling[w].msg
  IN  /\ handling[w].phase = "running"
      /\ job[w].pc = "idle"
      /\ seen' = IF handling[w].known THEN seen \union {m} ELSE seen
      /\ inbox' \in {inbox, inbox \ {m}}
      /\ handling' = [handling EXCEPT ![w] = Unoccupied]
      /\ UNCHANGED vars

(* The effect is done, or there was none to have: the marker is written and
   the webhook answers 200, an answer Pub/Sub may still miss. *)
RecordProcessed(w) ==
  LET m == handling[w].msg
  IN  /\ handling[w].phase = "running"
      /\ job[w].pc = "idle"
      /\ seen' = seen \union {m}
      /\ inbox' \in {inbox, inbox \ {m}}
      /\ handling' = [handling EXCEPT ![w] = Unoccupied]
      /\ UNCHANGED vars

(* The handler answers 5xx or dies: no marker, Pub/Sub delivers again.  An
   acknowledgement Google refuses is not fatal: the handler goes on. *)
Retryable(w) ==
  \/ /\ Fail(w)
     /\ \/ handling' = [handling EXCEPT ![w] = Unoccupied]
        \/ job[w].pc = "ack" /\ UNCHANGED handling
     /\ UNCHANGED <<inbox, seen>>
  \/ /\ handling[w].phase # "none"
     /\ job[w].pc = "idle"
     /\ handling' = [handling EXCEPT ![w] = Unoccupied]
     /\ UNCHANGED <<vars, inbox, seen>>

=============================================================================
