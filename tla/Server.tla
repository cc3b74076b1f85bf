-------------------------------- MODULE Server --------------------------------
(***************************************************************************)
(* server.ts: one API process from boot to exit, and the calls of          *)
(* GroupLimit it serves.  A signal stops the listener and lets the open    *)
(* connections drain; a timer, a second signal or a fatal error cuts that  *)
(* short, and whatever was running dies with the process.                  *)
(***************************************************************************)
EXTENDS GroupLimit

CONSTANT MaxSignals   \* bound: more signals are not told apart

ASSUME SignalAssumption == MaxSignals \in Nat \ {0}

VARIABLES
  phase,    \* where the process is
  open,     \* the connections that are open; a connection carries one call at a time
  signals   \* SIGTERM and SIGINT received

shell == <<phase, open, signals>>
serverVars == <<vars, shell>>

Running == {"up", "draining", "closing"}

ServerTypeOK ==
  /\ phase \in {"boot", "exit0", "exit1"} \union Running
  /\ open \subseteq Request
  /\ signals \in 0 .. MaxSignals

ServerInit ==
  /\ Init
  /\ phase = "boot" /\ open = {} /\ signals = 0

-----------------------------------------------------------------------------
(* The process. *)

(* process.exit: connections, transactions and their locks are gone. *)
Exit(code) ==
  /\ phase' = code /\ open' = {} /\ signals' = 0
  /\ Crash

(* bootstrap: the configuration is valid and the database is there. *)
Listen ==
  /\ phase = "boot" /\ phase' = "up"
  /\ UNCHANGED <<open, signals, vars>>

BootFails == phase = "boot" /\ Exit("exit1")

(* pm2 starts the process again. *)
Restart ==
  /\ phase \in {"exit0", "exit1"} /\ phase' = "boot"
  /\ UNCHANGED <<open, signals, vars>>

(* The connections that wait for the answer of a call. *)
Waiting == {r \in open : request[r].pc # "idle"}

(* shutdown: server.close takes no connection any more and drops the idle ones. *)
Shutdown ==
  /\ phase \in {"up", "draining"} /\ phase' = "draining"
  /\ open' = Waiting
  /\ signals' = IF signals < MaxSignals THEN signals + 1 ELSE signals
  /\ UNCHANGED vars

(* A server that is closed already calls back with an error. *)
ShutdownAgain == phase = "closing" /\ Exit("exit1")

\* Mutant: the process goes on although connections are open.
NotDrained ==
  /\ phase = "draining" /\ signals = 1
  /\ phase' = "closing"
  /\ UNCHANGED <<open, signals, vars>>

(* The callback of server.close, after the last connection.  Only the first of
   several has no error. *)
Closed ==
  /\ phase = "draining" /\ open = {}
  /\ \/ signals = 1 /\ phase' = "closing" /\ UNCHANGED <<open, signals, vars>>
     \/ signals > 1 /\ Exit("exit1")

DisconnectDatabase == phase = "closing" /\ (Exit("exit0") \/ Exit("exit1"))

\* Mutant: the timer is set in the callback of server.close.
LateTimer == phase = "closing" /\ Exit("exit1")

(* The timer of ten seconds that every signal sets. *)
ForceExit == phase \in {"draining", "closing"} /\ Exit("exit1")

(* uncaughtException, unhandledRejection *)
Fatal == phase \in Running /\ Exit("exit1")

-----------------------------------------------------------------------------
(* Calls. *)

(* A call comes on a new connection, or on one that was kept alive. *)
Accept(r) ==
  /\ phase = "up" \/ (phase = "draining" /\ r \in open)
  /\ open' = open \union {r}
  /\ \E u \in User, kind \in {"create", "reward"} : Start(r, u, kind)
  /\ UNCHANGED <<phase, signals>>

(* A client goes, or an idle connection expires.  What it asked for goes on. *)
Leaves(r) ==
  /\ r \in open
  /\ open' = open \ {r}
  /\ UNCHANGED <<phase, signals, vars>>

Work(r) == phase \in Running /\ Step(r) /\ UNCHANGED shell
Locks(r) == phase \in Running /\ LockUser(r) /\ UNCHANGED shell
Fails(r) == phase \in Running /\ Abort(r) /\ UNCHANGED shell

(* The other processes delete groups, and premium comes and goes. *)
Elsewhere ==
  /\ \E u \in User : SoftDelete(u) \/ PremiumChanges(u)
  /\ UNCHANGED shell

ServerNext ==
  \/ Listen
  \/ BootFails
  \/ Restart
  \/ Shutdown
  \/ ShutdownAgain
  \/ Closed
  \/ DisconnectDatabase
  \/ ForceExit
  \/ Fatal
  \/ \E r \in Request : Accept(r) \/ Leaves(r) \/ Work(r) \/ Fails(r)
  \/ Elsewhere

(* Timers fire; lock waiters are queued, and a transaction that runs goes on. *)
ServerFairness ==
  /\ WF_serverVars(ForceExit)
  /\ \A r \in Request : SF_serverVars(Locks(r)) /\ WF_serverVars(Work(r))

ServerSafety == ServerInit /\ [][ServerNext]_serverVars
ServerSpec == ServerSafety /\ ServerFairness

-----------------------------------------------------------------------------
(* Properties. *)

(* "drains in-flight requests, then disconnects Prisma": the database is not
   disconnected, and the process does not report success, while a client that
   stayed waits for its answer. *)
DrainsFirst == phase \in {"closing", "exit0"} => Waiting = {}

(* Force-exit if the graceful path stalls: once asked to stop the process does,
   whatever its connections and the database do. *)
StopsInTime == phase \in {"draining", "closing"} ~> phase \in {"exit0", "exit1"}

=============================================================================
