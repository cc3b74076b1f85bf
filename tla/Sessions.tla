------------------------------ MODULE Sessions ------------------------------
(***************************************************************************)
(* Accounts and their token pairs: auth.service.ts, token.service.ts, the  *)
(* user and refresh-token repositories, require-auth.ts and the cleanup    *)
(* job.  No call runs in a transaction: every query is a step, and other   *)
(* calls commit in between.  A Process is one call in flight.  A profile   *)
(* is its handle: phone is unique in the same way, and the fields that are *)
(* not are written and wiped along with it.  Firebase vouches for an       *)
(* Identity; whether dues stand in the way of a deletion is Ledger's.      *)
(***************************************************************************)
EXTENDS Integers, Sequences, FiniteSets

CONSTANTS
  Identity, NoIdentity,  \* Firebase users
  Handle, NoHandle,      \* what HANDLE_PATTERN lets a user pick
  Candidates,            \* the handles generateUniqueHandle tries, by identity
  AnonHandle,            \* "deleted_" and half of the id, by account
  Process,
  MaxAccounts,           \* bounds on the rows of users and of refresh_tokens
  MaxPairs

ASSUME SessionAssumption ==
  /\ NoIdentity \notin Identity /\ NoHandle \notin Handle
  /\ Candidates \in [Identity -> Seq(Handle)]
  /\ MaxAccounts \in Nat /\ MaxPairs \in Nat
  /\ IsFiniteSet(Process)
  /\ AnonHandle \in [1 .. MaxAccounts -> Handle]  \* it fits the pattern: anybody may have picked it

Account == 1 .. MaxAccounts
Pair == 1 .. MaxPairs
None == 0

VARIABLES
  accounts,  \* rows of users
  pairs,     \* token pairs; row: the refresh token's row in refresh_tokens
  req        \* the call of each process

vars == <<accounts, pairs, req>>

NoAccount ==
  [state |-> "none", identity |-> NoIdentity, handle |-> NoHandle]

(* parent: the pair it was exchanged for.  access and fresh: its access token,
   its refresh token have not expired. *)
NoPair == [owner |-> None, parent |-> None, row |-> "none", access |-> FALSE, fresh |-> FALSE]

Idle ==
  [at |-> "idle", op |-> "none", pair |-> None, account |-> None,
   identity |-> NoIdentity, handle |-> NoHandle, try |-> 1]

Init ==
  /\ accounts = [a \in Account |-> NoAccount]
  /\ pairs = [t \in Pair |-> NoPair]
  /\ req = [p \in Process |-> Idle]

Live(a) == accounts[a].state = "live"
Gone(a) == accounts[a].state = "gone"
Rows == {a \in Account : accounts[a].state # "none"}

-----------------------------------------------------------------------------
Begin(p, call) ==
  /\ req[p].at = "idle"
  /\ req' = [req EXCEPT ![p] = call]
  /\ UNCHANGED <<accounts, pairs>>

Goto(p, next) ==
  /\ req' = [req EXCEPT ![p].at = next]
  /\ UNCHANGED <<accounts, pairs>>

End(p) == req' = [req EXCEPT ![p] = Idle]

Refuse(p) == End(p) /\ UNCHANGED <<accounts, pairs>>

(* A call about to create a pair for a, in exchange for t if there is one. *)
Issuing(a, t) ==
  [Idle EXCEPT !.at = "issue", !.op = IF t = None THEN "signIn" ELSE "refresh", !.account = a, !.pair = t]

(* Google sign-in: the account of the identity, or a new one. *)
GoogleSignIn(p) ==
  \E i \in Identity :
    Begin(p, [Idle EXCEPT !.at = "findByFirebaseUid", !.op = "signIn", !.identity = i])

FindByFirebaseUid(p) ==
  LET mine == {a \in Account : Live(a) /\ accounts[a].identity = req[p].identity}
  IN  /\ req[p].at = "findByFirebaseUid"
      /\ \/ mine = {} /\ Goto(p, "findByHandle")
         \/ \E a \in mine :
              /\ req' = [req EXCEPT ![p] = Issuing(a, None)]
              /\ UNCHANGED <<accounts, pairs>>

Taken(h) == \E a \in Account : Live(a) /\ accounts[a].handle = h

(* generateUniqueHandle: one query per candidate, until one is free. *)
GenerateUniqueHandle(p) ==
  LET names == Candidates[req[p].identity]
      try == req[p].try
  IN  /\ req[p].at = "findByHandle" /\ req[p].op = "signIn"
      /\ \/ try > Len(names) /\ Refuse(p)
         \/ /\ try <= Len(names)
            /\ req' = [req EXCEPT ![p] =
                 IF Taken(names[try]) THEN [@ EXCEPT !.try = try + 1]
                   ELSE [@ EXCEPT !.at = "createUser", !.handle = names[try]]]
            /\ UNCHANGED <<accounts, pairs>>

\* Mutant: the columns of users are not unique.
CreateAnyUser(p) ==
  /\ req[p].at = "createUser"
  /\ \E a \in Account \ Rows :
       /\ \A b \in Account \ Rows : a <= b
       /\ accounts' = [accounts EXCEPT ![a] =
            [state |-> "live", identity |-> req[p].identity, handle |-> req[p].handle]]
       /\ req' = [req EXCEPT ![p] = Issuing(a, None)]
       /\ UNCHANGED pairs

(* The insert, unless the identity or the handle has been taken since. *)
CreateUser(p) ==
  /\ req[p].at = "createUser"
  /\ \/ /\ \E b \in Rows : \/ accounts[b].identity = req[p].identity
                           \/ accounts[b].handle = req[p].handle
        /\ Refuse(p)
     \/ /\ \A b \in Rows : /\ accounts[b].identity # req[p].identity
                           /\ accounts[b].handle # req[p].handle
        /\ \E a \in Account \ Rows :
             /\ \A b \in Account \ Rows : a <= b
             /\ accounts' = [accounts EXCEPT ![a] =
                  [state |-> "live", identity |-> req[p].identity, handle |-> req[p].handle]]
             /\ req' = [req EXCEPT ![p] = Issuing(a, None)]
        /\ UNCHANGED pairs

(* issueSession, and the end of refresh: the row of a new pair.  Nothing that
   follows changes a table.  A pair whose answer is lost is one nobody uses. *)
CreateToken(p) ==
  /\ req[p].at = "issue"
  /\ \E n \in Pair :
       /\ pairs[n].row = "none" /\ \A t \in Pair : pairs[t].row = "none" => n <= t
       /\ pairs' = [pairs EXCEPT ![n] =
            [owner |-> req[p].account, parent |-> req[p].pair, row |-> "active",
             access |-> TRUE, fresh |-> TRUE]]
  /\ End(p)
  /\ UNCHANGED accounts

-----------------------------------------------------------------------------
(* refresh: verify, find, revoke, create. *)
Refresh(p) ==
  \E t \in Pair :
    /\ pairs[t].fresh
    /\ Begin(p, [Idle EXCEPT !.at = "findActiveByHash", !.op = "refresh", !.pair = t])

\* Mutant: the lookup forgets "revokedAt: null".
FindByHash(p) ==
  LET t == pairs[req[p].pair]
  IN  /\ req[p].at = "findActiveByHash"
      /\ \/ t.row \in {"active", "revoked"} /\ t.fresh /\ Goto(p, "findById")
         \/ ~(t.row \in {"active", "revoked"} /\ t.fresh) /\ Refuse(p)

FindActiveByHash(p) ==
  LET t == pairs[req[p].pair]
  IN  /\ req[p].at = "findActiveByHash"
      /\ \/ t.row = "active" /\ t.fresh /\ Goto(p, "findById")
         \/ ~(t.row = "active" /\ t.fresh) /\ Refuse(p)

(* Whose call it is: the subject of the refresh token, or of the access token. *)
Subject(p) == IF req[p].op = "refresh" THEN pairs[req[p].pair].owner ELSE req[p].account

\* Mutant: a deleted user is found as well.
FindAnyById(p) ==
  /\ req[p].at = "findById"
  /\ req' = [req EXCEPT ![p].at = IF req[p].op = "refresh" THEN "revokeById" ELSE "revokeAll",
                        ![p].account = Subject(p)]
  /\ UNCHANGED <<accounts, pairs>>

(* Before a deletion goes on, hasOutstandingBalance may refuse it (Abort). *)
FindById(p) ==
  /\ req[p].at = "findById"
  /\ \/ ~Live(Subject(p)) /\ Refuse(p)
     \/ /\ Live(Subject(p))
        /\ req' = [req EXCEPT ![p].at = IF req[p].op = "refresh" THEN "revokeById" ELSE "revokeAll",
                              ![p].account = Subject(p)]
        /\ UNCHANGED <<accounts, pairs>>

\* Mutant: the exchanged token is not revoked.
KeepOld(p) ==
  /\ req[p].at = "revokeById"
  /\ Goto(p, "issue")

(* By id: revoked already or not, but the row must still be there. *)
RevokeById(p) ==
  LET t == req[p].pair
  IN  /\ req[p].at = "revokeById"
      /\ \/ pairs[t].row = "deleted" /\ Refuse(p)
         \/ /\ pairs[t].row # "deleted"
            /\ pairs' = [pairs EXCEPT ![t].row = "revoked"]
            /\ req' = [req EXCEPT ![p].at = "issue"]
            /\ UNCHANGED accounts

(* logout: revokeByHash is a find and an update. *)
Logout(p) ==
  \E t \in Pair :
    /\ pairs[t].row # "none"
    /\ Begin(p, [Idle EXCEPT !.at = "findUnique", !.op = "logout", !.pair = t])

FindUnique(p) ==
  /\ req[p].at = "findUnique"
  /\ \/ pairs[req[p].pair].row = "active" /\ Goto(p, "revokeByHash")
     \/ pairs[req[p].pair].row # "active" /\ Refuse(p)

RevokeByHash(p) ==
  LET t == req[p].pair
  IN  /\ req[p].at = "revokeByHash"
      /\ \/ pairs[t].row = "deleted" /\ Refuse(p)
         \/ /\ pairs[t].row # "deleted"
            /\ pairs' = [pairs EXCEPT ![t].row = "revoked"]
            /\ End(p)
            /\ UNCHANGED accounts

-----------------------------------------------------------------------------
(* requireAuth checks the access token, and asks no table. *)
Authorised(t) == pairs[t].access

UpdateProfile(p) ==
  \E t \in Pair, h \in Handle :
    /\ Authorised(t)
    /\ Begin(p, [Idle EXCEPT !.at = "findByHandle", !.op = "profile",
                             !.account = pairs[t].owner, !.handle = h])

FindByHandle(p) ==
  LET others == {a \in Account \ {req[p].account} : Live(a) /\ accounts[a].handle = req[p].handle}
  IN  /\ req[p].at = "findByHandle" /\ req[p].op = "profile"
      /\ \/ others = {} /\ Goto(p, "update")
         \/ others # {} /\ Refuse(p)

(* By id, deleted or not; the handle must be nobody else's. *)
Update(p) ==
  LET a == req[p].account
  IN  /\ req[p].at = "update"
      /\ \A b \in Rows \ {a} : accounts[b].handle # req[p].handle
      /\ accounts' = [accounts EXCEPT ![a].handle = req[p].handle]
      /\ End(p)
      /\ UNCHANGED pairs

DeleteAccount(p) ==
  \E t \in Pair :
    /\ Authorised(t)
    /\ Begin(p, [Idle EXCEPT !.at = "findById", !.op = "delete", !.account = pairs[t].owner])

RevokeAllForUser(p) ==
  /\ req[p].at = "revokeAll"
  /\ pairs' = [t \in Pair |->
       IF pairs[t].owner = req[p].account /\ pairs[t].row = "active"
         THEN [pairs[t] EXCEPT !.row = "revoked"] ELSE pairs[t]]
  /\ req' = [req EXCEPT ![p].at = "softDelete"]
  /\ UNCHANGED accounts

(* By id, like Update: the anonymous handle must be nobody else's.  When it is,
   the sessions are revoked and the account stays (Abort). *)
SoftDelete(p) ==
  LET a == req[p].account
  IN  /\ req[p].at = "softDelete"
      /\ \A b \in Rows \ {a} : accounts[b].handle # AnonHandle[a]
      /\ accounts' = [accounts EXCEPT ![a] =
           [state |-> "gone", identity |-> NoIdentity, handle |-> AnonHandle[a]]]
      /\ End(p)
      /\ UNCHANGED pairs

-----------------------------------------------------------------------------
(* A query fails, a unique index refuses, the answer is lost, the process dies. *)
Abort(p) ==
  /\ req[p].at # "idle"
  /\ Refuse(p)

(* Tokens of a kind live equally long and expire in the order of their pairs,
   the access token of a pair before its refresh token. *)
ExpireAccess(t) ==
  /\ pairs[t].access
  /\ \A s \in Pair : s < t => ~pairs[s].access
  /\ pairs' = [pairs EXCEPT ![t].access = FALSE]
  /\ UNCHANGED <<accounts, req>>

ExpireRefresh(t) ==
  /\ pairs[t].fresh /\ ~pairs[t].access
  /\ \A s \in Pair : s < t => ~pairs[s].fresh
  /\ pairs' = [pairs EXCEPT ![t].fresh = FALSE]
  /\ UNCHANGED <<accounts, req>>

(* deleteMany, row by row: rows revoked or expired long enough ago. *)
CleanupExpiredTokens(t) ==
  /\ pairs[t].row = "revoked" \/ (pairs[t].row = "active" /\ ~pairs[t].fresh)
  /\ pairs' = [pairs EXCEPT ![t].row = "deleted"]
  /\ UNCHANGED <<accounts, req>>

Start(p) == GoogleSignIn(p) \/ Refresh(p) \/ Logout(p) \/ UpdateProfile(p) \/ DeleteAccount(p)

Step(p) ==
  \/ FindByFirebaseUid(p) \/ GenerateUniqueHandle(p) \/ CreateUser(p) \/ CreateToken(p)
  \/ FindActiveByHash(p) \/ FindById(p) \/ RevokeById(p)
  \/ FindUnique(p) \/ RevokeByHash(p)
  \/ FindByHandle(p) \/ Update(p)
  \/ RevokeAllForUser(p) \/ SoftDelete(p)

Next ==
  \/ \E p \in Process : Start(p) \/ Step(p) \/ Abort(p)
  \/ \E t \in Pair : ExpireAccess(t) \/ ExpireRefresh(t) \/ CleanupExpiredTokens(t)

Spec == Init /\ [][Next]_vars
-----------------------------------------------------------------------------
(* Properties. *)

(* Whatever sign-ins and profile updates run at once, an identity has one live
   account, and no two rows, deleted ones included, share a handle. *)
OneAccountPerIdentity ==
  \A a, b \in Rows : a # b =>
    /\ accounts[a].handle # accounts[b].handle
    /\ Live(a) /\ Live(b) => accounts[a].identity # accounts[b].identity

(* A pair is only ever created once the refresh token it was exchanged for has
   ceased to be accepted: a crash in between loses the session, it does not
   leave two. *)
RotatedOut ==
  \A n \in Pair : pairs[n].parent # None => pairs[pairs[n].parent].row # "active"

Heirs(t) == {n \in Pair : pairs[n].parent = t}

(* The refreshes that found t active and have not created their pair yet. *)
Refreshing(t) ==
  {p \in Process : req[p].op = "refresh" /\ req[p].pair = t
                     /\ req[p].at \in {"findById", "revokeById", "issue"}}

(* "single-use" as far as the code gets: once a refresh token is revoked, by a
   refresh, a logout or a deletion, nobody new can exchange it; only refreshes
   that found it active before may still do so. *)
RevokedDries ==
  [][\A t \in Pair : pairs[t].row \in {"revoked", "deleted"} =>
       Cardinality(Heirs(t)') + Cardinality(Refreshing(t)')
         <= Cardinality(Heirs(t)) + Cardinality(Refreshing(t))]_vars

(* No access token of a is in anybody's hands, and no call of a in flight. *)
Quiet(a) ==
  /\ \A t \in Pair : pairs[t].owner = a => ~Authorised(t)
  /\ \A p \in Process : req[p].account # a

(* A deleted account, once its last access token has expired and the calls
   that were in flight are over, stays as it is for good: no refresh token
   left behind by a racing sign-in or refresh brings it back, nothing personal
   is written to it any more. *)
ErasedIsFinal ==
  [][\A a \in Account : Gone(a) /\ Quiet(a) =>
       accounts'[a] = accounts[a] /\ Quiet(a)']_vars
=============================================================================
