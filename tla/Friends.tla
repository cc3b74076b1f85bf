------------------------------ MODULE Friends -------------------------------
(***************************************************************************)
(* Friend requests and friendships (friend.service.ts, friend.repository.  *)
(* ts), and the push notification a call leaves behind when it answers     *)
(* (notification.service.ts, device-token.repository.ts).  Only an accept  *)
(* runs in a transaction: it holds the row of its request from its update  *)
(* to its commit.  A Process is one call in flight and the push it left;   *)
(* all of them live in one server, which server.ts ends on a rejection     *)
(* nobody handles.                                                         *)
(***************************************************************************)
EXTENDS Naturals

CONSTANTS
  User,
  Process, NoProcess,
  Device, NoUser

ASSUME FriendAssumption == NoProcess \notin Process /\ NoUser \notin User

(* A request goes from d[1] to d[2]; there is one row for each direction. *)
Direction == {d \in User \X User : d[1] # d[2]}
Reverse(d) == <<d[2], d[1]>>

(* canonicalFriendshipPair: one row for both. *)
Pair(d) == {d[1], d[2]}

VARIABLES
  request,  \* status of friend_requests, by direction
  friends,  \* rows of friendships
  rowLock,  \* the transaction that has updated a request and not committed
  device,   \* device_tokens: whose device it is
  req,      \* the call of each process
  push      \* the push each process left behind

vars == <<request, friends, rowLock, device, req, push>>
tables == <<request, friends, rowLock, device>>

(* known: the friendship was there when the transaction looked.  met: another
   call about the pair has been in flight beside this one (read by PendingIsFresh
   only). *)
Idle == [at |-> "idle", op |-> "none", d |-> <<NoUser, NoUser>>, known |-> FALSE, met |-> FALSE]
NoPush == [at |-> "none", tokens |-> {}, to |-> NoUser]

Init ==
  /\ request = [d \in Direction |-> "none"]
  /\ friends = {}
  /\ rowLock = [d \in Direction |-> NoProcess]
  /\ device \in [Device -> User \union {NoUser}]
  /\ req = [p \in Process |-> Idle]
  /\ push = [p \in Process |-> NoPush]

-----------------------------------------------------------------------------
Begin(p, op, d, first) ==
  LET others == {q \in Process : req[q].at # "idle" /\ Pair(req[q].d) = Pair(d)}
      call == [Idle EXCEPT !.at = first, !.op = op, !.d = d, !.met = others # {}]
  IN  /\ req[p].at = "idle" /\ push[p] = NoPush
      /\ req' = [q \in Process |->
                   IF q = p THEN call ELSE [req[q] EXCEPT !.met = @ \/ q \in others]]
      /\ UNCHANGED <<tables, push>>

Goto(p, ok, next) ==
  /\ req' = [req EXCEPT ![p] = IF ok THEN [@ EXCEPT !.at = next] ELSE Idle]
  /\ UNCHANGED <<tables, push>>

Free(d) == rowLock[d] = NoProcess

\* Mutant: a transaction that fails leaves its lock behind.
KeptLocks(p) == rowLock

Unlocked(p) == [d \in Direction |-> IF rowLock[d] = p THEN NoProcess ELSE rowLock[d]]

(* The end of a call: what its transaction has not committed is rolled back. *)
Refuse(p) ==
  /\ req' = [req EXCEPT ![p] = Idle]
  /\ rowLock' = Unlocked(p)
  /\ UNCHANGED <<request, friends, device, push>>

(* "void sendToUser" and the answer. *)
AnswerAndPush(p, u) ==
  /\ req' = [req EXCEPT ![p] = Idle]
  /\ push' = [push EXCEPT ![p] = [NoPush EXCEPT !.at = "findByUserIds", !.to = u]]

(* One statement that updates or inserts the row of a request. *)
Write(p, d, status) ==
  /\ Free(d)
  /\ request' = [request EXCEPT ![d] = status]
  /\ UNCHANGED <<friends, rowLock, device>>

-----------------------------------------------------------------------------
(* sendRequest: the target, the friendship, the request the other way, the one
   this way, and then the write. *)
SendRequest(p) == \E d \in Direction : Begin(p, "send", d, "findTarget")

FindTarget(p) ==
  /\ req[p].at = "findTarget"
  /\ Goto(p, TRUE, "findFriendship")

\* Mutant: friends may be asked again.
SkipFriendship(p) ==
  /\ req[p].at = "findFriendship" /\ req[p].op = "send"
  /\ Goto(p, TRUE, "findIncoming")

FindFriendship(p) ==
  /\ req[p].at = "findFriendship" /\ req[p].op = "send"
  /\ Goto(p, Pair(req[p].d) \notin friends, "findIncoming")

FindIncoming(p) ==
  /\ req[p].at = "findIncoming"
  /\ Goto(p, request[Reverse(req[p].d)] # "PENDING", "findOutgoing")

(* Pending already: the same row is returned once more. *)
FindOutgoing(p) ==
  LET status == request[req[p].d]
  IN  /\ req[p].at = "findOutgoing"
      /\ Goto(p, status # "PENDING", IF status = "none" THEN "createRequest" ELSE "reopenRequest")

CreateRequest(p) ==
  LET d == req[p].d
  IN  /\ req[p].at = "createRequest"
      /\ \/ request[d] # "none" /\ Refuse(p)
         \/ request[d] = "none" /\ Write(p, d, "PENDING") /\ AnswerAndPush(p, d[2])

(* By id, whatever the row has become. *)
ReopenRequest(p) ==
  LET d == req[p].d
  IN  /\ req[p].at = "reopenRequest"
      /\ Write(p, d, "PENDING")
      /\ AnswerAndPush(p, d[2])

-----------------------------------------------------------------------------
(* accept, reject and cancel find the request by its id. *)
Respond(p) ==
  \E d \in Direction, op \in {"accept", "reject", "cancel"} :
    /\ request[d] # "none"
    /\ Begin(p, op, d, "findRequestById")

FindRequestById(p) ==
  /\ req[p].at = "findRequestById"
  /\ Goto(p, request[req[p].d] = "PENDING", IF req[p].op = "accept" THEN "txUpdate" ELSE "update")

(* rejectRequest, cancelRequest: by id, no longer pending or not. *)
UpdateStatus(p) ==
  /\ req[p].at = "update"
  /\ Write(p, req[p].d, IF req[p].op = "reject" THEN "DECLINED" ELSE "CANCELLED")
  /\ req' = [req EXCEPT ![p] = Idle]
  /\ UNCHANGED push

\* Mutant: the status is written outside of the transaction.
UpdateAtOnce(p) ==
  LET d == req[p].d
  IN  /\ req[p].at = "txUpdate"
      /\ Free(d)
      /\ rowLock' = [rowLock EXCEPT ![d] = p]
      /\ request' = [request EXCEPT ![d] = "ACCEPTED"]
      /\ req' = [req EXCEPT ![p].at = "txFind"]
      /\ UNCHANGED <<friends, device, push>>

(* acceptRequestAndCreateFriendship.  Nobody sees the update before the commit. *)
TxUpdate(p) ==
  LET d == req[p].d
  IN  /\ req[p].at = "txUpdate"
      /\ Free(d)
      /\ rowLock' = [rowLock EXCEPT ![d] = p]
      /\ req' = [req EXCEPT ![p].at = "txFind"]
      /\ UNCHANGED <<request, friends, device, push>>

TxFind(p) ==
  LET known == Pair(req[p].d) \in friends
  IN  /\ req[p].at = "txFind"
      /\ req' = [req EXCEPT ![p].at = IF known THEN "commit" ELSE "txInsert", ![p].known = known]
      /\ UNCHANGED <<tables, push>>

(* Has the transaction of p inserted the friendship of d? *)
Inserted(p, d) == req[p].at = "commit" /\ ~req[p].known /\ Pair(req[p].d) = Pair(d)

(* The unique index: refused when the pair is there, waiting while another
   transaction has inserted it and not committed. *)
TxInsert(p) ==
  LET d == req[p].d
  IN  /\ req[p].at = "txInsert"
      /\ \A q \in Process : ~Inserted(q, d)
      /\ \/ Pair(d) \in friends /\ Refuse(p)
         \/ Pair(d) \notin friends /\ Goto(p, TRUE, "commit")

Commit(p) ==
  LET d == req[p].d
  IN  /\ req[p].at = "commit"
      /\ request' = [request EXCEPT ![d] = "ACCEPTED"]
      /\ friends' = IF req[p].known THEN friends ELSE friends \union {Pair(d)}
      /\ rowLock' = Unlocked(p)
      /\ req' = [req EXCEPT ![p] = [Idle EXCEPT !.at = "notify", !.d = d]]
      /\ UNCHANGED <<device, push>>

(* Once the name the push needs has been looked up.  accept then reads the
   requester's name for the feed, which changes nothing here. *)
Notify(p) ==
  /\ req[p].at = "notify"
  /\ AnswerAndPush(p, req[p].d[1])
  /\ UNCHANGED tables

RemoveFriend(p) == \E d \in Direction : Begin(p, "remove", d, "findFriendship")

FindFriend(p) ==
  /\ req[p].at = "findFriendship" /\ req[p].op = "remove"
  /\ Goto(p, Pair(req[p].d) \in friends, "removeFriendship")

RemoveFriendship(p) ==
  /\ req[p].at = "removeFriendship"
  /\ friends' = friends \ {Pair(req[p].d)}
  /\ req' = [req EXCEPT ![p] = Idle]
  /\ UNCHANGED <<request, rowLock, device, push>>

-----------------------------------------------------------------------------
(* Search and contact sync: decorateUsers looks the friendships and the requests
   up in two queries at once. *)

FriendshipsBetween(rows, d) == rows \intersect {Pair(d)}

\* Mutant: requests that have been answered count.
AllRequestsBetween(status, d) == {e \in {d, Reverse(d)} : status[e] # "none"}

ActiveRequestsBetween(status, d) == {e \in {d, Reverse(d)} : status[e] = "PENDING"}

(* What d[1] is told about d[2]; of two requests, either one. *)
Labels(rows, status, d) ==
  IF FriendshipsBetween(rows, d) # {} THEN {"friend"}
  ELSE IF ActiveRequestsBetween(status, d) = {} THEN {"none"}
  ELSE {IF e = d THEN "request_outgoing" ELSE "request_incoming" : e \in ActiveRequestsBetween(status, d)}

(* searchUsers, findUsersByPhoneSuffixes: whom the text or the contacts match,
   but for the viewer. *)
SearchUsers(viewer, matched) == matched \ {viewer}

Search(rows, status, viewer, matched) ==
  UNION {{[user |-> u, label |-> label] : label \in Labels(rows, status, <<viewer, u>>)} :
           u \in SearchUsers(viewer, matched)}

(* listRequests: again two queries at once. *)
ListIncoming(status, viewer) == {d \in Direction : d[2] = viewer /\ status[d] = "PENDING"}
ListOutgoing(status, viewer) == {d \in Direction : d[1] = viewer /\ status[d] = "PENDING"}

ListRequests(status, laterStatus, viewer) ==
  {[incoming |-> ListIncoming(status, viewer), outgoing |-> ListOutgoing(laterStatus, viewer)],
   [incoming |-> ListIncoming(laterStatus, viewer), outgoing |-> ListOutgoing(status, viewer)]}

-----------------------------------------------------------------------------
(* Devices, and the pushes: sendToUsers. *)
RegisterToken(t, u) ==
  /\ device' = [device EXCEPT ![t] = u]
  /\ device' # device
  /\ UNCHANGED <<request, friends, rowLock, req, push>>

RemoveToken(t) == RegisterToken(t, NoUser)

FindByUserIds(p) ==
  LET tokens == {t \in Device : device[t] = push[p].to}
  IN  /\ push[p].at = "findByUserIds"
      /\ push' = [push EXCEPT ![p] = IF tokens = {} THEN NoPush ELSE [NoPush EXCEPT !.at = "send", !.tokens = tokens]]
      /\ UNCHANGED <<tables, req>>

(* What Google says of each device; an error of the call itself is caught. *)
SendEachForMulticast(p) ==
  /\ push[p].at = "send"
  /\ \E invalid \in SUBSET push[p].tokens :
       push' = [push EXCEPT ![p] = IF invalid = {} THEN NoPush ELSE [NoPush EXCEPT !.at = "deleteMany", !.tokens = invalid]]
  /\ UNCHANGED <<tables, req>>

DeleteMany(p) ==
  /\ push[p].at = "deleteMany"
  /\ push' = [push EXCEPT ![p] = NoPush]
  /\ device' = [t \in Device |-> IF t \in push[p].tokens THEN NoUser ELSE device[t]]
  /\ UNCHANGED <<request, friends, rowLock, req>>

(* The lookup is outside of the try: its failure is a rejection nobody handles,
   and the server exits.  Calls end without an answer, transactions roll back. *)
LookupFails(p) ==
  /\ push[p].at = "findByUserIds"
  /\ req' = [q \in Process |-> Idle]
  /\ push' = [q \in Process |-> NoPush]
  /\ rowLock' = [d \in Direction |-> NoProcess]
  /\ UNCHANGED <<request, friends, device>>

(* A query of the call fails, or a look-up finds nobody. *)
Abort(p) ==
  /\ req[p].at # "idle"
  /\ Refuse(p)

Start(p) == SendRequest(p) \/ Respond(p) \/ RemoveFriend(p)

Step(p) ==
  \/ FindTarget(p) \/ FindFriendship(p) \/ FindIncoming(p) \/ FindOutgoing(p)
  \/ CreateRequest(p) \/ ReopenRequest(p)
  \/ FindRequestById(p) \/ UpdateStatus(p)
  \/ TxUpdate(p) \/ TxFind(p) \/ TxInsert(p) \/ Commit(p) \/ Notify(p)
  \/ FindFriend(p) \/ RemoveFriendship(p)

PushStep(p) == FindByUserIds(p) \/ SendEachForMulticast(p) \/ DeleteMany(p)

Next ==
  \/ \E p \in Process : Start(p) \/ Step(p) \/ PushStep(p) \/ LookupFails(p) \/ Abort(p)
  \/ \E t \in Device : RemoveToken(t) \/ \E u \in User : RegisterToken(t, u)

Spec == Init /\ [][Next]_vars

(* Node runs the continuation of a query once it has returned; Postgres queues
   the waiters of a row. *)
FairSpec == Spec /\ \A p \in Process : SF_vars(Step(p))
-----------------------------------------------------------------------------
(* Properties. *)

(* A request is accepted and the friendship made in one step, crash or no
   crash: an accepted request without friendship comes only of a removal
   between the transaction's look at the friendship and its commit. *)
AcceptedTogether ==
  [][\A d \in Direction :
       request[d] # "ACCEPTED" /\ request'[d] = "ACCEPTED" =>
         \/ Pair(d) \in friends'
         \/ \E p \in Process : req[p].d = d /\ req[p].known /\ Pair(d) \notin friends]_vars

(* A pair that are friends, or where the one has asked the other, is not asked
   again, the other way round: but calls that overlap read before they write, so
   two can ask each other at once, and one can ask a friend.  Such a pair is the
   work of a call that had another beside it. *)
PendingIsFresh ==
  [][\A d \in Direction :
       /\ request[d] # "PENDING" /\ request'[d] = "PENDING"
       /\ Pair(d) \in friends \/ request[Reverse(d)] = "PENDING"
       => \E p \in Process : req[p].d = d /\ req[p].op = "send" /\ req[p].met]_vars

Holds(label, d) ==
  CASE label = "friend" -> Pair(d) \in friends
    [] label = "request_outgoing" -> request[d] = "PENDING"
    [] label = "request_incoming" -> request[Reverse(d)] = "PENDING"
    [] label = "none" ->
         Pair(d) \notin friends /\ "PENDING" \notin {request[d], request[Reverse(d)]}

(* Whichever of its two look-ups a commit comes between, a search names a relation
   the pair have or had; only a pair that turns from a request to a friendship may
   be called strangers.  And the lists show a request either way only of two who
   did ask each other. *)
LabelsFit ==
  [][/\ \A viewer \in User, matched \in SUBSET User :
          \A found \in Search(friends, request', viewer, matched)
                         \union Search(friends', request, viewer, matched)
                         \union Search(friends', request', viewer, matched) :
            LET d == <<viewer, found.user>>
            IN  \/ Holds(found.label, d) \/ Holds(found.label, d)'
                \/ /\ found.label = "none"
                   /\ \E e \in {d, Reverse(d)} : request[e] = "PENDING" /\ request'[e] = "ACCEPTED"
     /\ \A viewer \in User :
          \A lists \in ListRequests(request, request', viewer) :
            \A d \in lists.incoming :
              Reverse(d) \in lists.outgoing =>
                \/ request[d] = "PENDING" /\ request[Reverse(d)] = "PENDING"
                \/ request'[d] = "PENDING" /\ request'[Reverse(d)] = "PENDING"]_vars

(* Every call ends: no lock is held for ever and nobody waits in a circle. *)
CallsEnd == \A p \in Process : req[p].at # "idle" ~> req[p].at = "idle"

(* "Never crash the caller on notification failure": the end of a push touches no
   call. *)
NotificationsAreHarmless ==
  [][(\E p \in Process : push[p] # NoPush /\ push'[p] = NoPush) => req' = req]_vars
=============================================================================
