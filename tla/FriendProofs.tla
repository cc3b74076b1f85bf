---------------------------- MODULE FriendProofs ----------------------------
(***************************************************************************)
(* Friend requests, for every number of users, calls and devices.          *)
(***************************************************************************)
EXTENDS Friends, TLAPS

CallType ==
  [at : {"idle", "findTarget", "findFriendship", "findIncoming", "findOutgoing", "createRequest",
         "reopenRequest", "findRequestById", "update", "txUpdate", "txFind", "txInsert", "commit",
         "notify", "removeFriendship"},
   op : {"none", "send", "accept", "reject", "cancel", "remove"},
   d : Direction \union {<<NoUser, NoUser>>}, known : BOOLEAN, met : BOOLEAN]

TypeInv ==
  /\ request \in [Direction -> {"none", "PENDING", "ACCEPTED", "DECLINED", "CANCELLED"}]
  /\ req \in [Process -> CallType]
  /\ \A p \in Process : req[p].at # "idle" => req[p].d \in Direction

Sending(p) == req[p].op = "send" /\ req[p].at # "idle"

(* The writes of sendRequest belong to a send, and as long as no other call
   about the pair has been in flight, what the send has read still holds. *)
Checked(p) == req[p].at \in {"findOutgoing", "createRequest", "reopenRequest"}

SendFits(p) ==
  /\ req[p].at = "findIncoming" \/ Checked(p) => req[p].op = "send"
  /\ Sending(p) /\ ~req[p].met =>
       /\ \A q \in Process \ {p} : req[q].at # "idle" => Pair(req[q].d) # Pair(req[p].d)
       /\ req[p].at = "findIncoming" \/ Checked(p) => Pair(req[p].d) \notin friends
       /\ Checked(p) => request[Reverse(req[p].d)] # "PENDING"

SendInv == \A p \in Process : SendFits(p)

IInv == TypeInv /\ SendInv

-----------------------------------------------------------------------------
(* The two directions of a pair. *)
LEMMA Directions ==
  ASSUME NEW d \in Direction
  PROVE  Reverse(d) \in Direction /\ Pair(Reverse(d)) = Pair(d) /\ Reverse(d) # d
  BY DEF Direction, Reverse, Pair

(* A step of one call: it keeps its pair or ends, and writes nothing but the
   request it is about and the friendship of its pair. *)
Frame(p) ==
  /\ \A q \in Process \ {p} : req'[q] = req[q]
  /\ \/ req'[p].at = "idle" /\ req'[p].op = "none"
     \/ req[p].at # "idle" /\ req'[p].d = req[p].d
  /\ \A d \in Direction \ {req[p].d} : request'[d] = request[d]
  /\ friends' \subseteq friends \union {Pair(req[p].d)}

LEMMA StepFrame ==
  ASSUME TypeInv, NEW p \in Process, Step(p) \/ Abort(p)
  PROVE  Frame(p) /\ req[p].at # "idle"
<1>0. req \in [Process -> CallType] /\ req[p] \in CallType
  BY DEF TypeInv
<1>1. ASSUME Refuse(p), req[p].at # "idle" PROVE Frame(p)
  BY <1>0, <1>1 DEF Refuse, Frame, Idle
<1>2. ASSUME NEW ok, NEW next, Goto(p, ok, next), req[p].at # "idle" PROVE Frame(p)
  BY <1>0, <1>2 DEF Goto, Frame, Idle, CallType, tables
<1>3. CASE FindTarget(p) \/ FindFriendship(p) \/ FindIncoming(p) \/ FindOutgoing(p)
           \/ FindRequestById(p) \/ FindFriend(p)
  BY <1>2, <1>3 DEF FindTarget, FindFriendship, FindIncoming, FindOutgoing, FindRequestById, FindFriend
<1>4. CASE CreateRequest(p)
  BY <1>0, <1>1, <1>4 DEF CreateRequest, Write, AnswerAndPush, Frame, Idle, TypeInv
<1>5. CASE ReopenRequest(p) \/ UpdateStatus(p)
  BY <1>0, <1>5 DEF ReopenRequest, UpdateStatus, Write, AnswerAndPush, Frame, Idle, TypeInv
<1>6. CASE TxUpdate(p) \/ TxFind(p)
  BY <1>0, <1>6 DEF TxUpdate, TxFind, Frame, tables, CallType
<1>7. CASE TxInsert(p)
  BY <1>1, <1>2, <1>7 DEF TxInsert
<1>8. CASE Commit(p)
  BY <1>0, <1>8 DEF Commit, Frame, Idle, TypeInv
<1>9. CASE Notify(p) \/ RemoveFriendship(p)
  BY <1>0, <1>9 DEF Notify, RemoveFriendship, AnswerAndPush, tables, Frame, Idle
<1> QED
  BY <1>1, <1>3, <1>4, <1>5, <1>6, <1>7, <1>8, <1>9 DEF Step, Abort

(* Types, one lemma for each kind of step. *)
LEMMA StepTyped ==
  ASSUME TypeInv, NEW p \in Process, Step(p) \/ Abort(p)
  PROVE  TypeInv'
<1>0. req \in [Process -> CallType] /\ req[p] \in CallType /\ Idle \in CallType /\ Idle.at = "idle"
  BY DEF TypeInv, CallType, Idle
<1>1. Frame(p) /\ req[p].at # "idle" /\ req[p].d \in Direction
  BY StepFrame DEF TypeInv
<1>2. ASSUME NEW q \in Process, req'[q].at # "idle" PROVE req'[q].d \in Direction
  BY <1>1, <1>2 DEF Frame, TypeInv
<1>3. ASSUME Refuse(p) PROVE request' = request /\ req' \in [Process -> CallType]
  BY <1>0, <1>3 DEF Refuse
<1>4. ASSUME NEW ok, NEW next, Goto(p, ok, next), [req[p] EXCEPT !.at = next] \in CallType
      PROVE  request' = request /\ req' \in [Process -> CallType]
  BY <1>0, <1>4 DEF Goto, tables
<1>5. CASE FindTarget(p) \/ FindFriendship(p) \/ FindIncoming(p) \/ FindRequestById(p) \/ FindFriend(p)
  <2>1. \A next \in {"findFriendship", "findIncoming", "findOutgoing", "txUpdate", "update", "removeFriendship"} :
          [req[p] EXCEPT !.at = next] \in CallType
    BY <1>0 DEF CallType
  <2>2. request' = request /\ req' \in [Process -> CallType]
    BY <1>4, <1>5, <2>1 DEF FindTarget, FindFriendship, FindIncoming, FindRequestById, FindFriend
  <2> QED
    BY <1>2, <2>2 DEF TypeInv
<1>6. CASE FindOutgoing(p)
  <2>1. [req[p] EXCEPT !.at = "createRequest"] \in CallType /\ [req[p] EXCEPT !.at = "reopenRequest"] \in CallType
    BY <1>0 DEF CallType
  <2>2. request' = request /\ req' \in [Process -> CallType]
    BY <1>4, <1>6, <2>1 DEF FindOutgoing
  <2> QED
    BY <1>2, <2>2 DEF TypeInv
<1>7. CASE CreateRequest(p) \/ ReopenRequest(p) \/ UpdateStatus(p)
  <2>1. CASE Refuse(p)
    BY <1>2, <1>3, <2>1 DEF TypeInv
  <2>2. CASE ~Refuse(p)
    <3>1. PICK status \in {"PENDING", "DECLINED", "CANCELLED"} :
            request' = [request EXCEPT ![req[p].d] = status] /\ req' = [req EXCEPT ![p] = Idle]
      BY <1>7, <2>2 DEF CreateRequest, ReopenRequest, UpdateStatus, Write, AnswerAndPush
    <3> QED
      BY <1>0, <1>1, <1>2, <3>1 DEF TypeInv
  <2> QED
    BY <2>1, <2>2
<1>8. CASE TxUpdate(p) \/ TxFind(p)
  <2>1. req' \in [Process -> CallType] /\ request' = request
    BY <1>0, <1>8 DEF TxUpdate, TxFind, tables, CallType
  <2> QED
    BY <1>2, <2>1 DEF TypeInv
<1>9. CASE TxInsert(p)
  <2>1. [req[p] EXCEPT !.at = "commit"] \in CallType
    BY <1>0 DEF CallType
  <2>2. request' = request /\ req' \in [Process -> CallType]
    BY <1>3, <1>4, <1>9, <2>1 DEF TxInsert
  <2> QED
    BY <1>2, <2>2 DEF TypeInv
<1>10. CASE Commit(p)
  <2>1. [Idle EXCEPT !.at = "notify", !.d = req[p].d] \in CallType
    BY <1>1 DEF CallType, Idle
  <2>2. req' \in [Process -> CallType] /\ request' = [request EXCEPT ![req[p].d] = "ACCEPTED"]
    BY <1>0, <1>10, <2>1 DEF Commit
  <2> QED
    BY <1>1, <1>2, <2>2 DEF TypeInv
<1>11. CASE Notify(p) \/ RemoveFriendship(p) \/ Abort(p)
  <2>1. request' = request /\ req' = [req EXCEPT ![p] = Idle]
    BY <1>11 DEF Notify, RemoveFriendship, Abort, Refuse, AnswerAndPush, tables
  <2> QED
    BY <1>0, <1>2, <2>1 DEF TypeInv
<1> QED
  BY <1>5, <1>6, <1>7, <1>8, <1>9, <1>10, <1>11 DEF Step

(* The step of one call leaves what another has read, if the pairs differ. *)
LEMMA Bystander ==
  ASSUME IInv, NEW p \in Process, NEW q \in Process \ {p}, Frame(q), req[q].at # "idle"
  PROVE  SendFits(p)'
<1>0. SendFits(p) /\ req'[p] = req[p] /\ (req[p].at # "idle" => req[p].d \in Direction) /\ req[q].d \in Direction
  BY DEF IInv, SendInv, Frame, TypeInv
<1>1. ASSUME Sending(p), ~req[p].met
      PROVE  /\ \A r \in Process \ {p} : req'[r].at # "idle" => Pair(req'[r].d) # Pair(req[p].d)
             /\ Pair(req[p].d) \notin friends => Pair(req[p].d) \notin friends'
             /\ request'[Reverse(req[p].d)] = request[Reverse(req[p].d)]
  <2>1. \A r \in Process \ {p} : req[r].at # "idle" => Pair(req[r].d) # Pair(req[p].d)
    BY <1>0, <1>1 DEF SendFits
  <2>2. Pair(req[q].d) # Pair(req[p].d)
    BY <2>1
  <2>3. Reverse(req[p].d) \in Direction \ {req[q].d}
    BY <1>0, <1>1, <2>2, Directions DEF Sending
  <2> QED
    BY <2>1, <2>2, <2>3 DEF Frame
<1> QED
  BY <1>0, <1>1 DEF SendFits, Sending, Checked

(* The call itself: it stays alone, and reads before it goes on. *)
LEMMA Sender ==
  ASSUME IInv, NEW p \in Process, Step(p) \/ Abort(p)
  PROVE  SendFits(p)'
<1>0. /\ req \in [Process -> CallType] /\ req[p] \in CallType /\ SendFits(p)
      /\ Frame(p) /\ req[p].at # "idle"
  BY StepFrame DEF IInv, TypeInv, SendInv
<1> DEFINE Stays(next) ==
      /\ req' = [req EXCEPT ![p].at = next] /\ request' = request /\ friends' = friends
<1>1. ASSUME NEW next, Stays(next),
             next \in {"findIncoming", "findOutgoing", "createRequest", "reopenRequest"} =>
               /\ req[p].op = "send"
               /\ Pair(req[p].d) \notin friends \/ req[p].met
               /\ next # "findIncoming" => request[Reverse(req[p].d)] # "PENDING" \/ req[p].met
      PROVE  SendFits(p)'
  <2>1. /\ req'[p].op = req[p].op /\ req'[p].met = req[p].met /\ req'[p].d = req[p].d
        /\ req'[p].at = next
    BY <1>0, <1>1 DEF CallType
  <2>2. \A q \in Process \ {p} : req'[q] = req[q]
    BY <1>0 DEF Frame
  <2> HIDE DEF Stays
  <2>3. request' = request /\ friends' = friends
    BY <1>1 DEF Stays
  <2> QED
    BY <1>0, <1>1, <2>1, <2>2, <2>3 DEF SendFits, Sending, Checked
<1>2. ASSUME req'[p].at \in {"idle", "notify"}, req'[p].op = "none" PROVE SendFits(p)'
  BY <1>2 DEF SendFits, Sending, Checked
<1>3. ASSUME Refuse(p) PROVE SendFits(p)'
  BY <1>0, <1>2, <1>3 DEF Refuse, Idle
<1>4. ASSUME NEW ok, NEW next, Goto(p, ok, next) PROVE (Stays(next) /\ ok) \/ SendFits(p)'
  <2>1. CASE ok
    BY <1>0, <1>4, <2>1 DEF Goto, tables, CallType
  <2>2. CASE ~ok
    BY <1>0, <1>2, <1>4, <2>2 DEF Goto, Idle
  <2> QED
    BY <2>1, <2>2
<1>5. CASE FindTarget(p) \/ FindRequestById(p) \/ FindFriend(p) \/ TxInsert(p)
  <2>1. \A next \in {"findFriendship", "txUpdate", "update", "removeFriendship", "commit"} :
          Stays(next) => SendFits(p)'
    BY <1>1
  <2>2. ASSUME NEW ok, NEW next \in {"findFriendship", "txUpdate", "update", "removeFriendship", "commit"},
               Goto(p, ok, next)
        PROVE  SendFits(p)'
    <3> HIDE DEF Stays
    <3> QED
      BY <1>4, <2>1, <2>2
  <2>3. CASE FindTarget(p)
    BY <2>2, <2>3 DEF FindTarget
  <2>4. CASE FindRequestById(p)
    BY <2>2, <2>4 DEF FindRequestById
  <2>5. CASE FindFriend(p)
    BY <2>2, <2>5 DEF FindFriend
  <2>6. CASE TxInsert(p)
    BY <1>3, <2>2, <2>6 DEF TxInsert
  <2> QED
    BY <1>5, <2>3, <2>4, <2>5, <2>6
<1>6. CASE FindFriendship(p)
  BY <1>0, <1>1, <1>4, <1>6 DEF FindFriendship
<1>7. CASE FindIncoming(p)
  BY <1>0, <1>1, <1>4, <1>7 DEF FindIncoming, SendFits, Sending
<1>8. CASE FindOutgoing(p)
  <2>1. \A next \in {"createRequest", "reopenRequest"} : Stays(next) => SendFits(p)'
    BY <1>0, <1>1, <1>8 DEF FindOutgoing, SendFits, Sending, Checked
  <2>2. ASSUME NEW ok, NEW next \in {"createRequest", "reopenRequest"}, Goto(p, ok, next)
        PROVE  SendFits(p)'
    <3> HIDE DEF Stays
    <3> QED
      BY <1>4, <2>1, <2>2
  <2> QED
    BY <1>8, <2>2 DEF FindOutgoing
<1>9. CASE TxUpdate(p) \/ TxFind(p)
  <2>1. PICK next \in {"txFind", "txInsert", "commit"} :
          /\ req'[p].at = next /\ req'[p].op = req[p].op /\ req'[p].met = req[p].met /\ req'[p].d = req[p].d
    BY <1>0, <1>9 DEF TxUpdate, TxFind, CallType
  <2>2. \A q \in Process \ {p} : req'[q] = req[q]
    BY <1>0 DEF Frame
  <2> QED
    BY <1>0, <2>1, <2>2 DEF SendFits, Sending, Checked
<1>10. CASE CreateRequest(p) \/ ReopenRequest(p) \/ UpdateStatus(p) \/ Commit(p) \/ Notify(p)
            \/ RemoveFriendship(p) \/ Abort(p)
  <2>1. Refuse(p) \/ Commit(p) \/ req' = [req EXCEPT ![p] = Idle]
    BY <1>10 DEF CreateRequest, ReopenRequest, UpdateStatus, Notify, RemoveFriendship, Abort, AnswerAndPush
  <2>2. req'[p].at \in {"idle", "notify"} /\ req'[p].op = "none"
    <3>1. ASSUME Commit(p) PROVE req'[p] = [Idle EXCEPT !.at = "notify", !.d = req[p].d]
      BY <1>0, <3>1 DEF Commit
    <3>2. ASSUME ~Commit(p) PROVE req'[p] = Idle
      BY <1>0, <2>1, <3>2 DEF Refuse
    <3>3. LET c == [Idle EXCEPT !.at = "notify", !.d = req[p].d] IN c.at = "notify" /\ c.op = "none"
      BY DEF Idle
    <3>4. Idle.at = "idle" /\ Idle.op = "none"
      BY DEF Idle
    <3> QED
      BY <3>1, <3>2, <3>3, <3>4
  <2> QED
    BY <1>2, <2>2
<1> QED
  BY <1>5, <1>6, <1>7, <1>8, <1>9, <1>10 DEF Step

(* A call that begins marks those it meets. *)
LEMMA BeginKept ==
  ASSUME IInv, NEW p \in Process, Start(p)
  PROVE  IInv'
<1>0. req \in [Process -> CallType] /\ Idle \in CallType
  BY DEF IInv, TypeInv, CallType, Idle
<1>1. PICK d \in Direction, op \in {"send", "accept", "reject", "cancel", "remove"},
           first \in {"findTarget", "findRequestById", "findFriendship"} :
        Begin(p, op, d, first) /\ (first = "findFriendship" => op = "remove")
  BY DEF Start, SendRequest, Respond, RemoveFriend
<1> DEFINE others == {q \in Process : req[q].at # "idle" /\ Pair(req[q].d) = Pair(d)}
           call == [Idle EXCEPT !.at = first, !.op = op, !.d = d, !.met = others # {}]
<1>2. /\ req[p].at = "idle"
      /\ req' = [q \in Process |-> IF q = p THEN call ELSE [req[q] EXCEPT !.met = @ \/ q \in others]]
      /\ request' = request /\ friends' = friends
  BY <1>1 DEF Begin, tables
<1>3. call \in CallType
  <2> HIDE DEF others
  <2> QED
    BY DEF Idle, CallType
<1>4. /\ req'[p] = call
      /\ \A q \in Process \ {p} :
           /\ req'[q] \in CallType
           /\ req'[q].at = req[q].at /\ req'[q].op = req[q].op /\ req'[q].d = req[q].d
           /\ ~req'[q].met => ~req[q].met /\ q \notin others
  <2> HIDE DEF others, call
  <2> QED
    BY <1>0, <1>2 DEF CallType
<1>5. call.at = first /\ call.op = op /\ call.d = d /\ (~call.met => others = {})
  <2> HIDE DEF others
  <2> QED
    BY DEF Idle
<1>6. TypeInv'
  <2>1. req' \in [Process -> CallType]
    <3> HIDE DEF call, others
    <3> QED
      BY <1>2, <1>3, <1>4
  <2>2. \A q \in Process : req'[q].at # "idle" => req'[q].d \in Direction
    <3> HIDE DEF call, others
    <3> QED
      BY <1>4, <1>5 DEF IInv, TypeInv
  <2> QED
    BY <1>2, <2>1, <2>2 DEF IInv, TypeInv
<1>7. ASSUME NEW q \in Process PROVE SendFits(q)'
  <2>1. CASE q = p
    <3>1. ~call.met => \A r \in Process \ {p} : req'[r].at # "idle" => Pair(req'[r].d) # Pair(d)
      BY <1>4, <1>5
    <3> HIDE DEF call, others
    <3> QED
      BY <1>1, <1>4, <1>5, <2>1, <3>1 DEF SendFits, Sending, Checked
  <2>2. CASE q # p
    <3>1. SendFits(q)
      BY DEF IInv, SendInv
    <3>2. ~req'[q].met /\ req[q].at # "idle" => Pair(d) # Pair(req[q].d)
      BY <1>4, <2>2
    <3> HIDE DEF call, others
    <3> QED
      BY <1>2, <1>4, <1>5, <2>2, <3>1, <3>2 DEF SendFits, Sending, Checked
  <2> QED
    BY <2>1, <2>2
<1> QED
  BY <1>6, <1>7 DEF IInv, SendInv

LEMMA Initially == Init => IInv
<1>1. Idle \in CallType /\ Idle.at = "idle" /\ Idle.op = "none"
  BY DEF Idle, CallType
<1> QED
  BY <1>1 DEF Init, IInv, TypeInv, SendInv, SendFits, Sending, Checked

LEMMA NextKept ==
  ASSUME IInv, [Next]_vars
  PROVE  IInv'
<1>1. ASSUME req' = req, request' = request, friends' = friends PROVE IInv'
  BY <1>1 DEF IInv, TypeInv, SendInv, SendFits, Sending, Checked
<1>2. CASE UNCHANGED vars
  BY <1>1, <1>2 DEF vars
<1>3. ASSUME NEW p \in Process, Start(p) PROVE IInv'
  BY <1>3, BeginKept
<1>4. ASSUME NEW p \in Process, Step(p) \/ Abort(p) PROVE IInv'
  <2>1. TypeInv'
    BY <1>4, StepTyped DEF IInv
  <2>2. ASSUME NEW q \in Process PROVE SendFits(q)'
    <3>1. CASE q = p
      BY <1>4, <3>1, Sender
    <3>2. CASE q # p
      BY <1>4, <3>2, StepFrame, Bystander DEF IInv
    <3> QED
      BY <3>1, <3>2
  <2> QED
    BY <2>1, <2>2 DEF IInv, SendInv
<1>5. ASSUME NEW p \in Process, PushStep(p) PROVE IInv'
  BY <1>1, <1>5 DEF PushStep, FindByUserIds, SendEachForMulticast, DeleteMany, tables
<1>6. ASSUME NEW p \in Process, LookupFails(p) PROVE IInv'
  <2>1. Idle \in CallType /\ Idle.at = "idle" /\ Idle.op = "none"
    BY DEF Idle, CallType
  <2> QED
    BY <1>6, <2>1 DEF LookupFails, IInv, TypeInv, SendInv, SendFits, Sending, Checked
<1>7. ASSUME NEW t \in Device, NEW u, RegisterToken(t, u) PROVE IInv'
  BY <1>1, <1>7 DEF RegisterToken
<1> QED
  BY <1>2, <1>3, <1>4, <1>5, <1>6, <1>7 DEF Next, RemoveToken

(* What a send has read about its pair holds until it writes, unless another
   call about the pair has been in flight. *)
THEOREM FriendInvariant == Spec => []IInv
<1>1. IInv /\ [Next]_vars => IInv'
  BY NextKept
<1> QED
  BY Initially, <1>1, PTL DEF Spec

-----------------------------------------------------------------------------
(* What a step may make of a request. *)
LEMMA RequestMoves ==
  ASSUME IInv, [Next]_vars, NEW d \in Direction, request'[d] # request[d]
  PROVE  \E p \in Process :
           /\ req[p].d = d
           /\ \/ (CreateRequest(p) \/ ReopenRequest(p)) /\ request'[d] = "PENDING"
              \/ Commit(p) /\ request'[d] = "ACCEPTED"
              \/ UpdateStatus(p) /\ request'[d] \in {"DECLINED", "CANCELLED"}
<1>0. ~UNCHANGED request
  OBVIOUS
<1>1. PICK p \in Process : CreateRequest(p) \/ ReopenRequest(p) \/ Commit(p) \/ UpdateStatus(p)
  BY <1>0 DEF Next, vars, Start, SendRequest, Respond, RemoveFriend, Begin, Step, FindTarget, FindFriendship,
          FindIncoming, FindOutgoing, FindRequestById, TxUpdate, TxFind, TxInsert, Notify, FindFriend,
          RemoveFriendship, PushStep, FindByUserIds, SendEachForMulticast, DeleteMany, LookupFails, Abort,
          Refuse, Goto, RegisterToken, RemoveToken, tables
<1>2. PICK status \in {"PENDING", "ACCEPTED", "DECLINED", "CANCELLED"} :
        /\ request' = [request EXCEPT ![req[p].d] = status]
        /\ \/ (CreateRequest(p) \/ ReopenRequest(p)) /\ status = "PENDING"
           \/ Commit(p) /\ status = "ACCEPTED"
           \/ UpdateStatus(p) /\ status \in {"DECLINED", "CANCELLED"}
  BY <1>0, <1>1 DEF CreateRequest, ReopenRequest, Commit, UpdateStatus, Write, Refuse
<1>3. req[p].d = d /\ request'[d] = status
  BY <1>2 DEF IInv, TypeInv
<1> QED
  BY <1>2, <1>3

(* acceptRequestAndCreateFriendship: the request and the friendship, or neither,
   for any number of calls, aborts and crashes in between. *)
THEOREM AcceptIsAtomic == Spec => AcceptedTogether
<1>1. ASSUME IInv, [Next]_vars, NEW d \in Direction, request[d] # "ACCEPTED", request'[d] = "ACCEPTED"
      PROVE  \/ Pair(d) \in friends'
             \/ \E p \in Process : req[p].d = d /\ req[p].known /\ Pair(d) \notin friends
  <2>1. PICK p \in Process : req[p].d = d /\ Commit(p)
    BY <1>1, RequestMoves
  <2> QED
    BY <2>1 DEF Commit
<1>2. IInv /\ [Next]_vars =>
        \A d \in Direction :
          request[d] # "ACCEPTED" /\ request'[d] = "ACCEPTED" =>
            \/ Pair(d) \in friends'
            \/ \E p \in Process : req[p].d = d /\ req[p].known /\ Pair(d) \notin friends
  BY <1>1
<1> QED
  BY <1>2, FriendInvariant, PTL DEF Spec, AcceptedTogether

(* sendRequest checks and then writes: crossed requests, and requests among
   friends, are the work of calls that overlapped. *)
THEOREM FreshRequests == Spec => PendingIsFresh
<1>1. ASSUME IInv, [Next]_vars, NEW d \in Direction,
             request[d] # "PENDING", request'[d] = "PENDING",
             Pair(d) \in friends \/ request[Reverse(d)] = "PENDING"
      PROVE  \E p \in Process : req[p].d = d /\ req[p].op = "send" /\ req[p].met
  <2>1. PICK p \in Process : req[p].d = d /\ (CreateRequest(p) \/ ReopenRequest(p))
    BY <1>1, RequestMoves
  <2>2. req[p].at \in {"createRequest", "reopenRequest"} /\ SendFits(p)
    BY <1>1, <2>1 DEF CreateRequest, ReopenRequest, IInv, SendInv
  <2> QED
    BY <1>1, <2>1, <2>2 DEF SendFits, Sending, Checked
<1>2. IInv /\ [Next]_vars =>
        \A d \in Direction :
          /\ request[d] # "PENDING" /\ request'[d] = "PENDING"
          /\ Pair(d) \in friends \/ request[Reverse(d)] = "PENDING"
          => \E p \in Process : req[p].d = d /\ req[p].op = "send" /\ req[p].met
  BY <1>1
<1> QED
  BY <1>2, FriendInvariant, PTL DEF Spec, PendingIsFresh

(* Only an accept writes a request and a friendship in one step. *)
LEMMA JointMoves ==
  ASSUME IInv, [Next]_vars, NEW d \in Direction, friends' # friends, request'[d] # request[d]
  PROVE  request'[d] = "ACCEPTED"
  BY RequestMoves DEF CreateRequest, ReopenRequest, UpdateStatus, Write, Refuse

(* A step is about one request. *)
LEMMA OneMoves ==
  ASSUME IInv, [Next]_vars, NEW d \in Direction
  PROVE  request'[d] = request[d] \/ request'[Reverse(d)] = request[Reverse(d)]
<1> SUFFICES ASSUME request'[d] # request[d], request'[Reverse(d)] # request[Reverse(d)]
             PROVE  FALSE
  OBVIOUS
<1>1. Reverse(d) \in Direction /\ Reverse(d) # d
  BY Directions
<1>2. PICK p \in Process : req[p].d = d /\ (CreateRequest(p) \/ ReopenRequest(p) \/ Commit(p) \/ UpdateStatus(p))
  BY RequestMoves
<1>3. request' = request \/ \E status : request' = [request EXCEPT ![d] = status]
  BY <1>2 DEF CreateRequest, ReopenRequest, Commit, UpdateStatus, Write, Refuse
<1> QED
  BY <1>1, <1>3 DEF IInv, TypeInv

(* What a label says of the rows it was made of. *)
LEMMA LabelOf ==
  ASSUME NEW rows, NEW status, NEW d \in Direction, NEW label \in Labels(rows, status, d)
  PROVE  \/ label = "friend" /\ Pair(d) \in rows
         \/ label = "request_outgoing" /\ status[d] = "PENDING"
         \/ label = "request_incoming" /\ status[Reverse(d)] = "PENDING"
         \/ /\ label = "none" /\ Pair(d) \notin rows
            /\ status[d] # "PENDING" /\ status[Reverse(d)] # "PENDING"
  BY DEF Labels, FriendshipsBetween, ActiveRequestsBetween

(* decorateUsers, for every pair and every commit between its two look-ups. *)
THEOREM SearchesFit == Spec => LabelsFit
<1> DEFINE Fits(d, label) ==
      \/ Holds(label, d) \/ Holds(label, d)'
      \/ /\ label = "none"
         /\ \E e \in {d, Reverse(d)} : request[e] = "PENDING" /\ request'[e] = "ACCEPTED"
<1>1. ASSUME IInv, [Next]_vars, NEW d \in Direction, NEW label,
             label \in Labels(friends, request', d) \union Labels(friends', request, d)
                         \union Labels(friends', request', d)
      PROVE  Fits(d, label)
  <2>1. Reverse(d) \in Direction
    BY Directions
  <2>2. \A e \in {d, Reverse(d)} :
          friends' = friends \/ request'[e] = request[e] \/ request'[e] = "ACCEPTED"
    BY <1>1, <2>1, JointMoves
  <2>3. CASE label \in Labels(friends, request', d)
    <3>1. \/ label = "friend" /\ Pair(d) \in friends
          \/ label = "request_outgoing" /\ request'[d] = "PENDING"
          \/ label = "request_incoming" /\ request'[Reverse(d)] = "PENDING"
          \/ /\ label = "none" /\ Pair(d) \notin friends
             /\ request'[d] # "PENDING" /\ request'[Reverse(d)] # "PENDING"
      BY <2>3, LabelOf
    <3>2. CASE label # "none"
      BY <3>1, <3>2 DEF Holds
    <3>3. CASE label = "none" /\ friends' = friends
      BY <3>1, <3>3 DEF Holds
    <3>4. CASE label = "none" /\ friends' # friends
      BY <2>2, <3>1, <3>4 DEF Holds
    <3> QED
      BY <3>2, <3>3, <3>4
  <2>4. CASE label \in Labels(friends', request, d)
    BY <1>1, <2>2, <2>4, LabelOf DEF Holds
  <2>5. CASE label \in Labels(friends', request', d)
    BY <1>1, <2>5, LabelOf DEF Holds
  <2> QED
    BY <1>1, <2>3, <2>4, <2>5
<1>2. ASSUME IInv, [Next]_vars, NEW viewer \in User, NEW matched \in SUBSET User, NEW found,
             found \in Search(friends, request', viewer, matched)
                         \union Search(friends', request, viewer, matched)
                         \union Search(friends', request', viewer, matched)
      PROVE  Fits(<<viewer, found.user>>, found.label)
  <2>1. PICK u \in matched \ {viewer} :
          /\ found.user = u
          /\ found.label \in Labels(friends, request', <<viewer, u>>) \union Labels(friends', request, <<viewer, u>>)
                              \union Labels(friends', request', <<viewer, u>>)
    BY <1>2 DEF Search, SearchUsers
  <2>2. <<viewer, u>> \in Direction
    BY <2>1 DEF Direction
  <2> QED
    BY <1>1, <1>2, <2>1, <2>2
<1>3. ASSUME IInv, [Next]_vars, NEW viewer \in User,
             NEW lists \in ListRequests(request, request', viewer), NEW d \in lists.incoming,
             Reverse(d) \in lists.outgoing
      PROVE  \/ request[d] = "PENDING" /\ request[Reverse(d)] = "PENDING"
             \/ request'[d] = "PENDING" /\ request'[Reverse(d)] = "PENDING"
  <2>1. /\ d \in Direction /\ Reverse(d) \in Direction
        /\ \/ request[d] = "PENDING" /\ request'[Reverse(d)] = "PENDING"
           \/ request'[d] = "PENDING" /\ request[Reverse(d)] = "PENDING"
    BY <1>3 DEF ListRequests, ListIncoming, ListOutgoing
  <2>2. request'[d] = request[d] \/ request'[Reverse(d)] = request[Reverse(d)]
    BY <1>3, <2>1, OneMoves
  <2> QED
    BY <2>1, <2>2
<1>4. IInv /\ [Next]_vars =>
        /\ \A viewer \in User, matched \in SUBSET User :
             \A found \in Search(friends, request', viewer, matched)
                            \union Search(friends', request, viewer, matched)
                            \union Search(friends', request', viewer, matched) :
               Fits(<<viewer, found.user>>, found.label)
        /\ \A viewer \in User :
             \A lists \in ListRequests(request, request', viewer) :
               \A d \in lists.incoming :
                 Reverse(d) \in lists.outgoing =>
                   \/ request[d] = "PENDING" /\ request[Reverse(d)] = "PENDING"
                   \/ request'[d] = "PENDING" /\ request'[Reverse(d)] = "PENDING"
  BY <1>2, <1>3
<1> QED
  BY <1>4, FriendInvariant, PTL DEF Spec, LabelsFit
=============================================================================
