------------------------------ MODULE TripLife ------------------------------
(***************************************************************************)
(* A trip, what its calls leave in the activity feed of one user, and the  *)
(* lists of its rows that clients page through.  The feed is written       *)
(* beside the answer of a call, after its own statement.                   *)
(***************************************************************************)
EXTENDS Ledger, Activity

CONSTANT MAX_PAGE_SIZE

ASSUME PageAssumption == MAX_PAGE_SIZE \in Nat \ {0}

lifeVars == <<vars, activities>>

LifeInit == Init /\ activities = {}

(* recordExpenseAdded: the members create has read. *)
ExpenseAdded(p) == CreateExpense(p) /\ Fanout(req[p].team)

(* recordSettlementCompleted: the two parties. *)
SettlementCompleted(p) ==
  CreateSettlement(p) /\ Fanout({req[p].call.from, req[p].call.to})

(* recordMemberAdded: the members findDetail returns after the insert, if it
   finds the trip. *)
MemberAdded(p) ==
  /\ AddMembers(p)
  /\ Fanout(IF tripDeleted THEN {} ELSE members' \ gone)

(* recordGroupCreated, recordFriendAccepted: the viewer is among the first
   members of another trip, or a party to a friend request; fanout is for what
   all recipients see alike, the two friends get rows of their own. *)
RecordGroupCreated == Fanout({Viewer})
RecordFriendAccepted == Record

GroupCreated == RecordGroupCreated /\ UNCHANGED vars
FriendAccepted == RecordFriendAccepted /\ UNCHANGED vars

Unrecorded(p) ==
  \/ AssertAccess(p) \/ FindDetail(p) \/ FindExpense(p) \/ FindMembership(p)
  \/ CountActiveUsers(p) \/ FindUser(p) \/ FindMemberships(p) \/ ListForUser(p)
  \/ Read(p)
  \/ SoftDeleteExpense(p) \/ RemoveMember(p) \/ SoftDeleteTrip(p)
  \/ NoDues(p) \/ SoftDeleteUser(p)
  \/ Summarise(p) \/ SettleUp(p) \/ SettledUp(p) \/ ViewerNet(p) \/ Answer(p)

LifeNext ==
  \E p \in Process :
    \/ ExpenseAdded(p) \/ SettlementCompleted(p) \/ MemberAdded(p)
    \/ (Start(p) \/ Unrecorded(p) \/ Abort(p)) /\ UNCHANGED activities
    \/ GroupCreated \/ FriendAccepted

LifeSpec == LifeInit /\ [][LifeNext]_lifeVars
-----------------------------------------------------------------------------
(* Pages of a list: GET /trips/:id/expenses and /settlements. *)

Clamp(n, most) == IF n < 1 THEN 1 ELSE IF n > most THEN most ELSE n

\* Mutant: the first page is number 0.
FromZero(page, pageSize) ==
  [page |-> Clamp(page, page), skip |-> Clamp(page, page) * Clamp(pageSize, MAX_PAGE_SIZE),
   take |-> Clamp(pageSize, MAX_PAGE_SIZE)]

Paginate(page, pageSize) ==
  [page |-> Clamp(page, page), skip |-> (Clamp(page, page) - 1) * Clamp(pageSize, MAX_PAGE_SIZE),
   take |-> Clamp(pageSize, MAX_PAGE_SIZE)]

(* ORDER BY spentAt, which the client sends, or settledAt, then createdAt: rows
   of one stamp come in any order, and in another one the next time. *)
Arrangements(stamp) ==
  {order \in Bijection(DOMAIN stamp, 1 .. Cardinality(DOMAIN stamp)) :
     \A i, j \in DOMAIN stamp : stamp[i] < stamp[j] => order[i] < order[j]}

(* OFFSET and LIMIT: a page of the rows, of which i is the order[i]-th. *)
PageOf(rows, order, params) ==
  LET place(i) == Cardinality({j \in DOMAIN rows : order[j] <= order[i]})
  IN  {i \in DOMAIN rows : place(i) \in params.skip + 1 .. params.skip + params.take}

(* The two listByTrip: findMany reads b, count reads c, which may be a later
   moment, for each statement has a snapshot of its own.  All the answers that
   the arrangements give. *)
ListByTrip(b, c, orders, params) ==
  {[rows |-> PageOf(Expenses(b), order, params), total |-> Cardinality(DOMAIN Expenses(c))] :
     order \in orders}

ListSettlementsByTrip(b, c, orders, params) ==
  {[rows |-> PageOf(Settlements(b), order, params), total |-> Cardinality(DOMAIN Settlements(c))] :
     order \in orders}

(* list, for a member. *)
ListExpenses(b, c, orders, page, pageSize) ==
  LET params == Paginate(page, pageSize)
  IN  {[page |-> params.page, items |-> a.rows, total |-> a.total] : a \in ListByTrip(b, c, orders, params)}

ListSettlements(b, c, orders, page, pageSize) ==
  LET params == Paginate(page, pageSize)
  IN  {[page |-> params.page, items |-> a.rows, total |-> a.total] :
         a \in ListSettlementsByTrip(b, c, orders, params)}

-----------------------------------------------------------------------------
(* Properties. *)

(* What rows may be sorted by: only how their stamps compare matters. *)
Stamps(D) ==
  {stamp \in [D -> 1 .. Cardinality(D)] :
     \A i \in D : stamp[i] = 1 \/ \E j \in D : stamp[j] = stamp[i] - 1}

Sortings(D) == {[stamp |-> stamp, orders |-> Arrangements(stamp)] : stamp \in Stamps(D)}

PageNumber == 1 .. MaxRows + 1

(* The rows that no tie pushes over the border of a page. *)
Firm(rows, stamp, pageSize) ==
  {i \in DOMAIN rows : \E n \in PageNumber :
     /\ (n - 1) * pageSize <= Cardinality({j \in DOMAIN rows : stamp[j] < stamp[i]})
     /\ Cardinality({j \in DOMAIN rows : stamp[j] <= stamp[i]}) <= n * pageSize}

(* All pages of a list that changes from b to c while a client reads it: before,
   after, and with the change between a page and its total. *)
ExpenseWalks(b, c, by) ==
  LET answers(rows, count, s) == UNION {ListExpenses(rows, count, by.orders, n, s) : n \in PageNumber}
  IN  {[before |-> answers(b, b, s), between |-> answers(b, c, s), after |-> answers(c, c, s),
        firm |-> Firm(Expenses(b), by.stamp, s) \intersect Firm(Expenses(c), by.stamp, s),
        pageSize |-> s] : s \in 1 .. MAX_PAGE_SIZE}

SettlementWalks(b, c, by) ==
  LET answers(rows, count, s) == UNION {ListSettlements(rows, count, by.orders, n, s) : n \in PageNumber}
  IN  {[before |-> answers(b, b, s), between |-> answers(b, c, s), after |-> answers(c, c, s),
        firm |-> Firm(Settlements(b), by.stamp, s) \intersect Firm(Settlements(c), by.stamp, s),
        pageSize |-> s] : s \in 1 .. MAX_PAGE_SIZE}

(* A client asks for page after page as long as the last total says that there
   is more.  Its first k pages are of the list before, the others of the one
   after, and the change may come between the k-th page and its total (late).
   A reading is all that its pages may be. *)
Readings(walk, k) ==
  LET answers(late) ==
        {a \in walk.before : a.page < k \/ (a.page = k /\ ~late)}
          \union {a \in walk.between : a.page = k /\ late} \union {a \in walk.after : a.page > k}
  IN  {{a \in answers(late) : \A b \in answers(late) : b.page < a.page => b.page * walk.pageSize < b.total} :
         late \in BOOLEAN}

(* Of the firm rows that were there and still are, it may miss at most one for
   each that was withdrawn from the pages it has seen, and may be shown at most
   one twice for each that was added.  Without a change total and pages agree. *)
WalkFits(walk, k) ==
  LET was == UNION {a.items : a \in walk.before}
      is == UNION {a.items : a \in walk.after}
      firm == walk.firm \intersect was \intersect is
  IN  /\ \A a \in walk.before : a.total = Cardinality(was)
      /\ \A reading \in Readings(walk, k) :
           LET seen == UNION {a.items : a \in {b \in reading : b.page <= k}}
               missed == {i \in firm : \A a \in reading : \E b \in reading : b.page = a.page /\ i \notin b.items}
               again == {i \in firm : \E a, b \in reading : a.page < b.page /\ i \in a.items \intersect b.items}
           IN  /\ Cardinality(missed) <= Cardinality(seen \ is)
               /\ Cardinality(again) <= Cardinality(is \ was)

(* Paging by offset while a row comes or goes, whatever dates the rows have and
   however ties fall on each page: neither list loses or repeats more firm rows
   than the rows that moved under the client. *)
ExpensePages ==
  [][book # book' =>
     /\ Expenses(book) # Expenses(book') =>
          \A by \in Sortings(DOMAIN Expenses(book) \union DOMAIN Expenses(book')) :
            \A walk \in ExpenseWalks(book, book', by), k \in 0 .. MaxRows : WalkFits(walk, k)
     /\ Settlements(book) # Settlements(book') =>
          \A by \in Sortings(DOMAIN Settlements(book) \union DOMAIN Settlements(book')) :
            \A walk \in SettlementWalks(book, book', by), k \in 0 .. MaxRows : WalkFits(walk, k)]_book
=============================================================================
