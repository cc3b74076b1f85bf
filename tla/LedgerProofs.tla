---------------------------- MODULE LedgerProofs ----------------------------
(***************************************************************************)
(* The trip's ledger, for every number of users, calls and rows: types,    *)
(* the control of the calls, then what the rows say and what is computed   *)
(* from them - they are whole and fair, balances cancel out, the plan      *)
(* settles them - and the ledger as an implementation of TripBook.         *)
(***************************************************************************)
EXTENDS Ledger, MoneyProofs, FiniteSetTheorems, WellFoundedInduction, TLAPS

(* Users come in one order: |net| first, then their number. *)
LEMMA BeforeIsTotal ==
  ASSUME NEW S \in SUBSET Nat, NEW nets \in [S -> Int],
         NEW u \in S, NEW v \in S, NEW w \in S
  PROVE  /\ ~Before(nets, u, u)
         /\ u # v => Before(nets, u, v) \/ Before(nets, v, u)
         /\ Before(nets, u, v) /\ Before(nets, v, w) => Before(nets, u, w)
  BY DEF Before, Abs

(* Whoever is first in a finite set comes from it. *)
LEMMA FirstIsThere ==
  ASSUME NEW S \in SUBSET Nat, NEW nets \in [S -> Int],
         NEW T \in SUBSET S, IsFiniteSet(T), T # {}
  PROVE  First(nets, T) \in T
<1> DEFINE ahead(u) == {v \in T : Before(nets, v, u)}
<1> DEFINE A == {ahead(u) : u \in T}
<1>1. A \subseteq SUBSET T /\ A # {}
  OBVIOUS
<1>2. IsWellFoundedOn(StrictSubsetOrdering(T), SUBSET T)
  BY FS_StrictSubsetOrderingWellFounded, FS_FiniteSubsetsOfFinite
<1>2a. PICK X \in A : \A Y \in A : <<Y, X>> \notin StrictSubsetOrdering(T)
  <2> HIDE DEF A
  <2> QED BY <1>1, <1>2, WFMin, Zenon
<1>3. PICK u \in T : X = ahead(u)
  BY <1>2a
<1>4. ASSUME NEW v \in T \ {u} PROVE Before(nets, u, v)
  <2>1. SUFFICES ASSUME Before(nets, v, u) PROVE FALSE
    BY <1>4, BeforeIsTotal
  <2>2. ahead(v) \subseteq ahead(u)
    BY <2>1, <1>4, BeforeIsTotal
  <2>3. v \in ahead(u) /\ v \notin ahead(v)
    BY <2>1, <1>4, BeforeIsTotal
  <2>4. <<ahead(v), ahead(u)>> \in StrictSubsetOrdering(T)
    BY <2>2, <2>3 DEF StrictSubsetOrdering
  <2> QED
    BY <2>4, <1>2a, <1>3, <1>4
<1> QED
  BY <1>4 DEF First

(* A transfer of the simplified plan closes a balance and opens none. *)
LEMMA TransferCloses ==
  ASSUME NEW S \in SUBSET Nat, IsFiniteSet(S), NEW nets \in [S -> Int],
         NEW left \in [S -> Int], Unfinished(left)
  PROVE  LET next == Apply(left, NextTransfer(nets, left)) IN
         /\ next \in [S -> Int]
         /\ NextTransfer(nets, left) \in [from : S, to : S, amount : Int]
         /\ Cardinality(Open(next)) + 1 <= Cardinality(Open(left))
         /\ Cardinality(Open(next)) \in Nat /\ Cardinality(Open(left)) \in Nat
<1> DEFINE d == First(nets, Debtors(left))
           c == First(nets, Creditors(left))
           t == NextTransfer(nets, left)
           next == Apply(left, t)
<1>1. Debtors(left) \subseteq S /\ Creditors(left) \subseteq S
  BY DEF Debtors, Creditors
<1>2. IsFiniteSet(Debtors(left)) /\ IsFiniteSet(Creditors(left))
  BY <1>1, FS_Subset
<1>3. d \in Debtors(left) /\ c \in Creditors(left)
  BY <1>1, <1>2, FirstIsThere DEF Unfinished
<1>4. /\ d \in S /\ c \in S /\ d # c
      /\ left[d] \in Int /\ left[c] \in Int /\ left[d] < 0 /\ left[c] > 0
  <2> HIDE DEF d, c
  <2>1. d \in S /\ c \in S /\ left[d] \in Int /\ left[c] \in Int
    BY <1>1, <1>3
  <2>2. left[d] < 0 /\ left[c] > 0
    BY <1>3 DEF Debtors, Creditors
  <2> QED
    BY <2>1, <2>2
<1> DEFINE pay == IF -left[d] < left[c] THEN -left[d] ELSE left[c]
<1>5. t = [from |-> d, to |-> c, amount |-> pay]
  BY DEF NextTransfer
<1>6. next = [left EXCEPT ![d] = @ + pay, ![c] = @ - pay]
  BY <1>5 DEF Apply
<1>7. /\ next \in [S -> Int]
      /\ next[d] = left[d] + pay /\ next[c] = left[c] - pay
      /\ \A u \in S \ {d, c} : next[u] = left[u]
  BY <1>4, <1>6
<1>8. next[d] <= 0 /\ next[c] >= 0 /\ (next[d] = 0 \/ next[c] = 0)
  BY <1>4, <1>7
<1>9. Open(next) \subseteq Open(left) /\ Open(left) \subseteq S
  BY <1>1, <1>3, <1>7, <1>8 DEF Open, Debtors, Creditors
<1>10. PICK u \in {d, c} : next[u] = 0
  BY <1>8
<1>11. u \in Open(left) /\ u \notin Open(next)
  BY <1>10, <1>3, <1>4, <1>7 DEF Open, Debtors, Creditors
<1>12. Open(next) \subseteq Open(left) \ {u}
  BY <1>9, <1>11
<1>13. IsFiniteSet(Open(left))
  BY <1>9, FS_Subset
<1>14. /\ IsFiniteSet(Open(left) \ {u})
       /\ Cardinality(Open(left) \ {u}) = Cardinality(Open(left)) - 1
  BY <1>11, <1>13, FS_RemoveElement
<1>15. Cardinality(Open(next)) <= Cardinality(Open(left) \ {u}) /\ IsFiniteSet(Open(next))
  BY <1>12, <1>14, FS_Subset
<1>16. Cardinality(Open(next)) \in Nat /\ Cardinality(Open(left)) \in Nat
  BY <1>13, <1>15, FS_CardinalityType
<1>17. t \in [from : S, to : S, amount : Int]
  BY <1>4, <1>5
<1> HIDE DEF next
<1> QED
  BY <1>7, <1>14, <1>15, <1>16, <1>17 DEF next

-----------------------------------------------------------------------------
(* The inductive invariant.  What a call relies on is in its own variables:
   the tables change under it, its snapshots do not. *)

Transfer == [from : User, to : User, amount : Int]

ExpenseQuery == {"expenses", "payments", "participants"}

(* Rows of the right table, about users. *)
RowsFit(read) ==
  \A q \in DOMAIN read : \A i \in DOMAIN read[q] :
    /\ Parties(read[q][i]) \subseteq User
    /\ IsSettlement(read[q][i]) <=> q \notin ExpenseQuery

CallInv(r) ==
  /\ DOMAIN r = DOMAIN Idle
  /\ r.at # "idle" => r.call \in Call /\ Valid(r.call)
  /\ r.at = "countActiveUsers" => r.call.op = "add"
  /\ r.at \in {"findUser", "findMemberships"} => r.call.op = "deleteAccount"
  /\ r.at = "listForUser" => r.call.op = "dashboard"
  /\ r.at = "read" /\ r.call.op = "remove" => r.call.target # Owner
  /\ r.team \subseteq User
  /\ r.at \notin {"simplify", "answer"} => r.plan = <<>>
  /\ r.at = "write" /\ r.call.op = "expense" => PartiesFit(r.call.body, r.team)
  /\ r.at = "write" /\ r.call.op = "settle" => {r.call.from, r.call.to} \subseteq r.team
  /\ r.at \notin {"read", "write", "simplify", "answer"} => DOMAIN r.read = {}
  /\ RowsFit(r.read)
  /\ r.at = "write" /\ r.call.op = "deleteAccount" /\ Queries(r.call.op) \subseteq DOMAIN r.read =>
       Dues(r.call.by, r.read) = 0

(* The columns of the two tables. *)
Columns(r) ==
  DOMAIN r = IF IsSettlement(r)
               THEN {"kind", "from", "to", "amount"}
               ELSE {"kind", "amount", "split", "figures", "payer", "paid", "share", "by", "deleted"}

RowFits(r) ==
  /\ Columns(r)
  /\ r.amount \in 1 .. Int4Max
  /\ Parties(r) \subseteq User

Tables ==
  /\ members \subseteq User /\ Owner \in members
  /\ tripDeleted \in BOOLEAN
  /\ gone \subseteq User
  /\ book \in Seq(Range(book)) /\ Len(book) <= MaxRows
  /\ \A i \in DOMAIN book : RowFits(book[i])

LedgerIInv ==
  /\ Tables
  /\ DOMAIN req = Process
  /\ \A p \in Process : CallInv(req[p])

(* It says what TypeOK says. *)
LEMMA TypeOKFollows == LedgerIInv => TypeOK
  BY DEF LedgerIInv, TypeOK, Tables, RowFits, CallInv

(* A process without a call relies on nothing. *)
LEMMA IdleFits == CallInv(Idle)
  BY DEF CallInv, Idle, RowsFit

(* It holds before the first call. *)
LEMMA InitLedger == Init => LedgerIInv
<1> SUFFICES ASSUME Init PROVE LedgerIInv
  OBVIOUS
<1>1. book \in Seq(Range(book)) /\ Len(book) = 0 /\ DOMAIN book = {}
  BY DEF Init
<1>2. Tables
  <2>1. members \subseteq User /\ Owner \in members /\ tripDeleted \in BOOLEAN /\ gone \subseteq User
    BY DEF Init
  <2>2. Len(book) <= MaxRows
    BY <1>1, LedgerAssumption
  <2> QED
    BY <1>1, <2>1, <2>2 DEF Tables
<1>3. DOMAIN req = Process /\ \A p \in Process : CallInv(req[p])
  BY IdleFits DEF Init
<1> QED
  BY <1>2, <1>3 DEF LedgerIInv

(* A step that only moves one call on. *)
LEMMA CallMoves ==
  ASSUME LedgerIInv, NEW p \in Process, NEW r, CallInv(r),
         req' = [req EXCEPT ![p] = r], UNCHANGED trip
  PROVE  LedgerIInv'
<1>1. Tables'
  BY DEF LedgerIInv, Tables, trip, RowFits, Columns, Parties, IsSettlement
<1>2. DOMAIN req' = Process /\ \A q \in Process : req'[q] = IF q = p THEN r ELSE req[q]
  BY DEF LedgerIInv
<1>3. \A q \in Process : CallInv(req'[q])
  BY <1>2 DEF LedgerIInv
<1> QED
  BY <1>1, <1>2, <1>3 DEF LedgerIInv

(* A step that writes and ends the call. *)
LEMMA CallEnds ==
  ASSUME LedgerIInv, NEW p \in Process, Done(p), Tables'
  PROVE  LedgerIInv'
<1>1. DOMAIN req' = Process /\ \A q \in Process : req'[q] = IF q = p THEN Idle ELSE req[q]
  BY DEF LedgerIInv, Done
<1>2. \A q \in Process : CallInv(req'[q])
  BY <1>1, IdleFits DEF LedgerIInv
<1> QED
  BY <1>1, <1>2 DEF LedgerIInv

(* A check that was passed, or not. *)
LEMMA ProceedKept ==
  ASSUME LedgerIInv, NEW p \in Process, NEW ok \in BOOLEAN, NEW next, Proceed(p, ok, next),
         ok => CallInv([req[p] EXCEPT !.at = next])
  PROVE  LedgerIInv'
<1> DEFINE r == IF ok THEN [req[p] EXCEPT !.at = next] ELSE Idle
<1>1. CallInv(r)
  BY IdleFits
<1>2. req' = [req EXCEPT ![p] = r] /\ UNCHANGED trip
  BY DEF Proceed
<1> HIDE DEF r
<1> QED
  BY <1>1, <1>2, CallMoves

(* Moving on from a statement before the reads, to one that is no write of an
   expense or a settlement. *)
LEMMA MovesOn ==
  ASSUME NEW r, CallInv(r), r.at # "idle",
         r.at \notin {"read", "write", "simplify", "answer"},
         NEW next, next # "simplify",
         next = "write" => r.call.op \notin {"expense", "settle"},
         next = "countActiveUsers" => r.call.op = "add",
         next \in {"findUser", "findMemberships"} => r.call.op = "deleteAccount",
         next # "listForUser",
         next = "read" /\ r.call.op = "remove" => r.call.target # Owner
  PROVE  CallInv([r EXCEPT !.at = next])
<1> DEFINE s == [r EXCEPT !.at = next]
<1>1. /\ DOMAIN s = DOMAIN Idle /\ s.at = next /\ s.call = r.call /\ s.team = r.team
      /\ s.read = r.read /\ s.plan = r.plan
  BY DEF CallInv, Idle
<1>2. DOMAIN r.read = {} /\ Queries(r.call.op) # {}
  BY DEF CallInv, Queries
<1> HIDE DEF s
<1> QED
  BY <1>1, <1>2 DEF CallInv

(* The first statement of a call. *)
LEMMA StartKept ==
  ASSUME LedgerIInv, NEW p \in Process, Start(p)
  PROVE  LedgerIInv'
<1>1. PICK c \in Call :
        /\ Valid(c)
        /\ req' = [req EXCEPT ![p] = [Idle EXCEPT !.at = FirstStatement(c.op), !.call = c]]
        /\ UNCHANGED trip
  BY DEF Start
<1> DEFINE r == [Idle EXCEPT !.at = FirstStatement(c.op), !.call = c]
<1>2. /\ DOMAIN r = DOMAIN Idle /\ r.at = FirstStatement(c.op) /\ r.call = c
      /\ r.team = {} /\ r.read = <<>> /\ r.plan = <<>>
  BY DEF Idle
<1>3. /\ FirstStatement(c.op) \in {"findExpense", "findUser", "listForUser", "assertAccess"}
      /\ FirstStatement(c.op) = "listForUser" => c.op = "dashboard"
      /\ FirstStatement(c.op) = "findUser" => c.op = "deleteAccount"
  BY DEF FirstStatement
<1> HIDE DEF r
<1>4. CallInv(r)
  BY <1>1, <1>2, <1>3 DEF CallInv, RowsFit
<1> QED
  BY <1>1, <1>4, CallMoves DEF r

(* The statements that only check: access, existence, live accounts. *)
LEMMA ChecksKept ==
  ASSUME LedgerIInv, NEW p \in Process,
         \/ AssertAccess(p) \/ FindExpense(p) \/ FindMembership(p)
         \/ CountActiveUsers(p) \/ FindUser(p) \/ FindMemberships(p) \/ ListForUser(p)
  PROVE  LedgerIInv'
<1> DEFINE c == req[p].call
<1>1. CallInv(req[p])
  BY DEF LedgerIInv
<1>2. CASE AssertAccess(p)
  <2> DEFINE next == AfterAccess(c.op)
  <2>1. /\ next # "simplify"
        /\ next = "write" => c.op \notin {"expense", "settle"}
        /\ next = "countActiveUsers" => c.op = "add"
        /\ next \notin {"findUser", "findMemberships", "listForUser", "read"}
    BY DEF AfterAccess
  <2>2. req[p].at = "assertAccess" /\ \E ok \in BOOLEAN : Proceed(p, ok, next)
    BY <1>2 DEF AssertAccess
  <2> HIDE DEF next
  <2>3. CallInv([req[p] EXCEPT !.at = next])
    BY <1>1, <2>1, <2>2, MovesOn
  <2> QED
    BY <2>2, <2>3, ProceedKept
<1>3. CASE FindExpense(p)
  <2> DEFINE ok == c.row \in DOMAIN Expenses(book)
  <2>1. req[p].at = "findExpense" /\ ok \in BOOLEAN /\ Proceed(p, ok, "assertAccess")
    BY <1>3 DEF FindExpense
  <2> HIDE DEF ok
  <2>2. CallInv([req[p] EXCEPT !.at = "assertAccess"])
    BY <1>1, <2>1, MovesOn
  <2> QED
    BY <2>1, <2>2, ProceedKept
<1>4. CASE FindMembership(p)
  <2> DEFINE ok == c.target \in members \ {Owner}
  <2>1. req[p].at = "findMembership" /\ ok \in BOOLEAN /\ Proceed(p, ok, "read")
    BY <1>4 DEF FindMembership
  <2>2. ASSUME ok PROVE CallInv([req[p] EXCEPT !.at = "read"])
    <3>1. c.target # Owner
      BY <2>2
    <3> QED
      BY <1>1, <2>1, <3>1, MovesOn
  <2> HIDE DEF ok
  <2> QED
    BY <2>1, <2>2, ProceedKept
<1>5. CASE CountActiveUsers(p)
  <2>1. req[p].at = "countActiveUsers" /\ \E ok \in BOOLEAN : Proceed(p, ok, "write")
    BY <1>5 DEF CountActiveUsers
  <2>2. c.op = "add"
    BY <1>1, <2>1 DEF CallInv
  <2>3. CallInv([req[p] EXCEPT !.at = "write"])
    BY <1>1, <2>1, <2>2, MovesOn
  <2> QED
    BY <2>1, <2>3, ProceedKept
<1>6. CASE FindUser(p)
  <2>1. req[p].at = "findUser" /\ \E ok \in BOOLEAN : Proceed(p, ok, "findMemberships")
    BY <1>6 DEF FindUser
  <2>2. c.op = "deleteAccount"
    BY <1>1, <2>1 DEF CallInv
  <2>3. CallInv([req[p] EXCEPT !.at = "findMemberships"])
    BY <1>1, <2>1, <2>2, MovesOn
  <2> QED
    BY <2>1, <2>3, ProceedKept
<1>7. CASE FindMemberships(p)
  <2> DEFINE next == IF c.by \in members THEN "read" ELSE "write"
  <2>1. req[p].at = "findMemberships" /\ Proceed(p, TRUE, next)
    BY <1>7 DEF FindMemberships
  <2>2. c.op = "deleteAccount"
    BY <1>1, <2>1 DEF CallInv
  <2>3. next \in {"read", "write"}
    OBVIOUS
  <2> HIDE DEF next
  <2>4. CallInv([req[p] EXCEPT !.at = next])
    BY <1>1, <2>1, <2>2, <2>3, MovesOn
  <2> QED
    BY <2>1, <2>4, ProceedKept
<1>8. CASE ListForUser(p)
  <2>1. req[p].at = "listForUser" /\ \E ok \in BOOLEAN : Proceed(p, ok, "read")
    BY <1>8 DEF ListForUser
  <2>2. c.op = "dashboard"
    BY <1>1, <2>1 DEF CallInv
  <2>3. CallInv([req[p] EXCEPT !.at = "read"])
    BY <1>1, <2>1, <2>2, MovesOn
  <2> QED
    BY <2>1, <2>3, ProceedKept
<1> QED
  BY <1>2, <1>3, <1>4, <1>5, <1>6, <1>7, <1>8

(* findDetail remembers members, and lets only their expenses and settlements
   through. *)
LEMMA FindDetailKept ==
  ASSUME LedgerIInv, NEW p \in Process, FindDetail(p)
  PROVE  LedgerIInv'
<1> DEFINE c == req[p].call
           team == members \ gone
           ok == /\ ~tripDeleted
                 /\ c.op = "expense" => PartiesFit(c.body, team)
                 /\ c.op = "settle" => {c.from, c.to} \subseteq team
           next == IF c.op = "balances" THEN "read" ELSE "write"
           r == [req[p] EXCEPT !.at = next, !.team = team]
<1>1. CallInv(req[p]) /\ req[p].at = "findDetail" /\ team \subseteq User
  BY DEF LedgerIInv, Tables, FindDetail
<1>2. /\ DOMAIN r = DOMAIN Idle /\ r.at = next /\ r.call = c /\ r.team = team
      /\ r.read = req[p].read /\ r.plan = req[p].plan
  BY <1>1 DEF CallInv, Idle
<1>3. req' = [req EXCEPT ![p] = IF ok THEN r ELSE Idle] /\ UNCHANGED trip
  BY DEF FindDetail
<1>4. ASSUME ok PROVE CallInv(r)
  <2>1. /\ next \in {"read", "write"} /\ (next = "read" => c.op = "balances")
        /\ DOMAIN req[p].read = {} /\ Queries(c.op) # {}
    BY <1>1 DEF CallInv, Queries
  <2> HIDE DEF r, team, next
  <2> QED
    BY <1>1, <1>2, <1>4, <2>1 DEF CallInv
<1>5. CallInv(IF ok THEN r ELSE Idle)
  BY <1>4, IdleFits
<1> HIDE DEF r, ok
<1> QED
  BY <1>3, <1>5, CallMoves

(* What a query returns fits. *)
LEMMA RowsOfQuery ==
  ASSUME Tables, NEW q, NEW i \in DOMAIN Rows(q)
  PROVE  /\ Parties(Rows(q)[i]) \subseteq User
         /\ IsSettlement(Rows(q)[i]) <=> q \notin ExpenseQuery
  BY DEF Tables, RowFits, Rows, Expenses, Settlements, ExpenseQuery

(* A read leaves a call still reading. *)
LEMMA ReadKept ==
  ASSUME LedgerIInv, NEW p \in Process, Read(p)
  PROVE  LedgerIInv'
<1>1. PICK q \in Missing(p) :
        req' = [req EXCEPT ![p].read =
                  [x \in DOMAIN @ \union {q} |-> IF x = q THEN Rows(q) ELSE @[x]]]
  BY DEF Read
<1> DEFINE old == req[p].read
           new == [x \in DOMAIN old \union {q} |-> IF x = q THEN Rows(q) ELSE old[x]]
           r == [req[p] EXCEPT !.read = new]
<1>2. CallInv(req[p]) /\ req[p].at = "read" /\ Tables /\ UNCHANGED trip
  BY DEF LedgerIInv, Read
<1>3. /\ DOMAIN r = DOMAIN Idle /\ r.at = "read" /\ r.call = req[p].call /\ r.team = req[p].team
      /\ r.read = new /\ r.plan = req[p].plan
  BY <1>2 DEF CallInv, Idle
<1>4. RowsFit(new)
  BY <1>2, RowsOfQuery DEF CallInv, RowsFit
<1>5. CallInv(r)
  <2> HIDE DEF r, new
  <2> QED
    BY <1>2, <1>3, <1>4 DEF CallInv
<1>6. req' = [req EXCEPT ![p] = r]
  BY <1>1
<1> HIDE DEF r
<1> QED
  BY <1>2, <1>5, <1>6, CallMoves

(* One row more at the end of a sequence. *)
LEMMA AppendFits ==
  ASSUME NEW s, s \in Seq(Range(s)), NEW e
  PROVE  /\ Append(s, e) \in Seq(Range(Append(s, e)))
         /\ Len(Append(s, e)) = Len(s) + 1 /\ Len(s) \in Nat
         /\ DOMAIN Append(s, e) = 1 .. Len(s) + 1
         /\ \A i \in 1 .. Len(s) + 1 : Append(s, e)[i] = IF i <= Len(s) THEN s[i] ELSE e
<1> DEFINE T == Range(s) \union {e}
           a == Append(s, e)
<1>1. s \in Seq(T) /\ e \in T
  OBVIOUS
<1>2. /\ a \in Seq(T) /\ Len(a) = Len(s) + 1 /\ Len(s) \in Nat
      /\ DOMAIN a = 1 .. Len(s) + 1
      /\ \A i \in 1 .. Len(s) + 1 : a[i] = IF i <= Len(s) THEN s[i] ELSE e
  BY <1>1
<1> HIDE DEF a, T
<1>3. \A i \in 1 .. Len(a) : a[i] \in Range(a)
  BY <1>2 DEF Range
<1>4. a \in Seq(Range(a))
  BY <1>2, <1>3
<1> QED
  BY <1>2, <1>4 DEF a

(* A row that fits is inserted. *)
LEMMA InsertKept ==
  ASSUME LedgerIInv, NEW p \in Process, NEW row, RowFits(row), Insert(p, row)
  PROVE  LedgerIInv'
<1>1. /\ Len(book) < MaxRows /\ book' = Append(book, row) /\ Done(p)
      /\ UNCHANGED <<members, tripDeleted, gone>> /\ Tables /\ MaxRows \in Nat
  BY LedgerAssumption DEF Insert, LedgerIInv
<1>2. /\ book' \in Seq(Range(book')) /\ Len(book') = Len(book) + 1 /\ Len(book) \in Nat
      /\ DOMAIN book' = 1 .. Len(book) + 1
      /\ \A i \in 1 .. Len(book) + 1 : book'[i] = IF i <= Len(book) THEN book[i] ELSE row
  BY <1>1, AppendFits DEF Tables
<1>3. DOMAIN book = 1 .. Len(book)
  BY <1>1 DEF Tables
<1>4. \A i \in DOMAIN book' : RowFits(book'[i])
  BY <1>1, <1>2, <1>3 DEF Tables
<1>5. Tables'
  BY <1>1, <1>2, <1>4 DEF Tables, RowFits, Columns, Parties, IsSettlement
<1> QED
  BY <1>1, <1>5, CallEnds

(* What is inserted fits: its parties were members when they were read. *)
LEMMA CreatesKept ==
  ASSUME LedgerIInv, NEW p \in Process, CreateExpense(p) \/ CreateSettlement(p)
  PROVE  LedgerIInv'
<1> DEFINE c == req[p].call
           team == req[p].team
<1>1. CallInv(req[p]) /\ team \subseteq User
  BY DEF LedgerIInv, CallInv
<1>2. CASE CreateExpense(p)
  <2> DEFINE row == ExpenseRow(c, team)
             figures == RawParticipants(c.body, team)
  <2>1. /\ req[p].at = "write" /\ c.op = "expense" /\ c.body.amount <= Int4Max
        /\ Insert(p, row)
    BY <1>2 DEF CreateExpense
  <2>2. c \in Call /\ Valid(c) /\ PartiesFit(c.body, team)
    BY <1>1, <2>1 DEF CallInv
  <2>3. c.body.amount \in 1 .. Int4Max
    BY <2>1, <2>2, LedgerAssumption DEF Valid, SchemaAccepts, BaseFieldsFit
  <2>4. DOMAIN ByUser(EffectivePayments(c.body)) \subseteq User
    BY <1>1, <2>2 DEF PartiesFit, ByUser
  <2>5. DOMAIN figures \subseteq User
    BY <1>1, <2>2 DEF PartiesFit
  <2>6. c.body.split \in {"EQUAL", "EXACT", "PERCENT", "SHARES"}
    BY LedgerAssumption, <2>1, <2>2 DEF SplitType
  <2>7. DOMAIN Compute(c.body.split, c.body.amount, figures, PrimaryPayer(c.body)) = DOMAIN figures
    BY <2>6 DEF Compute, SplitEqual, PercentShares, SharesShares, LargestRemainder
  <2>8. RowFits(row)
    <3> HIDE DEF figures
    <3>1. /\ DOMAIN row = {"kind", "amount", "split", "figures", "payer", "paid", "share", "by", "deleted"}
          /\ row.kind = "expense" /\ row.amount = c.body.amount
          /\ row.paid = ByUser(EffectivePayments(c.body))
          /\ row.share = Compute(c.body.split, c.body.amount, figures, PrimaryPayer(c.body))
      BY DEF ExpenseRow, figures
    <3> HIDE DEF row
    <3> QED
      BY <2>3, <2>4, <2>5, <2>7, <3>1 DEF RowFits, Columns, Parties, IsSettlement
  <2> HIDE DEF row
  <2> QED
    BY <2>1, <2>8, InsertKept
<1>3. CASE CreateSettlement(p)
  <2> DEFINE row == [kind |-> "settlement", from |-> c.from, to |-> c.to, amount |-> c.amount]
  <2>1. /\ req[p].at = "write" /\ c.op = "settle" /\ c.amount <= Int4Max
        /\ Insert(p, row)
    BY <1>3 DEF CreateSettlement
  <2>2. Valid(c) /\ {c.from, c.to} \subseteq User
    BY <1>1, <2>1 DEF CallInv
  <2>3. c.amount \in 1 .. Int4Max
    BY <2>1, <2>2, LedgerAssumption DEF Valid
  <2>4. RowFits(row)
    BY <2>2, <2>3 DEF RowFits, Columns, Parties, IsSettlement
  <2> HIDE DEF row
  <2> QED
    BY <2>1, <2>4, InsertKept
<1> QED
  BY <1>2, <1>3

(* An expense marked deleted is otherwise the same. *)
LEMMA SoftDeleteExpenseKept ==
  ASSUME LedgerIInv, NEW p \in Process, SoftDeleteExpense(p)
  PROVE  LedgerIInv'
<1> DEFINE row == req[p].call.row
<1>1. /\ book' = [book EXCEPT ![row].deleted = TRUE]
      /\ Done(p) /\ UNCHANGED <<members, tripDeleted, gone>> /\ Tables
  BY DEF SoftDeleteExpense, LedgerIInv
<1>2. DOMAIN book' = DOMAIN book /\ Len(book') = Len(book) /\ book' \in Seq(Range(book'))
  <2>1. Len(book) \in Nat /\ DOMAIN book = 1 .. Len(book)
    BY <1>1 DEF Tables
  <2>2. book' = [i \in 1 .. Len(book) |-> IF i = row THEN [book[i] EXCEPT !.deleted = TRUE] ELSE book[i]]
    BY <1>1, <2>1
  <2>3. \A i \in 1 .. Len(book) : book'[i] \in Range(book')
    BY <2>2 DEF Range
  <2>4. DOMAIN book' = 1 .. Len(book) /\ book' \in [1 .. Len(book) -> Range(book')]
    <3> HIDE DEF row
    <3> QED BY <2>2, <2>3
  <2>5. book' \in Seq(Range(book'))
    BY <2>1, <2>4
  <2>6. Len(book') = Len(book)
    BY <2>1, <2>4
  <2> QED
    BY <2>1, <2>4, <2>5, <2>6
<1>3. \A i \in DOMAIN book' :
        book'[i] = book[i] \/ book'[i] = [book[i] EXCEPT !.deleted = TRUE]
  BY <1>1
<1>4. ASSUME NEW i \in DOMAIN book' PROVE RowFits(book'[i])
  <2> DEFINE r == book[i]
             s == [r EXCEPT !.deleted = TRUE]
  <2>1. RowFits(r)
    BY <1>1, <1>2 DEF Tables
  <2>2. /\ DOMAIN s = DOMAIN r /\ s.kind = r.kind /\ s.amount = r.amount
        /\ IsSettlement(r) => s.from = r.from /\ s.to = r.to
        /\ ~IsSettlement(r) => s.paid = r.paid /\ s.share = r.share
    BY <2>1 DEF RowFits, Columns
  <2> HIDE DEF s
  <2>3. RowFits(s)
    BY <2>1, <2>2 DEF RowFits, Columns, Parties, IsSettlement
  <2> QED
    BY <1>3, <2>1, <2>3 DEF s
<1>5. Tables'
  BY <1>1, <1>2, <1>4 DEF Tables, RowFits, Columns, Parties, IsSettlement
<1> QED
  BY <1>1, <1>5, CallEnds

(* The writes to memberships, the trip and the accounts. *)
LEMMA OtherWritesKept ==
  ASSUME LedgerIInv, NEW p \in Process,
         \/ RemoveMember(p) \/ AddMembers(p) \/ SoftDeleteTrip(p) \/ SoftDeleteUser(p)
  PROVE  LedgerIInv'
<1> DEFINE c == req[p].call
<1>1. CallInv(req[p]) /\ Tables
  BY DEF LedgerIInv
<1>2. UNCHANGED book => (\A i \in DOMAIN book : RowFits(book[i]))' = (\A i \in DOMAIN book : RowFits(book[i]))
  BY DEF RowFits, Columns, Parties, IsSettlement
<1>3. CASE RemoveMember(p)
  <2>1. /\ Done(p) /\ UNCHANGED <<tripDeleted, gone, book>>
        /\ req[p].at = "read" /\ c.op = "remove" /\ members' = members \ {c.target}
    BY <1>3 DEF RemoveMember
  <2>2. c.target # Owner
    BY <1>1, <2>1 DEF CallInv
  <2>3. Tables'
    BY <1>1, <1>2, <2>1, <2>2 DEF Tables
  <2> QED
    BY <2>1, <2>3, CallEnds
<1>4. CASE AddMembers(p)
  <2>1. /\ Done(p) /\ UNCHANGED <<tripDeleted, gone, book>>
        /\ req[p].at = "write" /\ c.op = "add" /\ members' = members \union {c.target}
    BY <1>4 DEF AddMembers
  <2>2. c.target \in User
    BY <1>1, <2>1, LedgerAssumption DEF CallInv
  <2>3. Tables'
    BY <1>1, <1>2, <2>1, <2>2 DEF Tables
  <2> QED
    BY <2>1, <2>3, CallEnds
<1>5. CASE SoftDeleteTrip(p)
  <2>1. Done(p) /\ UNCHANGED <<members, gone, book>> /\ tripDeleted' = TRUE
    BY <1>5 DEF SoftDeleteTrip
  <2>2. Tables'
    BY <1>1, <1>2, <2>1 DEF Tables
  <2> QED
    BY <2>1, <2>2, CallEnds
<1>6. CASE SoftDeleteUser(p)
  <2>1. /\ Done(p) /\ UNCHANGED <<members, tripDeleted, book>>
        /\ req[p].at = "write" /\ gone' = gone \union {c.by}
    BY <1>6 DEF SoftDeleteUser
  <2>2. c.by \in User
    BY <1>1, <2>1, LedgerAssumption DEF CallInv
  <2>3. Tables'
    BY <1>1, <1>2, <2>1, <2>2 DEF Tables
  <2> QED
    BY <2>1, <2>3, CallEnds
<1> QED
  BY <1>3, <1>4, <1>5, <1>6

(* The verdict of hasOutstandingBalance. *)
LEMMA NoDuesKept ==
  ASSUME LedgerIInv, NEW p \in Process, NoDues(p)
  PROVE  LedgerIInv'
<1> DEFINE ok == Dues(req[p].call.by, req[p].read) = 0
           r == [req[p] EXCEPT !.at = "write"]
<1>1. CallInv(req[p]) /\ req[p].at = "read" /\ req[p].call.op = "deleteAccount"
  BY DEF LedgerIInv, NoDues
<1>2. /\ DOMAIN r = DOMAIN Idle /\ r.at = "write" /\ r.call = req[p].call /\ r.team = req[p].team
      /\ r.read = req[p].read /\ r.plan = req[p].plan
  BY <1>1 DEF CallInv, Idle
<1>3. Proceed(p, ok, "write") /\ ok \in BOOLEAN
  BY DEF NoDues
<1>4. ASSUME ok PROVE CallInv(r)
  <2> HIDE DEF r
  <2> QED
    BY <1>1, <1>2, <1>4 DEF CallInv
<1> HIDE DEF ok, r
<1>5. ok => CallInv([req[p] EXCEPT !.at = "write"])
  BY <1>4 DEF r
<1> QED
  BY <1>3, <1>5, ProceedKept

(* The rows a summary is made of name users only. *)
LEMMA AppearingAreUsers ==
  ASSUME NEW read, RowsFit(read), {"expenses", "settlements"} \subseteq DOMAIN read
  PROVE  Appearing(read["expenses"], read["settlements"]) \subseteq User
<1> DEFINE E == read["expenses"]
           S == read["settlements"]
<1>1. \A i \in DOMAIN E : DOMAIN E[i].paid \union DOMAIN E[i].share \subseteq User
  <2> TAKE i \in DOMAIN E
  <2>1. "expenses" \in ExpenseQuery
    BY DEF ExpenseQuery
  <2>2. Parties(E[i]) \subseteq User /\ ~IsSettlement(E[i])
    BY <2>1 DEF RowsFit
  <2> QED
    BY <2>2 DEF Parties
<1>2. \A i \in DOMAIN S : {S[i].from, S[i].to} \subseteq User
  <2> TAKE i \in DOMAIN S
  <2>1. "settlements" \notin ExpenseQuery
    BY DEF ExpenseQuery
  <2>2. Parties(S[i]) \subseteq User /\ IsSettlement(S[i])
    BY <2>1 DEF RowsFit
  <2> QED
    BY <2>2 DEF Parties
<1> HIDE DEF E, S
<1>3. ASSUME NEW u \in Appearing(E, S) PROVE u \in User
  <2>1. CASE u \in UNION {DOMAIN E[i].paid \union DOMAIN E[i].share : i \in DOMAIN E}
    <3>1. PICK i \in DOMAIN E : u \in DOMAIN E[i].paid \union DOMAIN E[i].share
      BY <2>1
    <3> QED
      BY <1>1, <3>1
  <2>2. CASE u \in UNION {{S[i].from, S[i].to} : i \in DOMAIN S}
    <3>1. PICK i \in DOMAIN S : u \in {S[i].from, S[i].to}
      BY <2>2
    <3> QED
      BY <1>2, <3>1
  <2> QED
    BY <1>3, <2>1, <2>2 DEF Appearing
<1> QED
  BY <1>3 DEF E, S

(* The loop of simplify starts with everything open and no transfer. *)
LEMMA SummariseKept ==
  ASSUME LedgerIInv, NEW p \in Process, Summarise(p)
  PROVE  LedgerIInv'
<1> DEFINE c == req[p].call
           nets == ComputeNetBalances(req[p].team, req[p].read["expenses"], req[p].read["settlements"])
           next == IF c.simplify THEN "simplify" ELSE "answer"
           r == [req[p] EXCEPT !.at = next, !.nets = nets, !.left = nets]
<1>1. CallInv(req[p]) /\ req[p].at = "read" /\ c.op = "balances" /\ UNCHANGED trip
  BY DEF LedgerIInv, Summarise
<1>2. /\ DOMAIN r = DOMAIN Idle /\ r.at = next /\ r.call = c /\ r.team = req[p].team
      /\ r.read = req[p].read /\ r.plan = <<>>
  BY <1>1 DEF CallInv, Idle
<1>3. next \in {"simplify", "answer"}
  OBVIOUS
<1>4. req' = [req EXCEPT ![p] = r]
  BY DEF Summarise
<1> HIDE DEF nets, next, r
<1>5. CallInv(r)
  BY <1>1, <1>2, <1>3 DEF CallInv
<1> QED
  BY <1>1, <1>4, <1>5, CallMoves

(* The loop of simplify goes on, and ends. *)
LEMMA SettleUpKept ==
  ASSUME LedgerIInv, NEW p \in Process, SettleUp(p)
  PROVE  LedgerIInv'
<1> DEFINE t == NextTransfer(req[p].nets, req[p].left)
           next == Apply(req[p].left, t)
           plan == Append(req[p].plan, t)
           r == [req[p] EXCEPT !.left = next, !.plan = plan]
<1>1. CallInv(req[p]) /\ req[p].at = "simplify" /\ UNCHANGED trip
  BY DEF LedgerIInv, CallInv, SettleUp
<1>2. req' = [req EXCEPT ![p] = r]
  BY DEF SettleUp
<1>3. /\ DOMAIN r = DOMAIN Idle /\ r.at = "simplify" /\ r.call = req[p].call
      /\ r.team = req[p].team /\ r.read = req[p].read
  BY <1>1 DEF CallInv, Idle
<1> HIDE DEF t, next, plan, r
<1>4. CallInv(r)
  BY <1>1, <1>3 DEF CallInv
<1> QED
  BY <1>1, <1>2, <1>4, CallMoves

(* The answers. *)
LEMMA AnswersKept ==
  ASSUME LedgerIInv, NEW p \in Process,
         SettledUp(p) \/ ViewerNet(p) \/ Answer(p) \/ Abort(p)
  PROVE  LedgerIInv'
<1>1. CallInv(req[p])
  BY DEF LedgerIInv
<1>2. CASE SettledUp(p)
  <2> DEFINE r == [req[p] EXCEPT !.at = "answer"]
  <2>1. req[p].at = "simplify" /\ Proceed(p, TRUE, "answer")
    BY <1>2 DEF SettledUp
  <2>2. /\ DOMAIN r = DOMAIN Idle /\ r.at = "answer" /\ r.call = req[p].call
        /\ r.team = req[p].team /\ r.read = req[p].read
    BY <1>1 DEF CallInv, Idle
  <2> HIDE DEF r
  <2>3. CallInv(r)
    BY <1>1, <2>1, <2>2 DEF CallInv
  <2>4. CallInv([req[p] EXCEPT !.at = "answer"])
    BY <2>3 DEF r
  <2> QED
    BY <2>1, <2>4, ProceedKept
<1>3. CASE ViewerNet(p)
  <2> DEFINE u == req[p].call.by
             net == [v \in {u} |-> UserNet(v, req[p].read["expenses"], req[p].read["settlements"])]
             r == [req[p] EXCEPT !.at = "answer", !.nets = net]
  <2>1. req[p].at = "read" /\ req' = [req EXCEPT ![p] = r] /\ UNCHANGED trip
    BY <1>3 DEF ViewerNet
  <2>2. /\ DOMAIN r = DOMAIN Idle /\ r.at = "answer" /\ r.call = req[p].call
        /\ r.team = req[p].team /\ r.read = req[p].read
    BY <1>1 DEF CallInv, Idle
  <2> HIDE DEF r
  <2>3. CallInv(r)
    BY <1>1, <2>1, <2>2 DEF CallInv
  <2> QED
    BY <2>1, <2>3, CallMoves
<1>4. CASE Answer(p) \/ Abort(p)
  <2>1. Proceed(p, FALSE, "idle")
    BY <1>4 DEF Answer, Abort
  <2> QED
    BY <2>1, ProceedKept
<1> QED
  BY <1>2, <1>3, <1>4

(* Every step keeps the invariant. *)
LEMMA NextKept == LedgerIInv /\ [Next]_vars => LedgerIInv'
<1>1. ASSUME LedgerIInv, NEW p \in Process, Start(p) \/ Step(p) \/ Abort(p)
      PROVE  LedgerIInv'
  BY <1>1, StartKept, ChecksKept, FindDetailKept, ReadKept, CreatesKept, SoftDeleteExpenseKept,
     OtherWritesKept, NoDuesKept, SummariseKept, SettleUpKept, AnswersKept
     DEF Step
<1>2. ASSUME LedgerIInv, UNCHANGED vars PROVE LedgerIInv'
  BY <1>2 DEF LedgerIInv, Tables, RowFits, Columns, Parties, IsSettlement, CallInv, vars
<1> QED
  BY <1>1, <1>2 DEF Next

(* The invariant holds in every reachable state. *)
LEMMA LedgerInvariant == Spec => []LedgerIInv
  BY InitLedger, NextKept, PTL DEF Spec

(* Rows and calls name users of the trip's tables, amounts fit their column,
   the owner stays a member. *)
THEOREM LedgerTypes == Spec => []TypeOK
  BY LedgerInvariant, TypeOKFollows, PTL

-----------------------------------------------------------------------------
(* Only a removal takes a member away. *)
LEMMA OnlyRemovalRemoves ==
  ASSUME [Next]_vars, NEW u \in members \ members'
  PROVE  \E p \in Process : RemoveMember(p) /\ req[p].call.target = u
<1>1. ~ UNCHANGED members
  OBVIOUS
<1>2. PICK p \in Process : Start(p) \/ Step(p) \/ Abort(p)
  BY <1>1 DEF Next, vars
<1>3. CASE RemoveMember(p)
  BY <1>3 DEF RemoveMember
<1>4. CASE AddMembers(p)
  BY <1>4 DEF AddMembers
<1>5. CASE ~RemoveMember(p) /\ ~AddMembers(p)
  <2>1. UNCHANGED members
    BY <1>2, <1>5 DEF Start, Step, Abort, AssertAccess, FindDetail, FindExpense, FindMembership,
       CountActiveUsers, FindUser, FindMemberships, ListForUser, Read, CreateExpense,
       CreateSettlement, Insert, SoftDeleteExpense, SoftDeleteTrip, NoDues, SoftDeleteUser,
       Summarise, SettleUp, SettledUp, ViewerNet, Answer, Proceed, trip
  <2> QED
    BY <1>1, <2>1
<1> QED
  BY <1>3, <1>4, <1>5

(* A member is removed square unless a row came or went between the reads of
   removeMember and its delete. *)
THEOREM RemovalIsSquare == Spec => RemovalSquare
<1>1. ASSUME [Next]_vars, NEW u \in members \ members'
      PROVE  \/ Net(u) = 0
             \/ \E p \in Process :
                  /\ req[p].at = "read" /\ req[p].call.op = "remove" /\ req[p].call.target = u
                  /\ ~Undisturbed(p)
  <2>1. PICK p \in Process : RemoveMember(p) /\ req[p].call.target = u
    BY <1>1, OnlyRemovalRemoves
  <2>2. /\ req[p].at = "read" /\ req[p].call.op = "remove" /\ Missing(p) = {}
        /\ UserNet(u, req[p].read["expenses"], req[p].read["settlements"]) = 0
    BY <2>1 DEF RemoveMember
  <2>3. ASSUME Undisturbed(p) PROVE Net(u) = 0
    <3>1. {"expenses", "settlements"} \subseteq DOMAIN req[p].read
      BY <2>2 DEF Missing, Queries
    <3>2. /\ req[p].read["expenses"] = Expenses(book)
          /\ req[p].read["settlements"] = Settlements(book)
      BY <2>3, <3>1 DEF Undisturbed, Rows
    <3> QED
      BY <2>2, <3>2 DEF Net
  <2> QED
    BY <2>1, <2>2, <2>3
<1>2. [Next]_vars => [\A u \in members \ members' :
       \/ Net(u) = 0
       \/ \E p \in Process :
            /\ req[p].at = "read" /\ req[p].call.op = "remove" /\ req[p].call.target = u
            /\ ~Undisturbed(p)]_vars
  BY <1>1
<1> QED
  BY <1>2, PTL DEF Spec, RemovalSquare

(* Only an account's own deletion closes it. *)
LEMMA OnlyDeletionErases ==
  ASSUME [Next]_vars, NEW u \in gone' \ gone
  PROVE  \E p \in Process : SoftDeleteUser(p) /\ req[p].call.by = u
<1>1. ~ UNCHANGED gone
  OBVIOUS
<1>2. PICK p \in Process : Start(p) \/ Step(p) \/ Abort(p)
  BY <1>1 DEF Next, vars
<1>3. CASE SoftDeleteUser(p)
  BY <1>3 DEF SoftDeleteUser
<1>4. CASE ~SoftDeleteUser(p)
  <2>1. UNCHANGED gone
    BY <1>2, <1>4 DEF Start, Step, Abort, AssertAccess, FindDetail, FindExpense, FindMembership,
       CountActiveUsers, FindUser, FindMemberships, ListForUser, Read, CreateExpense,
       CreateSettlement, Insert, SoftDeleteExpense, RemoveMember, AddMembers, SoftDeleteTrip,
       NoDues, Summarise, SettleUp, SettledUp, ViewerNet, Answer, Proceed, trip
  <2> QED
    BY <1>1, <2>1
<1> QED
  BY <1>3, <1>4

(* An account is deleted without dues in the trip unless a row came or went
   since its aggregates, or its owner was no member when they were skipped. *)
THEOREM ErasureIsSquare == Spec => ErasureSquare
<1>1. ASSUME LedgerIInv, [Next]_vars, NEW u \in gone' \ gone
      PROVE  \/ Net(u) = 0
             \/ \E p \in Process :
                  /\ req[p].at = "write" /\ req[p].call.op = "deleteAccount" /\ req[p].call.by = u
                  /\ Missing(p) # {} \/ ~Undisturbed(p)
  <2>1. PICK p \in Process : SoftDeleteUser(p) /\ req[p].call.by = u
    BY <1>1, OnlyDeletionErases
  <2>2. req[p].at = "write" /\ req[p].call.op = "deleteAccount" /\ CallInv(req[p])
    BY <1>1, <2>1 DEF SoftDeleteUser, LedgerIInv
  <2>3. ASSUME Missing(p) = {}, Undisturbed(p) PROVE Net(u) = 0
    <3>1. /\ {"payments", "participants", "sent", "received"} \subseteq DOMAIN req[p].read
          /\ Queries(req[p].call.op) \subseteq DOMAIN req[p].read
      BY <2>2, <2>3 DEF Missing, Queries
    <3>2. Dues(u, req[p].read) = 0
      BY <2>1, <2>2, <3>1 DEF CallInv
    <3>3. /\ req[p].read["payments"] = Expenses(book)
          /\ req[p].read["participants"] = Expenses(book)
          /\ req[p].read["sent"] = Settlements(book)
          /\ req[p].read["received"] = Settlements(book)
      BY <2>3, <3>1 DEF Undisturbed, Rows
    <3> QED
      BY <3>2, <3>3 DEF Dues, Net, UserNet
  <2> QED
    BY <2>1, <2>2, <2>3
<1>2. LedgerIInv /\ [Next]_vars => [\A u \in gone' \ gone :
       \/ Net(u) = 0
       \/ \E p \in Process :
            /\ req[p].at = "write" /\ req[p].call.op = "deleteAccount" /\ req[p].call.by = u
            /\ Missing(p) # {} \/ ~Undisturbed(p)]_vars
  BY <1>1
<1> QED
  BY <1>2, LedgerInvariant, PTL DEF Spec, ErasureSquare

-----------------------------------------------------------------------------
(* Nobody is admitted to a deleted trip. *)
LEMMA NobodyAdmitted ==
  ASSUME LedgerIInv, [Next]_vars, tripDeleted
  PROVE  /\ tripDeleted'
         /\ \/ Len(book') = Len(book) /\ Admitted' \subseteq Admitted
            \/ Len(book') = Len(book) + 1 /\ \E p \in Admitted : Admitted' \subseteq Admitted \ {p}
<1> DEFINE Still == tripDeleted' /\ Len(book') = Len(book) /\ Admitted' \subseteq Admitted
<1>1. CASE UNCHANGED vars
  BY <1>1 DEF vars, Admitted
<1>2. ASSUME NEW p \in Process, Start(p) \/ Step(p) \/ Abort(p)
      PROVE  \/ Still
             \/ /\ tripDeleted' /\ Len(book') = Len(book) + 1
                /\ \E q \in Admitted : Admitted' \subseteq Admitted \ {q}
  <2> DEFINE stays(r) == r.at # "write" \/ r.call.op \notin {"expense", "settle"}
  <2>1. DOMAIN req = Process /\ CallInv(req[p])
    BY DEF LedgerIInv
  <2>2. ASSUME NEW r, req' = [req EXCEPT ![p] = r], stays(r)
        PROVE  Admitted' \subseteq Admitted \ {p}
    BY <2>1, <2>2 DEF Admitted
  <2>3. stays(Idle)
    BY DEF Idle
  <2>4. ASSUME Done(p) PROVE Admitted' \subseteq Admitted \ {p}
    BY <2>2, <2>3, <2>4 DEF Done
  <2>5. ASSUME NEW ok \in BOOLEAN, NEW next, Proceed(p, ok, next),
               next = "write" => req[p].call.op \notin {"expense", "settle"}
        PROVE  Still
    <3> DEFINE r == IF ok THEN [req[p] EXCEPT !.at = next] ELSE Idle
    <3>1. req' = [req EXCEPT ![p] = r] /\ UNCHANGED trip
      BY <2>5 DEF Proceed
    <3>2. stays(r)
      BY <2>1, <2>3, <2>5 DEF CallInv, Idle
    <3> HIDE DEF r, stays
    <3> QED
      BY <2>2, <3>1, <3>2 DEF trip
  <2>6. CASE Start(p)
    <3>1. PICK c \in Call :
            req' = [req EXCEPT ![p] = [Idle EXCEPT !.at = FirstStatement(c.op), !.call = c]]
      BY <2>6 DEF Start
    <3>2. stays([Idle EXCEPT !.at = FirstStatement(c.op), !.call = c])
      BY DEF Idle, FirstStatement
    <3> HIDE DEF stays
    <3> QED
      BY <2>2, <2>6, <3>1, <3>2 DEF Start, trip
  <2>7. CASE AssertAccess(p)
    <3>1. \E ok \in BOOLEAN : Proceed(p, ok, AfterAccess(req[p].call.op))
      BY <2>7 DEF AssertAccess
    <3>2. AfterAccess(req[p].call.op) = "write" => req[p].call.op \notin {"expense", "settle"}
      BY DEF AfterAccess
    <3> QED
      BY <2>5, <3>1, <3>2
  <2>8. CASE FindDetail(p)
    <3>1. req' = [req EXCEPT ![p] = Idle] /\ UNCHANGED trip
      BY <2>8 DEF FindDetail
    <3> HIDE DEF stays
    <3> QED
      BY <2>2, <2>3, <3>1 DEF trip
  <2>9. CASE FindExpense(p) \/ FindMembership(p) \/ ListForUser(p) \/ SettledUp(p) \/ Answer(p) \/ Abort(p)
    <3>1. \E ok \in BOOLEAN, next \in {"assertAccess", "read", "answer", "idle"} : Proceed(p, ok, next)
      <4> DEFINE live == req[p].call.row \in DOMAIN Expenses(book)
                 theirs == req[p].call.target \in members \ {Owner}
                 listed == ~tripDeleted /\ req[p].call.by \in members
      <4>1. FindExpense(p) => live \in BOOLEAN /\ Proceed(p, live, "assertAccess")
        BY DEF FindExpense
      <4>2. /\ FindMembership(p) => theirs \in BOOLEAN /\ Proceed(p, theirs, "read")
            /\ ListForUser(p) => listed \in BOOLEAN /\ Proceed(p, listed, "read")
        BY DEF FindMembership, ListForUser
      <4> HIDE DEF live, theirs, listed
      <4>3. SettledUp(p) => Proceed(p, TRUE, "answer")
        BY DEF SettledUp
      <4>4. Answer(p) \/ Abort(p) => Proceed(p, FALSE, "idle")
        BY DEF Answer, Abort
      <4> QED
        BY <2>9, <4>1, <4>2, <4>3, <4>4
    <3> QED
      BY <2>5, <3>1
  <2>10. CASE CountActiveUsers(p) \/ FindUser(p) \/ FindMemberships(p) \/ NoDues(p)
    <3>1. req[p].call.op \in {"add", "deleteAccount"}
      BY <2>1, <2>10 DEF CallInv, CountActiveUsers, FindUser, FindMemberships, NoDues
    <3>2. \E ok \in BOOLEAN, next \in {"write", "findMemberships", "read"} : Proceed(p, ok, next)
      BY <2>10 DEF CountActiveUsers, FindUser, FindMemberships, NoDues
    <3> QED
      BY <2>5, <3>1, <3>2
  <2>11. CASE Read(p)
    <3>1. req[p].at = "read" /\ UNCHANGED trip
      BY <2>11 DEF Read
    <3>2. PICK new : req' = [req EXCEPT ![p] = [@ EXCEPT !.read = new]]
      BY <2>11 DEF Read
    <3>3. stays([req[p] EXCEPT !.read = new])
      BY <2>1, <3>1 DEF CallInv, Idle
    <3>4. req' = [req EXCEPT ![p] = [req[p] EXCEPT !.read = new]]
      BY <2>1, <3>2
    <3> HIDE DEF stays
    <3> QED
      BY <2>2, <3>1, <3>3, <3>4 DEF trip
  <2>12. CASE CreateExpense(p) \/ CreateSettlement(p)
    <3>1. p \in Admitted /\ Done(p) /\ UNCHANGED tripDeleted
      BY <2>12 DEF CreateExpense, CreateSettlement, Insert, Admitted
    <3>2. Len(book') = Len(book) + 1
      <4>1. \E row : book' = Append(book, row)
        BY <2>12 DEF CreateExpense, CreateSettlement, Insert
      <4> QED
        BY <4>1, AppendFits DEF LedgerIInv, Tables
    <3> QED
      BY <2>4, <3>1, <3>2
  <2>13. CASE SoftDeleteExpense(p)
    <3>1. Done(p) /\ UNCHANGED tripDeleted
      BY <2>13 DEF SoftDeleteExpense
    <3>2. Len(book') = Len(book)
      <4>1. Len(book) \in Nat /\ DOMAIN book = 1 .. Len(book)
        BY DEF LedgerIInv, Tables
      <4>2. book' = [book EXCEPT ![req[p].call.row].deleted = TRUE]
        BY <2>13 DEF SoftDeleteExpense
      <4> QED
        BY <4>1, <4>2
    <3> QED
      BY <2>4, <3>1, <3>2
  <2>14. CASE RemoveMember(p) \/ AddMembers(p) \/ SoftDeleteTrip(p) \/ SoftDeleteUser(p)
    <3>1. Done(p) /\ UNCHANGED book /\ tripDeleted'
      BY <2>14 DEF RemoveMember, AddMembers, SoftDeleteTrip, SoftDeleteUser
    <3> QED
      BY <2>4, <3>1
  <2>15. CASE Summarise(p) \/ SettleUp(p) \/ ViewerNet(p)
    <3>1. PICK r : req' = [req EXCEPT ![p] = r] /\ r.at \in {"simplify", "answer"} /\ UNCHANGED trip
      <4>1. CASE Summarise(p)
        <5> DEFINE nets == ComputeNetBalances(req[p].team, req[p].read["expenses"], req[p].read["settlements"])
                   at == IF req[p].call.simplify THEN "simplify" ELSE "answer"
                   r == [req[p] EXCEPT !.at = at, !.nets = nets, !.left = nets]
        <5>1. req' = [req EXCEPT ![p] = r] /\ UNCHANGED trip
          BY <4>1 DEF Summarise
        <5>2. r.at \in {"simplify", "answer"}
          BY <2>1 DEF CallInv, Idle
        <5> QED
          BY <5>1, <5>2
      <4>2. CASE SettleUp(p)
        <5> DEFINE r == [req[p] EXCEPT !.left = Apply(@, NextTransfer(req[p].nets, req[p].left)),
                                       !.plan = Append(@, NextTransfer(req[p].nets, req[p].left))]
        <5>1. req' = [req EXCEPT ![p] = r] /\ UNCHANGED trip /\ req[p].at = "simplify"
          BY <4>2 DEF SettleUp
        <5>2. r.at \in {"simplify", "answer"}
          BY <2>1, <5>1 DEF CallInv, Idle
        <5> QED
          BY <5>1, <5>2
      <4>3. CASE ViewerNet(p)
        <5> DEFINE net == [v \in {req[p].call.by} |-> UserNet(v, req[p].read["expenses"], req[p].read["settlements"])]
                   r == [req[p] EXCEPT !.at = "answer", !.nets = net]
        <5>1. req' = [req EXCEPT ![p] = r] /\ UNCHANGED trip
          BY <4>3 DEF ViewerNet
        <5>2. r.at \in {"simplify", "answer"}
          BY <2>1 DEF CallInv, Idle
        <5> QED
          BY <5>1, <5>2
      <4> QED
        BY <2>15, <4>1, <4>2, <4>3
    <3>2. stays(r)
      BY <3>1
    <3> HIDE DEF stays
    <3> QED
      BY <2>2, <3>1, <3>2 DEF trip
  <2> HIDE DEF Still, stays
  <2> QED
    BY <1>2, <2>6, <2>7, <2>8, <2>9, <2>10, <2>11, <2>12, <2>13, <2>14, <2>15 DEF Step
<1> QED
  BY <1>1, <1>2 DEF Next

(* A deleted trip takes at most the rows of the calls admitted before. *)
THEOREM DeletedTripIsDry == Spec => DeletedTripDries
<1> DEFINE Dries == tripDeleted =>
             /\ Len(book') + Cardinality(Admitted') <= Len(book) + Cardinality(Admitted)
             /\ tripDeleted'
<1>1. ASSUME LedgerIInv, [Next]_vars, tripDeleted PROVE Dries
  <2>1. /\ tripDeleted'
        /\ \/ Len(book') = Len(book) /\ Admitted' \subseteq Admitted
           \/ Len(book') = Len(book) + 1 /\ \E p \in Admitted : Admitted' \subseteq Admitted \ {p}
    BY <1>1, NobodyAdmitted
  <2>2. IsFiniteSet(Admitted) /\ Len(book) \in Nat
    <3>1. Admitted \subseteq Process
      BY DEF Admitted
    <3> QED
      BY <1>1, <3>1, LedgerAssumption, FS_Subset DEF LedgerIInv, Tables
  <2>3. Cardinality(Admitted) \in Nat
    BY <2>2, FS_CardinalityType
  <2>4. CASE Len(book') = Len(book) /\ Admitted' \subseteq Admitted
    <3>1. Cardinality(Admitted') <= Cardinality(Admitted) /\ Cardinality(Admitted') \in Nat
      BY <2>2, <2>4, FS_Subset, FS_CardinalityType
    <3> QED
      BY <2>1, <2>2, <2>3, <2>4, <3>1
  <2>5. CASE Len(book') = Len(book) + 1 /\ \E p \in Admitted : Admitted' \subseteq Admitted \ {p}
    <3>1. PICK p \in Admitted : Admitted' \subseteq Admitted \ {p}
      BY <2>5
    <3>2. IsFiniteSet(Admitted \ {p}) /\ Cardinality(Admitted \ {p}) = Cardinality(Admitted) - 1
      BY <2>2, FS_RemoveElement
    <3>3. Cardinality(Admitted') <= Cardinality(Admitted \ {p}) /\ Cardinality(Admitted') \in Nat
      BY <3>1, <3>2, FS_Subset, FS_CardinalityType
    <3> QED
      BY <2>1, <2>2, <2>3, <2>5, <3>2, <3>3
  <2> QED
    BY <2>1, <2>4, <2>5
<1>2. LedgerIInv /\ [Next]_vars => [Dries]_vars
  BY <1>1
<1> QED
  BY <1>2, LedgerInvariant, PTL DEF Spec, DeletedTripDries

-----------------------------------------------------------------------------
(* What the rows say, and what is computed from them. *)

(* Users are finitely many numbers. *)
LEMMA FiniteUsers ==
  /\ IsFiniteSet(User) /\ User \subseteq Nat
  /\ \A T \in SUBSET User : IsFiniteSet(T)
  BY LedgerAssumption, FS_Subset

-----------------------------------------------------------------------------
(* Rows. *)

ExpenseOK(r) ==
  /\ r.deleted \in BOOLEAN
  /\ \A u \in DOMAIN r.paid : r.paid[u] \in Int
  /\ \A u \in DOMAIN r.share : r.share[u] \in Int
  /\ Fair(r)

RowOK(r) ==
  /\ RowFits(r)
  /\ IsSettlement(r) => r.from # r.to
  /\ ~IsSettlement(r) => ExpenseOK(r)

RowsOK == \A i \in DOMAIN book : RowOK(book[i])

(* The calculator of an expense about to be written accepts its figures. *)
LEMMA AdmittedComputes ==
  ASSUME LedgerIInv, NEW p \in Process, req[p].at = "write", req[p].call.op = "expense"
  PROVE  LET body == req[p].call.body IN
         /\ body.people \in Entries /\ body.payments \in Entries /\ body.split \in SplitType
         /\ SchemaAccepts(body) /\ PartiesFit(body, req[p].team) /\ IsFiniteSet(req[p].team)
         /\ CanCompute(body.split, body.amount, RawParticipants(body, req[p].team), PrimaryPayer(body))
<1> DEFINE c == req[p].call
           body == c.body
           team == req[p].team
<1>1. /\ c \in Call /\ Valid(c) /\ team \subseteq User
      /\ PartiesFit(body, team)
  BY DEF LedgerIInv, CallInv
<1>2. SchemaAccepts(body)
  BY <1>1 DEF Valid
<1>3. body.people \in Entries /\ body.payments \in Entries /\ body.split \in SplitType
  BY <1>1, LedgerAssumption DEF Entries
<1>4. IsFiniteSet(team)
  BY <1>1, FiniteUsers
<1> HIDE DEF body, team
<1>5. CanCompute(body.split, body.amount, RawParticipants(body, team), PrimaryPayer(body))
  BY <1>1, <1>2, <1>3, <1>4, CalculatorAccepts
<1> QED
  BY <1>1, <1>2, <1>3, <1>4, <1>5 DEF body, team

(* The calculators never refuse what the schema and the membership checks let
   through. *)
THEOREM CalculatorsNeverRefuse == Spec => []SchemaCalculatorsAgree
<1>1. LedgerIInv => SchemaCalculatorsAgree
  BY AdmittedComputes DEF SchemaCalculatorsAgree
<1> QED
  BY <1>1, LedgerInvariant, PTL

(* The row of a new expense is whole and fair. *)
LEMMA NewExpenseOK ==
  ASSUME LedgerIInv, NEW p \in Process, CreateExpense(p)
  PROVE  RowOK(ExpenseRow(req[p].call, req[p].team))
<1> DEFINE c == req[p].call
           body == c.body
           team == req[p].team
           figures == RawParticipants(body, team)
           row == ExpenseRow(c, team)
           share == Compute(body.split, body.amount, figures, PrimaryPayer(body))
           paid == ByUser(EffectivePayments(body))
<1>1. /\ req[p].at = "write" /\ c.op = "expense" /\ body.amount <= Int4Max
  BY DEF CreateExpense
<1>2. /\ body.people \in Entries /\ body.payments \in Entries /\ body.split \in SplitType
      /\ SchemaAccepts(body) /\ PartiesFit(body, team) /\ IsFiniteSet(team)
      /\ CanCompute(body.split, body.amount, figures, PrimaryPayer(body))
  BY <1>1, AdmittedComputes
<1>3. body.amount \in 1 .. Int4Max
  BY <1>1, <1>2, LedgerAssumption DEF SchemaAccepts, BaseFieldsFit
<1>4. team \subseteq User /\ team \subseteq Nat
  BY FiniteUsers DEF LedgerIInv, CallInv
<1>5. /\ DOMAIN figures \subseteq team /\ IsFiniteSet(DOMAIN figures)
  BY <1>2, FiguresAddUp
<1>6. /\ DOMAIN paid = Users(EffectivePayments(body))
      /\ PrimaryPayer(body) \in DOMAIN paid
      /\ \A u \in DOMAIN paid : paid[u] \in Int /\ paid[u] > 0
      /\ SumFunction(paid) = body.amount
  BY <1>2, PaymentsAddUp
<1>7. DOMAIN paid \subseteq team
  BY <1>2, <1>6 DEF PartiesFit
<1>8. /\ DOMAIN row = {"kind", "amount", "split", "figures", "payer", "paid", "share", "by", "deleted"}
      /\ row.kind = "expense" /\ row.amount = body.amount /\ row.split = body.split
      /\ row.figures = SplitMeta(body.split, figures) /\ row.payer = PrimaryPayer(body)
      /\ row.paid = paid /\ row.share = share /\ row.deleted = FALSE
  BY DEF ExpenseRow
<1> DEFINE whole == SumFunction(figures)
           n == Cardinality(DOMAIN figures)
<1>9. /\ DOMAIN share = DOMAIN figures
      /\ \A u \in DOMAIN figures : share[u] \in Nat
      /\ SumFunction(share) = body.amount
      /\ body.split \in {"PERCENT", "SHARES"} =>
           \A u, v \in DOMAIN figures :
             /\ Abs(whole * share[u] - body.amount * figures[u]) < whole
             /\ figures[u] > figures[v] => share[u] >= share[v]
             /\ figures[u] = figures[v] => Abs(share[u] - share[v]) <= 1
      /\ body.split = "EQUAL" =>
           \A u \in DOMAIN figures \ {PrimaryPayer(body)} :
             /\ share[u] = body.amount \div n
             /\ share[PrimaryPayer(body)] - share[u] \in 0 .. n - 1
  <2>1. body.amount \in Nat \ {0} /\ DOMAIN figures \subseteq Nat
    BY <1>3, <1>4, <1>5
  <2> DEFINE split == body.split
             amount == body.amount
             payer == PrimaryPayer(body)
  <2>2. CanCompute(split, amount, figures, payer) /\ split \in SplitType
    BY <1>2
  <2> HIDE DEF figures, body, split, amount, payer
  <2> QED
    BY <1>2, <1>5, <2>1, <2>2, CalculatorsAreFair DEF split, amount, payer
<1> HIDE DEF row, share, paid, figures, body
<1>10. Fair(row)
  <2>1. Intact(row)
    BY <1>6, <1>8, <1>9 DEF Intact
  <2>2. \A u \in DOMAIN row.share : row.share[u] >= 0
    BY <1>8, <1>9
  <2>3. row.split # "EQUAL" => row.figures = figures
    BY <1>8 DEF SplitMeta
  <2>4. row.split \in {"PERCENT", "SHARES"} =>
           \A u, v \in DOMAIN row.share :
             /\ Abs(SumFunction(row.figures) * row.share[u] - row.amount * row.figures[u]) < SumFunction(row.figures)
             /\ row.figures[u] > row.figures[v] => row.share[u] >= row.share[v]
             /\ row.figures[u] = row.figures[v] => Abs(row.share[u] - row.share[v]) <= 1
    BY <1>8, <1>9, <2>3, Zenon
  <2>5. row.split = "EQUAL" =>
           \A u \in DOMAIN row.share \ {row.payer} :
             /\ row.share[u] = row.amount \div Cardinality(DOMAIN row.share)
             /\ row.share[row.payer] - row.share[u] \in 0 .. Cardinality(DOMAIN row.share) - 1
    BY <1>8, <1>9, Zenon
  <2> QED
    BY <2>1, <2>2, <2>4, <2>5, Zenon DEF Fair
<1>11. RowFits(row)
  BY <1>3, <1>4, <1>5, <1>7, <1>8, <1>9 DEF RowFits, Columns, Parties, IsSettlement
<1>12. RowOK(row)
  <2>1. ~IsSettlement(row) /\ row.deleted \in BOOLEAN
    BY <1>8 DEF IsSettlement
  <2>2. \A u \in DOMAIN row.paid : row.paid[u] \in Int
    BY <1>6, <1>8
  <2>3. \A u \in DOMAIN row.share : row.share[u] \in Int
    BY <1>8, <1>9
  <2>4. ExpenseOK(row)
    BY <1>10, <2>1, <2>2, <2>3 DEF ExpenseOK
  <2> QED
    BY <1>11, <2>1, <2>4 DEF RowOK
<1> QED
  BY <1>12 DEF row

(* So is the row of a new settlement. *)
LEMMA NewSettlementOK ==
  ASSUME LedgerIInv, NEW p \in Process, CreateSettlement(p), NEW row,
         row = [kind |-> "settlement", from |-> req[p].call.from, to |-> req[p].call.to,
                amount |-> req[p].call.amount]
  PROVE  RowOK(row)
<1> DEFINE c == req[p].call
<1>1. /\ req[p].at = "write" /\ c.op = "settle" /\ c.amount <= Int4Max /\ CallInv(req[p])
  BY DEF CreateSettlement, LedgerIInv
<1>2. Valid(c) /\ {c.from, c.to} \subseteq User
  BY <1>1 DEF CallInv
<1>3. c.amount \in 1 .. Int4Max /\ c.from # c.to
  BY <1>1, <1>2, LedgerAssumption DEF Valid
<1>4. RowFits(row)
  BY <1>2, <1>3 DEF RowFits, Columns, Parties, IsSettlement
<1> QED
  BY <1>3, <1>4 DEF RowOK, IsSettlement

(* A deleted expense is as whole and fair as it was. *)
LEMMA DeletedOK ==
  ASSUME NEW r, RowOK(r), ~IsSettlement(r)
  PROVE  /\ RowOK([r EXCEPT !.deleted = TRUE])
         /\ ~IsSettlement([r EXCEPT !.deleted = TRUE])
<1> DEFINE s == [r EXCEPT !.deleted = TRUE]
<1>1. /\ DOMAIN s = DOMAIN r /\ s.kind = r.kind /\ s.amount = r.amount /\ s.deleted = TRUE
      /\ s.paid = r.paid /\ s.share = r.share /\ s.split = r.split /\ s.figures = r.figures
      /\ s.payer = r.payer
  BY DEF RowOK, RowFits, Columns
<1> HIDE DEF s
<1>2. RowFits(s) /\ ~IsSettlement(s)
  BY <1>1 DEF RowOK, RowFits, Columns, Parties, IsSettlement
<1>3. Intact(s) <=> Intact(r)
  BY <1>1 DEF Intact
<1>4. Fair(s) <=> Fair(r)
  BY <1>1, <1>3, Zenon DEF Fair
<1>5. ExpenseOK(s)
  BY <1>1, <1>4 DEF RowOK, ExpenseOK
<1> QED
  BY <1>2, <1>5 DEF RowOK, s

-----------------------------------------------------------------------------
(* What a step does to the rows and to the call that takes it. *)

(* A row is added at the end, an expense is marked, or nothing happens. *)
Added(row) ==
  /\ Len(book) \in Nat /\ DOMAIN book = 1 .. Len(book) /\ Len(book) + 1 <= MaxRows
  /\ DOMAIN book' = DOMAIN book \union {Len(book) + 1}
  /\ book'[Len(book) + 1] = row
  /\ \A i \in DOMAIN book : book'[i] = book[i]

Marked(i) ==
  /\ DOMAIN book' = DOMAIN book
  /\ i \in DOMAIN book => book'[i] = [book[i] EXCEPT !.deleted = TRUE]
  /\ \A j \in DOMAIN book \ {i} : book'[j] = book[j]

LEMMA InsertAdds ==
  ASSUME LedgerIInv, NEW p \in Process, NEW row, Insert(p, row)
  PROVE  Added(row)
<1>1. /\ Len(book) < MaxRows /\ book' = Append(book, row) /\ MaxRows \in Nat
  BY LedgerAssumption DEF Insert
<1>2. /\ Len(book) \in Nat /\ DOMAIN book' = 1 .. Len(book) + 1
      /\ \A i \in 1 .. Len(book) + 1 : book'[i] = IF i <= Len(book) THEN book[i] ELSE row
  BY <1>1, AppendFits DEF LedgerIInv, Tables
<1>3. DOMAIN book = 1 .. Len(book)
  BY DEF LedgerIInv, Tables
<1> QED
  BY <1>1, <1>2, <1>3 DEF Added

BookStep(p) ==
  \/ UNCHANGED book
  \/ CreateExpense(p) /\ Added(ExpenseRow(req[p].call, req[p].team))
  \/ /\ CreateSettlement(p)
     /\ Added([kind |-> "settlement", from |-> req[p].call.from, to |-> req[p].call.to,
               amount |-> req[p].call.amount])
  \/ SoftDeleteExpense(p) /\ Marked(req[p].call.row)

LEMMA BookSteps ==
  ASSUME LedgerIInv, NEW p \in Process, Start(p) \/ Step(p) \/ Abort(p)
  PROVE  BookStep(p)
<1>1. CASE CreateExpense(p)
  <2>1. Insert(p, ExpenseRow(req[p].call, req[p].team))
    BY <1>1 DEF CreateExpense
  <2> QED
    BY <1>1, <2>1, InsertAdds DEF BookStep
<1>2. CASE CreateSettlement(p)
  <2>1. Insert(p, [kind |-> "settlement", from |-> req[p].call.from, to |-> req[p].call.to,
                   amount |-> req[p].call.amount])
    BY <1>2 DEF CreateSettlement
  <2> QED
    BY <1>2, <2>1, InsertAdds DEF BookStep
<1>3. CASE SoftDeleteExpense(p)
  <2>1. book' = [book EXCEPT ![req[p].call.row].deleted = TRUE]
    BY <1>3 DEF SoftDeleteExpense
  <2>2. Marked(req[p].call.row)
    BY <2>1 DEF Marked
  <2> QED
    BY <1>3, <2>2 DEF BookStep
<1>4. CASE ~(CreateExpense(p) \/ CreateSettlement(p) \/ SoftDeleteExpense(p))
  <2>1. UNCHANGED book
    BY <1>4 DEF Start, Step, Abort, AssertAccess, FindDetail, FindExpense, FindMembership,
       CountActiveUsers, FindUser, FindMemberships, ListForUser, Read, RemoveMember, AddMembers,
       SoftDeleteTrip, NoDues, SoftDeleteUser, Summarise, SettleUp, SettledUp, ViewerNet, Answer,
       Proceed, trip
  <2> QED
    BY <2>1 DEF BookStep
<1> QED
  BY <1>1, <1>2, <1>3, <1>4

(* A statement that neither reads rows nor computes from them. *)
Quiet(p) ==
  /\ req'[p].at \notin {"simplify", "answer"}
  /\ req'[p].read = <<>> \/ req'[p].read = req[p].read
  /\ req'[p].at = "findDetail" => req'[p].call.op \in {"expense", "settle", "balances"}
  /\ req'[p].at \in {"assertAccess", "write"} /\ req'[p].call.op = "deleteExpense" =>
       /\ req'[p].call = req[p].call
       /\ \/ req[p].at \in {"assertAccess", "findDetail"}
          \/ req[p].call.row \in DOMAIN Expenses(book)

CallStep(p) ==
  /\ \A q \in Process \ {p} : req'[q] = req[q]
  /\ Quiet(p) \/ Read(p) \/ Summarise(p) \/ SettleUp(p) \/ SettledUp(p) \/ ViewerNet(p)

LEMMA CallSteps ==
  ASSUME LedgerIInv, NEW p \in Process, Start(p) \/ Step(p) \/ Abort(p)
  PROVE  CallStep(p)
<1> DEFINE c == req[p].call
<1>1. DOMAIN req = Process /\ CallInv(req[p]) /\ DOMAIN req[p] = DOMAIN Idle
  BY DEF LedgerIInv, CallInv
<1>2. ASSUME NEW r, req' = [req EXCEPT ![p] = r]
      PROVE  req'[p] = r /\ \A q \in Process \ {p} : req'[q] = req[q]
  BY <1>1, <1>2
<1>3. ASSUME req' = [req EXCEPT ![p] = Idle] PROVE CallStep(p)
  <2>1. Idle.at = "idle" /\ Idle.read = <<>>
    BY DEF Idle
  <2>2. req'[p] = Idle /\ \A q \in Process \ {p} : req'[q] = req[q]
    BY <1>2, <1>3
  <2> QED
    BY <2>1, <2>2 DEF CallStep, Quiet
<1>4. ASSUME NEW ok \in BOOLEAN, NEW next, Proceed(p, ok, next),
             next \notin {"simplify", "answer"},
             next = "findDetail" => c.op \in {"expense", "settle", "balances"},
             ok /\ next \in {"assertAccess", "write"} /\ c.op = "deleteExpense" =>
               \/ req[p].at \in {"assertAccess", "findDetail"}
               \/ c.row \in DOMAIN Expenses(book)
      PROVE  CallStep(p)
  <2> DEFINE s == [req[p] EXCEPT !.at = next]
  <2>1. s.at = next /\ s.call = c /\ s.read = req[p].read
    BY <1>1 DEF Idle
  <2>2. CASE ok
    <3>1. req' = [req EXCEPT ![p] = s]
      BY <1>4, <2>2 DEF Proceed
    <3> HIDE DEF s
    <3>2. req'[p] = s /\ \A q \in Process \ {p} : req'[q] = req[q]
      BY <1>2, <3>1
    <3> QED
      BY <1>4, <2>1, <2>2, <3>2 DEF CallStep, Quiet
  <2>3. CASE ~ok
    <3>1. req' = [req EXCEPT ![p] = Idle]
      BY <1>4, <2>3 DEF Proceed
    <3> QED
      BY <1>3, <3>1
  <2> QED
    BY <2>2, <2>3
<1>5. CASE Start(p)
  <2>1. PICK d \in Call : req' = [req EXCEPT ![p] = [Idle EXCEPT !.at = FirstStatement(d.op), !.call = d]]
    BY <1>5 DEF Start
  <2> DEFINE r == [Idle EXCEPT !.at = FirstStatement(d.op), !.call = d]
  <2>2. r.at = FirstStatement(d.op) /\ r.call = d /\ r.read = <<>>
    BY DEF Idle
  <2> HIDE DEF r
  <2>3. /\ FirstStatement(d.op) \in {"findExpense", "findUser", "listForUser", "assertAccess"}
        /\ d.op = "deleteExpense" => FirstStatement(d.op) = "findExpense"
    BY DEF FirstStatement
  <2>4. req'[p] = r /\ \A q \in Process \ {p} : req'[q] = req[q]
    BY <1>2, <2>1 DEF r
  <2> QED
    BY <2>2, <2>3, <2>4 DEF CallStep, Quiet
<1>6. CASE AssertAccess(p)
  <2>1. req[p].at = "assertAccess" /\ \E ok \in BOOLEAN : Proceed(p, ok, AfterAccess(c.op))
    BY <1>6 DEF AssertAccess
  <2>2. /\ AfterAccess(c.op) \notin {"simplify", "answer"}
        /\ AfterAccess(c.op) = "findDetail" => c.op \in {"expense", "settle", "balances"}
    BY DEF AfterAccess
  <2> QED
    BY <1>4, <2>1, <2>2
<1>7. CASE FindDetail(p)
  <2> DEFINE team == members \ gone
             next == IF c.op = "balances" THEN "read" ELSE "write"
             r == [req[p] EXCEPT !.at = next, !.team = team]
  <2>1. req[p].at = "findDetail"
        /\ (req' = [req EXCEPT ![p] = r] \/ req' = [req EXCEPT ![p] = Idle])
    BY <1>7 DEF FindDetail
  <2>2. r.at = next /\ r.call = c /\ r.read = req[p].read /\ next \in {"read", "write"}
    BY <1>1 DEF Idle
  <2> HIDE DEF r, next
  <2>3. CASE req' = [req EXCEPT ![p] = r]
    <3>1. req'[p] = r /\ \A q \in Process \ {p} : req'[q] = req[q]
      BY <1>2, <2>3
    <3> QED
      BY <2>1, <2>2, <3>1 DEF CallStep, Quiet
  <2> QED
    BY <1>3, <2>1, <2>3
<1>8. CASE FindExpense(p)
  <2> DEFINE ok == c.row \in DOMAIN Expenses(book)
  <2>1. ok \in BOOLEAN /\ Proceed(p, ok, "assertAccess")
    BY <1>8 DEF FindExpense
  <2>2. ok => c.row \in DOMAIN Expenses(book)
    OBVIOUS
  <2> HIDE DEF ok
  <2> QED
    BY <1>4, <2>1, <2>2
<1>9. CASE FindMembership(p) \/ ListForUser(p)
  <2> DEFINE theirs == c.target \in members \ {Owner}
             listed == ~tripDeleted /\ c.by \in members
  <2>1. /\ FindMembership(p) => theirs \in BOOLEAN /\ Proceed(p, theirs, "read")
        /\ ListForUser(p) => listed \in BOOLEAN /\ Proceed(p, listed, "read")
    BY DEF FindMembership, ListForUser
  <2> HIDE DEF theirs, listed
  <2> QED
    BY <1>4, <1>9, <2>1
<1>10. CASE CountActiveUsers(p) \/ FindUser(p) \/ FindMemberships(p) \/ NoDues(p)
  <2>1. c.op \in {"add", "deleteAccount"}
    BY <1>1, <1>10 DEF CallInv, CountActiveUsers, FindUser, FindMemberships, NoDues
  <2>2. \E ok \in BOOLEAN, next \in {"write", "findMemberships", "read"} : Proceed(p, ok, next)
    BY <1>10 DEF CountActiveUsers, FindUser, FindMemberships, NoDues
  <2> QED
    BY <1>4, <2>1, <2>2
<1>11. CASE \/ CreateExpense(p) \/ CreateSettlement(p) \/ SoftDeleteExpense(p) \/ RemoveMember(p)
            \/ AddMembers(p) \/ SoftDeleteTrip(p) \/ SoftDeleteUser(p)
  <2>1. Done(p)
    BY <1>11 DEF CreateExpense, CreateSettlement, Insert, SoftDeleteExpense, RemoveMember,
       AddMembers, SoftDeleteTrip, SoftDeleteUser
  <2> QED
    BY <1>3, <2>1 DEF Done
<1>12. CASE Answer(p) \/ Abort(p)
  <2>1. req' = [req EXCEPT ![p] = Idle]
    BY <1>12 DEF Answer, Abort, Proceed
  <2> QED
    BY <1>3, <2>1
<1>13. CASE Read(p)
  <2>1. \E r : req' = [req EXCEPT ![p] = r]
    BY <1>13 DEF Read
  <2> QED
    BY <1>2, <1>13, <2>1 DEF CallStep
<1>14. CASE Summarise(p)
  <2>1. \E r : req' = [req EXCEPT ![p] = r]
    BY <1>14 DEF Summarise
  <2> QED
    BY <1>2, <1>14, <2>1 DEF CallStep
<1>15. CASE SettleUp(p)
  <2>1. \E r : req' = [req EXCEPT ![p] = r]
    BY <1>15 DEF SettleUp
  <2> QED
    BY <1>2, <1>15, <2>1 DEF CallStep
<1>16. CASE SettledUp(p)
  <2>1. \E r : req' = [req EXCEPT ![p] = r]
    BY <1>16 DEF SettledUp, Proceed
  <2> QED
    BY <1>2, <1>16, <2>1 DEF CallStep
<1>17. CASE ViewerNet(p)
  <2>1. \E r : req' = [req EXCEPT ![p] = r]
    BY <1>17 DEF ViewerNet
  <2> QED
    BY <1>2, <1>17, <2>1 DEF CallStep
<1> QED
  BY <1>5, <1>6, <1>7, <1>8, <1>9, <1>10, <1>11, <1>12, <1>13, <1>14, <1>15, <1>16, <1>17 DEF Step

-----------------------------------------------------------------------------
(* The simplified plan. *)

(* A transfer goes from a debtor to a creditor and leaves the total alone. *)
LEMMA TransferMoves ==
  ASSUME NEW S \in SUBSET Nat, IsFiniteSet(S), NEW nets \in [S -> Int],
         NEW left \in [S -> Int], Unfinished(left)
  PROVE  LET t == NextTransfer(nets, left)
             next == Apply(left, t)
         IN  /\ t.amount \in Int /\ t.amount > 0
             /\ t.from \in Debtors(left) /\ t.to \in Creditors(left)
             /\ \A u \in S : next[u] = left[u] + (IF t.from = u THEN t.amount ELSE 0)
                                              - (IF t.to = u THEN t.amount ELSE 0)
             /\ Debtors(next) \subseteq Debtors(left) /\ Creditors(next) \subseteq Creditors(left)
             /\ SumFunctionOnSet(next, S) = SumFunctionOnSet(left, S)
             /\ Cardinality(Open(left)) >= 2
<1> DEFINE d == First(nets, Debtors(left))
           c == First(nets, Creditors(left))
           t == NextTransfer(nets, left)
           next == Apply(left, t)
           pay == IF -left[d] < left[c] THEN -left[d] ELSE left[c]
<1>1. Debtors(left) \subseteq S /\ Creditors(left) \subseteq S
  BY DEF Debtors, Creditors
<1>2. d \in Debtors(left) /\ c \in Creditors(left)
  <2>1. IsFiniteSet(Debtors(left)) /\ IsFiniteSet(Creditors(left))
    BY <1>1, FS_Subset
  <2> QED
    BY <1>1, <2>1, FirstIsThere DEF Unfinished
<1>3. t = [from |-> d, to |-> c, amount |-> pay]
  BY DEF NextTransfer
<1>4. t.from = d /\ t.to = c /\ t.amount = pay
  BY <1>3
<1> HIDE DEF d, c
<1>5. /\ d \in S /\ c \in S /\ d # c
      /\ left[d] \in Int /\ left[c] \in Int /\ left[d] < 0 /\ left[c] > 0
  <2>1. d \in S /\ c \in S /\ left[d] \in Int /\ left[c] \in Int
    BY <1>1, <1>2
  <2>2. left[d] < 0 /\ left[c] > 0
    BY <1>2 DEF Debtors, Creditors
  <2> QED
    BY <2>1, <2>2
<1>6. pay \in Int /\ pay > 0 /\ pay <= -left[d] /\ pay <= left[c]
  BY <1>5
<1> HIDE DEF pay, t
<1>7. next = [left EXCEPT ![d] = @ + pay, ![c] = @ - pay]
  BY <1>4 DEF Apply
<1>8. /\ next \in [S -> Int]
      /\ next[d] = left[d] + pay /\ next[c] = left[c] - pay
      /\ \A u \in S \ {d, c} : next[u] = left[u]
  BY <1>5, <1>6, <1>7
<1> HIDE DEF next
<1>9. \A u \in S : next[u] = left[u] + (IF t.from = u THEN t.amount ELSE 0)
                                     - (IF t.to = u THEN t.amount ELSE 0)
  BY <1>4, <1>5, <1>6, <1>8
<1>10. Debtors(next) \subseteq Debtors(left) /\ Creditors(next) \subseteq Creditors(left)
  <2>1. /\ next[d] <= 0 /\ next[c] >= 0 /\ next[d] \in Int /\ next[c] \in Int
        /\ DOMAIN next = S /\ DOMAIN left = S
    BY <1>5, <1>6, <1>8
  <2>2. ASSUME NEW u \in Debtors(next) PROVE u \in Debtors(left)
    BY <1>2, <1>8, <2>1 DEF Debtors
  <2>3. ASSUME NEW u \in Creditors(next) PROVE u \in Creditors(left)
    BY <1>2, <1>8, <2>1 DEF Creditors
  <2> QED
    BY <2>2, <2>3
<1>11. SumFunctionOnSet(next, S) = SumFunctionOnSet(left, S)
  <2> DEFINE to == [u \in S |-> IF u = d THEN pay ELSE 0]
             from == [u \in S |-> IF u = c THEN pay ELSE 0]
             paid == [u \in S |-> left[u] + to[u]]
  <2>1. /\ to[d] = pay /\ \A u \in S \ {d} : to[u] = 0
        /\ from[c] = pay /\ \A u \in S \ {c} : from[u] = 0
    BY <1>5
  <2>2. \A u \in S : /\ to[u] \in Int /\ from[u] \in Int /\ left[u] \in Int
                     /\ paid[u] = left[u] + to[u] /\ paid[u] \in Int
                     /\ next[u] = paid[u] - from[u]
    BY <1>5, <1>6, <1>8
  <2> HIDE DEF to, from, paid
  <2>3. SumFunctionOnSet(to, S) = pay
    <3>1. d \in S /\ to[d] \in Int /\ \A y \in S \ {d} : to[y] = 0
      BY <1>5, <1>6, <2>1
    <3>2. SumFunctionOnSet(to, S) = to[d]
      BY <3>1, SumSingle
    <3> QED
      BY <2>1, <3>2
  <2>3a. SumFunctionOnSet(from, S) = pay
    <3>1. c \in S /\ from[c] \in Int /\ \A y \in S \ {c} : from[y] = 0
      BY <1>5, <1>6, <2>1
    <3>2. SumFunctionOnSet(from, S) = from[c]
      BY <3>1, SumSingle
    <3> QED
      BY <2>1, <3>2
  <2>4. SumFunctionOnSet(paid, S) = SumFunctionOnSet(left, S) + SumFunctionOnSet(to, S)
    <3>1. \A u \in S : left[u] \in Int /\ to[u] \in Int /\ paid[u] = left[u] + to[u]
      BY <2>2
    <3> QED
      BY <3>1, SumPlus
  <2>5. SumFunctionOnSet(next, S) = SumFunctionOnSet(paid, S) - SumFunctionOnSet(from, S)
    <3>1. \A u \in S : paid[u] \in Int /\ from[u] \in Int /\ next[u] = paid[u] - from[u]
      BY <2>2
    <3> QED
      BY <3>1, SumMinus
  <2>6. SumFunctionOnSet(left, S) \in Int
    BY <2>2, SumInt
  <2> QED
    BY <1>6, <2>3, <2>3a, <2>4, <2>5, <2>6
<1>12. Cardinality(Open(left)) >= 2
  <2>1. {d, c} \subseteq Open(left) /\ Open(left) \subseteq S
    BY <1>1, <1>2 DEF Open
  <2>2. IsFiniteSet(Open(left))
    BY <2>1, FS_Subset
  <2>3. IsFiniteSet({d}) /\ Cardinality({d}) = 1
    BY FS_Singleton
  <2>4. Cardinality({d} \union {c}) = 2
    <3> DEFINE one == {d}
    <3>1. IsFiniteSet(one) /\ Cardinality(one) = 1 /\ c \notin one
      BY <1>5, <2>3
    <3> HIDE DEF one
    <3>2. Cardinality(one \union {c}) = Cardinality(one) + 1
      BY <3>1, FS_AddElement
    <3> QED
      BY <3>1, <3>2 DEF one
  <2>5. {d} \union {c} \subseteq Open(left)
    BY <2>1
  <2>6. Cardinality({d} \union {c}) <= Cardinality(Open(left))
    BY <2>2, <2>5, FS_Subset
  <2> QED
    BY <2>2, <2>4, <2>6, FS_CardinalityType
<1>13. t.amount \in Int /\ t.amount > 0 /\ t.from \in Debtors(left) /\ t.to \in Creditors(left)
  BY <1>2, <1>4, <1>6
<1> QED
  BY <1>9, <1>10, <1>11, <1>12, <1>13 DEF next, t

(* When nobody owes or nobody is owed, balances that cancel out are all zero. *)
LEMMA NothingIsLeft ==
  ASSUME NEW S, IsFiniteSet(S), NEW left \in [S -> Int], SumFunctionOnSet(left, S) = 0,
         ~Unfinished(left)
  PROVE  \A u \in S : left[u] = 0
<1> DEFINE minus == [u \in S |-> -left[u]]
           none == [u \in S |-> 0]
<1>1. \A u \in S : /\ minus[u] = -left[u] /\ left[u] \in Int /\ minus[u] \in Int
                   /\ none[u] = 0 /\ none[u] = left[u] + minus[u]
  OBVIOUS
<1> HIDE DEF minus, none
<1>2. SumFunctionOnSet(none, S) = SumFunctionOnSet(left, S) + SumFunctionOnSet(minus, S)
      /\ SumFunctionOnSet(none, S) = 0
  BY <1>1, SumPlus, SumZero
<1>3. SumFunctionOnSet(minus, S) = 0
  BY <1>1, <1>2, SumInt
<1>4. CASE Debtors(left) = {}
  <2>1. \A u \in S : left[u] \in Nat
    BY <1>1, <1>4 DEF Debtors
  <2>2. \A u \in S : left[u] <= 0
    BY <2>1, SumNat
  <2> QED
    BY <2>1, <2>2
<1>5. CASE Creditors(left) = {}
  <2>1. \A u \in S : minus[u] \in Nat
    BY <1>1, <1>5 DEF Creditors
  <2>2. \A u \in S : minus[u] <= 0
    BY <1>3, <2>1, SumNat
  <2> QED
    BY <1>1, <2>1, <2>2
<1> QED
  BY <1>4, <1>5 DEF Unfinished

(* What the plan has done so far, and what it has left. *)
PlanOK(r) ==
  /\ r.left \in [DOMAIN r.nets -> Int]
  /\ r.plan \in Seq(Transfer)
  /\ Len(r.plan) + Cardinality(Open(r.left)) <= Cardinality(Open(r.nets))
  /\ Open(r.left) = {} /\ r.plan # <<>> => Len(r.plan) + 1 <= Cardinality(Open(r.nets))
  /\ \A u \in DOMAIN r.nets :
       r.left[u] = r.nets[u] + SettledOut(u, r.plan) - SettledIn(u, r.plan)
  /\ \A i \in DOMAIN r.plan :
       r.plan[i].amount > 0 /\ r.nets[r.plan[i].from] < 0 /\ r.nets[r.plan[i].to] > 0
  /\ Debtors(r.left) \subseteq Debtors(r.nets) /\ Creditors(r.left) \subseteq Creditors(r.nets)
  /\ SumFunctionOnSet(r.left, DOMAIN r.nets) = 0

NetsOK(nets) ==
  /\ DOMAIN nets \subseteq User
  /\ nets \in [DOMAIN nets -> Int]
  /\ SumFunctionOnSet(nets, DOMAIN nets) = 0

LEMMA OpenIsFinite ==
  ASSUME NEW f, DOMAIN f \subseteq User, f \in [DOMAIN f -> Int]
  PROVE  /\ Open(f) \subseteq DOMAIN f /\ IsFiniteSet(Open(f)) /\ Cardinality(Open(f)) \in Nat
         /\ Cardinality(Debtors(f)) \in Nat /\ Cardinality(Creditors(f)) \in Nat
         /\ Cardinality(Open(f)) = Cardinality(Debtors(f)) + Cardinality(Creditors(f))
<1>1. /\ Open(f) \subseteq User /\ Open(f) \subseteq DOMAIN f
      /\ Debtors(f) \subseteq User /\ Creditors(f) \subseteq User
  BY DEF Open, Debtors, Creditors
<1>2. /\ IsFiniteSet(Open(f)) /\ IsFiniteSet(Debtors(f)) /\ IsFiniteSet(Creditors(f))
  BY <1>1, FiniteUsers
<1>3. Open(f) = Debtors(f) \union Creditors(f) /\ Debtors(f) \intersect Creditors(f) = {}
  BY DEF Open, Debtors, Creditors
<1>4. Cardinality(Open(f)) = Cardinality(Debtors(f)) + Cardinality(Creditors(f))
  <2>1. Cardinality({}) = 0
    BY FS_EmptySet
  <2>2. Cardinality(Debtors(f)) \in Nat /\ Cardinality(Creditors(f)) \in Nat
    BY <1>2, FS_CardinalityType
  <2> QED
    BY <1>2, <1>3, <2>1, <2>2, FS_Union
<1> QED
  BY <1>1, <1>2, <1>4, FS_CardinalityType

-----------------------------------------------------------------------------
(* Rows that have been read stay whole, and so do the nets made of them. *)

ReadOK(read) ==
  \A q \in DOMAIN read :
    IsFiniteSet(DOMAIN read[q]) /\ \A i \in DOMAIN read[q] : RowOK(read[q][i])

LEMMA ReadFits ==
  ASSUME NEW read, RowsFit(read), ReadOK(read), {"expenses", "settlements"} \subseteq DOMAIN read
  PROVE  LET E == read["expenses"]
             S == read["settlements"]
         IN  /\ \A i \in DOMAIN E : RowOK(E[i]) /\ ~IsSettlement(E[i])
             /\ \A i \in DOMAIN S : RowOK(S[i]) /\ IsSettlement(S[i])
             /\ ExpensesFit(E, Appearing(E, S)) /\ SettlementsFit(S, Appearing(E, S))
             /\ Appearing(E, S) \subseteq User
<1> DEFINE E == read["expenses"]
           S == read["settlements"]
<1>1. /\ \A i \in DOMAIN E : RowOK(E[i]) /\ ~IsSettlement(E[i])
      /\ \A i \in DOMAIN S : RowOK(S[i]) /\ IsSettlement(S[i])
      /\ IsFiniteSet(DOMAIN E) /\ IsFiniteSet(DOMAIN S)
  BY DEF ReadOK, RowsFit, ExpenseQuery
<1>2. Appearing(E, S) \subseteq User
  BY AppearingAreUsers
<1> HIDE DEF E, S
<1>3. ASSUME NEW i \in DOMAIN E
      PROVE  /\ DOMAIN E[i].paid \subseteq Appearing(E, S) /\ DOMAIN E[i].share \subseteq Appearing(E, S)
             /\ \A u \in DOMAIN E[i].paid : E[i].paid[u] \in Nat
             /\ \A u \in DOMAIN E[i].share : E[i].share[u] \in Nat
             /\ SumFunction(E[i].paid) = E[i].amount /\ SumFunction(E[i].share) = E[i].amount
             /\ E[i].amount \in Nat
  <2>1. RowFits(E[i]) /\ ExpenseOK(E[i])
    BY <1>1 DEF RowOK
  <2>2. Intact(E[i]) /\ \A u \in DOMAIN E[i].share : E[i].share[u] >= 0
    BY <2>1 DEF ExpenseOK, Fair
  <2>3. DOMAIN E[i].paid \subseteq Appearing(E, S) /\ DOMAIN E[i].share \subseteq Appearing(E, S)
    BY DEF Appearing
  <2>4. E[i].amount \in Nat
    BY <2>1, LedgerAssumption DEF RowFits
  <2>5. \A u \in DOMAIN E[i].paid : E[i].paid[u] \in Nat
    BY <2>1, <2>2 DEF ExpenseOK, Intact
  <2>6. \A u \in DOMAIN E[i].share : E[i].share[u] \in Nat
    BY <2>1, <2>2 DEF ExpenseOK
  <2> QED
    BY <2>2, <2>3, <2>4, <2>5, <2>6 DEF Intact
<1>4. ExpensesFit(E, Appearing(E, S))
  BY <1>1, <1>3 DEF ExpensesFit
<1>5. ASSUME NEW i \in DOMAIN S
      PROVE  S[i].amount \in Nat /\ S[i].from \in Appearing(E, S) /\ S[i].to \in Appearing(E, S)
  <2>1. S[i].amount \in Nat
    BY <1>1, LedgerAssumption DEF RowOK, RowFits
  <2>2. {S[i].from, S[i].to} \subseteq Appearing(E, S)
    BY DEF Appearing
  <2> QED
    BY <2>1, <2>2
<1>6. SettlementsFit(S, Appearing(E, S))
  BY <1>1, <1>5 DEF SettlementsFit
<1> QED
  BY <1>1, <1>2, <1>4, <1>6 DEF E, S

(* A larger set of users fits as well. *)
LEMMA FitsInMore ==
  ASSUME NEW ids, NEW all, ids \subseteq all, NEW E, NEW S
  PROVE  /\ ExpensesFit(E, ids) => ExpensesFit(E, all)
         /\ SettlementsFit(S, ids) => SettlementsFit(S, all)
  BY DEF ExpensesFit, SettlementsFit

(* The nets of a summary cancel out. *)
LEMMA NetsAreOK ==
  ASSUME NEW read, RowsFit(read), ReadOK(read), {"expenses", "settlements"} \subseteq DOMAIN read,
         NEW team \in SUBSET User
  PROVE  NetsOK(ComputeNetBalances(team, read["expenses"], read["settlements"]))
<1> DEFINE E == read["expenses"]
           S == read["settlements"]
           ids == team \union Appearing(E, S)
           nets == ComputeNetBalances(team, E, S)
<1>1. /\ ExpensesFit(E, Appearing(E, S)) /\ SettlementsFit(S, Appearing(E, S))
      /\ Appearing(E, S) \subseteq User
  BY ReadFits
<1>2. nets = [u \in ids |-> UserNet(u, E, S)]
  BY DEF ComputeNetBalances
<1> HIDE DEF E, S, nets
<1>3. ids \subseteq User /\ IsFiniteSet(ids) /\ Appearing(E, S) \subseteq ids
  BY <1>1, FiniteUsers
<1> HIDE DEF ids
<1>4. ExpensesFit(E, ids) /\ SettlementsFit(S, ids)
  BY <1>1, <1>3, FitsInMore
<1>5. \A u \in ids : UserNet(u, E, S) \in Int
  BY <1>3, <1>4, AggregatesAreIntegers
<1>6. SumFunctionOnSet(nets, ids) = 0
  BY <1>2, <1>3, <1>4, NetsSumToZero
<1>7. NetsOK(nets)
  BY <1>2, <1>3, <1>5, <1>6 DEF NetsOK
<1> QED
  BY <1>7 DEF nets, E, S

-----------------------------------------------------------------------------
(* The inductive invariant of the rows, of what was read of them, and of the
   summaries. *)

SummaryOK(r) ==
  r.at = "simplify" \/ (r.at = "answer" /\ r.call.op = "balances") =>
    /\ r.call.op = "balances"
    /\ {"expenses", "settlements"} \subseteq DOMAIN r.read
    /\ r.nets = ComputeNetBalances(r.team, r.read["expenses"], r.read["settlements"])
    /\ r.at = "simplify" <=> (r.call.simplify /\ r.at # "answer")
    /\ r.call.simplify => PlanOK(r)
    /\ r.call.simplify /\ r.at = "answer" => ~Unfinished(r.left)

TargetOK(r) ==
  /\ r.at = "findDetail" => r.call.op \in {"expense", "settle", "balances"}
  /\ r.at \in {"assertAccess", "write"} /\ r.call.op = "deleteExpense" =>
       r.call.row \in DOMAIN book /\ ~IsSettlement(book[r.call.row])

CallOK(r) == ReadOK(r.read) /\ SummaryOK(r) /\ TargetOK(r)

MoneyInv == RowsOK /\ \A p \in Process : CallOK(req[p])

LEMMA InitMoney == Init => MoneyInv
<1> SUFFICES ASSUME Init PROVE MoneyInv
  OBVIOUS
<1>1. RowsOK
  BY DEF Init, RowsOK
<1>2. Idle.at = "idle" /\ Idle.read = <<>>
  BY DEF Idle
<1>3. CallOK(Idle)
  BY <1>2 DEF CallOK, ReadOK, SummaryOK, TargetOK
<1> QED
  BY <1>1, <1>3 DEF MoneyInv, Init

(* Rows stay whole, and what they are. *)
LEMMA RowsKept ==
  ASSUME LedgerIInv, MoneyInv, NEW p \in Process, BookStep(p)
  PROVE  /\ RowsOK'
         /\ \A i \in DOMAIN book : /\ i \in DOMAIN book'
                                   /\ IsSettlement(book'[i]) <=> IsSettlement(book[i])
<1> DEFINE Kept == /\ \A i \in DOMAIN book' : RowOK(book'[i])
                   /\ \A i \in DOMAIN book : /\ i \in DOMAIN book'
                                             /\ IsSettlement(book'[i]) <=> IsSettlement(book[i])
<1>1. \A i \in DOMAIN book : RowOK(book[i])
  BY DEF MoneyInv, RowsOK
<1>2. ASSUME NEW row, RowOK(row), Added(row) PROVE Kept
  BY <1>1, <1>2 DEF Added
<1>3. ASSUME UNCHANGED book PROVE Kept
  BY <1>1, <1>3
<1>4. ASSUME CreateExpense(p), Added(ExpenseRow(req[p].call, req[p].team)) PROVE Kept
  <2> HIDE DEF Kept
  <2> QED
    BY <1>2, <1>4, NewExpenseOK
<1>5. ASSUME CreateSettlement(p),
             Added([kind |-> "settlement", from |-> req[p].call.from, to |-> req[p].call.to,
                    amount |-> req[p].call.amount])
      PROVE  Kept
  <2> DEFINE row == [kind |-> "settlement", from |-> req[p].call.from, to |-> req[p].call.to,
                     amount |-> req[p].call.amount]
  <2>1. RowOK(row)
    BY <1>5, NewSettlementOK
  <2>2. Added(row)
    BY <1>5
  <2> HIDE DEF Kept, row
  <2> QED
    BY <1>2, <2>1, <2>2
<1>6. ASSUME SoftDeleteExpense(p), Marked(req[p].call.row) PROVE Kept
  <2> DEFINE row == req[p].call.row
  <2>1. row \in DOMAIN book /\ ~IsSettlement(book[row])
    BY <1>6 DEF MoneyInv, CallOK, TargetOK, SoftDeleteExpense
  <2>2. RowOK([book[row] EXCEPT !.deleted = TRUE]) /\ ~IsSettlement([book[row] EXCEPT !.deleted = TRUE])
    BY <1>1, <2>1, DeletedOK
  <2> HIDE DEF row
  <2> QED
    BY <1>1, <1>6, <2>1, <2>2 DEF Marked, row
<1>7. Kept
  <2> HIDE DEF Kept
  <2> QED
    BY <1>3, <1>4, <1>5, <1>6 DEF BookStep
<1> QED
  BY <1>7 DEF RowsOK

(* A plan without transfers leaves everything open. *)
LEMMA PlanStarts ==
  ASSUME NEW r, NetsOK(r.nets), r.left = r.nets, r.plan = <<>>
  PROVE  PlanOK(r)
<1> DEFINE nets == r.nets
<1>1. /\ DOMAIN nets \subseteq User /\ nets \in [DOMAIN nets -> Int]
      /\ SumFunctionOnSet(nets, DOMAIN nets) = 0
  BY DEF NetsOK
<1>2. Cardinality(Open(nets)) \in Nat
  BY <1>1, OpenIsFinite
<1>3. ASSUME NEW u PROVE SettledOut(u, <<>>) = 0 /\ SettledIn(u, <<>>) = 0
  <2> DEFINE none == [i \in {} |-> <<>>[i].amount]
  <2>1. /\ {j \in DOMAIN <<>> : <<>>[j].from = u} = {} /\ {j \in DOMAIN <<>> : <<>>[j].to = u} = {}
    OBVIOUS
  <2>2. SettledOut(u, <<>>) = SumFunction(none) /\ SettledIn(u, <<>>) = SumFunction(none)
    BY <2>1 DEF SettledOut, SettledIn
  <2>3. DOMAIN none = {}
    OBVIOUS
  <2> HIDE DEF none
  <2> QED
    BY <2>2, <2>3, SumEmpty DEF SumFunction
<1>4. <<>> \in Seq(Transfer) /\ Len(<<>>) = 0 /\ DOMAIN <<>> = {}
  OBVIOUS
<1>5. \A u \in DOMAIN nets : nets[u] = nets[u] + SettledOut(u, <<>>) - SettledIn(u, <<>>)
  BY <1>1, <1>3
<1> QED
  BY <1>1, <1>2, <1>4, <1>5 DEF PlanOK

(* One transfer more. *)
LEMMA PlanGrows ==
  ASSUME NEW r, PlanOK(r), NetsOK(r.nets), Unfinished(r.left),
         NEW s, s.nets = r.nets,
         s.left = Apply(r.left, NextTransfer(r.nets, r.left)),
         s.plan = Append(r.plan, NextTransfer(r.nets, r.left))
  PROVE  PlanOK(s)
<1> DEFINE nets == r.nets
           S == DOMAIN nets
           left == r.left
           plan == r.plan
           t == NextTransfer(nets, left)
           next == Apply(left, t)
           more == Append(plan, t)
<1>1. /\ S \subseteq User /\ S \in SUBSET Nat /\ IsFiniteSet(S)
      /\ nets \in [S -> Int] /\ SumFunctionOnSet(nets, S) = 0
  BY FiniteUsers DEF NetsOK
<1>2. /\ left \in [S -> Int] /\ plan \in Seq(Transfer)
      /\ Len(plan) + Cardinality(Open(left)) <= Cardinality(Open(nets))
      /\ \A u \in S : left[u] = nets[u] + SettledOut(u, plan) - SettledIn(u, plan)
      /\ \A i \in DOMAIN plan : plan[i].amount > 0 /\ nets[plan[i].from] < 0 /\ nets[plan[i].to] > 0
      /\ Debtors(left) \subseteq Debtors(nets) /\ Creditors(left) \subseteq Creditors(nets)
      /\ SumFunctionOnSet(left, S) = 0
  BY DEF PlanOK
<1>3. s.nets = nets /\ s.left = next /\ s.plan = more
  OBVIOUS
<1>4. Unfinished(left)
  OBVIOUS
<1> HIDE DEF nets, S, left, plan
<1>5. /\ next \in [S -> Int]
      /\ t \in [from : S, to : S, amount : Int]
      /\ Cardinality(Open(next)) + 1 <= Cardinality(Open(left))
      /\ Cardinality(Open(next)) \in Nat /\ Cardinality(Open(left)) \in Nat
  BY <1>1, <1>2, <1>4, TransferCloses
<1>6. /\ t.amount \in Int /\ t.amount > 0
      /\ t.from \in Debtors(left) /\ t.to \in Creditors(left)
      /\ \A u \in S : next[u] = left[u] + (IF t.from = u THEN t.amount ELSE 0)
                                       - (IF t.to = u THEN t.amount ELSE 0)
      /\ Debtors(next) \subseteq Debtors(left) /\ Creditors(next) \subseteq Creditors(left)
      /\ SumFunctionOnSet(next, S) = SumFunctionOnSet(left, S)
      /\ Cardinality(Open(left)) >= 2
  BY <1>1, <1>2, <1>4, TransferMoves
<1> HIDE DEF t, next
<1>7. t \in Transfer
  BY <1>1, <1>5 DEF Transfer
<1>8. /\ more \in Seq(Transfer) /\ Len(more) = Len(plan) + 1 /\ Len(plan) \in Nat
      /\ DOMAIN plan = 1 .. Len(plan) /\ DOMAIN more = 1 .. Len(plan) + 1
      /\ \A i \in 1 .. Len(plan) + 1 : more[i] = IF i <= Len(plan) THEN plan[i] ELSE t
  BY <1>2, <1>7
<1> HIDE DEF more
<1>9. OneMore(plan, more, Len(plan) + 1) /\ more[Len(plan) + 1] = t
  <2> DEFINE n == Len(plan)
  <2>1. n \in Nat /\ n + 1 \notin 1 .. n /\ 1 .. n + 1 = 1 .. n \union {n + 1}
    BY <1>8
  <2>2. IsFiniteSet(DOMAIN plan)
    <3>1. Len(plan) \in Nat /\ DOMAIN plan = 1 .. Len(plan)
      BY <1>8
    <3> QED
      BY <3>1, FS_Interval
  <2>3. \A i \in DOMAIN plan : more[i] = plan[i]
    BY <1>8
  <2>4. more[n + 1] = t
    BY <1>8
  <2> QED
    BY <1>8, <2>1, <2>2, <2>3, <2>4 DEF OneMore
<1>10. \A i \in DOMAIN more : more[i].amount \in Int
  <2>1. \A i \in DOMAIN more : more[i] \in Transfer
    BY <1>8
  <2> QED
    BY <2>1 DEF Transfer
<1>11. ASSUME NEW u \in S
       PROVE  next[u] = nets[u] + SettledOut(u, more) - SettledIn(u, more)
  <2>1. /\ SettledOut(u, more) = SettledOut(u, plan) + (IF t.from = u THEN t.amount ELSE 0)
        /\ SettledIn(u, more) = SettledIn(u, plan) + (IF t.to = u THEN t.amount ELSE 0)
        /\ SettledOut(u, plan) \in Int /\ SettledIn(u, plan) \in Int
    BY <1>9, <1>10, SettledMore
  <2>2. nets[u] \in Int /\ left[u] \in Int
    BY <1>1, <1>2
  <2>3. next[u] = left[u] + (IF t.from = u THEN t.amount ELSE 0) - (IF t.to = u THEN t.amount ELSE 0)
    BY <1>6
  <2>4. left[u] = nets[u] + SettledOut(u, plan) - SettledIn(u, plan)
    BY <1>2
  <2> QED
    BY <1>6, <2>1, <2>2, <2>3, <2>4
<1>12. ASSUME NEW i \in DOMAIN more
       PROVE  more[i].amount > 0 /\ nets[more[i].from] < 0 /\ nets[more[i].to] > 0
  <2>1. CASE i <= Len(plan)
    BY <1>2, <1>8, <2>1
  <2>2. CASE ~(i <= Len(plan))
    <3>1. more[i] = t
      BY <1>8, <2>2
    <3>2. t.from \in Debtors(nets) /\ t.to \in Creditors(nets)
      BY <1>2, <1>6
    <3> QED
      BY <1>6, <3>1, <3>2 DEF Debtors, Creditors
  <2> QED
    BY <2>1, <2>2
<1>13. Cardinality(Open(nets)) \in Nat
  BY <1>1, OpenIsFinite DEF S
<1>14. /\ Len(more) + Cardinality(Open(next)) <= Cardinality(Open(nets))
       /\ Len(more) + 1 <= Cardinality(Open(nets))
  BY <1>2, <1>5, <1>6, <1>8, <1>13
<1>15. /\ Debtors(next) \subseteq Debtors(nets) /\ Creditors(next) \subseteq Creditors(nets)
       /\ SumFunctionOnSet(next, S) = 0
  BY <1>2, <1>6
<1>16. DOMAIN s.nets = S
  BY <1>3 DEF S
<1> QED
  BY <1>3, <1>5, <1>8, <1>11, <1>12, <1>14, <1>15, <1>16 DEF PlanOK

(* What a query returns is whole. *)
LEMMA RowsAreOK ==
  ASSUME LedgerIInv, RowsOK, NEW q
  PROVE  IsFiniteSet(DOMAIN Rows(q)) /\ \A i \in DOMAIN Rows(q) : RowOK(Rows(q)[i])
<1>1. IsFiniteSet(DOMAIN book)
  <2>1. Len(book) \in Nat /\ DOMAIN book = 1 .. Len(book)
    BY DEF LedgerIInv, Tables
  <2> QED
    BY <2>1, FS_Interval
<1>2. /\ DOMAIN Rows(q) \subseteq DOMAIN book
      /\ \A i \in DOMAIN Rows(q) : Rows(q)[i] = book[i]
  BY DEF Rows, Expenses, Settlements
<1> QED
  BY <1>1, <1>2, FS_Subset DEF RowsOK

(* What was read before is whole still, whatever is read next. *)
LEMMA ReadMore ==
  ASSUME LedgerIInv, RowsOK, NEW old, ReadOK(old), NEW q
  PROVE  ReadOK([x \in DOMAIN old \union {q} |-> IF x = q THEN Rows(q) ELSE old[x]])
<1> DEFINE rows == Rows(q)
           new == [x \in DOMAIN old \union {q} |-> IF x = q THEN rows ELSE old[x]]
<1>1. IsFiniteSet(DOMAIN rows) /\ \A i \in DOMAIN rows : RowOK(rows[i])
  BY RowsAreOK
<1> HIDE DEF rows
<1>2. ASSUME NEW x \in DOMAIN new
      PROVE  IsFiniteSet(DOMAIN new[x]) /\ \A i \in DOMAIN new[x] : RowOK(new[x][i])
  <2>1. CASE x = q
    BY <1>1, <2>1
  <2>2. CASE x # q
    <3>1. new[x] = old[x] /\ x \in DOMAIN old
      BY <2>2
    <3> QED
      BY <3>1 DEF ReadOK
  <2> QED
    BY <2>1, <2>2
<1> HIDE DEF new
<1>3. ReadOK(new)
  BY <1>2 DEF ReadOK
<1> QED
  BY <1>3 DEF new, rows

(* The call that takes the step. *)
LEMMA OwnCallKept ==
  ASSUME LedgerIInv, MoneyInv, NEW p \in Process, CallStep(p),
         \A i \in DOMAIN book : i \in DOMAIN book' /\ (IsSettlement(book'[i]) <=> IsSettlement(book[i]))
  PROVE  /\ ReadOK(req'[p].read) /\ SummaryOK(req'[p])
         /\ req'[p].at = "findDetail" => req'[p].call.op \in {"expense", "settle", "balances"}
         /\ req'[p].at \in {"assertAccess", "write"} /\ req'[p].call.op = "deleteExpense" =>
              req'[p].call.row \in DOMAIN book' /\ ~IsSettlement(book'[req'[p].call.row])
<1> DEFINE c == req[p].call
           Goal(r) == /\ ReadOK(r.read) /\ SummaryOK(r)
                      /\ r.at = "findDetail" => r.call.op \in {"expense", "settle", "balances"}
                      /\ r.at \in {"assertAccess", "write"} /\ r.call.op = "deleteExpense" =>
                           r.call.row \in DOMAIN book' /\ ~IsSettlement(book'[r.call.row])
<1>1. /\ DOMAIN req = Process /\ CallInv(req[p]) /\ DOMAIN req[p] = DOMAIN Idle
      /\ CallOK(req[p]) /\ RowsOK
  BY DEF LedgerIInv, CallInv, MoneyInv
<1>2. ASSUME Quiet(p) PROVE Goal(req'[p])
  <2>1. ReadOK(<<>>)
    BY DEF ReadOK
  <2>2. ReadOK(req'[p].read)
    BY <1>1, <1>2, <2>1 DEF Quiet, CallOK
  <2>3. SummaryOK(req'[p])
    BY <1>2 DEF Quiet, SummaryOK
  <2>4. ASSUME req'[p].at \in {"assertAccess", "write"}, req'[p].call.op = "deleteExpense"
        PROVE  req'[p].call.row \in DOMAIN book' /\ ~IsSettlement(book'[req'[p].call.row])
    <3>1. /\ req'[p].call = c
          /\ \/ req[p].at \in {"assertAccess", "findDetail"}
             \/ c.row \in DOMAIN Expenses(book)
      BY <1>2, <2>4 DEF Quiet
    <3>2. c.row \in DOMAIN book /\ ~IsSettlement(book[c.row])
      BY <1>1, <2>4, <3>1 DEF CallOK, TargetOK, Expenses
    <3> QED
      BY <3>1, <3>2
  <2> QED
    BY <1>2, <2>2, <2>3, <2>4 DEF Quiet
<1>3. ASSUME NEW r, req' = [req EXCEPT ![p] = r] PROVE req'[p] = r
  BY <1>1, <1>3
<1>4. ASSUME Read(p) PROVE Goal(req'[p])
  <2>1. PICK q \in Missing(p) :
        req' = [req EXCEPT ![p].read =
                  [x \in DOMAIN @ \union {q} |-> IF x = q THEN Rows(q) ELSE @[x]]]
    BY <1>4 DEF Read
  <2> DEFINE old == req[p].read
             new == [x \in DOMAIN old \union {q} |-> IF x = q THEN Rows(q) ELSE old[x]]
             r == [req[p] EXCEPT !.read = new]
  <2>2. req[p].at = "read"
    BY <1>4 DEF Read
  <2>3. r.at = "read" /\ r.read = new
    BY <1>1, <2>2 DEF Idle
  <2>4. ReadOK(new)
    BY <1>1, ReadMore DEF CallOK
  <2>5. req' = [req EXCEPT ![p] = r]
    BY <2>1
  <2> HIDE DEF r, new
  <2>6. req'[p] = r
    BY <1>3, <2>5
  <2>7. Goal(r)
    BY <2>3, <2>4 DEF SummaryOK
  <2> QED
    BY <2>6, <2>7
<1>5. ASSUME Summarise(p) PROVE Goal(req'[p])
  <2> DEFINE nets == ComputeNetBalances(req[p].team, req[p].read["expenses"], req[p].read["settlements"])
             next == IF c.simplify THEN "simplify" ELSE "answer"
             r == [req[p] EXCEPT !.at = next, !.nets = nets, !.left = nets]
  <2>1. req[p].at = "read" /\ c.op = "balances" /\ Missing(p) = {} /\ req' = [req EXCEPT ![p] = r]
    BY <1>5 DEF Summarise
  <2>2. /\ r.at = next /\ r.call = c /\ r.team = req[p].team
        /\ r.read = req[p].read /\ r.plan = <<>> /\ r.nets = nets /\ r.left = nets
    BY <1>1, <2>1 DEF CallInv, Idle
  <2>3. {"expenses", "settlements"} \subseteq DOMAIN req[p].read
    BY <2>1 DEF Missing, Queries
  <2>4. NetsOK(nets)
    BY <1>1, <2>3, NetsAreOK DEF CallInv, CallOK
  <2>5. /\ next \in {"simplify", "answer"}
        /\ (next = "simplify") <=> (c.simplify /\ next # "answer")
        /\ c.simplify => next = "simplify"
    OBVIOUS
  <2> HIDE DEF r, next
  <2>6. req'[p] = r
    BY <1>3, <2>1
  <2>7. PlanOK(r)
    <3> HIDE DEF nets
    <3> QED
      BY <2>2, <2>4, PlanStarts
  <2>8. SummaryOK(r)
    BY <2>1, <2>2, <2>3, <2>5, <2>7 DEF SummaryOK
  <2>9. Goal(r)
    BY <1>1, <2>2, <2>5, <2>8 DEF CallOK
  <2> QED
    BY <2>6, <2>9
<1>6. ASSUME SettleUp(p) PROVE Goal(req'[p])
  <2> DEFINE t == NextTransfer(req[p].nets, req[p].left)
             r == [req[p] EXCEPT !.left = Apply(req[p].left, t), !.plan = Append(req[p].plan, t)]
  <2>1. req[p].at = "simplify" /\ Unfinished(req[p].left) /\ req' = [req EXCEPT ![p] = r]
    BY <1>6 DEF SettleUp
  <2>2. /\ r.at = "simplify" /\ r.call = c /\ r.team = req[p].team /\ r.read = req[p].read
        /\ r.nets = req[p].nets /\ r.left = Apply(req[p].left, t) /\ r.plan = Append(req[p].plan, t)
    BY <1>1, <2>1 DEF Idle
  <2> HIDE DEF r
  <2>3. req'[p] = r
    BY <1>3, <2>1
  <2>4. /\ c.op = "balances" /\ c.simplify /\ PlanOK(req[p])
        /\ {"expenses", "settlements"} \subseteq DOMAIN req[p].read
        /\ req[p].nets = ComputeNetBalances(req[p].team, req[p].read["expenses"], req[p].read["settlements"])
    BY <1>1, <2>1 DEF CallOK, SummaryOK
  <2>5. NetsOK(req[p].nets)
    BY <1>1, <2>4, NetsAreOK DEF CallInv, CallOK
  <2>6. PlanOK(r)
    BY <2>1, <2>2, <2>4, <2>5, PlanGrows
  <2>7. SummaryOK(r)
    BY <2>2, <2>4, <2>6 DEF SummaryOK
  <2>8. Goal(r)
    BY <1>1, <2>2, <2>7 DEF CallOK
  <2> QED
    BY <2>3, <2>8
<1>7. ASSUME SettledUp(p) PROVE Goal(req'[p])
  <2> DEFINE r == [req[p] EXCEPT !.at = "answer"]
  <2>1. req[p].at = "simplify" /\ ~Unfinished(req[p].left) /\ req' = [req EXCEPT ![p] = r]
    BY <1>7 DEF SettledUp, Proceed
  <2>2. /\ r.at = "answer" /\ r.call = c /\ r.team = req[p].team /\ r.read = req[p].read
        /\ r.nets = req[p].nets /\ r.left = req[p].left /\ r.plan = req[p].plan
    BY <1>1, <2>1 DEF Idle
  <2> HIDE DEF r
  <2>3. req'[p] = r
    BY <1>3, <2>1
  <2>4. SummaryOK(req[p]) /\ PlanOK(req[p])
    BY <1>1, <2>1 DEF CallOK, SummaryOK
  <2>5. PlanOK(r)
    BY <2>2, <2>4 DEF PlanOK
  <2>6. SummaryOK(r)
    BY <2>1, <2>2, <2>4, <2>5 DEF SummaryOK
  <2>7. Goal(r)
    BY <1>1, <2>2, <2>6 DEF CallOK
  <2> QED
    BY <2>3, <2>7
<1>8. ASSUME ViewerNet(p) PROVE Goal(req'[p])
  <2> DEFINE u == c.by
             net == [v \in {u} |-> UserNet(v, req[p].read["expenses"], req[p].read["settlements"])]
             r == [req[p] EXCEPT !.at = "answer", !.nets = net]
  <2>1. c.op = "dashboard" /\ req' = [req EXCEPT ![p] = r]
    BY <1>8 DEF ViewerNet
  <2>2. r.at = "answer" /\ r.call = c /\ r.read = req[p].read
    BY <1>1 DEF Idle
  <2> HIDE DEF r
  <2>3. req'[p] = r
    BY <1>3, <2>1
  <2>4. Goal(r)
    BY <1>1, <2>1, <2>2 DEF CallOK, SummaryOK
  <2> QED
    BY <2>3, <2>4
<1>9. Goal(req'[p])
  <2> HIDE DEF Goal
  <2> QED
    BY <1>2, <1>4, <1>5, <1>6, <1>7, <1>8 DEF CallStep
<1> QED
  BY <1>9

(* Every step keeps the invariant. *)
LEMMA MoneyKept == LedgerIInv /\ MoneyInv /\ [Next]_vars => MoneyInv'
<1>1. ASSUME LedgerIInv, MoneyInv, NEW p \in Process, Start(p) \/ Step(p) \/ Abort(p)
      PROVE  MoneyInv'
  <2>1. BookStep(p) /\ CallStep(p)
    BY <1>1, BookSteps, CallSteps
  <2>2. /\ RowsOK'
        /\ \A i \in DOMAIN book : /\ i \in DOMAIN book'
                                  /\ IsSettlement(book'[i]) <=> IsSettlement(book[i])
    BY <1>1, <2>1, RowsKept
  <2>3. /\ ReadOK(req'[p].read) /\ SummaryOK(req'[p])
        /\ req'[p].at = "findDetail" => req'[p].call.op \in {"expense", "settle", "balances"}
        /\ req'[p].at \in {"assertAccess", "write"} /\ req'[p].call.op = "deleteExpense" =>
             req'[p].call.row \in DOMAIN book' /\ ~IsSettlement(book'[req'[p].call.row])
    BY <1>1, <2>1, <2>2, OwnCallKept
  <2>4. ASSUME NEW q \in Process
        PROVE  /\ ReadOK(req'[q].read) /\ SummaryOK(req'[q])
               /\ req'[q].at = "findDetail" => req'[q].call.op \in {"expense", "settle", "balances"}
               /\ req'[q].at \in {"assertAccess", "write"} /\ req'[q].call.op = "deleteExpense" =>
                    req'[q].call.row \in DOMAIN book' /\ ~IsSettlement(book'[req'[q].call.row])
    <3>1. CASE q = p
      BY <2>3, <3>1
    <3>2. CASE q # p
      <4>1. req'[q] = req[q] /\ CallOK(req[q])
        BY <1>1, <2>1, <3>2 DEF CallStep, MoneyInv
      <4> QED
        BY <2>2, <4>1 DEF CallOK, TargetOK
    <3> QED
      BY <3>1, <3>2
  <2>5. ASSUME NEW q \in Process PROVE CallOK(req[q])'
    BY <2>4 DEF CallOK, TargetOK
  <2> QED
    BY <2>2, <2>5 DEF MoneyInv
<1>2. ASSUME MoneyInv, UNCHANGED vars PROVE MoneyInv'
  BY <1>2 DEF MoneyInv, RowsOK, CallOK, TargetOK, vars
<1> QED
  BY <1>1, <1>2 DEF Next

LEMMA MoneyInvariant == Spec => [](LedgerIInv /\ MoneyInv)
<1>1. LedgerIInv /\ MoneyInv /\ [Next]_vars => MoneyInv'
  BY MoneyKept
<1> QED
  BY <1>1, InitMoney, LedgerInvariant, PTL DEF Spec

-----------------------------------------------------------------------------
(* Every stored expense is whole and fairly split. *)
THEOREM ExpensesAreFair == Spec => []FairShares
<1>1. MoneyInv => FairShares
  BY DEF MoneyInv, RowsOK, RowOK, ExpenseOK, FairShares
<1> QED
  BY <1>1, MoneyInvariant, PTL

(* The nets of every summary cancel out. *)
THEOREM NetsCancelOut == Spec => []NetsCancel
<1>1. ASSUME LedgerIInv, MoneyInv PROVE NetsCancel
  <2> SUFFICES ASSUME NEW p \in Process, req[p].call # NoCall, req[p].call.op = "balances",
                      req[p].at \in {"simplify", "answer"}
               PROVE  SumFunction(req[p].nets) = 0
    BY DEF NetsCancel
  <2>1. /\ {"expenses", "settlements"} \subseteq DOMAIN req[p].read
        /\ req[p].nets = ComputeNetBalances(req[p].team, req[p].read["expenses"], req[p].read["settlements"])
        /\ ReadOK(req[p].read) /\ RowsFit(req[p].read) /\ req[p].team \in SUBSET User
    BY <1>1 DEF MoneyInv, CallOK, SummaryOK, LedgerIInv, CallInv
  <2>2. NetsOK(req[p].nets)
    BY <2>1, NetsAreOK
  <2> QED
    BY <2>2 DEF NetsOK, SumFunction
<1> QED
  BY <1>1, MoneyInvariant, PTL

(* The simplified plan settles every balance, lets only debtors pay creditors,
   and needs fewer transfers than there are balances open. *)
THEOREM PlanSettlesAll == Spec => []PlanSettles
<1>1. ASSUME LedgerIInv, MoneyInv PROVE PlanSettles
  <2> SUFFICES ASSUME NEW p \in Process, req[p].at = "answer", req[p].call.op = "balances",
                      req[p].call.simplify
               PROVE  LET nets == req[p].nets
                          plan == req[p].plan
                      IN  /\ \A u \in DOMAIN nets : nets[u] + SettledOut(u, plan) - SettledIn(u, plan) = 0
                          /\ \A i \in DOMAIN plan :
                               plan[i].amount > 0 /\ nets[plan[i].from] < 0 /\ nets[plan[i].to] > 0
                          /\ Debtors(nets) # {} =>
                               Len(plan) <= Cardinality(Debtors(nets)) + Cardinality(Creditors(nets)) - 1
    BY DEF PlanSettles
  <2> DEFINE nets == req[p].nets
             plan == req[p].plan
             left == req[p].left
  <2>1. /\ {"expenses", "settlements"} \subseteq DOMAIN req[p].read
        /\ nets = ComputeNetBalances(req[p].team, req[p].read["expenses"], req[p].read["settlements"])
        /\ ReadOK(req[p].read) /\ RowsFit(req[p].read) /\ req[p].team \in SUBSET User
        /\ PlanOK(req[p]) /\ ~Unfinished(left)
    BY <1>1 DEF MoneyInv, CallOK, SummaryOK, LedgerIInv, CallInv
  <2>2. NetsOK(nets)
    BY <2>1, NetsAreOK
  <2>3. /\ left \in [DOMAIN nets -> Int] /\ plan \in Seq(Transfer)
        /\ Open(left) = {} /\ plan # <<>> => Len(plan) + 1 <= Cardinality(Open(nets))
        /\ \A u \in DOMAIN nets : left[u] = nets[u] + SettledOut(u, plan) - SettledIn(u, plan)
        /\ \A i \in DOMAIN plan :
             plan[i].amount > 0 /\ nets[plan[i].from] < 0 /\ nets[plan[i].to] > 0
        /\ SumFunctionOnSet(left, DOMAIN nets) = 0
        /\ Len(plan) + Cardinality(Open(left)) <= Cardinality(Open(nets))
    BY <2>1 DEF PlanOK
  <2> HIDE DEF nets, plan, left
  <2>4. IsFiniteSet(DOMAIN nets)
    BY <2>2, FiniteUsers DEF NetsOK
  <2>5. \A u \in DOMAIN nets : left[u] = 0
    BY <2>1, <2>3, <2>4, NothingIsLeft
  <2>6. Open(left) = {}
    BY <2>3, <2>5 DEF Open, Debtors, Creditors
  <2>7. /\ Cardinality(Open(nets)) = Cardinality(Debtors(nets)) + Cardinality(Creditors(nets))
        /\ Cardinality(Open(nets)) \in Nat /\ IsFiniteSet(Open(nets))
        /\ Cardinality(Debtors(nets)) \in Nat /\ Cardinality(Creditors(nets)) \in Nat
    BY <2>2, OpenIsFinite DEF NetsOK
  <2>8. ASSUME Debtors(nets) # {} PROVE Len(plan) + 1 <= Cardinality(Open(nets))
    <3>1. CASE plan # <<>>
      BY <2>3, <2>6, <3>1
    <3>2. CASE plan = <<>>
      <4>1. Len(plan) = 0
        BY <3>2
      <4>2. Open(nets) # {}
        BY <2>8 DEF Open
      <4> QED
        BY <2>7, <4>1, <4>2, FS_EmptySet
    <3> QED
      BY <3>1, <3>2
  <2>9. Len(plan) \in Nat
    BY <2>3
  <2>10. Debtors(nets) # {} => Len(plan) <= Cardinality(Debtors(nets)) + Cardinality(Creditors(nets)) - 1
    BY <2>7, <2>8, <2>9
  <2>11. \A u \in DOMAIN nets : nets[u] + SettledOut(u, plan) - SettledIn(u, plan) = 0
    BY <2>3, <2>5
  <2> QED
    BY <2>3, <2>10, <2>11 DEF nets, plan
<1> QED
  BY <1>1, MoneyInvariant, PTL

(* The loop of simplify ends: the plan and what is open never outgrow what was
   open at the start. *)
THEOREM PlanShrinksAlways == Spec => []PlanShrinks
<1>1. MoneyInv => PlanShrinks
  BY DEF MoneyInv, CallOK, SummaryOK, PlanOK, PlanShrinks
<1> QED
  BY <1>1, MoneyInvariant, PTL

-----------------------------------------------------------------------------
(* The ledger implements the abstract book. *)

LEMMA UsersFit ==
  ASSUME NEW E, IsFiniteSet(DOMAIN E), \A i \in DOMAIN E : RowOK(E[i])
  PROVE  /\ (\A i \in DOMAIN E : ~IsSettlement(E[i])) => ExpensesFit(E, User)
         /\ (\A i \in DOMAIN E : IsSettlement(E[i])) => SettlementsFit(E, User)
<1>1. ASSUME NEW i \in DOMAIN E, ~IsSettlement(E[i])
      PROVE  /\ DOMAIN E[i].paid \subseteq User /\ DOMAIN E[i].share \subseteq User
             /\ \A u \in DOMAIN E[i].paid : E[i].paid[u] \in Nat
             /\ \A u \in DOMAIN E[i].share : E[i].share[u] \in Nat
             /\ SumFunction(E[i].paid) = E[i].amount /\ SumFunction(E[i].share) = E[i].amount
             /\ E[i].amount \in Nat
  <2>1. RowFits(E[i]) /\ ExpenseOK(E[i])
    BY <1>1 DEF RowOK
  <2>2. Intact(E[i]) /\ \A u \in DOMAIN E[i].share : E[i].share[u] >= 0
    BY <2>1 DEF ExpenseOK, Fair
  <2>3. DOMAIN E[i].paid \subseteq User /\ DOMAIN E[i].share \subseteq User
    BY <1>1, <2>1 DEF RowFits, Parties
  <2>4. E[i].amount \in Nat
    BY <2>1, LedgerAssumption DEF RowFits
  <2>5. \A u \in DOMAIN E[i].paid : E[i].paid[u] \in Nat
    BY <2>1, <2>2 DEF ExpenseOK, Intact
  <2>6. \A u \in DOMAIN E[i].share : E[i].share[u] \in Nat
    BY <2>1, <2>2 DEF ExpenseOK
  <2> QED
    BY <2>2, <2>3, <2>4, <2>5, <2>6 DEF Intact
<1>2. ASSUME NEW i \in DOMAIN E, IsSettlement(E[i])
      PROVE  E[i].amount \in Nat /\ E[i].from \in User /\ E[i].to \in User
  <2>1. RowFits(E[i])
    BY DEF RowOK
  <2> QED
    BY <1>2, <2>1, LedgerAssumption DEF RowFits, Parties
<1> QED
  BY <1>1, <1>2 DEF ExpensesFit, SettlementsFit

(* What a row moves cancels out, and fits the columns. *)
LEMMA MoveCancels ==
  ASSUME NEW r, RowOK(r)
  PROVE  /\ Move(r) \in [User -> (-Int4Max) .. Int4Max]
         /\ SumFunction(Move(r)) = 0
<1> DEFINE m == Move(r)
<1>1. r.amount \in 1 .. Int4Max /\ r.amount \in Int /\ Int4Max \in Nat /\ IsFiniteSet(User)
  BY LedgerAssumption DEF RowOK, RowFits
<1>2. DOMAIN m = User
  BY DEF Move
<1>3. CASE IsSettlement(r)
  <2>1. r.from \in User /\ r.to \in User /\ r.from # r.to
    BY <1>3 DEF RowOK, RowFits, Parties
  <2> DEFINE out == [u \in User |-> IF u = r.from THEN r.amount ELSE 0]
             in == [u \in User |-> IF u = r.to THEN r.amount ELSE 0]
  <2>2. /\ \A u \in User : /\ out[u] \in Int /\ in[u] \in Int
                           /\ m[u] = out[u] - in[u] /\ m[u] \in (-Int4Max) .. Int4Max
        /\ out[r.from] = r.amount /\ \A u \in User \ {r.from} : out[u] = 0
        /\ in[r.to] = r.amount /\ \A u \in User \ {r.to} : in[u] = 0
    BY <1>1, <1>3, <2>1 DEF Move
  <2>3. m \in [User -> (-Int4Max) .. Int4Max]
    BY <2>2 DEF Move
  <2> HIDE DEF out, in, m
  <2>4. SumFunctionOnSet(out, User) = r.amount
    <3> DEFINE x == r.from
    <3>1. x \in User /\ out[x] \in Int /\ \A y \in User \ {x} : out[y] = 0
      BY <2>1, <2>2
    <3> HIDE DEF x
    <3>2. SumFunctionOnSet(out, User) = out[x]
      BY <1>1, <3>1, SumSingle
    <3> QED
      BY <2>2, <3>2 DEF x
  <2>5. SumFunctionOnSet(in, User) = r.amount
    <3> DEFINE x == r.to
    <3>1. x \in User /\ in[x] \in Int /\ \A y \in User \ {x} : in[y] = 0
      BY <2>1, <2>2
    <3> HIDE DEF x
    <3>2. SumFunctionOnSet(in, User) = in[x]
      BY <1>1, <3>1, SumSingle
    <3> QED
      BY <2>2, <3>2 DEF x
  <2>6. SumFunctionOnSet(m, User) = SumFunctionOnSet(out, User) - SumFunctionOnSet(in, User)
    <3>1. \A u \in User : out[u] \in Int /\ in[u] \in Int /\ m[u] = out[u] - in[u]
      BY <2>2
    <3> QED
      BY <1>1, <3>1, SumMinus
  <2>7. SumFunction(m) = 0
    BY <1>1, <1>2, <2>4, <2>5, <2>6 DEF SumFunction
  <2> QED
    BY <2>3, <2>7 DEF m
<1>4. CASE ~IsSettlement(r)
  <2>1. /\ DOMAIN r.paid \subseteq User /\ DOMAIN r.share \subseteq User
        /\ \A u \in DOMAIN r.paid : r.paid[u] \in Nat
        /\ \A u \in DOMAIN r.share : r.share[u] \in Nat
        /\ SumFunction(r.paid) = r.amount /\ SumFunction(r.share) = r.amount
    <3> DEFINE E == [i \in {1} |-> r]
    <3>1. /\ IsFiniteSet(DOMAIN E) /\ 1 \in DOMAIN E /\ E[1] = r
          /\ \A i \in DOMAIN E : RowOK(E[i]) /\ ~IsSettlement(E[i])
      BY <1>4, FS_Singleton
    <3> HIDE DEF E
    <3>2. ExpensesFit(E, User)
      BY <3>1, UsersFit
    <3> QED
      BY <3>1, <3>2 DEF ExpensesFit
  <2> DEFINE paid == [u \in User |-> At(r.paid, u)]
             share == [u \in User |-> At(r.share, u)]
  <2>2. ASSUME NEW f, DOMAIN f \subseteq User, \A u \in DOMAIN f : f[u] \in Nat,
               SumFunction(f) = r.amount, NEW u \in User
        PROVE  At(f, u) \in 0 .. r.amount
    <3>1. IsFiniteSet(DOMAIN f)
      BY <2>2, FiniteUsers
    <3>2. \A v \in DOMAIN f : f[v] <= r.amount
      BY <2>2, <3>1, SumNat DEF SumFunction
    <3> QED
      BY <1>1, <2>2, <3>2 DEF At
  <2>3. \A u \in User : At(r.paid, u) \in 0 .. r.amount /\ At(r.share, u) \in 0 .. r.amount
    BY <2>1, <2>2
  <2>4. \A u \in User : /\ paid[u] \in Int /\ share[u] \in Int
                        /\ m[u] = paid[u] - share[u] /\ m[u] \in (-Int4Max) .. Int4Max
    BY <1>1, <1>4, <2>3 DEF Move
  <2>5. m \in [User -> (-Int4Max) .. Int4Max]
    BY <2>4 DEF Move
  <2>6. SumFunctionOnSet(paid, User) = r.amount
    BY <1>1, <2>1, PaddedSum
  <2>7. SumFunctionOnSet(share, User) = r.amount
    BY <1>1, <2>1, PaddedSum
  <2> HIDE DEF paid, share, m
  <2>8. SumFunctionOnSet(m, User) = SumFunctionOnSet(paid, User) - SumFunctionOnSet(share, User)
    <3>1. \A u \in User : paid[u] \in Int /\ share[u] \in Int /\ m[u] = paid[u] - share[u]
      BY <2>4
    <3> QED
      BY <1>1, <3>1, SumMinus
  <2>9. SumFunction(m) = 0
    BY <1>1, <1>2, <2>6, <2>7, <2>8 DEF SumFunction
  <2> QED
    BY <2>5, <2>9 DEF m
<1> QED
  BY <1>3, <1>4

(* The abstract book's sums are the ledger's. *)
LEMMA BookSums ==
  ASSUME NEW f
  PROVE  Book!SumFunction(f) = SumFunction(f)
  BY Zenon DEF Book!SumFunction, Book!SumFunctionOnSet, Book!FoldFunctionOnSet, Book!MapThenFoldSet,
     SumFunction, SumFunctionOnSet, FoldFunctionOnSet, MapThenFoldSet

Counts(r) == IsSettlement(r) \/ ~r.deleted

(* Book c has one more row that counts than book b, the row x. *)
OneMoreCounts(b, c, x) ==
  /\ IsFiniteSet(DOMAIN b) /\ IsFiniteSet(DOMAIN c)
  /\ DOMAIN b \subseteq DOMAIN c /\ DOMAIN c \ {x} \subseteq DOMAIN b
  /\ x \in DOMAIN c /\ Counts(c[x])
  /\ x \in DOMAIN b => ~Counts(b[x])
  /\ \A i \in DOMAIN c \ {x} : c[i] = b[i]

(* The balances of the two differ by what that row moves. *)
LEMMA NetMore ==
  ASSUME NEW b, NEW c, NEW x, OneMoreCounts(b, c, x), \A i \in DOMAIN c : RowOK(c[i]),
         NEW u \in User
  PROVE  /\ UserNet(u, Expenses(c), Settlements(c))
              = UserNet(u, Expenses(b), Settlements(b)) + Move(c[x])[u]
         /\ UserNet(u, Expenses(b), Settlements(b)) \in Int
         /\ Move(c[x])[u] \in Int
<1> DEFINE E == Expenses(b)
           F == Expenses(c)
           S == Settlements(b)
           T == Settlements(c)
<1>1. /\ IsFiniteSet(DOMAIN E) /\ IsFiniteSet(DOMAIN S) /\ IsFiniteSet(DOMAIN F) /\ IsFiniteSet(DOMAIN T)
      /\ \A i \in DOMAIN F : i \in DOMAIN c /\ F[i] = c[i] /\ ~IsSettlement(F[i])
      /\ \A i \in DOMAIN T : i \in DOMAIN c /\ T[i] = c[i] /\ IsSettlement(T[i])
  BY FS_Subset DEF OneMoreCounts, Expenses, Settlements
<1>2. RowOK(c[x]) /\ IsFiniteSet(User)
  BY LedgerAssumption DEF OneMoreCounts
<1>3. ExpensesFit(F, User) /\ SettlementsFit(T, User)
  <2>1. /\ \A i \in DOMAIN F : RowOK(F[i]) /\ ~IsSettlement(F[i])
        /\ \A i \in DOMAIN T : RowOK(T[i]) /\ IsSettlement(T[i])
    BY <1>1
  <2> HIDE DEF F, T
  <2> QED
    BY <1>1, <2>1, UsersFit
<1>4. /\ Paid(u, F) \in Int /\ Share(u, F) \in Int
      /\ SettledOut(u, T) \in Int /\ SettledIn(u, T) \in Int
  <2> HIDE DEF F, T
  <2> QED
    BY <1>2, <1>3, AggregatesAreIntegers
<1>5. CASE IsSettlement(c[x])
  <2>1. OneMore(S, T, x) /\ E = F
    BY <1>1, <1>5 DEF OneMoreCounts, OneMore, Expenses, Settlements, Counts
  <2>2. /\ \A i \in DOMAIN T : T[i].amount \in Int
        /\ c[x].amount \in Int /\ c[x].from # c[x].to /\ T[x] = c[x]
    <3>1. c[x].amount \in Int /\ c[x].from # c[x].to
      BY <1>2, <1>5 DEF RowOK, RowFits
    <3>2. x \in DOMAIN T
      BY <2>1 DEF OneMore
    <3>3. \A i \in DOMAIN T : T[i].amount \in Int
      BY <1>3 DEF SettlementsFit
    <3> QED
      BY <1>1, <3>1, <3>2, <3>3
  <2>3. Move(c[x])[u] = IF u = c[x].from THEN c[x].amount ELSE IF u = c[x].to THEN -c[x].amount ELSE 0
    BY <1>5 DEF Move
  <2> HIDE DEF E, F, S, T
  <2>4. /\ SettledOut(u, T) = SettledOut(u, S) + (IF T[x].from = u THEN T[x].amount ELSE 0)
        /\ SettledIn(u, T) = SettledIn(u, S) + (IF T[x].to = u THEN T[x].amount ELSE 0)
        /\ SettledOut(u, S) \in Int /\ SettledIn(u, S) \in Int
    BY <2>1, <2>2, SettledMore
  <2>5. UserNet(u, F, T) = UserNet(u, E, S) + Move(c[x])[u] /\ UserNet(u, E, S) \in Int
        /\ Move(c[x])[u] \in Int
    <3> DEFINE a == c[x].amount
    <3>1. a \in Int
      BY <2>2
    <3> HIDE DEF a
    <3>2. CASE u = c[x].from
      BY <1>4, <2>1, <2>2, <2>3, <2>4, <3>1, <3>2 DEF UserNet, a
    <3>3. CASE u = c[x].to
      BY <1>4, <2>1, <2>2, <2>3, <2>4, <3>1, <3>3 DEF UserNet, a
    <3>4. CASE u # c[x].from /\ u # c[x].to
      BY <1>4, <2>1, <2>2, <2>3, <2>4, <3>1, <3>4 DEF UserNet, a
    <3> QED
      BY <3>2, <3>3, <3>4
  <2> QED
    BY <2>5 DEF E, F, S, T
<1>6. CASE ~IsSettlement(c[x])
  <2>1. OneMore(E, F, x) /\ S = T
    BY <1>1, <1>6 DEF OneMoreCounts, OneMore, Expenses, Settlements, Counts
  <2>2. /\ \A i \in DOMAIN F : At(F[i].paid, u) \in Int /\ At(F[i].share, u) \in Int
        /\ F[x] = c[x] /\ x \in DOMAIN F
    <3>1. x \in DOMAIN F
      BY <2>1 DEF OneMore
    <3>2. \A i \in DOMAIN F : At(F[i].paid, u) \in Int /\ At(F[i].share, u) \in Int
      BY <1>3 DEF ExpensesFit, At
    <3> QED
      BY <1>1, <3>1, <3>2
  <2>3. Move(c[x])[u] = At(c[x].paid, u) - At(c[x].share, u)
    BY <1>6 DEF Move
  <2> HIDE DEF E, F, S, T
  <2>4. /\ Paid(u, F) = Paid(u, E) + At(F[x].paid, u)
        /\ Share(u, F) = Share(u, E) + At(F[x].share, u)
        /\ Paid(u, E) \in Int /\ Share(u, E) \in Int
    BY <2>1, <2>2, SharedMore
  <2>5. UserNet(u, F, T) = UserNet(u, E, S) + Move(c[x])[u] /\ UserNet(u, E, S) \in Int
        /\ Move(c[x])[u] \in Int
    BY <1>4, <2>1, <2>2, <2>3, <2>4 DEF UserNet
  <2> QED
    BY <2>5 DEF E, F, S, T
<1> QED
  BY <1>5, <1>6

(* A row that is added, or an expense that is marked, is the one row more. *)
LEMMA AddedCounts ==
  ASSUME LedgerIInv, NEW row, Added(row), Counts(row)
  PROVE  OneMoreCounts(book, book', Len(book) + 1)
<1>1. /\ Len(book) \in Nat /\ DOMAIN book = 1 .. Len(book)
      /\ DOMAIN book' = DOMAIN book \union {Len(book) + 1}
      /\ book'[Len(book) + 1] = row
      /\ \A i \in DOMAIN book : book'[i] = book[i]
  BY DEF Added
<1>2. IsFiniteSet(DOMAIN book)
  BY <1>1, FS_Interval
<1>3. IsFiniteSet(DOMAIN book')
  BY <1>1, <1>2, FS_AddElement
<1>4. Len(book) + 1 \notin DOMAIN book
  BY <1>1
<1> DEFINE n == Len(book) + 1
<1> HIDE DEF n
<1>5. /\ DOMAIN book' = DOMAIN book \union {n} /\ n \notin DOMAIN book /\ book'[n] = row
  BY <1>1, <1>4 DEF n
<1>6. OneMoreCounts(book, book', n)
  BY <1>1, <1>2, <1>3, <1>5 DEF OneMoreCounts
<1> QED
  BY <1>6 DEF n

LEMMA MarkedCounts ==
  ASSUME LedgerIInv, RowsOK, NEW i \in DOMAIN book, Marked(i), ~IsSettlement(book[i])
  PROVE  /\ ~book[i].deleted => OneMoreCounts(book', book, i)
         /\ ~Counts(book'[i])
<1>1. DOMAIN book' = DOMAIN book /\ IsFiniteSet(DOMAIN book)
  <2>1. Len(book) \in Nat /\ DOMAIN book = 1 .. Len(book)
    BY DEF LedgerIInv, Tables
  <2>2. IsFiniteSet(DOMAIN book)
    BY <2>1, FS_Interval
  <2> QED
    BY <2>2 DEF Marked
<1>2. book'[i].deleted = TRUE
  BY DEF Marked, RowsOK, RowOK, RowFits, Columns
<1>3. ~IsSettlement(book'[i])
  BY DEF Marked, RowsOK, RowOK, RowFits, Columns, IsSettlement
<1>4. ~Counts(book'[i])
  BY <1>2, <1>3 DEF Counts
<1> QED
  BY <1>1, <1>4 DEF Marked, OneMoreCounts, Counts

(* The entries of the abstract book. *)
LEMMA Stands ==
  /\ DOMAIN Standing = {j \in DOMAIN book : Counts(book[j])}
  /\ \A i \in DOMAIN Standing :
       Standing[i] = [move |-> Move(book[i]), payment |-> IsSettlement(book[i])]
  /\ DOMAIN Standing' = {j \in DOMAIN book' : Counts(book'[j])}
  /\ \A i \in DOMAIN Standing' :
       Standing'[i] = [move |-> Move(book'[i]), payment |-> IsSettlement(book'[i])]
  /\ Standing = [i \in DOMAIN Standing |-> Standing[i]]
  /\ Standing' = [i \in DOMAIN Standing' |-> Standing'[i]]
  BY DEF Standing, Counts, Move, IsSettlement

LEMMA Balances ==
  /\ Balance = [u \in User |-> UserNet(u, Expenses(book), Settlements(book))]
  /\ Balance' = [u \in User |-> UserNet(u, Expenses(book'), Settlements(book'))]
  BY DEF Balance, Net, UserNet, Paid, Share, SettledOut, SettledIn, Expenses, Settlements

(* A row that is added is an entry posted. *)
LEMMA AddedPosts ==
  ASSUME LedgerIInv, RowsOK, RowsOK', NEW row, Added(row), Counts(row), RowOK(row)
  PROVE  Book!Next
<1> DEFINE e == Len(book) + 1
           move == Move(row)
<1>1. OneMoreCounts(book, book', e)
  BY AddedCounts
<1>2. /\ e \in 1 .. MaxRows /\ e \notin DOMAIN book
      /\ DOMAIN book' = DOMAIN book \union {e} /\ book'[e] = row
      /\ \A i \in DOMAIN book : book'[i] = book[i]
  BY DEF Added
<1>3. move \in [User -> (-Int4Max) .. Int4Max] /\ SumFunction(move) = 0
  BY MoveCancels
<1> HIDE DEF e, move
<1>4. /\ e \notin DOMAIN Standing
      /\ DOMAIN Standing' = DOMAIN Standing \union {e}
      /\ Standing'[e] = [move |-> move, payment |-> IsSettlement(row)]
      /\ \A i \in DOMAIN Standing : Standing'[i] = Standing[i]
  BY <1>2, Stands DEF move
<1>5. Standing' = [i \in DOMAIN Standing \union {e} |->
                    IF i = e THEN [move |-> move, payment |-> IsSettlement(row)] ELSE Standing[i]]
  BY <1>4, Stands
<1>6. \A u \in User : UserNet(u, Expenses(book'), Settlements(book'))
                        = UserNet(u, Expenses(book), Settlements(book)) + move[u]
  BY <1>1, <1>2, NetMore DEF RowsOK, move
<1>7. Balance' = [u \in User |-> Balance[u] + move[u]]
  BY <1>6, Balances
<1>8. Standing' # Standing
  BY <1>4
<1>9. Book!Post(e, move, IsSettlement(row))
  BY <1>3, <1>4, <1>5, <1>7, BookSums DEF Book!Post
<1>10. IsSettlement(row) \in BOOLEAN
  BY DEF IsSettlement
<1> QED
  BY <1>2, <1>3, <1>8, <1>9, <1>10 DEF Book!Next

(* An expense that is marked is an entry withdrawn, unless it was before. *)
LEMMA MarkedWithdraws ==
  ASSUME LedgerIInv, RowsOK, NEW i \in DOMAIN book, Marked(i), ~IsSettlement(book[i])
  PROVE  Book!Next \/ UNCHANGED <<Standing, Balance>>
<1>1. i \in 1 .. MaxRows
  BY LedgerAssumption DEF LedgerIInv, Tables
<1>2. DOMAIN book' = DOMAIN book /\ \A j \in DOMAIN book \ {i} : book'[j] = book[j]
  BY DEF Marked
<1>3. ~Counts(book'[i])
  BY MarkedCounts
<1>4. CASE ~book[i].deleted
  <2>1. OneMoreCounts(book', book, i)
    BY <1>4, MarkedCounts
  <2>2. i \in DOMAIN Standing /\ ~Standing[i].payment /\ Standing[i].move = Move(book[i])
    <3>1. i \in DOMAIN Standing
      BY <1>4, Stands DEF Counts
    <3>2. Standing[i] = [move |-> Move(book[i]), payment |-> IsSettlement(book[i])]
      BY <3>1, Stands
    <3>3. Standing[i].move = Move(book[i])
      BY <3>2
    <3>4. ~Standing[i].payment
      <4> DEFINE k == IsSettlement(book[i])
      <4>1. k = FALSE
        BY DEF IsSettlement
      <4>2. Standing[i] = [move |-> Move(book[i]), payment |-> k]
        BY <3>2
      <4> HIDE DEF k
      <4>3. Standing[i].payment = k
        BY <4>2
      <4>4. Standing[i].payment = FALSE
        BY <4>1, <4>3
      <4> QED
        BY <4>4
    <3> QED
      BY <3>1, <3>3, <3>4
  <2>3. /\ DOMAIN Standing' = DOMAIN Standing \ {i}
        /\ \A j \in DOMAIN Standing' : Standing'[j] = Standing[j]
    BY <1>2, <1>3, Stands
  <2>4. Standing' = Book!Restrict(Standing, DOMAIN Standing \ {i})
    BY <2>3, Stands DEF Book!Restrict
  <2>5. \A u \in User :
          /\ UserNet(u, Expenses(book), Settlements(book))
                = UserNet(u, Expenses(book'), Settlements(book')) + Move(book[i])[u]
          /\ UserNet(u, Expenses(book'), Settlements(book')) \in Int
          /\ Move(book[i])[u] \in Int
    BY <2>1, NetMore DEF RowsOK
  <2>6. \A u \in User : UserNet(u, Expenses(book'), Settlements(book'))
                          = UserNet(u, Expenses(book), Settlements(book)) - Move(book[i])[u]
    BY <2>5
  <2>7. Balance' = [u \in User |-> Balance[u] - Standing[i].move[u]]
    BY <2>2, <2>6, Balances
  <2>8. Standing' # Standing
    BY <2>2, <2>3
  <2>9. Book!Withdraw(i)
    BY <2>2, <2>4, <2>7 DEF Book!Withdraw
  <2> QED
    BY <1>1, <2>8, <2>9 DEF Book!Next
<1>5. CASE book[i].deleted
  <2>1. ~Counts(book[i])
    BY <1>5 DEF Counts
  <2>2. /\ DOMAIN Standing' = DOMAIN Standing
        /\ \A j \in DOMAIN Standing : Standing'[j] = Standing[j]
    BY <1>2, <1>3, <2>1, Stands
  <2>3. Standing' = Standing
    BY <2>2, Stands
  <2>4. Expenses(book') = Expenses(book) /\ Settlements(book') = Settlements(book)
    BY <1>2, <1>3, <2>1 DEF Expenses, Settlements, Counts
  <2> QED
    BY <2>3, <2>4, Balances
<1> QED
  BY <1>4, <1>5

(* The trip's ledger implements a book of entries that cancel out: whatever
   calls interleave, the balances recomputed from the rows are the running
   totals of the entries that stand, settlements stand for good, and an
   expense withdrawn twice at once is withdrawn once. *)
THEOREM LedgerRefinesBook == Spec => RefinesBook
<1>1. Init => Book!Init
  <2> SUFFICES ASSUME Init PROVE Book!Init
    OBVIOUS
  <2>1. DOMAIN book = {} /\ DOMAIN Expenses(book) = {} /\ DOMAIN Settlements(book) = {}
    BY DEF Init, Expenses, Settlements
  <2>2. Standing = <<>>
    BY <2>1 DEF Standing
  <2>3. \A u \in User : UserNet(u, Expenses(book), Settlements(book)) = 0
    <3> DEFINE E == Expenses(book)
               S == Settlements(book)
    <3>1. DOMAIN E = {} /\ DOMAIN S = {}
      BY <2>1
    <3> HIDE DEF E, S
    <3>2. ASSUME NEW u \in User
          PROVE  Paid(u, E) = 0 /\ Share(u, E) = 0 /\ SettledOut(u, S) = 0 /\ SettledIn(u, S) = 0
      BY <3>1, SumEmpty DEF Paid, Share, SettledOut, SettledIn, SumFunction
    <3> QED
      BY <3>2 DEF UserNet, E, S
  <2> QED
    BY <2>2, <2>3, Balances DEF Book!Init
<1>2. LedgerIInv /\ MoneyInv /\ MoneyInv' /\ [Next]_vars => [Book!Next]_(Book!vars)
  <2> SUFFICES ASSUME LedgerIInv, MoneyInv, MoneyInv', [Next]_vars
               PROVE  Book!Next \/ UNCHANGED <<Standing, Balance>>
    BY DEF Book!vars
  <2>1. RowsOK /\ RowsOK'
    BY DEF MoneyInv
  <2>2. ASSUME UNCHANGED book PROVE UNCHANGED <<Standing, Balance>>
    BY <2>2, Stands, Balances
  <2>3. ASSUME NEW p \in Process, Start(p) \/ Step(p) \/ Abort(p)
        PROVE  Book!Next \/ UNCHANGED <<Standing, Balance>>
    <3> DEFINE Goal == Book!Next \/ UNCHANGED <<Standing, Balance>>
               expense == ExpenseRow(req[p].call, req[p].team)
               settlement == [kind |-> "settlement", from |-> req[p].call.from,
                              to |-> req[p].call.to, amount |-> req[p].call.amount]
    <3>1. BookStep(p)
      BY <2>3, BookSteps
    <3>2. ASSUME CreateExpense(p), Added(expense) PROVE Goal
      <4>1. Counts(expense)
        BY DEF Counts, ExpenseRow
      <4>2. RowOK(expense)
        BY <3>2, NewExpenseOK
      <4> HIDE DEF expense
      <4> QED
        BY <2>1, <3>2, <4>1, <4>2, AddedPosts
    <3>3. ASSUME CreateSettlement(p), Added(settlement) PROVE Goal
      <4>1. Counts(settlement)
        BY DEF Counts, IsSettlement
      <4>2. RowOK(settlement)
        BY <3>3, NewSettlementOK
      <4> HIDE DEF settlement
      <4> QED
        BY <2>1, <3>3, <4>1, <4>2, AddedPosts
    <3>4. ASSUME SoftDeleteExpense(p), Marked(req[p].call.row) PROVE Goal
      <4> DEFINE row == req[p].call.row
      <4>1. row \in DOMAIN book /\ ~IsSettlement(book[row])
        BY <3>4 DEF MoneyInv, CallOK, TargetOK, SoftDeleteExpense
      <4>2. Marked(row)
        BY <3>4
      <4> HIDE DEF row
      <4> QED
        BY <2>1, <4>1, <4>2, MarkedWithdraws
    <3>5. Goal
      <4> HIDE DEF Goal
      <4>1. ASSUME UNCHANGED book PROVE Goal
        BY <2>2, <4>1 DEF Goal
      <4> QED
        BY <3>1, <3>2, <3>3, <3>4, <4>1 DEF BookStep
    <3> QED
      BY <3>5
  <2> QED
    BY <2>2, <2>3 DEF Next, vars
<1> QED
  BY <1>1, <1>2, MoneyInvariant, PTL DEF Spec, RefinesBook, Book!Spec

-----------------------------------------------------------------------------
(* One call after the other. *)

(* The user owes and is owed nothing, or an expense he was in was withdrawn. *)
SquareIn(b, u) ==
  \/ UserNet(u, Expenses(b), Settlements(b)) = 0
  \/ \E i \in DOMAIN b : ~IsSettlement(b[i]) /\ b[i].deleted /\ u \in Parties(b[i])

LEMMA LeaversIn ==
  /\ LeaversAreSquare <=> \A u \in (User \ members) \union gone : SquareIn(book, u)
  /\ LeaversAreSquare' <=> \A u \in (User \ members') \union gone' : SquareIn(book', u)
  BY Zenon DEF LeaversAreSquare, SquareIn, Net, UserNet, Paid, Share, SettledOut, SettledIn, Expenses,
     Settlements, IsSettlement, Parties

(* A row moves nothing for those it does not name. *)
LEMMA StaysSquare ==
  ASSUME LedgerIInv, RowsOK', NEW row, Added(row), Counts(row), NEW u \in User, u \notin Parties(row),
         SquareIn(book, u)
  PROVE  SquareIn(book', u)
<1>1. /\ book'[Len(book) + 1] = row
      /\ \A i \in DOMAIN book : i \in DOMAIN book' /\ book'[i] = book[i]
  BY DEF Added
<1>2. CASE UserNet(u, Expenses(book), Settlements(book)) = 0
  <2> DEFINE n == Len(book) + 1
  <2>1. OneMoreCounts(book, book', n)
    BY AddedCounts
  <2>2. Move(book'[n])[u] = 0
    BY <1>1 DEF Move, Parties, At
  <2> HIDE DEF n
  <2>3. UserNet(u, Expenses(book'), Settlements(book'))
          = UserNet(u, Expenses(book), Settlements(book)) + Move(book'[n])[u]
    BY <2>1, NetMore DEF RowsOK
  <2> QED
    BY <1>2, <2>2, <2>3 DEF SquareIn
<1>3. CASE \E i \in DOMAIN book : ~IsSettlement(book[i]) /\ book[i].deleted /\ u \in Parties(book[i])
  BY <1>1, <1>3 DEF SquareIn
<1> QED
  BY <1>2, <1>3 DEF SquareIn

(* An expense that is withdrawn is the excuse of those it names. *)
LEMMA ExcusedOrSquare ==
  ASSUME LedgerIInv, RowsOK, NEW i \in DOMAIN book, Marked(i), ~IsSettlement(book[i]), NEW u \in User,
         SquareIn(book, u)
  PROVE  SquareIn(book', u)
<1>1. /\ i \in DOMAIN book' /\ book'[i].deleted = TRUE /\ ~IsSettlement(book'[i])
      /\ Parties(book'[i]) = Parties(book[i])
      /\ \A j \in DOMAIN book \ {i} : j \in DOMAIN book' /\ book'[j] = book[j]
  BY DEF Marked, RowsOK, RowOK, RowFits, Columns, IsSettlement, Parties
<1>2. CASE u \in Parties(book[i])
  BY <1>1, <1>2 DEF SquareIn
<1>3. CASE u \notin Parties(book[i])
  <2>1. CASE UserNet(u, Expenses(book), Settlements(book)) = 0
    <3>1. CASE ~book[i].deleted
      <4>1. OneMoreCounts(book', book, i)
        BY <3>1, MarkedCounts
      <4>2. Move(book[i])[u] = 0
        BY <1>3 DEF Move, Parties, At
      <4>3. /\ UserNet(u, Expenses(book), Settlements(book))
                 = UserNet(u, Expenses(book'), Settlements(book')) + Move(book[i])[u]
            /\ UserNet(u, Expenses(book'), Settlements(book')) \in Int
        BY <4>1, NetMore DEF RowsOK
      <4> QED
        BY <2>1, <4>2, <4>3 DEF SquareIn
    <3>2. CASE book[i].deleted
      <4>1. Expenses(book') = Expenses(book) /\ Settlements(book') = Settlements(book)
        BY <1>1, <3>2 DEF Expenses, Settlements, Marked
      <4> QED
        BY <2>1, <4>1 DEF SquareIn
    <3> QED
      BY <3>1, <3>2
  <2>2. CASE \E j \in DOMAIN book : ~IsSettlement(book[j]) /\ book[j].deleted /\ u \in Parties(book[j])
    BY <1>1, <1>3, <2>2 DEF SquareIn
  <2> QED
    BY <2>1, <2>2 DEF SquareIn
<1> QED
  BY <1>2, <1>3

(* Leaving and writing: the two sides that the code never brings together. *)
Does(r, ops) == r.at # "idle" /\ r.call.op \in ops
Leaving == {"remove", "deleteAccount"}
Writing == {"expense", "settle", "deleteExpense"}

(* What a lock on the trip would give: while somebody leaves it, nobody writes. *)
LeavingApart == \A p, q \in Process : ~(Does(req[p], Leaving) /\ Does(req[q], Writing))

(* Apart from the writers, a call that leaves knows what it read, and who is about to
   be erased is square; apart from the leavers, the team a writer checked is the trip's. *)
SerialCall(r) ==
  /\ Does(r, Leaving) => \A q \in DOMAIN r.read : r.read[q] = Rows(q)
  /\ r.at = "findExpense" => r.call.op = "deleteExpense"
  /\ r.at = "assertAccess" => r.call.op # "deleteAccount"
  /\ r.at = "write" /\ r.call.op \in {"expense", "settle"} => r.team \subseteq members \ gone
  /\ r.at = "write" /\ r.call.op = "deleteAccount" => SquareIn(book, r.call.by)

SerialInv == LeaversAreSquare /\ \A p \in Process : SerialCall(req[p])

LEMMA InitSerial == Init => SerialInv
<1> SUFFICES ASSUME Init PROVE SerialInv
  OBVIOUS
<1>1. DOMAIN book = {} /\ DOMAIN Expenses(book) = {} /\ DOMAIN Settlements(book) = {}
  BY DEF Init, Expenses, Settlements
<1>2. \A u \in User : UserNet(u, Expenses(book), Settlements(book)) = 0
  <2> DEFINE E == Expenses(book)
             S == Settlements(book)
  <2>1. DOMAIN E = {} /\ DOMAIN S = {}
    BY <1>1
  <2> HIDE DEF E, S
  <2>2. ASSUME NEW u \in User
        PROVE  Paid(u, E) = 0 /\ Share(u, E) = 0 /\ SettledOut(u, S) = 0 /\ SettledIn(u, S) = 0
    BY <2>1, SumEmpty DEF Paid, Share, SettledOut, SettledIn, SumFunction
  <2> QED
    BY <2>2 DEF UserNet, E, S
<1>3. LeaversAreSquare
  <2>1. gone = {}
    BY DEF Init
  <2> QED
    BY <1>2, <2>1, LeaversIn DEF SquareIn
<1>4. Idle.at = "idle" /\ Idle.read = <<>>
  BY DEF Idle
<1>5. SerialCall(Idle)
  BY <1>4 DEF SerialCall, Does
<1> QED
  BY <1>3, <1>5 DEF SerialInv, Init

(* What a call relies on survives the steps that spare what it relies on. *)
LEMMA SerialStands ==
  ASSUME NEW p \in Process, SerialCall(req'[p]),
         Does(req'[p], Leaving) => UNCHANGED book,
         req'[p].at = "write" /\ req'[p].call.op \in {"expense", "settle"} =>
           members \ gone \subseteq members' \ gone'
  PROVE  SerialCall(req[p])'
<1> DEFINE r == req'[p]
<1>1. UNCHANGED book => \A q : Rows(q)' = Rows(q)
  BY DEF Rows, Expenses, Settlements, IsSettlement
<1>2. Does(r, Leaving) => \A q \in DOMAIN r.read : r.read[q] = Rows(q)'
  BY <1>1 DEF SerialCall
<1>3. r.at = "write" /\ r.call.op = "deleteAccount" => SquareIn(book', r.call.by)
  BY DEF SerialCall, Does, Leaving
<1>4. (SquareIn(book, req[p].call.by))' <=> SquareIn(book', r.call.by)
  BY Zenon DEF SquareIn, UserNet, Paid, Share, SettledOut, SettledIn, Expenses, Settlements,
     IsSettlement, Parties
<1>5. Does(req[p], Leaving)' <=> Does(r, Leaving)
  BY DEF Does
<1>6. /\ r.at = "findExpense" => r.call.op = "deleteExpense"
      /\ r.at = "assertAccess" => r.call.op # "deleteAccount"
      /\ r.at = "write" /\ r.call.op \in {"expense", "settle"} => r.team \subseteq members' \ gone'
  BY DEF SerialCall
<1> QED
  BY <1>2, <1>3, <1>4, <1>5, <1>6 DEF SerialCall

(* A step that leaves the trip alone. *)
LEMMA SerialMoves ==
  ASSUME SerialInv, UNCHANGED trip, \A p \in Process : SerialCall(req'[p])
  PROVE  SerialInv'
<1>1. LeaversAreSquare'
  BY LeaversIn DEF SerialInv, trip
<1>2. \A p \in Process : SerialCall(req[p])'
  BY SerialStands DEF trip
<1> QED
  BY <1>1, <1>2 DEF SerialInv

(* What the four aggregates add up to when nothing came in between. *)
LEMMA FreshDues ==
  ASSUME LedgerIInv, RowsOK, NEW u \in User, NEW read,
         Queries("deleteAccount") \subseteq DOMAIN read,
         \A q \in DOMAIN read : read[q] = Rows(q), Dues(u, read) = 0
  PROVE  SquareIn(book, u)
<1>1. /\ read["payments"] = Expenses(book) /\ read["participants"] = Expenses(book)
      /\ read["sent"] = Settlements(book) /\ read["received"] = Settlements(book)
  BY DEF Queries, Rows
<1> QED
  BY <1>1 DEF Dues, SquareIn, UserNet

LEMMA SerialChecks ==
  ASSUME LedgerIInv, MoneyInv, SerialInv, NEW p \in Process,
         Start(p) \/ Step(p) \/ Abort(p), UNCHANGED trip
  PROVE  SerialCall(req'[p])
<1> DEFINE c == req[p].call
<1>1. /\ DOMAIN req = Process /\ CallInv(req[p]) /\ DOMAIN req[p] = DOMAIN Idle
      /\ SerialCall(req[p]) /\ RowsOK
  BY DEF LedgerIInv, CallInv, SerialInv, MoneyInv
<1>2. SerialCall(Idle)
  BY DEF SerialCall, Idle, Does
<1>3. ASSUME req' = [req EXCEPT ![p] = Idle] PROVE SerialCall(req'[p])
  BY <1>1, <1>2, <1>3
<1>4. ASSUME NEW ok \in BOOLEAN, NEW next, Proceed(p, ok, next), req[p].at # "idle",
             next # "findExpense", next # "assertAccess" \/ c.op # "deleteAccount",
             next = "write" =>
               /\ c.op \notin {"expense", "settle"}
               /\ c.op = "deleteAccount" /\ ok => SquareIn(book, c.by)
      PROVE  SerialCall(req'[p])
  <2> DEFINE s == [req[p] EXCEPT !.at = next]
  <2>1. s.at = next /\ s.call = c /\ s.read = req[p].read
    BY <1>1 DEF Idle
  <2>2. CASE ok
    <3>1. req' = [req EXCEPT ![p] = s]
      BY <1>4, <2>2 DEF Proceed
    <3> HIDE DEF s
    <3>2. req'[p] = s
      BY <1>1, <3>1
    <3>3. Does(s, Leaving) => \A q \in DOMAIN s.read : s.read[q] = Rows(q)
      BY <1>1, <1>4, <2>1 DEF SerialCall, Does
    <3>4. /\ s.at # "findExpense" /\ (s.at = "assertAccess" => s.call.op # "deleteAccount")
          /\ s.at = "write" => s.call.op \notin {"expense", "settle"}
          /\ s.at = "write" /\ s.call.op = "deleteAccount" =>
               SquareIn(book, s.call.by)
      BY <1>4, <2>1, <2>2
    <3>5. SerialCall(s)
      BY <3>3, <3>4 DEF SerialCall
    <3> QED
      BY <3>2, <3>5
  <2>3. CASE ~ok
    <3>1. req' = [req EXCEPT ![p] = Idle]
      BY <1>4, <2>3 DEF Proceed
    <3> QED
      BY <1>3, <3>1
  <2> QED
    BY <2>2, <2>3
<1>5. CASE Start(p)
  <2>1. PICK d \in Call : req' = [req EXCEPT ![p] = [Idle EXCEPT !.at = FirstStatement(d.op), !.call = d]]
    BY <1>5 DEF Start
  <2> DEFINE r == [Idle EXCEPT !.at = FirstStatement(d.op), !.call = d]
  <2>2. r.at = FirstStatement(d.op) /\ r.call = d /\ r.read = <<>>
    BY DEF Idle
  <2> HIDE DEF r
  <2>3. /\ FirstStatement(d.op) # "write"
        /\ FirstStatement(d.op) = "findExpense" => d.op = "deleteExpense"
        /\ FirstStatement(d.op) = "assertAccess" => d.op # "deleteAccount"
    BY DEF FirstStatement
  <2>4. req'[p] = r
    BY <1>1, <2>1 DEF r
  <2> QED
    BY <2>2, <2>3, <2>4 DEF SerialCall, Does
<1>6. CASE AssertAccess(p)
  <2>1. req[p].at = "assertAccess" /\ \E ok \in BOOLEAN : Proceed(p, ok, AfterAccess(c.op))
    BY <1>6 DEF AssertAccess
  <2>2. c.op # "deleteAccount"
    BY <1>1, <2>1 DEF SerialCall
  <2>3. /\ AfterAccess(c.op) \notin {"findExpense", "assertAccess"}
        /\ AfterAccess(c.op) = "write" => c.op \notin {"expense", "settle"}
    BY DEF AfterAccess
  <2> QED
    BY <1>4, <2>1, <2>2, <2>3
<1>7. CASE FindDetail(p)
  <2> DEFINE team == members \ gone
             next == IF c.op = "balances" THEN "read" ELSE "write"
             r == [req[p] EXCEPT !.at = next, !.team = team]
  <2>1. /\ req[p].at = "findDetail"
        /\ req' = [req EXCEPT ![p] = r] \/ req' = [req EXCEPT ![p] = Idle]
    BY <1>7 DEF FindDetail
  <2>2. c.op # "deleteAccount"
    BY <2>1 DEF MoneyInv, CallOK, TargetOK
  <2>3. r.at = next /\ r.call = c /\ r.read = req[p].read /\ r.team = team /\ next \in {"read", "write"}
    BY <1>1 DEF Idle
  <2> HIDE DEF r, next
  <2>4. CASE req' = [req EXCEPT ![p] = r]
    <3>1. req'[p] = r
      BY <1>1, <2>4
    <3> QED
      BY <1>1, <2>1, <2>2, <2>3, <3>1 DEF SerialCall, Does
  <2> QED
    BY <1>3, <2>1, <2>4
<1>8. CASE FindExpense(p)
  <2> DEFINE found == c.row \in DOMAIN Expenses(book)
  <2>1. req[p].at = "findExpense" /\ found \in BOOLEAN /\ Proceed(p, found, "assertAccess")
    BY <1>8 DEF FindExpense
  <2> HIDE DEF found
  <2>2. c.op = "deleteExpense"
    BY <1>1, <2>1 DEF SerialCall
  <2> QED
    BY <1>4, <2>1, <2>2
<1>9. CASE FindMembership(p) \/ CountActiveUsers(p) \/ FindUser(p) \/ ListForUser(p)
  <2> DEFINE theirs == c.target \in members \ {Owner}
             active == c.target \notin gone
             there == c.by \notin gone
             listed == ~tripDeleted /\ c.by \in members
  <2>1. /\ req[p].at # "idle"
        /\ FindMembership(p) => theirs \in BOOLEAN /\ Proceed(p, theirs, "read")
        /\ CountActiveUsers(p) => active \in BOOLEAN /\ Proceed(p, active, "write")
        /\ FindUser(p) => there \in BOOLEAN /\ Proceed(p, there, "findMemberships")
        /\ ListForUser(p) => listed \in BOOLEAN /\ Proceed(p, listed, "read")
    BY <1>9 DEF FindMembership, CountActiveUsers, FindUser, ListForUser
  <2>2. CountActiveUsers(p) => c.op = "add"
    BY <1>1 DEF CallInv, CountActiveUsers
  <2> HIDE DEF theirs, active, there, listed
  <2> QED
    BY <1>4, <1>9, <2>1, <2>2
<1>10. CASE FindMemberships(p)
  <2>1. /\ req[p].at = "findMemberships"
        /\ Proceed(p, TRUE, IF c.by \in members THEN "read" ELSE "write")
    BY <1>10 DEF FindMemberships
  <2>2. c.op = "deleteAccount" /\ c.by \in User
    BY <1>1, <2>1, LedgerAssumption DEF CallInv
  <2>3. c.by \notin members => SquareIn(book, c.by)
    BY <2>2, LeaversIn DEF SerialInv
  <2> QED
    BY <1>4, <2>1, <2>2, <2>3
<1>11. CASE Read(p)
  <2> DEFINE old == req[p].read
  <2>1. PICK q \in Missing(p) :
          req' = [req EXCEPT ![p].read = [x \in DOMAIN @ \union {q} |-> IF x = q THEN Rows(q) ELSE @[x]]]
    BY <1>11 DEF Read
  <2> DEFINE new == [x \in DOMAIN old \union {q} |-> IF x = q THEN Rows(q) ELSE old[x]]
             r == [req[p] EXCEPT !.read = new]
  <2>2. req' = [req EXCEPT ![p] = r]
    BY <2>1
  <2>3. r.at = "read" /\ r.call = c /\ r.read = new
    BY <1>1, <1>11 DEF Idle, Read
  <2>4. Does(req[p], Leaving) => \A x \in DOMAIN new : new[x] = Rows(x)
    BY <1>1 DEF SerialCall
  <2> HIDE DEF r, new
  <2>5. req'[p] = r
    BY <1>1, <2>2
  <2>6. Does(r, Leaving) => Does(req[p], Leaving)
    BY <1>11, <2>3 DEF Does, Read
  <2> QED
    BY <2>3, <2>4, <2>5, <2>6 DEF SerialCall
<1>12. CASE NoDues(p)
  <2> DEFINE ok == Dues(c.by, req[p].read) = 0
  <2>1. /\ req[p].at = "read" /\ c.op = "deleteAccount" /\ Missing(p) = {}
        /\ ok \in BOOLEAN /\ Proceed(p, ok, "write")
    BY <1>12 DEF NoDues
  <2>2. Queries("deleteAccount") \subseteq DOMAIN req[p].read /\ c.by \in User
    BY <1>1, <2>1, LedgerAssumption DEF Missing, CallInv
  <2>3. ok => SquareIn(book, c.by)
    BY <1>1, <2>1, <2>2, FreshDues DEF SerialCall, Does, Leaving
  <2> HIDE DEF ok
  <2> QED
    BY <1>4, <2>1, <2>3
<1>13. CASE Summarise(p) \/ SettleUp(p) \/ SettledUp(p) \/ ViewerNet(p)
  <2> DEFINE r == req'[p]
  <2>1. /\ r.at \in {"simplify", "answer"} /\ r.read = req[p].read /\ r.call = c
        /\ req[p].at # "idle"
    BY <1>1, <1>13 DEF Summarise, SettleUp, SettledUp, ViewerNet, Proceed, Idle
  <2> QED
    BY <1>1, <2>1 DEF SerialCall, Does
<1>14. CASE Answer(p) \/ Abort(p)
  <2>1. req' = [req EXCEPT ![p] = Idle]
    BY <1>14 DEF Answer, Abort, Proceed
  <2> QED
    BY <1>3, <2>1
<1>15. CASE \/ CreateExpense(p) \/ CreateSettlement(p) \/ SoftDeleteExpense(p) \/ RemoveMember(p)
            \/ AddMembers(p) \/ SoftDeleteTrip(p) \/ SoftDeleteUser(p)
  BY <1>3, <1>15 DEF CreateExpense, CreateSettlement, SoftDeleteExpense, RemoveMember, AddMembers,
     SoftDeleteTrip, SoftDeleteUser, Insert, Done
<1> QED
  BY <1>5, <1>6, <1>7, <1>8, <1>9, <1>10, <1>11, <1>12, <1>13, <1>14, <1>15 DEF Step

(* A new expense names only the team it was checked against. *)
LEMMA NewExpenseNames ==
  ASSUME LedgerIInv, NEW p \in Process, CreateExpense(p)
  PROVE  Parties(ExpenseRow(req[p].call, req[p].team)) \subseteq req[p].team
<1> DEFINE c == req[p].call
           team == req[p].team
           row == ExpenseRow(c, team)
           figures == RawParticipants(c.body, team)
<1>1. /\ PartiesFit(c.body, team) /\ c.body.split \in SplitType
  BY LedgerAssumption DEF LedgerIInv, CallInv, CreateExpense
<1>2. DOMAIN ByUser(EffectivePayments(c.body)) \subseteq team /\ DOMAIN figures \subseteq team
  BY <1>1 DEF PartiesFit, ByUser
<1>3. DOMAIN Compute(c.body.split, c.body.amount, figures, PrimaryPayer(c.body)) = DOMAIN figures
  BY <1>1 DEF SplitType, Compute, SplitEqual, PercentShares, SharesShares, LargestRemainder
<1> HIDE DEF figures
<1>4. /\ row.kind = "expense" /\ row.paid = ByUser(EffectivePayments(c.body))
      /\ row.share = Compute(c.body.split, c.body.amount, figures, PrimaryPayer(c.body))
  BY DEF ExpenseRow, figures
<1> HIDE DEF row
<1>5. Parties(row) \subseteq team
  BY <1>2, <1>3, <1>4 DEF Parties, IsSettlement
<1> QED
  BY <1>5 DEF row

(* The last step of a call, and what it spares. *)
LEMMA SerialEnds ==
  ASSUME LedgerIInv, SerialInv, NEW p \in Process, Done(p), LeaversAreSquare',
         \A q \in Process \ {p} :
           /\ Does(req[q], Leaving) => UNCHANGED book
           /\ Does(req[q], Writing) => members \ gone \subseteq members' \ gone'
  PROVE  SerialInv'
<1>1. req'[p] = Idle /\ \A q \in Process \ {p} : req'[q] = req[q]
  BY DEF LedgerIInv, Done
<1>2. SerialCall(req[p])'
  BY <1>1 DEF SerialCall, Idle, Does
<1>3. \A q \in Process \ {p} : SerialCall(req[q])'
  <2> TAKE q \in Process \ {p}
  <2>1. SerialCall(req'[q]) /\ req'[q] = req[q]
    BY <1>1 DEF SerialInv
  <2>2. req[q].at = "write" /\ req[q].call.op \in {"expense", "settle"} => Does(req[q], Writing)
    BY DEF Does, Writing
  <2> QED
    BY <2>1, <2>2, SerialStands
<1> QED
  BY <1>2, <1>3 DEF SerialInv

LEMMA SerialKept ==
  ASSUME LedgerIInv, MoneyInv, MoneyInv', SerialInv, LeavingApart,
         NEW p \in Process, Start(p) \/ Step(p) \/ Abort(p)
  PROVE  SerialInv'
<1> DEFINE c == req[p].call
           Leavers == (User \ members) \union gone
           expense == ExpenseRow(c, req[p].team)
           settlement == [kind |-> "settlement", from |-> c.from, to |-> c.to, amount |-> c.amount]
<1>1. /\ SerialCall(req[p]) /\ CallInv(req[p]) /\ RowsOK /\ RowsOK'
      /\ members \subseteq User /\ gone \subseteq User
      /\ \A u \in Leavers : SquareIn(book, u)
      /\ \A q \in Process : ~Does(req[q], Leaving) \/ ~Does(req[p], Writing)
      /\ \A q \in Process : ~Does(req[p], Leaving) \/ ~Does(req[q], Writing)
  BY LeaversIn DEF SerialInv, LedgerIInv, MoneyInv, Tables, LeavingApart
<1>2. ASSUME NEW row, Added(row), Counts(row), Parties(row) \subseteq members \ gone, Done(p),
             UNCHANGED <<members, gone>>, Does(req[p], Writing)
      PROVE  SerialInv'
  <2>1. \A u \in Leavers : SquareIn(book', u)
    BY <1>1, <1>2, StaysSquare
  <2> QED
    BY <1>1, <1>2, <2>1, LeaversIn, SerialEnds
<1>3. CASE CreateExpense(p)
  <2>1. Insert(p, expense)
    BY <1>3 DEF CreateExpense
  <2>2. Added(expense) /\ Done(p) /\ UNCHANGED <<members, gone>> /\ Does(req[p], Writing)
    BY <1>3, <2>1, InsertAdds DEF Insert, Does, Writing, CreateExpense
  <2>3. Parties(expense) \subseteq members \ gone
    BY <1>1, <1>3, NewExpenseNames DEF SerialCall, CreateExpense
  <2>4. Counts(expense)
    BY DEF Counts, ExpenseRow
  <2> HIDE DEF expense
  <2> QED
    BY <1>2, <2>2, <2>3, <2>4
<1>4. CASE CreateSettlement(p)
  <2>1. Insert(p, settlement)
    BY <1>4 DEF CreateSettlement
  <2>2. Added(settlement) /\ Done(p) /\ UNCHANGED <<members, gone>> /\ Does(req[p], Writing)
    BY <1>4, <2>1, InsertAdds DEF Insert, Does, Writing, CreateSettlement
  <2>3. Parties(settlement) \subseteq members \ gone
    BY <1>1, <1>4 DEF SerialCall, CreateSettlement, CallInv, Parties, IsSettlement
  <2>4. Counts(settlement)
    BY DEF Counts, IsSettlement
  <2> HIDE DEF settlement
  <2> QED
    BY <1>2, <2>2, <2>3, <2>4
<1>5. CASE SoftDeleteExpense(p)
  <2> DEFINE row == c.row
  <2>1. row \in DOMAIN book /\ ~IsSettlement(book[row])
    BY <1>5 DEF MoneyInv, CallOK, TargetOK, SoftDeleteExpense
  <2>2. Marked(row) /\ Done(p) /\ UNCHANGED <<members, gone>> /\ Does(req[p], Writing)
    BY <1>5 DEF SoftDeleteExpense, Marked, Does, Writing
  <2> HIDE DEF row
  <2>3. \A u \in Leavers : SquareIn(book', u)
    BY <1>1, <2>1, <2>2, ExcusedOrSquare
  <2> QED
    BY <1>1, <2>2, <2>3, LeaversIn, SerialEnds
<1>6. CASE RemoveMember(p)
  <2> DEFINE target == c.target
             read == req[p].read
  <2>1. /\ c.op = "remove" /\ Missing(p) = {} /\ UserNet(target, read["expenses"], read["settlements"]) = 0
        /\ members' = members \ {target} /\ Done(p) /\ UNCHANGED <<gone, book>>
        /\ Does(req[p], Leaving)
    BY <1>6 DEF RemoveMember, Does, Leaving
  <2>2. {"expenses", "settlements"} \subseteq DOMAIN read
    BY <2>1 DEF Missing, Queries
  <2>3. read["expenses"] = Expenses(book) /\ read["settlements"] = Settlements(book)
    BY <1>1, <2>1, <2>2 DEF SerialCall, Rows
  <2>4. SquareIn(book, target)
    BY <2>1, <2>3 DEF SquareIn
  <2> HIDE DEF target
  <2>5. \A u \in (User \ members') \union gone' : SquareIn(book', u)
    BY <1>1, <2>1, <2>4
  <2> QED
    BY <1>1, <2>1, <2>5, LeaversIn, SerialEnds
<1>7. CASE AddMembers(p) \/ SoftDeleteTrip(p)
  <2>1. members \subseteq members' /\ Done(p) /\ UNCHANGED <<gone, book>>
    BY <1>7 DEF AddMembers, SoftDeleteTrip
  <2>2. \A u \in (User \ members') \union gone' : SquareIn(book', u)
    BY <1>1, <2>1
  <2> QED
    BY <1>1, <2>1, <2>2, LeaversIn, SerialEnds
<1>8. CASE SoftDeleteUser(p)
  <2> DEFINE by == c.by
  <2>1. /\ req[p].at = "write" /\ c.op = "deleteAccount" /\ gone' = gone \union {by}
        /\ Done(p) /\ UNCHANGED <<members, book>> /\ Does(req[p], Leaving)
    BY <1>8 DEF SoftDeleteUser, Does, Leaving
  <2>2. by \in User
    BY <1>1, <2>1, LedgerAssumption DEF CallInv
  <2>3. SquareIn(book, by)
    BY <1>1, <2>1 DEF SerialCall
  <2> HIDE DEF by
  <2>4. \A u \in (User \ members') \union gone' : SquareIn(book', u)
    BY <1>1, <2>1, <2>2, <2>3
  <2> QED
    BY <1>1, <2>1, <2>4, LeaversIn, SerialEnds
<1>9. CASE ~(\/ CreateExpense(p) \/ CreateSettlement(p) \/ SoftDeleteExpense(p) \/ RemoveMember(p)
             \/ AddMembers(p) \/ SoftDeleteTrip(p) \/ SoftDeleteUser(p))
  <2>1. UNCHANGED trip
    BY <1>9 DEF Start, Step, Abort, AssertAccess, FindDetail, FindExpense, FindMembership,
       CountActiveUsers, FindUser, FindMemberships, ListForUser, Read, NoDues, Summarise, SettleUp,
       SettledUp, ViewerNet, Answer, Proceed
  <2>2. \A q \in Process \ {p} : req'[q] = req[q]
    BY CallSteps DEF CallStep
  <2>3. \A q \in Process : SerialCall(req'[q])
    BY <2>1, <2>2, SerialChecks DEF SerialInv
  <2> QED
    BY <2>1, <2>3, SerialMoves
<1> QED
  BY <1>3, <1>4, <1>5, <1>6, <1>7, <1>8, <1>9

(* As long as nobody writes an expense or a settlement while somebody leaves, nobody
   leaves the trip or closes the account with a balance, and no later row gives one to
   somebody who has: only an expense that is withdrawn afterwards can.  Every other
   overlap is harmless; what this one does, RemovalIsSquare and ErasureIsSquare say. *)
THEOREM LeaversSquare == Spec /\ []LeavingApart => []LeaversAreSquare
<1>1. LedgerIInv /\ MoneyInv /\ MoneyInv' /\ SerialInv /\ LeavingApart /\ [Next]_vars => SerialInv'
  <2>1. ASSUME SerialInv, UNCHANGED vars PROVE SerialInv'
    BY <2>1, SerialMoves DEF SerialInv, vars, trip
  <2> QED
    BY <2>1, SerialKept DEF Next
<1>2. SerialInv => LeaversAreSquare
  BY DEF SerialInv
<1> QED
  BY <1>1, <1>2, InitSerial, MoneyInvariant, PTL DEF Spec

-----------------------------------------------------------------------------
(* The two views of a summary tell one story: over all pairs, what a user is
   owed minus what he owes is the net balance beside it. *)
THEOREM PairwiseAgrees == Spec => []PairwiseReconciles
<1>1. ASSUME LedgerIInv, MoneyInv, NEW p \in Process,
             req[p].at = "answer", req[p].call.op = "balances", NEW u \in DOMAIN req[p].nets
      PROVE  LET debts == PairwiseDebts(req[p].read["expenses"], req[p].read["settlements"])
             IN  Amounts({t \in debts : t.to = u}) - Amounts({t \in debts : t.from = u}) = req[p].nets[u]
  <2> DEFINE E == req[p].read["expenses"]
             S == req[p].read["settlements"]
             ids == Appearing(E, S)
  <2>1. /\ {"expenses", "settlements"} \subseteq DOMAIN req[p].read
        /\ req[p].nets = ComputeNetBalances(req[p].team, E, S)
        /\ ReadOK(req[p].read) /\ RowsFit(req[p].read)
    BY <1>1 DEF MoneyInv, CallOK, SummaryOK, LedgerIInv, CallInv
  <2>2. /\ ExpensesFit(E, ids) /\ SettlementsFit(S, ids)
        /\ ids \subseteq User
    BY <2>1, ReadFits
  <2>3. IsFiniteSet(ids) /\ ids \subseteq Nat
    BY <2>2, FiniteUsers
  <2>4. req[p].nets[u] = UserNet(u, E, S)
    BY <1>1, <2>1 DEF ComputeNetBalances
  <2>5. CASE u \in ids
    <3> DEFINE users == ids
    <3>1. users = Appearing(E, S)
      OBVIOUS
    <3> HIDE DEF E, S, users
    <3>2. Amounts({t \in PairwiseDebts(E, S) : t.to = u}) - Amounts({t \in PairwiseDebts(E, S) : t.from = u})
            = UserNet(u, E, S)
      BY <2>2, <2>3, <2>5, <3>1, PairwiseTotals
    <3> QED
      BY <2>4, <3>2 DEF E, S
  <2>6. CASE u \notin ids
    <3>1. IsFiniteSet(DOMAIN E) /\ IsFiniteSet(DOMAIN S)
      BY <2>2 DEF ExpensesFit, SettlementsFit
    <3> HIDE DEF E, S
    <3>2. /\ Amounts({t \in PairwiseDebts(E, S) : t.to = u}) = 0
          /\ Amounts({t \in PairwiseDebts(E, S) : t.from = u}) = 0
          /\ UserNet(u, E, S) = 0
      BY <2>6, <3>1, AbsentTotals
    <3>3. Amounts({t \in PairwiseDebts(E, S) : t.to = u}) - Amounts({t \in PairwiseDebts(E, S) : t.from = u})
            = UserNet(u, E, S)
      BY <3>2
    <3> QED
      BY <2>4, <3>3 DEF E, S
  <2> QED
    BY <2>5, <2>6
<1>2. LedgerIInv /\ MoneyInv => PairwiseReconciles
  BY <1>1 DEF PairwiseReconciles, Amounts
<1> QED
  BY <1>2, MoneyInvariant, PTL

=============================================================================
