------------------------------- MODULE Ledger -------------------------------
(***************************************************************************)
(* One trip and the calls that read and write it: trip.service.ts,         *)
(* expense.service.ts, settlement.service.ts, dashboard.service.ts, the    *)
(* repositories under them, and the account deletion of auth.service.ts as *)
(* far as it looks at balances.  Nothing here runs in a transaction longer *)
(* than one statement: a call checks, reads and writes in separate steps,  *)
(* and other calls commit in between.  A Process is one call in flight.    *)
(***************************************************************************)
EXTENDS Splits, BalanceEngine, Sequences

CONSTANTS
  User,        \* users are numbers: see Splits
  Owner,       \* who created the trip
  Premium,     \* the users the simplified plan is open to
  Process,
  Call,        \* what clients ask for: [op, by], and the operands of op
  NoCall,
  Int4Max,     \* the amount columns are 32 bits wide
  MaxRows      \* bound on the rows of the trip

ASSUME LedgerAssumption ==
  /\ User \subseteq Nat /\ IsFiniteSet(User) /\ Owner \in User
  /\ NoCall \notin Call /\ IsFiniteSet(Process)
  /\ \A c \in Call :
       /\ c.by \in User
       /\ c.op \in {"add", "remove"} => c.target \in User
       /\ c.op = "expense" =>
            /\ c.body.split \in SplitType
            /\ {c.body.people, c.body.payments} \subseteq Seq(Nat \X Int)
  /\ MaxRows \in Nat /\ Int4Max \in Nat

VARIABLES
  members,      \* users with a row in trip_members
  tripDeleted,  \* trips.deletedAt is set
  gone,         \* users whose account is deleted
  book,         \* rows of expenses and settlements, in the order they were committed
  req           \* the call of each process

trip == <<members, tripDeleted, gone, book>>
vars == <<members, tripDeleted, gone, book, req>>

(* at: the next statement.  team: the members findDetail returned.  read: the
   rows each query has returned.  nets, left, plan: simplify's variables. *)
Idle ==
  [at |-> "idle", call |-> NoCall, team |-> {}, read |-> <<>>,
   nets |-> <<>>, left |-> <<>>, plan |-> <<>>]

Init ==
  /\ members \in SUBSET User /\ Owner \in members
  /\ tripDeleted = FALSE
  /\ gone = {}
  /\ book = <<>>
  /\ req = [p \in Process |-> Idle]

-----------------------------------------------------------------------------
(* The tables. *)

IsSettlement(r) == r.kind = "settlement"

\* Mutant: the reads forget "deletedAt: null".
WithDeleted(b) == [i \in {j \in DOMAIN b : ~IsSettlement(b[j])} |-> b[i]]

(* findForBalances, findViewerTotalsByTrip: expenses that are not deleted. *)
Expenses(b) == [i \in {j \in DOMAIN b : ~IsSettlement(b[j]) /\ ~b[j].deleted} |-> b[i]]

(* Every settlement is created COMPLETED, and none is ever changed. *)
Settlements(b) == [i \in {j \in DOMAIN b : IsSettlement(b[j])} |-> b[i]]

Net(u) == UserNet(u, Expenses(book), Settlements(book))

(* The rows a query of a call returns. *)
Rows(query) ==
  IF query \in {"expenses", "payments", "participants"}
    THEN Expenses(book) ELSE Settlements(book)

(* What a call reads before it decides; balances and the dashboard read in
   this order, removals and deletions in parallel. *)
Queries(op) ==
  IF op = "deleteAccount" THEN {"payments", "participants", "sent", "received"}
    ELSE {"expenses", "settlements"}

-----------------------------------------------------------------------------
(* The calls.  Proceed goes to the next statement, or answers with an error. *)

Proceed(p, ok, next) ==
  /\ req' = [req EXCEPT ![p] = IF ok THEN [@ EXCEPT !.at = next] ELSE Idle]
  /\ UNCHANGED trip

(* The schemas, and what create checks before its first await. *)
Valid(c) ==
  CASE c.op = "expense" -> SchemaAccepts(c.body) /\ FlagAllows(c.body)
    [] c.op = "settle" -> c.from # c.to /\ c.amount \in 1 .. MAX_EXPENSE_AMOUNT_MINOR
    [] c.op = "add" -> c.target # c.by
    [] c.op = "balances" -> c.simplify => c.by \in Premium
    [] OTHER -> TRUE

FirstStatement(op) ==
  CASE op = "deleteExpense" -> "findExpense"
    [] op = "deleteAccount" -> "findUser"
    [] op = "dashboard" -> "listForUser"
    [] OTHER -> "assertAccess"

Start(p) ==
  \E c \in Call :
    /\ req[p].at = "idle"
    /\ Valid(c)
    /\ req' = [req EXCEPT ![p] = [Idle EXCEPT !.at = FirstStatement(c.op), !.call = c]]
    /\ UNCHANGED trip

AfterAccess(op) ==
  CASE op \in {"expense", "settle", "balances"} -> "findDetail"
    [] op = "remove" -> "findMembership"
    [] op = "add" -> "countActiveUsers"
    [] OTHER -> "write"

(* assertMember and assertOwner look at the membership, not at the trip. *)
AssertAccess(p) ==
  LET c == req[p].call
  IN  /\ req[p].at = "assertAccess"
      /\ Proceed(p, /\ c.by \in members
                    /\ c.op \in {"add", "remove", "deleteTrip"} => c.by = Owner
                    /\ c.op = "deleteExpense" => book[c.row].by = c.by,
                 AfterAccess(c.op))

\* Mutant: findDetail forgets notDeleted.
FindAnyDetail(p) ==
  LET c == req[p].call
      team == members \ gone
  IN  /\ req[p].at = "findDetail"
      /\ req' = [req EXCEPT ![p] =
           IF /\ c.op = "expense" => PartiesFit(c.body, team)
              /\ c.op = "settle" => {c.from, c.to} \subseteq team
             THEN [@ EXCEPT !.at = IF c.op = "balances" THEN "read" ELSE "write", !.team = team]
             ELSE Idle]
      /\ UNCHANGED trip

(* findDetail: the trip must be there; its members are those whose account
   is.  The parties are checked against that list. *)
FindDetail(p) ==
  LET c == req[p].call
      team == members \ gone
  IN  /\ req[p].at = "findDetail"
      /\ req' = [req EXCEPT ![p] =
           IF /\ ~tripDeleted
              /\ c.op = "expense" => PartiesFit(c.body, team)
              /\ c.op = "settle" => {c.from, c.to} \subseteq team
             THEN [@ EXCEPT !.at = IF c.op = "balances" THEN "read" ELSE "write", !.team = team]
             ELSE Idle]
      /\ UNCHANGED trip

FindExpense(p) ==
  LET row == req[p].call.row
  IN  /\ req[p].at = "findExpense"
      /\ Proceed(p, row \in DOMAIN Expenses(book), "assertAccess")

FindMembership(p) ==
  LET target == req[p].call.target
  IN  /\ req[p].at = "findMembership"
      /\ Proceed(p, target \in members \ {Owner}, "read")

CountActiveUsers(p) ==
  /\ req[p].at = "countActiveUsers"
  /\ Proceed(p, req[p].call.target \notin gone, "write")

FindUser(p) ==
  /\ req[p].at = "findUser"
  /\ Proceed(p, req[p].call.by \notin gone, "findMemberships")

(* Without a membership there is no trip to owe anything in. *)
FindMemberships(p) ==
  /\ req[p].at = "findMemberships"
  /\ Proceed(p, TRUE, IF req[p].call.by \in members THEN "read" ELSE "write")

ListForUser(p) ==
  /\ req[p].at = "listForUser"
  /\ Proceed(p, ~tripDeleted /\ req[p].call.by \in members, "read")

Missing(p) == Queries(req[p].call.op) \ DOMAIN req[p].read

Read(p) ==
  /\ req[p].at = "read"
  /\ \E q \in Missing(p) :
       /\ req[p].call.op \in {"balances", "dashboard"} /\ q = "settlements" =>
            "expenses" \in DOMAIN req[p].read
       /\ req' = [req EXCEPT ![p].read =
            [x \in DOMAIN @ \union {q} |-> IF x = q THEN Rows(q) ELSE @[x]]]
  /\ UNCHANGED trip

-----------------------------------------------------------------------------
(* The last step of each call: from what was read to the statement that
   writes, or to the answer. *)

Done(p) == req' = [req EXCEPT ![p] = Idle]

Insert(p, row) ==
  /\ Len(book) < MaxRows
  /\ book' = Append(book, row)
  /\ Done(p)
  /\ UNCHANGED <<members, tripDeleted, gone>>

ExpenseRow(c, team) ==
  LET figures == RawParticipants(c.body, team)
  IN  [kind |-> "expense", amount |-> c.body.amount,
       split |-> c.body.split, figures |-> SplitMeta(c.body.split, figures), payer |-> PrimaryPayer(c.body),
       paid |-> ByUser(EffectivePayments(c.body)),
       share |-> Compute(c.body.split, c.body.amount, figures, PrimaryPayer(c.body)),
       by |-> c.by, deleted |-> FALSE]

(* The calculator ran before the insert; nothing was awaited in between. *)
CreateExpense(p) ==
  LET c == req[p].call
      row == ExpenseRow(c, req[p].team)
  IN  /\ req[p].at = "write" /\ c.op = "expense"
      /\ CanCompute(c.body.split, c.body.amount, RawParticipants(c.body, req[p].team), row.payer)
      /\ c.body.amount <= Int4Max
      /\ Insert(p, row)

CreateSettlement(p) ==
  LET c == req[p].call
  IN  /\ req[p].at = "write" /\ c.op = "settle"
      /\ c.amount <= Int4Max
      /\ Insert(p, [kind |-> "settlement", from |-> c.from, to |-> c.to, amount |-> c.amount])

(* By id, deleted in the meantime or not. *)
SoftDeleteExpense(p) ==
  LET c == req[p].call
  IN  /\ req[p].at = "write" /\ c.op = "deleteExpense"
      /\ book' = [book EXCEPT ![c.row].deleted = TRUE]
      /\ Done(p)
      /\ UNCHANGED <<members, tripDeleted, gone>>

\* Mutant: the reads of the removal are not waited for.
RemoveUnread(p) ==
  LET target == req[p].call.target
  IN  /\ req[p].at = "read" /\ req[p].call.op = "remove"
      /\ target \in members
      /\ members' = members \ {target}
      /\ Done(p)
      /\ UNCHANGED <<tripDeleted, gone, book>>

(* net = 0 in the rows read; delete throws when the row has gone already. *)
RemoveMember(p) ==
  LET target == req[p].call.target
      read == req[p].read
  IN  /\ req[p].at = "read" /\ req[p].call.op = "remove" /\ Missing(p) = {}
      /\ UserNet(target, read["expenses"], read["settlements"]) = 0
      /\ target \in members
      /\ members' = members \ {target}
      /\ Done(p)
      /\ UNCHANGED <<tripDeleted, gone, book>>

AddMembers(p) ==
  /\ req[p].at = "write" /\ req[p].call.op = "add"
  /\ members' = members \union {req[p].call.target}
  /\ Done(p)
  /\ UNCHANGED <<tripDeleted, gone, book>>

SoftDeleteTrip(p) ==
  /\ req[p].at = "write" /\ req[p].call.op = "deleteTrip"
  /\ tripDeleted' = TRUE
  /\ Done(p)
  /\ UNCHANGED <<members, gone, book>>

\* Mutant: settlements the user received are not among the dues.
DuesButReceived(u, read) ==
  Paid(u, read["payments"]) - Share(u, read["participants"]) + SettledOut(u, read["sent"])

(* hasOutstandingBalance: four aggregates, each of its own moment. *)
Dues(u, read) ==
  Paid(u, read["payments"]) - Share(u, read["participants"])
    + SettledOut(u, read["sent"]) - SettledIn(u, read["received"])

NoDues(p) ==
  /\ req[p].at = "read" /\ req[p].call.op = "deleteAccount" /\ Missing(p) = {}
  /\ Proceed(p, Dues(req[p].call.by, req[p].read) = 0, "write")

SoftDeleteUser(p) ==
  /\ req[p].at = "write" /\ req[p].call.op = "deleteAccount"
  /\ gone' = gone \union {req[p].call.by}
  /\ Done(p)
  /\ UNCHANGED <<members, tripDeleted, book>>

(* balances: nets, and from them the plan a premium caller may ask for. *)
Summarise(p) ==
  LET c == req[p].call
      nets == ComputeNetBalances(req[p].team, req[p].read["expenses"], req[p].read["settlements"])
  IN  /\ req[p].at = "read" /\ c.op = "balances" /\ Missing(p) = {}
      /\ req' = [req EXCEPT ![p].at = IF c.simplify THEN "simplify" ELSE "answer",
                            ![p].nets = nets, ![p].left = nets]
      /\ UNCHANGED trip

(* The loop of simplify, one transfer at a time; it awaits nothing. *)
SettleUp(p) ==
  LET t == NextTransfer(req[p].nets, req[p].left)
  IN  /\ req[p].at = "simplify"
      /\ Unfinished(req[p].left)
      /\ req' = [req EXCEPT ![p].left = Apply(@, t), ![p].plan = Append(@, t)]
      /\ UNCHANGED trip

SettledUp(p) ==
  /\ req[p].at = "simplify"
  /\ ~Unfinished(req[p].left)
  /\ Proceed(p, TRUE, "answer")

(* The dashboard's net of the viewer. *)
ViewerNet(p) ==
  LET u == req[p].call.by
      read == req[p].read
  IN  /\ req[p].at = "read" /\ req[p].call.op = "dashboard" /\ Missing(p) = {}
      /\ req' = [req EXCEPT ![p].at = "answer",
                            ![p].nets = [v \in {u} |-> UserNet(v, read["expenses"], read["settlements"])]]
      /\ UNCHANGED trip

Answer(p) ==
  /\ req[p].at = "answer"
  /\ Proceed(p, FALSE, "idle")

(* A statement fails, a check refuses, an amount does not fit its column, or
   the process dies. *)
Abort(p) ==
  /\ req[p].at # "idle"
  /\ Proceed(p, FALSE, "idle")

Step(p) ==
  \/ AssertAccess(p) \/ FindDetail(p) \/ FindExpense(p) \/ FindMembership(p)
  \/ CountActiveUsers(p) \/ FindUser(p) \/ FindMemberships(p) \/ ListForUser(p)
  \/ Read(p)
  \/ CreateExpense(p) \/ CreateSettlement(p) \/ SoftDeleteExpense(p)
  \/ RemoveMember(p) \/ AddMembers(p) \/ SoftDeleteTrip(p)
  \/ NoDues(p) \/ SoftDeleteUser(p)
  \/ Summarise(p) \/ SettleUp(p) \/ SettledUp(p) \/ ViewerNet(p) \/ Answer(p)

Next == \E p \in Process : Start(p) \/ Step(p) \/ Abort(p)

Spec == Init /\ [][Next]_vars
-----------------------------------------------------------------------------
(* Properties. *)

Parties(r) ==
  IF IsSettlement(r) THEN {r.from, r.to} ELSE DOMAIN r.paid \union DOMAIN r.share

TypeOK ==
  /\ members \subseteq User /\ Owner \in members
  /\ tripDeleted \in BOOLEAN
  /\ gone \subseteq User
  /\ book \in Seq(Range(book)) /\ Len(book) <= MaxRows
  /\ \A i \in DOMAIN book : book[i].amount \in 1 .. Int4Max /\ Parties(book[i]) \subseteq User
  /\ \A p \in Process :
       /\ req[p].at # "idle" => req[p].call \in Call /\ Valid(req[p].call)
       /\ req[p].team \subseteq User

(* Whatever the split, the stored shares and the contributions add up to the
   amount, and nobody owes less than nothing.  PERCENT and SHARES: nobody is off
   by a whole minor unit, a larger figure never owes less, equal figures differ
   by one unit at most.  EQUAL: the payer alone absorbs the remainder, n - 1
   units at most. *)
Fair(r) ==
  LET n == Cardinality(DOMAIN r.share)
      whole == SumFunction(r.figures)
  IN  /\ Intact(r) /\ \A u \in DOMAIN r.share : r.share[u] >= 0
      /\ r.split \in {"PERCENT", "SHARES"} =>
           \A u, v \in DOMAIN r.share :
             /\ Abs(whole * r.share[u] - r.amount * r.figures[u]) < whole
             /\ r.figures[u] > r.figures[v] => r.share[u] >= r.share[v]
             /\ r.figures[u] = r.figures[v] => Abs(r.share[u] - r.share[v]) <= 1
      /\ r.split = "EQUAL" =>
           \A u \in DOMAIN r.share \ {r.payer} :
             /\ r.share[u] = r.amount \div n
             /\ r.share[r.payer] - r.share[u] \in 0 .. n - 1

(* Rounding loses nothing and is fair: the stored shares and contributions of
   every expense are what the comment in create calls "the last line of defense
   before the DB write", and more. *)
FairShares == \A i \in DOMAIN book : ~IsSettlement(book[i]) => Fair(book[i])

(* The calculators never refuse what the schema and the membership checks let
   through: their errors are unreachable from a request. *)
SchemaCalculatorsAgree ==
  \A p \in Process :
    LET c == req[p].call IN
    req[p].at = "write" /\ c.op = "expense" =>
      CanCompute(c.body.split, c.body.amount, RawParticipants(c.body, req[p].team),
                 PrimaryPayer(c.body))

(* The nets of a summary cancel out, users who left the trip included, even
   when rows were committed or withdrawn between its two reads. *)
NetsCancel ==
  \A p \in Process :
    req[p].call # NoCall /\ req[p].call.op = "balances" /\ req[p].at \in {"simplify", "answer"} =>
      SumFunction(req[p].nets) = 0

(* A summary's two views tell one story: what a user is owed minus what he
   owes over all pairs is the net balance beside it, former members included. *)
PairwiseReconciles ==
  \A p \in Process :
    req[p].at = "answer" /\ req[p].call.op = "balances" =>
      LET debts == PairwiseDebts(req[p].read["expenses"], req[p].read["settlements"])
          sum(T) == SumFunction([t \in T |-> t.amount])
      IN  \A u \in DOMAIN req[p].nets :
            sum({t \in debts : t.to = u}) - sum({t \in debts : t.from = u}) = req[p].nets[u]

(* The simplified plan clears every balance, only ever lets debtors pay
   creditors, and needs at most |creditors| + |debtors| - 1 transfers
   (the header of balance-engine.ts). *)
PlanSettles ==
  \A p \in Process :
    LET nets == req[p].nets
        plan == req[p].plan
    IN  req[p].at = "answer" /\ req[p].call.op = "balances" /\ req[p].call.simplify =>
          /\ \A u \in DOMAIN nets : nets[u] + SettledOut(u, plan) - SettledIn(u, plan) = 0
          /\ \A i \in DOMAIN plan :
               plan[i].amount > 0 /\ nets[plan[i].from] < 0 /\ nets[plan[i].to] > 0
          /\ Debtors(nets) # {} =>
               Len(plan) <= Cardinality(Debtors(nets)) + Cardinality(Creditors(nets)) - 1

Open(f) == Debtors(f) \union Creditors(f)

(* Every transfer of the loop closes at least one balance: the plan and what is
   left open are never longer than what was open at the start. *)
PlanShrinks ==
  \A p \in Process :
    req[p].at = "simplify" =>
      Len(req[p].plan) + Cardinality(Open(req[p].left)) <= Cardinality(Open(req[p].nets))

(* One call after the other, whoever has left the trip or closed the account
   is square, unless an expense he is named in was withdrawn. *)
LeaversAreSquare ==
  \A u \in (User \ members) \union gone :
    \/ Net(u) = 0
    \/ \E i \in DOMAIN book :
         /\ ~IsSettlement(book[i]) /\ book[i].deleted
         /\ u \in Parties(book[i])

(* The rows p has read are still those it would read now. *)
Undisturbed(p) == \A q \in DOMAIN req[p].read : req[p].read[q] = Rows(q)

(* removeMember reads two tables and deletes in a third statement: a member
   leaves with a balance only when a row came or went in between. *)
RemovalSquare ==
  [][\A u \in members \ members' :
       \/ Net(u) = 0
       \/ \E p \in Process :
            /\ req[p].at = "read" /\ req[p].call.op = "remove" /\ req[p].call.target = u
            /\ ~Undisturbed(p)]_vars

(* Likewise an account is deleted with dues in the trip only when a row came or
   went since one of the four aggregates, or its owner was no member. *)
ErasureSquare ==
  [][\A u \in gone' \ gone :
       \/ Net(u) = 0
       \/ \E p \in Process :
            /\ req[p].at = "write" /\ req[p].call.op = "deleteAccount" /\ req[p].call.by = u
            /\ Missing(p) # {} \/ ~Undisturbed(p)]_vars

(* Calls that got past findDetail and are about to add a row. *)
Admitted ==
  {p \in Process : req[p].at = "write" /\ req[p].call.op \in {"expense", "settle"}}

(* A deleted trip dries up: at most the calls admitted before its deletion
   still add their row, none is admitted any more. *)
DeletedTripDries ==
  [][tripDeleted =>
       /\ Len(book') + Cardinality(Admitted') <= Len(book) + Cardinality(Admitted)
       /\ tripDeleted']_vars

(* A row as an entry of the abstract book. *)
Move(r) ==
  [u \in User |->
     IF ~IsSettlement(r) THEN At(r.paid, u) - At(r.share, u)
     ELSE IF u = r.from THEN r.amount
     ELSE IF u = r.to THEN -r.amount
     ELSE 0]

(* The rows that count, as entries of the abstract book. *)
Standing ==
  [i \in {j \in DOMAIN book : IsSettlement(book[j]) \/ ~book[j].deleted} |->
     [move |-> Move(book[i]), payment |-> IsSettlement(book[i])]]

Balance == [u \in User |-> Net(u)]

Book ==
  INSTANCE TripBook WITH
    Entry <- 1 .. MaxRows,
    Moves <- [User -> (-Int4Max) .. Int4Max],
    standing <- Standing,
    balance <- Balance

(* Balances recomputed from whatever rows are there are those of a book of
   entries that cancel out, settlements stand, and an expense withdrawn twice
   at once is withdrawn once. *)
RefinesBook == Book!Spec
=============================================================================
