------------------------------- MODULE Splits -------------------------------
(***************************************************************************)
(* From the body of POST /expenses to the shares that are stored: the zod  *)
(* schema, the checks of ExpenseService.create and the four calculators.   *)
(* Users are numbers, so that "userId ASC" is <.  A list of entries        *)
(* <<user, figure>> is a sequence as long as it is the client's, and a     *)
(* function from users to figures once it is stored.  Titles, dates and    *)
(* categories are left out.                                                *)
(***************************************************************************)
EXTENDS Integers, FiniteSets, FiniteSetsExt, Functions

CONSTANTS
  NoPayer,                  \* paidByUserId is absent
  MAX_EXPENSE_AMOUNT_MINOR,
  TOTAL_BASIS_POINTS,       \* 10 000
  MAX_SHARE_UNITS,          \* 1 000 000
  FEATURE_SPLIT_TYPES_ENABLED

SplitType == {"EQUAL", "EXACT", "PERCENT", "SHARES"}

Users(list) == {list[i][1] : i \in DOMAIN list}
Figures(list) == {list[i][2] : i \in DOMAIN list}
Total(list) == SumFunction([i \in DOMAIN list |-> list[i][2]])

(* uniqueByUserId, uniqueStringArray, and the check on payments. *)
Unique(list) == \A i, j \in DOMAIN list : list[i][1] = list[j][1] => i = j

(* A Map filled from the list: the last entry of a user wins. *)
ByUser(list) ==
  [u \in Users(list) |-> list[Max({i \in DOMAIN list : list[i][1] = u})][2]]

-----------------------------------------------------------------------------
(* validation/index.ts: createExpenseBodySchema. *)

FiguresFit(split, figures) ==
  CASE split = "EQUAL" -> TRUE
    [] split = "EXACT" -> figures \subseteq Nat
    [] split = "PERCENT" -> figures \subseteq 1 .. TOTAL_BASIS_POINTS
    [] split = "SHARES" -> figures \subseteq 1 .. MAX_SHARE_UNITS

PayersGiven(body) == body.payer # NoPayer \/ body.payments # <<>>

PaymentsFit(body) ==
  body.payments # <<>> =>
    /\ Unique(body.payments)
    /\ Total(body.payments) = body.amount

\* Mutant: the refinement adds up the payments only.
NoCrossCheck(body) == TRUE

CrossSumsFit(body) ==
  /\ body.split = "EXACT" => Total(body.people) = body.amount
  /\ body.split = "PERCENT" => Total(body.people) = TOTAL_BASIS_POINTS

(* baseExpenseFields *)
BaseFieldsFit(body) ==
  /\ body.amount \in 1 .. MAX_EXPENSE_AMOUNT_MINOR
  /\ Figures(body.payments) \subseteq Nat \ {0}

(* The branch of the union. *)
BranchFits(body) ==
  /\ body.split # "EQUAL" => body.people # <<>>
  /\ Unique(body.people)
  /\ FiguresFit(body.split, Figures(body.people))

SchemaAccepts(body) ==
  /\ BaseFieldsFit(body) /\ BranchFits(body)
  /\ PayersGiven(body) /\ PaymentsFit(body) /\ CrossSumsFit(body)

-----------------------------------------------------------------------------
(* expense.service.ts: what create makes of the body, given the members it
   read. *)

EffectivePayments(body) ==
  IF body.payments # <<>> THEN body.payments ELSE << <<body.payer, body.amount>> >>

PrimaryPayer(body) == EffectivePayments(body)[1][1]

RawParticipants(body, team) ==
  IF body.split = "EQUAL" /\ body.people = <<>>
    THEN [u \in team |-> 0]
    ELSE ByUser(body.people)

FlagAllows(body) == body.split = "EQUAL" \/ FEATURE_SPLIT_TYPES_ENABLED

PartiesFit(body, team) ==
  LET payers == Users(EffectivePayments(body))
      sharers == DOMAIN RawParticipants(body, team)
  IN  /\ payers \subseteq team
      /\ sharers # {}
      /\ sharers \subseteq team
      /\ payers \subseteq sharers

-----------------------------------------------------------------------------
(* The calculators, behind the registry: what the validation of each lets
   through, then its shares. *)

EqualComputes(amount, figures, payer) == amount > 0 /\ payer \in DOMAIN figures

ExactComputes(amount, figures) ==
  DOMAIN figures # {} /\ Range(figures) \subseteq Nat /\ SumFunction(figures) = amount

PercentComputes(figures) ==
  /\ DOMAIN figures # {} /\ Range(figures) \subseteq 1 .. TOTAL_BASIS_POINTS
  /\ SumFunction(figures) = TOTAL_BASIS_POINTS

SharesComputes(figures) ==
  DOMAIN figures # {} /\ Range(figures) \subseteq 1 .. MAX_SHARE_UNITS

CanCompute(split, amount, figures, payer) ==
  CASE split = "EQUAL" -> EqualComputes(amount, figures, payer)
    [] split = "EXACT" -> ExactComputes(amount, figures)
    [] split = "PERCENT" -> PercentComputes(figures)
    [] split = "SHARES" -> SharesComputes(figures)

(* BalanceEngine.splitEqual: the payer absorbs the remainder. *)
SplitEqual(amount, ids, payer) ==
  LET n == Cardinality(ids)
      base == amount \div n
  IN  [u \in ids |-> IF u = payer THEN amount - base * (n - 1) ELSE base]

\* Mutant: the left-over units go to the first users, whatever their remainders.
FirstServed(rest, u, v) == u < v

(* Remainder DESC, then userId ASC. *)
Precedes(rest, u, v) == rest[u] > rest[v] \/ (rest[u] = rest[v] /\ u < v)

(* PERCENT and SHARES: floors, then one unit each to the largest remainders. *)
LargestRemainder(amount, figures, denom) ==
  LET floor == [u \in DOMAIN figures |-> (figures[u] * amount) \div denom]
      rest == [u \in DOMAIN figures |-> (figures[u] * amount) % denom]
      extra == amount - SumFunction(floor)
      rank(u) == Cardinality({v \in DOMAIN figures : Precedes(rest, v, u)})
  IN  [u \in DOMAIN figures |-> floor[u] + (IF rank(u) < extra THEN 1 ELSE 0)]

PercentShares(amount, figures) == LargestRemainder(amount, figures, TOTAL_BASIS_POINTS)
SharesShares(amount, figures) == LargestRemainder(amount, figures, SumFunction(figures))

Compute(split, amount, figures, payer) ==
  CASE split = "EQUAL" -> SplitEqual(amount, DOMAIN figures, payer)
    [] split = "EXACT" -> figures
    [] split = "PERCENT" -> PercentShares(amount, figures)
    [] split = "SHARES" -> SharesShares(amount, figures)

(* buildSplitMeta: the figures as the client sent them, for audit. *)
SplitMeta(split, figures) == IF split = "EQUAL" THEN <<>> ELSE figures
=============================================================================
