----------------------------- MODULE MoneyProofs -----------------------------
(***************************************************************************)
(* The calculators, the balances and the plan, for every set of users and  *)
(* all amounts: what the pure operators of Splits and BalanceEngine do.    *)
(***************************************************************************)
EXTENDS Splits, BalanceEngine, Sums, Sequences

-----------------------------------------------------------------------------
(* Lists of entries. *)

(* A list without repeated users is the function it is stored as, and has the
   same total. *)
LEMMA ListAsFunction ==
  ASSUME NEW list, IsFiniteSet(DOMAIN list), DOMAIN list \subseteq Int,
         \A i \in DOMAIN list : list[i][2] \in Int, Unique(list)
  PROVE  /\ DOMAIN ByUser(list) = Users(list) /\ IsFiniteSet(Users(list))
         /\ \A i \in DOMAIN list : ByUser(list)[list[i][1]] = list[i][2]
         /\ Range(ByUser(list)) = Figures(list)
         /\ SumFunction(ByUser(list)) = Total(list)
<1> DEFINE D == DOMAIN list
           amounts == [i \in D |-> list[i][2]]
           user == [i \in D |-> list[i][1]]
           f == ByUser(list)
<1>1. DOMAIN f = Users(list)
  BY DEF ByUser
<1>2. ASSUME NEW i \in D PROVE f[list[i][1]] = list[i][2]
  <2>1. {j \in D : list[j][1] = list[i][1]} = {i}
    BY DEF Unique
  <2>2. Max({i}) = i
    <3>1. i \in Int
      OBVIOUS
    <3> QED
      BY <3>1 DEF Max
  <2> QED
    BY <2>1, <2>2 DEF ByUser, Users
<1>3. /\ user \in [D -> Users(list)]
      /\ \A i, j \in D : user[i] = user[j] => i = j
      /\ \A u \in Users(list) : \E i \in D : user[i] = u
  BY DEF Users, Unique
<1>4. \A i \in D : amounts[i] \in Int /\ amounts[i] = f[user[i]]
  BY <1>2
<1>5. IsFiniteSet(Users(list))
  <2>1. user \in Surjection(D, Users(list))
    BY <1>3 DEF Surjection
  <2> QED
    BY <2>1, FS_Surjection
<1>6. Range(f) = Figures(list)
  BY <1>1, <1>2 DEF Range, Figures, Users
<1>7. SumFunctionOnSet(amounts, D) = SumFunctionOnSet(f, Users(list))
  <2>1. IsFiniteSet(D)
    OBVIOUS
  <2> HIDE DEF D, amounts, user, f
  <2> QED
    BY <1>3, <1>4, <2>1, SumRenamed
<1> QED
  BY <1>1, <1>2, <1>5, <1>6, <1>7 DEF SumFunction, Total

(* What a client may send where a list of entries is asked for. *)
Entries == Seq(Nat \X Int)

(* The domain of a list is what the lemma on lists asks for. *)
LEMMA EntriesAreLists ==
  ASSUME NEW list \in Entries
  PROVE  /\ IsFiniteSet(DOMAIN list) /\ DOMAIN list \subseteq Int
         /\ \A i \in DOMAIN list : list[i][2] \in Int
         /\ list # <<>> => 1 \in DOMAIN list
<1>1. DOMAIN list = 1 .. Len(list) /\ Len(list) \in Nat
  BY DEF Entries
<1>2. IsFiniteSet(DOMAIN list)
  BY <1>1, FS_Interval
<1>3. ASSUME NEW i \in DOMAIN list PROVE list[i][2] \in Int
  <2>1. list[i] \in Nat \X Int
    BY DEF Entries
  <2> QED
    BY <2>1
<1> QED
  BY <1>1, <1>2, <1>3 DEF Entries

(* The contributions create stores: a list without repeated users, of amounts
   that are positive and add up to the amount of the expense. *)
LEMMA PaymentsAddUp ==
  ASSUME NEW body, body.payments \in Entries, SchemaAccepts(body)
  PROVE  LET paid == ByUser(EffectivePayments(body)) IN
         /\ DOMAIN paid = Users(EffectivePayments(body)) /\ IsFiniteSet(DOMAIN paid)
         /\ PrimaryPayer(body) \in DOMAIN paid
         /\ \A u \in DOMAIN paid : paid[u] \in Int /\ paid[u] > 0
         /\ SumFunction(paid) = body.amount
<1> DEFINE list == EffectivePayments(body)
<1>1. body.amount \in Int /\ body.amount >= 1
  BY DEF SchemaAccepts, BaseFieldsFit
<1>2. /\ IsFiniteSet(DOMAIN list) /\ DOMAIN list \subseteq Int /\ 1 \in DOMAIN list
      /\ \A i \in DOMAIN list : list[i][2] \in Int /\ list[i][2] > 0
      /\ Unique(list) /\ Total(list) = body.amount
  <2>1. CASE body.payments # <<>>
    <3>1. list = body.payments
      BY <2>1 DEF EffectivePayments
    <3>2. Unique(list) /\ Total(list) = body.amount
      BY <2>1, <3>1 DEF SchemaAccepts, PaymentsFit
    <3>3. \A i \in DOMAIN list : list[i][2] \in Nat \ {0}
      BY <3>1 DEF SchemaAccepts, BaseFieldsFit, Figures
    <3>4. /\ IsFiniteSet(DOMAIN list) /\ DOMAIN list \subseteq Int
          /\ 1 \in DOMAIN list
      BY <2>1, <3>1, EntriesAreLists
    <3> HIDE DEF list
    <3> QED
      BY <3>2, <3>3, <3>4
  <2>2. CASE body.payments = <<>>
    <3>1. list = << <<body.payer, body.amount>> >>
      BY <2>2 DEF EffectivePayments
    <3>2. DOMAIN list = {1} /\ list[1][2] = body.amount
      BY <3>1
    <3>3. IsFiniteSet({1})
      BY FS_Singleton
    <3> HIDE DEF list
    <3>4. Unique(list)
      BY <3>2 DEF Unique
    <3>5. Total(list) = body.amount
      <4> DEFINE f == [i \in {1} |-> list[i][2]]
      <4>1. f[1] \in Int /\ f[1] = body.amount
        BY <1>1, <3>2
      <4>2. SumFunctionOnSet(f, {1}) = f[1] + SumFunctionOnSet(f, {1} \ {1})
        <5> HIDE DEF f
        <5> QED
          BY <4>1, <3>3, SumTake
      <4>3. {1} \ {1} = {}
        OBVIOUS
      <4>4. Total(list) = SumFunctionOnSet(f, {1})
        BY <3>2 DEF Total, SumFunction
      <4> HIDE DEF f
      <4> QED
        BY <4>1, <4>2, <4>3, <4>4, SumEmpty, <1>1
    <3> QED
      BY <1>1, <3>2, <3>3, <3>4, <3>5
  <2> QED
    BY <2>1, <2>2
<1> HIDE DEF list
<1>3. /\ DOMAIN ByUser(list) = Users(list) /\ IsFiniteSet(Users(list))
      /\ \A i \in DOMAIN list : ByUser(list)[list[i][1]] = list[i][2]
      /\ SumFunction(ByUser(list)) = Total(list)
  BY <1>2, ListAsFunction
<1>4. \A u \in Users(list) : \E i \in DOMAIN list : u = list[i][1]
  BY DEF Users
<1>5. list[1][1] \in Users(list)
  BY <1>2 DEF Users
<1> QED
  BY <1>2, <1>3, <1>4, <1>5 DEF list, PrimaryPayer

(* What the calculator gets: a figure for each participant, of the kind the
   split asks for. *)
LEMMA FiguresAddUp ==
  ASSUME NEW body, NEW team, IsFiniteSet(team), body.people \in Entries, body.split \in SplitType,
         SchemaAccepts(body), PartiesFit(body, team)
  PROVE  LET figures == RawParticipants(body, team) IN
         /\ DOMAIN figures # {} /\ DOMAIN figures \subseteq team /\ IsFiniteSet(DOMAIN figures)
         /\ \A u \in DOMAIN figures : figures[u] \in Int
         /\ body.split = "EXACT" => Range(figures) \subseteq Nat /\ SumFunction(figures) = body.amount
         /\ body.split = "PERCENT" => /\ Range(figures) \subseteq 1 .. TOTAL_BASIS_POINTS
                                      /\ SumFunction(figures) = TOTAL_BASIS_POINTS
         /\ body.split = "SHARES" => Range(figures) \subseteq 1 .. MAX_SHARE_UNITS
<1> DEFINE figures == RawParticipants(body, team)
<1>1. DOMAIN figures # {} /\ DOMAIN figures \subseteq team /\ IsFiniteSet(DOMAIN figures)
  BY FS_Subset DEF PartiesFit
<1>2. CASE body.split = "EQUAL" /\ body.people = <<>>
  <2>1. figures = [u \in team |-> 0]
    BY <1>2 DEF RawParticipants
  <2> QED
    BY <1>1, <1>2, <2>1
<1>3. CASE ~(body.split = "EQUAL" /\ body.people = <<>>)
  <2>1. figures = ByUser(body.people)
    BY <1>3 DEF RawParticipants
  <2>2. /\ DOMAIN ByUser(body.people) = Users(body.people)
        /\ \A i \in DOMAIN body.people : ByUser(body.people)[body.people[i][1]] = body.people[i][2]
        /\ Range(ByUser(body.people)) = Figures(body.people)
        /\ SumFunction(ByUser(body.people)) = Total(body.people)
    BY EntriesAreLists, ListAsFunction DEF SchemaAccepts, BranchFits
  <2>3. \A u \in DOMAIN figures : figures[u] \in Int
    BY <2>1, <2>2, EntriesAreLists DEF Users
  <2>4. body.split = "EXACT" => Range(figures) \subseteq Nat /\ SumFunction(figures) = body.amount
    BY <2>1, <2>2 DEF SchemaAccepts, BranchFits, FiguresFit, CrossSumsFit
  <2>5. body.split = "PERCENT" => /\ Range(figures) \subseteq 1 .. TOTAL_BASIS_POINTS
                                  /\ SumFunction(figures) = TOTAL_BASIS_POINTS
    BY <2>1, <2>2 DEF SchemaAccepts, BranchFits, FiguresFit, CrossSumsFit
  <2>6. body.split = "SHARES" => Range(figures) \subseteq 1 .. MAX_SHARE_UNITS
    BY <2>1, <2>2 DEF SchemaAccepts, BranchFits, FiguresFit
  <2> QED
    BY <1>1, <2>3, <2>4, <2>5, <2>6
<1> QED
  BY <1>2, <1>3

(* The calculator of the split accepts every body that schema and membership
   checks let through. *)
LEMMA CalculatorAccepts ==
  ASSUME NEW body, NEW team, IsFiniteSet(team), body.people \in Entries, body.payments \in Entries,
         body.split \in SplitType, SchemaAccepts(body), PartiesFit(body, team)
  PROVE  CanCompute(body.split, body.amount, RawParticipants(body, team), PrimaryPayer(body))
<1> DEFINE figures == RawParticipants(body, team)
<1>1. body.amount > 0
  BY DEF SchemaAccepts, BaseFieldsFit
<1>2. PrimaryPayer(body) \in DOMAIN figures
  BY PaymentsAddUp DEF PartiesFit
<1>3. /\ DOMAIN figures # {}
      /\ body.split = "EXACT" => Range(figures) \subseteq Nat /\ SumFunction(figures) = body.amount
      /\ body.split = "PERCENT" => /\ Range(figures) \subseteq 1 .. TOTAL_BASIS_POINTS
                                   /\ SumFunction(figures) = TOTAL_BASIS_POINTS
      /\ body.split = "SHARES" => Range(figures) \subseteq 1 .. MAX_SHARE_UNITS
  BY FiguresAddUp
<1> HIDE DEF figures
<1>4. CanCompute(body.split, body.amount, figures, PrimaryPayer(body))
  BY <1>1, <1>2, <1>3 DEF CanCompute, SplitType, EqualComputes, ExactComputes, PercentComputes, SharesComputes
<1> QED
  BY <1>4 DEF figures

-----------------------------------------------------------------------------
(* EQUAL: quotients, and the payer takes what is left. *)

LEMMA Quotient ==
  ASSUME NEW a \in Nat, NEW n \in Nat \ {0}
  PROVE  /\ a \div n \in Nat /\ a % n \in 0 .. n - 1
         /\ a = n * (a \div n) + (a % n)
  OBVIOUS

LEMMA EqualIsFair ==
  ASSUME NEW amount \in Nat \ {0}, NEW ids, IsFiniteSet(ids), NEW payer \in ids
  PROVE  LET share == SplitEqual(amount, ids, payer)
             n == Cardinality(ids)
         IN  /\ DOMAIN share = ids
             /\ \A u \in ids : share[u] \in Nat
             /\ SumFunction(share) = amount
             /\ \A u \in ids \ {payer} :
                  /\ share[u] = amount \div n
                  /\ share[payer] - share[u] \in 0 .. n - 1
<1> DEFINE share == SplitEqual(amount, ids, payer)
           n == Cardinality(ids)
           base == amount \div n
           rest == amount % n
<1>1. n \in Nat \ {0}
  BY FS_CardinalityType, FS_EmptySet
<1>2. base \in Nat /\ rest \in 0 .. n - 1 /\ amount = n * base + rest
  BY <1>1, Quotient
<1>3. base * (n - 1) \in Int /\ amount - base * (n - 1) = base + rest
  <2> HIDE DEF base, rest, n
  <2> QED
    BY <1>1, <1>2
<1>4. /\ DOMAIN share = ids
      /\ share[payer] = base + rest
      /\ \A u \in ids \ {payer} : share[u] = base
  BY <1>3 DEF SplitEqual
<1>5. SumFunctionOnSet(share, ids) = amount
  <2> DEFINE others == ids \ {payer}
  <2>1. IsFiniteSet(others) /\ Cardinality(others) = n - 1
    BY FS_RemoveElement
  <2>2. \A u \in ids : share[u] \in Int
    <3> HIDE DEF share, base, rest, n
    <3> QED
      BY <1>1, <1>2, <1>4
  <2> HIDE DEF share, base, rest, n
  <2>3. SumFunctionOnSet(share, ids) = share[payer] + SumFunctionOnSet(share, others)
    BY <2>2, SumTake
  <2>4. SumFunctionOnSet(share, others) = base * (n - 1)
    <3> HIDE DEF others
    <3>1. base \in Int /\ \A u \in others : share[u] = base
      BY <1>2, <1>4 DEF others
    <3> QED
      BY <2>1, <3>1, SumConst
  <2> QED
    BY <1>1, <1>2, <1>3, <1>4, <2>3, <2>4
<1>6. \A u \in ids : share[u] \in Nat
  <2> HIDE DEF share, base, rest, n
  <2> QED
    BY <1>1, <1>2, <1>4
<1>7. \A u \in ids \ {payer} : share[payer] - share[u] \in 0 .. n - 1
  <2> HIDE DEF share, base, rest, n
  <2> QED
    BY <1>1, <1>2, <1>4
<1> HIDE DEF share
<1> QED
  BY <1>4, <1>5, <1>6, <1>7 DEF share, SumFunction

-----------------------------------------------------------------------------
(* PERCENT and SHARES: floors, and the left-over units to the largest
   remainders. *)

(* Products, for a back end that knows little of them. *)
LEMMA Products ==
  /\ \A a, b \in Int : a * b \in Int /\ a * b = b * a
  /\ \A a, b, c \in Int : a * (b + c) = a * b + a * c /\ a * (b - c) = a * b - a * c
  /\ \A a, b, c \in Int : a <= b /\ c >= 0 => a * c <= b * c
  OBVIOUS

(* d units are worth one whole: e wholes that p remainders below one add up to
   are at most p. *)
LEMMA FewWholes ==
  ASSUME NEW d \in Nat \ {0}, NEW e \in Int, NEW p \in Nat, 0 <= d * e, d * e <= (d - 1) * p
  PROVE  e \in 0 .. p
<1>1. e >= 0
  <2>1. SUFFICES ASSUME e <= -1 PROVE FALSE
    OBVIOUS
  <2>2. e * d <= (-1) * d
    BY <2>1, Products
  <2>3. (-1) * d = -d /\ e * d = d * e
    OBVIOUS
  <2> QED
    BY <2>2, <2>3
<1>2. e <= p
  <2>1. SUFFICES ASSUME p + 1 <= e PROVE FALSE
    OBVIOUS
  <2>2. (p + 1) * d <= e * d
    BY <2>1, Products
  <2>3. (p + 1) * d = d * p + d /\ e * d = d * e /\ (d - 1) * p = d * p - p
    OBVIOUS
  <2> QED
    BY <2>2, <2>3
<1> QED
  BY <1>1, <1>2

(* Remainder first, then the user's number: one order of all users. *)
LEMMA PrecedesIsTotal ==
  ASSUME NEW S \in SUBSET Nat, NEW rest, \A u \in S : rest[u] \in Int,
         NEW u \in S, NEW v \in S, NEW w \in S
  PROVE  /\ ~Precedes(rest, u, u)
         /\ u # v => Precedes(rest, u, v) \/ Precedes(rest, v, u)
         /\ Precedes(rest, u, v) /\ Precedes(rest, v, w) => Precedes(rest, u, w)
  BY DEF Precedes

Ranks(rest, S) == [u \in S |-> Cardinality({v \in S : Precedes(rest, v, u)})]

(* Ranks count from 0 without a gap: k users have one of the first k. *)
LEMMA RanksCount ==
  ASSUME NEW S \in SUBSET Nat, IsFiniteSet(S), NEW rest, \A u \in S : rest[u] \in Int
  PROVE  LET rank == Ranks(rest, S) IN
         /\ \A u \in S : rank[u] \in Nat
         /\ \A u, v \in S : Precedes(rest, u, v) => rank[u] < rank[v]
         /\ \A k \in 0 .. Cardinality(S) : Cardinality({u \in S : rank[u] < k}) = k
<1> DEFINE n == Cardinality(S)
           ahead(u) == {v \in S : Precedes(rest, v, u)}
           rank == Ranks(rest, S)
<1>1. n \in Nat
  BY FS_CardinalityType
<1>2. ASSUME NEW u \in S
      PROVE  /\ IsFiniteSet(ahead(u)) /\ rank[u] = Cardinality(ahead(u))
             /\ rank[u] \in 0 .. n - 1
  <2>1. ahead(u) \subseteq S \ {u}
    BY PrecedesIsTotal
  <2>2. IsFiniteSet(S \ {u}) /\ Cardinality(S \ {u}) = n - 1
    BY FS_RemoveElement
  <2>3. IsFiniteSet(ahead(u)) /\ Cardinality(ahead(u)) <= n - 1
    BY <2>1, <2>2, FS_Subset
  <2>4. Cardinality(ahead(u)) \in Nat /\ rank[u] = Cardinality(ahead(u))
    BY <2>3, FS_CardinalityType DEF Ranks
  <2> QED
    BY <2>3, <2>4, <1>1
<1> HIDE DEF n, rank
<1>2a. ASSUME NEW u \in S PROVE rank[u] \in Int /\ rank[u] \in Nat
  <2>1. rank[u] \in 0 .. n - 1
    BY <1>2
  <2> QED
    BY <2>1
<1>3. ASSUME NEW u \in S, NEW v \in S, Precedes(rest, u, v) PROVE rank[u] < rank[v]
  <2>1. ahead(u) \subseteq ahead(v) \ {u} /\ u \in ahead(v)
    BY <1>3, PrecedesIsTotal
  <2> HIDE DEF ahead
  <2>2. IsFiniteSet(ahead(v) \ {u}) /\ Cardinality(ahead(v) \ {u}) = rank[v] - 1
    BY <1>2, <2>1, FS_RemoveElement
  <2>3. Cardinality(ahead(u)) <= Cardinality(ahead(v) \ {u})
    BY <2>1, <2>2, FS_Subset
  <2> QED
    BY <1>2, <1>2a, <2>2, <2>3
<1>4. \A u, v \in S : rank[u] = rank[v] => u = v
  <2> SUFFICES ASSUME NEW u \in S, NEW v \in S, rank[u] = rank[v], u # v PROVE FALSE
    OBVIOUS
  <2>1. Precedes(rest, u, v) \/ Precedes(rest, v, u)
    BY PrecedesIsTotal
  <2> QED
    BY <1>2a, <1>3, <2>1
<1>5. \A k \in 0 .. n - 1 : \E u \in S : rank[u] = k
  <2>1. rank \in Injection(S, 0 .. n - 1)
    BY <1>2, <1>4 DEF Injection, IsInjective, Ranks, rank
  <2>2. IsFiniteSet(0 .. n - 1) /\ Cardinality(0 .. n - 1) = n
    BY <1>1, FS_Interval
  <2>3. rank \in Surjection(S, 0 .. n - 1)
    BY <2>1, <2>2, FS_Injection DEF n
  <2> QED
    BY <2>3 DEF Surjection
<1>6. ASSUME NEW k \in 0 .. n PROVE Cardinality({u \in S : rank[u] < k}) = k
  <2> DEFINE B == {u \in S : rank[u] < k}
             f == [u \in B |-> rank[u]]
  <2>1. \A u \in B : f[u] \in 0 .. k - 1
    BY <1>1, <1>2a
  <2>2. \A j \in 0 .. k - 1 : \E u \in B : f[u] = j
    BY <1>1, <1>5
  <2>3. \A u, v \in B : f[u] = f[v] => u = v
    BY <1>4
  <2>4. f \in Bijection(B, 0 .. k - 1)
    BY <2>1, <2>2, <2>3 DEF Bijection, Injection, IsInjective, Surjection
  <2>5. IsFiniteSet(B)
    BY FS_Subset
  <2>6. Cardinality(0 .. k - 1) = Cardinality(B)
    <3>1. ExistsBijection(B, 0 .. k - 1)
      BY <2>4 DEF ExistsBijection
    <3> HIDE DEF B
    <3> QED
      BY <2>5, <3>1, FS_Bijection
  <2>7. Cardinality(0 .. k - 1) = k
    BY FS_Interval
  <2> QED
    BY <2>6, <2>7
<1> QED
  BY <1>2a, <1>3, <1>6 DEF rank, n

(* The k first in rank get one unit each: k units. *)
LEMMA UnitsAddUp ==
  ASSUME NEW S \in SUBSET Nat, IsFiniteSet(S), NEW rest, \A u \in S : rest[u] \in Int,
         NEW k \in 0 .. Cardinality(S)
  PROVE  SumFunctionOnSet([u \in S |-> IF Ranks(rest, S)[u] < k THEN 1 ELSE 0], S) = k
<1> DEFINE rank == Ranks(rest, S)
           B == {u \in S : rank[u] < k}
           f == [u \in S |-> IF rank[u] < k THEN 1 ELSE 0]
<1>1. Cardinality(B) = k
  BY RanksCount
<1>2. /\ \A u \in S : f[u] \in Int
      /\ \A u \in S \ B : f[u] = 0
      /\ \A u \in B : f[u] = 1
      /\ B \in SUBSET S /\ IsFiniteSet(B)
  BY FS_Subset
<1> HIDE DEF B, f
<1>3. SumFunctionOnSet(f, S) = SumFunctionOnSet(f, B)
  BY <1>2, SumOutside
<1>4. PICK c \in Int : c = 1
  OBVIOUS
<1>5. SumFunctionOnSet(f, B) = c * Cardinality(B)
  BY <1>2, <1>4, SumConst
<1> QED
  BY <1>1, <1>3, <1>4, <1>5 DEF f

FloorsOf(floor, rest, figures, amount, denom, S) ==
  \A u \in S : /\ floor[u] = (figures[u] * amount) \div denom
               /\ rest[u] = (figures[u] * amount) % denom

WithRest(rest, S) == {u \in S : rest[u] > 0}

(* Floors and remainders: what the floors leave over is a number of whole
   units that is at most that of the users with a remainder. *)
LEMMA FloorsLeave ==
  ASSUME NEW amount \in Nat \ {0}, NEW S, IsFiniteSet(S), S # {},
         NEW figures, \A u \in S : figures[u] \in Nat \ {0},
         NEW denom, denom = SumFunctionOnSet(figures, S),
         NEW floor, NEW rest, FloorsOf(floor, rest, figures, amount, denom, S)
  PROVE  /\ denom \in Nat \ {0}
         /\ \A u \in S : /\ floor[u] \in Nat /\ rest[u] \in 0 .. denom - 1
                         /\ figures[u] * amount = denom * floor[u] + rest[u]
         /\ SumFunctionOnSet(floor, S) \in Int
         /\ amount - SumFunctionOnSet(floor, S) \in 0 .. Cardinality(WithRest(rest, S))
<1>1. denom \in Nat \ {0}
  <2>1. PICK u \in S : TRUE
    OBVIOUS
  <2>2. denom \in Nat /\ figures[u] <= denom
    <3>1. \A v \in S : figures[v] \in Nat
      OBVIOUS
    <3> QED
      BY <3>1, SumNat
  <2> QED
    BY <2>1, <2>2
<1>2. ASSUME NEW u \in S
      PROVE  /\ floor[u] \in Nat /\ rest[u] \in 0 .. denom - 1
             /\ figures[u] * amount = denom * floor[u] + rest[u]
  <2>1. figures[u] * amount \in Nat
    <3>1. \A a, b \in Nat : a * b \in Nat
      OBVIOUS
    <3> QED
      BY <3>1
  <2> DEFINE a == figures[u] * amount
  <2>2. floor[u] = a \div denom /\ rest[u] = a % denom /\ a \in Nat
    BY <2>1 DEF FloorsOf
  <2> HIDE DEF a
  <2>3. /\ a \div denom \in Nat /\ a % denom \in 0 .. denom - 1
        /\ a = denom * (a \div denom) + (a % denom)
    BY <1>1, <2>2, Quotient
  <2> QED
    BY <2>2, <2>3 DEF a
<1> DEFINE P == WithRest(rest, S)
           sum == SumFunctionOnSet(floor, S)
           rests == SumFunctionOnSet(rest, S)
<1>3. sum \in Int /\ rests \in Int
  <2>1. \A u \in S : floor[u] \in Int /\ rest[u] \in Int
    BY <1>1, <1>2
  <2> QED
    BY <2>1, SumInt
<1>4. amount * denom = denom * sum + rests
  <2> DEFINE all == [u \in S |-> amount * figures[u]]
             most == [u \in S |-> denom * floor[u]]
  <2>0. \A u \in S : figures[u] \in Int /\ floor[u] \in Int /\ rest[u] \in Int
    BY <1>1, <1>2
  <2>1. SumFunctionOnSet(all, S) = amount * denom
    <3>1. \A u \in S : all[u] = amount * figures[u]
      OBVIOUS
    <3> HIDE DEF all
    <3> QED
      BY <2>0, <3>1, SumScale
  <2>2. SumFunctionOnSet(most, S) = denom * sum
    <3>1. \A u \in S : most[u] = denom * floor[u]
      OBVIOUS
    <3> HIDE DEF most
    <3> QED
      BY <1>1, <2>0, <3>1, SumScale
  <2>3. \A u \in S : most[u] \in Int /\ rest[u] \in Int /\ all[u] = most[u] + rest[u]
    <3>1. ASSUME NEW u \in S PROVE denom * floor[u] \in Int
      BY <1>1, <2>0, Products
    <3>2. ASSUME NEW u \in S PROVE amount * figures[u] = figures[u] * amount
      BY <2>0, Products
    <3> QED
      BY <1>2, <2>0, <3>1, <3>2
  <2> HIDE DEF all, most, sum, rests
  <2>4. SumFunctionOnSet(all, S) = SumFunctionOnSet(most, S) + SumFunctionOnSet(rest, S)
    BY <2>3, SumPlus
  <2> QED
    BY <2>1, <2>2, <2>4 DEF rests
<1>5. 0 <= rests /\ rests <= (denom - 1) * Cardinality(P)
  <2>1. P \in SUBSET S /\ IsFiniteSet(P)
    BY FS_Subset DEF WithRest
  <2>2. rests = SumFunctionOnSet(rest, P)
    <3>1. \A u \in S : rest[u] \in Int
      BY <1>1, <1>2
    <3>2. \A u \in S \ P : rest[u] = 0
      BY <1>1, <1>2 DEF WithRest
    <3> HIDE DEF P
    <3> QED
      BY <2>1, <3>1, <3>2, SumOutside
  <2> DEFINE top == [u \in P |-> denom - 1]
             none == [u \in P |-> 0]
  <2>3. \A u \in P : /\ none[u] \in Int /\ rest[u] \in Int /\ top[u] \in Int
                     /\ none[u] <= rest[u] /\ rest[u] <= top[u]
                     /\ top[u] = denom - 1 /\ none[u] = 0
    BY <1>1, <1>2 DEF WithRest
  <2> HIDE DEF top, none, P
  <2>4. SumFunctionOnSet(none, P) <= SumFunctionOnSet(rest, P)
        /\ SumFunctionOnSet(rest, P) <= SumFunctionOnSet(top, P)
    BY <2>1, <2>3, SumLeq
  <2>5. SumFunctionOnSet(none, P) = 0
    BY <2>1, <2>3, SumZero
  <2>6. SumFunctionOnSet(top, P) = (denom - 1) * Cardinality(P)
    BY <1>1, <2>1, <2>3, SumConst
  <2> QED
    BY <2>2, <2>4, <2>5, <2>6
<1>6. Cardinality(P) \in Nat
  BY FS_Subset, FS_CardinalityType DEF WithRest
<1>7. denom * (amount - sum) = rests
  <2> HIDE DEF sum, rests
  <2>1. denom * (amount - sum) = denom * amount - denom * sum /\ denom * amount = amount * denom
    BY <1>1, <1>3, Products
  <2>2. amount * denom \in Int /\ denom * sum \in Int
    BY <1>1, <1>3, Products
  <2> QED
    BY <1>3, <1>4, <2>1, <2>2
<1>8. amount - sum \in 0 .. Cardinality(P)
  <2> HIDE DEF sum, rests, P
  <2>1. amount - sum \in Int
    BY <1>3
  <2> QED
    BY <1>1, <1>5, <1>6, <1>7, <2>1, FewWholes
<1> QED
  BY <1>1, <1>2, <1>3, <1>8

(* Two quotients by one denominator. *)
LEMMA QuotientsCompare ==
  ASSUME NEW d \in Nat \ {0}, NEW p \in Nat, NEW q \in Nat,
         NEW r \in 0 .. d - 1, NEW t \in 0 .. d - 1
  PROVE  /\ d * p + r > d * q + t => p > q \/ (p = q /\ r > t)
         /\ d * p + r = d * q + t => p = q
<1>1. p < q => d * p + d <= d * q
  <2>1. SUFFICES ASSUME p + 1 <= q PROVE d * p + d <= d * q
    OBVIOUS
  <2>2. (p + 1) * d <= q * d
    BY <2>1, Products
  <2> QED
    BY <2>2
<1>2. q < p => d * q + d <= d * p
  <2>1. SUFFICES ASSUME q + 1 <= p PROVE d * q + d <= d * p
    OBVIOUS
  <2>2. (q + 1) * d <= p * d
    BY <2>1, Products
  <2> QED
    BY <2>2
<1> DEFINE a == d * p
           b == d * q
<1>3. a \in Int /\ b \in Int /\ (p = q => a = b)
  BY Products
<1> HIDE DEF a, b
<1>4. (p < q => a + d <= b) /\ (q < p => b + d <= a)
  BY <1>1, <1>2 DEF a, b
<1>5. /\ a + r > b + t => p > q \/ (p = q /\ r > t)
      /\ a + r = b + t => p = q
  BY <1>3, <1>4
<1> QED
  BY <1>5 DEF a, b

(* Largest remainder loses nothing and is fair: nobody is off by a whole unit,
   a larger figure never gets less, equal figures differ by one at most. *)
LEMMA RemaindersAreFair ==
  ASSUME NEW amount \in Nat \ {0}, NEW figures, NEW denom,
         IsFiniteSet(DOMAIN figures), DOMAIN figures # {}, DOMAIN figures \subseteq Nat,
         \A u \in DOMAIN figures : figures[u] \in Nat \ {0},
         denom = SumFunction(figures)
  PROVE  LET share == LargestRemainder(amount, figures, denom) IN
         /\ DOMAIN share = DOMAIN figures
         /\ \A u \in DOMAIN figures : share[u] \in Nat
         /\ SumFunction(share) = amount
         /\ \A u, v \in DOMAIN figures :
              /\ Abs(denom * share[u] - amount * figures[u]) < denom
              /\ figures[u] > figures[v] => share[u] >= share[v]
              /\ figures[u] = figures[v] => Abs(share[u] - share[v]) <= 1
<1> DEFINE S == DOMAIN figures
           floor == [u \in S |-> (figures[u] * amount) \div denom]
           rest == [u \in S |-> (figures[u] * amount) % denom]
           extra == amount - SumFunction(floor)
           rank == Ranks(rest, S)
           unit == [u \in S |-> IF rank[u] < extra THEN 1 ELSE 0]
           P == WithRest(rest, S)
           share == LargestRemainder(amount, figures, denom)
<1>1. /\ denom \in Nat \ {0}
      /\ \A u \in S : /\ floor[u] \in Nat /\ rest[u] \in 0 .. denom - 1
                      /\ figures[u] * amount = denom * floor[u] + rest[u]
      /\ SumFunctionOnSet(floor, S) \in Int
      /\ amount - SumFunctionOnSet(floor, S) \in 0 .. Cardinality(P)
  <2>1. FloorsOf(floor, rest, figures, amount, denom, S)
    BY DEF FloorsOf
  <2>2. denom = SumFunctionOnSet(figures, S) /\ IsFiniteSet(S) /\ S # {}
    BY DEF SumFunction
  <2>3. \A u \in S : figures[u] \in Nat \ {0}
    OBVIOUS
  <2> HIDE DEF S, floor, rest
  <2> QED
    BY <2>1, <2>2, <2>3, FloorsLeave
<1>2. extra = amount - SumFunctionOnSet(floor, S) /\ extra \in 0 .. Cardinality(P)
  BY <1>1 DEF SumFunction
<1>3. share = [u \in S |-> floor[u] + unit[u]]
  BY DEF LargestRemainder, Ranks
<1>4. /\ IsFiniteSet(S) /\ S \in SUBSET Nat /\ P \in SUBSET S
      /\ \A u \in S : rest[u] \in Int /\ figures[u] \in Nat \ {0}
      /\ \A u \in S : unit[u] \in {0, 1}
  BY <1>1 DEF WithRest
<1>5. Cardinality(P) \in Nat /\ Cardinality(S) \in Nat /\ Cardinality(P) <= Cardinality(S)
  <2> HIDE DEF S, P
  <2> QED
    BY <1>4, FS_Subset, FS_CardinalityType
<1>6. \A u \in S : (unit[u] = 1) <=> (rank[u] < extra)
  OBVIOUS
<1>7. SumFunctionOnSet(unit, S) = extra
  <2>1. extra \in 0 .. Cardinality(S)
    BY <1>2, <1>5
  <2> HIDE DEF S, rest, extra
  <2> QED
    BY <1>4, <2>1, UnitsAddUp
<1> HIDE DEF S, floor, rest, extra, rank, unit, P, share
<1>8. /\ \A u \in S : rank[u] \in Nat
      /\ \A u, v \in S : Precedes(rest, u, v) => rank[u] < rank[v]
  BY <1>4, RanksCount DEF rank
<1>9. DOMAIN share = S /\ \A u \in S : share[u] \in Nat /\ share[u] = floor[u] + unit[u]
  BY <1>1, <1>3, <1>4
<1>10. SumFunctionOnSet(share, S) = amount
  <2>1. \A u \in S : floor[u] \in Int /\ unit[u] \in Int /\ share[u] = floor[u] + unit[u]
    BY <1>1, <1>4, <1>9
  <2>2. SumFunctionOnSet(share, S) = SumFunctionOnSet(floor, S) + SumFunctionOnSet(unit, S)
    BY <1>4, <2>1, SumPlus
  <2> QED
    BY <1>1, <1>2, <1>7, <2>2
(* Who has no remainder gets no unit: all who have one precede. *)
<1>11. \A u \in S : rest[u] = 0 => unit[u] = 0
  <2> SUFFICES ASSUME NEW u \in S, rest[u] = 0 PROVE unit[u] = 0
    OBVIOUS
  <2> DEFINE ahead == {v \in S : Precedes(rest, v, u)}
  <2>1. P \subseteq ahead
    BY <1>4 DEF Precedes, P, WithRest
  <2>2. IsFiniteSet(ahead) /\ rank[u] = Cardinality(ahead)
    BY <1>4, FS_Subset DEF rank, Ranks
  <2> HIDE DEF ahead
  <2>3. Cardinality(P) <= rank[u]
    BY <2>1, <2>2, FS_Subset
  <2> QED
    BY <1>2, <1>4, <1>5, <1>6, <1>8, <2>3
<1>12. ASSUME NEW u \in S PROVE Abs(denom * share[u] - amount * figures[u]) < denom
  <2> DEFINE a == denom * floor[u]
  <2>1. a \in Int /\ amount * figures[u] = a + rest[u]
    <3>1. floor[u] \in Int /\ figures[u] \in Int /\ figures[u] * amount = a + rest[u]
      BY <1>1, <1>4
    <3> QED
      BY <1>1, <3>1, Products
  <2>2. denom * share[u] = a + denom * unit[u]
    <3>1. floor[u] \in Int /\ unit[u] \in Int /\ share[u] = floor[u] + unit[u]
      BY <1>1, <1>4, <1>9
    <3> QED
      BY <1>1, <3>1, Products
  <2>3. denom * unit[u] = IF unit[u] = 1 THEN denom ELSE 0
    BY <1>1, <1>4
  <2> HIDE DEF a
  <2>4. rest[u] \in 0 .. denom - 1 /\ (rest[u] = 0 => unit[u] = 0) /\ unit[u] \in {0, 1}
    BY <1>1, <1>4, <1>11
  <2>5. denom * share[u] - amount * figures[u] = (IF unit[u] = 1 THEN denom ELSE 0) - rest[u]
    BY <1>1, <2>1, <2>2, <2>3, <2>4
  <2> DEFINE diff == (IF unit[u] = 1 THEN denom ELSE 0) - rest[u]
  <2>6. diff \in Int /\ diff < denom /\ -diff < denom
    BY <1>1, <2>4
  <2> HIDE DEF diff
  <2>7. Abs(diff) < denom
    BY <2>6 DEF Abs
  <2> QED
    BY <2>5, <2>7 DEF diff
<1>13. ASSUME NEW u \in S, NEW v \in S
       PROVE  /\ figures[u] > figures[v] => share[u] >= share[v]
              /\ figures[u] = figures[v] => Abs(share[u] - share[v]) <= 1
  <2>1. /\ denom \in Nat \ {0} /\ floor[u] \in Nat /\ floor[v] \in Nat
        /\ rest[u] \in 0 .. denom - 1 /\ rest[v] \in 0 .. denom - 1
        /\ figures[u] * amount = denom * floor[u] + rest[u]
        /\ figures[v] * amount = denom * floor[v] + rest[v]
    BY <1>1
  <2>2. CASE figures[u] > figures[v]
    <3>1. figures[u] * amount > figures[v] * amount
      <4>1. (figures[v] + 1) * amount <= figures[u] * amount
        BY <1>4, <2>2, Products
      <4>2. (figures[v] + 1) * amount = figures[v] * amount + amount
        BY <1>4, Products
      <4>3. figures[u] * amount \in Int /\ figures[v] * amount \in Int
        BY <1>4, Products
      <4> QED
        BY <4>1, <4>2, <4>3
    <3>2. denom * floor[u] + rest[u] > denom * floor[v] + rest[v]
      BY <2>1, <3>1
    <3>3. floor[u] > floor[v] \/ (floor[u] = floor[v] /\ rest[u] > rest[v])
      BY <2>1, <3>2, QuotientsCompare
    <3>4. CASE floor[u] > floor[v]
      BY <1>4, <1>9, <2>1, <2>2, <3>4
    <3>5. CASE floor[u] = floor[v] /\ rest[u] > rest[v]
      <4>1. rank[u] < rank[v]
        BY <1>8, <3>5 DEF Precedes
      <4>2. unit[u] >= unit[v]
        <5>1. unit[v] = 1 => unit[u] = 1
          BY <1>2, <1>5, <1>6, <1>8, <4>1
        <5> QED
          BY <1>4, <5>1
      <4> QED
        BY <1>4, <1>9, <2>1, <2>2, <3>5, <4>2
    <3> QED
      BY <3>3, <3>4, <3>5
  <2>3. CASE figures[u] = figures[v]
    <3>1. denom * floor[u] + rest[u] = denom * floor[v] + rest[v]
      BY <2>1, <2>3
    <3>2. floor[u] = floor[v]
      BY <2>1, <3>1, QuotientsCompare
    <3>3. share[u] - share[v] \in {-1, 0, 1}
      BY <1>4, <1>9, <2>1, <3>2
    <3>4. \A d \in {-1, 0, 1} : Abs(d) <= 1
      BY DEF Abs
    <3> QED
      BY <1>4, <2>3, <3>3, <3>4
  <2>4. figures[u] \in Int /\ figures[v] \in Int
    BY <1>4
  <2> QED
    BY <2>2, <2>3, <2>4
<1> QED
  BY <1>9, <1>10, <1>12, <1>13 DEF S, share, SumFunction

(* The four calculators: nothing is lost, nobody owes less than nothing, and
   rounding is as fair as the split allows. *)
LEMMA CalculatorsAreFair ==
  ASSUME NEW split \in SplitType, NEW amount \in Nat \ {0}, NEW figures, NEW payer,
         IsFiniteSet(DOMAIN figures), DOMAIN figures \subseteq Nat,
         CanCompute(split, amount, figures, payer)
  PROVE  LET share == Compute(split, amount, figures, payer)
             whole == SumFunction(figures)
             n == Cardinality(DOMAIN figures)
         IN  /\ DOMAIN share = DOMAIN figures
             /\ \A u \in DOMAIN figures : share[u] \in Nat
             /\ SumFunction(share) = amount
             /\ split \in {"PERCENT", "SHARES"} =>
                  \A u, v \in DOMAIN figures :
                    /\ Abs(whole * share[u] - amount * figures[u]) < whole
                    /\ figures[u] > figures[v] => share[u] >= share[v]
                    /\ figures[u] = figures[v] => Abs(share[u] - share[v]) <= 1
             /\ split = "EQUAL" =>
                  \A u \in DOMAIN figures \ {payer} :
                    /\ share[u] = amount \div n
                    /\ share[payer] - share[u] \in 0 .. n - 1
<1>1. CASE split = "EQUAL"
  <2>1. payer \in DOMAIN figures /\ Compute(split, amount, figures, payer) = SplitEqual(amount, DOMAIN figures, payer)
    BY <1>1 DEF CanCompute, EqualComputes, Compute
  <2> QED
    BY <1>1, <2>1, EqualIsFair
<1>2. CASE split = "EXACT"
  <2>1. /\ Compute(split, amount, figures, payer) = figures
        /\ Range(figures) \subseteq Nat /\ SumFunction(figures) = amount
    BY <1>2 DEF CanCompute, ExactComputes, Compute
  <2> QED
    BY <1>2, <2>1 DEF Range
<1>3. CASE split \in {"PERCENT", "SHARES"}
  <2>1. DOMAIN figures # {} /\ \A u \in DOMAIN figures : figures[u] \in Nat \ {0}
    <3>1. PercentComputes(figures) \/ SharesComputes(figures)
      BY <1>3 DEF CanCompute
    <3>2. DOMAIN figures # {} /\ \E top : Range(figures) \subseteq 1 .. top
      BY <3>1 DEF PercentComputes, SharesComputes
    <3>3. \A u \in DOMAIN figures : figures[u] \in Range(figures)
      BY DEF Range
    <3> QED
      BY <3>2, <3>3
  <2>2. Compute(split, amount, figures, payer) = LargestRemainder(amount, figures, SumFunction(figures))
    BY <1>3 DEF CanCompute, PercentComputes, Compute, PercentShares, SharesShares
  <2> DEFINE whole == SumFunction(figures)
             share == LargestRemainder(amount, figures, whole)
  <2>3. /\ DOMAIN share = DOMAIN figures
        /\ \A u \in DOMAIN figures : share[u] \in Nat
        /\ SumFunction(share) = amount
        /\ \A u, v \in DOMAIN figures :
              /\ Abs(whole * share[u] - amount * figures[u]) < whole
              /\ figures[u] > figures[v] => share[u] >= share[v]
              /\ figures[u] = figures[v] => Abs(share[u] - share[v]) <= 1
    BY <2>1, RemaindersAreFair
  <2> HIDE DEF whole, share
  <2> QED
    BY <1>3, <2>2, <2>3 DEF whole, share
<1> QED
  BY <1>1, <1>2, <1>3 DEF SplitType

-----------------------------------------------------------------------------
(* Balances over rows. *)

(* The rows a query returns, as far as the sums need to know them: finitely
   many, about the users ids. *)
ExpensesFit(E, ids) ==
  /\ IsFiniteSet(DOMAIN E)
  /\ \A i \in DOMAIN E :
       /\ DOMAIN E[i].paid \subseteq ids /\ DOMAIN E[i].share \subseteq ids
       /\ \A u \in DOMAIN E[i].paid : E[i].paid[u] \in Nat
       /\ \A u \in DOMAIN E[i].share : E[i].share[u] \in Nat
       /\ SumFunction(E[i].paid) = E[i].amount /\ SumFunction(E[i].share) = E[i].amount
       /\ E[i].amount \in Nat

SettlementsFit(S, ids) ==
  /\ IsFiniteSet(DOMAIN S)
  /\ \A i \in DOMAIN S : S[i].amount \in Nat /\ S[i].from \in ids /\ S[i].to \in ids

(* A function padded with zeros has the same sum. *)
LEMMA PaddedSum ==
  ASSUME NEW ids, IsFiniteSet(ids), NEW f, DOMAIN f \subseteq ids,
         \A u \in DOMAIN f : f[u] \in Int
  PROVE  /\ \A u \in ids : At(f, u) \in Int
         /\ SumFunctionOnSet([u \in ids |-> At(f, u)], ids) = SumFunction(f)
<1> DEFINE g == [u \in ids |-> At(f, u)]
           D == DOMAIN f
<1>1. /\ \A u \in ids : At(f, u) \in Int /\ g[u] \in Int
      /\ \A u \in ids \ D : g[u] = 0
      /\ \A u \in D : g[u] = f[u]
      /\ D \in SUBSET ids /\ IsFiniteSet(D)
  BY FS_Subset DEF At
<1> HIDE DEF g, D
<1>2. SumFunctionOnSet(g, ids) = SumFunctionOnSet(g, D)
  BY <1>1, SumOutside
<1>3. SumFunctionOnSet(g, D) = SumFunctionOnSet(f, D)
  BY <1>1, SumSame
<1> QED
  BY <1>1, <1>2, <1>3 DEF g, D, SumFunction

(* What one user paid, owed, sent and received are integers. *)
LEMMA AggregatesAreIntegers ==
  ASSUME NEW ids, IsFiniteSet(ids), NEW E, ExpensesFit(E, ids), NEW S, SettlementsFit(S, ids), NEW u
  PROVE  /\ Paid(u, E) \in Int /\ Share(u, E) \in Int
         /\ SettledOut(u, S) \in Int /\ SettledIn(u, S) \in Int
         /\ UserNet(u, E, S) \in Int
<1>1. Paid(u, E) \in Int
  <2> DEFINE f == [i \in DOMAIN E |-> At(E[i].paid, u)]
  <2>1. DOMAIN f = DOMAIN E /\ IsFiniteSet(DOMAIN E) /\ \A i \in DOMAIN E : f[i] \in Int
    BY DEF ExpensesFit, At
  <2> HIDE DEF f
  <2> QED
    BY <2>1, SumInt DEF f, Paid, SumFunction
<1>2. Share(u, E) \in Int
  <2> DEFINE f == [i \in DOMAIN E |-> At(E[i].share, u)]
  <2>1. DOMAIN f = DOMAIN E /\ IsFiniteSet(DOMAIN E) /\ \A i \in DOMAIN E : f[i] \in Int
    BY DEF ExpensesFit, At
  <2> HIDE DEF f
  <2> QED
    BY <2>1, SumInt DEF f, Share, SumFunction
<1>3. SettledOut(u, S) \in Int
  <2> DEFINE T == {i \in DOMAIN S : S[i].from = u}
             f == [i \in T |-> S[i].amount]
  <2>1. DOMAIN f = T /\ IsFiniteSet(T) /\ \A i \in T : f[i] \in Int
    BY FS_Subset DEF SettlementsFit
  <2>2. SettledOut(u, S) = SumFunction(f)
    BY DEF SettledOut
  <2> HIDE DEF f, T
  <2> QED
    BY <2>1, <2>2, SumInt DEF SumFunction
<1>4. SettledIn(u, S) \in Int
  <2> DEFINE T == {i \in DOMAIN S : S[i].to = u}
             f == [i \in T |-> S[i].amount]
  <2>1. DOMAIN f = T /\ IsFiniteSet(T) /\ \A i \in T : f[i] \in Int
    BY FS_Subset DEF SettlementsFit
  <2>2. SettledIn(u, S) = SumFunction(f)
    BY DEF SettledIn
  <2> HIDE DEF f, T
  <2> QED
    BY <2>1, <2>2, SumInt DEF SumFunction
<1> QED
  BY <1>1, <1>2, <1>3, <1>4 DEF UserNet

(* Over all users, the contributions and the shares of the expenses are each
   what the expenses cost. *)
LEMMA ContributionsAndShares ==
  ASSUME NEW ids, IsFiniteSet(ids), NEW E, ExpensesFit(E, ids)
  PROVE  SumFunctionOnSet([u \in ids |-> Paid(u, E)], ids)
           = SumFunctionOnSet([u \in ids |-> Share(u, E)], ids)
<1> DEFINE I == DOMAIN E
           cost == [i \in I |-> E[i].amount]
<1>1. IsFiniteSet(I)
  BY DEF ExpensesFit
<1>2. SumFunctionOnSet(cost, I) = SumFunctionOnSet([u \in ids |-> Paid(u, E)], ids)
  <2> DEFINE m == [i \in I |-> [u \in ids |-> At(E[i].paid, u)]]
             t == [u \in ids |-> [i \in I |-> At(E[i].paid, u)]]
             col == [u \in ids |-> Paid(u, E)]
  <2>1. ASSUME NEW i \in I
        PROVE  cost[i] = SumFunctionOnSet(m[i], ids) /\ \A u \in ids : m[i][u] \in Int
    <3>1. /\ DOMAIN E[i].paid \subseteq ids /\ \A u \in DOMAIN E[i].paid : E[i].paid[u] \in Int
          /\ SumFunction(E[i].paid) = E[i].amount
      BY DEF ExpensesFit
    <3>2. m[i] = [u \in ids |-> At(E[i].paid, u)] /\ cost[i] = E[i].amount
      OBVIOUS
    <3> QED
      BY <3>1, <3>2, PaddedSum
  <2>2. \A u \in ids : col[u] = SumFunctionOnSet(t[u], I)
    BY DEF Paid, SumFunction
  <2>3. \A i \in I : \A u \in ids : t[u][i] = m[i][u]
    OBVIOUS
  <2>4. \A i \in I : \A u \in ids : m[i][u] \in Int
    BY <2>1
  <2>5. \A i \in I : cost[i] = SumFunctionOnSet(m[i], ids)
    BY <2>1
  <2>6. Table(m, t, cost, col, I, ids)
    <3> HIDE DEF I, cost, m, t, col
    <3> QED
      BY <2>2, <2>3, <2>4, <2>5 DEF Table
  <2> HIDE DEF I, cost, m, t, col
  <2>7. SumFunctionOnSet(cost, I) = SumFunctionOnSet(col, ids)
    BY <1>1, <2>6, SumSwap
  <2> QED
    BY <2>7 DEF col
<1>3. SumFunctionOnSet(cost, I) = SumFunctionOnSet([u \in ids |-> Share(u, E)], ids)
  <2> DEFINE m == [i \in I |-> [u \in ids |-> At(E[i].share, u)]]
             t == [u \in ids |-> [i \in I |-> At(E[i].share, u)]]
             col == [u \in ids |-> Share(u, E)]
  <2>1. ASSUME NEW i \in I
        PROVE  cost[i] = SumFunctionOnSet(m[i], ids) /\ \A u \in ids : m[i][u] \in Int
    <3>1. /\ DOMAIN E[i].share \subseteq ids /\ \A u \in DOMAIN E[i].share : E[i].share[u] \in Int
          /\ SumFunction(E[i].share) = E[i].amount
      BY DEF ExpensesFit
    <3>2. m[i] = [u \in ids |-> At(E[i].share, u)] /\ cost[i] = E[i].amount
      OBVIOUS
    <3> QED
      BY <3>1, <3>2, PaddedSum
  <2>2. \A u \in ids : col[u] = SumFunctionOnSet(t[u], I)
    BY DEF Share, SumFunction
  <2>3. \A i \in I : \A u \in ids : t[u][i] = m[i][u]
    OBVIOUS
  <2>4. \A i \in I : \A u \in ids : m[i][u] \in Int
    BY <2>1
  <2>5. \A i \in I : cost[i] = SumFunctionOnSet(m[i], ids)
    BY <2>1
  <2>6. Table(m, t, cost, col, I, ids)
    <3> HIDE DEF I, cost, m, t, col
    <3> QED
      BY <2>2, <2>3, <2>4, <2>5 DEF Table
  <2> HIDE DEF I, cost, m, t, col
  <2>7. SumFunctionOnSet(cost, I) = SumFunctionOnSet(col, ids)
    BY <1>1, <2>6, SumSwap
  <2> QED
    BY <2>7 DEF col
<1> QED
  BY <1>2, <1>3

(* Whatever is settled is sent by one of the users and received by one. *)
LEMMA SentAndReceived ==
  ASSUME NEW ids, IsFiniteSet(ids), NEW S, SettlementsFit(S, ids)
  PROVE  SumFunctionOnSet([u \in ids |-> SettledOut(u, S)], ids)
           = SumFunctionOnSet([u \in ids |-> SettledIn(u, S)], ids)
<1> DEFINE I == DOMAIN S
           amount == [i \in I |-> S[i].amount]
<1>1. IsFiniteSet(I) /\ \A i \in I : amount[i] \in Int
  BY DEF SettlementsFit
<1>2. SumFunctionOnSet(amount, I) = SumFunctionOnSet([u \in ids |-> SettledOut(u, S)], ids)
  <2> DEFINE m == [i \in I |-> [u \in ids |-> IF S[i].from = u THEN S[i].amount ELSE 0]]
             t == [u \in ids |-> [i \in I |-> IF S[i].from = u THEN S[i].amount ELSE 0]]
             col == [u \in ids |-> SettledOut(u, S)]
  <2>1. ASSUME NEW i \in I PROVE amount[i] = SumFunctionOnSet(m[i], ids)
    <3> DEFINE f == m[i]
               x == S[i].from
    <3>1. x \in ids /\ f[x] = amount[i] /\ f[x] \in Int /\ \A y \in ids \ {x} : f[y] = 0
      BY <1>1 DEF SettlementsFit
    <3> HIDE DEF f, x
    <3>2. SumFunctionOnSet(f, ids) = f[x]
      BY <3>1, SumSingle
    <3> QED
      BY <3>1, <3>2 DEF f
  <2>2. ASSUME NEW u \in ids PROVE col[u] = SumFunctionOnSet(t[u], I)
    <3> DEFINE T == {i \in I : S[i].from = u}
               f == [i \in T |-> S[i].amount]
               g == t[u]
    <3>1. IsFiniteSet(T) /\ T \subseteq I /\ (\A i \in I : g[i] \in Int)
          /\ (\A i \in I \ T : g[i] = 0) /\ \A i \in T : f[i] = g[i]
      BY <1>1, FS_Subset
    <3>2. col[u] = SumFunctionOnSet(f, T)
      BY DEF SettledOut, SumFunction
    <3> HIDE DEF f, g, T
    <3>3. SumFunctionOnSet(f, T) = SumFunctionOnSet(g, T)
      BY <3>1, SumSame
    <3>4. SumFunctionOnSet(g, I) = SumFunctionOnSet(g, T)
      BY <1>1, <3>1, SumOutside
    <3>5. col[u] = SumFunctionOnSet(g, I)
      BY <3>2, <3>3, <3>4
    <3> QED
      BY <3>5 DEF g
  <2>3. \A i \in I : \A u \in ids : t[u][i] = m[i][u]
    OBVIOUS
  <2>4. \A i \in I : \A u \in ids : m[i][u] \in Int
    BY <1>1
  <2>5. \A i \in I : amount[i] = SumFunctionOnSet(m[i], ids)
    BY <2>1
  <2>6. \A u \in ids : col[u] = SumFunctionOnSet(t[u], I)
    BY <2>2
  <2>7. Table(m, t, amount, col, I, ids)
    <3> HIDE DEF I, amount, m, t, col
    <3> QED
      BY <2>3, <2>4, <2>5, <2>6 DEF Table
  <2> HIDE DEF I, amount, m, t, col
  <2>8. SumFunctionOnSet(amount, I) = SumFunctionOnSet(col, ids)
    BY <1>1, <2>7, SumSwap
  <2> QED
    BY <2>8 DEF col
<1>3. SumFunctionOnSet(amount, I) = SumFunctionOnSet([u \in ids |-> SettledIn(u, S)], ids)
  <2> DEFINE m == [i \in I |-> [u \in ids |-> IF S[i].to = u THEN S[i].amount ELSE 0]]
             t == [u \in ids |-> [i \in I |-> IF S[i].to = u THEN S[i].amount ELSE 0]]
             col == [u \in ids |-> SettledIn(u, S)]
  <2>1. ASSUME NEW i \in I PROVE amount[i] = SumFunctionOnSet(m[i], ids)
    <3> DEFINE f == m[i]
               x == S[i].to
    <3>1. x \in ids /\ f[x] = amount[i] /\ f[x] \in Int /\ \A y \in ids \ {x} : f[y] = 0
      BY <1>1 DEF SettlementsFit
    <3> HIDE DEF f, x
    <3>2. SumFunctionOnSet(f, ids) = f[x]
      BY <3>1, SumSingle
    <3> QED
      BY <3>1, <3>2 DEF f
  <2>2. ASSUME NEW u \in ids PROVE col[u] = SumFunctionOnSet(t[u], I)
    <3> DEFINE T == {i \in I : S[i].to = u}
               f == [i \in T |-> S[i].amount]
               g == t[u]
    <3>1. IsFiniteSet(T) /\ T \subseteq I /\ (\A i \in I : g[i] \in Int)
          /\ (\A i \in I \ T : g[i] = 0) /\ \A i \in T : f[i] = g[i]
      BY <1>1, FS_Subset
    <3>2. col[u] = SumFunctionOnSet(f, T)
      BY DEF SettledIn, SumFunction
    <3> HIDE DEF f, g, T
    <3>3. SumFunctionOnSet(f, T) = SumFunctionOnSet(g, T)
      BY <3>1, SumSame
    <3>4. SumFunctionOnSet(g, I) = SumFunctionOnSet(g, T)
      BY <1>1, <3>1, SumOutside
    <3>5. col[u] = SumFunctionOnSet(g, I)
      BY <3>2, <3>3, <3>4
    <3> QED
      BY <3>5 DEF g
  <2>3. \A i \in I : \A u \in ids : t[u][i] = m[i][u]
    OBVIOUS
  <2>4. \A i \in I : \A u \in ids : m[i][u] \in Int
    BY <1>1
  <2>5. \A i \in I : amount[i] = SumFunctionOnSet(m[i], ids)
    BY <2>1
  <2>6. \A u \in ids : col[u] = SumFunctionOnSet(t[u], I)
    BY <2>2
  <2>7. Table(m, t, amount, col, I, ids)
    <3> HIDE DEF I, amount, m, t, col
    <3> QED
      BY <2>3, <2>4, <2>5, <2>6 DEF Table
  <2> HIDE DEF I, amount, m, t, col
  <2>8. SumFunctionOnSet(amount, I) = SumFunctionOnSet(col, ids)
    BY <1>1, <2>7, SumSwap
  <2> QED
    BY <2>8 DEF col
<1> QED
  BY <1>2, <1>3

(* The nets over any set that holds everybody the rows name cancel out. *)
LEMMA NetsSumToZero ==
  ASSUME NEW ids, IsFiniteSet(ids), NEW E, ExpensesFit(E, ids), NEW S, SettlementsFit(S, ids)
  PROVE  SumFunctionOnSet([u \in ids |-> UserNet(u, E, S)], ids) = 0
<1> DEFINE paid == [u \in ids |-> Paid(u, E)]
           share == [u \in ids |-> Share(u, E)]
           out == [u \in ids |-> SettledOut(u, S)]
           in == [u \in ids |-> SettledIn(u, S)]
           spent == [u \in ids |-> paid[u] - share[u]]
           sent == [u \in ids |-> spent[u] + out[u]]
           net == [u \in ids |-> UserNet(u, E, S)]
<1>1. \A u \in ids : paid[u] \in Int /\ share[u] \in Int /\ out[u] \in Int /\ in[u] \in Int
  BY AggregatesAreIntegers
<1>2. SumFunctionOnSet(paid, ids) = SumFunctionOnSet(share, ids)
      /\ SumFunctionOnSet(out, ids) = SumFunctionOnSet(in, ids)
  BY ContributionsAndShares, SentAndReceived
<1>3. \A u \in ids : spent[u] = paid[u] - share[u] /\ sent[u] = spent[u] + out[u]
                      /\ net[u] = sent[u] - in[u]
  BY <1>1 DEF UserNet
<1> HIDE DEF paid, share, out, in, spent, sent, net
<1>4. SumFunctionOnSet(spent, ids) = SumFunctionOnSet(paid, ids) - SumFunctionOnSet(share, ids)
  BY <1>1, <1>3, SumMinus
<1>5. SumFunctionOnSet(sent, ids) = SumFunctionOnSet(spent, ids) + SumFunctionOnSet(out, ids)
  <2>1. \A u \in ids : spent[u] \in Int /\ out[u] \in Int /\ sent[u] = spent[u] + out[u]
    BY <1>1, <1>3
  <2> QED
    BY <2>1, SumPlus
<1>6. SumFunctionOnSet(net, ids) = SumFunctionOnSet(sent, ids) - SumFunctionOnSet(in, ids)
  <2>1. \A u \in ids : sent[u] \in Int /\ in[u] \in Int /\ net[u] = sent[u] - in[u]
    BY <1>1, <1>3
  <2> QED
    BY <2>1, SumMinus
<1>7. SumFunctionOnSet(paid, ids) \in Int /\ SumFunctionOnSet(out, ids) \in Int
  BY <1>1, SumInt
<1>8. SumFunctionOnSet(net, ids) = 0
  BY <1>2, <1>4, <1>5, <1>6, <1>7
<1> QED
  BY <1>8 DEF net

(* One row more. *)
OneMore(F, G, x) ==
  /\ IsFiniteSet(DOMAIN F) /\ x \notin DOMAIN F
  /\ DOMAIN G = DOMAIN F \union {x}
  /\ \A i \in DOMAIN F : G[i] = F[i]

LEMMA SettledMore ==
  ASSUME NEW S, NEW T, NEW x, OneMore(S, T, x), \A i \in DOMAIN T : T[i].amount \in Int, NEW u
  PROVE  /\ SettledOut(u, T) = SettledOut(u, S) + (IF T[x].from = u THEN T[x].amount ELSE 0)
         /\ SettledIn(u, T) = SettledIn(u, S) + (IF T[x].to = u THEN T[x].amount ELSE 0)
         /\ SettledOut(u, S) \in Int /\ SettledIn(u, S) \in Int
<1>1. /\ SettledOut(u, T) = SettledOut(u, S) + (IF T[x].from = u THEN T[x].amount ELSE 0)
      /\ SettledOut(u, S) \in Int
  <2> DEFINE D == {j \in DOMAIN S : S[j].from = u}
             C == {j \in DOMAIN T : T[j].from = u}
             f == [i \in D |-> S[i].amount]
             g == [i \in C |-> T[i].amount]
  <2>1. /\ SettledOut(u, S) = SumFunctionOnSet(f, D) /\ SettledOut(u, T) = SumFunctionOnSet(g, C)
    BY DEF SettledOut, SumFunction
  <2>2. /\ C = IF T[x].from = u THEN D \union {x} ELSE D
        /\ IsFiniteSet(D) /\ x \notin D
    BY FS_Subset DEF OneMore
  <2>3. /\ \A i \in D : f[i] = g[i] /\ f[i] \in Int
        /\ \A i \in C : g[i] = T[i].amount /\ g[i] \in Int
    BY <2>2 DEF OneMore
  <2> HIDE DEF f, g, C, D
  <2>4. SumFunctionOnSet(f, D) = SumFunctionOnSet(g, D) /\ SumFunctionOnSet(f, D) \in Int
    BY <2>2, <2>3, SumSame, SumInt
  <2>5. CASE T[x].from = u
    <3>1. SumFunctionOnSet(g, D \union {x}) = g[x] + SumFunctionOnSet(g, D)
      BY <2>2, <2>3, <2>5, SumAdd
    <3>2. x \in C /\ g[x] = T[x].amount /\ g[x] \in Int
      BY <2>2, <2>3, <2>5
    <3> QED
      BY <2>1, <2>2, <2>4, <2>5, <3>1, <3>2
  <2>6. CASE T[x].from # u
    BY <2>1, <2>2, <2>4, <2>6
  <2> QED
    BY <2>1, <2>4, <2>5, <2>6
<1>2. /\ SettledIn(u, T) = SettledIn(u, S) + (IF T[x].to = u THEN T[x].amount ELSE 0)
      /\ SettledIn(u, S) \in Int
  <2> DEFINE D == {j \in DOMAIN S : S[j].to = u}
             C == {j \in DOMAIN T : T[j].to = u}
             f == [i \in D |-> S[i].amount]
             g == [i \in C |-> T[i].amount]
  <2>1. /\ SettledIn(u, S) = SumFunctionOnSet(f, D) /\ SettledIn(u, T) = SumFunctionOnSet(g, C)
    BY DEF SettledIn, SumFunction
  <2>2. /\ C = IF T[x].to = u THEN D \union {x} ELSE D
        /\ IsFiniteSet(D) /\ x \notin D
    BY FS_Subset DEF OneMore
  <2>3. /\ \A i \in D : f[i] = g[i] /\ f[i] \in Int
        /\ \A i \in C : g[i] = T[i].amount /\ g[i] \in Int
    BY <2>2 DEF OneMore
  <2> HIDE DEF f, g, C, D
  <2>4. SumFunctionOnSet(f, D) = SumFunctionOnSet(g, D) /\ SumFunctionOnSet(f, D) \in Int
    BY <2>2, <2>3, SumSame, SumInt
  <2>5. CASE T[x].to = u
    <3>1. SumFunctionOnSet(g, D \union {x}) = g[x] + SumFunctionOnSet(g, D)
      BY <2>2, <2>3, <2>5, SumAdd
    <3>2. x \in C /\ g[x] = T[x].amount /\ g[x] \in Int
      BY <2>2, <2>3, <2>5
    <3> QED
      BY <2>1, <2>2, <2>4, <2>5, <3>1, <3>2
  <2>6. CASE T[x].to # u
    BY <2>1, <2>2, <2>4, <2>6
  <2> QED
    BY <2>1, <2>4, <2>5, <2>6
<1> QED
  BY <1>1, <1>2

LEMMA SharedMore ==
  ASSUME NEW E, NEW F, NEW x, OneMore(E, F, x), NEW u,
         \A i \in DOMAIN F : At(F[i].paid, u) \in Int /\ At(F[i].share, u) \in Int
  PROVE  /\ Paid(u, F) = Paid(u, E) + At(F[x].paid, u)
         /\ Share(u, F) = Share(u, E) + At(F[x].share, u)
         /\ Paid(u, E) \in Int /\ Share(u, E) \in Int
<1>1. Paid(u, F) = Paid(u, E) + At(F[x].paid, u) /\ Paid(u, E) \in Int
  <2> DEFINE D == DOMAIN E
             C == DOMAIN F
             f == [i \in D |-> At(E[i].paid, u)]
             g == [i \in C |-> At(F[i].paid, u)]
  <2>1. Paid(u, E) = SumFunctionOnSet(f, D) /\ Paid(u, F) = SumFunctionOnSet(g, C)
    BY DEF Paid, SumFunction
  <2>2. C = D \union {x} /\ IsFiniteSet(D) /\ x \notin D
    BY DEF OneMore
  <2>3. /\ \A i \in D : f[i] = g[i] /\ f[i] \in Int
        /\ \A i \in C : g[i] \in Int
        /\ g[x] = At(F[x].paid, u)
    BY <2>2 DEF OneMore
  <2> HIDE DEF f, g, C, D
  <2>4. SumFunctionOnSet(f, D) = SumFunctionOnSet(g, D) /\ SumFunctionOnSet(f, D) \in Int
    BY <2>2, <2>3, SumSame, SumInt
  <2>5. SumFunctionOnSet(g, D \union {x}) = g[x] + SumFunctionOnSet(g, D)
    BY <2>2, <2>3, SumAdd
  <2>6. g[x] \in Int
    BY <2>2, <2>3
  <2> QED
    BY <2>1, <2>2, <2>3, <2>4, <2>5, <2>6
<1>2. Share(u, F) = Share(u, E) + At(F[x].share, u) /\ Share(u, E) \in Int
  <2> DEFINE D == DOMAIN E
             C == DOMAIN F
             f == [i \in D |-> At(E[i].share, u)]
             g == [i \in C |-> At(F[i].share, u)]
  <2>1. Share(u, E) = SumFunctionOnSet(f, D) /\ Share(u, F) = SumFunctionOnSet(g, C)
    BY DEF Share, SumFunction
  <2>2. C = D \union {x} /\ IsFiniteSet(D) /\ x \notin D
    BY DEF OneMore
  <2>3. /\ \A i \in D : f[i] = g[i] /\ f[i] \in Int
        /\ \A i \in C : g[i] \in Int
        /\ g[x] = At(F[x].share, u)
    BY <2>2 DEF OneMore
  <2> HIDE DEF f, g, C, D
  <2>4. SumFunctionOnSet(f, D) = SumFunctionOnSet(g, D) /\ SumFunctionOnSet(f, D) \in Int
    BY <2>2, <2>3, SumSame, SumInt
  <2>5. SumFunctionOnSet(g, D \union {x}) = g[x] + SumFunctionOnSet(g, D)
    BY <2>2, <2>3, SumAdd
  <2>6. g[x] \in Int
    BY <2>2, <2>3
  <2> QED
    BY <2>1, <2>2, <2>3, <2>4, <2>5, <2>6
<1> QED
  BY <1>1, <1>2

-----------------------------------------------------------------------------
(* Pairwise debts. *)

LEMMA OfTwo ==
  ASSUME NEW a \in Int, NEW b \in Int
  PROVE  /\ Max({a, b}) = IF a >= b THEN a ELSE b
         /\ Min({a, b}) = IF a <= b THEN a ELSE b
<1>1. Max({a, b}) = IF a >= b THEN a ELSE b
  <2> DEFINE m == IF a >= b THEN a ELSE b
  <2>1. m \in {a, b} /\ \A y \in {a, b} : m >= y
    OBVIOUS
  <2>2. \A x \in {a, b} : (\A y \in {a, b} : x >= y) => x = m
    OBVIOUS
  <2> HIDE DEF m
  <2>3. (CHOOSE x \in {a, b} : \A y \in {a, b} : x >= y) = m
    BY <2>1, <2>2
  <2> QED
    BY <2>3 DEF Max, m
<1>2. Min({a, b}) = IF a <= b THEN a ELSE b
  <2> DEFINE m == IF a <= b THEN a ELSE b
  <2>1. m \in {a, b} /\ \A y \in {a, b} : m <= y
    OBVIOUS
  <2>2. \A x \in {a, b} : (\A y \in {a, b} : x <= y) => x = m
    OBVIOUS
  <2> HIDE DEF m
  <2>3. (CHOOSE x \in {a, b} : \A y \in {a, b} : x <= y) = m
    BY <2>1, <2>2
  <2> QED
    BY <2>3 DEF Min, m
<1> QED
  BY <1>1, <1>2

(* How much of the line up to x lies between a and b. *)
Clip(a, b, x) == IF x <= a THEN 0 ELSE IF x >= b THEN b - a ELSE x - a

LEMMA Overlap ==
  ASSUME NEW a \in Int, NEW b \in Int, a <= b, NEW s \in Int, NEW t \in Int, s <= t
  PROVE  /\ Max({0, Min({t, b}) - Max({s, a})}) = Clip(a, b, t) - Clip(a, b, s)
         /\ Max({0, Min({b, t}) - Max({a, s})}) = Clip(a, b, t) - Clip(a, b, s)
         /\ Max({0, Min({t, b}) - Max({s, a})}) \in Int
<1> DEFINE upto == IF t <= b THEN t ELSE b
           from == IF s >= a THEN s ELSE a
<1>1. Min({t, b}) = upto /\ Min({b, t}) = upto /\ Max({s, a}) = from /\ Max({a, s}) = from
  BY OfTwo
<1>2. upto - from \in Int /\ Max({0, upto - from}) = IF 0 >= upto - from THEN 0 ELSE upto - from
  <2>1. upto - from \in Int
    OBVIOUS
  <2> HIDE DEF upto, from
  <2> QED
    BY <2>1, OfTwo
<1>3. (IF 0 >= upto - from THEN 0 ELSE upto - from) = Clip(a, b, t) - Clip(a, b, s)
  BY DEF Clip
<1>4. (IF 0 >= upto - from THEN 0 ELSE upto - from) \in Int
  BY <1>2
<1> QED
  BY <1>1, <1>2, <1>3, <1>4

(* Finitely many numbers have a bound. *)
LEMMA FiniteBound ==
  ASSUME NEW D \in SUBSET Nat, IsFiniteSet(D)
  PROVE  \E n \in Nat : \A x \in D : x < n
<1> DEFINE G == {T \in SUBSET D : \E n \in Nat : \A x \in T : x < n}
<1>1. {} \in G
  OBVIOUS
<1>2. ASSUME NEW T \in SUBSET D, NEW x \in T, T \ {x} \in G PROVE T \in G
  <2>1. PICK n \in Nat : \A y \in T \ {x} : y < n
    BY <1>2
  <2>2. x \in Nat
    OBVIOUS
  <2>3. PICK m \in Nat : n <= m /\ x < m
    <3>1. n + x + 1 \in Nat /\ n <= n + x + 1 /\ x < n + x + 1
      BY <2>2
    <3> QED
      BY <3>1
  <2>4. \A y \in T : y < m
    BY <2>1, <2>3
  <2> QED
    BY <2>4
<1>3. D \in G
  <2> HIDE DEF G
  <2> QED
    BY <1>1, <1>2, SetInduction
<1> QED
  BY <1>3

(* Laid end to end, in their order, the parts of f cover the line from 0 to
   their total: between a and b lies b - a of them. *)
LEMMA Tiles ==
  ASSUME NEW f, IsFiniteSet(DOMAIN f), DOMAIN f \subseteq Nat, \A u \in DOMAIN f : f[u] \in Nat,
         NEW a \in Int, NEW b \in Int, 0 <= a, a <= b, b <= SumFunction(f),
         NEW c, \A u \in DOMAIN f : c[u] = Clip(a, b, Offset(f, u) + f[u]) - Clip(a, b, Offset(f, u))
  PROVE  SumFunctionOnSet(c, DOMAIN f) = b - a
<1> DEFINE D == DOMAIN f
           Below(n) == {v \in D : v < n}
           G == {n \in Nat : SumFunctionOnSet(c, Below(n)) = Clip(a, b, SumFunctionOnSet(f, Below(n)))}
<1>1. ASSUME NEW T \in SUBSET D
      PROVE  IsFiniteSet(T) /\ SumFunctionOnSet(f, T) \in Nat
  <2>1. IsFiniteSet(T) /\ \A u \in T : f[u] \in Nat
    BY FS_Subset
  <2> QED
    BY <2>1, SumNat
<1>2. \A n : Below(n) \in SUBSET D
  OBVIOUS
<1>3. \A x \in Nat : Clip(a, b, x) \in Int
  BY DEF Clip
<1>4. ASSUME NEW u \in D PROVE c[u] \in Int /\ f[u] \in Int /\ Offset(f, u) = SumFunctionOnSet(f, Below(u))
  <2>1. Offset(f, u) = SumFunctionOnSet(f, Below(u))
    BY DEF Offset
  <2>2. Offset(f, u) \in Nat /\ f[u] \in Nat /\ Offset(f, u) + f[u] \in Nat
    BY <1>1, <1>2, <2>1
  <2> QED
    BY <1>3, <2>1, <2>2
<1>5. 0 \in G
  <2>1. Below(0) = {}
    OBVIOUS
  <2>2. Clip(a, b, 0) = 0
    BY DEF Clip
  <2> HIDE DEF Below
  <2> QED
    BY <2>1, <2>2, SumEmpty
<1>6. ASSUME NEW n \in Nat, n \in G PROVE n + 1 \in G
  <2>1. CASE n \notin D
    <3>1. Below(n + 1) = Below(n)
      BY <2>1
    <3> HIDE DEF Below
    <3> QED
      BY <1>6, <3>1
  <2>2. CASE n \in D
    <3>1. Below(n + 1) = Below(n) \union {n} /\ n \notin Below(n)
      BY <2>2
    <3>2. IsFiniteSet(Below(n)) /\ SumFunctionOnSet(f, Below(n)) \in Nat
      BY <1>1
    <3>3. \A y \in Below(n) \union {n} : f[y] \in Int /\ c[y] \in Int
      BY <1>4, <2>2
    <3> HIDE DEF Below, D
    <3>4. SumFunctionOnSet(f, Below(n) \union {n}) = f[n] + SumFunctionOnSet(f, Below(n))
      BY <3>1, <3>2, <3>3, SumAdd
    <3>5. SumFunctionOnSet(c, Below(n) \union {n}) = c[n] + SumFunctionOnSet(c, Below(n))
      BY <3>1, <3>2, <3>3, SumAdd
    <3>6. Offset(f, n) = SumFunctionOnSet(f, Below(n)) /\ f[n] \in Nat
      BY <1>4, <2>2 DEF D
    <3>7. c[n] = Clip(a, b, Offset(f, n) + f[n]) - Clip(a, b, Offset(f, n))
      BY <2>2 DEF D
    <3>8. SumFunctionOnSet(c, Below(n)) = Clip(a, b, SumFunctionOnSet(f, Below(n)))
      BY <1>6
    <3> DEFINE k == SumFunctionOnSet(f, Below(n))
    <3>9. Clip(a, b, k) \in Int /\ Clip(a, b, k + f[n]) \in Int /\ f[n] + k = k + f[n]
      BY <1>3, <3>2, <3>6
    <3>10. SumFunctionOnSet(c, Below(n + 1)) = Clip(a, b, SumFunctionOnSet(f, Below(n + 1)))
      <4>1. c[n] = Clip(a, b, k + f[n]) - Clip(a, b, k) /\ SumFunctionOnSet(c, Below(n)) = Clip(a, b, k)
        BY <3>6, <3>7, <3>8
      <4>2. SumFunctionOnSet(f, Below(n + 1)) = k + f[n]
        BY <3>1, <3>4, <3>9
      <4> HIDE DEF k
      <4>3. c[n] + SumFunctionOnSet(c, Below(n)) = Clip(a, b, k + f[n])
        BY <3>9, <4>1
      <4> QED
        BY <3>1, <3>5, <4>2, <4>3
    <3> QED
      BY <3>10
  <2> QED
    BY <2>1, <2>2
<1>7. Nat \subseteq G
  <2> HIDE DEF G
  <2> QED
    BY <1>5, <1>6, NatInductionSet
<1>8. PICK n \in Nat : \A x \in D : x < n
  BY FiniteBound
<1>9. Below(n) = D
  BY <1>8
<1>10. SumFunctionOnSet(c, Below(n)) = Clip(a, b, SumFunctionOnSet(f, Below(n)))
  BY <1>7
<1>11. SumFunctionOnSet(f, D) = SumFunction(f) /\ SumFunction(f) \in Nat
  BY <1>1 DEF SumFunction
<1>12. SumFunctionOnSet(c, D) = Clip(a, b, SumFunction(f))
  <2> HIDE DEF Below, D
  <2> QED
    BY <1>9, <1>10, <1>11
<1>13. Clip(a, b, SumFunction(f)) = b - a
  BY <1>11 DEF Clip
<1> QED
  BY <1>12, <1>13

(* The parts before and up to one of them. *)
LEMMA OffsetFits ==
  ASSUME NEW f, IsFiniteSet(DOMAIN f), DOMAIN f \subseteq Nat, \A u \in DOMAIN f : f[u] \in Nat,
         NEW v \in DOMAIN f
  PROVE  Offset(f, v) \in Nat /\ Offset(f, v) + f[v] <= SumFunction(f)
<1> DEFINE D == DOMAIN f
           T == {w \in D : w < v}
<1>1. IsFiniteSet(T) /\ T \in SUBSET D /\ v \in Nat
  BY FS_Subset
<1>2. v \notin T /\ T \union {v} \in SUBSET D
  BY <1>1
<1>3. \A w \in D : f[w] \in Int /\ f[w] \in Nat
  OBVIOUS
<1>4. Offset(f, v) = SumFunctionOnSet(f, T)
  BY DEF Offset
<1> HIDE DEF T, D
<1>5. SumFunctionOnSet(f, T) \in Nat
  BY <1>1, <1>3, SumNat
<1>6. SumFunctionOnSet(f, T \union {v}) = f[v] + SumFunctionOnSet(f, T)
  BY <1>1, <1>2, <1>3, SumAdd
<1> DEFINE R == D \ (T \union {v})
<1>7. IsFiniteSet(R) /\ IsFiniteSet(D)
  BY FS_Subset DEF D
<1>8. SumFunctionOnSet(f, D) = SumFunctionOnSet(f, T \union {v}) + SumFunctionOnSet(f, R)
  BY <1>2, <1>3, <1>7, SumParts
<1>9. SumFunctionOnSet(f, R) \in Nat
  BY <1>3, <1>7, SumNat
<1>10. SumFunction(f) = SumFunctionOnSet(f, D) /\ f[v] \in Nat
  BY DEF SumFunction, D
<1> QED
  BY <1>4, <1>5, <1>6, <1>8, <1>9, <1>10

(* One expense: whoever shares in it owes all of the share, and whoever paid
   is owed all of the contribution. *)
LEMMA FillTiles ==
  ASSUME NEW e,
         IsFiniteSet(DOMAIN e.share), DOMAIN e.share \subseteq Nat, \A u \in DOMAIN e.share : e.share[u] \in Nat,
         IsFiniteSet(DOMAIN e.paid), DOMAIN e.paid \subseteq Nat, \A u \in DOMAIN e.paid : e.paid[u] \in Nat,
         SumFunction(e.share) = SumFunction(e.paid)
  PROVE  /\ \A u \in DOMAIN e.share, v \in DOMAIN e.paid : Fill(e, u, v) \in Int
         /\ \A v \in DOMAIN e.paid :
              SumFunctionOnSet([u \in DOMAIN e.share |-> Fill(e, u, v)], DOMAIN e.share) = e.paid[v]
         /\ \A u \in DOMAIN e.share :
              SumFunctionOnSet([v \in DOMAIN e.paid |-> Fill(e, u, v)], DOMAIN e.paid) = e.share[u]
<1> DEFINE f == e.share
           g == e.paid
<1>1. /\ IsFiniteSet(DOMAIN f) /\ DOMAIN f \subseteq Nat /\ \A u \in DOMAIN f : f[u] \in Nat
      /\ IsFiniteSet(DOMAIN g) /\ DOMAIN g \subseteq Nat /\ \A u \in DOMAIN g : g[u] \in Nat
      /\ SumFunction(f) = SumFunction(g)
  OBVIOUS
<1>2. \A u, v : Fill(e, u, v) = Max({0, Min({Offset(f, u) + f[u], Offset(g, v) + g[v]})
                                          - Max({Offset(f, u), Offset(g, v)})})
  BY DEF Fill
<1> HIDE DEF f, g
<1>3. \A u \in DOMAIN f : Offset(f, u) \in Nat /\ Offset(f, u) + f[u] <= SumFunction(f)
  BY <1>1, OffsetFits
<1>4. \A v \in DOMAIN g : Offset(g, v) \in Nat /\ Offset(g, v) + g[v] <= SumFunction(g)
  BY <1>1, OffsetFits
<1>5. ASSUME NEW u \in DOMAIN f, NEW v \in DOMAIN g
      PROVE  /\ Fill(e, u, v) = Clip(Offset(g, v), Offset(g, v) + g[v], Offset(f, u) + f[u])
                                  - Clip(Offset(g, v), Offset(g, v) + g[v], Offset(f, u))
             /\ Fill(e, u, v) = Clip(Offset(f, u), Offset(f, u) + f[u], Offset(g, v) + g[v])
                                  - Clip(Offset(f, u), Offset(f, u) + f[u], Offset(g, v))
             /\ Fill(e, u, v) \in Int
  <2> DEFINE s == Offset(f, u)
             t == Offset(f, u) + f[u]
             a == Offset(g, v)
             b == Offset(g, v) + g[v]
  <2>1. s \in Int /\ t \in Int /\ s <= t /\ a \in Int /\ b \in Int /\ a <= b
    BY <1>1, <1>3, <1>4
  <2>2. Fill(e, u, v) = Max({0, Min({t, b}) - Max({s, a})})
    BY <1>2
  <2> HIDE DEF s, t, a, b
  <2>3. /\ Max({0, Min({t, b}) - Max({s, a})}) = Clip(a, b, t) - Clip(a, b, s)
        /\ Max({0, Min({t, b}) - Max({s, a})}) \in Int
    BY <2>1, Overlap
  <2>4. Max({0, Min({t, b}) - Max({s, a})}) = Clip(s, t, b) - Clip(s, t, a)
    BY <2>1, Overlap
  <2> QED
    BY <2>2, <2>3, <2>4 DEF s, t, a, b
<1>6. ASSUME NEW v \in DOMAIN g
      PROVE  SumFunctionOnSet([u \in DOMAIN f |-> Fill(e, u, v)], DOMAIN f) = g[v]
  <2> DEFINE c == [u \in DOMAIN f |-> Fill(e, u, v)]
             a == Offset(g, v)
             b == Offset(g, v) + g[v]
  <2>1. a \in Int /\ b \in Int /\ 0 <= a /\ a <= b /\ b <= SumFunction(f)
    BY <1>1, <1>4
  <2>2. \A u \in DOMAIN f : c[u] = Clip(a, b, Offset(f, u) + f[u]) - Clip(a, b, Offset(f, u))
    BY <1>5
  <2>3. b - a = g[v]
    BY <1>1, <1>4
  <2> HIDE DEF c, a, b
  <2>4. SumFunctionOnSet(c, DOMAIN f) = b - a
    BY <1>1, <2>1, <2>2, Tiles
  <2> QED
    BY <2>3, <2>4 DEF c
<1>7. ASSUME NEW u \in DOMAIN f
      PROVE  SumFunctionOnSet([v \in DOMAIN g |-> Fill(e, u, v)], DOMAIN g) = f[u]
  <2> DEFINE c == [v \in DOMAIN g |-> Fill(e, u, v)]
             a == Offset(f, u)
             b == Offset(f, u) + f[u]
  <2>1. a \in Int /\ b \in Int /\ 0 <= a /\ a <= b /\ b <= SumFunction(g)
    BY <1>1, <1>3
  <2>2. \A v \in DOMAIN g : c[v] = Clip(a, b, Offset(g, v) + g[v]) - Clip(a, b, Offset(g, v))
    BY <1>5
  <2>3. b - a = f[u]
    BY <1>1, <1>3
  <2> HIDE DEF c, a, b
  <2>4. SumFunctionOnSet(c, DOMAIN g) = b - a
    BY <1>1, <2>1, <2>2, Tiles
  <2> QED
    BY <2>3, <2>4 DEF c
<1> QED
  BY <1>5, <1>6, <1>7 DEF f, g

(* What u owes v of expense e, and of settlement s. *)
Cell(e, u, v) == IF u \in DOMAIN e.share /\ v \in DOMAIN e.paid THEN Fill(e, u, v) ELSE 0

Back(s, u, v) == IF s.to = u /\ s.from = v THEN s.amount ELSE 0

(* What u owes v is the sum of the two over all rows. *)
LEMMA OwedByRow ==
  ASSUME NEW E, IsFiniteSet(DOMAIN E), NEW S, IsFiniteSet(DOMAIN S), NEW u, NEW v,
         \A i \in DOMAIN E : Cell(E[i], u, v) \in Int, \A i \in DOMAIN S : Back(S[i], u, v) \in Int
  PROVE  /\ Owed(u, v, E, S) = SumFunctionOnSet([i \in DOMAIN E |-> Cell(E[i], u, v)], DOMAIN E)
                                 + SumFunctionOnSet([i \in DOMAIN S |-> Back(S[i], u, v)], DOMAIN S)
         /\ Owed(u, v, E, S) \in Int
<1> DEFINE I == DOMAIN E
           J == DOMAIN S
           cell == [i \in I |-> Cell(E[i], u, v)]
           back == [i \in J |-> Back(S[i], u, v)]
           X == {j \in I : u \in DOMAIN E[j].share /\ v \in DOMAIN E[j].paid}
           Y == {j \in J : S[j].to = u /\ S[j].from = v}
           fill == [i \in X |-> Fill(E[i], u, v)]
           amount == [i \in Y |-> S[i].amount]
<1>1. /\ X \in SUBSET I /\ \A i \in I : cell[i] \in Int
      /\ \A i \in I \ X : cell[i] = 0
      /\ \A i \in X : fill[i] = cell[i]
  BY DEF Cell
<1>2. /\ Y \in SUBSET J /\ \A i \in J : back[i] \in Int
      /\ \A i \in J \ Y : back[i] = 0
      /\ \A i \in Y : amount[i] = back[i]
  BY DEF Back
<1>3. Owed(u, v, E, S) = SumFunctionOnSet(fill, X) + SumFunctionOnSet(amount, Y)
  BY DEF Owed, SumFunction
<1>4. IsFiniteSet(I) /\ IsFiniteSet(J) /\ IsFiniteSet(X) /\ IsFiniteSet(Y)
  BY <1>1, <1>2, FS_Subset
<1> HIDE DEF I, J, cell, back, X, Y, fill, amount
<1>5. SumFunctionOnSet(cell, I) = SumFunctionOnSet(cell, X) /\ SumFunctionOnSet(cell, I) \in Int
  BY <1>1, <1>4, SumOutside, SumInt
<1>6. SumFunctionOnSet(fill, X) = SumFunctionOnSet(cell, X)
  BY <1>1, <1>4, SumSame
<1>7. SumFunctionOnSet(back, J) = SumFunctionOnSet(back, Y) /\ SumFunctionOnSet(back, J) \in Int
  BY <1>2, <1>4, SumOutside, SumInt
<1>8. SumFunctionOnSet(amount, Y) = SumFunctionOnSet(back, Y)
  BY <1>2, <1>4, SumSame
<1>9. Owed(u, v, E, S) = SumFunctionOnSet(cell, I) + SumFunctionOnSet(back, J) /\ Owed(u, v, E, S) \in Int
  BY <1>3, <1>5, <1>6, <1>7, <1>8
<1> QED
  BY <1>9 DEF cell, back, I, J

(* An expense and a settlement that fit. *)
ExpenseFits(e, ids) ==
  /\ DOMAIN e.paid \subseteq ids /\ DOMAIN e.share \subseteq ids
  /\ \A u \in DOMAIN e.paid : e.paid[u] \in Nat
  /\ \A u \in DOMAIN e.share : e.share[u] \in Nat
  /\ SumFunction(e.paid) = SumFunction(e.share)

LEMMA CellSums ==
  ASSUME NEW ids, IsFiniteSet(ids), ids \subseteq Nat, NEW e, ExpenseFits(e, ids), NEW u \in ids
  PROVE  /\ \A v \in ids : Cell(e, u, v) \in Int /\ Cell(e, v, u) \in Int
         /\ SumFunctionOnSet([v \in ids |-> Cell(e, v, u)], ids) = At(e.paid, u)
         /\ SumFunctionOnSet([v \in ids |-> Cell(e, u, v)], ids) = At(e.share, u)
<1>1. /\ IsFiniteSet(DOMAIN e.share) /\ DOMAIN e.share \subseteq Nat /\ DOMAIN e.share \subseteq ids
      /\ \A w \in DOMAIN e.share : e.share[w] \in Nat
      /\ IsFiniteSet(DOMAIN e.paid) /\ DOMAIN e.paid \subseteq Nat /\ DOMAIN e.paid \subseteq ids
      /\ \A w \in DOMAIN e.paid : e.paid[w] \in Nat
      /\ SumFunction(e.share) = SumFunction(e.paid)
  BY FS_Subset DEF ExpenseFits
<1>2. /\ \A w \in DOMAIN e.share, v \in DOMAIN e.paid : Fill(e, w, v) \in Int
      /\ \A v \in DOMAIN e.paid :
           SumFunctionOnSet([w \in DOMAIN e.share |-> Fill(e, w, v)], DOMAIN e.share) = e.paid[v]
      /\ \A w \in DOMAIN e.share :
           SumFunctionOnSet([v \in DOMAIN e.paid |-> Fill(e, w, v)], DOMAIN e.paid) = e.share[w]
  BY <1>1, FillTiles
<1>3. \A v, w \in ids : Cell(e, v, w) \in Int
  BY <1>2 DEF Cell
<1>4. SumFunctionOnSet([v \in ids |-> Cell(e, v, u)], ids) = At(e.paid, u)
  <2> DEFINE f == [v \in ids |-> Cell(e, v, u)]
             D == DOMAIN e.share
             g == [v \in D |-> Fill(e, v, u)]
  <2>1. CASE u \in DOMAIN e.paid
    <3>1. /\ \A v \in ids : f[v] \in Int
          /\ \A v \in ids \ D : f[v] = 0
          /\ \A v \in D : f[v] = g[v]
          /\ D \in SUBSET ids /\ IsFiniteSet(D)
      BY <1>1, <1>3, <2>1 DEF Cell
    <3>2. SumFunctionOnSet(g, D) = e.paid[u]
      BY <1>2, <2>1
    <3> HIDE DEF f, g, D
    <3>3. SumFunctionOnSet(f, ids) = SumFunctionOnSet(f, D)
      BY <3>1, SumOutside
    <3>4. SumFunctionOnSet(f, D) = SumFunctionOnSet(g, D)
      BY <3>1, SumSame
    <3> QED
      BY <2>1, <3>2, <3>3, <3>4 DEF f, At
  <2>2. CASE u \notin DOMAIN e.paid
    <3>1. \A v \in ids : f[v] = 0
      BY <2>2 DEF Cell
    <3> HIDE DEF f
    <3>2. SumFunctionOnSet(f, ids) = 0
      BY <3>1, SumZero
    <3> QED
      BY <2>2, <3>2 DEF f, At
  <2> QED
    BY <2>1, <2>2
<1>5. SumFunctionOnSet([v \in ids |-> Cell(e, u, v)], ids) = At(e.share, u)
  <2> DEFINE f == [v \in ids |-> Cell(e, u, v)]
             D == DOMAIN e.paid
             g == [v \in D |-> Fill(e, u, v)]
  <2>1. CASE u \in DOMAIN e.share
    <3>1. /\ \A v \in ids : f[v] \in Int
          /\ \A v \in ids \ D : f[v] = 0
          /\ \A v \in D : f[v] = g[v]
          /\ D \in SUBSET ids /\ IsFiniteSet(D)
      BY <1>1, <1>3, <2>1 DEF Cell
    <3>2. SumFunctionOnSet(g, D) = e.share[u]
      BY <1>2, <2>1
    <3> HIDE DEF f, g, D
    <3>3. SumFunctionOnSet(f, ids) = SumFunctionOnSet(f, D)
      BY <3>1, SumOutside
    <3>4. SumFunctionOnSet(f, D) = SumFunctionOnSet(g, D)
      BY <3>1, SumSame
    <3> QED
      BY <2>1, <3>2, <3>3, <3>4 DEF f, At
  <2>2. CASE u \notin DOMAIN e.share
    <3>1. \A v \in ids : f[v] = 0
      BY <2>2 DEF Cell
    <3> HIDE DEF f
    <3>2. SumFunctionOnSet(f, ids) = 0
      BY <3>1, SumZero
    <3> QED
      BY <2>2, <3>2 DEF f, At
  <2> QED
    BY <2>1, <2>2
<1> QED
  BY <1>3, <1>4, <1>5

LEMMA BackSums ==
  ASSUME NEW ids, IsFiniteSet(ids), NEW s, s.amount \in Int, s.from \in ids, s.to \in ids, NEW u \in ids
  PROVE  /\ \A v \in ids : Back(s, u, v) \in Int /\ Back(s, v, u) \in Int
         /\ SumFunctionOnSet([v \in ids |-> Back(s, v, u)], ids) = IF s.from = u THEN s.amount ELSE 0
         /\ SumFunctionOnSet([v \in ids |-> Back(s, u, v)], ids) = IF s.to = u THEN s.amount ELSE 0
<1>1. \A v, w \in ids : Back(s, v, w) \in Int
  BY DEF Back
<1>2. SumFunctionOnSet([v \in ids |-> Back(s, v, u)], ids) = IF s.from = u THEN s.amount ELSE 0
  <2> DEFINE f == [v \in ids |-> Back(s, v, u)]
             x == s.to
  <2>1. x \in ids /\ f[x] \in Int /\ \A y \in ids \ {x} : f[y] = 0
    BY DEF Back
  <2>2. f[x] = IF s.from = u THEN s.amount ELSE 0
    BY DEF Back
  <2> HIDE DEF f, x
  <2>3. SumFunctionOnSet(f, ids) = f[x]
    BY <2>1, SumSingle
  <2> QED
    BY <2>2, <2>3 DEF f
<1>3. SumFunctionOnSet([v \in ids |-> Back(s, u, v)], ids) = IF s.to = u THEN s.amount ELSE 0
  <2> DEFINE f == [v \in ids |-> Back(s, u, v)]
             x == s.from
  <2>1. x \in ids /\ f[x] \in Int /\ \A y \in ids \ {x} : f[y] = 0
    BY DEF Back
  <2>2. f[x] = IF s.to = u THEN s.amount ELSE 0
    BY DEF Back
  <2> HIDE DEF f, x
  <2>3. SumFunctionOnSet(f, ids) = f[x]
    BY <2>1, SumSingle
  <2> QED
    BY <2>2, <2>3 DEF f
<1> QED
  BY <1>1, <1>2, <1>3

(* What a user sent and received, as sums over all settlements. *)
LEMMA SettledByRow ==
  ASSUME NEW S, IsFiniteSet(DOMAIN S), \A i \in DOMAIN S : S[i].amount \in Int, NEW u
  PROVE  /\ SettledOut(u, S)
              = SumFunctionOnSet([i \in DOMAIN S |-> IF S[i].from = u THEN S[i].amount ELSE 0], DOMAIN S)
         /\ SettledIn(u, S)
              = SumFunctionOnSet([i \in DOMAIN S |-> IF S[i].to = u THEN S[i].amount ELSE 0], DOMAIN S)
<1> DEFINE I == DOMAIN S
<1>1. SettledOut(u, S) = SumFunctionOnSet([i \in I |-> IF S[i].from = u THEN S[i].amount ELSE 0], I)
  <2> DEFINE T == {i \in I : S[i].from = u}
             f == [i \in T |-> S[i].amount]
             g == [i \in I |-> IF S[i].from = u THEN S[i].amount ELSE 0]
  <2>1. /\ IsFiniteSet(T) /\ T \in SUBSET I /\ (\A i \in I : g[i] \in Int)
        /\ (\A i \in I \ T : g[i] = 0) /\ \A i \in T : f[i] = g[i]
    BY FS_Subset
  <2>2. SettledOut(u, S) = SumFunctionOnSet(f, T) /\ IsFiniteSet(I)
    BY DEF SettledOut, SumFunction
  <2> HIDE DEF f, g, T, I
  <2>3. SumFunctionOnSet(f, T) = SumFunctionOnSet(g, T)
    BY <2>1, SumSame
  <2>4. SumFunctionOnSet(g, I) = SumFunctionOnSet(g, T)
    BY <2>1, <2>2, SumOutside
  <2> QED
    BY <2>2, <2>3, <2>4 DEF g
<1>2. SettledIn(u, S) = SumFunctionOnSet([i \in I |-> IF S[i].to = u THEN S[i].amount ELSE 0], I)
  <2> DEFINE T == {i \in I : S[i].to = u}
             f == [i \in T |-> S[i].amount]
             g == [i \in I |-> IF S[i].to = u THEN S[i].amount ELSE 0]
  <2>1. /\ IsFiniteSet(T) /\ T \in SUBSET I /\ (\A i \in I : g[i] \in Int)
        /\ (\A i \in I \ T : g[i] = 0) /\ \A i \in T : f[i] = g[i]
    BY FS_Subset
  <2>2. SettledIn(u, S) = SumFunctionOnSet(f, T) /\ IsFiniteSet(I)
    BY DEF SettledIn, SumFunction
  <2> HIDE DEF f, g, T, I
  <2>3. SumFunctionOnSet(f, T) = SumFunctionOnSet(g, T)
    BY <2>1, SumSame
  <2>4. SumFunctionOnSet(g, I) = SumFunctionOnSet(g, T)
    BY <2>1, <2>2, SumOutside
  <2> QED
    BY <2>2, <2>3, <2>4 DEF g
<1> QED
  BY <1>1, <1>2

(* Everybody's debts to u are what u paid and sent; his debts to everybody
   are his shares and what he received. *)
LEMMA OwedTotals ==
  ASSUME NEW ids, IsFiniteSet(ids), ids \subseteq Nat, NEW E, ExpensesFit(E, ids),
         NEW S, SettlementsFit(S, ids), NEW u \in ids
  PROVE  /\ \A v \in ids : Owed(u, v, E, S) \in Int /\ Owed(v, u, E, S) \in Int
         /\ SumFunctionOnSet([v \in ids |-> Owed(v, u, E, S)], ids) = Paid(u, E) + SettledOut(u, S)
         /\ SumFunctionOnSet([v \in ids |-> Owed(u, v, E, S)], ids) = Share(u, E) + SettledIn(u, S)
<1> DEFINE I == DOMAIN E
           J == DOMAIN S
<1>1. IsFiniteSet(I) /\ IsFiniteSet(J) /\ \A i \in I : ExpenseFits(E[i], ids)
  BY DEF ExpensesFit, SettlementsFit, ExpenseFits
<1>2. \A i \in J : S[i].amount \in Int /\ S[i].from \in ids /\ S[i].to \in ids
  BY DEF SettlementsFit
<1>3. \A i \in I, v, w \in ids : Cell(E[i], v, w) \in Int
  BY <1>1, CellSums
<1>4. \A i \in J, v, w \in ids : Back(S[i], v, w) \in Int
  BY <1>2, BackSums
<1>5. ASSUME NEW v \in ids, NEW w \in ids
      PROVE  /\ Owed(v, w, E, S) = SumFunctionOnSet([i \in I |-> Cell(E[i], v, w)], I)
                                     + SumFunctionOnSet([i \in J |-> Back(S[i], v, w)], J)
             /\ Owed(v, w, E, S) \in Int
  BY <1>1, <1>3, <1>4, OwedByRow
<1>6. ASSUME NEW v \in ids, NEW w \in ids
      PROVE  /\ SumFunctionOnSet([i \in I |-> Cell(E[i], v, w)], I) \in Int
             /\ SumFunctionOnSet([i \in J |-> Back(S[i], v, w)], J) \in Int
  <2> DEFINE f == [i \in I |-> Cell(E[i], v, w)]
             g == [i \in J |-> Back(S[i], v, w)]
  <2>1. (\A i \in I : f[i] \in Int) /\ \A i \in J : g[i] \in Int
    BY <1>3, <1>4
  <2> HIDE DEF f, g
  <2> QED
    BY <1>1, <2>1, SumInt DEF f, g
<1>7. SumFunctionOnSet([v \in ids |-> Owed(v, u, E, S)], ids) = Paid(u, E) + SettledOut(u, S)
  <2> DEFINE lent == [v \in ids |-> SumFunctionOnSet([i \in I |-> Cell(E[i], v, u)], I)]
             sent == [v \in ids |-> SumFunctionOnSet([i \in J |-> Back(S[i], v, u)], J)]
             owed == [v \in ids |-> Owed(v, u, E, S)]
             paid == [i \in I |-> At(E[i].paid, u)]
             out == [i \in J |-> IF S[i].from = u THEN S[i].amount ELSE 0]
             m == [v \in ids |-> [i \in I |-> Cell(E[i], v, u)]]
             mT == [i \in I |-> [v \in ids |-> Cell(E[i], v, u)]]
             n == [v \in ids |-> [i \in J |-> Back(S[i], v, u)]]
             nT == [i \in J |-> [v \in ids |-> Back(S[i], v, u)]]
  <2>1. \A v \in ids : lent[v] \in Int /\ sent[v] \in Int /\ owed[v] = lent[v] + sent[v]
    BY <1>5, <1>6
  <2>2. Table(m, mT, lent, paid, ids, I)
    <3>1. \A v \in ids : \A i \in I : m[v][i] \in Int /\ mT[i][v] = m[v][i]
      BY <1>3
    <3>2. \A v \in ids : lent[v] = SumFunctionOnSet(m[v], I)
      OBVIOUS
    <3>3. \A i \in I : paid[i] = SumFunctionOnSet(mT[i], ids)
      BY <1>1, CellSums
    <3> HIDE DEF m, mT, lent, paid, I
    <3> QED
      BY <3>1, <3>2, <3>3 DEF Table
  <2>3. Table(n, nT, sent, out, ids, J)
    <3>1. \A v \in ids : \A i \in J : n[v][i] \in Int /\ nT[i][v] = n[v][i]
      BY <1>4
    <3>2. \A v \in ids : sent[v] = SumFunctionOnSet(n[v], J)
      OBVIOUS
    <3>3. \A i \in J : out[i] = SumFunctionOnSet(nT[i], ids)
      BY <1>2, BackSums
    <3> HIDE DEF n, nT, sent, out, J
    <3> QED
      BY <3>1, <3>2, <3>3 DEF Table
  <2>4. SumFunctionOnSet(paid, I) = Paid(u, E)
    BY DEF Paid, SumFunction
  <2>5. SumFunctionOnSet(out, J) = SettledOut(u, S)
    BY <1>1, <1>2, SettledByRow
  <2> HIDE DEF lent, sent, owed, paid, out, m, mT, n, nT, I, J
  <2>6. SumFunctionOnSet(lent, ids) = SumFunctionOnSet(paid, I)
    BY <1>1, <2>2, SumSwap
  <2>7. SumFunctionOnSet(sent, ids) = SumFunctionOnSet(out, J)
    BY <1>1, <2>3, SumSwap
  <2>8. SumFunctionOnSet(owed, ids) = SumFunctionOnSet(lent, ids) + SumFunctionOnSet(sent, ids)
    BY <2>1, SumPlus
  <2>9. SumFunctionOnSet(owed, ids) = Paid(u, E) + SettledOut(u, S)
    BY <2>4, <2>5, <2>6, <2>7, <2>8
  <2> QED
    BY <2>9 DEF owed
<1>8. SumFunctionOnSet([v \in ids |-> Owed(u, v, E, S)], ids) = Share(u, E) + SettledIn(u, S)
  <2> DEFINE shared == [v \in ids |-> SumFunctionOnSet([i \in I |-> Cell(E[i], u, v)], I)]
             got == [v \in ids |-> SumFunctionOnSet([i \in J |-> Back(S[i], u, v)], J)]
             owed == [v \in ids |-> Owed(u, v, E, S)]
             share == [i \in I |-> At(E[i].share, u)]
             in == [i \in J |-> IF S[i].to = u THEN S[i].amount ELSE 0]
             m == [v \in ids |-> [i \in I |-> Cell(E[i], u, v)]]
             mT == [i \in I |-> [v \in ids |-> Cell(E[i], u, v)]]
             n == [v \in ids |-> [i \in J |-> Back(S[i], u, v)]]
             nT == [i \in J |-> [v \in ids |-> Back(S[i], u, v)]]
  <2>1. \A v \in ids : shared[v] \in Int /\ got[v] \in Int /\ owed[v] = shared[v] + got[v]
    BY <1>5, <1>6
  <2>2. Table(m, mT, shared, share, ids, I)
    <3>1. \A v \in ids : \A i \in I : m[v][i] \in Int /\ mT[i][v] = m[v][i]
      BY <1>3
    <3>2. \A v \in ids : shared[v] = SumFunctionOnSet(m[v], I)
      OBVIOUS
    <3>3. \A i \in I : share[i] = SumFunctionOnSet(mT[i], ids)
      BY <1>1, CellSums
    <3> HIDE DEF m, mT, shared, share, I
    <3> QED
      BY <3>1, <3>2, <3>3 DEF Table
  <2>3. Table(n, nT, got, in, ids, J)
    <3>1. \A v \in ids : \A i \in J : n[v][i] \in Int /\ nT[i][v] = n[v][i]
      BY <1>4
    <3>2. \A v \in ids : got[v] = SumFunctionOnSet(n[v], J)
      OBVIOUS
    <3>3. \A i \in J : in[i] = SumFunctionOnSet(nT[i], ids)
      BY <1>2, BackSums
    <3> HIDE DEF n, nT, got, in, J
    <3> QED
      BY <3>1, <3>2, <3>3 DEF Table
  <2>4. SumFunctionOnSet(share, I) = Share(u, E)
    BY DEF Share, SumFunction
  <2>5. SumFunctionOnSet(in, J) = SettledIn(u, S)
    BY <1>1, <1>2, SettledByRow
  <2> HIDE DEF shared, got, owed, share, in, m, mT, n, nT, I, J
  <2>6. SumFunctionOnSet(shared, ids) = SumFunctionOnSet(share, I)
    BY <1>1, <2>2, SumSwap
  <2>7. SumFunctionOnSet(got, ids) = SumFunctionOnSet(in, J)
    BY <1>1, <2>3, SumSwap
  <2>8. SumFunctionOnSet(owed, ids) = SumFunctionOnSet(shared, ids) + SumFunctionOnSet(got, ids)
    BY <2>1, SumPlus
  <2>9. SumFunctionOnSet(owed, ids) = Share(u, E) + SettledIn(u, S)
    BY <2>4, <2>5, <2>6, <2>7, <2>8
  <2> QED
    BY <2>9 DEF owed
<1> QED
  BY <1>5, <1>7, <1>8

Amounts(T) == SumFunction([t \in T |-> t.amount])

(* What others owe u more than u owes them, split by its sign. *)
Differences(E, S, u, ids, d, pos, neg) ==
  \A v \in ids :
    /\ Owed(v, u, E, S) \in Int /\ Owed(u, v, E, S) \in Int
    /\ d[v] = Owed(v, u, E, S) - Owed(u, v, E, S)
    /\ pos[v] = IF v # u /\ d[v] > 0 THEN d[v] ELSE 0
    /\ neg[v] = IF v # u /\ d[v] < 0 THEN -d[v] ELSE 0

DebtSums(E, S, u, ids, pos, neg) ==
  /\ Amounts({t \in PairwiseDebts(E, S) : t.to = u}) = SumFunctionOnSet(pos, ids)
  /\ Amounts({t \in PairwiseDebts(E, S) : t.from = u}) = SumFunctionOnSet(neg, ids)

(* The debts that end at u, and those that start there, over the users they
   come from and go to. *)
LEMMA DebtsOf ==
  ASSUME NEW E, NEW S, NEW ids, ids = Appearing(E, S), IsFiniteSet(ids), NEW u \in ids,
         NEW d, NEW pos, NEW neg, Differences(E, S, u, ids, d, pos, neg)
  PROVE  DebtSums(E, S, u, ids, pos, neg)
<1> DEFINE P == {v \in ids \ {u} : d[v] > 0}
           Q == {v \in ids \ {u} : d[v] < 0}
           net(v, w) == Owed(v, w, E, S) - Owed(w, v, E, S)
           debts == {[from |-> p[1], to |-> p[2], amount |-> net(p[1], p[2])] :
                       p \in {q \in ids \X ids : q[1] # q[2] /\ net(q[1], q[2]) > 0}}
           To == {t \in debts : t.to = u}
           From == {t \in debts : t.from = u}
<1>1. PairwiseDebts(E, S) = debts
  BY DEF PairwiseDebts
<1>2. \A v \in ids : d[v] = net(v, u) /\ -d[v] = net(u, v) /\ d[v] \in Int
  BY DEF Differences
<1>3. P \in SUBSET ids /\ Q \in SUBSET ids /\ IsFiniteSet(P) /\ IsFiniteSet(Q)
  BY FS_Subset
<1>4. Amounts(To) = SumFunctionOnSet(pos, ids)
  <2> DEFINE k == [v \in P |-> [from |-> v, to |-> u, amount |-> d[v]]]
             g == [t \in To |-> t.amount]
  <2>1. \A v \in P : k[v] \in To
    <3> SUFFICES ASSUME NEW v \in P PROVE k[v] \in To
      OBVIOUS
    <3>1. <<v, u>> \in {q \in ids \X ids : q[1] # q[2] /\ net(q[1], q[2]) > 0}
      BY <1>2
    <3>2. k[v] = [from |-> v, to |-> u, amount |-> net(v, u)]
      BY <1>2
    <3>3. k[v] \in debts
      BY <3>1, <3>2
    <3>4. k[v].to = u
      OBVIOUS
    <3> QED
      BY <3>3, <3>4
  <2>2. \A x, y \in P : k[x] = k[y] => x = y
    <3>1. \A x \in P : k[x].from = x
      OBVIOUS
    <3> HIDE DEF k
    <3> QED
      BY <3>1
  <2>3. ASSUME NEW z \in To PROVE \E x \in P : k[x] = z
    <3>1. PICK q \in ids \X ids : /\ q[1] # q[2] /\ net(q[1], q[2]) > 0
                                  /\ z = [from |-> q[1], to |-> q[2], amount |-> net(q[1], q[2])]
      OBVIOUS
    <3>2. q[2] = u /\ q[1] \in ids \ {u}
      BY <3>1
    <3>3. q[1] \in P /\ d[q[1]] = net(q[1], q[2])
      BY <1>2, <3>1, <3>2
    <3> HIDE DEF net, P
    <3>4. k[q[1]] = [from |-> q[1], to |-> u, amount |-> d[q[1]]]
      BY <3>3
    <3> QED
      BY <3>1, <3>2, <3>3, <3>4
  <2>4. k \in [P -> To]
    BY <2>1
  <2>5. \A x \in P : pos[x] \in Int /\ pos[x] = g[k[x]]
    <3>1. \A x \in P : pos[x] = d[x] /\ d[x] \in Int /\ k[x].amount = d[x]
      BY <1>2 DEF Differences
    <3>2. \A t \in To : g[t] = t.amount
      OBVIOUS
    <3> HIDE DEF g, k, To
    <3> QED
      BY <2>1, <3>1, <3>2
  <2>6. (\A v \in ids : pos[v] \in Int) /\ \A v \in ids \ P : pos[v] = 0
    BY <1>2 DEF Differences
  <2>7. Amounts(To) = SumFunctionOnSet(g, To)
    BY DEF Amounts, SumFunction
  <2> HIDE DEF k, g, To, From, P, Q, debts, net
  <2>8. SumFunctionOnSet(pos, P) = SumFunctionOnSet(g, To)
    BY <1>3, <2>2, <2>3, <2>4, <2>5, SumRenamed
  <2>9. SumFunctionOnSet(pos, ids) = SumFunctionOnSet(pos, P)
    BY <1>3, <2>6, SumOutside
  <2> QED
    BY <2>7, <2>8, <2>9
<1>5. Amounts(From) = SumFunctionOnSet(neg, ids)
  <2> DEFINE k == [v \in Q |-> [from |-> u, to |-> v, amount |-> -d[v]]]
             g == [t \in From |-> t.amount]
  <2>1. \A v \in Q : k[v] \in From
    <3> SUFFICES ASSUME NEW v \in Q PROVE k[v] \in From
      OBVIOUS
    <3>1. <<u, v>> \in {q \in ids \X ids : q[1] # q[2] /\ net(q[1], q[2]) > 0}
      BY <1>2
    <3>2. k[v] = [from |-> u, to |-> v, amount |-> net(u, v)]
      BY <1>2
    <3>3. k[v] \in debts
      BY <3>1, <3>2
    <3>4. k[v].from = u
      OBVIOUS
    <3> QED
      BY <3>3, <3>4
  <2>2. \A x, y \in Q : k[x] = k[y] => x = y
    <3>1. \A x \in Q : k[x].to = x
      OBVIOUS
    <3> HIDE DEF k
    <3> QED
      BY <3>1
  <2>3. ASSUME NEW z \in From PROVE \E x \in Q : k[x] = z
    <3>1. PICK q \in ids \X ids : /\ q[1] # q[2] /\ net(q[1], q[2]) > 0
                                  /\ z = [from |-> q[1], to |-> q[2], amount |-> net(q[1], q[2])]
      OBVIOUS
    <3>2. q[1] = u /\ q[2] \in ids \ {u}
      BY <3>1
    <3>3. q[2] \in Q /\ -d[q[2]] = net(q[1], q[2])
      BY <1>2, <3>1, <3>2
    <3> HIDE DEF net, Q
    <3>4. k[q[2]] = [from |-> u, to |-> q[2], amount |-> -d[q[2]]]
      BY <3>3
    <3> QED
      BY <3>1, <3>2, <3>3, <3>4
  <2>4. k \in [Q -> From]
    BY <2>1
  <2>5. \A x \in Q : neg[x] \in Int /\ neg[x] = g[k[x]]
    <3>1. \A x \in Q : neg[x] = -d[x] /\ -d[x] \in Int /\ k[x].amount = -d[x]
      BY <1>2 DEF Differences
    <3>2. \A t \in From : g[t] = t.amount
      OBVIOUS
    <3> HIDE DEF g, k, From
    <3> QED
      BY <2>1, <3>1, <3>2
  <2>6. (\A v \in ids : neg[v] \in Int) /\ \A v \in ids \ Q : neg[v] = 0
    BY <1>2 DEF Differences
  <2>7. Amounts(From) = SumFunctionOnSet(g, From)
    BY DEF Amounts, SumFunction
  <2> HIDE DEF k, g, To, From, P, Q, debts, net
  <2>8. SumFunctionOnSet(neg, Q) = SumFunctionOnSet(g, From)
    BY <1>3, <2>2, <2>3, <2>4, <2>5, SumRenamed
  <2>9. SumFunctionOnSet(neg, ids) = SumFunctionOnSet(neg, Q)
    BY <1>3, <2>6, SumOutside
  <2> QED
    BY <2>7, <2>8, <2>9
<1> QED
  BY <1>1, <1>4, <1>5 DEF DebtSums

(* The pairwise debts of a user add up to the net balance. *)
LEMMA PairwiseTotals ==
  ASSUME NEW E, NEW S, NEW ids, ids = Appearing(E, S), IsFiniteSet(ids), ids \subseteq Nat,
         ExpensesFit(E, ids), SettlementsFit(S, ids), NEW u \in ids
  PROVE  Amounts({t \in PairwiseDebts(E, S) : t.to = u})
           - Amounts({t \in PairwiseDebts(E, S) : t.from = u}) = UserNet(u, E, S)
<1> DEFINE d == [v \in ids |-> Owed(v, u, E, S) - Owed(u, v, E, S)]
           lent == [v \in ids |-> Owed(v, u, E, S)]
           owes == [v \in ids |-> Owed(u, v, E, S)]
           pos == [v \in ids |-> IF v # u /\ d[v] > 0 THEN d[v] ELSE 0]
           neg == [v \in ids |-> IF v # u /\ d[v] < 0 THEN -d[v] ELSE 0]
<1>1. /\ \A v \in ids : Owed(u, v, E, S) \in Int /\ Owed(v, u, E, S) \in Int
      /\ SumFunctionOnSet(lent, ids) = Paid(u, E) + SettledOut(u, S)
      /\ SumFunctionOnSet(owes, ids) = Share(u, E) + SettledIn(u, S)
  BY OwedTotals
<1>2. \A v \in ids : /\ lent[v] \in Int /\ owes[v] \in Int /\ d[v] = lent[v] - owes[v]
                     /\ d[v] \in Int /\ d[v] = Owed(v, u, E, S) - Owed(u, v, E, S)
  BY <1>1
<1>3. d[u] = 0
  BY <1>1
<1>4. \A v \in ids : pos[v] \in Int /\ neg[v] \in Int /\ d[v] = pos[v] - neg[v]
  BY <1>2, <1>3
<1>5. /\ Paid(u, E) \in Int /\ Share(u, E) \in Int /\ SettledOut(u, S) \in Int /\ SettledIn(u, S) \in Int
  BY AggregatesAreIntegers
<1>6. /\ Amounts({t \in PairwiseDebts(E, S) : t.to = u}) = SumFunctionOnSet(pos, ids)
      /\ Amounts({t \in PairwiseDebts(E, S) : t.from = u}) = SumFunctionOnSet(neg, ids)
  <2>1. Differences(E, S, u, ids, d, pos, neg)
    BY <1>1 DEF Differences
  <2> HIDE DEF d, pos, neg
  <2>2. DebtSums(E, S, u, ids, pos, neg)
    BY <2>1, DebtsOf
  <2> QED
    BY <2>2 DEF DebtSums
<1> HIDE DEF d, lent, owes, pos, neg
<1>7. SumFunctionOnSet(d, ids) = SumFunctionOnSet(lent, ids) - SumFunctionOnSet(owes, ids)
  <2>1. \A v \in ids : lent[v] \in Int /\ owes[v] \in Int /\ d[v] = lent[v] - owes[v]
    BY <1>2
  <2> QED
    BY <2>1, SumMinus
<1>8. SumFunctionOnSet(d, ids) = SumFunctionOnSet(pos, ids) - SumFunctionOnSet(neg, ids)
  BY <1>4, SumMinus
<1> QED
  BY <1>1, <1>5, <1>6, <1>7, <1>8 DEF UserNet

(* Who appears in no row owes nothing and is owed nothing. *)
LEMMA AbsentTotals ==
  ASSUME NEW E, NEW S, IsFiniteSet(DOMAIN E), IsFiniteSet(DOMAIN S), NEW u, u \notin Appearing(E, S)
  PROVE  /\ Amounts({t \in PairwiseDebts(E, S) : t.to = u}) = 0
         /\ Amounts({t \in PairwiseDebts(E, S) : t.from = u}) = 0
         /\ UserNet(u, E, S) = 0
<1>1. Amounts({}) = 0
  BY SumEmpty DEF Amounts, SumFunction
<1>2. {t \in PairwiseDebts(E, S) : t.to = u} = {} /\ {t \in PairwiseDebts(E, S) : t.from = u} = {}
  BY DEF PairwiseDebts
<1>3. /\ \A i \in DOMAIN E : u \notin DOMAIN E[i].paid /\ u \notin DOMAIN E[i].share
      /\ \A i \in DOMAIN S : S[i].from # u /\ S[i].to # u
  BY DEF Appearing
<1>4. Paid(u, E) = 0
  <2> DEFINE f == [i \in DOMAIN E |-> At(E[i].paid, u)]
  <2>1. DOMAIN f = DOMAIN E /\ \A i \in DOMAIN E : f[i] = 0
    BY <1>3 DEF At
  <2> HIDE DEF f
  <2> QED
    BY <2>1, SumZero DEF f, Paid, SumFunction
<1>5. Share(u, E) = 0
  <2> DEFINE f == [i \in DOMAIN E |-> At(E[i].share, u)]
  <2>1. DOMAIN f = DOMAIN E /\ \A i \in DOMAIN E : f[i] = 0
    BY <1>3 DEF At
  <2> HIDE DEF f
  <2> QED
    BY <2>1, SumZero DEF f, Share, SumFunction
<1>6. SettledOut(u, S) = 0 /\ SettledIn(u, S) = 0
  <2>1. {j \in DOMAIN S : S[j].from = u} = {} /\ {j \in DOMAIN S : S[j].to = u} = {}
    BY <1>3
  <2> QED
    BY <2>1, SumEmpty DEF SettledOut, SettledIn, SumFunction
<1> QED
  BY <1>1, <1>2, <1>4, <1>5, <1>6 DEF UserNet
=============================================================================
