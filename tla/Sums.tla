-------------------------------- MODULE Sums --------------------------------
(***************************************************************************)
(* Sums over finite sets: SumFunctionOnSet of the community modules, for   *)
(* every finite set and every function with integer values.                *)
(***************************************************************************)
EXTENDS Integers, FiniteSets, Functions, FiniteSetTheorems, TLAPS

-----------------------------------------------------------------------------
(* Induction, over sets of sets and sets of numbers. *)

(* Whatever belongs to G as soon as all that lacks one element of it does. *)
LEMMA StrongSetInduction ==
  ASSUME NEW S, IsFiniteSet(S), NEW G,
         \A T \in SUBSET S : (\A x \in T : T \ {x} \in G) => T \in G
  PROVE  S \in G
<1>1. SUFFICES ASSUME S \notin G PROVE FALSE
  OBVIOUS
<1> DEFINE Bad == {T \in SUBSET S : T \notin G}
<1>2. Bad # {} /\ Bad \subseteq FiniteSubsetsOf(S)
  BY <1>1, FS_FiniteSubsetsOfFinite
<1>3. IsWellFoundedOn(StrictSubsetOrdering(S), FiniteSubsetsOf(S))
  BY FS_StrictSubsetOrderingWellFounded
<1>4. PICK T \in Bad : \A U \in Bad : <<U, T>> \notin StrictSubsetOrdering(S)
  <2> HIDE DEF Bad
  <2> QED
    BY <1>2, <1>3, WFMin
<1>5. PICK x \in T : T \ {x} \notin G
  BY <1>4
<1>6. T \ {x} \in Bad
  BY <1>4, <1>5
<1>7. <<T \ {x}, T>> \in StrictSubsetOrdering(S)
  BY <1>4, <1>5 DEF StrictSubsetOrdering
<1> QED
  BY <1>4, <1>6, <1>7

(* The usual form: one element at a time. *)
LEMMA SetInduction ==
  ASSUME NEW S, IsFiniteSet(S), NEW G, {} \in G,
         \A T \in SUBSET S : \A x \in T : T \ {x} \in G => T \in G
  PROVE  S \in G
<1>1. \A T \in SUBSET S : (\A x \in T : T \ {x} \in G) => T \in G
  <2> SUFFICES ASSUME NEW T \in SUBSET S, \A x \in T : T \ {x} \in G PROVE T \in G
    OBVIOUS
  <2>1. CASE T = {}
    BY <2>1
  <2>2. CASE T # {}
    BY <2>2
  <2> QED
    BY <2>1, <2>2
<1> QED
  BY <1>1, StrongSetInduction

LEMMA NatInductionSet ==
  ASSUME NEW G, 0 \in G, \A n \in Nat : n \in G => n + 1 \in G
  PROVE  Nat \subseteq G
<1>1. SUFFICES ASSUME ~(Nat \subseteq G) PROVE FALSE
  OBVIOUS
<1> DEFINE Bad == Nat \ G
<1>2. Bad # {} /\ Bad \subseteq Nat
  BY <1>1
<1>3. IsWellFoundedOn(OpToRel(<, Nat), Nat)
  BY NatLessThanWellFounded
<1>4. PICK n \in Bad : \A k \in Bad : <<k, n>> \notin OpToRel(<, Nat)
  <2> HIDE DEF Bad
  <2> QED
    BY <1>2, <1>3, WFMin
<1>5. n \in Nat /\ n \notin G
  BY <1>4
<1>8. n # 0
  BY <1>5
<1>9. n - 1 \in Nat /\ n - 1 < n /\ (n - 1) + 1 = n
  BY <1>5, <1>8
<1>6. n - 1 \in Bad
  <2>1. n - 1 \in G => (n - 1) + 1 \in G
    BY <1>9
  <2> QED
    BY <2>1, <1>5, <1>9
<1>7. <<n - 1, n>> \in OpToRel(<, Nat)
  BY <1>5, <1>9 DEF OpToRel
<1> QED
  BY <1>4, <1>6, <1>7

-----------------------------------------------------------------------------
(* The fold behind SumFunctionOnSet. *)

Pick(s) == CHOOSE x \in s : TRUE

(* The equation of its iteration. *)
Iterates(g, f, S) ==
  g = [s \in SUBSET S |->
         IF s = {} THEN 0 ELSE f[CHOOSE x \in s : TRUE] + g[s \ {CHOOSE x \in s : TRUE}]]

LEMMA SumDef ==
  ASSUME NEW f, NEW S
  PROVE  SumFunctionOnSet(f, S) = (CHOOSE g : Iterates(g, f, S))[S]
  BY Zenon DEF SumFunctionOnSet, FoldFunctionOnSet, MapThenFoldSet, Iterates

LEMMA PickFits == \A s : s # {} => Pick(s) \in s
  BY DEF Pick

LEMMA IteratesAt ==
  ASSUME NEW g, NEW f, NEW S
  PROVE  Iterates(g, f, S) <=>
           g = [s \in SUBSET S |-> IF s = {} THEN 0 ELSE f[Pick(s)] + g[s \ {Pick(s)}]]
  BY Zenon DEF Iterates, Pick

(* The subsets of S of at most n elements. *)
Layer(S, n) == {s \in SUBSET S : Cardinality(s) <= n}

LEMMA Layers ==
  ASSUME NEW S, IsFiniteSet(S), NEW n \in Nat
  PROVE  /\ \A s \in Layer(S, 0) : s = {}
         /\ {} \in Layer(S, n)
         /\ Layer(S, n) \subseteq Layer(S, n + 1)
         /\ \A s \in Layer(S, n + 1) : s # {} => s \ {Pick(s)} \in Layer(S, n)
         /\ S \in Layer(S, Cardinality(S)) /\ Layer(S, Cardinality(S)) = SUBSET S
<1>1. \A s \in SUBSET S : /\ IsFiniteSet(s) /\ Cardinality(s) \in Nat
                          /\ Cardinality(s) <= Cardinality(S)
                          /\ (Cardinality(s) = 0) <=> (s = {})
  BY FS_Subset, FS_CardinalityType, FS_EmptySet
<1>2. ASSUME NEW s \in SUBSET S, s # {}
      PROVE  s \ {Pick(s)} \in SUBSET S /\ Cardinality(s \ {Pick(s)}) = Cardinality(s) - 1
  BY <1>1, <1>2, FS_RemoveElement, PickFits
<1>3. \A s \in Layer(S, 0) : s = {}
  BY <1>1 DEF Layer
<1>4. {} \in Layer(S, n)
  BY FS_EmptySet DEF Layer
<1>5. Layer(S, n) \subseteq Layer(S, n + 1)
  BY <1>1 DEF Layer
<1>6. ASSUME NEW s \in Layer(S, n + 1), s # {} PROVE s \ {Pick(s)} \in Layer(S, n)
  <2>1. s \in SUBSET S /\ Cardinality(s) <= n + 1
    BY DEF Layer
  <2>2. s \ {Pick(s)} \in SUBSET S /\ Cardinality(s \ {Pick(s)}) = Cardinality(s) - 1
    BY <2>1, <1>2, <1>6
  <2>3. Cardinality(s \ {Pick(s)}) <= n
    BY <2>1, <2>2, <1>1
  <2> QED
    BY <2>2, <2>3 DEF Layer
<1>7. S \in Layer(S, Cardinality(S)) /\ Layer(S, Cardinality(S)) = SUBSET S
  BY <1>1 DEF Layer
<1> QED
  BY <1>3, <1>4, <1>5, <1>6, <1>7

(* The iteration is well defined, layer by layer. *)
LEMMA IterExists ==
  ASSUME NEW f, NEW S, IsFiniteSet(S)
  PROVE  \E g : Iterates(g, f, S)
<1> DEFINE Fits(g, n) ==
             g = [s \in Layer(S, n) |-> IF s = {} THEN 0 ELSE f[Pick(s)] + g[s \ {Pick(s)}]]
           G == {n \in Nat : \E g : Fits(g, n)}
<1>2. 0 \in G
  <2> DEFINE g0 == [s \in Layer(S, 0) |-> 0]
  <2>2. Fits(g0, 0)
    BY Layers
  <2> QED
    BY <2>2
<1>3. ASSUME NEW n \in Nat, n \in G PROVE n + 1 \in G
  <2>1. PICK g : Fits(g, n)
    BY <1>3
  <2> DEFINE h == [s \in Layer(S, n + 1) |->
                     IF s = {} THEN 0 ELSE f[Pick(s)] + g[s \ {Pick(s)}]]
  <2>2. ASSUME NEW s \in Layer(S, n) PROVE h[s] = g[s]
    <3>1. s \in Layer(S, n + 1)
      BY Layers
    <3>2. g[s] = IF s = {} THEN 0 ELSE f[Pick(s)] + g[s \ {Pick(s)}]
      BY <2>1
    <3> QED
      BY <3>1, <3>2
  <2>3. \A s \in Layer(S, n + 1) : s # {} => h[s \ {Pick(s)}] = g[s \ {Pick(s)}]
    <3> HIDE DEF h
    <3> QED
      BY <2>2, Layers
  <2>4. Fits(h, n + 1)
    <3>1. \A s \in Layer(S, n + 1) :
            (IF s = {} THEN 0 ELSE f[Pick(s)] + g[s \ {Pick(s)}])
              = (IF s = {} THEN 0 ELSE f[Pick(s)] + h[s \ {Pick(s)}])
      <4> HIDE DEF h
      <4> QED
        BY <2>3
    <3> DEFINE k == h
    <3>2. h = [s \in Layer(S, n + 1) |-> IF s = {} THEN 0 ELSE f[Pick(s)] + k[s \ {Pick(s)}]]
      <4> HIDE DEF k
      <4>1. \A s \in Layer(S, n + 1) :
            (IF s = {} THEN 0 ELSE f[Pick(s)] + g[s \ {Pick(s)}])
              = (IF s = {} THEN 0 ELSE f[Pick(s)] + k[s \ {Pick(s)}])
        BY <3>1 DEF k
      <4> QED
        BY <4>1
    <3> QED
      BY <3>2
  <2>5. n + 1 \in Nat
    OBVIOUS
  <2> HIDE DEF h
  <2> QED
    BY <2>4, <2>5
<1>4. Cardinality(S) \in G
  <2> HIDE DEF G
  <2> QED
    BY FS_CardinalityType, <1>2, <1>3, NatInductionSet
<1>5. PICK g : Fits(g, Cardinality(S))
  BY <1>4
<1>6. Layer(S, Cardinality(S)) = SUBSET S
  BY Layers
<1>7. g = [s \in SUBSET S |-> IF s = {} THEN 0 ELSE f[Pick(s)] + g[s \ {Pick(s)}]]
  BY <1>5, <1>6
<1> QED
  BY <1>7, IteratesAt

(* The sum over a set is the value of any iteration that covers it. *)
LEMMA IterUnique ==
  ASSUME NEW f, NEW g, NEW h, NEW e, NEW S, NEW T, IsFiniteSet(S), S \subseteq T,
         Iterates(g, f, S), Iterates(h, e, T), \A x \in S : f[x] = e[x]
  PROVE  g[S] = h[S]
<1> DEFINE G == {s \in SUBSET S : g[s] = h[s]}
<1>1. \A s \in SUBSET S : g[s] = IF s = {} THEN 0 ELSE f[Pick(s)] + g[s \ {Pick(s)}]
  BY IteratesAt
<1>2. \A s \in SUBSET S : h[s] = IF s = {} THEN 0 ELSE e[Pick(s)] + h[s \ {Pick(s)}]
  BY IteratesAt
<1>3. ASSUME NEW s \in SUBSET S, \A x \in s : s \ {x} \in G PROVE s \in G
  <2>1. CASE s = {}
    BY <1>1, <1>2, <2>1
  <2>2. CASE s # {}
    <3>1. Pick(s) \in s /\ Pick(s) \in S
      BY <2>2, PickFits
    <3>2. g[s \ {Pick(s)}] = h[s \ {Pick(s)}] /\ f[Pick(s)] = e[Pick(s)]
      BY <3>1, <1>3
    <3> QED
      BY <3>2, <2>2, <1>1, <1>2
  <2> QED
    BY <2>1, <2>2
<1>4. S \in G
  <2> HIDE DEF G
  <2> QED
    BY <1>3, StrongSetInduction
<1> QED
  BY <1>4

LEMMA SumIterates ==
  ASSUME NEW f, NEW S, IsFiniteSet(S)
  PROVE  \E g : Iterates(g, f, S) /\ SumFunctionOnSet(f, S) = g[S]
<1>1. Iterates(CHOOSE g : Iterates(g, f, S), f, S)
  <2>1. \E g : Iterates(g, f, S)
    BY IterExists
  <2> QED
    BY <2>1, Zenon
<1> QED
  BY <1>1, SumDef

-----------------------------------------------------------------------------
(* What is used of sums. *)

(* Functions that agree on a set have the same sum over it. *)
LEMMA SumSame ==
  ASSUME NEW f, NEW e, NEW S, IsFiniteSet(S), \A x \in S : f[x] = e[x]
  PROVE  SumFunctionOnSet(f, S) = SumFunctionOnSet(e, S)
<1>1. PICK g : Iterates(g, f, S) /\ SumFunctionOnSet(f, S) = g[S]
  BY SumIterates
<1>2. PICK h : Iterates(h, e, S) /\ SumFunctionOnSet(e, S) = h[S]
  BY SumIterates
<1> QED
  BY <1>1, <1>2, IterUnique

LEMMA SumEmpty == \A f : SumFunctionOnSet(f, {}) = 0
<1> SUFFICES ASSUME NEW f PROVE SumFunctionOnSet(f, {}) = 0
  OBVIOUS
<1>1. PICK g : Iterates(g, f, {}) /\ SumFunctionOnSet(f, {}) = g[{}]
  BY SumIterates, FS_EmptySet
<1> QED
  BY <1>1, IteratesAt

LEMMA SumPick ==
  ASSUME NEW f, NEW S, IsFiniteSet(S), S # {}
  PROVE  SumFunctionOnSet(f, S) = f[Pick(S)] + SumFunctionOnSet(f, S \ {Pick(S)})
<1>1. PICK g : Iterates(g, f, S) /\ SumFunctionOnSet(f, S) = g[S]
  BY SumIterates
<1> DEFINE T == S \ {Pick(S)}
<1>2. IsFiniteSet(T)
  BY FS_RemoveElement
<1>3. PICK h : Iterates(h, f, T) /\ SumFunctionOnSet(f, T) = h[T]
  BY <1>2, SumIterates
<1>4. h[T] = g[T]
  <2>1. T \subseteq S
    OBVIOUS
  <2> HIDE DEF T
  <2> QED
    BY <1>1, <1>2, <1>3, <2>1, IterUnique
<1>5. g[S] = f[Pick(S)] + g[T]
  BY <1>1, IteratesAt
<1> QED
  BY <1>1, <1>3, <1>4, <1>5

LEMMA SumInt ==
  ASSUME NEW S, IsFiniteSet(S), NEW f, \A x \in S : f[x] \in Int
  PROVE  SumFunctionOnSet(f, S) \in Int
<1> DEFINE G == {T \in SUBSET S : SumFunctionOnSet(f, T) \in Int}
<1>1. ASSUME NEW T \in SUBSET S, \A x \in T : T \ {x} \in G PROVE T \in G
  <2>1. CASE T = {}
    BY <2>1, SumEmpty
  <2>2. CASE T # {}
    <3>1. IsFiniteSet(T) /\ Pick(T) \in T
      BY <2>2, FS_Subset, PickFits
    <3>2. SumFunctionOnSet(f, T) = f[Pick(T)] + SumFunctionOnSet(f, T \ {Pick(T)})
      BY <2>2, <3>1, SumPick
    <3>3. SumFunctionOnSet(f, T \ {Pick(T)}) \in Int /\ f[Pick(T)] \in Int
      BY <3>1, <1>1
    <3> QED
      BY <3>2, <3>3
  <2> QED
    BY <2>1, <2>2
<1>2. S \in G
  <2> HIDE DEF G
  <2> QED
    BY <1>1, StrongSetInduction
<1> QED
  BY <1>2

(* The order of the summands does not matter. *)
LEMMA SumTake ==
  ASSUME NEW S, IsFiniteSet(S), NEW f, \A x \in S : f[x] \in Int, NEW x \in S
  PROVE  SumFunctionOnSet(f, S) = f[x] + SumFunctionOnSet(f, S \ {x})
<1> DEFINE G == {T \in SUBSET S : \A y \in T :
                   SumFunctionOnSet(f, T) = f[y] + SumFunctionOnSet(f, T \ {y})}
<1>1. ASSUME NEW T \in SUBSET S, \A y \in T : T \ {y} \in G PROVE T \in G
  <2> SUFFICES ASSUME NEW y \in T
               PROVE  SumFunctionOnSet(f, T) = f[y] + SumFunctionOnSet(f, T \ {y})
    OBVIOUS
  <2>1. PICK c : c = Pick(T)
    OBVIOUS
  <2>2. c \in T /\ IsFiniteSet(T)
    BY <2>1, PickFits, FS_Subset
  <2>3. SumFunctionOnSet(f, T) = f[c] + SumFunctionOnSet(f, T \ {c})
    BY <2>1, <2>2, SumPick
  <2>4. CASE y # c
    <3> DEFINE U == (T \ {y}) \ {c}
    <3>1. SumFunctionOnSet(f, T \ {c}) = f[y] + SumFunctionOnSet(f, U)
      <4>1. T \ {c} \in G /\ y \in T \ {c} /\ U = (T \ {c}) \ {y}
        BY <1>1, <2>2, <2>4
      <4> HIDE DEF U
      <4> QED
        BY <4>1
    <3>2. SumFunctionOnSet(f, T \ {y}) = f[c] + SumFunctionOnSet(f, U)
      BY <1>1, <2>2, <2>4
    <3>3. SumFunctionOnSet(f, U) \in Int /\ f[c] \in Int /\ f[y] \in Int
      <4>1. IsFiniteSet(U) /\ \A z \in U : f[z] \in Int
        BY <2>2, FS_RemoveElement
      <4> HIDE DEF U
      <4> QED
        BY <4>1, <2>2, SumInt
    <3> HIDE DEF U
    <3>4. \A a, b, z \in Int : a + (b + z) = b + (a + z)
      OBVIOUS
    <3> QED
      BY <2>3, <3>1, <3>2, <3>3, <3>4
  <2> QED
    BY <2>3, <2>4
<1>2. S \in G
  <2> HIDE DEF G
  <2> QED
    BY <1>1, StrongSetInduction
<1> QED
  BY <1>2

(* The step of the inductions below: one element of a subset. *)
LEMMA SumStep ==
  ASSUME NEW S, IsFiniteSet(S), NEW f, \A x \in S : f[x] \in Int,
         NEW T \in SUBSET S, NEW x \in T
  PROVE  /\ SumFunctionOnSet(f, T) = f[x] + SumFunctionOnSet(f, T \ {x})
         /\ f[x] \in Int /\ SumFunctionOnSet(f, T \ {x}) \in Int
         /\ IsFiniteSet(T) /\ IsFiniteSet(T \ {x})
<1>1. IsFiniteSet(T) /\ IsFiniteSet(T \ {x})
  BY FS_Subset
<1>2. \A y \in T : f[y] \in Int
  OBVIOUS
<1> QED
  BY <1>1, <1>2, SumTake, SumInt

(* One more element. *)
LEMMA SumAdd ==
  ASSUME NEW S, IsFiniteSet(S), NEW x, x \notin S, NEW f, \A y \in S \union {x} : f[y] \in Int
  PROVE  SumFunctionOnSet(f, S \union {x}) = f[x] + SumFunctionOnSet(f, S)
<1>1. IsFiniteSet(S \union {x}) /\ (S \union {x}) \ {x} = S
  BY FS_AddElement
<1> QED
  BY <1>1, SumTake

(* Sums of sums. *)
LEMMA SumPlus ==
  ASSUME NEW S, IsFiniteSet(S), NEW f, NEW g, NEW h,
         \A x \in S : f[x] \in Int /\ g[x] \in Int /\ h[x] = f[x] + g[x]
  PROVE  SumFunctionOnSet(h, S) = SumFunctionOnSet(f, S) + SumFunctionOnSet(g, S)
<1> DEFINE G == {T \in SUBSET S :
                   SumFunctionOnSet(h, T) = SumFunctionOnSet(f, T) + SumFunctionOnSet(g, T)}
<1>1. {} \in G
  BY SumEmpty
<1>2. ASSUME NEW T \in SUBSET S, NEW x \in T, T \ {x} \in G PROVE T \in G
  <2>1. /\ SumFunctionOnSet(f, T) = f[x] + SumFunctionOnSet(f, T \ {x})
        /\ SumFunctionOnSet(g, T) = g[x] + SumFunctionOnSet(g, T \ {x})
        /\ SumFunctionOnSet(h, T) = h[x] + SumFunctionOnSet(h, T \ {x})
    BY SumStep
  <2>2. /\ SumFunctionOnSet(f, T \ {x}) \in Int /\ SumFunctionOnSet(g, T \ {x}) \in Int
        /\ f[x] \in Int /\ g[x] \in Int /\ h[x] = f[x] + g[x]
    BY SumStep
  <2>3. SumFunctionOnSet(h, T \ {x}) = SumFunctionOnSet(f, T \ {x}) + SumFunctionOnSet(g, T \ {x})
    BY <1>2
  <2>4. \A a, b, y, z \in Int : (a + b) + (y + z) = (a + y) + (b + z)
    OBVIOUS
  <2> QED
    BY <2>1, <2>2, <2>3, <2>4
<1>3. S \in G
  <2> HIDE DEF G
  <2> QED
    BY <1>1, <1>2, SetInduction
<1> QED
  BY <1>3

LEMMA SumMinus ==
  ASSUME NEW S, IsFiniteSet(S), NEW f, NEW g, NEW h,
         \A x \in S : f[x] \in Int /\ g[x] \in Int /\ h[x] = f[x] - g[x]
  PROVE  SumFunctionOnSet(h, S) = SumFunctionOnSet(f, S) - SumFunctionOnSet(g, S)
<1>1. \A x \in S : h[x] \in Int /\ g[x] \in Int /\ f[x] = h[x] + g[x]
  OBVIOUS
<1>2. SumFunctionOnSet(f, S) = SumFunctionOnSet(h, S) + SumFunctionOnSet(g, S)
  BY <1>1, SumPlus
<1>3. SumFunctionOnSet(h, S) \in Int /\ SumFunctionOnSet(g, S) \in Int
  BY <1>1, SumInt
<1> QED
  BY <1>2, <1>3

(* A sum of equal summands. *)
LEMMA SumConst ==
  ASSUME NEW S, IsFiniteSet(S), NEW f, NEW c \in Int, \A x \in S : f[x] = c
  PROVE  SumFunctionOnSet(f, S) = c * Cardinality(S)
<1> DEFINE G == {T \in SUBSET S : SumFunctionOnSet(f, T) = c * Cardinality(T)}
<1>1. {} \in G
  BY SumEmpty, FS_EmptySet
<1>2. ASSUME NEW T \in SUBSET S, NEW x \in T, T \ {x} \in G PROVE T \in G
  <2>0. \A y \in S : f[y] \in Int
    OBVIOUS
  <2>1. SumFunctionOnSet(f, T) = c + SumFunctionOnSet(f, T \ {x}) /\ IsFiniteSet(T)
    BY <2>0, SumStep
  <2>2. SumFunctionOnSet(f, T \ {x}) = c * Cardinality(T \ {x})
    BY <1>2
  <2>3. Cardinality(T) \in Nat /\ Cardinality(T \ {x}) = Cardinality(T) - 1
    BY <2>1, FS_RemoveElement, FS_CardinalityType
  <2>4. \A n \in Int : c + c * (n - 1) = c * n
    OBVIOUS
  <2> QED
    BY <2>1, <2>2, <2>3, <2>4
<1>3. S \in G
  <2> HIDE DEF G
  <2> QED
    BY <1>1, <1>2, SetInduction
<1> QED
  BY <1>3

LEMMA SumZero ==
  ASSUME NEW S, IsFiniteSet(S), NEW f, \A x \in S : f[x] = 0
  PROVE  SumFunctionOnSet(f, S) = 0
<1>1. SumFunctionOnSet(f, S) = 0 * Cardinality(S) /\ Cardinality(S) \in Nat
  BY SumConst, FS_CardinalityType
<1> QED
  BY <1>1

LEMMA SumScale ==
  ASSUME NEW S, IsFiniteSet(S), NEW c \in Int, NEW f, \A x \in S : f[x] \in Int
  PROVE  \A g : (\A x \in S : g[x] = c * f[x]) =>
                  SumFunctionOnSet(g, S) = c * SumFunctionOnSet(f, S)
<1>1. ASSUME NEW g, \A x \in S : g[x] = c * f[x]
      PROVE  SumFunctionOnSet(g, S) = c * SumFunctionOnSet(f, S)
  <2> DEFINE G == {T \in SUBSET S : SumFunctionOnSet(g, T) = c * SumFunctionOnSet(f, T)}
  <2>1. \A y \in S : g[y] \in Int
    <3>1. \A a \in Int : c * a \in Int
      OBVIOUS
    <3> QED
      BY <1>1, <3>1
  <2>2. {} \in G
    BY SumEmpty
  <2>3. ASSUME NEW T \in SUBSET S, NEW x \in T, T \ {x} \in G PROVE T \in G
    <3>1. /\ SumFunctionOnSet(f, T) = f[x] + SumFunctionOnSet(f, T \ {x})
          /\ SumFunctionOnSet(f, T \ {x}) \in Int /\ f[x] \in Int
      BY SumStep
    <3>2. SumFunctionOnSet(g, T) = g[x] + SumFunctionOnSet(g, T \ {x})
      BY <2>1, SumStep
    <3>3. SumFunctionOnSet(g, T \ {x}) = c * SumFunctionOnSet(f, T \ {x}) /\ g[x] = c * f[x]
      BY <1>1, <2>3
    <3>4. \A y, z \in Int : c * y + c * z = c * (y + z)
      OBVIOUS
    <3> QED
      BY <3>1, <3>2, <3>3, <3>4
  <2>4. S \in G
    <3> HIDE DEF G
    <3> QED
      BY <2>2, <2>3, SetInduction
  <2> QED
    BY <2>4
<1> QED
  BY <1>1

(* Smaller summands, a smaller sum. *)
LEMMA SumLeq ==
  ASSUME NEW S, IsFiniteSet(S), NEW f, NEW g,
         \A x \in S : f[x] \in Int /\ g[x] \in Int /\ f[x] <= g[x]
  PROVE  SumFunctionOnSet(f, S) <= SumFunctionOnSet(g, S)
<1> DEFINE G == {T \in SUBSET S : SumFunctionOnSet(f, T) <= SumFunctionOnSet(g, T)}
<1>1. {} \in G
  BY SumEmpty
<1>2. ASSUME NEW T \in SUBSET S, NEW x \in T, T \ {x} \in G PROVE T \in G
  <2>1. /\ SumFunctionOnSet(f, T) = f[x] + SumFunctionOnSet(f, T \ {x})
        /\ SumFunctionOnSet(g, T) = g[x] + SumFunctionOnSet(g, T \ {x})
        /\ SumFunctionOnSet(f, T \ {x}) \in Int /\ SumFunctionOnSet(g, T \ {x}) \in Int
        /\ f[x] \in Int /\ g[x] \in Int /\ f[x] <= g[x]
    BY SumStep
  <2>2. SumFunctionOnSet(f, T \ {x}) <= SumFunctionOnSet(g, T \ {x})
    BY <1>2
  <2> QED
    BY <2>1, <2>2
<1>3. S \in G
  <2> HIDE DEF G
  <2> QED
    BY <1>1, <1>2, SetInduction
<1> QED
  BY <1>3

LEMMA SumNat ==
  ASSUME NEW S, IsFiniteSet(S), NEW f, \A x \in S : f[x] \in Nat
  PROVE  SumFunctionOnSet(f, S) \in Nat /\ \A x \in S : f[x] <= SumFunctionOnSet(f, S)
<1>1. ASSUME NEW T \in SUBSET S PROVE SumFunctionOnSet(f, T) \in Nat
  <2> DEFINE z == [x \in T |-> 0]
  <2>1. IsFiniteSet(T) /\ \A x \in T : z[x] = 0 /\ z[x] \in Int /\ f[x] \in Int /\ z[x] <= f[x]
    BY FS_Subset
  <2> HIDE DEF z
  <2>2. SumFunctionOnSet(z, T) = 0 /\ SumFunctionOnSet(f, T) \in Int
    BY <2>1, SumZero, SumInt
  <2>3. SumFunctionOnSet(z, T) <= SumFunctionOnSet(f, T)
    BY <2>1, SumLeq
  <2> QED
    BY <2>2, <2>3
<1>2. ASSUME NEW x \in S PROVE f[x] <= SumFunctionOnSet(f, S)
  <2>1. SumFunctionOnSet(f, S) = f[x] + SumFunctionOnSet(f, S \ {x}) /\ f[x] \in Nat
    BY SumTake
  <2>2. SumFunctionOnSet(f, S \ {x}) \in Nat
    BY <1>1
  <2> QED
    BY <2>1, <2>2
<1> QED
  BY <1>1, <1>2

(* What is zero outside T adds nothing. *)
LEMMA SumOutside ==
  ASSUME NEW S, IsFiniteSet(S), NEW T \in SUBSET S, NEW f,
         \A x \in S : f[x] \in Int, \A x \in S \ T : f[x] = 0
  PROVE  SumFunctionOnSet(f, S) = SumFunctionOnSet(f, T)
<1> DEFINE R == S \ T
           G == {U \in SUBSET R : SumFunctionOnSet(f, T \union U) = SumFunctionOnSet(f, T)}
<1>1. {} \in G
  <2>1. T \union {} = T
    OBVIOUS
  <2> QED
    BY <2>1
<1>2. ASSUME NEW U \in SUBSET R, NEW x \in U, U \ {x} \in G PROVE U \in G
  <2>1. (T \union U) \ {x} = T \union (U \ {x}) /\ T \union U \in SUBSET S /\ x \in T \union U
    OBVIOUS
  <2>2. SumFunctionOnSet(f, T \union U) = f[x] + SumFunctionOnSet(f, T \union (U \ {x}))
        /\ SumFunctionOnSet(f, T \union (U \ {x})) \in Int
    BY <2>1, SumStep
  <2>3. SumFunctionOnSet(f, T \union (U \ {x})) = SumFunctionOnSet(f, T) /\ f[x] = 0
    BY <1>2
  <2> QED
    BY <2>2, <2>3
<1>3. R \in G
  <2>1. IsFiniteSet(R)
    BY FS_Subset
  <2> HIDE DEF G, R
  <2> QED
    BY <2>1, <1>1, <1>2, SetInduction
<1>4. T \union R = S
  OBVIOUS
<1> QED
  BY <1>3, <1>4

(* Two disjoint parts. *)
LEMMA SumParts ==
  ASSUME NEW S, IsFiniteSet(S), NEW T \in SUBSET S, NEW f, \A x \in S : f[x] \in Int
  PROVE  SumFunctionOnSet(f, S) = SumFunctionOnSet(f, T) + SumFunctionOnSet(f, S \ T)
<1> DEFINE R == S \ T
           in == [x \in S |-> IF x \in T THEN f[x] ELSE 0]
           out == [x \in S |-> IF x \in R THEN f[x] ELSE 0]
<1>1. \A x \in S : in[x] \in Int /\ out[x] \in Int /\ f[x] = in[x] + out[x]
  OBVIOUS
<1>2. /\ \A x \in S \ T : in[x] = 0
      /\ \A x \in S \ R : out[x] = 0
      /\ \A x \in T : in[x] = f[x]
      /\ \A x \in R : out[x] = f[x]
      /\ IsFiniteSet(T) /\ IsFiniteSet(R) /\ R \in SUBSET S
  BY FS_Subset
<1> HIDE DEF in, out
<1>3. SumFunctionOnSet(f, S) = SumFunctionOnSet(in, S) + SumFunctionOnSet(out, S)
  BY <1>1, SumPlus
<1>4. SumFunctionOnSet(in, S) = SumFunctionOnSet(in, T)
  BY <1>1, <1>2, SumOutside
<1>5. SumFunctionOnSet(in, T) = SumFunctionOnSet(f, T)
  BY <1>2, SumSame
<1>6. SumFunctionOnSet(out, S) = SumFunctionOnSet(out, R) /\ SumFunctionOnSet(out, R) = SumFunctionOnSet(f, R)
  <2> HIDE DEF R
  <2>1. SumFunctionOnSet(out, S) = SumFunctionOnSet(out, R)
    BY <1>1, <1>2, SumOutside
  <2>2. SumFunctionOnSet(out, R) = SumFunctionOnSet(f, R)
    BY <1>2, SumSame
  <2> QED
    BY <2>1, <2>2
<1> QED
  BY <1>3, <1>4, <1>5, <1>6

(* The same summands under other names. *)
LEMMA SumRenamed ==
  ASSUME NEW S, IsFiniteSet(S), NEW T, NEW k \in [S -> T],
         \A x, y \in S : k[x] = k[y] => x = y,
         \A z \in T : \E x \in S : k[x] = z,
         NEW f, NEW g, \A x \in S : f[x] \in Int /\ f[x] = g[k[x]]
  PROVE  SumFunctionOnSet(f, S) = SumFunctionOnSet(g, T)
<1> DEFINE img(U) == {k[x] : x \in U}
           G == {U \in SUBSET S : IsFiniteSet(img(U))
                                  /\ SumFunctionOnSet(f, U) = SumFunctionOnSet(g, img(U))}
<1>1. {} \in G
  <2>1. img({}) = {}
    OBVIOUS
  <2> QED
    BY <2>1, SumEmpty, FS_EmptySet
<1>2. ASSUME NEW U \in SUBSET S, NEW x \in U, U \ {x} \in G PROVE U \in G
  <2>1. img(U) = img(U \ {x}) \union {k[x]} /\ k[x] \notin img(U \ {x})
    OBVIOUS
  <2>2. \A y \in img(U \ {x}) \union {k[x]} : g[y] \in Int
    OBVIOUS
  <2>3. IsFiniteSet(img(U \ {x}))
        /\ SumFunctionOnSet(f, U \ {x}) = SumFunctionOnSet(g, img(U \ {x}))
    BY <1>2
  <2>4. SumFunctionOnSet(f, U) = f[x] + SumFunctionOnSet(f, U \ {x}) /\ f[x] = g[k[x]]
    BY SumStep
  <2> HIDE DEF img
  <2>5. SumFunctionOnSet(g, img(U \ {x}) \union {k[x]})
          = g[k[x]] + SumFunctionOnSet(g, img(U \ {x}))
    BY <2>1, <2>2, <2>3, SumAdd
  <2>6. IsFiniteSet(img(U))
    <3>1. IsFiniteSet(img(U \ {x}) \union {k[x]})
      BY <2>3, FS_AddElement
    <3> QED
      BY <2>1, <3>1
  <2> QED
    BY <2>1, <2>3, <2>4, <2>5, <2>6
<1>3. S \in G
  <2> HIDE DEF G
  <2> QED
    BY <1>1, <1>2, SetInduction
<1>4. img(S) = T
  OBVIOUS
<1> QED
  BY <1>3, <1>4

(* A table m, its transpose t, and the sums of their rows. *)
Table(m, t, row, col, I, J) ==
  /\ \A i \in I : \A j \in J : m[i][j] \in Int /\ t[j][i] = m[i][j]
  /\ \A i \in I : row[i] = SumFunctionOnSet(m[i], J)
  /\ \A j \in J : col[j] = SumFunctionOnSet(t[j], I)

(* Row by row or column by column. *)
LEMMA SumSwap ==
  ASSUME NEW I, IsFiniteSet(I), NEW J, IsFiniteSet(J),
         NEW m, NEW t, NEW row, NEW col, Table(m, t, row, col, I, J)
  PROVE  SumFunctionOnSet(row, I) = SumFunctionOnSet(col, J)
<1> DEFINE c(K) == [j \in J |-> SumFunctionOnSet(t[j], K)]
           G == {K \in SUBSET I : SumFunctionOnSet(row, K) = SumFunctionOnSet(c(K), J)}
<1>0. ASSUME NEW i \in I PROVE row[i] \in Int /\ row[i] = SumFunctionOnSet(m[i], J)
  <2>1. row[i] = SumFunctionOnSet(m[i], J) /\ \A j \in J : m[i][j] \in Int
    BY DEF Table
  <2> QED
    BY <2>1, SumInt
<1>1. {} \in G
  <2>1. \A j \in J : c({})[j] = 0
    BY SumEmpty
  <2>2. SumFunctionOnSet(c({}), J) = 0
    <3> HIDE DEF c
    <3> QED
      BY <2>1, SumZero
  <2> QED
    BY <2>2, SumEmpty
<1>2. ASSUME NEW K \in SUBSET I, NEW i \in K, K \ {i} \in G PROVE K \in G
  <2>1. SumFunctionOnSet(row, K) = row[i] + SumFunctionOnSet(row, K \ {i})
    BY <1>0, SumStep
  <2>2. ASSUME NEW j \in J
        PROVE  c(K)[j] = m[i][j] + c(K \ {i})[j] /\ m[i][j] \in Int /\ c(K \ {i})[j] \in Int
    <3> DEFINE f == t[j]
    <3>1. \A x \in I : f[x] \in Int
      BY DEF Table
    <3>2. f[i] = m[i][j]
      BY DEF Table
    <3>3. c(K)[j] = SumFunctionOnSet(f, K) /\ c(K \ {i})[j] = SumFunctionOnSet(f, K \ {i})
      OBVIOUS
    <3> HIDE DEF f, c
    <3>4. SumFunctionOnSet(f, K) = f[i] + SumFunctionOnSet(f, K \ {i})
          /\ SumFunctionOnSet(f, K \ {i}) \in Int
      BY <3>1, SumStep
    <3> QED
      BY <3>1, <3>2, <3>3, <3>4
  <2> DEFINE cK == c(K)
             cL == c(K \ {i})
             mi == m[i]
  <2>3. \A j \in J : mi[j] \in Int /\ cL[j] \in Int /\ cK[j] = mi[j] + cL[j]
    BY <2>2
  <2>4. SumFunctionOnSet(row, K \ {i}) = SumFunctionOnSet(cL, J)
    BY <1>2
  <2>5. row[i] = SumFunctionOnSet(mi, J)
    BY <1>0
  <2> HIDE DEF cK, cL, c, mi
  <2>6. SumFunctionOnSet(cK, J) = SumFunctionOnSet(mi, J) + SumFunctionOnSet(cL, J)
    BY <2>3, SumPlus
  <2>7. SumFunctionOnSet(row, K) = SumFunctionOnSet(cK, J)
    BY <2>1, <2>4, <2>5, <2>6
  <2> QED
    BY <2>7 DEF cK
<1>3. I \in G
  <2> HIDE DEF G
  <2> QED
    BY <1>1, <1>2, SetInduction
<1>4. \A j \in J : c(I)[j] = col[j]
  BY DEF Table
<1>5. SumFunctionOnSet(c(I), J) = SumFunctionOnSet(col, J)
  <2> HIDE DEF c
  <2> QED
    BY <1>4, SumSame
<1> QED
  BY <1>3, <1>5

(* One summand only. *)
LEMMA SumSingle ==
  ASSUME NEW S, IsFiniteSet(S), NEW x \in S, NEW f, f[x] \in Int, \A y \in S \ {x} : f[y] = 0
  PROVE  SumFunctionOnSet(f, S) = f[x]
<1>1. \A y \in S : f[y] \in Int
  OBVIOUS
<1>2. SumFunctionOnSet(f, S) = f[x] + SumFunctionOnSet(f, S \ {x})
  BY <1>1, SumTake
<1>3. SumFunctionOnSet(f, S \ {x}) = 0
  <2>1. IsFiniteSet(S \ {x})
    BY FS_RemoveElement
  <2> QED
    BY <2>1, SumZero
<1> QED
  BY <1>2, <1>3

(* The sum over those with a property, as a sum over all. *)
LEMMA SumWhere ==
  ASSUME NEW S, IsFiniteSet(S), NEW T \in SUBSET S, NEW f, \A x \in T : f[x] \in Int
  PROVE  SumFunctionOnSet(f, T) = SumFunctionOnSet([x \in S |-> IF x \in T THEN f[x] ELSE 0], S)
<1> DEFINE g == [x \in S |-> IF x \in T THEN f[x] ELSE 0]
<1>1. /\ \A x \in S : g[x] \in Int
      /\ \A x \in S \ T : g[x] = 0
      /\ \A x \in T : g[x] = f[x]
      /\ IsFiniteSet(T)
  BY FS_Subset
<1> HIDE DEF g
<1>2. SumFunctionOnSet(g, S) = SumFunctionOnSet(g, T)
  BY <1>1, SumOutside
<1>3. SumFunctionOnSet(g, T) = SumFunctionOnSet(f, T)
  BY <1>1, SumSame
<1> QED
  BY <1>2, <1>3 DEF g
=============================================================================
