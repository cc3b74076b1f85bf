--------------------------- MODULE TripLifeProofs ---------------------------
(***************************************************************************)
(* The feed and the lists of a trip, for every set of rows, every order of *)
(* them and every size of a page: a client that reads on while rows come   *)
(* and go.                                                                 *)
(***************************************************************************)
EXTENDS TripLife, LedgerProofs

-----------------------------------------------------------------------------
(* The order of the feed. *)

(* Rows come in one order: stamp first, then the id, which no two share. *)
LEMMA FeedOrder ==
  ASSUME NEW r \in Draw, NEW s \in Draw, NEW t \in Draw
  PROVE  /\ Newer(r, s) <=> Older(s, r)
         /\ ~Older(r, r)
         /\ r # s => Older(r, s) \/ Older(s, r)
         /\ ~(Older(r, s) /\ Older(s, r))
         /\ Older(r, s) /\ Older(s, t) => Older(r, t)
<1>1. /\ r.createdAt \in Nat /\ s.createdAt \in Nat /\ t.createdAt \in Nat
      /\ r.id \in Nat /\ s.id \in Nat /\ t.id \in Nat
      /\ r.id = s.id => r = s
  BY ActivityAssumption
<1> QED
  BY <1>1 DEF Newer, Older

(* A set of rows has a newest one and an oldest one. *)
LEMMA FeedEnds ==
  ASSUME NEW T \in SUBSET Draw, T # {}
  PROVE  /\ \E r \in T : \A s \in T \ {r} : Older(s, r)
         /\ \E r \in T : \A s \in T \ {r} : Older(r, s)
<1> DEFINE G == {U \in SUBSET T : U # {} =>
                   /\ \E r \in U : \A s \in U \ {r} : Older(s, r)
                   /\ \E r \in U : \A s \in U \ {r} : Older(r, s)}
<1>1. {} \in G
  OBVIOUS
<1>2. ASSUME NEW U \in SUBSET T, NEW x \in U, U \ {x} \in G PROVE U \in G
  <2>1. CASE U \ {x} = {}
    BY <2>1
  <2>2. CASE U \ {x} # {}
    <3>1. PICK hi \in U \ {x} : \A s \in (U \ {x}) \ {hi} : Older(s, hi)
      BY <1>2, <2>2
    <3>2. PICK lo \in U \ {x} : \A s \in (U \ {x}) \ {lo} : Older(lo, s)
      BY <1>2, <2>2
    <3>3. \A s \in U : s \in Draw
      OBVIOUS
    <3>4. \E r \in U : \A s \in U \ {r} : Older(s, r)
      <4>1. CASE Older(x, hi)
        BY <3>1, <4>1
      <4>2. CASE Older(hi, x)
        <5>1. \A s \in U \ {x} : Older(s, x)
          BY <3>1, <3>3, <4>2, FeedOrder
        <5> QED
          BY <5>1
      <4> QED
        BY <3>1, <3>3, <4>1, <4>2, FeedOrder
    <3>5. \E r \in U : \A s \in U \ {r} : Older(r, s)
      <4>1. CASE Older(lo, x)
        BY <3>2, <4>1
      <4>2. CASE Older(x, lo)
        <5>1. \A s \in U \ {x} : Older(x, s)
          BY <3>2, <3>3, <4>2, FeedOrder
        <5> QED
          BY <5>1
      <4> QED
        BY <3>2, <3>3, <4>1, <4>2, FeedOrder
    <3> QED
      BY <3>4, <3>5
  <2> QED
    BY <2>1, <2>2
<1>3. IsFiniteSet(T)
  BY ActivityAssumption, FS_Subset
<1>4. T \in G
  <2> HIDE DEF G
  <2> QED
    BY <1>1, <1>2, <1>3, SetInduction
<1> QED
  BY <1>4

-----------------------------------------------------------------------------
(* One page. *)

(* The rows of S that are newer than r. *)
Above(S, r) == {s \in S : Newer(s, r)}

LEMMA AboveCounts ==
  ASSUME NEW S \in SUBSET Draw
  PROVE  /\ IsFiniteSet(S) /\ Cardinality(S) \in Nat
         /\ \A r \in S : IsFiniteSet(Above(S, r)) /\ Cardinality(Above(S, r)) \in Nat
         /\ \A r, s \in S : Older(r, s) =>
              Above(S, s) \subseteq Above(S, r)
              /\ Cardinality(Above(S, s)) + 1 <= Cardinality(Above(S, r))
<1>1. \A T \in SUBSET S : IsFiniteSet(T) /\ Cardinality(T) \in Nat
  BY ActivityAssumption, FS_Subset, FS_CardinalityType
<1>2. \A r \in S : Above(S, r) \in SUBSET S
  BY DEF Above
<1>3. ASSUME NEW r \in S, NEW s \in S, Older(r, s)
      PROVE  Above(S, s) \subseteq Above(S, r)
             /\ Cardinality(Above(S, s)) + 1 <= Cardinality(Above(S, r))
  <2>1. s \in Above(S, r) /\ s \notin Above(S, s)
    BY <1>3, FeedOrder DEF Above
  <2>2. \A t \in S : Newer(t, s) => Newer(t, r)
    <3> TAKE t \in S
    <3> QED
      BY <1>3, FeedOrder
  <2>3. Above(S, s) \subseteq Above(S, r) \ {s}
    BY <2>1, <2>2 DEF Above
  <2>4. /\ IsFiniteSet(Above(S, r) \ {s})
        /\ Cardinality(Above(S, r) \ {s}) = Cardinality(Above(S, r)) - 1
    BY <1>1, <1>2, <2>1, FS_RemoveElement
  <2>5. Cardinality(Above(S, s)) <= Cardinality(Above(S, r) \ {s})
    BY <2>3, <2>4, FS_Subset
  <2>6. Cardinality(Above(S, s)) \in Nat /\ Cardinality(Above(S, r)) \in Nat
    BY <1>1, <1>2
  <2> QED
    BY <2>3, <2>4, <2>5, <2>6
<1> QED
  BY <1>1, <1>2, <1>3

(* The newest n rows of S, and what the ranks within them are. *)
Newest(S, n) == {r \in S : Cardinality(Above(S, r)) < n}

LEMMA NewestRanks ==
  ASSUME NEW S \in SUBSET Draw, NEW n \in Nat
  PROVE  /\ \A r \in Newest(S, n) : Above(Newest(S, n), r) = Above(S, r)
         /\ \A r \in S \ Newest(S, n) : \A s \in Newest(S, n) : Older(r, s)
<1>1. ASSUME NEW r \in Newest(S, n), NEW s \in S, Newer(s, r) PROVE s \in Newest(S, n)
  <2>1. r \in S /\ Older(r, s) /\ Cardinality(Above(S, r)) < n
    BY <1>1, FeedOrder DEF Newest
  <2>2. /\ Cardinality(Above(S, s)) + 1 <= Cardinality(Above(S, r))
        /\ Cardinality(Above(S, s)) \in Nat /\ Cardinality(Above(S, r)) \in Nat
    BY <2>1, AboveCounts
  <2> QED
    BY <2>1, <2>2 DEF Newest
<1>2. \A r \in Newest(S, n) : Above(Newest(S, n), r) = Above(S, r)
  BY <1>1 DEF Above, Newest
<1>3. ASSUME NEW r \in S \ Newest(S, n), NEW s \in Newest(S, n) PROVE Older(r, s)
  <2>1. r \in Draw /\ s \in S /\ r # s
    BY <1>3 DEF Newest
  <2>2. ~Newer(r, s)
    BY <1>1, <1>3
  <2> QED
    BY <2>1, <2>2, FeedOrder
<1> QED
  BY <1>2, <1>3

Behind(rows, cursor) == {r \in rows : cursor # NoCursor => Older(r, cursor)}

LEMMA LimitFits ==
  ASSUME NEW raw \in Int \union {NoLimit}
  PROVE  ClampLimit(raw) \in Nat \ {0}
<1>1. CASE raw = NoLimit
  BY <1>1, ActivityAssumption DEF ClampLimit
<1>2. CASE raw \in Int /\ raw # NoLimit
  BY <1>2, ActivityAssumption DEF ClampLimit
<1> QED
  BY <1>1, <1>2

(* A page is of rows behind the cursor; without a next one it has them all, and
   the next cursor is its oldest row, ahead of all that is still to come. *)
LEMMA FeedPage ==
  ASSUME NEW rows \in SUBSET Draw, NEW raw \in Int \union {NoLimit},
         NEW cursor \in Draw \union {NoCursor}, NEW page, page = Feed(rows, raw, cursor)
  PROVE  /\ page.items \subseteq Behind(rows, cursor)
         /\ page.nextCursor = NoCursor => page.items = Behind(rows, cursor)
         /\ page.nextCursor # NoCursor =>
              /\ page.nextCursor \in page.items
              /\ \A r \in Behind(rows, cursor) : r \in page.items \/ Older(r, page.nextCursor)
              /\ \A r \in page.items : ~Older(r, page.nextCursor)
<1> DEFINE n == ClampLimit(raw)
           S == Behind(rows, cursor)
           found == Newest(S, n + 1)
           shown == Newest(S, n)
           last == CHOOSE r \in shown : \A s \in shown \ {r} : Newer(s, r)
<1>1. n \in Nat \ {0} /\ n + 1 \in Nat
  BY LimitFits
<1>2. S \in SUBSET Draw /\ found \in SUBSET S /\ shown \in SUBSET S
  BY DEF Behind, Newest
<1>3. \A r \in S : Cardinality(Above(S, r)) \in Nat
  BY <1>2, AboveCounts
<1>4. /\ found = ListActivities(rows, n + 1, cursor)
      /\ shown = {r \in found : Cardinality({s \in found : Newer(s, r)}) < n}
  <2>1. found = ListActivities(rows, n + 1, cursor)
    BY DEF ListActivities, Behind, Newest, Above
  <2> HIDE DEF n, S
  <2>2. \A r \in found : Above(found, r) = Above(S, r)
    BY <1>1, <1>2, NewestRanks
  <2>3. \A r \in S : Cardinality(Above(S, r)) < n => Cardinality(Above(S, r)) < n + 1
    BY <1>1, <1>3
  <2>4. shown = {r \in found : Cardinality(Above(found, r)) < n}
    BY <2>2, <2>3 DEF Newest
  <2> QED
    BY <2>1, <2>4 DEF Above
<1>5. page = [items |-> shown, nextCursor |-> IF Cardinality(found) > n THEN last ELSE NoCursor]
  <2>1. page = LET f == ListActivities(rows, n + 1, cursor)
                   p == {r \in f : Cardinality({s \in f : Newer(s, r)}) < n}
               IN  [items |-> p,
                    nextCursor |-> IF Cardinality(f) > n
                                     THEN CHOOSE r \in p : \A s \in p \ {r} : Newer(s, r)
                                     ELSE NoCursor]
    BY DEF Feed
  <2> HIDE DEF n, S, found, shown
  <2> QED
    BY <1>4, <2>1
<1>6. \A r \in S : r \in shown \/ \A s \in shown : Older(r, s)
  <2> HIDE DEF n, S
  <2> QED
    BY <1>1, <1>2, NewestRanks
<1> HIDE DEF n, S, last
<1>7. CASE Cardinality(found) > n
  <2>1. found # {}
    BY <1>1, <1>7, FS_EmptySet
  <2>2. PICK top \in found : \A s \in found \ {top} : Older(s, top)
    <3> HIDE DEF found
    <3> QED
      BY <1>2, <2>1, FeedEnds
  <2>3. top \in shown
    <3>1. Above(found, top) = {}
      <4> SUFFICES ASSUME NEW s \in found, Newer(s, top) PROVE FALSE
        BY DEF Above
      <4>1. s \in Draw /\ top \in Draw
        BY <1>2, <2>2
      <4>2. Older(top, s)
        BY <4>1, FeedOrder
      <4>3. s # top
        BY <4>1, <4>2, FeedOrder
      <4> QED
        BY <2>2, <4>1, <4>2, <4>3, FeedOrder
    <3>2. Above(found, top) = Above(S, top) /\ top \in S
      BY <1>1, <1>2, <2>2, NewestRanks
    <3>3. Cardinality(Above(S, top)) = 0
      BY <3>1, <3>2, FS_EmptySet
    <3> QED
      BY <1>1, <3>2, <3>3 DEF Newest
  <2>4. \E r \in shown : \A s \in shown \ {r} : Newer(s, r)
    <3>1. PICK r \in shown : \A s \in shown \ {r} : Older(r, s)
      <4> HIDE DEF shown
      <4> QED
        BY <1>2, <2>3, FeedEnds
    <3>2. \A s \in shown \ {r} : Newer(s, r)
      <4> TAKE s \in shown \ {r}
      <4>1. s \in Draw /\ r \in Draw /\ Older(r, s)
        BY <1>2, <3>1
      <4> QED
        BY <4>1, FeedOrder
    <3> QED
      BY <3>2
  <2>5. last \in shown /\ \A s \in shown \ {last} : Newer(s, last)
    BY <2>4 DEF last
  <2>6. page.items = shown /\ page.nextCursor = last
    BY <1>5, <1>7
  <2>7. last # NoCursor
    BY <1>2, <2>5, ActivityAssumption
  <2>8. \A r \in shown : ~Older(r, last)
    <3> TAKE r \in shown
    <3>1. r \in Draw /\ last \in Draw
      BY <1>2, <2>5
    <3> QED
      BY <2>5, <3>1, FeedOrder
  <2> QED
    BY <1>2, <1>6, <2>5, <2>6, <2>7, <2>8 DEF S
<1>8. CASE ~(Cardinality(found) > n)
  <2>1. page.items = shown /\ page.nextCursor = NoCursor
    BY <1>5, <1>8
  <2>2. IsFiniteSet(found) /\ Cardinality(found) \in Nat
    BY <1>2, AboveCounts
  <2>3. ASSUME NEW r \in S, r \notin shown PROVE FALSE
    <3>1. S \ shown \in SUBSET Draw /\ S \ shown # {}
      BY <1>2, <2>3
    <3>2. PICK x \in S \ shown : \A s \in (S \ shown) \ {x} : Older(s, x)
      BY <3>1, FeedEnds
    <3>3. Above(S, x) \subseteq shown
      <4> SUFFICES ASSUME NEW s \in S, Newer(s, x), s \notin shown PROVE FALSE
        BY DEF Above
      <4>1. s \in Draw /\ x \in Draw
        BY <1>2, <3>2
      <4>2. Older(x, s) /\ s # x
        BY <4>1, FeedOrder
      <4> QED
        BY <3>2, <4>1, <4>2, FeedOrder
    <3>4. shown \subseteq found
      <4>1. \A s \in S : Cardinality(Above(S, s)) < n => Cardinality(Above(S, s)) < n + 1
        BY <1>1, <1>3
      <4> QED
        BY <4>1 DEF Newest
    <3>5. Cardinality(Above(S, x)) <= Cardinality(found)
      BY <2>2, <3>3, <3>4, FS_Subset
    <3>6. Cardinality(Above(S, x)) = n /\ x \in found
      BY <1>1, <1>3, <1>8, <2>2, <3>2, <3>5 DEF Newest
    <3>7. Above(S, x) \subseteq found \ {x}
      <4>1. x \notin Above(S, x)
        BY <1>2, <3>2, FeedOrder DEF Above
      <4> QED
        BY <3>3, <3>4, <4>1
    <3>8. /\ IsFiniteSet(found \ {x}) /\ Cardinality(found \ {x}) = Cardinality(found) - 1
      BY <2>2, <3>6, FS_RemoveElement
    <3>9. Cardinality(Above(S, x)) <= Cardinality(found \ {x})
      BY <3>7, <3>8, FS_Subset
    <3> QED
      BY <1>1, <1>8, <2>2, <3>6, <3>8, <3>9
  <2> QED
    BY <1>2, <2>1, <2>3 DEF S
<1> QED
  BY <1>7, <1>8

-----------------------------------------------------------------------------
(* The walk. *)

(* What a client that wants the rows of B knows after n pages: either it has
   them all, or its cursor parts what it has seen from what is still to come. *)
Reading(B, so, n) ==
  /\ so.shown \subseteq Draw /\ so.again = {}
  /\ so.cursor \in Draw \union {NoCursor}
  /\ n = 0 => so = Unread
  /\ n > 0 /\ so.cursor = NoCursor => B \subseteq so.shown
  /\ so.cursor # NoCursor =>
       /\ n <= Cardinality(so.shown)
       /\ \A r \in so.shown : ~Older(r, so.cursor)
       /\ \A r \in B : r \in so.shown \/ Older(r, so.cursor)

(* One page more, of any rows that hold all of B. *)
LEMMA ReadOn ==
  ASSUME NEW B \in SUBSET Draw, NEW rows \in SUBSET Draw, B \subseteq rows,
         NEW raw \in Int \union {NoLimit}, NEW n \in Nat, NEW so, Reading(B, so, n),
         n = 0 \/ so.cursor # NoCursor
  PROVE  Reading(B, NextPage(rows, raw, so), n + 1)
<1> DEFINE page == Feed(rows, raw, so.cursor)
           S == Behind(rows, so.cursor)
           next == page.nextCursor
           seen == so.shown \union page.items
           so2 == [shown |-> seen, again |-> so.again \union (so.shown \intersect page.items),
                   cursor |-> next]
<1>1. /\ so.shown \subseteq Draw /\ so.again = {} /\ so.cursor \in Draw \union {NoCursor}
      /\ n = 0 => so.shown = {} /\ so.cursor = NoCursor
  BY DEF Reading, Unread
<1>2. /\ page.items \subseteq S
      /\ next = NoCursor => page.items = S
      /\ next # NoCursor =>
           /\ next \in page.items
           /\ \A r \in S : r \in page.items \/ Older(r, next)
           /\ \A r \in page.items : ~Older(r, next)
  <2> DEFINE c == so.cursor
  <2>1. page = Feed(rows, raw, c) /\ c \in Draw \union {NoCursor}
    BY <1>1
  <2> HIDE DEF page, c
  <2>2. /\ page.items \subseteq Behind(rows, c)
        /\ page.nextCursor = NoCursor => page.items = Behind(rows, c)
        /\ page.nextCursor # NoCursor =>
             /\ page.nextCursor \in page.items
             /\ \A r \in Behind(rows, c) : r \in page.items \/ Older(r, page.nextCursor)
             /\ \A r \in page.items : ~Older(r, page.nextCursor)
    BY <2>1, FeedPage
  <2> QED
    BY <2>2 DEF c
<1>3. NextPage(rows, raw, so) = so2
  BY DEF NextPage
<1> HIDE DEF page, next
<1>4. \A r \in so.shown : r \notin page.items
  <2> SUFFICES ASSUME NEW r \in so.shown, r \in page.items PROVE FALSE
    OBVIOUS
  <2>1. so.cursor # NoCursor
    BY <1>1
  <2> QED
    BY <1>2, <2>1 DEF Reading, Behind
<1>5. \A r \in B : r \in so.shown \/ r \in S
  BY <1>1 DEF Reading, Behind
<1>6. S \subseteq Draw /\ page.items \subseteq Draw
  BY <1>2 DEF Behind
<1> HIDE DEF S
<1>7. seen \subseteq Draw /\ next \in Draw \union {NoCursor}
      /\ so.again \union (so.shown \intersect page.items) = {}
  BY <1>1, <1>2, <1>4, <1>6
<1>8. next = NoCursor => B \subseteq seen
  BY <1>2, <1>5
<1>9. ASSUME next # NoCursor
      PROVE  /\ n + 1 <= Cardinality(seen)
             /\ \A r \in seen : ~Older(r, next)
             /\ \A r \in B : r \in seen \/ Older(r, next)
  <2>1. next \in page.items /\ next \notin so.shown /\ next \in Draw
    BY <1>2, <1>4, <1>6, <1>9
  <2>2. n <= Cardinality(so.shown)
    <3>1. CASE n = 0
      BY <1>1, <3>1, FS_EmptySet
    <3>2. CASE so.cursor # NoCursor
      BY <3>2 DEF Reading
    <3> QED
      BY <3>1, <3>2
  <2>3. IsFiniteSet(so.shown) /\ IsFiniteSet(seen) /\ Cardinality(seen) \in Nat
        /\ Cardinality(so.shown) \in Nat
    BY <1>1, <1>7, AboveCounts
  <2>4. /\ IsFiniteSet(so.shown \union {next})
        /\ Cardinality(so.shown \union {next}) = Cardinality(so.shown) + 1
    BY <2>1, <2>3, FS_AddElement
  <2>5. Cardinality(so.shown \union {next}) <= Cardinality(seen)
    BY <2>1, <2>3, FS_Subset
  <2>6. ASSUME NEW r \in so.shown, Older(r, next) PROVE FALSE
    <3>1. so.cursor # NoCursor /\ so.cursor \in Draw
      BY <1>1, <2>6
    <3>2. Older(next, so.cursor) /\ ~Older(r, so.cursor)
      BY <1>2, <2>1, <2>6, <3>1 DEF Reading, S, Behind
    <3>3. r \in Draw
      BY <1>1, <2>6
    <3> QED
      BY <2>1, <2>6, <3>1, <3>2, <3>3, FeedOrder
  <2> QED
    BY <1>2, <1>5, <1>9, <2>2, <2>3, <2>4, <2>5, <2>6
<1>10. Reading(B, so2, n + 1)
  <2> HIDE DEF seen
  <2>1. so2.shown = seen /\ so2.again = {} /\ so2.cursor = next /\ n + 1 # 0
    BY <1>7
  <2> HIDE DEF so2
  <2> QED
    BY <1>7, <1>8, <1>9, <2>1 DEF Reading
<1> QED
  BY <1>3, <1>10

(* The equation of the walk, and that it has a solution. *)
Turn(before, after, raw, k, n, so) ==
  IF n = 0 THEN Unread
  ELSE IF n > 1 /\ so.cursor = NoCursor THEN so
  ELSE NextPage(IF n <= k THEN before ELSE after, raw, so)

Walks(w, before, after, raw, k, last) ==
  w = [n \in 0 .. last |-> Turn(before, after, raw, k, n, w[n - 1])]

LEMMA WalkDef ==
  ASSUME NEW before, NEW after, NEW raw, NEW k
  PROVE  Walk(before, after, raw, k)
           = (CHOOSE w : Walks(w, before, after, raw, k, Cardinality(Draw) + 1))[Cardinality(Draw) + 1]
  BY Zenon DEF Walk, Walks, Turn

LEMMA WalkExists ==
  ASSUME NEW before, NEW after, NEW raw, NEW k, NEW last \in Nat
  PROVE  \E w : Walks(w, before, after, raw, k, last)
<1> DEFINE G == {m \in Nat : \E w : Walks(w, before, after, raw, k, m)}
<1>1. 0 \in G
  <2> DEFINE w0 == [n \in 0 .. 0 |-> Unread]
  <2>1. w0 = [n \in 0 .. 0 |-> Turn(before, after, raw, k, n, w0[n - 1])]
    BY DEF Turn
  <2>2. Walks(w0, before, after, raw, k, 0)
    <3> HIDE DEF w0
    <3> QED
      BY <2>1 DEF Walks
  <2> QED
    BY <2>2
<1>2. ASSUME NEW m \in Nat, m \in G PROVE m + 1 \in G
  <2>1. PICK w : Walks(w, before, after, raw, k, m)
    BY <1>2
  <2> DEFINE t(n) == Turn(before, after, raw, k, n, w[n - 1])
             h == [n \in 0 .. m + 1 |-> t(n)]
  <2>2. \A n \in 0 .. m : h[n] = w[n]
    BY <2>1 DEF Walks
  <2>3. ASSUME NEW n \in 0 .. m + 1 PROVE t(n) = Turn(before, after, raw, k, n, h[n - 1])
    <3>1. CASE n = 0
      BY <3>1 DEF Turn
    <3>2. CASE n # 0
      <4>1. n - 1 \in 0 .. m
        BY <3>2
      <4>2. h[n - 1] = w[n - 1]
        <5> HIDE DEF h
        <5> QED
          BY <2>2, <4>1
      <4> HIDE DEF h
      <4> QED
        BY <4>2
    <3> QED
      BY <3>1, <3>2
  <2>4. Walks(h, before, after, raw, k, m + 1)
    <3> DEFINE f == h
    <3>1. h = [n \in 0 .. m + 1 |-> Turn(before, after, raw, k, n, f[n - 1])]
      <4> HIDE DEF f
      <4>1. \A n \in 0 .. m + 1 : t(n) = Turn(before, after, raw, k, n, f[n - 1])
        BY <2>3 DEF f
      <4> HIDE DEF t
      <4> QED
        BY <4>1
    <3> HIDE DEF h
    <3> QED
      BY <3>1 DEF Walks
  <2> HIDE DEF h
  <2> QED
    BY <2>4
<1> HIDE DEF G
<1>3. Nat \subseteq G
  BY <1>1, <1>2, NatInductionSet
<1> QED
  BY <1>3 DEF G

(* However rows come in between its pages: the client of a walk is shown all
   that was there when it began, and nothing twice. *)
LEMMA WalkShows ==
  ASSUME NEW before \in SUBSET Draw, NEW after \in SUBSET Draw, before \subseteq after,
         NEW raw \in Int \union {NoLimit}, NEW k \in Int
  PROVE  /\ before \subseteq Walk(before, after, raw, k).shown
         /\ Walk(before, after, raw, k).again = {}
<1> DEFINE last == Cardinality(Draw) + 1
           walk == Walk(before, after, raw, k)
<1>1. IsFiniteSet(Draw) /\ Cardinality(Draw) \in Nat /\ last \in Nat
  BY ActivityAssumption, FS_CardinalityType
<1>2. PICK w : Walks(w, before, after, raw, k, last) /\ walk = w[last]
  <2> HIDE DEF last
  <2>1. \E w : Walks(w, before, after, raw, k, last)
    BY <1>1, WalkExists
  <2>2. walk = (CHOOSE w : Walks(w, before, after, raw, k, last))[last]
    BY WalkDef DEF last
  <2> QED
    BY <2>1, <2>2
<1> HIDE DEF last, walk
<1>3. \A n \in 0 .. last : w[n] = Turn(before, after, raw, k, n, w[n - 1])
  BY <1>2 DEF Walks
<1> DEFINE G == {n \in Nat : n <= last => Reading(before, w[n], n)}
<1>4. 0 \in G
  <2>1. w[0] = Unread
    BY <1>1, <1>3 DEF Turn
  <2>2. Reading(before, Unread, 0)
    BY DEF Reading, Unread
  <2> QED
    BY <2>1, <2>2
<1>5. ASSUME NEW n \in Nat, n \in G PROVE n + 1 \in G
  <2> SUFFICES ASSUME n + 1 <= last PROVE Reading(before, w[n + 1], n + 1)
    OBVIOUS
  <2> DEFINE so == w[n]
             rows == IF n + 1 <= k THEN before ELSE after
  <2>1. Reading(before, so, n)
    BY <1>1, <1>5
  <2>2. w[n + 1] = IF n + 1 > 1 /\ so.cursor = NoCursor THEN so ELSE NextPage(rows, raw, so)
    <3>1. n + 1 \in 0 .. last /\ (n + 1) - 1 = n /\ n + 1 # 0
      BY <1>1
    <3>2. w[n + 1] = Turn(before, after, raw, k, n + 1, so)
      BY <1>3, <3>1
    <3> QED
      BY <3>1, <3>2 DEF Turn
  <2>3. rows \in SUBSET Draw /\ before \subseteq rows
    OBVIOUS
  <2> HIDE DEF so, rows
  <2>4. CASE n + 1 > 1 /\ so.cursor = NoCursor
    <3>1. w[n + 1] = so /\ n > 0
      BY <2>2, <2>4
    <3>2. Reading(before, so, n + 1)
      BY <2>1, <2>4, <3>1 DEF Reading
    <3> QED
      BY <3>1, <3>2
  <2>5. CASE ~(n + 1 > 1 /\ so.cursor = NoCursor)
    <3>1. n = 0 \/ so.cursor # NoCursor
      BY <2>5
    <3>2. w[n + 1] = NextPage(rows, raw, so)
      BY <2>2, <2>5
    <3>3. Reading(before, NextPage(rows, raw, so), n + 1)
      BY <2>1, <2>3, <3>1, ReadOn
    <3> QED
      BY <3>2, <3>3
  <2> QED
    BY <2>4, <2>5
<1>6. last \in G
  <2> HIDE DEF G
  <2> QED
    BY <1>1, <1>4, <1>5, NatInductionSet
<1>7. Reading(before, walk, last)
  BY <1>1, <1>2, <1>6
<1>8. walk.cursor = NoCursor
  <2> SUFFICES ASSUME walk.cursor # NoCursor PROVE FALSE
    OBVIOUS
  <2>1. last <= Cardinality(walk.shown) /\ walk.shown \subseteq Draw
    BY <1>7 DEF Reading
  <2>2. Cardinality(walk.shown) <= Cardinality(Draw) /\ Cardinality(walk.shown) \in Nat
    BY <1>1, <2>1, FS_Subset, FS_CardinalityType
  <2> QED
    BY <1>1, <2>1, <2>2 DEF last
<1>9. last > 0
  BY <1>1 DEF last
<1> QED
  BY <1>7, <1>8, <1>9 DEF Reading, walk

-----------------------------------------------------------------------------
(* The feed and the ledger together. *)

(* The feed only grows, by one row at a time. *)
LEMMA FeedGrows ==
  ASSUME activities \subseteq Draw, [LifeNext]_lifeVars
  PROVE  activities \subseteq activities' /\ activities' \subseteq Draw
<1>1. Record \/ UNCHANGED activities
  BY DEF LifeNext, lifeVars, ExpenseAdded, SettlementCompleted, MemberAdded, GroupCreated,
         FriendAccepted, RecordGroupCreated, RecordFriendAccepted, Fanout
<1> QED
  BY <1>1 DEF Record

(* A client that reads on while an event comes in is shown each row that was
   there when it began, once, whatever the size of a page and however many
   stamps tie: activity.service.ts feed, activity.repository.ts listForUser. *)
THEOREM FeedReadsOn == LifeSpec => FeedWalks
<1> DEFINE Shown ==
             activities # activities' =>
               \A raw \in {NoLimit, 0, ACTIVITY_MAX_LIMIT + 1}, k \in 1 .. Cardinality(activities) :
                 LET walk == Walk(activities, activities', raw, k)
                 IN  activities \subseteq walk.shown /\ activities \intersect walk.again = {}
           Inv == activities \subseteq Draw
<1>1. LifeInit => Inv
  BY DEF LifeInit
<1>2. Inv /\ [LifeNext]_lifeVars => Inv'
  BY FeedGrows
<1>3. Inv /\ [LifeNext]_lifeVars => [Shown]_activities
  <2> SUFFICES ASSUME Inv, [LifeNext]_lifeVars,
                      NEW raw \in {NoLimit, 0, ACTIVITY_MAX_LIMIT + 1},
                      NEW k \in 1 .. Cardinality(activities)
               PROVE  /\ activities \subseteq Walk(activities, activities', raw, k).shown
                      /\ activities \intersect Walk(activities, activities', raw, k).again = {}
    OBVIOUS
  <2>1. activities \in SUBSET Draw /\ activities' \in SUBSET Draw /\ activities \subseteq activities'
    BY FeedGrows
  <2>2. raw \in Int \union {NoLimit} /\ k \in Int
    BY ActivityAssumption
  <2> QED
    BY <2>1, <2>2, WalkShows
<1>4. FeedWalks <=> [][Shown]_activities
  BY DEF FeedWalks
<1> HIDE DEF Shown, Inv
<1> QED
  BY <1>1, <1>2, <1>3, <1>4, PTL DEF LifeSpec

(* Feeds and lists beside it, the ledger is the ledger: each step of a trip's
   life is a step of Ledger or leaves its state alone. *)
THEOREM LifeIsLedger == LifeSpec => Spec
<1>1. LifeInit => Init
  BY DEF LifeInit
<1>2. [LifeNext]_lifeVars => [Next]_vars
  BY DEF LifeNext, lifeVars, Next, Step, Unrecorded, ExpenseAdded, SettlementCompleted,
         MemberAdded, GroupCreated, FriendAccepted
<1> QED
  BY <1>1, <1>2, PTL DEF LifeSpec, Spec

-----------------------------------------------------------------------------
(* Lists by offset: what two lists of different moments have in common. *)

(* The rows of E up to row i, and how many they are. *)
Upto(E, order, i) == {j \in E : order[j] <= order[i]}
Place(E, order, i) == Cardinality(Upto(E, order, i))

(* The rows of D stand in one line. *)
Lined(D, order) ==
  /\ IsFiniteSet(D)
  /\ \A i \in D : order[i] \in Int
  /\ \A i, j \in D : order[i] = order[j] => i = j

(* The rows of a set that are one, or as many as a smaller set allows. *)
LEMMA Parts ==
  ASSUME NEW D, IsFiniteSet(D), NEW S \in SUBSET D, NEW T \in SUBSET D
  PROVE  /\ IsFiniteSet(S) /\ Cardinality(S) \in Nat
         /\ Cardinality(S \ T) \in Nat /\ Cardinality(S \intersect T) \in Nat
         /\ S \subseteq T => Cardinality(S) <= Cardinality(T)
<1>1. IsFiniteSet(S) /\ IsFiniteSet(T)
  BY FS_Subset
<1>2. IsFiniteSet(S \ T) /\ IsFiniteSet(S \intersect T)
  BY <1>1, FS_Difference, FS_Intersection
<1>3. /\ Cardinality(S) \in Nat /\ Cardinality(T) \in Nat
      /\ Cardinality(S \ T) \in Nat /\ Cardinality(S \intersect T) \in Nat
  BY <1>1, <1>2, FS_CardinalityType
<1>4. S \subseteq T => Cardinality(S) <= Cardinality(T)
  BY <1>1, FS_Subset
<1> QED
  BY <1>1, <1>3, <1>4

LEMMA Disjoint ==
  ASSUME NEW D, IsFiniteSet(D), NEW S \in SUBSET D, NEW T \in SUBSET D, S \intersect T = {}
  PROVE  Cardinality(S \union T) = Cardinality(S) + Cardinality(T)
<1>1. IsFiniteSet(S) /\ IsFiniteSet(T)
  BY FS_Subset
<1>2. Cardinality(S) \in Nat /\ Cardinality(T) \in Nat /\ Cardinality({}) = 0
  BY <1>1, FS_CardinalityType, FS_EmptySet
<1>3. Cardinality(S \union T) = Cardinality(S) + Cardinality(T) - Cardinality(S \intersect T)
  BY <1>1, FS_Union
<1>4. Cardinality(S \intersect T) = 0
  BY <1>2
<1> QED
  BY <1>2, <1>3, <1>4

LEMMA Rest ==
  ASSUME NEW D, IsFiniteSet(D), NEW S \in SUBSET D, NEW T
  PROVE  Cardinality(S) = Cardinality(S \ T) + Cardinality(S \intersect T)
<1>1. IsFiniteSet(S)
  BY FS_Subset
<1>2. Cardinality(S) \in Nat /\ Cardinality(S \intersect T) \in Nat
  BY <1>1, FS_CardinalityType, FS_Intersection
<1>3. Cardinality(S \ T) = Cardinality(S) - Cardinality(S \intersect T)
  BY <1>1, FS_Difference
<1> QED
  BY <1>2, <1>3

(* A set of rows has a first one and a last one. *)
LEMMA LineEnds ==
  ASSUME NEW D, NEW order, Lined(D, order), NEW T \in SUBSET D, T # {}
  PROVE  /\ \E i \in T : \A j \in T : order[i] <= order[j]
         /\ \E i \in T : \A j \in T : order[j] <= order[i]
<1> DEFINE G == {U \in SUBSET T : U # {} =>
                   /\ \E i \in U : \A j \in U : order[i] <= order[j]
                   /\ \E i \in U : \A j \in U : order[j] <= order[i]}
<1>1. {} \in G
  OBVIOUS
<1>2. ASSUME NEW U \in SUBSET T, NEW x \in U, U \ {x} \in G PROVE U \in G
  <2>0. \A i \in U : order[i] \in Int
    BY DEF Lined
  <2>1. CASE U \ {x} = {}
    BY <2>0, <2>1
  <2>2. CASE U \ {x} # {}
    <3>1. PICK lo \in U \ {x} : \A j \in U \ {x} : order[lo] <= order[j]
      BY <1>2, <2>2
    <3>2. PICK hi \in U \ {x} : \A j \in U \ {x} : order[j] <= order[hi]
      BY <1>2, <2>2
    <3>3. \E i \in U : \A j \in U : order[i] <= order[j]
      <4>1. CASE order[lo] <= order[x]
        BY <3>1, <4>1
      <4>2. CASE order[x] <= order[lo]
        BY <2>0, <3>1, <4>2
      <4> QED
        BY <2>0, <3>1, <4>1, <4>2
    <3>4. \E i \in U : \A j \in U : order[j] <= order[i]
      <4>1. CASE order[x] <= order[hi]
        BY <3>2, <4>1
      <4>2. CASE order[hi] <= order[x]
        BY <2>0, <3>2, <4>2
      <4> QED
        BY <2>0, <3>2, <4>1, <4>2
    <3> QED
      BY <3>3, <3>4
  <2> QED
    BY <2>1, <2>2
<1>3. IsFiniteSet(T)
  BY FS_Subset DEF Lined
<1>4. T \in G
  <2> HIDE DEF G
  <2> QED
    BY <1>1, <1>2, <1>3, SetInduction
<1> QED
  BY <1>4

LEMMA PlaceFits ==
  ASSUME NEW D, NEW order, Lined(D, order), NEW E \in SUBSET D
  PROVE  /\ Cardinality(E) \in Nat
         /\ \A i \in E : /\ Place(E, order, i) \in 1 .. Cardinality(E)
                         /\ Place(E, order, i) = Cardinality({j \in E : order[j] < order[i]}) + 1
<1>1. IsFiniteSet(D)
  BY DEF Lined
<1>2. IsFiniteSet(E) /\ Cardinality(E) \in Nat
  BY <1>1, FS_Subset, FS_CardinalityType
<1>3. ASSUME NEW i \in E
      PROVE  /\ Place(E, order, i) \in 1 .. Cardinality(E)
             /\ Place(E, order, i) = Cardinality({j \in E : order[j] < order[i]}) + 1
  <2> DEFINE less == {j \in E : order[j] < order[i]}
  <2>1. \A j \in E : order[j] \in Int /\ (order[j] = order[i] => i = j)
    BY DEF Lined
  <2>2. Upto(E, order, i) = less \union {i} /\ i \notin less /\ less \in SUBSET E
    BY <2>1 DEF Upto
  <2>3. IsFiniteSet(less) /\ Cardinality(less) \in Nat
    BY <1>2, <2>2, FS_Subset, FS_CardinalityType
  <2>4. Cardinality(less \union {i}) = Cardinality(less) + 1
    BY <2>2, <2>3, FS_AddElement
  <2>5. Cardinality(Upto(E, order, i)) <= Cardinality(E)
    BY <1>2, FS_Subset DEF Upto
  <2> HIDE DEF less
  <2>6. Place(E, order, i) = Cardinality(less) + 1
    BY <2>2, <2>4 DEF Place
  <2>7. Place(E, order, i) \in 1 .. Cardinality(E)
    BY <1>2, <2>3, <2>5, <2>6 DEF Place
  <2> QED
    BY <2>6, <2>7 DEF less
<1> QED
  BY <1>2, <1>3

(* Of a list of E that becomes one of F: the rows on the first m places, and
   those that move up into these places, or down past them. *)
ReadBy(E, order, m) == {i \in E : Place(E, order, i) <= m}
MovedUp(E, F, order, m) == {i \in E \intersect F : Place(E, order, i) > m /\ Place(F, order, i) <= m}
MovedDown(E, F, order, m) == {i \in E \intersect F : Place(E, order, i) <= m /\ Place(F, order, i) > m}

(* The rows a client does not see though they were there all the time: they
   have moved up into the m places it has read, and for each of them a row it
   has seen has gone. *)
LEMMA RowsLost ==
  ASSUME NEW D, NEW order, Lined(D, order), NEW E \in SUBSET D, NEW F \in SUBSET D, NEW m \in Nat
  PROVE  Cardinality(MovedUp(E, F, order, m)) <= Cardinality(ReadBy(E, order, m) \ F)
<1> SUFFICES ASSUME NEW seen, seen = {i \in E : Place(E, order, i) <= m},
                    NEW lost, lost = {i \in E \intersect F : Place(E, order, i) > m /\ Place(F, order, i) <= m}
             PROVE  Cardinality(lost) <= Cardinality(seen \ F)
  BY DEF MovedUp, ReadBy
<1>1. IsFiniteSet(D) /\ seen \in SUBSET D /\ lost \in SUBSET D /\ F \in SUBSET D
  BY DEF Lined
<1>2. Cardinality(seen \ F) \in Nat
  BY <1>1, Parts
<1>3. CASE lost = {}
  BY <1>2, <1>3, FS_EmptySet
<1>4. CASE lost # {}
  <2>1. PICK l \in lost : \A j \in lost : order[j] <= order[l]
    <3> HIDE DEF Lined
    <3> QED
      BY <1>1, <1>4, LineEnds
  <2>2. E \ seen \in SUBSET D /\ E \ seen # {}
    <3>1. Place(E, order, l) \in 1 .. Cardinality(E) /\ Cardinality(E) \in Nat
      BY <2>1, PlaceFits
    <3> QED
      BY <2>1, <3>1
  <2>3. PICK f \in E \ seen : \A j \in E \ seen : order[f] <= order[j]
    BY <2>2, LineEnds
  <2>4. \A i \in E : Place(E, order, i) \in Nat
    <3>1. Cardinality(E) \in Nat /\ \A i \in E : Place(E, order, i) \in 1 .. Cardinality(E)
      BY PlaceFits
    <3> QED
      BY <3>1
  <2>5. ASSUME NEW s \in seen, NEW i \in E, ~(order[s] < order[i]) PROVE i \in seen
    <3>1. Upto(E, order, i) \subseteq Upto(E, order, s)
      BY <2>5 DEF Upto, Lined
    <3>2. Place(E, order, i) <= Place(E, order, s)
      <4>1. Upto(E, order, s) \in SUBSET D /\ Upto(E, order, i) \in SUBSET D
        BY DEF Upto
      <4> QED
        BY <1>1, <3>1, <4>1, Parts DEF Place
    <3> QED
      BY <2>4, <2>5, <3>2
  <2>6. {j \in E : order[j] < order[f]} = seen
    <3>1. \A j \in seen : j \in E /\ order[j] < order[f]
      BY <2>3, <2>5
    <3>2. \A j \in E : order[j] < order[f] => j \in seen
      BY <2>3 DEF Lined
    <3> QED
      BY <3>1, <3>2
  <2>7. m <= Cardinality(seen)
    <3>1. Place(E, order, f) = Cardinality(seen) + 1
      <4>1. Place(E, order, f) = Cardinality({j \in E : order[j] < order[f]}) + 1
        BY <2>3, PlaceFits
      <4> QED
        BY <2>6, <4>1
    <3>2. Place(E, order, f) > m
      BY <2>3, <2>4
    <3>3. Cardinality(seen) \in Nat
      BY <1>1, Parts
    <3> QED
      BY <3>1, <3>2, <3>3
  <2>8. (seen \intersect F) \union lost \subseteq Upto(F, order, l)
    <3>1. l \in E \intersect F /\ l \notin seen
      BY <2>1, <2>4
    <3>2. \A j \in seen \intersect F : order[j] < order[l]
      BY <2>5, <3>1
    <3>3. \A j \in seen \intersect F : order[j] <= order[l]
      BY <3>1, <3>2 DEF Lined
    <3> QED
      BY <2>1, <3>3 DEF Upto
  <2>9. Cardinality(seen \intersect F) + Cardinality(lost) <= m
    <3> DEFINE A == seen \intersect F
               U == Upto(F, order, l)
    <3>1. A \in SUBSET D /\ U \in SUBSET D /\ A \union lost \in SUBSET D
      BY <1>1 DEF Upto
    <3>2. A \intersect lost = {}
      BY <2>4
    <3>3. A \union lost \subseteq U
      BY <2>8
    <3>4. Cardinality(U) <= m
      BY <2>1 DEF Place
    <3> HIDE DEF A, U
    <3>5. Cardinality(A \union lost) = Cardinality(A) + Cardinality(lost)
      BY <1>1, <3>1, <3>2, Disjoint
    <3>6. Cardinality(A \union lost) <= Cardinality(U) /\ Cardinality(U) \in Nat
      BY <1>1, <3>1, <3>3, Parts
    <3>7. Cardinality(A) \in Nat /\ Cardinality(lost) \in Nat
      BY <1>1, <3>1, Parts
    <3>8. Cardinality(A) + Cardinality(lost) <= m
      BY <3>4, <3>5, <3>6, <3>7
    <3> QED
      BY <3>8 DEF A
  <2>10. /\ Cardinality(seen) = Cardinality(seen \ F) + Cardinality(seen \intersect F)
         /\ Cardinality(seen) \in Nat /\ Cardinality(seen \intersect F) \in Nat
         /\ Cardinality(lost) \in Nat
    <3>1. Cardinality(seen) = Cardinality(seen \ F) + Cardinality(seen \intersect F)
      BY <1>1, Rest
    <3>2. Cardinality(seen \intersect F) \in Nat
      BY <1>1, Parts
    <3>3. Cardinality(seen) \in Nat
      BY <1>1, Parts
    <3>4. Cardinality(lost) \in Nat
      BY <1>1, Parts
    <3> QED
      BY <3>1, <3>2, <3>3, <3>4
  <2> QED
    BY <1>2, <2>7, <2>9, <2>10
<1> QED
  BY <1>3, <1>4

(* The rows a client sees twice: they have moved down past the m places it has
   read, and for each of them a row has come in. *)
LEMMA RowsAgain ==
  ASSUME NEW D, NEW order, Lined(D, order), NEW E \in SUBSET D, NEW F \in SUBSET D, NEW m \in Nat
  PROVE  Cardinality(MovedDown(E, F, order, m)) <= Cardinality(F \ E)
<1> SUFFICES ASSUME NEW again,
                    again = {i \in E \intersect F : Place(E, order, i) <= m /\ Place(F, order, i) > m}
             PROVE  Cardinality(again) <= Cardinality(F \ E)
  BY DEF MovedDown
<1>1. IsFiniteSet(D) /\ again \in SUBSET D /\ E \in SUBSET D /\ F \in SUBSET D
  BY DEF Lined
<1>2. Cardinality(F \ E) \in Nat
  BY <1>1, Parts
<1>3. CASE again = {}
  BY <1>2, <1>3, FS_EmptySet
<1>4. CASE again # {}
  <2>1. PICK f \in again : \A j \in again : order[f] <= order[j]
    BY <1>1, <1>4, LineEnds
  <2>2. PICK l \in again : \A j \in again : order[j] <= order[l]
    BY <1>1, <1>4, LineEnds
  <2> DEFINE A == {j \in E : order[j] < order[f]}
             B == {j \in F : order[j] < order[f]}
             U == Upto(E, order, l)
  <2>3. f \in E /\ f \in F /\ l \in E /\ Place(E, order, l) <= m /\ Place(F, order, f) > m
    BY <2>1, <2>2
  <2>4. A \in SUBSET D /\ B \in SUBSET D /\ U \in SUBSET D
    BY DEF Upto
  <2>5. Cardinality(B) \in Nat
    BY <1>1, <2>4, Parts
  <2>6. m <= Cardinality(B)
    <3>1. Place(F, order, f) = Cardinality(B) + 1
      BY <2>3, PlaceFits
    <3> QED
      BY <2>3, <2>5, <3>1
  <2>7. A \intersect again = {} /\ A \union again \subseteq U
    <3>1. \A j \in E : order[j] \in Int
      BY DEF Lined
    <3>2. \A j \in A : order[j] <= order[l]
      BY <2>1, <2>2, <2>3, <3>1
    <3>3. \A j \in again : j \notin A
      BY <2>1, <2>3, <3>1
    <3> QED
      BY <2>2, <3>2, <3>3 DEF Upto
  <2>8. B \ A \subseteq F \ E
    OBVIOUS
  <2>9. Cardinality(U) <= m
    BY <2>3 DEF Place
  <2> HIDE DEF A, B, U
  <2>10. Cardinality(A \union again) = Cardinality(A) + Cardinality(again)
    BY <1>1, <2>4, <2>7, Disjoint
  <2>11. Cardinality(A \union again) <= Cardinality(U)
    <3>1. A \union again \in SUBSET D
      BY <1>1, <2>4
    <3> QED
      BY <1>1, <2>4, <2>7, <3>1, Parts
  <2>12. Cardinality(B) = Cardinality(B \ A) + Cardinality(B \intersect A)
    BY <1>1, <2>4, Rest
  <2>13. Cardinality(B \intersect A) <= Cardinality(A)
    <3>1. B \intersect A \in SUBSET D /\ B \intersect A \subseteq A
      BY <2>4
    <3> QED
      BY <1>1, <2>4, <3>1, Parts
  <2>14. Cardinality(B \ A) <= Cardinality(F \ E)
    <3>1. B \ A \in SUBSET D /\ F \ E \in SUBSET D
      BY <2>4
    <3> QED
      BY <1>1, <2>8, <3>1, Parts
  <2>15. Cardinality(A) \in Nat
    BY <1>1, <2>4, Parts
  <2>16. Cardinality(again) \in Nat
    BY <1>1, Parts
  <2>17. Cardinality(B \ A) \in Nat
    BY <1>1, <2>4, Parts
  <2>18. Cardinality(B \intersect A) \in Nat
    BY <1>1, <2>4, Parts
  <2>19. Cardinality(U) \in Nat
    BY <1>1, <2>4, Parts
  <2>20. \A a, b, u, g, ba, bb, fe \in Nat :
           m <= b /\ u <= m /\ a + g <= u /\ b = ba + bb /\ bb <= a /\ ba <= fe => g <= fe
    OBVIOUS
  <2>21. Cardinality(A) + Cardinality(again) <= Cardinality(U)
    BY <2>10, <2>11
  <2> QED
    BY <1>2, <2>5, <2>6, <2>9, <2>12, <2>13, <2>14, <2>15, <2>16, <2>17, <2>18, <2>19, <2>20, <2>21
<1> QED
  BY <1>3, <1>4

(* Place p is on page n of s rows; every place is on one. *)
OnPage(p, s, n) == (n - 1) * s < p /\ p <= n * s

LEMMA PageOfPlace ==
  ASSUME NEW s \in Nat \ {0}, NEW p \in Nat \ {0}
  PROVE  \E n \in 1 .. p : OnPage(p, s, n)
<1> DEFINE G == {q \in Nat : q > 0 => \E n \in 1 .. q : OnPage(q, s, n)}
<1>1. 0 \in G
  OBVIOUS
<1>2. ASSUME NEW q \in Nat, q \in G PROVE q + 1 \in G
  <2>1. CASE q = 0
    <3>1. 1 \in 1 .. q + 1 /\ OnPage(q + 1, s, 1)
      BY <2>1 DEF OnPage
    <3> QED
      BY <2>1, <3>1
  <2>2. CASE q > 0
    <3>1. PICK n \in 1 .. q : (n - 1) * s < q /\ q <= n * s
      BY <1>2, <2>2 DEF OnPage
    <3>2. n * s \in Int /\ (n - 1) * s \in Int /\ (n + 1) * s = n * s + s /\ (n + 1) - 1 = n
      OBVIOUS
    <3>3. CASE q + 1 <= n * s
      <4>1. n \in 1 .. q + 1 /\ OnPage(q + 1, s, n)
        BY <3>1, <3>2, <3>3 DEF OnPage
      <4> QED
        BY <4>1
    <3>4. CASE n * s < q + 1
      <4>1. n + 1 \in 1 .. q + 1 /\ OnPage(q + 1, s, n + 1)
        BY <3>1, <3>2, <3>4 DEF OnPage
      <4> QED
        BY <4>1
    <3> QED
      BY <3>2, <3>3, <3>4
  <2> QED
    BY <2>1, <2>2
<1>3. p \in G
  <2> HIDE DEF G
  <2> QED
    BY <1>1, <1>2, NatInductionSet
<1> QED
  BY <1>3

LEMMA Multiples ==
  ASSUME NEW s \in Nat, NEW m \in Int, NEW n \in Int, m <= n
  PROVE  m * s \in Int /\ n * s \in Int /\ m * s <= n * s
<1>1. (n - m) \in Nat /\ n * s = m * s + (n - m) * s
  OBVIOUS
<1>2. (n - m) * s \in Nat
  BY <1>1
<1> QED
  BY <1>1, <1>2

LEMMA OnePage ==
  ASSUME NEW s \in Nat, NEW p \in Int, NEW n \in Int, NEW m \in Int,
         OnPage(p, s, n), OnPage(p, s, m)
  PROVE  n = m
<1>1. ASSUME NEW a \in Int, NEW b \in Int, OnPage(p, s, a), OnPage(p, s, b) PROVE ~(a < b)
  <2> SUFFICES ASSUME a < b PROVE FALSE
    OBVIOUS
  <2>1. a * s <= (b - 1) * s /\ a * s \in Int /\ (b - 1) * s \in Int
    BY Multiples
  <2> QED
    BY <1>1, <2>1 DEF OnPage
<1> QED
  BY <1>1

(* The rows of page n of a list, of s rows a page. *)
PageRows(E, order, s, n) == {i \in E : OnPage(Place(E, order, i), s, n)}

(* All that the pages may be, if the count says t. *)
Answers(E, t, orders, s) ==
  {[page |-> n, items |-> PageRows(E, order, s, n), total |-> t] : n \in PageNumber, order \in orders}

(* Every row of a list is on a page that a client can ask for. *)
LEMMA EachHasPage ==
  ASSUME NEW D, NEW order, Lined(D, order), Cardinality(D) <= MaxRows,
         NEW E \in SUBSET D, NEW i \in E, NEW s \in Nat \ {0}
  PROVE  /\ Place(E, order, i) \in Nat \ {0} /\ Place(E, order, i) <= Cardinality(E)
         /\ \E n \in PageNumber : OnPage(Place(E, order, i), s, n)
<1>0. MaxRows \in Nat /\ Cardinality(D) \in Nat /\ IsFiniteSet(D)
  BY LedgerAssumption, FS_CardinalityType DEF Lined
<1>1. Cardinality(E) \in Nat /\ Place(E, order, i) \in 1 .. Cardinality(E)
  BY PlaceFits
<1>2. Cardinality(E) <= Cardinality(D)
  BY <1>0, FS_Subset
<1>3. Place(E, order, i) \in Nat \ {0} /\ Place(E, order, i) <= Cardinality(E)
  BY <1>1
<1>4. PICK n \in 1 .. Place(E, order, i) : OnPage(Place(E, order, i), s, n)
  BY <1>3, PageOfPlace
<1>5. n \in PageNumber
  BY <1>0, <1>1, <1>2, <1>3 DEF PageNumber
<1> QED
  BY <1>3, <1>4, <1>5

(* Ties leave the rows in a line. *)
LEMMA TiesLine ==
  ASSUME NEW D, IsFiniteSet(D), NEW stamp \in Stamps(D), NEW order \in Arrangements(stamp)
  PROVE  /\ Lined(D, order)
         /\ \A i \in D : stamp[i] \in Int
         /\ \A i, j \in D : stamp[i] < stamp[j] => order[i] < order[j]
<1>1. DOMAIN stamp = D /\ \A i \in D : stamp[i] \in 1 .. Cardinality(D)
  BY DEF Stamps
<1>2. Cardinality(D) \in Nat
  BY FS_CardinalityType
<1>3. order \in [D -> 1 .. Cardinality(D)] /\ \A i, j \in D : order[i] = order[j] => i = j
  BY <1>1 DEF Arrangements, Bijection, Injection, IsInjective
<1>4. Lined(D, order)
  BY <1>2, <1>3 DEF Lined
<1> QED
  BY <1>1, <1>2, <1>4 DEF Arrangements

(* A firm row is on the same page, however the ties fall. *)
LEMMA FirmPage ==
  ASSUME NEW D, IsFiniteSet(D), NEW stamp \in Stamps(D), NEW rows, DOMAIN rows \in SUBSET D,
         NEW s \in Nat \ {0}, NEW i \in Firm(rows, stamp, s)
  PROVE  \E n \in PageNumber : \A order \in Arrangements(stamp) :
           OnPage(Place(DOMAIN rows, order, i), s, n)
<1> DEFINE E == DOMAIN rows
           less == {j \in E : stamp[j] < stamp[i]}
           upto == {j \in E : stamp[j] <= stamp[i]}
<1>1. PICK n \in PageNumber : (n - 1) * s <= Cardinality(less) /\ Cardinality(upto) <= n * s
  BY DEF Firm
<1>2. i \in E /\ n \in Int
  BY LedgerAssumption DEF Firm, PageNumber
<1>3. (n - 1) * s \in Int /\ n * s \in Int
  BY <1>2
<1>4. ASSUME NEW order \in Arrangements(stamp) PROVE OnPage(Place(E, order, i), s, n)
  <2>1. /\ Lined(D, order) /\ \A j \in D : stamp[j] \in Int /\ order[j] \in Int
        /\ \A j, k \in D : stamp[j] < stamp[k] => order[j] < order[k]
    BY TiesLine DEF Lined
  <2> DEFINE ahead == {j \in E : order[j] < order[i]}
             place == Upto(E, order, i)
  <2>2. less \subseteq ahead
    BY <1>2, <2>1
  <2>3. place \subseteq upto
    BY <1>2, <2>1 DEF Upto
  <2>4. less \in SUBSET D /\ ahead \in SUBSET D /\ place \in SUBSET D /\ upto \in SUBSET D
    BY DEF Upto
  <2>5. Place(E, order, i) = Cardinality(ahead) + 1
    BY <1>2, <2>1, PlaceFits
  <2> HIDE DEF less, ahead, place, upto
  <2>6. Cardinality(less) <= Cardinality(ahead)
    BY <2>2, <2>4, Parts
  <2>7. Cardinality(place) <= Cardinality(upto)
    BY <2>3, <2>4, Parts
  <2>8. Cardinality(less) \in Nat /\ Cardinality(ahead) \in Nat
    BY <2>4, Parts
  <2>9. Cardinality(place) \in Nat /\ Cardinality(upto) \in Nat
    BY <2>4, Parts
  <2>10. Place(E, order, i) = Cardinality(place)
    BY DEF Place, place
  <2> QED
    BY <1>1, <1>3, <2>5, <2>6, <2>7, <2>8, <2>9, <2>10 DEF OnPage
<1> QED
  BY <1>1, <1>4

(* The two queries take the rows of a page by skip and take. *)
LEMMA PageTakes ==
  ASSUME NEW rows, NEW D, NEW order, Lined(D, order), DOMAIN rows \in SUBSET D,
         NEW s \in 1 .. MAX_PAGE_SIZE, NEW n \in Nat \ {0}
  PROVE  PageOf(rows, order, Paginate(n, s)) = PageRows(DOMAIN rows, order, s, n)
<1> DEFINE E == DOMAIN rows
           params == Paginate(n, s)
<1>1. s \in Nat \ {0} /\ (n - 1) * s \in Int /\ (n - 1) * s + s = n * s
  BY PageAssumption
<1>2. params.skip = (n - 1) * s /\ params.take = s
  <2>1. Clamp(n, n) = n /\ Clamp(s, MAX_PAGE_SIZE) = s
    BY PageAssumption DEF Clamp
  <2> QED
    BY <2>1 DEF Paginate
<1>3. PageOf(rows, order, params) = {i \in E : Place(E, order, i) \in params.skip + 1 .. params.skip + params.take}
  BY DEF PageOf, Place, Upto
<1> HIDE DEF params, E
<1>4. ASSUME NEW i \in E
      PROVE  Place(E, order, i) \in params.skip + 1 .. params.skip + params.take
               <=> OnPage(Place(E, order, i), s, n)
  <2>1. Cardinality(E) \in Nat /\ Place(E, order, i) \in 1 .. Cardinality(E)
    BY <1>4, PlaceFits DEF E
  <2> DEFINE p == Place(E, order, i)
             m == (n - 1) * s
  <2>2. p \in Int /\ m \in Int /\ s \in Int
    BY <1>1, <2>1
  <2>3. OnPage(p, s, n) <=> m < p /\ p <= m + s
    BY <1>1 DEF OnPage
  <2>4. params.skip = m /\ params.take = s
    BY <1>2
  <2> HIDE DEF p, m
  <2>5. p \in m + 1 .. m + s <=> m < p /\ p <= m + s
    BY <2>2
  <2>6. p \in params.skip + 1 .. params.skip + params.take <=> OnPage(p, s, n)
    BY <2>3, <2>4, <2>5
  <2> QED
    BY <2>6 DEF p
<1>5. PageOf(rows, order, params) = PageRows(E, order, s, n)
  BY <1>3, <1>4 DEF PageRows
<1> QED
  BY <1>5 DEF params, E

(* What a client may read, of the rows E before it asks for page k + 1 and of F
   from there on. *)
Count(E, F, k, late, n) == IF n > k \/ (n = k /\ late) THEN Cardinality(F) ELSE Cardinality(E)

Asked(E, F, s, k, late) ==
  {n \in PageNumber : \A m \in PageNumber : m < n => m * s < Count(E, F, k, late, m)}

ReadingOf(E, F, orders, s, k, late) ==
  {[page |-> n, items |-> PageRows(IF n > k THEN F ELSE E, order, s, n),
    total |-> Count(E, F, k, late, n)] : n \in Asked(E, F, s, k, late), order \in orders}

WalkOf(E, F, orders, firm, s) ==
  [before |-> Answers(E, Cardinality(E), orders, s), between |-> Answers(E, Cardinality(F), orders, s),
   after |-> Answers(F, Cardinality(F), orders, s), firm |-> firm, pageSize |-> s]

LEMMA ReadingsAre ==
  ASSUME NEW E, NEW F, NEW orders, NEW firm, NEW s \in Nat \ {0}, NEW k \in 0 .. MaxRows,
         NEW reading \in Readings(WalkOf(E, F, orders, firm, s), k)
  PROVE  \E late \in BOOLEAN : reading = ReadingOf(E, F, orders, s, k, late)
<1> DEFINE walk == WalkOf(E, F, orders, firm, s)
           answers(late) ==
             {a \in walk.before : a.page < k \/ (a.page = k /\ ~late)}
               \union {a \in walk.between : a.page = k /\ late} \union {a \in walk.after : a.page > k}
           PageFor(n, order, late) ==
             [page |-> n, items |-> PageRows(IF n > k THEN F ELSE E, order, s, n),
              total |-> Count(E, F, k, late, n)]
<1>1. PICK late \in BOOLEAN :
        reading = {a \in answers(late) : \A b \in answers(late) : b.page < a.page => b.page * walk.pageSize < b.total}
  BY DEF Readings
<1>2. walk.pageSize = s
  BY DEF WalkOf
<1>3. k \in Int /\ \A n \in PageNumber : n \in Int
  BY LedgerAssumption DEF PageNumber
<1>4. answers(late) = {PageFor(n, order, late) : n \in PageNumber, order \in orders}
  <2>1. ASSUME NEW a \in answers(late) PROVE \E n \in PageNumber, order \in orders : a = PageFor(n, order, late)
    <3>1. CASE a \in walk.before /\ (a.page < k \/ (a.page = k /\ ~late))
      <4>1. PICK n \in PageNumber, order \in orders :
              a = [page |-> n, items |-> PageRows(E, order, s, n), total |-> Cardinality(E)]
        BY <3>1 DEF WalkOf, Answers
      <4>2. ~(n > k) /\ ~(n = k /\ late)
        BY <1>3, <3>1, <4>1
      <4> QED
        BY <4>1, <4>2 DEF Count
    <3>2. CASE a \in walk.between /\ a.page = k /\ late
      <4>1. PICK n \in PageNumber, order \in orders :
              a = [page |-> n, items |-> PageRows(E, order, s, n), total |-> Cardinality(F)]
        BY <3>2 DEF WalkOf, Answers
      <4>2. ~(n > k) /\ n = k /\ late
        BY <1>3, <3>2, <4>1
      <4> QED
        BY <4>1, <4>2 DEF Count
    <3>3. CASE a \in walk.after /\ a.page > k
      <4>1. PICK n \in PageNumber, order \in orders :
              a = [page |-> n, items |-> PageRows(F, order, s, n), total |-> Cardinality(F)]
        BY <3>3 DEF WalkOf, Answers
      <4>2. n > k
        BY <3>3, <4>1
      <4> QED
        BY <4>1, <4>2 DEF Count
    <3> QED
      BY <3>1, <3>2, <3>3
  <2>2. ASSUME NEW n \in PageNumber, NEW order \in orders PROVE PageFor(n, order, late) \in answers(late)
    <3> DEFINE a == PageFor(n, order, late)
    <3>0. a.page = n
      OBVIOUS
    <3>1. CASE n > k
      <4>1. a = [page |-> n, items |-> PageRows(F, order, s, n), total |-> Cardinality(F)]
        BY <3>1 DEF Count
      <4>2. a \in walk.after
        BY <4>1 DEF WalkOf, Answers
      <4> QED
        BY <3>0, <3>1, <4>2
    <3>2. CASE n = k /\ late
      <4>1. a = [page |-> n, items |-> PageRows(E, order, s, n), total |-> Cardinality(F)]
        BY <1>3, <3>2 DEF Count
      <4>2. a \in walk.between
        BY <4>1 DEF WalkOf, Answers
      <4> QED
        BY <3>0, <3>2, <4>2
    <3>3. CASE ~(n > k) /\ ~(n = k /\ late)
      <4>1. a = [page |-> n, items |-> PageRows(E, order, s, n), total |-> Cardinality(E)]
        BY <3>3 DEF Count
      <4>2. a \in walk.before
        BY <4>1 DEF WalkOf, Answers
      <4>3. n < k \/ (n = k /\ ~late)
        BY <1>3, <3>3
      <4> QED
        BY <3>0, <4>2, <4>3
    <3> QED
      BY <3>1, <3>2, <3>3
  <2> QED
    BY <2>1, <2>2
<1> HIDE DEF answers, walk
<1>5. reading = ReadingOf(E, F, orders, s, k, late)
  <2>1. ASSUME NEW a \in reading PROVE a \in ReadingOf(E, F, orders, s, k, late)
    <3>1. PICK n \in PageNumber, order \in orders : a = PageFor(n, order, late)
      BY <1>1, <1>4, <2>1
    <3>2. ASSUME NEW m \in PageNumber, m < n PROVE m * s < Count(E, F, k, late, m)
      <4>1. PageFor(m, order, late) \in answers(late)
        BY <1>4
      <4>2. a.page = n /\ PageFor(m, order, late).page = m
            /\ PageFor(m, order, late).total = Count(E, F, k, late, m)
        BY <3>1
      <4> QED
        BY <1>1, <1>2, <2>1, <3>2, <4>1, <4>2
    <3>3. n \in Asked(E, F, s, k, late)
      BY <3>2 DEF Asked
    <3> QED
      BY <3>1, <3>3 DEF ReadingOf
  <2>2. ASSUME NEW a \in ReadingOf(E, F, orders, s, k, late) PROVE a \in reading
    <3>1. PICK n \in Asked(E, F, s, k, late), order \in orders : a = PageFor(n, order, late)
      BY <2>2 DEF ReadingOf
    <3>2. n \in PageNumber /\ \A m \in PageNumber : m < n => m * s < Count(E, F, k, late, m)
      BY DEF Asked
    <3>3. a \in answers(late)
      BY <1>4, <3>1, <3>2
    <3>4. ASSUME NEW b \in answers(late), b.page < a.page PROVE b.page * walk.pageSize < b.total
      <4>1. PICK m \in PageNumber, other \in orders : b = PageFor(m, other, late)
        BY <1>4
      <4>2. b.page = m /\ b.total = Count(E, F, k, late, m) /\ a.page = n
        BY <3>1, <4>1
      <4> QED
        BY <1>2, <3>2, <3>4, <4>2
    <3> QED
      BY <1>1, <3>3, <3>4
  <2> QED
    BY <2>1, <2>2
<1> QED
  BY <1>5

(* A row that stands on the places read before the change, and one that stands
   past them before and after it, is on a page that the client asks for. *)
LEMMA PagesAsked ==
  ASSUME NEW D, NEW order, Lined(D, order), Cardinality(D) <= MaxRows,
         NEW E \in SUBSET D, NEW F \in SUBSET D, NEW s \in Nat \ {0}, NEW k \in 0 .. MaxRows,
         NEW late \in BOOLEAN, NEW n \in PageNumber
  PROVE  /\ \A i \in E : OnPage(Place(E, order, i), s, n) =>
              /\ Place(E, order, i) <= k * s <=> n <= k
              /\ n <= k => n \in Asked(E, F, s, k, late)
         /\ \A i \in F : OnPage(Place(F, order, i), s, n) =>
              (Place(F, order, i) > k * s <=> n > k)
         /\ \A i \in E \intersect F :
              OnPage(Place(F, order, i), s, n) /\ n > k /\ Place(E, order, i) > k * s =>
                n \in Asked(E, F, s, k, late)
<1>1. k \in Nat /\ k * s \in Int /\ \A m \in PageNumber : m \in Nat \ {0}
  BY LedgerAssumption DEF PageNumber
<1>2. ASSUME NEW p \in Nat \ {0}, OnPage(p, s, n) PROVE p <= k * s <=> n <= k
  <2>1. CASE n <= k
    <3>1. n * s <= k * s /\ n * s \in Int
      BY <1>1, <2>1, Multiples
    <3> QED
      BY <1>1, <1>2, <2>1, <3>1 DEF OnPage
  <2>2. CASE ~(n <= k)
    <3>1. k * s <= (n - 1) * s /\ (n - 1) * s \in Int
      BY <1>1, <2>2, Multiples
    <3> QED
      BY <1>1, <1>2, <2>2, <3>1 DEF OnPage
  <2> QED
    BY <2>1, <2>2
<1>3. ASSUME NEW p \in Nat \ {0}, OnPage(p, s, n), NEW m \in PageNumber, m < n PROVE m * s \in Int /\ m * s < p
  <2>1. m * s <= (n - 1) * s /\ m * s \in Int /\ (n - 1) * s \in Int
    BY <1>1, <1>3, Multiples
  <2> QED
    BY <1>3, <2>1 DEF OnPage
<1>4. Cardinality(E) \in Nat /\ Cardinality(F) \in Nat
  BY PlaceFits
<1>5. \A i \in E : Place(E, order, i) \in Nat \ {0} /\ Place(E, order, i) <= Cardinality(E)
  BY EachHasPage
<1>6. \A i \in F : Place(F, order, i) \in Nat \ {0} /\ Place(F, order, i) <= Cardinality(F)
  BY EachHasPage
<1>7. ASSUME NEW i \in E, OnPage(Place(E, order, i), s, n), n <= k PROVE n \in Asked(E, F, s, k, late)
  <2>1. ASSUME NEW m \in PageNumber, m < n PROVE m * s < Count(E, F, k, late, m)
    <3>1. m * s \in Int /\ m * s < Place(E, order, i)
      BY <1>3, <1>5, <1>7, <2>1
    <3>2. Count(E, F, k, late, m) = Cardinality(E)
      BY <1>1, <1>7, <2>1 DEF Count
    <3> QED
      BY <1>4, <1>5, <3>1, <3>2
  <2> QED
    BY <2>1 DEF Asked
<1>8. ASSUME NEW i \in E \intersect F, OnPage(Place(F, order, i), s, n), n > k, Place(E, order, i) > k * s
      PROVE  n \in Asked(E, F, s, k, late)
  <2>1. ASSUME NEW m \in PageNumber, m < n PROVE m * s < Count(E, F, k, late, m)
    <3>1. m * s \in Int /\ m * s < Place(F, order, i)
      BY <1>3, <1>6, <1>8, <2>1
    <3>2. CASE Count(E, F, k, late, m) = Cardinality(F)
      BY <1>4, <1>6, <3>1, <3>2
    <3>3. CASE Count(E, F, k, late, m) # Cardinality(F)
      <4>1. m <= k /\ Count(E, F, k, late, m) = Cardinality(E)
        BY <1>1, <3>3 DEF Count
      <4>2. m * s <= k * s
        BY <1>1, <4>1, Multiples
      <4> QED
        BY <1>1, <1>4, <1>5, <1>8, <3>1, <4>1, <4>2
    <3> QED
      BY <3>2, <3>3
  <2> QED
    BY <2>1 DEF Asked
<1>9. \A i \in F : OnPage(Place(F, order, i), s, n) => (Place(F, order, i) > k * s <=> n > k)
  <2> SUFFICES ASSUME NEW i \in F, OnPage(Place(F, order, i), s, n)
               PROVE  Place(F, order, i) > k * s <=> n > k
    OBVIOUS
  <2>1. Place(F, order, i) <= k * s <=> n <= k
    BY <1>2, <1>6
  <2> QED
    BY <1>1, <1>6, <2>1
<1>10. \A i \in E : OnPage(Place(E, order, i), s, n) => (Place(E, order, i) <= k * s <=> n <= k)
  BY <1>2, <1>5
<1> QED
  BY <1>7, <1>8, <1>9, <1>10

(* A client that walks through such pages, of two moments. *)
LEMMA PagesWalk ==
  ASSUME NEW D, NEW orders, \A order \in orders : Lined(D, order), Cardinality(D) <= MaxRows,
         NEW E \in SUBSET D, NEW F \in SUBSET D, NEW s \in Nat \ {0}, NEW k \in 0 .. MaxRows,
         NEW firm \in SUBSET (E \intersect F),
         \A i \in firm : /\ \E n \in PageNumber : \A order \in orders : OnPage(Place(E, order, i), s, n)
                         /\ \E n \in PageNumber : \A order \in orders : OnPage(Place(F, order, i), s, n)
  PROVE  WalkFits(WalkOf(E, F, orders, firm, s), k)
<1> DEFINE walk == WalkOf(E, F, orders, firm, s)
           was == UNION {a.items : a \in walk.before}
           is == UNION {a.items : a \in walk.after}
           firmly == walk.firm \intersect was \intersect is
           seen(reading) == UNION {a.items : a \in {b \in reading : b.page <= k}}
           missed(reading) ==
             {i \in firmly : \A a \in reading : \E b \in reading : b.page = a.page /\ i \notin b.items}
           again(reading) ==
             {i \in firmly : \E a, b \in reading : a.page < b.page /\ i \in a.items \intersect b.items}
<1>0. k \in Nat /\ k * s \in Nat /\ \A n \in PageNumber : n \in Nat \ {0}
  BY LedgerAssumption DEF PageNumber
<1>1. /\ walk.before = Answers(E, Cardinality(E), orders, s)
      /\ walk.after = Answers(F, Cardinality(F), orders, s)
      /\ walk.firm = firm
  BY DEF WalkOf
<1>2. \A a \in walk.before : /\ a.total = Cardinality(E)
                             /\ \E n \in PageNumber, order \in orders : a.items = PageRows(E, order, s, n)
  BY <1>1 DEF Answers
<1>3. \A a \in walk.after : \E n \in PageNumber, order \in orders : a.items = PageRows(F, order, s, n)
  BY <1>1 DEF Answers
<1>4. ASSUME orders = {} PROVE WalkFits(walk, k)
  <2>1. walk.before = {} /\ was = {}
    BY <1>2, <1>4
  <2>2. firmly = {} /\ Cardinality({}) = 0
    BY <2>1, FS_EmptySet
  <2>3. ASSUME NEW reading \in Readings(walk, k)
        PROVE  /\ Cardinality(missed(reading)) <= Cardinality(seen(reading) \ is)
               /\ Cardinality(again(reading)) <= Cardinality(is \ was)
    <3>1. reading = {}
      <4>1. PICK late \in BOOLEAN : reading = ReadingOf(E, F, orders, s, k, late)
        BY <2>3, ReadingsAre
      <4> QED
        BY <1>4, <4>1 DEF ReadingOf
    <3>2. is = {}
      BY <1>3, <1>4
    <3>3. seen(reading) \ is = {} /\ is \ was = {} /\ missed(reading) = {} /\ again(reading) = {}
      BY <2>2, <3>1, <3>2
    <3> HIDE DEF missed, again, seen, was, is, firmly
    <3> QED
      BY <2>2, <3>3
  <2>4. \A a \in walk.before : a.total = Cardinality(was)
    BY <2>1
  <2> HIDE DEF walk
  <2> QED
    BY <2>3, <2>4 DEF WalkFits
<1>5. ASSUME orders # {} PROVE WalkFits(walk, k)
  <2>1. PICK order \in orders : Lined(D, order)
    BY <1>5
  <2>2. was = E /\ is = F
    <3>1. ASSUME NEW S \in SUBSET D, NEW i \in S PROVE \E n \in PageNumber : i \in PageRows(S, order, s, n)
      <4>1. PICK n \in PageNumber : OnPage(Place(S, order, i), s, n)
        BY <2>1, EachHasPage
      <4> QED
        BY <4>1 DEF PageRows
    <3>2. ASSUME NEW S \in SUBSET D, NEW t PROVE UNION {a.items : a \in Answers(S, t, orders, s)} = S
      <4>1. ASSUME NEW i \in S PROVE i \in UNION {a.items : a \in Answers(S, t, orders, s)}
        <5>1. PICK n \in PageNumber : i \in PageRows(S, order, s, n)
          BY <3>1
        <5> DEFINE a == [page |-> n, items |-> PageRows(S, order, s, n), total |-> t]
        <5>2. a \in Answers(S, t, orders, s) /\ i \in a.items
          BY <5>1 DEF Answers
        <5> QED
          BY <5>2
      <4>2. ASSUME NEW a \in Answers(S, t, orders, s) PROVE a.items \subseteq S
        BY DEF Answers, PageRows
      <4> QED
        BY <4>1, <4>2
    <3> QED
      BY <1>1, <3>2
  <2>3. \A a \in walk.before : a.total = Cardinality(was)
    BY <1>2, <2>2
  <2>4. firmly = firm
    BY <1>1, <2>2
  <2>5. \A reading \in Readings(walk, k) : \E late \in BOOLEAN : reading = ReadingOf(E, F, orders, s, k, late)
    BY ReadingsAre
  <2> HIDE DEF walk, was, is, firmly
  <2>6. ASSUME NEW reading, NEW late \in BOOLEAN, reading = ReadingOf(E, F, orders, s, k, late)
        PROVE  /\ Cardinality(missed(reading)) <= Cardinality(seen(reading) \ is)
               /\ Cardinality(again(reading)) <= Cardinality(is \ was)
    <3> DEFINE PageFor(n, o) ==
                 [page |-> n, items |-> PageRows(IF n > k THEN F ELSE E, o, s, n),
                  total |-> Count(E, F, k, late, n)]
               read == ReadBy(E, order, k * s)
               lost == MovedUp(E, F, order, k * s)
               twice == MovedDown(E, F, order, k * s)
    <3>1. IsFiniteSet(D)
      BY <2>1 DEF Lined
    <3>2. \A a \in reading : \E n \in PageNumber, o \in orders : a = PageFor(n, o)
      BY <2>6 DEF ReadingOf, Asked
    <3>3. \A n \in Asked(E, F, s, k, late) : PageFor(n, order) \in reading
      BY <2>6 DEF ReadingOf
    <3>4. \A i \in E : Place(E, order, i) \in Nat
      BY <2>1, EachHasPage
    <3>5. \A i \in F : Place(F, order, i) \in Nat
      BY <2>1, EachHasPage
    <3>P. ASSUME NEW n \in PageNumber
          PROVE  /\ \A i \in E : OnPage(Place(E, order, i), s, n) =>
                      /\ Place(E, order, i) <= k * s <=> n <= k
                      /\ n <= k => n \in Asked(E, F, s, k, late)
                 /\ \A i \in F : OnPage(Place(F, order, i), s, n) =>
                      (Place(F, order, i) > k * s <=> n > k)
                 /\ \A i \in E \intersect F :
                      OnPage(Place(F, order, i), s, n) /\ n > k /\ Place(E, order, i) > k * s =>
                        n \in Asked(E, F, s, k, late)
      BY <2>1, PagesAsked
    <3>6. seen(reading) \subseteq E
      <4> SUFFICES ASSUME NEW a \in reading, a.page <= k PROVE a.items \subseteq E
        OBVIOUS
      <4>1. PICK n \in PageNumber, o \in orders : a = PageFor(n, o)
        BY <3>2
      <4>2. ~(n > k)
        BY <1>0, <4>1
      <4> QED
        BY <4>1, <4>2 DEF PageRows
    <3>7. read \subseteq seen(reading)
      <4> SUFFICES ASSUME NEW i \in E, Place(E, order, i) <= k * s
                   PROVE  \E a \in reading : a.page <= k /\ i \in a.items
        BY DEF ReadBy
      <4>1. PICK n \in PageNumber : OnPage(Place(E, order, i), s, n)
        BY <2>1, EachHasPage
      <4>2. n <= k /\ n \in Asked(E, F, s, k, late)
        BY <3>P, <4>1
      <4>3. PageFor(n, order) \in reading /\ ~(n > k)
        BY <1>0, <3>3, <4>2
      <4> QED
        BY <4>1, <4>2, <4>3 DEF PageRows
    <3>8. missed(reading) \subseteq lost
      <4> SUFFICES ASSUME NEW i \in missed(reading) PROVE i \in lost
        OBVIOUS
      <4>1. i \in firm /\ i \in E /\ i \in F
        BY <2>4
      <4>2. ASSUME NEW n \in Asked(E, F, s, k, late),
                   \A o \in orders : i \in PageRows(IF n > k THEN F ELSE E, o, s, n)
            PROVE  FALSE
        <5>1. PICK b \in reading : b.page = PageFor(n, order).page /\ i \notin b.items
          BY <3>3, <4>2
        <5>2. PICK m \in PageNumber, o \in orders : b = PageFor(m, o)
          BY <3>2
        <5>3. m = n
          BY <5>1, <5>2
        <5> QED
          BY <4>2, <5>1, <5>2, <5>3
      <4>3. PICK n \in PageNumber : \A o \in orders : OnPage(Place(E, o, i), s, n)
        BY <4>1
      <4>4. PICK m \in PageNumber : \A o \in orders : OnPage(Place(F, o, i), s, m)
        BY <4>1
      <4> DEFINE p == Place(E, order, i)
                 q == Place(F, order, i)
      <4>5. ASSUME p <= k * s PROVE FALSE
        <5>1. n <= k /\ n \in Asked(E, F, s, k, late)
          BY <3>P, <4>1, <4>3, <4>5
        <5>2. \A o \in orders : i \in PageRows(IF n > k THEN F ELSE E, o, s, n)
          BY <1>0, <4>1, <4>3, <5>1 DEF PageRows
        <5> QED
          BY <4>2, <5>1, <5>2
      <4>6. p \in Nat /\ q \in Nat
        BY <3>4, <3>5, <4>1
      <4> HIDE DEF p, q
      <4>7. p > k * s
        BY <1>0, <4>5, <4>6
      <4> USE DEF p, q
      <4>8. ASSUME q > k * s PROVE FALSE
        <5>1. m > k /\ m \in Asked(E, F, s, k, late)
          BY <3>P, <4>1, <4>4, <4>7, <4>8
        <5>2. \A o \in orders : i \in PageRows(IF m > k THEN F ELSE E, o, s, m)
          BY <4>1, <4>4, <5>1 DEF PageRows
        <5> QED
          BY <4>2, <5>1, <5>2
      <4> HIDE DEF p, q
      <4>9. q <= k * s
        BY <1>0, <4>6, <4>8
      <4> QED
        BY <4>1, <4>7, <4>9 DEF p, q, MovedUp
    <3>9. again(reading) \subseteq twice
      <4> SUFFICES ASSUME NEW i \in firmly, NEW a \in reading, NEW b \in reading,
                          a.page < b.page, i \in a.items, i \in b.items
                   PROVE  i \in twice
        OBVIOUS
      <4>1. i \in firm /\ i \in E /\ i \in F
        BY <2>4
      <4>2. PICK n \in PageNumber, o \in orders : a = PageFor(n, o)
        BY <3>2
      <4>3. PICK m \in PageNumber, q \in orders : b = PageFor(m, q)
        BY <3>2
      <4>4. n < m /\ n \in Int /\ m \in Int
        BY <1>0, <4>2, <4>3
      <4>5. PICK e \in PageNumber : \A r \in orders : OnPage(Place(E, r, i), s, e)
        BY <4>1
      <4>6. PICK f \in PageNumber : \A r \in orders : OnPage(Place(F, r, i), s, f)
        BY <4>1
      <4>7. \A r \in orders : Place(E, r, i) \in Int /\ Place(F, r, i) \in Int
        <5> SUFFICES ASSUME NEW r \in orders PROVE Place(E, r, i) \in Int /\ Place(F, r, i) \in Int
          OBVIOUS
        <5>1. Lined(D, r)
          OBVIOUS
        <5>2. Place(E, r, i) \in Nat \ {0}
          BY <4>1, <5>1, EachHasPage
        <5>3. Place(F, r, i) \in Nat \ {0}
          BY <4>1, <5>1, EachHasPage
        <5> QED
          BY <5>2, <5>3
      <4>8. ASSUME NEW x \in PageNumber, NEW r \in orders,
                   i \in PageRows(IF x > k THEN F ELSE E, r, s, x)
            PROVE  IF x > k THEN x = f ELSE x = e
        <5>1. CASE x > k
          <6>1. OnPage(Place(F, r, i), s, x) /\ OnPage(Place(F, r, i), s, f)
            BY <4>6, <4>8, <5>1 DEF PageRows
          <6>2. x = f
            BY <1>0, <4>7, <6>1, OnePage
          <6> QED
            BY <5>1, <6>2
        <5>2. CASE ~(x > k)
          <6>1. OnPage(Place(E, r, i), s, x) /\ OnPage(Place(E, r, i), s, e)
            BY <4>5, <4>8, <5>2 DEF PageRows
          <6>2. x = e
            BY <1>0, <4>7, <6>1, OnePage
          <6> QED
            BY <5>2, <6>2
        <5> QED
          BY <5>1, <5>2
      <4>9. /\ IF n > k THEN n = f ELSE n = e
            /\ IF m > k THEN m = f ELSE m = e
        BY <4>2, <4>3, <4>8
      <4>10. n = e /\ n <= k /\ m = f /\ m > k
        BY <1>0, <4>4, <4>9
      <4>11. Place(E, order, i) <= k * s
        BY <3>P, <4>1, <4>5, <4>10
      <4>12. Place(F, order, i) > k * s
        BY <3>P, <4>1, <4>6, <4>10
      <4> QED
        BY <4>1, <4>11, <4>12 DEF MovedDown
    <3>10. Cardinality(lost) <= Cardinality(read \ F)
      BY <1>0, <2>1, RowsLost
    <3>11. Cardinality(twice) <= Cardinality(F \ E)
      BY <1>0, <2>1, RowsAgain
    <3>12. missed(reading) \in SUBSET D /\ again(reading) \in SUBSET D /\ lost \in SUBSET D
           /\ twice \in SUBSET D /\ read \ F \in SUBSET D /\ seen(reading) \ is \in SUBSET D
           /\ F \ E \in SUBSET D
      BY <3>6, <3>8, <3>9 DEF MovedUp, MovedDown, ReadBy
    <3>13. read \ F \subseteq seen(reading) \ is
      BY <2>2, <3>7
    <3>14. is \ was = F \ E
      BY <2>2
    <3> HIDE DEF missed, again, seen, lost, twice, read
    <3>15. Cardinality(missed(reading)) <= Cardinality(seen(reading) \ is)
      <4>1. Cardinality(missed(reading)) <= Cardinality(lost)
        BY <3>1, <3>8, <3>12, Parts
      <4>2. Cardinality(read \ F) <= Cardinality(seen(reading) \ is)
        BY <3>1, <3>12, <3>13, Parts
      <4>3. Cardinality(missed(reading)) \in Nat /\ Cardinality(lost) \in Nat
        BY <3>1, <3>12, Parts
      <4>4. Cardinality(read \ F) \in Nat /\ Cardinality(seen(reading) \ is) \in Nat
        BY <3>1, <3>12, Parts
      <4> QED
        BY <3>10, <4>1, <4>2, <4>3, <4>4
    <3>16. Cardinality(again(reading)) <= Cardinality(F \ E)
      <4>1. Cardinality(again(reading)) <= Cardinality(twice)
        BY <3>1, <3>9, <3>12, Parts
      <4>2. Cardinality(again(reading)) \in Nat /\ Cardinality(twice) \in Nat
        BY <3>1, <3>12, Parts
      <4>3. Cardinality(F \ E) \in Nat
        BY <3>1, <3>12, Parts
      <4> QED
        BY <3>11, <4>1, <4>2, <4>3
    <3> QED
      BY <3>14, <3>15, <3>16
  <2> HIDE DEF missed, again, seen
  <2>7. \A reading \in Readings(walk, k) :
          /\ Cardinality(missed(reading)) <= Cardinality(seen(reading) \ is)
          /\ Cardinality(again(reading)) <= Cardinality(is \ was)
    BY <2>5, <2>6
  <2> QED
    BY <2>3, <2>7 DEF WalkFits, missed, again, seen, was, is, firmly
<1>6. WalkFits(walk, k)
  BY <1>4, <1>5
<1> QED
  BY <1>6 DEF walk

(* The answers to one question are a page of the rows. *)
AnswersTo(rows, t, orders, params) ==
  {[page |-> params.page, items |-> a.rows, total |-> a.total] :
     a \in {[rows |-> PageOf(rows, order, params), total |-> t] : order \in orders}}

PageAnswers(E, t, orders, s, n) ==
  {[page |-> n, items |-> PageRows(E, order, s, n), total |-> t] : order \in orders}

LEMMA ListPage ==
  ASSUME NEW rows, NEW t, NEW D, NEW orders, \A order \in orders : Lined(D, order),
         DOMAIN rows \in SUBSET D, NEW s \in 1 .. MAX_PAGE_SIZE, NEW n \in PageNumber
  PROVE  AnswersTo(rows, t, orders, Paginate(n, s)) = PageAnswers(DOMAIN rows, t, orders, s, n)
<1> DEFINE params == Paginate(n, s)
           answers == {[rows |-> PageOf(rows, order, params), total |-> t] : order \in orders}
           pages == {[page |-> n, items |-> PageRows(DOMAIN rows, order, s, n), total |-> t] : order \in orders}
<1>1. n \in Nat \ {0}
  BY LedgerAssumption DEF PageNumber
<1>2. params.page = n
  BY <1>1 DEF Paginate, Clamp
<1>3. \A order \in orders : PageOf(rows, order, params) = PageRows(DOMAIN rows, order, s, n)
  BY <1>1, PageTakes
<1> HIDE DEF params
<1>4. ASSUME NEW a \in answers PROVE [page |-> params.page, items |-> a.rows, total |-> a.total] \in pages
  <2>1. PICK order \in orders : a = [rows |-> PageOf(rows, order, params), total |-> t]
    OBVIOUS
  <2>2. a.rows = PageRows(DOMAIN rows, order, s, n) /\ a.total = t
    BY <1>3, <2>1
  <2> QED
    BY <1>2, <2>2
<1>5. ASSUME NEW order \in orders
      PROVE  \E a \in answers : [page |-> n, items |-> PageRows(DOMAIN rows, order, s, n), total |-> t]
                                  = [page |-> params.page, items |-> a.rows, total |-> a.total]
  <2> DEFINE a == [rows |-> PageOf(rows, order, params), total |-> t]
  <2>1. a \in answers /\ a.rows = PageRows(DOMAIN rows, order, s, n) /\ a.total = t
    BY <1>3
  <2> HIDE DEF a
  <2> QED
    BY <1>2, <2>1
<1>6. {[page |-> params.page, items |-> a.rows, total |-> a.total] : a \in answers} = pages
  <2> HIDE DEF answers
  <2> QED
    BY <1>4, <1>5
<1> QED
  BY <1>6 DEF params, AnswersTo, PageAnswers

(* All that the pages of the two lists may be. *)
AllExpenses(b, c, orders, s) == UNION {ListExpenses(b, c, orders, n, s) : n \in PageNumber}
AllSettlements(b, c, orders, s) == UNION {ListSettlements(b, c, orders, n, s) : n \in PageNumber}

LEMMA AllExpensePages ==
  ASSUME NEW b, NEW c, NEW D, NEW orders, \A order \in orders : Lined(D, order),
         NEW s \in 1 .. MAX_PAGE_SIZE, DOMAIN Expenses(b) \in SUBSET D
  PROVE  AllExpenses(b, c, orders, s) = Answers(DOMAIN Expenses(b), Cardinality(DOMAIN Expenses(c)), orders, s)
<1>1. ASSUME NEW n \in PageNumber
      PROVE  ListExpenses(b, c, orders, n, s)
               = PageAnswers(DOMAIN Expenses(b), Cardinality(DOMAIN Expenses(c)), orders, s, n)
  <2>1. ListExpenses(b, c, orders, n, s)
          = AnswersTo(Expenses(b), Cardinality(DOMAIN Expenses(c)), orders, Paginate(n, s))
    BY DEF ListExpenses, ListByTrip, AnswersTo
  <2> QED
    BY <2>1, ListPage
<1> QED
  BY <1>1 DEF Answers, PageAnswers, AllExpenses

LEMMA AllSettlementPages ==
  ASSUME NEW b, NEW c, NEW D, NEW orders, \A order \in orders : Lined(D, order),
         NEW s \in 1 .. MAX_PAGE_SIZE, DOMAIN Settlements(b) \in SUBSET D
  PROVE  AllSettlements(b, c, orders, s) = Answers(DOMAIN Settlements(b), Cardinality(DOMAIN Settlements(c)), orders, s)
<1>1. ASSUME NEW n \in PageNumber
      PROVE  ListSettlements(b, c, orders, n, s)
               = PageAnswers(DOMAIN Settlements(b), Cardinality(DOMAIN Settlements(c)), orders, s, n)
  <2>1. ListSettlements(b, c, orders, n, s)
          = AnswersTo(Settlements(b), Cardinality(DOMAIN Settlements(c)), orders, Paginate(n, s))
    BY DEF ListSettlements, ListSettlementsByTrip, AnswersTo
  <2> QED
    BY <2>1, ListPage
<1> QED
  BY <1>1 DEF Answers, PageAnswers, AllSettlements

(* Rows are added and marked, never removed. *)
LEMMA RowsStay ==
  ASSUME LedgerIInv, LedgerIInv', [Next]_vars
  PROVE  DOMAIN book \subseteq DOMAIN book' /\ IsFiniteSet(DOMAIN book')
         /\ Cardinality(DOMAIN book') <= MaxRows
<1>1. DOMAIN book' = 1 .. Len(book') /\ Len(book') \in Nat /\ Len(book') <= MaxRows
  BY DEF LedgerIInv, Tables
<1>2. IsFiniteSet(DOMAIN book') /\ Cardinality(DOMAIN book') <= MaxRows
  <2>1. \A n \in Nat : IsFiniteSet(1 .. n) /\ Cardinality(1 .. n) = n
    <3> TAKE n \in Nat
    <3>1. IsFiniteSet(1 .. n) /\ Cardinality(1 .. n) = IF 1 > n THEN 0 ELSE n - 1 + 1
      BY FS_Interval
    <3> QED
      BY <3>1
  <2> QED
    BY <1>1, <2>1
<1>3. CASE UNCHANGED vars
  BY <1>2, <1>3 DEF vars
<1>4. ASSUME NEW p \in Process, Start(p) \/ Step(p) \/ Abort(p) PROVE DOMAIN book \subseteq DOMAIN book'
  <2>1. BookStep(p)
    BY <1>4, BookSteps
  <2> QED
    BY <2>1 DEF BookStep, Added, Marked
<1> QED
  BY <1>2, <1>3, <1>4 DEF Next

(* The walks of the model are walks of such rows. *)
LEMMA WalksFit ==
  ASSUME NEW b, NEW c, NEW D, IsFiniteSet(D), Cardinality(D) <= MaxRows,
         NEW by \in Sortings(D), NEW k \in 0 .. MaxRows
  PROVE  /\ DOMAIN Expenses(b) \in SUBSET D /\ DOMAIN Expenses(c) \in SUBSET D =>
              \A walk \in ExpenseWalks(b, c, by) : WalkFits(walk, k)
         /\ DOMAIN Settlements(b) \in SUBSET D /\ DOMAIN Settlements(c) \in SUBSET D =>
              \A walk \in SettlementWalks(b, c, by) : WalkFits(walk, k)
<1>1. by.stamp \in Stamps(D) /\ by.orders = Arrangements(by.stamp)
  BY DEF Sortings
<1>2. \A order \in by.orders : Lined(D, order)
  BY <1>1, TiesLine
<1>3. \A s \in 1 .. MAX_PAGE_SIZE : s \in Nat \ {0}
  BY PageAssumption
<1>4. ASSUME NEW rows, DOMAIN rows \in SUBSET D, NEW later, DOMAIN later \in SUBSET D,
             NEW s \in 1 .. MAX_PAGE_SIZE
      PROVE  WalkFits(WalkOf(DOMAIN rows, DOMAIN later, by.orders,
                             Firm(rows, by.stamp, s) \intersect Firm(later, by.stamp, s), s), k)
  <2> DEFINE firm == Firm(rows, by.stamp, s) \intersect Firm(later, by.stamp, s)
  <2>1. firm \in SUBSET (DOMAIN rows \intersect DOMAIN later)
    BY DEF Firm
  <2>2. \A i \in firm : /\ \E n \in PageNumber : \A order \in by.orders : OnPage(Place(DOMAIN rows, order, i), s, n)
                        /\ \E n \in PageNumber : \A order \in by.orders : OnPage(Place(DOMAIN later, order, i), s, n)
    BY <1>1, <1>3, <1>4, FirmPage
  <2> HIDE DEF firm
  <2>3. WalkFits(WalkOf(DOMAIN rows, DOMAIN later, by.orders, firm, s), k)
    BY <1>2, <1>3, <1>4, <2>1, <2>2, PagesWalk
  <2> QED
    BY <2>3 DEF firm
<1>5. ASSUME DOMAIN Expenses(b) \in SUBSET D, DOMAIN Expenses(c) \in SUBSET D,
             NEW walk \in ExpenseWalks(b, c, by)
      PROVE  WalkFits(walk, k)
  <2> DEFINE firm(s) == Firm(Expenses(b), by.stamp, s) \intersect Firm(Expenses(c), by.stamp, s)
             E == DOMAIN Expenses(b)
             F == DOMAIN Expenses(c)
  <2>1. PICK s \in 1 .. MAX_PAGE_SIZE :
          walk = [before |-> AllExpenses(b, b, by.orders, s), between |-> AllExpenses(b, c, by.orders, s),
                  after |-> AllExpenses(c, c, by.orders, s), firm |-> firm(s), pageSize |-> s]
    BY <1>5 DEF ExpenseWalks, AllExpenses
  <2>2. \A order \in by.orders : Lined(D, order)
    BY <1>2
  <2>3. AllExpenses(b, b, by.orders, s) = Answers(E, Cardinality(E), by.orders, s)
    BY <1>5, <2>2, AllExpensePages
  <2>4. AllExpenses(b, c, by.orders, s) = Answers(E, Cardinality(F), by.orders, s)
    BY <1>5, <2>2, AllExpensePages
  <2>5. AllExpenses(c, c, by.orders, s) = Answers(F, Cardinality(F), by.orders, s)
    BY <1>5, <2>2, AllExpensePages
  <2>6. walk = WalkOf(E, F, by.orders, firm(s), s)
    BY <2>1, <2>3, <2>4, <2>5 DEF WalkOf
  <2> QED
    BY <1>4, <1>5, <2>6
<1>6. ASSUME DOMAIN Settlements(b) \in SUBSET D, DOMAIN Settlements(c) \in SUBSET D,
             NEW walk \in SettlementWalks(b, c, by)
      PROVE  WalkFits(walk, k)
  <2> DEFINE firm(s) == Firm(Settlements(b), by.stamp, s) \intersect Firm(Settlements(c), by.stamp, s)
             E == DOMAIN Settlements(b)
             F == DOMAIN Settlements(c)
  <2>1. PICK s \in 1 .. MAX_PAGE_SIZE :
          walk = [before |-> AllSettlements(b, b, by.orders, s), between |-> AllSettlements(b, c, by.orders, s),
                  after |-> AllSettlements(c, c, by.orders, s), firm |-> firm(s), pageSize |-> s]
    BY <1>6 DEF SettlementWalks, AllSettlements
  <2>2. \A order \in by.orders : Lined(D, order)
    BY <1>2
  <2>3. AllSettlements(b, b, by.orders, s) = Answers(E, Cardinality(E), by.orders, s)
    BY <1>6, <2>2, AllSettlementPages
  <2>4. AllSettlements(b, c, by.orders, s) = Answers(E, Cardinality(F), by.orders, s)
    BY <1>6, <2>2, AllSettlementPages
  <2>5. AllSettlements(c, c, by.orders, s) = Answers(F, Cardinality(F), by.orders, s)
    BY <1>6, <2>2, AllSettlementPages
  <2>6. walk = WalkOf(E, F, by.orders, firm(s), s)
    BY <2>1, <2>3, <2>4, <2>5 DEF WalkOf
  <2> QED
    BY <1>4, <1>6, <2>6
<1> QED
  BY <1>5, <1>6

(* Paging by offset while a row comes or goes costs a client at most one row it
   misses for each that was withdrawn from the pages it has seen, and at most
   one it is shown twice for each that came, whatever stamps the rows have, in
   whichever order each page finds the rows of one stamp, and also if the change
   falls between a page and its total; only rows that a tie can push over the
   border of a page are left out.  listByTrip of expense.repository.ts and
   settlement.repository.ts, paginate of database/helpers.ts. *)
THEOREM PagesReadOn == LifeSpec => ExpensePages
<1> DEFINE Paged ==
             /\ \A by \in Sortings(DOMAIN Expenses(book) \union DOMAIN Expenses(book')) :
                  \A walk \in ExpenseWalks(book, book', by), k \in 0 .. MaxRows : WalkFits(walk, k)
             /\ \A by \in Sortings(DOMAIN Settlements(book) \union DOMAIN Settlements(book')) :
                  \A walk \in SettlementWalks(book, book', by), k \in 0 .. MaxRows : WalkFits(walk, k)
<1>1. LedgerIInv /\ LedgerIInv' /\ [Next]_vars => [Paged]_book
  <2> SUFFICES ASSUME LedgerIInv, LedgerIInv', [Next]_vars PROVE Paged
    OBVIOUS
  <2> DEFINE E == DOMAIN Expenses(book) \union DOMAIN Expenses(book')
             S == DOMAIN Settlements(book) \union DOMAIN Settlements(book')
  <2>1. /\ DOMAIN book \subseteq DOMAIN book' /\ IsFiniteSet(DOMAIN book')
        /\ Cardinality(DOMAIN book') <= MaxRows
    BY RowsStay
  <2>2. E \subseteq DOMAIN book' /\ S \subseteq DOMAIN book'
    BY <2>1 DEF Expenses, Settlements
  <2>3. /\ DOMAIN Expenses(book) \in SUBSET E /\ DOMAIN Expenses(book') \in SUBSET E
        /\ DOMAIN Settlements(book) \in SUBSET S /\ DOMAIN Settlements(book') \in SUBSET S
    OBVIOUS
  <2> HIDE DEF E, S
  <2>4. \A D \in SUBSET DOMAIN book' : IsFiniteSet(D) /\ Cardinality(D) <= MaxRows
    <3> SUFFICES ASSUME NEW D \in SUBSET DOMAIN book' PROVE IsFiniteSet(D) /\ Cardinality(D) <= MaxRows
      OBVIOUS
    <3>1. IsFiniteSet(D) /\ Cardinality(D) <= Cardinality(DOMAIN book')
      BY <2>1, FS_Subset
    <3>2. Cardinality(D) \in Nat /\ Cardinality(DOMAIN book') \in Nat /\ MaxRows \in Nat
      BY <2>1, <3>1, FS_CardinalityType, LedgerAssumption
    <3> QED
      BY <2>1, <3>1, <3>2
  <2>5. \A by \in Sortings(E) : \A walk \in ExpenseWalks(book, book', by), k \in 0 .. MaxRows : WalkFits(walk, k)
    BY <2>2, <2>3, <2>4, WalksFit
  <2>6. \A by \in Sortings(S) : \A walk \in SettlementWalks(book, book', by), k \in 0 .. MaxRows : WalkFits(walk, k)
    BY <2>2, <2>3, <2>4, WalksFit
  <2> QED
    BY <2>5, <2>6 DEF E, S
<1>2. [][Paged]_book => ExpensePages
  <2>1. [Paged]_book =>
          [book # book' =>
             /\ Expenses(book) # Expenses(book') =>
                  \A by \in Sortings(DOMAIN Expenses(book) \union DOMAIN Expenses(book')) :
                    \A walk \in ExpenseWalks(book, book', by), k \in 0 .. MaxRows : WalkFits(walk, k)
             /\ Settlements(book) # Settlements(book') =>
                  \A by \in Sortings(DOMAIN Settlements(book) \union DOMAIN Settlements(book')) :
                    \A walk \in SettlementWalks(book, book', by), k \in 0 .. MaxRows : WalkFits(walk, k)]_book
    OBVIOUS
  <2> HIDE DEF Paged
  <2> QED
    BY <2>1, PTL DEF ExpensePages
<1> HIDE DEF Paged
<1> QED
  BY <1>1, <1>2, LifeIsLedger, LedgerInvariant, PTL DEF Spec
=============================================================================
