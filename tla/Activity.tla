------------------------------ MODULE Activity ------------------------------
(***************************************************************************)
(* The activity feed of one user: activity.service.ts and the repository   *)
(* under it.  Writes are left behind by the calls of other services, run   *)
(* on their own and may fail unnoticed; reads are pages behind a keyset    *)
(* cursor.  A row is its stamp, its id and nothing else.  The cursor text  *)
(* is lossless: both sides of it keep milliseconds.                        *)
(***************************************************************************)
EXTENDS Integers, FiniteSets

CONSTANTS
  Viewer,              \* whose feed it is
  Draw,                \* the rows inserts may carry: a stamp, which two may share, and a random id
  NoCursor,
  NoLimit,             \* the query leaves the limit out
  ACTIVITY_DEFAULT_LIMIT,
  ACTIVITY_MAX_LIMIT

ASSUME ActivityAssumption ==
  /\ IsFiniteSet(Draw) /\ Draw \subseteq [createdAt : Nat, id : Nat]
  /\ \A r, s \in Draw : r.id = s.id => r = s
  /\ NoCursor \notin Draw
  /\ NoLimit \notin Int
  /\ ACTIVITY_MAX_LIMIT \in Nat
  /\ ACTIVITY_DEFAULT_LIMIT \in 1 .. ACTIVITY_MAX_LIMIT

VARIABLE activities  \* the rows of the viewer's feed

-----------------------------------------------------------------------------
(* Writes. *)

(* record: createMany, whose "errors are logged and swallowed".  Stamped before
   it commits, a row may come after one that is younger. *)
Record ==
  \/ \E row \in Draw \ activities : activities' = activities \union {row}
  \/ UNCHANGED activities

(* fanout: one row for each recipient, however often he is named. *)
Fanout(recipients) == IF Viewer \in recipients THEN Record ELSE UNCHANGED activities

-----------------------------------------------------------------------------
(* Reads. *)

ClampLimit(raw) ==
  IF raw = NoLimit THEN ACTIVITY_DEFAULT_LIMIT
  ELSE IF raw < 1 THEN 1
  ELSE IF raw > ACTIVITY_MAX_LIMIT THEN ACTIVITY_MAX_LIMIT
  ELSE raw

\* Mutant: the cursor has no tie-break.
OlderStamp(r, cursor) == r.createdAt < cursor.createdAt

Older(r, cursor) ==
  \/ r.createdAt < cursor.createdAt
  \/ r.createdAt = cursor.createdAt /\ r.id < cursor.id

(* The sort order of the query, newest first: a total order. *)
Newer(r, s) ==
  \/ r.createdAt > s.createdAt
  \/ r.createdAt = s.createdAt /\ r.id > s.id

(* listForUser: the newest rows behind the cursor, at most limit of them. *)
ListActivities(rows, limit, cursor) ==
  LET behind == {r \in rows : cursor # NoCursor => Older(r, cursor)}
  IN  {r \in behind : Cardinality({s \in behind : Newer(s, r)}) < limit}

(* feed asks for one row more than it shows: it tells whether there is a next
   page. *)
Feed(rows, raw, cursor) ==
  LET limit == ClampLimit(raw)
      found == ListActivities(rows, limit + 1, cursor)
      page == {r \in found : Cardinality({s \in found : Newer(s, r)}) < limit}
      last == CHOOSE r \in page : \A s \in page \ {r} : Newer(s, r)
  IN  [items |-> page,
       nextCursor |-> IF Cardinality(found) > limit THEN last ELSE NoCursor]

(* A client follows nextCursor until there is none: the rows it has been shown,
   and those shown to it again.  Its first k pages are of one moment, the others
   of a later one. *)
Unread == [shown |-> {}, again |-> {}, cursor |-> NoCursor]

NextPage(rows, raw, so) ==
  LET page == Feed(rows, raw, so.cursor)
  IN  [shown |-> so.shown \union page.items,
       again |-> so.again \union (so.shown \intersect page.items),
       cursor |-> page.nextCursor]

Walk(before, after, raw, k) ==
  LET walk[n \in 0 .. Cardinality(Draw) + 1] ==
        IF n = 0 THEN Unread
        ELSE LET so == walk[n - 1]
             IN  IF n > 1 /\ so.cursor = NoCursor THEN so
                 ELSE NextPage(IF n <= k THEN before ELSE after, raw, so)
  IN  walk[Cardinality(Draw) + 1]

-----------------------------------------------------------------------------
(* Reading on while an event comes in, the client is shown each row that was
   there when it began, once and not twice, whatever the page size and however
   stamps tie: "keyset-paginated on (createdAt, id)". *)
FeedWalks ==
  [][activities # activities' =>
       \A raw \in {NoLimit, 0, ACTIVITY_MAX_LIMIT + 1}, k \in 1 .. Cardinality(activities) :
         LET walk == Walk(activities, activities', raw, k)
         IN  activities \subseteq walk.shown /\ activities \intersect walk.again = {}]_activities
=============================================================================
