----------------------------- MODULE Pagination -----------------------------
(***************************************************************************)
(* GET /events: a client walks the pages from the newest event to the      *)
(* oldest, carrying the cursor from each page to the next request, while   *)
(* events are inserted and retention deletes others.  The server keeps     *)
(* nothing of a walk: between two pages there is only the cursor.          *)
(*                                                                         *)
(* received_at is taken before the row is committed and every process has  *)
(* its own clock, so rows become visible in any order of received_at, with *)
(* equal values too.                                                       *)
(*                                                                         *)
(* A definition marked `variant` is not the code: it is a bug the code     *)
(* could have, and a property is shown to be broken by it.                 *)
(***************************************************************************)
EXTENDS Integers, Sequences, Functions

CONSTANTS Events,     \* event ids, in the order the database compares them
          Sources,    \* values of the column source
          AnySource,  \* no ?source=, or an empty one
          Limits,     \* values of ?limit=, within 1..100
          MaxTime,    \* bound on received_at
          Zone,       \* UTC offset of the datetimes the driver returns, or Naive
          Naive,      \* SQLite: they come back without one
          NoCursor    \* no ?cursor=, and next_cursor null

ASSUME EventAssumption == Events \subseteq Int
ASSUME SourceAssumption == AnySource \notin Sources
ASSUME LimitAssumption == Limits \subseteq Nat \ {0}
ASSUME TimeAssumption == MaxTime \in Nat
ASSUME ZoneAssumption == Zone \in Int \cup {Naive}
ASSUME CursorAssumption == NoCursor \notin [ts : 0..MaxTime, id : Events]

VARIABLES
    row,       \* row[e]: "absent", "stored" or "deleted"
    source,    \* source[e], received[e]: its columns, kept after a DELETE
    received,
    walk,      \* "idle", "more" (the client has another page to ask for), "done"
    filter,    \* the ?source= of the walk
    cursor,    \* the cursor the client holds
    shown,     \* the ids on the pages so far, in order
    owed       \* history: live rows this walk has to show or has shown

table == <<row, source, received>>
vars == <<table, walk, filter, cursor, shown, owed>>

-----------------------------------------------------------------------------
Times == 0..MaxTime

\* ORDER BY received_at DESC, id DESC.
Precedes(d, e) ==
    received[d] > received[e] \/ (received[d] = received[e] /\ d > e)

\* A datetime the driver returns, and _as_utc of it, as instants.
ReadBack(t) == IF Zone = Naive THEN [clock |-> t, zone |-> Naive]
                               ELSE [clock |-> t + Zone, zone |-> Zone]

AsUtcReplaced(v) == v.clock  \* variant: replace(tzinfo=utc) for astimezone

AsUtc(v) == IF v.zone = Naive THEN v.clock ELSE v.clock - v.zone

\* The cursor of the last row of a page.
EncodeCursor(e) == [ts |-> AsUtc(ReadBack(received[e])), id |-> e]

AfterOrAt(c, e) ==  \* variant: <= for <
    c = NoCursor \/ received[e] < c.ts \/ (received[e] = c.ts /\ e <= c.id)

AfterTime(c, e) == c = NoCursor \/ received[e] < c.ts  \* variant: no tie-break

\* The keyset condition of the WHERE clause.
After(c, e) ==
    c = NoCursor \/ received[e] < c.ts \/ (received[e] = c.ts /\ e < c.id)

Wanted(f, s) == f = AnySource \/ s = f

Matching(f, c) ==
    {e \in Events : row[e] = "stored" /\ Wanted(f, source[e]) /\ After(c, e)}

\* What ORDER BY ... LIMIT n may return of the rows S.
Select(S, n) ==
    {q \in UNION {[1..m -> S] : m \in 0..n} :
        /\ \A i, j \in DOMAIN q : i < j => Precedes(q[i], q[j])
        /\ \A e \in S \ Range(q) :
               Len(q) = n /\ \A i \in DOMAIN q : Precedes(q[i], e)}

HasMoreAtLimit(rows, limit) == Len(rows) >= limit  \* variant: limit for limit + 1

HasMore(rows, limit) == Len(rows) > limit

Items(rows, limit) == IF HasMore(rows, limit) THEN SubSeq(rows, 1, limit) ELSE rows

-----------------------------------------------------------------------------
Init ==
    /\ row = [e \in Events |-> "absent"]
    /\ source = [e \in Events |-> AnySource]
    /\ received = [e \in Events |-> 0]
    /\ walk = "idle"
    /\ filter = AnySource
    /\ cursor = NoCursor
    /\ shown = <<>>
    /\ owed = {}

\* The client still has to come to e: nothing shown, or e sorts after it all.
Ahead(e, t) ==
    \A i \in DOMAIN shown :
        LET d == shown[i] IN received[d] > t \/ (received[d] = t /\ d > e)

\* A webhook's row becomes visible.
Insert(e, s, t) ==
    /\ row[e] = "absent"
    /\ row' = [row EXCEPT ![e] = "stored"]
    /\ source' = [source EXCEPT ![e] = s]
    /\ received' = [received EXCEPT ![e] = t]
    /\ owed' = IF walk = "more" /\ Wanted(filter, s) /\ Ahead(e, t)
               THEN owed \cup {e} ELSE owed
    /\ UNCHANGED <<walk, filter, cursor, shown>>

\* Retention: every row older than the cutoff.
Cleanup(cutoff) ==
    LET victims == {e \in Events : row[e] = "stored" /\ received[e] < cutoff} IN
    /\ victims # {}
    /\ row' = [e \in Events |-> IF e \in victims THEN "deleted" ELSE row[e]]
    /\ owed' = owed \ victims
    /\ UNCHANGED <<source, received, walk, filter, cursor, shown>>

\* The client starts over, without a cursor.
Open(f) ==
    /\ walk # "more"
    /\ walk' = "more"
    /\ filter' = f
    /\ cursor' = NoCursor
    /\ shown' = <<>>
    /\ owed' = {e \in Events : row[e] = "stored" /\ Wanted(f, source[e])}
    /\ UNCHANGED table

ListCounting(limit) ==  \* variant: has_more from a count of all the matching rows
    /\ walk = "more"
    /\ \E rows \in Select(Matching(filter, cursor), limit) :
           /\ shown' = shown \o rows
           /\ IF \E all \in Select(Matching(filter, NoCursor), limit + 1) : HasMore(all, limit)
              THEN /\ cursor' = IF rows = <<>> THEN cursor ELSE EncodeCursor(rows[Len(rows)])
                   /\ walk' = "more"
              ELSE cursor' = NoCursor /\ walk' = "done"
    /\ UNCHANGED <<table, filter, owed>>

\* GET /events with the client's cursor; each request may name its own limit.
List(limit) ==
    /\ walk = "more"
    /\ \E rows \in Select(Matching(filter, cursor), limit + 1) :
           LET items == Items(rows, limit) IN
           /\ shown' = shown \o items
           /\ IF HasMore(rows, limit)
              THEN cursor' = EncodeCursor(items[Len(items)]) /\ walk' = "more"
              ELSE cursor' = NoCursor /\ walk' = "done"
    /\ UNCHANGED <<table, filter, owed>>

Next ==
    \/ \E e \in Events, s \in Sources, t \in Times : Insert(e, s, t)
    \/ \E cutoff \in 1..MaxTime + 1 : Cleanup(cutoff)
    \/ \E f \in Sources \cup {AnySource} : Open(f)
    \/ \E limit \in Limits : List(limit)

Spec == Init /\ [][Next]_vars

\* A client that started a walk goes on asking for the next page.
FairSpec == Spec /\ WF_vars(\E limit \in Limits : List(limit))

-----------------------------------------------------------------------------
(* Properties *)

TypeOK ==
    /\ row \in [Events -> {"absent", "stored", "deleted"}]
    /\ source \in [Events -> Sources \cup {AnySource}]
    /\ received \in [Events -> Times]
    /\ walk \in {"idle", "more", "done"}
    /\ filter \in Sources \cup {AnySource}
    /\ cursor \in [ts : Times, id : Events] \cup {NoCursor}
    /\ shown \in Seq(Events)
    /\ owed \in SUBSET Events

\* The pages of a walk, put together, go strictly down in (received_at, id),
\* whatever was inserted or deleted between them: no event is on two pages.
WalkDescends ==
    \A i, j \in DOMAIN shown : i < j => Precedes(shown[i], shown[j])

\* A finished walk has shown every row that was there when it started or was
\* committed ahead of the client, unless retention deleted it.
NothingSkipped == walk = "done" => owed \subseteq Range(shown)

Left(pages) ==
    {e \in Events : /\ row[e] = "stored"
                    /\ Wanted(filter, source[e])
                    /\ \A i \in DOMAIN pages : Precedes(pages[i], e)}

HonestPage(limit) ==
    /\ walk' = "more" <=> Left(shown') # {}
    /\ walk' = "more" => Len(shown') - Len(shown) = limit

\* next_cursor tells the truth at the time of the page: with a cursor the page
\* is full and a matching row is left, without one no matching row is left.
CursorIsHonest == [][\A limit \in Limits : List(limit) => HonestPage(limit)]_vars

\* A walk ends, whatever is inserted and deleted between its pages: each page
\* with a cursor takes the client further down.
WalkEnds == walk = "more" ~> walk = "done"

=============================================================================
