-------------------------- MODULE PaginationProofs --------------------------
(***************************************************************************)
(* Proofs about Pagination, for any events, sources, limits, clock bound   *)
(* and driver time zone.                                                   *)
(***************************************************************************)
EXTENDS Pagination, SequenceTheorems, FiniteSetTheorems, TLAPS

USE EventAssumption, LimitAssumption, TimeAssumption, ZoneAssumption

-----------------------------------------------------------------------------
(* The order of the listing, and the cursor *)

\* (received_at, id) is a strict total order.
LEMMA PrecedesOrders ==
    ASSUME received \in [Events -> Times], NEW a \in Events, NEW b \in Events,
           NEW c \in Events
    PROVE  /\ ~Precedes(a, a)
           /\ Precedes(a, b) /\ Precedes(b, c) => Precedes(a, c)
           /\ a # b => Precedes(a, b) \/ Precedes(b, a)
BY DEF Precedes, Times

\* Whatever zone the driver returns, _as_utc gives the instant that was stored.
LEMMA CursorRoundTrip ==
    ASSUME NEW t \in Int
    PROVE  AsUtc(ReadBack(t)) = t
BY DEF AsUtc, ReadBack

\* The keyset condition after the cursor of d is "d precedes e".
LEMMA KeysetIsOrder ==
    ASSUME received \in [Events -> Times], NEW d \in Events, NEW e \in Events
    PROVE  /\ EncodeCursor(d) \in [ts : Times, id : Events]
           /\ After(EncodeCursor(d), e) <=> Precedes(d, e)
<1>1. received[d] \in Int BY DEF Times
<1>2. EncodeCursor(d) = [ts |-> received[d], id |-> d]
  BY <1>1, CursorRoundTrip DEF EncodeCursor
<1>3. EncodeCursor(d) \in [ts : Times, id : Events] BY <1>1, <1>2
<1>4. EncodeCursor(d) # NoCursor BY <1>3, CursorAssumption DEF Times
<1> QED BY <1>1, <1>2, <1>3, <1>4 DEF After, Precedes, Times

-----------------------------------------------------------------------------
(* One page *)

LEMMA SelectFacts ==
    ASSUME NEW S, NEW n \in Nat, NEW q \in Select(S, n)
    PROVE  /\ q \in Seq(S) /\ Len(q) <= n
           /\ \A i, j \in 1..Len(q) : i < j => Precedes(q[i], q[j])
           /\ \A e \in S : (\E i \in 1..Len(q) : q[i] = e)
                           \/ (Len(q) = n /\ \A i \in 1..Len(q) : Precedes(q[i], e))
<1>1. PICK m \in 0..n : q \in [1..m -> S] BY DEF Select
<1>2. q \in Seq(S) /\ Len(q) = m /\ DOMAIN q = 1..m BY <1>1
<1>3. \A e \in S : (\E i \in 1..m : q[i] = e) \/ e \in S \ Range(q)
  BY <1>2 DEF Range
<1> QED BY <1>2, <1>3 DEF Select

\* What a page shows of the rows S after the cursor, and what it leaves.
PageOf(S, limit, items, more) ==
    /\ items \in Seq(S)
    /\ \A i, j \in 1..Len(items) : i < j => Precedes(items[i], items[j])
    /\ more =>
           /\ Len(items) = limit
           /\ \E e \in S : \A i \in 1..limit : Precedes(items[i], e)
           /\ \A e \in S : (\E i \in 1..limit : items[i] = e) \/ Precedes(items[limit], e)
    /\ ~more => \A e \in S : \E i \in 1..Len(items) : items[i] = e

LEMMA PageFacts ==
    ASSUME NEW S, NEW limit \in Nat \ {0}, NEW rows \in Select(S, limit + 1)
    PROVE  PageOf(S, limit, Items(rows, limit), HasMore(rows, limit))
<1>0. PICK items : items = Items(rows, limit)
  OBVIOUS
<1> SUFFICES PageOf(S, limit, items, HasMore(rows, limit))
  BY <1>0
<1>1. /\ rows \in Seq(S) /\ Len(rows) <= limit + 1
      /\ \A i, j \in 1..Len(rows) : i < j => Precedes(rows[i], rows[j])
      /\ \A e \in S : (\E i \in 1..Len(rows) : rows[i] = e)
             \/ (Len(rows) = limit + 1 /\ \A i \in 1..Len(rows) : Precedes(rows[i], e))
  BY SelectFacts
<1>2. CASE HasMore(rows, limit)
  <2>1. Len(rows) = limit + 1 BY <1>1, <1>2 DEF HasMore
  <2>2. items = SubSeq(rows, 1, limit) BY <1>0, <1>2 DEF Items
  <2>3. /\ items \in Seq(S) /\ Len(items) = limit
        /\ \A i \in 1..limit : items[i] = rows[i]
    BY <1>1, <2>1, <2>2
  <2>4. rows[limit + 1] \in S /\ \A i \in 1..limit : Precedes(items[i], rows[limit + 1])
    BY <1>1, <2>1, <2>3
  <2>5. \A e \in S : (\E i \in 1..limit : items[i] = e) \/ Precedes(items[limit], e)
    <3> TAKE e \in S
    <3>1. CASE \E i \in 1..Len(rows) : rows[i] = e
      <4>1. PICK i \in 1..limit + 1 : rows[i] = e BY <3>1, <2>1
      <4> QED BY <4>1, <2>3, <2>4
    <3>2. CASE \A i \in 1..Len(rows) : Precedes(rows[i], e)
      BY <3>2, <2>1, <2>3
    <3> QED BY <1>1, <3>1, <3>2
  <2> QED BY <1>1, <1>2, <2>1, <2>3, <2>4, <2>5 DEF PageOf
<1>3. CASE ~HasMore(rows, limit)
  <2>1. items = rows /\ Len(rows) # limit + 1
    BY <1>0, <1>1, <1>3 DEF Items, HasMore
  <2> QED BY <1>1, <1>3, <2>1 DEF PageOf
<1> QED BY <1>2, <1>3

-----------------------------------------------------------------------------
(* Type correctness *)

LEMMA TypeInit == Init => TypeOK
BY DEF Init, TypeOK, Times

LEMMA TypeNext == TypeOK /\ [Next]_vars => TypeOK'
<1> SUFFICES ASSUME TypeOK, [Next]_vars PROVE TypeOK'
  OBVIOUS
<1> USE DEF TypeOK
<1>1. ASSUME NEW e \in Events, NEW s \in Sources, NEW t \in Times, Insert(e, s, t)
      PROVE  TypeOK'
  BY <1>1 DEF Insert
<1>2. ASSUME NEW cutoff \in 1..MaxTime + 1, Cleanup(cutoff)
      PROVE  TypeOK'
  BY <1>2 DEF Cleanup
<1>3. ASSUME NEW f \in Sources \cup {AnySource}, Open(f)
      PROVE  TypeOK'
  BY <1>3 DEF Open, table
<1>4. ASSUME NEW limit \in Limits, List(limit)
      PROVE  TypeOK'
  <2>1. PICK rows \in Select(Matching(filter, cursor), limit + 1) :
            /\ shown' = shown \o Items(rows, limit)
            /\ IF HasMore(rows, limit)
               THEN /\ cursor' = EncodeCursor(Items(rows, limit)[Len(Items(rows, limit))])
                    /\ walk' = "more"
               ELSE cursor' = NoCursor /\ walk' = "done"
    BY <1>4 DEF List
  <2> DEFINE items == Items(rows, limit)
  <2>2. Matching(filter, cursor) \subseteq Events BY DEF Matching
  <2>3. /\ items \in Seq(Matching(filter, cursor))
        /\ HasMore(rows, limit) => Len(items) = limit
    BY PageFacts DEF PageOf
  <2>4. items \in Seq(Events) BY <2>2, <2>3
  <2>5. shown' \in Seq(Events) BY <2>1, <2>4
  <2>6. HasMore(rows, limit) => cursor' \in [ts : Times, id : Events]
    <3> HAVE HasMore(rows, limit)
    <3>1. items[Len(items)] \in Events BY <2>3, <2>4
    <3>2. EncodeCursor(items[Len(items)]) \in [ts : Times, id : Events]
      <4> HIDE DEF items
      <4> QED BY <3>1, KeysetIsOrder
    <3> QED BY <2>1, <3>2
  <2> QED BY <1>4, <2>1, <2>5, <2>6 DEF List, table
<1>5. ASSUME UNCHANGED vars PROVE TypeOK'
  BY <1>5 DEF vars, table
<1> QED BY <1>1, <1>2, <1>3, <1>4, <1>5 DEF Next

\* Type correctness of the listing and its walks.
THEOREM TypeCorrect == Spec => []TypeOK
BY TypeInit, TypeNext, PTL DEF Spec

-----------------------------------------------------------------------------
(* The inductive invariant *)

\* What was shown is still a row, or was deleted; nobody inserts it again.
ShownExist == \A i \in DOMAIN shown : row[shown[i]] # "absent"

\* The client's cursor is that of the last row it was shown.
CursorIsLast ==
    walk = "more" =>
        \/ cursor = NoCursor /\ shown = <<>>
        \/ shown # <<>> /\ cursor = EncodeCursor(shown[Len(shown)])

\* The rows owed to the walk are there, and match its filter.
OwedLive == \A e \in owed : row[e] = "stored" /\ Wanted(filter, source[e])

\* A row owed was shown, or is still after the cursor.
OwedAhead ==
    walk = "more" =>
        \A e \in owed : (\E i \in DOMAIN shown : shown[i] = e) \/ After(cursor, e)

WalkInv ==
    /\ TypeOK /\ WalkDescends /\ NothingSkipped
    /\ ShownExist /\ CursorIsLast /\ OwedLive /\ OwedAhead

\* All that was shown precedes all that the next page may show.
LEMMA ShownBeforeMatching ==
    ASSUME TypeOK, WalkDescends, CursorIsLast, walk = "more",
           NEW e \in Events, After(cursor, e), NEW i \in DOMAIN shown
    PROVE  Precedes(shown[i], e)
<1>1. shown # <<>> /\ Len(shown) \in DOMAIN shown /\ i <= Len(shown)
  BY DEF TypeOK
<1>2. cursor = EncodeCursor(shown[Len(shown)]) BY <1>1 DEF CursorIsLast
<1>3. shown[i] \in Events /\ shown[Len(shown)] \in Events BY <1>1 DEF TypeOK
<1>4. received \in [Events -> Times] BY DEF TypeOK
<1>5. Precedes(shown[Len(shown)], e) BY <1>2, <1>3, <1>4, KeysetIsOrder
<1>6. CASE i = Len(shown) BY <1>5, <1>6
<1>7. CASE i < Len(shown)
  <2>1. Precedes(shown[i], shown[Len(shown)]) BY <1>1, <1>7 DEF WalkDescends
  <2> QED BY <1>3, <1>4, <1>5, <2>1, PrecedesOrders
<1> QED BY <1>1, <1>6, <1>7 DEF TypeOK

\* Conversely, what follows all that was shown is after the cursor.
LEMMA FollowersMatch ==
    ASSUME TypeOK, CursorIsLast, walk = "more",
           NEW e \in Events, \A i \in DOMAIN shown : Precedes(shown[i], e)
    PROVE  After(cursor, e)
<1>1. CASE cursor = NoCursor BY <1>1 DEF After
<1>2. CASE shown # <<>> /\ cursor = EncodeCursor(shown[Len(shown)])
  <2>1. Len(shown) \in DOMAIN shown /\ shown[Len(shown)] \in Events
    BY <1>2 DEF TypeOK
  <2>2. received \in [Events -> Times] BY DEF TypeOK
  <2> QED BY <1>2, <2>1, <2>2, KeysetIsOrder
<1> QED BY <1>1, <1>2 DEF CursorIsLast

LEMMA WalkInit == Init => WalkInv
<1> SUFFICES ASSUME Init PROVE WalkInv
  OBVIOUS
<1>1. TypeOK BY TypeInit
<1> QED BY <1>1 DEF Init, WalkInv, WalkDescends, NothingSkipped, ShownExist,
               CursorIsLast, OwedLive, OwedAhead

\* Nothing but Insert(e) and Open disturbs what the walk has been shown: the
\* columns of the rows shown and owed stay.
LEMMA InsertStep ==
    ASSUME WalkInv, NEW e \in Events, NEW s \in Sources, NEW t \in Times,
           Insert(e, s, t)
    PROVE  WalkInv'
<1> USE DEF WalkInv
<1>1. TypeOK'
  <2>1. Next BY DEF Next
  <2> QED BY <2>1, TypeNext
<1>2. \A d \in Events : row[d] # "absent" =>
          /\ d # e /\ row'[d] = row[d]
          /\ received'[d] = received[d] /\ source'[d] = source[d]
  BY DEF Insert, TypeOK
<1>3. received'[e] = t /\ row'[e] = "stored" /\ source'[e] = s
  BY DEF Insert, TypeOK
<1>4. /\ walk' = walk /\ filter' = filter /\ cursor' = cursor /\ shown' = shown
  BY DEF Insert
<1>5. \A i \in DOMAIN shown : shown[i] \in Events /\ received'[shown[i]] = received[shown[i]]
                              /\ row'[shown[i]] = row[shown[i]]
  <2> TAKE i \in DOMAIN shown
  <2>1. shown[i] \in Events BY DEF TypeOK
  <2>2. row[shown[i]] # "absent" BY DEF ShownExist
  <2> QED BY <1>2, <2>1, <2>2
<1>6. WalkDescends' BY <1>4, <1>5 DEF WalkDescends, Precedes
<1>7. ShownExist' BY <1>4, <1>5 DEF ShownExist
<1>8. CursorIsLast'
  <2>1. ASSUME shown # <<>>
        PROVE  EncodeCursor(shown[Len(shown)])' = EncodeCursor(shown[Len(shown)])
    <3>1. Len(shown) \in DOMAIN shown BY <2>1 DEF TypeOK
    <3> QED BY <1>4, <1>5, <3>1 DEF EncodeCursor
  <2> QED BY <1>4, <2>1 DEF CursorIsLast
<1>9. owed' = owed \/ (walk = "more" /\ Wanted(filter, s) /\ Ahead(e, t) /\ owed' = owed \cup {e})
  BY DEF Insert
<1>10. OwedLive'
  <2>1. \A d \in owed : row'[d] = "stored" /\ Wanted(filter, source'[d])
    BY <1>2 DEF OwedLive, TypeOK
  <2> QED BY <1>3, <1>4, <1>9, <2>1 DEF OwedLive
<1>11. NothingSkipped'
  BY <1>4, <1>9 DEF NothingSkipped
<1>12. OwedAhead'
  <2> SUFFICES ASSUME walk = "more", NEW d \in owed'
               PROVE  (\E i \in DOMAIN shown : shown[i] = d) \/ After(cursor, d)'
    BY <1>4 DEF OwedAhead
  <2>1. CASE d \in owed
    <3>1. d \in Events /\ row[d] # "absent" BY <2>1 DEF TypeOK, OwedLive
    <3>2. received'[d] = received[d] BY <1>2, <3>1
    <3> QED BY <1>4, <2>1, <3>2 DEF OwedAhead, After
  <2>2. CASE d = e /\ Ahead(e, t)
    <3>1. CASE cursor = NoCursor BY <1>4, <3>1 DEF After
    <3>2. CASE shown # <<>> /\ cursor = EncodeCursor(shown[Len(shown)])
      <4>1. Len(shown) \in DOMAIN shown /\ shown[Len(shown)] \in Events
        BY <3>2 DEF TypeOK
      <4>2. received[shown[Len(shown)]] > t \/ (received[shown[Len(shown)]] = t /\ shown[Len(shown)] > e)
        BY <2>2, <4>1 DEF Ahead
      <4>3. received[shown[Len(shown)]] \in Int BY <4>1 DEF TypeOK, Times
      <4>4. cursor = [ts |-> received[shown[Len(shown)]], id |-> shown[Len(shown)]]
        BY <3>2, <4>3, CursorRoundTrip DEF EncodeCursor
      <4> QED BY <1>3, <1>4, <2>2, <4>1, <4>2, <4>3, <4>4 DEF After, Times
    <3> QED BY <3>1, <3>2 DEF CursorIsLast
  <2> QED BY <1>9, <2>1, <2>2
<1> QED BY <1>1, <1>6, <1>7, <1>8, <1>10, <1>11, <1>12

LEMMA CleanupStep ==
    ASSUME WalkInv, NEW cutoff \in 1..MaxTime + 1, Cleanup(cutoff)
    PROVE  WalkInv'
<1> USE DEF WalkInv
<1>1. TypeOK'
  <2>1. Next BY DEF Next
  <2> QED BY <2>1, TypeNext
<1>2. /\ UNCHANGED <<source, received, walk, filter, cursor, shown>>
      /\ owed' \subseteq owed
  BY DEF Cleanup
<1>3. \A d \in Events : row[d] # "absent" => row'[d] # "absent"
  BY DEF Cleanup, TypeOK
<1>4. \A d \in owed' : row'[d] = row[d] BY DEF Cleanup, TypeOK
<1>5. WalkDescends' BY <1>2 DEF WalkDescends, Precedes
<1>6. NothingSkipped' BY <1>2 DEF NothingSkipped
<1>7. ShownExist' BY <1>2, <1>3 DEF ShownExist, TypeOK
<1>8. CursorIsLast' BY <1>2 DEF CursorIsLast, EncodeCursor
<1>9. OwedLive' BY <1>2, <1>4 DEF OwedLive
<1>10. OwedAhead' BY <1>2 DEF OwedAhead, After
<1> QED BY <1>1, <1>5, <1>6, <1>7, <1>8, <1>9, <1>10

LEMMA OpenStep ==
    ASSUME WalkInv, NEW f \in Sources \cup {AnySource}, Open(f)
    PROVE  WalkInv'
<1> USE DEF WalkInv
<1>1. TypeOK'
  <2>1. Next BY DEF Next
  <2> QED BY <2>1, TypeNext
<1>2. /\ walk' = "more" /\ cursor' = NoCursor /\ shown' = <<>> /\ filter' = f
      /\ UNCHANGED <<row, source, received>>
      /\ owed' = {e \in Events : row[e] = "stored" /\ Wanted(f, source[e])}
  BY DEF Open, table
<1> QED BY <1>1, <1>2 DEF WalkDescends, NothingSkipped, ShownExist, CursorIsLast,
               OwedLive, OwedAhead, After

\* A page, appended to what was shown.
LEMMA ListFacts ==
    ASSUME TypeOK, walk = "more", CursorIsLast, WalkDescends,
           NEW limit \in Limits, List(limit)
    PROVE  \E items \in Seq(Matching(filter, cursor)) :
        /\ shown' = shown \o items
        /\ shown' \in Seq(Events) /\ Len(shown') = Len(shown) + Len(items)
        /\ \A i \in 1..Len(shown) : shown'[i] = shown[i]
        /\ \A i \in 1..Len(items) : shown'[Len(shown) + i] = items[i]
        /\ \A i, j \in DOMAIN shown' : i < j => Precedes(shown'[i], shown'[j])
        /\ \/ /\ walk' = "done" /\ cursor' = NoCursor
              /\ \A e \in Matching(filter, cursor) : \E i \in 1..Len(items) : items[i] = e
           \/ /\ walk' = "more" /\ Len(items) = limit
              /\ cursor' = EncodeCursor(items[limit])
              /\ \E e \in Matching(filter, cursor) :
                     \A i \in 1..limit : Precedes(items[i], e)
              /\ \A e \in Matching(filter, cursor) :
                     (\E i \in 1..limit : items[i] = e) \/ Precedes(items[limit], e)
<1> DEFINE S == Matching(filter, cursor)
<1>1. PICK rows \in Select(S, limit + 1) :
          /\ shown' = shown \o Items(rows, limit)
          /\ IF HasMore(rows, limit)
             THEN /\ cursor' = EncodeCursor(Items(rows, limit)[Len(Items(rows, limit))])
                  /\ walk' = "more"
             ELSE cursor' = NoCursor /\ walk' = "done"
  BY DEF List
<1>2. PICK items : items = Items(rows, limit)
  OBVIOUS
<1>3. PageOf(S, limit, items, HasMore(rows, limit))
  <2>1. limit \in Nat \ {0} OBVIOUS
  <2> HIDE DEF S
  <2> QED BY <1>2, <2>1, PageFacts
<1>4. S \subseteq Events /\ \A e \in S : After(cursor, e) BY DEF Matching
<1>5. shown' = shown \o items /\ shown \in Seq(Events) /\ items \in Seq(Events)
  BY <1>1, <1>2, <1>3, <1>4 DEF TypeOK, PageOf
<1>6. /\ shown' \in Seq(Events) /\ Len(shown') = Len(shown) + Len(items)
      /\ DOMAIN shown' = 1..(Len(shown) + Len(items))
      /\ \A i \in 1..Len(shown) : shown'[i] = shown[i]
      /\ \A i \in 1..Len(items) : shown'[Len(shown) + i] = items[i]
  <2> HIDE DEF S
  <2> QED BY <1>5
<1>7. \A i, j \in DOMAIN shown' : i < j => Precedes(shown'[i], shown'[j])
  <2> SUFFICES ASSUME NEW i \in DOMAIN shown', NEW j \in DOMAIN shown', i < j
               PROVE  Precedes(shown'[i], shown'[j])
    OBVIOUS
  <2>1. CASE j <= Len(shown)
    <3>1. i \in 1..Len(shown) /\ j \in 1..Len(shown) /\ DOMAIN shown = 1..Len(shown)
      BY <1>5, <1>6, <2>1
    <3> QED BY <1>6, <3>1 DEF WalkDescends
  <2>2. CASE i <= Len(shown) /\ j > Len(shown)
    <3>1. i \in 1..Len(shown) /\ DOMAIN shown = 1..Len(shown)
      BY <1>5, <1>6, <2>2
    <3>2. PICK k \in 1..Len(items) : j = Len(shown) + k
      <4>1. j - Len(shown) \in 1..Len(items) BY <1>5, <1>6, <2>2
      <4> QED BY <1>5, <1>6, <4>1
    <3>3. items[k] \in S BY <1>3, <3>2 DEF PageOf
    <3> QED BY <1>4, <1>6, <3>1, <3>2, <3>3, ShownBeforeMatching
  <2>3. CASE i > Len(shown)
    <3>1. /\ i - Len(shown) \in 1..Len(items) /\ j - Len(shown) \in 1..Len(items)
          /\ i = Len(shown) + (i - Len(shown)) /\ j = Len(shown) + (j - Len(shown))
          /\ i - Len(shown) < j - Len(shown)
      BY <1>5, <1>6, <2>3
    <3>2. shown'[i] = items[i - Len(shown)] /\ shown'[j] = items[j - Len(shown)]
      BY <1>6, <3>1
    <3> QED BY <1>3, <3>1, <3>2 DEF PageOf
  <2> QED BY <1>5, <1>6, <2>1, <2>2, <2>3
<1> QED BY <1>1, <1>2, <1>3, <1>5, <1>6, <1>7 DEF PageOf

LEMMA ListStep ==
    ASSUME WalkInv, NEW limit \in Limits, List(limit)
    PROVE  WalkInv'
<1> USE DEF WalkInv
<1> DEFINE S == Matching(filter, cursor)
<1>1. TypeOK'
  <2>1. Next BY DEF Next
  <2> QED BY <2>1, TypeNext
<1>2. walk = "more" /\ UNCHANGED <<row, source, received, filter, owed>>
  BY DEF List, table
<1>3. PICK items \in Seq(S) :
        /\ shown' \in Seq(Events) /\ Len(shown') = Len(shown) + Len(items)
        /\ \A i \in 1..Len(shown) : shown'[i] = shown[i]
        /\ \A i \in 1..Len(items) : shown'[Len(shown) + i] = items[i]
        /\ \A i, j \in DOMAIN shown' : i < j => Precedes(shown'[i], shown'[j])
        /\ \/ /\ walk' = "done"
              /\ \A e \in S : \E i \in 1..Len(items) : items[i] = e
           \/ /\ walk' = "more" /\ Len(items) = limit
              /\ cursor' = EncodeCursor(items[limit])
              /\ \A e \in S : (\E i \in 1..limit : items[i] = e) \/ Precedes(items[limit], e)
  BY <1>2, ListFacts
<1>4. S \subseteq Events /\ \A e \in S : row[e] = "stored"
  BY DEF Matching
<1>5. shown \in Seq(Events) /\ DOMAIN shown = 1..Len(shown) /\ Len(shown) \in Nat
      /\ DOMAIN shown' = 1..Len(shown') /\ Len(items) \in Nat
  <2> HIDE DEF S
  <2> QED BY <1>3 DEF TypeOK
<1>6. \A d, e : Precedes(d, e)' <=> Precedes(d, e) BY <1>2 DEF Precedes
<1>7. WalkDescends' BY <1>3, <1>6 DEF WalkDescends
<1>8. \A i \in DOMAIN shown' : \/ i \in DOMAIN shown /\ shown'[i] = shown[i]
                               \/ shown'[i] \in S
  <2> TAKE i \in DOMAIN shown'
  <2>1. CASE i <= Len(shown)
    <3>1. i \in 1..Len(shown) BY <1>5, <2>1
    <3> QED BY <1>3, <1>5, <3>1
  <2>2. CASE i > Len(shown)
    <3>1. i - Len(shown) \in 1..Len(items) /\ i = Len(shown) + (i - Len(shown))
      BY <1>3, <1>5, <2>2
    <3>2. items[i - Len(shown)] \in S BY <1>3, <3>1
    <3> QED BY <1>3, <3>1, <3>2
  <2> QED BY <1>5, <2>1, <2>2
<1>9. ShownExist' BY <1>2, <1>4, <1>8 DEF ShownExist
<1>10. OwedLive' BY <1>2 DEF OwedLive
\* What is owed was shown before, or is among the rows after the cursor.
<1>11. \A e \in owed : (\E i \in DOMAIN shown : shown[i] = e) \/ e \in S
  BY <1>2 DEF OwedAhead, OwedLive, Matching, TypeOK
<1>12. \A i \in DOMAIN shown : i \in DOMAIN shown' /\ shown'[i] = shown[i]
  BY <1>3, <1>5
<1>13. \A i \in 1..Len(items) : Len(shown) + i \in DOMAIN shown' /\ shown'[Len(shown) + i] = items[i]
  <2> TAKE i \in 1..Len(items)
  <2>1. shown'[Len(shown) + i] = items[i] BY <1>3
  <2>2. Len(shown) + i \in 1..Len(shown') BY <1>3, <1>5
  <2> QED BY <1>5, <2>1, <2>2
<1>14. CASE walk' = "done" /\ \A e \in S : \E i \in 1..Len(items) : items[i] = e
  <2>1. \A e \in owed : \E i \in DOMAIN shown' : shown'[i] = e
    BY <1>11, <1>12, <1>13, <1>14
  <2>2. NothingSkipped' BY <1>2, <2>1 DEF NothingSkipped, Range
  <2> QED BY <1>1, <1>7, <1>9, <1>10, <1>14, <2>2 DEF CursorIsLast, OwedAhead
<1>15. CASE /\ walk' = "more" /\ Len(items) = limit
            /\ cursor' = EncodeCursor(items[limit])
            /\ \A e \in S : (\E i \in 1..limit : items[i] = e) \/ Precedes(items[limit], e)
  <2>1. limit \in 1..Len(items) /\ items[limit] \in S
    BY <1>3, <1>15
  <2>2. shown' # <<>> /\ shown'[Len(shown')] = items[limit]
    BY <1>3, <1>5, <1>15, <2>1
  <2>3. \A d : EncodeCursor(d)' = EncodeCursor(d) BY <1>2 DEF EncodeCursor
  <2>4. CursorIsLast'
    BY <1>15, <2>2, <2>3 DEF CursorIsLast, EncodeCursor
  <2>5. NothingSkipped' BY <1>15 DEF NothingSkipped
  <2>6. ASSUME NEW e \in S, Precedes(items[limit], e) PROVE After(cursor, e)'
    <3>1. received \in [Events -> Times] BY DEF TypeOK
    <3>2. After(EncodeCursor(items[limit]), e) BY <1>4, <2>1, <2>6, <3>1, KeysetIsOrder
    <3> QED BY <1>2, <1>15, <3>2 DEF After
  <2>7. \A e \in owed : (\E i \in DOMAIN shown' : shown'[i] = e) \/ After(cursor, e)'
    BY <1>11, <1>12, <1>13, <1>15, <2>6
  <2>8. OwedAhead' BY <1>2, <2>7 DEF OwedAhead
  <2> QED BY <1>1, <1>7, <1>9, <1>10, <2>4, <2>5, <2>8
<1> QED BY <1>3, <1>14, <1>15

LEMMA WalkNext == WalkInv /\ [Next]_vars => WalkInv'
<1> SUFFICES ASSUME WalkInv, [Next]_vars PROVE WalkInv'
  OBVIOUS
<1>1. CASE UNCHANGED vars
  BY <1>1 DEF vars, table, WalkInv, TypeOK, WalkDescends, NothingSkipped, ShownExist,
              CursorIsLast, OwedLive, OwedAhead, Precedes, After, EncodeCursor
<1> QED BY <1>1, InsertStep, CleanupStep, OpenStep, ListStep DEF Next

\* No event is on two pages of a walk, and the pages go down in order.
THEOREM WalkDescendsAlways == Spec => []WalkDescends
<1>1. WalkInv => WalkDescends BY DEF WalkInv
<1> QED BY <1>1, WalkInit, WalkNext, PTL DEF Spec

\* A finished walk has shown all it owed: what was there from the start, and
\* what was committed ahead of the client, less what retention deleted.
THEOREM NothingSkippedAlways == Spec => []NothingSkipped
<1>1. WalkInv => NothingSkipped BY DEF WalkInv
<1> QED BY <1>1, WalkInit, WalkNext, PTL DEF Spec

\* A next_cursor comes with a full page and a row left, none with none left.
THEOREM CursorIsHonestAlways == Spec => CursorIsHonest
<1>1. WalkInv /\ [Next]_vars =>
          [\A limit \in Limits : List(limit) => HonestPage(limit)]_vars
  <2> SUFFICES ASSUME WalkInv, NEW limit \in Limits, List(limit)
               PROVE  HonestPage(limit)
    OBVIOUS
  <2> USE DEF WalkInv
  <2> DEFINE S == Matching(filter, cursor)
  <2>1. walk = "more" BY DEF List
  <2>2. PICK items \in Seq(S) :
        /\ shown' = shown \o items
        /\ shown' \in Seq(Events) /\ Len(shown') = Len(shown) + Len(items)
        /\ \A i \in 1..Len(shown) : shown'[i] = shown[i]
        /\ \A i \in 1..Len(items) : shown'[Len(shown) + i] = items[i]
        /\ \/ /\ walk' = "done"
              /\ \A e \in S : \E i \in 1..Len(items) : items[i] = e
           \/ /\ walk' = "more" /\ Len(items) = limit
              /\ \E e \in S : \A i \in 1..limit : Precedes(items[i], e)
    BY <2>1, ListFacts
  <2>3. S \subseteq Events /\ received \in [Events -> Times]
    BY DEF Matching, TypeOK
  <2>4. shown \in Seq(Events) /\ DOMAIN shown = 1..Len(shown) /\ Len(shown) \in Nat
        /\ DOMAIN shown' = 1..Len(shown') /\ Len(items) \in Nat
    <3> HIDE DEF S
    <3> QED BY <2>2 DEF TypeOK
  <2>5. \A e \in Left(shown') : e \in S
    <3> TAKE e \in Left(shown')
    <3>1. e \in Events /\ row[e] = "stored" /\ Wanted(filter, source[e])
          /\ \A i \in DOMAIN shown' : Precedes(shown'[i], e)
      BY DEF Left
    <3>2. \A i \in DOMAIN shown : Precedes(shown[i], e)
      BY <2>2, <2>4, <3>1
    <3>3. After(cursor, e) BY <2>1, <3>1, <3>2, FollowersMatch
    <3> QED BY <3>1, <3>3 DEF Matching
  <2>6. CASE walk' = "done" /\ \A e \in S : \E i \in 1..Len(items) : items[i] = e
    <3>1. ASSUME NEW e \in Left(shown') PROVE FALSE
      <4>1. PICK i \in 1..Len(items) : items[i] = e BY <2>5, <2>6
      <4>2. Len(shown) + i \in DOMAIN shown' /\ shown'[Len(shown) + i] = e
        BY <2>2, <2>4, <4>1
      <4>3. Precedes(e, e) BY <4>2 DEF Left
      <4> QED BY <2>3, <2>5, <4>3, PrecedesOrders
    <3> QED BY <2>6, <3>1 DEF HonestPage
  <2>7. CASE walk' = "more" /\ Len(items) = limit
             /\ \E e \in S : \A i \in 1..limit : Precedes(items[i], e)
    <3>1. PICK e \in S : \A i \in 1..limit : Precedes(items[i], e) BY <2>7
    <3>2. e \in Events /\ row[e] = "stored" /\ Wanted(filter, source[e]) /\ After(cursor, e)
      BY DEF Matching
    <3>3. \A i \in DOMAIN shown : Precedes(shown[i], e)
      BY <2>1, <3>2, ShownBeforeMatching
    <3>4. \A i \in DOMAIN shown' : Precedes(shown'[i], e)
      <4> TAKE i \in DOMAIN shown'
      <4>1. CASE i <= Len(shown)
        <5>1. i \in 1..Len(shown) BY <2>4, <4>1
        <5> QED BY <2>2, <2>4, <3>3, <5>1
      <4>2. CASE i > Len(shown)
        <5>1. i - Len(shown) \in 1..limit /\ i = Len(shown) + (i - Len(shown))
          BY <2>2, <2>4, <2>7, <4>2
        <5>2. shown'[i] = items[i - Len(shown)] BY <2>2, <2>7, <5>1
        <5> QED BY <3>1, <5>1, <5>2
      <4> QED BY <2>4, <4>1, <4>2
    <3>5. e \in Left(shown') BY <3>2, <3>4 DEF Left
    <3>6. Len(shown') - Len(shown) = limit BY <2>2, <2>4, <2>7
    <3> QED BY <2>7, <3>5, <3>6 DEF HonestPage
  <2> QED BY <2>2, <2>6, <2>7
<1> QED BY <1>1, WalkInit, WalkNext, PTL DEF Spec, CursorIsHonest

\* A walk shows no more events than there are, and each page with a cursor
\* shows at least one: over n events, at most n pages before the last.
THEOREM WalkIsBounded ==
    ASSUME IsFiniteSet(Events)
    PROVE  Spec => /\ [](Len(shown) \in 0..Cardinality(Events))
                   /\ [][\A limit \in Limits :
                            List(limit) /\ walk' = "more" => Len(shown') > Len(shown)]_vars
<1>1. WalkInv => Len(shown) \in 0..Cardinality(Events)
  <2> SUFFICES ASSUME WalkInv PROVE Len(shown) \in 0..Cardinality(Events)
    OBVIOUS
  <2>1. shown \in Seq(Events) /\ received \in [Events -> Times]
    BY DEF WalkInv, TypeOK
  <2>2. /\ Len(shown) \in Nat /\ DOMAIN shown = 1..Len(shown)
        /\ shown \in [1..Len(shown) -> Events]
    BY <2>1
  <2>3. ASSUME NEW i \in 1..Len(shown), NEW j \in 1..Len(shown), shown[i] = shown[j]
        PROVE  i = j
    <3>1. shown[i] \in Events /\ ~Precedes(shown[i], shown[i])
      BY <2>1, <2>2, PrecedesOrders
    <3>2. ~(i < j) /\ ~(j < i)
      BY <2>2, <2>3, <3>1 DEF WalkInv, WalkDescends
    <3> QED BY <2>2, <3>2
  <2>4. shown \in Injection(1..Len(shown), Events)
    BY <2>2, <2>3 DEF Injection, IsInjective
  <2>5. Cardinality(1..Len(shown)) <= Cardinality(Events) /\ Cardinality(Events) \in Nat
    BY <2>4, FS_Injection, FS_CardinalityType
  <2>6. Cardinality(1..Len(shown)) = Len(shown)
    <3>1. \A n \in Nat : Cardinality(1..n) = n
      BY FS_Interval
    <3> QED BY <2>2, <3>1
  <2> QED BY <2>2, <2>5, <2>6
<1>2. TypeOK /\ TypeOK' /\ [\A limit \in Limits : List(limit) => HonestPage(limit)]_vars =>
          [\A limit \in Limits :
              List(limit) /\ walk' = "more" => Len(shown') > Len(shown)]_vars
  BY DEF HonestPage, TypeOK
<1> QED BY <1>1, <1>2, WalkInit, WalkNext, TypeCorrect, CursorIsHonestAlways, PTL
        DEF Spec, CursorIsHonest

=============================================================================
