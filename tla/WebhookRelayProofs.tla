------------------------- MODULE WebhookRelayProofs -------------------------
(***************************************************************************)
(* Proofs about WebhookRelay, for any number of processes, workers, events *)
(* and keys and any queue size.                                            *)
(***************************************************************************)
EXTENDS WebhookRelay, TLAPS

-----------------------------------------------------------------------------
(* Sequences as queues of distinct ids *)

\* Appending to a queue adds one id to it, and keeps its ids distinct if the
\* id is new.
LEMMA AppendFacts ==
    ASSUME NEW S, NEW q \in Seq(S), NEW e \in S
    PROVE  /\ Append(q, e) \in Seq(S)
           /\ Len(Append(q, e)) = Len(q) + 1
           /\ Range(Append(q, e)) = Range(q) \cup {e}
           /\ (IsInjective(q) /\ e \notin Range(q)) => IsInjective(Append(q, e))
<1>1. /\ Append(q, e) \in Seq(S)
      /\ Len(Append(q, e)) = Len(q) + 1
      /\ DOMAIN Append(q, e) = 1..(Len(q) + 1)
      /\ DOMAIN q = 1..Len(q)
      /\ Len(q) \in Nat
  OBVIOUS
<1>2. \A i \in 1..Len(q) : Append(q, e)[i] = q[i]
  OBVIOUS
<1>3. Append(q, e)[Len(q) + 1] = e
  OBVIOUS
<1>4. Range(Append(q, e)) = Range(q) \cup {e}
  BY <1>1, <1>2, <1>3 DEF Range
<1>5. ASSUME IsInjective(q), e \notin Range(q)
      PROVE  IsInjective(Append(q, e))
  BY <1>1, <1>2, <1>3, <1>5 DEF Range, IsInjective
<1> QED BY <1>1, <1>4, <1>5

\* Removing the head of a queue of distinct ids removes just that id.
LEMMA TailFacts ==
    ASSUME NEW S, NEW q \in Seq(S), q # <<>>
    PROVE  /\ Head(q) \in S
           /\ Tail(q) \in Seq(S)
           /\ Len(Tail(q)) = Len(q) - 1
           /\ Range(q) = Range(Tail(q)) \cup {Head(q)}
           /\ IsInjective(q) => /\ IsInjective(Tail(q))
                                /\ Head(q) \notin Range(Tail(q))
<1>1. /\ Head(q) \in S
      /\ Tail(q) \in Seq(S)
      /\ Len(Tail(q)) = Len(q) - 1
      /\ Len(q) \in Nat \ {0}
      /\ DOMAIN q = 1..Len(q)
      /\ DOMAIN Tail(q) = 1..(Len(q) - 1)
      /\ Head(q) = q[1]
  OBVIOUS
<1>2. \A i \in 1..(Len(q) - 1) : Tail(q)[i] = q[i + 1]
  OBVIOUS
<1>3. Range(q) = Range(Tail(q)) \cup {Head(q)}
  <2>1. ASSUME NEW x \in Range(q) PROVE x \in Range(Tail(q)) \cup {Head(q)}
    <3>1. PICK i \in 1..Len(q) : x = q[i]
      BY <1>1 DEF Range
    <3>2. CASE i = 1
      BY <1>1, <3>1, <3>2
    <3>3. CASE i # 1
      <4>1. i - 1 \in 1..(Len(q) - 1) /\ Tail(q)[i - 1] = q[i]
        BY <1>1, <1>2, <3>3
      <4> QED BY <1>1, <3>1, <4>1 DEF Range
    <3> QED BY <3>2, <3>3
  <2>2. ASSUME NEW x \in Range(Tail(q)) PROVE x \in Range(q)
    BY <1>1, <1>2 DEF Range
  <2>3. Head(q) \in Range(q)
    BY <1>1 DEF Range
  <2> QED BY <2>1, <2>2, <2>3
<1>4. ASSUME IsInjective(q)
      PROVE  IsInjective(Tail(q)) /\ Head(q) \notin Range(Tail(q))
  BY <1>1, <1>2, <1>4 DEF Range, IsInjective
<1> QED BY <1>1, <1>3, <1>4

\* The empty queue holds no id.
LEMMA EmptyFacts ==
    ASSUME NEW S
    PROVE  <<>> \in Seq(S) /\ Len(<<>>) = 0 /\ Range(<<>>) = {} /\ IsInjective(<<>>)
BY DEF Range, IsInjective

-----------------------------------------------------------------------------
(* Type correctness *)

USE QueueSizeAssumption, ClockAssumption, FlagAssumption, NullAssumption

\* Constants and records that occur in every step.
LEMMA NullFacts ==
    /\ Absent \in Row /\ Free \in Handler /\ NoReply \in Reply
    /\ AllIdle \in [Workers -> Events \cup {NoEvent}]
BY DEF Absent, Row, RowStatus, Free, Handler, NoReply, Reply, AllIdle

\* What a handler carries at each of its points.
LEMMA HandlerFacts ==
    ASSUME TypeOK, NEW p \in Procs
    PROVE  /\ loop[p].at \in {"free", "inserted", "conflict"}
           /\ loop[p].source \in Sources \cup {NoSource}
           /\ loop[p].key \in Keys \cup {NoKey}
           /\ loop[p].enqueue \in BOOLEAN
           /\ loop[p].enqueue => loop[p].at = "inserted"
           /\ loop[p].at = "inserted" => loop[p].ev \in Events
           /\ loop[p] = Free => HeldJob(p) = {}
           /\ HeldJob(p) \in SUBSET Events
<1>1. loop[p] \in Handler
  BY DEF TypeOK
<1>2. CASE loop[p] = Free
  BY <1>2 DEF Free, HeldJob
<1>3. CASE loop[p] # Free
  BY <1>1, <1>3 DEF Handler, Free, HeldJob
<1> QED BY <1>2, <1>3

LEMMA AnswerType ==
    ASSUME TypeOK, NEW p \in Procs,
           NEW why \in {"none", "created", "replayed", "integrity", "db"},
           NEW e \in Events \cup {NoEvent}, NEW s \in Sources \cup {NoSource},
           NEW k \in Keys \cup {NoKey}, Answer(p, why, e, s, k)
    PROVE  reply' \in [Procs -> Reply]
BY DEF TypeOK, Answer, Reply

LEMMA InitialStatusType ==
    ASSUME NEW p \in Procs
    PROVE  InitialStatus(p) \in {"stored", "scheduled", "skipped"}
BY DEF InitialStatus

LEMMA SettledRowsType ==
    ASSUME TypeOK, NEW e \in Events, NEW st \in {"success", "failed", "skipped"}
    PROVE  SettledRows(e, st) \in [Events -> Row]
<1>1. rows \in [Events -> Row] /\ rows[e] \in Row
  BY DEF TypeOK
<1>2. [rows[e] EXCEPT !.status = st] \in Row
  BY <1>1 DEF Row, RowStatus
<1> QED BY <1>1, <1>2 DEF SettledRows

\* What an INSERT adds is a row.
LEMMA NewRowType ==
    ASSUME TypeOK, NEW p \in Procs, NEW s \in Sources, NEW k \in Keys
    PROVE  NewRow(p, s, k) \in Row
<1>1. now \in Nat BY DEF TypeOK
<1> QED BY <1>1, InitialStatusType DEF NewRow, Row, RowStatus

\* Every step keeps every variable in its type.
LEMMA TypeStep == TypeOK /\ [Next]_vars => TypeOK'
<1> SUFFICES ASSUME TypeOK, [Next]_vars PROVE TypeOK'
  OBVIOUS
<1> USE NullFacts
<1>1. ASSUME NEW p \in Procs, Startup(p) PROVE TypeOK'
  BY <1>1, EmptyFacts DEF TypeOK, Startup, InitialQueue
<1>2. ASSUME NEW p \in Procs, NEW D \in SUBSET Events, Down(p, D) PROVE TypeOK'
  BY <1>2, EmptyFacts DEF TypeOK, Down
<1>3. ASSUME NEW p \in Procs PROVE Jobs(p) \in SUBSET Events
  <2>1. queue[p] \in Seq(Events) /\ running[p] \in [Workers -> Events \cup {NoEvent}]
    BY DEF TypeOK
  <2>2. Range(queue[p]) \subseteq Events
    BY <2>1 DEF Range
  <2> QED BY <2>1, <2>2 DEF Jobs
<1>4. ASSUME NEW p \in Procs
      PROVE  /\ loop[p].source \in Sources \cup {NoSource}
             /\ loop[p].key \in Keys \cup {NoKey}
             /\ loop[p].at = "inserted" => loop[p].ev \in Events
             /\ HeldJob(p) \in SUBSET Events
  BY HandlerFacts
<1>5. ASSUME NEW p \in Procs, NEW e \in Events, NEW s \in Sources, NEW k \in Keys,
             Insert(p, e, s, k)
      PROVE  TypeOK'
  <2>1. Holding("inserted", e, s, k, InitialStatus(p) = "scheduled") \in Handler
    BY DEF Holding, Handler
  <2> QED BY <1>5, <2>1, NewRowType DEF TypeOK, Insert
<1>6. ASSUME NEW p \in Procs, NEW e \in Events, NEW s \in Sources, NEW k \in Keys,
             InsertUnacked(p, e, s, k)
      PROVE  TypeOK'
  <2>1. reply' \in [Procs -> Reply]
    BY <1>6, AnswerType DEF InsertUnacked
  <2> QED BY <1>6, <2>1, NewRowType DEF TypeOK, InsertUnacked
<1>7. ASSUME NEW p \in Procs, NEW s \in Sources, NEW k \in Keys,
             InsertConflict(p, s, k)
      PROVE  TypeOK'
  <2>1. Holding("conflict", NoEvent, s, k, FALSE) \in Handler
    BY DEF Holding, Handler
  <2> QED BY <1>7, <2>1 DEF TypeOK, InsertConflict
<1>8. ASSUME NEW p \in Procs, NEW s \in Sources, NEW k \in Keys,
             InsertDbError(p, s, k)
      PROVE  TypeOK'
  <2>1. reply' \in [Procs -> Reply]
    BY <1>8, AnswerType DEF InsertDbError
  <2> QED BY <1>8, <2>1 DEF TypeOK, InsertDbError
<1>9. ASSUME NEW p \in Procs, Dispatch(p) PROVE TypeOK'
  <2>1. reply' \in [Procs -> Reply]
    BY <1>4, <1>9, AnswerType DEF Dispatch, Handler
  <2>2. loop[p].ev \in Events
    BY <1>4, <1>9 DEF Dispatch
  <2>3. Append(queue[p], loop[p].ev) \in Seq(Events)
    BY <2>2, AppendFacts DEF TypeOK
  <2>4. queue' \in [Procs -> Seq(Events)]
    BY <1>9, <2>3 DEF TypeOK, Dispatch, Enqueued
  <2>5. SettledRows(loop[p].ev, "skipped") \in [Events -> Row]
    BY <2>2, SettledRowsType
  <2>6. rows' \in [Events -> Row]
    BY <1>9, <2>5 DEF TypeOK, Dispatch
  <2> QED BY <1>9, <2>1, <2>4, <2>6 DEF TypeOK, Dispatch
<1>10. ASSUME NEW p \in Procs, Replay(p) PROVE TypeOK'
  <2>1. PICK e \in Original(loop[p].source, loop[p].key) :
            Answer(p, "replayed", e, loop[p].source, loop[p].key)
    BY <1>10 DEF Replay
  <2>2. e \in Events
    BY DEF Original, Holders
  <2>3. reply' \in [Procs -> Reply]
    BY <1>4, <2>1, <2>2, AnswerType
  <2> QED BY <1>10, <2>3 DEF TypeOK, Replay, Handler
<1>11. ASSUME NEW p \in Procs, ReplayRaise(p) PROVE TypeOK'
  <2>1. reply' \in [Procs -> Reply]
    BY <1>4, <1>11, AnswerType DEF ReplayRaise
  <2> QED BY <1>11, <2>1 DEF TypeOK, ReplayRaise, Handler
<1>12. ASSUME NEW p \in Procs, ReplayDbError(p) PROVE TypeOK'
  <2>1. reply' \in [Procs -> Reply]
    BY <1>4, <1>12, AnswerType DEF ReplayDbError
  <2> QED BY <1>12, <2>1 DEF TypeOK, ReplayDbError, Handler
<1>13. ASSUME NEW p \in Procs, NEW w \in Workers, Dequeue(p, w) PROVE TypeOK'
  <2>1. /\ queue[p] \in Seq(Events) /\ queue[p] # <<>>
        /\ running \in [Procs -> [Workers -> Events \cup {NoEvent}]]
    BY <1>13 DEF TypeOK, Dequeue
  <2>2. Head(queue[p]) \in Events /\ Tail(queue[p]) \in Seq(Events)
    BY <2>1, TailFacts
  <2>3. running' \in [Procs -> [Workers -> Events \cup {NoEvent}]]
    BY <1>13, <2>1, <2>2 DEF Dequeue
  <2>4. queue' \in [Procs -> Seq(Events)]
    BY <1>13, <2>2 DEF TypeOK, Dequeue
  <2> QED BY <1>13, <2>3, <2>4 DEF TypeOK, Dequeue
<1>14. ASSUME NEW p \in Procs, NEW w \in Workers PROVE
           /\ running[p][w] \in Events \cup {NoEvent}
           /\ [running EXCEPT ![p][w] = NoEvent]
                  \in [Procs -> [Workers -> Events \cup {NoEvent}]]
  BY DEF TypeOK
<1>15. ASSUME NEW p \in Procs, NEW w \in Workers, Post(p, w) PROVE TypeOK'
  BY <1>14, <1>15 DEF TypeOK, Post
<1>16. ASSUME NEW p \in Procs, NEW w \in Workers, Persist(p, w) PROVE TypeOK'
  <2>1. PICK success \in BOOLEAN :
            rows' = SettledRows(running[p][w],
                                RelayStatus(running[p][w] \in posted, success))
    BY <1>16 DEF Persist
  <2>2. rows' \in [Events -> Row]
    BY <1>14, <1>16, <2>1, SettledRowsType DEF Persist, RelayStatus
  <2> QED BY <1>14, <1>16, <2>2 DEF TypeOK, Persist
<1>17. ASSUME NEW p \in Procs, NEW w \in Workers, JobError(p, w) PROVE TypeOK'
  BY <1>14, <1>17 DEF TypeOK, JobError
<1>18. ASSUME Cleanup PROVE TypeOK'
  <2>1. \A e \in Events : [rows[e] EXCEPT !.status = "deleted"] \in Row
    BY DEF TypeOK, Row, RowStatus
  <2> QED BY <1>18, <2>1 DEF TypeOK, Cleanup
<1>19. ASSUME Tick PROVE TypeOK'
  BY <1>19 DEF TypeOK, Tick
<1>20. CASE UNCHANGED vars
  BY <1>20 DEF TypeOK, vars
<1>21. ASSUME NEW p \in Procs, Stop(p) PROVE TypeOK'
  BY <1>2, <1>3, <1>21 DEF Stop
<1>22. ASSUME NEW p \in Procs, Crash(p) PROVE TypeOK'
  BY <1>2, <1>3, <1>4, <1>22 DEF Crash
<1> QED
  BY <1>1, <1>5, <1>6, <1>7, <1>8, <1>9, <1>10, <1>11, <1>12, <1>13, <1>15,
     <1>16, <1>17, <1>18, <1>19, <1>20, <1>21, <1>22
  DEF Next, Request, Respond, Work, AdminCleanup, CliCleanup

\* Every variable stays in its type, whatever the interleaving and the faults.
THEOREM TypeCorrect == Spec => []TypeOK
<1>1. Init => TypeOK
  BY NullFacts, EmptyFacts DEF Init, TypeOK
<1> QED BY <1>1, TypeStep, PTL DEF Spec

-----------------------------------------------------------------------------
(* The queue bound *)

LEMMA FitsStep == TypeOK /\ AdmittedJobFits /\ [Next]_vars => AdmittedJobFits'
<1> SUFFICES ASSUME TypeOK, AdmittedJobFits, [Next]_vars PROVE AdmittedJobFits'
  OBVIOUS
<1> DEFINE Fits(p) == /\ Len(queue[p]) <= QueueSize
                      /\ loop[p].enqueue => Len(queue[p]) < QueueSize
<1>1. /\ loop \in [Procs -> Handler]
      /\ queue \in [Procs -> Seq(Events)]
      /\ \A p \in Procs : queue[p] \in Seq(Events) /\ Len(queue[p]) \in Nat
  BY DEF TypeOK
<1>2. \A p \in Procs : Fits(p)
  BY DEF AdmittedJobFits
<1>3. Free.enqueue = FALSE /\ Len(<<>>) = 0 /\ QueueSize \in Nat \ {0}
  BY EmptyFacts DEF Free
\* Steps of p that leave its queue alone and hold no job to enqueue.
<1>4. ASSUME NEW p \in Procs, queue' = queue, NEW h,
             loop' = [loop EXCEPT ![p] = h], h.enqueue = FALSE
      PROVE  AdmittedJobFits'
  BY <1>1, <1>2, <1>4 DEF AdmittedJobFits
<1>5. ASSUME queue' = queue, loop' = loop PROVE AdmittedJobFits'
  BY <1>2, <1>5 DEF AdmittedJobFits
<1>6. ASSUME NEW p \in Procs, queue' = [queue EXCEPT ![p] = <<>>],
             loop' = loop \/ loop' = [loop EXCEPT ![p] = Free]
      PROVE  AdmittedJobFits'
  BY <1>1, <1>2, <1>3, <1>6 DEF AdmittedJobFits
<1>7. ASSUME NEW p \in Procs, NEW e \in Events, NEW s \in Sources, NEW k \in Keys,
             Insert(p, e, s, k)
      PROVE  AdmittedJobFits'
  <2> DEFINE h == Holding("inserted", e, s, k, InitialStatus(p) = "scheduled")
  <2>1. h.enqueue => Len(queue[p]) < QueueSize
    BY DEF Holding, InitialStatus, HasCapacity
  <2>2. queue' = queue /\ loop' = [loop EXCEPT ![p] = h]
    BY <1>7 DEF Insert
  <2> HIDE DEF h
  <2> QED BY <1>1, <1>2, <2>1, <2>2 DEF AdmittedJobFits
<1>8. ASSUME NEW p \in Procs, NEW s \in Sources, NEW k \in Keys,
             InsertConflict(p, s, k)
      PROVE  AdmittedJobFits'
  <2>1. Holding("conflict", NoEvent, s, k, FALSE).enqueue = FALSE
    BY DEF Holding
  <2> QED BY <1>4, <1>8, <2>1 DEF InsertConflict
<1>9. ASSUME NEW p \in Procs, Dispatch(p) PROVE AdmittedJobFits'
  <2>1. loop' = [loop EXCEPT ![p] = Free]
    BY <1>9 DEF Dispatch
  <2>2. CASE queue' = queue
    BY <1>3, <1>4, <2>1, <2>2
  <2>3. CASE /\ HasCapacity(p)
             /\ queue' = [queue EXCEPT ![p] = Append(queue[p], loop[p].ev)]
    <3>1. loop[p].ev \in Events
      BY <1>9, HandlerFacts DEF Dispatch
    <3>2. Len(queue'[p]) = Len(queue[p]) + 1
      BY <1>1, <2>3, <3>1, AppendFacts
    <3>3. Len(queue'[p]) <= QueueSize
      BY <1>1, <1>3, <2>3, <3>2 DEF HasCapacity
    <3> QED BY <1>1, <1>2, <1>3, <2>1, <2>3, <3>3 DEF AdmittedJobFits
  <2> QED BY <1>9, <2>2, <2>3 DEF Dispatch, Enqueued
<1>10. ASSUME NEW p \in Procs, Replay(p) \/ ReplayRaise(p) \/ ReplayDbError(p)
       PROVE  AdmittedJobFits'
  BY <1>3, <1>4, <1>10 DEF Replay, ReplayRaise, ReplayDbError
<1>11. ASSUME NEW p \in Procs, NEW w \in Workers, Dequeue(p, w)
       PROVE  AdmittedJobFits'
  <2>1. /\ queue' = [queue EXCEPT ![p] = Tail(queue[p])]
        /\ queue[p] # <<>>
        /\ loop' = loop
        /\ loop[p] = Free
    BY <1>11 DEF Dequeue, Ready
  <2>2. Len(Tail(queue[p])) = Len(queue[p]) - 1
    BY <1>1, <2>1, TailFacts
  <2>3. Len(Tail(queue[p])) <= QueueSize
    BY <1>1, <1>2, <1>3, <2>2
  <2> QED BY <1>1, <1>2, <1>3, <2>1, <2>3 DEF AdmittedJobFits
<1>12. ASSUME NEW p \in Procs, Startup(p) PROVE AdmittedJobFits'
  BY <1>6, <1>12 DEF Startup, InitialQueue
<1>13. ASSUME NEW p \in Procs, Stop(p) \/ Crash(p) PROVE AdmittedJobFits'
  BY <1>6, <1>13 DEF Stop, Crash, Down
<1>14. ASSUME NEW p \in Procs, NEW e \in Events, NEW s \in Sources, NEW k \in Keys,
              InsertUnacked(p, e, s, k)
       PROVE  AdmittedJobFits'
  BY <1>5, <1>14 DEF InsertUnacked
<1>15. ASSUME NEW p \in Procs, NEW s \in Sources, NEW k \in Keys,
              InsertDbError(p, s, k)
       PROVE  AdmittedJobFits'
  BY <1>5, <1>15 DEF InsertDbError
<1>16. ASSUME NEW p \in Procs, NEW w \in Workers,
              Post(p, w) \/ Persist(p, w) \/ JobError(p, w)
       PROVE  AdmittedJobFits'
  BY <1>5, <1>16 DEF Post, Persist, JobError
<1>17. CASE Cleanup \/ Tick \/ UNCHANGED vars
  BY <1>5, <1>17 DEF Cleanup, Tick, vars
<1> QED
  BY <1>7, <1>8, <1>9, <1>10, <1>11, <1>12, <1>13, <1>14, <1>15, <1>16, <1>17
  DEF Next, Request, Respond, Work, AdminCleanup, CliCleanup

\* The capacity check before the INSERT still holds at put_nowait after it, so
\* the queue-full branch behind put_nowait is dead code, and RELAY_QUEUE_SIZE
\* bounds the queue for every configuration.
THEOREM AdmittedJobFitsAlways == Spec => []AdmittedJobFits
<1>1. Init => AdmittedJobFits
  BY EmptyFacts DEF Init, AdmittedJobFits, Free
<1> QED BY <1>1, TypeCorrect, FitsStep, PTL DEF Spec

-----------------------------------------------------------------------------
(* One row per idempotency key *)

LEMMA UniqueKeyStep == TypeOK /\ UniqueKey /\ [Next]_vars => UniqueKey'
<1> SUFFICES ASSUME TypeOK, UniqueKey, [Next]_vars PROVE UniqueKey'
  OBVIOUS
<1>1. rows \in [Events -> Row]
  BY DEF TypeOK
\* A step that only changes statuses, and none from dead to live.
<1>2. ASSUME \A e \in Events : /\ rows'[e].source = rows[e].source
                               /\ rows'[e].key = rows[e].key
                               /\ Live(e)' => Live(e)
      PROVE  UniqueKey'
  BY <1>2 DEF UniqueKey, Holders
<1>3. ASSUME rows' = rows PROVE UniqueKey'
  BY <1>2, <1>3 DEF Live
<1>4. ASSUME NEW f \in Events, NEW st, rows' = SettledRows(f, st) PROVE UniqueKey'
  <2>1. CASE ~Live(f)
    BY <1>3, <1>4, <2>1 DEF SettledRows
  <2>2. CASE Live(f)
    <3>1. rows' = [rows EXCEPT ![f] = [rows[f] EXCEPT !.status = st]]
      BY <1>1, <1>4, <2>2 DEF SettledRows
    <3>2. /\ [rows[f] EXCEPT !.status = st].source = rows[f].source
          /\ [rows[f] EXCEPT !.status = st].key = rows[f].key
      BY <1>1 DEF Row
    <3>3. ASSUME NEW e \in Events
          PROVE  /\ rows'[e].source = rows[e].source
                 /\ rows'[e].key = rows[e].key
                 /\ Live(e)' => Live(e)
      BY <1>1, <2>2, <3>1, <3>2 DEF Live
    <3> QED BY <1>2, <3>3
  <2> QED BY <2>1, <2>2
\* The INSERT, acknowledged or not.
<1>5. ASSUME NEW p \in Procs, NEW e \in Events, NEW s \in Sources, NEW k \in Keys,
             ~Conflicts(s, k), rows' = [rows EXCEPT ![e] = NewRow(p, s, k)]
      PROVE  UniqueKey'
  <2> SUFFICES ASSUME NEW t \in Sources, NEW j \in Keys \ {NoKey},
                      NEW f \in Holders(t, j)', NEW g \in Holders(t, j)'
               PROVE  f = g
    BY DEF UniqueKey
  <2>1. NewRow(p, s, k).source = s /\ NewRow(p, s, k).key = k
    BY DEF NewRow
  <2>2. \A x \in Holders(t, j)' : x # e => x \in Holders(t, j)
    BY <1>1, <1>5 DEF Holders, Live
  <2>3. e \in Holders(t, j)' => t = s /\ j = k
    BY <1>1, <1>5, <2>1 DEF Holders
  <2>4. CASE f # e /\ g # e
    BY <2>2, <2>4 DEF UniqueKey
  <2>5. CASE f = e \/ g = e
    BY <1>5, <2>2, <2>3, <2>5 DEF Conflicts
  <2> QED BY <2>4, <2>5
<1>6. ASSUME Cleanup PROVE UniqueKey'
  <2>1. ASSUME NEW e \in Events
        PROVE  /\ rows'[e].source = rows[e].source
               /\ rows'[e].key = rows[e].key
               /\ Live(e)' => Live(e)
    <3>1. rows[e] \in Row
      BY <1>1
    <3>2. [rows[e] EXCEPT !.status = "deleted"].source = rows[e].source
          /\ [rows[e] EXCEPT !.status = "deleted"].key = rows[e].key
          /\ [rows[e] EXCEPT !.status = "deleted"].status = "deleted"
      BY <3>1 DEF Row
    <3> QED BY <1>6, <3>2 DEF Cleanup, Live
  <2> QED BY <1>2, <2>1
<1>7. ASSUME NEW p \in Procs, Dispatch(p) PROVE UniqueKey'
  <2>1. loop[p].ev \in Events
    BY <1>7, HandlerFacts DEF Dispatch
  <2>2. rows' = rows \/ rows' = SettledRows(loop[p].ev, "skipped")
    BY <1>7 DEF Dispatch
  <2> QED BY <1>3, <1>4, <2>1, <2>2
<1>8. ASSUME NEW p \in Procs, NEW w \in Workers, Persist(p, w) PROVE UniqueKey'
  <2>1. running[p][w] \in Events
    BY <1>8 DEF Persist, TypeOK
  <2> QED BY <1>4, <1>8, <2>1 DEF Persist
<1>9. ASSUME NEW p \in Procs,
             \/ Startup(p) \/ Stop(p) \/ Crash(p)
             \/ Replay(p) \/ ReplayRaise(p) \/ ReplayDbError(p)
      PROVE  UniqueKey'
  BY <1>3, <1>9
  DEF Startup, Stop, Crash, Down, Replay, ReplayRaise, ReplayDbError
<1>10. ASSUME NEW p \in Procs, NEW s \in Sources, NEW k \in Keys,
              InsertConflict(p, s, k) \/ InsertDbError(p, s, k)
       PROVE  UniqueKey'
  BY <1>3, <1>10 DEF InsertConflict, InsertDbError
<1>11. ASSUME NEW p \in Procs, NEW e \in Events, NEW s \in Sources, NEW k \in Keys,
              Insert(p, e, s, k) \/ InsertUnacked(p, e, s, k)
       PROVE  UniqueKey'
  BY <1>5, <1>11 DEF Insert, InsertUnacked
<1>12. ASSUME NEW p \in Procs, NEW w \in Workers,
              Dequeue(p, w) \/ Post(p, w) \/ JobError(p, w)
       PROVE  UniqueKey'
  BY <1>3, <1>12 DEF Dequeue, Post, JobError
<1>13. CASE Tick \/ UNCHANGED vars
  BY <1>3, <1>13 DEF Tick, vars
<1> QED
  BY <1>6, <1>7, <1>8, <1>9, <1>10, <1>11, <1>12, <1>13
  DEF Next, Request, Respond, Work, AdminCleanup, CliCleanup

\* A provided idempotency key names at most one live row of its source.
THEOREM UniqueKeyAlways == Spec => []UniqueKey
<1>1. Init => UniqueKey
  BY DEF Init, UniqueKey, Holders, Live, Absent
<1> QED BY <1>1, TypeCorrect, UniqueKeyStep, PTL DEF Spec

-----------------------------------------------------------------------------
(***************************************************************************)
(* Jobs.  OneJobPerEvent, HeldJobIsFresh, JobOwesResult and                *)
(* ScheduledIsAccounted hold each other up: a fresh id has no job because  *)
(* every job's row is stored; a worker may write its result because no     *)
(* other job can.  Two more facts make them inductive: the record of lost  *)
(* jobs names stored rows only, and a process that is down has no job left *)
(* for its next startup to forget.                                         *)
(***************************************************************************)
LostWereStored == \A e \in lost : rows[e].status # "absent"

DownIsIdle == \A p \in Procs : ~up[p] => Jobs(p) = {}

JobInv == /\ TypeOK /\ AdmittedJobFits
          /\ OneJobPerEvent /\ HeldJobIsFresh /\ JobOwesResult
          /\ LostWereStored

Owed(e) == rows[e].status \in {"scheduled", "deleted"} /\ e \notin lost

\* The part of OneJobPerEvent that is about one process.
OneJobIn(p) ==
    /\ IsInjective(queue[p])
    /\ \A w \in Workers : running[p][w] # NoEvent =>
           /\ running[p][w] \notin Range(queue[p])
           /\ \A v \in Workers : running[p][v] = running[p][w] => v = w

\* The jobs of a process are events, and change only with its queue and workers.
LEMMA JobsFacts ==
    ASSUME TypeOK, NEW p \in Procs
    PROVE  /\ Jobs(p) \in SUBSET Events
           /\ \A e \in Events : e \in Jobs(p) <=>
                  e \in Range(queue[p]) \/ \E w \in Workers : running[p][w] = e
<1>1. queue[p] \in Seq(Events) /\ running[p] \in [Workers -> Events \cup {NoEvent}]
  BY DEF TypeOK
<1>2. Range(queue[p]) \subseteq Events
  BY <1>1 DEF Range
<1> QED BY <1>1, <1>2 DEF Jobs

LEMMA JobsFrame ==
    ASSUME NEW p \in Procs, queue'[p] = queue[p], running'[p] = running[p]
    PROVE  Jobs(p)' = Jobs(p) /\ (OneJobIn(p) => OneJobIn(p)')
BY DEF Jobs, OneJobIn

LEMMA HeldFrame ==
    ASSUME NEW p \in Procs, loop'[p] = loop[p]
    PROVE  HeldJob(p)' = HeldJob(p)
BY DEF HeldJob

\* An empty queue and idle workers: no job.
LEMMA IdleFacts ==
    ASSUME NEW p \in Procs
    PROVE  (queue[p] = <<>> /\ running[p] = AllIdle) => Jobs(p) = {} /\ OneJobIn(p)
BY EmptyFacts DEF Jobs, OneJobIn, AllIdle, Range, IsInjective

\* A handler that ends leaves the loop free, and an ended handler holds no job.
LEMMA FreedFacts ==
    ASSUME TypeOK, NEW p \in Procs, loop' = [loop EXCEPT ![p] = Free]
    PROVE  /\ HeldJob(p)' = {}
           /\ \A q \in Procs : q # p => HeldJob(q)' = HeldJob(q)
BY DEF TypeOK, HeldJob, Free

\* A step that starts no job, and keeps what the remaining jobs owe.
LEMMA ShrinkStep ==
    ASSUME OneJobPerEvent, HeldJobIsFresh,
           \A q \in Procs : /\ Jobs(q)' \subseteq Jobs(q)
                            /\ HeldJob(q)' \subseteq HeldJob(q)
                            /\ OneJobIn(q)'
                            /\ \A e \in Jobs(q)' \cup HeldJob(q)' : Owed(e)'
    PROVE  OneJobPerEvent' /\ HeldJobIsFresh' /\ JobOwesResult'
<1>1. OneJobPerEvent'
  BY DEF OneJobPerEvent, OneJobIn
<1>2. HeldJobIsFresh'
  BY DEF HeldJobIsFresh, Owed
<1>3. JobOwesResult'
  BY DEF JobOwesResult, Owed
<1> QED BY <1>1, <1>2, <1>3

\* What JobInv says of every process, in one place.
LEMMA JobInvFacts ==
    ASSUME JobInv, NEW p \in Procs
    PROVE  /\ OneJobIn(p)
           /\ \A e \in Jobs(p) \cup HeldJob(p) : e \in Events /\ Owed(e)
           /\ \A q \in Procs : q # p => Jobs(p) \cap Jobs(q) = {}
           /\ \A q \in Procs : HeldJob(p) \cap Jobs(q) = {}
           /\ \A q \in Procs : q # p => HeldJob(p) \cap HeldJob(q) = {}
<1>1. OneJobIn(p)
  BY DEF JobInv, OneJobPerEvent, OneJobIn
<1>2. Jobs(p) \subseteq Events /\ HeldJob(p) \subseteq Events
  BY JobsFacts, HandlerFacts DEF JobInv
<1>3. \A e \in Jobs(p) : Owed(e)
  BY DEF JobInv, JobOwesResult, Owed
<1>4. \A e \in HeldJob(p) : Owed(e)
  BY DEF JobInv, HeldJobIsFresh, Owed
<1>5. \A q \in Procs : q # p => Jobs(p) \cap Jobs(q) = {}
  BY DEF JobInv, OneJobPerEvent
<1>6. \A q \in Procs : /\ HeldJob(p) \cap Jobs(q) = {}
                       /\ q # p => HeldJob(p) \cap HeldJob(q) = {}
  BY DEF JobInv, HeldJobIsFresh
<1> QED BY <1>1, <1>2, <1>3, <1>4, <1>5, <1>6

\* The status an UPDATE leaves behind.
LEMMA SettledFacts ==
    ASSUME TypeOK, NEW f \in Events, NEW st, rows' = SettledRows(f, st)
    PROVE  \A e \in Events :
               rows'[e].status = IF e = f /\ Live(f) THEN st ELSE rows[e].status
<1>1. rows \in [Events -> Row] /\ rows[f] \in Row
  BY DEF TypeOK
<1>2. [rows[f] EXCEPT !.status = st].status = st
  BY <1>1 DEF Row
<1>3. CASE Live(f)
  BY <1>1, <1>2, <1>3 DEF SettledRows
<1>4. CASE ~Live(f)
  BY <1>4 DEF SettledRows
<1> QED BY <1>3, <1>4

\* The status of every row after an INSERT.
LEMMA InsertedFacts ==
    ASSUME TypeOK, NEW p \in Procs, NEW f \in Events, NEW s, NEW k,
           rows' = [rows EXCEPT ![f] = NewRow(p, s, k)]
    PROVE  \A e \in Events : rows'[e].status =
               IF e = f THEN InitialStatus(p) ELSE rows[e].status
BY DEF TypeOK, NewRow

\* The status of every row after a DELETE.
LEMMA CleanupFacts ==
    ASSUME TypeOK, Cleanup
    PROVE  \A e \in Events : rows'[e].status =
               IF e \in Victims THEN "deleted" ELSE rows[e].status
<1>1. \A e \in Events : rows[e] \in Row
  BY DEF TypeOK
<1>2. \A e \in Events : [rows[e] EXCEPT !.status = "deleted"].status = "deleted"
  BY <1>1 DEF Row
<1> QED BY <1>2 DEF Cleanup

-----------------------------------------------------------------------------
(* What each step does to the jobs *)

\* The steps of a worker, seen from the jobs: Dequeue moves one, Persist and
\* JobError end one.
LEMMA DequeueJobs ==
    ASSUME TypeOK, NEW p \in Procs, NEW w \in Workers, Dequeue(p, w), OneJobIn(p)
    PROVE  Jobs(p)' = Jobs(p) /\ OneJobIn(p)'
<1>1. /\ queue \in [Procs -> Seq(Events)]
      /\ running \in [Procs -> [Workers -> Events \cup {NoEvent}]]
      /\ queue[p] \in Seq(Events)
  BY DEF TypeOK
<1>2. /\ queue[p] # <<>>
      /\ running[p][w] = NoEvent
      /\ queue'[p] = Tail(queue[p])
      /\ running'[p][w] = Head(queue[p])
      /\ \A v \in Workers : v # w => running'[p][v] = running[p][v]
  BY <1>1 DEF Dequeue
<1>3. /\ Head(queue[p]) \in Events
      /\ Range(queue[p]) = Range(Tail(queue[p])) \cup {Head(queue[p])}
      /\ IsInjective(queue[p]) => /\ IsInjective(Tail(queue[p]))
                                  /\ Head(queue[p]) \notin Range(Tail(queue[p]))
  BY <1>1, <1>2, TailFacts
<1>4. Head(queue[p]) # NoEvent
  BY <1>3
<1>5. {running'[p][v] : v \in Workers} \ {NoEvent}
          = ({running[p][v] : v \in Workers} \ {NoEvent}) \cup {Head(queue[p])}
  BY <1>2, <1>4
<1>6. Jobs(p)' = Jobs(p)
  BY <1>2, <1>3, <1>5 DEF Jobs
<1>7. OneJobIn(p)'
  <2>1. IsInjective(queue'[p]) /\ Head(queue[p]) \notin Range(queue'[p])
    BY <1>2, <1>3 DEF OneJobIn
  <2>2. ASSUME NEW u \in Workers, running'[p][u] # NoEvent
        PROVE  /\ running'[p][u] \notin Range(queue'[p])
               /\ \A v \in Workers : running'[p][v] = running'[p][u] => v = u
    <3>1. CASE u = w
      <4>1. \A v \in Workers : v # w => running[p][v] # Head(queue[p])
        BY <1>3, <1>4 DEF OneJobIn
      <4> QED BY <1>2, <2>1, <3>1, <4>1
    <3>2. CASE u # w
      <4>1. running'[p][u] = running[p][u] /\ running[p][u] \notin Range(queue[p])
        BY <1>2, <2>2, <3>2 DEF OneJobIn
      <4> QED BY <1>2, <1>3, <2>2, <3>2, <4>1 DEF OneJobIn
    <3> QED BY <3>1, <3>2
  <2> QED BY <2>1, <2>2 DEF OneJobIn
<1> QED BY <1>6, <1>7

LEMMA EndedJobs ==
    ASSUME TypeOK, NEW p \in Procs, NEW w \in Workers, OneJobIn(p),
           running[p][w] # NoEvent,
           queue' = queue, running' = [running EXCEPT ![p][w] = NoEvent]
    PROVE  Jobs(p)' = Jobs(p) \ {running[p][w]} /\ OneJobIn(p)'
<1>1. running \in [Procs -> [Workers -> Events \cup {NoEvent}]]
  BY DEF TypeOK
<1>2. /\ running'[p][w] = NoEvent
      /\ \A v \in Workers : v # w => running'[p][v] = running[p][v]
  BY <1>1
<1>3. /\ running[p][w] \notin Range(queue[p])
      /\ \A v \in Workers : v # w => running[p][v] # running[p][w]
  BY DEF OneJobIn
<1>4. {running'[p][v] : v \in Workers} \ {NoEvent}
          = ({running[p][v] : v \in Workers} \ {NoEvent}) \ {running[p][w]}
  BY <1>2, <1>3
<1>5. Jobs(p)' = Jobs(p) \ {running[p][w]}
  BY <1>3, <1>4 DEF Jobs
<1>6. OneJobIn(p)'
  BY <1>2 DEF OneJobIn
<1> QED BY <1>5, <1>6

\* Dispatch puts the held job in the queue; the capacity check was good.
LEMMA DispatchJobs ==
    ASSUME JobInv, NEW p \in Procs, Dispatch(p)
    PROVE  /\ Jobs(p)' = Jobs(p) \cup HeldJob(p)
           /\ OneJobIn(p)'
           /\ rows' = rows
           /\ \A q \in Procs : q # p => Jobs(q)' = Jobs(q) /\ OneJobIn(q)'
<1>1. TypeOK /\ queue \in [Procs -> Seq(Events)] /\ queue[p] \in Seq(Events)
  BY DEF JobInv, TypeOK
<1>2. running' = running /\ loop[p].ev \in Events /\ loop[p].enqueue \in BOOLEAN
  BY <1>1, HandlerFacts DEF Dispatch
<1>3. \A q \in Procs : q # p => Jobs(q)' = Jobs(q) /\ OneJobIn(q)'
  <2> SUFFICES ASSUME NEW q \in Procs, q # p
               PROVE  Jobs(q)' = Jobs(q) /\ OneJobIn(q)'
    OBVIOUS
  <2>1. queue'[q] = queue[q]
    BY <1>1 DEF Dispatch
  <2> QED BY <1>2, <2>1, JobsFrame, JobInvFacts
<1>4. CASE ~loop[p].enqueue
  <2>1. queue' = queue /\ rows' = rows /\ HeldJob(p) = {}
    BY <1>4 DEF Dispatch, HeldJob
  <2> QED BY <1>2, <1>3, <2>1, JobsFrame, JobInvFacts
<1>5. CASE loop[p].enqueue
  <2> DEFINE e == loop[p].ev
  <2>1. HasCapacity(p)
    BY <1>5 DEF JobInv, AdmittedJobFits, HasCapacity
  <2>2. rows' = rows /\ queue'[p] = Append(queue[p], e) /\ HeldJob(p) = {e}
    BY <1>1, <1>5, <2>1 DEF Dispatch, Enqueued, HeldJob
  <2>3. OneJobIn(p) /\ e \notin Jobs(p)
    BY <2>2, JobInvFacts
  <2>4. e \notin Range(queue[p]) /\ \A w \in Workers : running[p][w] # e
    BY <1>1, <1>2, <2>3, JobsFacts
  <2>5. Range(queue'[p]) = Range(queue[p]) \cup {e} /\ IsInjective(queue'[p])
    BY <1>1, <1>2, <2>2, <2>3, <2>4, AppendFacts DEF OneJobIn
  <2>6. Jobs(p)' = Jobs(p) \cup {e}
    BY <1>2, <2>5 DEF Jobs
  <2>7. OneJobIn(p)'
    BY <1>2, <2>3, <2>4, <2>5 DEF OneJobIn
  <2> QED BY <1>3, <2>2, <2>6, <2>7
<1> QED BY <1>2, <1>4, <1>5

\* A step of p's lifespan: its jobs end, every other process keeps its own.
LEMMA DownJobs ==
    ASSUME TypeOK, \A q \in Procs : OneJobIn(q), NEW p \in Procs,
           queue' = [queue EXCEPT ![p] = <<>>],
           running' = [running EXCEPT ![p] = AllIdle]
    PROVE  /\ Jobs(p)' = {}
           /\ \A q \in Procs : q # p => Jobs(q)' = Jobs(q)
           /\ \A q \in Procs : OneJobIn(q)'
<1>1. /\ queue \in [Procs -> Seq(Events)]
      /\ running \in [Procs -> [Workers -> Events \cup {NoEvent}]]
  BY DEF TypeOK
<1>2. queue'[p] = <<>> /\ running'[p] = AllIdle
  BY <1>1
<1>3. Jobs(p)' = {} /\ OneJobIn(p)'
  BY <1>2, EmptyFacts DEF Jobs, OneJobIn, AllIdle
<1>4. ASSUME NEW q \in Procs, q # p
      PROVE  Jobs(q)' = Jobs(q) /\ OneJobIn(q)'
  <2>1. queue'[q] = queue[q] /\ running'[q] = running[q]
    BY <1>1, <1>4
  <2> QED BY <2>1, JobsFrame
<1> QED BY <1>3, <1>4

\* Requests that touch no job: a conflict, a replay, an error.
LEMMA QuietJobs ==
    ASSUME TypeOK, NEW p \in Procs, HeldJob(p) = {}, NEW h, h.enqueue = FALSE,
           loop' = [loop EXCEPT ![p] = h]
    PROVE  \A q \in Procs : HeldJob(q)' = HeldJob(q)
<1>1. loop \in [Procs -> Handler]
  BY DEF TypeOK
<1>2. HeldJob(p)' = {}
  BY <1>1 DEF HeldJob
<1>3. \A q \in Procs : q # p => HeldJob(q)' = HeldJob(q)
  BY <1>1, HeldFrame
<1> QED BY <1>2, <1>3

LEMMA SameJobs ==
    ASSUME \A q \in Procs : OneJobIn(q), queue' = queue, running' = running
    PROVE  \A q \in Procs : Jobs(q)' = Jobs(q) /\ OneJobIn(q)'
BY JobsFrame

\* Every request action that touches no row, no job and no held job.
LEMMA RequestQuiet ==
    ASSUME JobInv, NEW p \in Procs,
           \/ \E s \in Sources, k \in Keys : InsertConflict(p, s, k)
           \/ \E s \in Sources, k \in Keys : InsertDbError(p, s, k)
           \/ Replay(p) \/ ReplayRaise(p) \/ ReplayDbError(p)
    PROVE  /\ rows' = rows /\ lost' = lost
           /\ \A q \in Procs : /\ Jobs(q)' = Jobs(q)
                               /\ OneJobIn(q)'
                               /\ HeldJob(q)' = HeldJob(q)
<1>1. TypeOK /\ \A q \in Procs : OneJobIn(q)
  BY JobInvFacts DEF JobInv
<1>2. queue' = queue /\ running' = running /\ rows' = rows /\ lost' = lost
  BY DEF InsertConflict, InsertDbError, Replay, ReplayRaise, ReplayDbError
<1>3. HeldJob(p) = {}
  <2>1. Free.enqueue = FALSE
    BY DEF Free
  <2>2. ~loop[p].enqueue
    BY <1>1, <2>1, HandlerFacts
    DEF InsertConflict, InsertDbError, Replay, ReplayRaise, ReplayDbError, Ready
  <2> QED BY <2>2 DEF HeldJob
<1>4. \A q \in Procs : HeldJob(q)' = HeldJob(q)
  <2>1. CASE \E s \in Sources, k \in Keys : InsertConflict(p, s, k)
    <3>1. PICK s \in Sources, k \in Keys :
              loop' = [loop EXCEPT ![p] = Holding("conflict", NoEvent, s, k, FALSE)]
      BY <2>1 DEF InsertConflict
    <3>2. Holding("conflict", NoEvent, s, k, FALSE).enqueue = FALSE
      BY DEF Holding
    <3> QED BY <1>1, <1>3, <3>1, <3>2, QuietJobs
  <2>2. CASE \E s \in Sources, k \in Keys : InsertDbError(p, s, k)
    BY <2>2 DEF InsertDbError, HeldJob
  <2>3. CASE Replay(p) \/ ReplayRaise(p) \/ ReplayDbError(p)
    <3>1. loop' = [loop EXCEPT ![p] = Free] /\ Free.enqueue = FALSE
      BY <2>3 DEF Replay, ReplayRaise, ReplayDbError, Free
    <3> QED BY <1>1, <1>3, <3>1, QuietJobs
  <2> QED BY <2>1, <2>2, <2>3
<1> QED BY <1>1, <1>2, <1>4, SameJobs

\* The acknowledged INSERT: the handler of p may hold a new job.
LEMMA InsertJobs ==
    ASSUME JobInv, NEW p \in Procs, NEW e \in Events, NEW s \in Sources,
           NEW k \in Keys, Insert(p, e, s, k)
    PROVE  /\ lost' = lost /\ rows[e].status = "absent"
           /\ \A f \in Events : rows'[f].status =
                  IF f = e THEN InitialStatus(p) ELSE rows[f].status
           /\ HeldJob(p) = {}
           /\ HeldJob(p)' = IF InitialStatus(p) = "scheduled" THEN {e} ELSE {}
           /\ \A q \in Procs : /\ Jobs(q)' = Jobs(q)
                               /\ OneJobIn(q)'
                               /\ q # p => HeldJob(q)' = HeldJob(q)
<1>1. TypeOK /\ (\A q \in Procs : OneJobIn(q)) /\ loop \in [Procs -> Handler]
  BY JobInvFacts DEF JobInv, TypeOK
<1>2. queue' = queue /\ running' = running /\ lost' = lost /\ rows[e].status = "absent"
  BY DEF Insert
<1>3. \A f \in Events : rows'[f].status =
          IF f = e THEN InitialStatus(p) ELSE rows[f].status
  BY <1>1, InsertedFacts DEF Insert
<1>4. HeldJob(p) = {}
  BY <1>1, HandlerFacts DEF Insert, Ready
<1>5. loop'[p] = Holding("inserted", e, s, k, InitialStatus(p) = "scheduled")
  BY <1>1 DEF Insert
<1>6. HeldJob(p)' = IF InitialStatus(p) = "scheduled" THEN {e} ELSE {}
  <2>1. loop'[p].ev = e /\ loop'[p].enqueue = (InitialStatus(p) = "scheduled")
    BY <1>5 DEF Holding
  <2>2. CASE InitialStatus(p) = "scheduled"
    BY <2>1, <2>2 DEF HeldJob
  <2>3. CASE InitialStatus(p) # "scheduled"
    BY <2>1, <2>3 DEF HeldJob
  <2> QED BY <2>2, <2>3
<1>7. \A q \in Procs : q # p => HeldJob(q)' = HeldJob(q)
  BY <1>1, HeldFrame DEF Insert
<1> QED BY <1>1, <1>2, <1>3, <1>4, <1>6, <1>7, SameJobs

\* Persist and JobError: the job of w ends, and nothing else.
LEMMA EndJobs ==
    ASSUME JobInv, NEW p \in Procs, NEW w \in Workers, Persist(p, w) \/ JobError(p, w)
    PROVE  /\ running[p][w] \in Jobs(p)
           /\ Jobs(p)' = Jobs(p) \ {running[p][w]}
           /\ \A q \in Procs : /\ OneJobIn(q)'
                               /\ HeldJob(q)' = HeldJob(q)
                               /\ q # p => Jobs(q)' = Jobs(q)
<1>1. TypeOK /\ \A q \in Procs : OneJobIn(q)
  BY JobInvFacts DEF JobInv
<1>2. /\ queue' = queue /\ loop' = loop
      /\ running' = [running EXCEPT ![p][w] = NoEvent]
      /\ running[p][w] # NoEvent
  BY DEF Persist, JobError
<1>3. running[p][w] \in Jobs(p)
  BY <1>2 DEF Jobs
<1>4. Jobs(p)' = Jobs(p) \ {running[p][w]} /\ OneJobIn(p)'
  BY <1>1, <1>2, EndedJobs
<1>5. ASSUME NEW q \in Procs, q # p PROVE Jobs(q)' = Jobs(q) /\ OneJobIn(q)'
  <2>1. queue'[q] = queue[q] /\ running'[q] = running[q]
    BY <1>1, <1>2, <1>5 DEF TypeOK
  <2> QED BY <1>1, <2>1, JobsFrame
<1>6. \A q \in Procs : HeldJob(q)' = HeldJob(q)
  BY <1>2, HeldFrame
<1> QED BY <1>3, <1>4, <1>5, <1>6

\* Dequeue, for every process.
LEMMA DequeueAll ==
    ASSUME JobInv, NEW p \in Procs, NEW w \in Workers, Dequeue(p, w)
    PROVE  /\ rows' = rows /\ lost' = lost
           /\ \A q \in Procs : /\ Jobs(q)' = Jobs(q)
                               /\ OneJobIn(q)'
                               /\ HeldJob(q)' = HeldJob(q)
<1>1. TypeOK /\ \A q \in Procs : OneJobIn(q)
  BY JobInvFacts DEF JobInv
<1>2. rows' = rows /\ lost' = lost /\ loop' = loop
  BY DEF Dequeue
<1>3. Jobs(p)' = Jobs(p) /\ OneJobIn(p)'
  BY <1>1, DequeueJobs
<1>4. ASSUME NEW q \in Procs, q # p PROVE Jobs(q)' = Jobs(q) /\ OneJobIn(q)'
  <2>1. queue'[q] = queue[q] /\ running'[q] = running[q]
    BY <1>1, <1>4 DEF TypeOK, Dequeue
  <2> QED BY <1>1, <2>1, JobsFrame
<1> QED BY <1>2, <1>3, <1>4, HeldFrame

-----------------------------------------------------------------------------
(* The invariant of the jobs is inductive *)

LEMMA JobStep == JobInv /\ [Next]_vars => JobInv'
<1> SUFFICES ASSUME JobInv, [Next]_vars PROVE JobInv'
  OBVIOUS
<1> DEFINE Goal == /\ OneJobPerEvent' /\ HeldJobIsFresh' /\ JobOwesResult'
                   /\ LostWereStored'
<1>1. TypeOK /\ TypeOK' /\ AdmittedJobFits'
  BY TypeStep, FitsStep DEF JobInv
<1>2. /\ \A q \in Procs : OneJobIn(q)
      /\ \A q \in Procs : \A e \in Jobs(q) \cup HeldJob(q) : e \in Events /\ Owed(e)
      /\ OneJobPerEvent /\ HeldJobIsFresh
      /\ \A e \in lost : e \in Events /\ rows[e].status # "absent"
  BY <1>1, JobInvFacts DEF JobInv, LostWereStored, TypeOK
\* Steps that start no job, lose none of those that remain, and leave the
\* status of every remaining job and every lost one as it should be.
<1>3. ASSUME \A q \in Procs : /\ Jobs(q)' \subseteq Jobs(q)
                              /\ HeldJob(q)' \subseteq HeldJob(q)
                              /\ OneJobIn(q)',
             \A q \in Procs : \A e \in Jobs(q)' \cup HeldJob(q)' :
                 e \notin lost' /\ (rows'[e].status = rows[e].status
                                    \/ rows'[e].status = "deleted"),
             \A e \in lost' : rows'[e].status # "absent"
      PROVE  Goal
  <2>1. \A q \in Procs : \A e \in Jobs(q)' \cup HeldJob(q)' : Owed(e)'
    BY <1>2, <1>3 DEF Owed
  <2>2. OneJobPerEvent' /\ HeldJobIsFresh' /\ JobOwesResult'
    BY <1>2, <1>3, <2>1, ShrinkStep
  <2> QED BY <1>3, <2>2 DEF LostWereStored
\* Steps that touch neither a row nor a job.
<1>4. ASSUME rows' = rows, lost' = lost,
             \A q \in Procs : /\ Jobs(q)' = Jobs(q)
                              /\ OneJobIn(q)'
                              /\ HeldJob(q)' = HeldJob(q)
      PROVE  Goal
  BY <1>2, <1>3, <1>4 DEF Owed
<1>5. ASSUME rows' = rows, lost' = lost, loop' = loop, queue' = queue,
             running' = running
      PROVE  Goal
  <2>1. \A q \in Procs : HeldJob(q)' = HeldJob(q)
    BY <1>5, HeldFrame
  <2> QED BY <1>2, <1>4, <1>5, <2>1, SameJobs
<1>6. ASSUME NEW p \in Procs, Startup(p) PROVE Goal
  <2>1. /\ Jobs(p)' = {}
        /\ \A q \in Procs : q # p => Jobs(q)' = Jobs(q)
        /\ \A q \in Procs : OneJobIn(q)'
    BY <1>1, <1>2, <1>6, DownJobs DEF Startup, InitialQueue
  <2>2. \A q \in Procs : HeldJob(q)' = HeldJob(q)
    BY <1>6, HeldFrame DEF Startup
  <2>3. rows' = rows /\ lost' = lost
    BY <1>6 DEF Startup
  <2> QED BY <1>2, <1>3, <2>1, <2>2, <2>3 DEF Owed
<1>7. ASSUME NEW p \in Procs, Stop(p) \/ Crash(p) PROVE Goal
  <2>1. /\ queue' = [queue EXCEPT ![p] = <<>>]
        /\ running' = [running EXCEPT ![p] = AllIdle]
        /\ loop' = [loop EXCEPT ![p] = Free]
        /\ rows' = rows
        /\ lost' = lost \cup Jobs(p) \/ lost' = lost \cup Jobs(p) \cup HeldJob(p)
    BY <1>7 DEF Stop, Crash, Down
  <2>2. /\ Jobs(p)' = {}
        /\ \A q \in Procs : q # p => Jobs(q)' = Jobs(q)
        /\ \A q \in Procs : OneJobIn(q)'
    BY <1>1, <1>2, <2>1, DownJobs
  <2>3. HeldJob(p)' = {} /\ \A q \in Procs : q # p => HeldJob(q)' = HeldJob(q)
    BY <1>1, <2>1, FreedFacts
  <2>4. ASSUME NEW q \in Procs, NEW e \in Jobs(q)' \cup HeldJob(q)'
        PROVE  e \notin lost'
    <3>1. q # p /\ e \in Jobs(q) \cup HeldJob(q)
      BY <2>2, <2>3, <2>4
    <3>2. e \notin Jobs(p) /\ e \notin HeldJob(p) /\ e \notin lost
      BY <1>2, <3>1, JobInvFacts DEF Owed
    <3> QED BY <2>1, <3>2
  <2>5. \A e \in lost' : rows'[e].status # "absent"
    BY <1>2, <2>1 DEF Owed
  <2> QED BY <1>3, <2>1, <2>2, <2>3, <2>4, <2>5
<1>8. ASSUME NEW p \in Procs, NEW e \in Events, NEW s \in Sources, NEW k \in Keys,
             Insert(p, e, s, k)
      PROVE  Goal
  <2>1. /\ lost' = lost /\ rows[e].status = "absent"
        /\ \A f \in Events : rows'[f].status =
               IF f = e THEN InitialStatus(p) ELSE rows[f].status
        /\ HeldJob(p)' = IF InitialStatus(p) = "scheduled" THEN {e} ELSE {}
        /\ \A q \in Procs : /\ Jobs(q)' = Jobs(q)
                            /\ OneJobIn(q)'
                            /\ q # p => HeldJob(q)' = HeldJob(q)
    BY <1>8, InsertJobs
  <2>2. /\ e \notin lost
        /\ \A q \in Procs : e \notin Jobs(q) /\ e \notin HeldJob(q)
    BY <1>2, <2>1 DEF Owed
  <2>3. InitialStatus(p) # "absent"
    BY InitialStatusType
  <2>4. OneJobPerEvent'
    BY <1>2, <2>1 DEF OneJobPerEvent, OneJobIn
  <2>5. JobOwesResult'
    BY <1>2, <2>1, <2>2 DEF JobOwesResult, Owed
  <2>6. LostWereStored'
    BY <1>2, <2>1, <2>3 DEF LostWereStored
  <2>7. HeldJobIsFresh'
    <3>1. ASSUME NEW q \in Procs, NEW f \in HeldJob(q)'
          PROVE  /\ rows'[f].status \in {"scheduled", "deleted"} /\ f \notin lost'
                 /\ \A r \in Procs : /\ f \notin Jobs(r)'
                                     /\ r # q => f \notin HeldJob(r)'
      <4>1. CASE q = p
        BY <2>1, <2>2, <3>1, <4>1
      <4>2. CASE q # p
        <5>1. f \in HeldJob(q) /\ f \in Events /\ f # e
          BY <1>2, <2>1, <2>2, <3>1, <4>2
        <5>2. /\ Owed(f)
              /\ \A r \in Procs : f \notin Jobs(r) /\ (r # q => f \notin HeldJob(r))
          BY <1>2, <5>1 DEF HeldJobIsFresh
        <5> QED BY <2>1, <5>1, <5>2 DEF Owed
      <4> QED BY <4>1, <4>2
    <3> QED BY <3>1 DEF HeldJobIsFresh
  <2> QED BY <2>4, <2>5, <2>6, <2>7
<1>9. ASSUME NEW p \in Procs, NEW e \in Events, NEW s \in Sources, NEW k \in Keys,
             InsertUnacked(p, e, s, k)
      PROVE  Goal
  <2>1. /\ rows[e].status = "absent"
        /\ lost' \subseteq lost \cup {e}
        /\ queue' = queue /\ running' = running /\ loop' = loop
        /\ rows' = [rows EXCEPT ![e] = NewRow(p, s, k)]
    BY <1>9 DEF InsertUnacked
  <2>2. \A f \in Events : rows'[f].status =
            IF f = e THEN InitialStatus(p) ELSE rows[f].status
    BY <1>1, <2>1, InsertedFacts
  <2>3. \A q \in Procs : e \notin Jobs(q) /\ e \notin HeldJob(q)
    BY <1>2, <2>1 DEF Owed
  <2>4. \A q \in Procs : Jobs(q)' = Jobs(q) /\ OneJobIn(q)'
    BY <1>2, <2>1, SameJobs
  <2>5. \A q \in Procs : HeldJob(q)' = HeldJob(q)
    BY <2>1, HeldFrame
  <2>6. \A f \in lost' : rows'[f].status # "absent"
    BY <1>2, <2>1, <2>2, InitialStatusType
  <2>7. \A q \in Procs : \A f \in Jobs(q)' \cup HeldJob(q)' :
            f \notin lost' /\ rows'[f].status = rows[f].status
    BY <1>2, <2>1, <2>2, <2>3, <2>4, <2>5 DEF Owed
  <2> QED BY <1>3, <2>4, <2>5, <2>6, <2>7
<1>10. ASSUME NEW p \in Procs,
              \/ \E s \in Sources, k \in Keys :
                     InsertConflict(p, s, k) \/ InsertDbError(p, s, k)
              \/ Replay(p) \/ ReplayRaise(p) \/ ReplayDbError(p)
       PROVE  Goal
  BY <1>4, <1>10, RequestQuiet
<1>11. ASSUME NEW p \in Procs, Dispatch(p) PROVE Goal
  <2>1. /\ Jobs(p)' = Jobs(p) \cup HeldJob(p)
        /\ rows' = rows
        /\ \A q \in Procs : /\ q # p => Jobs(q)' = Jobs(q)
                            /\ OneJobIn(q)'
    BY <1>11, DispatchJobs
  <2>2. lost' = lost /\ loop' = [loop EXCEPT ![p] = Free]
    BY <1>11 DEF Dispatch
  <2>3. HeldJob(p)' = {} /\ \A q \in Procs : q # p => HeldJob(q)' = HeldJob(q)
    BY <1>1, <2>2, FreedFacts
  <2>4. \A q, r \in Procs : q # r => Jobs(q)' \cap Jobs(r)' = {}
    BY <2>1, JobInvFacts
  <2>5. OneJobPerEvent'
    BY <2>1, <2>4 DEF OneJobPerEvent, OneJobIn
  <2>6. JobOwesResult' /\ LostWereStored'
    BY <1>2, <2>1, <2>2 DEF JobOwesResult, LostWereStored, Owed
  <2>7. HeldJobIsFresh'
    <3>1. ASSUME NEW q \in Procs, NEW f \in HeldJob(q)'
          PROVE  /\ rows'[f].status \in {"scheduled", "deleted"} /\ f \notin lost'
                 /\ \A r \in Procs : /\ f \notin Jobs(r)'
                                     /\ r # q => f \notin HeldJob(r)'
      <4>1. q # p /\ f \in HeldJob(q) /\ Owed(f)
        BY <1>2, <2>3, <3>1
      <4>2. \A r \in Procs : f \notin Jobs(r) /\ (r # q => f \notin HeldJob(r))
        BY <1>2, <4>1 DEF HeldJobIsFresh
      <4> QED BY <2>1, <2>2, <2>3, <4>1, <4>2 DEF Owed
    <3> QED BY <3>1 DEF HeldJobIsFresh
  <2> QED BY <2>5, <2>6, <2>7
<1>12. ASSUME NEW p \in Procs, NEW w \in Workers, Dequeue(p, w) PROVE Goal
  BY <1>4, <1>12, DequeueAll
<1>13. ASSUME NEW p \in Procs, NEW w \in Workers, Post(p, w) PROVE Goal
  BY <1>5, <1>13 DEF Post
<1>14. ASSUME NEW p \in Procs, NEW w \in Workers, Persist(p, w) \/ JobError(p, w)
       PROVE  Goal
  <2> DEFINE e == running[p][w]
  <2>1. /\ e \in Jobs(p)
        /\ Jobs(p)' = Jobs(p) \ {e}
        /\ \A q \in Procs : /\ OneJobIn(q)'
                            /\ HeldJob(q)' = HeldJob(q)
                            /\ q # p => Jobs(q)' = Jobs(q)
    BY <1>14, EndJobs
  <2>2. e \in Events /\ Owed(e)
    BY <1>2, <2>1
  <2>3. \A q \in Procs : e \notin Jobs(q)' /\ e \notin HeldJob(q)'
    BY <2>1, JobInvFacts
  <2>4. lost' \subseteq lost \cup {e}
    BY <1>14 DEF Persist, JobError
  <2>5. \A f \in Events : f # e => rows'[f].status = rows[f].status
    BY <1>1, <1>14, <2>2, SettledFacts DEF Persist, JobError
  <2>6. rows'[e].status # "absent"
    <3>1. CASE JobError(p, w)
      BY <2>2, <3>1 DEF JobError, Owed
    <3>2. CASE Persist(p, w)
      <4>1. PICK st \in {"skipped", "success", "failed"} : rows' = SettledRows(e, st)
        BY <3>2 DEF Persist, RelayStatus
      <4> QED BY <1>1, <2>2, <4>1, SettledFacts DEF Owed
    <3> QED BY <1>14, <3>1, <3>2
  <2>7. \A f \in lost' : rows'[f].status # "absent"
    BY <1>2, <2>4, <2>5, <2>6
  <2>8. \A q \in Procs : \A f \in Jobs(q)' \cup HeldJob(q)' :
            f \notin lost' /\ rows'[f].status = rows[f].status
    BY <1>2, <2>1, <2>3, <2>4, <2>5 DEF Owed
  <2> QED BY <1>3, <2>1, <2>7, <2>8
<1>15. ASSUME Cleanup PROVE Goal
  <2>1. /\ queue' = queue /\ running' = running /\ loop' = loop /\ lost' = lost
    BY <1>15 DEF Cleanup
  <2>2. \A e \in Events :
            rows'[e].status = rows[e].status \/ rows'[e].status = "deleted"
    BY <1>1, <1>15, CleanupFacts
  <2>3. \A q \in Procs : Jobs(q)' = Jobs(q) /\ OneJobIn(q)'
    BY <1>2, <2>1, SameJobs
  <2>4. \A q \in Procs : HeldJob(q)' = HeldJob(q)
    BY <2>1, HeldFrame
  <2> QED BY <1>2, <1>3, <2>1, <2>2, <2>3, <2>4 DEF Owed
<1>16. ASSUME Tick \/ UNCHANGED vars PROVE Goal
  BY <1>5, <1>16 DEF Tick, vars
<1>17. Goal
  BY <1>6, <1>7, <1>8, <1>9, <1>10, <1>11, <1>12, <1>13, <1>14, <1>15, <1>16
  DEF Next, Request, Respond, Work, AdminCleanup, CliCleanup
<1> QED BY <1>1, <1>17 DEF JobInv

LEMMA JobInvInit == Init => JobInv
<1> SUFFICES ASSUME Init PROVE JobInv
  OBVIOUS
<1>1. \A p \in Procs : /\ Jobs(p) = {} /\ HeldJob(p) = {}
                       /\ queue[p] = <<>> /\ running[p] = AllIdle
                       /\ loop[p] = Free
  <2> SUFFICES ASSUME NEW p \in Procs
               PROVE  /\ Jobs(p) = {} /\ HeldJob(p) = {}
                      /\ queue[p] = <<>> /\ running[p] = AllIdle
                      /\ loop[p] = Free
    OBVIOUS
  <2>1. queue[p] = <<>> /\ running[p] = AllIdle /\ loop[p] = Free
    BY DEF Init
  <2> QED BY <2>1, IdleFacts DEF HeldJob, Free
<1>2. TypeOK
  BY NullFacts, EmptyFacts DEF Init, TypeOK
<1>3. AdmittedJobFits
  BY <1>1, EmptyFacts DEF AdmittedJobFits, Free
<1>4. OneJobPerEvent
  BY <1>1, IdleFacts DEF OneJobPerEvent, OneJobIn
<1>5. HeldJobIsFresh /\ JobOwesResult /\ LostWereStored
  BY <1>1 DEF Init, HeldJobIsFresh, JobOwesResult, LostWereStored
<1> QED BY <1>2, <1>3, <1>4, <1>5 DEF JobInv

\* No event is ever in two queues, two workers or twice in one of them, and a
\* job whose row was settled or whose loss was recorded does not exist.
THEOREM JobsAreSound == Spec => [](OneJobPerEvent /\ HeldJobIsFresh /\ JobOwesResult)
<1>1. JobInv => OneJobPerEvent /\ HeldJobIsFresh /\ JobOwesResult
  BY DEF JobInv
<1> QED BY <1>1, JobInvInit, JobStep, PTL DEF Spec

-----------------------------------------------------------------------------
(* No scheduled row without somebody working for it *)

Accounted(e) == e \in lost \/ \E p \in Procs : e \in Jobs(p) \cup HeldJob(p)

LEMMA AccountedStep ==
    JobInv /\ JobInv' /\ ScheduledIsAccounted /\ DownIsIdle /\ [Next]_vars
        => ScheduledIsAccounted' /\ DownIsIdle'
<1> SUFFICES ASSUME JobInv, JobInv', ScheduledIsAccounted, DownIsIdle, [Next]_vars
             PROVE  ScheduledIsAccounted' /\ DownIsIdle'
  OBVIOUS
<1> DEFINE Goal == ScheduledIsAccounted' /\ DownIsIdle'
<1>1. /\ TypeOK
      /\ up \in [Procs -> BOOLEAN]
      /\ \A q \in Procs : OneJobIn(q)
      /\ \A q \in Procs : Jobs(q) \subseteq Events /\ HeldJob(q) \subseteq Events
  BY JobInvFacts DEF JobInv, TypeOK
<1>2. \A e \in Events : rows[e].status = "scheduled" => Accounted(e)
  BY DEF ScheduledIsAccounted, Accounted
\* Steps that schedule nothing and keep every account.
<1>3. ASSUME \A e \in Events : rows'[e].status = "scheduled"
                                   => rows[e].status = "scheduled",
             lost \subseteq lost',
             \A q \in Procs : \A e \in Jobs(q) \cup HeldJob(q) :
                 rows'[e].status = "scheduled" => Accounted(e)'
      PROVE  ScheduledIsAccounted'
  <2>1. \A e \in Events : rows'[e].status = "scheduled" => Accounted(e)'
    BY <1>2, <1>3 DEF Accounted
  <2> QED BY <2>1 DEF ScheduledIsAccounted, Accounted
<1>4. ASSUME \A e \in Events : rows'[e].status = "scheduled"
                                   => rows[e].status = "scheduled",
             lost \subseteq lost', up' = up,
             \A q \in Procs : Jobs(q)' = Jobs(q) /\ HeldJob(q)' = HeldJob(q)
      PROVE  Goal
  <2>1. ScheduledIsAccounted'
    BY <1>3, <1>4 DEF Accounted
  <2>2. DownIsIdle'
    BY <1>4 DEF DownIsIdle
  <2> QED BY <2>1, <2>2
<1>5. ASSUME rows' = rows, lost' = lost, up' = up, loop' = loop, queue' = queue,
             running' = running
      PROVE  Goal
  <2>1. \A q \in Procs : HeldJob(q)' = HeldJob(q)
    BY <1>5, HeldFrame
  <2> QED BY <1>1, <1>4, <1>5, <2>1, SameJobs
<1>6. ASSUME NEW p \in Procs, Startup(p) PROVE Goal
  <2>1. /\ Jobs(p)' = {}
        /\ \A q \in Procs : q # p => Jobs(q)' = Jobs(q)
    BY <1>1, <1>6, DownJobs DEF Startup, InitialQueue
  <2>2. \A q \in Procs : HeldJob(q)' = HeldJob(q)
    BY <1>6, HeldFrame DEF Startup
  <2>3. rows' = rows /\ lost' = lost /\ up' = [up EXCEPT ![p] = TRUE] /\ ~up[p]
    BY <1>6 DEF Startup
  <2>4. Jobs(p) = {}
    BY <2>3 DEF DownIsIdle
  <2>5. ScheduledIsAccounted'
    BY <1>3, <2>1, <2>2, <2>3, <2>4 DEF Accounted
  <2>6. DownIsIdle'
    BY <1>1, <2>1, <2>3 DEF DownIsIdle
  <2> QED BY <2>5, <2>6
<1>7. ASSUME NEW p \in Procs, Stop(p) \/ Crash(p) PROVE Goal
  <2>1. /\ queue' = [queue EXCEPT ![p] = <<>>]
        /\ running' = [running EXCEPT ![p] = AllIdle]
        /\ loop' = [loop EXCEPT ![p] = Free]
        /\ up' = [up EXCEPT ![p] = FALSE]
        /\ rows' = rows
        /\ lost \cup Jobs(p) \subseteq lost'
    BY <1>7 DEF Stop, Crash, Down
  <2>2. HeldJob(p) \subseteq lost'
    <3>1. CASE Stop(p)
      BY <1>1, <3>1, HandlerFacts DEF Stop, Ready
    <3>2. CASE Crash(p)
      BY <3>2 DEF Crash, Down
    <3> QED BY <1>7, <3>1, <3>2
  <2>3. /\ Jobs(p)' = {}
        /\ \A q \in Procs : q # p => Jobs(q)' = Jobs(q)
    BY <1>1, <2>1, DownJobs
  <2>4. \A q \in Procs : q # p => HeldJob(q)' = HeldJob(q)
    BY <1>1, <2>1, FreedFacts
  <2>5. ScheduledIsAccounted'
    BY <1>3, <2>1, <2>2, <2>3, <2>4 DEF Accounted
  <2>6. DownIsIdle'
    BY <1>1, <2>1, <2>3 DEF DownIsIdle
  <2> QED BY <2>5, <2>6
<1>8. ASSUME NEW p \in Procs, NEW e \in Events, NEW s \in Sources, NEW k \in Keys,
             Insert(p, e, s, k)
      PROVE  Goal
  <2>1. /\ lost' = lost /\ up' = up
        /\ \A f \in Events : rows'[f].status =
               IF f = e THEN InitialStatus(p) ELSE rows[f].status
        /\ HeldJob(p) = {}
        /\ HeldJob(p)' = IF InitialStatus(p) = "scheduled" THEN {e} ELSE {}
        /\ \A q \in Procs : /\ Jobs(q)' = Jobs(q)
                            /\ q # p => HeldJob(q)' = HeldJob(q)
    BY <1>8, InsertJobs DEF Insert
  <2>2. ASSUME NEW f \in Events, rows'[f].status = "scheduled"
        PROVE  Accounted(f)'
    <3>1. CASE f = e
      BY <2>1, <2>2, <3>1 DEF Accounted
    <3>2. CASE f # e
      <4>1. Accounted(f)
        BY <1>2, <2>1, <2>2, <3>2
      <4> QED BY <2>1, <4>1 DEF Accounted
    <3> QED BY <3>1, <3>2
  <2>3. ScheduledIsAccounted'
    BY <2>2 DEF ScheduledIsAccounted, Accounted
  <2>4. DownIsIdle'
    BY <2>1 DEF DownIsIdle
  <2> QED BY <2>3, <2>4
<1>9. ASSUME NEW p \in Procs, NEW e \in Events, NEW s \in Sources, NEW k \in Keys,
             InsertUnacked(p, e, s, k)
      PROVE  Goal
  <2>1. /\ lost' = IF InitialStatus(p) = "scheduled" THEN lost \cup {e} ELSE lost
        /\ queue' = queue /\ running' = running /\ loop' = loop /\ up' = up
        /\ rows' = [rows EXCEPT ![e] = NewRow(p, s, k)]
    BY <1>9 DEF InsertUnacked
  <2>2. \A f \in Events : rows'[f].status =
            IF f = e THEN InitialStatus(p) ELSE rows[f].status
    BY <1>1, <2>1, InsertedFacts
  <2>3. \A q \in Procs : Jobs(q)' = Jobs(q) /\ HeldJob(q)' = HeldJob(q)
    BY <1>1, <2>1, SameJobs, HeldFrame
  <2>4. \A f \in Events : rows'[f].status = "scheduled" => Accounted(f)'
    BY <1>2, <2>1, <2>2, <2>3 DEF Accounted
  <2>5. ScheduledIsAccounted'
    BY <2>4 DEF ScheduledIsAccounted, Accounted
  <2>6. DownIsIdle'
    BY <2>1, <2>3 DEF DownIsIdle
  <2> QED BY <2>5, <2>6
<1>10. ASSUME NEW p \in Procs,
              \/ \E s \in Sources, k \in Keys :
                     InsertConflict(p, s, k) \/ InsertDbError(p, s, k)
              \/ Replay(p) \/ ReplayRaise(p) \/ ReplayDbError(p)
       PROVE  Goal
  <2>1. up' = up
    BY <1>10 DEF InsertConflict, InsertDbError, Replay, ReplayRaise, ReplayDbError
  <2> QED BY <1>4, <1>10, <2>1, RequestQuiet
<1>11. ASSUME NEW p \in Procs, Dispatch(p) PROVE Goal
  <2>1. /\ Jobs(p)' = Jobs(p) \cup HeldJob(p)
        /\ rows' = rows
        /\ \A q \in Procs : q # p => Jobs(q)' = Jobs(q)
    BY <1>11, DispatchJobs
  <2>2. lost' = lost /\ loop' = [loop EXCEPT ![p] = Free] /\ up' = up /\ up[p]
    BY <1>11 DEF Dispatch
  <2>3. \A q \in Procs : q # p => HeldJob(q)' = HeldJob(q)
    BY <1>1, <2>2, FreedFacts
  <2>4. ScheduledIsAccounted'
    BY <1>3, <2>1, <2>2, <2>3 DEF Accounted
  <2>5. DownIsIdle'
    BY <2>1, <2>2 DEF DownIsIdle
  <2> QED BY <2>4, <2>5
<1>12. ASSUME NEW p \in Procs, NEW w \in Workers, Dequeue(p, w) PROVE Goal
  <2>1. up' = up
    BY <1>12 DEF Dequeue
  <2> QED BY <1>4, <1>12, <2>1, DequeueAll
<1>13. ASSUME NEW p \in Procs, NEW w \in Workers, Post(p, w) PROVE Goal
  BY <1>5, <1>13 DEF Post
<1>14. ASSUME NEW p \in Procs, NEW w \in Workers, Persist(p, w) \/ JobError(p, w)
       PROVE  Goal
  <2> DEFINE e == running[p][w]
  <2>1. /\ e \in Jobs(p)
        /\ Jobs(p)' = Jobs(p) \ {e}
        /\ \A q \in Procs : /\ HeldJob(q)' = HeldJob(q)
                            /\ q # p => Jobs(q)' = Jobs(q)
    BY <1>14, EndJobs
  <2>2. e \in Events /\ up' = up /\ up[p]
    BY <1>1, <1>14, <2>1 DEF Persist, JobError, Ready
  <2>3. DownIsIdle'
    BY <2>1, <2>2 DEF DownIsIdle
  <2>4. CASE JobError(p, w)
    <3>1. rows' = rows /\ lost' = lost \cup {e}
      BY <2>4 DEF JobError
    <3>2. ScheduledIsAccounted'
      BY <1>3, <2>1, <3>1 DEF Accounted
    <3> QED BY <2>3, <3>2
  <2>5. CASE Persist(p, w)
    <3>1. PICK st \in {"skipped", "success", "failed"} : rows' = SettledRows(e, st)
      BY <2>5 DEF Persist, RelayStatus
    <3>2. \A f \in Events : rows'[f].status =
              IF f = e /\ Live(e) THEN st ELSE rows[f].status
      BY <1>1, <2>2, <3>1, SettledFacts
    <3>3. rows'[e].status # "scheduled"
      BY <2>2, <3>2 DEF Live
    <3>4. lost' = lost
      BY <2>5 DEF Persist
    <3>5. ScheduledIsAccounted'
      BY <1>3, <2>1, <3>2, <3>3, <3>4 DEF Accounted
    <3> QED BY <2>3, <3>5
  <2> QED BY <1>14, <2>4, <2>5
<1>15. ASSUME Cleanup PROVE Goal
  <2>1. /\ queue' = queue /\ running' = running /\ loop' = loop /\ lost' = lost
        /\ up' = up
    BY <1>15 DEF Cleanup
  <2>2. \A e \in Events : rows'[e].status = "scheduled" => rows[e].status = "scheduled"
    BY <1>1, <1>15, CleanupFacts
  <2>3. \A q \in Procs : Jobs(q)' = Jobs(q) /\ HeldJob(q)' = HeldJob(q)
    BY <1>1, <2>1, SameJobs, HeldFrame
  <2> QED BY <1>4, <2>1, <2>2, <2>3
<1>16. ASSUME Tick \/ UNCHANGED vars PROVE Goal
  BY <1>5, <1>16 DEF Tick, vars
<1>17. Goal
  BY <1>6, <1>7, <1>8, <1>9, <1>10, <1>11, <1>12, <1>13, <1>14, <1>15, <1>16
  DEF Next, Request, Respond, Work, AdminCleanup, CliCleanup
<1> QED BY <1>17

\* A row that says "scheduled" has a job, a handler about to enqueue one, or a
\* recorded fault that took the job: nothing else strands an event.
THEOREM ScheduledIsAccountedAlways == Spec => []ScheduledIsAccounted
<1>1. Init => ScheduledIsAccounted /\ DownIsIdle
  <2>1. Init => ScheduledIsAccounted
    BY DEF Init, ScheduledIsAccounted, Absent
  <2>2. ASSUME Init, NEW p \in Procs PROVE Jobs(p) = {}
    BY <2>2, IdleFacts DEF Init
  <2> QED BY <2>1, <2>2 DEF DownIsIdle
<1> QED BY <1>1, JobInvInit, JobStep, AccountedStep, PTL DEF Spec

\* The job a handler is about to enqueue belongs to a row that waits for it,
\* and to nobody else.
THEOREM HeldJobIsFreshAlways == Spec => []HeldJobIsFresh
<1>1. JobInv => HeldJobIsFresh
  BY DEF JobInv
<1> QED BY <1>1, JobInvInit, JobStep, PTL DEF Spec

\* A queued or running job still owes its row a result.
THEOREM JobOwesResultAlways == Spec => []JobOwesResult
<1>1. JobInv => JobOwesResult
  BY DEF JobInv
<1> QED BY <1>1, JobInvInit, JobStep, PTL DEF Spec

-----------------------------------------------------------------------------
(***************************************************************************)
(* Rows and the target.  That a row never denies a POST needs, beyond the  *)
(* jobs, that no id is posted before it is stored: an INSERT is the only   *)
(* step that could otherwise call a posted event "stored" or "skipped".    *)
(***************************************************************************)
UnstoredIsUnsent == \A e \in Events : rows[e].status = "absent" => e \notin posted

LEMMA PostStep ==
    JobInv /\ StatusMatchesPosts /\ UnstoredIsUnsent /\ [Next]_vars
        => StatusMatchesPosts' /\ UnstoredIsUnsent'
<1> SUFFICES ASSUME JobInv, StatusMatchesPosts, UnstoredIsUnsent, [Next]_vars
             PROVE  StatusMatchesPosts' /\ UnstoredIsUnsent'
  OBVIOUS
<1> DEFINE Goal == StatusMatchesPosts' /\ UnstoredIsUnsent'
<1>1. TypeOK
  BY DEF JobInv
\* Steps that send nothing and at most delete.
<1>2. ASSUME posted' = posted,
             \A e \in Events : \/ rows'[e].status = rows[e].status
                               \/ rows'[e].status = "deleted"
      PROVE  Goal
  BY <1>2 DEF StatusMatchesPosts, UnstoredIsUnsent
<1>3. ASSUME NEW p \in Procs, NEW e \in Events, NEW s \in Sources, NEW k \in Keys,
             Insert(p, e, s, k) \/ InsertUnacked(p, e, s, k)
      PROVE  Goal
  <2>1. /\ rows[e].status = "absent" /\ posted' = posted
        /\ rows' = [rows EXCEPT ![e] = NewRow(p, s, k)]
    BY <1>3 DEF Insert, InsertUnacked
  <2>2. \A f \in Events : rows'[f].status =
            IF f = e THEN InitialStatus(p) ELSE rows[f].status
    BY <1>1, <2>1, InsertedFacts
  <2>3. InitialStatus(p) \in {"stored", "scheduled", "skipped"} /\ e \notin posted
    BY <2>1, InitialStatusType DEF UnstoredIsUnsent
  <2> QED BY <2>1, <2>2, <2>3 DEF StatusMatchesPosts, UnstoredIsUnsent
<1>4. ASSUME NEW p \in Procs, Dispatch(p) PROVE Goal
  <2>1. rows' = rows /\ posted' = posted
    BY <1>4, DispatchJobs DEF Dispatch
  <2> QED BY <1>2, <2>1
<1>5. ASSUME NEW p \in Procs, NEW w \in Workers, Post(p, w) PROVE Goal
  <2> DEFINE e == running[p][w]
  <2>1. posted' = posted \cup {e} /\ rows' = rows /\ e \in Jobs(p)
    BY <1>5 DEF Post, Jobs
  <2>2. rows[e].status \in {"scheduled", "deleted"}
    BY <2>1, JobInvFacts DEF Owed
  <2> QED BY <2>1, <2>2 DEF StatusMatchesPosts, UnstoredIsUnsent
<1>6. ASSUME NEW p \in Procs, NEW w \in Workers, Persist(p, w) PROVE Goal
  <2> DEFINE e == running[p][w]
  <2>1. PICK success \in BOOLEAN :
            /\ success => e \in posted
            /\ rows' = SettledRows(e, RelayStatus(e \in posted, success))
    BY <1>6 DEF Persist
  <2>2. posted' = posted /\ e \in Events
    BY <1>6, EndJobs, JobInvFacts DEF Persist
  <2>3. \A f \in Events : rows'[f].status =
            IF f = e /\ Live(e) THEN RelayStatus(e \in posted, success)
                                ELSE rows[f].status
    BY <1>1, <2>1, <2>2, SettledFacts
  <2>4. CASE e \in posted
    BY <2>2, <2>3, <2>4 DEF RelayStatus, StatusMatchesPosts, UnstoredIsUnsent
  <2>5. CASE e \notin posted
    BY <2>2, <2>3, <2>5 DEF RelayStatus, StatusMatchesPosts, UnstoredIsUnsent
  <2> QED BY <2>4, <2>5
<1>7. ASSUME Cleanup PROVE Goal
  <2>1. posted' = posted
    BY <1>7 DEF Cleanup
  <2> QED BY <1>1, <1>2, <1>7, <2>1, CleanupFacts
<1>8. ASSUME NEW p \in Procs,
             \/ Startup(p) \/ Stop(p) \/ Crash(p)
             \/ Replay(p) \/ ReplayRaise(p) \/ ReplayDbError(p)
             \/ \E w \in Workers : Dequeue(p, w) \/ JobError(p, w)
             \/ \E s \in Sources, k \in Keys :
                    InsertConflict(p, s, k) \/ InsertDbError(p, s, k)
      PROVE  Goal
  <2>1. rows' = rows /\ posted' = posted
    BY <1>8 DEF Startup, Stop, Crash, Down, Replay, ReplayRaise, ReplayDbError,
                Dequeue, JobError, InsertConflict, InsertDbError
  <2> QED BY <1>2, <2>1
<1>9. ASSUME Tick \/ UNCHANGED vars PROVE Goal
  <2>1. rows' = rows /\ posted' = posted
    BY <1>9 DEF Tick, vars
  <2> QED BY <1>2, <2>1
<1>10. Goal
  BY <1>3, <1>4, <1>5, <1>6, <1>7, <1>8, <1>9
  DEF Next, Request, Respond, Work, AdminCleanup, CliCleanup
<1> QED BY <1>10

\* A row never claims a result for an event the target was not sent, and never
\* denies one it was sent.
THEOREM StatusMatchesPostsAlways == Spec => []StatusMatchesPosts
<1>1. Init => StatusMatchesPosts /\ UnstoredIsUnsent
  BY DEF Init, StatusMatchesPosts, UnstoredIsUnsent, Absent
<1> QED BY <1>1, JobInvInit, JobStep, PostStep, PTL DEF Spec

-----------------------------------------------------------------------------
(***************************************************************************)
(* Replies.  What makes them right is that a stored row keeps its source   *)
(* and key for ever, deleted or not: so the row a handler inserted, or one *)
(* it conflicted with, still carries the request's identity when the       *)
(* handler answers, whoever ran in between.                                *)
(***************************************************************************)
RowsKept ==
    \A e \in Events : rows[e].status # "absent" =>
        /\ rows'[e].status # "absent"
        /\ rows[e].status = "deleted" => rows'[e].status = "deleted"
        /\ rows'[e].source = rows[e].source
        /\ rows'[e].key = rows[e].key

Named(e, s, k) ==
    rows[e].status # "absent" /\ rows[e].source = s /\ rows[e].key = k

HandlerOK(p) ==
    /\ loop[p].at = "inserted" => Named(loop[p].ev, loop[p].source, loop[p].key)
    /\ loop[p].at = "conflict" =>
           /\ loop[p].key # NoKey
           /\ \E e \in Events : Named(e, loop[p].source, loop[p].key)

ReplyOK(p) ==
    /\ reply[p].why \in {"created", "replayed"} =>
           /\ reply[p].ev \in Events /\ reply[p].source \in Sources
           /\ Named(reply[p].ev, reply[p].source, reply[p].key)
    /\ (reply[p].why = "integrity" /\ reply[p].key # EmptyKey) =>
           \E e \in Events : /\ rows[e].status = "deleted"
                             /\ Named(e, reply[p].source, reply[p].key)

ReplyInv == \A p \in Procs : HandlerOK(p) /\ ReplyOK(p)

\* No step takes a stored row's identity away, or brings a deleted row back.
LEMMA RowsKeptStep == TypeOK /\ [Next]_vars => RowsKept
<1> SUFFICES ASSUME TypeOK, [Next]_vars PROVE RowsKept
  OBVIOUS
<1>1. rows \in [Events -> Row]
  BY DEF TypeOK
<1>2. ASSUME rows' = rows PROVE RowsKept
  BY <1>2 DEF RowsKept
<1>3. ASSUME NEW f \in Events, NEW st, st # "absent", rows' = SettledRows(f, st)
      PROVE  RowsKept
  <2>1. CASE ~Live(f)
    BY <1>2, <1>3, <2>1 DEF SettledRows
  <2>2. CASE Live(f)
    <3>1. rows' = [rows EXCEPT ![f] = [rows[f] EXCEPT !.status = st]]
      BY <1>1, <1>3, <2>2 DEF SettledRows
    <3>2. /\ [rows[f] EXCEPT !.status = st].source = rows[f].source
          /\ [rows[f] EXCEPT !.status = st].key = rows[f].key
          /\ [rows[f] EXCEPT !.status = st].status = st
      BY <1>1 DEF Row
    <3> QED BY <1>1, <1>3, <2>2, <3>1, <3>2 DEF RowsKept, Live
  <2> QED BY <2>1, <2>2
<1>4. ASSUME NEW p \in Procs, NEW e \in Events, NEW s \in Sources, NEW k \in Keys,
             Insert(p, e, s, k) \/ InsertUnacked(p, e, s, k)
      PROVE  RowsKept
  BY <1>1, <1>4 DEF Insert, InsertUnacked, RowsKept
<1>5. ASSUME Cleanup PROVE RowsKept
  <2>1. ASSUME NEW e \in Events
        PROVE  /\ rows'[e].source = rows[e].source
               /\ rows'[e].key = rows[e].key
               /\ rows'[e].status \in {rows[e].status, "deleted"}
    <3>1. rows[e] \in Row
      BY <1>1
    <3>2. /\ [rows[e] EXCEPT !.status = "deleted"].source = rows[e].source
          /\ [rows[e] EXCEPT !.status = "deleted"].key = rows[e].key
          /\ [rows[e] EXCEPT !.status = "deleted"].status = "deleted"
      BY <3>1 DEF Row
    <3> QED BY <1>5, <3>2 DEF Cleanup
  <2> QED BY <2>1 DEF RowsKept
<1>6. ASSUME NEW p \in Procs, Dispatch(p) PROVE RowsKept
  <2>1. loop[p].ev \in Events
    BY <1>6, HandlerFacts DEF Dispatch
  <2>2. rows' = rows \/ rows' = SettledRows(loop[p].ev, "skipped")
    BY <1>6 DEF Dispatch
  <2> QED BY <1>2, <1>3, <2>1, <2>2
<1>7. ASSUME NEW p \in Procs, NEW w \in Workers, Persist(p, w) PROVE RowsKept
  <2>1. PICK success \in BOOLEAN :
            rows' = SettledRows(running[p][w],
                                RelayStatus(running[p][w] \in posted, success))
    BY <1>7 DEF Persist
  <2>2. /\ running[p][w] \in Events
        /\ RelayStatus(running[p][w] \in posted, success) # "absent"
    BY <1>7 DEF Persist, TypeOK, RelayStatus
  <2> QED BY <1>3, <2>1, <2>2
<1>8. ASSUME NEW p \in Procs,
             \/ Startup(p) \/ Stop(p) \/ Crash(p)
             \/ Replay(p) \/ ReplayRaise(p) \/ ReplayDbError(p)
             \/ \E w \in Workers : Dequeue(p, w) \/ Post(p, w) \/ JobError(p, w)
             \/ \E s \in Sources, k \in Keys :
                    InsertConflict(p, s, k) \/ InsertDbError(p, s, k)
      PROVE  RowsKept
  BY <1>2, <1>8
  DEF Startup, Stop, Crash, Down, Replay, ReplayRaise, ReplayDbError,
      Dequeue, Post, JobError, InsertConflict, InsertDbError
<1>9. ASSUME Tick \/ UNCHANGED vars PROVE RowsKept
  BY <1>2, <1>9 DEF Tick, vars
<1> QED
  BY <1>4, <1>5, <1>6, <1>7, <1>8, <1>9
  DEF Next, Request, Respond, Work, AdminCleanup, CliCleanup

\* A handler and a reply that a step leaves alone, or resets, stay right.
LEMMA ReplyFrame ==
    ASSUME TypeOK, RowsKept, ReplyInv, NEW p \in Procs
    PROVE  /\ loop'[p] \in {loop[p], Free} => HandlerOK(p)'
           /\ (reply'[p] \in {reply[p], NoReply} \/ reply'[p].why = "db")
                  => ReplyOK(p)'
<1>1. HandlerOK(p) /\ ReplyOK(p)
  BY DEF ReplyInv
<1>2. loop[p].at = "inserted" => loop[p].ev \in Events
  BY HandlerFacts
<1>3. ASSUME loop'[p] = loop[p] PROVE HandlerOK(p)'
  BY <1>1, <1>2, <1>3 DEF HandlerOK, Named, RowsKept
<1>4. ASSUME loop'[p] = Free PROVE HandlerOK(p)'
  BY <1>4 DEF HandlerOK, Free
<1>5. ASSUME reply'[p] = reply[p] PROVE ReplyOK(p)'
  BY <1>1, <1>5 DEF ReplyOK, Named, RowsKept
<1>6. ASSUME reply'[p] = NoReply \/ reply'[p].why = "db" PROVE ReplyOK(p)'
  BY <1>6 DEF ReplyOK, NoReply
<1> QED BY <1>3, <1>4, <1>5, <1>6

LEMMA ReplyStep == TypeOK /\ ReplyInv /\ [Next]_vars => ReplyInv'
<1> SUFFICES ASSUME TypeOK, ReplyInv, [Next]_vars PROVE ReplyInv'
  OBVIOUS
<1>1. /\ RowsKept /\ loop \in [Procs -> Handler] /\ reply \in [Procs -> Reply]
      /\ rows \in [Events -> Row]
  BY RowsKeptStep DEF TypeOK
\* Steps that answer nobody.
<1>2. ASSUME \A q \in Procs : /\ loop'[q] \in {loop[q], Free}
                              /\ \/ reply'[q] \in {reply[q], NoReply}
                                 \/ reply'[q].why = "db"
      PROVE  ReplyInv'
  BY <1>1, <1>2, ReplyFrame DEF ReplyInv
\* Steps of the handler of p.
<1>3. ASSUME NEW p \in Procs, HandlerOK(p)', ReplyOK(p)',
             \A q \in Procs : q # p => loop'[q] = loop[q] /\ reply'[q] = reply[q]
      PROVE  ReplyInv'
  BY <1>1, <1>3, ReplyFrame DEF ReplyInv
<1>4. ASSUME NEW p \in Procs, NEW e \in Events, NEW s \in Sources, NEW k \in Keys,
             Insert(p, e, s, k)
      PROVE  ReplyInv'
  <2>1. /\ rows'[e] = NewRow(p, s, k)
        /\ loop'[p] = Holding("inserted", e, s, k, InitialStatus(p) = "scheduled")
        /\ reply'[p] = NoReply
        /\ \A q \in Procs : q # p => loop'[q] = loop[q] /\ reply'[q] = reply[q]
    BY <1>1, <1>4 DEF Insert
  <2>2. rows'[e].status # "absent" /\ rows'[e].source = s /\ rows'[e].key = k
    BY <2>1, InitialStatusType DEF NewRow
  <2>3. /\ loop'[p].at = "inserted" /\ loop'[p].ev = e
        /\ loop'[p].source = s /\ loop'[p].key = k
    BY <2>1 DEF Holding
  <2>4. HandlerOK(p)'
    BY <2>2, <2>3 DEF HandlerOK, Named
  <2> QED BY <1>1, <1>3, <2>1, <2>4, ReplyFrame
<1>5. ASSUME NEW p \in Procs, NEW s \in Sources, NEW k \in Keys,
             InsertConflict(p, s, k)
      PROVE  ReplyInv'
  <2>1. /\ rows' = rows /\ k # NoKey
        /\ loop'[p] = Holding("conflict", NoEvent, s, k, FALSE)
        /\ reply'[p] = NoReply
        /\ \A q \in Procs : q # p => loop'[q] = loop[q] /\ reply'[q] = reply[q]
    BY <1>1, <1>5 DEF InsertConflict, Conflicts
  <2>2. PICK e \in Events : Named(e, s, k)
    BY <1>5 DEF InsertConflict, Conflicts, Holders, Live, Named
  <2>3. loop'[p].at = "conflict" /\ loop'[p].source = s /\ loop'[p].key = k
    BY <2>1 DEF Holding
  <2>4. HandlerOK(p)'
    BY <2>1, <2>2, <2>3 DEF HandlerOK, Named
  <2> QED BY <1>1, <1>3, <2>1, <2>4, ReplyFrame
<1>6. ASSUME NEW p \in Procs, NEW why, NEW e, Answer(p, why, e, loop[p].source, loop[p].key)
      PROVE  /\ reply'[p].why = why /\ reply'[p].ev = e
             /\ reply'[p].source = loop[p].source /\ reply'[p].key = loop[p].key
             /\ \A q \in Procs : q # p => reply'[q] = reply[q]
  BY <1>1, <1>6 DEF Answer
<1>7. ASSUME NEW p \in Procs, loop' = [loop EXCEPT ![p] = Free], ReplyOK(p)',
             \A q \in Procs : q # p => reply'[q] = reply[q]
      PROVE  ReplyInv'
  <2>1. loop'[p] = Free /\ \A q \in Procs : q # p => loop'[q] = loop[q]
    BY <1>1, <1>7
  <2>2. HandlerOK(p)'
    BY <1>1, <2>1, ReplyFrame
  <2> QED BY <1>3, <1>7, <2>1, <2>2
<1>8. ASSUME NEW p \in Procs, loop[p].at # "free" PROVE loop[p].source \in Sources
  <2>1. loop[p] \in Handler /\ loop[p] # Free
    BY <1>1, <1>8 DEF Free
  <2> QED BY <2>1 DEF Handler
<1>9. ASSUME NEW p \in Procs, Dispatch(p) PROVE ReplyInv'
  <2>1. /\ loop[p].ev \in Events /\ loop[p].source \in Sources
        /\ Named(loop[p].ev, loop[p].source, loop[p].key)
    BY <1>8, <1>9, HandlerFacts DEF Dispatch, ReplyInv, HandlerOK
  <2>2. /\ reply'[p].why = "created" /\ reply'[p].ev = loop[p].ev
        /\ reply'[p].source = loop[p].source /\ reply'[p].key = loop[p].key
        /\ \A q \in Procs : q # p => reply'[q] = reply[q]
    BY <1>6, <1>9 DEF Dispatch
  <2>3. ReplyOK(p)'
    BY <1>1, <2>1, <2>2 DEF ReplyOK, Named, RowsKept
  <2> QED BY <1>7, <1>9, <2>2, <2>3 DEF Dispatch
<1>10. ASSUME NEW p \in Procs, Replay(p) PROVE ReplyInv'
  <2>1. PICK e \in Original(loop[p].source, loop[p].key) :
            Answer(p, "replayed", e, loop[p].source, loop[p].key)
    BY <1>10 DEF Replay
  <2>2. /\ e \in Events /\ Named(e, loop[p].source, loop[p].key)
        /\ loop[p].source \in Sources /\ rows' = rows
    BY <1>8, <1>10, <2>1 DEF Replay, Original, Holders, Live, Named
  <2>3. /\ reply'[p].why = "replayed" /\ reply'[p].ev = e
        /\ reply'[p].source = loop[p].source /\ reply'[p].key = loop[p].key
        /\ \A q \in Procs : q # p => reply'[q] = reply[q]
    BY <1>6, <2>1
  <2>4. ReplyOK(p)'
    BY <2>2, <2>3 DEF ReplyOK, Named
  <2> QED BY <1>7, <1>10, <2>3, <2>4 DEF Replay
<1>11. ASSUME NEW p \in Procs, ReplayRaise(p) PROVE ReplyInv'
  <2>1. /\ reply'[p].why = "integrity"
        /\ reply'[p].source = loop[p].source /\ reply'[p].key = loop[p].key
        /\ \A q \in Procs : q # p => reply'[q] = reply[q]
    BY <1>6, <1>11 DEF ReplayRaise
  <2>2. PICK e \in Events : Named(e, loop[p].source, loop[p].key)
    BY <1>11 DEF ReplayRaise, ReplyInv, HandlerOK
  <2>3. loop[p].key # NoKey /\ rows' = rows
    BY <1>11 DEF ReplayRaise, ReplyInv, HandlerOK
  <2>4. ASSUME loop[p].key # EmptyKey PROVE rows[e].status = "deleted"
    <3>1. Original(loop[p].source, loop[p].key) = {}
      BY <1>11, <2>3, <2>4 DEF ReplayRaise, ProvidedKey
    <3> QED BY <2>2, <3>1 DEF Original, Holders, Live, Named
  <2>5. ReplyOK(p)'
    BY <2>1, <2>2, <2>3, <2>4 DEF ReplyOK, Named
  <2> QED BY <1>7, <1>11, <2>1, <2>5 DEF ReplayRaise
<1>12. ASSUME NEW p \in Procs,
              \/ ReplayDbError(p)
              \/ \E s \in Sources, k \in Keys :
                     \/ InsertDbError(p, s, k)
                     \/ \E e \in Events : InsertUnacked(p, e, s, k)
       PROVE  ReplyInv'
  <2>1. /\ reply'[p].why = "db"
        /\ \A q \in Procs : q # p => reply'[q] = reply[q]
        /\ loop' = loop \/ loop' = [loop EXCEPT ![p] = Free]
    BY <1>1, <1>12 DEF ReplayDbError, InsertDbError, InsertUnacked, Answer
  <2> QED BY <1>1, <1>2, <2>1
<1>13. ASSUME NEW p \in Procs, Startup(p) \/ Stop(p) \/ Crash(p) PROVE ReplyInv'
  <2>1. /\ loop' = loop \/ loop' = [loop EXCEPT ![p] = Free]
        /\ reply' = reply \/ reply' = [reply EXCEPT ![p] = NoReply]
    BY <1>13 DEF Startup, Stop, Crash, Down
  <2> QED BY <1>1, <1>2, <2>1
<1>14. ASSUME \/ \E p \in Procs, w \in Workers : Work(p, w)
              \/ Cleanup \/ Tick \/ UNCHANGED vars
       PROVE  ReplyInv'
  <2>1. loop' = loop /\ reply' = reply
    BY <1>14 DEF Work, Dequeue, Post, Persist, JobError, Cleanup, Tick, vars
  <2> QED BY <1>2, <2>1
<1> QED
  BY <1>4, <1>5, <1>9, <1>10, <1>11, <1>12, <1>13, <1>14
  DEF Next, Request, Respond, AdminCleanup, CliCleanup

LEMMA ReplyInvInit == Init => ReplyInv
BY DEF Init, ReplyInv, HandlerOK, ReplyOK, Free, NoReply

\* Every 200 names an event stored for the source and key it was asked with.
THEOREM ReplyNamesOriginalAlways == Spec => []ReplyNamesOriginal
<1>1. ReplyInv => ReplyNamesOriginal
  BY DEF ReplyInv, ReplyOK, Named, ReplyNamesOriginal
<1> QED BY <1>1, ReplyInvInit, TypeCorrect, ReplyStep, PTL DEF Spec

\* Two 200s to one (source, key) name one event as long as both events exist.
THEOREM RepliesAgreeAlways == Spec => []RepliesAgree
<1>1. TypeOK /\ ReplyInv /\ UniqueKey => RepliesAgree
  <2> SUFFICES ASSUME TypeOK, ReplyInv, UniqueKey, NEW p \in Procs, NEW q \in Procs,
                      reply[p].why \in {"created", "replayed"},
                      reply[q].why \in {"created", "replayed"},
                      reply[p].source = reply[q].source,
                      reply[p].key = reply[q].key, reply[p].key # NoKey,
                      Live(reply[p].ev), Live(reply[q].ev)
               PROVE  reply[p].ev = reply[q].ev
    BY DEF RepliesAgree
  <2> DEFINE s == reply[p].source
             k == reply[p].key
  <2>1. s \in Sources /\ k \in Keys \ {NoKey}
    BY DEF ReplyInv, ReplyOK, TypeOK, Reply
  <2>2. reply[p].ev \in Holders(s, k) /\ reply[q].ev \in Holders(s, k)
    BY DEF ReplyInv, ReplyOK, Named, Holders
  <2> QED BY <2>1, <2>2 DEF UniqueKey
<1> QED BY <1>1, ReplyInvInit, TypeCorrect, UniqueKeyAlways, ReplyStep, PTL DEF Spec

\* An integrity error reaches a client for an empty header or a deleted event,
\* and for nothing else.
THEOREM ConflictIsExplainedAlways == Spec => []ConflictIsExplained
<1>1. ReplyInv => ConflictIsExplained
  BY DEF ReplyInv, ReplyOK, Named, ConflictIsExplained
<1> QED BY <1>1, ReplyInvInit, TypeCorrect, ReplyStep, PTL DEF Spec

-----------------------------------------------------------------------------
(* No event has a second job *)

\* A step gives a job to no event that has none, but to an id it draws.
LEMMA NoJobStep ==
    ASSUME JobInv, [Next]_vars, NEW e \in Events, JobOver(e)
    PROVE  \A q \in Procs : e \notin Jobs(q)' \cup HeldJob(q)'
<1> DEFINE Goal == \A q \in Procs : e \notin Jobs(q)' \cup HeldJob(q)'
<1>1. /\ TypeOK /\ \A q \in Procs : OneJobIn(q)
      /\ \A q \in Procs : e \notin Jobs(q) /\ e \notin HeldJob(q)
  BY JobInvFacts DEF JobInv, JobOver
<1>2. ASSUME loop' = loop, queue' = queue, running' = running PROVE Goal
  BY <1>1, <1>2, SameJobs, HeldFrame
<1>3. ASSUME NEW p \in Procs, Startup(p) \/ Stop(p) \/ Crash(p) PROVE Goal
  <2>1. /\ queue' = [queue EXCEPT ![p] = <<>>]
        /\ running' = [running EXCEPT ![p] = AllIdle]
        /\ loop' = loop \/ loop' = [loop EXCEPT ![p] = Free]
    BY <1>3 DEF Startup, InitialQueue, Stop, Crash, Down
  <2>2. \A q \in Procs : e \notin Jobs(q)'
    BY <1>1, <2>1, DownJobs
  <2>3. \A q \in Procs : e \notin HeldJob(q)'
    BY <1>1, <2>1, FreedFacts, HeldFrame
  <2> QED BY <2>2, <2>3
<1>4. ASSUME NEW p \in Procs, NEW f \in Events, NEW s \in Sources, NEW k \in Keys,
             Insert(p, f, s, k)
      PROVE  Goal
  <2>1. f # e
    BY <1>4, InsertJobs DEF JobOver
  <2> QED BY <1>1, <1>4, <2>1, InsertJobs
<1>5. ASSUME NEW p \in Procs, NEW f \in Events, NEW s \in Sources, NEW k \in Keys,
             InsertUnacked(p, f, s, k)
      PROVE  Goal
  BY <1>2, <1>5 DEF InsertUnacked
<1>6. ASSUME NEW p \in Procs,
             \/ \E s \in Sources, k \in Keys :
                    InsertConflict(p, s, k) \/ InsertDbError(p, s, k)
             \/ Replay(p) \/ ReplayRaise(p) \/ ReplayDbError(p)
      PROVE  Goal
  BY <1>1, <1>6, RequestQuiet
<1>7. ASSUME NEW p \in Procs, Dispatch(p) PROVE Goal
  <2>1. loop' = [loop EXCEPT ![p] = Free]
    BY <1>7 DEF Dispatch
  <2> QED BY <1>1, <1>7, <2>1, DispatchJobs, FreedFacts
<1>8. ASSUME NEW p \in Procs, NEW w \in Workers, Dequeue(p, w) PROVE Goal
  BY <1>1, <1>8, DequeueAll
<1>9. ASSUME NEW p \in Procs, NEW w \in Workers, Persist(p, w) \/ JobError(p, w)
      PROVE  Goal
  BY <1>1, <1>9, EndJobs
<1>10. ASSUME \/ \E p \in Procs, w \in Workers : Post(p, w)
              \/ Cleanup \/ Tick \/ UNCHANGED vars
       PROVE  Goal
  BY <1>2, <1>10 DEF Post, Cleanup, Tick, vars
<1> QED
  BY <1>3, <1>4, <1>5, <1>6, <1>7, <1>8, <1>9, <1>10
  DEF Next, Request, Respond, Work, AdminCleanup, CliCleanup

\* Only the worker that runs the job of an event sends it.
LEMMA NoPostStep ==
    ASSUME [Next]_vars, NEW e \in Events, \A p \in Procs : e \notin Jobs(p), e \in posted'
    PROVE  e \in posted
<1>1. ASSUME NEW p \in Procs, NEW w \in Workers, Post(p, w) PROVE e \in posted
  <2>1. running[p][w] \in Jobs(p)
    BY <1>1 DEF Post, Jobs
  <2> QED BY <1>1, <2>1 DEF Post
<1>2. ASSUME NEW p \in Procs, Startup(p) \/ Stop(p) \/ Crash(p) \/ Request(p) \/ Respond(p)
      PROVE  posted' = posted
  BY <1>2
  DEF Startup, Stop, Crash, Down, Request, Insert, InsertConflict, InsertDbError,
      InsertUnacked, Respond, Dispatch, Replay, ReplayRaise, ReplayDbError
<1>3. ASSUME NEW p \in Procs, NEW w \in Workers,
             Dequeue(p, w) \/ Persist(p, w) \/ JobError(p, w)
      PROVE  posted' = posted
  BY <1>3 DEF Dequeue, Persist, JobError
<1>4. CASE Cleanup \/ Tick \/ UNCHANGED vars
  BY <1>4 DEF Cleanup, Tick, vars
<1> QED BY <1>1, <1>2, <1>3, <1>4 DEF Next, Work, AdminCleanup, CliCleanup

\* An event whose job is over gets no other and is posted no more, by any
\* process, before or after any restart.
THEOREM NoSecondJobAlways == Spec => NoSecondJob
<1>1. ASSUME JobInv, [Next]_vars, NEW e \in Events, JobOver(e)
      PROVE  JobOver(e)' /\ (e \in posted' => e \in posted)
  <2>1. rows'[e].status # "absent"
    BY <1>1, RowsKeptStep DEF JobInv, RowsKept, JobOver
  <2>2. \A p \in Procs : e \notin Jobs(p)
    BY <1>1 DEF JobOver
  <2> QED BY <1>1, <2>1, <2>2, NoJobStep, NoPostStep DEF JobOver
<1>2. JobInv /\ [Next]_vars =>
        \A e \in Events : JobOver(e) => JobOver(e)' /\ (e \in posted' => e \in posted)
  BY <1>1
<1> QED BY <1>2, JobInvInit, JobStep, PTL DEF Spec, NoSecondJob

-----------------------------------------------------------------------------
(* What is lost, and to which faults *)

StrandingFaults == {"crash", "stop", "unacked", "job"}

LEMMA NothingLostStep ==
    ASSUME Faults \cap StrandingFaults = {}, lost = {}, [Next]_vars
    PROVE  lost' = {}
<1>1. ASSUME NEW p \in Procs, Startup(p) \/ Stop(p) \/ Crash(p) \/ Request(p) \/ Respond(p)
      PROVE  lost' = {}
  BY <1>1
  DEF StrandingFaults, Startup, Stop, Crash, Request, Insert, InsertConflict,
      InsertDbError, InsertUnacked, Respond, Dispatch, Replay, ReplayRaise, ReplayDbError
<1>2. ASSUME NEW p \in Procs, NEW w \in Workers, Work(p, w) PROVE lost' = {}
  BY <1>2 DEF StrandingFaults, Work, Dequeue, Post, Persist, JobError
<1>3. CASE Cleanup \/ Tick \/ UNCHANGED vars
  BY <1>3 DEF Cleanup, Tick, vars
<1> QED BY <1>1, <1>2, <1>3 DEF Next, AdminCleanup, CliCleanup

\* Stop, crash, a commit that is not acknowledged and a job that raises are all
\* that strands a scheduled event: without them every such row has its job,
\* whatever requests, other database errors and retention do.
THEOREM ScheduledHasJob ==
    ASSUME Faults \cap StrandingFaults = {}
    PROVE  Spec => [](\A e \in Events :
                         rows[e].status = "scheduled" =>
                             \E p \in Procs : e \in Jobs(p) \cup HeldJob(p))
<1>1. Init => lost = {}
  BY DEF Init
<1>2. lost = {} /\ [Next]_vars => (lost = {})'
  BY NothingLostStep
<1>3. ScheduledIsAccounted /\ lost = {} =>
          \A e \in Events : rows[e].status = "scheduled" =>
                                \E p \in Procs : e \in Jobs(p) \cup HeldJob(p)
  BY DEF ScheduledIsAccounted
<1> QED BY <1>1, <1>2, <1>3, ScheduledIsAccountedAlways, PTL DEF Spec

=============================================================================
