---------------------------- MODULE WebhookRelay ----------------------------
(***************************************************************************)
(* The core of the service: API processes that share one database, each    *)
(* with its own asyncio event loop, bounded relay queue and relay workers, *)
(* and the retention job that deletes rows behind their back.              *)
(*                                                                         *)
(* Granularity.  Inside one process a coroutine runs until its next await, *)
(* so create_event after `await request.body()` is never interrupted by    *)
(* another coroutine of that process: loop[p] says which handler holds the *)
(* loop, and every other step of p waits for it.  Other processes and the  *)
(* cleanup CLI can run between two database transactions of that handler,  *)
(* and a process can die there, so each transaction is a step of its own.  *)
(*                                                                         *)
(* Requests that fail the gates of create_event (source, size, signature,  *)
(* JSON) change no state kept here and are left out.                       *)
(*                                                                         *)
(* A definition marked `variant` is not the code: it is a bug the code     *)
(* could have, and a property is shown to be broken by it.                 *)
(***************************************************************************)
EXTENDS Integers, Sequences, Functions

CONSTANTS Procs,      \* API processes (uvicorn) on one DATABASE_URL
          Workers,    \* relay workers of a process: RELAY_WORKER_CONCURRENCY
          Events,     \* event ids (uuid4); bounds how many events are stored
          Sources,    \* the {source} of POST /webhooks/{source}
          Keys,       \* values Idempotency-Key takes, with NoKey and EmptyKey
          NoKey,      \* header absent: SQL NULL
          EmptyKey,   \* header present and empty
          NoEvent,    \* no event
          NoSource,   \* source of an id that was never stored
          QueueSize,  \* RELAY_QUEUE_SIZE
          HasTarget,  \* TARGET_URL is set
          HasRetention, \* EVENT_RETENTION_DAYS is set
          Retention,  \* its value, in ticks of the clock
          MaxTime,    \* bound on the clock
          Faults      \* disruptions that may happen, a subset of AllFaults

AllFaults == {"crash",    \* the process dies at any point
              "stop",     \* the process is shut down gracefully
              "db",       \* a transaction fails and is rolled back
              "unacked",  \* a commit takes effect and still reports an error
              "job"}      \* a relay job raises instead of returning a result

ASSUME QueueSizeAssumption == QueueSize \in Nat \ {0}
ASSUME ClockAssumption == MaxTime \in Nat /\ Retention \in Int
ASSUME FlagAssumption == HasTarget \in BOOLEAN /\ HasRetention \in BOOLEAN
ASSUME NullAssumption == NoEvent \notin Events /\ NoSource \notin Sources
ASSUME FaultAssumption == Faults \subseteq AllFaults

VARIABLES
    \* the database
    rows,     \* rows[e]: the columns of row e; kept after a DELETE, marked deleted
    \* each process, lost when it dies
    up,       \* up[p]: lifespan has started p
    loop,     \* loop[p]: the create_event handler that holds p's event loop
    queue,    \* queue[p]: _dispatch_queue, as the ids of the queued jobs
    running,  \* running[p][w]: the job worker w is executing
    \* the outside
    now,      \* wall clock
    posted,   \* ids for which a POST to TARGET_URL was started
    \* history
    reply,    \* reply[p]: how p answered its last webhook
    lost      \* ids whose relay job ended without a recorded result

vars == <<rows, up, loop, queue, running, now, posted, reply, lost>>

-----------------------------------------------------------------------------
(* Rows and handlers *)

RowStatus == {"absent", "stored", "scheduled", "skipped", "success", "failed",
              "deleted"}

Row == [status : RowStatus, source : Sources \cup {NoSource},
        key : Keys \cup {NoKey}, received : Nat]

Absent == [status |-> "absent", source |-> NoSource, key |-> NoKey, received |-> 0]

Free == [at |-> "free", ev |-> NoEvent, source |-> NoSource, key |-> NoKey,
         enqueue |-> FALSE]

\* No handler; one whose INSERT is committed; one whose INSERT conflicted.
Handler ==
    {Free}
    \cup [at : {"inserted"}, ev : Events, source : Sources, key : Keys,
          enqueue : BOOLEAN]
    \cup [at : {"conflict"}, ev : {NoEvent}, source : Sources, key : Keys,
          enqueue : {FALSE}]

Reply == [why : {"none", "created", "replayed", "integrity", "db"},
          ev : Events \cup {NoEvent}, source : Sources \cup {NoSource},
          key : Keys \cup {NoKey}]

NoReply == [why |-> "none", ev |-> NoEvent, source |-> NoSource, key |-> NoKey]

Live(e) == rows[e].status \notin {"absent", "deleted"}

\* Rows that hold the given source and idempotency key.
Holders(s, k) == {e \in Events : Live(e) /\ rows[e].source = s /\ rows[e].key = k}

\* The ids of p's outstanding relay jobs.
Jobs(p) == Range(queue[p]) \cup ({running[p][w] : w \in Workers} \ {NoEvent})

AllIdle == [w \in Workers |-> NoEvent]

Ready(p) == up[p] /\ loop[p] = Free

HasRoomForOneMore(p) == Len(queue[p]) <= QueueSize  \* variant: off by one

HasCapacity(p) == Len(queue[p]) < QueueSize

-----------------------------------------------------------------------------
Init ==
    /\ rows = [e \in Events |-> Absent]
    /\ up = [p \in Procs |-> FALSE]
    /\ loop = [p \in Procs |-> Free]
    /\ queue = [p \in Procs |-> <<>>]
    /\ running = [p \in Procs |-> AllIdle]
    /\ now = 0
    /\ posted = {}
    /\ reply = [p \in Procs |-> NoReply]
    /\ lost = {}

(***************************************************************************)
(* Lifespan.  A process starts with an empty queue whatever the table      *)
(* says, and drops its queue and cancels its workers when it stops.        *)
(***************************************************************************)
RecoveredQueue(p) ==  \* variant: startup enqueues what the table says is scheduled
    IF \E e \in Events : rows[e].status = "scheduled"
    THEN <<CHOOSE e \in Events : rows[e].status = "scheduled">> ELSE <<>>

InitialQueue(p) == <<>>

Startup(p) ==
    /\ ~up[p]
    /\ up' = [up EXCEPT ![p] = TRUE]
    /\ queue' = [queue EXCEPT ![p] = InitialQueue(p)]
    /\ running' = [running EXCEPT ![p] = AllIdle]
    /\ reply' = [reply EXCEPT ![p] = NoReply]
    /\ UNCHANGED <<rows, loop, now, posted, lost>>

\* The jobs of p, in the queue, in a worker or in its handler, end here.
Down(p, dropped) ==
    /\ up' = [up EXCEPT ![p] = FALSE]
    /\ loop' = [loop EXCEPT ![p] = Free]
    /\ queue' = [queue EXCEPT ![p] = <<>>]
    /\ running' = [running EXCEPT ![p] = AllIdle]
    /\ lost' = lost \cup dropped
    /\ UNCHANGED <<rows, now, posted, reply>>

\* The server lets the requests in flight finish before lifespan ends.
Stop(p) ==
    /\ "stop" \in Faults
    /\ Ready(p)
    /\ Down(p, Jobs(p))

\* The job the handler of p is about to enqueue, if it holds one.
HeldJob(p) == IF loop[p].enqueue THEN {loop[p].ev} ELSE {}

Crash(p) ==
    /\ "crash" \in Faults
    /\ up[p]
    /\ Down(p, Jobs(p) \cup HeldJob(p))

-----------------------------------------------------------------------------
(***************************************************************************)
(* POST /webhooks/{source}, from the INSERT on.                            *)
(***************************************************************************)

NoConflict(s, k) == FALSE  \* variant: no unique constraint

ConflictsAcrossSources(s, k) ==  \* variant: UNIQUE (idempotency_key)
    k # NoKey /\ \E t \in Sources : Holders(t, k) # {}

\* The unique constraint; an absent key is NULL and never conflicts.
Conflicts(s, k) == k # NoKey /\ Holders(s, k) # {}

OriginalOfAnySource(s, k) ==  \* variant: WHERE without the source
    UNION {Holders(t, k) : t \in Sources}

\* Rows the handler's SELECT of the original event can return.
Original(s, k) == Holders(s, k)

InitialStatus(p) ==
    IF ~HasTarget THEN "stored" ELSE IF HasCapacity(p) THEN "scheduled" ELSE "skipped"

NewRow(p, s, k) ==
    [status |-> InitialStatus(p), source |-> s, key |-> k, received |-> now]

Holding(at, e, s, k, enqueue) ==
    [at |-> at, ev |-> e, source |-> s, key |-> k, enqueue |-> enqueue]

Answer(p, why, e, s, k) ==
    reply' = [reply EXCEPT ![p] = [why |-> why, ev |-> e, source |-> s, key |-> k]]

\* The capacity check and the INSERT, committed.
Insert(p, e, s, k) ==
    /\ Ready(p)
    /\ rows[e].status = "absent"
    /\ ~Conflicts(s, k)
    /\ rows' = [rows EXCEPT ![e] = NewRow(p, s, k)]
    /\ loop' = [loop EXCEPT ![p] =
                   Holding("inserted", e, s, k, InitialStatus(p) = "scheduled")]
    /\ reply' = [reply EXCEPT ![p] = NoReply]
    /\ UNCHANGED <<up, queue, running, now, posted, lost>>

\* The INSERT, refused by the unique constraint and rolled back.
InsertConflict(p, s, k) ==
    /\ Ready(p)
    /\ Conflicts(s, k)
    /\ loop' = [loop EXCEPT ![p] = Holding("conflict", NoEvent, s, k, FALSE)]
    /\ reply' = [reply EXCEPT ![p] = NoReply]
    /\ UNCHANGED <<rows, up, queue, running, now, posted, lost>>

\* The INSERT fails for another reason: 500, nothing stored.
InsertDbError(p, s, k) ==
    /\ "db" \in Faults
    /\ Ready(p)
    /\ Answer(p, "db", NoEvent, s, k)
    /\ UNCHANGED <<rows, up, loop, queue, running, now, posted, lost>>

\* The INSERT commits but the commit reports an error: 500, a row is stored
\* and the handler never reaches the enqueue.
InsertUnacked(p, e, s, k) ==
    /\ "unacked" \in Faults
    /\ Ready(p)
    /\ rows[e].status = "absent"
    /\ ~Conflicts(s, k)
    /\ rows' = [rows EXCEPT ![e] = NewRow(p, s, k)]
    /\ lost' = IF InitialStatus(p) = "scheduled" THEN lost \cup {e} ELSE lost
    /\ Answer(p, "db", NoEvent, s, k)
    /\ UNCHANGED <<up, loop, queue, running, now, posted>>

UpsertedRows(e, status) ==  \* variant: INSERT OR REPLACE for UPDATE
    [rows EXCEPT ![e].status = status]

\* UPDATE events SET relay_... WHERE id = e: no row, no effect.
SettledRows(e, status) ==
    IF Live(e) THEN [rows EXCEPT ![e].status = status] ELSE rows

EnqueuedAlone(q, e) == <<e>>  \* variant: a queue that drops its oldest job

Enqueued(q, e) == Append(q, e)

DispatchInverted(p) ==  \* variant: `if relay.enqueue_relay_job` for `if not`
    LET h == loop[p] IN
    /\ up[p] /\ h.at = "inserted"
    /\ queue' = IF h.enqueue /\ HasCapacity(p)
                THEN [queue EXCEPT ![p] = Append(queue[p], h.ev)] ELSE queue
    /\ rows' = IF h.enqueue /\ HasCapacity(p) THEN SettledRows(h.ev, "skipped") ELSE rows
    /\ loop' = [loop EXCEPT ![p] = Free]
    /\ Answer(p, "created", h.ev, h.source, h.key)
    /\ UNCHANGED <<up, running, now, posted, lost>>

\* The rest of the handler after a successful INSERT: put_nowait, with the
\* queue-full UPDATE when it is refused, and the 200 reply.  AdmittedJobFits shows
\* that the UPDATE is never reached, so what follows its failure is left out.
Dispatch(p) ==
    LET h == loop[p] IN
    /\ up[p] /\ h.at = "inserted"
    /\ IF h.enqueue /\ HasCapacity(p)
       THEN /\ queue' = [queue EXCEPT ![p] = Enqueued(queue[p], h.ev)]
            /\ rows' = rows
       ELSE /\ queue' = queue
            /\ rows' = IF h.enqueue THEN SettledRows(h.ev, "skipped") ELSE rows
    /\ loop' = [loop EXCEPT ![p] = Free]
    /\ Answer(p, "created", h.ev, h.source, h.key)
    /\ UNCHANGED <<up, running, now, posted, lost>>

\* `if not idempotency_key` takes an empty header for an absent one.
ProvidedKey(k) == k \notin {NoKey, EmptyKey}

\* The SELECT of the original event and its 200 reply.
Replay(p) ==
    LET h == loop[p] IN
    /\ up[p] /\ h.at = "conflict"
    /\ ProvidedKey(h.key)
    /\ \E e \in Original(h.source, h.key) : Answer(p, "replayed", e, h.source, h.key)
    /\ loop' = [loop EXCEPT ![p] = Free]
    /\ UNCHANGED <<rows, up, queue, running, now, posted, lost>>

\* The IntegrityError re-raised: 500.
ReplayRaise(p) ==
    LET h == loop[p] IN
    /\ up[p] /\ h.at = "conflict"
    /\ ProvidedKey(h.key) => Original(h.source, h.key) = {}
    /\ Answer(p, "integrity", NoEvent, h.source, h.key)
    /\ loop' = [loop EXCEPT ![p] = Free]
    /\ UNCHANGED <<rows, up, queue, running, now, posted, lost>>

\* The SELECT itself fails: 500.
ReplayDbError(p) ==
    LET h == loop[p] IN
    /\ "db" \in Faults
    /\ up[p] /\ h.at = "conflict"
    /\ ProvidedKey(h.key)
    /\ Answer(p, "db", NoEvent, h.source, h.key)
    /\ loop' = [loop EXCEPT ![p] = Free]
    /\ UNCHANGED <<rows, up, queue, running, now, posted, lost>>

-----------------------------------------------------------------------------
(***************************************************************************)
(* Relay workers.  relay_event is reduced to what the row can tell: no     *)
(* POST at all (preflight refused), or one or more POSTs and a verdict.    *)
(***************************************************************************)
Dequeue(p, w) ==
    /\ Ready(p)
    /\ running[p][w] = NoEvent
    /\ queue[p] # <<>>
    /\ running' = [running EXCEPT ![p][w] = Head(queue[p])]
    /\ queue' = [queue EXCEPT ![p] = Tail(queue[p])]
    /\ UNCHANGED <<rows, up, loop, now, posted, reply, lost>>

Post(p, w) ==
    /\ Ready(p)
    /\ running[p][w] # NoEvent
    /\ posted' = posted \cup {running[p][w]}
    /\ UNCHANGED <<rows, up, loop, queue, running, now, reply, lost>>

UnskippedStatus(attempted, success) ==  \* variant: attempted is not looked at
    IF success THEN "success" ELSE "failed"

NullStatus(attempted, success) ==  \* variant: no status unless attempted
    IF ~attempted THEN "null" ELSE IF success THEN "success" ELSE "failed"

RelayStatus(attempted, success) ==
    IF ~attempted THEN "skipped" ELSE IF success THEN "success" ELSE "failed"

\* relay_event returns and its outcome is written to the row.
Persist(p, w) ==
    LET e == running[p][w] IN
    /\ Ready(p)
    /\ e # NoEvent
    /\ \E success \in BOOLEAN :
           /\ success => e \in posted
           /\ rows' = SettledRows(e, RelayStatus(e \in posted, success))
    /\ running' = [running EXCEPT ![p][w] = NoEvent]
    /\ UNCHANGED <<up, loop, queue, now, posted, reply, lost>>

\* The job raises, in relay_event or in the UPDATE; the worker logs it and
\* takes its next job.
JobError(p, w) ==
    LET e == running[p][w] IN
    /\ "job" \in Faults
    /\ Ready(p)
    /\ e # NoEvent
    /\ running' = [running EXCEPT ![p][w] = NoEvent]
    /\ lost' = lost \cup {e}
    /\ UNCHANGED <<rows, up, loop, queue, now, posted, reply>>

-----------------------------------------------------------------------------
(* Retention and time *)

Victims == {e \in Events : Live(e) /\ rows[e].received < now - Retention}

Cleanup ==
    /\ HasRetention
    /\ Victims # {}
    /\ rows' = [e \in Events |->
                   IF e \in Victims THEN [rows[e] EXCEPT !.status = "deleted"]
                                    ELSE rows[e]]
    /\ UNCHANGED <<up, loop, queue, running, now, posted, reply, lost>>

\* POST /admin/cleanup, a coroutine of p.
AdminCleanup(p) == Ready(p) /\ Cleanup

\* python -m app.scripts.cleanup, a process of its own.
CliCleanup == Cleanup

Tick ==
    /\ now < MaxTime
    /\ now' = now + 1
    /\ UNCHANGED <<rows, up, loop, queue, running, posted, reply, lost>>

-----------------------------------------------------------------------------
Request(p) ==
    \E s \in Sources, k \in Keys :
        \/ \E e \in Events : Insert(p, e, s, k) \/ InsertUnacked(p, e, s, k)
        \/ InsertConflict(p, s, k)
        \/ InsertDbError(p, s, k)

Respond(p) == Dispatch(p) \/ Replay(p) \/ ReplayRaise(p) \/ ReplayDbError(p)

Work(p, w) == Dequeue(p, w) \/ Post(p, w) \/ Persist(p, w) \/ JobError(p, w)

Next ==
    \/ \E p \in Procs :
           \/ Startup(p) \/ Stop(p) \/ Crash(p)
           \/ Request(p) \/ Respond(p)
           \/ \E w \in Workers : Work(p, w)
           \/ AdminCleanup(p)
    \/ CliCleanup
    \/ Tick

Spec == Init /\ [][Next]_vars

(***************************************************************************)
(* The event loop never leaves a ready callback behind: the handler that   *)
(* holds it goes on, and a worker that could run, however often requests   *)
(* take the loop before it, runs in the end.  A job ends: relay_event has  *)
(* a last attempt, and an attempt ends provided the target does not feed   *)
(* it a response without end (the 5 s timeout is per read).  Nothing is    *)
(* assumed of clients, of cleanup, of restarts, of the clock.              *)
(***************************************************************************)
Fairness ==
    \A p \in Procs :
        /\ WF_vars(Respond(p))
        /\ \A w \in Workers : /\ SF_vars(Dequeue(p, w))
                              /\ SF_vars(Persist(p, w) \/ JobError(p, w))

FairSpec == Spec /\ Fairness

-----------------------------------------------------------------------------
(* Properties *)

TypeOK ==
    /\ rows \in [Events -> Row]
    /\ up \in [Procs -> BOOLEAN]
    /\ loop \in [Procs -> Handler]
    /\ queue \in [Procs -> Seq(Events)]
    /\ running \in [Procs -> [Workers -> Events \cup {NoEvent}]]
    /\ now \in 0..MaxTime
    /\ posted \in SUBSET Events
    /\ reply \in [Procs -> Reply]
    /\ lost \in SUBSET Events

\* The event whose job the handler of p is about to enqueue is scheduled (or
\* already deleted by cleanup), and nobody else relays it.
HeldJobIsFresh ==
    \A p \in Procs : \A e \in HeldJob(p) :
        /\ rows[e].status \in {"scheduled", "deleted"}
        /\ e \notin lost
        /\ \A q \in Procs : e \notin Jobs(q) /\ (q # p => e \notin HeldJob(q))

\* No event is relayed by two jobs, in one process or in two: an event is at
\* most once in one queue or in one worker.
OneJobPerEvent ==
    /\ \A p \in Procs : IsInjective(queue[p])
    /\ \A p, q \in Procs : p # q => Jobs(p) \cap Jobs(q) = {}
    /\ \A p \in Procs, w \in Workers :
           running[p][w] # NoEvent =>
               /\ running[p][w] \notin Range(queue[p])
               /\ \A v \in Workers : running[p][v] = running[p][w] => v = w

\* A job in a queue or in a worker still owes its event a result: the row
\* says so, unless retention deleted it under the job, and nothing recorded
\* the job as lost.
JobOwesResult ==
    \A p \in Procs : \A e \in Jobs(p) :
        rows[e].status \in {"scheduled", "deleted"} /\ e \notin lost

JobOver(e) ==
    /\ rows[e].status # "absent"
    /\ \A p \in Procs : e \notin Jobs(p) \cup HeldJob(p)

\* An event whose job is over, done, failed or lost, or that never had one, gets
\* no other and is posted no more: not by a restart of its process, not by
\* another process, not by a request that replays its key.
NoSecondJob ==
    [][\A e \in Events :
           JobOver(e) => JobOver(e)' /\ (e \in posted' => e \in posted)]_vars

\* A row that says "scheduled" has somebody working for it: a job, or the
\* handler about to enqueue one, unless a fault took the job away.
ScheduledIsAccounted ==
    \A e \in Events :
        rows[e].status = "scheduled" =>
            \/ e \in lost
            \/ \E p \in Procs : e \in Jobs(p) \cup HeldJob(p)

\* What the capacity check promised still holds at put_nowait, after the
\* INSERT: the queue never refuses a job it was checked for, and never holds
\* more than RELAY_QUEUE_SIZE jobs.
AdmittedJobFits ==
    \A p \in Procs :
        /\ Len(queue[p]) <= QueueSize
        /\ loop[p].enqueue => Len(queue[p]) < QueueSize

\* What a row says of its relay is what the target saw of it: a result with
\* an attempt for an event that was sent, no attempt for one that was not.
StatusMatchesPosts ==
    \A e \in Events :
        /\ rows[e].status \in {"success", "failed"} => e \in posted
        /\ rows[e].status \in {"stored", "skipped"} => e \notin posted

\* A provided idempotency key names at most one row of its source, whatever
\* the interleaving of processes and cleanup.
UniqueKey ==
    \A s \in Sources, k \in Keys \ {NoKey} : \A e, f \in Holders(s, k) : e = f

\* A 200 reply names an event that was stored for the very source and key of
\* the request.
ReplyNamesOriginal ==
    \A p \in Procs :
        reply[p].why \in {"created", "replayed"} =>
            /\ rows[reply[p].ev].status # "absent"
            /\ rows[reply[p].ev].source = reply[p].source
            /\ rows[reply[p].ev].key = reply[p].key

\* Two 200 replies to one (source, key), from any two processes, name one
\* event, unless retention deleted an event named by one of them.
RepliesAgree ==
    \A p, q \in Procs :
        ( /\ reply[p].why \in {"created", "replayed"}
          /\ reply[q].why \in {"created", "replayed"}
          /\ reply[p].source = reply[q].source
          /\ reply[p].key = reply[q].key
          /\ reply[p].key # NoKey
          /\ Live(reply[p].ev) /\ Live(reply[q].ev) ) =>
            reply[p].ev = reply[q].ev

\* An integrity error reaches a client only when the header was empty, or when
\* retention deleted the original event between the INSERT and the SELECT.
ConflictIsExplained ==
    \A p \in Procs :
        (reply[p].why = "integrity" /\ reply[p].key # EmptyKey) =>
            \E e \in Events : /\ rows[e].status = "deleted"
                              /\ rows[e].source = reply[p].source
                              /\ rows[e].key = reply[p].key

\* The rows live as EventStore promises: a status is settled at most once and
\* only from "scheduled", a late result never brings a deleted row back, and
\* a row never takes a key that another live row of its source holds.
Store == INSTANCE EventStore WITH
             life <- [e \in Events |-> rows[e].status],
             ident <- [e \in Events |-> <<rows[e].source, rows[e].key>>]

StoreSpec == Store!Spec

\* A scheduled event gets its result, is deleted or has its job lost to a
\* fault: no job is forgotten in a queue.
ScheduledEnds ==
    \A e \in Events :
        rows[e].status = "scheduled" ~> (rows[e].status # "scheduled" \/ e \in lost)

\* The docstring of _relay_and_persist: the job persists its final outcome.
\* Read of the row: "scheduled" is not for ever.
ScheduledSettles ==
    \A e \in Events : rows[e].status = "scheduled" ~> rows[e].status # "scheduled"

\* The docstring of create_event: a provided key that already exists for the
\* source returns the original event.
ProvidedKeyIsReplayed ==
    \A p \in Procs :
        reply[p].why = "integrity" => Holders(reply[p].source, reply[p].key) = {}

=============================================================================
