# A specification of the webhook relay API

TLA+ modules that model the service in `src/app`, TLC configurations that check
them on small instances, and TLAPS proofs for every instance.

    tlc -config RelayOne.cfg MCWebhookRelay      # one model-checking run
    tlapm WebhookRelayProofs.tla                 # the proofs of one module

## The system

A FastAPI service stores webhooks in one table, `events`, and relays each to
`TARGET_URL` in the background. A process runs one asyncio event loop; several
processes, and the cleanup CLI, may share one database.

| component | state | operations | talks to |
| --- | --- | --- | --- |
| webhook intake, `api/routes.py` `create_event` | the row it inserts | capacity check, INSERT, replay of a known key, enqueue, queue-full UPDATE | table, dispatcher |
| relay dispatcher, `services/relay.py` 81-136 | `_dispatch_queue`, worker tasks, in memory only | startup, shutdown, enqueue, dequeue, run a job | intake, relay execution, table |
| relay execution, `services/relay.py` 139-301 | locals of a call, the shared client, counters | preflight, up to four POSTs with backoff, outcome | target, name service |
| event table, `db/models.py`, `db/session.py` | rows, unique `(source, idempotency_key)` | one transaction per `get_db()` block | everyone |
| retention, `services/cleanup.py`, `scripts/cleanup.py` | none | one set-based DELETE, from the admin endpoint or the CLI | table |
| lifespan, `main.py` 44-60 | client, dispatcher, engine | startup and shutdown in order | all of the above |
| listing, `routes.py` 50-57, 164-186, 315-357 | a cursor in the client's hands | keyset page, fetch by id | table |
| middleware and error handlers, `main.py` 68-112, `core/errors.py` | request metrics, log, request id | wrap every request | every endpoint, prometheus |
| security gates, `core/security.py` | none | size, signature, admin token | intake, admin |
| schema, `alembic/`, `session.init_db`, `docker-entrypoint.sh` | tables, indexes, `alembic_version` | upgrade, `create_all` | table |
| configuration, `core/config.py` | settings, read once | clamps to at least 1 | all |
| probes, schemas, logging | none; the request id's context variable | | all |
| performance harness, `perf/` | not part of the service | | |

What is hard here:

- The queue lives in memory and the row in the database. Stop, crash, a raising
  job or an unacknowledged commit can take one and leave the other.
- `create_event` spans several transactions. In its own process nothing runs in
  between, because the code between two awaits is not interrupted; other
  processes, the cleanup CLI and a crash do.
- A status is written by the handler and by the job; the row may be deleted
  before the job ends.
- The unique constraint decides races on idempotency keys, and the handler then
  looks for the winner in a second transaction.
- `relay_event` retries what may have been delivered, carries locals over
  attempts, and is cancelled at any of its awaits.
- A walk over `GET /events` has no state but its cursor, while rows become
  visible in any order of `received_at` and retention deletes others.
- A reply can leave from four layers (gate, endpoint, handler inside the
  middleware, handler outside it), each with its own traces in table, metrics,
  log and headers.
- On SQLite each DDL statement commits by itself; containers, apps and the CLI
  build the schema at once and can die between two statements.

What makes each component correct: the intake answers every use of a provided
key with one event; the dispatcher never has two jobs for one event and never
refuses a job it promised room; the execution returns an outcome that tells
what happened; a row is settled once, by its own job, and never after its
deletion; a scheduled row has somebody working for it; a walk shows each event
once and none too few; each reply is counted, logged and named as one request;
whoever serves has a whole schema, or it is known why not.

## The modules

**EventStore** is what the table promises, with no processes in sight: Accept,
Settle (once, from `scheduled`), Expire (for good), and key uniqueness.

**WebhookRelay** is the core: processes, their event loops, queues and workers,
on one table, with retention and faults.

| variable | code |
| --- | --- |
| `rows[e]` | the row of id `e`; a deleted row keeps its columns and is marked, so that properties can speak of it. `relay_status` NULL is `"stored"` |
| `up[p]` | process `p` is between lifespan startup and shutdown |
| `loop[p]` | the `create_event` handler that holds the event loop: INSERT committed, or refused by the constraint |
| `queue[p]`, `running[p][w]` | `_dispatch_queue` and the job each worker awaits, by event id |
| `now` | the wall clock that `received_at` and the cutoff are taken from |
| `posted` | ids of which a POST was started |
| `reply[p]`, `lost` | history: the last answer of `p`; ids whose job ended without a result |

Each transaction of `create_event` is an action: `Insert` (capacity check to
commit), `InsertConflict`, `InsertDbError`, `InsertUnacked`, then `Dispatch`
(enqueue or the queue-full UPDATE, and the reply), `Replay`, `ReplayRaise`,
`ReplayDbError`. Workers do `Dequeue`, `Post`, `Persist`, `JobError`; they wait
while a handler holds the loop (`Ready`). `AdminCleanup` is a coroutine of a
process, `CliCleanup` is not. `Startup`, `Stop`, `Crash` are the lifespan. In a
running loop `Queue.get` on a non-empty queue does not suspend, so `Dequeue` as
a step of its own allows more interleavings than there are. Requests that a gate
refuses change none of these variables and are left out.

**RelayJob** is what `WebhookRelay` assumes of a call of `relay_event`.
**RelayEvent** is the call itself: one step from one await to the next, the
network as a record per attempt of whether its request is in flight or has
arrived, the three counters, cancellation and the closing of the shared client.
Delays are in milliseconds; `Jitter` is the set of factors `random.uniform` may
yield, in percent, within 80..120, and the runs take its two extremes. Name resolution and
the address policy are reduced to their outcomes (pass, blocked, DNS error,
unexpected exception).

**Pagination** is `GET /events`: a client with its walk, the rows, inserts and
retention.

| variable | code |
| --- | --- |
| `row[e]`, `source[e]`, `received[e]` | the row of id `e` and the columns the query reads; ids are integers, in the database's order |
| `walk`, `filter`, `cursor`, `shown` | the client: whether it has a page to ask for, its `?source=`, the cursor it holds, the ids it was shown |
| `owed` | history: the live rows a client may expect of this walk: those there when it started, and those committed since that sort after all it has seen |

`List(limit)` is one request, `list_events` from the statement to `next_cursor`;
each request may name another limit. `Select` states what `ORDER BY ... LIMIT
limit + 1` may return instead of how it is found. `EncodeCursor` follows the
datetime through the driver (naive from SQLite, with an offset from others) and
`_as_utc`. `Insert` takes any `received_at`, because the code takes it before the
commit and each process from its own clock. Base64 and JSON are left out: they
carry the pair unchanged.

**RequestPipeline** is one process seen from its clients.

| variable | code |
| --- | --- |
| `at[r]`, `ask[r]` | how far request `r` is (before the endpoint, answered, raised, replied) and what it asks; the settings that decide about it are folded into its fields |
| `ctx[r]` | `request_id_ctx` in the task of `r` |
| `status[r]`, `error[r]` | how the endpoint ended: the response inside the middleware, or the exception that no handler there converts |
| `reply[r]` | what reached the client |
| `row[r]`, `live` | the `request_id` column of the row `r` made; the rows not yet deleted |
| `requests`, `received`, `log[r]` | `REQUEST_COUNT` by path label and status, `EVENTS_RECEIVED_TOTAL`, the lines of `app.request` and `app.error` with the id `RequestIdFilter` puts on them |

`Arrive` is the middleware up to `call_next`, `Finish` the rest of it.
`Refuse` takes the first refusing gate of the endpoint's list (`WebhookGates`,
`CleanupGates`, `ListGates`). A gate ends a request with a code or with an
exception: `SignatureGate` and `TokenGate` raise for a header that is not ASCII
(`hmac.compare_digest`), `BodyGate` for a body that is not UTF-8, nested too deep
or with too long a number, whose exceptions are no `JSONDecodeError`. `Create`,
`Replay`, `Read`, `Cleanup` are what the endpoints do past the gates;
`DatabaseError` and `Disconnect` raise.
`ServerError` is the handler of `Exception`, which Starlette puts outside the
middleware. An endpoint does not suspend once it has the body, so it is one step;
other processes show as the clause of `DatabaseError` that raises.
**MCRequestPipeline** adds the symmetry set.

**SchemaBootstrap** is the schema at startup: `table`, `built` (of `Indexes`) and
`stamped` are the file all processes share, `at[p]` the next step of a process
and `tool[p]` what it runs its DDL with. A container does `Upgrade`, then
`InitDb`; an app and the CLI only `InitDb`. `CreateTable`, `CreateIndex` and
`Stamp` are one statement each. A process that loses `CREATE TABLE` exits, and
`Launch` may start it again but need not. `Crash` strikes anywhere and records in `torn`
whether it fell between two statements; `maker` records who created the table.

**WebhookRelayProofs**, **EventStoreProofs**, **RelayEventProofs**,
**RelayCountersProofs**, **PaginationProofs**, **RequestPipelineProofs**,
**SchemaBootstrapProofs**: see below. **MCWebhookRelay** adds the symmetry set of WebhookRelay. Definitions
marked `variant` are plausible bugs; each property is broken by one of them under
its own configuration.

## The runs

| run | instance | shows |
| --- | --- | --- |
| `relay_one` | 1 process, 2 workers, queue of 2, 4 events, all faults | `ScheduledIsAccounted`, `JobOwesResult`, `AdmittedJobFits`, `StatusMatchesPosts`, and `StoreSpec`: the service implements EventStore |
| `relay_two` | 2 processes, 1 worker each, queue of 1, 3 events, all faults | `OneJobPerEvent`, `HeldJobIsFresh`, `NoSecondJob`: no event is relayed twice, at once or one job after the other, over restarts too |
| `replay_two` | 2 processes, 2 sources, a key, an empty key and no key, retention | `UniqueKey`, `ReplyNamesOriginal`, `RepliesAgree`, `ConflictIsExplained`, `StoreSpec` |
| `relay_live` | 1 process, 2 workers, queue of 2, 3 events, all faults, fair | `ScheduledEnds`: a scheduled event gets a result, is deleted, or lost its job to a fault |
| `shutdown_strands` | 1 process, graceful stop only, fair | violation, below |
| `empty_key` | 1 process, no faults | violation, below |
| `call_one` | 1 call, 4 attempts, two bad statuses | `OutcomeTellsHistory`, `TargetSawIt`, `NoSendAfterSuccess`, `BackoffGrows`, `CallWindsDown` (at most eight awaits), and `JobSpec`: RelayEvent implements RelayJob |
| `calls_two` | 2 calls, 2 attempts, shutdown, fair | `CountersAgree`, `ClientOutlivesCalls`, `CallEnds`, `ShutdownEnds` |
| `walk` | 4 events, 2 sources, 2 instants, limits 1 and 2, a driver with an offset, fair | `WalkDescends`, `NothingSkipped`, `CursorIsHonest`, `WalkEnds` |
| `pipeline` | 2 requests of any kind, ids given or not | `OneIdPerRequest`, `GatesGuard`, `RowsAreAnswered`, `CountersTellReplies` |
| `pipeline_uncounted` | the same | violation, below |
| `bootstrap` | 2 containers, an app, a CLI, 2 indexes, 2 crashes, both URLs, fair | `OneBuilder`, `ServedSchemaExists`, `BlockedUpgradeIsExplained`, `SomeContainerServes`: of the containers that race, one comes up |

Why the bounds are enough. A full queue, two busy workers and one more request
take a queue of 2 and 4 events, or 1 worker, a queue of 1 and 3 events. Races
on a key take two processes and two inserts, a third for the key's reuse after
retention. One tick of the clock with `Retention = 0` separates rows that are
deleted from rows that are not; longer windows only delay that. The events are
consumed, so restarts are unbounded and requests are not (`WalkEnds`, too, speaks
of finitely many events). The code's own four
attempts are used where the retry matters; two calls with two attempts are
enough to interleave retries, counters and shutdown. Events, processes and
workers, and in `pipeline` requests, are interchangeable in the safety runs, which
use symmetry; the fair
runs do not. A run may stop when all ids are used and the clock has ended, so
deadlock is not checked; `walk` and `bootstrap` never stop, and check it.

Four events fill two pages of the larger limit, or a page, its extra row and one
more; two instants make ties and an order. Two requests are what overlapping
takes, and a webhook, the use of its key, its deletion or its fetch are pairs.
Two containers, or one and the app, race on each statement, and two crashes tear
an upgrade and its successor; two indexes have a first and a last, six would only
repeat the middle.

Fairness. A handler that holds the loop goes on (weak). A worker that could
take or finish a job does so in the end although requests take the loop again
and again (strong): asyncio runs ready callbacks in FIFO order. A job ends
because the attempts are bounded and each has a timeout; `calls_two` checks
that with fairness on timers only, none on the target. Two assumptions remain:
a database call returns, and a target does not trickle a response for ever
(httpx applies the 5 s per read). After the workers are cancelled only the
delivery of the cancellation is assumed. In `walk` the client keeps asking
(weak), nothing else is fair. In `bootstrap` a process that runs goes on
(weak), and nothing else is fair: no compose file has a restart policy, so a
container that exited stays down, and `SomeContainerServes` speaks of the ones
that are left.

`GatesGuard` is in two parts. The first ties each way a webhook can end, an
exception included, to the gate that is for it. The second compares two webhooks:
if they agree on source, size and signature, and these are not all accepted, they
end alike, whatever their bodies are. Two requests are what that takes.

### Disagreements found

1. `shutdown_strands`: a graceful stop drops queued and running jobs and a
   startup does not look for scheduled rows, so such a row says `scheduled` for
   ever, against the docstring at `app/api/routes.py:136` and what
   `tests/test_api.py:60-68` waits for. `ScheduledIsAccounted` and
   `ScheduledEnds` show that nothing but a fault has this effect.
2. `empty_key`: an empty `Idempotency-Key` is stored and unique, but the conflict
   branch takes it for an absent one and raises, so the second request gets a
   500 instead of the original event promised at `app/api/routes.py:208-209`.
   `ConflictIsExplained` shows that the only other way to that error is a
   deletion by retention in the middle of the request.
3. `pipeline_uncounted`: an exception that no handler inside the middleware
   converts (a database error, a body that cannot be read, a signature or token
   that is not ASCII) ends the middleware before the request counter, the request
   log line and the `X-Request-ID` header, and the handler outside adds none of
   them, against "metrics emission, and logging for every request" at
   `app/main.py:4-5`. `CountersTellReplies` shows what does hold: counter,
   request log and header go together.

Two more are in the models as the code has them, without a run of their own.
`hmac.compare_digest` raises `TypeError` for a string that is not ASCII, so such a
signature or admin token is answered 500, uncounted, instead of the 401 that
`app/core/security.py:16` and `:40` promise for an invalid one (`SignatureGate`,
`TokenGate`; it is one of the requests of `pipeline_uncounted`, and `GatesGuard`
holds for it, too). `alembic/env.py:24` hands `DATABASE_URL` to a `ConfigParser`,
which refuses a percent sign, so a container exits where the app by itself
serves (`Upgrade`): `ServedSchemaExists` shows that it does not go on without its
schema, and `SomeContainerServes` names such a URL among the three things that
leave no container to serve.

## The proofs

For every value of the constants, from the named assumptions of each module: for
WebhookRelay any sets of processes, workers, events, sources and keys, any queue
size of at least 1 (as the code clamps it), retention and faults; for Pagination
any ids that are integers, positive limits, clock bound and driver offset; for
RequestPipeline any finite set of requests; for SchemaBootstrap disjoint sets of
processes and at least one index; for RelayEvent at least one attempt, finitely
many calls (what the counters count is finite) and a jitter within 20 percent,
as the code draws it. Null values are outside the sets they stand beside.

Three theorems have a hypothesis of their own. `BackoffGrowsAlways` takes at most
5 attempts: the code makes 4, and with a sixth two waits in a row would be 1.6 s
before the jitter, which may then order them either way. `ScheduledHasJob` is about
processes to which the four faults it names do not happen. `WalkIsBounded` takes
finitely many events.

| module | theorems |
| --- | --- |
| `WebhookRelayProofs` | `TypeCorrect`, `AdmittedJobFitsAlways`, `UniqueKeyAlways`, `JobsAreSound` (with `HeldJobIsFreshAlways`, `JobOwesResultAlways`), `ScheduledIsAccountedAlways`, `StatusMatchesPostsAlways`, `ReplyNamesOriginalAlways`, `RepliesAgreeAlways`, `ConflictIsExplainedAlways`: every safety invariant of the module; `NoSecondJobAlways`, `ScheduledHasJob` |
| `EventStoreProofs` | `ImplementsEventStore`: `Spec => StoreSpec` |
| `RelayEventProofs` | `NoSendAfterSuccessAlways`, `OutcomeTellsHistoryAlways`, `ClientOutlivesCallsAlways`, `ImplementsRelayJob`: `Spec => JobSpec` |
| `RelayCountersProofs` | `TypeCorrect`, `CountersAgreeAlways`, `BackoffGrowsAlways`, `CallWindsDownAlways`, `TargetSawItAlways` |
| `PaginationProofs` | `TypeCorrect`, `WalkDescendsAlways`, `NothingSkippedAlways`, `CursorIsHonestAlways`, `WalkIsBounded` |
| `RequestPipelineProofs` | `OneIdPerRequestAlways`, `GatesGuardAlways`, `RowsAreAnsweredAlways`, `CountersTellRepliesAlways` |
| `SchemaBootstrapProofs` | `OneBuilderAlways`, `ServedSchemaExistsAlways`, `BlockedUpgradeIsExplainedAlways` |

### WebhookRelay

`TypeOK`, `AdmittedJobFits` (with `TypeOK`) and `UniqueKey` (with `TypeOK`) are
inductive; the second shows that the queue-full branch behind `put_nowait` is
dead code. The job properties are not, each alone: `Insert` gives a fresh id to
a handler, and only `JobOwesResult` says that no job has it already;
`JobOwesResult` survives `Persist` only because `OneJobPerEvent` says nobody
else runs that job; a recorded loss must not name an id still to be drawn
(`LostWereStored`). Their conjunction `JobInv` is inductive. The proof of a step
first says what the step does to the sets of jobs (`DequeueJobs`, `EndJobs`,
`DispatchJobs`, ...), then argues on sets: `ShrinkStep` covers every step that
starts no job, and only `Insert` and `Dispatch` are left.
`ScheduledIsAccounted` adds `DownIsIdle`: a process that is down has no jobs for
its next startup to forget. `StatusMatchesPosts` needs `UnstoredIsUnsent`: an id
not yet drawn was not sent under another life. The reply properties speak of one
reply long after it was given; `ReplyInv` says of each handler that the row it
inserted, or the constraint that refused it, is of its source and key
(`HandlerOK`), and of each reply that it names such a row (`ReplyOK`), which
survives because columns never change and no row becomes absent again
(`RowsKept`). The refinement proof maps each step to Accept, Settle, Expire or a
stutter; the only hard case, `Persist` on a row that cleanup deleted, is
`JobOwesResult`.

`NoSecondJob` looks past the end of a job: `Insert` draws an id that no row has,
`Dispatch` enqueues what its handler holds, and no other step gives an event a
job (`NoJobStep`); only the worker of a job sends (`NoPostStep`). It is the other
side of the disagreement on `shutdown_strands`: a stranded event is not relayed
later either. `ScheduledHasJob` turns `ScheduledIsAccounted` round: without a stop,
a crash, a commit that is not acknowledged or a job that raises, `lost` stays
empty, so those four are all that strands an event.

### RelayEvent

`RelayInv` is `CallTypes` (the types but those of the delay, the counters and the
network), `ClientInv` (the client is closed only after every call ended) and
`CallOK` of each call, which ties its locals to what it heard: `last_status` is
the answer of the last answered attempt, `last_error` the last failure, nothing
is heard of an attempt not started. `LastKept` is the lemma behind it: an attempt
without an answer does not move the last answered one.

RelayCountersProofs adds three invariants to it. `BooksInv`: each counter is the
cardinality of a set, of pairs of a call and an attempt or of calls, and a step
adds one new element to it (`OneMore`); a new attempt is new because the attempt
of its call is the largest yet, an ended one because it had heard nothing. `DelayInv`:
a call sleeps the backoff of its attempt and has slept that of the one before, so
the growth of the delay is an inequality between two values of `Backoff`
(`BackoffOrder`, where the ranges of the jitter are compared). That the delay is a
natural number at all needs `2 ^ n \in Nat`; instead of an induction,
`PowerIsPositive` takes it from the number of subsets of a set of `n` elements.
`SawInv`: nothing is in flight of an attempt not started, and who heard a status
was delivered; requests that arrive late keep it, and so does one that is taken
back, which had heard nothing.

`CallWindsDown` is the safety half of `CallEnds`: `CallEdge` lists the edges a call
can take with what `RelayInv` knows of its attempt on each, and `AwaitsLeft` falls
on every edge. Fairness then has only to see to it that steps are taken.

### Pagination

`WalkInv` adds to `WalkDescends` that the cursor is the instant and the id of the
last event shown (`CursorIsLast`), and that every row owed is shown or still
ahead of it (`OwedAhead`). `KeysetIsOrder` says that the WHERE clause is the
ORDER BY, `CursorRoundTrip` that the instant survives the driver's zone.
`CursorIsHonest` is an action property: `Select` returns `limit + 1` rows exactly
when one is left behind the page. `WalkIsBounded` is what makes a walk end: by
`WalkDescends` the ids shown are distinct, and a page with a cursor is not empty.

### RequestPipeline

`PipeInv` says of each request what has to be true at its stage (`RequestOK`),
and that each counter is the cardinality of a set of requests; a step adds at
most one request to one such set (`OneMore`). `FirstGate` and `WebhookRefusal`
turn "the least refusing index" into the order of the gates: `Ends` says which
status and exception the first gate that refuses leaves, as a function of source,
size and signature alone. Two webhooks that agree on these therefore end alike,
which is how `GatesGuardAlways` compares two requests from an invariant of one.

### SchemaBootstrap

`SchemaInv` says that whoever is between two DDL statements made the table,
alone, with the tool it now uses, and that nobody stamped it (`BuilderOwns`),
that a container past its upgrade found or wrote the version
(`ContainerUsesAlembic`), and that no index is built without the table. Then all
steps but `CreateTable`, `CreateIndex`, `Stamp` and `Crash` are moves of one
process (`MoveStep`).

## Model-checked only

Liveness: `ScheduledEnds`, `CallEnds`, `ShutdownEnds`, `WalkEnds`,
`SomeContainerServes` (temporal reasoning with fairness is beyond the prover).
`CallWindsDown` and `WalkIsBounded` prove the bounds behind two of them. Every
invariant and every action property that a passing run checks is proved.

## Not modelled, and why

- What survives a power failure with `synchronous=NORMAL`: SQLite and the disk
  decide; the code does not look at it. Crashes of processes keep every commit.
- Databases with transactional DDL, downgrade, offline SQL generation. The race
  on creating `alembic_version` itself ends like a lost `CREATE TABLE`: one of
  the two exits.
- Column widths: SQLite does not enforce them; elsewhere an `X-Request-ID` of
  more than 36 characters is one more database error.
- Requests with a known path and another method (405), and the routes FastAPI
  adds by itself (`/docs`, `/openapi.json`): counted like any other.
- A failure of the queue-full UPDATE (`routes.py` 300-306): `AdmittedJobFits` shows
  that this branch is never reached.
- How a verdict comes about: the HMAC, IP ranges and host
  policy, parsing of configuration, JSON, base64, dates. Response shapes and log
  formatting. The guard against starting the HTTP client twice, which the
  lifespan never does.
- The performance harness: scripts and receivers around the service.
