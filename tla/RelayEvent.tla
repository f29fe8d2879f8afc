----------------------------- MODULE RelayEvent -----------------------------
(***************************************************************************)
(* relay_event, one call per relay worker: preflight, up to MaxAttempts    *)
(* POSTs with backoff, the counters, and the shutdown that cancels the     *)
(* workers before it closes the client they share.                         *)
(*                                                                         *)
(* A step of a call runs from one await to the next: getaddrinfo,          *)
(* client.post and asyncio.sleep are the places where it can be suspended, *)
(* and cancelled.  The network is a record, per attempt, of whether the    *)
(* request is in flight or has reached the target; a request outlives the  *)
(* timeout, or the cancellation, of the attempt that sent it.              *)
(*                                                                         *)
(* A definition marked `variant` is not the code: it is a bug the code     *)
(* could have, and a property is shown to be broken by it.                 *)
(***************************************************************************)
EXTENDS Integers, FiniteSetsExt

CONSTANTS Calls,       \* calls of relay_event, one per job
          MaxAttempts, \* max_attempts, 4
          Jitter,      \* values of 1 + random.uniform(-0.2, 0.2), in percent
          BadStatus,   \* status codes that are not 2xx
          OkStatus,    \* a 2xx status code
          NoResult,    \* the call has returned nothing
          None         \* Python's None

ASSUME CallsAssumption == IsFiniteSet(Calls)
ASSUME AttemptsAssumption == MaxAttempts \in Nat \ {0}
ASSUME JitterAssumption == Jitter \subseteq 80..120

VARIABLES
    target,    \* what TARGET_URL and RELAY_ALLOW_HOSTS mean to the preflight
    pc,        \* pc[c]: the await call c is suspended at, or how it ended
    attempt,   \* attempt[c]: number of the current attempt, 0 before the first
    last,      \* last[c]: the locals last_status, last_error and reason
    delay,     \* delay[c]: the last backoff, in milliseconds
    outcome,   \* outcome[c]: the RelayOutcome returned
    client,    \* _client: "open" or None
    stopping,  \* shutdown_relay_dispatcher has cancelled the workers
    counters,  \* RELAY_ATTEMPTS_TOTAL, RELAY_SUCCESSES_TOTAL, RELAY_LATENCY_SECONDS
    net,       \* net[c][n]: the request of attempt n: none, flying, delivered
    heard      \* heard[c][n]: what attempt n heard back (history)

callVars == <<pc, attempt, last, delay, outcome>>
vars == <<target, callVars, client, stopping, counters, net, heard>>

-----------------------------------------------------------------------------
Attempts == 1..MaxAttempts

\* The refusals of _preflight_target that need no name resolution.
Refusals == {"unsupported_scheme", "invalid_target_url", "host_not_allowed"}

Failures == {"timeout", "connection_error", "http_error"}

\* No status code is one of the other values it stands beside.
ASSUME StatusAssumption ==
    /\ BadStatus \cap (Failures \cup {"dns_error", OkStatus, None}) = {}
    /\ OkStatus \notin Failures \cup {None}
    /\ None \notin Failures \cup {"open", "dns_error"}

Heard == Failures \cup BadStatus \cup {OkStatus, None}

Reason == {"success", "non_2xx", "blocked_ip", "dns_error"} \cup Refusals \cup Failures

Local == [status : BadStatus \cup {None}, error : Failures \cup BadStatus \cup {None},
          reason : {"non_2xx"} \cup Failures]

FirstLocal == [status |-> None, error |-> None, reason |-> "non_2xx"]

RelayOutcome == [attempted : BOOLEAN, success : BOOLEAN, reason : Reason,
                 status : BadStatus \cup {OkStatus, None}, attempts : 0..MaxAttempts,
                 error : Failures \cup BadStatus \cup {"dns_error", None}]

ASSUME ResultAssumption == NoResult \notin RelayOutcome

Running == {"preflight", "posting", "sleeping"}
Ended   == {"returned", "raised", "cancelled"}

Counters == [attempts : Nat, successes : Nat, latencies : Nat]

TypeOK ==
    /\ target \in Refusals \cup {"pass"}
    /\ pc \in [Calls -> Running \cup Ended \cup {"idle"}]
    /\ attempt \in [Calls -> 0..MaxAttempts]
    /\ last \in [Calls -> Local]
    /\ delay \in [Calls -> Nat]
    /\ outcome \in [Calls -> RelayOutcome \cup {NoResult}]
    /\ client \in {"open", None}
    /\ stopping \in BOOLEAN
    /\ counters \in Counters
    /\ net \in [Calls -> [Attempts -> {"none", "flying", "delivered"}]]
    /\ heard \in [Calls -> [Attempts -> Heard]]

Init ==
    /\ target \in Refusals \cup {"pass"}
    /\ pc = [c \in Calls |-> "idle"]
    /\ attempt = [c \in Calls |-> 0]
    /\ last = [c \in Calls |-> FirstLocal]
    /\ delay = [c \in Calls |-> 0]
    /\ outcome = [c \in Calls |-> NoResult]
    /\ client = "open"
    /\ stopping = FALSE
    /\ counters = [attempts |-> 0, successes |-> 0, latencies |-> 0]
    /\ net = [c \in Calls |-> [n \in Attempts |-> "none"]]
    /\ heard = [c \in Calls |-> [n \in Attempts |-> None]]

-----------------------------------------------------------------------------
(* The call *)

\* A worker takes the job and calls relay_event.
Begin(c) ==
    /\ pc[c] = "idle" /\ ~stopping
    /\ pc' = [pc EXCEPT ![c] = "preflight"]
    /\ UNCHANGED <<target, attempt, last, delay, outcome, client, stopping,
                   counters, net, heard>>

RefusedAsAttempt(reason, error) ==  \* variant: a refusal counts as an attempt
    [attempted |-> TRUE, success |-> FALSE, reason |-> reason, status |-> None,
     attempts |-> 0, error |-> error]

Return(c, o) ==
    /\ pc' = [pc EXCEPT ![c] = "returned"]
    /\ outcome' = [outcome EXCEPT ![c] = o]

Refused(reason, error) ==
    [attempted |-> FALSE, success |-> FALSE, reason |-> reason, status |-> None,
     attempts |-> 0, error |-> error]

\* The target URL or the resolved addresses are refused: no attempt is made.
Refuse(c) ==
    /\ pc[c] = "preflight"
    /\ IF target # "pass"
       THEN Return(c, Refused(target, None))
       ELSE \/ Return(c, Refused("blocked_ip", None))
            \/ Return(c, Refused("dns_error", "dns_error"))
    /\ UNCHANGED <<target, attempt, last, delay, client, stopping, counters, net, heard>>

\* The top of the loop up to `await client.post`.
NextAttempt(c) ==
    /\ attempt' = [attempt EXCEPT ![c] = @ + 1]
    /\ counters' = [counters EXCEPT !.attempts = @ + 1]
    /\ pc' = [pc EXCEPT ![c] = "posting"]
    /\ net' = [net EXCEPT ![c][attempt[c] + 1] = "flying"]

\* The preflight passes; _get_client has a client; the first attempt starts.
PassPreflight(c) ==
    /\ pc[c] = "preflight"
    /\ target = "pass"
    /\ client # None
    /\ NextAttempt(c)
    /\ UNCHANGED <<target, last, delay, outcome, client, stopping, heard>>

\* An exception relay_event does not expect: a URL or host that cannot be
\* parsed or encoded, a payload httpx cannot write as JSON, no client.
Raise(c) ==
    /\ \/ pc[c] = "preflight"
       \/ pc[c] = "posting" /\ net[c][attempt[c]] = "flying"
    /\ pc' = [pc EXCEPT ![c] = "raised"]
    /\ net' = IF pc[c] = "posting"
              THEN [net EXCEPT ![c][attempt[c]] = "none"] ELSE net
    /\ UNCHANGED <<target, attempt, last, delay, outcome, client, stopping,
                   counters, heard>>

\* response.status_code is 2xx.
SucceedAndGoOn(c) ==  \* variant: without the return
    /\ pc[c] = "posting"
    /\ net[c][attempt[c]] = "delivered"
    /\ attempt[c] < MaxAttempts
    /\ heard' = [heard EXCEPT ![c][attempt[c]] = OkStatus]
    /\ pc' = [pc EXCEPT ![c] = "sleeping"]
    /\ UNCHANGED <<target, attempt, last, delay, outcome, client, stopping,
                   counters, net>>

Succeed(c) ==
    /\ pc[c] = "posting"
    /\ net[c][attempt[c]] = "delivered"
    /\ heard' = [heard EXCEPT ![c][attempt[c]] = OkStatus]
    /\ counters' = [counters EXCEPT !.latencies = @ + 1, !.successes = @ + 1]
    /\ Return(c, [attempted |-> TRUE, success |-> TRUE, reason |-> "success",
                  status |-> OkStatus, attempts |-> attempt[c], error |-> None])
    /\ UNCHANGED <<target, attempt, last, delay, client, stopping, net>>

\* What the locals become after an attempt that heard h.
NotedStale(l, h) ==  \* variant: last_error is only set with a status
    IF h \in BadStatus THEN [status |-> h, error |-> h, reason |-> "non_2xx"]
                       ELSE [l EXCEPT !.reason = h]

Noted(l, h) ==
    IF h \in BadStatus THEN [status |-> h, error |-> h, reason |-> "non_2xx"]
                       ELSE [l EXCEPT !.error = h, !.reason = h]

ExhaustedRetries(l, n) ==  \* variant: the retries are reported for the attempts
    [attempted |-> TRUE, success |-> FALSE, reason |-> l.reason, status |-> l.status,
     attempts |-> n - 1, error |-> l.error]

Exhausted(l, n) ==
    [attempted |-> TRUE, success |-> FALSE, reason |-> l.reason, status |-> l.status,
     attempts |-> n, error |-> l.error]

BackoffMax(n, jitter) ==  \* variant: max for min
    LET base == 200 * 2 ^ (n - 1) IN
    ((IF base < 1600 THEN 1600 ELSE base) * jitter) \div 100

\* min(0.2 * 2 ** (n - 1), 1.6) seconds with a jitter of at most 20 percent.
Backoff(n, jitter) ==
    LET base == 200 * 2 ^ (n - 1) IN
    ((IF base < 1600 THEN base ELSE 1600) * jitter) \div 100

NotObserved(k) == k  \* variant: only a success is observed

Observed(k) == [k EXCEPT !.latencies = @ + 1]

MayRetryOnce(n) == n <= MaxAttempts  \* variant: one attempt too many

MayRetry(n) == n < MaxAttempts

\* The attempt failed, hearing h: sleep before the next one, or give up.
Failed(c, h) ==
    /\ heard' = [heard EXCEPT ![c][attempt[c]] = h]
    /\ counters' = Observed(counters)
    /\ last' = [last EXCEPT ![c] = Noted(@, h)]
    /\ IF MayRetry(attempt[c])
       THEN /\ \E j \in Jitter : delay' = [delay EXCEPT ![c] = Backoff(attempt[c], j)]
            /\ pc' = [pc EXCEPT ![c] = "sleeping"]
            /\ outcome' = outcome
       ELSE /\ Return(c, Exhausted(last'[c], MaxAttempts))
            /\ delay' = delay
    /\ UNCHANGED <<target, attempt, client, stopping>>

BadResponse(c) ==
    /\ pc[c] = "posting"
    /\ net[c][attempt[c]] = "delivered"
    /\ \E s \in BadStatus : Failed(c, s)
    /\ net' = net

NoClientTimeout == FALSE  \* variant: AsyncClient(timeout=None)

\* httpx.AsyncClient(timeout=5.0)
ClientTimeout == TRUE

\* No answer in time, whether or not the request arrived, or still will.
Timeout(c) ==
    /\ ClientTimeout
    /\ pc[c] = "posting"
    /\ Failed(c, "timeout")
    /\ net' = net

\* The connection could not be made: the request never left.
ConnectError(c) ==
    /\ pc[c] = "posting"
    /\ net[c][attempt[c]] = "flying"
    /\ Failed(c, "connection_error")
    /\ net' = [net EXCEPT ![c][attempt[c]] = "none"]

\* The connection broke, before or after the request arrived.
HttpError(c) ==
    /\ pc[c] = "posting"
    /\ Failed(c, "http_error")
    /\ net' = net

Wake(c) ==
    /\ pc[c] = "sleeping"
    /\ NextAttempt(c)
    /\ UNCHANGED <<target, last, delay, outcome, client, stopping, heard>>

-----------------------------------------------------------------------------
(* The network, and the shutdown of the process *)

Deliver(c) ==
    /\ \E n \in Attempts :
           /\ net[c][n] = "flying"
           /\ net' = [net EXCEPT ![c][n] = "delivered"]
    /\ UNCHANGED <<target, callVars, client, stopping, counters, heard>>

\* shutdown_relay_dispatcher: no queue, no new job, every worker cancelled.
StopDispatcher ==
    /\ ~stopping
    /\ stopping' = TRUE
    /\ UNCHANGED <<target, callVars, client, counters, net, heard>>

SleepInterruptible(c) == pc[c] = "sleeping"  \* variant: client.post swallows it

\* CancelledError reaches the call at its await, whichever that is.
Interruptible(c) == pc[c] \in Running

Cancel(c) ==
    /\ stopping
    /\ Interruptible(c)
    /\ pc' = [pc EXCEPT ![c] = "cancelled"]
    /\ UNCHANGED <<target, attempt, last, delay, outcome, client, stopping,
                   counters, net, heard>>

WorkersCancelled == stopping  \* variant: without the gather

\* asyncio.gather(*workers) in shutdown_relay_dispatcher.
WorkersDone == stopping /\ \A c \in Calls : pc[c] \notin Running

\* shutdown_http_client, after shutdown_relay_dispatcher returned.
CloseClient ==
    /\ WorkersDone
    /\ client # None
    /\ client' = None
    /\ UNCHANGED <<target, callVars, stopping, counters, net, heard>>

Step(c) ==
    \/ Begin(c) \/ Refuse(c) \/ PassPreflight(c) \/ Raise(c)
    \/ Succeed(c) \/ BadResponse(c) \/ Timeout(c) \/ ConnectError(c) \/ HttpError(c)
    \/ Wake(c)

Next ==
    \/ \E c \in Calls : Step(c) \/ Deliver(c) \/ Cancel(c)
    \/ StopDispatcher
    \/ CloseClient

Spec == Init /\ [][Next]_vars

(***************************************************************************)
(* Timers fire: getaddrinfo answers or fails, the client's timeout and the *)
(* sleep end.  Once the workers are cancelled only that is relied on:      *)
(* CancelledError is delivered, and gather returns.  Nothing is assumed of *)
(* the target, which may never answer; that it does not trickle a response *)
(* for ever is, because the 5 s timeout is per read.                       *)
(***************************************************************************)
Fairness ==
    /\ WF_vars(CloseClient)
    /\ \A c \in Calls :
           /\ WF_vars(Cancel(c))
           /\ WF_vars(~stopping /\ (Refuse(c) \/ PassPreflight(c)))
           /\ WF_vars(~stopping /\ Timeout(c))
           /\ WF_vars(~stopping /\ Wake(c))

FairSpec == Spec /\ Fairness

-----------------------------------------------------------------------------
(* Properties *)

SentAttempts(c) == 1..attempt[c]

\* The attempt in progress is the last one of its call; every earlier attempt
\* failed: relay_event sends nothing more once it has heard a 2xx.
NoSendAfterSuccess ==
    \A c \in Calls : \A n \in SentAttempts(c) :
        heard[c][n] = OkStatus => n = attempt[c] /\ pc[c] = "returned"

Answered(c) == {n \in SentAttempts(c) : heard[c][n] \in BadStatus \cup {OkStatus}}

LastAnswer(c) == IF Answered(c) = {} THEN None ELSE heard[c][Max(Answered(c))]

\* A returned outcome tells the history of the call: attempted and attempts
\* count the POSTs started, success is a 2xx heard last, and a failure reports
\* the error of the last attempt and the status of the last answered one.
OutcomeTellsHistory ==
    \A c \in Calls : outcome[c] # NoResult =>
        LET o == outcome[c] IN
        /\ o.attempts = attempt[c]
        /\ o.attempted <=> attempt[c] > 0
        /\ o.success <=> (o.attempted /\ heard[c][attempt[c]] = OkStatus)
        /\ (o.attempted /\ ~o.success) =>
               /\ o.attempts = MaxAttempts
               /\ o.error = heard[c][attempt[c]]
        /\ o.status = LastAnswer(c)

\* What an outcome says was sent and answered is what the target saw, though a
\* request may still arrive after its call gave up: nothing it does not count
\* reaches the target, and its status was answered to a request that did.
TargetSawIt ==
    \A c \in Calls : outcome[c] # NoResult =>
        LET o == outcome[c] IN
        /\ \A n \in Attempts : net[c][n] # "none" => o.attempted /\ n <= o.attempts
        /\ o.status # None =>
               \E n \in Attempts : net[c][n] = "delivered" /\ heard[c][n] = o.status

Started == {s \in Calls \X Attempts : s[2] <= attempt[s[1]]}

EndedAttempts == {s \in Calls \X Attempts : heard[s[1]][s[2]] # None}

Succeeded == {c \in Calls : outcome[c] # NoResult /\ outcome[c].success}

\* The counters agree with what the calls did: every POST started is counted,
\* every one that ended has a latency, every success is an outcome.
CountersAgree ==
    /\ counters.attempts = Cardinality(Started)
    /\ counters.latencies = Cardinality(EndedAttempts)
    /\ counters.successes = Cardinality(Succeeded)

\* No call is left at an await that needs the client once it is closed.
ClientOutlivesCalls ==
    client = None => \A c \in Calls : pc[c] \notin Running

\* However the jitter falls, a call waits longer before each further attempt.
BackoffGrows ==
    [][\A c \in Calls :
           (pc[c] = "posting" /\ pc'[c] = "sleeping") => delay'[c] > delay[c]]_vars

\* How many more awaits call c can come to.
AwaitsLeft(c) ==
    CASE pc[c] = "idle"      -> 2 * MaxAttempts + 1
      [] pc[c] = "preflight" -> 2 * MaxAttempts
      [] pc[c] = "posting"   -> 2 * (MaxAttempts - attempt[c]) + 1
      [] pc[c] = "sleeping"  -> 2 * (MaxAttempts - attempt[c])
      [] OTHER               -> 0

\* Whatever the network does, a call comes to at most 2 * MaxAttempts awaits:
\* every step it takes, on any branch of the loop, leaves it fewer.
CallWindsDown ==
    [][\A c \in Calls :
           \/ UNCHANGED <<pc[c], attempt[c]>>
           \/ AwaitsLeft(c)' \in 0..(AwaitsLeft(c) - 1)]_vars

Phase == [c \in Calls |-> IF pc[c] \in Running THEN "working"
                          ELSE IF pc[c] \in {"raised", "cancelled"} THEN "ended"
                          ELSE pc[c]]

Sent == [c \in Calls |-> attempt[c] > 0]

Verdict == [c \in Calls |->
              IF outcome[c] = NoResult THEN NoResult
              ELSE [attempted |-> outcome[c].attempted, success |-> outcome[c].success]]

\* relay_event keeps the promise WebhookRelay relies on.
Job == INSTANCE RelayJob WITH phase <- Phase, sent <- Sent, result <- Verdict

JobSpec == Job!Spec

\* Every call that begins ends, even if the target never answers.
CallEnds ==
    \A c \in Calls : pc[c] \in Running ~> pc[c] \in Ended

\* Shutdown ends, even if the target never answers.
ShutdownEnds == stopping ~> client = None

=============================================================================
