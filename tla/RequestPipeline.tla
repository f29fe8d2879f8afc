-------------------------- MODULE RequestPipeline --------------------------
(***************************************************************************)
(* A request on its way through the process: the middleware that gives it  *)
(* an id, the gates of its endpoint, the endpoint, the exception handlers, *)
(* and what it leaves in the table, the metrics, the log and the reply.    *)
(*                                                                         *)
(* The order of the layers is Starlette's: the handler of Exception is     *)
(* outside the middleware, the two other handlers are inside.  An endpoint *)
(* does not suspend after it has the body, so it is one step; requests are *)
(* interleaved before it and after it.  What the relay does of an event is *)
(* in WebhookRelay.                                                        *)
(*                                                                         *)
(* A definition marked `variant` is not the code: it is a bug the code     *)
(* could have, and a property is shown to be broken by it.                 *)
(***************************************************************************)
EXTENDS Integers, Sequences, FiniteSetsExt

CONSTANTS Requests,  \* one name for each request
          Ids,       \* values a client gives X-Request-ID
          None       \* Python's None, a header that is absent, no row

ASSUME RequestAssumption == IsFiniteSet(Requests)

VARIABLES
    at,        \* at[r]: "new", "inside", "answered", "raised" or "replied"
    ask,       \* ask[r]: what is asked
    ctx,       \* ctx[r]: request_id_ctx of the request's task
    status,    \* status[r]: the response's code, once there is one
    error,     \* error[r]: the exception no handler inside the middleware converts
    row,       \* row[r]: request_id column of the row r made, or None
    live,      \* requests whose row is in the table
    reply,     \* reply[r]: status and X-Request-ID the client got
    requests,  \* REQUEST_COUNT, by path label and status
    received,  \* EVENTS_RECEIVED_TOTAL
    log        \* log[r]: the lines app.request and app.error wrote of r

vars == <<at, ask, ctx, status, error, row, live, reply, requests, received, log>>

-----------------------------------------------------------------------------
(* What can be asked, with the settings that decide about it folded in *)

Webhook == [route : {"webhook"}, id : Ids \cup {None}, keyed : BOOLEAN,
            known : BOOLEAN,  \* source is in ALLOWED_SOURCES
            small : BOOLEAN,  \* within MAX_BODY_BYTES
            signature : {"ok", "missing", "bad", "not_ascii"},  \* ok also without a secret
            body : {"object", "other", "malformed", "unreadable"}]

Listing == [route : {"list"}, id : Ids \cup {None},
            query : {"ok", "bad_limit", "bad_cursor"}]

Fetch == [route : {"get"}, id : Ids \cup {None}, event : Requests]

CleanupCall == [route : {"cleanup"}, id : Ids \cup {None},
                token : {"disabled", "missing", "bad", "not_ascii", "ok"},
                retention : BOOLEAN]

Probe == [route : {"health", "ready", "metrics", "unknown"}, id : Ids \cup {None}]

Ask == Webhook \cup Listing \cup Fetch \cup CleanupCall \cup Probe

Exceptions == {"NotAscii", "UnreadableBody", "DatabaseError", "ClientDisconnect"}

\* A gate ends a request it refuses with a code, or with an exception.
Gate(refuses, code) == [refuses |-> refuses, code |-> code, error |-> None]
Throws(exception) == [refuses |-> TRUE, code |-> 500, error |-> exception]

\* hmac.compare_digest raises TypeError for a string that is not ASCII, which a
\* header may be.
SignatureGate(q) == IF q.signature = "not_ascii" THEN Throws("NotAscii")
                    ELSE Gate(q.signature # "ok", 401)

TokenGate(q) == CASE q.token = "disabled"  -> Gate(TRUE, 403)
                  [] q.token = "not_ascii" -> Throws("NotAscii")
                  [] OTHER                 -> Gate(q.token # "ok", 401)

\* A body that is not UTF-8, nested too deep or with too long a number raises
\* an exception that is not a JSONDecodeError: nothing converts it.
BodyGate(q) == IF q.body = "unreadable" THEN Throws("UnreadableBody")
               ELSE Gate(q.body # "object", 422)

GatesReadingFirst(q) ==  \* variant: the body is read before the signature
    <<Gate(~q.known, 404), Gate(~q.small, 413), BodyGate(q), SignatureGate(q)>>

\* create_event up to the capacity check.
WebhookGates(q) ==
    <<Gate(~q.known, 404), Gate(~q.small, 413), SignatureGate(q), BodyGate(q)>>

CleanupGates(q) == <<TokenGate(q), Gate(~q.retention, 400)>>

ListGates(q) == <<Gate(q.query = "bad_limit", 422), Gate(q.query = "bad_cursor", 400)>>

Gates(q) ==
    CASE q.route = "webhook" -> WebhookGates(q)
      [] q.route = "cleanup" -> CleanupGates(q)
      [] q.route = "list"    -> ListGates(q)
      [] q.route = "get"     -> <<Gate(q.event \notin live, 404)>>
      [] q.route = "unknown" -> <<Gate(TRUE, 404)>>
      [] OTHER               -> <<>>

Refusing(q) == {i \in DOMAIN Gates(q) : Gates(q)[i].refuses}

UsesDatabase(q) == q.route \notin {"health", "metrics"}

\* _label_path: the template of the route, or the path itself, any path, when
\* no route matches.
Label(r) == IF ask[r].route = "unknown" THEN r ELSE ask[r].route

Labels == Requests \cup {"webhook", "list", "get", "cleanup", "health", "ready", "metrics"}

Codes == {200, 400, 401, 403, 404, 413, 422, 500}

Reply == [status : Codes, id : Requests \cup Ids \cup {None}]

\* None is no id, no code, no exception and no reply.
ASSUME NoneAssumption ==
    None \notin Requests \cup Ids \cup Codes /\ None \notin Exceptions /\ None \notin Reply

\* The unique constraint, for the one source and key there are here.
KeyTaken(q) == q.keyed /\ \E r \in live : ask[r].keyed

-----------------------------------------------------------------------------
Init ==
    /\ at = [r \in Requests |-> "new"]
    /\ ask = [r \in Requests |-> None]
    /\ ctx = [r \in Requests |-> None]
    /\ status = [r \in Requests |-> None]
    /\ error = [r \in Requests |-> None]
    /\ row = [r \in Requests |-> None]
    /\ live = {}
    /\ reply = [r \in Requests |-> None]
    /\ requests = [c \in Labels \X Codes |-> 0]
    /\ received = 0
    /\ log = [r \in Requests |-> <<>>]

\* The middleware up to call_next; a generated uuid is named after its request.
Arrive(r, q) ==
    /\ at[r] = "new"
    /\ at' = [at EXCEPT ![r] = "inside"]
    /\ ask' = [ask EXCEPT ![r] = q]
    /\ ctx' = [ctx EXCEPT ![r] = IF q.id = None THEN r ELSE q.id]
    /\ UNCHANGED <<status, error, row, live, reply, requests, received, log>>

Respond(r, code) ==
    /\ at' = [at EXCEPT ![r] = "answered"]
    /\ status' = [status EXCEPT ![r] = code]
    /\ error' = error

Raise(r, exception) ==
    /\ at' = [at EXCEPT ![r] = "raised"]
    /\ error' = [error EXCEPT ![r] = exception]
    /\ status' = status

\* The first gate that refuses decides.
Refuse(r) ==
    /\ at[r] = "inside"
    /\ Refusing(ask[r]) # {}
    /\ LET gate == Gates(ask[r])[Min(Refusing(ask[r]))] IN
           IF gate.error = None THEN Respond(r, gate.code) ELSE Raise(r, gate.error)
    /\ UNCHANGED <<ask, ctx, row, live, reply, requests, received, log>>

Admitted(r) == at[r] = "inside" /\ Refusing(ask[r]) = {}

RequestIdShared(r) ==  \* variant: a module variable for a ContextVar
    ctx[CHOOSE q \in Requests : at[q] # "new"]

\* request_id_ctx.get(), in the endpoint and in the filter of the log.
RequestId(r) == ctx[r]

Logged(r, line) == log' = [log EXCEPT ![r] = Append(@, [line |-> line, id |-> RequestId(r)])]

Stored(r) ==
    /\ row' = [row EXCEPT ![r] = RequestId(r)]
    /\ live' = live \cup {r}

Create(r) ==
    /\ Admitted(r) /\ ask[r].route = "webhook"
    /\ ~KeyTaken(ask[r])
    /\ Stored(r)
    /\ received' = received + 1
    /\ Respond(r, 200)
    /\ UNCHANGED <<ask, ctx, reply, requests, log>>

ReplayCounted(r) ==  \* variant: the counter is bumped on the replay path too
    /\ Admitted(r) /\ ask[r].route = "webhook"
    /\ KeyTaken(ask[r])
    /\ received' = received + 1
    /\ Respond(r, 200)
    /\ UNCHANGED <<ask, ctx, row, live, reply, requests, log>>

Replay(r) ==
    /\ Admitted(r) /\ ask[r].route = "webhook"
    /\ KeyTaken(ask[r])
    /\ Respond(r, 200)
    /\ UNCHANGED <<ask, ctx, row, live, reply, requests, received, log>>

\* list_events, get_event, health, ready and metrics.
Read(r) ==
    /\ Admitted(r) /\ ask[r].route \notin {"webhook", "cleanup"}
    /\ Respond(r, 200)
    /\ UNCHANGED <<ask, ctx, row, live, reply, requests, received, log>>

Cleanup(r) ==
    /\ Admitted(r) /\ ask[r].route = "cleanup"
    /\ \E old \in SUBSET live : live' = live \ old
    /\ Respond(r, 200)
    /\ UNCHANGED <<ask, ctx, row, reply, requests, received, log>>

\* The database raises; the commit of an INSERT may have taken effect.
DatabaseError(r) ==
    /\ Admitted(r) \/ (at[r] = "inside" /\ ask[r].route = "get")
    /\ UsesDatabase(ask[r])
    /\ Raise(r, "DatabaseError")
    /\ \/ UNCHANGED <<row, live>>
       \/ ask[r].route = "webhook" /\ ~KeyTaken(ask[r]) /\ Stored(r)
    /\ UNCHANGED <<ask, ctx, reply, requests, received, log>>

\* The client goes away before the body of its webhook is there.
Disconnect(r) ==
    /\ at[r] = "inside"
    /\ ask[r].route = "webhook" /\ ask[r].known
    /\ Raise(r, "ClientDisconnect")
    /\ UNCHANGED <<ask, ctx, row, live, reply, requests, received, log>>

FinishUnlessError(r) ==  \* variant: only what succeeded is counted
    /\ at[r] = "answered"
    /\ at' = [at EXCEPT ![r] = "replied"]
    /\ requests' = IF status[r] < 400
                   THEN [requests EXCEPT ![<<Label(r), status[r]>>] = @ + 1] ELSE requests
    /\ Logged(r, "request")
    /\ reply' = [reply EXCEPT ![r] = [status |-> status[r], id |-> ctx[r]]]
    /\ UNCHANGED <<ask, ctx, status, error, row, live, received>>

\* The middleware after call_next.
Finish(r) ==
    /\ at[r] = "answered"
    /\ at' = [at EXCEPT ![r] = "replied"]
    /\ requests' = [requests EXCEPT ![<<Label(r), status[r]>>] = @ + 1]
    /\ Logged(r, "request")
    /\ reply' = [reply EXCEPT ![r] = [status |-> status[r], id |-> ctx[r]]]
    /\ UNCHANGED <<ask, ctx, status, error, row, live, received>>

\* unhandled_exception_handler, after the exception left the middleware.
ServerError(r) ==
    /\ at[r] = "raised"
    /\ at' = [at EXCEPT ![r] = "replied"]
    /\ Logged(r, "unhandled_exception")
    /\ reply' = [reply EXCEPT ![r] = [status |-> 500, id |-> None]]
    /\ UNCHANGED <<ask, ctx, status, error, row, live, requests, received>>

Next ==
    \E r \in Requests :
        \/ \E q \in Ask : Arrive(r, q)
        \/ Refuse(r)
        \/ Create(r) \/ Replay(r) \/ Read(r) \/ Cleanup(r) \/ DatabaseError(r)
        \/ Disconnect(r) \/ Finish(r) \/ ServerError(r)

Spec == Init /\ [][Next]_vars

-----------------------------------------------------------------------------
(* Properties *)

IdOf(r) == IF ask[r].id = None THEN r ELSE ask[r].id

\* However requests overlap, the id a client is told is the one its row has and
\* the one on every line of the log about it.
OneIdPerRequest ==
    \A r \in Requests :
        /\ row[r] # None => row[r] = IdOf(r)
        /\ (reply[r] # None /\ reply[r].id # None) => reply[r].id = IdOf(r)
        /\ \A i \in DOMAIN log[r] : log[r][i].id = IdOf(r)

\* Webhooks that were answered or raised, but for a client that went away.
Decided ==
    {r \in Requests : /\ ask[r] # None /\ ask[r].route = "webhook"
                      /\ status[r] # None \/ error[r] # None
                      /\ error[r] # "ClientDisconnect"}

Trusted(q) == q.known /\ q.small /\ q.signature = "ok"

\* The source is checked before the size and the size before the signature, and
\* nothing about a body shows until all three are accepted: it makes no row, and
\* webhooks that differ in anything else, their bodies included, end alike, in
\* the same status or the same exception.
GatesGuard ==
    /\ \A r \in Decided :
           LET q == ask[r] IN
           /\ (status[r] = 404) <=> ~q.known
           /\ (status[r] = 413) <=> q.known /\ ~q.small
           /\ (status[r] = 401 \/ error[r] = "NotAscii")
                  <=> q.known /\ q.small /\ q.signature # "ok"
           /\ row[r] # None => Trusted(q)
    /\ \A r, s \in Decided :
           /\ ~Trusted(ask[r])
           /\ ask[r].known = ask[s].known /\ ask[r].small = ask[s].small
           /\ ask[r].signature = ask[s].signature
           => status[r] = status[s] /\ error[r] = error[s]

\* A refused request leaves no row, an accepted one is counted as received
\* exactly when it made a row; a row its client was not told of comes with a 500.
RowsAreAnswered ==
    /\ \A r \in Requests : row[r] # None =>
           status[r] = 200 \/ at[r] = "raised" \/ (reply[r] # None /\ reply[r].status = 500)
    /\ received = Cardinality({r \in Requests : row[r] # None /\ status[r] = 200})

Replied(label, code) ==
    {r \in Requests : /\ reply[r] # None /\ reply[r].status = code /\ reply[r].id # None
                      /\ Label(r) = label}

\* The request counter of each path and status counts exactly the replies that
\* carry X-Request-ID, and these are the ones with a line in the request log; a
\* reply has one log line.
CountersTellReplies ==
    /\ \A r \in Requests : reply[r] # None =>
           /\ Len(log[r]) = 1
           /\ log[r][1].line = IF reply[r].id # None THEN "request" ELSE "unhandled_exception"
    /\ \A label \in Labels, code \in Codes :
           requests[<<label, code>>] = Cardinality(Replied(label, code))

\* The docstring of the module: metrics emission and logging for every request.
EveryRequestIsCounted ==
    \A label \in Labels, code \in Codes :
        requests[<<label, code>>] =
            Cardinality({r \in Requests : /\ at[r] = "replied" /\ Label(r) = label
                                          /\ reply[r].status = code})

=============================================================================
