----------------------- MODULE RequestPipelineProofs -----------------------
(***************************************************************************)
(* Proofs about RequestPipeline, for any number of overlapping requests.   *)
(***************************************************************************)
EXTENDS RequestPipeline, FiniteSetTheorems, TLAPS

USE NoneAssumption

LogLine == [line : {"request", "unhandled_exception"}, id : Requests \cup Ids \cup {None}]

PipeTypes ==
    /\ at \in [Requests -> {"new", "inside", "answered", "raised", "replied"}]
    /\ ask \in [Requests -> Ask \cup {None}]
    /\ ctx \in [Requests -> Requests \cup Ids \cup {None}]
    /\ status \in [Requests -> Codes \cup {None}]
    /\ error \in [Requests -> Exceptions \cup {None}]
    /\ row \in [Requests -> Requests \cup Ids \cup {None}]
    /\ reply \in [Requests -> Reply \cup {None}]
    /\ log \in [Requests -> Seq(LogLine)]
    /\ requests \in [Labels \X Codes -> Nat]
    /\ received \in Nat

\* How a webhook ends: by the first of its source, its size and its signature that
\* is not accepted, whatever its body.
Ends(q, code, exception) ==
    /\ ~q.known => code = 404 /\ exception = None
    /\ q.known /\ ~q.small => code = 413 /\ exception = None
    /\ q.known /\ q.small /\ q.signature \in {"missing", "bad"} =>
           code = 401 /\ exception = None
    /\ q.known /\ q.small /\ q.signature = "not_ascii" =>
           code = None /\ exception = "NotAscii"
    /\ Trusted(q) => code \notin {404, 413, 401} /\ exception # "NotAscii"

\* What the gates allow a webhook that ended.
Guarded(r) == r \in Decided => Ends(ask[r], status[r], error[r])

\* Everything that is true of one request, by where it is.
RequestOK(r) ==
    /\ at[r] # "new" => ask[r] \in Ask /\ ctx[r] = IdOf(r) /\ Guarded(r)
    /\ at[r] \in {"new", "inside"} => row[r] = None /\ status[r] = None /\ error[r] = None
    /\ at[r] # "replied" => reply[r] = None /\ log[r] = <<>>
    /\ at[r] = "raised" => status[r] = None /\ error[r] \in Exceptions
    /\ at[r] = "answered" => status[r] \in Codes /\ error[r] = None
                             /\ (row[r] # None => status[r] = 200)
    /\ at[r] = "replied" =>
           /\ reply[r] \in Reply
           /\ reply[r].id = None => /\ status[r] = None /\ reply[r].status = 500
                                    /\ log[r] = <<[line |-> "unhandled_exception", id |-> IdOf(r)]>>
           /\ reply[r].id # None => /\ reply[r] = [status |-> status[r], id |-> IdOf(r)]
                                    /\ row[r] # None => status[r] = 200
                                    /\ log[r] = <<[line |-> "request", id |-> IdOf(r)]>>
    /\ row[r] # None => /\ row[r] = IdOf(r)
                        /\ ask[r].route = "webhook" /\ Trusted(ask[r])

\* The requests EVENTS_RECEIVED_TOTAL counts.
Told == {r \in Requests : row[r] # None /\ status[r] = 200}

PipeInv ==
    /\ PipeTypes
    /\ \A r \in Requests : RequestOK(r)
    /\ received = Cardinality(Told)
    /\ \A label \in Labels, code \in Codes :
           requests[<<label, code>>] = Cardinality(Replied(label, code))

-----------------------------------------------------------------------------
(* Gates *)

\* A set of gates that refuse has a first one.
LEMMA FirstGate ==
    ASSUME NEW S \in SUBSET (1..4), S # {}
    PROVE  Min(S) \in S /\ \A j \in S : Min(S) <= j
<1>1. \E i \in S : \A j \in S : i <= j
  <2>1. CASE 1 \in S BY <2>1
  <2>2. CASE 1 \notin S /\ 2 \in S BY <2>2
  <2>3. CASE 1 \notin S /\ 2 \notin S /\ 3 \in S BY <2>3
  <2>4. CASE 1 \notin S /\ 2 \notin S /\ 3 \notin S /\ 4 \in S BY <2>4
  <2>5. 1 \in S \/ 2 \in S \/ 3 \in S \/ 4 \in S
    <3>1. PICK x \in 1..4 : x \in S
      OBVIOUS
    <3>2. x = 1 \/ x = 2 \/ x = 3 \/ x = 4
      BY <3>1
    <3> QED BY <3>1, <3>2
  <2> QED BY <2>1, <2>2, <2>3, <2>4, <2>5
<1> QED BY <1>1 DEF Min

\* Each gate of a webhook refuses exactly what it is for.
LEMMA WebhookGateFacts ==
    ASSUME NEW q \in Webhook
    PROVE  /\ DOMAIN WebhookGates(q) = 1..4
           /\ WebhookGates(q)[1].refuses <=> ~q.known
           /\ WebhookGates(q)[2].refuses <=> ~q.small
           /\ WebhookGates(q)[3].refuses <=> q.signature # "ok"
<1>1. /\ DOMAIN WebhookGates(q) = 1..4
      /\ WebhookGates(q)[1] = Gate(~q.known, 404)
      /\ WebhookGates(q)[2] = Gate(~q.small, 413)
      /\ WebhookGates(q)[3] = SignatureGate(q)
  BY DEF WebhookGates
<1>2. q.known \in BOOLEAN /\ q.small \in BOOLEAN
  BY DEF Webhook
<1>3. Gate(~q.known, 404).refuses <=> ~q.known
  BY <1>2, Zenon DEF Gate
<1>4. Gate(~q.small, 413).refuses <=> ~q.small
  BY <1>2, Zenon DEF Gate
<1>5. SignatureGate(q).refuses <=> q.signature # "ok"
  <2>1. CASE q.signature = "not_ascii"
    <3>1. SignatureGate(q).refuses = TRUE
      BY <2>1 DEF SignatureGate, Throws
    <3> QED BY <2>1, <3>1
  <2>2. CASE q.signature # "not_ascii"
    <3>1. SignatureGate(q) = Gate(q.signature # "ok", 401)
      BY <2>2 DEF SignatureGate
    <3>2. Gate(q.signature # "ok", 401).refuses <=> q.signature # "ok"
      BY Zenon DEF Gate
    <3> QED BY <3>1, <3>2, Zenon
  <2> QED BY <2>1, <2>2
<1>6. WebhookGates(q)[1].refuses <=> ~q.known
  BY <1>1, <1>3, Zenon
<1>7. WebhookGates(q)[2].refuses <=> ~q.small
  BY <1>1, <1>4, Zenon
<1>8. WebhookGates(q)[3].refuses <=> q.signature # "ok"
  BY <1>1, <1>5, Zenon
<1> QED BY <1>1, <1>6, <1>7, <1>8, Zenon

\* The code and the exception of each gate.
LEMMA GateEnds ==
    ASSUME NEW q \in Webhook
    PROVE  /\ WebhookGates(q)[1].code = 404 /\ WebhookGates(q)[1].error = None
           /\ WebhookGates(q)[2].code = 413 /\ WebhookGates(q)[2].error = None
           /\ q.signature # "not_ascii" =>
                  WebhookGates(q)[3].code = 401 /\ WebhookGates(q)[3].error = None
           /\ q.signature = "not_ascii" =>
                  WebhookGates(q)[3].code = 500 /\ WebhookGates(q)[3].error = "NotAscii"
           /\ \/ WebhookGates(q)[4].code = 422 /\ WebhookGates(q)[4].error = None
              \/ WebhookGates(q)[4].code = 500 /\ WebhookGates(q)[4].error = "UnreadableBody"
BY DEF WebhookGates, SignatureGate, BodyGate, Gate, Throws

\* The first refusing gate of a webhook decides how it ends.
LEMMA WebhookRefusal ==
    ASSUME NEW q \in Webhook, Refusing(q) # {}
    PROVE  LET gate == Gates(q)[Min(Refusing(q))] IN
           /\ gate.code \in Codes /\ gate.error \in Exceptions \cup {None}
           /\ gate.error = None => Ends(q, gate.code, None)
           /\ gate.error # None => Ends(q, None, gate.error)
<1> DEFINE S == Refusing(q)
           i == Min(S)
           gate == Gates(q)[i]
<1>1. /\ q.route = "webhook" /\ q.known \in BOOLEAN /\ q.small \in BOOLEAN
      /\ q.signature \in {"ok", "missing", "bad", "not_ascii"}
  BY DEF Webhook
<1>2. Gates(q) = WebhookGates(q)
  BY <1>1 DEF Gates
<1>3. /\ S \in SUBSET (1..4)
      /\ 1 \in S <=> ~q.known
      /\ 2 \in S <=> ~q.small
      /\ 3 \in S <=> q.signature # "ok"
  <2>1. DOMAIN Gates(q) = 1..4
    BY <1>2, WebhookGateFacts
  <2>2. \A j \in 1..4 : j \in S <=> Gates(q)[j].refuses
    BY <2>1 DEF Refusing
  <2>3. /\ Gates(q)[1].refuses <=> ~q.known
        /\ Gates(q)[2].refuses <=> ~q.small
        /\ Gates(q)[3].refuses <=> q.signature # "ok"
    BY <1>2, WebhookGateFacts, Zenon
  <2>4. S \in SUBSET (1..4)
    BY <2>1 DEF Refusing
  <2> HIDE DEF S
  <2> QED BY <2>2, <2>3, <2>4
<1>4. i \in S /\ \A j \in S : i <= j
  BY <1>3, FirstGate
<1>5. None \notin {404, 413, 401} /\ None # "NotAscii" /\ None # "UnreadableBody"
  BY DEF Codes, Exceptions
<1> HIDE DEF S, i
<1>6. i \in 1..4
  BY <1>3, <1>4
<1>7. /\ gate.code \in Codes /\ gate.error \in Exceptions \cup {None}
      /\ gate.error = None => Ends(q, gate.code, None)
      /\ gate.error # None => Ends(q, None, gate.error)
  <2>1. CASE i = 1
    <3>1. ~q.known /\ gate.code = 404 /\ gate.error = None
      BY <1>2, <1>3, <1>4, <2>1, GateEnds
    <3> QED BY <3>1 DEF Ends, Codes, Trusted
  <2>2. CASE i = 2
    <3>1. q.known /\ ~q.small /\ gate.code = 413 /\ gate.error = None
      BY <1>1, <1>2, <1>3, <1>4, <2>2, GateEnds
    <3> QED BY <3>1 DEF Ends, Codes, Trusted
  <2>3. CASE i = 3
    <3>1. q.known /\ q.small /\ q.signature # "ok"
      BY <1>1, <1>3, <1>4, <2>3
    <3>2. CASE q.signature = "not_ascii"
      <4>1. gate.code = 500 /\ gate.error = "NotAscii"
        BY <1>2, <2>3, <3>2, GateEnds
      <4> QED BY <1>5, <3>1, <3>2, <4>1 DEF Ends, Codes, Exceptions, Trusted
    <3>3. CASE q.signature # "not_ascii"
      <4>1. gate.code = 401 /\ gate.error = None
        BY <1>2, <2>3, <3>3, GateEnds
      <4> QED BY <3>1, <3>3, <4>1 DEF Ends, Codes, Trusted
    <3> QED BY <3>2, <3>3
  <2>4. CASE i = 4
    <3>1. q.known /\ q.small /\ q.signature = "ok"
      BY <1>1, <1>3, <1>4, <2>4
    <3>2. \/ gate.code = 422 /\ gate.error = None
          \/ gate.code = 500 /\ gate.error = "UnreadableBody"
      BY <1>2, <2>4, GateEnds
    <3> HIDE DEF gate
    <3> QED BY <1>5, <3>1, <3>2 DEF Ends, Codes, Exceptions
  <2>5. i = 1 \/ i = 2 \/ i = 3 \/ i = 4
    BY <1>6
  <2> QED BY <2>1, <2>2, <2>3, <2>4, <2>5
<1> QED BY <1>7 DEF S, i

\* Whatever is asked, a refusal has one of the codes, and at most an exception.
LEMMA RefusalCode ==
    ASSUME NEW q \in Ask, Refusing(q) # {}
    PROVE  LET gate == Gates(q)[Min(Refusing(q))] IN
           gate.code \in Codes /\ gate.error \in Exceptions \cup {None}
<1>1. CASE q.route = "webhook"
  <2>1. q \in Webhook
    BY <1>1 DEF Ask, Listing, Fetch, CleanupCall, Probe
  <2> QED BY <2>1, WebhookRefusal
<1>2. CASE q.route # "webhook"
  <2>1. /\ DOMAIN Gates(q) \subseteq 1..4
        /\ \A i \in DOMAIN Gates(q) :
               Gates(q)[i].code \in Codes /\ Gates(q)[i].error \in Exceptions \cup {None}
    <3>1. CASE q.route = "cleanup"
      BY <3>1 DEF Gates, CleanupGates, TokenGate, Gate, Throws, Codes, Exceptions
    <3>2. CASE q.route = "list"
      BY <3>2 DEF Gates, ListGates, Gate, Codes
    <3>3. CASE q.route = "get"
      BY <3>3 DEF Gates, Gate, Codes
    <3>4. CASE q.route = "unknown"
      BY <3>4 DEF Gates, Gate, Codes
    <3>5. CASE q.route \in {"health", "ready", "metrics"}
      BY <3>5 DEF Gates
    <3>6. q.route \in {"cleanup", "list", "get", "health", "ready", "metrics", "unknown"}
      BY <1>2 DEF Ask, Webhook, Listing, Fetch, CleanupCall, Probe
    <3> QED BY <3>1, <3>2, <3>3, <3>4, <3>5, <3>6
  <2>2. Refusing(q) \in SUBSET (1..4) /\ Refusing(q) \subseteq DOMAIN Gates(q)
    BY <2>1 DEF Refusing
  <2>3. Min(Refusing(q)) \in Refusing(q)
    BY <2>2, FirstGate
  <2> QED BY <2>1, <2>2, <2>3
<1> QED BY <1>1, <1>2


-----------------------------------------------------------------------------
(* Steps *)

\* What a step of r leaves alone of another request q.
Same(q) ==
    /\ at'[q] = at[q] /\ ask'[q] = ask[q] /\ ctx'[q] = ctx[q]
    /\ status'[q] = status[q] /\ error'[q] = error[q] /\ row'[q] = row[q]
    /\ reply'[q] = reply[q] /\ log'[q] = log[q]

LEMMA SameOK ==
    ASSUME NEW q \in Requests, Same(q), RequestOK(q)
    PROVE  RequestOK(q)'
<1>1. (Guarded(q))' <=> Guarded(q)
  BY DEF Same, Guarded, Decided
<1> QED BY <1>1 DEF Same, RequestOK, IdOf

\* What the endpoint and its gates can do, seen from the rows and counters.
AnswerOnly(r) ==
    /\ at' = [at EXCEPT ![r] = "answered"]
    /\ \E code \in Codes : status' = [status EXCEPT ![r] = code]
    /\ error' = error /\ row' = row /\ received' = received

RaiseOnly(r) ==
    /\ at' = [at EXCEPT ![r] = "raised"] /\ status' = status
    /\ \E e \in Exceptions : error' = [error EXCEPT ![r] = e]
    /\ row' = row /\ received' = received

Store(r) ==
    /\ row' = [row EXCEPT ![r] = ctx[r]]
    /\ ask[r].route = "webhook" /\ Trusted(ask[r])

AnswerStored(r) ==
    /\ at' = [at EXCEPT ![r] = "answered"]
    /\ status' = [status EXCEPT ![r] = 200]
    /\ error' = error /\ Store(r) /\ received' = received + 1

RaiseStored(r) ==
    /\ at' = [at EXCEPT ![r] = "raised"] /\ status' = status
    /\ \E e \in Exceptions : error' = [error EXCEPT ![r] = e]
    /\ Store(r) /\ received' = received

Endpoint(r) ==
    \/ Refuse(r) \/ Create(r) \/ Replay(r) \/ Read(r) \/ Cleanup(r)
    \/ DatabaseError(r) \/ Disconnect(r)

\* An admitted webhook passed every gate.
LEMMA AdmittedFacts ==
    ASSUME NEW r \in Requests, ask[r] \in Ask, Admitted(r), ask[r].route = "webhook"
    PROVE  Trusted(ask[r])
<1>1. ask[r] \in Webhook
  BY DEF Ask, Listing, Fetch, CleanupCall, Probe
<1>2. Gates(ask[r]) = WebhookGates(ask[r])
  BY DEF Gates
<1>3. /\ DOMAIN Gates(ask[r]) = 1..4
      /\ Gates(ask[r])[1].refuses <=> ~ask[r].known
      /\ Gates(ask[r])[2].refuses <=> ~ask[r].small
      /\ Gates(ask[r])[3].refuses <=> ask[r].signature # "ok"
  BY <1>1, <1>2, WebhookGateFacts, Zenon
<1>4. \A i \in 1..4 : ~Gates(ask[r])[i].refuses
  BY <1>3 DEF Admitted, Refusing
<1>5. 1 \in 1..4 /\ 2 \in 1..4 /\ 3 \in 1..4
  OBVIOUS
<1>6. ask[r].known \in BOOLEAN /\ ask[r].small \in BOOLEAN
  BY <1>1 DEF Webhook
<1> QED BY <1>3, <1>4, <1>5, <1>6, Zenon DEF Trusted

\* A webhook that gets past its gates is answered 200, or ends in an exception
\* that is not about its signature.
LEMMA TrustedEnds ==
    ASSUME NEW q, Trusted(q)
    PROVE  Ends(q, 200, None) /\ Ends(q, None, "DatabaseError")
<1>1. None \notin {404, 413, 401} /\ None # "NotAscii"
  BY DEF Codes, Exceptions
<1> QED BY <1>1 DEF Trusted, Ends

\* The endpoint answers or raises, and at most stores the row of an admitted
\* webhook; how a webhook ends respects the order of its gates.
LEMMA EndpointFacts ==
    ASSUME PipeTypes, NEW r \in Requests, RequestOK(r), Endpoint(r)
    PROVE  /\ at[r] = "inside" /\ UNCHANGED <<ask, ctx, reply, requests, log>>
           /\ AnswerOnly(r) \/ RaiseOnly(r) \/ AnswerStored(r) \/ RaiseStored(r)
           /\ Guarded(r)'
<1>1. /\ at[r] = "inside" /\ UNCHANGED <<ask, ctx, reply, requests, log>>
      /\ ask[r] \in Ask /\ status[r] = None /\ error[r] = None
  BY DEF Endpoint, Refuse, Create, Replay, Read, Cleanup, DatabaseError, Disconnect,
         Admitted, RequestOK
<1>2. ASSUME NEW code, Respond(r, code),
             ask[r].route = "webhook" => Ends(ask[r], code, None)
      PROVE  Guarded(r)'
  <2>1. status'[r] = code /\ error'[r] = None /\ ask'[r] = ask[r]
    BY <1>1, <1>2 DEF Respond, PipeTypes
  <2> QED BY <1>2, <2>1 DEF Guarded, Decided
<1>3. ASSUME NEW e \in Exceptions, Raise(r, e),
             ask[r].route = "webhook" /\ e # "ClientDisconnect" => Ends(ask[r], None, e)
      PROVE  Guarded(r)'
  <2>1. status'[r] = None /\ error'[r] = e /\ ask'[r] = ask[r]
    BY <1>1, <1>3 DEF Raise, PipeTypes
  <2> QED BY <1>3, <2>1 DEF Guarded, Decided
<1>4. "DatabaseError" \in Exceptions /\ "ClientDisconnect" \in Exceptions
  BY DEF Exceptions
<1>5. CASE Refuse(r)
  <2> DEFINE gate == Gates(ask[r])[Min(Refusing(ask[r]))]
  <2>1. gate.code \in Codes /\ gate.error \in Exceptions \cup {None}
    BY <1>1, <1>5, RefusalCode DEF Refuse
  <2>2. /\ ask[r].route = "webhook" /\ gate.error = None => Ends(ask[r], gate.code, None)
        /\ ask[r].route = "webhook" /\ gate.error # None => Ends(ask[r], None, gate.error)
    <3>1. SUFFICES ASSUME ask[r].route = "webhook"
                   PROVE  /\ gate.error = None => Ends(ask[r], gate.code, None)
                          /\ gate.error # None => Ends(ask[r], None, gate.error)
      OBVIOUS
    <3>2. ask[r] \in Webhook
      BY <1>1, <3>1 DEF Ask, Listing, Fetch, CleanupCall, Probe
    <3>3. Refusing(ask[r]) # {}
      BY <1>5 DEF Refuse
    <3> QED BY <3>2, <3>3, WebhookRefusal
  <2>3. /\ row' = row /\ received' = received
        /\ IF gate.error = None THEN Respond(r, gate.code) ELSE Raise(r, gate.error)
    BY <1>5 DEF Refuse
  <2> HIDE DEF gate
  <2>4. CASE gate.error = None
    <3>1. Respond(r, gate.code)
      BY <2>3, <2>4
    <3>2. Guarded(r)'
      BY <1>2, <2>2, <2>4, <3>1
    <3> QED BY <1>1, <2>1, <2>3, <3>1, <3>2 DEF Respond, AnswerOnly
  <2>5. CASE gate.error # None
    <3>1. Raise(r, gate.error) /\ gate.error \in Exceptions
      BY <2>1, <2>3, <2>5
    <3>2. Guarded(r)'
      BY <1>3, <2>2, <2>5, <3>1
    <3> QED BY <1>1, <2>3, <3>1, <3>2 DEF Raise, RaiseOnly
  <2> QED BY <2>4, <2>5
<1>6. CASE Create(r)
  <2>1. Trusted(ask[r])
    BY <1>1, <1>6, AdmittedFacts DEF Create
  <2>2. AnswerStored(r)
    BY <1>1, <1>6, <2>1 DEF Create, Respond, Stored, RequestId, AnswerStored, Store
  <2>3. Guarded(r)'
    BY <1>2, <1>6, <2>1, TrustedEnds DEF Create
  <2> QED BY <1>1, <2>2, <2>3
<1>7. CASE Replay(r) \/ Read(r) \/ Cleanup(r)
  <2>1. Admitted(r) /\ Respond(r, 200)
    BY <1>7 DEF Replay, Read, Cleanup
  <2>2. AnswerOnly(r)
    BY <1>7 DEF Replay, Read, Cleanup, Respond, AnswerOnly, Codes
  <2>3. Guarded(r)'
    BY <1>1, <1>2, <2>1, AdmittedFacts, TrustedEnds
  <2> QED BY <1>1, <2>2, <2>3
<1>8. CASE DatabaseError(r)
  <2>1. Raise(r, "DatabaseError") /\ (ask[r].route = "webhook" => Admitted(r))
    BY <1>8 DEF DatabaseError
  <2>2. RaiseOnly(r) \/ RaiseStored(r)
    <3>1. CASE UNCHANGED <<row, live>>
      BY <1>4, <1>8, <2>1, <3>1 DEF DatabaseError, Raise, RaiseOnly
    <3>2. CASE ask[r].route = "webhook" /\ ~KeyTaken(ask[r]) /\ Stored(r)
      BY <1>1, <1>4, <1>8, <2>1, <3>2, AdmittedFacts
         DEF DatabaseError, Raise, Stored, RequestId, RaiseStored, Store
    <3> QED BY <1>8, <3>1, <3>2 DEF DatabaseError
  <2>3. Guarded(r)'
    BY <1>1, <1>3, <1>4, <2>1, AdmittedFacts, TrustedEnds
  <2> QED BY <1>1, <2>2, <2>3
<1>9. CASE Disconnect(r)
  <2>1. Raise(r, "ClientDisconnect")
    BY <1>9 DEF Disconnect
  <2>2. RaiseOnly(r)
    BY <1>4, <1>9, <2>1 DEF Disconnect, Raise, RaiseOnly
  <2>3. Guarded(r)'
    BY <1>3, <1>4, <2>1
  <2> QED BY <1>1, <2>2, <2>3
<1> QED BY <1>5, <1>6, <1>7, <1>8, <1>9 DEF Endpoint


-----------------------------------------------------------------------------
(* Counting *)

\* A set of requests that gains one member gains one in size.
LEMMA OneMore ==
    ASSUME NEW S \in SUBSET Requests, NEW r \in Requests, r \notin S
    PROVE  Cardinality(S \cup {r}) = Cardinality(S) + 1 /\ Cardinality(S) \in Nat
<1>1. IsFiniteSet(S)
  BY RequestAssumption, FS_Subset
<1> QED BY <1>1, FS_AddElement, FS_CardinalityType

\* The counters are right as long as the two sets they count are unchanged.
LEMMA PipeFrame ==
    ASSUME PipeInv, PipeTypes', NEW r \in Requests, RequestOK(r)',
           \A q \in Requests : q # r => Same(q),
           received' = Cardinality(Told'),
           \A label \in Labels, code \in Codes :
               requests'[<<label, code>>] = Cardinality(Replied(label, code)')
    PROVE  PipeInv'
<1>1. \A q \in Requests : RequestOK(q)'
  BY SameOK DEF PipeInv
<1> QED BY <1>1 DEF PipeInv

LEMMA EndpointStep ==
    ASSUME PipeInv, NEW r \in Requests, Endpoint(r)
    PROVE  PipeInv'
<1>1. PipeTypes /\ RequestOK(r) /\ received = Cardinality(Told)
  BY DEF PipeInv
<1>2. /\ at[r] = "inside" /\ UNCHANGED <<ask, ctx, reply, requests, log>>
      /\ AnswerOnly(r) \/ RaiseOnly(r) \/ AnswerStored(r) \/ RaiseStored(r)
      /\ Guarded(r)'
  BY <1>1, EndpointFacts
<1>3. /\ ask[r] \in Ask /\ ctx[r] = IdOf(r) /\ row[r] = None /\ status[r] = None
      /\ error[r] = None /\ reply[r] = None /\ log[r] = <<>>
      /\ ctx[r] # None
  <2>1. ask[r] \in Ask /\ ctx[r] = IdOf(r) /\ row[r] = None /\ status[r] = None
        /\ error[r] = None /\ reply[r] = None /\ log[r] = <<>>
    BY <1>1, <1>2 DEF RequestOK
  <2>2. IdOf(r) # None
    BY DEF IdOf
  <2> QED BY <2>1, <2>2
<1>4. 200 \in Codes
  BY DEF Codes
<1>5. /\ at' \in [Requests -> {"new", "inside", "answered", "raised", "replied"}]
      /\ status' \in [Requests -> Codes \cup {None}]
      /\ error' \in [Requests -> Exceptions \cup {None}]
      /\ row' \in [Requests -> Requests \cup Ids \cup {None}]
      /\ received' \in Nat
      /\ \A q \in Requests : q # r =>
             /\ at'[q] = at[q] /\ status'[q] = status[q]
             /\ error'[q] = error[q] /\ row'[q] = row[q]
  <2>1. CASE AnswerOnly(r)
    BY <1>1, <2>1 DEF PipeTypes, AnswerOnly
  <2>2. CASE RaiseOnly(r)
    BY <1>1, <2>2 DEF PipeTypes, RaiseOnly
  <2>3. CASE AnswerStored(r)
    BY <1>1, <1>4, <2>3 DEF PipeTypes, AnswerStored, Store
  <2>4. CASE RaiseStored(r)
    BY <1>1, <2>4 DEF PipeTypes, RaiseStored, Store
  <2> QED BY <1>2, <2>1, <2>2, <2>3, <2>4
<1>6. PipeTypes'
  BY <1>1, <1>2, <1>5 DEF PipeTypes
<1>7. \A q \in Requests : q # r => Same(q)
  BY <1>2, <1>5 DEF Same
<1>8. \A label, code : Replied(label, code)' = Replied(label, code)
  BY <1>2 DEF Replied, Label
<1>9. \A label \in Labels, code \in Codes :
          requests'[<<label, code>>] = Cardinality(Replied(label, code)')
  BY <1>2, <1>8 DEF PipeInv
<1>10. RequestOK(r)' /\ received' = Cardinality(Told')
  <2>1. CASE AnswerOnly(r)
    <3>1. /\ at'[r] = "answered" /\ status'[r] \in Codes
          /\ error'[r] = None /\ row'[r] = None
      BY <1>1, <1>3, <2>1 DEF AnswerOnly, PipeTypes
    <3>2. RequestOK(r)'
      BY <1>2, <1>3, <3>1 DEF RequestOK, IdOf
    <3>3. Told' = Told
      BY <1>3, <1>5, <3>1 DEF Told
    <3> QED BY <1>1, <2>1, <3>2, <3>3 DEF AnswerOnly
  <2>2. CASE RaiseOnly(r)
    <3>1. /\ at'[r] = "raised" /\ status'[r] = None
          /\ error'[r] \in Exceptions /\ row'[r] = None
      BY <1>1, <1>3, <2>2 DEF RaiseOnly, PipeTypes
    <3>2. RequestOK(r)'
      BY <1>2, <1>3, <3>1 DEF RequestOK, IdOf
    <3>3. Told' = Told
      BY <1>3, <1>5, <3>1 DEF Told
    <3> QED BY <1>1, <2>2, <3>2, <3>3 DEF RaiseOnly
  <2>3. CASE AnswerStored(r)
    <3>1. /\ at'[r] = "answered" /\ status'[r] = 200
          /\ error'[r] = None /\ row'[r] = ctx[r]
          /\ ask[r].route = "webhook" /\ Trusted(ask[r])
      BY <1>1, <1>3, <2>3 DEF AnswerStored, Store, PipeTypes
    <3>2. RequestOK(r)'
      BY <1>2, <1>3, <1>4, <3>1 DEF RequestOK, IdOf
    <3>3. Told' = Told \cup {r} /\ r \notin Told
      BY <1>3, <1>5, <3>1 DEF Told
    <3>4. Cardinality(Told') = Cardinality(Told) + 1
      <4>1. Told \in SUBSET Requests
        BY DEF Told
      <4> QED BY <3>3, <4>1, OneMore
    <3> QED BY <1>1, <2>3, <3>2, <3>4 DEF AnswerStored
  <2>4. CASE RaiseStored(r)
    <3>1. /\ at'[r] = "raised" /\ status'[r] = None
          /\ error'[r] \in Exceptions /\ row'[r] = ctx[r]
          /\ ask[r].route = "webhook" /\ Trusted(ask[r])
      BY <1>1, <1>3, <2>4 DEF RaiseStored, Store, PipeTypes
    <3>2. RequestOK(r)'
      BY <1>2, <1>3, <3>1 DEF RequestOK, IdOf
    <3>3. Told' = Told
      BY <1>3, <1>4, <1>5, <3>1 DEF Told
    <3> QED BY <1>1, <2>4, <3>2, <3>3 DEF RaiseStored
  <2> QED BY <1>2, <2>1, <2>2, <2>3, <2>4
<1> QED BY <1>6, <1>7, <1>9, <1>10, PipeFrame

LEMMA ArriveStep ==
    ASSUME PipeInv, NEW r \in Requests, NEW q \in Ask, Arrive(r, q)
    PROVE  PipeInv'
<1>1. PipeTypes /\ RequestOK(r) /\ received = Cardinality(Told)
  BY DEF PipeInv
<1>2. /\ at[r] = "new" /\ at'[r] = "inside" /\ ask'[r] = q
      /\ ctx'[r] = IF q.id = None THEN r ELSE q.id
      /\ UNCHANGED <<status, error, row, reply, requests, received, log>>
      /\ \A x \in Requests : x # r =>
             at'[x] = at[x] /\ ask'[x] = ask[x] /\ ctx'[x] = ctx[x]
  BY <1>1 DEF Arrive, PipeTypes
<1>3. q.id \in Ids \cup {None}
  BY DEF Ask, Webhook, Listing, Fetch, CleanupCall, Probe
<1>4. PipeTypes'
  BY <1>1, <1>3 DEF Arrive, PipeTypes
<1>5. \A x \in Requests : x # r => Same(x)
  BY <1>2 DEF Same
<1>6. /\ row[r] = None /\ status[r] = None /\ error[r] = None
      /\ reply[r] = None /\ log[r] = <<>>
  BY <1>1, <1>2 DEF RequestOK
<1>7. RequestOK(r)'
  BY <1>2, <1>6 DEF RequestOK, Guarded, Decided, IdOf
<1>8. received' = Cardinality(Told')
  BY <1>1, <1>2 DEF Told
<1>9. \A label, code : Replied(label, code)' = Replied(label, code)
  BY <1>2, <1>6 DEF Replied, Label
<1>10. \A label \in Labels, code \in Codes :
           requests'[<<label, code>>] = Cardinality(Replied(label, code)')
  BY <1>2, <1>9 DEF PipeInv
<1> QED BY <1>4, <1>5, <1>7, <1>8, <1>10, PipeFrame

LEMMA ServerErrorStep ==
    ASSUME PipeInv, NEW r \in Requests, ServerError(r)
    PROVE  PipeInv'
<1>1. PipeTypes /\ RequestOK(r) /\ received = Cardinality(Told)
  BY DEF PipeInv
<1>2. /\ at[r] = "raised" /\ at'[r] = "replied"
      /\ log'[r] = Append(log[r], [line |-> "unhandled_exception", id |-> ctx[r]])
      /\ reply'[r] = [status |-> 500, id |-> None]
      /\ UNCHANGED <<ask, ctx, status, error, row, requests, received>>
      /\ \A x \in Requests : x # r =>
             at'[x] = at[x] /\ log'[x] = log[x] /\ reply'[x] = reply[x]
  BY <1>1 DEF ServerError, Logged, RequestId, PipeTypes
<1>3. /\ ask[r] \in Ask /\ ctx[r] = IdOf(r) /\ Guarded(r)
      /\ status[r] = None /\ reply[r] = None /\ log[r] = <<>>
      /\ ctx[r] \in Requests \cup Ids \cup {None}
  BY <1>1, <1>2 DEF RequestOK, PipeTypes
<1>4. reply'[r] \in Reply /\ reply'[r].id = None /\ reply'[r].status = 500
  BY <1>2 DEF Reply, Codes
<1>5. /\ log'[r] = <<[line |-> "unhandled_exception", id |-> IdOf(r)]>>
      /\ log'[r] \in Seq(LogLine)
  BY <1>2, <1>3 DEF LogLine
<1>6. PipeTypes'
  <2>1. reply' \in [Requests -> Reply \cup {None}]
    BY <1>1, <1>2, <1>4 DEF PipeTypes, ServerError
  <2>2. log' \in [Requests -> Seq(LogLine)]
    BY <1>1, <1>2, <1>5 DEF PipeTypes, ServerError, Logged
  <2>3. at' \in [Requests -> {"new", "inside", "answered", "raised", "replied"}]
    BY <1>1 DEF PipeTypes, ServerError
  <2> QED BY <1>1, <1>2, <2>1, <2>2, <2>3 DEF PipeTypes
<1>7. \A x \in Requests : x # r => Same(x)
  BY <1>2 DEF Same
<1>8. RequestOK(r)'
  <2>1. Guarded(r)'
    BY <1>2, <1>3 DEF Guarded, Decided
  <2> QED BY <1>1, <1>2, <1>3, <1>4, <1>5, <2>1 DEF RequestOK, IdOf
<1>9. received' = Cardinality(Told')
  BY <1>1, <1>2 DEF Told
<1>10. \A label, code : Replied(label, code)' = Replied(label, code)
  BY <1>2, <1>3, <1>4 DEF Replied, Label
<1>11. \A label \in Labels, code \in Codes :
           requests'[<<label, code>>] = Cardinality(Replied(label, code)')
  BY <1>2, <1>10 DEF PipeInv
<1> QED BY <1>6, <1>7, <1>8, <1>9, <1>11, PipeFrame

LEMMA FinishStep ==
    ASSUME PipeInv, NEW r \in Requests, Finish(r)
    PROVE  PipeInv'
<1> DEFINE c == <<Label(r), status[r]>>
<1>1. PipeTypes /\ RequestOK(r) /\ received = Cardinality(Told)
  BY DEF PipeInv
<1>2. /\ at[r] = "answered" /\ at'[r] = "replied"
      /\ log'[r] = Append(log[r], [line |-> "request", id |-> ctx[r]])
      /\ reply'[r] = [status |-> status[r], id |-> ctx[r]]
      /\ UNCHANGED <<ask, ctx, status, error, row, received>>
      /\ \A x \in Requests : x # r =>
             at'[x] = at[x] /\ log'[x] = log[x] /\ reply'[x] = reply[x]
  BY <1>1 DEF Finish, Logged, RequestId, PipeTypes
<1>3. /\ ask[r] \in Ask /\ ctx[r] = IdOf(r) /\ Guarded(r) /\ status[r] \in Codes
      /\ row[r] # None => status[r] = 200
      /\ reply[r] = None /\ log[r] = <<>>
      /\ ctx[r] \in Requests \cup Ids \cup {None}
  BY <1>1, <1>2 DEF RequestOK, PipeTypes
<1>4. IdOf(r) \in Requests \cup Ids /\ Label(r) \in Labels
  <2>1. ask[r].id \in Ids \cup {None}
    BY <1>3 DEF Ask, Webhook, Listing, Fetch, CleanupCall, Probe
  <2>2. ask[r].route \in {"webhook", "list", "get", "cleanup", "health", "ready",
                          "metrics", "unknown"}
    BY <1>3 DEF Ask, Webhook, Listing, Fetch, CleanupCall, Probe
  <2> QED BY <2>1, <2>2 DEF IdOf, Label, Labels
<1>5. reply'[r] \in Reply /\ reply'[r].id # None /\ reply'[r].status = status[r]
  BY <1>2, <1>3, <1>4 DEF Reply
<1>6. /\ log'[r] = <<[line |-> "request", id |-> IdOf(r)]>>
      /\ log'[r] \in Seq(LogLine)
  BY <1>2, <1>3 DEF LogLine
<1>7. c \in Labels \X Codes /\ requests' = [requests EXCEPT ![c] = requests[c] + 1]
  BY <1>3, <1>4 DEF Finish
<1>8. PipeTypes'
  <2>1. reply' \in [Requests -> Reply \cup {None}]
    BY <1>1, <1>2, <1>5 DEF PipeTypes, Finish
  <2>2. log' \in [Requests -> Seq(LogLine)]
    BY <1>1, <1>2, <1>6 DEF PipeTypes, Finish, Logged
  <2>3. at' \in [Requests -> {"new", "inside", "answered", "raised", "replied"}]
    BY <1>1 DEF PipeTypes, Finish
  <2>4. requests' \in [Labels \X Codes -> Nat]
    <3> HIDE DEF c
    <3> QED BY <1>1, <1>7 DEF PipeTypes
  <2> QED BY <1>1, <1>2, <2>1, <2>2, <2>3, <2>4 DEF PipeTypes
<1>9. \A x \in Requests : x # r => Same(x)
  BY <1>2 DEF Same
<1>10. RequestOK(r)'
  <2>1. Guarded(r)'
    BY <1>2, <1>3 DEF Guarded, Decided
  <2> QED BY <1>1, <1>2, <1>3, <1>5, <1>6, <2>1 DEF RequestOK, IdOf
<1>11. received' = Cardinality(Told')
  BY <1>1, <1>2 DEF Told
<1>12. ASSUME NEW label \in Labels, NEW code \in Codes
       PROVE  requests'[<<label, code>>] = Cardinality(Replied(label, code)')
  <2>1. requests[<<label, code>>] = Cardinality(Replied(label, code))
    BY DEF PipeInv
  <2>2. Replied(label, code) \in SUBSET Requests /\ r \notin Replied(label, code)
    BY <1>3 DEF Replied
  <2>3. CASE label = Label(r) /\ code = status[r]
    <3>1. Replied(label, code)' = Replied(label, code) \cup {r}
      BY <1>2, <1>3, <1>5, <2>3 DEF Replied, Label, Reply
    <3>2. Cardinality(Replied(label, code)') = Cardinality(Replied(label, code)) + 1
      BY <2>2, <3>1, OneMore
    <3>3. requests'[c] = requests[c] + 1
      <4> HIDE DEF c
      <4> QED BY <1>1, <1>7 DEF PipeTypes
    <3> QED BY <2>1, <2>3, <3>2, <3>3
  <2>4. CASE ~(label = Label(r) /\ code = status[r])
    <3>1. Replied(label, code)' = Replied(label, code)
      BY <1>2, <1>3, <1>5, <2>4 DEF Replied, Label
    <3>2. <<label, code>> # c
      BY <2>4
    <3>3. requests'[<<label, code>>] = requests[<<label, code>>]
      <4> HIDE DEF c
      <4> QED BY <1>1, <1>7, <3>2 DEF PipeTypes
    <3> QED BY <2>1, <3>1, <3>3
  <2> QED BY <2>3, <2>4
<1> QED BY <1>8, <1>9, <1>10, <1>11, <1>12, PipeFrame

LEMMA PipeStep == PipeInv /\ [Next]_vars => PipeInv'
<1> SUFFICES ASSUME PipeInv, [Next]_vars PROVE PipeInv'
  OBVIOUS
<1>1. CASE UNCHANGED vars
  <2>1. \A q \in Requests : RequestOK(q)'
    <3>1. \A q \in Requests : Same(q)
      BY <1>1 DEF Same, vars
    <3> QED BY <3>1, SameOK DEF PipeInv
  <2>2. /\ Told' = Told
        /\ \A label, code : Replied(label, code)' = Replied(label, code)
    BY <1>1 DEF Told, Replied, Label, vars
  <2>3. PipeTypes'
    BY <1>1 DEF PipeInv, PipeTypes, vars
  <2> QED BY <1>1, <2>1, <2>2, <2>3 DEF PipeInv, vars
<1>2. CASE Next
  <2>1. PICK r \in Requests :
            \/ \E q \in Ask : Arrive(r, q)
            \/ Endpoint(r) \/ Finish(r) \/ ServerError(r)
    BY <1>2 DEF Next, Endpoint
  <2> QED BY <2>1, ArriveStep, EndpointStep, FinishStep, ServerErrorStep
<1> QED BY <1>1, <1>2

LEMMA PipeInit == Init => PipeInv
<1> SUFFICES ASSUME Init PROVE PipeInv
  OBVIOUS
<1>1. PipeTypes
  BY DEF Init, PipeTypes
<1>2. \A r \in Requests : RequestOK(r)
  BY DEF Init, RequestOK
<1>3. Told = {} /\ \A label, code : Replied(label, code) = {}
  BY DEF Init, Told, Replied
<1> QED BY <1>1, <1>2, <1>3, FS_EmptySet DEF Init, PipeInv

LEMMA PipeInvAlways == Spec => []PipeInv
BY PipeInit, PipeStep, PTL DEF Spec

\* The id a client is told is the one in its row, however requests overlap.
THEOREM OneIdPerRequestAlways == Spec => []OneIdPerRequest
<1>1. PipeInv => OneIdPerRequest
  <2> SUFFICES ASSUME PipeInv, NEW r \in Requests
               PROVE  /\ row[r] # None => row[r] = IdOf(r)
                      /\ (reply[r] # None /\ reply[r].id # None)
                             => reply[r].id = IdOf(r)
                      /\ \A i \in DOMAIN log[r] : log[r][i].id = IdOf(r)
    BY DEF OneIdPerRequest
  <2>1. RequestOK(r) /\ reply[r] \in Reply \cup {None}
    BY DEF PipeInv, PipeTypes
  <2>2. \A i \in DOMAIN log[r] : log[r][i].id = IdOf(r)
    <3>1. CASE log[r] = <<>>
      BY <3>1
    <3>2. ASSUME NEW line, log[r] = <<[line |-> line, id |-> IdOf(r)]>>
          PROVE  \A i \in DOMAIN log[r] : log[r][i].id = IdOf(r)
      BY <3>2
    <3> QED BY <2>1, <3>1, <3>2 DEF RequestOK
  <2> QED BY <2>1, <2>2 DEF RequestOK
<1> QED BY <1>1, PipeInvAlways, PTL

\* How a webhook ends, in a status or in an exception, tells nothing of its body
\* before its source, its size and its signature are accepted, in this order.
THEOREM GatesGuardAlways == Spec => []GatesGuard
<1>1. PipeInv => GatesGuard
  <2> SUFFICES ASSUME PipeInv PROVE GatesGuard
    OBVIOUS
  <2>1. ASSUME NEW r \in Decided
        PROVE  /\ Ends(ask[r], status[r], error[r]) /\ ask[r] \in Webhook
               /\ row[r] # None => Trusted(ask[r])
    <3>1. RequestOK(r) /\ ask[r] \in Ask /\ ask[r].route = "webhook"
      BY DEF Decided, PipeInv, PipeTypes
    <3>2. ask[r] \in Webhook
      BY <3>1 DEF Ask, Listing, Fetch, CleanupCall, Probe
    <3>3. at[r] # "new"
      BY <3>1 DEF Decided, RequestOK
    <3> QED BY <3>1, <3>2, <3>3 DEF RequestOK, Guarded
  <2>2. None \notin {404, 413, 401} /\ None # "NotAscii"
    BY DEF Codes, Exceptions
  <2>3. ASSUME NEW q \in Webhook, NEW code, NEW e, Ends(q, code, e)
        PROVE  /\ (code = 404) <=> ~q.known
               /\ (code = 413) <=> q.known /\ ~q.small
               /\ (code = 401 \/ e = "NotAscii")
                      <=> q.known /\ q.small /\ q.signature # "ok"
    BY <2>2, <2>3 DEF Ends, Webhook, Trusted
  <2>4. ASSUME NEW q \in Webhook, NEW p \in Webhook, ~Trusted(q),
               q.known = p.known, q.small = p.small, q.signature = p.signature,
               NEW c, NEW d, NEW e, NEW f, Ends(q, c, e), Ends(p, d, f)
        PROVE  c = d /\ e = f
    BY <2>4 DEF Ends, Webhook, Trusted
  <2>5. ASSUME NEW r \in Decided
        PROVE  /\ (status[r] = 404) <=> ~ask[r].known
               /\ (status[r] = 413) <=> ask[r].known /\ ~ask[r].small
               /\ (status[r] = 401 \/ error[r] = "NotAscii")
                      <=> ask[r].known /\ ask[r].small /\ ask[r].signature # "ok"
               /\ row[r] # None => Trusted(ask[r])
    BY <2>1, <2>3
  <2>6. ASSUME NEW r \in Decided, NEW s \in Decided, ~Trusted(ask[r]),
               ask[r].known = ask[s].known, ask[r].small = ask[s].small,
               ask[r].signature = ask[s].signature
        PROVE  status[r] = status[s] /\ error[r] = error[s]
    BY <2>1, <2>4, <2>6
  <2> QED BY <2>5, <2>6 DEF GatesGuard
<1> QED BY <1>1, PipeInvAlways, PTL

\* Rows, replies and EVENTS_RECEIVED_TOTAL tell one story.
THEOREM RowsAreAnsweredAlways == Spec => []RowsAreAnswered
<1>1. PipeInv => RowsAreAnswered
  <2> SUFFICES ASSUME PipeInv PROVE RowsAreAnswered
    OBVIOUS
  <2>1. ASSUME NEW r \in Requests, row[r] # None
        PROVE  \/ status[r] = 200 \/ at[r] = "raised"
               \/ reply[r] # None /\ reply[r].status = 500
    <3>1. RequestOK(r) /\ at[r] \in {"new", "inside", "answered", "raised", "replied"}
      BY DEF PipeInv, PipeTypes
    <3> QED BY <2>1, <3>1 DEF RequestOK
  <2> QED BY <2>1 DEF PipeInv, RowsAreAnswered, Told
<1> QED BY <1>1, PipeInvAlways, PTL

\* The request counters, the request log and the replies with an X-Request-ID
\* agree one by one.
THEOREM CountersTellRepliesAlways == Spec => []CountersTellReplies
<1>1. PipeInv => CountersTellReplies
  <2> SUFFICES ASSUME PipeInv PROVE CountersTellReplies
    OBVIOUS
  <2>1. ASSUME NEW r \in Requests, reply[r] # None
        PROVE  /\ Len(log[r]) = 1
               /\ log[r][1].line = IF reply[r].id # None THEN "request"
                                                         ELSE "unhandled_exception"
    <3>1. RequestOK(r)
      BY DEF PipeInv
    <3>2. ASSUME NEW line, log[r] = <<[line |-> line, id |-> IdOf(r)]>>
          PROVE  Len(log[r]) = 1 /\ log[r][1].line = line
      BY <3>2
    <3>3. CASE reply[r].id = None
      <4>1. log[r] = <<[line |-> "unhandled_exception", id |-> IdOf(r)]>>
        BY <2>1, <3>1, <3>3 DEF RequestOK
      <4> QED BY <3>2, <3>3, <4>1
    <3>4. CASE reply[r].id # None
      <4>1. log[r] = <<[line |-> "request", id |-> IdOf(r)]>>
        BY <2>1, <3>1, <3>4 DEF RequestOK
      <4> QED BY <3>2, <3>4, <4>1
    <3> QED BY <3>3, <3>4
  <2> QED BY <2>1 DEF PipeInv, CountersTellReplies
<1> QED BY <1>1, PipeInvAlways, PTL

=============================================================================
