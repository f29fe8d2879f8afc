-------------------------- MODULE RelayEventProofs --------------------------
(***************************************************************************)
(* Proofs about RelayEvent, for any calls, number of attempts and status   *)
(* codes.                                                                  *)
(***************************************************************************)
EXTENDS RelayEvent, TLAPS

USE AttemptsAssumption DEF Attempts

-----------------------------------------------------------------------------
(* What one call knows.  p, k, l, o, h stand for its pc, attempt, last     *)
(* status, outcome and heard.                                              *)

Bad == Failures \cup BadStatus

AnswersOf(k, h) == {n \in 1..k : h[n] \in BadStatus \cup {OkStatus}}

LastOf(k, h) == IF AnswersOf(k, h) = {} THEN None ELSE h[Max(AnswersOf(k, h))]

\* l is the last answer among the first k attempts.
IsLast(l, k, h) ==
    \/ l = None /\ AnswersOf(k, h) = {}
    \/ \E m \in AnswersOf(k, h) : l = h[m] /\ \A n \in AnswersOf(k, h) : n <= m

Tells(o, k, h) ==
    /\ o.attempts = k
    /\ o.attempted <=> k > 0
    /\ o.success <=> (o.attempted /\ h[k] = OkStatus)
    /\ (o.attempted /\ ~o.success) => o.attempts = MaxAttempts /\ o.error = h[k]
    /\ o.status = LastOf(k, h)

\* The inductive invariant of a call: earlier attempts failed, later ones heard
\* nothing, last_status is that of the last answer, and so is the outcome's.
CallInv(p, k, l, o, h) ==
    /\ p \in {"idle", "preflight"} => k = 0
    /\ p = "posting" => k \in Attempts /\ h[k] = None
    /\ p = "sleeping" => k \in 1..(MaxAttempts - 1) /\ h[k] \in Bad
    /\ \A n \in Attempts : n > k => h[n] = None
    /\ \A n \in 1..k : n < k => h[n] \in Bad
    /\ p # "returned" => \A n \in 1..k : h[n] # OkStatus
    /\ o # NoResult <=> p = "returned"
    /\ p \in Running \cup {"idle"} => IsLast(l, k, h)
    /\ p = "returned" => Tells(o, k, h)

LEMMA Values ==
    /\ None \notin Bad /\ OkStatus \notin Bad /\ None # OkStatus /\ None # "open"
    /\ None \notin BadStatus /\ BadStatus \cap Failures = {}
    /\ OkStatus \notin Failures
BY StatusAssumption DEF Bad, Failures

-----------------------------------------------------------------------------
(* The last answer *)

LEMMA MaxIs ==
    ASSUME NEW S \in SUBSET Int, NEW m \in S, \A n \in S : n <= m
    PROVE  Max(S) = m
<1>1. \A x \in S : (\A y \in S : x >= y) => x = m OBVIOUS
<1>2. \A y \in S : m >= y OBVIOUS
<1> QED BY <1>1, <1>2, Zenon DEF Max

LEMMA LastIsUnique ==
    ASSUME NEW k \in Nat, NEW h, NEW l, IsLast(l, k, h)
    PROVE  l = LastOf(k, h)
<1>1. CASE l = None /\ AnswersOf(k, h) = {} BY <1>1 DEF LastOf
<1>2. CASE \E m \in AnswersOf(k, h) : l = h[m] /\ \A n \in AnswersOf(k, h) : n <= m
  <2>1. PICK m \in AnswersOf(k, h) : l = h[m] /\ \A n \in AnswersOf(k, h) : n <= m
    BY <1>2
  <2>2. AnswersOf(k, h) \in SUBSET Int BY DEF AnswersOf
  <2>3. Max(AnswersOf(k, h)) = m BY <2>1, <2>2, MaxIs
  <2> QED BY <2>1, <2>3 DEF LastOf
<1> QED BY <1>1, <1>2 DEF IsLast

\* An attempt that has heard nothing, or no status, leaves the last answer.
LEMMA LastKept ==
    ASSUME NEW k \in Nat, NEW h, NEW l, IsLast(l, k, h), NEW m \in Nat, NEW g,
           AnswersOf(m, g) = AnswersOf(k, h),
           \A n \in AnswersOf(k, h) : g[n] = h[n]
    PROVE  IsLast(l, m, g)
BY DEF IsLast

-----------------------------------------------------------------------------
(* The steps of one call *)

LEMMA StartAttempt ==
    ASSUME NEW p \in {"preflight", "sleeping"}, NEW k \in 0..MaxAttempts,
           NEW l, NEW o, NEW h, CallInv(p, k, l, o, h)
    PROVE  k + 1 \in Attempts /\ CallInv("posting", k + 1, l, o, h)
<1>1. k + 1 \in Attempts BY DEF CallInv
<1>2. h[k + 1] = None BY <1>1 DEF CallInv
<1>3. \A n \in 1..(k + 1) : n < k + 1 => h[n] \in Bad
  BY Values DEF CallInv
<1>4. \A n \in 1..(k + 1) : h[n] # OkStatus BY <1>2, <1>3, Values DEF CallInv
<1>5. AnswersOf(k + 1, h) = AnswersOf(k, h)
  BY <1>2, StatusAssumption DEF AnswersOf
<1>6. IsLast(l, k + 1, h)
  <2>1. IsLast(l, k, h) BY DEF CallInv, Running
  <2> QED BY <1>5, <2>1, LastKept
<1> QED BY <1>1, <1>2, <1>3, <1>4, <1>6 DEF CallInv, Running

\* What holds once attempt k has heard x, a failure, and l has noted it.
HasHeard(k, l, x, g) ==
    /\ g[k] = x /\ k \in Attempts
    /\ \A n \in Attempts : n > k => g[n] = None
    /\ \A n \in 1..k : g[n] \in Bad
    /\ IsLast(l.status, k, g) /\ l.error = x

LEMMA HearFailure ==
    ASSUME NEW k \in 0..MaxAttempts, NEW l \in Local, NEW o,
           NEW h \in [Attempts -> Heard], NEW x \in Bad,
           CallInv("posting", k, l.status, o, h)
    PROVE  HasHeard(k, Noted(l, x), x, [h EXCEPT ![k] = x])
<1>0. PICK g : g = [h EXCEPT ![k] = x] OBVIOUS
<1> SUFFICES HasHeard(k, Noted(l, x), x, g)
  BY <1>0
<1>1. k \in Attempts /\ h[k] = None /\ IsLast(l.status, k, h)
  BY DEF CallInv, Running
<1>2. g[k] = x /\ \A n \in Attempts : n # k => g[n] = h[n]
  BY <1>0, <1>1
<1>3. \A n \in 1..k : g[n] \in Bad
  <2> TAKE n \in 1..k
  <2>1. n \in Attempts /\ (n < k => h[n] \in Bad) BY <1>1 DEF CallInv
  <2> QED BY <1>1, <1>2, <2>1
<1>4. CASE x \in BadStatus
  <2>1. k \in AnswersOf(k, g) /\ \A n \in AnswersOf(k, g) : n <= k
    BY <1>1, <1>2, <1>4 DEF AnswersOf
  <2>2. Noted(l, x).status = x /\ Noted(l, x).error = x BY <1>4 DEF Noted
  <2>3. IsLast(x, k, g) BY <1>2, <2>1 DEF IsLast
  <2> QED BY <1>1, <1>2, <1>3, <2>2, <2>3 DEF CallInv, HasHeard
<1>5. CASE x \notin BadStatus
  <2>1. x # OkStatus BY Values
  <2>2. AnswersOf(k, g) = AnswersOf(k, h)
    BY <1>1, <1>2, <1>5, <2>1, StatusAssumption DEF AnswersOf
  <2>3. \A n \in AnswersOf(k, h) : g[n] = h[n]
    BY <1>1, <1>2, StatusAssumption DEF AnswersOf
  <2>4. IsLast(l.status, k, g)
    <3>1. k \in Nat OBVIOUS
    <3> QED BY <1>1, <2>2, <2>3, <3>1, LastKept
  <2>5. Noted(l, x).status = l.status /\ Noted(l, x).error = x
    BY <1>5 DEF Noted, Local
  <2> QED BY <1>1, <1>2, <1>3, <2>4, <2>5 DEF CallInv, HasHeard
<1> QED BY <1>4, <1>5

-----------------------------------------------------------------------------
(* The invariant of the module *)

\* TypeOK without the delay, the counters and the network, whose types are proved
\* in RelayCountersProofs with what they have to say.
CallTypes ==
    /\ target \in Refusals \cup {"pass"}
    /\ pc \in [Calls -> Running \cup Ended \cup {"idle"}]
    /\ attempt \in [Calls -> 0..MaxAttempts]
    /\ last \in [Calls -> Local]
    /\ outcome \in [Calls -> RelayOutcome \cup {NoResult}]
    /\ client \in {"open", None}
    /\ stopping \in BOOLEAN
    /\ heard \in [Calls -> [Attempts -> Heard]]

CallOK(c) == CallInv(pc[c], attempt[c], last[c].status, outcome[c], heard[c])

ClientInv == client = None => stopping /\ \A c \in Calls : pc[c] \notin Running

RelayInv == CallTypes /\ ClientInv /\ \A c \in Calls : CallOK(c)

LEMMA RelayInit == Init => RelayInv
<1> SUFFICES ASSUME Init PROVE RelayInv
  OBVIOUS
<1>1. CallTypes
  <2>1. attempt \in [Calls -> 0..MaxAttempts] BY DEF Init
  <2>3. stopping \in BOOLEAN BY DEF Init
  <2>2. last \in [Calls -> Local] BY DEF Init, Local, FirstLocal
  <2> QED BY <2>1, <2>2, <2>3 DEF Init, CallTypes, Ended, Heard
<1>2. ClientInv BY StatusAssumption DEF Init, ClientInv, Running
<1>3. ASSUME NEW c \in Calls PROVE CallOK(c)
  <2>1. /\ pc[c] = "idle" /\ attempt[c] = 0 /\ outcome[c] = NoResult
        /\ last[c].status = None /\ \A n \in Attempts : heard[c][n] = None
    BY DEF Init, FirstLocal
  <2>2. IsLast(None, 0, heard[c]) BY DEF IsLast, AnswersOf
  <2> QED BY <2>1, <2>2 DEF CallOK, CallInv
<1> QED BY <1>1, <1>2, <1>3 DEF RelayInv

\* A step of call c touches no other call, and the client only if it ends.
Touches(c) ==
    /\ client' = client /\ stopping' = stopping
    /\ \A d \in Calls : d # c =>
           /\ pc'[d] = pc[d] /\ attempt'[d] = attempt[d] /\ last'[d] = last[d]
           /\ outcome'[d] = outcome[d] /\ heard'[d] = heard[d]
    /\ pc'[c] \in Running => client # None

LEMMA CallStep ==
    ASSUME RelayInv, NEW c \in Calls, Touches(c), CallTypes', CallOK(c)'
    PROVE  RelayInv'
<1>1. \A d \in Calls : d # c => CallOK(d)' BY DEF RelayInv, CallOK, Touches
<1>2. ClientInv' BY DEF RelayInv, ClientInv, Touches
<1> QED BY <1>1, <1>2 DEF RelayInv

LEMMA BeginStep ==
    ASSUME RelayInv, NEW c \in Calls, Begin(c) PROVE RelayInv'
<1> USE DEF RelayInv
<1>1. /\ pc[c] = "idle" /\ ~stopping /\ pc' = [pc EXCEPT ![c] = "preflight"]
      /\ UNCHANGED <<target, attempt, last, outcome, client, stopping, heard>>
  BY DEF Begin
<1>2. CallTypes' BY <1>1 DEF CallTypes, Running
<1>3. pc'[c] = "preflight" BY <1>1 DEF CallTypes
<1>4. client # None BY <1>1 DEF ClientInv
<1>5. Touches(c) BY <1>1, <1>4 DEF Touches, CallTypes
<1>6. CallOK(c)' BY <1>1, <1>3 DEF CallOK, CallInv, Running
<1> QED BY <1>2, <1>5, <1>6, CallStep

LEMMA RefuseStep ==
    ASSUME RelayInv, NEW c \in Calls, Refuse(c) PROVE RelayInv'
<1> USE DEF RelayInv
<1>1. PICK o \in RelayOutcome : /\ pc[c] = "preflight"
                                /\ Return(c, o)
                                /\ ~o.attempted /\ ~o.success /\ o.status = None /\ o.attempts = 0
                                /\ UNCHANGED <<target, attempt, last, client, stopping, heard>>
  <2>1. CASE target # "pass" /\ Return(c, Refused(target, None))
    <3>1. Refused(target, None) \in RelayOutcome
      BY <2>1 DEF Refused, RelayOutcome, Reason, CallTypes
    <3> QED BY <2>1, <3>1 DEF Refuse, Refused
  <2>2. CASE Return(c, Refused("blocked_ip", None))
    <3>1. Refused("blocked_ip", None) \in RelayOutcome
      BY DEF Refused, RelayOutcome, Reason
    <3> QED BY <2>2, <3>1 DEF Refuse, Refused
  <2>3. CASE Return(c, Refused("dns_error", "dns_error"))
    <3>1. Refused("dns_error", "dns_error") \in RelayOutcome
      BY DEF Refused, RelayOutcome, Reason
    <3> QED BY <2>3, <3>1 DEF Refuse, Refused
  <2> QED BY <2>1, <2>2, <2>3 DEF Refuse
<1>2. pc' = [pc EXCEPT ![c] = "returned"] /\ outcome' = [outcome EXCEPT ![c] = o]
  BY <1>1 DEF Return
<1>3. CallTypes' BY <1>1, <1>2 DEF CallTypes, Ended
<1>4. pc'[c] = "returned" /\ outcome'[c] = o BY <1>2 DEF CallTypes
<1>5. Touches(c) BY <1>1, <1>2, <1>4 DEF Touches, CallTypes, Running
<1>6. attempt[c] = 0 /\ LastOf(0, heard[c]) = None /\ o # NoResult
  BY <1>1, ResultAssumption DEF CallOK, CallInv, LastOf, AnswersOf
<1>7. Tells(o, 0, heard[c]) BY <1>1, <1>6 DEF Tells
<1>8. CallOK(c)' BY <1>1, <1>4, <1>6, <1>7 DEF CallOK, CallInv, Running
<1> QED BY <1>3, <1>5, <1>8, CallStep

\* PassPreflight and Wake.
LEMMA NextAttemptStep ==
    ASSUME RelayInv, NEW c \in Calls, pc[c] \in {"preflight", "sleeping"},
           NextAttempt(c), UNCHANGED <<target, last, outcome, client, stopping, heard>>
    PROVE  RelayInv'
<1> USE DEF RelayInv
<1>1. /\ attempt' = [attempt EXCEPT ![c] = attempt[c] + 1]
      /\ pc' = [pc EXCEPT ![c] = "posting"]
  BY DEF NextAttempt
<1>2. attempt[c] \in 0..MaxAttempts BY DEF CallTypes
<1>3. attempt[c] + 1 \in Attempts
      /\ CallInv("posting", attempt[c] + 1, last[c].status, outcome[c], heard[c])
  BY <1>2, StartAttempt DEF CallOK
<1>4. CallTypes' BY <1>1, <1>3 DEF CallTypes, Running
<1>5. pc'[c] = "posting" /\ attempt'[c] = attempt[c] + 1 BY <1>1 DEF CallTypes
<1>6. client # None BY DEF ClientInv, Running
<1>7. Touches(c) BY <1>1, <1>6 DEF Touches, CallTypes
<1>8. CallOK(c)' BY <1>3, <1>5 DEF CallOK
<1> QED BY <1>4, <1>7, <1>8, CallStep

\* Raise and Cancel.
LEMMA EndStep ==
    ASSUME RelayInv, NEW c \in Calls, pc[c] \in Running,
           NEW end \in {"raised", "cancelled"}, pc' = [pc EXCEPT ![c] = end],
           UNCHANGED <<target, attempt, last, outcome, client, stopping, heard>>
    PROVE  RelayInv'
<1> USE DEF RelayInv
<1>1. CallTypes' BY DEF CallTypes, Ended
<1>2. pc'[c] = end BY DEF CallTypes
<1>3. Touches(c) BY <1>2 DEF Touches, CallTypes, Running
<1>4. CallOK(c)' BY <1>2 DEF CallOK, CallInv, Running
<1> QED BY <1>1, <1>3, <1>4, CallStep

LEMMA SucceedStep ==
    ASSUME RelayInv, NEW c \in Calls, Succeed(c) PROVE RelayInv'
<1> USE DEF RelayInv
<1> DEFINE k == attempt[c]
<1>1. PICK o : o = [attempted |-> TRUE, success |-> TRUE, reason |-> "success",
                    status |-> OkStatus, attempts |-> k, error |-> None]
  OBVIOUS
<1>2. /\ pc[c] = "posting" /\ UNCHANGED <<target, attempt, last, client, stopping>>
      /\ heard' = [heard EXCEPT ![c][k] = OkStatus]
      /\ pc' = [pc EXCEPT ![c] = "returned"] /\ outcome' = [outcome EXCEPT ![c] = o]
  BY <1>1 DEF Succeed, Return
<1>3. k \in Attempts /\ heard[c] \in [Attempts -> Heard]
  BY <1>2 DEF CallOK, CallInv, CallTypes
<1>4. o \in RelayOutcome BY <1>1, <1>3 DEF RelayOutcome, Reason
<1>5. CallTypes' BY <1>2, <1>3, <1>4 DEF CallTypes, Ended, Heard
<1>6. PICK g : g = heard'[c] OBVIOUS
<1>7. g[k] = OkStatus /\ \A n \in Attempts : n # k => g[n] = heard[c][n]
  BY <1>2, <1>3, <1>6 DEF CallTypes
<1>8. pc'[c] = "returned" /\ outcome'[c] = o BY <1>2 DEF CallTypes
<1>9. Touches(c) BY <1>2, <1>8 DEF Touches, CallTypes, Running
<1>10. LastOf(k, g) = OkStatus
  <2>1. k \in AnswersOf(k, g) /\ \A n \in AnswersOf(k, g) : n <= k
    BY <1>3, <1>7 DEF AnswersOf
  <2>2. IsLast(OkStatus, k, g) BY <1>7, <2>1 DEF IsLast
  <2>3. k \in Nat BY <1>3
  <2> QED BY <2>2, <2>3, LastIsUnique
<1>11. Tells(o, k, g) BY <1>1, <1>3, <1>7, <1>10 DEF Tells
<1>12. /\ \A n \in Attempts : n > k => g[n] = None
       /\ \A n \in 1..k : n < k => g[n] \in Bad
  <2>1. CallInv("posting", k, last[c].status, outcome[c], heard[c])
    BY <1>2 DEF CallOK
  <2> QED BY <1>3, <1>7, <2>1 DEF CallInv
<1>13. CallInv("returned", k, last[c].status, o, g)
  BY <1>4, <1>11, <1>12, ResultAssumption DEF CallInv, Running
<1>14. CallOK(c)' BY <1>2, <1>6, <1>8, <1>13 DEF CallOK
<1> QED BY <1>5, <1>9, <1>14, CallStep

\* BadResponse, Timeout, ConnectError and HttpError.
LEMMA FailedStep ==
    ASSUME RelayInv, NEW c \in Calls, pc[c] = "posting", NEW x \in Bad, Failed(c, x)
    PROVE  RelayInv'
<1> USE DEF RelayInv
<1> DEFINE k == attempt[c]
           l == Noted(last[c], x)
<1>1. /\ UNCHANGED <<target, attempt, client, stopping>>
      /\ heard' = [heard EXCEPT ![c][k] = x] /\ last' = [last EXCEPT ![c] = l]
  BY DEF Failed
<1>2. k \in 0..MaxAttempts /\ heard[c] \in [Attempts -> Heard] /\ last[c] \in Local
      /\ CallInv("posting", k, last[c].status, outcome[c], heard[c])
  BY DEF CallOK, CallTypes
<1>3. PICK g : g = [heard[c] EXCEPT ![k] = x] OBVIOUS
<1>4. heard'[c] = g BY <1>1, <1>3 DEF CallTypes
<1>5. /\ g[k] = x /\ k \in Attempts
      /\ \A n \in Attempts : n > k => g[n] = None
      /\ \A n \in 1..k : g[n] \in Bad
      /\ IsLast(l.status, k, g) /\ l.error = x
  <2>1. HasHeard(k, l, x, g) BY <1>2, <1>3, HearFailure
  <2> QED BY <2>1 DEF HasHeard
<1>6. l \in Local BY <1>2 DEF Noted, Local, Bad
<1>7. last'[c] = l BY <1>1 DEF CallTypes
<1>8. /\ heard' \in [Calls -> [Attempts -> Heard]] /\ last' \in [Calls -> Local]
      /\ \A d \in Calls : d # c => heard'[d] = heard[d] /\ last'[d] = last[d]
  BY <1>1, <1>5, <1>6 DEF CallTypes, Heard, Bad
<1> HIDE DEF l
<1>9. CASE MayRetry(k)
  <2>1. pc' = [pc EXCEPT ![c] = "sleeping"] /\ outcome' = outcome
    BY <1>9 DEF Failed
  <2>2. pc'[c] = "sleeping" BY <2>1 DEF CallTypes
  <2>3. CallTypes' BY <1>1, <1>8, <2>1 DEF CallTypes, Running
  <2>4. Touches(c) BY <1>1, <1>8, <2>1 DEF Touches, CallTypes, ClientInv, Running
  <2>5. k \in 1..(MaxAttempts - 1) BY <1>5, <1>9 DEF MayRetry
  <2>6. \A n \in 1..k : g[n] # OkStatus BY <1>5, Values
  <2>7. CallInv("sleeping", k, l.status, outcome[c], g)
    BY <1>2, <1>5, <2>5, <2>6 DEF CallInv, Running
  <2>8. CallOK(c)' BY <1>1, <1>4, <1>7, <2>1, <2>2, <2>7 DEF CallOK
  <2> QED BY <2>3, <2>4, <2>8, CallStep
<1>10. CASE ~MayRetry(k)
  <2>1. PICK o : o = Exhausted(l, MaxAttempts) OBVIOUS
  <2>2. pc' = [pc EXCEPT ![c] = "returned"] /\ outcome' = [outcome EXCEPT ![c] = o]
    BY <1>7, <1>10, <2>1 DEF Failed, Return
  <2>3. pc'[c] = "returned" /\ outcome'[c] = o BY <2>2 DEF CallTypes
  <2>4. k = MaxAttempts BY <1>5, <1>10 DEF MayRetry
  <2>5. o \in RelayOutcome
    BY <1>6, <2>1 DEF Exhausted, RelayOutcome, Local, Reason, Failures
  <2>6. CallTypes' BY <1>1, <1>8, <2>2, <2>5 DEF CallTypes, Ended
  <2>7. Touches(c) BY <1>1, <1>8, <2>2, <2>3 DEF Touches, CallTypes, Running
  <2>8. l.status = LastOf(k, g)
    <3>1. k \in Nat BY <1>2
    <3> QED BY <1>5, <3>1, LastIsUnique
  <2>9. Tells(o, k, g)
    BY <1>5, <2>1, <2>4, <2>8, Values DEF Tells, Exhausted
  <2>10. CallInv("returned", k, l.status, o, g)
    BY <1>5, <2>5, <2>9, ResultAssumption DEF CallInv, Running
  <2>11. CallOK(c)' BY <1>1, <1>4, <1>7, <2>3, <2>10 DEF CallOK
  <2> QED BY <2>6, <2>7, <2>11, CallStep
<1> QED BY <1>9, <1>10

\* The network, the shutdown and the client.
LEMMA OtherStep ==
    ASSUME RelayInv,
           \/ \E c \in Calls : Deliver(c)
           \/ StopDispatcher \/ CloseClient \/ UNCHANGED vars
    PROVE  RelayInv'
<1> USE DEF RelayInv
<1>1. /\ UNCHANGED <<target, pc, attempt, last, outcome, heard>>
      /\ stopping' \in BOOLEAN /\ (stopping => stopping')
      /\ client' = client \/ (client' = None /\ WorkersDone)
  BY DEF Deliver, StopDispatcher, CloseClient, vars, callVars, CallTypes
<1>2. CallTypes' BY <1>1 DEF CallTypes
<1>3. \A c \in Calls : CallOK(c)' BY <1>1 DEF CallOK
<1>4. ClientInv' BY <1>1 DEF ClientInv, WorkersDone
<1> QED BY <1>2, <1>3, <1>4

LEMMA RelayNext == RelayInv /\ [Next]_vars => RelayInv'
<1> SUFFICES ASSUME RelayInv, [Next]_vars PROVE RelayInv'
  OBVIOUS
<1>1. ASSUME NEW c \in Calls, Step(c) PROVE RelayInv'
  <2>1. CASE PassPreflight(c) \/ Wake(c)
    BY <2>1, NextAttemptStep DEF PassPreflight, Wake
  <2>2. CASE Raise(c)
    BY <2>2, EndStep DEF Raise, Running
  <2>3. CASE BadResponse(c) \/ Timeout(c) \/ ConnectError(c) \/ HttpError(c)
    <3>1. PICK x \in Bad : pc[c] = "posting" /\ Failed(c, x)
      BY <2>3 DEF BadResponse, Timeout, ConnectError, HttpError, Bad, Failures
    <3> QED BY <3>1, FailedStep
  <2> QED BY <1>1, <2>1, <2>2, <2>3, BeginStep, RefuseStep, SucceedStep DEF Step
<1>2. ASSUME NEW c \in Calls, Cancel(c) PROVE RelayInv'
  BY <1>2, EndStep DEF Cancel, Interruptible
<1> QED BY <1>1, <1>2, OtherStep DEF Next

LEMMA RelayInvariant == Spec => []RelayInv
BY RelayInit, RelayNext, PTL DEF Spec

-----------------------------------------------------------------------------
(* The theorems *)

\* Once it has heard a 2xx a call sends nothing more.
THEOREM NoSendAfterSuccessAlways == Spec => []NoSendAfterSuccess
<1>1. RelayInv => NoSendAfterSuccess
  <2> SUFFICES ASSUME RelayInv, NEW c \in Calls, NEW n \in 1..attempt[c],
                      heard[c][n] = OkStatus
               PROVE  n = attempt[c] /\ pc[c] = "returned"
    BY DEF NoSendAfterSuccess, SentAttempts
  <2>1. CallOK(c) /\ attempt[c] \in 0..MaxAttempts BY DEF RelayInv, CallTypes
  <2>2. pc[c] = "returned" BY <2>1 DEF CallOK, CallInv
  <2>3. ~(n < attempt[c]) BY <2>1, Values DEF CallOK, CallInv
  <2> QED BY <2>1, <2>2, <2>3
<1> QED BY <1>1, RelayInvariant, PTL

\* A returned outcome tells the history of its call.
THEOREM OutcomeTellsHistoryAlways == Spec => []OutcomeTellsHistory
<1>1. RelayInv => OutcomeTellsHistory
  <2> SUFFICES ASSUME RelayInv, NEW c \in Calls, outcome[c] # NoResult
               PROVE  Tells(outcome[c], attempt[c], heard[c])
    BY DEF OutcomeTellsHistory, Tells, LastAnswer, LastOf, Answered, AnswersOf, SentAttempts
  <2> QED BY DEF RelayInv, CallOK, CallInv
<1> QED BY <1>1, RelayInvariant, PTL

\* The shared client is closed only when no call is left that could use it.
THEOREM ClientOutlivesCallsAlways == Spec => []ClientOutlivesCalls
<1>1. RelayInv => ClientOutlivesCalls
  BY DEF RelayInv, ClientInv, ClientOutlivesCalls
<1> QED BY <1>1, RelayInvariant, PTL

-----------------------------------------------------------------------------
(* RelayEvent implements RelayJob *)

PhaseOf(p) == IF p \in Running THEN "working"
              ELSE IF p \in {"raised", "cancelled"} THEN "ended" ELSE p

VerdictOf(o) == IF o = NoResult THEN NoResult
                ELSE [attempted |-> o.attempted, success |-> o.success]

\* A step that changes one call at most changes the mapped functions at c only.
LEMMA MapStep ==
    ASSUME NEW c \in Calls,
           \A d \in Calls : d # c => /\ pc'[d] = pc[d] /\ attempt'[d] = attempt[d]
                                     /\ outcome'[d] = outcome[d]
    PROVE  /\ Phase' = [Phase EXCEPT ![c] = PhaseOf(pc'[c])]
           /\ Sent' = [Sent EXCEPT ![c] = attempt'[c] > 0]
           /\ Verdict' = [Verdict EXCEPT ![c] = VerdictOf(outcome'[c])]
           /\ Phase[c] = PhaseOf(pc[c]) /\ (Sent[c] <=> attempt[c] > 0)
           /\ Verdict[c] = VerdictOf(outcome[c])
           /\ PhaseOf(pc'[c]) = PhaseOf(pc[c]) => Phase' = Phase
           /\ (attempt'[c] > 0 <=> attempt[c] > 0) => Sent' = Sent
           /\ outcome'[c] = outcome[c] => Verdict' = Verdict
<1>1. /\ Phase = [d \in Calls |-> PhaseOf(pc[d])] /\ Phase' = [d \in Calls |-> PhaseOf(pc'[d])]
      /\ Sent = [d \in Calls |-> attempt[d] > 0] /\ Sent' = [d \in Calls |-> attempt'[d] > 0]
      /\ Verdict = [d \in Calls |-> VerdictOf(outcome[d])]
      /\ Verdict' = [d \in Calls |-> VerdictOf(outcome'[d])]
  BY DEF Phase, Sent, Verdict, PhaseOf, VerdictOf
<1>2. /\ Phase' = [Phase EXCEPT ![c] = PhaseOf(pc'[c])]
      /\ PhaseOf(pc'[c]) = PhaseOf(pc[c]) => Phase' = Phase
      /\ Phase[c] = PhaseOf(pc[c])
  BY <1>1
<1>3. /\ Sent' = [Sent EXCEPT ![c] = attempt'[c] > 0]
      /\ Sent[c] <=> attempt[c] > 0
  BY <1>1
<1>4. ASSUME attempt'[c] > 0 <=> attempt[c] > 0 PROVE Sent' = Sent
  BY <1>1, <1>4
<1>5. /\ Verdict' = [Verdict EXCEPT ![c] = VerdictOf(outcome'[c])]
      /\ outcome'[c] = outcome[c] => Verdict' = Verdict
      /\ Verdict[c] = VerdictOf(outcome[c])
  BY <1>1
<1> QED BY <1>2, <1>3, <1>4, <1>5

\* Steps that the promise does not speak of.
LEMMA JobStutter ==
    ASSUME UNCHANGED <<pc, attempt, outcome>>
    PROVE  UNCHANGED Job!vars
BY DEF Job!vars, Phase, Sent, Verdict

\* NextAttempt is Post, from the first attempt on.
LEMMA JobPost ==
    ASSUME RelayInv, NEW c \in Calls, pc[c] \in {"preflight", "sleeping"},
           NextAttempt(c), outcome' = outcome
    PROVE  Job!Post(c)
<1>1. /\ pc'[c] = "posting" /\ attempt'[c] = attempt[c] + 1 /\ attempt[c] \in 0..MaxAttempts
      /\ \A d \in Calls : d # c => pc'[d] = pc[d] /\ attempt'[d] = attempt[d]
  BY DEF NextAttempt, RelayInv, CallTypes
<1>2. PhaseOf(pc[c]) = "working" /\ PhaseOf(pc'[c]) = "working"
  BY <1>1 DEF PhaseOf, Running
<1>3. Phase' = Phase /\ Verdict' = Verdict /\ Phase[c] = "working"
      /\ Sent' = [Sent EXCEPT ![c] = attempt'[c] > 0]
  BY <1>1, <1>2, MapStep
<1>4. (attempt'[c] > 0) = TRUE BY <1>1
<1>5. Sent' = [Sent EXCEPT ![c] = TRUE] BY <1>3, <1>4
<1> QED BY <1>3, <1>5 DEF Job!Post

LEMMA JobBegin ==
    ASSUME RelayInv, NEW c \in Calls, Begin(c)
    PROVE  Job!Begin(c)
<1>1. /\ pc[c] = "idle" /\ pc'[c] = "preflight" /\ UNCHANGED <<attempt, outcome>>
      /\ \A d \in Calls : d # c => pc'[d] = pc[d]
  BY DEF Begin, RelayInv, CallTypes
<1>2. PhaseOf("idle") = "idle" /\ PhaseOf("preflight") = "working"
  BY DEF PhaseOf, Running
<1>3. /\ Phase[c] = "idle" /\ Phase' = [Phase EXCEPT ![c] = "working"]
      /\ Sent' = Sent /\ Verdict' = Verdict
  BY <1>1, <1>2, MapStep
<1> QED BY <1>3 DEF Job!Begin

\* Raise and Cancel are End.
LEMMA JobEnd ==
    ASSUME RelayInv, NEW c \in Calls, pc[c] \in Running,
           NEW end \in {"raised", "cancelled"}, pc' = [pc EXCEPT ![c] = end],
           UNCHANGED <<attempt, outcome>>
    PROVE  Job!End(c)
<1>1. pc'[c] = end /\ \A d \in Calls : d # c => pc'[d] = pc[d]
  BY DEF RelayInv, CallTypes
<1>2. PhaseOf(pc[c]) = "working" /\ PhaseOf(end) = "ended"
  BY DEF PhaseOf, Running
<1>3. /\ Phase[c] = "working" /\ Phase' = [Phase EXCEPT ![c] = "ended"]
      /\ Sent' = Sent /\ Verdict' = Verdict
  BY <1>1, <1>2, MapStep
<1> QED BY <1>3 DEF Job!End

\* The outcome returned says whether anything was sent.
LEMMA JobReturn ==
    ASSUME RelayInv, RelayInv', NEW c \in Calls, pc[c] \in Running,
           NEW o, Return(c, o), UNCHANGED attempt
    PROVE  Job!Return(c)
<1>1. /\ pc'[c] = "returned" /\ outcome'[c] = o
      /\ \A d \in Calls : d # c => pc'[d] = pc[d] /\ outcome'[d] = outcome[d]
  BY DEF Return, RelayInv, CallTypes
<1>2. /\ o \in RelayOutcome /\ o # NoResult
      /\ Tells(o, attempt[c], heard'[c])
  <2>1. CallOK(c)' /\ CallTypes' BY DEF RelayInv
  <2>2. o # NoResult /\ Tells(o, attempt[c], heard'[c])
    BY <1>1, <2>1 DEF CallOK, CallInv
  <2> QED BY <1>1, <2>1, <2>2 DEF CallTypes
<1>3. /\ Phase[c] = "working" /\ Phase' = [Phase EXCEPT ![c] = "returned"]
      /\ Sent' = Sent /\ (Sent[c] <=> attempt[c] > 0)
      /\ Verdict' = [Verdict EXCEPT ![c] = VerdictOf(o)]
  <2>1. PhaseOf(pc[c]) = "working" /\ PhaseOf("returned") = "returned"
    BY DEF PhaseOf, Running
  <2> QED BY <1>1, <2>1, MapStep
<1>4. /\ o.attempted = Sent[c] /\ o.success \in BOOLEAN /\ (o.success => Sent[c])
  <2>1. o.attempted \in BOOLEAN /\ o.success \in BOOLEAN BY <1>2 DEF RelayOutcome
  <2>2. Sent[c] \in BOOLEAN BY DEF Sent
  <2> QED BY <1>2, <1>3, <2>1, <2>2 DEF Tells
<1>5. VerdictOf(o) = [attempted |-> Sent[c], success |-> o.success]
  BY <1>2, <1>4 DEF VerdictOf
<1> QED BY <1>3, <1>4, <1>5 DEF Job!Return

LEMMA JobFailed ==
    ASSUME RelayInv, RelayInv', NEW c \in Calls, pc[c] = "posting", NEW x, Failed(c, x)
    PROVE  [Job!Next]_(Job!vars)
<1>1. attempt' = attempt BY DEF Failed
<1>2. CASE MayRetry(attempt[c])
  <2>1. pc' = [pc EXCEPT ![c] = "sleeping"] /\ outcome' = outcome
    BY <1>2 DEF Failed
  <2>2. pc'[c] = "sleeping" /\ \A d \in Calls : d # c => pc'[d] = pc[d]
    BY <2>1 DEF RelayInv, CallTypes
  <2>3. PhaseOf(pc'[c]) = PhaseOf(pc[c]) BY <2>2 DEF PhaseOf, Running
  <2>4. UNCHANGED <<Phase, Sent, Verdict>> BY <1>1, <2>1, <2>2, <2>3, MapStep
  <2> QED BY <2>4 DEF Job!vars
<1>3. CASE ~MayRetry(attempt[c])
  <2>1. PICK o : Return(c, o) BY <1>3 DEF Failed
  <2>2. Job!Return(c) BY <1>1, <2>1, JobReturn DEF Running
  <2> QED BY <2>2 DEF Job!Next
<1> QED BY <1>2, <1>3

LEMMA JobStep ==
    ASSUME RelayInv, RelayInv', NEW c \in Calls, Step(c)
    PROVE  [Job!Next]_(Job!vars)
<1>1. CASE Begin(c) BY <1>1, JobBegin DEF Job!Next
<1>2. CASE Refuse(c)
  <2>1. PICK o : Return(c, o) BY <1>2 DEF Refuse
  <2>2. Job!Return(c) BY <1>2, <2>1, JobReturn DEF Refuse, Running
  <2> QED BY <2>2 DEF Job!Next
<1>3. CASE PassPreflight(c) \/ Wake(c)
  <2>1. Job!Post(c) BY <1>3, JobPost DEF PassPreflight, Wake
  <2> QED BY <2>1 DEF Job!Next
<1>4. CASE Raise(c)
  <2>1. Job!End(c) BY <1>4, JobEnd DEF Raise, Running
  <2> QED BY <2>1 DEF Job!Next
<1>5. CASE Succeed(c)
  <2>1. PICK o : Return(c, o) BY <1>5 DEF Succeed
  <2>2. Job!Return(c) BY <1>5, <2>1, JobReturn DEF Succeed, Running
  <2> QED BY <2>2 DEF Job!Next
<1>6. CASE BadResponse(c) \/ Timeout(c) \/ ConnectError(c) \/ HttpError(c)
  <2>1. PICK x : pc[c] = "posting" /\ Failed(c, x)
    BY <1>6 DEF BadResponse, Timeout, ConnectError, HttpError
  <2> QED BY <2>1, JobFailed
<1> QED BY <1>1, <1>2, <1>3, <1>4, <1>5, <1>6 DEF Step

\* relay_event keeps the promise WebhookRelay relies on: it sends nothing or at
\* least once, and its verdict says which, unless it ends without one.
THEOREM ImplementsRelayJob == Spec => JobSpec
<1>1. Init => Job!Init
  <2> SUFFICES ASSUME Init PROVE Job!Init
    OBVIOUS
  <2>1. Phase = [c \in Calls |-> "idle"] BY DEF Init, Phase, Running
  <2>2. Sent = [c \in Calls |-> FALSE]
    <3>1. ASSUME NEW c \in Calls PROVE (attempt[c] > 0) = FALSE
      <4>1. attempt[c] = 0 BY DEF Init
      <4> QED BY <4>1
    <3> QED BY <3>1, Zenon DEF Sent
  <2>3. Verdict = [c \in Calls |-> NoResult] BY DEF Init, Verdict
  <2> QED BY <2>1, <2>2, <2>3 DEF Job!Init
<1>2. RelayInv /\ RelayInv' /\ [Next]_vars => [Job!Next]_(Job!vars)
  <2> SUFFICES ASSUME RelayInv, RelayInv', [Next]_vars PROVE [Job!Next]_(Job!vars)
    OBVIOUS
  <2>1. ASSUME NEW c \in Calls, Cancel(c) PROVE [Job!Next]_(Job!vars)
    <3>1. Job!End(c) BY <2>1, JobEnd DEF Cancel, Interruptible
    <3> QED BY <3>1 DEF Job!Next
  <2>2. CASE \/ \E c \in Calls : Deliver(c)
             \/ StopDispatcher \/ CloseClient \/ UNCHANGED vars
    <3>1. UNCHANGED <<pc, attempt, outcome>>
      BY <2>2 DEF Deliver, StopDispatcher, CloseClient, vars, callVars
    <3> QED BY <3>1, JobStutter
  <2> QED BY <2>1, <2>2, JobStep DEF Next
<1> QED BY <1>1, <1>2, RelayInvariant, PTL DEF Spec, JobSpec, Job!Spec

=============================================================================
