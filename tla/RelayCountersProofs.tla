------------------------ MODULE RelayCountersProofs ------------------------
(***************************************************************************)
(* Proofs about what RelayEvent counts, how long it waits and what reaches *)
(* the target: its metrics, its backoff, its bound on awaits, its outcomes *)
(* against the network, and with them the types of every variable.         *)
(***************************************************************************)
EXTENDS RelayEventProofs, FiniteSetTheorems

USE AttemptsAssumption DEF Attempts

-----------------------------------------------------------------------------
(* Counting *)

\* A set one element larger has one more element.
LEMMA OneMore ==
    ASSUME NEW T, IsFiniteSet(T), NEW S \in SUBSET T, NEW x \in T, x \notin S
    PROVE  Cardinality(S \cup {x}) = Cardinality(S) + 1 /\ Cardinality(S) \in Nat
<1>1. IsFiniteSet(S)
  BY FS_Subset
<1> QED BY <1>1, FS_AddElement, FS_CardinalityType

LEMMA PairsAreFinite == IsFiniteSet(Calls \X Attempts)
<1>1. IsFiniteSet(Attempts)
  BY FS_Interval
<1> QED BY <1>1, CallsAssumption, FS_Product

\* 2 ^ n counts the subsets of a set of n elements.
LEMMA PowerIsPositive == \A n \in Nat : 2 ^ n \in Nat
<1> TAKE n \in Nat
<1>1. IsFiniteSet(1..n) /\ Cardinality(1..n) = n
  BY FS_Interval
<1>2. IsFiniteSet(SUBSET (1..n)) /\ Cardinality(SUBSET (1..n)) = 2 ^ n
  BY <1>1, FS_SUBSET
<1> QED BY <1>2, FS_CardinalityType

-----------------------------------------------------------------------------
(* The backoff *)

LEMMA BackoffType ==
    ASSUME NEW n \in Attempts, NEW j \in Jitter
    PROVE  Backoff(n, j) \in Nat
<1>1. PICK power \in Nat : power = 2 ^ (n - 1)
  BY PowerIsPositive
<1>2. PICK base \in Nat : base = IF 200 * power < 1600 THEN 200 * power ELSE 1600
  OBVIOUS
<1>3. j \in 80..120
  BY JitterAssumption
<1>4. base * j \in Nat
  BY <1>3
<1>5. (base * j) \div 100 \in Nat
  BY <1>4
<1> QED BY <1>1, <1>2, <1>5 DEF Backoff

\* The waits before attempts 2 to 5 grow, whatever the jitter.
LEMMA BackoffOrder ==
    ASSUME NEW n \in Attempts, n <= 3, NEW i \in Jitter, NEW j \in Jitter
    PROVE  Backoff(n, i) < Backoff(n + 1, j)
<1>1. i \in 80..120 /\ j \in 80..120
  BY JitterAssumption
<1>2. 2 ^ 0 = 1 /\ 2 ^ 1 = 2 /\ 2 ^ 2 = 4 /\ 2 ^ 3 = 8
  OBVIOUS
<1>3. CASE n = 1
  <2>1. Backoff(n, i) = (200 * i) \div 100 /\ Backoff(n + 1, j) = (400 * j) \div 100
    BY <1>2, <1>3 DEF Backoff
  <2> QED BY <1>1, <2>1
<1>4. CASE n = 2
  <2>1. Backoff(n, i) = (400 * i) \div 100 /\ Backoff(n + 1, j) = (800 * j) \div 100
    BY <1>2, <1>4 DEF Backoff
  <2> QED BY <1>1, <2>1
<1>5. CASE n = 3
  <2>1. Backoff(n, i) = (800 * i) \div 100 /\ Backoff(n + 1, j) = (1600 * j) \div 100
    BY <1>2, <1>5 DEF Backoff
  <2> QED BY <1>1, <2>1
<1> QED BY <1>3, <1>4, <1>5

LEMMA FirstBackoff ==
    ASSUME NEW j \in Jitter
    PROVE  Backoff(1, j) > 0
<1>1. j \in 80..120
  BY JitterAssumption
<1>2. Backoff(1, j) = (200 * j) \div 100
  <2>1. 2 ^ 0 = 1
    OBVIOUS
  <2> QED BY <2>1 DEF Backoff
<1> QED BY <1>1, <1>2

-----------------------------------------------------------------------------
(* The counters *)

NetOK == net \in [Calls -> [Attempts -> {"none", "flying", "delivered"}]]

BooksInv == NetOK /\ counters \in Counters /\ CountersAgree

\* A step that starts and ends no attempt, and no call with success.
LEMMA QuietBooks ==
    ASSUME BooksInv, UNCHANGED counters, NetOK', Started' = Started,
           EndedAttempts' = EndedAttempts, Succeeded' = Succeeded
    PROVE  BooksInv'
BY DEF BooksInv, CountersAgree

LEMMA BooksInit == Init => BooksInv
<1> SUFFICES ASSUME Init PROVE BooksInv
  OBVIOUS
<1>1. NetOK /\ counters \in Counters
  BY DEF Init, NetOK, Counters
<1>2. Started = {} /\ EndedAttempts = {} /\ Succeeded = {}
  BY DEF Init, Started, EndedAttempts, Succeeded
<1>3. counters.attempts = 0 /\ counters.latencies = 0 /\ counters.successes = 0
  BY DEF Init
<1> QED BY <1>1, <1>2, <1>3, FS_EmptySet DEF BooksInv, CountersAgree

\* PassPreflight and Wake: one more attempt is started.
LEMMA NextAttemptBooks ==
    ASSUME RelayInv, BooksInv, NEW c \in Calls, pc[c] \in {"preflight", "sleeping"},
           NextAttempt(c), UNCHANGED <<outcome, heard>>
    PROVE  BooksInv'
<1> DEFINE k == attempt[c]
<1>1. /\ attempt \in [Calls -> 0..MaxAttempts] /\ k \in 0..MaxAttempts /\ k + 1 \in Attempts
  <2>1. attempt \in [Calls -> 0..MaxAttempts] /\ CallOK(c)
    BY DEF RelayInv, CallTypes
  <2> QED BY <2>1, StartAttempt DEF CallOK
<1>2. /\ attempt' = [attempt EXCEPT ![c] = k + 1]
      /\ net' = [net EXCEPT ![c][k + 1] = "flying"]
      /\ counters' = [counters EXCEPT !.attempts = counters.attempts + 1]
  BY DEF NextAttempt
<1>3. NetOK'
  BY <1>1, <1>2 DEF BooksInv, NetOK
<1>4. Started' = Started \cup {<<c, k + 1>>}
  BY <1>1, <1>2 DEF Started
<1>5. <<c, k + 1>> \notin Started /\ <<c, k + 1>> \in Calls \X Attempts
  BY <1>1 DEF Started
<1>6. Cardinality(Started') = Cardinality(Started) + 1
  <2>1. Started \in SUBSET (Calls \X Attempts)
    BY DEF Started
  <2> QED BY <1>4, <1>5, <2>1, PairsAreFinite, OneMore
<1>7. EndedAttempts' = EndedAttempts /\ Succeeded' = Succeeded
  BY DEF EndedAttempts, Succeeded
<1>8. /\ counters' \in Counters /\ counters'.attempts = counters.attempts + 1
      /\ counters'.latencies = counters.latencies
      /\ counters'.successes = counters.successes
  BY <1>2 DEF BooksInv, Counters
<1> QED BY <1>3, <1>6, <1>7, <1>8 DEF BooksInv, CountersAgree

\* An attempt ends when it hears x.
LEMMA HearBooks ==
    ASSUME RelayInv, NEW c \in Calls, pc[c] = "posting", NEW x, x # None,
           heard' = [heard EXCEPT ![c][attempt[c]] = x]
    PROVE  Cardinality(EndedAttempts') = Cardinality(EndedAttempts) + 1
<1> DEFINE k == attempt[c]
<1>1. k \in Attempts /\ heard[c][k] = None /\ heard \in [Calls -> [Attempts -> Heard]]
  BY DEF RelayInv, CallTypes, CallOK, CallInv
<1>2. EndedAttempts' = EndedAttempts \cup {<<c, k>>}
  BY <1>1 DEF EndedAttempts
<1>3. <<c, k>> \notin EndedAttempts /\ <<c, k>> \in Calls \X Attempts
  BY <1>1 DEF EndedAttempts
<1>4. EndedAttempts \in SUBSET (Calls \X Attempts)
  BY DEF EndedAttempts
<1> QED BY <1>2, <1>3, <1>4, PairsAreFinite, OneMore

LEMMA SucceedBooks ==
    ASSUME RelayInv, BooksInv, NEW c \in Calls, Succeed(c)
    PROVE  BooksInv'
<1>1. PICK o : o = [attempted |-> TRUE, success |-> TRUE, reason |-> "success",
                    status |-> OkStatus, attempts |-> attempt[c], error |-> None]
  OBVIOUS
<1>2. /\ pc[c] = "posting" /\ UNCHANGED <<attempt, net>>
      /\ heard' = [heard EXCEPT ![c][attempt[c]] = OkStatus]
      /\ outcome' = [outcome EXCEPT ![c] = o]
      /\ counters' = [counters EXCEPT !.latencies = counters.latencies + 1,
                                      !.successes = counters.successes + 1]
  BY <1>1 DEF Succeed, Return
<1>3. /\ outcome \in [Calls -> RelayOutcome \cup {NoResult}] /\ outcome[c] = NoResult
      /\ attempt[c] \in Attempts
  BY <1>2 DEF RelayInv, CallTypes, CallOK, CallInv
<1>4. o.success /\ o # NoResult
  <2>1. o \in RelayOutcome
    BY <1>1, <1>3 DEF RelayOutcome, Reason
  <2> QED BY <1>1, <2>1, ResultAssumption
<1>5. Succeeded' = Succeeded \cup {c} /\ c \notin Succeeded /\ Succeeded \in SUBSET Calls
  BY <1>2, <1>3, <1>4 DEF Succeeded
<1>6. Cardinality(Succeeded') = Cardinality(Succeeded) + 1
  BY <1>5, CallsAssumption, OneMore
<1>7. Cardinality(EndedAttempts') = Cardinality(EndedAttempts) + 1
  BY <1>2, Values, HearBooks
<1>8. Started' = Started /\ NetOK'
  BY <1>2 DEF Started, BooksInv, NetOK
<1>9. /\ counters' \in Counters /\ counters'.attempts = counters.attempts
      /\ counters'.latencies = counters.latencies + 1
      /\ counters'.successes = counters.successes + 1
  <2>1. PICK n \in Nat, m \in Nat, l \in Nat :
            counters = [attempts |-> n, successes |-> m, latencies |-> l]
    BY DEF BooksInv, Counters
  <2>2. counters' = [attempts |-> n, successes |-> m + 1, latencies |-> l + 1]
    BY <1>2, <2>1
  <2> QED BY <2>1, <2>2 DEF Counters
<1> QED BY <1>6, <1>7, <1>8, <1>9 DEF BooksInv, CountersAgree

LEMMA FailedBooks ==
    ASSUME RelayInv, BooksInv, NEW c \in Calls, pc[c] = "posting", NEW x \in Bad,
           Failed(c, x), NetOK'
    PROVE  BooksInv'
<1>1. /\ attempt' = attempt /\ heard' = [heard EXCEPT ![c][attempt[c]] = x]
      /\ counters' = [counters EXCEPT !.latencies = counters.latencies + 1]
  BY DEF Failed, Observed
<1>2. Cardinality(EndedAttempts') = Cardinality(EndedAttempts) + 1
  BY <1>1, Values, HearBooks
<1>3. Started' = Started
  BY <1>1 DEF Started
<1>4. outcome \in [Calls -> RelayOutcome \cup {NoResult}] /\ outcome[c] = NoResult
  BY DEF RelayInv, CallTypes, CallOK, CallInv
<1>5. Succeeded' = Succeeded
  <2>1. CASE outcome' = outcome
    BY <2>1 DEF Succeeded
  <2>2. CASE Return(c, Exhausted(last'[c], MaxAttempts))
    <3>1. PICK o : o = Exhausted(last'[c], MaxAttempts)
      OBVIOUS
    <3>2. ~o.success /\ outcome' = [outcome EXCEPT ![c] = o]
      BY <2>2, <3>1 DEF Exhausted, Return
    <3> QED BY <1>4, <3>2 DEF Succeeded
  <2> QED BY <2>1, <2>2 DEF Failed
<1>6. /\ counters' \in Counters /\ counters'.attempts = counters.attempts
      /\ counters'.latencies = counters.latencies + 1
      /\ counters'.successes = counters.successes
  BY <1>1 DEF BooksInv, Counters
<1> QED BY <1>2, <1>3, <1>5, <1>6 DEF BooksInv, CountersAgree

LEMMA RefuseBooks ==
    ASSUME RelayInv, BooksInv, NEW c \in Calls, Refuse(c)
    PROVE  BooksInv'
<1>1. PICK o : ~o.success /\ outcome' = [outcome EXCEPT ![c] = o]
  BY DEF Refuse, Return, Refused
<1>2. outcome \in [Calls -> RelayOutcome \cup {NoResult}] /\ outcome[c] = NoResult
  BY DEF RelayInv, CallTypes, CallOK, CallInv, Refuse
<1>3. Succeeded' = Succeeded
  BY <1>1, <1>2 DEF Succeeded
<1>4. UNCHANGED <<attempt, counters, net, heard>>
  BY DEF Refuse
<1>5. Started' = Started /\ EndedAttempts' = EndedAttempts /\ NetOK'
  BY <1>4 DEF Started, EndedAttempts, BooksInv, NetOK
<1> QED BY <1>3, <1>4, <1>5, QuietBooks

LEMMA BooksNext == RelayInv /\ BooksInv /\ [Next]_vars => BooksInv'
<1> SUFFICES ASSUME RelayInv, BooksInv, [Next]_vars PROVE BooksInv'
  OBVIOUS
<1>1. ASSUME UNCHANGED <<attempt, outcome, counters, heard>>, NetOK' PROVE BooksInv'
  <2>1. Started' = Started /\ EndedAttempts' = EndedAttempts /\ Succeeded' = Succeeded
    BY <1>1 DEF Started, EndedAttempts, Succeeded
  <2> QED BY <1>1, <2>1, QuietBooks
<1>2. ASSUME UNCHANGED net PROVE NetOK'
  BY <1>2 DEF BooksInv, NetOK
<1>3. ASSUME NEW c \in Calls, pc[c] = "posting",
             net' = [net EXCEPT ![c][attempt[c]] = "none"]
      PROVE  NetOK'
  <2>1. attempt[c] \in Attempts
    BY <1>3 DEF RelayInv, CallOK, CallInv
  <2> QED BY <1>3, <2>1 DEF BooksInv, NetOK
<1>4. ASSUME NEW c \in Calls, Step(c) PROVE BooksInv'
  <2>1. CASE Begin(c)
    BY <1>1, <1>2, <2>1 DEF Begin
  <2>2. CASE PassPreflight(c) \/ Wake(c)
    BY <2>2, NextAttemptBooks DEF PassPreflight, Wake
  <2>3. CASE Raise(c)
    BY <1>1, <1>2, <1>3, <2>3 DEF Raise
  <2>4. CASE BadResponse(c) \/ Timeout(c) \/ ConnectError(c) \/ HttpError(c)
    <3>1. NetOK'
      BY <1>2, <1>3, <2>4 DEF BadResponse, Timeout, ConnectError, HttpError
    <3>2. PICK x \in Bad : pc[c] = "posting" /\ Failed(c, x)
      BY <2>4 DEF BadResponse, Timeout, ConnectError, HttpError, Bad, Failures
    <3> QED BY <3>1, <3>2, FailedBooks
  <2> QED BY <1>4, <2>1, <2>2, <2>3, <2>4, RefuseBooks, SucceedBooks DEF Step
<1>5. ASSUME NEW c \in Calls, Deliver(c) PROVE BooksInv'
  <2>1. NetOK'
    BY <1>5 DEF Deliver, BooksInv, NetOK
  <2> QED BY <1>1, <1>5, <2>1 DEF Deliver, callVars
<1>6. CASE \/ \E c \in Calls : Cancel(c)
           \/ StopDispatcher \/ CloseClient \/ UNCHANGED vars
  BY <1>1, <1>2, <1>6 DEF Cancel, StopDispatcher, CloseClient, vars, callVars
<1> QED BY <1>4, <1>5, <1>6 DEF Next

LEMMA BooksInvariant == Spec => []BooksInv
BY BooksInit, BooksNext, RelayInvariant, PTL DEF Spec

\* Every POST started is counted, every one that ended has a latency, every
\* success is an outcome, whatever steps the calls take between each other's.
THEOREM CountersAgreeAlways == Spec => []CountersAgree
<1>1. BooksInv => CountersAgree
  BY DEF BooksInv
<1> QED BY <1>1, BooksInvariant, PTL

-----------------------------------------------------------------------------
(* The delay *)

\* A call has waited for nothing before its first attempt, and before any other
\* it waited for the backoff of the attempt before.
DelayOK(c) ==
    /\ pc[c] \in {"idle", "preflight"} => delay[c] = 0
    /\ (pc[c] = "posting" /\ attempt[c] = 1) => delay[c] = 0
    /\ (pc[c] = "posting" /\ attempt[c] # 1) =>
           \E j \in Jitter : delay[c] = Backoff(attempt[c] - 1, j)
    /\ pc[c] = "sleeping" => \E j \in Jitter : delay[c] = Backoff(attempt[c], j)

DelayInv == delay \in [Calls -> Nat] /\ \A c \in Calls : DelayOK(c)

LEMMA DelayStep ==
    ASSUME DelayInv, NEW c \in Calls, delay' \in [Calls -> Nat], DelayOK(c)',
           \A d \in Calls : d # c =>
               pc'[d] = pc[d] /\ attempt'[d] = attempt[d] /\ delay'[d] = delay[d]
    PROVE  DelayInv'
<1>1. \A d \in Calls : d # c => DelayOK(d)'
  BY DEF DelayInv, DelayOK
<1> QED BY <1>1 DEF DelayInv

\* A call that returns, raises or is cancelled keeps its delay.
LEMMA EndedDelay ==
    ASSUME RelayInv, DelayInv, NEW c \in Calls, NEW end \in Ended,
           pc' = [pc EXCEPT ![c] = end], UNCHANGED <<attempt, delay>>
    PROVE  DelayInv'
<1>1. pc'[c] = end /\ \A d \in Calls : d # c => pc'[d] = pc[d]
  BY DEF RelayInv, CallTypes
<1>2. DelayOK(c)'
  BY <1>1 DEF DelayOK, Ended
<1>3. delay' \in [Calls -> Nat]
  BY DEF DelayInv
<1> QED BY <1>1, <1>2, <1>3, DelayStep

LEMMA NextAttemptDelay ==
    ASSUME RelayInv, DelayInv, NEW c \in Calls, pc[c] \in {"preflight", "sleeping"},
           NextAttempt(c), UNCHANGED delay
    PROVE  DelayInv'
<1>1. /\ pc'[c] = "posting" /\ attempt'[c] = attempt[c] + 1 /\ attempt[c] \in 0..MaxAttempts
      /\ \A d \in Calls : d # c => pc'[d] = pc[d] /\ attempt'[d] = attempt[d]
  BY DEF NextAttempt, RelayInv, CallTypes
<1>2. /\ pc[c] = "preflight" => attempt[c] = 0
      /\ pc[c] = "sleeping" => attempt[c] \in Attempts
  BY DEF RelayInv, CallOK, CallInv
<1>3. attempt'[c] - 1 = attempt[c]
  BY <1>1
<1>4. DelayOK(c)'
  <2>1. CASE pc[c] = "preflight"
    BY <1>1, <1>2, <2>1 DEF DelayInv, DelayOK
  <2>2. CASE pc[c] = "sleeping"
    <3>1. \E j \in Jitter : delay'[c] = Backoff(attempt'[c] - 1, j)
      BY <1>3, <2>2 DEF DelayInv, DelayOK
    <3>2. attempt'[c] # 1
      BY <1>1, <1>2, <2>2
    <3> QED BY <1>1, <3>1, <3>2 DEF DelayOK
  <2> QED BY <2>1, <2>2
<1> QED BY <1>1, <1>4, DelayStep DEF DelayInv

\* What a failed attempt does to the delay.
LEMMA FailedDelay ==
    ASSUME RelayInv, DelayInv, NEW c \in Calls, pc[c] = "posting", NEW x, Failed(c, x)
    PROVE  /\ DelayInv'
           /\ pc'[c] = "sleeping" =>
                  /\ attempt[c] < MaxAttempts
                  /\ \E j \in Jitter : delay'[c] = Backoff(attempt[c], j)
           /\ \A d \in Calls : d # c => pc'[d] = pc[d]
<1>1. attempt' = attempt /\ attempt[c] \in Attempts /\ delay \in [Calls -> Nat]
  BY DEF Failed, RelayInv, CallOK, CallInv, DelayInv
<1>2. CASE MayRetry(attempt[c])
  <2>1. PICK j \in Jitter : delay' = [delay EXCEPT ![c] = Backoff(attempt[c], j)]
    BY <1>2 DEF Failed
  <2>2. PICK wait \in Nat : wait = Backoff(attempt[c], j)
    BY <1>1, BackoffType
  <2>3. delay' \in [Calls -> Nat] /\ delay'[c] = wait
    BY <1>1, <2>1, <2>2
  <2>4. pc'[c] = "sleeping" /\ \A d \in Calls : d # c => pc'[d] = pc[d] /\ delay'[d] = delay[d]
    BY <1>1, <1>2, <2>1 DEF Failed, RelayInv, CallTypes
  <2>5. wait = Backoff(attempt'[c], j)
    BY <1>1, <2>2
  <2>6. DelayOK(c)'
    BY <2>3, <2>4, <2>5 DEF DelayOK
  <2> QED BY <1>1, <1>2, <2>2, <2>3, <2>4, <2>6, DelayStep DEF MayRetry
<1>3. CASE ~MayRetry(attempt[c])
  <2>1. pc' = [pc EXCEPT ![c] = "returned"] /\ delay' = delay
    BY <1>3 DEF Failed, Return
  <2>2. DelayInv'
    BY <1>1, <2>1, EndedDelay DEF Ended
  <2> QED BY <2>1, <2>2 DEF RelayInv, CallTypes
<1> QED BY <1>2, <1>3

LEMMA DelayInit == Init => DelayInv
BY DEF Init, DelayInv, DelayOK

LEMMA DelayNext == RelayInv /\ DelayInv /\ [Next]_vars => DelayInv'
<1> SUFFICES ASSUME RelayInv, DelayInv, [Next]_vars PROVE DelayInv'
  OBVIOUS
<1>1. ASSUME NEW c \in Calls, Step(c) PROVE DelayInv'
  <2>1. CASE Begin(c)
    <3>1. /\ pc[c] = "idle" /\ pc'[c] = "preflight" /\ UNCHANGED <<attempt, delay>>
          /\ \A d \in Calls : d # c => pc'[d] = pc[d]
      BY <2>1 DEF Begin, RelayInv, CallTypes
    <3>2. DelayOK(c)' /\ delay' \in [Calls -> Nat]
      BY <3>1 DEF DelayInv, DelayOK
    <3> QED BY <3>1, <3>2, DelayStep
  <2>2. CASE PassPreflight(c) \/ Wake(c)
    BY <2>2, NextAttemptDelay DEF PassPreflight, Wake
  <2>3. CASE Refuse(c) \/ Raise(c) \/ Succeed(c)
    <3>1. PICK end \in Ended : pc' = [pc EXCEPT ![c] = end] /\ UNCHANGED <<attempt, delay>>
      BY <2>3 DEF Refuse, Raise, Succeed, Return, Ended
    <3> QED BY <3>1, EndedDelay
  <2>4. CASE BadResponse(c) \/ Timeout(c) \/ ConnectError(c) \/ HttpError(c)
    <3>1. PICK x : pc[c] = "posting" /\ Failed(c, x)
      BY <2>4 DEF BadResponse, Timeout, ConnectError, HttpError
    <3> QED BY <3>1, FailedDelay
  <2> QED BY <1>1, <2>1, <2>2, <2>3, <2>4 DEF Step
<1>2. ASSUME NEW c \in Calls, Cancel(c) PROVE DelayInv'
  BY <1>2, EndedDelay DEF Cancel, Ended
<1>3. CASE (\E c \in Calls : Deliver(c)) \/ StopDispatcher \/ CloseClient \/ UNCHANGED vars
  <2>1. UNCHANGED <<pc, attempt, delay>>
    BY <1>3 DEF Deliver, StopDispatcher, CloseClient, vars, callVars
  <2> QED BY <2>1 DEF DelayInv, DelayOK
<1> QED BY <1>1, <1>2, <1>3 DEF Next

LEMMA DelayInvariant == Spec => []DelayInv
BY DelayInit, DelayNext, RelayInvariant, PTL DEF Spec

\* The types of all variables, with the millisecond delays of any attempt.
THEOREM TypeCorrect == Spec => []TypeOK
<1>1. RelayInv /\ BooksInv /\ DelayInv => TypeOK
  BY DEF RelayInv, CallTypes, BooksInv, NetOK, DelayInv, TypeOK
<1> QED BY <1>1, RelayInvariant, BooksInvariant, DelayInvariant, PTL

\* A step puts a call to sleep only by an attempt that failed.
LEMMA SleepStep ==
    ASSUME RelayInv, DelayInv, [Next]_vars, NEW c \in Calls,
           pc[c] = "posting", pc'[c] = "sleeping"
    PROVE  attempt[c] < MaxAttempts /\ \E j \in Jitter : delay'[c] = Backoff(attempt[c], j)
<1>1. pc \in [Calls -> Running \cup Ended \cup {"idle"}]
  BY DEF RelayInv, CallTypes
<1>2. ASSUME NEW d \in Calls, NEW p \in {"preflight", "posting"} \cup Ended,
             pc' = [pc EXCEPT ![d] = p]
      PROVE  FALSE
  BY <1>1, <1>2 DEF Ended
<1>3. ASSUME NEW d \in Calls, NEW x, pc[d] = "posting", Failed(d, x)
      PROVE  attempt[c] < MaxAttempts /\ \E j \in Jitter : delay'[c] = Backoff(attempt[c], j)
  BY <1>3, FailedDelay
<1>4. ASSUME NEW d \in Calls, Step(d) PROVE \E x : pc[d] = "posting" /\ Failed(d, x)
  BY <1>2, <1>4
     DEF Step, Begin, Refuse, PassPreflight, Wake, NextAttempt, Raise, Succeed, Return,
         BadResponse, Timeout, ConnectError, HttpError, Ended
<1>5. CASE \E d \in Calls : Step(d)
  BY <1>3, <1>4, <1>5
<1>6. CASE \/ \E d \in Calls : Deliver(d) \/ Cancel(d)
           \/ StopDispatcher \/ CloseClient \/ UNCHANGED vars
  BY <1>2, <1>6 DEF Deliver, Cancel, StopDispatcher, CloseClient, vars, callVars, Ended
<1> QED BY <1>5, <1>6 DEF Next

\* Each wait of a call is longer than the one before it, however the jitter
\* falls, as long as the cap of 1.6 s makes no two of them equal: up to 5
\* attempts, where the code makes 4.
THEOREM BackoffGrowsAlways ==
    ASSUME MaxAttempts <= 5
    PROVE  Spec => BackoffGrows
<1>1. ASSUME RelayInv, DelayInv, [Next]_vars,
             NEW c \in Calls, pc[c] = "posting", pc'[c] = "sleeping"
      PROVE  delay'[c] > delay[c]
  <2>1. attempt[c] \in Attempts /\ attempt[c] < MaxAttempts /\ DelayOK(c)
    BY <1>1, SleepStep DEF RelayInv, CallOK, CallInv, DelayInv
  <2>2. PICK j \in Jitter : delay'[c] = Backoff(attempt[c], j)
    BY <1>1, SleepStep
  <2>3. CASE attempt[c] = 1
    BY <1>1, <2>1, <2>2, <2>3, FirstBackoff DEF DelayOK
  <2>4. CASE attempt[c] # 1
    <3>1. PICK i \in Jitter : delay[c] = Backoff(attempt[c] - 1, i)
      BY <1>1, <2>1, <2>4 DEF DelayOK
    <3>2. PICK n : n = attempt[c] - 1
      OBVIOUS
    <3>3. n \in Attempts /\ n <= 3 /\ attempt[c] = n + 1
      BY <2>1, <2>4, <3>2
    <3>4. Backoff(n, i) < Backoff(n + 1, j)
      BY <3>3, BackoffOrder
    <3>5. Backoff(n, i) \in Nat /\ Backoff(n + 1, j) \in Nat
      BY <2>1, <3>3, BackoffType
    <3> QED BY <2>2, <3>1, <3>2, <3>3, <3>4, <3>5
  <2> QED BY <2>3, <2>4
<1>2. RelayInv /\ DelayInv /\ [Next]_vars =>
        (\A c \in Calls : (pc[c] = "posting" /\ pc'[c] = "sleeping") => delay'[c] > delay[c])
  BY <1>1
<1> QED BY <1>2, RelayInvariant, DelayInvariant, PTL DEF Spec, BackoffGrows

-----------------------------------------------------------------------------
(* The awaits of a call *)

AwaitsOf(p, k) ==
    CASE p = "idle"      -> 2 * MaxAttempts + 1
      [] p = "preflight" -> 2 * MaxAttempts
      [] p = "posting"   -> 2 * (MaxAttempts - k) + 1
      [] p = "sleeping"  -> 2 * (MaxAttempts - k)
      [] OTHER           -> 0

\* The edges of a call, and what is known of its attempt on each.
Edge(p, k, q, n) ==
    \/ p = "idle" /\ q = "preflight" /\ n = k
    \/ p = "preflight" /\ k = 0 /\ q = "posting" /\ n = 1
    \/ p = "posting" /\ k < MaxAttempts /\ q = "sleeping" /\ n = k
    \/ p = "sleeping" /\ k < MaxAttempts /\ q = "posting" /\ n = k + 1
    \/ p \in Running /\ (p = "sleeping" => k < MaxAttempts) /\ q \in Ended /\ n = k

LEMMA EdgeWindsDown ==
    ASSUME NEW p, NEW q, NEW k \in 0..MaxAttempts, NEW n, Edge(p, k, q, n)
    PROVE  AwaitsOf(q, n) \in 0..(AwaitsOf(p, k) - 1)
BY DEF Edge, AwaitsOf, Running, Ended

\* A step of call d is one of its edges, and no other call moves.
LEMMA CallEdge ==
    ASSUME RelayInv, [Next]_vars, NEW c \in Calls
    PROVE  UNCHANGED <<pc[c], attempt[c]>> \/ Edge(pc[c], attempt[c], pc'[c], attempt'[c])
<1> DEFINE Goal == \/ UNCHANGED <<pc[c], attempt[c]>>
                   \/ Edge(pc[c], attempt[c], pc'[c], attempt'[c])
<1>1. /\ pc \in [Calls -> Running \cup Ended \cup {"idle"}]
      /\ attempt \in [Calls -> 0..MaxAttempts]
      /\ \A d \in Calls : /\ pc[d] = "preflight" => attempt[d] = 0
                          /\ pc[d] = "sleeping" => attempt[d] < MaxAttempts
                          /\ pc[d] = "posting" => attempt[d] \in Attempts
  BY DEF RelayInv, CallTypes, CallOK, CallInv
<1>2. ASSUME NEW d \in Calls, NEW p \in Ended, pc[d] \in Running,
             pc' = [pc EXCEPT ![d] = p], attempt' = attempt
      PROVE  Goal
  BY <1>1, <1>2 DEF Edge
<1>3. ASSUME NEW d \in Calls, pc[d] \in {"preflight", "sleeping"}, NextAttempt(d)
      PROVE  Goal
  <2>1. /\ pc' = [pc EXCEPT ![d] = "posting"]
        /\ attempt' = [attempt EXCEPT ![d] = attempt[d] + 1]
    BY <1>3 DEF NextAttempt
  <2>2. CASE d = c
    BY <1>1, <1>3, <2>1, <2>2 DEF Edge
  <2>3. CASE d # c
    BY <1>1, <2>1, <2>3
  <2> QED BY <2>2, <2>3
<1>4. ASSUME NEW d \in Calls, NEW x, pc[d] = "posting", Failed(d, x) PROVE Goal
  <2>1. attempt' = attempt
    BY <1>4 DEF Failed
  <2>2. CASE MayRetry(attempt[d])
    <3>1. pc' = [pc EXCEPT ![d] = "sleeping"] /\ attempt[d] < MaxAttempts
      BY <1>4, <2>2 DEF Failed, MayRetry
    <3> QED BY <1>1, <1>4, <2>1, <3>1 DEF Edge
  <2>3. CASE ~MayRetry(attempt[d])
    <3>1. pc' = [pc EXCEPT ![d] = "returned"]
      BY <1>4, <2>3 DEF Failed, Return
    <3> QED BY <1>2, <1>4, <2>1, <3>1 DEF Running, Ended
  <2> QED BY <2>2, <2>3
<1>5. ASSUME NEW d \in Calls, Begin(d) PROVE Goal
  BY <1>1, <1>5 DEF Begin, Edge
<1>6. ASSUME NEW d \in Calls, Refuse(d) \/ Raise(d) \/ Succeed(d) \/ Cancel(d) PROVE Goal
  <2>1. PICK p \in Ended : pc' = [pc EXCEPT ![d] = p] /\ attempt' = attempt
    BY <1>6 DEF Refuse, Raise, Succeed, Cancel, Return, Ended
  <2>2. pc[d] \in Running
    BY <1>6 DEF Refuse, Raise, Succeed, Cancel, Interruptible, Running
  <2> QED BY <1>2, <2>1, <2>2
<1>7. ASSUME NEW d \in Calls, Step(d) PROVE Goal
  <2>1. CASE PassPreflight(d) \/ Wake(d)
    BY <1>3, <2>1 DEF PassPreflight, Wake
  <2>2. CASE BadResponse(d) \/ Timeout(d) \/ ConnectError(d) \/ HttpError(d)
    <3>1. PICK x : pc[d] = "posting" /\ Failed(d, x)
      BY <2>2 DEF BadResponse, Timeout, ConnectError, HttpError
    <3> QED BY <1>4, <3>1
  <2> QED BY <1>5, <1>6, <1>7, <2>1, <2>2 DEF Step
<1>8. CASE (\E d \in Calls : Deliver(d)) \/ StopDispatcher \/ CloseClient \/ UNCHANGED vars
  BY <1>8 DEF Deliver, StopDispatcher, CloseClient, vars, callVars
<1> QED BY <1>6, <1>7, <1>8 DEF Next

\* A call comes to at most 2 * MaxAttempts awaits, whatever the network answers
\* and whenever shutdown comes: each of its steps leaves it fewer.  Fairness has
\* only to see to it that the steps are taken.
THEOREM CallWindsDownAlways == Spec => CallWindsDown
<1>1. ASSUME RelayInv, [Next]_vars, NEW c \in Calls
      PROVE  \/ UNCHANGED <<pc[c], attempt[c]>>
             \/ AwaitsLeft(c)' \in 0..(AwaitsLeft(c) - 1)
  <2>1. AwaitsLeft(c) = AwaitsOf(pc[c], attempt[c])
    BY DEF AwaitsLeft, AwaitsOf
  <2>2. AwaitsLeft(c)' = AwaitsOf(pc'[c], attempt'[c])
    BY DEF AwaitsLeft, AwaitsOf
  <2>3. attempt[c] \in 0..MaxAttempts
    BY <1>1 DEF RelayInv, CallTypes
  <2> QED BY <1>1, <2>1, <2>2, <2>3, CallEdge, EdgeWindsDown
<1>2. RelayInv /\ [Next]_vars =>
        \A c \in Calls : \/ UNCHANGED <<pc[c], attempt[c]>>
                         \/ AwaitsLeft(c)' \in 0..(AwaitsLeft(c) - 1)
  BY <1>1
<1> QED BY <1>2, RelayInvariant, PTL DEF Spec, CallWindsDown

-----------------------------------------------------------------------------
(* What the target saw *)

\* Nothing is sent of an attempt not started, whoever answered was reached, and
\* the status of an outcome is that of the last answer.
SawOK(c) ==
    /\ \A n \in Attempts : net[c][n] # "none" => n <= attempt[c]
    /\ \A n \in Attempts : heard[c][n] \in BadStatus \cup {OkStatus} => net[c][n] = "delivered"
    /\ outcome[c] # NoResult => IsLast(outcome[c].status, attempt[c], heard[c])

SawInv == \A c \in Calls : SawOK(c)

LEMMA SawStep ==
    ASSUME SawInv, NEW c \in Calls, SawOK(c)',
           \A d \in Calls : d # c => /\ attempt'[d] = attempt[d] /\ outcome'[d] = outcome[d]
                                     /\ heard'[d] = heard[d] /\ net'[d] = net[d]
    PROVE  SawInv'
BY DEF SawInv, SawOK

LEMMA SawInit == Init => SawInv
<1> SUFFICES ASSUME Init, NEW c \in Calls PROVE SawOK(c)
  BY DEF SawInv
<1>1. /\ outcome[c] = NoResult
      /\ \A n \in Attempts : net[c][n] = "none" /\ heard[c][n] = None
  BY DEF Init
<1> QED BY <1>1, StatusAssumption DEF SawOK

LEMMA RefuseSaw ==
    ASSUME RelayInv, SawInv, NEW c \in Calls, Refuse(c)
    PROVE  SawInv'
<1>1. PICK o : o.status = None /\ outcome' = [outcome EXCEPT ![c] = o]
  BY DEF Refuse, Return, Refused
<1>2. /\ UNCHANGED <<attempt, net, heard>> /\ attempt[c] = 0
      /\ outcome \in [Calls -> RelayOutcome \cup {NoResult}]
  BY DEF Refuse, RelayInv, CallTypes, CallOK, CallInv
<1>3. outcome'[c] = o /\ \A d \in Calls : d # c => outcome'[d] = outcome[d]
  BY <1>1, <1>2
<1>4. IsLast(None, 0, heard[c])
  BY DEF IsLast, AnswersOf
<1>5. SawOK(c)'
  BY <1>1, <1>2, <1>3, <1>4 DEF SawInv, SawOK
<1> QED BY <1>2, <1>3, <1>5, SawStep

LEMMA NextAttemptSaw ==
    ASSUME RelayInv, BooksInv, SawInv, NEW c \in Calls, pc[c] \in {"preflight", "sleeping"},
           NextAttempt(c), UNCHANGED <<outcome, heard>>
    PROVE  SawInv'
<1> DEFINE k == attempt[c]
<1>1. /\ attempt \in [Calls -> 0..MaxAttempts] /\ k + 1 \in Attempts
      /\ heard[c][k + 1] = None /\ outcome[c] = NoResult
  <2>1. attempt \in [Calls -> 0..MaxAttempts] /\ CallOK(c)
    BY DEF RelayInv, CallTypes
  <2>2. k + 1 \in Attempts
    BY <2>1, StartAttempt DEF CallOK
  <2> QED BY <2>1, <2>2 DEF CallOK, CallInv
<1>2. /\ attempt' = [attempt EXCEPT ![c] = k + 1]
      /\ net' = [net EXCEPT ![c][k + 1] = "flying"]
  BY DEF NextAttempt
<1>3. /\ attempt'[c] = k + 1 /\ \A n \in Attempts : n # k + 1 => net'[c][n] = net[c][n]
      /\ \A d \in Calls : d # c => attempt'[d] = attempt[d] /\ net'[d] = net[d]
  BY <1>1, <1>2 DEF BooksInv, NetOK
<1>4. SawOK(c)'
  <2>1. \A n \in Attempts : net'[c][n] # "none" => n <= attempt'[c]
    BY <1>1, <1>3 DEF SawInv, SawOK
  <2>2. \A n \in Attempts :
            heard'[c][n] \in BadStatus \cup {OkStatus} => net'[c][n] = "delivered"
    BY <1>1, <1>3, StatusAssumption DEF SawInv, SawOK
  <2> QED BY <1>1, <2>1, <2>2 DEF SawOK
<1> QED BY <1>3, <1>4, SawStep

\* A request that is answered has arrived; one that is taken back was not.
LEMMA HearSaw ==
    ASSUME RelayInv, BooksInv, SawInv, NEW c \in Calls, pc[c] = "posting",
           NEW x \in Bad \cup {OkStatus}, UNCHANGED attempt,
           heard' = [heard EXCEPT ![c][attempt[c]] = x],
           \/ net' = net
           \/ net' = [net EXCEPT ![c][attempt[c]] = "none"],
           x \in BadStatus \cup {OkStatus} => net'[c][attempt[c]] = "delivered"
    PROVE  /\ \A n \in Attempts : net'[c][n] # "none" => n <= attempt'[c]
           /\ \A n \in Attempts :
                  heard'[c][n] \in BadStatus \cup {OkStatus} => net'[c][n] = "delivered"
           /\ \A d \in Calls : d # c => heard'[d] = heard[d] /\ net'[d] = net[d]
<1> DEFINE k == attempt[c]
<1>1. k \in Attempts /\ heard \in [Calls -> [Attempts -> Heard]]
  BY DEF RelayInv, CallTypes, CallOK, CallInv
<1>2. /\ heard'[c][k] = x /\ \A n \in Attempts : n # k => heard'[c][n] = heard[c][n]
      /\ \A d \in Calls : d # c => heard'[d] = heard[d]
  BY <1>1
<1>3. /\ \A n \in Attempts : n # k => net'[c][n] = net[c][n]
      /\ \A d \in Calls : d # c => net'[d] = net[d]
  BY <1>1 DEF BooksInv, NetOK
<1>4. /\ \A n \in Attempts : net[c][n] # "none" => n <= k
      /\ \A n \in Attempts : heard[c][n] \in BadStatus \cup {OkStatus} => net[c][n] = "delivered"
  BY DEF SawInv, SawOK
<1>5. \A n \in Attempts : net'[c][n] # "none" => n <= k
  BY <1>1, <1>3, <1>4
<1>6. \A n \in Attempts : heard'[c][n] \in BadStatus \cup {OkStatus} => net'[c][n] = "delivered"
  <2> TAKE n \in Attempts
  <2>1. CASE n = k
    BY <1>2, <2>1
  <2>2. CASE n # k
    BY <1>2, <1>3, <1>4, <2>2
  <2> QED BY <2>1, <2>2
<1> QED BY <1>2, <1>3, <1>5, <1>6

LEMMA SucceedSaw ==
    ASSUME RelayInv, BooksInv, SawInv, NEW c \in Calls, Succeed(c)
    PROVE  SawInv'
<1>1. PICK o : o = [attempted |-> TRUE, success |-> TRUE, reason |-> "success",
                    status |-> OkStatus, attempts |-> attempt[c], error |-> None]
  OBVIOUS
<1>2. /\ pc[c] = "posting" /\ net[c][attempt[c]] = "delivered" /\ UNCHANGED <<attempt, net>>
      /\ heard' = [heard EXCEPT ![c][attempt[c]] = OkStatus]
      /\ outcome' = [outcome EXCEPT ![c] = o]
  BY <1>1 DEF Succeed, Return
<1>3. /\ \A n \in Attempts : net'[c][n] # "none" => n <= attempt'[c]
      /\ \A n \in Attempts :
             heard'[c][n] \in BadStatus \cup {OkStatus} => net'[c][n] = "delivered"
      /\ \A d \in Calls : d # c => heard'[d] = heard[d] /\ net'[d] = net[d]
  BY <1>2, HearSaw
<1>4. /\ outcome'[c] = o /\ \A d \in Calls : d # c => outcome'[d] = outcome[d]
      /\ attempt[c] \in Attempts /\ heard'[c][attempt[c]] = OkStatus
  BY <1>2 DEF RelayInv, CallTypes, CallOK, CallInv
<1>5. IsLast(OkStatus, attempt[c], heard'[c])
  <2>1. attempt[c] \in AnswersOf(attempt[c], heard'[c])
    BY <1>4 DEF AnswersOf
  <2>2. \A n \in AnswersOf(attempt[c], heard'[c]) : n <= attempt[c]
    BY <1>4 DEF AnswersOf
  <2> QED BY <1>4, <2>1, <2>2 DEF IsLast
<1>6. SawOK(c)'
  BY <1>1, <1>2, <1>3, <1>4, <1>5 DEF SawOK
<1> QED BY <1>2, <1>3, <1>4, <1>6, SawStep

\* BadResponse, Timeout, ConnectError and HttpError.
LEMMA FailedSaw ==
    ASSUME RelayInv, BooksInv, SawInv, NEW c \in Calls, pc[c] = "posting",
           NEW x \in Bad, Failed(c, x),
           net' = net \/ net' = [net EXCEPT ![c][attempt[c]] = "none"],
           x \in BadStatus => net'[c][attempt[c]] = "delivered"
    PROVE  SawInv'
<1> DEFINE k == attempt[c]
<1>1. /\ UNCHANGED attempt /\ heard' = [heard EXCEPT ![c][k] = x]
      /\ last' = [last EXCEPT ![c] = Noted(last[c], x)]
  BY DEF Failed
<1>2. /\ \A n \in Attempts : net'[c][n] # "none" => n <= attempt'[c]
      /\ \A n \in Attempts :
             heard'[c][n] \in BadStatus \cup {OkStatus} => net'[c][n] = "delivered"
      /\ \A d \in Calls : d # c => heard'[d] = heard[d] /\ net'[d] = net[d]
  <2>1. x \in BadStatus \cup {OkStatus} => net'[c][attempt[c]] = "delivered"
    BY Values
  <2> QED BY <1>1, <2>1, HearSaw
<1>3. /\ k \in 0..MaxAttempts /\ last[c] \in Local /\ heard[c] \in [Attempts -> Heard]
      /\ CallInv("posting", k, last[c].status, outcome[c], heard[c])
  BY DEF RelayInv, CallOK, CallTypes
<1>4. HasHeard(k, Noted(last[c], x), x, [heard[c] EXCEPT ![k] = x])
  BY <1>3, HearFailure
<1>5. /\ heard'[c] = [heard[c] EXCEPT ![k] = x] /\ last'[c] = Noted(last[c], x)
      /\ outcome \in [Calls -> RelayOutcome \cup {NoResult}] /\ outcome[c] = NoResult
  BY <1>1, <1>3 DEF RelayInv, CallTypes, CallInv
<1>6. IsLast(last'[c].status, k, heard'[c])
  BY <1>4, <1>5 DEF HasHeard
<1>7. /\ \A d \in Calls : d # c => outcome'[d] = outcome[d]
      /\ outcome'[c] # NoResult => outcome'[c].status = last'[c].status
  <2>1. CASE outcome' = outcome
    BY <1>5, <2>1
  <2>2. CASE Return(c, Exhausted(last'[c], MaxAttempts))
    BY <1>5, <2>2 DEF Return, Exhausted
  <2> QED BY <2>1, <2>2 DEF Failed
<1>8. SawOK(c)'
  BY <1>1, <1>2, <1>6, <1>7 DEF SawOK
<1> QED BY <1>1, <1>2, <1>7, <1>8, SawStep

LEMMA SawNext == RelayInv /\ BooksInv /\ SawInv /\ [Next]_vars => SawInv'
<1> SUFFICES ASSUME RelayInv, BooksInv, SawInv, [Next]_vars PROVE SawInv'
  OBVIOUS
<1>1. ASSUME UNCHANGED <<attempt, outcome, heard, net>> PROVE SawInv'
  BY <1>1 DEF SawInv, SawOK
<1>2. ASSUME NEW c \in Calls, Raise(c) PROVE SawInv'
  <2>1. CASE pc[c] = "preflight"
    BY <1>1, <1>2, <2>1 DEF Raise
  <2>2. CASE pc[c] = "posting"
    <3>1. /\ attempt[c] \in Attempts /\ heard[c][attempt[c]] = None
          /\ UNCHANGED <<attempt, outcome, heard>>
          /\ net' = [net EXCEPT ![c][attempt[c]] = "none"]
      BY <1>2, <2>2 DEF Raise, RelayInv, CallOK, CallInv
    <3>2. /\ \A d \in Calls : d # c => net'[d] = net[d]
          /\ net'[c][attempt[c]] = "none"
          /\ \A n \in Attempts : n # attempt[c] => net'[c][n] = net[c][n]
      BY <3>1 DEF BooksInv, NetOK
    <3>3. SawOK(c)'
      BY <3>1, <3>2, StatusAssumption DEF SawInv, SawOK
    <3> QED BY <3>1, <3>2, <3>3, SawStep
  <2> QED BY <1>2, <2>1, <2>2 DEF Raise
<1>3. ASSUME NEW c \in Calls, Step(c) PROVE SawInv'
  <2>1. CASE Begin(c)
    BY <1>1, <2>1 DEF Begin
  <2>2. CASE PassPreflight(c) \/ Wake(c)
    BY <2>2, NextAttemptSaw DEF PassPreflight, Wake
  <2>3. CASE BadResponse(c)
    <3>1. PICK x \in BadStatus : Failed(c, x)
      BY <2>3 DEF BadResponse
    <3> QED BY <2>3, <3>1, FailedSaw DEF BadResponse, Bad
  <2>4. CASE Timeout(c) \/ HttpError(c)
    <3>1. PICK x \in Failures : pc[c] = "posting" /\ Failed(c, x) /\ net' = net
      BY <2>4 DEF Timeout, HttpError, Failures
    <3> QED BY <3>1, Values, FailedSaw DEF Bad
  <2>5. CASE ConnectError(c)
    <3>1. /\ "connection_error" \in Bad /\ "connection_error" \notin BadStatus
          /\ pc[c] = "posting" /\ Failed(c, "connection_error")
          /\ net' = [net EXCEPT ![c][attempt[c]] = "none"]
      BY <2>5, StatusAssumption DEF ConnectError, Bad, Failures
    <3> QED BY <3>1, FailedSaw
  <2> QED BY <1>2, <1>3, <2>1, <2>2, <2>3, <2>4, <2>5, RefuseSaw, SucceedSaw DEF Step
<1>4. ASSUME NEW c \in Calls, Deliver(c) PROVE SawInv'
  <2>1. PICK k \in Attempts : net[c][k] = "flying" /\ net' = [net EXCEPT ![c][k] = "delivered"]
    BY <1>4 DEF Deliver
  <2>2. /\ \A d \in Calls : d # c => net'[d] = net[d]
        /\ net'[c][k] = "delivered" /\ \A n \in Attempts : n # k => net'[c][n] = net[c][n]
    BY <2>1 DEF BooksInv, NetOK
  <2>3. UNCHANGED <<attempt, outcome, heard>>
    BY <1>4 DEF Deliver, callVars
  <2>4. SawOK(c)'
    BY <2>1, <2>2, <2>3 DEF SawInv, SawOK
  <2> QED BY <2>2, <2>3, <2>4, SawStep
<1>5. CASE \/ \E c \in Calls : Cancel(c)
           \/ StopDispatcher \/ CloseClient \/ UNCHANGED vars
  BY <1>1, <1>5 DEF Cancel, StopDispatcher, CloseClient, vars, callVars
<1> QED BY <1>3, <1>4, <1>5 DEF Next

LEMMA SawInvariant == Spec => []SawInv
BY SawInit, SawNext, RelayInvariant, BooksInvariant, PTL DEF Spec

\* Nothing reaches the target that an outcome does not count, before or after
\* it is returned, and its status was answered to a request that arrived.
THEOREM TargetSawItAlways == Spec => []TargetSawIt
<1>1. RelayInv /\ SawInv => TargetSawIt
  <2> SUFFICES ASSUME RelayInv, SawInv, NEW c \in Calls, outcome[c] # NoResult
               PROVE  LET o == outcome[c] IN
                      /\ \A n \in Attempts : net[c][n] # "none" => o.attempted /\ n <= o.attempts
                      /\ o.status # None =>
                             \E n \in Attempts : net[c][n] = "delivered" /\ heard[c][n] = o.status
    BY DEF TargetSawIt
  <2> DEFINE o == outcome[c]
  <2>1. /\ o.attempts = attempt[c] /\ (o.attempted <=> attempt[c] > 0)
        /\ attempt[c] \in 0..MaxAttempts
    BY DEF RelayInv, CallTypes, CallOK, CallInv, Tells
  <2>2. SawOK(c)
    BY DEF SawInv
  <2>3. \A n \in Attempts : net[c][n] # "none" => o.attempted /\ n <= o.attempts
    BY <2>1, <2>2 DEF SawOK
  <2>4. ASSUME o.status # None
        PROVE  \E n \in Attempts : net[c][n] = "delivered" /\ heard[c][n] = o.status
    <3>1. PICK m \in AnswersOf(attempt[c], heard[c]) : o.status = heard[c][m]
      BY <2>2, <2>4 DEF SawOK, IsLast
    <3>2. m \in Attempts /\ heard[c][m] \in BadStatus \cup {OkStatus}
      BY <2>1, <3>1 DEF AnswersOf
    <3> QED BY <2>2, <3>1, <3>2 DEF SawOK
  <2> QED BY <2>3, <2>4
<1> QED BY <1>1, RelayInvariant, SawInvariant, PTL

=============================================================================
