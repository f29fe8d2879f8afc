-------------------------- MODULE EventStoreProofs --------------------------
(***************************************************************************)
(* WebhookRelay implements EventStore, and what a row says of its relay is *)
(* what the target saw.  Both rest on JobInv: a worker writes its result   *)
(* on a row that is still "scheduled", or on no row at all.                *)
(***************************************************************************)
EXTENDS WebhookRelayProofs

\* The refinement mapping at one event, in this state and in the next.
LEMMA MappingFacts ==
    ASSUME TypeOK, NEW e \in Events
    PROVE  /\ Store!Live(e) <=> Live(e)
           /\ rows[e] \in Row
BY DEF TypeOK, Store!Live, Live

\* One changed entry of a mapped table is an EXCEPT.
LEMMA ExceptFacts ==
    ASSUME NEW S, NEW e \in S, NEW v, NEW f, NEW g,
           f = [x \in S |-> f[x]], g = [x \in S |-> g[x]],
           \A x \in S : g[x] = IF x = e THEN v ELSE f[x]
    PROVE  g = [f EXCEPT ![e] = v]
OBVIOUS

\* An INSERT is Accept.
LEMMA InsertIsAccept ==
    ASSUME TypeOK, NEW p \in Procs, NEW e \in Events, NEW s \in Sources,
           NEW k \in Keys, rows[e].status = "absent", ~Conflicts(s, k),
           rows' = [rows EXCEPT ![e] = NewRow(p, s, k)]
    PROVE  Store!Next
<1> DEFINE st == InitialStatus(p)
<1>1. rows \in [Events -> Row]
  BY DEF TypeOK
<1>2. /\ NewRow(p, s, k).status = st
      /\ NewRow(p, s, k).source = s
      /\ NewRow(p, s, k).key = k
  BY DEF NewRow
<1>3. \A f \in Events : rows'[f] = IF f = e THEN NewRow(p, s, k) ELSE rows[f]
  BY <1>1
<1>4. k # NoKey => \A f \in Events : Store!Live(f) =>
          [x \in Events |-> <<rows[x].source, rows[x].key>>][f] # <<s, k>>
  BY MappingFacts DEF Conflicts, Holders
<1>5. [x \in Events |-> rows'[x].status]
          = [[x \in Events |-> rows[x].status] EXCEPT ![e] = st]
  <2>1. PICK f : f = [x \in Events |-> rows[x].status]
    OBVIOUS
  <2>2. PICK g : g = [x \in Events |-> rows'[x].status]
    OBVIOUS
  <2>3. \A x \in Events : g[x] = IF x = e THEN st ELSE f[x]
    BY <1>2, <1>3, <2>1, <2>2
  <2>4. g = [f EXCEPT ![e] = st]
    BY <2>1, <2>2, <2>3, ExceptFacts
  <2> QED BY <2>1, <2>2, <2>4
<1>6. [x \in Events |-> <<rows'[x].source, rows'[x].key>>]
          = [[x \in Events |-> <<rows[x].source, rows[x].key>>] EXCEPT ![e] = <<s, k>>]
  <2>1. PICK f : f = [x \in Events |-> <<rows[x].source, rows[x].key>>]
    OBVIOUS
  <2>2. PICK g : g = [x \in Events |-> <<rows'[x].source, rows'[x].key>>]
    OBVIOUS
  <2>3. PICK pair : pair = <<s, k>>
    OBVIOUS
  <2>4. \A x \in Events : g[x] = IF x = e THEN pair ELSE f[x]
    BY <1>2, <1>3, <2>1, <2>2, <2>3
  <2>5. f = [x \in Events |-> f[x]] /\ g = [x \in Events |-> g[x]]
    BY <2>1, <2>2
  <2>6. g = [f EXCEPT ![e] = pair]
    BY <2>4, <2>5, ExceptFacts
  <2> QED BY <2>1, <2>2, <2>3, <2>6
<1>7. PICK status : status = st
  OBVIOUS
<1>8. status \in Store!Accepted
  BY <1>7, InitialStatusType DEF Store!Accepted
<1>9. Store!Accept(e, s, k, status)
  BY <1>4, <1>5, <1>6, <1>7 DEF Store!Accept
<1> QED BY <1>8, <1>9 DEF Store!Next

\* A result written to a row that owes one is Settle; to a deleted row, nothing.
LEMMA ResultIsSettle ==
    ASSUME TypeOK, NEW e \in Events, rows[e].status \in {"scheduled", "deleted"},
           NEW st \in {"success", "failed", "skipped"}, rows' = SettledRows(e, st)
    PROVE  Store!Next \/ rows' = rows
<1>1. rows \in [Events -> Row] /\ rows[e] \in Row
  BY DEF TypeOK
<1>2. CASE rows[e].status = "deleted"
  BY <1>2 DEF SettledRows, Live
<1>3. CASE rows[e].status = "scheduled"
  <2>1. rows' = [rows EXCEPT ![e] = [rows[e] EXCEPT !.status = st]]
    BY <1>1, <1>3 DEF SettledRows, Live
  <2>2. /\ [rows[e] EXCEPT !.status = st].status = st
        /\ [rows[e] EXCEPT !.status = st].source = rows[e].source
        /\ [rows[e] EXCEPT !.status = st].key = rows[e].key
    BY <1>1 DEF Row
  <2>3. \A f \in Events : rows'[f] =
            IF f = e THEN [rows[e] EXCEPT !.status = st] ELSE rows[f]
    BY <1>1, <2>1
  <2>4. [x \in Events |-> rows'[x].status]
            = [[x \in Events |-> rows[x].status] EXCEPT ![e] = st]
    BY <2>2, <2>3
  <2>5. [x \in Events |-> <<rows'[x].source, rows'[x].key>>]
            = [x \in Events |-> <<rows[x].source, rows[x].key>>]
    BY <2>2, <2>3
  <2>6. Store!Settle(e, st)
    BY <1>3, <2>4, <2>5 DEF Store!Settle
  <2> QED BY <2>6 DEF Store!Next, Store!Settled
<1> QED BY <1>2, <1>3

\* Retention is Expire.
LEMMA CleanupIsExpire ==
    ASSUME TypeOK, Cleanup
    PROVE  Store!Next
<1>1. \A e \in Events : rows[e] \in Row
  BY DEF TypeOK
<1>2. \A e \in Events : LET d == [rows[e] EXCEPT !.status = "deleted"] IN
          d.status = "deleted" /\ d.source = rows[e].source /\ d.key = rows[e].key
  BY <1>1 DEF Row
<1>3. \A e \in Events : rows'[e] = IF e \in Victims
          THEN [rows[e] EXCEPT !.status = "deleted"] ELSE rows[e]
  BY DEF Cleanup
<1>4. \A e \in Events : rows'[e].source = rows[e].source /\ rows'[e].key = rows[e].key
  BY <1>2, <1>3
<1>5. \A e \in Events : rows'[e].status = IF e \in Victims THEN "deleted" ELSE rows[e].status
  BY <1>2, <1>3
<1>6. Victims \in SUBSET Events /\ \A e \in Victims : Store!Live(e)
  BY MappingFacts DEF Victims
<1>7. [x \in Events |-> rows'[x].status]
          = [x \in Events |-> IF x \in Victims THEN "deleted"
                              ELSE [y \in Events |-> rows[y].status][x]]
  BY <1>5
<1>8. [x \in Events |-> <<rows'[x].source, rows'[x].key>>]
          = [x \in Events |-> <<rows[x].source, rows[x].key>>]
  BY <1>4
<1>9. PICK S : S = Victims
  OBVIOUS
<1>10. Store!Expire(S)
  BY <1>6, <1>7, <1>8, <1>9 DEF Store!Expire
<1> QED BY <1>6, <1>9, <1>10 DEF Store!Next

\* Every step of the service is a step of the store, or none.
LEMMA StoreStep == JobInv /\ [Next]_vars => [Store!Next]_(Store!vars)
<1> SUFFICES ASSUME JobInv, [Next]_vars PROVE Store!Next \/ rows' = rows
  BY DEF Store!vars
<1>1. TypeOK
  BY DEF JobInv
<1>2. ASSUME NEW p \in Procs, NEW e \in Events, NEW s \in Sources, NEW k \in Keys,
             Insert(p, e, s, k) \/ InsertUnacked(p, e, s, k)
      PROVE  Store!Next
  BY <1>1, <1>2, InsertIsAccept DEF Insert, InsertUnacked
<1>3. ASSUME NEW p \in Procs, NEW w \in Workers, Persist(p, w)
      PROVE  Store!Next \/ rows' = rows
  <2>1. running[p][w] \in Jobs(p)
    BY <1>3, EndJobs
  <2>2. running[p][w] \in Events /\ Owed(running[p][w])
    BY <2>1, JobInvFacts
  <2>3. PICK st \in {"skipped", "success", "failed"} :
            rows' = SettledRows(running[p][w], st)
    BY <1>3 DEF Persist, RelayStatus
  <2> QED BY <1>1, <2>2, <2>3, ResultIsSettle DEF Owed
<1>4. ASSUME NEW p \in Procs, Dispatch(p) PROVE rows' = rows
  BY <1>4, DispatchJobs
<1>5. ASSUME NEW p \in Procs,
             \/ Startup(p) \/ Stop(p) \/ Crash(p)
             \/ Replay(p) \/ ReplayRaise(p) \/ ReplayDbError(p)
      PROVE  rows' = rows
  BY <1>5 DEF Startup, Stop, Crash, Down, Replay, ReplayRaise, ReplayDbError
<1>6. ASSUME NEW p \in Procs, NEW s \in Sources, NEW k \in Keys,
             InsertConflict(p, s, k) \/ InsertDbError(p, s, k)
      PROVE  rows' = rows
  BY <1>6 DEF InsertConflict, InsertDbError
<1>7. ASSUME NEW p \in Procs, NEW w \in Workers,
             Dequeue(p, w) \/ Post(p, w) \/ JobError(p, w)
      PROVE  rows' = rows
  BY <1>7 DEF Dequeue, Post, JobError
<1>8. ASSUME Cleanup PROVE Store!Next
  BY <1>1, <1>8, CleanupIsExpire
<1>9. ASSUME Tick \/ UNCHANGED vars PROVE rows' = rows
  BY <1>9 DEF Tick, vars
<1> QED
  BY <1>2, <1>3, <1>4, <1>5, <1>6, <1>7, <1>8, <1>9
  DEF Next, Request, Respond, Work, AdminCleanup, CliCleanup

\* The service implements EventStore: whatever the interleaving of handlers,
\* workers, processes, cleanup and faults, a status is settled at most once,
\* never after a deletion, and no two live rows of a source share a key.
THEOREM ImplementsEventStore == Spec => StoreSpec
<1>1. Init => Store!Init
  BY DEF Init, Absent, Store!Init
<1>2. StoreSpec <=> Store!Init /\ [][Store!Next]_(Store!vars)
  BY DEF StoreSpec, Store!Spec
<1> QED BY <1>1, <1>2, JobInvInit, JobStep, StoreStep, PTL DEF Spec

=============================================================================
