------------------------------ MODULE RelayJob ------------------------------
(***************************************************************************)
(* What one call of relay_event promises its worker: it sends nothing or   *)
(* sends at least once, and returns a verdict that says which, or it ends  *)
(* without a verdict.  WebhookRelay assumes this much of a running job     *)
(* (Post, Persist, JobError, and the cancellation in Stop); RelayEvent     *)
(* shows that the code does it.                                            *)
(***************************************************************************)
CONSTANTS Calls,    \* calls of relay_event, one per job
          NoResult  \* the call has returned nothing

VARIABLES phase,    \* phase[c]: "idle", "working", "returned" or "ended"
          sent,     \* sent[c]: a POST was started
          result    \* result[c]: the verdict returned

vars == <<phase, sent, result>>

Init ==
    /\ phase = [c \in Calls |-> "idle"]
    /\ sent = [c \in Calls |-> FALSE]
    /\ result = [c \in Calls |-> NoResult]

Begin(c) ==
    /\ phase[c] = "idle"
    /\ phase' = [phase EXCEPT ![c] = "working"]
    /\ UNCHANGED <<sent, result>>

Post(c) ==
    /\ phase[c] = "working"
    /\ sent' = [sent EXCEPT ![c] = TRUE]
    /\ UNCHANGED <<phase, result>>

Return(c) ==
    /\ phase[c] = "working"
    /\ \E success \in BOOLEAN :
           /\ success => sent[c]
           /\ result' = [result EXCEPT ![c] =
                             [attempted |-> sent[c], success |-> success]]
    /\ phase' = [phase EXCEPT ![c] = "returned"]
    /\ UNCHANGED sent

End(c) ==
    /\ phase[c] = "working"
    /\ phase' = [phase EXCEPT ![c] = "ended"]
    /\ UNCHANGED <<sent, result>>

Next == \E c \in Calls : Begin(c) \/ Post(c) \/ Return(c) \/ End(c)

Spec == Init /\ [][Next]_vars
=============================================================================
