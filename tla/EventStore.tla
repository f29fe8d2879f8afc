----------------------------- MODULE EventStore -----------------------------
(***************************************************************************)
(* What the service promises about the rows of the `events` table, with no *)
(* processes, queues or failures in sight.  A row is accepted once, its    *)
(* relay status is settled at most once and only from "scheduled", and     *)
(* retention removes it for good.  A client-provided idempotency key       *)
(* belongs to at most one row of its source at a time.                     *)
(*                                                                         *)
(* WebhookRelay is shown to implement this module.                         *)
(***************************************************************************)
CONSTANTS Events,   \* event ids (uuid4), each drawn at most once
          Sources,  \* the {source} of POST /webhooks/{source}
          Keys,     \* values the Idempotency-Key header takes
          NoKey,    \* the header is absent: SQL NULL
          NoSource  \* the source column of an id that was never stored

VARIABLES life,     \* life[e]: relay_status of row e, or "absent" / "deleted"
          ident     \* ident[e]: the (source, idempotency_key) pair of row e

vars == <<life, ident>>

Accepted == {"stored", "scheduled", "skipped"}
Settled  == {"success", "failed", "skipped"}

Live(e) == life[e] \notin {"absent", "deleted"}

Init ==
    /\ life = [e \in Events |-> "absent"]
    /\ ident = [e \in Events |-> <<NoSource, NoKey>>]

Accept(e, s, k, status) ==
    /\ life[e] = "absent"
    /\ k # NoKey => \A f \in Events : Live(f) => ident[f] # <<s, k>>
    /\ life' = [life EXCEPT ![e] = status]
    /\ ident' = [ident EXCEPT ![e] = <<s, k>>]

Settle(e, status) ==
    /\ life[e] = "scheduled"
    /\ life' = [life EXCEPT ![e] = status]
    /\ UNCHANGED ident

Expire(S) ==
    /\ \A e \in S : Live(e)
    /\ life' = [e \in Events |-> IF e \in S THEN "deleted" ELSE life[e]]
    /\ UNCHANGED ident

Next ==
    \/ \E e \in Events, s \in Sources, k \in Keys, status \in Accepted :
           Accept(e, s, k, status)
    \/ \E e \in Events, status \in Settled : Settle(e, status)
    \/ \E S \in SUBSET Events : Expire(S)

Spec == Init /\ [][Next]_vars
=============================================================================
