--------------------------- MODULE MCWebhookRelay ---------------------------
(* Small instances of WebhookRelay for TLC. *)
EXTENDS WebhookRelay, TLC

\* Ids, processes and workers are interchangeable: uuid4 gives ids no order
\* the core depends on, and processes and workers are configured alike.
Symmetry == Permutations(Events) \cup Permutations(Procs) \cup Permutations(Workers)

=============================================================================
