------------------------ MODULE MCRequestPipeline ------------------------
(***************************************************************************)
(* RequestPipeline, for model checking.                                    *)
(***************************************************************************)
EXTENDS RequestPipeline, TLC

\* No request is treated differently for its name.
Symmetry == Permutations(Requests)

=============================================================================
