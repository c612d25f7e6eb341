--------------------------- MODULE MCAsyncRuntime ---------------------------
(* Small instances of AsyncRuntime.  Operations, clients and workers are    *)
(* interchangeable; the liveness run does not use the symmetry.             *)
EXTENDS AsyncRuntime, TLC

Symmetry == Permutations(Ops) \cup Permutations(Clients) \cup Permutations(Workers)
=============================================================================
