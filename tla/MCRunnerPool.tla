---------------------------- MODULE MCRunnerPool ----------------------------
(* RunnerPool on small instances: sessions and callers are model values.   *)
EXTENDS RunnerPool, TLC

\* Safety runs only: no behaviour depends on which session or caller it is.
PoolSymmetry == Permutations(Session) \cup Permutations(Caller)
=============================================================================
