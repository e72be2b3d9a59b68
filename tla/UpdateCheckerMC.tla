---------------------------- MODULE UpdateCheckerMC ----------------------------
(* Instances of UpdateChecker: two processes that share one cache file.    *)
EXTENDS UpdateChecker, TLC

CONSTANTS k1, k2

\* The processes are alike, and no liveness is checked.
Alike == Permutations({k1, k2})
===============================================================================
