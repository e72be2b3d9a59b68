----------------------------- MODULE UpdateApplyMC -----------------------------
(* Instances of UpdateApply: two updaters and two releases.                *)
EXTENDS UpdateApply

CONSTANTS u1, u2, r1, r2
===============================================================================
