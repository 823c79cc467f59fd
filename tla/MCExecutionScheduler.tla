------------------------- MODULE MCExecutionScheduler -------------------------
(***************************************************************************)
(* A read that may be tried twice and an implementation with a checkpoint  *)
(* of its own, both ready at once, and a publish that needs both.  The     *)
(* resumed attempt has no handler for the read, as the engineering pass of *)
(* a resumed run has none for most tasks.                                  *)
(***************************************************************************)
EXTENDS ExecutionScheduler, TLC

PlanDeps == (1 :> {}) @@ (2 :> {}) @@ (3 :> {1, 2})
PlanAttempts == (1 :> 2) @@ (2 :> 1) @@ (3 :> 1)
MissingHandlers == (1 :> {}) @@ (2 :> {1})
=============================================================================
