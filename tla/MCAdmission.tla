----------------------------- MODULE MCAdmission -----------------------------
(***************************************************************************)
(* Three tenants on a host of three slots: a submits up to three jobs, c   *)
(* up to two, b one.  The cap, the slots and the queue can all be full,    *)
(* and the job of b can wait beside jobs of two tenants that come back.    *)
(***************************************************************************)
EXTENDS Admission

CONSTANTS a, b, c, a1, a2, a3, b1, c1, c2

MCTenants == {a, b, c}
MCJobs == {a1, a2, a3, b1, c1, c2}
MCTenantOf ==
  [j \in MCJobs |-> CASE j \in {a1, a2, a3} -> a [] j = b1 -> b [] j \in {c1, c2} -> c]
=============================================================================
