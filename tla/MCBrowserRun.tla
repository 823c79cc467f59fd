----------------------------- MODULE MCBrowserRun -----------------------------
(***************************************************************************)
(* Two executors, which may overlap after a fault or a cancel.             *)
(***************************************************************************)
EXTENDS BrowserRun, TLC

CONSTANTS e1, e2

TwoExecutors == {e1, e2}
Symmetry == Permutations(TwoExecutors)
=============================================================================
