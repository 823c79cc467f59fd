---------------------------- MODULE MCProviderBudget ----------------------------
(***************************************************************************)
(* Two calls of an admitted action that may afford one of them, and a      *)
(* voice call, over two billing cycles that may be free or paid.           *)
(***************************************************************************)
EXTENDS ProviderBudget, TLC

CONSTANTS first, second, speech

Benchmarks == {first, second}
Speech == {speech}
ThreeCalls == Benchmarks \union Speech
OneUnit == [c \in ThreeCalls |-> 1]
Symmetry == Permutations(Benchmarks)
=============================================================================
