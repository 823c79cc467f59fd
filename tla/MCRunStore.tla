------------------------------ MODULE MCRunStore ------------------------------
(***************************************************************************)
(* Two API processes, which are interchangeable, and three requests, the   *)
(* last of which records events.                                           *)
(***************************************************************************)
EXTENDS RunStore, TLC

CONSTANTS p1, p2

EventsOf == <<0, 0, 2>>
TwoProcs == {p1, p2}
Symmetry == Permutations(TwoProcs)
=============================================================================
