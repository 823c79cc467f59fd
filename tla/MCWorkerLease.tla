---------------------------- MODULE MCWorkerLease ----------------------------
(***************************************************************************)
(* Two tasks; worker v runs two sessions, worker w one.  Lease times of    *)
(* one and two ticks let a renewal shorten as well as extend.              *)
(***************************************************************************)
EXTENDS WorkerLease

CONSTANTS v, w, v1, v2, w1

MCSessions == {v1, v2, w1}
MCWorkerOf == [s \in MCSessions |-> IF s = w1 THEN w ELSE v]
=============================================================================
