------------------------------- MODULE SwarmRun -------------------------------
(***************************************************************************)
(* A row of swarm_runs and what the database does to it: the fenced write  *)
(* of an attempt (persist_swarm_run_attempt), its heartbeat, cancellation, *)
(* and the conditional updates of the reconciler and of a shutdown.        *)
(*                                                                         *)
(* Attempts and workers are positive numbers, 0 is SQL's NULL.  "out" is   *)
(* the attempt whose engineering artifact the row's output is, 0 without   *)
(* one.  "ended" is completed_at, a different number for every moment.     *)
(* Heartbeats are "fresh" or "late": older than five minutes for a run a   *)
(* worker holds, than sixty for one that waits to be claimed.  The         *)
(* iteration count, which every end of an attempt increments, is left out: *)
(* where it is compared, completed_at is compared too.                     *)
(***************************************************************************)
EXTENDS Naturals

NULL == 0

AbsentRow ==
  [status |-> "absent", gen |-> NULL, worker |-> NULL, beat |-> "none",
   seq |-> 0, out |-> NULL, ended |-> NULL]

RunStatus == {"running", "complete", "error", "cancelled"}
Resumable == {"error", "cancelled"}

\* A row of a run that attempt g holds in worker w.
Held(r, g, w) ==
  [r EXCEPT !.status = "running", !.gen = g, !.worker = w, !.beat = "fresh", !.ended = NULL]

-----------------------------------------------------------------------------
\* The fenced write.  A snapshot has a status, a sequence, an output and an end.

Repeats(r, s) ==
  r.status = s.status /\ r.seq = s.seq /\ r.out = s.out /\ r.ended = s.ended

\* Mutant: the worker alone is the fence.
CanPersistByWorker(r, g, w, s) ==
  Repeats(r, s) \/ (r.status = "running" /\ r.worker = w /\ s.seq >= r.seq)

\* Mutant: a late snapshot may arrive after a newer one.
CanPersistUnordered(r, g, w, s) ==
  /\ r.gen = g
  /\ \/ Repeats(r, s)
     \/ r.status = "running" /\ r.worker = w
     \/ /\ r.status = "error" /\ r.worker = NULL
        /\ s.status \in Resumable /\ s.ended = r.ended

CanPersist(r, g, w, s) ==
  /\ r.gen = g
  /\ \/ Repeats(r, s)
     \/ /\ s.seq >= r.seq /\ r.status = "running" /\ r.worker = w
        /\ s.status = "running" => s.seq # r.seq
     \/ /\ s.seq >= r.seq /\ r.status = "error" /\ r.worker = NULL
        /\ s.status \in Resumable /\ s.ended = r.ended

Persisted(r, w, s) ==
  IF Repeats(r, s) THEN r
  ELSE [r EXCEPT !.status = s.status, !.seq = s.seq, !.out = s.out, !.ended = s.ended,
                 !.worker = IF s.status = "running" THEN w ELSE NULL,
                 !.beat = IF s.status = "running" THEN "fresh" ELSE "none"]

CanBeat(r, g, w) == r.status = "running" /\ r.worker = w /\ r.gen = g

-----------------------------------------------------------------------------
\* Ends that are not written by the attempt.

\* The run's artifact is replaced by the reason, its generation revoked.
Stopped(r, status, at) ==
  [r EXCEPT !.status = status, !.out = NULL, !.ended = at,
            !.gen = NULL, !.worker = NULL, !.beat = "none"]

\* reconcileOrphanedRuns, first phase: admitted and never claimed.
NeverStarted(r) ==
  r.status = "running" /\ r.gen = NULL /\ r.worker = NULL /\ r.beat = "late"

\* Its second phase: held by a worker that is silent.
WorkerLost(r) ==
  r.status = "running" /\ r.beat = "late" /\ (r.gen # NULL \/ r.worker # NULL)
=============================================================================
