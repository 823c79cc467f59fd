------------------------------- MODULE RunStore -------------------------------
(***************************************************************************)
(* One run and the API processes that create, resume, work on, cancel and  *)
(* reconcile it (backend/src/ai/runStore.ts, runReconciler.ts, the stream  *)
(* of routes/swarm.ts).                                                    *)
(*                                                                         *)
(* A request is an attempt to be: its number is the generation it would    *)
(* claim.  It loads the checkpoint, reads the row, claims the row by a     *)
(* conditional update and then works with its own record of the run, of    *)
(* which it sends snapshots.  A snapshot may be refused, lost or           *)
(* overtaken.  An end that a process gives its record is numbered by the   *)
(* request, one that the database gives the row by the attempt it ends.    *)
(***************************************************************************)
EXTENDS SwarmRun, FiniteSets

CONSTANTS MaxReq,    \* requests for the run that are explored
          Procs,     \* the worker identities of the API processes
          Events,    \* how many events each request may record
          MaxNet     \* snapshots in flight at a time

ASSUME StoreAssumption ==
  /\ MaxReq \in Nat \ {0} /\ Events \in [1..MaxReq -> Nat] /\ MaxNet \in Nat \ {0}
  /\ NULL \notin Procs

Reqs == 1..MaxReq

VARIABLES
  row,  \* the row of swarm_runs
  req,  \* per request: where it is and its record of the run
  net   \* snapshots on their way to the database

vars == <<row, req, net>>

\* What a resume keeps of the row it read.
Seen(r) == [seq |-> r.seq, gen |-> r.gen, out |-> r.out, ended |-> r.ended]

NoRequest ==
  [at |-> "idle", proc |-> NULL, seen |-> Seen(AbsentRow),
   status |-> "absent", seq |-> 0, out |-> NULL, ended |-> NULL]

Init ==
  /\ row = AbsentRow /\ net = {}
  /\ req = [q \in Reqs |-> NoRequest]

-----------------------------------------------------------------------------
\* Moments, for completed_at: 2q an end by request q, 2g + 1 of attempt g by the database.
ByRequest(q) == 2 * q
BySql(r) == 2 * r.gen + 1

Snapshot(q) ==
  [from |-> q, worker |-> req[q].proc, status |-> req[q].status, seq |-> req[q].seq,
   out |-> req[q].out, ended |-> req[q].ended]
Active(q) == req[q].at \in {"create", "loaded", "read", "working", "closing"}
Working(q) == req[q].at = "working"
Busy(p) == \E q \in Reqs : Active(q) /\ req[q].proc = p

\* Of a request that is over only matters whether it completed the run.
Over(r) ==
  [NoRequest EXCEPT !.at = "over",
                    !.status = IF r.status = "complete" THEN "complete" ELSE "absent"]
Leave(q) == req' = [req EXCEPT ![q] = Over(req[q])]

\* A request reaches a process that has no active build of the run.  A resume
\* loads the checkpoint there and then.
Ask(q, p) ==
  /\ req[q].at = "idle" /\ \A h \in Reqs : h < q => req[h].at # "idle"
  /\ ~Busy(p)
  /\ \E at \in {"create", "loaded"} :
       req' = [req EXCEPT ![q].at = at, ![q].proc = p]
  /\ UNCHANGED <<row, net>>

\* The process holds the run now, from what was in the row it read.
Holds(q, r) ==
  req' = [req EXCEPT ![q].at = "working", ![q].status = "running", ![q].seq = r.seq,
                     ![q].out = r.out, ![q].ended = NULL,
                     ![q].seen = [r EXCEPT !.gen = NULL, !.out = NULL]]

\* The unique key of the insert arbitrates.  Its answer may be lost.
Create(q) ==
  /\ req[q].at = "create"
  /\ IF row.status = "absent"
     THEN \/ row' = Held(row, q, req[q].proc) /\ (Holds(q, Seen(AbsentRow)) \/ Leave(q))
          \/ row' = row /\ Leave(q)
     ELSE row' = row /\ Leave(q)
  /\ UNCHANGED net

Read(q) ==
  /\ req[q].at = "loaded"
  /\ IF row.status \in Resumable
     THEN req' = [req EXCEPT ![q].at = "read", ![q].seen = Seen(row)]
     ELSE Leave(q)
  /\ UNCHANGED <<row, net>>

\* Mutant: the claim goes by the run's id.
ClaimsAnything(r, seen) == r.status # "absent"

\* Mutant: the claim goes by the status and the sequence.
ClaimsStatus(r, seen) == r.status \in Resumable /\ r.seq = seen.seq

\* The condition of the update that claims the run.
Claims(r, seen) ==
  /\ r.status \in Resumable
  /\ r.seq = seen.seq /\ r.gen = seen.gen /\ r.ended = seen.ended

Claim(q) ==
  /\ req[q].at = "read"
  /\ IF Claims(row, req[q].seen)
     THEN \/ /\ row' = [Held(row, q, req[q].proc) EXCEPT !.out = req[q].seen.out]
             /\ Holds(q, req[q].seen) \/ Leave(q)
          \/ row' = row /\ Leave(q)
     ELSE row' = row /\ Leave(q)
  /\ UNCHANGED net

-----------------------------------------------------------------------------
\* Working.

Send(messages) == Cardinality(net \union messages) <= MaxNet /\ net' = net \union messages

Append(q) ==
  /\ Working(q) /\ req[q].seq < req[q].seen.seq + Events[q]
  /\ req' = [req EXCEPT ![q].seq = @ + 1]
  /\ UNCHANGED <<row, net>>

\* The timer of schedulePersist sends what the record is by then.
Timer(q) ==
  /\ Working(q) /\ req[q].status = "running" /\ req[q].seq > req[q].seen.seq
  /\ Send({Snapshot(q)})
  /\ UNCHANGED <<row, req>>

\* A final status is flushed: the snapshot is sent when it is taken.
Close(q, record) ==
  /\ Working(q) /\ req[q].status = "running"
  /\ req' = [req EXCEPT ![q] = record]
  /\ Send({[from |-> q, worker |-> record.proc, status |-> record.status,
            seq |-> record.seq, out |-> record.out, ended |-> record.ended]})
  /\ UNCHANGED row

\* completeRun: success or a blocked build, each with its artifact.
Complete(q) ==
  \E status \in {"complete", "error"} :
    Close(q, [req[q] EXCEPT !.at = "closing", !.status = status, !.out = q,
                            !.ended = ByRequest(q)])

\* failRun keeps an artifact that is there.
Fail(q) ==
  \E status \in Resumable :
    Close(q, [req[q] EXCEPT !.at = "closing", !.status = status,
                            !.ended = ByRequest(q)])

\* A late failure corrects an error and nothing else.
Correct(q) ==
  /\ req[q].at = "closing" /\ req[q].status = "error"
  /\ req' = [req EXCEPT ![q].status = "cancelled"]
  /\ Send({[Snapshot(q) EXCEPT !.status = "cancelled"]})
  /\ UNCHANGED row

\* persistRunState writes once more before the request is answered.  A record
\* that a cancellation has ended leaves without a write of its own.
Close2(q) ==
  /\ req[q].at = "closing" \/ (Working(q) /\ req[q].status = "cancelled")
  /\ IF req[q].at = "closing" THEN Send({Snapshot(q)}) ELSE net' = net
  /\ Leave(q)
  /\ UNCHANGED row

Arrive(m) ==
  /\ m \in net
  /\ row' = IF CanPersist(row, m.from, m.worker, m)
            THEN Persisted(row, m.worker, m) ELSE row
  /\ net' = net \ {m}
  /\ UNCHANGED <<req>>

Lose(m) == m \in net /\ net' = net \ {m} /\ UNCHANGED <<row, req>>

-----------------------------------------------------------------------------
\* Heartbeats and ends from outside.

\* The timer of claimLocalRun, which every end of the record clears.
Beats(q) == Working(q) /\ req[q].status = "running"

Heartbeat(q) ==
  /\ Beats(q) /\ CanBeat(row, q, req[q].proc)
  /\ row' = [row EXCEPT !.beat = "fresh"]
  /\ UNCHANGED <<req, net>>

Beaten == \E q \in Reqs : Beats(q) /\ CanBeat(row, q, req[q].proc)
Late == row.beat = "fresh" /\ row' = [row EXCEPT !.beat = "late"]
         /\ UNCHANGED <<req, net>>

\* Five minutes without a heartbeat: nobody sends one, or none gets through.
Lapse == ~Beaten /\ Late
Stall == Beaten /\ Late

Reconcile ==
  /\ WorkerLost(row)
  /\ row' = Stopped(row, "error", BySql(row))
  /\ UNCHANGED <<req, net>>

\* requestRunCancellation in a process, which ends its own record at once.
Cancel(p) ==
  /\ row.status = "running"
  /\ row' = Stopped(row, "cancelled", BySql(row))
  /\ req' = [q \in Reqs |->
       IF Working(q) /\ req[q].proc = p /\ req[q].status = "running"
       THEN [req[q] EXCEPT !.status = "cancelled", !.out = NULL, !.ended = BySql(row)]
       ELSE req[q]]
  /\ UNCHANGED net

\* failInFlightRuns on SIGTERM, for what the process still works on.
Shutdown(p) ==
  /\ \E q \in Reqs : Beats(q) /\ req[q].proc = p
  /\ row.status = "running" /\ row.worker = p
  /\ row' = Stopped(row, "error", BySql(row))
  /\ UNCHANGED <<req, net>>

\* The process dies.  Whoever replaces it may be taken for it: worker
\* identities are not used up.
Crash(q) == Active(q) /\ Leave(q) /\ UNCHANGED <<row, net>>

-----------------------------------------------------------------------------
Admit(q) == Create(q) \/ Read(q) \/ Claim(q)
Work(q) == Admit(q) \/ Append(q) \/ Complete(q) \/ Fail(q) \/ Close2(q)

Next ==
  \/ \E q \in Reqs : Work(q) \/ Timer(q) \/ Correct(q) \/ Heartbeat(q) \/ Crash(q)
  \/ \E q \in Reqs, p \in Procs : Ask(q, p)
  \/ \E m \in net : Arrive(m) \/ Lose(m)
  \/ \E p \in Procs : Cancel(p) \/ Shutdown(p)
  \/ Lapse \/ Stall \/ Reconcile

Spec == Init /\ [][Next]_vars

-----------------------------------------------------------------------------
Ends == 0..(2 * MaxReq + 1)
Gens == 0..MaxReq
Snapshots ==
  [from : Reqs, worker : Procs, status : RunStatus, seq : Nat, out : Gens, ended : Ends]
Rows ==
  [status : RunStatus \union {"absent"}, gen : Gens, worker : Procs \union {NULL},
   beat : {"none", "fresh", "late"}, seq : Nat, out : Gens, ended : Ends]

\* completed_at and the heartbeat go with the status.
TypeOK ==
  /\ row \in Rows /\ (row.status = "running" <=> row.beat # "none")
  /\ row.status \in {"running", "absent"} <=> row.ended = NULL
  /\ net \subseteq Snapshots
  /\ req \in [Reqs -> [at : {"idle", "create", "loaded", "read", "working", "closing", "over"},
                       proc : Procs \union {NULL},
                       seen : [seq : Nat, gen : Gens, out : Gens, ended : Ends],
                       status : RunStatus \union {"absent"},
                       seq : Nat, out : Gens, ended : Ends]]

\* What the row says of an attempt is what that attempt's process decided:
\* no other attempt, process or late call completes it (runStore.ts:613).
RowTruth ==
  /\ TypeOK
  /\ row.status = "complete" =>
       /\ row.gen \in Reqs /\ row.out = row.gen
       /\ req[row.gen].status = "complete"

\* Two requests never resume from the same end of the run (runStore.ts:543).
OneWinner ==
  \A a, b \in Reqs :
    a # b /\ req[a].at \in {"working", "closing"} /\ req[b].at \in {"working", "closing"}
      => req[a].seen.ended # req[b].seen.ended

\* A resumed run still has the artifact its row had: the resume does not put
\* back an output that it read before another attempt came and went
\* (runStore.ts:506, 536-541).
ResumeKeepsArtifact ==
  [][row.status \in Resumable /\ row'.status = "running" => row'.out = row.out]_vars

\* A completed run stays as it is, whatever was still on its way and whoever
\* reconciles, cancels, shuts down or resumes (runStore.ts:625), and no run loses
\* events to a snapshot that was overtaken
\* (20261015000300_swarm_run_attempt_fencing.sql:31).
RowNeverGoesBack ==
  [][row'.seq >= row.seq /\ (row.status = "complete" => row' = row)]_vars
=============================================================================
