--------------------------- MODULE CanonicalDelivery ---------------------------
(***************************************************************************)
(* Builds on background workers: an API process admits a run and its       *)
(* delivery in one transaction, a Cloud Task asks the dispatcher to launch *)
(* a Cloud Run job, the job claims the run and works on it, a maintenance  *)
(* tick reconciles runs and enqueues what is pending                       *)
(* (20261026000000_google_canonical_deliveries.sql, backend/src/workers/   *)
(* google*.ts, scripts/runCanonicalWorker.ts).                             *)
(*                                                                         *)
(* Runs, deliveries and jobs are numbered in the order of their creation.  *)
(* A job is one process, so its number is its worker identity and the      *)
(* generation it claims.  The launch token is the number of the launch     *)
(* attempt.  The queue keeps the name of a task it has delivered.  The     *)
(* heartbeat of a worker that is heard of after a silence is "again".      *)
(***************************************************************************)
EXTENDS SwarmRun, FiniteSets

CONSTANTS MaxRuns,         \* runs that are explored
          LaunchCapacity,  \* launches and live workers at a time
          MaxLaunches,     \* launches of a delivery
          MaxDeliveries,   \* deliveries that are explored
          MaxJobs          \* jobs that are explored

ASSUME DeliveryAssumption ==
  /\ MaxRuns \in Nat \ {0} /\ LaunchCapacity \in Nat \ {0} /\ MaxLaunches \in Nat \ {0}
  /\ MaxDeliveries \in Nat \ {0} /\ MaxJobs \in Nat \ {0}

Runs == 1..MaxRuns
Deliveries == 1..MaxDeliveries
Jobs == 1..MaxJobs

VARIABLES
  row,       \* per run: its row of swarm_runs
  del,       \* per delivery: its row
  task,      \* per delivery: its task in the queue
  launcher,  \* per delivery: the dispatcher's calls past their reservation
  job        \* per job: the process

vars == <<row, del, task, launcher, job>>

NoDelivery ==
  [state |-> "none", run |-> NULL, fresh |-> FALSE, live |-> FALSE, tries |-> 0,
   worker |-> NULL, result |-> FALSE]
NoJob == [at |-> "none", del |-> NULL, status |-> "absent"]

Init ==
  /\ row = [r \in Runs |-> AbsentRow]
  /\ del = [d \in Deliveries |-> NoDelivery]
  /\ task = [d \in Deliveries |-> "none"]
  /\ launcher = [d \in Deliveries |-> {}]
  /\ job = [j \in Jobs |-> NoJob]

-----------------------------------------------------------------------------
\* The request.

Of(r) == {d \in Deliveries : del[d].run = r}
InForce(r) == {d \in Of(r) : del[d].state # "superseded"}
RunOf(d) == del[d].run
New(d) == del[d].state = "none" /\ \A c \in Deliveries : c < d => del[c].state # "none"

\* Mutant: a resume may begin afresh whenever the run once could.
FreshAgain(r) == row[r].status = "absent" \/ \E d \in InForce(r) : del[d].fresh

\* No worker has ever claimed the run.
Fresh(r) ==
  \/ row[r].status = "absent"
  \/ (\E d \in InForce(r) : del[d].fresh) /\ \A d \in Of(r) : del[d].worker = NULL

\* Mutant: only a delivery that has not been launched is superseded.
SupersededPending(r) == {d \in Of(r) : del[d].state = "pending"}

Superseded(r) == Of(r)

\* What is left of a delivery that was superseded.
Retired(d) ==
  [NoDelivery EXCEPT !.state = "superseded", !.run = d.run, !.fresh = d.fresh,
                     !.worker = d.worker, !.result = d.result]

\* A new run, or the resume of one that has ended.  The same request again
\* finds its delivery; a run that is complete or held is refused.
Enqueue(r, d) ==
  /\ New(d) /\ row[r].status \in Resumable \union {"absent"}
  /\ \A i \in Runs : i < r => row[i].status # "absent"
  /\ row' = [row EXCEPT ![r] = Held(@, NULL, NULL)]
  /\ del' = [c \in Deliveries |->
       IF c = d THEN [NoDelivery EXCEPT !.state = "pending", !.run = r, !.fresh = Fresh(r)]
       ELSE IF c \in Superseded(r) THEN Retired(del[c]) ELSE del[c]]
  /\ UNCHANGED <<task, launcher, job>>

\* A task for the delivery, by the API that admitted it or by the tick for
\* one that is eligible.  A name that is known is answered "duplicate".
Eligible(d) ==
  /\ del[d].tries < MaxLaunches /\ row[RunOf(d)].beat # "late"
  /\ del[d].state = "pending" \/ (del[d].state = "launching" /\ ~del[d].live)
Dispatch(d) ==
  /\ del[d].state # "none" /\ task[d] = "none"
  /\ Eligible(d)
  /\ task' = [task EXCEPT ![d] = "queued"]
  /\ UNCHANGED <<row, del, launcher, job>>

-----------------------------------------------------------------------------
\* The dispatcher, called for as long as it does not answer 2xx.

Launching(d) == del[d].state = "launching" /\ del[d].live
WorkedOn(d) ==
  /\ del[d].state = "running"
  /\ LET r == row[RunOf(d)]
     IN r.worker = del[d].worker /\ r.gen = del[d].worker /\ r.beat # "late"
Counted == {d \in Deliveries :
  del[d].run # NULL /\ row[RunOf(d)].status = "running" /\ (Launching(d) \/ WorkedOn(d))}

Acknowledge(d) ==
  /\ task[d] = "queued"
  /\ row[RunOf(d)].status # "running" \/ del[d].state \in {"running", "superseded"}
  /\ task' = [task EXCEPT ![d] = "delivered"]
  /\ UNCHANGED <<row, del, launcher, job>>

HasCapacity == Cardinality(Counted) < LaunchCapacity

Reserve(d) ==
  /\ task[d] = "queued" /\ row[RunOf(d)].status = "running"
  /\ del[d].state = "pending" \/ (del[d].state = "launching" /\ ~del[d].live)
  /\ del[d].tries < MaxLaunches /\ HasCapacity
  /\ del' = [del EXCEPT ![d].state = "launching", ![d].live = TRUE, ![d].tries = @ + 1]
  /\ launcher' = [launcher EXCEPT ![d] = @ \union {[token |-> del[d].tries + 1, step |-> "launch"]}]
  /\ UNCHANGED <<row, task, job>>

Without(d, c) == launcher' = [launcher EXCEPT ![d] = @ \ {c}]

NextJob(j) == job[j].at = "none" /\ \A i \in Jobs : i < j => job[i].at # "none"

\* The host starts a job, or not; its answer may be lost either way.
Launch(d, c) ==
  /\ c \in launcher[d] /\ c.step = "launch"
  /\ \E j \in Jobs : NextJob(j) /\ job' = [job EXCEPT ![j] = [NoJob EXCEPT !.at = "started", !.del = d]]
  /\ \/ launcher' = [launcher EXCEPT ![d] = (@ \ {c}) \union {[c EXCEPT !.step = "record"]}]
     \/ Without(d, c)
  /\ UNCHANGED <<row, del, task>>
LaunchFails(d, c) ==
  /\ c \in launcher[d] /\ Without(d, c)
  /\ UNCHANGED <<row, del, task, job>>

RecordLaunch(d, c) ==
  /\ c \in launcher[d] /\ c.step = "record" /\ Without(d, c)
  /\ IF c.token = del[d].tries /\ del[d].state \in {"launching", "running"} /\ task[d] = "queued"
     THEN task' = [task EXCEPT ![d] = "delivered"] ELSE task' = task
  /\ UNCHANGED <<row, del, job>>

LeaseOver(d) ==
  /\ Launching(d) /\ del' = [del EXCEPT ![d].live = FALSE]
  /\ UNCHANGED <<row, task, launcher, job>>

-----------------------------------------------------------------------------
\* The job.

Go(j, at) == job' = [job EXCEPT ![j].at = at]

\* Of a process that has ended only matters whether its build was complete.
Exit(j) ==
  job' = [job EXCEPT ![j] = [NoJob EXCEPT !.at = "over", !.status =
            IF job[j].status = "complete" THEN "complete" ELSE "absent"]]
Row(j) == row[RunOf(job[j].del)]
SetRow(j, r) == row' = [row EXCEPT ![RunOf(job[j].del)] = r]

\* Mutant: a job that starts late may claim all the same.
MayClaimLate(r, d) == r.status = "running" /\ r.worker = NULL /\ r.gen = NULL /\ d.state = "launching"

MayClaim(r, d) ==
  r.status = "running" /\ r.worker = NULL /\ r.gen = NULL /\ d.state = "launching" /\ d.live

\* A claim that is answered starts the pipeline, which adopts the run.
Claim(j) ==
  /\ job[j].at = "started"
  /\ IF MayClaim(Row(j), del[job[j].del])
     THEN /\ SetRow(j, Held(Row(j), j, j))
          /\ del' = [del EXCEPT ![job[j].del].state = "running", ![job[j].del].worker = j,
                                ![job[j].del].live = FALSE]
          /\ Go(j, "working") \/ Exit(j)
     ELSE Exit(j) /\ UNCHANGED <<row, del>>
  /\ UNCHANGED <<task, launcher>>

\* The pipeline returns or throws.
End(j) ==
  /\ job[j].at = "working"
  /\ \E status \in {"complete", "error"} :
       job' = [job EXCEPT ![j].at = "closing", ![j].status = status]
  /\ UNCHANGED <<row, del, task, launcher>>

Final(j) == [status |-> job[j].status, seq |-> 0, ended |-> j,
             out |-> IF job[j].status = "complete" THEN j ELSE Row(j).out]

\* persistTerminalRunAuthority.  What fails is tried once more and given up.
Persist(j) ==
  /\ job[j].at = "closing"
  /\ \/ /\ CanPersist(Row(j), j, j, Final(j)) /\ SetRow(j, Persisted(Row(j), j, Final(j)))
        /\ IF job[j].status = "complete" THEN Go(j, "recording") ELSE Exit(j)
     \/ Exit(j) /\ UNCHANGED row
  /\ UNCHANGED <<del, task, launcher>>

RecordResult(j) ==
  /\ job[j].at = "recording" /\ Exit(j)
  /\ LET d == job[j].del
     IN del' = IF del[d].state = "running" /\ Row(j).status = "complete"
                  /\ Row(j).gen = j /\ del[d].worker = j
               THEN [del EXCEPT ![d].result = TRUE] ELSE del
  /\ UNCHANGED <<row, task, launcher>>

\* The process dies, or the 55-minute deadline stops it first.
Crash(j) ==
  /\ job[j].at \in {"started", "working", "closing", "recording"} /\ Exit(j)
  /\ UNCHANGED <<row, del, task, launcher>>
Deadline(j) ==
  /\ job[j].at = "working" /\ Row(j).status = "running" /\ Row(j).worker = j
  /\ SetRow(j, Stopped(Row(j), "error", 0))
  /\ UNCHANGED <<del, task, launcher, job>>

Beats(j) == job[j].at = "working"
Heartbeat(j) ==
  /\ Beats(j) /\ CanBeat(Row(j), j, j) /\ Row(j).beat = "late"
  /\ SetRow(j, [Row(j) EXCEPT !.beat = "again"])
  /\ UNCHANGED <<del, task, launcher, job>>

-----------------------------------------------------------------------------
\* Around them.

Beaten(r) == \E j \in Jobs : Beats(j) /\ RunOf(job[j].del) = r /\ CanBeat(row[r], j, j)
Late(r) ==
  /\ row[r].beat \in {"fresh", "again"} /\ row' = [row EXCEPT ![r].beat = "late"]
  /\ UNCHANGED <<del, task, launcher, job>>
Lapse(r) == ~Beaten(r) /\ Late(r)
Stall(r) == Beaten(r) /\ Late(r)

\* Mutant: the reconciler knows runs of workers only.
ReconcilableClaimed(r) == WorkerLost(r)

\* Mutant: the reconciler goes by heartbeats only, whatever the status.
ReconcilableAnyStatus(r) == r.status # "absent" /\ r.beat # "fresh"

Reconcilable(r) == NeverStarted(r) \/ WorkerLost(r)

Reconcile(r) ==
  /\ Reconcilable(row[r])
  /\ row' = [row EXCEPT ![r] = Stopped(@, "error", 0)]
  /\ UNCHANGED <<del, task, launcher, job>>
Cancel(r) ==
  /\ row[r].status = "running"
  /\ row' = [row EXCEPT ![r] = Stopped(@, "cancelled", 0)]
  /\ UNCHANGED <<del, task, launcher, job>>

Next ==
  \/ \E r \in Runs, d \in Deliveries : Enqueue(r, d)
  \/ \E d \in Deliveries :
       \/ Dispatch(d) \/ Acknowledge(d) \/ Reserve(d) \/ LeaseOver(d)
       \/ \E c \in launcher[d] : Launch(d, c) \/ LaunchFails(d, c) \/ RecordLaunch(d, c)
  \/ \E j \in Jobs :
       \/ Claim(j) \/ End(j) \/ Persist(j) \/ RecordResult(j) \/ Crash(j) \/ Deadline(j)
       \/ Heartbeat(j)
  \/ \E r \in Runs : Lapse(r) \/ Stall(r) \/ Reconcile(r) \/ Cancel(r)

Spec == Init /\ [][Next]_vars

\* Time passes, the tick reconciles, a job's pipeline ends or its process does.
FairSpec ==
  /\ Spec
  /\ \A r \in Runs : WF_vars(Lapse(r)) /\ WF_vars(Reconcile(r))
  /\ \A j \in Jobs : WF_vars(Claim(j) \/ End(j) \/ Persist(j) \/ RecordResult(j))
-----------------------------------------------------------------------------
Gens == 0..MaxJobs
TypeOK ==
  /\ row \in [Runs -> [status : RunStatus \union {"absent"}, gen : Gens, worker : Gens,
                       beat : {"none", "fresh", "late", "again"}, seq : {0}, out : Gens, ended : Gens]]
  /\ del \in [Deliveries ->
       [state : {"none", "pending", "launching", "running", "superseded"},
        run : Runs \union {NULL}, fresh : BOOLEAN, live : BOOLEAN, tries : 0..MaxLaunches,
        worker : Gens, result : BOOLEAN]]
  /\ task \in [Deliveries -> {"none", "queued", "delivered"}]
  /\ launcher \in [Deliveries -> SUBSET [token : 1..MaxLaunches, step : {"launch", "record"}]]
  /\ job \in [Jobs ->
       [at : {"none", "started", "working", "closing", "recording", "over"},
        del : Deliveries \union {NULL}, status : {"absent", "complete", "error"}]]

\* A request that a resume has replaced never gets a worker, however late its
\* task is delivered, its launch answered or its job started
\* (20261026000000_google_canonical_deliveries.sql:63).
OldRequestNeverRuns ==
  [][\A d \in Deliveries : del'[d].worker # del[d].worker =>
       \A c \in Of(RunOf(d)) : c <= d]_vars

\* A run begins afresh at most once, and only if no worker has held it before:
\* a resume that may have something to resume never starts over
\* (20261026000000_google_canonical_deliveries.sql:52-53).
StartsFreshOnce ==
  \A c, d \in Deliveries :
    c # d /\ del[c].worker # NULL /\ del[d].worker # NULL /\ RunOf(c) = RunOf(d)
      => ~(del[c].fresh /\ del[d].fresh)

\* Reserved launches and live workers stay within the capacity.  Only a worker
\* that was taken for dead and is heard of again comes on top
\* (20261026000000_google_canonical_deliveries.sql:89-92, 125).
CapacityKept ==
  /\ TypeOK
  /\ Cardinality(Counted)
       <= LaunchCapacity + Cardinality({d \in Counted : row[RunOf(d)].beat = "again"})

\* A recorded result is that of the completed run and of the worker that
\* completed it, and stays so
\* (20261026000000_google_canonical_deliveries.sql:143-144).
ResultStands ==
  \A d \in Deliveries : del[d].result =>
    LET r == row[RunOf(d)]
    IN r.status = "complete" /\ r.gen = del[d].worker /\ job[r.gen].status = "complete"

\* No request stays "running" for ever: a worker closes it, is found dead, or
\* none comes and it is ended as never started (runReconciler.ts:92, 105).
RunSettles == \A r \in Runs : (row[r].status = "running") ~> (row[r].status # "running")

=============================================================================
