----------------------------- MODULE UniversalRun -----------------------------
(***************************************************************************)
(* executeUniversalRun (backend/src/synthesis/universalExecution.ts) and   *)
(* the canonical tasks it runs through the scheduler                       *)
(* (universalCanonicalTasks.ts): implement, validate, repair, browser      *)
(* checks, review, publish, over all the attempts of one run.              *)
(*                                                                         *)
(* An attempt is a phase machine in a process; the tasks it runs are       *)
(* checkpointed through the fence of persist_execution_checkpoint_attempt. *)
(* A resumed attempt walks the same phases again over the recovered tasks, *)
(* which a direct request loads before it claims the run, a queued one     *)
(* afterwards (see ExecutionScheduler): its graph may be outdated.         *)
(* The scheduler itself is the module ExecutionScheduler: here a phase has *)
(* one task, which is entered, started, handled and finished, each but the *)
(* handling with a write.  All adapters are present and publication is     *)
(* requested; an adapter that does nothing stands for one that is absent.  *)
(***************************************************************************)
EXTENDS Naturals, FiniteSets

CONSTANTS Versions,   \* the file sets a model may produce
          Base,       \* the file set of the project before the run
          Greenfield, \* no files yet: implementing is interruptible then
          Abortable,  \* the attempts whose abort is explored
          MaxGen      \* attempts of the run that are explored

ASSUME RunAssumption ==
  /\ MaxGen \in Nat \ {0} /\ Greenfield \in BOOLEAN
  /\ Versions # {} /\ Base \notin Versions

Gens == 1..MaxGen
Files == Versions \union {Base}
Tasks == {"impl", "rep", "val", "rev", "pub"}

\* The phases of executeUniversalRun that run a canonical task.
TaskOf == [implement |-> "impl", noop |-> "rep", validate |-> "val", repair |-> "rep",
           revalidate |-> "val", browserRepair |-> "rep", review |-> "rev", publish |-> "pub"]

VARIABLES
  row,        \* execution_runs.state: the tasks as last checkpointed
  authority,  \* the attempt swarm_runs names, 0 when the run is not 'running'
  complete,   \* whether swarm_runs.status is 'complete'
  pc,         \* per attempt: the phase and how far its task is
  files,      \* per attempt: the local variable files
  mem,        \* per attempt: the tasks in its process
  aborted,    \* attempts whose run signal is aborted
  log,        \* what the adapters were asked for and did, per attempt
  outdated    \* attempts that claimed the run with a graph the row had gone past

\* The last two are history: no action reads them.
vars == <<row, authority, complete, pc, files, mem, aborted, log, outdated>>

Node == [status |-> "ready", started |-> FALSE, out |-> "none"]
NoTasks == [t \in Tasks |-> [Node EXCEPT !.status = "absent"]]

Init ==
  /\ row = NoTasks
  /\ authority = 1
  /\ complete = FALSE
  /\ pc = [g \in Gens |-> [at |-> IF g = 1 THEN "implement" ELSE "unborn", step |-> "enter"]]
  /\ files = [g \in Gens |-> Base]
  /\ mem = [g \in Gens |-> NoTasks]
  /\ aborted = {}
  /\ log = [shipped |-> {}, refused |-> {}, passed |-> {}, approved |-> {}, asked |-> {}]
  /\ outdated = {}

-----------------------------------------------------------------------------
\* A task of a phase.

Goto(g, phase) == pc' = [pc EXCEPT ![g] = [at |-> phase, step |-> "enter"]]
Step(g, step) == pc' = [pc EXCEPT ![g].step = step]
In(g, step) == pc[g].at \in DOMAIN TaskOf /\ pc[g].step = step
Task(g) == TaskOf[pc[g].at]
Out(g, t) == mem[g][t].out
Logged(kind, entry) == log' = [log EXCEPT ![kind] = @ \union {entry}]
Entry(g) == [by |-> g, files |-> files[g]]

\* completeRun or failRun: without authority the run's row is not changed.
Leave(g, success) ==
  /\ Goto(g, "ended")
  /\ IF authority = g THEN authority' = 0 /\ complete' = success
                      ELSE UNCHANGED <<authority, complete>>

\* A write that failed or was refused throws.  Publishing catches it and the
\* run is complete all the same, unless what follows fails.
Throw(g) == Leave(g, FALSE) \/ (pc[g].at = "publish" /\ Leave(g, TRUE))

\* Mutant: the checkpoint is not fenced by the attempt's authority.
CanWriteUnfenced(g) == TRUE

CanWrite(g) == authority = g

\* The await of a write, going on at the given step when it succeeds.
SaveThen(g, tasks, step) ==
  \/ CanWrite(g) /\ row' = tasks /\ Step(g, step) /\ UNCHANGED <<authority, complete>>
  \/ Throw(g) /\ (row' = row \/ (CanWrite(g) /\ row' = tasks))

\* Mutant: the first version of runTaskOnState, see universalCanonicalTasks.ts:767.
KeptNever(m, t) == t = "impl" /\ m[t].status # "absent"

\* Validation always runs again.  An implementation that exists is taken as
\* it is, the other tasks when they completed or nobody knows whether they did.
Kept(m, t) ==
  \/ t = "impl" /\ m[t].status # "absent"
  \/ t \in {"rep", "rev", "pub"} /\ m[t].status \in {"completed", "uncertain"}

Enter(g) ==
  /\ In(g, "enter")
  /\ IF Kept(mem[g], Task(g))
     THEN Step(g, "return") /\ UNCHANGED <<row, authority, complete, mem>>
     ELSE LET tasks == [mem[g] EXCEPT ![Task(g)] = Node]
          IN mem' = [mem EXCEPT ![g] = tasks] /\ SaveThen(g, tasks, "start")
  /\ UNCHANGED <<files, aborted, log>>

Start(g) ==
  /\ In(g, "start")
  /\ \/ /\ g \notin aborted
        /\ LET tasks == [mem[g] EXCEPT ![Task(g)].status = "running", ![Task(g)].started = TRUE]
           IN mem' = [mem EXCEPT ![g] = tasks] /\ SaveThen(g, tasks, "handler")
     \/ /\ g \in aborted
        /\ LET tasks == [mem[g] EXCEPT ![Task(g)].status = "cancelled"]
           IN mem' = [mem EXCEPT ![g] = tasks] /\ SaveThen(g, tasks, "return")
  /\ UNCHANGED <<files, aborted, log>>

Interruptible == {"rep", "val", "rev"} \union (IF Greenfield THEN {"impl"} ELSE {})

\* What the handler returned or threw.  A cancelled task keeps its output.
Settle(g, status, out) ==
  LET cancelled == Task(g) \in Interruptible /\ g \in aborted /\ status # "failed"
  IN /\ mem' = [mem EXCEPT ![g][Task(g)].status = IF cancelled THEN "cancelled" ELSE status,
                           ![g][Task(g)].out = out]
     /\ Step(g, "finish")
     /\ UNCHANGED <<row, authority, complete, files, aborted>>

Handling(g, t) == In(g, "handler") /\ Task(g) = t

Implement(g) ==
  /\ Handling(g, "impl") /\ Logged("asked", g)
  /\ \/ \E f \in IF Greenfield THEN Versions ELSE Files : Settle(g, "completed", f)
     \/ Settle(g, "failed", "none")

Repair(g) ==
  /\ Handling(g, "rep") /\ UNCHANGED log
  /\ (\E f \in Files : Settle(g, "completed", f)) \/ Settle(g, "failed", "none")

\* Exit codes decide.  The sandbox may also not have run at all.
Validate(g) ==
  /\ Handling(g, "val")
  /\ \/ Settle(g, "completed", "passed") /\ Logged("passed", Entry(g))
     \/ \E out \in {"failed", "none"} : Settle(g, "failed", out) /\ UNCHANGED log

\* A reviewer that throws gives no verdict.
Review(g) ==
  /\ Handling(g, "rev")
  /\ \/ Settle(g, "completed", "approved") /\ Logged("approved", Entry(g))
     \/ \E out \in {"rejected", "none"} : Settle(g, "failed", out) /\ UNCHANGED log

\* The atomic writer moves the ref, then answers; the answer may be lost.
Commit(g) ==
  /\ Handling(g, "pub")
  /\ Logged("shipped", Entry(g))
  /\ Step(g, "committed")
  /\ UNCHANGED <<row, authority, complete, files, mem, aborted>>
Published(g) ==
  /\ In(g, "committed") /\ Settle(g, "completed", "sha") /\ UNCHANGED log
PublishFailed(g) ==
  /\ Handling(g, "pub") \/ In(g, "committed")
  /\ Settle(g, "failed", "none")
  /\ UNCHANGED log

Finish(g) ==
  /\ In(g, "finish")
  /\ SaveThen(g, mem[g], "return")
  /\ IF pc[g].at = "publish" /\ row'["pub"].status = "failed"
     THEN Logged("refused", g) ELSE UNCHANGED log
  /\ UNCHANGED <<files, mem, aborted>>

-----------------------------------------------------------------------------
\* The phases, after their tasks.

Returned(g, phase) == pc[g] = [at |-> phase, step |-> "return"]
Onward(g, phase) == Goto(g, phase) /\ UNCHANGED <<authority, complete>>
GiveUp(g) == Leave(g, FALSE) /\ UNCHANGED files
Local == UNCHANGED <<row, mem, aborted, log>>

\* Files that did not change the project get one repair.
AfterImplement(g) ==
  /\ Returned(g, "implement") /\ Local
  /\ IF mem[g]["impl"].status = "completed"
     THEN /\ files' = [files EXCEPT ![g] = Out(g, "impl")]
          /\ Onward(g, IF Out(g, "impl") = Base THEN "noop" ELSE "validate")
     ELSE GiveUp(g)

Repaired(g, phase) ==
  files' = [files EXCEPT ![g] = Out(g, "rep")] /\ Onward(g, phase)

AfterNoopRepair(g) ==
  /\ Returned(g, "noop") /\ Local
  /\ IF Out(g, "rep") \in Versions THEN Repaired(g, "validate") ELSE GiveUp(g)

AfterValidate(g) ==
  /\ Returned(g, "validate") /\ Local
  /\ \/ Out(g, "val") = "passed" /\ Onward(g, "browser") /\ UNCHANGED files
     \/ Out(g, "val") = "failed" /\ Onward(g, "repair") /\ UNCHANGED files
     \/ Out(g, "val") = "none" /\ GiveUp(g)

AfterRepair(g) ==
  /\ Returned(g, "repair") /\ Local
  /\ IF Out(g, "rep") \in Files THEN Repaired(g, "revalidate") ELSE GiveUp(g)

AfterRevalidate(g) ==
  /\ Returned(g, "revalidate") /\ Local
  /\ IF Out(g, "val") = "passed" THEN Onward(g, "browser") /\ UNCHANGED files ELSE GiveUp(g)

\* browserVerify passes, was not applicable, fails or throws.
Browser(g) ==
  /\ pc[g].at = "browser" /\ Local
  /\ \/ \E next \in {"review", "browserRepair"} : Onward(g, next) /\ UNCHANGED files
     \/ GiveUp(g)

\* Mutant: the browser is asked again without a new build.
AfterBrowserRepairUnbuilt(g) ==
  /\ Returned(g, "browserRepair") /\ Local
  /\ IF Out(g, "rep") \in Files THEN Repaired(g, "recheck") ELSE GiveUp(g)

AfterBrowserRepair(g) ==
  /\ Returned(g, "browserRepair") /\ Local
  /\ IF Out(g, "rep") \in Files THEN Repaired(g, "rebuild") ELSE GiveUp(g)

\* The deterministic checks again, not as a canonical task.
Rebuild(g) ==
  /\ pc[g].at = "rebuild"
  /\ \/ Onward(g, "recheck") /\ Logged("passed", Entry(g)) /\ UNCHANGED files
     \/ GiveUp(g) /\ UNCHANGED log
  /\ UNCHANGED <<row, mem, aborted>>

Recheck(g) ==
  /\ pc[g].at = "recheck" /\ Local
  /\ (Onward(g, "review") /\ UNCHANGED files) \/ GiveUp(g)

AfterReview(g) ==
  /\ Returned(g, "review") /\ Local
  /\ IF Out(g, "rev") = "approved" THEN Onward(g, "publish") /\ UNCHANGED files ELSE GiveUp(g)

\* Publishing decides nothing: the run is complete whether it succeeded,
\* failed or was blocked, unless what follows throws.
AfterPublish(g) ==
  /\ Returned(g, "publish") /\ Local
  /\ \E success \in BOOLEAN : Leave(g, success)
  /\ UNCHANGED files

-----------------------------------------------------------------------------
\* Around the process.

Alive(g) == pc[g].at \notin {"unborn", "loaded", "ended", "dead"}

Abort(g) ==
  /\ Alive(g) /\ g \in Abortable
  /\ aborted' = aborted \union {g}
  /\ UNCHANGED <<row, authority, complete, pc, files, mem, log, outdated>>

Crash(g) ==
  /\ Alive(g)
  /\ Goto(g, "dead")
  /\ files' = [files EXCEPT ![g] = Base] /\ mem' = [mem EXCEPT ![g] = NoTasks]
  /\ aborted' = aborted \ {g}
  /\ UNCHANGED <<row, authority, complete, log, outdated>>

\* The run was found orphaned, its process being dead, slow or still at work.
Interrupt ==
  /\ authority # 0
  /\ authority' = 0
  /\ UNCHANGED <<row, complete, pc, files, mem, aborted, log, outdated>>

Resumable == {"running", "cancelled"}

\* Mutant: a publish that was cut short is replayed.
RecoverReplays(m) ==
  [t \in Tasks |-> IF m[t].status \in Resumable
     THEN [m[t] EXCEPT !.status = "ready", !.started = FALSE] ELSE m[t]]

\* Only publishing is neither checkpointed nor interruptible.
Recover(m) ==
  [t \in Tasks |-> IF m[t].status \notin Resumable THEN m[t]
     ELSE IF t = "pub" /\ m[t].started THEN [m[t] EXCEPT !.status = "uncertain"]
     ELSE [m[t] EXCEPT !.status = "ready", !.started = FALSE]]

\* The checkpoint is loaded, and recovered: by a direct request before it has
\* the run, by a queued one when it has it.
Load(g) ==
  /\ \/ pc[g].at = "unborn" /\ Goto(g, "loaded")
     \/ pc[g].at = "adopted" /\ Goto(g, "engineering")
  /\ mem' = [mem EXCEPT ![g] = Recover(row)]
  /\ UNCHANGED <<row, authority, complete, files, aborted, log, outdated>>

Claimed(g) == pc[g].at \notin {"unborn", "loaded"}

\* The run neither runs nor is complete.  Attempts are numbered in the order
\* they take it.
MayTake(g) == authority = 0 /\ ~complete /\ \A h \in Gens : h < g => Claimed(h)

\* The claim of a direct request looks at swarm_runs only, not at the checkpoint.
Claim(g) ==
  /\ pc[g].at = "loaded" /\ MayTake(g)
  /\ authority' = g
  /\ Goto(g, "engineering")
  /\ outdated' = IF mem[g] = Recover(row) THEN outdated ELSE outdated \union {g}
  /\ UNCHANGED <<row, complete, files, mem, aborted, log>>

\* A queued request has claimed the run before the pipeline starts.
Adopt(g) ==
  /\ pc[g].at = "unborn" /\ MayTake(g)
  /\ authority' = g
  /\ Goto(g, "adopted")
  /\ UNCHANGED <<row, complete, files, mem, aborted, log, outdated>>

\* The claim is refused, or the request is gone before it is made.
Refuse(g) ==
  /\ pc[g].at = "loaded"
  /\ Goto(g, "unborn")
  /\ mem' = [mem EXCEPT ![g] = NoTasks]
  /\ UNCHANGED <<row, authority, complete, files, aborted, log, outdated>>

Resume(g) == Load(g) \/ Claim(g) \/ Adopt(g) \/ Refuse(g)

\* The engineering pass over the recovered graph has handlers for its own
\* tasks only; it blocks every other ready one and saves the graph.
Engineering(g) ==
  /\ pc[g].at = "engineering"
  /\ LET tasks == [t \in Tasks |-> IF mem[g][t].status = "ready"
                     THEN [mem[g][t] EXCEPT !.status = "blocked"] ELSE mem[g][t]]
     IN /\ mem' = [mem EXCEPT ![g] = tasks]
        /\ \/ CanWrite(g) /\ row' = tasks /\ Onward(g, "implement")
           \/ Leave(g, FALSE) /\ (row' = row \/ (CanWrite(g) /\ row' = tasks))
  /\ UNCHANGED <<files, aborted, log>>

RunTask(g) ==
  \/ Enter(g) \/ Start(g) \/ Implement(g) \/ Repair(g) \/ Validate(g) \/ Review(g)
  \/ Commit(g) \/ Published(g) \/ PublishFailed(g) \/ Finish(g)

Work(g) ==
  /\ \/ Engineering(g) \/ RunTask(g) \/ AfterImplement(g) \/ AfterNoopRepair(g)
     \/ AfterValidate(g) \/ AfterRepair(g) \/ AfterRevalidate(g)
     \/ Browser(g) \/ AfterBrowserRepair(g) \/ Rebuild(g) \/ Recheck(g)
     \/ AfterReview(g) \/ AfterPublish(g)
  /\ UNCHANGED outdated

Next ==
  \/ \E g \in Gens : Work(g) \/ Abort(g) \/ Crash(g) \/ Resume(g)
  \/ Interrupt

Spec == Init /\ [][Next]_vars
-----------------------------------------------------------------------------
Phases == DOMAIN TaskOf \union
  {"unborn", "loaded", "adopted", "engineering", "browser", "rebuild", "recheck", "ended", "dead"}
Steps == {"enter", "start", "handler", "committed", "finish", "return"}
Status == {"absent", "ready", "running", "completed", "failed", "blocked", "cancelled", "uncertain"}
TaskRecord ==
  [status : Status, started : BOOLEAN,
   out : Files \union {"none", "passed", "failed", "approved", "rejected", "sha"}]
Entries == [by : Gens, files : Files]

TypeOK ==
  /\ row \in [Tasks -> TaskRecord]
  /\ authority \in 0..MaxGen /\ complete \in BOOLEAN
  /\ pc \in [Gens -> [at : Phases, step : Steps]]
  /\ files \in [Gens -> Files]
  /\ mem \in [Gens -> [Tasks -> TaskRecord]]
  /\ aborted \subseteq Gens
  /\ log \in [shipped : SUBSET Entries, refused : SUBSET Gens, passed : SUBSET Entries,
              approved : SUBSET Entries,
              asked : SUBSET Gens]
  /\ outdated \subseteq Gens

\* An attempt after a, up to b, began with a graph the row had gone past.
Overtaken(a, b) == \E k \in outdated : a < k /\ k <= b

\* Never do two attempts of a run write to the repository at the same time,
\* although an interrupted attempt goes on beside the one that replaced it
\* (universalCanonicalTasks.ts:777-788, canonicalResume.ts:89-103), but behind
\* a resume with an outdated graph.
Publishing(g) == pc[g].at = "publish" /\ pc[g].step \in {"handler", "committed"}
OnePublisherUnlessOutdated ==
  /\ TypeOK
  /\ \A g, h \in Gens : Publishing(g) /\ Publishing(h) /\ g < h => Overtaken(g, h)

\* A run commits a second time for one of two reasons only: a publish on record
\* as failed, which universalCanonicalTasks.ts:579 wants no retry of and line 791
\* runs again, or a resume with an outdated graph.  A publish that completed or
\* was cut short is no reason.
RepublishHasCause ==
  \A a, b \in log.shipped :
    a.by < b.by => \/ \E g \in log.refused : a.by <= g /\ g < b.by
                   \/ Overtaken(a.by, b.by)

\* What an attempt publishes, that attempt has built and tested in exactly
\* this form, whichever repairs came between, and a reviewer approved it in
\* this form, unless the attempt went by the review of an earlier attempt
\* (universalExecution.ts:592, 672, 713).
ShippedChecked ==
  \A s \in log.shipped :
    /\ s \in log.passed
    /\ s \in log.approved \/ \E a \in log.approved : a.by < s.by

\* A run is implemented once: an attempt that lost its authority does not
\* produce a second file set (universalCanonicalTasks.ts:97-100), and neither
\* does a later one but behind a resume with an outdated graph.
ImplementedOnceUnlessOutdated ==
  \A g, h \in log.asked : g < h => Overtaken(g, h)

-----------------------------------------------------------------------------
\* What comments of the program say and the program does not do.

\* canonicalResume.ts:20-24: an interrupted implementation "is checkpointed by
\* runId, so resuming it is not equivalent to blindly repeating an external
\* side effect", so a resumed attempt does not find it blocked.
ImplementationResumable ==
  \A g \in Gens : Returned(g, "implement") => mem[g]["impl"].status # "blocked"

=============================================================================
