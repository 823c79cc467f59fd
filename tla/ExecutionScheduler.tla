-------------------------- MODULE ExecutionScheduler --------------------------
(***************************************************************************)
(* ExecutionScheduler (backend/src/ai/executionRuntime.ts): one run's task *)
(* graph, executed by a process that may crash, be superseded by a resumed *)
(* attempt and go on as a stale one.                                       *)
(*                                                                         *)
(* Each attempt (a generation of swarm_runs.lease_generation) keeps the    *)
(* task graph in memory and checkpoints it through                         *)
(* persist_execution_checkpoint_attempt, which writes only for the attempt *)
(* that has authority.  A resumed attempt starts from a checkpoint after   *)
(* recoverCanonicalExecutionStateForResume.  Only a queued one takes the   *)
(* run first and loads then.  A direct request loads first, claims the run *)
(* later and does not load again (pipeline.ts:1197, 1233, 1396): what was  *)
(* checkpointed in between is missing from its graph, which it writes over *)
(* the row.  The set outdated holds the attempts that began like that.     *)
(*                                                                         *)
(* save() clones the state when it is called and writes the clones in      *)
(* order; the write a task asked for is modelled as the write of that      *)
(* task's own record, the write of the loop as that of the whole graph.    *)
(***************************************************************************)
EXTENDS Naturals, FiniteSets

CONSTANTS N,             \* the tasks are 1..N, in the order of state.tasks
          Deps,          \* dependencies of each task
          Mutation,      \* isMutationOperation
          External,      \* publish, commit, deploy: uninterruptible too, but no mutation
          Checkpointed,  \* CHECKPOINT_RESUMABLE_OPERATIONS
          NoHandler,     \* per attempt: the tasks it is given no handler for
          MaxAttempts,   \* retryPolicy.maximumAttempts of each task
          MaxGen         \* attempts of the run that are explored

Tasks == 1..N
Gens == 1..MaxGen
Uninterruptible == Mutation \union External

\* Plans list a task after those it depends on.  Publishing nodes have one
\* attempt (universalCanonicalTasks.ts:579-581); mutations are never retried.
\* What has a checkpoint of its own is no publish, commit or deploy.
ASSUME PlanAssumption ==
  /\ N \in Nat \ {0} /\ MaxGen \in Nat \ {0}
  /\ Mutation \subseteq Tasks /\ External \subseteq Tasks
  /\ NoHandler \in [Gens -> SUBSET Tasks]
  /\ Checkpointed \subseteq Mutation \ External
  /\ Deps \in [Tasks -> SUBSET Tasks] /\ MaxAttempts \in [Tasks -> Nat \ {0}]
  /\ \A t \in Tasks : \A d \in Deps[t] : d < t
  /\ \A t \in External : MaxAttempts[t] = 1

VARIABLES
  row,        \* execution_runs.state: the tasks as last checkpointed
  authority,  \* the attempt swarm_runs names, 0 when the run is not 'running'
  mem,        \* per attempt: the tasks in its process
  phase,      \* per attempt: where run() is
  pc,         \* per attempt and task: where execute() is
  aborted,    \* attempts whose run signal is aborted
  broken,     \* attempts with a failed write: their queue is poisoned
  effects,    \* per attempt and external task: how often it was done
  outdated    \* attempts that claimed the run with a graph the row had gone past

\* The last two are history: no action reads them.
vars == <<row, authority, mem, phase, pc, aborted, broken, effects, outdated>>

Terminal == {"completed", "failed", "blocked", "cancelled"}
\* Mutant: a blocked dependency does not block what depends on it.
BadWithoutBlocked == {"failed", "cancelled"}
Bad == Terminal \ {"completed"}

Completed(m, t) == m[t].status = "completed"
DepsCompleted(m, t) == \A d \in Deps[t] : Completed(m, d)

Fresh(t) == [status |-> IF Deps[t] = {} THEN "ready" ELSE "pending",
             attempts |-> 0, started |-> FALSE, upstream |-> FALSE]

Idle == [t \in Tasks |-> "idle"]

Init ==
  /\ row = [t \in Tasks |-> Fresh(t)]
  /\ authority = 1
  /\ mem = [g \in Gens |-> [t \in Tasks |-> Fresh(t)]]
  /\ phase = [g \in Gens |-> IF g = 1 THEN "begin" ELSE "unborn"]
  /\ pc = [g \in Gens |-> Idle]
  /\ aborted = {}
  /\ broken = {}
  /\ effects = [g \in Gens |-> [t \in Tasks |-> 0]]
  /\ outdated = {}

-----------------------------------------------------------------------------
\* The loop of run().

Waits == {"pending", "ready"}

\* Which waiting tasks a failed, blocked or cancelled dependency blocks: in
\* task order, with one everything after it that depends on it.
Doomed(m) ==
  LET doomed[t \in Tasks] ==
        \E d \in Deps[t] :
          m[d].status \in Bad \/ (d < t /\ m[d].status \in Waits /\ doomed[d])
  IN doomed

\* One pass over the waiting tasks.
Pass(m) ==
  [t \in Tasks |->
     IF m[t].status \notin Waits THEN m[t]
     ELSE IF Doomed(m)[t] THEN [m[t] EXCEPT !.status = "blocked", !.upstream = TRUE]
     ELSE IF DepsCompleted(m, t) THEN [m[t] EXCEPT !.status = "ready"]
     ELSE m[t]]

CancelRest(m) ==
  [t \in Tasks |-> IF m[t].status \in Terminal THEN m[t] ELSE [m[t] EXCEPT !.status = "cancelled"]]

ReadyTasks(m) == {t \in Tasks : m[t].status = "ready"}

\* Mutant: every ready task at once.
BatchOfAll(R) == R

\* Every ready task that is no mutation, or else the first mutation alone.
BatchOf(R) ==
  IF R \ Mutation # {} THEN R \ Mutation
  ELSE {t \in R : \A u \in R : t <= u}

\* Mutant: the checkpoint is not fenced by the attempt's authority.
CanWriteUnfenced(g) == g \notin broken

CanWrite(g) == authority = g /\ g \notin broken

\* A write that succeeds.  A refused one throws.  A failed one poisons the
\* queue and may have reached the database.
Written(g, new) == CanWrite(g) /\ row' = new /\ UNCHANGED broken
NotWritten(g, new) ==
  /\ broken' = broken \union {g}
  /\ row' = row \/ (CanWrite(g) /\ row' = new)

Begin(g) ==
  /\ phase[g] = "begin"
  /\ \/ Written(g, mem[g]) /\ phase' = [phase EXCEPT ![g] = "top"]
     \/ NotWritten(g, mem[g]) /\ phase' = [phase EXCEPT ![g] = "rejected"]
  /\ UNCHANGED <<authority, mem, pc, aborted, effects, outdated>>

Top(g) ==
  /\ phase[g] = "top" \/ (phase[g] = "batch" /\ pc[g] = Idle)
  /\ \/ g \in aborted /\ mem' = [mem EXCEPT ![g] = CancelRest(@)]
                      /\ phase' = [phase EXCEPT ![g] = "last"]
     \/ g \notin aborted /\ mem' = [mem EXCEPT ![g] = Pass(@)]
                         /\ phase' = [phase EXCEPT ![g] = "dispatch"]
  /\ UNCHANGED <<row, authority, pc, aborted, broken, effects, outdated>>

Last(g) ==
  /\ phase[g] = "last"
  /\ \/ Written(g, mem[g]) /\ phase' = [phase EXCEPT ![g] = "done"]
     \/ NotWritten(g, mem[g]) /\ phase' = [phase EXCEPT ![g] = "rejected"]
  /\ UNCHANGED <<authority, mem, pc, aborted, effects, outdated>>

\* execute() up to its first await, for every task of the batch.
StartBatch(g, B) ==
  /\ mem' = [mem EXCEPT ![g] = [t \in Tasks |->
       IF t \notin B THEN mem[g][t]
       ELSE IF t \in NoHandler[g] THEN [mem[g][t] EXCEPT !.status = "blocked"]
       ELSE [mem[g][t] EXCEPT !.status = "running", !.started = TRUE, !.attempts = @ + 1]]]
  /\ pc' = [pc EXCEPT ![g] = [t \in Tasks |->
       IF t \notin B THEN "idle" ELSE IF t \in NoHandler[g] THEN "finish" ELSE "starting"]]

Dispatch(g) ==
  /\ phase[g] = "dispatch"
  /\ \/ /\ Written(g, mem[g])
        /\ IF ReadyTasks(mem[g]) = {}
           THEN phase' = [phase EXCEPT ![g] = "done"] /\ UNCHANGED <<mem, pc>>
           ELSE /\ phase' = [phase EXCEPT ![g] = "batch"]
                /\ StartBatch(g, BatchOf(ReadyTasks(mem[g])))
     \/ NotWritten(g, mem[g]) /\ phase' = [phase EXCEPT ![g] = "rejected"] /\ UNCHANGED <<mem, pc>>
  /\ UNCHANGED <<authority, aborted, effects, outdated>>

-----------------------------------------------------------------------------
\* execute() of one task.  Promise.all rejects with the first task that
\* throws; the others go on.

Executing(g) == phase[g] \in {"batch", "rejected"}
At(g, t, place) == Executing(g) /\ pc[g][t] = place
Goto(g, t, place) == pc' = [pc EXCEPT ![g][t] = place]
Record(g, t) == [row EXCEPT ![t] = mem[g][t]]
Throw(g, t) == Goto(g, t, "idle") /\ phase' = [phase EXCEPT ![g] = "rejected"]

\* The await of a write in execute(), going on at "next" when it succeeds.
WriteThen(g, t, next) ==
  /\ \/ Written(g, Record(g, t)) /\ Goto(g, t, next) /\ UNCHANGED phase
     \/ NotWritten(g, Record(g, t)) /\ Throw(g, t)
  /\ UNCHANGED <<authority, mem, aborted, effects, outdated>>

TaskStart(g, t) == At(g, t, "starting") /\ WriteThen(g, t, "handler")
TaskWaits(g, t) == At(g, t, "waiting") /\ WriteThen(g, t, "backoff")
TaskFinish(g, t) == At(g, t, "finish") /\ WriteThen(g, t, "idle")

\* Sandbox admission was refused: the task's last write, then the rethrow.
TaskRefused(g, t) ==
  /\ At(g, t, "refused")
  /\ Written(g, Record(g, t)) \/ NotWritten(g, Record(g, t))
  /\ Throw(g, t)
  /\ UNCHANGED <<authority, mem, aborted, effects, outdated>>

\* The handler of an uninterruptible task changes the outside world.
Effect(g, t) ==
  /\ At(g, t, "handler") /\ t \in Uninterruptible
  /\ effects' = IF t \in External THEN [effects EXCEPT ![g][t] = @ + 1] ELSE effects
  /\ Goto(g, t, "affected")
  /\ UNCHANGED <<row, authority, mem, phase, aborted, broken, outdated>>

InHandler(g, t) == At(g, t, "handler") \/ At(g, t, "affected")

\* Mutant: the handler's result is trusted although the run was cancelled.
SettleUncorrected(g, t, status) == mem' = [mem EXCEPT ![g][t].status = status]

\* The finally block: a task in flight when the run was cancelled does not
\* read as finished, unless it had to be let finish.
Settle(g, t, status) ==
  mem' = [mem EXCEPT ![g][t].status =
            IF t \notin Uninterruptible /\ g \in aborted /\ status # "failed"
            THEN "cancelled" ELSE status]

\* A result that is validated and carries evidence.
Resolve(g, t) ==
  /\ InHandler(g, t)
  /\ t \in Uninterruptible => pc[g][t] = "affected"
  /\ Settle(g, t, "completed")
  /\ Goto(g, t, "finish")
  /\ UNCHANGED <<row, authority, phase, aborted, broken, effects, outdated>>

\* An unvalidated result, an error that is not retryable, or no attempt left.
Fail(g, t) ==
  /\ InHandler(g, t)
  /\ Settle(g, t, "failed")
  /\ Goto(g, t, "finish")
  /\ UNCHANGED <<row, authority, phase, aborted, broken, effects, outdated>>

\* Mutant: one attempt too many.
RetryOnceMore(g, t) ==
  /\ InHandler(g, t)
  /\ t \notin Mutation /\ mem[g][t].attempts <= MaxAttempts[t]
  /\ mem' = [mem EXCEPT ![g][t].status = "waiting_for_provider"]
  /\ Goto(g, t, "waiting")
  /\ UNCHANGED <<row, authority, phase, aborted, broken, effects, outdated>>

Retry(g, t) ==
  /\ InHandler(g, t)
  /\ t \notin Mutation /\ mem[g][t].attempts < MaxAttempts[t]
  /\ mem' = [mem EXCEPT ![g][t].status = "waiting_for_provider"]
  /\ Goto(g, t, "waiting")
  /\ UNCHANGED <<row, authority, phase, aborted, broken, effects, outdated>>

BackoffOver(g, t) ==
  /\ At(g, t, "backoff")
  /\ Settle(g, t, "ready")
  /\ Goto(g, t, "finish")
  /\ UNCHANGED <<row, authority, phase, aborted, broken, effects, outdated>>

RefuseAdmission(g, t) ==
  /\ InHandler(g, t)
  /\ Settle(g, t, "blocked")
  /\ Goto(g, t, "refused")
  /\ UNCHANGED <<row, authority, phase, aborted, broken, effects, outdated>>

-----------------------------------------------------------------------------
\* Around the process.

Alive(g) == phase[g] \notin {"unborn", "loaded", "dead"}

Abort(g) ==
  /\ Alive(g) /\ phase[g] # "done"
  /\ aborted' = aborted \union {g}
  /\ UNCHANGED <<row, authority, mem, phase, pc, broken, effects, outdated>>

Crash(g) ==
  /\ Alive(g) /\ phase[g] # "done"
  /\ phase' = [phase EXCEPT ![g] = "dead"]
  /\ pc' = [pc EXCEPT ![g] = Idle]
  /\ mem' = [mem EXCEPT ![g] = [t \in Tasks |-> Fresh(t)]]
  /\ aborted' = aborted \ {g} /\ broken' = broken \ {g}
  /\ UNCHANGED <<row, authority, effects, outdated>>

\* swarm_runs leaves 'running': the run ended, or was found orphaned while
\* its process is dead, slow or still at work.  A complete run stays so.
Interrupt ==
  /\ authority # 0
  /\ \E t \in Tasks : ~Completed(row, t)
  /\ authority' = 0
  /\ UNCHANGED <<row, mem, phase, pc, aborted, broken, effects, outdated>>

Resumable == {"running", "waiting_for_provider", "cancelled"}

Reset(m, t) ==
  [m[t] EXCEPT !.status = IF DepsCompleted(m, t) THEN "ready" ELSE "pending",
               !.started = FALSE, !.upstream = FALSE]

\* Mutant: whatever was cut short is replayed.
RecoverTaskReplays(m, t) ==
  IF m[t].status \notin Resumable THEN m[t]
  ELSE [Reset(m, t) EXCEPT !.attempts =
          IF m[t].status # "waiting_for_provider" /\ @ > 0 THEN @ - 1 ELSE @]
\* A started operation with an outside effect is not replayed.  An attempt
\* that was cut short is given back; one that failed is not.
RecoverTask(m, t) ==
  IF m[t].status \notin Resumable THEN m[t]
  ELSE IF m[t].started /\ t \in Uninterruptible \ Checkpointed
       THEN [m[t] EXCEPT !.status = "blocked"]
       ELSE [Reset(m, t) EXCEPT !.attempts =
               IF m[t].status # "waiting_for_provider" /\ @ > 0 THEN @ - 1 ELSE @]

Shut(m, t) == m[t].status = "blocked" /\ m[t].upstream

\* Which of the tasks blocked by their dependencies these no longer block, in
\* task order.
Unlocked(m) ==
  LET unlocked[t \in Tasks] ==
        \A d \in Deps[t] : m[d].status \in Bad => d < t /\ Shut(m, d) /\ unlocked[d]
  IN unlocked

\* Each task first, then what was blocked only by its dependencies.
Recover(m) ==
  LET r == [t \in Tasks |-> RecoverTask(m, t)]
  IN [t \in Tasks |-> IF Shut(r, t) /\ Unlocked(r)[t] THEN Reset(r, t) ELSE r[t]]

\* load() and recovery of what it returned: of a direct request before it has
\* the run, of a queued one when it has it.
Load(g) ==
  /\ \/ phase[g] = "unborn" /\ phase' = [phase EXCEPT ![g] = "loaded"]
     \/ phase[g] = "adopted" /\ phase' = [phase EXCEPT ![g] = "begin"]
  /\ mem' = [mem EXCEPT ![g] = Recover(row)]
  /\ UNCHANGED <<row, authority, pc, aborted, broken, effects, outdated>>

Claimed(g) == phase[g] \notin {"unborn", "loaded"}

\* The run is not running.  Attempts are numbered in the order they take it.
MayTake(g) == authority = 0 /\ \A h \in Gens : h < g => Claimed(h)

\* The claim of a direct request looks at swarm_runs only, not at the checkpoint.
Claim(g) ==
  /\ phase[g] = "loaded" /\ MayTake(g)
  /\ authority' = g
  /\ phase' = [phase EXCEPT ![g] = "begin"]
  /\ outdated' = IF mem[g] = Recover(row) THEN outdated ELSE outdated \union {g}
  /\ UNCHANGED <<row, mem, pc, aborted, broken, effects>>

\* A queued request has claimed the run before the pipeline starts.
Adopt(g) ==
  /\ phase[g] = "unborn" /\ MayTake(g)
  /\ authority' = g
  /\ phase' = [phase EXCEPT ![g] = "adopted"]
  /\ UNCHANGED <<row, mem, pc, aborted, broken, effects, outdated>>

\* The claim is refused, or the request is gone before it is made.
Refuse(g) ==
  /\ phase[g] = "loaded"
  /\ phase' = [phase EXCEPT ![g] = "unborn"]
  /\ mem' = [mem EXCEPT ![g] = [t \in Tasks |-> Fresh(t)]]
  /\ UNCHANGED <<row, authority, pc, aborted, broken, effects, outdated>>

Resume(g) == Load(g) \/ Claim(g) \/ Adopt(g) \/ Refuse(g)

Execute(g, t) ==
  \/ TaskStart(g, t) \/ Effect(g, t) \/ Resolve(g, t) \/ Fail(g, t) \/ Retry(g, t)
  \/ TaskWaits(g, t) \/ BackoffOver(g, t) \/ RefuseAdmission(g, t)
  \/ TaskRefused(g, t) \/ TaskFinish(g, t)

Work(g) == Begin(g) \/ Top(g) \/ Dispatch(g) \/ Last(g) \/ \E t \in Tasks : Execute(g, t)

Next ==
  \/ \E g \in Gens : Work(g) \/ Abort(g) \/ Crash(g) \/ Resume(g)
  \/ Interrupt

Spec == Init /\ [][Next]_vars

\* A process that runs makes progress: writes are answered, timeouts end
\* handlers, backoffs elapse.
FairSpec == Spec /\ \A g \in Gens : WF_vars(Work(g))
-----------------------------------------------------------------------------
Status == {"pending", "ready", "running", "waiting_for_provider"} \union Terminal
TaskRecord == [status : Status, attempts : Nat, started : BOOLEAN, upstream : BOOLEAN]
Places == {"idle", "starting", "handler", "affected", "waiting", "backoff", "refused", "finish"}

TypeOK ==
  /\ row \in [Tasks -> TaskRecord]
  /\ authority \in 0..MaxGen
  /\ mem \in [Gens -> [Tasks -> TaskRecord]]
  /\ phase \in [Gens -> {"unborn", "loaded", "adopted", "begin", "top", "dispatch", "batch", "last",
                         "done", "rejected", "dead"}]
  /\ pc \in [Gens -> [Tasks -> Places]]
  /\ aborted \subseteq Gens /\ broken \subseteq Gens
  /\ effects \in [Gens -> [Tasks -> Nat]]
  /\ outdated \subseteq Gens

\* An attempt after a, up to b, began with a graph the row had gone past.
Overtaken(a, b) == \E k \in outdated : a < k /\ k <= b

\* A publish, commit or deploy happens once: no attempt repeats its own, and a
\* later attempt repeats one only behind a resume with an outdated graph, whatever
\* crashes, goes stale or is cancelled (executionRuntime.ts:460-463,
\* canonicalResume.ts:89-103).  Recovery promises it without the exception
\* (canonicalResume.ts:70-77).
ExternalOnceUnlessOutdated ==
  \A t \in External, a \in Gens :
    /\ effects[a][t] <= 1
    /\ \A b \in Gens :
         a < b /\ effects[a][t] > 0 /\ effects[b][t] > 0 => Overtaken(a, b)

\* A handler works only on durable results: each dependency of a task whose
\* handler runs is checkpointed as completed, also under a stale attempt, as
\* long as no later attempt began with an outdated graph.
DependenciesDurable ==
  \A g \in Gens, t \in Tasks :
    InHandler(g, t) => \/ \A d \in Deps[t] : Completed(row, d)
                       \/ \E k \in outdated : g < k

\* Within one attempt a mutation never runs beside another task.
MutationAlone ==
  \A g \in Gens : \A t \in Mutation :
    InHandler(g, t) => \A u \in Tasks \ {t} : pc[g][u] = "idle"

\* What a handler builds on neither changes beside it nor is undone by a crash:
\* executionRuntime.ts:492, 485.
HandlersIsolated == DependenciesDurable /\ MutationAlone

\* Interruptions and resumes give no task more attempts than its policy allows
\* and never take one back that was not made, however often they come
\* (canonicalResume.ts:121).  Counted as the row records them: what an outdated
\* graph does not know of is not counted.
AttemptsWithinBudget == TypeOK /\ \A t \in Tasks : row[t].attempts <= MaxAttempts[t]

\* What a checkpoint records as completed or failed stays so: neither a stale
\* attempt nor recovery rewrites an outcome.  Only one write may, the first of
\* an attempt that has the run and began with an outdated graph.
OutcomesStick ==
  [][\A t \in Tasks :
       row[t].status \in {"completed", "failed"} =>
         \/ row'[t] = row[t]
         \/ authority \in outdated /\ phase[authority] = "begin"]_vars

\* hardening/launchHardening.test.ts:269, "ZERO false completion after
\* cancellation": in an attempt whose signal is aborted no interruptible task
\* becomes completed, other than by loading what the row has.
NoCompletionAfterAbort ==
  [][\A g \in aborted, t \in Tasks \ Uninterruptible :
       Completed(mem'[g], t) => Completed(mem[g], t) \/ phase[g] = "adopted"]_vars

\* run() throws, its process dies, or it returns with every task terminal: none is
\* left waiting for a dependency that can no longer complete
\* (executionRuntime.ts:477-489).
AllTerminal(g) == \A t \in Tasks : mem[g][t].status \in Terminal
RunEnds ==
  \A g \in Gens :
    (phase[g] = "begin")
      ~> (phase[g] \in {"rejected", "dead"} \/ (phase[g] = "done" /\ AllTerminal(g)))
=============================================================================
