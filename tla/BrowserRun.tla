------------------------------ MODULE BrowserRun ------------------------------
(***************************************************************************)
(* A durable browser run: its row in browser_runs, the queue that carries  *)
(* it to an executor, the sweep that dispatches it again, and the          *)
(* executors (executeBrowserRun in workers/browserCapability.ts with the   *)
(* handler of workers/browserTaskHandler.ts).                              *)
(*                                                                         *)
(* Two leases guard a run: "execute", which fences the checkpoints, and    *)
(* "task", which the handler takes for as long as the browser works.  What *)
(* a lease promises is the module FencedLease: here holder[k] is the       *)
(* executor whose lease on k is current.  The run has one task, so the     *)
(* scheduler is the sequence of its writes.                                *)
(***************************************************************************)
EXTENDS Naturals

CONSTANTS Executors,   \* invocations of executeBrowserRun that overlap
          Count,       \* artifacts the browser delivers
          MaxAttempts, \* retryPolicy.maximumAttempts
          MaxTasks,    \* bound: queue tasks at a time
          MaxFaults    \* bound: crashes, stalls, lost tasks, failed calls

ASSUME BrowserAssumption ==
  /\ Count \in Nat /\ MaxAttempts \in Nat \ {0} /\ MaxTasks \in Nat \ {0} /\ MaxFaults \in Nat
  /\ "nobody" \notin Executors

Artifacts == 1..Count
Leases == {"execute", "task"}

VARIABLES
  row,     \* the task in browser_runs.state; the run's status follows from it
  cancel,  \* cancel_requested_at is set
  tasks,   \* Cloud Tasks that call /execute
  named,   \* the task name of this dedupe window was used
  holder,  \* per lease: the executor whose lease is current, or "nobody"
  pc,      \* per executor: where it is
  mem,     \* per executor: the task in its process
  abort,   \* executors whose abort signal is set
  next,    \* per executor: the artifact it stores next
  copies,  \* per artifact: objects on the tenant's drive
  faults   \* faults so far

vars == <<row, cancel, tasks, named, holder, pc, mem, abort, next, copies, faults>>

Ready == [status |-> "ready", attempts |-> 0]
Terminal(t) == t.status \in {"completed", "failed", "blocked", "cancelled"}

\* prepareBrowserRun has created the row; nothing is dispatched yet.
Init ==
  /\ row = Ready /\ cancel = FALSE
  /\ tasks = 0 /\ named = FALSE
  /\ holder = [k \in Leases |-> "nobody"]
  /\ pc = [e \in Executors |-> "idle"]
  /\ mem = [e \in Executors |-> Ready]
  /\ abort = {}
  /\ next = [e \in Executors |-> 1]
  /\ copies = [a \in Artifacts |-> 0]
  /\ faults = 0

At(e, place) == pc[e] = place
Goto(e, place) == pc' = [pc EXCEPT ![e] = place]
Holds(e, k) == holder[k] = e
Fault == faults < MaxFaults /\ faults' = faults + 1
Store == <<row, cancel, copies>>
Queue == <<tasks, named>>
Local == <<mem, abort, next>>

-----------------------------------------------------------------------------
\* Dispatch.

\* A name that was used in this window is a duplicate and counts as accepted.
Dispatch ==
  /\ IF named THEN UNCHANGED tasks ELSE tasks < MaxTasks /\ tasks' = tasks + 1
  /\ named' = TRUE

\* The route that created the run, and the sweep over runs left untouched.
Sweep == ~Terminal(row) /\ Dispatch /\ UNCHANGED <<Store, holder, pc, Local, faults>>

\* Mutant: the dedupe window never ends.
NewWindowNever == FALSE /\ UNCHANGED vars

NewWindow ==
  /\ named /\ named' = FALSE
  /\ UNCHANGED <<Store, tasks, holder, pc, Local, faults>>

LoseTask ==
  /\ tasks > 0 /\ tasks' = tasks - 1 /\ Fault
  /\ UNCHANGED <<Store, named, holder, pc, Local>>

\* Delivery is at least once: the task stays until it is answered.
Deliver(e) ==
  /\ At(e, "idle") /\ tasks > 0 /\ Goto(e, "read")
  /\ UNCHANGED <<Store, Queue, holder, Local, faults>>

\* DELETE: the flag, then an execution in the same process.
RequestCancel(e) ==
  /\ At(e, "idle") /\ ~cancel /\ ~Terminal(row)
  /\ cancel' = TRUE /\ Goto(e, "read")
  /\ UNCHANGED <<row, copies, Queue, holder, Local, faults>>

-----------------------------------------------------------------------------
\* executeBrowserRun.

\* Every outcome answers 200 and ends the queue task; an exception does not.
Answer(e) ==
  /\ Goto(e, "idle")
  /\ tasks' = IF tasks > 0 THEN tasks - 1 ELSE 0
  /\ UNCHANGED named

\* What the invocation had in memory.
Gone(e) == mem' = [mem EXCEPT ![e] = Ready] /\ abort' = abort \ {e}

Freed(e) == [k \in Leases |-> IF Holds(e, k) THEN "nobody" ELSE holder[k]]

Read(e) ==
  /\ At(e, "read")
  /\ IF Terminal(row) THEN Answer(e) ELSE Goto(e, "acquire") /\ UNCHANGED Queue
  /\ UNCHANGED <<Store, holder, Local, faults>>

Acquire(e) ==
  /\ At(e, "acquire")
  /\ IF holder["execute"] = "nobody"
     THEN /\ holder' = [holder EXCEPT !["execute"] = e]
          /\ Goto(e, "reread") /\ UNCHANGED Queue
     ELSE Answer(e) /\ UNCHANGED holder
  /\ UNCHANGED <<Store, Local, faults>>

Reread(e) ==
  /\ At(e, "reread")
  /\ Goto(e, IF Terminal(row) THEN "leave" ELSE "holder")
  /\ mem' = [mem EXCEPT ![e] = row]
  /\ UNCHANGED <<Store, Queue, holder, abort, next, faults>>

\* A task that another executor's handler still holds is not ours to resume.
CheckHolder(e) ==
  /\ At(e, "holder")
  /\ Goto(e, IF holder["task"] = "nobody" THEN "owned" ELSE "leave")
  /\ UNCHANGED <<Store, Queue, holder, Local, faults>>

\* ownedRun asserts the execution lease; then the cancel flag is read.
Owned(e) ==
  /\ At(e, "owned")
  /\ IF Holds(e, "execute")
     THEN /\ Goto(e, "recover")
          /\ abort' = IF cancel THEN abort \union {e} ELSE abort
     ELSE Goto(e, "unwind") /\ UNCHANGED abort
  /\ UNCHANGED <<Store, Queue, holder, mem, next, faults>>

Recovered(t) ==
  [status |-> "ready",
   attempts |-> IF t.status \in {"running", "cancelled"} /\ t.attempts > 0
                THEN t.attempts - 1 ELSE t.attempts]

\* recoverRunWithLeases: a running task that is held meanwhile stays as it is.
Recover(e) ==
  /\ At(e, "recover")
  /\ mem' = [mem EXCEPT ![e] =
       IF @.status = "running" /\ holder["task"] # "nobody" THEN @ ELSE Recovered(@)]
  /\ Goto(e, "top")
  /\ UNCHANGED <<Store, Queue, holder, abort, next, faults>>

\* Mutant: the cancel flag left out.
CanSaveCancelled(e, t) == Holds(e, "execute") /\ (~Terminal(row) \/ row.status = t.status)

\* The UPDATE: fenced by the lease row, only while the run is active (or says
\* the same already), never completed once it is cancelled.
CanSave(e, t) ==
  /\ Holds(e, "execute")
  /\ ~Terminal(row) \/ row.status = t.status
  /\ ~cancel \/ t.status # "completed"

\* A row that has ended keeps its state, whatever is saved.
Written(t) == IF Terminal(row) THEN row ELSE t

\* Mutant: an UPDATE by run id, whoever asks.
SaveThenUnfenced(e, t, place, refused) ==
  \/ row' = t /\ Goto(e, place) /\ UNCHANGED faults
  \/ Fault /\ row' \in {row, t} /\ Goto(e, refused)

SaveThen(e, t, place, refused) ==
  \/ CanSave(e, t) /\ row' = Written(t) /\ Goto(e, place) /\ UNCHANGED faults
  \/ ~CanSave(e, t) /\ UNCHANGED <<row, faults>> /\ Goto(e, refused)
  \/ Fault /\ (row' = row \/ (CanSave(e, t) /\ row' = Written(t))) /\ Goto(e, refused)

\* The loop of the scheduler: it returns when the task is not ready.
Top(e) ==
  /\ At(e, "top")
  /\ LET t == IF e \in abort /\ ~Terminal(mem[e])
              THEN [mem[e] EXCEPT !.status = "cancelled"] ELSE mem[e]
     IN /\ mem' = [mem EXCEPT ![e] = t]
        /\ SaveThen(e, t, IF t.status = "ready" THEN "start" ELSE "leave", "unwind")
  /\ UNCHANGED <<cancel, copies, Queue, holder, abort, next>>

Start(e) ==
  /\ At(e, "start")
  /\ LET t == [status |-> "running", attempts |-> mem[e].attempts + 1]
     IN mem' = [mem EXCEPT ![e] = t] /\ SaveThen(e, t, "handler", "unwind")
  /\ UNCHANGED <<cancel, copies, Queue, holder, abort, next>>

Leave(e) ==
  /\ At(e, "leave") /\ Answer(e)
  /\ Gone(e) /\ holder' = Freed(e)
  /\ UNCHANGED <<Store, next, faults>>

\* The finally blocks after an exception; 503 asks the queue to retry.
Unwind(e) ==
  /\ At(e, "unwind") /\ Goto(e, "idle")
  /\ Gone(e) /\ holder' = Freed(e)
  /\ UNCHANGED <<Store, Queue, next, faults>>

-----------------------------------------------------------------------------
\* The handler.  Its finally block releases the task lease.

Ends(e, t, place) ==
  /\ mem' = [mem EXCEPT ![e] = t]
  /\ Goto(e, place)
  /\ holder' = IF Holds(e, "task") THEN [holder EXCEPT !["task"] = "nobody"] ELSE holder
  /\ next' = [next EXCEPT ![e] = 1]
  /\ UNCHANGED <<Store, Queue, abort>>

Fails(e) == Ends(e, [mem[e] EXCEPT !.status = "failed"], "finish")

Retries(e) ==
  IF mem[e].attempts < MaxAttempts
  THEN Ends(e, [mem[e] EXCEPT !.status = "waiting"], "wait") ELSE Fails(e)

\* A result that arrives after the abort does not count as completed.
Completes(e) ==
  Ends(e, [mem[e] EXCEPT !.status = IF e \in abort THEN "cancelled" ELSE "completed"], "finish")

\* authorise re-reads the run under the execution lease.
Authorised(e) == Holds(e, "execute") /\ ~cancel /\ ~Terminal(row)
Guard(e) == e \notin abort /\ Holds(e, "task")

Proceed(e, place) ==
  Goto(e, place) /\ UNCHANGED <<Store, Queue, holder, Local, faults>>

Authorise(e) ==
  /\ At(e, "handler")
  /\ \/ Authorised(e) /\ Proceed(e, "claim")
     \/ ~Authorised(e) /\ Fails(e) /\ UNCHANGED faults

Claim(e) ==
  /\ At(e, "claim") /\ UNCHANGED faults
  /\ IF holder["task"] = "nobody"
     THEN /\ holder' = [holder EXCEPT !["task"] = e]
          /\ Goto(e, "granted") /\ UNCHANGED <<Store, Queue, Local>>
     ELSE Retries(e)

\* Mutant: only the task lease is checked again.
GrantedUnauthorised(e) ==
  /\ At(e, "granted")
  /\ \/ Guard(e) /\ Proceed(e, "launch")
     \/ ~Guard(e) /\ Fails(e) /\ UNCHANGED faults

\* Guard, authorise, guard: three calls, the last of them Launch.
Granted(e) ==
  /\ At(e, "granted")
  /\ \/ Guard(e) /\ Authorised(e) /\ Proceed(e, "launch")
     \/ ~(Guard(e) /\ Authorised(e)) /\ Fails(e) /\ UNCHANGED faults

Launch(e) ==
  /\ At(e, "launch")
  /\ \/ Guard(e) /\ Proceed(e, "browsing")
     \/ ~Guard(e) /\ Fails(e) /\ UNCHANGED faults

\* The worker's result passes the checks, fails them or there is none; a job
\* that was stopped or lost its lease is reported as that.
Browsed(e) ==
  /\ At(e, "browsing") /\ UNCHANGED faults
  /\ \/ /\ Guard(e) /\ Goto(e, "check")
        /\ UNCHANGED <<Store, Queue, holder, Local>>
     \/ Guard(e) /\ Retries(e)
     \/ Fails(e)

\* Before each artifact, and before the result is accepted.  It may fail for a
\* lost lease, a cancel, the deadline or a postcondition that does not hold.
Check(e) ==
  /\ At(e, "check")
  /\ \/ Guard(e) /\ Authorised(e) /\ next[e] <= Count /\ Proceed(e, "find")
     \/ Guard(e) /\ next[e] > Count /\ Completes(e) /\ UNCHANGED faults
     \/ Fails(e) /\ UNCHANGED faults

Stored(e) ==
  next' = [next EXCEPT ![e] = @ + 1] /\ Goto(e, "check")

\* Mutant: whatever is on the drive under this name will do.
FindAnything(e) ==
  /\ At(e, "find") /\ Stored(e)
  /\ UNCHANGED <<Store, Queue, holder, mem, abort, faults>>

FindStored(e) ==
  /\ At(e, "find")
  /\ IF copies[next[e]] > 0
     THEN Stored(e) /\ UNCHANGED <<Store, Queue, holder, mem, abort, faults>>
     ELSE Proceed(e, "put")

PutServerObject(e) ==
  /\ At(e, "put")
  /\ \/ /\ Stored(e)
        /\ copies' = [copies EXCEPT ![next[e]] = @ + 1]
        /\ UNCHANGED <<row, cancel, Queue, holder, mem, abort, faults>>
     \/ Retries(e) /\ Fault

Wait(e) ==
  /\ At(e, "wait") /\ SaveThen(e, mem[e], "backoff", "rethrow")
  /\ UNCHANGED <<cancel, copies, Queue, holder, Local>>

Backoff(e) ==
  /\ At(e, "backoff")
  /\ mem' = [mem EXCEPT ![e].status = IF e \in abort THEN "cancelled" ELSE "ready"]
  /\ Goto(e, "finish")
  /\ UNCHANGED <<Store, Queue, holder, abort, next, faults>>

\* The finally block saves once more before the exception goes on.
Rethrow(e) ==
  /\ At(e, "rethrow")
  /\ LET t == IF e \in abort THEN [mem[e] EXCEPT !.status = "cancelled"] ELSE mem[e]
     IN mem' = [mem EXCEPT ![e] = t] /\ SaveThen(e, t, "unwind", "unwind")
  /\ UNCHANGED <<cancel, copies, Queue, holder, abort, next>>

Finish(e) ==
  /\ At(e, "finish") /\ SaveThen(e, mem[e], "top", "unwind")
  /\ UNCHANGED <<cancel, copies, Queue, holder, Local>>

-----------------------------------------------------------------------------
\* Around the executors.

Alive(e) == pc[e] \notin {"idle", "dead"}

\* The poll of the cancel flag, the renewal of the execution lease: a call that
\* fails stops the executor as well.
Abort(e) ==
  /\ Alive(e) /\ e \notin abort
  /\ ((cancel \/ ~Holds(e, "execute")) /\ UNCHANGED faults) \/ Fault
  /\ pc[e] \notin {"read", "acquire", "reread", "holder", "owned", "leave", "unwind"}
  /\ abort' = abort \union {e}
  /\ UNCHANGED <<Store, Queue, holder, pc, mem, next>>

Crash(e) ==
  /\ Alive(e) /\ Fault /\ Goto(e, "dead")
  /\ Gone(e) /\ next' = [next EXCEPT ![e] = 1]
  /\ UNCHANGED <<Store, Queue, holder>>

\* The lease of an executor that died, or of one that stalls.
Expire(k) ==
  /\ holder[k] # "nobody"
  /\ holder' = [holder EXCEPT ![k] = "nobody"]
  /\ IF At(holder[k], "dead") THEN UNCHANGED faults ELSE Fault
  /\ UNCHANGED <<Store, Queue, pc, Local>>

Restart(e) ==
  /\ At(e, "dead") /\ \A k \in Leases : ~Holds(e, k)
  /\ Goto(e, "idle")
  /\ UNCHANGED <<Store, Queue, holder, Local, faults>>

Handle(e) ==
  \/ Authorise(e) \/ Claim(e) \/ Granted(e) \/ Launch(e) \/ Browsed(e)
  \/ Check(e) \/ FindStored(e) \/ PutServerObject(e)

Work(e) ==
  \/ Read(e) \/ Acquire(e) \/ Reread(e) \/ CheckHolder(e) \/ Owned(e) \/ Recover(e)
  \/ Top(e) \/ Start(e) \/ Handle(e) \/ Wait(e) \/ Rethrow(e) \/ Backoff(e) \/ Finish(e)
  \/ Leave(e) \/ Unwind(e)

Next ==
  \/ \E e \in Executors : Work(e) \/ Deliver(e) \/ RequestCancel(e) \/ Abort(e)
                          \/ Crash(e) \/ Restart(e)
  \/ \E k \in Leases : Expire(k)
  \/ Sweep \/ NewWindow \/ LoseTask

Spec == Init /\ [][Next]_vars

\* Processes that run make progress, the queue delivers, the clock moves
\* windows and leases on, and Cloud Scheduler calls the sweep again and again.
FairSpec ==
  /\ Spec
  /\ \A e \in Executors : WF_vars(Work(e)) /\ WF_vars(Deliver(e)) /\ WF_vars(Restart(e))
  /\ \A k \in Leases : WF_vars(Expire(k) /\ UNCHANGED faults)
  /\ WF_vars(Sweep) /\ WF_vars(NewWindow)
-----------------------------------------------------------------------------
Status == {"ready", "running", "waiting", "completed", "failed", "blocked", "cancelled"}
TaskRecord == [status : Status, attempts : 0..MaxAttempts]

TypeOK ==
  /\ row \in TaskRecord /\ cancel \in BOOLEAN
  /\ tasks \in 0..MaxTasks /\ named \in BOOLEAN
  /\ holder \in [Leases -> Executors \union {"nobody"}]
  /\ mem \in [Executors -> TaskRecord]
  /\ abort \subseteq Executors
  /\ next \in [Executors -> 1..Count + 1]
  /\ copies \in [Artifacts -> Nat] /\ faults \in 0..MaxFaults

\* A completed run has its evidence: every artifact of it is on the drive,
\* whichever attempt stored it (browserTaskHandler.ts:218-244).
CompletedHasEvidence ==
  TypeOK /\ (row.status = "completed" => \A a \in Artifacts : copies[a] > 0)

\* A run that ended stays as it ended: an executor that lost its lease, or
\* wakes up late, does not rewrite the outcome (browserRunStore.ts:141-163).
OutcomeSticks == [][Terminal(row) => row' = row]_vars

\* Once the user has cancelled the run it does not become completed.
CancelledNeverCompletes ==
  [][cancel /\ row'.status = "completed" => row.status = "completed"]_vars

\* "A finished run is reported, never rerun" (browserCapability.ts:182): no
\* browser is launched for a run that has ended, also by an executor that
\* was told to go on just before.
NoBrowserAfterEnd ==
  [][\A e \in Executors : At(e, "launch") /\ At(e, "browsing")' => ~Terminal(row)]_vars

\* "A lost task or a stopped instance never strands a run"
\* (browserRunDispatch.ts:13-14).
RunEnds == <>Terminal(row)
=============================================================================
