------------------------------ MODULE Admission ------------------------------
(***************************************************************************)
(* AdmissionController (backend/src/workers/admission.ts): bounded         *)
(* concurrency with tenant fairness for browser jobs in one API process.   *)
(*                                                                         *)
(* The code keeps counters (#running, #runningTotal, #queuedTotal) next to *)
(* the queues; the model keeps both, the counters as the code updates them *)
(* and status[j] as what the callers see, so that they can disagree.       *)
(*                                                                         *)
(* JavaScript runs each call to completion.  #dispatch is a loop inside    *)
(* the release call, so one iteration is one step here and no other        *)
(* operation is taken while dispatching is TRUE.                           *)
(***************************************************************************)
EXTENDS Naturals, FiniteSets

CONSTANTS Tenants,             \* tenants of the host
          Jobs,                \* callers of acquire; a caller may come back after its job ended
          TenantOf,            \* the tenant each caller acts for
          MaxConcurrent,       \* options.maxConcurrent
          MaxPerTenant,        \* options.maxPerTenant
          MaxQueuedPerTenant,  \* options.maxQueuedPerTenant
          MaxQueuedTotal       \* options.maxQueuedTotal

\* The checks of the constructor.
ASSUME AdmissionOptions ==
  /\ IsFiniteSet(Jobs)
  /\ TenantOf \in [Jobs -> Tenants]
  /\ MaxConcurrent \in Nat \ {0} /\ MaxPerTenant \in Nat \ {0}
  /\ MaxQueuedPerTenant \in Nat \ {0} /\ MaxQueuedTotal \in Nat \ {0}
  /\ MaxPerTenant <= MaxConcurrent

VARIABLES
  status,        \* per caller: "idle", "queued" (its promise is pending) or "running"
  ahead,         \* per caller: the waiters with a smaller seq (only the order of seq is used)
  spent,         \* per caller: it holds a release function that was already called
  running,       \* #running
  runningTotal,  \* #runningTotal
  queuedTotal,   \* #queuedTotal
  dispatching    \* control is inside #dispatch

vars == <<status, ahead, spent, running, runningTotal, queuedTotal, dispatching>>

Waiting == {j \in Jobs : status[j] = "queued"}
Queue(t) == {j \in Waiting : TenantOf[j] = t}
RunningOf(t) == {j \in Jobs : status[j] = "running" /\ TenantOf[j] = t}
RunningJobs == {j \in Jobs : status[j] = "running"}

canRun(t) == runningTotal < MaxConcurrent /\ running[t] < MaxPerTenant

Init ==
  /\ status = [j \in Jobs |-> "idle"]
  /\ ahead = [j \in Jobs |-> {}]
  /\ spent = [j \in Jobs |-> FALSE]
  /\ running = [t \in Tenants |-> 0]
  /\ runningTotal = 0
  /\ queuedTotal = 0
  /\ dispatching = FALSE

\* #take: count the job and hand out a fresh release function.
take(j) ==
  /\ status' = [status EXCEPT ![j] = "running"]
  /\ running' = [running EXCEPT ![TenantOf[j]] = @ + 1]
  /\ runningTotal' = runningTotal + 1

\* A waiter leaves its queue: q.splice or q.shift, and #queuedTotal--.
leaveQueue(j) ==
  /\ ahead' = [k \in Jobs |-> IF k = j THEN {} ELSE ahead[k] \ {j}]
  /\ queuedTotal' = queuedTotal - 1

AcquireNow(j) ==
  /\ ~dispatching /\ status[j] = "idle"
  /\ canRun(TenantOf[j])
  /\ take(j)
  /\ UNCHANGED <<ahead, spent, queuedTotal, dispatching>>

QueueFull(t) ==
  \/ Cardinality(Queue(t)) >= MaxQueuedPerTenant
  \/ queuedTotal >= MaxQueuedTotal

AcquireQueued(j) ==
  /\ ~dispatching /\ status[j] = "idle"
  /\ ~canRun(TenantOf[j]) /\ ~QueueFull(TenantOf[j])
  /\ status' = [status EXCEPT ![j] = "queued"]
  /\ ahead' = [ahead EXCEPT ![j] = Waiting]
  /\ queuedTotal' = queuedTotal + 1
  /\ UNCHANGED <<spent, running, runningTotal, dispatching>>

\* QUEUE_FULL: the caller is refused and nothing changes.
AcquireRefused(j) ==
  /\ ~dispatching /\ status[j] = "idle"
  /\ ~canRun(TenantOf[j]) /\ QueueFull(TenantOf[j])
  /\ UNCHANGED vars

\* The abort listener of a waiter.  Once granted it is removed (cleanup).
Abort(j) ==
  /\ ~dispatching /\ status[j] = "queued"
  /\ leaveQueue(j)
  /\ status' = [status EXCEPT ![j] = "idle"]
  /\ UNCHANGED <<spent, running, runningTotal, dispatching>>

\* Mutant: the freed slot is not offered to the waiters.
ReleaseWithoutDispatch(j) ==
  /\ ~dispatching /\ status[j] = "running"
  /\ status' = [status EXCEPT ![j] = "idle"]
  /\ running' = [running EXCEPT ![TenantOf[j]] = IF @ = 0 THEN 0 ELSE @ - 1]
  /\ runningTotal' = runningTotal - 1
  /\ spent' = [spent EXCEPT ![j] = TRUE]
  /\ UNCHANGED <<ahead, queuedTotal, dispatching>>

\* The first call of a release function enters #dispatch.
Release(j) ==
  /\ ~dispatching /\ status[j] = "running"
  /\ status' = [status EXCEPT ![j] = "idle"]
  /\ running' = [running EXCEPT ![TenantOf[j]] = IF @ = 0 THEN 0 ELSE @ - 1]
  /\ runningTotal' = runningTotal - 1
  /\ spent' = [spent EXCEPT ![j] = TRUE]
  /\ dispatching' = TRUE
  /\ UNCHANGED <<ahead, queuedTotal>>

\* Mutant: no "if (released) return".
ReleaseTwice(j) ==
  /\ ~dispatching /\ spent[j]
  /\ running' = [running EXCEPT ![TenantOf[j]] = IF @ = 0 THEN 0 ELSE @ - 1]
  /\ runningTotal' = runningTotal - 1
  /\ dispatching' = TRUE
  /\ UNCHANGED <<status, ahead, spent, queuedTotal>>

\* Calling a release function again does nothing: "if (released) return".
ReleaseAgain(j) ==
  /\ ~dispatching /\ spent[j]
  /\ UNCHANGED vars

\* The waiters an iteration of #dispatch looks at.
Eligible == {j \in Waiting : running[TenantOf[j]] < MaxPerTenant}
\* Mutants: the newest waiter among equals; the tenant that runs most.
BestNewest(j) ==
  /\ j \in Eligible
  /\ \A k \in Eligible \ {j} :
       \/ running[TenantOf[j]] < running[TenantOf[k]]
       \/ running[TenantOf[j]] = running[TenantOf[k]] /\ k \in ahead[j]
BestBusiest(j) ==
  /\ j \in Eligible
  /\ \A k \in Eligible \ {j} :
       \/ running[TenantOf[j]] > running[TenantOf[k]]
       \/ running[TenantOf[j]] = running[TenantOf[k]] /\ j \in ahead[k]

\* Its choice among them: fewest running first, then the oldest.
Best(j) ==
  /\ j \in Eligible
  /\ \A k \in Eligible \ {j} :
       \/ running[TenantOf[j]] < running[TenantOf[k]]
       \/ running[TenantOf[j]] = running[TenantOf[k]] /\ j \in ahead[k]

DispatchGrant(j) ==
  /\ dispatching /\ runningTotal < MaxConcurrent /\ Best(j)
  /\ leaveQueue(j)
  /\ take(j)
  /\ UNCHANGED <<spent, dispatching>>

DispatchEnd ==
  /\ dispatching
  /\ runningTotal >= MaxConcurrent \/ Eligible = {}
  /\ dispatching' = FALSE
  /\ UNCHANGED <<status, ahead, spent, running, runningTotal, queuedTotal>>

Acquire(j) == AcquireNow(j) \/ AcquireQueued(j) \/ AcquireRefused(j)
Dispatch == DispatchEnd \/ \E j \in Jobs : DispatchGrant(j)

Next ==
  \/ \E j \in Jobs : Acquire(j) \/ Abort(j) \/ Release(j) \/ ReleaseAgain(j)
  \/ Dispatch

Spec == Init /\ [][Next]_vars

\* A job that runs ends and its caller releases in a finally block.  That
\* is strong fairness here because Release waits for dispatching to end, as
\* every call waits for the one that runs.  The loop of #dispatch runs on.
\* Nobody is obliged to come back or to abort.
FairSpec == Spec /\ WF_vars(Dispatch) /\ \A j \in Jobs : SF_vars(Release(j))
-----------------------------------------------------------------------------
TypeOK ==
  /\ status \in [Jobs -> {"idle", "queued", "running"}]
  /\ ahead \in [Jobs -> SUBSET Jobs]
  /\ spent \in [Jobs -> BOOLEAN]
  /\ running \in [Tenants -> Nat]
  /\ runningTotal \in Nat
  /\ queuedTotal \in Nat
  /\ dispatching \in BOOLEAN

\* The counters are the numbers of jobs they stand for: no double release,
\* late abort or grant makes them drift.
CountersAgree ==
  /\ runningTotal = Cardinality(RunningJobs)
  /\ queuedTotal = Cardinality(Waiting)
  /\ \A t \in Tenants : running[t] = Cardinality(RunningOf(t))

\* The jobs themselves, not the counters, stay within the host's slots and
\* each tenant's cap, and the queues within their bounds.
WithinCaps ==
  /\ Cardinality(RunningJobs) <= MaxConcurrent
  /\ Cardinality(Waiting) <= MaxQueuedTotal
  /\ \A t \in Tenants : /\ Cardinality(RunningOf(t)) <= MaxPerTenant
                        /\ Cardinality(Queue(t)) <= MaxQueuedPerTenant

\* No sequence of calls makes the counters drift, or lets more jobs run or
\* wait than the limits they are compared with (admission.ts:70, 111).
SlotsAccounted == CountersAgree /\ WithinCaps

\* admission.ts:68: "a waiter and free capacity for it never coexist".
\* Acquire relies on it to admit a newcomer without looking at the queues.
NoWaiterBesideFreeSlot ==
  ~dispatching => \A j \in Waiting : ~canRun(TenantOf[j])

\* The jobs of one tenant start in the order they asked: neither a newcomer
\* nor a later waiter starts while an earlier waiter of its tenant waits.
TenantFifo ==
  [][\A j, k \in Jobs :
       /\ TenantOf[j] = TenantOf[k] /\ j # k
       /\ status[k] = "queued"
       /\ status[j] = "idle" \/ (status[j] = "queued" /\ k \in ahead[j])
       => status'[j] # "running"]_vars

\* Whatever the other tenants keep submitting, a waiter gets its slot (or
\* its caller gives up): fewest-running-first with oldest-first ties
\* starves nobody.
NoStarvation ==
  \A j \in Jobs : (status[j] = "queued") ~> (status[j] # "queued")
=============================================================================
