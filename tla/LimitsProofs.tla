----------------------------- MODULE LimitsProofs -----------------------------
(***************************************************************************)
(* Proofs about the two components that share limits among callers:        *)
(* Admission, the browser slots of a host, and ProviderBudget, the money   *)
(* of a user.  They have no state in common; the definitions of            *)
(* ProviderBudget carry its name where Admission has the same.             *)
(*                                                                         *)
(* Admission: for every set of tenants, every finite set of callers and    *)
(* every limits the constructor accepts.                                   *)
(*                                                                         *)
(* ProviderBudget: for every finite set of calls, every amount, limit and  *)
(* number of cycles, what was spent is never given back, no cycle is       *)
(* overdrawn, an approved ceiling holds, and the counters of the cycles    *)
(* are the sums of their calls.  What keeps a spent amount held is where a *)
(* process and its late requests can be: a release is on its way only for  *)
(* a call that has spent nothing, a settlement only for a completed one,   *)
(* and the request for a reservation only for one that has not begun and   *)
(* has no row.                                                             *)
(***************************************************************************)
EXTENDS Admission, ProviderBudget, FiniteSetTheorems, TLAPS

(***************************************************************************)
(* Admission.                                                              *)
(***************************************************************************)

\* Two waiters are always ordered, and only waiters are ahead of a waiter.
WaitOrder ==
  /\ \A j \in Jobs : ahead[j] \subseteq Waiting \ {j}
  /\ \A j, k \in Waiting : j # k => (j \in ahead[k] <=> k \notin ahead[j])

Counters ==
  /\ runningTotal <= MaxConcurrent
  /\ queuedTotal <= MaxQueuedTotal
  /\ \A t \in Tenants : /\ running[t] <= MaxPerTenant
                        /\ Cardinality(Queue(t)) <= MaxQueuedPerTenant

IInv ==
  TypeOK /\ CountersAgree /\ WaitOrder /\ Counters /\ NoWaiterBesideFreeSlot

-----------------------------------------------------------------------------
(* How the sets of jobs change, whatever the tenant. *)

LEMMA JobSetsFinite ==
  /\ IsFiniteSet(RunningJobs) /\ IsFiniteSet(Waiting)
  /\ \A t : IsFiniteSet(RunningOf(t)) /\ IsFiniteSet(Queue(t))
  /\ Cardinality(RunningJobs) \in Nat /\ Cardinality(Waiting) \in Nat
  /\ \A t : Cardinality(RunningOf(t)) \in Nat /\ Cardinality(Queue(t)) \in Nat
<1>1. /\ RunningJobs \subseteq Jobs /\ Waiting \subseteq Jobs
      /\ \A t : RunningOf(t) \subseteq Jobs /\ Queue(t) \subseteq Jobs
  BY DEF RunningJobs, Waiting, RunningOf, Queue
<1>2. \A S : S \subseteq Jobs => IsFiniteSet(S) /\ Cardinality(S) \in Nat
  BY FS_Subset, FS_CardinalityType, AdmissionOptions
<1> QED BY <1>1, <1>2

\* A job that starts to run adds one to its own tenant's jobs only.
LEMMA TakeCounts ==
  ASSUME TypeOK, CountersAgree, NEW j \in Jobs, status[j] # "running", take(j)
  PROVE  /\ runningTotal' = Cardinality(RunningJobs)'
         /\ \A t \in Tenants : running'[t] = Cardinality(RunningOf(t))'
<1>1. RunningJobs' = RunningJobs \cup {j} /\ j \notin RunningJobs
  BY DEF take, RunningJobs, TypeOK
<1>2. Cardinality(RunningJobs)' = Cardinality(RunningJobs) + 1
  BY <1>1, JobSetsFinite, FS_AddElement
<1>3. ASSUME NEW t \in Tenants PROVE running'[t] = Cardinality(RunningOf(t))'
  <2>1. CASE t = TenantOf[j]
    <3>1. RunningOf(t)' = RunningOf(t) \cup {j} /\ j \notin RunningOf(t)
      BY <2>1 DEF take, RunningOf, TypeOK
    <3>2. Cardinality(RunningOf(t))' = Cardinality(RunningOf(t)) + 1
      BY <3>1, JobSetsFinite, FS_AddElement
    <3> QED BY <2>1, <3>2 DEF take, TypeOK, CountersAgree
  <2>2. CASE t # TenantOf[j]
    <3>1. RunningOf(t)' = RunningOf(t)
      BY <2>2 DEF take, RunningOf, TypeOK
    <3> QED BY <2>2, <3>1 DEF take, TypeOK, CountersAgree
  <2> QED BY <2>1, <2>2
<1> QED BY <1>2, <1>3 DEF take, CountersAgree

\* A waiter that leaves takes one from the queues, and no queue grows.
LEMMA LeaveCounts ==
  ASSUME TypeOK, CountersAgree, NEW j \in Jobs, status[j] = "queued",
         leaveQueue(j), NEW s \in {"idle", "running"},
         status' = [status EXCEPT ![j] = s]
  PROVE  /\ Waiting' = Waiting \ {j}
         /\ queuedTotal' \in Nat /\ queuedTotal' <= queuedTotal
         /\ queuedTotal' = Cardinality(Waiting)'
         /\ \A t : Cardinality(Queue(t))' <= Cardinality(Queue(t))
<1>1. Waiting' = Waiting \ {j} /\ j \in Waiting
  BY DEF Waiting, TypeOK
<1>2. Cardinality(Waiting)' = Cardinality(Waiting) - 1 /\ Cardinality(Waiting)' \in Nat
  BY <1>1, JobSetsFinite, FS_RemoveElement, FS_CardinalityType
<1>3. ASSUME NEW t PROVE Cardinality(Queue(t))' <= Cardinality(Queue(t))
  <2>1. Queue(t)' \subseteq Queue(t)
    BY <1>1 DEF Queue
  <2> QED BY <2>1, JobSetsFinite, FS_Subset
<1> QED BY <1>1, <1>2, <1>3, JobSetsFinite DEF leaveQueue, CountersAgree, TypeOK

\* What an unchanged set of waiters and a grown set of ordered pairs mean.
LEMMA LeaveOrder ==
  ASSUME TypeOK, WaitOrder, NEW j \in Jobs, leaveQueue(j),
         Waiting' = Waiting \ {j}
  PROVE  WaitOrder' /\ ahead' \in [Jobs -> SUBSET Jobs]
<1>1. \A k \in Jobs : ahead'[k] = IF k = j THEN {} ELSE ahead[k] \ {j}
  BY DEF leaveQueue
<1>2. Waiting \subseteq Jobs
  BY DEF Waiting
<1>3. ahead' \in [Jobs -> SUBSET Jobs]
  BY DEF leaveQueue, TypeOK
<1> QED BY <1>1, <1>2, <1>3 DEF WaitOrder

-----------------------------------------------------------------------------
(* The inductive invariant. *)

LEMMA InitIInv == Init => IInv
<1> SUFFICES ASSUME Init PROVE IInv
  OBVIOUS
<1>1. /\ RunningJobs = {} /\ Waiting = {}
      /\ \A t : RunningOf(t) = {} /\ Queue(t) = {}
  BY DEF Init, RunningJobs, Waiting, RunningOf, Queue
<1>2. Cardinality({}) = 0
  BY FS_EmptySet
<1>3. TypeOK
  BY DEF Init, TypeOK
<1>4. CountersAgree
  BY <1>1, <1>2 DEF Init, CountersAgree
<1>5. WaitOrder
  BY <1>1 DEF Init, WaitOrder
<1>6. Counters
  BY <1>1, <1>2, AdmissionOptions DEF Init, Counters
<1>7. NoWaiterBesideFreeSlot
  BY <1>1 DEF NoWaiterBesideFreeSlot
<1> QED BY <1>3, <1>4, <1>5, <1>6, <1>7 DEF IInv

LEMMA TenantOfType == TenantOf \in [Jobs -> Tenants] /\ \A j \in Jobs : TenantOf[j] \in Tenants
  BY AdmissionOptions

LEMMA AcquireNowIInv ==
  ASSUME IInv, NEW j \in Jobs, AcquireNow(j)
  PROVE  IInv'
<1> USE DEF IInv
<1>1. Waiting' = Waiting /\ \A t : Queue(t)' = Queue(t)
  BY DEF AcquireNow, take, Waiting, Queue, TypeOK
<1>2. TypeOK'
  BY TenantOfType DEF AcquireNow, take, TypeOK
<1>3. CountersAgree'
  <2>1. take(j) /\ status[j] # "running" /\ queuedTotal' = queuedTotal
    BY DEF AcquireNow
  <2> QED BY <2>1, <1>1, TakeCounts DEF CountersAgree
<1>4. WaitOrder'
  BY <1>1 DEF AcquireNow, WaitOrder
<1>5. Counters'
  BY <1>1, AdmissionOptions, TenantOfType DEF AcquireNow, take, canRun, Counters, TypeOK
<1>6. NoWaiterBesideFreeSlot'
  <2>1. ASSUME NEW k \in Waiting, ~dispatching, canRun(TenantOf[k])' PROVE FALSE
    <3>1. k \in Jobs
      BY DEF Waiting
    <3>2. ~canRun(TenantOf[k])
      BY <2>1 DEF NoWaiterBesideFreeSlot
    <3> QED BY <2>1, <3>1, <3>2, TenantOfType, AdmissionOptions
          DEF AcquireNow, take, canRun, TypeOK
  <2> QED BY <1>1, <2>1 DEF NoWaiterBesideFreeSlot, AcquireNow
<1> QED BY <1>2, <1>3, <1>4, <1>5, <1>6

LEMMA AcquireQueuedIInv ==
  ASSUME IInv, NEW j \in Jobs, AcquireQueued(j)
  PROVE  IInv'
<1> USE DEF IInv
<1>1. Waiting' = Waiting \cup {j} /\ j \notin Waiting
  BY DEF AcquireQueued, Waiting, TypeOK
<1>2. RunningJobs' = RunningJobs /\ \A t : RunningOf(t)' = RunningOf(t)
  BY DEF AcquireQueued, RunningJobs, RunningOf, TypeOK
<1>3. TypeOK'
  BY DEF AcquireQueued, TypeOK, Waiting
<1>4. CountersAgree'
  <2>1. Cardinality(Waiting)' = Cardinality(Waiting) + 1
    BY <1>1, JobSetsFinite, FS_AddElement
  <2> QED BY <1>2, <2>1 DEF AcquireQueued, CountersAgree, TypeOK
<1>5. WaitOrder'
  <2>1. \A k \in Jobs : ahead'[k] = IF k = j THEN Waiting ELSE ahead[k]
    BY DEF AcquireQueued, TypeOK
  <2>2. Waiting \subseteq Jobs
    BY DEF Waiting
  <2> QED BY <1>1, <2>1, <2>2 DEF WaitOrder
<1>6. Counters'
  <2>1. queuedTotal' <= MaxQueuedTotal
    BY AdmissionOptions DEF AcquireQueued, QueueFull, TypeOK
  <2>2. ASSUME NEW t \in Tenants PROVE Cardinality(Queue(t))' <= MaxQueuedPerTenant
    <3>1. CASE t = TenantOf[j]
      <4>1. Queue(t)' = Queue(t) \cup {j} /\ j \notin Queue(t)
        BY <1>1, <3>1 DEF Queue
      <4>2. Cardinality(Queue(t))' = Cardinality(Queue(t)) + 1
        BY <4>1, JobSetsFinite, FS_AddElement
      <4>3. ~(Cardinality(Queue(t)) >= MaxQueuedPerTenant) /\ Cardinality(Queue(t)) \in Nat
        BY <3>1, JobSetsFinite DEF AcquireQueued, QueueFull
      <4> QED BY <4>2, <4>3, AdmissionOptions
    <3>2. CASE t # TenantOf[j]
      <4>1. Queue(t)' = Queue(t)
        BY <1>1, <3>2 DEF Queue
      <4> QED BY <4>1 DEF Counters
    <3> QED BY <3>1, <3>2
  <2> QED BY <2>1, <2>2 DEF AcquireQueued, Counters
<1>7. NoWaiterBesideFreeSlot'
  BY <1>1 DEF NoWaiterBesideFreeSlot, AcquireQueued, canRun
<1> QED BY <1>3, <1>4, <1>5, <1>6, <1>7

LEMMA AbortIInv ==
  ASSUME IInv, NEW j \in Jobs, Abort(j)
  PROVE  IInv'
<1> USE DEF IInv
<1>1. /\ Waiting' = Waiting \ {j}
      /\ queuedTotal' \in Nat /\ queuedTotal' <= queuedTotal
      /\ queuedTotal' = Cardinality(Waiting)'
      /\ \A t : Cardinality(Queue(t))' <= Cardinality(Queue(t))
  BY LeaveCounts DEF Abort
<1>2. RunningJobs' = RunningJobs /\ \A t : RunningOf(t)' = RunningOf(t)
  BY DEF Abort, RunningJobs, RunningOf, TypeOK
<1>3. WaitOrder' /\ ahead' \in [Jobs -> SUBSET Jobs]
  BY <1>1, LeaveOrder DEF Abort
<1>4. TypeOK'
  BY <1>1, <1>3 DEF Abort, TypeOK
<1>5. CountersAgree'
  BY <1>1, <1>2 DEF Abort, CountersAgree
<1>6. Counters'
  <2>1. ASSUME NEW t \in Tenants PROVE Cardinality(Queue(t))' <= MaxQueuedPerTenant
    <3>1. Cardinality(Queue(t)) \in Nat /\ Cardinality(Queue(t))' \in Nat
      <4>1. Queue(t)' \subseteq Queue(t)
        BY <1>1 DEF Queue
      <4> QED BY <4>1, JobSetsFinite, FS_Subset, FS_CardinalityType
    <3> QED BY <1>1, <3>1, AdmissionOptions DEF Counters
  <2> QED BY <1>1, <2>1, AdmissionOptions DEF Abort, Counters, TypeOK
<1>7. NoWaiterBesideFreeSlot'
  BY <1>1 DEF NoWaiterBesideFreeSlot, Abort, canRun
<1> QED BY <1>3, <1>4, <1>5, <1>6, <1>7

LEMMA ReleaseIInv ==
  ASSUME IInv, NEW j \in Jobs, Release(j)
  PROVE  IInv'
<1> USE DEF IInv
<1>1. Waiting' = Waiting /\ \A t : Queue(t)' = Queue(t)
  BY DEF Release, Waiting, Queue, TypeOK
<1>2. RunningJobs' = RunningJobs \ {j} /\ j \in RunningJobs
  BY DEF Release, RunningJobs, TypeOK
<1>3. Cardinality(RunningJobs)' = Cardinality(RunningJobs) - 1 /\ runningTotal # 0
  <2>1. Cardinality(RunningJobs)' = Cardinality(RunningJobs) - 1
    BY <1>2, JobSetsFinite, FS_RemoveElement
  <2>2. Cardinality(RunningJobs) # 0
    BY <1>2, JobSetsFinite, FS_EmptySet
  <2> QED BY <2>1, <2>2 DEF CountersAgree
<1>4. ASSUME NEW t \in Tenants
      PROVE  running'[t] = Cardinality(RunningOf(t))' /\ running'[t] <= running[t]
  <2>1. CASE t = TenantOf[j]
    <3>1. RunningOf(t)' = RunningOf(t) \ {j} /\ j \in RunningOf(t)
      BY <2>1 DEF Release, RunningOf, TypeOK
    <3>2. Cardinality(RunningOf(t))' = Cardinality(RunningOf(t)) - 1
      BY <3>1, JobSetsFinite, FS_RemoveElement
    <3>3. running[t] # 0
      <4>1. Cardinality(RunningOf(t)) # 0
        BY <3>1, JobSetsFinite, FS_EmptySet
      <4> QED BY <4>1 DEF CountersAgree
    <3>4. running'[t] = running[t] - 1
      BY <2>1, <3>3 DEF Release, TypeOK
    <3> QED BY <3>2, <3>4 DEF CountersAgree, TypeOK
  <2>2. CASE t # TenantOf[j]
    <3>1. RunningOf(t)' = RunningOf(t)
      BY <2>2 DEF Release, RunningOf, TypeOK
    <3>2. running'[t] = running[t]
      BY <2>2 DEF Release, TypeOK
    <3> QED BY <3>1, <3>2 DEF CountersAgree, TypeOK
  <2> QED BY <2>1, <2>2
<1>5. TypeOK'
  BY <1>3, TenantOfType DEF Release, TypeOK
<1>6. CountersAgree'
  BY <1>1, <1>3, <1>4 DEF Release, CountersAgree
<1>7. WaitOrder'
  BY <1>1 DEF Release, WaitOrder
<1>8. Counters'
  <2>1. \A t \in Tenants : running'[t] <= MaxPerTenant
    BY <1>4, <1>5, AdmissionOptions DEF Counters, TypeOK
  <2> QED BY <1>1, <1>3, <2>1, AdmissionOptions DEF Release, Counters, TypeOK
<1>9. NoWaiterBesideFreeSlot'
  BY DEF Release, NoWaiterBesideFreeSlot
<1> QED BY <1>5, <1>6, <1>7, <1>8, <1>9

LEMMA DispatchGrantIInv ==
  ASSUME IInv, NEW j \in Jobs, DispatchGrant(j)
  PROVE  IInv'
<1> USE DEF IInv
<1>1. status[j] = "queued" /\ running[TenantOf[j]] < MaxPerTenant
  BY DEF DispatchGrant, Best, Eligible, Waiting
<1>2. /\ Waiting' = Waiting \ {j}
      /\ queuedTotal' \in Nat /\ queuedTotal' <= queuedTotal
      /\ queuedTotal' = Cardinality(Waiting)'
      /\ \A t : Cardinality(Queue(t))' <= Cardinality(Queue(t))
  BY <1>1, LeaveCounts DEF DispatchGrant, take
<1>3. /\ runningTotal' = Cardinality(RunningJobs)'
      /\ \A t \in Tenants : running'[t] = Cardinality(RunningOf(t))'
  BY <1>1, TakeCounts DEF DispatchGrant
<1>4. WaitOrder' /\ ahead' \in [Jobs -> SUBSET Jobs]
  BY <1>2, LeaveOrder DEF DispatchGrant
<1>5. TypeOK'
  <2>1. status' \in [Jobs -> {"idle", "queued", "running"}]
    BY DEF DispatchGrant, take, TypeOK
  <2>2. running' \in [Tenants -> Nat] /\ runningTotal' \in Nat
    <3>1. running[TenantOf[j]] + 1 \in Nat
      BY TenantOfType DEF TypeOK
    <3>2. /\ running' = [running EXCEPT ![TenantOf[j]] = @ + 1]
          /\ runningTotal' = runningTotal + 1
      BY DEF DispatchGrant, take
    <3>3. running \in [Tenants -> Nat] /\ runningTotal \in Nat
      BY DEF TypeOK
    <3>4. runningTotal' \in Nat
      BY <3>2, <3>3
    <3>5. running' \in [Tenants -> Nat]
      BY <3>1, <3>2, <3>3, Zenon
    <3> QED BY <3>4, <3>5
  <2> QED BY <1>2, <1>4, <2>1, <2>2 DEF DispatchGrant, TypeOK
<1>6. CountersAgree'
  BY <1>2, <1>3 DEF CountersAgree
<1>7. Counters'
  <2>1. ASSUME NEW t \in Tenants PROVE Cardinality(Queue(t))' <= MaxQueuedPerTenant
    <3>1. Cardinality(Queue(t)) \in Nat /\ Cardinality(Queue(t))' \in Nat
      <4>1. Queue(t)' \subseteq Queue(t)
        BY <1>2 DEF Queue
      <4> QED BY <4>1, JobSetsFinite, FS_Subset, FS_CardinalityType
    <3> QED BY <1>2, <3>1, AdmissionOptions DEF Counters
  <2>2. runningTotal' <= MaxConcurrent
    BY AdmissionOptions DEF DispatchGrant, take, TypeOK
  <2>3. \A t \in Tenants : running'[t] <= MaxPerTenant
    BY <1>1, AdmissionOptions DEF DispatchGrant, take, Counters, TypeOK
  <2> QED BY <1>2, <2>1, <2>2, <2>3, AdmissionOptions DEF Counters, TypeOK
<1>8. NoWaiterBesideFreeSlot'
  BY DEF DispatchGrant, NoWaiterBesideFreeSlot
<1> QED BY <1>4, <1>5, <1>6, <1>7, <1>8

\* The loop ends only when no waiter can run: what Acquire relies on next.
LEMMA DispatchEndIInv ==
  ASSUME IInv, DispatchEnd
  PROVE  IInv'
<1> USE DEF IInv
<1>1. /\ RunningJobs' = RunningJobs /\ Waiting' = Waiting
      /\ \A t : RunningOf(t)' = RunningOf(t) /\ Queue(t)' = Queue(t)
  BY DEF DispatchEnd, RunningJobs, RunningOf, Waiting, Queue
<1>2. TypeOK' /\ CountersAgree' /\ WaitOrder' /\ Counters'
  BY <1>1 DEF DispatchEnd, TypeOK, CountersAgree, WaitOrder, Counters
<1>3. NoWaiterBesideFreeSlot'
  <2>1. ASSUME NEW j \in Waiting PROVE ~canRun(TenantOf[j])'
    <3>1. CASE runningTotal >= MaxConcurrent
      BY <3>1, AdmissionOptions DEF DispatchEnd, canRun, TypeOK
    <3>2. CASE Eligible = {}
      BY <3>2 DEF DispatchEnd, canRun, Eligible
    <3> QED BY <3>1, <3>2 DEF DispatchEnd
  <2> QED BY <1>1, <2>1 DEF NoWaiterBesideFreeSlot
<1> QED BY <1>2, <1>3

LEMMA NextIInv == IInv /\ [Next]_vars => IInv'
<1> SUFFICES ASSUME IInv, [Next]_vars PROVE IInv'
  OBVIOUS
<1>1. CASE UNCHANGED vars
  BY <1>1 DEF vars, IInv, TypeOK, CountersAgree, WaitOrder, Counters,
     NoWaiterBesideFreeSlot, RunningJobs, RunningOf, Waiting, Queue, canRun
<1>2. ASSUME NEW j \in Jobs, AcquireNow(j) PROVE IInv'
  BY <1>2, AcquireNowIInv
<1>3. ASSUME NEW j \in Jobs, AcquireQueued(j) PROVE IInv'
  BY <1>3, AcquireQueuedIInv
<1>4. ASSUME NEW j \in Jobs, AcquireRefused(j) \/ ReleaseAgain(j) PROVE IInv'
  BY <1>1, <1>4 DEF AcquireRefused, ReleaseAgain
<1>5. ASSUME NEW j \in Jobs, Abort(j) PROVE IInv'
  BY <1>5, AbortIInv
<1>6. ASSUME NEW j \in Jobs, Release(j) PROVE IInv'
  BY <1>6, ReleaseIInv
<1>7. ASSUME NEW j \in Jobs, DispatchGrant(j) PROVE IInv'
  BY <1>7, DispatchGrantIInv
<1>8. CASE DispatchEnd
  BY <1>8, DispatchEndIInv
<1> QED BY <1>1, <1>2, <1>3, <1>4, <1>5, <1>6, <1>7, <1>8 DEF Next, Acquire, Dispatch

LEMMA SpecIInv == Spec => []IInv
  BY InitIInv, NextIInv, PTL DEF Spec

-----------------------------------------------------------------------------
(* What the controller promises. *)

\* The variables keep their types.
THEOREM TypeCorrect == Spec => []TypeOK
<1>1. IInv => TypeOK
  BY DEF IInv
<1> QED BY <1>1, SpecIInv, PTL

\* The counters count what they stand for: admission.ts:104-116, 126-136.
THEOREM CountersCorrect == Spec => []CountersAgree
<1>1. IInv => CountersAgree
  BY DEF IInv
<1> QED BY <1>1, SpecIInv, PTL

\* The host's slots, the tenants' caps and the queue bounds are respected
\* by the jobs themselves.
THEOREM CapsRespected == Spec => []WithinCaps
<1>1. IInv => WithinCaps
  BY DEF IInv, CountersAgree, Counters, WithinCaps
<1> QED BY <1>1, SpecIInv, PTL

\* Both together, as the run of TLC checks them.
THEOREM SlotsAlwaysAccounted == Spec => []SlotsAccounted
<1>1. CountersAgree /\ WithinCaps => SlotsAccounted
  BY DEF SlotsAccounted
<1> QED BY <1>1, CountersCorrect, CapsRespected, PTL

\* admission.ts:68: a waiter and free capacity for it never coexist.
THEOREM WaiterNeverBesideFreeSlot == Spec => []NoWaiterBesideFreeSlot
<1>1. IInv => NoWaiterBesideFreeSlot
  BY DEF IInv
<1> QED BY <1>1, SpecIInv, PTL

\* The jobs of one tenant start in the order they asked.
THEOREM TenantOrderKept == Spec => TenantFifo
<1>1. ASSUME IInv, [Next]_vars,
             NEW j \in Jobs, NEW k \in Jobs,
             TenantOf[j] = TenantOf[k], j # k, status[k] = "queued",
             status[j] = "idle" \/ (status[j] = "queued" /\ k \in ahead[j])
      PROVE  status'[j] # "running"
  <2> SUFFICES ASSUME status'[j] = "running" PROVE FALSE
    OBVIOUS
  <2>1. AcquireNow(j) \/ DispatchGrant(j)
    BY <1>1 DEF IInv, TypeOK, Next, Acquire, Dispatch, AcquireNow, AcquireQueued,
       AcquireRefused, Abort, Release, ReleaseAgain, DispatchGrant, DispatchEnd, take, vars
  <2>2. k \in Waiting
    BY <1>1 DEF Waiting
  <2>3. CASE AcquireNow(j)
    BY <1>1, <2>2, <2>3 DEF AcquireNow, IInv, NoWaiterBesideFreeSlot
  <2>4. CASE DispatchGrant(j)
    <3>1. j \in Waiting /\ k \in Eligible \ {j}
      BY <1>1, <2>2, <2>4 DEF DispatchGrant, Best, Eligible
    <3>2. j \in ahead[k]
      <4>1. running[TenantOf[j]] \in Nat
        BY <1>1, TenantOfType DEF IInv, TypeOK
      <4> QED BY <1>1, <2>4, <3>1, <4>1 DEF DispatchGrant, Best
    <3>3. k \in ahead[j]
      BY <1>1, <3>1 DEF Waiting
    <3> QED BY <1>1, <2>2, <3>1, <3>2, <3>3 DEF IInv, WaitOrder
  <2> QED BY <2>1, <2>3, <2>4
<1>2. IInv /\ [Next]_vars =>
        [\A j, k \in Jobs :
           /\ TenantOf[j] = TenantOf[k] /\ j # k
           /\ status[k] = "queued"
           /\ status[j] = "idle" \/ (status[j] = "queued" /\ k \in ahead[j])
           => status'[j] # "running"]_vars
  BY <1>1
<1> QED BY <1>2, SpecIInv, PTL DEF Spec, TenantFifo

(***************************************************************************)
(* ProviderBudget.                                                         *)
(***************************************************************************)

Steady == {"idle", "reserve", "ensure", "again"}

\* What is known of a call whose process is at a step or has left it.
ReleaseSafe(c) == (at[c] = "release" \/ "release" \in late[c]) => ~Spent(c)
Unsent(c) ==
  (at[c] \in Steady \/ "reserve" \in late[c] \/ "again" \in late[c])
    => sent[c] = 0 /\ cost[c] = NotCompleted
LateOnly(c) == late[c] # {} => at[c] = "done" \/ (at[c] = "hold" /\ late[c] = {"settle"})
SettleKnown(c) == (at[c] = "settle" \/ "settle" \in late[c]) => cost[c] \in 0..Amount[c]
OnItsWay(c) ==
  at[c] \in {"ready", "wire"} =>
    Held(c) /\ cost[c] = NotCompleted /\ (at[c] = "ready" /\ c \in Voice => sent[c] = 0)

\* What is held is booked on a cycle.
Booked(c) == Held(c) => res[c].cycle \in Cycles

CallInv(c) ==
  /\ Booked(c) /\ Accounted(c) /\ ReleaseSafe(c) /\ Unsent(c)
  /\ LateOnly(c) /\ SettleKnown(c) /\ OnItsWay(c)

CycleRow ==
  [status : {"none", "active", "lapsed", "expired"}, limit : Nat, reserved : Int, settled : Int]
ResRow ==
  [status : {"none", "reserved", "pending", "settled", "released"},
   cycle : Cycles \union {NoCycle}, paid : Int]

Types ==
  /\ cycle \in [Cycles -> CycleRow] /\ res \in [Calls -> ResRow]
  /\ at \in [Calls -> Steps] /\ sent \in [Calls -> Nat] /\ cost \in [Calls -> Int]
  /\ late \in [Calls -> SUBSET Asks]

BudgetInv == Types /\ EntitlementKept /\ \A c \in Calls : CallInv(c)

-----------------------------------------------------------------------------
(* What the functions of the database do to the rows. *)

\* What a function may do to the rows of calls other than its own: nothing.
RowsKept(c) ==
  /\ cycle' \in [Cycles -> CycleRow] /\ res' \in [Calls -> ResRow] /\ EntitlementKept'
  /\ Booked(c)' /\ \A d \in Calls \ {c} : res'[d] = res[d]

LEMMA AmountType == ASSUME NEW c \in Calls PROVE Amount[c] \in Nat
  BY BudgetAssumption

LEMMA ReserveRows ==
  ASSUME BudgetInv, NEW c \in Calls, NEW k \in Cycles, DoReserve(c, k)
  PROVE  RowsKept(c) /\ Held(c)'
<1>1. cycle \in [Cycles -> CycleRow] /\ res \in [Calls -> ResRow]
  BY DEF BudgetInv, Types, CycleRow, ResRow
<1>2. cycle[k].settled + cycle[k].reserved + Amount[c] <= cycle[k].limit
  BY DEF DoReserve, Reservable, Fits
<1>3. cycle' = [cycle EXCEPT ![k].reserved = @ + Amount[c]]
  BY DEF DoReserve
<1>4. cycle' \in [Cycles -> CycleRow]
  BY <1>1, <1>3, AmountType DEF CycleRow
<1>5. EntitlementKept'
  BY <1>1, <1>2, <1>3, AmountType DEF EntitlementKept, CycleRow, BudgetInv
<1>6. res' = [res EXCEPT ![c] = [status |-> "reserved", cycle |-> k, paid |-> 0]]
  BY DEF DoReserve
<1>7. /\ res' \in [Calls -> ResRow] /\ Held(c)' /\ Booked(c)'
      /\ \A d \in Calls \ {c} : res'[d] = res[d]
  BY <1>1, <1>6 DEF ResRow, Held, Booked
<1> QED BY <1>4, <1>5, <1>7 DEF RowsKept

\* A call that is not held changes nothing when it is settled or released.
LEMMA RowsStay ==
  ASSUME BudgetInv, NEW c \in Calls, UNCHANGED <<cycle, res>>
  PROVE  RowsKept(c)
BY DEF BudgetInv, Types, RowsKept, EntitlementKept, CallInv, Booked, Held

LEMMA SettleRows ==
  ASSUME BudgetInv, NEW c \in Calls, cost[c] \in 0..Amount[c], DoSettle(c)
  PROVE  /\ RowsKept(c)
         /\ IF Held(c) THEN res'[c].status = "settled" /\ res'[c].paid = cost[c]
            ELSE res'[c] = res[c]
<1>1. CASE ~Held(c)
  BY <1>1, RowsStay DEF DoSettle
<1>2. CASE Held(c)
  <2> DEFINE k == res[c].cycle
  <2>1. /\ cycle \in [Cycles -> CycleRow] /\ res \in [Calls -> ResRow] /\ cost[c] \in Int
        /\ k \in Cycles
    BY <1>2, AmountType DEF BudgetInv, Types, CallInv, Booked, CycleRow, ResRow
  <2>2. /\ res' = [res EXCEPT ![c].status = "settled", ![c].paid = cost[c]]
        /\ cycle' = [cycle EXCEPT ![k].reserved = @ - Amount[c], ![k].settled = @ + cost[c]]
    BY <1>2 DEF DoSettle
  <2>3. /\ res' \in [Calls -> ResRow] /\ \A d \in Calls \ {c} : res'[d] = res[d]
        /\ res'[c].status = "settled" /\ res'[c].paid = cost[c]
    BY <2>1, <2>2 DEF ResRow
  <2>4. cycle' \in [Cycles -> CycleRow]
    BY <2>1, <2>2, AmountType DEF CycleRow
  <2>5. EntitlementKept'
    BY <2>1, <2>2, AmountType DEF EntitlementKept, CycleRow, BudgetInv
  <2> QED BY <1>2, <2>3, <2>4, <2>5 DEF RowsKept, Booked, Held
<1> QED BY <1>1, <1>2

LEMMA HoldRows ==
  ASSUME BudgetInv, NEW c \in Calls, DoHold(c)
  PROVE  RowsKept(c) /\ IF Held(c) THEN Held(c)' ELSE res'[c] = res[c]
<1>1. res \in [Calls -> ResRow] /\ cycle \in [Cycles -> CycleRow]
  BY DEF BudgetInv, Types, ResRow, CycleRow
<1>2. EntitlementKept'
  BY DEF BudgetInv, EntitlementKept, DoHold
<1>3. CASE Held(c)
  <2>1. res' = [res EXCEPT ![c].status = "pending"]
    BY <1>3 DEF DoHold
  <2>2. /\ res' \in [Calls -> ResRow] /\ res'[c].status = "pending"
        /\ res'[c].cycle = res[c].cycle
        /\ \A d \in Calls \ {c} : res'[d] = res[d]
    BY <1>1, <2>1 DEF ResRow
  <2>3. Booked(c)'
    BY <1>3, <2>2 DEF BudgetInv, CallInv, Booked
  <2> QED BY <1>1, <1>2, <1>3, <2>2, <2>3 DEF RowsKept, Held, DoHold
<1>4. CASE ~Held(c)
  BY <1>4, RowsStay DEF DoHold
<1> QED BY <1>3, <1>4

LEMMA ReleaseRows ==
  ASSUME BudgetInv, NEW c \in Calls, DoRelease(c)
  PROVE  RowsKept(c)
<1>1. CASE ~Held(c)
  BY <1>1, RowsStay DEF DoRelease
<1>2. CASE Held(c)
  <2> DEFINE k == res[c].cycle
  <2>1. cycle \in [Cycles -> CycleRow] /\ res \in [Calls -> ResRow] /\ k \in Cycles
    BY <1>2 DEF BudgetInv, Types, CallInv, Booked
  <2>2. /\ res' = [res EXCEPT ![c].status = "released"]
        /\ cycle' = [cycle EXCEPT ![k].reserved = @ - Amount[c]]
    BY <1>2 DEF DoRelease
  <2>3. /\ res' \in [Calls -> ResRow] /\ Booked(c)'
        /\ \A d \in Calls \ {c} : res'[d] = res[d]
    BY <2>1, <2>2 DEF ResRow, Booked
  <2>4. cycle' \in [Cycles -> CycleRow]
    BY <2>1, <2>2, AmountType DEF CycleRow
  <2>5. EntitlementKept'
    BY <2>1, <2>2, AmountType DEF EntitlementKept, CycleRow, BudgetInv
  <2> QED BY <2>3, <2>4, <2>5 DEF RowsKept
<1> QED BY <1>1, <1>2

\* Cycles are opened, ended and closed without a change to what is booked on them.
LEMMA RenewRows ==
  ASSUME BudgetInv, NEW k \in Cycles, NEW limit \in Nat, NEW unlocked, Renew(k, limit, unlocked)
  PROVE  cycle' \in [Cycles -> CycleRow] /\ EntitlementKept'
<1>1. cycle \in [Cycles -> CycleRow]
  BY DEF BudgetInv, Types
<1>2. cycle' = [i \in Cycles |->
         IF i = k THEN Cycle(limit)
         ELSE IF i \in Current THEN [cycle[i] EXCEPT !.status = "expired"] ELSE cycle[i]]
  BY DEF Renew
<1>3. ASSUME NEW i \in Cycles
      PROVE  /\ cycle'[i] \in CycleRow
             /\ cycle'[i].settled + cycle'[i].reserved <= cycle'[i].limit
  <2>1. CASE i = k
    <3>1. cycle'[i] = Cycle(limit)
      BY <1>2, <2>1
    <3> QED BY <3>1 DEF Cycle, CycleRow
  <2>2. CASE i # k /\ i \in Current
    <3>1. cycle'[i] = [cycle[i] EXCEPT !.status = "expired"]
      BY <1>2, <2>2
    <3> QED BY <1>1, <3>1 DEF BudgetInv, EntitlementKept, CycleRow
  <2>3. CASE i # k /\ i \notin Current
    BY <1>1, <1>2, <2>3 DEF BudgetInv, EntitlementKept
  <2> QED BY <2>1, <2>2, <2>3
<1> QED BY <1>2, <1>3 DEF EntitlementKept

LEMMA EnsureRows ==
  ASSUME BudgetInv, EnsureFree
  PROVE  cycle' \in [Cycles -> CycleRow] /\ EntitlementKept'
<1>1. FreeLimit \in Nat
  BY BudgetAssumption
<1>2. CASE UNCHANGED cycle
  BY <1>2 DEF BudgetInv, Types, EntitlementKept
<1>3. CASE \E k \in Cycles : Renew(k, FreeLimit, FreeLimit)
  BY <1>1, <1>3, RenewRows
<1> QED BY <1>2, <1>3 DEF EnsureFree

-----------------------------------------------------------------------------
(* Steps. *)

\* A step of call c leaves the other calls alone.
StepOf(c) ==
  /\ at' \in [Calls -> Steps] /\ sent' \in [Calls -> Nat] /\ cost' \in [Calls -> Int]
  /\ late' \in [Calls -> SUBSET Asks]
  /\ \A d \in Calls \ {c} :
       at'[d] = at[d] /\ sent'[d] = sent[d] /\ cost'[d] = cost[d] /\ late'[d] = late[d]

LEMMA Untouched ==
  ASSUME NEW d \in Calls, CallInv(d), res'[d] = res[d], at'[d] = at[d],
         sent'[d] = sent[d], cost'[d] = cost[d], late'[d] = late[d]
  PROVE  CallInv(d)'
BY DEF CallInv, Booked, Accounted, Spent, Held, ReleaseSafe, Unsent, LateOnly, SettleKnown,
   OnItsWay

LEMMA StepInv ==
  ASSUME BudgetInv, NEW c \in Calls, StepOf(c), RowsKept(c), CallInv(c)'
  PROVE  BudgetInv'
<1>1. ASSUME NEW d \in Calls \ {c} PROVE CallInv(d)'
  BY <1>1, Untouched DEF BudgetInv, StepOf, RowsKept
<1> QED BY <1>1 DEF BudgetInv, Types, StepOf, RowsKept

\* A step that changes cycles only.
LEMMA CyclesInv ==
  ASSUME BudgetInv, UNCHANGED <<res, at, sent, cost, late>>,
         cycle' \in [Cycles -> CycleRow], EntitlementKept'
  PROVE  BudgetInv'
<1>1. ASSUME NEW d \in Calls PROVE CallInv(d)'
  BY Untouched DEF BudgetInv
<1> QED BY <1>1 DEF BudgetInv, Types

-----------------------------------------------------------------------------
(* A call. *)

\* Who has asked nothing late has nothing late: at every step but two.
LEMMA NothingLate ==
  ASSUME BudgetInv, NEW c \in Calls, at[c] \notin {"hold", "done"}
  PROVE  late[c] = {}
BY DEF BudgetInv, CallInv, LateOnly

LEMMA GoStep ==
  ASSUME BudgetInv, NEW c \in Calls, NEW step \in Steps, Go(c, step),
         UNCHANGED <<sent, cost, late>>
  PROVE  StepOf(c) /\ at'[c] = step
BY DEF BudgetInv, Types, StepOf, Go

\* A step that leaves the row, what was sent and the cost.
LEMMA QuietInv ==
  ASSUME BudgetInv, NEW c \in Calls, NEW step \in Steps, Go(c, step), late[c] = {},
         UNCHANGED <<res, sent, cost, late>>, RowsKept(c),
         step = "release" => ~Spent(c),
         step \in Steady => Unsent(c) /\ at[c] \in Steady,
         step = "settle" => cost[c] \in 0..Amount[c],
         step \notin {"ready", "wire"}
  PROVE  BudgetInv'
<1>1. StepOf(c) /\ at'[c] = step
  BY GoStep
<1>2. /\ Booked(c)' /\ Accounted(c)' /\ ReleaseSafe(c)' /\ LateOnly(c)' /\ SettleKnown(c)'
      /\ OnItsWay(c)'
  BY <1>1 DEF BudgetInv, CallInv, RowsKept, Accounted, Spent, Held, ReleaseSafe, LateOnly,
     SettleKnown, OnItsWay
<1>3. Unsent(c)'
  BY <1>1 DEF Unsent
<1> QED BY <1>1, <1>2, <1>3, StepInv DEF CallInv

LEMMA SubmitInv == ASSUME BudgetInv, NEW c \in Calls, Submit(c) PROVE BudgetInv'
<1>1. Unsent(c) /\ late[c] = {} /\ RowsKept(c)
  BY NothingLate, RowsStay DEF BudgetInv, CallInv, Submit
<1> QED BY <1>1, QuietInv DEF Submit, Steps, Steady

LEMMA NoActiveCycleInv == ASSUME BudgetInv, NEW c \in Calls, NoActiveCycle(c) PROVE BudgetInv'
<1>1. Unsent(c) /\ late[c] = {} /\ RowsKept(c)
  BY NothingLate, RowsStay DEF BudgetInv, CallInv, NoActiveCycle
<1> QED BY <1>1, QuietInv DEF NoActiveCycle, Steps, Steady

LEMMA EnsureInv == ASSUME BudgetInv, NEW c \in Calls, Ensure(c) PROVE BudgetInv'
<1>1. Unsent(c) /\ late[c] = {}
  BY NothingLate DEF BudgetInv, CallInv, Ensure
<1>2. cycle' \in [Cycles -> CycleRow] /\ EntitlementKept'
  <2>1. CASE EnsureFree
    BY <2>1, EnsureRows
  <2>2. CASE UNCHANGED cycle
    BY <2>2, RowsStay DEF BudgetInv, Types, EntitlementKept
  <2> QED BY <2>1, <2>2 DEF Ensure
<1>3. RowsKept(c)
  BY <1>2 DEF RowsKept, Ensure, BudgetInv, Types, CallInv, Booked, Held
<1> QED BY <1>1, <1>3, QuietInv DEF Ensure, Steps, Steady

LEMMA RefuseInv == ASSUME BudgetInv, NEW c \in Calls, Refuse(c) PROVE BudgetInv'
<1>1. late[c] = {} /\ RowsKept(c)
  BY NothingLate, RowsStay DEF Refuse
<1> QED BY <1>1, QuietInv DEF Refuse, Steps, Steady

\* A call that fails is released only when it has spent nothing: it is not
\* complete, and for the voice budget nothing was sent.
LEMMA FailInv ==
  ASSUME BudgetInv, NEW c \in Calls, at[c] \in {"ready", "wire"}, NEW doubtful, Fail(c, doubtful),
         UNCHANGED <<cycle, res, sent, cost, late>>
  PROVE  BudgetInv'
<1> DEFINE step == IF (IF c \in Voice THEN sent[c] > 0 ELSE doubtful) THEN "hold" ELSE "release"
<1>1. late[c] = {} /\ RowsKept(c)
  BY NothingLate, RowsStay
<1>2. step = "release" => ~Spent(c)
  BY DEF BudgetInv, CallInv, OnItsWay, Spent
<1>3. step \in {"hold", "release"} /\ Go(c, step)
  BY DEF Fail
<1> HIDE DEF step
<1> QED BY <1>1, <1>2, <1>3, QuietInv DEF Steps, Steady

LEMMA DenyInv == ASSUME BudgetInv, NEW c \in Calls, Deny(c) PROVE BudgetInv'
  BY FailInv DEF Deny

LEMMA ReserveInv == ASSUME BudgetInv, NEW c \in Calls, Reserve(c) PROVE BudgetInv'
<1>1. PICK k \in Cycles : DoReserve(c, k)
  BY DEF Reserve
<1>2. RowsKept(c) /\ Held(c)'
  BY <1>1, ReserveRows
<1>3. StepOf(c) /\ at'[c] = "ready"
  BY GoStep DEF Reserve, Steps
<1>4. late[c] = {} /\ sent[c] = 0 /\ cost[c] = NotCompleted
  BY NothingLate DEF Reserve, BudgetInv, CallInv, Unsent, Steady
<1>5. UNCHANGED <<sent, cost, late>>
  BY DEF Reserve
<1>6. CallInv(c)'
  BY <1>2, <1>3, <1>4, <1>5 DEF CallInv, RowsKept, Accounted, Spent, ReleaseSafe, Unsent,
     Steady, LateOnly, SettleKnown, OnItsWay
<1> QED BY <1>2, <1>3, <1>6, StepInv

LEMMA CallProviderInv == ASSUME BudgetInv, NEW c \in Calls, CallProvider(c) PROVE BudgetInv'
<1>1. late[c] = {} /\ RowsKept(c)
  BY NothingLate, RowsStay DEF CallProvider
<1>2. /\ at' = [at EXCEPT ![c] = "wire"] /\ sent' = [sent EXCEPT ![c] = @ + 1]
      /\ UNCHANGED <<res, cost, late>> /\ at[c] = "ready"
  BY DEF CallProvider, Go
<1>3. StepOf(c) /\ at'[c] = "wire"
  BY <1>2 DEF BudgetInv, Types, StepOf, Steps
<1>4. Held(c)' /\ cost'[c] = NotCompleted /\ late'[c] = {}
  BY <1>1, <1>2 DEF BudgetInv, CallInv, OnItsWay, Held
<1>5. CallInv(c)'
  BY <1>1, <1>3, <1>4 DEF CallInv, RowsKept, Accounted, ReleaseSafe, Unsent,
     Steady, LateOnly, SettleKnown, OnItsWay
<1> QED BY <1>1, <1>3, <1>5, StepInv

\* Only a call that is not the voice budget's goes out again.
LEMMA UnansweredInv == ASSUME BudgetInv, NEW c \in Calls, Unanswered(c) PROVE BudgetInv'
<1>1. CASE \E doubtful \in BOOLEAN : Fail(c, doubtful)
  BY <1>1, FailInv DEF Unanswered
<1>2. CASE c \in Retrying /\ sent[c] = 1 /\ Go(c, "ready")
  <2>1. late[c] = {} /\ RowsKept(c)
    BY NothingLate, RowsStay DEF Unanswered
  <2>2. StepOf(c) /\ at'[c] = "ready" /\ c \notin Voice
    BY <1>2, GoStep, BudgetAssumption DEF Unanswered, Steps
  <2>3. Held(c)' /\ cost'[c] = NotCompleted /\ late'[c] = {}
    BY <2>1 DEF Unanswered, BudgetInv, CallInv, OnItsWay, Held
  <2>4. CallInv(c)'
    BY <2>1, <2>2, <2>3 DEF CallInv, RowsKept, Accounted, ReleaseSafe, Unsent,
       Steady, LateOnly, SettleKnown, OnItsWay
  <2> QED BY <2>1, <2>2, <2>4, StepInv
<1> QED BY <1>1, <1>2 DEF Unanswered

LEMMA CompleteInv == ASSUME BudgetInv, NEW c \in Calls, Complete(c) PROVE BudgetInv'
<1>1. late[c] = {} /\ RowsKept(c)
  BY NothingLate, RowsStay DEF Complete
<1>2. PICK n \in 0..Amount[c] + 1 :
        /\ cost' = [cost EXCEPT ![c] = n]
        /\ at' = [at EXCEPT ![c] = IF n <= Amount[c] THEN "settle" ELSE "hold"]
  BY DEF Complete, Go
<1>3. n \in Int /\ UNCHANGED <<res, sent, late>> /\ at[c] = "wire" /\ Held(c)
  BY AmountType DEF Complete, BudgetInv, CallInv, OnItsWay
<1>4. StepOf(c)
  BY <1>2, <1>3 DEF BudgetInv, Types, StepOf, Steps
<1>5. /\ Held(c)' /\ late'[c] = {} /\ cost'[c] = n
      /\ at'[c] = IF n <= Amount[c] THEN "settle" ELSE "hold"
  BY <1>1, <1>2, <1>3 DEF BudgetInv, Types, Held
<1>6. SettleKnown(c)'
  BY <1>5, AmountType DEF SettleKnown
<1>7. CallInv(c)'
  BY <1>1, <1>5, <1>6 DEF CallInv, RowsKept, Accounted, ReleaseSafe, Unsent,
     Steady, LateOnly, OnItsWay
<1> QED BY <1>1, <1>4, <1>7, StepInv

\* What the functions of the database leave of a call whose process has left
\* it or has asked: nothing is due but what was asked.
LEMMA SettleInv == ASSUME BudgetInv, NEW c \in Calls, Settle(c) PROVE BudgetInv'
<1>1. late[c] = {} /\ cost[c] \in 0..Amount[c] /\ Accounted(c)
  BY NothingLate DEF Settle, BudgetInv, CallInv, SettleKnown
<1>2. RowsKept(c) /\ IF Held(c) THEN res'[c].status = "settled" /\ res'[c].paid = cost[c]
                     ELSE res'[c] = res[c]
  BY <1>1, SettleRows DEF Settle
<1>3. StepOf(c) /\ at'[c] = "done" /\ UNCHANGED <<sent, cost, late>>
  BY GoStep DEF Settle, Steps
<1>4. Accounted(c)'
  BY <1>1, <1>2, <1>3 DEF Accounted, Spent, Held
<1>5. CallInv(c)'
  BY <1>1, <1>2, <1>3, <1>4 DEF CallInv, RowsKept, ReleaseSafe, Unsent, Steady, LateOnly,
     SettleKnown, OnItsWay
<1> QED BY <1>2, <1>3, <1>5, StepInv

\* A release is asked for by a call that has spent nothing.
LEMMA CloseInv == ASSUME BudgetInv, NEW c \in Calls, Close(c) PROVE BudgetInv'
<1>1. StepOf(c) /\ at'[c] = "done" /\ UNCHANGED <<sent, cost, late>>
  BY GoStep DEF Close, Steps
<1>2. RowsKept(c) /\ Accounted(c)'
  <2>1. CASE at[c] = "hold"
    <3>1. RowsKept(c) /\ IF Held(c) THEN Held(c)' ELSE res'[c] = res[c]
      BY <2>1, HoldRows DEF Close
    <3> QED BY <1>1, <3>1 DEF BudgetInv, CallInv, Accounted, Spent, Held
  <2>2. CASE at[c] = "release"
    <3>1. RowsKept(c) /\ ~Spent(c)
      BY <2>2, ReleaseRows DEF Close, BudgetInv, CallInv, ReleaseSafe
    <3> QED BY <1>1, <3>1 DEF Accounted, Spent
  <2> QED BY <2>1, <2>2 DEF Close
<1>3. late[c] = {} \/ late[c] = {"settle"}
  BY DEF Close, BudgetInv, CallInv, LateOnly
<1>4. CallInv(c)'
  BY <1>1, <1>2, <1>3 DEF CallInv, RowsKept, ReleaseSafe, Unsent, Steady, LateOnly,
     SettleKnown, OnItsWay, BudgetInv
<1> QED BY <1>1, <1>2, <1>4, StepInv

\* Who stops waiting leaves the request of its step behind, and a settlement
\* may be followed by a request to hold.
LEMMA FaultInv == ASSUME BudgetInv, NEW c \in Calls, Fault(c) PROVE BudgetInv'
<1>1. RowsKept(c) /\ CallInv(c) /\ UNCHANGED <<cycle, res, sent, cost>>
  BY RowsStay DEF Fault, BudgetInv
<1>2. PICK step \in {"done", "hold"} :
        at' = [at EXCEPT ![c] = step] /\ (step = "hold" => at[c] = "settle")
  BY DEF Fault, Go
<1>3. late' = IF at[c] \in Asks THEN [late EXCEPT ![c] = @ \union {at[c]}] ELSE late
  BY DEF Fault
<1>4. /\ StepOf(c) /\ at'[c] = step
      /\ late'[c] = late[c] \union (IF at[c] \in Asks THEN {at[c]} ELSE {})
  BY <1>1, <1>2, <1>3 DEF BudgetInv, Types, StepOf, Steps
<1>5. late[c] # {} => at[c] \in {"done", "hold"}
  BY <1>1 DEF CallInv, LateOnly
<1>6. Booked(c)' /\ Accounted(c)' /\ OnItsWay(c)'
  BY <1>1, <1>2, <1>4 DEF CallInv, Booked, Accounted, Spent, Held, OnItsWay
<1>7. ReleaseSafe(c)' /\ Unsent(c)' /\ SettleKnown(c)'
  BY <1>1, <1>2, <1>4 DEF CallInv, ReleaseSafe, Spent, Unsent, Steady, SettleKnown
<1>8. LateOnly(c)'
  BY <1>2, <1>4, <1>5 DEF LateOnly, Asks
<1> QED BY <1>1, <1>4, <1>6, <1>7, <1>8, StepInv DEF CallInv

\* A request that is carried out late does what it would have done in time.
LEMMA LateInv == ASSUME BudgetInv, NEW c \in Calls, NEW ask \in late[c], Late(c, ask) PROVE BudgetInv'
<1>1. /\ CallInv(c) /\ late' = [late EXCEPT ![c] = @ \ {ask}]
      /\ UNCHANGED <<at, sent, cost>> /\ ask \in Asks
  BY DEF Late, BudgetInv, Types
<1>2. StepOf(c) /\ late'[c] = late[c] \ {ask}
  BY <1>1 DEF BudgetInv, Types, StepOf
<1>3. at[c] = "done" \/ (at[c] = "hold" /\ late[c] = {"settle"})
  BY <1>1 DEF CallInv, LateOnly
<1>4. RowsKept(c) /\ Accounted(c)'
  <2>1. CASE ask = "settle"
    <3>1. cost[c] \in 0..Amount[c] /\ DoSettle(c)
      BY <1>1, <2>1 DEF CallInv, SettleKnown, Late
    <3>2. RowsKept(c) /\ IF Held(c) THEN res'[c].status = "settled" /\ res'[c].paid = cost[c]
                         ELSE res'[c] = res[c]
      BY <3>1, SettleRows
    <3> QED BY <1>1, <3>2 DEF CallInv, Accounted, Spent, Held
  <2>2. CASE ask = "hold"
    <3>1. DoHold(c)
      BY <2>2 DEF Late
    <3>2. RowsKept(c) /\ IF Held(c) THEN Held(c)' ELSE res'[c] = res[c]
      BY <3>1, HoldRows
    <3> QED BY <1>1, <3>2 DEF CallInv, Accounted, Spent, Held
  <2>3. CASE ask = "release"
    <3>1. DoRelease(c) /\ ~Spent(c)
      BY <1>1, <2>3 DEF Late, CallInv, ReleaseSafe
    <3> QED BY <1>1, <3>1, ReleaseRows DEF Accounted, Spent
  <2>4. CASE ask \in {"reserve", "again"}
    <3>1. ~Spent(c) /\ \E k \in Cycles : DoReserve(c, k)
      BY <1>1, <2>4 DEF Late, CallInv, Unsent, Spent
    <3> QED BY <1>1, <3>1, ReserveRows DEF Accounted, Spent
  <2> QED BY <1>1, <2>1, <2>2, <2>3, <2>4 DEF Asks
<1>5. CallInv(c)'
  BY <1>1, <1>2, <1>3, <1>4 DEF CallInv, RowsKept, ReleaseSafe, Spent, Unsent, Steady, LateOnly,
     SettleKnown, OnItsWay
<1> QED BY <1>2, <1>4, <1>5, StepInv

-----------------------------------------------------------------------------
(* The specification. *)

LEMMA BudgetInitInv == BudgetInit => BudgetInv
<1> SUFFICES ASSUME BudgetInit PROVE BudgetInv
  OBVIOUS
<1>1. Types
  BY DEF BudgetInit, Types, CycleRow, ResRow, NoSuchCycle, Cycle, NoRow, NoCycle, NotCompleted, Steps
<1>2. EntitlementKept
  BY DEF BudgetInit, EntitlementKept, NoSuchCycle, Cycle
<1>3. ASSUME NEW c \in Calls PROVE CallInv(c)
  BY DEF BudgetInit, CallInv, Booked, Accounted, Spent, Held, ReleaseSafe, Unsent, LateOnly,
     SettleKnown, OnItsWay, NoRow
<1> QED BY <1>1, <1>2, <1>3 DEF BudgetInv

LEMMA BudgetNextInv == BudgetInv /\ [BudgetNext]_budgetVars => BudgetInv'
<1> SUFFICES ASSUME BudgetInv, [BudgetNext]_budgetVars PROVE BudgetInv'
  OBVIOUS
<1>1. ASSUME NEW k \in Cycles, Pay(k) PROVE BudgetInv'
  BY <1>1, RenewRows, CyclesInv, BudgetAssumption DEF Pay
<1>2. CASE Query
  BY <1>2, EnsureRows, CyclesInv DEF Query
<1>3. ASSUME NEW k \in Cycles, Lapse(k) PROVE BudgetInv'
  <2>1. cycle \in [Cycles -> CycleRow] /\ cycle' = [cycle EXCEPT ![k].status = "lapsed"]
    BY <1>3 DEF BudgetInv, Types, Lapse
  <2>2. cycle' \in [Cycles -> CycleRow] /\ EntitlementKept'
    BY <2>1 DEF CycleRow, EntitlementKept, BudgetInv
  <2> QED BY <1>3, <2>2, CyclesInv DEF Lapse
<1>4. ASSUME NEW k \in Cycles, Unlock(k) PROVE BudgetInv'
  BY <1>4, CyclesInv DEF Unlock, BudgetInv, Types, EntitlementKept
<1>5. ASSUME NEW c \in Calls,
             \/ Submit(c) \/ Reserve(c) \/ NoActiveCycle(c) \/ Ensure(c) \/ Refuse(c) \/ Deny(c)
             \/ CallProvider(c) \/ Unanswered(c) \/ Complete(c) \/ Settle(c) \/ Close(c) \/ Fault(c)
             \/ \E ask \in late[c] : Late(c, ask)
      PROVE BudgetInv'
  BY <1>5, SubmitInv, ReserveInv, NoActiveCycleInv, EnsureInv, RefuseInv, DenyInv, CallProviderInv,
     UnansweredInv, CompleteInv, SettleInv, CloseInv, FaultInv, LateInv
<1>6. CASE UNCHANGED budgetVars
  BY <1>6, CyclesInv DEF budgetVars, BudgetInv, Types, EntitlementKept
<1> QED BY <1>1, <1>2, <1>3, <1>4, <1>5, <1>6 DEF BudgetNext

LEMMA BudgetAlwaysInv == BudgetSpec => []BudgetInv
  BY BudgetInitInv, BudgetNextInv, PTL DEF BudgetSpec

-----------------------------------------------------------------------------
(* Sums over finite sets: the fold of the community modules, for a function. *)

FirstOf(s) == CHOOSE x \in s : TRUE

\* The recursive definition that the fold stands for, of f on the subsets of S.
Adds(w, S, f) ==
  f = [s \in SUBSET S |-> IF s = {} THEN 0 ELSE w[FirstOf(s)] + f[s \ {FirstOf(s)}]]
SumOf(w, S) == (CHOOSE f : Adds(w, S, f))[S]

LEMMA FirstIsIn == \A s : s # {} => FirstOf(s) \in s
  BY DEF FirstOf

\* Induction over the subsets of a finite set: one that is smallest among
\* those of a collection.
LEMMA SmallestOne ==
  ASSUME NEW S, IsFiniteSet(S), NEW Bad \in SUBSET (SUBSET S), Bad # {}
  PROVE  \E T \in Bad : \A U \in SUBSET T : U # T => U \notin Bad
<1>1. IsWellFoundedOn(StrictSubsetOrdering(S), SUBSET S)
  BY FS_StrictSubsetOrderingWellFounded, FS_FiniteSubsetsOfFinite
<1>2. PICK T \in Bad : \A U \in Bad : <<U, T>> \notin StrictSubsetOrdering(S)
  BY <1>1, WFMin
<1>3. ASSUME NEW U \in SUBSET T, U # T PROVE U \notin Bad
  BY <1>2, <1>3 DEF StrictSubsetOrdering
<1> QED BY <1>3

\* Two functions that add up agree where both are defined.
LEMMA AddsAgree ==
  ASSUME NEW A, IsFiniteSet(A), NEW B, NEW w, NEW f, NEW g, Adds(w, A, f), Adds(w, B, g),
         A \subseteq B
  PROVE  \A s \in SUBSET A : f[s] = g[s]
<1> DEFINE Bad == {s \in SUBSET A : f[s] # g[s]}
<1> SUFFICES ASSUME Bad # {} PROVE FALSE
  OBVIOUS
<1>1. PICK T \in Bad : \A U \in SUBSET T : U # T => U \notin Bad
  <2>1. Bad \in SUBSET (SUBSET A) /\ Bad # {}
    OBVIOUS
  <2> HIDE DEF Bad
  <2> QED BY <2>1, SmallestOne
<1>2. CASE T = {}
  BY <1>2, <1>1 DEF Adds
<1>3. CASE T # {}
  <2>1. FirstOf(T) \in T
    BY <1>3, FirstIsIn
  <2>2. f[T \ {FirstOf(T)}] = g[T \ {FirstOf(T)}]
    BY <1>1, <2>1
  <2>3. T \in SUBSET A /\ T \in SUBSET B
    OBVIOUS
  <2>4. f[T] = w[FirstOf(T)] + f[T \ {FirstOf(T)}]
    BY <1>3, <2>3 DEF Adds
  <2>5. g[T] = w[FirstOf(T)] + g[T \ {FirstOf(T)}]
    BY <1>3, <2>3 DEF Adds
  <2> QED BY <2>2, <2>4, <2>5
<1> QED BY <1>2, <1>3

LEMMA AddsExists ==
  ASSUME NEW S, IsFiniteSet(S), NEW w
  PROVE  \E f : Adds(w, S, f)
<1> DEFINE Bad == {s \in SUBSET S : ~\E f : Adds(w, s, f)}
<1> SUFFICES ASSUME Bad # {} PROVE FALSE
  OBVIOUS
<1>1. PICK T \in Bad : \A U \in SUBSET T : U # T => U \notin Bad
  <2>1. Bad \in SUBSET (SUBSET S) /\ Bad # {}
    OBVIOUS
  <2> HIDE DEF Bad
  <2> QED BY <2>1, SmallestOne
<1>2. IsFiniteSet(T) /\ T \subseteq S
  BY FS_Subset
<1>3. \A U \in SUBSET T : U # T => \E f : Adds(w, U, f)
  BY <1>1, <1>2
<1> DEFINE H(u) == SumOf(w, u)
           G == [s \in SUBSET T |-> IF s = {} THEN 0 ELSE w[FirstOf(s)] + H(s \ {FirstOf(s)})]
<1>4. ASSUME NEW u \in SUBSET T, u # T PROVE H(u) = G[u]
  <2>1. PICK f : f = (CHOOSE h : Adds(w, u, h)) /\ Adds(w, u, f)
    BY <1>3, <1>4
  <2>2. H(u) = f[u]
    BY <2>1 DEF SumOf
  <2>3. f[u] = IF u = {} THEN 0 ELSE w[FirstOf(u)] + f[u \ {FirstOf(u)}]
    BY <2>1 DEF Adds
  <2>4. ASSUME u # {} PROVE f[u \ {FirstOf(u)}] = H(u \ {FirstOf(u)})
    <3> DEFINE v == u \ {FirstOf(u)}
    <3>1. v \in SUBSET T /\ v \subseteq u /\ v # T /\ IsFiniteSet(v)
      BY <1>2, <2>4, FirstIsIn, FS_Subset
    <3>2. PICK e : e = (CHOOSE h : Adds(w, v, h)) /\ Adds(w, v, e)
      BY <1>3, <3>1
    <3>3. e[v] = f[v]
      BY <2>1, <3>1, <3>2, AddsAgree
    <3> QED BY <3>2, <3>3 DEF SumOf
  <2>5. G[u] = IF u = {} THEN 0 ELSE w[FirstOf(u)] + H(u \ {FirstOf(u)})
    OBVIOUS
  <2> QED BY <2>2, <2>3, <2>4, <2>5
<1>5. Adds(w, T, G)
  <2>1. ASSUME NEW s \in SUBSET T, s # {}
        PROVE  H(s \ {FirstOf(s)}) = G[s \ {FirstOf(s)}]
    BY <1>4, <2>1, FirstIsIn
  <2> HIDE DEF H
  <2>2. G = [s \in SUBSET T |-> IF s = {} THEN 0 ELSE w[FirstOf(s)] + G[s \ {FirstOf(s)}]]
    BY <2>1
  <2> QED BY <2>2 DEF Adds
<1> QED BY <1>1, <1>5

LEMMA SumUnfolds ==
  ASSUME NEW S, IsFiniteSet(S), NEW w
  PROVE  SumOf(w, S) = IF S = {} THEN 0 ELSE w[FirstOf(S)] + SumOf(w, S \ {FirstOf(S)})
<1>1. PICK f : f = (CHOOSE h : Adds(w, S, h)) /\ Adds(w, S, f)
  BY AddsExists
<1>2. SumOf(w, S) = f[S] /\ S \in SUBSET S
  BY <1>1 DEF SumOf
<1>3. f[S] = IF S = {} THEN 0 ELSE w[FirstOf(S)] + f[S \ {FirstOf(S)}]
  BY <1>1, <1>2 DEF Adds
<1>4. f[S \ {FirstOf(S)}] = SumOf(w, S \ {FirstOf(S)})
  <2> DEFINE v == S \ {FirstOf(S)}
  <2>1. v \subseteq S /\ IsFiniteSet(v)
    BY FS_Subset
  <2>2. PICK e : e = (CHOOSE h : Adds(w, v, h)) /\ Adds(w, v, e)
    BY <2>1, AddsExists
  <2>3. e[v] = f[v]
    BY <1>1, <2>1, <2>2, AddsAgree
  <2> QED BY <2>2, <2>3 DEF SumOf
<1> QED BY <1>2, <1>3, <1>4

LEMMA SumTyped ==
  ASSUME NEW S, IsFiniteSet(S), NEW w, \A x \in S : w[x] \in Nat
  PROVE  SumOf(w, S) \in Nat
<1> DEFINE Bad == {s \in SUBSET S : SumOf(w, s) \notin Nat}
<1> SUFFICES ASSUME Bad # {} PROVE FALSE
  OBVIOUS
<1>1. PICK T \in Bad : \A U \in SUBSET T : U # T => U \notin Bad
  <2>1. Bad \in SUBSET (SUBSET S) /\ Bad # {}
    OBVIOUS
  <2> HIDE DEF Bad
  <2> QED BY <2>1, SmallestOne
<1>2. IsFiniteSet(T) /\ T \subseteq S
  BY FS_Subset
<1>3. SumOf(w, T) = IF T = {} THEN 0 ELSE w[FirstOf(T)] + SumOf(w, T \ {FirstOf(T)})
  BY <1>2, SumUnfolds
<1>4. T # {} => FirstOf(T) \in T
  BY FirstIsIn
<1>5. T # {} => SumOf(w, T \ {FirstOf(T)}) \in Nat
  BY <1>1, <1>2, <1>4
<1>6. T # {} => w[FirstOf(T)] \in Nat
  BY <1>2, <1>4
<1> QED BY <1>3, <1>5, <1>6

\* The order in which the fold takes the members does not matter.
LEMMA SumWithout ==
  ASSUME NEW S, IsFiniteSet(S), NEW w, \A x \in S : w[x] \in Nat, NEW y \in S
  PROVE  SumOf(w, S) = w[y] + SumOf(w, S \ {y})
<1> DEFINE Fails(s) == \E x \in s : SumOf(w, s) # w[x] + SumOf(w, s \ {x})
           Bad == {s \in SUBSET S : Fails(s)}
<1> SUFFICES ASSUME Bad # {} PROVE FALSE
  OBVIOUS
<1>1. PICK T \in Bad : \A U \in SUBSET T : U # T => U \notin Bad
  <2>1. Bad \in SUBSET (SUBSET S) /\ Bad # {}
    OBVIOUS
  <2> HIDE DEF Bad
  <2> QED BY <2>1, SmallestOne
<1>2. IsFiniteSet(T) /\ T \subseteq S
  BY FS_Subset
<1>3. PICK x \in T : SumOf(w, T) # w[x] + SumOf(w, T \ {x})
  BY <1>1
<1> DEFINE a == FirstOf(T)
<1>4. a \in T /\ T # {}
  BY <1>3, FirstIsIn
<1>5. SumOf(w, T) = w[a] + SumOf(w, T \ {a}) /\ a # x
  BY <1>2, <1>3, <1>4, SumUnfolds
<1>6. /\ T \ {a} \in SUBSET T /\ T \ {a} # T /\ x \in T \ {a}
      /\ T \ {x} \in SUBSET T /\ T \ {x} # T /\ a \in T \ {x}
  BY <1>4, <1>5
<1>7. ASSUME NEW U \in SUBSET T, U # T, NEW u \in U
      PROVE  SumOf(w, U) = w[u] + SumOf(w, U \ {u})
  BY <1>1, <1>2, <1>7
<1> HIDE DEF a
<1>8. SumOf(w, T \ {a}) = w[x] + SumOf(w, (T \ {a}) \ {x})
  BY <1>6, <1>7
<1>9. SumOf(w, T \ {x}) = w[a] + SumOf(w, (T \ {x}) \ {a})
  BY <1>6, <1>7
<1>10. (T \ {a}) \ {x} = (T \ {x}) \ {a}
  OBVIOUS
<1>11. SumOf(w, (T \ {x}) \ {a}) \in Nat /\ w[x] \in Nat /\ w[a] \in Nat
  <2>1. IsFiniteSet((T \ {x}) \ {a}) /\ \A z \in (T \ {x}) \ {a} : w[z] \in Nat
    BY <1>2, FS_Subset
  <2> QED BY <1>2, <1>4, <2>1, SumTyped
<1>12. \A n, p, q \in Nat : p + (q + n) = q + (p + n)
  OBVIOUS
<1>13. SumOf(w, T) = w[a] + (w[x] + SumOf(w, (T \ {x}) \ {a}))
  BY <1>5, <1>8, <1>10
<1>14. w[a] + (w[x] + SumOf(w, (T \ {x}) \ {a})) = w[x] + (w[a] + SumOf(w, (T \ {x}) \ {a}))
  BY <1>11, <1>12
<1> QED BY <1>3, <1>9, <1>13, <1>14

LEMMA SumWith ==
  ASSUME NEW S, IsFiniteSet(S), NEW w, NEW y, y \notin S, \A x \in S \union {y} : w[x] \in Nat
  PROVE  SumOf(w, S \union {y}) = w[y] + SumOf(w, S)
<1>1. IsFiniteSet(S \union {y}) /\ (S \union {y}) \ {y} = S /\ y \in S \union {y}
  BY FS_AddElement
<1>2. SumOf(w, S \union {y}) = w[y] + SumOf(w, (S \union {y}) \ {y})
  BY <1>1, SumWithout
<1> QED BY <1>1, <1>2

\* Only the values on the set count.
LEMMA SumSame ==
  ASSUME NEW S, IsFiniteSet(S), NEW w, NEW v, \A x \in S : w[x] = v[x]
  PROVE  SumOf(w, S) = SumOf(v, S)
<1>1. PICK f : f = (CHOOSE h : Adds(w, S, h)) /\ Adds(w, S, f)
  BY AddsExists
<1>2. PICK g : g = (CHOOSE h : Adds(v, S, h)) /\ Adds(v, S, g)
  BY AddsExists
<1>3. \A s \in SUBSET S : s # {} => w[FirstOf(s)] = v[FirstOf(s)]
  BY FirstIsIn
<1>4. Adds(v, S, f)
  <2>1. f = [s \in SUBSET S |-> IF s = {} THEN 0 ELSE w[FirstOf(s)] + f[s \ {FirstOf(s)}]]
    BY <1>1 DEF Adds
  <2>2. f = [s \in SUBSET S |-> IF s = {} THEN 0 ELSE v[FirstOf(s)] + f[s \ {FirstOf(s)}]]
    BY <1>3, <2>1
  <2> QED BY <2>2 DEF Adds
<1>5. f[S] = g[S]
  BY <1>2, <1>4, AddsAgree
<1> QED BY <1>1, <1>2, <1>5 DEF SumOf

\* The sums of the model.
LEMMA AmountSum == \A S : MapThenSumSet(AmountOf, S) = SumOf(Amount, S)
  BY DEF MapThenSumSet, MapThenFoldSet, AmountOf, SumOf, Adds, FirstOf

PaidOf == [c \in Calls |-> res[c].paid]
LEMMA PaidSum ==
  ASSUME NEW S \in SUBSET Calls, IsFiniteSet(S)
  PROVE  MapThenSumSet(Paid, S) = SumOf(PaidOf, S)
<1> DEFINE Eq(f) ==
      f = [s \in SUBSET S |-> IF s = {} THEN 0 ELSE Paid(FirstOf(s)) + f[s \ {FirstOf(s)}]]
<1>1. MapThenSumSet(Paid, S) = (CHOOSE f : Eq(f))[S]
  BY DEF MapThenSumSet, MapThenFoldSet, FirstOf, Paid
<1>2. \A f : Eq(f) <=> Adds(PaidOf, S, f)
  <2>1. \A s \in SUBSET S : s # {} => Paid(FirstOf(s)) = PaidOf[FirstOf(s)]
    BY FirstIsIn DEF PaidOf, Paid
  <2>2. \A f : [s \in SUBSET S |-> IF s = {} THEN 0 ELSE Paid(FirstOf(s)) + f[s \ {FirstOf(s)}]]
             = [s \in SUBSET S |-> IF s = {} THEN 0 ELSE PaidOf[FirstOf(s)] + f[s \ {FirstOf(s)}]]
    BY <2>1
  <2> QED BY <2>2 DEF Adds
<1>3. PICK g : g = (CHOOSE f : Eq(f)) /\ Eq(g)
  BY <1>2, AddsExists
<1>4. PICK e : e = (CHOOSE f : Adds(PaidOf, S, f)) /\ Adds(PaidOf, S, e)
  BY AddsExists
<1>5. g[S] = e[S]
  BY <1>2, <1>3, <1>4, AddsAgree
<1> QED BY <1>1, <1>3, <1>4, <1>5 DEF SumOf


-----------------------------------------------------------------------------
(* The counters of the cycles. *)

\* The calls whose amounts a cycle holds, those it has settled, and those that
\* count against the approved action.
HeldOn(k) == {c \in Calls : res[c].cycle = k /\ Held(c)}
SettledOn(k) == {c \in Calls : res[c].cycle = k /\ res[c].status = "settled"}
Spending == {c \in Approved : Held(c) \/ res[c].status = "settled"}

Books(k) ==
  /\ cycle[k].reserved = SumOf(Amount, HeldOn(k))
  /\ cycle[k].settled = SumOf(PaidOf, SettledOn(k))
OnCycle(c) == res[c].cycle \in Cycles => cycle[res[c].cycle].status # "none"

Accounts ==
  /\ \A k \in Cycles : Books(k)
  /\ SumOf(Amount, Spending) <= Ceiling
  /\ \A c \in Calls : OnCycle(c) /\ res[c].paid \in Nat

\* A row is made once: while the request for it is due there is none.
NotYet(c) ==
  at[c] \in Steady \/ "reserve" \in late[c] \/ "again" \in late[c] => res[c] = NoRow
OneAsk(c) == \A ask \in {"reserve", "again"} : ask \in late[c] => late[c] = {ask}
SentTwice(c) == sent[c] \in 0..2 /\ (at[c] = "ready" => sent[c] <= 1)
CostKnown(c) == cost[c] \in Nat \union {NotCompleted}

CallLedger(c) == NotYet(c) /\ OneAsk(c) /\ SentTwice(c) /\ CostKnown(c)
LedgerInv ==
  /\ Accounts /\ \A c \in Calls : CallLedger(c)
  /\ open \in Nat /\ faults \in 0..MaxFaults

LEMMA CallSets ==
  ASSUME NEW S \in SUBSET Calls
  PROVE  IsFiniteSet(S) /\ \A c \in S : Amount[c] \in Nat
BY BudgetAssumption, FS_Subset

LEMMA LedgerSets ==
  /\ \A k \in Cycles : HeldOn(k) \in SUBSET Calls /\ SettledOn(k) \in SUBSET Calls
  /\ Spending \in SUBSET Calls
BY BudgetAssumption DEF HeldOn, SettledOn, Spending

LEMMA PaidAt == \A c \in Calls : PaidOf[c] = res[c].paid
BY DEF PaidOf

\* What a function of the database leaves: the rows of the other calls, and
\* counters that agree with the rows.
Kept(c) == Accounts' /\ \A d \in Calls \ {c} : res'[d] = res[d]

LEMMA StayKept ==
  ASSUME LedgerInv, NEW c \in Calls, UNCHANGED <<cycle, res>>
  PROVE  Kept(c)
BY DEF LedgerInv, Kept, Accounts, Books, OnCycle, HeldOn, SettledOn, Spending, Held, PaidOf

\* What is settled on a cycle keeps its sum when the rows behind it stay.
LEMMA SameSettled ==
  ASSUME LedgerInv, NEW c \in Calls, \A d \in Calls \ {c} : res'[d] = res[d],
         NEW k \in Cycles, c \notin SettledOn(k), SettledOn(k)' = SettledOn(k)
  PROVE  SumOf(PaidOf', SettledOn(k)') = SumOf(PaidOf, SettledOn(k))
<1>1. \A d \in SettledOn(k) : PaidOf'[d] = PaidOf[d]
  BY LedgerSets DEF PaidOf
<1>2. IsFiniteSet(SettledOn(k))
  BY LedgerSets, CallSets
<1> QED BY <1>1, <1>2, SumSame

LEMMA ReserveKept ==
  ASSUME BudgetInv, LedgerInv, NEW c \in Calls, NEW k \in Cycles, DoReserve(c, k), res[c] = NoRow
  PROVE  Kept(c)
<1>1. /\ cycle \in [Cycles -> CycleRow] /\ res \in [Calls -> ResRow] /\ Accounts
      /\ Amount[c] \in Nat
  BY AmountType DEF BudgetInv, Types, LedgerInv
<1>2. /\ cycle' = [cycle EXCEPT ![k].reserved = @ + Amount[c]]
      /\ res' = [res EXCEPT ![c] = [status |-> "reserved", cycle |-> k, paid |-> 0]]
      /\ cycle[k].status = "active"
  BY DEF DoReserve, Reservable, Active
<1>3. /\ \A d \in Calls \ {c} : res'[d] = res[d]
      /\ res'[c] = [status |-> "reserved", cycle |-> k, paid |-> 0]
      /\ res[c].status = "none" /\ res[c].cycle \notin Cycles
  BY <1>1, <1>2 DEF NoRow, NoCycle, Cycles
<1>4. /\ cycle'[k].reserved = cycle[k].reserved + Amount[c]
      /\ cycle'[k].settled = cycle[k].settled
      /\ \A i \in Cycles : cycle'[i].status = cycle[i].status
      /\ \A i \in Cycles \ {k} : cycle'[i] = cycle[i]
  BY <1>1, <1>2 DEF CycleRow
<1>5. ASSUME NEW i \in Cycles PROVE Books(i)'
  <2>1. SettledOn(i)' = SettledOn(i) /\ c \notin SettledOn(i)
    BY <1>3 DEF SettledOn
  <2>2. SumOf(PaidOf', SettledOn(i)') = SumOf(PaidOf, SettledOn(i))
    BY <1>3, <2>1, SameSettled
  <2>3. CASE i = k
    <3>1. HeldOn(k)' = HeldOn(k) \union {c} /\ c \notin HeldOn(k)
      BY <1>3 DEF HeldOn, Held
    <3>2. SumOf(Amount, HeldOn(k) \union {c}) = Amount[c] + SumOf(Amount, HeldOn(k))
      BY <1>1, <3>1, LedgerSets, CallSets, SumWith
    <3>3. SumOf(Amount, HeldOn(k)) \in Nat
      BY LedgerSets, CallSets, SumTyped
    <3>4. cycle[k].reserved + Amount[c] = Amount[c] + SumOf(Amount, HeldOn(k))
      BY <1>1, <3>3 DEF Accounts, Books
    <3> QED BY <1>1, <1>4, <2>2, <2>3, <3>1, <3>2, <3>4 DEF Accounts, Books
  <2>4. CASE i # k
    <3>1. HeldOn(i)' = HeldOn(i)
      BY <1>3, <2>4 DEF HeldOn, Held
    <3> QED BY <1>1, <1>4, <2>2, <2>4, <3>1 DEF Accounts, Books
  <2> QED BY <2>3, <2>4
<1>6. SumOf(Amount, Spending') <= Ceiling
  <2>1. CASE c \in Approved
    <3>1. Spending' = Spending \union {c} /\ c \notin Spending
      BY <1>3, <2>1, BudgetAssumption DEF Spending, Held
    <3>2. SumOf(Amount, Spending \union {c}) = Amount[c] + SumOf(Amount, Spending)
      BY <1>1, <3>1, LedgerSets, CallSets, SumWith
    <3>3. SumOf(Amount, Spending) \in Nat
      BY LedgerSets, CallSets, SumTyped
    <3>4. Committed + Amount[c] <= Ceiling
      BY <2>1 DEF DoReserve, Reservable
    <3>5. Committed = SumOf(Amount, Spending)
      BY AmountSum DEF Committed, Spending
    <3>6. Amount[c] + SumOf(Amount, Spending) <= Ceiling
      BY <1>1, <3>3, <3>4, <3>5, BudgetAssumption
    <3> QED BY <3>1, <3>2, <3>6
  <2>2. CASE c \notin Approved
    <3>1. Spending' = Spending
      BY <1>3, <2>2, BudgetAssumption DEF Spending, Held
    <3> QED BY <1>1, <3>1 DEF Accounts
  <2> QED BY <2>1, <2>2
<1>7. ASSUME NEW d \in Calls PROVE (OnCycle(d) /\ res[d].paid \in Nat)'
  <2>1. CASE d = c
    BY <1>2, <1>3, <1>4, <2>1 DEF OnCycle
  <2>2. CASE d # c
    BY <1>1, <1>3, <1>4, <2>2 DEF OnCycle, Accounts
  <2> QED BY <2>1, <2>2
<1> QED BY <1>3, <1>5, <1>6, <1>7 DEF Kept, Accounts

LEMMA HoldKept ==
  ASSUME BudgetInv, LedgerInv, NEW c \in Calls, DoHold(c)
  PROVE  Kept(c)
<1>1. CASE ~Held(c)
  BY <1>1, StayKept DEF DoHold
<1>2. CASE Held(c)
  <2>1. res \in [Calls -> ResRow] /\ res' = [res EXCEPT ![c].status = "pending"] /\ cycle' = cycle
    BY <1>2 DEF BudgetInv, Types, DoHold
  <2>2. /\ \A d \in Calls \ {c} : res'[d] = res[d]
        /\ res'[c].status = "pending" /\ res'[c].cycle = res[c].cycle /\ res'[c].paid = res[c].paid
    BY <2>1 DEF ResRow
  <2>3. /\ Spending' = Spending
        /\ \A i \in Cycles : HeldOn(i)' = HeldOn(i) /\ SettledOn(i)' = SettledOn(i)
    BY <1>2, <2>2, BudgetAssumption DEF HeldOn, SettledOn, Spending, Held
  <2>4. \A d \in Calls : res'[d].cycle = res[d].cycle /\ res'[d].paid = res[d].paid
    BY <2>2
  <2>5. PaidOf' = PaidOf
    BY <2>4 DEF PaidOf
  <2> QED BY <2>1, <2>2, <2>3, <2>4, <2>5 DEF Kept, LedgerInv, Accounts, Books, OnCycle
<1> QED BY <1>1, <1>2

LEMMA ReleaseKept ==
  ASSUME BudgetInv, LedgerInv, NEW c \in Calls, DoRelease(c)
  PROVE  Kept(c)
<1>1. CASE ~Held(c)
  BY <1>1, StayKept DEF DoRelease
<1>2. CASE Held(c)
  <2>1. /\ cycle \in [Cycles -> CycleRow] /\ res \in [Calls -> ResRow] /\ Accounts
        /\ Amount[c] \in Nat
    BY AmountType DEF BudgetInv, Types, LedgerInv
  <2> PICK k \in Cycles : k = res[c].cycle
    BY <1>2 DEF BudgetInv, CallInv, Booked
  <2>2. /\ res' = [res EXCEPT ![c].status = "released"]
        /\ cycle' = [cycle EXCEPT ![k].reserved = @ - Amount[c]]
    BY <1>2 DEF DoRelease
  <2>3. /\ \A d \in Calls \ {c} : res'[d] = res[d]
        /\ res'[c].status = "released" /\ res'[c].cycle = k /\ res'[c].paid = res[c].paid
    BY <2>1, <2>2 DEF ResRow
  <2>4. /\ cycle'[k].reserved = cycle[k].reserved - Amount[c]
        /\ cycle'[k].settled = cycle[k].settled
        /\ \A i \in Cycles : cycle'[i].status = cycle[i].status
        /\ \A i \in Cycles \ {k} : cycle'[i] = cycle[i]
    BY <2>1, <2>2 DEF CycleRow
  <2>5. ASSUME NEW i \in Cycles PROVE Books(i)'
    <3>1. SettledOn(i)' = SettledOn(i) /\ c \notin SettledOn(i)
      BY <1>2, <2>3 DEF SettledOn, Held
    <3>2. SumOf(PaidOf', SettledOn(i)') = SumOf(PaidOf, SettledOn(i))
      BY <2>3, <3>1, SameSettled
    <3>3. CASE i = k
      <4>1. HeldOn(k)' = HeldOn(k) \ {c} /\ c \in HeldOn(k)
        BY <1>2, <2>3 DEF HeldOn, Held
      <4>2. SumOf(Amount, HeldOn(k)) = Amount[c] + SumOf(Amount, HeldOn(k) \ {c})
        <5>1. IsFiniteSet(HeldOn(k)) /\ \A d \in HeldOn(k) : Amount[d] \in Nat
          BY LedgerSets, CallSets
        <5> QED BY <4>1, <5>1, SumWithout
      <4>3. SumOf(Amount, HeldOn(k) \ {c}) \in Nat
        BY <2>1, LedgerSets, CallSets, SumTyped
      <4>4. cycle[k].reserved - Amount[c] = SumOf(Amount, HeldOn(k) \ {c})
        BY <2>1, <4>2, <4>3 DEF Accounts, Books
      <4> QED BY <2>1, <2>4, <3>2, <3>3, <4>1, <4>4 DEF Accounts, Books
    <3>4. CASE i # k
      <4>1. HeldOn(i)' = HeldOn(i)
        BY <2>3, <3>4 DEF HeldOn, Held
      <4> QED BY <2>1, <2>4, <3>2, <3>4, <4>1 DEF Accounts, Books
    <3> QED BY <3>3, <3>4
  <2>6. SumOf(Amount, Spending') <= Ceiling
    <3>1. CASE c \in Approved
      <4>1. Spending' = Spending \ {c} /\ c \in Spending
        BY <1>2, <2>3, <3>1, BudgetAssumption DEF Spending, Held
      <4>2. SumOf(Amount, Spending) = Amount[c] + SumOf(Amount, Spending \ {c})
        BY <2>1, <4>1, LedgerSets, CallSets, SumWithout
      <4>3. SumOf(Amount, Spending \ {c}) \in Nat
        BY LedgerSets, CallSets, SumTyped
      <4>4. SumOf(Amount, Spending \ {c}) <= Ceiling
        BY <2>1, <4>2, <4>3, BudgetAssumption DEF Accounts
      <4> QED BY <4>1, <4>4
    <3>2. CASE c \notin Approved
      <4>1. Spending' = Spending
        BY <2>3, <3>2, BudgetAssumption DEF Spending, Held
      <4> QED BY <2>1, <4>1 DEF Accounts
    <3> QED BY <3>1, <3>2
  <2>7. \A d \in Calls : res'[d].cycle = res[d].cycle /\ res'[d].paid = res[d].paid
    BY <2>3
  <2>8. ASSUME NEW d \in Calls PROVE (OnCycle(d) /\ res[d].paid \in Nat)'
    BY <2>1, <2>4, <2>7 DEF OnCycle, Accounts
  <2> QED BY <2>3, <2>5, <2>6, <2>8 DEF Kept, Accounts
<1> QED BY <1>1, <1>2

\* What is settled leaves the amounts held on its cycle and joins those settled.
LEMMA SettleKept ==
  ASSUME BudgetInv, LedgerInv, NEW c \in Calls, DoSettle(c), cost[c] \in Nat
  PROVE  Kept(c)
<1>1. CASE ~Held(c)
  BY <1>1, StayKept DEF DoSettle
<1>2. CASE Held(c)
  <2>1. /\ cycle \in [Cycles -> CycleRow] /\ res \in [Calls -> ResRow] /\ Accounts
        /\ Amount[c] \in Nat
    BY AmountType DEF BudgetInv, Types, LedgerInv
  <2> PICK k \in Cycles : k = res[c].cycle
    BY <1>2 DEF BudgetInv, CallInv, Booked
  <2>2. /\ res' = [res EXCEPT ![c].status = "settled", ![c].paid = cost[c]]
        /\ cycle' = [cycle EXCEPT ![k].reserved = @ - Amount[c], ![k].settled = @ + cost[c]]
    BY <1>2 DEF DoSettle
  <2>3. /\ \A d \in Calls \ {c} : res'[d] = res[d]
        /\ res'[c].status = "settled" /\ res'[c].cycle = k /\ res'[c].paid = cost[c]
    BY <2>1, <2>2 DEF ResRow
  <2>4. /\ cycle'[k].reserved = cycle[k].reserved - Amount[c]
        /\ cycle'[k].settled = cycle[k].settled + cost[c]
        /\ \A i \in Cycles : cycle'[i].status = cycle[i].status
        /\ \A i \in Cycles \ {k} : cycle'[i] = cycle[i]
    BY <2>1, <2>2 DEF CycleRow
  <2>5. ASSUME NEW i \in Cycles PROVE Books(i)'
    <3>1. CASE i = k
      <4>1. HeldOn(k)' = HeldOn(k) \ {c} /\ c \in HeldOn(k)
        BY <1>2, <2>3 DEF HeldOn, Held
      <4>2. SumOf(Amount, HeldOn(k)) = Amount[c] + SumOf(Amount, HeldOn(k) \ {c})
        <5>1. IsFiniteSet(HeldOn(k)) /\ \A d \in HeldOn(k) : Amount[d] \in Nat
          BY LedgerSets, CallSets
        <5> QED BY <4>1, <5>1, SumWithout
      <4>3. SumOf(Amount, HeldOn(k) \ {c}) \in Nat
        BY <2>1, LedgerSets, CallSets, SumTyped
      <4>4. cycle[k].reserved - Amount[c] = SumOf(Amount, HeldOn(k) \ {c})
        BY <2>1, <4>2, <4>3 DEF Accounts, Books
      <4>5. SettledOn(k)' = SettledOn(k) \union {c} /\ c \notin SettledOn(k)
        BY <1>2, <2>3 DEF SettledOn, Held
      <4>6. \A d \in SettledOn(k) \union {c} : PaidOf'[d] \in Nat
        BY <2>1, <2>3, LedgerSets DEF PaidOf, Accounts
      <4>7. PaidOf'[c] = cost[c] /\ \A d \in SettledOn(k) : PaidOf'[d] = PaidOf[d]
        <5>1. SettledOn(k) \subseteq Calls \ {c}
          BY <4>5, LedgerSets
        <5> QED BY <2>3, <5>1 DEF PaidOf
      <4>8. SumOf(PaidOf', SettledOn(k) \union {c}) = PaidOf'[c] + SumOf(PaidOf', SettledOn(k))
        BY <2>1, <4>5, <4>6, LedgerSets, CallSets, SumWith
      <4>9. SumOf(PaidOf', SettledOn(k)) = SumOf(PaidOf, SettledOn(k))
        BY <2>1, <4>7, LedgerSets, CallSets, SumSame
      <4>10. cycle[k].settled \in Int
        BY <2>1 DEF CycleRow
      <4>11. cycle[k].settled + cost[c] = cost[c] + cycle[k].settled
        BY <4>10
      <4>12. cycle'[k].settled = SumOf(PaidOf', SettledOn(k)')
        BY <2>1, <2>4, <4>5, <4>7, <4>8, <4>9, <4>11 DEF Accounts, Books
      <4> QED BY <2>4, <3>1, <4>1, <4>4, <4>12 DEF Books
    <3>2. CASE i # k
      <4>1. HeldOn(i)' = HeldOn(i) /\ SettledOn(i)' = SettledOn(i) /\ c \notin SettledOn(i)
        BY <2>3, <3>2 DEF HeldOn, SettledOn, Held
      <4>2. SumOf(PaidOf', SettledOn(i)') = SumOf(PaidOf, SettledOn(i))
        BY <2>3, <4>1, SameSettled
      <4> QED BY <2>1, <2>4, <3>2, <4>1, <4>2 DEF Accounts, Books
    <3> QED BY <3>1, <3>2
  <2>6. Spending' = Spending
    BY <1>2, <2>3, BudgetAssumption DEF Spending, Held
  <2>7. ASSUME NEW d \in Calls PROVE (OnCycle(d) /\ res[d].paid \in Nat)'
    <3>1. res'[d].cycle = res[d].cycle /\ (res'[d].paid = res[d].paid \/ res'[d].paid = cost[c])
      BY <2>3
    <3> QED BY <2>1, <2>4, <3>1 DEF OnCycle, Accounts
  <2> QED BY <2>1, <2>3, <2>5, <2>6, <2>7 DEF Kept, Accounts
<1> QED BY <1>1, <1>2

\* A cycle that is opened has nothing booked on it yet.
LEMMA RenewKept ==
  ASSUME BudgetInv, LedgerInv, NEW k \in Cycles, NEW limit, NEW unlocked, Renew(k, limit, unlocked),
         UNCHANGED res
  PROVE  Accounts'
<1>1. /\ cycle \in [Cycles -> CycleRow] /\ Accounts
      /\ cycle[k].status = "none"
      /\ cycle' = [i \in Cycles |->
           IF i = k THEN Cycle(limit)
           ELSE IF i \in Current THEN [cycle[i] EXCEPT !.status = "expired"] ELSE cycle[i]]
  BY DEF BudgetInv, Types, LedgerInv, Renew, NextCycle
<1>2. /\ cycle'[k] = Cycle(limit)
      /\ \A i \in Cycles \ {k} :
           /\ cycle'[i].reserved = cycle[i].reserved /\ cycle'[i].settled = cycle[i].settled
           /\ cycle'[i].status \in {cycle[i].status, "expired"}
  BY <1>1 DEF CycleRow
<1>3. \A i \in Cycles : HeldOn(i)' = HeldOn(i) /\ SettledOn(i)' = SettledOn(i)
  BY DEF HeldOn, SettledOn, Held
<1>4. PaidOf' = PaidOf /\ Spending' = Spending
  BY DEF PaidOf, Spending, Held
<1>5. HeldOn(k) = {} /\ SettledOn(k) = {}
  BY <1>1 DEF Accounts, OnCycle, HeldOn, SettledOn
<1>6. SumOf(Amount, {}) = 0 /\ SumOf(PaidOf, {}) = 0
  BY FS_EmptySet, SumUnfolds
<1>7. ASSUME NEW i \in Cycles PROVE Books(i)'
  <2>1. CASE i = k
    BY <1>2, <1>3, <1>4, <1>5, <1>6, <2>1 DEF Books, Cycle
  <2>2. CASE i # k
    BY <1>1, <1>2, <1>3, <1>4, <2>2 DEF Books, Accounts
  <2> QED BY <2>1, <2>2
<1>8. ASSUME NEW d \in Calls PROVE (OnCycle(d) /\ res[d].paid \in Nat)'
  BY <1>1, <1>2 DEF OnCycle, Accounts, Cycle
<1> QED BY <1>1, <1>4, <1>7, <1>8 DEF Accounts

LEMMA EnsureKept ==
  ASSUME BudgetInv, LedgerInv, EnsureFree, UNCHANGED res
  PROVE  Accounts' /\ open' \in Nat
<1>1. CASE UNCHANGED <<cycle, open>>
  BY <1>1 DEF LedgerInv, Accounts, Books, OnCycle, HeldOn, SettledOn, Spending, Held, PaidOf
<1>2. CASE \E k \in Cycles : Renew(k, FreeLimit, FreeLimit)
  BY <1>2, RenewKept, BudgetAssumption DEF Renew
<1> QED BY <1>1, <1>2 DEF EnsureFree

-----------------------------------------------------------------------------
(* Steps and the counters. *)

LEMMA LedgerStep ==
  ASSUME BudgetInv, LedgerInv, NEW c \in Calls, StepOf(c), Kept(c), CallLedger(c)',
         UNCHANGED open, faults' \in 0..MaxFaults
  PROVE  LedgerInv'
<1>1. ASSUME NEW d \in Calls \ {c} PROVE CallLedger(d)'
  BY <1>1 DEF LedgerInv, CallLedger, StepOf, Kept, NotYet, OneAsk, SentTwice, CostKnown
<1> QED BY <1>1 DEF LedgerInv, Kept

\* A step that leaves the rows, what was sent and the cost.
LEMMA QuietLedger ==
  ASSUME BudgetInv, LedgerInv, NEW c \in Calls, NEW step \in Steps, Go(c, step), late[c] = {},
         UNCHANGED <<cycle, open, res, sent, cost, late, faults>>,
         step \in Steady => at[c] \in Steady, step # "ready"
  PROVE  LedgerInv'
<1>1. StepOf(c) /\ at'[c] = step
  BY GoStep
<1>2. Kept(c)
  BY StayKept
<1>3. CallLedger(c)'
  BY <1>1 DEF LedgerInv, CallLedger, NotYet, OneAsk, SentTwice, CostKnown
<1> QED BY <1>1, <1>2, <1>3, LedgerStep DEF LedgerInv

LEMMA SubmitLedger == ASSUME BudgetInv, LedgerInv, NEW c \in Calls, Submit(c) PROVE LedgerInv'
  BY NothingLate, QuietLedger DEF Submit, Steps, Steady

LEMMA NoActiveCycleLedger ==
  ASSUME BudgetInv, LedgerInv, NEW c \in Calls, NoActiveCycle(c) PROVE LedgerInv'
  BY NothingLate, QuietLedger DEF NoActiveCycle, Steps, Steady

LEMMA RefuseLedger == ASSUME BudgetInv, LedgerInv, NEW c \in Calls, Refuse(c) PROVE LedgerInv'
  BY NothingLate, QuietLedger DEF Refuse, Steps, Steady

LEMMA FailLedger ==
  ASSUME BudgetInv, LedgerInv, NEW c \in Calls, at[c] \in {"ready", "wire"}, NEW doubtful,
         Fail(c, doubtful), UNCHANGED <<cycle, open, res, sent, cost, late, faults>>
  PROVE  LedgerInv'
<1>1. PICK step \in {"hold", "release"} : Go(c, step)
  BY DEF Fail
<1> QED BY <1>1, NothingLate, QuietLedger DEF Steps, Steady

LEMMA DenyLedger == ASSUME BudgetInv, LedgerInv, NEW c \in Calls, Deny(c) PROVE LedgerInv'
  BY FailLedger DEF Deny

LEMMA EnsureLedger == ASSUME BudgetInv, LedgerInv, NEW c \in Calls, Ensure(c) PROVE LedgerInv'
<1>1. StepOf(c) /\ at'[c] = "again"
  BY GoStep DEF Ensure, Steps
<1>2. Accounts' /\ open' \in Nat
  <2>1. CASE EnsureFree
    BY <2>1, EnsureKept DEF Ensure
  <2>2. CASE UNCHANGED <<cycle, open>>
    BY <2>2, StayKept DEF Ensure, Kept, LedgerInv
  <2> QED BY <2>1, <2>2 DEF Ensure
<1>3. ASSUME NEW d \in Calls PROVE CallLedger(d)'
  <2>1. at'[d] = at[d] \/ (at[d] = "ensure" /\ at'[d] = "again")
    BY <1>1 DEF StepOf, Ensure
  <2> QED BY <2>1 DEF Ensure, LedgerInv, CallLedger, NotYet, OneAsk, SentTwice, CostKnown, Steady
<1> QED BY <1>2, <1>3 DEF LedgerInv, Ensure

LEMMA ReserveLedger == ASSUME BudgetInv, LedgerInv, NEW c \in Calls, Reserve(c) PROVE LedgerInv'
<1>1. PICK k \in Cycles : DoReserve(c, k)
  BY DEF Reserve
<1>2. late[c] = {} /\ res[c] = NoRow /\ sent[c] = 0
  BY NothingLate DEF Reserve, BudgetInv, CallInv, Unsent, LedgerInv, CallLedger, NotYet, Steady
<1>3. StepOf(c) /\ at'[c] = "ready"
  BY GoStep DEF Reserve, Steps
<1>4. Kept(c)
  BY <1>1, <1>2, ReserveKept
<1>5. CallLedger(c)'
  BY <1>2, <1>3
  DEF Reserve, LedgerInv, CallLedger, NotYet, OneAsk, SentTwice, CostKnown, Steady
<1> QED BY <1>3, <1>4, <1>5, LedgerStep DEF LedgerInv, Reserve

LEMMA CallProviderLedger ==
  ASSUME BudgetInv, LedgerInv, NEW c \in Calls, CallProvider(c) PROVE LedgerInv'
<1>1. late[c] = {} /\ Kept(c)
  BY NothingLate, StayKept DEF CallProvider
<1>2. /\ at' = [at EXCEPT ![c] = "wire"] /\ sent' = [sent EXCEPT ![c] = @ + 1]
      /\ UNCHANGED <<open, cost, late, faults>> /\ at[c] = "ready"
  BY DEF CallProvider, Go
<1>3. StepOf(c) /\ at'[c] = "wire" /\ sent'[c] = sent[c] + 1
  BY <1>2 DEF BudgetInv, Types, StepOf, Steps
<1>4. CallLedger(c)'
  BY <1>1, <1>2, <1>3 DEF LedgerInv, CallLedger, NotYet, OneAsk, SentTwice, CostKnown, Steady
<1> QED BY <1>1, <1>2, <1>3, <1>4, LedgerStep DEF LedgerInv

LEMMA UnansweredLedger ==
  ASSUME BudgetInv, LedgerInv, NEW c \in Calls, Unanswered(c) PROVE LedgerInv'
<1>1. CASE \E doubtful \in BOOLEAN : Fail(c, doubtful)
  BY <1>1, FailLedger DEF Unanswered
<1>2. CASE sent[c] = 1 /\ Go(c, "ready")
  <2>1. late[c] = {} /\ Kept(c)
    BY NothingLate, StayKept DEF Unanswered
  <2>2. StepOf(c) /\ at'[c] = "ready"
    BY <1>2, GoStep DEF Unanswered, Steps
  <2>3. CallLedger(c)'
    BY <1>2, <2>1, <2>2
    DEF Unanswered, LedgerInv, CallLedger, NotYet, OneAsk, SentTwice, CostKnown, Steady
  <2> QED BY <2>1, <2>2, <2>3, LedgerStep DEF LedgerInv, Unanswered
<1> QED BY <1>1, <1>2 DEF Unanswered

LEMMA CompleteLedger == ASSUME BudgetInv, LedgerInv, NEW c \in Calls, Complete(c) PROVE LedgerInv'
<1>1. late[c] = {} /\ Kept(c)
  BY NothingLate, StayKept DEF Complete
<1>2. PICK n \in 0..Amount[c] + 1 :
        /\ cost' = [cost EXCEPT ![c] = n]
        /\ at' = [at EXCEPT ![c] = IF n <= Amount[c] THEN "settle" ELSE "hold"]
  BY DEF Complete, Go
<1>3. n \in Nat /\ UNCHANGED <<open, sent, late, faults>>
  BY AmountType DEF Complete
<1>4. StepOf(c) /\ cost'[c] = n /\ at'[c] \in {"settle", "hold"}
  BY <1>2, <1>3 DEF BudgetInv, Types, StepOf, Steps
<1>5. CallLedger(c)'
  BY <1>1, <1>3, <1>4 DEF LedgerInv, CallLedger, NotYet, OneAsk, SentTwice, CostKnown, Steady
<1> QED BY <1>1, <1>3, <1>4, <1>5, LedgerStep DEF LedgerInv

\* A call is settled at a cost that is known.
LEMMA SettleLedger == ASSUME BudgetInv, LedgerInv, NEW c \in Calls, Settle(c) PROVE LedgerInv'
<1>1. late[c] = {} /\ cost[c] \in Nat /\ DoSettle(c)
  BY NothingLate, AmountType DEF Settle, BudgetInv, CallInv, SettleKnown
<1>2. StepOf(c) /\ at'[c] = "done"
  BY GoStep DEF Settle, Steps
<1>3. CallLedger(c)'
  BY <1>1, <1>2
  DEF Settle, LedgerInv, CallLedger, NotYet, OneAsk, SentTwice, CostKnown, Steady
<1> QED BY <1>1, <1>2, <1>3, SettleKept, LedgerStep DEF LedgerInv, Settle

LEMMA CloseLedger == ASSUME BudgetInv, LedgerInv, NEW c \in Calls, Close(c) PROVE LedgerInv'
<1>1. StepOf(c) /\ at'[c] = "done"
  BY GoStep DEF Close, Steps
<1>2. Kept(c)
  BY HoldKept, ReleaseKept DEF Close
<1>3. late[c] \subseteq {"settle"}
  BY DEF Close, BudgetInv, CallInv, LateOnly
<1>4. CallLedger(c)'
  BY <1>1, <1>3
  DEF Close, LedgerInv, CallLedger, NotYet, OneAsk, SentTwice, CostKnown, Steady
<1> QED BY <1>1, <1>2, <1>4, LedgerStep DEF LedgerInv, Close

LEMMA FaultLedger == ASSUME BudgetInv, LedgerInv, NEW c \in Calls, Fault(c) PROVE LedgerInv'
<1>1. Kept(c) /\ UNCHANGED <<open, res, sent, cost>> /\ CallLedger(c)
  BY StayKept DEF Fault, LedgerInv
<1>2. faults' \in 0..MaxFaults
  BY BudgetAssumption DEF Fault, LedgerInv
<1>3. PICK step \in {"done", "hold"} : at' = [at EXCEPT ![c] = step]
  BY DEF Fault, Go
<1>4. late' = IF at[c] \in Asks THEN [late EXCEPT ![c] = @ \union {at[c]}] ELSE late
  BY DEF Fault
<1>5. /\ StepOf(c) /\ at'[c] = step
      /\ late'[c] = late[c] \union (IF at[c] \in Asks THEN {at[c]} ELSE {})
  BY <1>1, <1>3, <1>4 DEF BudgetInv, Types, StepOf, Steps
<1>6. late[c] # {} => at[c] = "hold" /\ late[c] = {"settle"}
  BY DEF Fault, BudgetInv, CallInv, LateOnly
<1>7. NotYet(c)'
  BY <1>1, <1>5, <1>6 DEF CallLedger, NotYet, Steady
<1>8. OneAsk(c)'
  BY <1>5, <1>6 DEF OneAsk
<1>9. CallLedger(c)'
  BY <1>1, <1>5, <1>7, <1>8 DEF CallLedger, SentTwice, CostKnown
<1> QED BY <1>1, <1>2, <1>5, <1>9, LedgerStep

LEMMA LateLedger ==
  ASSUME BudgetInv, LedgerInv, NEW c \in Calls, NEW ask \in late[c], Late(c, ask)
  PROVE  LedgerInv'
<1>1. /\ CallInv(c) /\ CallLedger(c) /\ late' = [late EXCEPT ![c] = @ \ {ask}]
      /\ UNCHANGED <<open, at, sent, cost, faults>> /\ ask \in Asks
  BY DEF Late, BudgetInv, Types, LedgerInv
<1>2. StepOf(c) /\ late'[c] = late[c] \ {ask}
  BY <1>1 DEF BudgetInv, Types, StepOf
<1>3. at[c] \in {"done", "hold"}
  BY <1>1 DEF CallInv, LateOnly
<1>4. Kept(c)
  <2>1. CASE ask = "settle"
    <3>1. cost[c] \in Nat /\ DoSettle(c)
      BY <1>1, <2>1, AmountType DEF CallInv, SettleKnown, Late
    <3> QED BY <3>1, SettleKept
  <2>2. CASE ask = "hold"
    BY <2>2, HoldKept DEF Late
  <2>3. CASE ask = "release"
    BY <2>3, ReleaseKept DEF Late
  <2>4. CASE ask \in {"reserve", "again"}
    <3>1. res[c] = NoRow /\ \E k \in Cycles : DoReserve(c, k)
      BY <1>1, <2>4 DEF Late, CallLedger, NotYet
    <3> QED BY <3>1, ReserveKept
  <2> QED BY <1>1, <2>1, <2>2, <2>3, <2>4 DEF Asks
<1>5. OneAsk(c)'
  BY <1>1, <1>2 DEF CallLedger, OneAsk
<1>6. NotYet(c)'
  <2>1. CASE ask \in {"reserve", "again"}
    BY <1>1, <1>2, <1>3, <2>1 DEF CallLedger, OneAsk, NotYet, Steady
  <2>2. CASE ask \notin {"reserve", "again"}
    <3>1. "reserve" \notin late[c] /\ "again" \notin late[c]
      BY <1>1, <2>2 DEF CallLedger, OneAsk
    <3> QED BY <1>1, <1>2, <1>3, <3>1 DEF NotYet, Steady
  <2> QED BY <2>1, <2>2
<1>7. CallLedger(c)'
  BY <1>1, <1>5, <1>6 DEF CallLedger, SentTwice, CostKnown
<1> QED BY <1>1, <1>2, <1>4, <1>7, LedgerStep DEF LedgerInv

\* A step that changes cycles only.
LEMMA CyclesLedger ==
  ASSUME LedgerInv, UNCHANGED <<res, at, sent, cost, late, faults>>, Accounts', open' \in Nat
  PROVE  LedgerInv'
BY DEF LedgerInv, CallLedger, NotYet, OneAsk, SentTwice, CostKnown

LEMMA LapseKept ==
  ASSUME BudgetInv, LedgerInv, NEW k \in Cycles, Lapse(k)
  PROVE  Accounts'
<1>1. /\ cycle \in [Cycles -> CycleRow] /\ cycle' = [cycle EXCEPT ![k].status = "lapsed"]
      /\ Accounts /\ res' = res
  BY DEF BudgetInv, Types, LedgerInv, Lapse
<1>2. \A i \in Cycles :
        /\ cycle'[i].reserved = cycle[i].reserved /\ cycle'[i].settled = cycle[i].settled
        /\ cycle'[i].status \in {cycle[i].status, "lapsed"}
  BY <1>1 DEF CycleRow
<1>3. /\ Spending' = Spending /\ PaidOf' = PaidOf
      /\ \A i \in Cycles : HeldOn(i)' = HeldOn(i) /\ SettledOn(i)' = SettledOn(i)
  BY <1>1 DEF Spending, PaidOf, HeldOn, SettledOn, Held
<1> QED BY <1>1, <1>2, <1>3 DEF Accounts, Books, OnCycle

-----------------------------------------------------------------------------

LEMMA BudgetInitLedger == BudgetInit => LedgerInv
<1> SUFFICES ASSUME BudgetInit PROVE LedgerInv
  OBVIOUS
<1>1. SumOf(Amount, {}) = 0 /\ SumOf(PaidOf, {}) = 0
  BY FS_EmptySet, SumUnfolds
<1>2. Spending = {} /\ \A k \in Cycles : HeldOn(k) = {} /\ SettledOn(k) = {}
  BY BudgetAssumption DEF BudgetInit, Spending, HeldOn, SettledOn, Held, NoRow
<1>3. \A k \in Cycles : Books(k)
  BY <1>1, <1>2 DEF BudgetInit, Books, NoSuchCycle, Cycle
<1>4. \A c \in Calls : OnCycle(c) /\ res[c].paid \in Nat
  BY DEF BudgetInit, OnCycle, NoRow, NoCycle, Cycles
<1>5. Accounts
  BY <1>1, <1>2, <1>3, <1>4, BudgetAssumption DEF Accounts
<1>6. \A c \in Calls : CallLedger(c)
  BY DEF BudgetInit, CallLedger, NotYet, OneAsk, SentTwice, CostKnown
<1> QED BY <1>5, <1>6, BudgetAssumption DEF LedgerInv, BudgetInit

LEMMA BudgetNextLedger == BudgetInv /\ LedgerInv /\ [BudgetNext]_budgetVars => LedgerInv'
<1> SUFFICES ASSUME BudgetInv, LedgerInv, [BudgetNext]_budgetVars PROVE LedgerInv'
  OBVIOUS
<1>1. ASSUME NEW k \in Cycles, Pay(k) PROVE LedgerInv'
  <2>1. Accounts'
    BY <1>1, RenewKept DEF Pay
  <2> QED BY <1>1, <2>1, CyclesLedger DEF Pay, Renew
<1>2. CASE Query
  BY <1>2, EnsureKept, CyclesLedger DEF Query
<1>3. ASSUME NEW k \in Cycles, Lapse(k) PROVE LedgerInv'
  <2>1. Accounts'
    BY <1>3, LapseKept
  <2> QED BY <1>3, <2>1, CyclesLedger DEF Lapse, LedgerInv
<1>4. ASSUME NEW k \in Cycles, Unlock(k) PROVE LedgerInv'
  <2>1. Accounts'
    BY <1>4 DEF Unlock, LedgerInv, Accounts, Books, OnCycle, HeldOn, SettledOn, Spending, Held, PaidOf
  <2>2. open' \in Nat
    BY <1>4 DEF Unlock, LedgerInv
  <2> QED BY <1>4, <2>1, <2>2, CyclesLedger DEF Unlock
<1>5. ASSUME NEW c \in Calls,
             \/ Submit(c) \/ Reserve(c) \/ NoActiveCycle(c) \/ Ensure(c) \/ Refuse(c) \/ Deny(c)
             \/ CallProvider(c) \/ Unanswered(c) \/ Complete(c) \/ Settle(c) \/ Close(c) \/ Fault(c)
             \/ \E ask \in late[c] : Late(c, ask)
      PROVE LedgerInv'
  BY <1>5, SubmitLedger, ReserveLedger, NoActiveCycleLedger, EnsureLedger, RefuseLedger,
     DenyLedger, CallProviderLedger, UnansweredLedger, CompleteLedger, SettleLedger, CloseLedger,
     FaultLedger, LateLedger
<1>6. CASE UNCHANGED budgetVars
  BY <1>6 DEF budgetVars, LedgerInv, Accounts, Books, OnCycle, HeldOn, SettledOn, Spending, Held,
     PaidOf, CallLedger, NotYet, OneAsk, SentTwice, CostKnown
<1> QED BY <1>1, <1>2, <1>3, <1>4, <1>5, <1>6 DEF BudgetNext

LEMMA BudgetAlwaysLedger == BudgetSpec => [](BudgetInv /\ LedgerInv)
<1>1. BudgetInit => BudgetInv /\ LedgerInv
  BY BudgetInitInv, BudgetInitLedger
<1>2. BudgetInv /\ LedgerInv /\ [BudgetNext]_budgetVars => (BudgetInv /\ LedgerInv)'
  BY BudgetNextInv, BudgetNextLedger
<1> QED BY <1>1, <1>2, PTL DEF BudgetSpec

\* What the invariants say of the rows, in the words of the model.
LEMMA CountersTyped ==
  ASSUME LedgerInv, NEW k \in Cycles
  PROVE  cycle[k].reserved \in Nat /\ cycle[k].settled \in Nat
<1>1. SumOf(Amount, HeldOn(k)) \in Nat
  BY LedgerSets, CallSets, SumTyped
<1>2. \A c \in SettledOn(k) : PaidOf[c] \in Nat
  BY LedgerSets, PaidAt DEF LedgerInv, Accounts
<1>3. IsFiniteSet(SettledOn(k))
  BY LedgerSets, CallSets
<1>4. SumOf(PaidOf, SettledOn(k)) \in Nat
  BY <1>2, <1>3, SumTyped
<1> QED BY <1>1, <1>4 DEF LedgerInv, Accounts, Books

LEMMA BudgetTypes == BudgetInv /\ LedgerInv => BudgetTypeOK
<1> SUFFICES ASSUME BudgetInv, LedgerInv PROVE BudgetTypeOK
  OBVIOUS
<1>1. Types /\ Accounts /\ \A c \in Calls : CallLedger(c)
  BY DEF BudgetInv, LedgerInv
<1>2. ASSUME NEW k \in Cycles
      PROVE  cycle[k] \in [status : {"none", "active", "lapsed", "expired"},
                           limit : Nat, reserved : Nat, settled : Nat]
  <2>1. cycle[k] \in CycleRow
    BY <1>1 DEF Types
  <2> QED BY <2>1, CountersTyped DEF CycleRow
<1>3. ASSUME NEW c \in Calls
      PROVE  res[c] \in [status : {"none", "reserved", "pending", "settled", "released"},
                         cycle : Cycles \union {NoCycle}, paid : Nat]
  <2>1. res[c] \in ResRow /\ res[c].paid \in Nat
    BY <1>1 DEF Types, Accounts
  <2> QED BY <2>1 DEF ResRow
<1>4. \A c \in Calls : sent[c] \in 0..2 /\ cost[c] \in Nat \union {NotCompleted}
  BY <1>1 DEF CallLedger, SentTwice, CostKnown
<1> QED BY <1>1, <1>2, <1>3, <1>4 DEF BudgetTypeOK, Types, LedgerInv

\* "Completed provider spending must never be released after accounting
\* failure" (providerBudget.settlement.test.ts:35), nor that of a voice call
\* whose audio was sent (voiceBudget.ts:87).
THEOREM SpentStaysHeld == BudgetSpec => []SpentIsHeld
<1>1. BudgetInv => SpentIsHeld
  BY DEF BudgetInv, CallInv, SpentIsHeld
<1> QED BY <1>1, BudgetAlwaysInv, PTL

\* No cycle is overdrawn, by what is spent and what is held together
\* (20260728010000_command45_shared_provider_entitlement.sql:22).
THEOREM EntitlementRespected == BudgetSpec => []EntitlementKept
<1>1. BudgetInv => EntitlementKept
  BY DEF BudgetInv
<1> QED BY <1>1, BudgetAlwaysInv, PTL

\* The counters of every cycle are those of the calls booked on it
\* (20261019000200_provider_budget_cycle_parent.sql:82-84, 115-116).
THEOREM CountersAreTheCalls == BudgetSpec => []CyclesAgree
<1>1. ASSUME BudgetInv, LedgerInv PROVE CyclesAgree
  <2>1. ASSUME NEW k \in Cycles
        PROVE  LET On == {c \in Calls : res[c].cycle = k}
               IN /\ cycle[k].reserved = MapThenSumSet(AmountOf, {c \in On : Held(c)})
                  /\ cycle[k].settled
                       = MapThenSumSet(Paid, {c \in On : res[c].status = "settled"})
    <3> DEFINE On == {c \in Calls : res[c].cycle = k}
    <3>1. /\ {c \in On : Held(c)} = HeldOn(k)
          /\ {c \in On : res[c].status = "settled"} = SettledOn(k)
      BY DEF HeldOn, SettledOn
    <3>2. MapThenSumSet(AmountOf, HeldOn(k)) = SumOf(Amount, HeldOn(k))
      BY AmountSum
    <3>3. MapThenSumSet(Paid, SettledOn(k)) = SumOf(PaidOf, SettledOn(k))
      BY LedgerSets, CallSets, PaidSum
    <3> QED BY <1>1, <3>1, <3>2, <3>3 DEF LedgerInv, Accounts, Books
  <2> QED BY <1>1, <2>1, BudgetTypes DEF CyclesAgree
<1> QED BY <1>1, BudgetAlwaysLedger, PTL

\* No cycle is overdrawn, and an admitted action spends no more than was
\* approved for it
\* (20261020000400_operations_provider_budget_authority.sql:76-81).
THEOREM SpendingBounded == BudgetSpec => []SpendWithinBudget
<1>1. ASSUME BudgetInv, LedgerInv PROVE SpendWithinBudget
  <2>1. Committed = SumOf(Amount, Spending)
    BY AmountSum DEF Committed, Spending
  <2>2. Committed <= Ceiling
    BY <1>1, <2>1 DEF LedgerInv, Accounts
  <2> QED BY <1>1, <2>2 DEF SpendWithinBudget, BudgetInv
<1> QED BY <1>1, BudgetAlwaysLedger, PTL
=============================================================================
