----------------------------- MODULE DriveStorage -----------------------------
(***************************************************************************)
(* Objects of one tenant's drive: the row of an object, its reservation of *)
(* quota, its bytes at the provider, and the requests and the periodic     *)
(* reconciliation that work on them call by call                           *)
(* (backend/src/storage/storageService.ts,                                 *)
(* 20261022000000_storage_drive_foundation.sql).                           *)
(*                                                                         *)
(* Every object has the size 1.  The usage of the tenant is the sum over   *)
(* its reservations: each function of the database updates both in one     *)
(* transaction.  There is no clock: an upload or a reservation may be past *)
(* its end, and a row old enough to be reconciled, at any moment.          *)
(***************************************************************************)
EXTENDS Naturals, FiniteSets

CONSTANTS Objects,
          Clients,    \* processes that serve requests
          Sweeper,    \* the process that reconciles
          Quota,      \* of the tenant
          MaxFaults   \* crashes, outages, stalls and changes of owner that are explored

ASSUME DriveAssumption ==
  /\ Quota \in Nat /\ MaxFaults \in Nat
  /\ Sweeper \notin Clients /\ IsFiniteSet(Objects) /\ Objects # {}

Procs == Clients \union {Sweeper}

VARIABLES
  state,    \* per object: its state
  hold,     \* per object: the state of its reservation
  bytes,    \* per object: what the provider has of it
  revoked,  \* objects whose project has gone to another owner
  at,       \* per process: the call it makes next and the object it is about
  faults

vars == <<state, hold, bytes, revoked, at, faults>>

Idle == [step |-> "idle", obj |-> CHOOSE o \in Objects : TRUE]

Init ==
  /\ state = [o \in Objects |-> "absent"]
  /\ hold = [o \in Objects |-> "none"]
  /\ bytes = [o \in Objects |-> "none"] /\ revoked = {}
  /\ at = [p \in Procs |-> Idle]
  /\ faults = 0

-----------------------------------------------------------------------------
\* The database.

Obj(p) == at[p].obj
Calls(p, step) == at[p].step = step
Then(p, step) == at' = [at EXCEPT ![p].step = step]
Return(p) == at' = [at EXCEPT ![p] = Idle]
Begin(p, step, o) == at[p] = Idle /\ at' = [at EXCEPT ![p] = [step |-> step, obj |-> o]]

\* updateObject: the state is set if it is one of those named.
Moves(o, from, to) ==
  state' = IF state[o] \in from THEN [state EXCEPT ![o] = to] ELSE state

Held(o) == hold[o] \in {"ACTIVE", "COMMITTED"}
Used == Cardinality({o \in Objects : Held(o)})

\* storage_reserve.  It may find the reservation, make it or find no room.
HasRoom(o) == Held(o) \/ Used < Quota
Reserved(o) == IF Held(o) THEN hold ELSE [hold EXCEPT ![o] = "ACTIVE"]

Committed(o) == IF hold[o] = "ACTIVE" THEN [hold EXCEPT ![o] = "COMMITTED"] ELSE hold

\* Mutant: whatever is held is released.
ReleasedCommitted(o) == IF Held(o) THEN [hold EXCEPT ![o] = "RELEASED"] ELSE hold

Released(o) == IF hold[o] = "ACTIVE" THEN [hold EXCEPT ![o] = "RELEASED"] ELSE hold

-----------------------------------------------------------------------------
\* initiateUpload

\* newObjectId: objects that do not exist yet are all alike.
New == CHOOSE o \in Objects : state[o] = "absent"

Initiate(p, o) ==
  /\ p \in Clients /\ state[o] = "absent" /\ o = New /\ o \notin revoked
  /\ Begin(p, "reserve", o) /\ state' = [state EXCEPT ![o] = "PENDING"]
  /\ UNCHANGED <<hold, bytes, revoked, faults>>

Reserve(p) ==
  /\ Calls(p, "reserve")
  /\ IF HasRoom(Obj(p)) THEN hold' = Reserved(Obj(p)) /\ Then(p, "open")
     ELSE hold' = hold /\ Then(p, "refuse")
  /\ UNCHANGED <<state, bytes, revoked, faults>>
Refuse(p) ==
  /\ Calls(p, "refuse") /\ Moves(Obj(p), {"PENDING"}, "FAILED") /\ Return(p)
  /\ UNCHANGED <<hold, bytes, revoked, faults>>

\* The URL is signed for the object as it was; both are checked again.
Open(p) ==
  /\ Calls(p, "open")
  /\ IF Obj(p) \in revoked \/ state[Obj(p)] # "PENDING"
     THEN Then(p, "undo") /\ state' = state
     ELSE Moves(Obj(p), {"PENDING"}, "UPLOADING") /\ Then(p, "confirm")
  /\ UNCHANGED <<hold, bytes, revoked, faults>>

\* A client has its URL; putServerObject goes on to write the bytes itself.
Confirm(p) ==
  /\ Calls(p, "confirm")
  /\ IF Obj(p) \in revoked \/ state[Obj(p)] # "UPLOADING" THEN Then(p, "undo")
     ELSE Return(p) \/ Then(p, "put")
  /\ UNCHANGED <<state, hold, bytes, revoked, faults>>
Undo(p) ==
  /\ Calls(p, "undo") /\ Moves(Obj(p), {"PENDING", "UPLOADING"}, "FAILED") /\ Then(p, "drop")
  /\ UNCHANGED <<hold, bytes, revoked, faults>>
Drop(p) ==
  /\ Calls(p, "drop") /\ hold' = Released(Obj(p)) /\ Return(p)
  /\ UNCHANGED <<state, bytes, revoked, faults>>

Put(p) ==
  /\ Calls(p, "put")
  /\ bytes' = [bytes EXCEPT ![Obj(p)] = "good"] /\ Then(p, "head")
  /\ UNCHANGED <<state, hold, revoked, faults>>

\* The URL is good for a while, whatever becomes of the object.  What is
\* written after the verification changes nothing that is stated here.
ClientPut(o) ==
  /\ state[o] \in {"UPLOADING", "VERIFYING"}
  /\ \E content \in {"good", "bad"} : bytes' = [bytes EXCEPT ![o] = content]
  /\ UNCHANGED <<state, hold, revoked, at, faults>>

-----------------------------------------------------------------------------
\* completeUpload and the verification

Complete(p, o) ==
  /\ p \in Clients /\ o \notin revoked /\ state[o] \in {"PENDING", "UPLOADING", "VERIFYING"}
  /\ Begin(p, "head", o)
  /\ UNCHANGED <<state, hold, bytes, revoked, faults>>

Head(p) ==
  /\ Calls(p, "head")
  /\ IF bytes[Obj(p)] # "none" THEN Then(p, "mark") ELSE Return(p)
  /\ UNCHANGED <<state, hold, bytes, revoked, faults>>

Unverified == {"PENDING", "UPLOADING", "VERIFYING"}
Mark(p) ==
  /\ Calls(p, "mark") /\ Moves(Obj(p), Unverified, "VERIFYING")
  /\ IF state[Obj(p)] \in Unverified THEN Then(p, "check") ELSE Return(p)
  /\ UNCHANGED <<hold, bytes, revoked, faults>>

\* The bytes are read back and judged; then the project's owner is checked.
Check(p) ==
  /\ Calls(p, "check")
  /\ IF bytes[Obj(p)] # "good" THEN Then(p, "quarantine") \/ Then(p, "corrupt")
     ELSE IF Obj(p) \in revoked THEN Return(p) ELSE Then(p, "commit")
  /\ UNCHANGED <<state, hold, bytes, revoked, faults>>
Reject(p) ==
  /\ \/ Calls(p, "quarantine") /\ Moves(Obj(p), {"VERIFYING"}, "QUARANTINED")
     \/ Calls(p, "corrupt") /\ Moves(Obj(p), {"VERIFYING"}, "CORRUPT")
  /\ Then(p, "drop")
  /\ UNCHANGED <<hold, bytes, revoked, faults>>

\* storage_commit, and what the verification makes of its answer.
Commit(p) ==
  /\ Calls(p, "commit")
  /\ hold' = Committed(Obj(p))
  /\ Then(p, IF Held(Obj(p)) THEN "ready" ELSE "again")
  /\ UNCHANGED <<state, bytes, revoked, faults>>

\* Mutant: the quota was checked when the upload began.
AgainUnchecked(p) ==
  /\ Calls(p, "again") /\ hold' = Reserved(Obj(p)) /\ Then(p, "recommit")
  /\ UNCHANGED <<state, bytes, revoked, faults>>

\* The reservation was lost while the bytes were read.
Again(p) ==
  /\ Calls(p, "again")
  /\ IF HasRoom(Obj(p)) THEN hold' = Reserved(Obj(p)) /\ Then(p, "recommit")
     ELSE hold' = hold /\ Then(p, "full")
  /\ UNCHANGED <<state, bytes, revoked, faults>>

Recommit(p) ==
  /\ Calls(p, "recommit")
  /\ hold' = Committed(Obj(p))
  /\ IF Held(Obj(p)) THEN Then(p, "ready") ELSE Return(p)
  /\ UNCHANGED <<state, bytes, revoked, faults>>
Full(p) ==
  /\ Calls(p, "full") /\ Moves(Obj(p), {"VERIFYING"}, "FAILED") /\ Return(p)
  /\ UNCHANGED <<hold, bytes, revoked, faults>>
Ready(p) ==
  /\ Calls(p, "ready") /\ Moves(Obj(p), {"VERIFYING"}, "READY") /\ Return(p)
  /\ UNCHANGED <<hold, bytes, revoked, faults>>

-----------------------------------------------------------------------------
\* deleteObject

Deletable == {"PENDING", "UPLOADING", "READY", "QUARANTINED", "CORRUPT", "FAILED", "DELETING"}

Delete(p, o) ==
  /\ p \in Clients /\ o \notin revoked /\ state[o] \in Deletable
  /\ Begin(p, "erase", o) /\ Moves(o, Deletable, "DELETING")
  /\ UNCHANGED <<hold, bytes, revoked, faults>>
Erase(p) ==
  /\ Calls(p, "erase") /\ bytes' = [bytes EXCEPT ![Obj(p)] = "none"] /\ Then(p, "delete")
  /\ UNCHANGED <<state, hold, revoked, faults>>
Deleted(p) ==
  /\ Calls(p, "delete") /\ Moves(Obj(p), {"DELETING"}, "DELETED")
  /\ IF state[Obj(p)] = "DELETING" THEN Then(p, "release") ELSE Return(p)
  /\ UNCHANGED <<hold, bytes, revoked, faults>>
Release(p) ==
  /\ Calls(p, "release") /\ hold' = Released(Obj(p)) /\ Then(p, "free")
  /\ UNCHANGED <<state, bytes, revoked, faults>>
Free(p) ==
  /\ Calls(p, "free") /\ Return(p)
  /\ hold' = IF hold[Obj(p)] = "COMMITTED" THEN [hold EXCEPT ![Obj(p)] = "FREED"] ELSE hold
  /\ UNCHANGED <<state, bytes, revoked, faults>>

-----------------------------------------------------------------------------
\* reconcile

\* Mutant: a verification that was left is not taken up.
SweepUploads(o) ==
  \/ /\ state[o] \in {"PENDING", "UPLOADING"}
     /\ Moves(o, {"PENDING", "UPLOADING"}, "DELETING") /\ Begin(Sweeper, "erase", o)
  \/ state[o] = "DELETING" /\ state' = state /\ Begin(Sweeper, "erase", o)

Sweep(o) ==
  \/ /\ state[o] \in {"PENDING", "UPLOADING"}
     /\ Moves(o, {"PENDING", "UPLOADING"}, "DELETING") /\ Begin(Sweeper, "erase", o)
  \/ state[o] = "VERIFYING" /\ state' = state /\ Begin(Sweeper, "head", o)
  \/ state[o] = "DELETING" /\ state' = state /\ Begin(Sweeper, "erase", o)
Reconcile(o) == Sweep(o) /\ UNCHANGED <<hold, bytes, revoked, faults>>

\* A reservation that was just renewed expires if its process stalls.
Expire(o) ==
  /\ hold[o] = "ACTIVE" /\ hold' = [hold EXCEPT ![o] = "EXPIRED"]
  /\ IF \E p \in Procs : at[p] = [step |-> "recommit", obj |-> o]
     THEN faults < MaxFaults /\ faults' = faults + 1
     ELSE faults' = faults
  /\ UNCHANGED <<state, bytes, revoked, at>>

Revoke(o) ==
  /\ state[o] # "absent" /\ o \notin revoked /\ revoked' = revoked \union {o}
  /\ faults < MaxFaults /\ faults' = faults + 1
  /\ UNCHANGED <<state, hold, bytes, at>>

\* A process dies, or a call of it to the database or the provider fails.
\* While an upload is prepared or written, a failure is cleaned up.
Fault(p) ==
  /\ at[p] # Idle /\ faults < MaxFaults /\ faults' = faults + 1
  /\ \/ Return(p)
     \/ at[p].step \in {"open", "confirm", "put"} /\ Then(p, "undo")
     \/ Calls(p, "undo") /\ Then(p, "drop")
  /\ UNCHANGED <<state, hold, bytes, revoked>>

-----------------------------------------------------------------------------
Step(p) ==
  \/ Reserve(p) \/ Refuse(p) \/ Open(p) \/ Confirm(p) \/ Undo(p) \/ Drop(p) \/ Put(p)
  \/ Head(p) \/ Mark(p) \/ Check(p) \/ Reject(p) \/ Commit(p) \/ Again(p) \/ Recommit(p)
  \/ Full(p) \/ Ready(p) \/ Erase(p) \/ Deleted(p) \/ Release(p) \/ Free(p)

Next ==
  \/ \E p \in Procs : Step(p) \/ Fault(p)
  \/ \E p \in Procs, o \in Objects : Initiate(p, o) \/ Complete(p, o) \/ Delete(p, o)
  \/ \E o \in Objects : ClientPut(o) \/ Reconcile(o) \/ Expire(o) \/ Revoke(o)

Spec == Init /\ [][Next]_vars

\* A pass of the reconciliation takes every object that is due.
FairSpec ==
  /\ Spec
  /\ \A p \in Procs : WF_vars(Step(p))
  /\ \A o \in Objects : SF_vars(Reconcile(o))

-----------------------------------------------------------------------------
States == {"absent", "PENDING", "UPLOADING", "VERIFYING", "READY", "FAILED",
           "QUARANTINED", "CORRUPT", "DELETING", "DELETED"}
Steps == {"idle", "reserve", "refuse", "open", "confirm", "undo", "drop", "put", "head",
          "mark", "check", "quarantine", "corrupt", "commit", "again", "recommit", "full",
          "ready", "erase", "delete", "release", "free"}

TypeOK ==
  /\ state \in [Objects -> States]
  /\ hold \in [Objects -> {"none", "ACTIVE", "COMMITTED", "RELEASED", "EXPIRED", "FREED"}]
  /\ bytes \in [Objects -> {"none", "good", "bad"}] /\ revoked \subseteq Objects
  /\ at \in [Procs -> [step : Steps, obj : Objects]]
  /\ faults \in 0..MaxFaults

\* An object that can be read is paid for and there, however many verified it,
\* whatever expired or was deleted meanwhile (storageService.ts:264, 278).
ReadyIsBacked ==
  \A o \in Objects : state[o] = "READY" => hold[o] = "COMMITTED" /\ bytes[o] # "none"

\* What is reserved and committed never exceeds the quota, also when a
\* reservation that was lost is taken again (storageService.ts:266).
QuotaKept == TypeOK /\ Used <= Quota

\* An upload or a deletion that was left by its process comes to an end, unless
\* its project went to another owner (storageService.ts:556, 579-596).
ObjectSettles ==
  \A o \in Objects :
    state[o] \in Unverified \union {"DELETING"}
      ~> state[o] \notin Unverified \union {"DELETING"} \/ o \in revoked
=============================================================================
