-------------------------- MODULE DriveStorageProofs --------------------------
(***************************************************************************)
(* For any finite set of objects, any clients and any quota: the tenant    *)
(* never holds more than its quota, and an object that can be read is paid *)
(* for and there.                                                          *)
(*                                                                         *)
(* A process remembers only the step it makes next and its object; any     *)
(* number of others may work on the object meanwhile.  What makes the step *)
(* sound is a fact about the object that no other process can take away:   *)
(* an object on its way to be deleted never comes back, so its bytes and   *)
(* its reservation may go, and of any other object both stay.              *)
(***************************************************************************)
EXTENDS DriveStorage, FiniteSetTheorems, TLAPS

Gone(o) == state[o] = "DELETED"
Doomed(o) == state[o] \in {"DELETING", "DELETED"}
Written(o) == Doomed(o) \/ bytes[o] # "none"
Paid(o) == Gone(o) \/ hold[o] = "COMMITTED"

Verification == {"mark", "check", "quarantine", "corrupt", "commit", "again", "recommit",
                 "full", "ready"}

\* What a process may rely on at its step.
Sound(p) ==
  /\ at[p].step \in {"release", "free"} => Gone(Obj(p))
  /\ at[p].step \in {"erase", "delete"} => Doomed(Obj(p))
  /\ at[p].step \in Verification => Written(Obj(p))
  /\ at[p].step = "ready" => Paid(Obj(p))

IInv == QuotaKept /\ ReadyIsBacked /\ \A p \in Procs : Sound(p)

\* A step takes none of these facts away from any object.
Keeps ==
  \A o \in Objects :
    /\ Gone(o) => Gone(o)'
    /\ Doomed(o) => Doomed(o)'
    /\ Written(o) => Written(o)'
    /\ Paid(o) => Paid(o)'

HeldObjects == {o \in Objects : Held(o)}

-----------------------------------------------------------------------------
(* The quota. *)

LEMMA HeldFinite == IsFiniteSet(HeldObjects) /\ Used \in Nat /\ Used = Cardinality(HeldObjects)
<1>1. IsFiniteSet(HeldObjects)
  BY DriveAssumption, FS_Subset DEF HeldObjects
<1> QED BY <1>1, FS_CardinalityType DEF Used, HeldObjects

\* Fewer reservations are within the quota too.
LEMMA FewerFit ==
  ASSUME Used <= Quota, HeldObjects' \subseteq HeldObjects
  PROVE  (Used <= Quota)'
<1>1. Used' = Cardinality(HeldObjects')
  BY DEF Used, HeldObjects
<1>2. Cardinality(HeldObjects') <= Cardinality(HeldObjects) /\ Cardinality(HeldObjects') \in Nat
  BY HeldFinite, FS_Subset, FS_CardinalityType
<1> QED BY <1>1, <1>2, HeldFinite, DriveAssumption

\* A reservation is made where there is room.
LEMMA RoomFits ==
  ASSUME TypeOK, Used <= Quota, NEW o \in Objects, HasRoom(o), hold' = Reserved(o)
  PROVE  (Used <= Quota)'
<1>1. CASE Held(o)
  <2>1. HeldObjects' = HeldObjects
    BY <1>1 DEF HeldObjects, Held, Reserved
  <2> QED BY <2>1, FewerFit
<1>2. CASE ~Held(o)
  <2>1. HeldObjects' = HeldObjects \union {o} /\ o \notin HeldObjects
    BY <1>2 DEF HeldObjects, Held, Reserved, TypeOK
  <2>2. Cardinality(HeldObjects') = Cardinality(HeldObjects) + 1
    BY <2>1, HeldFinite, FS_AddElement
  <2>3. Used' = Cardinality(HeldObjects') /\ Used < Quota
    BY <1>2 DEF Used, HeldObjects, HasRoom
  <2> QED BY <2>2, <2>3, HeldFinite, DriveAssumption
<1> QED BY <1>1, <1>2

-----------------------------------------------------------------------------
(* Steps. *)

\* Only this process goes on.
Only(p) ==
  /\ at' \in [Procs -> [step : Steps, obj : Objects]]
  /\ \A q \in Procs : q # p => at'[q] = at[q]

\* A step of one process that takes nothing away and makes no object readable.
LEMMA StepInv ==
  ASSUME IInv, TypeOK', (Used <= Quota)', Keeps, NEW p \in Procs, Only(p),
         Sound(p)', \A o \in Objects : state'[o] = "READY" => state[o] = "READY" \/ (Paid(o)' /\ Written(o)')
  PROVE  IInv'
<1>1. ASSUME NEW q \in Procs, q # p PROVE Sound(q)'
  <2>1. at'[q] = at[q] /\ Obj(q)' = Obj(q) /\ Obj(q) \in Objects /\ Sound(q)
    BY <1>1 DEF Only, Obj, IInv, QuotaKept, TypeOK
  <2> QED BY <2>1 DEF Sound, Keeps
<1>2. ReadyIsBacked'
  <2> SUFFICES ASSUME NEW o \in Objects, state'[o] = "READY"
               PROVE  hold'[o] = "COMMITTED" /\ bytes'[o] # "none"
    BY DEF ReadyIsBacked
  <2>1. Paid(o)' /\ Written(o)'
    BY DEF Keeps, Paid, Written, IInv, ReadyIsBacked
  <2> QED BY <2>1 DEF Paid, Written, Gone, Doomed
<1> QED BY <1>1, <1>2 DEF IInv, QuotaKept

\* A step that leaves the processes where they are.
LEMMA WorldInv ==
  ASSUME IInv, TypeOK', (Used <= Quota)', Keeps, UNCHANGED at,
         \A o \in Objects : state'[o] = "READY" => state[o] = "READY"
  PROVE  IInv'
<1>1. ASSUME NEW q \in Procs PROVE Sound(q)'
  <2>1. Obj(q)' = Obj(q) /\ Obj(q) \in Objects /\ Sound(q)
    BY DEF Obj, IInv, QuotaKept, TypeOK
  <2> QED BY <2>1 DEF Sound, Keeps
<1>2. ReadyIsBacked'
  BY DEF Keeps, Paid, Written, Gone, Doomed, IInv, ReadyIsBacked
<1> QED BY <1>1, <1>2 DEF IInv, QuotaKept

LEMMA IdleType == Idle \in [step : Steps, obj : Objects] /\ Idle.step = "idle"
BY DriveAssumption DEF Idle, Steps

\* Where a step of a process leads.
LEMMA Moved ==
  ASSUME TypeOK, NEW p \in Procs
  PROVE  /\ Obj(p) \in Objects
         /\ \A s \in Steps : Then(p, s) =>
              Only(p) /\ at'[p].step = s /\ Obj(p)' = Obj(p)
         /\ Return(p) =>
              Only(p) /\ at'[p].step = "idle"
         /\ \A s \in Steps, o \in Objects : Begin(p, s, o) =>
              Only(p) /\ at'[p].step = s /\ Obj(p)' = o
<1>1. Obj(p) \in Objects
  BY DEF TypeOK, Obj
<1>2. ASSUME NEW s \in Steps, Then(p, s)
      PROVE  Only(p) /\ at'[p].step = s /\ Obj(p)' = Obj(p)
  BY <1>2 DEF Only, Then, TypeOK, Obj
<1>3. ASSUME Return(p)
      PROVE  Only(p) /\ at'[p].step = "idle"
  BY <1>3, IdleType DEF Only, Return, TypeOK
<1>4. ASSUME NEW s \in Steps, NEW o \in Objects, Begin(p, s, o)
      PROVE  Only(p) /\ at'[p].step = s /\ Obj(p)' = o
  BY <1>4 DEF Only, Begin, TypeOK, Obj
<1> QED BY <1>1, <1>2, <1>3, <1>4

\* A state changes as the transitions of an object allow.
LEMMA MovesKeep ==
  ASSUME TypeOK, NEW o \in Objects, NEW from, NEW to \in States, Moves(o, from, to),
         UNCHANGED <<hold, bytes>>,
         "DELETED" \notin from, "DELETING" \in from => to \in {"DELETING", "DELETED"}
  PROVE  /\ Keeps /\ state' \in [Objects -> States]
         /\ \A x \in Objects : state'[x] = "READY" => state[x] = "READY" \/ (to = "READY" /\ x = o)
         /\ state[o] \in from => state'[o] = to
<1>1. \A x \in Objects : x # o \/ state[o] \notin from => state'[x] = state[x]
  BY DEF Moves, TypeOK
<1>2. state[o] \in from => state'[o] = to
  BY DEF Moves, TypeOK
<1>3. state' \in [Objects -> States]
  BY DEF Moves, TypeOK
<1>4. ASSUME NEW x \in Objects
      PROVE  /\ Gone(x) => Gone(x)'
             /\ Doomed(x) => Doomed(x)'
             /\ Written(x) => Written(x)'
             /\ Paid(x) => Paid(x)'
  BY <1>1, <1>2 DEF Gone, Doomed, Written, Paid
<1>5. \A x \in Objects : state'[x] = "READY" => state[x] = "READY" \/ (to = "READY" /\ x = o)
  BY <1>1, <1>2
<1> QED BY <1>2, <1>3, <1>4, <1>5 DEF Keeps

\* A process that goes on without touching its object.
LEMMA GoesOn ==
  ASSUME IInv, UNCHANGED <<state, hold, bytes, revoked>>, faults' \in 0..MaxFaults, NEW p \in Procs,
         Only(p), Sound(p)'
  PROVE  IInv'
<1>1. TypeOK'
  BY DEF Only, IInv, QuotaKept, TypeOK
<1>2. Keeps
  BY DEF Keeps, Gone, Doomed, Written, Paid
<1>3. HeldObjects' = HeldObjects
  BY DEF HeldObjects, Held
<1>4. (Used <= Quota)'
  BY <1>3, FewerFit DEF IInv, QuotaKept
<1> QED BY <1>1, <1>2, <1>4, StepInv

\* A process that changes the state of its object.
LEMMA MovesInv ==
  ASSUME IInv, UNCHANGED <<hold, bytes, revoked, faults>>,
         NEW o \in Objects, NEW from, NEW to \in States, Moves(o, from, to),
         "DELETED" \notin from, "DELETING" \in from => to \in {"DELETING", "DELETED"},
         to = "READY" => Paid(o) /\ Written(o) /\ state[o] \notin {"DELETING", "DELETED"},
         NEW p \in Procs, Only(p), Sound(p)'
  PROVE  IInv'
<1>1. TypeOK
  BY DEF IInv, QuotaKept
<1>2. /\ Keeps /\ state' \in [Objects -> States]
      /\ \A x \in Objects : state'[x] = "READY" => state[x] = "READY" \/ (to = "READY" /\ x = o)
  BY <1>1, MovesKeep
<1>3. TypeOK'
  BY <1>1, <1>2 DEF Only, TypeOK
<1>4. HeldObjects' = HeldObjects
  BY DEF HeldObjects, Held
<1>5. (Used <= Quota)'
  BY <1>4, FewerFit DEF IInv, QuotaKept
<1>6. \A x \in Objects : state'[x] = "READY" => state[x] = "READY" \/ (Paid(x)' /\ Written(x)')
  BY <1>2 DEF Keeps
<1> QED BY <1>2, <1>3, <1>5, <1>6, StepInv

\* A process that changes the reservation of its object.
LEMMA HoldInv ==
  ASSUME IInv, UNCHANGED <<state, bytes, revoked, faults>>, (Used <= Quota)', NEW o \in Objects,
         NEW h \in {"ACTIVE", "COMMITTED", "RELEASED", "EXPIRED", "FREED"},
         hold' \in {hold, [hold EXCEPT ![o] = h]}, hold'[o] = "COMMITTED" \/ hold[o] # "COMMITTED" \/ Gone(o),
         NEW p \in Procs, Only(p), Sound(p)'
  PROVE  IInv'
<1>1. TypeOK'
  BY DEF Only, IInv, QuotaKept, TypeOK
<1>2. \A x \in Objects : Paid(x) => Paid(x)'
  BY DEF Paid, Gone, IInv, QuotaKept, TypeOK
<1>3. Keeps
  BY <1>2 DEF Keeps, Gone, Doomed, Written
<1> QED BY <1>1, <1>3, StepInv

-----------------------------------------------------------------------------
(* An upload. *)

LEMMA InitiateInv ==
  ASSUME IInv, NEW p \in Procs, NEW o \in Objects, Initiate(p, o)
  PROVE  IInv'
<1>1. Only(p) /\ at'[p].step = "reserve" /\ Obj(p)' = o
  BY Moved DEF Initiate, IInv, QuotaKept, Steps
<1>2. Moves(o, {"absent"}, "PENDING")
  BY DEF Initiate, Moves
<1>3. Sound(p)'
  BY <1>1 DEF Sound, Verification
<1>4. UNCHANGED <<hold, bytes, revoked, faults>> /\ "PENDING" \in States
  BY DEF Initiate, States
<1> QED BY <1>1, <1>2, <1>3, <1>4, MovesInv

LEMMA ReserveInv ==
  ASSUME IInv, NEW p \in Procs, Reserve(p)
  PROVE  IInv'
<1>1. TypeOK /\ Used <= Quota /\ Obj(p) \in Objects
  BY Moved DEF IInv, QuotaKept
<1>2. Only(p) /\ at'[p].step \in {"open", "refuse"}
  BY <1>1, Moved DEF Reserve, Steps
<1>3. Sound(p)'
  BY <1>2 DEF Sound, Verification
<1>4. (Used <= Quota)' /\ hold' \in {hold, [hold EXCEPT ![Obj(p)] = "ACTIVE"]}
  <2>1. CASE HasRoom(Obj(p))
    BY <1>1, <2>1, RoomFits DEF Reserve, Reserved
  <2>2. CASE ~HasRoom(Obj(p))
    <3>1. hold' = hold
      BY <2>2 DEF Reserve
    <3>2. HeldObjects' = HeldObjects
      BY <3>1 DEF HeldObjects, Held
    <3> QED BY <1>1, <3>1, <3>2, FewerFit
  <2> QED BY <2>1, <2>2
<1>5. hold'[Obj(p)] = "COMMITTED" \/ hold[Obj(p)] # "COMMITTED"
  BY <1>1 DEF Reserve, Reserved, Held
<1>6. UNCHANGED <<state, bytes, revoked, faults>>
  BY DEF Reserve
<1> QED BY <1>1, <1>2, <1>3, <1>4, <1>5, <1>6, HoldInv

\* The steps that only change the state of an object still to be verified.
LEMMA PrepareInv ==
  ASSUME IInv, NEW p \in Procs, Refuse(p) \/ Open(p) \/ Confirm(p) \/ Undo(p)
  PROVE  IInv'
<1>1. TypeOK /\ Obj(p) \in Objects
  BY Moved DEF IInv, QuotaKept
<1>2. Only(p) /\ at'[p].step \in {"idle", "undo", "confirm", "put", "drop"}
  BY <1>1, Moved DEF Refuse, Open, Confirm, Undo, Steps
<1>3. Sound(p)'
  BY <1>2 DEF Sound, Verification
<1>4. \E from \in SUBSET {"PENDING", "UPLOADING"}, to \in {"UPLOADING", "FAILED"} : Moves(Obj(p), from, to)
  <2>1. Refuse(p) => Moves(Obj(p), {"PENDING"}, "FAILED")
    BY DEF Refuse
  <2>2. Open(p) => Moves(Obj(p), {}, "UPLOADING") \/ Moves(Obj(p), {"PENDING"}, "UPLOADING")
    BY DEF Open, Moves
  <2>3. Confirm(p) => Moves(Obj(p), {}, "UPLOADING")
    BY DEF Confirm, Moves
  <2>4. Undo(p) => Moves(Obj(p), {"PENDING", "UPLOADING"}, "FAILED")
    BY DEF Undo
  <2> QED BY <2>1, <2>2, <2>3, <2>4
<1>5. UNCHANGED <<hold, bytes, revoked, faults>> /\ {"UPLOADING", "FAILED"} \subseteq States
  BY DEF Refuse, Open, Confirm, Undo, States
<1> QED BY <1>1, <1>2, <1>3, <1>4, <1>5, MovesInv

LEMMA DropInv ==
  ASSUME IInv, NEW p \in Procs, Drop(p)
  PROVE  IInv'
<1>1. TypeOK /\ Used <= Quota /\ Obj(p) \in Objects
  BY Moved DEF IInv, QuotaKept
<1>2. Only(p) /\ at'[p].step = "idle"
  BY <1>1, Moved DEF Drop
<1>3. Sound(p)'
  BY <1>2 DEF Sound, Verification
<1>4. (Used <= Quota)' /\ hold' \in {hold, [hold EXCEPT ![Obj(p)] = "RELEASED"]}
  <2>1. HeldObjects' \subseteq HeldObjects
    BY <1>1 DEF HeldObjects, Held, Drop, Released, TypeOK
  <2> QED BY <1>1, <2>1, FewerFit DEF Drop, Released
<1>5. hold'[Obj(p)] = "COMMITTED" \/ hold[Obj(p)] # "COMMITTED"
  BY <1>1 DEF Drop, Released
<1>6. UNCHANGED <<state, bytes, revoked, faults>>
  BY DEF Drop
<1> QED BY <1>1, <1>2, <1>3, <1>4, <1>5, <1>6, HoldInv

LEMMA PutInv ==
  ASSUME IInv, NEW p \in Procs, Put(p)
  PROVE  IInv'
<1>1. TypeOK /\ Obj(p) \in Objects
  BY Moved DEF IInv, QuotaKept
<1>2. Only(p) /\ at'[p].step = "head"
  BY <1>1, Moved DEF Put, Steps
<1>3. Sound(p)'
  BY <1>2 DEF Sound, Verification
<1>4. bytes' = [bytes EXCEPT ![Obj(p)] = "good"] /\ UNCHANGED <<state, hold, revoked, faults>>
  BY DEF Put
<1>5. TypeOK'
  BY <1>1, <1>2, <1>4 DEF TypeOK, Only
<1>6. Keeps
  BY <1>1, <1>4 DEF Keeps, Gone, Doomed, Written, Paid, TypeOK
<1>7. HeldObjects' = HeldObjects
  BY <1>4 DEF HeldObjects, Held
<1>8. (Used <= Quota)'
  BY <1>7, FewerFit DEF IInv, QuotaKept
<1> QED BY <1>2, <1>3, <1>4, <1>5, <1>6, <1>8, StepInv

LEMMA ClientPutInv ==
  ASSUME IInv, NEW o \in Objects, ClientPut(o)
  PROVE  IInv'
<1>1. TypeOK /\ UNCHANGED <<state, hold, revoked, at, faults>>
  BY DEF IInv, QuotaKept, ClientPut
<1>2. PICK content \in {"good", "bad"} : bytes' = [bytes EXCEPT ![o] = content]
  BY DEF ClientPut
<1>3. TypeOK'
  BY <1>1, <1>2 DEF TypeOK
<1>4. Keeps
  BY <1>1, <1>2 DEF Keeps, Gone, Doomed, Written, Paid, TypeOK
<1>5. HeldObjects' = HeldObjects
  BY <1>1 DEF HeldObjects, Held
<1>6. (Used <= Quota)'
  BY <1>5, FewerFit DEF IInv, QuotaKept
<1> QED BY <1>1, <1>3, <1>4, <1>6, WorldInv

-----------------------------------------------------------------------------
(* The verification. *)

LEMMA CompleteInv ==
  ASSUME IInv, NEW p \in Procs, NEW o \in Objects, Complete(p, o)
  PROVE  IInv'
<1>1. Only(p) /\ at'[p].step = "head"
  BY Moved DEF Complete, IInv, QuotaKept, Steps
<1>2. Sound(p)'
  BY <1>1 DEF Sound, Verification
<1>3. UNCHANGED <<state, hold, bytes, revoked>> /\ faults' \in 0..MaxFaults
  BY DEF Complete, IInv, QuotaKept, TypeOK
<1> QED BY <1>1, <1>2, <1>3, GoesOn

\* What was found to be there stays, or the object is on its way out.
LEMMA ReadBackInv ==
  ASSUME IInv, NEW p \in Procs, Head(p) \/ Check(p)
  PROVE  IInv'
<1>1. TypeOK /\ Obj(p) \in Objects /\ Sound(p)
  BY Moved DEF IInv, QuotaKept
<1>2. Only(p) /\ (at'[p].step = "idle" \/ Obj(p)' = Obj(p))
      /\ at'[p].step \in {"idle", "mark", "quarantine", "corrupt", "commit"}
  BY <1>1, Moved DEF Head, Check, Steps
<1>3. Written(Obj(p)) \/ at'[p].step = "idle"
  BY <1>1, <1>2, Moved DEF Head, Check, Sound, Written, Calls, Verification
<1>4. UNCHANGED <<state, hold, bytes, revoked>> /\ faults' \in 0..MaxFaults
  BY DEF Head, Check, IInv, QuotaKept, TypeOK
<1>5. Sound(p)'
  BY <1>2, <1>3, <1>4 DEF Sound, Written, Doomed, Verification
<1> QED BY <1>2, <1>4, <1>5, GoesOn

LEMMA MarkInv ==
  ASSUME IInv, NEW p \in Procs, Mark(p)
  PROVE  IInv'
<1>1. TypeOK /\ Obj(p) \in Objects /\ Sound(p)
  BY Moved DEF IInv, QuotaKept
<1>2. Only(p) /\ (at'[p].step = "idle" \/ (at'[p].step = "check" /\ Obj(p)' = Obj(p)))
  BY <1>1, Moved DEF Mark, Steps
<1>3. Moves(Obj(p), Unverified, "VERIFYING") /\ Written(Obj(p))
  BY <1>1 DEF Mark, Sound, Calls, Verification
<1>4. UNCHANGED <<hold, bytes, revoked, faults>> /\ "VERIFYING" \in States
  BY DEF Mark, States
<1>5. "DELETED" \notin Unverified /\ "DELETING" \notin Unverified
  BY DEF Unverified
<1>6. Keeps
  BY <1>1, <1>3, <1>4, <1>5, MovesKeep
<1>7. Sound(p)'
  BY <1>1, <1>2, <1>3, <1>6 DEF Keeps, Sound, Verification
<1> QED BY <1>1, <1>2, <1>3, <1>4, <1>5, <1>7, MovesInv

LEMMA RejectInv ==
  ASSUME IInv, NEW p \in Procs, Reject(p) \/ Full(p)
  PROVE  IInv'
<1>1. TypeOK /\ Obj(p) \in Objects
  BY Moved DEF IInv, QuotaKept
<1>2. Only(p) /\ at'[p].step \in {"drop", "idle"}
  BY <1>1, Moved DEF Reject, Full, Steps
<1>3. Sound(p)'
  BY <1>2 DEF Sound, Verification
<1>4. \E to \in {"QUARANTINED", "CORRUPT", "FAILED"} : Moves(Obj(p), {"VERIFYING"}, to)
  BY DEF Reject, Full
<1>5. UNCHANGED <<hold, bytes, revoked, faults>> /\ {"QUARANTINED", "CORRUPT", "FAILED"} \subseteq States
  BY DEF Reject, Full, States
<1> QED BY <1>1, <1>2, <1>3, <1>4, <1>5, MovesInv

\* What is committed is what was held; only that goes on to be made readable.
LEMMA CommitInv ==
  ASSUME IInv, NEW p \in Procs, Commit(p) \/ Recommit(p)
  PROVE  IInv'
<1>1. TypeOK /\ Used <= Quota /\ Obj(p) \in Objects /\ Sound(p)
  BY Moved DEF IInv, QuotaKept
<1>2. /\ Only(p)
      /\ \/ Held(Obj(p)) /\ at'[p].step = "ready" /\ Obj(p)' = Obj(p)
         \/ ~Held(Obj(p)) /\ at'[p].step = "again" /\ Obj(p)' = Obj(p)
         \/ at'[p].step = "idle"
  BY <1>1, Moved DEF Commit, Recommit, Steps
<1>3. Written(Obj(p)) /\ hold' = Committed(Obj(p))
  BY <1>1 DEF Sound, Commit, Recommit, Calls, Verification
<1>4. UNCHANGED <<state, bytes, revoked, faults>>
  BY DEF Commit, Recommit
<1>5. Held(Obj(p)) => hold'[Obj(p)] = "COMMITTED"
  BY <1>1, <1>3 DEF Held, Committed, TypeOK
<1>6. Sound(p)'
  BY <1>2, <1>3, <1>4, <1>5 DEF Sound, Paid, Written, Doomed, Verification
<1>7. hold'[Obj(p)] = "COMMITTED" \/ hold[Obj(p)] # "COMMITTED"
  BY <1>5 DEF Held
<1>8. hold' \in {hold, [hold EXCEPT ![Obj(p)] = "COMMITTED"]}
  BY <1>3 DEF Committed
<1>9. (Used <= Quota)'
  <2>1. HeldObjects' \subseteq HeldObjects
    BY <1>1, <1>3 DEF HeldObjects, Held, Committed, TypeOK
  <2> QED BY <1>1, <2>1, FewerFit
<1> QED BY <1>1, <1>2, <1>4, <1>6, <1>7, <1>8, <1>9, HoldInv

LEMMA AgainInv ==
  ASSUME IInv, NEW p \in Procs, Again(p)
  PROVE  IInv'
<1>1. TypeOK /\ Used <= Quota /\ Obj(p) \in Objects /\ Sound(p)
  BY Moved DEF IInv, QuotaKept
<1>2. Only(p) /\ Obj(p)' = Obj(p) /\ at'[p].step \in {"recommit", "full"}
  BY <1>1, Moved DEF Again, Steps
<1>3. Written(Obj(p)) /\ UNCHANGED <<state, bytes, revoked, faults>>
  BY <1>1 DEF Again, Sound, Calls, Verification
<1>4. Sound(p)'
  BY <1>2, <1>3 DEF Sound, Written, Doomed, Verification
<1>5. (Used <= Quota)' /\ hold' \in {hold, [hold EXCEPT ![Obj(p)] = "ACTIVE"]}
  <2>1. CASE HasRoom(Obj(p))
    BY <1>1, <2>1, RoomFits DEF Again, Reserved
  <2>2. CASE ~HasRoom(Obj(p))
    <3>1. hold' = hold
      BY <2>2 DEF Again
    <3>2. HeldObjects' = HeldObjects
      BY <3>1 DEF HeldObjects, Held
    <3> QED BY <1>1, <3>1, <3>2, FewerFit
  <2> QED BY <2>1, <2>2
<1>6. hold'[Obj(p)] = "COMMITTED" \/ hold[Obj(p)] # "COMMITTED"
  BY <1>1 DEF Again, Reserved, Held
<1> QED BY <1>1, <1>2, <1>3, <1>4, <1>5, <1>6, HoldInv

LEMMA ReadyInv ==
  ASSUME IInv, NEW p \in Procs, Ready(p)
  PROVE  IInv'
<1>1. TypeOK /\ Obj(p) \in Objects /\ Sound(p)
  BY Moved DEF IInv, QuotaKept
<1>2. Only(p) /\ at'[p].step = "idle"
  BY <1>1, Moved DEF Ready
<1>3. Sound(p)'
  BY <1>2 DEF Sound, Verification
<1>4. Paid(Obj(p)) /\ Written(Obj(p)) /\ UNCHANGED <<hold, bytes, revoked, faults>>
  BY <1>1 DEF Ready, Sound, Calls, Verification
<1>5. CASE state[Obj(p)] = "VERIFYING"
  <2>1. Moves(Obj(p), {"VERIFYING"}, "READY") /\ "READY" \in States
    BY DEF Ready, States
  <2> QED BY <1>1, <1>2, <1>3, <1>4, <1>5, <2>1, MovesInv
<1>6. CASE state[Obj(p)] # "VERIFYING"
  <2>1. state' = state /\ faults' \in 0..MaxFaults
    BY <1>1, <1>6 DEF Ready, Moves, TypeOK
  <2> QED BY <1>2, <1>3, <1>4, <2>1, GoesOn
<1> QED BY <1>5, <1>6

-----------------------------------------------------------------------------
(* A deletion. *)

\* Whoever starts one finds the object deleted or leaves it so.
LEMMA EraseBegins ==
  ASSUME IInv, NEW p \in Procs, NEW o \in Objects, NEW from \in SUBSET (States \ {"DELETED"}),
         state[o] \in from, Moves(o, from, "DELETING"), Begin(p, "erase", o),
         UNCHANGED <<hold, bytes, revoked, faults>>
  PROVE  IInv'
<1>1. Only(p) /\ at'[p].step = "erase" /\ Obj(p)' = o /\ TypeOK
  BY Moved DEF IInv, QuotaKept, Steps
<1>2. "DELETING" \in States /\ "DELETED" \notin from
  BY DEF States
<1>3. state'[o] = "DELETING"
  BY <1>1, <1>2, MovesKeep
<1>4. Sound(p)'
  BY <1>1, <1>3 DEF Sound, Doomed, Verification
<1> QED BY <1>1, <1>2, <1>4, MovesInv

LEMMA DeleteInv ==
  ASSUME IInv, NEW p \in Procs, NEW o \in Objects, Delete(p, o)
  PROVE  IInv'
<1>1. Deletable \in SUBSET (States \ {"DELETED"})
  BY DEF Deletable, States
<1> QED BY <1>1, EraseBegins DEF Delete

LEMMA EraseInv ==
  ASSUME IInv, NEW p \in Procs, Erase(p)
  PROVE  IInv'
<1>1. TypeOK /\ Obj(p) \in Objects /\ Sound(p)
  BY Moved DEF IInv, QuotaKept
<1>2. Only(p) /\ at'[p].step = "delete" /\ Obj(p)' = Obj(p)
  BY <1>1, Moved DEF Erase, Steps
<1>3. Doomed(Obj(p)) /\ bytes' = [bytes EXCEPT ![Obj(p)] = "none"]
      /\ UNCHANGED <<state, hold, revoked, faults>>
  BY <1>1 DEF Erase, Sound, Calls
<1>4. TypeOK'
  BY <1>1, <1>2, <1>3 DEF TypeOK, Only
<1>5. Keeps
  BY <1>1, <1>3 DEF Keeps, Gone, Doomed, Written, Paid, TypeOK
<1>6. HeldObjects' = HeldObjects
  BY <1>3 DEF HeldObjects, Held
<1>7. (Used <= Quota)'
  BY <1>6, FewerFit DEF IInv, QuotaKept
<1>8. Sound(p)'
  BY <1>2, <1>3 DEF Sound, Doomed, Verification
<1> QED BY <1>2, <1>3, <1>4, <1>5, <1>7, <1>8, StepInv

LEMMA DeletedInv ==
  ASSUME IInv, NEW p \in Procs, Deleted(p)
  PROVE  IInv'
<1>1. TypeOK /\ Obj(p) \in Objects
  BY Moved DEF IInv, QuotaKept
<1>2. Only(p) /\ (at'[p].step = "idle" \/
        (state[Obj(p)] = "DELETING" /\ at'[p].step = "release" /\ Obj(p)' = Obj(p)))
  BY <1>1, Moved DEF Deleted, Steps
<1>3. Moves(Obj(p), {"DELETING"}, "DELETED") /\ UNCHANGED <<hold, bytes, revoked, faults>>
      /\ "DELETED" \in States
  BY DEF Deleted, States
<1>4. state[Obj(p)] = "DELETING" => state'[Obj(p)] = "DELETED"
  BY <1>1, <1>3, MovesKeep
<1>5. Sound(p)'
  BY <1>2, <1>4 DEF Sound, Gone, Verification
<1> QED BY <1>1, <1>2, <1>3, <1>5, MovesInv

\* The reservation of an object that is gone is given back.
LEMMA GivesBackInv ==
  ASSUME IInv, NEW p \in Procs, Release(p) \/ Free(p)
  PROVE  IInv'
<1>1. TypeOK /\ Used <= Quota /\ Obj(p) \in Objects /\ Sound(p)
  BY Moved DEF IInv, QuotaKept
<1>2. Only(p) /\ (at'[p].step = "idle" \/ (at'[p].step = "free" /\ Obj(p)' = Obj(p)))
  BY <1>1, Moved DEF Release, Free, Steps
<1>3. Gone(Obj(p)) /\ UNCHANGED <<state, bytes, revoked, faults>>
  BY <1>1 DEF Release, Free, Sound, Calls
<1>4. Sound(p)'
  BY <1>2, <1>3 DEF Sound, Gone, Verification
<1>5. \E h \in {"RELEASED", "FREED"} : hold' \in {hold, [hold EXCEPT ![Obj(p)] = h]}
  BY DEF Release, Released, Free
<1>6. (Used <= Quota)'
  <2>1. HeldObjects' \subseteq HeldObjects
    BY <1>1, <1>5 DEF HeldObjects, Held, TypeOK
  <2> QED BY <1>1, <2>1, FewerFit
<1> QED BY <1>1, <1>2, <1>3, <1>4, <1>5, <1>6, HoldInv

-----------------------------------------------------------------------------
(* The reconciliation, the clock, the owner and the faults. *)

LEMMA ReconcileInv ==
  ASSUME IInv, NEW o \in Objects, Reconcile(o)
  PROVE  IInv'
<1>0. Sweeper \in Procs /\ UNCHANGED <<hold, bytes, revoked, faults>>
  BY DEF Procs, Reconcile
<1>1. CASE /\ state[o] \in {"PENDING", "UPLOADING"} /\ Begin(Sweeper, "erase", o)
           /\ Moves(o, {"PENDING", "UPLOADING"}, "DELETING")
  <2>1. {"PENDING", "UPLOADING"} \in SUBSET (States \ {"DELETED"})
    BY DEF States
  <2> QED BY <1>0, <1>1, <2>1, EraseBegins
<1>2. CASE state' = state /\ Begin(Sweeper, "head", o)
  <2>1. Only(Sweeper) /\ at'[Sweeper].step = "head"
    BY <1>0, <1>2, Moved DEF IInv, QuotaKept, Steps
  <2>2. Sound(Sweeper)' /\ faults' \in 0..MaxFaults
    BY <1>0, <2>1 DEF Sound, Verification, IInv, QuotaKept, TypeOK
  <2> QED BY <1>0, <1>2, <2>1, <2>2, GoesOn
<1>3. CASE state[o] = "DELETING" /\ state' = state /\ Begin(Sweeper, "erase", o)
  <2>1. Moves(o, {"DELETING"}, "DELETING") /\ {"DELETING"} \in SUBSET (States \ {"DELETED"})
    BY <1>3 DEF Moves, IInv, QuotaKept, TypeOK, States
  <2> QED BY <1>0, <1>3, <2>1, EraseBegins
<1> QED BY <1>1, <1>2, <1>3 DEF Reconcile, Sweep

LEMMA ExpireInv ==
  ASSUME IInv, NEW o \in Objects, Expire(o)
  PROVE  IInv'
<1>1. TypeOK /\ hold[o] = "ACTIVE" /\ hold' = [hold EXCEPT ![o] = "EXPIRED"]
      /\ UNCHANGED <<state, bytes, revoked, at>>
  BY DEF IInv, QuotaKept, Expire
<1>2. faults' \in 0..MaxFaults
  BY <1>1, DriveAssumption DEF Expire, TypeOK
<1>3. TypeOK'
  BY <1>1, <1>2 DEF TypeOK
<1>4. \A x \in Objects : Paid(x) => Paid(x)'
  BY <1>1 DEF Paid, Gone, TypeOK
<1>5. Keeps
  BY <1>1, <1>4 DEF Keeps, Gone, Doomed, Written
<1>6. HeldObjects' \subseteq HeldObjects
  BY <1>1 DEF HeldObjects, Held, TypeOK
<1>7. (Used <= Quota)'
  BY <1>6, FewerFit DEF IInv, QuotaKept
<1> QED BY <1>1, <1>3, <1>5, <1>7, WorldInv

LEMMA RevokeInv ==
  ASSUME IInv, NEW o \in Objects, Revoke(o)
  PROVE  IInv'
<1>1. TypeOK /\ UNCHANGED <<state, hold, bytes, at>>
  BY DEF IInv, QuotaKept, Revoke
<1>2. TypeOK'
  BY <1>1, DriveAssumption DEF Revoke, TypeOK
<1>3. Keeps
  BY <1>1 DEF Keeps, Gone, Doomed, Written, Paid
<1>4. HeldObjects' = HeldObjects
  BY <1>1 DEF HeldObjects, Held
<1>5. (Used <= Quota)'
  BY <1>4, FewerFit DEF IInv, QuotaKept
<1> QED BY <1>1, <1>2, <1>3, <1>5, WorldInv

LEMMA FaultInv ==
  ASSUME IInv, NEW p \in Procs, Fault(p)
  PROVE  IInv'
<1>1. TypeOK /\ UNCHANGED <<state, hold, bytes, revoked>>
  BY DEF IInv, QuotaKept, Fault
<1>2. Only(p) /\ at'[p].step \in {"idle", "undo", "drop"}
  BY <1>1, Moved DEF Fault, Steps
<1>3. Sound(p)' /\ faults' \in 0..MaxFaults
  BY <1>1, <1>2, DriveAssumption DEF Fault, TypeOK, Sound, Verification
<1> QED BY <1>1, <1>2, <1>3, GoesOn

-----------------------------------------------------------------------------
(* The invariant and the theorems. *)

LEMMA InitInv == Init => IInv
<1> SUFFICES ASSUME Init PROVE IInv
  OBVIOUS
<1>1. TypeOK
  BY IdleType, DriveAssumption DEF Init, TypeOK, States
<1>2. HeldObjects = {}
  BY DEF Init, HeldObjects, Held
<1>3. Used <= Quota
  BY <1>2, HeldFinite, FS_EmptySet, DriveAssumption
<1>4. \A p \in Procs : Sound(p)
  BY IdleType DEF Init, Sound, Verification
<1> QED BY <1>1, <1>3, <1>4 DEF IInv, QuotaKept, ReadyIsBacked, Init

LEMMA NextInv == IInv /\ [Next]_vars => IInv'
<1> SUFFICES ASSUME IInv, [Next]_vars PROVE IInv'
  OBVIOUS
<1>1. ASSUME NEW p \in Procs, Step(p) PROVE IInv'
  BY <1>1, ReserveInv, PrepareInv, DropInv, PutInv, ReadBackInv, MarkInv, RejectInv, CommitInv,
     AgainInv, ReadyInv, EraseInv, DeletedInv, GivesBackInv DEF Step
<1>2. ASSUME NEW p \in Procs, NEW o \in Objects, Initiate(p, o) \/ Complete(p, o) \/ Delete(p, o)
      PROVE  IInv'
  BY <1>2, InitiateInv, CompleteInv, DeleteInv
<1>3. ASSUME NEW o \in Objects, ClientPut(o) \/ Reconcile(o) \/ Expire(o) \/ Revoke(o)
      PROVE  IInv'
  BY <1>3, ClientPutInv, ReconcileInv, ExpireInv, RevokeInv
<1>4. CASE UNCHANGED vars
  <2>1. TypeOK' /\ Keeps /\ UNCHANGED <<state, at>>
    BY <1>4 DEF IInv, QuotaKept, TypeOK, vars, Keeps, Gone, Doomed, Written, Paid
  <2>2. HeldObjects' = HeldObjects
    BY <1>4 DEF HeldObjects, Held, vars
  <2>3. (Used <= Quota)'
    BY <2>2, FewerFit DEF IInv, QuotaKept
  <2> QED BY <2>1, <2>3, WorldInv
<1> QED BY <1>1, <1>2, <1>3, <1>4, FaultInv DEF Next

LEMMA AlwaysInv == Spec => []IInv
BY InitInv, NextInv, PTL DEF Spec

\* What is reserved and committed for a tenant never exceeds its quota, for
\* any quota and any number of uploads under way, also where a verification
\* takes its lost reservation again (storageService.ts:266).
THEOREM QuotaIsKept == Spec => []QuotaKept
<1>1. IInv => QuotaKept
  BY DEF IInv
<1> QED BY <1>1, AlwaysInv, PTL

\* A readable object is paid for and its bytes are there, whatever was
\* verified twice, expired, deleted or left half done (storageService.ts:264, 278).
THEOREM ReadyStaysBacked == Spec => []ReadyIsBacked
<1>1. IInv => ReadyIsBacked
  BY DEF IInv
<1> QED BY <1>1, AlwaysInv, PTL
=============================================================================
