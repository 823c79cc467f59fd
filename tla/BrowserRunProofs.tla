--------------------------- MODULE BrowserRunProofs ---------------------------
(***************************************************************************)
(* For any number of executors, artifacts and attempts: a completed run    *)
(* has its evidence, its end sticks, and no browser starts after it.       *)
(*                                                                         *)
(* An executor that is about to launch the browser under the task lease    *)
(* may long have lost the execution lease.  Yet nobody ends the run then:  *)
(* whoever took that lease meanwhile turns back when it sees who holds the *)
(* task, and whoever went on before it can no longer save.                 *)
(***************************************************************************)
EXTENDS BrowserRun, TLAPS

Places == {"idle", "read", "acquire", "reread", "holder", "owned", "recover", "top", "start",
           "handler", "claim", "granted", "launch", "browsing", "check", "find", "put", "wait",
           "backoff", "rethrow", "finish", "leave", "unwind", "dead"}

\* Where an executor has not yet taken the run over, or no longer works on it.
Outside == {"idle", "read", "acquire", "reread", "holder", "leave", "dead"}

Evidence == \A a \in Artifacts : copies[a] > 0
RecordOK(t) == t.status \in {"ready", "waiting"} => t.attempts < MaxAttempts

\* The task in an executor's process, by the place it is at.
LocalOK(e) ==
  /\ RecordOK(mem[e])
  /\ pc[e] \in {"holder", "owned", "recover"} => ~Terminal(mem[e])
  /\ pc[e] = "start" => mem[e].status = "ready"
  /\ pc[e] \in {"wait", "backoff"} => mem[e].status = "waiting"
  /\ pc[e] \in {"find", "put"} => next[e] <= Count
  /\ \A a \in Artifacts : a < next[e] => copies[a] > 0
  /\ mem[e].status = "completed" => Evidence

\* Nobody ends the run of an executor that may launch the browser.
LaunchOK(e) ==
  At(e, "launch") /\ Holds(e, "task") =>
    /\ ~Terminal(row)
    /\ \A f \in Executors \ {e} : Holds(f, "execute") => pc[f] \in Outside

IInv ==
  /\ CompletedHasEvidence /\ RecordOK(row) /\ pc \in [Executors -> Places]
  /\ \A e \in Executors : LocalOK(e) /\ LaunchOK(e)

-----------------------------------------------------------------------------
(* Steps. *)

\* Only this executor goes on.
Only(e) ==
  /\ pc' \in [Executors -> Places] /\ mem' \in [Executors -> TaskRecord]
  /\ next' \in [Executors -> 1..Count + 1]
  /\ \A f \in Executors : f # e => pc'[f] = pc[f] /\ mem'[f] = mem[f] /\ next'[f] = next[f]

\* The types of what is not an executor's own.
SharedOK ==
  /\ row \in TaskRecord /\ cancel \in BOOLEAN
  /\ tasks \in 0..MaxTasks /\ named \in BOOLEAN
  /\ holder \in [Leases -> Executors \union {"nobody"}]
  /\ abort \subseteq Executors
  /\ copies \in [Artifacts -> Nat] /\ faults \in 0..MaxFaults

StoresOn == \A a \in Artifacts : copies[a] > 0 => copies'[a] > 0

\* A lease is only taken by an executor that is outside, the task lease by one
\* that does not launch yet.
TakesFairly(e) ==
  \A f \in Executors :
    /\ Holds(f, "execute")' => Holds(f, "execute") \/ (f = e /\ pc'[e] \in Outside)
    /\ Holds(f, "task")' => Holds(f, "task") \/ (f = e /\ pc'[e] # "launch")

LEMMA LocalStays ==
  ASSUME NEW f \in Executors, LocalOK(f), StoresOn, next[f] \in Nat, pc'[f] = pc[f], mem'[f] = mem[f],
         next'[f] = next[f]
  PROVE  LocalOK(f)'
BY DEF LocalOK, StoresOn, Evidence, RecordOK, Terminal

\* A step of an executor that does not come to launch the browser.
LEMMA StepInv ==
  ASSUME IInv, NEW e \in Executors, Only(e), SharedOK', StoresOn, LocalOK(e)', TakesFairly(e),
         RecordOK(row'), row'.status = "completed" => Evidence',
         row' = row \/ (Holds(e, "execute") /\ pc[e] \notin Outside),
         pc'[e] # "launch",
         pc[e] \in Outside => pc'[e] \in Outside \/ holder["task"] = "nobody"
  PROVE  IInv'
<1>1. TypeOK /\ TypeOK'
  BY DEF IInv, CompletedHasEvidence, TypeOK, SharedOK, Only
<1>2. \A f \in Executors : LocalOK(f)'
  BY <1>1, LocalStays DEF IInv, Only, TypeOK, BrowserAssumption
<1>3. ASSUME NEW g \in Executors, At(g, "launch")', Holds(g, "task")' PROVE LaunchOK(g)'
  <2>1. g # e /\ At(g, "launch") /\ Holds(g, "task") /\ LaunchOK(g)
    BY <1>3 DEF At, Only, TakesFairly, IInv
  <2>2. ~Terminal(row) /\ \A f \in Executors \ {g} : Holds(f, "execute") => pc[f] \in Outside
    BY <2>1 DEF LaunchOK
  <2>3. holder["task"] # "nobody"
    BY <2>1, BrowserAssumption DEF Holds
  <2>4. ~Terminal(row')
    BY <2>1, <2>2
  <2>5. ASSUME NEW f \in Executors \ {g}, Holds(f, "execute")' PROVE pc'[f] \in Outside
    BY <2>1, <2>2, <2>3, <2>5 DEF TakesFairly, Only
  <2> QED BY <2>4, <2>5 DEF LaunchOK, Terminal
<1>4. \A g \in Executors : LaunchOK(g)'
  BY <1>3 DEF LaunchOK
<1> QED BY <1>1, <1>2, <1>4 DEF IInv, CompletedHasEvidence, Evidence, Only, RecordOK

\* A step that is no executor's.
LEMMA WorldInv ==
  ASSUME IInv, UNCHANGED <<row, pc, mem, next, copies>>, SharedOK',
         \A f \in Executors, k \in Leases : Holds(f, k)' => Holds(f, k)
  PROVE  IInv'
<1>1. TypeOK'
  BY DEF IInv, CompletedHasEvidence, TypeOK, SharedOK
<1>2. \A e \in Executors : LocalOK(e)'
  BY DEF IInv, LocalOK, Evidence, RecordOK, Terminal
<1>3. \A e \in Executors : LaunchOK(e)'
  BY DEF IInv, LaunchOK, At, Leases, Terminal
<1> QED BY <1>1, <1>2, <1>3 DEF IInv, CompletedHasEvidence, RecordOK

LEMMA Types ==
  ASSUME IInv
  PROVE  /\ TypeOK /\ SharedOK /\ Ready \in TaskRecord /\ Count \in Nat /\ MaxAttempts \in Nat \ {0}
         /\ \A e \in Executors : LocalOK(e) /\ mem[e] \in TaskRecord /\ next[e] \in 1..Count + 1
         /\ \A e \in Executors, place \in Places : Goto(e, place) =>
              pc' \in [Executors -> Places] /\ pc'[e] = place /\ \A f \in Executors : f # e => pc'[f] = pc[f]
         /\ Fault \/ UNCHANGED faults => faults' \in 0..MaxFaults
<1>1. TypeOK /\ SharedOK /\ \A e \in Executors : LocalOK(e)
  BY DEF IInv, CompletedHasEvidence, TypeOK, SharedOK
<1>2. Ready \in TaskRecord /\ Count \in Nat /\ MaxAttempts \in Nat \ {0}
  BY BrowserAssumption DEF Ready, TaskRecord, Status
<1>3. \A e \in Executors : mem[e] \in TaskRecord /\ next[e] \in 1..Count + 1
  BY <1>1 DEF TypeOK
<1>4. ASSUME NEW e \in Executors, NEW place \in Places, Goto(e, place)
      PROVE  pc' \in [Executors -> Places] /\ pc'[e] = place /\ \A f \in Executors : f # e => pc'[f] = pc[f]
  BY <1>4 DEF Goto, IInv
<1>5. Fault \/ UNCHANGED faults => faults' \in 0..MaxFaults
  BY <1>1, BrowserAssumption DEF Fault, TypeOK
<1> QED BY <1>1, <1>2, <1>3, <1>4, <1>5

\* An executor that goes on with nothing but its place, its task and leases.
LEMMA QuietInv ==
  ASSUME IInv, NEW e \in Executors, Only(e), UNCHANGED <<row, copies>>, SharedOK', LocalOK(e)',
         TakesFairly(e), pc'[e] # "launch",
         pc[e] \in Outside => pc'[e] \in Outside \/ holder["task"] = "nobody"
  PROVE  IInv'
<1>1. RecordOK(row') /\ (row'.status = "completed" => Evidence')
  BY DEF IInv, CompletedHasEvidence, RecordOK, Evidence
<1>2. StoresOn
  BY DEF StoresOn
<1> QED BY <1>1, <1>2, StepInv

-----------------------------------------------------------------------------
(* Taking the run over. *)

LEMMA AnswerType == ASSUME IInv, NEW e \in Executors, Answer(e) \/ UNCHANGED Queue
                    PROVE  tasks' \in 0..MaxTasks /\ named' \in BOOLEAN
BY Types, BrowserAssumption DEF SharedOK, Answer, Queue

\* Deliver, RequestCancel, Read, Acquire, CheckHolder.
LEMMA OutsideInv ==
  ASSUME IInv, NEW e \in Executors,
         Deliver(e) \/ RequestCancel(e) \/ Read(e) \/ Acquire(e) \/ CheckHolder(e)
  PROVE  IInv'
<1>1. /\ UNCHANGED <<row, copies, mem, next, abort, faults>> /\ TypeOK /\ LocalOK(e)
      /\ pc \in [Executors -> Places]
  BY Types DEF Deliver, RequestCancel, Read, Acquire, CheckHolder, Store, Local, IInv
<1>2. \E place \in {"idle", "read", "acquire", "reread", "owned", "leave"} :
        /\ Goto(e, place) /\ (place = "owned" => pc[e] = "holder" /\ holder["task"] = "nobody")
        /\ holder' = holder \/ (place = "reread" /\ holder' = [holder EXCEPT !["execute"] = e])
  BY DEF Deliver, RequestCancel, Read, Acquire, CheckHolder, Answer, At
<1>3. Only(e) /\ pc'[e] \in {"idle", "read", "acquire", "reread", "owned", "leave"}
      /\ (pc'[e] = "owned" => pc[e] = "holder" /\ holder["task"] = "nobody")
      /\ (holder' = holder \/ (pc'[e] = "reread" /\ holder' = [holder EXCEPT !["execute"] = e]))
  BY <1>1, <1>2 DEF Only, Goto, Places, TypeOK
<1>4. SharedOK'
  <2>1. cancel' \in BOOLEAN
    BY <1>1 DEF Deliver, RequestCancel, Read, Acquire, CheckHolder, Store, TypeOK
  <2>2. tasks' \in 0..MaxTasks /\ named' \in BOOLEAN
    <3>1. Answer(e) \/ UNCHANGED Queue
      BY DEF Deliver, RequestCancel, Read, Acquire, CheckHolder
    <3> QED BY <3>1, AnswerType
  <2> QED BY <1>1, <1>3, <2>1, <2>2, Types DEF SharedOK
<1>5. LocalOK(e)'
  BY <1>1, <1>3 DEF LocalOK, Evidence, RecordOK, Terminal
<1>6. TakesFairly(e)
  BY <1>1, <1>3 DEF TakesFairly, Holds, Outside, TypeOK, Leases
<1> QED BY <1>1, <1>3, <1>4, <1>5, <1>6, QuietInv DEF Outside

LEMMA RereadInv ==
  ASSUME IInv, NEW e \in Executors, Reread(e)
  PROVE  IInv'
<1>1. /\ UNCHANGED <<row, copies, next, holder, abort, faults, cancel, tasks, named>> /\ TypeOK /\ LocalOK(e)
      /\ pc \in [Executors -> Places] /\ mem' = [mem EXCEPT ![e] = row] /\ pc[e] = "reread"
      /\ RecordOK(row) /\ CompletedHasEvidence
  BY Types DEF Reread, Store, Queue, IInv, At
<1>2. pc' = [pc EXCEPT ![e] = IF Terminal(row) THEN "leave" ELSE "holder"]
  BY DEF Reread, Goto
<1>3. Only(e) /\ mem'[e] = row /\ pc'[e] = IF Terminal(row) THEN "leave" ELSE "holder"
  BY <1>1, <1>2 DEF Only, Places, TypeOK
<1>4. SharedOK' /\ TakesFairly(e)
  BY <1>1, Types DEF SharedOK, TakesFairly, Holds
<1>5. LocalOK(e)'
  BY <1>1, <1>3 DEF LocalOK, Evidence, RecordOK, CompletedHasEvidence, Terminal
<1> QED BY <1>1, <1>3, <1>4, <1>5, QuietInv DEF Outside

LEMMA OwnedInv ==
  ASSUME IInv, NEW e \in Executors, Owned(e)
  PROVE  IInv'
<1>1. /\ UNCHANGED <<row, copies, mem, next, holder, faults, cancel, tasks, named>> /\ TypeOK /\ LocalOK(e)
      /\ pc \in [Executors -> Places] /\ pc[e] = "owned"
  BY Types DEF Owned, Store, Queue, IInv, At
<1>2. \E place \in {"recover", "unwind"} : pc' = [pc EXCEPT ![e] = place]
  BY DEF Owned, Goto
<1>3. Only(e) /\ pc'[e] \in {"recover", "unwind"}
  BY <1>1, <1>2 DEF Only, Places, TypeOK
<1>4. SharedOK' /\ TakesFairly(e)
  BY <1>1, Types DEF SharedOK, TakesFairly, Holds, Owned
<1>5. LocalOK(e)'
  BY <1>1, <1>3 DEF LocalOK, Evidence, RecordOK, Terminal
<1> QED BY <1>1, <1>3, <1>4, <1>5, QuietInv DEF Outside

\* An attempt that was cut off is taken back, so the next one is within the policy.
LEMMA RecoveredOK ==
  ASSUME NEW t \in TaskRecord, RecordOK(t), ~Terminal(t)
  PROVE  Recovered(t) \in TaskRecord /\ RecordOK(Recovered(t)) /\ Recovered(t).status = "ready"
<1>1. t.attempts \in 0..MaxAttempts /\ t.status \in {"ready", "waiting", "running"}
  BY DEF TaskRecord, Status, Terminal
<1>2. CASE t.status \in {"running", "cancelled"} /\ t.attempts > 0
  <2>1. Recovered(t) = [status |-> "ready", attempts |-> t.attempts - 1]
    BY <1>2 DEF Recovered
  <2> QED BY <1>1, <1>2, <2>1, BrowserAssumption DEF TaskRecord, Status, RecordOK
<1>3. CASE ~(t.status \in {"running", "cancelled"} /\ t.attempts > 0)
  <2>1. Recovered(t) = [status |-> "ready", attempts |-> t.attempts]
    BY <1>3 DEF Recovered
  <2> QED BY <1>1, <1>3, <2>1, BrowserAssumption DEF TaskRecord, Status, RecordOK
<1> QED BY <1>2, <1>3

LEMMA RecoverInv ==
  ASSUME IInv, NEW e \in Executors, Recover(e)
  PROVE  IInv'
<1>1. /\ UNCHANGED <<row, copies, next, holder, abort, faults, cancel, tasks, named>> /\ TypeOK /\ LocalOK(e)
      /\ pc \in [Executors -> Places] /\ pc[e] = "recover" /\ pc' = [pc EXCEPT ![e] = "top"]
      /\ mem[e] \in TaskRecord /\ RecordOK(mem[e]) /\ ~Terminal(mem[e])
  BY Types DEF Recover, Store, Queue, IInv, At, Goto, LocalOK
<1>2. PICK t : t = IF mem[e].status = "running" /\ holder["task"] # "nobody"
                 THEN mem[e] ELSE Recovered(mem[e])
  OBVIOUS
<1>3. t \in TaskRecord /\ RecordOK(t) /\ t.status # "completed"
  BY <1>1, <1>2, RecoveredOK DEF Terminal
<1>4. mem' = [mem EXCEPT ![e] = t]
  BY <1>2 DEF Recover
<1>5. Only(e) /\ pc'[e] = "top" /\ mem'[e] = t
  BY <1>1, <1>3, <1>4 DEF Only, Places, TypeOK
<1>6. SharedOK' /\ TakesFairly(e)
  BY <1>1, Types DEF SharedOK, TakesFairly, Holds
<1>7. LocalOK(e)'
  BY <1>1, <1>3, <1>5 DEF LocalOK, RecordOK
<1> QED BY <1>1, <1>5, <1>6, <1>7, QuietInv DEF Outside

-----------------------------------------------------------------------------
(* The writes. *)

\* What a write leaves in the row.
LEMMA SavedRow ==
  ASSUME NEW e \in Executors, NEW t, NEW place, NEW refused, SaveThen(e, t, place, refused)
  PROVE  /\ \/ row' = row
            \/ /\ row' = t /\ Holds(e, "execute") /\ ~Terminal(row)
               /\ ~cancel \/ t.status # "completed"
         /\ Goto(e, place) \/ Goto(e, refused)
         /\ Fault \/ UNCHANGED faults
BY DEF SaveThen, CanSave, Written

LEMMA SaveInv ==
  ASSUME IInv, NEW e \in Executors, NEW t \in TaskRecord, RecordOK(t), t.status = "completed" => Evidence,
         NEW place \in Places, NEW refused \in Places, SaveThen(e, t, place, refused),
         mem' = [mem EXCEPT ![e] = t], UNCHANGED <<cancel, copies, Queue, holder, abort, next>>,
         pc[e] \notin Outside,
         {place, refused} \intersect {"launch", "holder", "owned", "recover", "find", "put"} = {},
         "start" \in {place, refused} => t.status = "ready",
         "wait" \notin {place, refused}, "backoff" \in {place, refused} => t.status = "waiting"
  PROVE  IInv'
<1>1. TypeOK /\ LocalOK(e) /\ pc \in [Executors -> Places] /\ RecordOK(row) /\ CompletedHasEvidence
  BY Types DEF IInv
<1>2. row' = row \/ (row' = t /\ Holds(e, "execute"))
  BY SavedRow
<1>3. Only(e) /\ pc'[e] \in {place, refused} /\ mem'[e] = t
  BY <1>1, SavedRow DEF Only, Goto, TypeOK
<1>4. SharedOK'
  BY <1>1, <1>2, SavedRow, Types DEF SharedOK, Queue
<1>5. LocalOK(e)'
  BY <1>1, <1>3 DEF LocalOK, Evidence, RecordOK
<1>6. StoresOn /\ TakesFairly(e)
  BY DEF StoresOn, TakesFairly, Holds
<1>7. RecordOK(row') /\ (row'.status = "completed" => Evidence')
  BY <1>1, <1>2 DEF CompletedHasEvidence, Evidence
<1>8. row' = row \/ (Holds(e, "execute") /\ pc[e] \notin Outside)
  BY <1>2
<1> QED BY <1>3, <1>4, <1>5, <1>6, <1>7, <1>8, StepInv

LEMMA TopInv ==
  ASSUME IInv, NEW e \in Executors, Top(e)
  PROVE  IInv'
<1>1. PICK t : t = IF e \in abort /\ ~Terminal(mem[e]) THEN [mem[e] EXCEPT !.status = "cancelled"] ELSE mem[e]
  OBVIOUS
<1>2. PICK place : place = IF t.status = "ready" THEN "start" ELSE "leave"
  OBVIOUS
<1>3. /\ pc[e] = "top" /\ mem' = [mem EXCEPT ![e] = t] /\ SaveThen(e, t, place, "unwind")
      /\ UNCHANGED <<cancel, copies, Queue, holder, abort, next>>
  BY <1>1, <1>2 DEF Top, At
<1>4. LocalOK(e) /\ mem[e] \in TaskRecord
  BY Types
<1>5. t \in TaskRecord /\ RecordOK(t) /\ (t.status = "completed" => Evidence)
  BY <1>1, <1>4 DEF LocalOK, TaskRecord, Status, RecordOK
<1>6. CASE t.status = "ready"
  <2>1. place = "start"
    BY <1>2, <1>6
  <2> QED BY <1>3, <1>5, <1>6, <2>1, SaveInv DEF Places, Outside
<1>7. CASE t.status # "ready"
  <2>1. place = "leave"
    BY <1>2, <1>7
  <2> QED BY <1>3, <1>5, <2>1, SaveInv DEF Places, Outside
<1> QED BY <1>6, <1>7

LEMMA StartInv ==
  ASSUME IInv, NEW e \in Executors, Start(e)
  PROVE  IInv'
<1>1. PICK t : t = [status |-> "running", attempts |-> mem[e].attempts + 1]
  OBVIOUS
<1>2. /\ pc[e] = "start" /\ mem' = [mem EXCEPT ![e] = t] /\ SaveThen(e, t, "handler", "unwind")
      /\ UNCHANGED <<cancel, copies, Queue, holder, abort, next>>
  BY <1>1 DEF Start, At
<1>3. mem[e].attempts \in 0..MaxAttempts /\ mem[e].attempts < MaxAttempts
  BY <1>2, Types DEF LocalOK, RecordOK, TaskRecord
<1>4. t \in TaskRecord /\ RecordOK(t) /\ t.status # "completed"
  BY <1>1, <1>3, BrowserAssumption DEF TaskRecord, Status, RecordOK
<1> QED BY <1>2, <1>4, SaveInv DEF Places, Outside

\* The task of an executor, saved as it is.
LEMMA SameTask ==
  ASSUME IInv, NEW e \in Executors, mem' = mem
  PROVE  /\ mem' = [mem EXCEPT ![e] = mem[e]] /\ mem[e] \in TaskRecord /\ RecordOK(mem[e])
         /\ (mem[e].status = "completed" => Evidence)
BY Types DEF TypeOK, LocalOK

LEMMA WaitFinishInv ==
  ASSUME IInv, NEW e \in Executors, Wait(e) \/ Finish(e)
  PROVE  IInv'
<1>1. CASE Wait(e)
  <2>1. /\ pc[e] = "wait" /\ mem' = mem /\ SaveThen(e, mem[e], "backoff", "rethrow")
        /\ UNCHANGED <<cancel, copies, Queue, holder, abort, next>>
    BY <1>1 DEF Wait, At, Local
  <2>2. mem[e].status = "waiting"
    BY <2>1, Types DEF LocalOK
  <2> QED BY <2>1, <2>2, SameTask, SaveInv DEF Places, Outside
<1>2. CASE Finish(e)
  <2>1. /\ pc[e] = "finish" /\ mem' = mem /\ SaveThen(e, mem[e], "top", "unwind")
        /\ UNCHANGED <<cancel, copies, Queue, holder, abort, next>>
    BY <1>2 DEF Finish, At, Local
  <2> QED BY <2>1, SameTask, SaveInv DEF Places, Outside
<1> QED BY <1>1, <1>2

LEMMA RethrowInv ==
  ASSUME IInv, NEW e \in Executors, Rethrow(e)
  PROVE  IInv'
<1>1. PICK t : t = IF e \in abort THEN [mem[e] EXCEPT !.status = "cancelled"] ELSE mem[e]
  OBVIOUS
<1>2. /\ pc[e] = "rethrow" /\ mem' = [mem EXCEPT ![e] = t] /\ SaveThen(e, t, "unwind", "unwind")
      /\ UNCHANGED <<cancel, copies, Queue, holder, abort, next>>
  BY <1>1 DEF Rethrow, At
<1>3. LocalOK(e) /\ mem[e] \in TaskRecord
  BY Types
<1>4. t \in TaskRecord /\ RecordOK(t) /\ (t.status = "completed" => Evidence)
  BY <1>1, <1>3 DEF LocalOK, TaskRecord, Status, RecordOK
<1> QED BY <1>2, <1>4, SaveInv DEF Places, Outside

\* An executor that ends its call gives its leases back.
LEMMA LeaveInv ==
  ASSUME IInv, NEW e \in Executors, Leave(e) \/ Unwind(e)
  PROVE  IInv'
<1>1. /\ UNCHANGED <<row, copies, next, faults, cancel>> /\ TypeOK /\ LocalOK(e)
      /\ pc \in [Executors -> Places] /\ pc' = [pc EXCEPT ![e] = "idle"]
      /\ mem' = [mem EXCEPT ![e] = Ready] /\ abort' = abort \ {e} /\ holder' = Freed(e)
      /\ Answer(e) \/ UNCHANGED Queue
  BY Types DEF Leave, Unwind, Answer, Goto, Store, Gone, IInv
<1>2. Only(e) /\ pc'[e] = "idle" /\ mem'[e] = Ready
  BY <1>1, Types DEF Only, Places, TypeOK
<1>3. \A k \in Leases : holder'[k] \in {holder[k], "nobody"}
  BY <1>1 DEF Freed
<1>4. holder' \in [Leases -> Executors \union {"nobody"}]
  BY <1>1, <1>3 DEF Freed, TypeOK
<1>5. SharedOK'
  BY <1>1, <1>4, AnswerType, Types DEF SharedOK
<1>6. TakesFairly(e)
  BY <1>3, BrowserAssumption DEF TakesFairly, Holds, Leases
<1>7. LocalOK(e)'
  BY <1>1, <1>2, BrowserAssumption DEF LocalOK, Evidence, RecordOK, Ready
<1> QED BY <1>1, <1>2, <1>5, <1>6, <1>7, QuietInv DEF Outside

-----------------------------------------------------------------------------
(* The handler. *)

\* The handler ends with a task that is saved next.
LEMMA EndsInv ==
  ASSUME IInv, NEW e \in Executors, NEW t \in TaskRecord, NEW place \in {"finish", "wait"}, Ends(e, t, place),
         RecordOK(t), t.status = "completed" => Evidence, place = "wait" => t.status = "waiting",
         Fault \/ UNCHANGED faults, pc[e] \notin Outside
  PROVE  IInv'
<1>1. /\ UNCHANGED <<row, copies, cancel, tasks, named, abort>> /\ TypeOK /\ LocalOK(e)
      /\ pc \in [Executors -> Places] /\ pc' = [pc EXCEPT ![e] = place]
      /\ mem' = [mem EXCEPT ![e] = t] /\ next' = [next EXCEPT ![e] = 1]
  BY Types DEF Ends, Goto, Store, Queue, IInv
<1>2. Only(e) /\ pc'[e] = place /\ mem'[e] = t /\ next'[e] = 1
  BY <1>1, Types DEF Only, Places, TypeOK
<1>3. \A k \in Leases : holder'[k] \in {holder[k], "nobody"}
  BY <1>1 DEF Ends, TypeOK
<1>4. holder' \in [Leases -> Executors \union {"nobody"}]
  BY <1>1 DEF Ends, TypeOK
<1>5. SharedOK'
  BY <1>1, <1>4, Types DEF SharedOK
<1>6. TakesFairly(e)
  BY <1>3, BrowserAssumption DEF TakesFairly, Holds, Leases
<1>7. \A a \in Artifacts : ~(a < next'[e])
  BY <1>2, BrowserAssumption DEF Artifacts
<1>8. LocalOK(e)'
  BY <1>1, <1>2, <1>7 DEF LocalOK, Evidence, RecordOK
<1> QED BY <1>1, <1>2, <1>5, <1>6, <1>8, QuietInv

LEMMA FailsInv ==
  ASSUME IInv, NEW e \in Executors, Fails(e), Fault \/ UNCHANGED faults, pc[e] \notin Outside
  PROVE  IInv'
<1>1. PICK t : t = [mem[e] EXCEPT !.status = "failed"]
  OBVIOUS
<1>2. t \in TaskRecord /\ t.status = "failed"
  BY <1>1, Types DEF TaskRecord, Status
<1> QED BY <1>1, <1>2, EndsInv DEF Fails, RecordOK

LEMMA RetriesInv ==
  ASSUME IInv, NEW e \in Executors, Retries(e), Fault \/ UNCHANGED faults, pc[e] \notin Outside
  PROVE  IInv'
<1>1. CASE mem[e].attempts < MaxAttempts
  <2>1. PICK t : t = [mem[e] EXCEPT !.status = "waiting"]
    OBVIOUS
  <2>2. t \in TaskRecord /\ t.status = "waiting" /\ t.attempts = mem[e].attempts
    BY <2>1, Types DEF TaskRecord, Status
  <2>3. Ends(e, t, "wait")
    BY <1>1, <2>1 DEF Retries
  <2> QED BY <1>1, <2>2, <2>3, EndsInv DEF RecordOK
<1>2. CASE ~(mem[e].attempts < MaxAttempts)
  BY <1>2, FailsInv DEF Retries
<1> QED BY <1>1, <1>2

LEMMA CompletesInv ==
  ASSUME IInv, NEW e \in Executors, Completes(e), next[e] > Count, UNCHANGED faults, pc[e] \notin Outside
  PROVE  IInv'
<1>1. PICK t : t = [mem[e] EXCEPT !.status = IF e \in abort THEN "cancelled" ELSE "completed"]
  OBVIOUS
<1>2. t \in TaskRecord /\ t.status \in {"cancelled", "completed"}
  BY <1>1, Types DEF TaskRecord, Status
<1>3. Evidence
  BY Types DEF LocalOK, Evidence, Artifacts
<1> QED BY <1>1, <1>2, <1>3, EndsInv DEF Completes, RecordOK

\* The handler goes on to its next call.
LEMMA ProceedInv ==
  ASSUME IInv, NEW e \in Executors, NEW place \in {"claim", "browsing", "find", "put"}, Proceed(e, place),
         place \in {"find", "put"} => next[e] <= Count, pc[e] \notin Outside
  PROVE  IInv'
<1>1. /\ UNCHANGED <<row, copies, mem, next, abort, cancel, tasks, named, holder, faults>> /\ TypeOK
      /\ LocalOK(e) /\ pc \in [Executors -> Places] /\ pc' = [pc EXCEPT ![e] = place]
  BY Types DEF Proceed, Goto, Store, Queue, Local, IInv
<1>2. Only(e) /\ pc'[e] = place
  BY <1>1, Types DEF Only, Places, TypeOK
<1>3. SharedOK' /\ TakesFairly(e)
  BY <1>1, Types DEF SharedOK, TakesFairly, Holds
<1>4. LocalOK(e)'
  BY <1>1, <1>2 DEF LocalOK, Evidence, RecordOK
<1> QED BY <1>1, <1>2, <1>3, <1>4, QuietInv

LEMMA ClaimInv ==
  ASSUME IInv, NEW e \in Executors, Claim(e)
  PROVE  IInv'
<1>1. pc[e] = "claim" /\ UNCHANGED faults
  BY DEF Claim, At
<1>2. CASE holder["task"] = "nobody"
  <2>1. /\ UNCHANGED <<row, copies, mem, next, abort, cancel, tasks, named, faults>> /\ TypeOK
        /\ LocalOK(e) /\ pc \in [Executors -> Places] /\ pc' = [pc EXCEPT ![e] = "granted"]
        /\ holder' = [holder EXCEPT !["task"] = e]
    BY <1>1, <1>2, Types DEF Claim, Goto, Store, Queue, Local, IInv
  <2>2. Only(e) /\ pc'[e] = "granted"
    BY <2>1, Types DEF Only, Places, TypeOK
  <2>3. SharedOK'
    BY <2>1, Types DEF SharedOK
  <2>4. TakesFairly(e)
    BY <2>1, <2>2 DEF TakesFairly, Holds, TypeOK, Leases
  <2>5. LocalOK(e)'
    BY <2>1, <2>2 DEF LocalOK, Evidence, RecordOK
  <2> QED BY <1>1, <2>1, <2>2, <2>3, <2>4, <2>5, QuietInv DEF Outside
<1>3. CASE holder["task"] # "nobody"
  BY <1>1, <1>3, RetriesInv DEF Claim, Outside
<1> QED BY <1>2, <1>3

\* Under both leases an executor may come to launch: until it loses the task
\* lease, whoever gets the other one turns back.
LEMMA GrantedInv ==
  ASSUME IInv, NEW e \in Executors, Granted(e)
  PROVE  IInv'
<1>1. pc[e] = "granted" /\ e \in Executors
  BY DEF Granted, At
<1>2. CASE Guard(e) /\ Authorised(e) /\ Proceed(e, "launch")
  <2>1. /\ UNCHANGED <<row, copies, mem, next, abort, cancel, tasks, named, holder, faults>> /\ TypeOK
        /\ LocalOK(e) /\ pc \in [Executors -> Places] /\ pc' = [pc EXCEPT ![e] = "launch"]
    BY <1>2, Types DEF Proceed, Goto, Store, Queue, Local, IInv
  <2>2. Only(e) /\ pc'[e] = "launch"
    BY <2>1, Types DEF Only, Places, TypeOK
  <2>3. TypeOK' /\ \A f \in Executors : LocalOK(f)'
    BY <1>1, <2>1, <2>2 DEF TypeOK, IInv, LocalOK, Evidence, RecordOK, Terminal
  <2>4. ~Terminal(row) /\ holder["execute"] = e /\ holder["task"] = e
    BY <1>2 DEF Authorised, Guard, Holds
  <2>5. \A g \in Executors : LaunchOK(g)'
    BY <2>1, <2>2, <2>4 DEF LaunchOK, Holds, At, Terminal
  <2> QED BY <2>1, <2>2, <2>3, <2>5 DEF IInv, CompletedHasEvidence, Only, RecordOK
<1>3. CASE Fails(e) /\ UNCHANGED faults
  BY <1>1, <1>3, FailsInv DEF Outside
<1> QED BY <1>2, <1>3 DEF Granted

LEMMA BrowsedInv ==
  ASSUME IInv, NEW e \in Executors, Browsed(e)
  PROVE  IInv'
<1>1. pc[e] = "browsing" /\ pc[e] \notin Outside /\ UNCHANGED faults
  BY DEF Browsed, At, Outside
<1>2. CASE Goto(e, "check") /\ UNCHANGED <<Store, Queue, holder, Local>>
  <2>1. /\ UNCHANGED <<row, copies, mem, next, abort, cancel, tasks, named, holder, faults>> /\ TypeOK
        /\ LocalOK(e) /\ pc \in [Executors -> Places] /\ pc' = [pc EXCEPT ![e] = "check"]
    BY <1>1, <1>2, Types DEF Goto, Store, Queue, Local, IInv
  <2>2. Only(e) /\ pc'[e] = "check"
    BY <2>1, Types DEF Only, Places, TypeOK
  <2>3. SharedOK' /\ TakesFairly(e)
    BY <2>1, Types DEF SharedOK, TakesFairly, Holds
  <2>4. LocalOK(e)'
    BY <2>1, <2>2 DEF LocalOK, Evidence, RecordOK
  <2> QED BY <1>1, <2>1, <2>2, <2>3, <2>4, QuietInv
<1> QED BY <1>1, <1>2, FailsInv, RetriesInv DEF Browsed

\* An artifact is stored, or was before.
LEMMA StoredInv ==
  ASSUME IInv, NEW e \in Executors, Stored(e), pc[e] \in {"find", "put"}, StoresOn,
         copies' \in [Artifacts -> Nat], copies'[next[e]] > 0, UNCHANGED <<row, cancel, Queue, holder, mem, abort, faults>>
  PROVE  IInv'
<1>1. /\ TypeOK /\ LocalOK(e) /\ pc \in [Executors -> Places] /\ pc' = [pc EXCEPT ![e] = "check"]
      /\ next' = [next EXCEPT ![e] = next[e] + 1] /\ next[e] \in 1..Count
  BY Types DEF Stored, Goto, IInv, LocalOK
<1>2. Only(e) /\ pc'[e] = "check" /\ next'[e] = next[e] + 1 /\ mem'[e] = mem[e]
  BY <1>1, Types DEF Only, Places, TypeOK
<1>3. SharedOK' /\ TakesFairly(e)
  BY Types DEF SharedOK, TakesFairly, Holds, Queue
<1>4. Evidence => Evidence'
  BY DEF Evidence, StoresOn
<1>5. \A a \in Artifacts : a < next'[e] => copies'[a] > 0
  BY <1>1, <1>2, Types DEF LocalOK, StoresOn, Artifacts
<1>6. LocalOK(e)'
  BY <1>1, <1>2, <1>4, <1>5 DEF LocalOK, RecordOK
<1>7. RecordOK(row') /\ (row'.status = "completed" => Evidence')
  BY <1>4 DEF IInv, CompletedHasEvidence, RecordOK, Evidence
<1>8. pc[e] \notin Outside /\ row' = row
  BY DEF Outside
<1> QED BY <1>2, <1>3, <1>6, <1>7, <1>8, StepInv

LEMMA StoringInv ==
  ASSUME IInv, NEW e \in Executors, Check(e) \/ FindStored(e) \/ PutServerObject(e)
  PROVE  IInv'
<1>1. TypeOK /\ LocalOK(e) /\ pc[e] \in {"check", "find", "put"} /\ pc[e] \notin Outside
      /\ next[e] \in Nat /\ Count \in Nat
  BY Types DEF Check, FindStored, PutServerObject, At, Outside
<1>2. CASE Check(e)
  BY <1>1, <1>2, ProceedInv, CompletesInv, FailsInv DEF Check
<1>3. CASE FindStored(e)
  <2>1. next[e] <= Count /\ pc[e] = "find"
    BY <1>1, <1>3 DEF FindStored, At, LocalOK
  <2>2. CASE copies[next[e]] > 0
    <3>1. Stored(e) /\ UNCHANGED <<row, cancel, copies, Queue, holder, mem, abort, faults>>
      BY <1>3, <2>2 DEF FindStored, Store
    <3>2. StoresOn /\ copies' \in [Artifacts -> Nat]
      BY <1>1, <3>1 DEF StoresOn, TypeOK
    <3> QED BY <1>1, <2>1, <2>2, <3>1, <3>2, StoredInv
  <2>3. CASE ~(copies[next[e]] > 0)
    BY <1>1, <1>3, <2>1, <2>3, ProceedInv DEF FindStored
  <2> QED BY <2>2, <2>3
<1>4. CASE PutServerObject(e)
  <2>1. next[e] \in Artifacts /\ pc[e] = "put"
    BY <1>1, <1>4, Types DEF PutServerObject, At, LocalOK, Artifacts
  <2>2. CASE Stored(e) /\ copies' = [copies EXCEPT ![next[e]] = @ + 1]
             /\ UNCHANGED <<row, cancel, Queue, holder, mem, abort, faults>>
    <3>1. StoresOn /\ copies' \in [Artifacts -> Nat] /\ copies'[next[e]] > 0
      BY <1>1, <2>1, <2>2 DEF StoresOn, TypeOK
    <3> QED BY <1>1, <2>1, <2>2, <3>1, StoredInv
  <2>3. CASE Retries(e) /\ Fault
    BY <1>1, <2>3, RetriesInv
  <2> QED BY <1>4, <2>2, <2>3 DEF PutServerObject
<1> QED BY <1>2, <1>3, <1>4

LEMMA HandleInv ==
  ASSUME IInv, NEW e \in Executors, Handle(e)
  PROVE  IInv'
<1>1. Authorise(e) => IInv'
  BY ProceedInv, FailsInv DEF Authorise, At, Outside
<1>2. Launch(e) => IInv'
  BY ProceedInv, FailsInv DEF Launch, At, Outside
<1> QED BY <1>1, <1>2, ClaimInv, GrantedInv, BrowsedInv, StoringInv DEF Handle

LEMMA BackoffInv ==
  ASSUME IInv, NEW e \in Executors, Backoff(e)
  PROVE  IInv'
<1>1. PICK s : s = IF e \in abort THEN "cancelled" ELSE "ready"
  OBVIOUS
<1>2. /\ UNCHANGED <<row, copies, next, abort, cancel, tasks, named, holder, faults>> /\ TypeOK /\ LocalOK(e)
      /\ pc \in [Executors -> Places] /\ pc' = [pc EXCEPT ![e] = "finish"] /\ pc[e] = "backoff"
      /\ mem' = [mem EXCEPT ![e].status = s]
  BY <1>1, Types DEF Backoff, Goto, Store, Queue, IInv, At
<1>3. PICK t : t = [mem[e] EXCEPT !.status = s]
  OBVIOUS
<1>4. t \in TaskRecord /\ t.status \in {"cancelled", "ready"} /\ t.attempts = mem[e].attempts
  BY <1>1, <1>3, Types DEF TaskRecord, Status
<1>5. mem[e].attempts < MaxAttempts /\ mem' = [mem EXCEPT ![e] = t]
  BY <1>2, <1>3, Types DEF LocalOK, RecordOK, TypeOK
<1>6. Only(e) /\ pc'[e] = "finish" /\ mem'[e] = t
  BY <1>2, <1>4, <1>5, Types DEF Only, Places, TypeOK
<1>7. SharedOK' /\ TakesFairly(e)
  BY <1>2, Types DEF SharedOK, TakesFairly, Holds
<1>8. LocalOK(e)'
  BY <1>2, <1>4, <1>5, <1>6 DEF LocalOK, RecordOK
<1> QED BY <1>2, <1>6, <1>7, <1>8, QuietInv DEF Outside

-----------------------------------------------------------------------------
(* Around the executors. *)

LEMMA AbortInv ==
  ASSUME IInv, NEW e \in Executors, Abort(e)
  PROVE  IInv'
<1>1. UNCHANGED <<row, copies, cancel, tasks, named, holder, pc, mem, next>> /\ (Fault \/ UNCHANGED faults)
      /\ abort' = abort \union {e}
  BY DEF Abort, Store, Queue
<1>2. SharedOK'
  BY <1>1, Types DEF SharedOK
<1> QED BY <1>1, <1>2, WorldInv DEF Holds

LEMMA CrashInv ==
  ASSUME IInv, NEW e \in Executors, Crash(e)
  PROVE  IInv'
<1>1. /\ UNCHANGED <<row, copies, cancel, tasks, named, holder>> /\ Fault /\ TypeOK /\ LocalOK(e)
      /\ pc \in [Executors -> Places] /\ pc' = [pc EXCEPT ![e] = "dead"]
      /\ mem' = [mem EXCEPT ![e] = Ready] /\ abort' = abort \ {e} /\ next' = [next EXCEPT ![e] = 1]
  BY Types DEF Crash, Gone, Goto, Store, Queue, IInv
<1>2. Only(e) /\ pc'[e] = "dead" /\ mem'[e] = Ready /\ next'[e] = 1
  BY <1>1, Types DEF Only, Places, TypeOK
<1>3. SharedOK' /\ TakesFairly(e)
  BY <1>1, Types DEF SharedOK, TakesFairly, Holds
<1>4. LocalOK(e)'
  BY <1>2, BrowserAssumption DEF LocalOK, RecordOK, Ready, Artifacts
<1> QED BY <1>1, <1>2, <1>3, <1>4, QuietInv DEF Outside

LEMMA RestartInv ==
  ASSUME IInv, NEW e \in Executors, Restart(e)
  PROVE  IInv'
<1>1. /\ UNCHANGED <<row, copies, cancel, tasks, named, holder, mem, next, abort, faults>> /\ TypeOK
      /\ LocalOK(e) /\ pc \in [Executors -> Places] /\ pc' = [pc EXCEPT ![e] = "idle"]
  BY Types DEF Restart, Goto, Store, Queue, Local, IInv
<1>2. Only(e) /\ pc'[e] = "idle"
  BY <1>1, Types DEF Only, Places, TypeOK
<1>3. SharedOK' /\ TakesFairly(e)
  BY <1>1, Types DEF SharedOK, TakesFairly, Holds
<1>4. LocalOK(e)'
  BY <1>1, <1>2 DEF LocalOK, Evidence, RecordOK
<1> QED BY <1>1, <1>2, <1>3, <1>4, QuietInv DEF Outside

LEMMA ExpireInv ==
  ASSUME IInv, NEW k \in Leases, Expire(k)
  PROVE  IInv'
<1>1. /\ UNCHANGED <<row, copies, cancel, tasks, named, pc, mem, next, abort>> /\ (Fault \/ UNCHANGED faults)
      /\ TypeOK /\ holder' = [holder EXCEPT ![k] = "nobody"]
  BY Types DEF Expire, Store, Queue, Local
<1>2. SharedOK'
  BY <1>1, Types DEF SharedOK
<1>3. \A f \in Executors, j \in Leases : Holds(f, j)' => Holds(f, j)
  BY <1>1, BrowserAssumption DEF Holds, TypeOK
<1> QED BY <1>1, <1>2, <1>3, WorldInv

LEMMA QueueInv ==
  ASSUME IInv, Sweep \/ NewWindow \/ LoseTask \/ UNCHANGED vars
  PROVE  IInv'
<1>1. UNCHANGED <<row, copies, cancel, holder, pc, mem, next, abort>> /\ (Fault \/ UNCHANGED faults)
  BY DEF Sweep, NewWindow, LoseTask, Store, Local, vars
<1>2. tasks' \in 0..MaxTasks /\ named' \in BOOLEAN
  <2>1. MaxTasks \in Nat /\ tasks \in 0..MaxTasks /\ named \in BOOLEAN
    BY Types, BrowserAssumption DEF SharedOK
  <2>2. CASE Sweep
    <3>1. named' = TRUE /\ (tasks' = tasks \/ (tasks < MaxTasks /\ tasks' = tasks + 1))
      BY <2>2 DEF Sweep, Dispatch
    <3> QED BY <2>1, <3>1
  <2>3. CASE NewWindow
    BY <2>1, <2>3 DEF NewWindow
  <2>4. CASE LoseTask
    BY <2>1, <2>4 DEF LoseTask
  <2>5. CASE UNCHANGED vars
    BY <2>1, <2>5 DEF vars
  <2> QED BY <2>2, <2>3, <2>4, <2>5
<1>3. SharedOK'
  BY <1>1, <1>2, Types DEF SharedOK
<1> QED BY <1>1, <1>3, WorldInv DEF Holds

-----------------------------------------------------------------------------
(* The invariant and the theorems. *)

LEMMA InitInv == Init => IInv
<1> SUFFICES ASSUME Init PROVE IInv
  OBVIOUS
<1>1. TypeOK
  <2>1. Ready \in TaskRecord /\ 0 \in 0..MaxTasks /\ 0 \in 0..MaxFaults /\ 1 \in 1..Count + 1
    BY BrowserAssumption DEF Ready, TaskRecord, Status
  <2> QED BY <2>1 DEF Init, TypeOK
<1>2. ASSUME NEW e \in Executors PROVE LocalOK(e) /\ LaunchOK(e)
  <2>1. mem[e] = Ready /\ pc[e] = "idle" /\ next[e] = 1
    BY DEF Init
  <2>2. \A a \in Artifacts : ~(a < 1)
    BY BrowserAssumption DEF Artifacts
  <2>3. Ready.status = "ready" /\ RecordOK(Ready)
    BY BrowserAssumption DEF Ready, RecordOK
  <2> QED BY <2>1, <2>2, <2>3 DEF LocalOK, LaunchOK, At
<1> QED BY <1>1, <1>2, BrowserAssumption DEF Init, IInv, CompletedHasEvidence, RecordOK, Ready, Places

LEMMA NextInv == IInv /\ [Next]_vars => IInv'
<1> SUFFICES ASSUME IInv, [Next]_vars PROVE IInv'
  OBVIOUS
<1>1. ASSUME NEW e \in Executors, Work(e) PROVE IInv'
  BY <1>1, OutsideInv, RereadInv, OwnedInv, RecoverInv, TopInv, StartInv, HandleInv, WaitFinishInv,
     RethrowInv, BackoffInv, LeaveInv DEF Work
<1>2. ASSUME NEW e \in Executors,
             Deliver(e) \/ RequestCancel(e) \/ Abort(e) \/ Crash(e) \/ Restart(e)
      PROVE  IInv'
  BY <1>2, OutsideInv, AbortInv, CrashInv, RestartInv
<1> QED BY <1>1, <1>2, ExpireInv, QueueInv DEF Next

LEMMA AlwaysInv == Spec => []IInv
BY InitInv, NextInv, PTL DEF Spec

\* The row changes only where an executor saves.
LEMMA RowStep ==
  ASSUME [Next]_vars
  PROVE  \/ row' = row
         \/ ~Terminal(row) /\ (~cancel \/ row'.status # "completed")
<1> USE DEF Store, Queue, Local
<1>1. ASSUME NEW e \in Executors, NEW t, NEW place, NEW refused, SaveThen(e, t, place, refused)
      PROVE  \/ row' = row
             \/ ~Terminal(row) /\ (~cancel \/ row'.status # "completed")
  BY <1>1, SavedRow
<1>2. ASSUME NEW e \in Executors, Fails(e) \/ Retries(e) \/ Completes(e) PROVE row' = row
  BY <1>2 DEF Fails, Retries, Completes, Ends
<1>3. ASSUME NEW e \in Executors, Handle(e) PROVE row' = row
  BY <1>2, <1>3 DEF Handle, Authorise, Claim, Granted, Launch, Browsed, Check, FindStored,
     PutServerObject, Proceed
<1>4. ASSUME NEW e \in Executors, Top(e) \/ Start(e) \/ Wait(e) \/ Rethrow(e) \/ Finish(e)
      PROVE  \/ row' = row
             \/ ~Terminal(row) /\ (~cancel \/ row'.status # "completed")
  BY <1>1, <1>4 DEF Top, Start, Wait, Rethrow, Finish
<1>5. ASSUME NEW e \in Executors,
             \/ Read(e) \/ Acquire(e) \/ Reread(e) \/ CheckHolder(e) \/ Owned(e) \/ Recover(e)
             \/ Backoff(e) \/ Leave(e) \/ Unwind(e) \/ Deliver(e) \/ RequestCancel(e)
             \/ Abort(e) \/ Crash(e) \/ Restart(e)
      PROVE  row' = row
  BY <1>5 DEF Read, Acquire, Reread, CheckHolder, Owned, Recover, Backoff, Leave, Unwind, Deliver,
     RequestCancel, Abort, Crash, Restart
<1>6. ASSUME (\E k \in Leases : Expire(k)) \/ Sweep \/ NewWindow \/ LoseTask \/ UNCHANGED vars
      PROVE  row' = row
  BY <1>6 DEF Expire, Sweep, NewWindow, LoseTask, vars
<1> QED BY <1>3, <1>4, <1>5, <1>6 DEF Next, Work

\* A completed run has its evidence on the drive, whichever attempt and
\* whichever executor stored it (browserTaskHandler.ts:218-244).
THEOREM EvidenceIsThere == Spec => []CompletedHasEvidence
<1>1. IInv => CompletedHasEvidence
  BY DEF IInv
<1> QED BY <1>1, AlwaysInv, PTL

\* No executor rewrites a run that has ended, whatever it still believes it
\* holds (browserRunStore.ts:141-163).
THEOREM EndsStick == Spec => OutcomeSticks
<1>1. [Next]_vars => [Terminal(row) => row' = row]_vars
  BY RowStep
<1> QED BY <1>1, PTL DEF Spec, OutcomeSticks

\* A run that is cancelled never becomes completed (browserRunStore.ts:160).
THEOREM CancelStands == Spec => CancelledNeverCompletes
<1>1. [Next]_vars => [cancel /\ row'.status = "completed" => row.status = "completed"]_vars
  BY RowStep
<1> QED BY <1>1, PTL DEF Spec, CancelledNeverCompletes

\* Only the executor's own launch brings it to the browser, under the task lease.
LEMMA LaunchStep ==
  ASSUME [Next]_vars, pc \in [Executors -> Places], NEW e \in Executors, At(e, "launch"), At(e, "browsing")'
  PROVE  Holds(e, "task")
<1> SUFFICES ASSUME ~Launch(e) PROVE FALSE
  BY DEF Launch, Guard, Fails, Ends, Goto, At
<1> USE DEF At, Goto
<1>1. ASSUME NEW f \in Executors, f # e, NEW place, Goto(f, place) PROVE FALSE
  BY <1>1
<1>2. ASSUME NEW place, place # "browsing", Goto(e, place) PROVE FALSE
  BY <1>2
<1>3. ASSUME NEW f \in Executors, Fails(f) \/ Retries(f) \/ Completes(f) PROVE FALSE
  BY <1>1, <1>2, <1>3 DEF Fails, Retries, Completes, Ends
<1>4. ASSUME NEW f \in Executors, NEW t, NEW place \in Places \ {"browsing"},
             NEW refused \in Places \ {"browsing"}, SaveThen(f, t, place, refused)
      PROVE  FALSE
  BY <1>1, <1>2, <1>4, SavedRow
<1>5. ASSUME NEW f \in Executors, Handle(f) PROVE FALSE
  BY <1>1, <1>2, <1>3, <1>5 DEF Handle, Authorise, Claim, Granted, Launch, Browsed, Check, FindStored,
     PutServerObject, Proceed, Stored
<1>6. ASSUME NEW f \in Executors, Start(f) \/ Wait(f) \/ Rethrow(f) \/ Finish(f) PROVE FALSE
  BY <1>4, <1>6 DEF Start, Wait, Rethrow, Finish, Places
<1>7. ASSUME NEW f \in Executors, Top(f) PROVE FALSE
  <2>1. PICK t : SaveThen(f, t, IF t.status = "ready" THEN "start" ELSE "leave", "unwind")
    BY <1>7 DEF Top
  <2> QED BY <1>4, <2>1 DEF Places
<1>8. ASSUME NEW f \in Executors,
             \/ Read(f) \/ Acquire(f) \/ Reread(f) \/ CheckHolder(f) \/ Owned(f) \/ Recover(f)
             \/ Backoff(f) \/ Leave(f) \/ Unwind(f) \/ Deliver(f) \/ RequestCancel(f) \/ Crash(f) \/ Restart(f)
      PROVE  FALSE
  BY <1>1, <1>2, <1>8 DEF Read, Acquire, Reread, CheckHolder, Owned, Recover, Backoff, Leave, Unwind,
    Deliver,
     RequestCancel, Crash, Restart, Answer
<1>9. (\E f \in Executors : Abort(f)) \/ (\E k \in Leases : Expire(k)) \/ Sweep \/ NewWindow \/ LoseTask
        \/ UNCHANGED vars => pc' = pc
  BY DEF Abort, Expire, Sweep, NewWindow, LoseTask, vars
<1> QED BY <1>5, <1>6, <1>7, <1>8, <1>9 DEF Next, Work

\* A browser is never launched for a run that has ended, by any executor that
\* was told to go on just before (browserCapability.ts:182).
THEOREM NoLateBrowser == Spec => NoBrowserAfterEnd
<1>1. IInv /\ [Next]_vars
        => [\A e \in Executors : At(e, "launch") /\ At(e, "browsing")' => ~Terminal(row)]_vars
  BY LaunchStep DEF IInv, LaunchOK
<1> QED BY <1>1, AlwaysInv, PTL DEF Spec, NoBrowserAfterEnd
=============================================================================
