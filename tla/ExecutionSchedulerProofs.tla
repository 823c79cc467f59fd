----------------------- MODULE ExecutionSchedulerProofs -----------------------
(***************************************************************************)
(* What is proved of the execution scheduler, for every plan and for any   *)
(* number of attempts: a publish happens once, handlers build on durable   *)
(* results and outcomes are never rewritten, each of them but for what an  *)
(* attempt undoes that began with an outdated graph; attempts stay within  *)
(* their budget, mutations run alone and nothing completes after an abort; *)
(* and whatever is blocked is blocked for a cause, so that run() returns   *)
(* with every task terminal if it returns at all.                          *)
(*                                                                         *)
(* The argument rests on four facts.  A graph is "good" on its own,        *)
(* whoever keeps it: its budgets and dependencies agree with its statuses. *)
(* Of the attempts only the one that may write is compared with the row,   *)
(* and only on what must not change any more: outcomes, and the tasks with *)
(* an outside effect that have fired.  A fired task is spent: it is        *)
(* recorded as started and in no status from which it could be started     *)
(* again, by this attempt or by what recovery makes of the row.  And an    *)
(* attempt that claims the run with an outdated graph comes after all that *)
(* did anything: from then on what they did is lost, and their work is no  *)
(* longer held against the row.                                            *)
(*                                                                         *)
(* The two walks over the graph, of readiness and of recovery, are         *)
(* recursive functions on task ids; that they satisfy their definitions    *)
(* is shown by least counterexample, and that one pass is enough by the    *)
(* order of the tasks, which come after those they depend on.              *)
(***************************************************************************)
EXTENDS ExecutionScheduler, WellFoundedInduction, TLAPS

Working == {"starting", "handler", "affected"}
Unfinished == Waits \union {"waiting_for_provider"}
Outcome == {"completed", "failed"}
Graphs == [Tasks -> TaskRecord]

\* The attempts of a task, by its status.
RecordOK(r, t) ==
  /\ r.attempts <= MaxAttempts[t]
  /\ r.status \in Unfinished \/ r.upstream => r.attempts < MaxAttempts[t]
  /\ r.status = "running" => r.started /\ r.attempts > 0
  /\ r.upstream => r.status = "blocked"

\* What may run or runs has its dependencies.
Founded(m, t) ==
  m[t].status \in {"ready", "running", "waiting_for_provider"} => DepsCompleted(m, t)

Good(m) == m \in Graphs /\ \A t \in Tasks : RecordOK(m[t], t) /\ Founded(m, t)

Busy(g, t) == pc[g][t] # "idle"

\* A later attempt took over with an outdated graph; it has not written it yet.
Lost(g) == \E k \in outdated : g < k
Rewinding(g) == g \in outdated /\ phase[g] = "begin"

PlaceOK(g, t) ==
  /\ pc[g][t] \in Working => mem[g][t].status = "running"
  /\ pc[g][t] \in {"waiting", "backoff"} => mem[g][t].status = "waiting_for_provider"
  /\ Busy(g, t) => DepsCompleted(row, t) \/ Lost(g)
  /\ Busy(g, t) /\ t \in Mutation => \A u \in Tasks \ {t} : ~Busy(g, u)

AttemptOK(g) ==
  /\ ~Claimed(g) => /\ g \notin aborted /\ g \notin broken /\ g \notin outdated
                    /\ \A t \in Tasks : effects[g][t] = 0
  /\ ~Executing(g) => \A t \in Tasks : ~Busy(g, t)
  /\ \A t \in Tasks : PlaceOK(g, t)

\* The attempt whose writes reach the row.
Holds(g) == CanWrite(g) /\ Alive(g) /\ phase[g] # "adopted"

\* The effect of a task has happened or may happen any time, in an attempt whose
\* work is not lost.
Did(g, t) == effects[g][t] > 0 \/ pc[g][t] = "handler"
Fired(t) == \E g \in Gens : Did(g, t) /\ ~Lost(g)
Spent(r) == r.started /\ ~r.upstream /\ r.status \notin Unfinished

KeepsOutcome(g, t) == ~Rewinding(g) /\ row[t].status \in Outcome => mem[g][t] = row[t]
KeepsSpent(g, t) == t \in External /\ Fired(t) => Spent(mem[g][t]) /\ pc[g][t] # "starting"
HolderOK(g) == Holds(g) => \A t \in Tasks : KeepsOutcome(g, t) /\ KeepsSpent(g, t)

Once(t) ==
  /\ \A g \in Gens : effects[g][t] <= 1 /\ (pc[g][t] = "handler" => effects[g][t] = 0)
  /\ \A g, h \in Gens : Did(g, t) /\ Did(h, t) /\ g < h => Overtaken(g, h)
  /\ Fired(t) => Spent(row[t])

\* Attempts take the run in the order of their numbers.
Order ==
  /\ \A g, h \in Gens : g < h /\ Claimed(h) => Claimed(g)
  /\ \A g \in Gens : authority = g => Claimed(g) /\ \A h \in Gens : g < h => ~Claimed(h)

IInv ==
  /\ TypeOK
  /\ Good(row)
  /\ Order
  /\ \A g \in Gens : Good(mem[g]) /\ AttemptOK(g) /\ HolderOK(g)
  /\ \A t \in External : Once(t)

-----------------------------------------------------------------------------
\* The operators on graphs.

LEMMA DepTyped == ASSUME NEW t \in Tasks, NEW d \in Deps[t] PROVE d \in Tasks
  BY PlanAssumption

LEMMA FreshGood == Good([t \in Tasks |-> Fresh(t)])
<1> DEFINE m == [t \in Tasks |-> Fresh(t)]
<1>1. m \in Graphs
  BY DEF Graphs, TaskRecord, Fresh, Status
<1>2. ASSUME NEW t \in Tasks PROVE RecordOK(m[t], t) /\ Founded(m, t)
  <2>1. MaxAttempts[t] \in Nat \ {0}
    BY PlanAssumption
  <2> QED BY <2>1 DEF RecordOK, Founded, Fresh, DepsCompleted, Unfinished
<1> QED BY <1>1, <1>2 DEF Good

\* The loop changes only waiting tasks and the statuses of unfinished ones.
LEMMA PassGood ==
  ASSUME NEW m, Good(m)
  PROVE  /\ Good(Pass(m))
         /\ \A t \in Tasks : m[t].status \notin Waits => Pass(m)[t] = m[t]
<1> PICK p : p = Pass(m)
  OBVIOUS
<1>1. ASSUME NEW t \in Tasks
      PROVE  /\ m[t] \in TaskRecord /\ p[t] \in TaskRecord
             /\ m[t].status \notin Waits => p[t] = m[t]
             /\ m[t].status \in Waits => p[t].status \in Waits \union {"blocked"}
             /\ RecordOK(p[t], t)
             /\ p[t].status = "ready" => m[t].status = "ready" \/ DepsCompleted(m, t)
  <2>1. m[t] \in TaskRecord /\ RecordOK(m[t], t)
    BY DEF Good, Graphs
  <2>2. CASE m[t].status \notin Waits
    BY <2>1, <2>2 DEF Pass
  <2>3. CASE m[t].status \in Waits
    <3>1. \/ p[t] = [m[t] EXCEPT !.status = "blocked", !.upstream = TRUE]
          \/ p[t] = [m[t] EXCEPT !.status = "ready"] /\ DepsCompleted(m, t)
          \/ p[t] = m[t]
      BY <2>3 DEF Pass
    <3> QED BY <2>1, <2>3, <3>1 DEF TaskRecord, Status, Terminal, RecordOK, Waits, Unfinished
  <2> QED BY <2>2, <2>3
<1>2. p \in Graphs
  BY <1>1 DEF Pass, Graphs
<1>3. ASSUME NEW t \in Tasks PROVE Founded(p, t)
  <2>1. Founded(m, t)
    BY DEF Good
  <2>2. DepsCompleted(m, t) => DepsCompleted(p, t)
    BY <1>1, DepTyped DEF DepsCompleted, Completed, Waits
  <2> QED BY <1>1, <2>1, <2>2 DEF Founded, Waits
<1> QED BY <1>1, <1>2, <1>3 DEF Good

LEMMA CancelRestGood ==
  ASSUME NEW m, Good(m)
  PROVE  /\ Good(CancelRest(m))
         /\ \A t \in Tasks : m[t].status \in Terminal => CancelRest(m)[t] = m[t]
         /\ \A t \in Tasks : Spent(m[t]) => Spent(CancelRest(m)[t])
         /\ \A t \in Tasks : Completed(CancelRest(m), t) => Completed(m, t)
<1> PICK p : p = CancelRest(m)
  OBVIOUS
<1>1. ASSUME NEW t \in Tasks
      PROVE  /\ m[t] \in TaskRecord /\ p[t] \in TaskRecord
             /\ m[t].status \in Terminal => p[t] = m[t]
             /\ p[t].status \in Terminal
             /\ Completed(p, t) => Completed(m, t)
             /\ RecordOK(p[t], t)
             /\ Spent(m[t]) => Spent(p[t])
  <2>1. m[t] \in TaskRecord /\ RecordOK(m[t], t)
    BY DEF Good, Graphs
  <2>2. CASE m[t].status \in Terminal
    BY <2>1, <2>2 DEF CancelRest, Completed
  <2>3. CASE m[t].status \notin Terminal
    <3>1. p[t] = [m[t] EXCEPT !.status = "cancelled"]
      BY <2>3 DEF CancelRest
    <3> QED BY <2>1, <2>3, <3>1
      DEF TaskRecord, Status, Terminal, RecordOK, Unfinished, Waits, Completed, Spent
  <2> QED BY <2>2, <2>3
<1>2. p \in Graphs
  BY <1>1 DEF CancelRest, Graphs
<1>3. ASSUME NEW t \in Tasks PROVE Founded(p, t)
  BY <1>1 DEF Founded, Terminal
<1> QED BY <1>1, <1>2, <1>3 DEF Good

\* Recovery rewrites no outcome and replays nothing that is spent.
LEMMA RecoverGood ==
  ASSUME NEW m, Good(m)
  PROVE  /\ Good(Recover(m))
         /\ \A t \in Tasks : m[t].status \in Outcome => Recover(m)[t] = m[t]
         /\ \A t \in External : Spent(m[t]) => Spent(Recover(m)[t])
<1> PICK r : r = [t \in Tasks |-> RecoverTask(m, t)]
  OBVIOUS
<1> PICK p : p = Recover(m)
  OBVIOUS
<1>1. ASSUME NEW t \in Tasks
      PROVE  /\ m[t] \in TaskRecord /\ r[t] \in TaskRecord
             /\ m[t].status \notin Resumable => r[t] = m[t]
             /\ r[t].status \in {"ready", "running", "waiting_for_provider"}
                  => r[t].status = "ready" /\ DepsCompleted(m, t)
             /\ r[t].status = "completed" => m[t].status = "completed"
             /\ RecordOK(r[t], t)
             /\ t \in External /\ Spent(m[t]) => Spent(r[t])
  <2>1. m[t] \in TaskRecord /\ RecordOK(m[t], t) /\ MaxAttempts[t] \in Nat \ {0}
    BY PlanAssumption DEF Good, Graphs
  <2>2. Founded(m, t)
    BY DEF Good
  <2>3. CASE m[t].status \notin Resumable
    <3>1. r[t] = m[t]
      BY <2>3 DEF RecoverTask
    <3> QED BY <2>1, <2>2, <2>3, <3>1 DEF Founded, Resumable
  <2>4. CASE m[t].status \in Resumable /\ m[t].started /\ t \in Uninterruptible \ Checkpointed
    <3>1. r[t] = [m[t] EXCEPT !.status = "blocked"]
      BY <2>4 DEF RecoverTask
    <3> QED BY <2>1, <2>4, <3>1
      DEF TaskRecord, Status, Terminal, RecordOK, Unfinished, Waits, Spent, Resumable
  <2>5. CASE m[t].status \in Resumable /\ ~(m[t].started /\ t \in Uninterruptible \ Checkpointed)
    <3>1. PICK n : n = IF m[t].status # "waiting_for_provider" /\ m[t].attempts > 0
                       THEN m[t].attempts - 1 ELSE m[t].attempts
      OBVIOUS
    <3>2. n \in Nat /\ n < MaxAttempts[t]
      BY <2>1, <2>5, <3>1 DEF TaskRecord, RecordOK, Unfinished, Resumable
    <3>3. r[t] = [m[t] EXCEPT !.status = IF DepsCompleted(m, t) THEN "ready" ELSE "pending",
                              !.started = FALSE, !.upstream = FALSE, !.attempts = n]
      <4>1. r[t] = [Reset(m, t) EXCEPT !.attempts =
                      IF m[t].status # "waiting_for_provider" /\ @ > 0 THEN @ - 1 ELSE @]
        BY <2>5 DEF RecoverTask
      <4> QED BY <2>1, <3>1, <4>1 DEF Reset, TaskRecord
    <3>4. /\ r[t].status = IF DepsCompleted(m, t) THEN "ready" ELSE "pending"
          /\ r[t].attempts = n /\ r[t].upstream = FALSE
          /\ r[t] \in TaskRecord
      BY <2>1, <3>2, <3>3 DEF TaskRecord, Status
    <3>5. ~(t \in External /\ Spent(m[t]))
      BY <2>5, PlanAssumption DEF Spent, Uninterruptible, Resumable, Unfinished
    <3>6. RecordOK(r[t], t)
      BY <2>1, <3>2, <3>4 DEF RecordOK
    <3> QED BY <2>1, <2>5, <3>4, <3>5, <3>6
  <2> QED BY <2>3, <2>4, <2>5
<1>2. \A t \in Tasks : DepsCompleted(m, t) => DepsCompleted(r, t)
  BY <1>1, DepTyped DEF DepsCompleted, Completed, Resumable
<1>3. ASSUME NEW t \in Tasks
      PROVE  /\ p[t] \in TaskRecord
             /\ r[t].status # "blocked" => p[t] = r[t]
             /\ p[t].status \in {"ready", "running", "waiting_for_provider"}
                  => DepsCompleted(r, t)
             /\ RecordOK(p[t], t)
             /\ Spent(r[t]) => Spent(p[t])
  <2>1. r[t] \in TaskRecord /\ RecordOK(r[t], t) /\ MaxAttempts[t] \in Nat \ {0}
    BY <1>1, PlanAssumption
  <2>2. CASE Shut(r, t) /\ Unlocked(r)[t]
    <3>1. p[t] = Reset(r, t)
      BY <2>2 DEF Recover
    <3> QED BY <2>1, <2>2, <3>1
      DEF Reset, Shut, TaskRecord, Status, RecordOK, Unfinished, Waits, Spent
  <2>3. CASE ~(Shut(r, t) /\ Unlocked(r)[t])
    <3>1. p[t] = r[t]
      BY <2>3 DEF Recover
    <3> QED BY <1>1, <1>2, <2>1, <3>1
  <2> QED BY <2>2, <2>3
<1>4. p \in Graphs
  BY <1>3 DEF Recover, Graphs
<1>5. ASSUME NEW t \in Tasks PROVE Founded(p, t)
  <2>1. DepsCompleted(r, t) => DepsCompleted(p, t)
    BY <1>3, DepTyped DEF DepsCompleted, Completed
  <2> QED BY <1>3, <2>1 DEF Founded
<1>6. \A t \in Tasks : m[t].status \in Outcome => p[t] = m[t]
  BY <1>1, <1>3 DEF Outcome, Resumable
<1>7. \A t \in External : t \in Tasks
  BY PlanAssumption
<1> QED BY <1>1, <1>3, <1>4, <1>5, <1>6, <1>7 DEF Good

-----------------------------------------------------------------------------
\* What a step of an attempt has to show.

\* The row is left alone, or the attempt that may write it writes its graph or
\* the record of a task it executes.
RowSaved(g) ==
  \/ row' = row
  \/ /\ Holds(g)
     /\ \/ row' = mem[g]
        \/ \E t \in Tasks : Busy(g, t) /\ row' = Record(g, t)

\* Who has the run is the last that took it.
LEMMA HolderIsLast ==
  ASSUME IInv, NEW g \in Gens, authority = g
  PROVE  /\ ~Lost(g)
         /\ \A h \in Gens : Claimed(h) /\ h # g => h < g
<1>1. \A h \in Gens : Claimed(h) => ~(g < h)
  BY DEF IInv, Order
<1>2. \A k \in outdated : k \in Gens /\ Claimed(k)
  BY DEF IInv, TypeOK, AttemptOK
<1> QED BY <1>1, <1>2, PlanAssumption DEF Lost, Gens

LEMMA DidClaimed ==
  ASSUME IInv, NEW g \in Gens, NEW t \in Tasks, Did(g, t) \/ Busy(g, t)
  PROVE  Claimed(g)
BY DEF IInv, AttemptOK, Did, Busy, Executing, Claimed

LEMMA RowStep ==
  ASSUME IInv, NEW g \in Gens, RowSaved(g)
  PROVE  /\ Good(row')
         /\ \A t \in Tasks : row[t].status \in Outcome =>
              row'[t] = row[t] \/ (authority \in outdated /\ phase[authority] = "begin")
         /\ \A h \in Gens, t \in Tasks :
              Busy(h, t) /\ DepsCompleted(row, t) => DepsCompleted(row', t) \/ Lost(h)
         /\ \A h \in Gens, t \in Tasks :
              Holds(h) /\ row'[t].status \in Outcome /\ (Rewinding(h) => row' = mem[h])
                => mem[h][t] = row'[t]
         /\ \A t \in External : Fired(t) => Spent(row'[t])
<1>1. CASE row' = row
  <2>1. Good(row)
    BY DEF IInv
  <2>2. \A h \in Gens, t \in Tasks :
          Holds(h) /\ ~Rewinding(h) /\ row[t].status \in Outcome => mem[h][t] = row[t]
    BY DEF IInv, HolderOK, KeepsOutcome
  <2>3. \A t \in External : Fired(t) => Spent(row[t])
    BY DEF IInv, Once
  <2> QED BY <1>1, <2>1, <2>2, <2>3
<1>2. CASE row' # row
  <2>1. Holds(g) /\ authority = g /\ Good(mem[g]) /\ Good(row)
    BY <1>2 DEF RowSaved, IInv, Holds, CanWrite
  <2>2. \A h \in Gens : Holds(h) => h = g
    BY <2>1 DEF Holds, CanWrite
  <2>3. ASSUME NEW t \in External, Fired(t) PROVE Spent(mem[g][t]) /\ Spent(row[t]) /\ t \in Tasks
    BY <2>1, <2>3, PlanAssumption DEF IInv, Once, HolderOK, KeepsSpent
  <2>4. CASE Rewinding(g)
    <3>1. row' = mem[g]
      BY <1>2, <2>4 DEF RowSaved, Rewinding, IInv, AttemptOK, Executing
    <3>2. ASSUME NEW h \in Gens, NEW t \in Tasks, Busy(h, t) PROVE Lost(h)
      <4>1. Claimed(h) /\ h # g
        BY <2>4, <3>2, DidClaimed DEF Rewinding, IInv, AttemptOK, Executing
      <4>2. h < g
        BY <2>1, <4>1, HolderIsLast
      <4> QED BY <2>4, <4>2 DEF Rewinding, Lost
    <3>3. authority \in outdated /\ phase[authority] = "begin"
      BY <2>1, <2>4 DEF Rewinding
    <3> QED BY <2>1, <2>2, <2>3, <3>1, <3>2, <3>3
  <2>5. CASE ~Rewinding(g)
    <3>1. \A t \in Tasks : row'[t] \in {row[t], mem[g][t]}
      BY <1>2, <2>1 DEF RowSaved, Record, Good, Graphs
    <3>2. row' \in Graphs
      BY <1>2, <2>1 DEF RowSaved, Record, Good, Graphs
    <3>3. \A t \in Tasks : row[t].status \in Outcome => mem[g][t] = row[t]
      BY <2>1, <2>5 DEF IInv, HolderOK, KeepsOutcome
    <3>4. \A t \in Tasks : row[t].status \in Outcome => row'[t] = row[t]
      BY <3>1, <3>3
    <3>5. \A t \in Tasks : DepsCompleted(row, t) => DepsCompleted(row', t)
      BY <3>4, DepTyped DEF DepsCompleted, Completed, Outcome
    <3>6. \A t \in Tasks : RecordOK(row'[t], t)
      BY <2>1, <3>1 DEF Good
    <3>7. ASSUME NEW t \in Tasks PROVE Founded(row', t)
      <4>1. CASE row' = mem[g]
        BY <2>1, <4>1 DEF Good
      <4>2. CASE row' # mem[g]
        <5>1. PICK u \in Tasks : Busy(g, u) /\ row' = Record(g, u)
          BY <1>2, <4>2 DEF RowSaved
        <5>2. DepsCompleted(row, u)
          BY <2>1, <5>1, HolderIsLast DEF IInv, AttemptOK, PlaceOK
        <5>3. t # u => row'[t] = row[t]
          BY <2>1, <5>1 DEF Record, Good, Graphs
        <5>4. Founded(row, t)
          BY <2>1 DEF Good
        <5> QED BY <3>5, <5>2, <5>3, <5>4 DEF Founded
      <4> QED BY <4>1, <4>2
    <3>8. \A t \in Tasks : row'[t].status \in Outcome => mem[g][t] = row'[t]
      BY <3>1, <3>3
    <3>9. \A t \in External : Fired(t) => Spent(row'[t])
      BY <2>3, <3>1
    <3> QED BY <2>2, <3>2, <3>4, <3>5, <3>6, <3>7, <3>8, <3>9 DEF Good
  <2> QED BY <2>4, <2>5
<1> QED BY <1>1, <1>2

\* A step of one attempt leaves the others as they are.
LEMMA StepInv ==
  ASSUME IInv, NEW g \in Gens, Claimed(g), RowSaved(g), UNCHANGED <<authority, aborted, outdated>>,
         broken' \in {broken, broken \union {g}}, effects' \in [Gens -> [Tasks -> Nat]],
         mem' \in [Gens -> Graphs], pc' \in [Gens -> [Tasks -> Places]],
         \E x \in {"top", "dispatch", "batch", "last", "done", "rejected"} :
           phase' \in {phase, [phase EXCEPT ![g] = x]},
         \A h \in Gens \ {g} : mem'[h] = mem[h] /\ pc'[h] = pc[h] /\ effects'[h] = effects[h],
         Good(mem'[g]), AttemptOK(g)', HolderOK(g)', \A t \in External : Once(t)',
         \A t \in External : Fired(t)' => Fired(t) \/ Holds(g)
  PROVE  IInv'
<1> USE DEF IInv
<1>1. /\ Good(row')
      /\ \A h \in Gens, t \in Tasks :
           Busy(h, t) /\ DepsCompleted(row, t) => DepsCompleted(row', t) \/ Lost(h)
  BY RowStep
<1>2. TypeOK'
  BY <1>1 DEF TypeOK, Good, Graphs
<1>3. Order'
  <2>1. \A h \in Gens : Claimed(h)' <=> Claimed(h)
    BY DEF TypeOK, Claimed
  <2> QED BY <2>1 DEF Order
<1>4. ASSUME NEW h \in Gens \ {g} PROVE Good(mem'[h]) /\ AttemptOK(h)' /\ HolderOK(h)'
  <2>1. mem'[h] = mem[h] /\ pc'[h] = pc[h] /\ phase'[h] = phase[h] /\ effects'[h] = effects[h]
    BY DEF TypeOK
  <2>2. AttemptOK(h)'
    <3>1. AttemptOK(h) /\ (Lost(h)' <=> Lost(h))
      BY DEF Lost
    <3>2. \A t \in Tasks : PlaceOK(h, t)'
      BY <1>1, <2>1, <3>1 DEF AttemptOK, PlaceOK, Busy
    <3> QED BY <2>1, <3>1, <3>2 DEF AttemptOK, Executing, Busy, Claimed
  <2>3. HolderOK(h)'
    <3>1. SUFFICES ASSUME Holds(h)', NEW t \in Tasks PROVE KeepsOutcome(h, t)' /\ KeepsSpent(h, t)'
      BY DEF HolderOK
    <3>2. Holds(h) /\ ~Holds(g) /\ (Rewinding(h)' <=> Rewinding(h))
      BY <2>1, <3>1 DEF Holds, CanWrite, Alive, Rewinding
    <3>3. KeepsOutcome(h, t)'
      BY <2>1, <3>2, RowStep DEF KeepsOutcome
    <3>4. KeepsSpent(h, t)'
      BY <2>1, <3>2 DEF HolderOK, KeepsSpent
    <3> QED BY <3>3, <3>4
  <2> QED BY <2>1, <2>2, <2>3
<1> QED BY <1>1, <1>2, <1>3, <1>4

\* A step of a task that is executed, on to the given place.
LEMMA TaskInv ==
  ASSUME IInv, NEW g \in Gens, NEW t \in Tasks, Executing(g), Busy(g, t), RowSaved(g),
         UNCHANGED <<authority, aborted, effects, outdated>>,
         broken' \in {broken, broken \union {g}},
         phase' \in {phase, [phase EXCEPT ![g] = "rejected"]},
         NEW place \in Places \ {"starting"}, Goto(g, t, place), mem' \in [Gens -> Graphs],
         \A h \in Gens \ {g} : mem'[h] = mem[h],
         \A u \in Tasks \ {t} : mem'[g][u] = mem[g][u],
         mem'[g][t] = mem[g][t] \/ mem[g][t].status \in {"running", "waiting_for_provider"},
         mem'[g][t].status \in {"ready", "running", "waiting_for_provider"}
           => mem[g][t].status \in {"ready", "running", "waiting_for_provider"},
         RecordOK(mem'[g][t], t), t \in External /\ Spent(mem[g][t]) => Spent(mem'[g][t]),
         place \in Working => mem'[g][t].status = "running",
         place \in {"waiting", "backoff"} => mem'[g][t].status = "waiting_for_provider",
         place = "handler"
           => Holds(g) /\ pc[g][t] = "starting" /\ row' = Record(g, t) /\ mem' = mem
  PROVE  IInv'
<1> USE DEF IInv
<1>1. /\ pc' \in [Gens -> [Tasks -> Places]]
      /\ \A h \in Gens \ {g} : pc'[h] = pc[h]
      /\ \A u \in Tasks \ {t} : pc'[g][u] = pc[g][u]
      /\ pc'[g][t] = place
  BY DEF TypeOK, Goto
<1>2. Executing(g)' /\ Claimed(g)' /\ Claimed(g) /\ ~Rewinding(g)' /\ ~Rewinding(g)
  BY DEF TypeOK, Executing, Claimed, Rewinding
<1>3. Good(mem'[g])
  <2>1. Good(mem[g]) /\ mem'[g] \in Graphs
    OBVIOUS
  <2>2. \A u \in Tasks : RecordOK(mem'[g][u], u)
    BY <2>1 DEF Good
  <2>3. \A u \in Tasks : Completed(mem[g], u) => Completed(mem'[g], u)
    BY DEF Completed
  <2>4. \A u \in Tasks : DepsCompleted(mem[g], u) => DepsCompleted(mem'[g], u)
    BY <2>3, DepTyped DEF DepsCompleted
  <2>5. \A u \in Tasks : Founded(mem'[g], u)
    BY <2>1, <2>4 DEF Good, Founded
  <2> QED BY <2>1, <2>2, <2>5 DEF Good
<1>4. AttemptOK(g)'
  <2>1. SUFFICES ASSUME NEW u \in Tasks PROVE PlaceOK(g, u)'
    BY <1>2 DEF AttemptOK, Executing
  <2>2. PlaceOK(g, u) /\ PlaceOK(g, t)
    BY DEF AttemptOK
  <2>3. Busy(g, u)' => Busy(g, u) /\ (DepsCompleted(row', u) \/ Lost(g)')
    BY <1>1, <2>2, RowStep DEF Busy, PlaceOK, Lost
  <2>4. Busy(g, u)' /\ u \in Mutation => \A v \in Tasks \ {u} : ~Busy(g, v)'
    BY <1>1, <2>2, <2>3 DEF Busy, PlaceOK
  <2> QED BY <1>1, <2>2, <2>3, <2>4 DEF PlaceOK
<1>5. ASSUME NEW u \in External
      PROVE  /\ \A h \in Gens : h # g \/ u # t => (Did(h, u)' <=> Did(h, u))
             /\ place # "handler" => (Did(g, t)' => Did(g, t))
             /\ Fired(u)' => Fired(u) \/ (u = t /\ place = "handler")
  <2>1. u \in Tasks
    BY PlanAssumption
  <2>2. /\ \A h \in Gens : h # g \/ u # t => (Did(h, u)' <=> Did(h, u))
        /\ place # "handler" => (Did(g, t)' => Did(g, t))
    BY <1>1, <2>1 DEF Did
  <2> QED BY <2>2 DEF Fired, Lost
<1>6. Holds(g)' => Holds(g)
  BY <1>2 DEF Holds, CanWrite, Alive, Executing
<1>7. place = "handler" => Spent(mem[g][t])
  <2>1. PlaceOK(g, t) /\ Good(mem[g])
    BY DEF AttemptOK
  <2> QED BY <2>1 DEF PlaceOK, Working, Good, RecordOK, Spent, Unfinished, Waits, Graphs, TaskRecord
<1>8. HolderOK(g)'
  <2>1. SUFFICES ASSUME Holds(g)', NEW u \in Tasks PROVE KeepsOutcome(g, u)' /\ KeepsSpent(g, u)'
    BY DEF HolderOK
  <2>2. KeepsOutcome(g, u)'
    BY <1>2, <1>6, <2>1, RowStep DEF KeepsOutcome, Outcome
  <2>3. KeepsSpent(g, u)
    BY <1>6, <2>1 DEF HolderOK
  <2>4. KeepsSpent(g, u)'
    BY <1>1, <1>5, <1>7, <2>3 DEF KeepsSpent
  <2> QED BY <2>2, <2>4
<1>9. ASSUME NEW u \in External PROVE Once(u)'
  <2>1. u \in Tasks /\ Once(u) /\ (Fired(u) => Spent(row'[u]))
    BY RowStep, PlanAssumption
  <2>2. CASE u # t \/ place # "handler"
    <3>1. \A h \in Gens : /\ pc'[h][u] = "handler" => pc[h][u] = "handler"
                          /\ Did(h, u)' => Did(h, u)
      BY <1>1, <1>5, <2>1, <2>2
    <3> QED BY <1>5, <2>1, <2>2, <3>1 DEF Once, Overtaken
  <2>3. CASE u = t /\ place = "handler"
    <3>1. Holds(g) /\ authority = g /\ ~Fired(t)
      BY <2>3 DEF HolderOK, KeepsSpent, Holds, CanWrite
    <3>2. ~Did(g, t) /\ effects[g][t] = 0
      BY <3>1, HolderIsLast DEF Fired, Did, TypeOK
    <3>3. ASSUME NEW h \in Gens, Did(h, t), h # g PROVE h < g /\ Overtaken(h, g)
      <4>1. Claimed(h) /\ Lost(h)
        BY <3>1, <3>3, DidClaimed DEF Fired
      <4>2. PICK k \in outdated : h < k
        BY <4>1 DEF Lost
      <4>3. k \in Gens /\ Claimed(k)
        BY DEF TypeOK, AttemptOK
      <4>4. h < g /\ (k # g => k < g)
        BY <3>1, <3>3, <4>1, <4>3, HolderIsLast
      <4>5. k <= g
        BY <4>3, <4>4, PlanAssumption DEF Gens
      <4> QED BY <4>2, <4>4, <4>5 DEF Overtaken
    <3>4. Spent(row'[t])
      BY <1>7, <2>3 DEF Record, Good, Graphs
    <3>5. \A h \in Gens : effects[h][t] <= 1 /\ (pc'[h][t] = "handler" => effects[h][t] = 0)
      BY <1>1, <2>1, <2>3, <3>2 DEF Once
    <3>6. \A h, k \in Gens : Did(h, t)' /\ Did(k, t)' /\ h < k => Overtaken(h, k)'
      <4>1. SUFFICES ASSUME NEW h \in Gens, NEW k \in Gens, Did(h, t)', Did(k, t)', h < k
                     PROVE  Overtaken(h, k)
        BY DEF Overtaken
      <4>2. h # k /\ ~(k < h)
        BY <4>1, PlanAssumption DEF Gens
      <4>3. CASE h # g /\ k # g
        BY <1>5, <2>1, <2>3, <4>1, <4>3 DEF Once
      <4>4. CASE k = g
        BY <1>5, <2>3, <3>3, <4>1, <4>2, <4>4
      <4>5. CASE h = g
        BY <1>5, <2>3, <3>3, <4>1, <4>2, <4>5
      <4> QED BY <4>3, <4>4, <4>5
    <3> QED BY <2>3, <3>4, <3>5, <3>6 DEF Once
  <2> QED BY <2>2, <2>3
<1>10. effects' \in [Gens -> [Tasks -> Nat]]
  BY DEF TypeOK
<1> QED BY <1>1, <1>2, <1>3, <1>4, <1>5, <1>8, <1>9, <1>10, StepInv

-----------------------------------------------------------------------------
\* The steps of execute().

\* What the two outcomes of a write have in common.
LEMMA WriteSaves ==
  ASSUME IInv, NEW g \in Gens, NEW t \in Tasks, Executing(g), Busy(g, t), NEW new,
         new = mem[g] \/ new = Record(g, t), Written(g, new) \/ NotWritten(g, new)
  PROVE  RowSaved(g) /\ broken' \in {broken, broken \union {g}}
  BY DEF Written, NotWritten, RowSaved, Holds, Alive, Executing

\* In a task's steps its record stays as it is but for the status.
LEMMA StatusStep ==
  ASSUME IInv, NEW g \in Gens, NEW t \in Tasks, NEW s \in Status,
         mem' = [mem EXCEPT ![g][t].status = s],
         mem[g][t].status \in {"running", "waiting_for_provider"},
         s \in Unfinished \union {"running"} => mem[g][t].attempts < MaxAttempts[t],
         s # "running"
  PROVE  /\ mem' \in [Gens -> Graphs]
         /\ \A h \in Gens \ {g} : mem'[h] = mem[h]
         /\ \A u \in Tasks \ {t} : mem'[g][u] = mem[g][u]
         /\ mem'[g][t].status = s /\ RecordOK(mem'[g][t], t)
         /\ s \notin Unfinished /\ Spent(mem[g][t]) => Spent(mem'[g][t])
<1> PICK r : r = [mem[g][t] EXCEPT !.status = s]
  OBVIOUS
<1>1. mem \in [Gens -> Graphs] /\ mem[g][t] \in TaskRecord /\ RecordOK(mem[g][t], t)
  BY DEF IInv, TypeOK, Graphs, Good
<1>2. r \in TaskRecord /\ r.status = s /\ RecordOK(r, t)
  BY <1>1 DEF TaskRecord, RecordOK, Unfinished, Waits
<1>3. s \notin Unfinished /\ Spent(mem[g][t]) => Spent(r)
  BY <1>1 DEF Spent, TaskRecord
<1>4. mem' = [mem EXCEPT ![g] = [mem[g] EXCEPT ![t] = r]]
  BY <1>1
<1> QED BY <1>1, <1>2, <1>3, <1>4 DEF Graphs

\* A write of a task, on to the given place or out with an exception.
LEMMA WriteInv ==
  ASSUME IInv, NEW g \in Gens, NEW t \in Tasks,
         \/ TaskStart(g, t)
         \/ TaskWaits(g, t)
         \/ TaskFinish(g, t)
         \/ TaskRefused(g, t)
  PROVE  IInv'
<1>1. Executing(g) /\ Busy(g, t) /\ PlaceOK(g, t) /\ mem' = mem
  BY DEF TaskStart, TaskWaits, TaskFinish, TaskRefused, WriteThen, At, Busy, IInv, AttemptOK
<1>2. UNCHANGED <<authority, aborted, effects, outdated>>
  BY DEF TaskStart, TaskWaits, TaskFinish, TaskRefused, WriteThen
<1>3. RowSaved(g) /\ broken' \in {broken, broken \union {g}}
  BY <1>1, WriteSaves DEF TaskStart, TaskWaits, TaskFinish, TaskRefused, WriteThen
<1>4. mem' \in [Gens -> Graphs] /\ RecordOK(mem[g][t], t)
  BY <1>1 DEF IInv, TypeOK, Good, Graphs
<1>5. PICK place \in Places \ {"starting"} :
        /\ Goto(g, t, place)
        /\ phase' \in {phase, [phase EXCEPT ![g] = "rejected"]}
        /\ place \notin {"affected", "waiting"}
        /\ place = "backoff" => pc[g][t] = "waiting"
        /\ place = "handler" => pc[g][t] = "starting" /\ Written(g, Record(g, t))
  BY DEF TaskStart, TaskWaits, TaskFinish, TaskRefused, WriteThen, Throw, At, Places
<1>6. /\ place \in Working => mem[g][t].status = "running"
      /\ place \in {"waiting", "backoff"} => mem[g][t].status = "waiting_for_provider"
  BY <1>1, <1>5 DEF PlaceOK, Working
<1>7. place = "handler" => Holds(g) /\ row' = Record(g, t)
  BY <1>1, <1>5 DEF Written, Holds, Alive, Executing
<1> HIDE DEF Goto
<1> QED BY <1>1, <1>2, <1>3, <1>4, <1>5, <1>6, <1>7, TaskInv

\* The end of a handler or of its backoff: only the task's status and place.
LEMMA LocalInv ==
  ASSUME IInv, NEW g \in Gens, NEW t \in Tasks, Executing(g), Busy(g, t),
         UNCHANGED <<row, authority, phase, aborted, broken, effects, outdated>>,
         NEW s \in Status, NEW place \in Places \ {"starting"}, Goto(g, t, place),
         mem' = [mem EXCEPT ![g][t].status = s],
         \/ pc[g][t] \in Working
         \/ pc[g][t] = "backoff",
         s # "running", s \in Unfinished => mem[g][t].attempts < MaxAttempts[t],
         s \in Unfinished /\ t \in External => mem[g][t].status = "waiting_for_provider",
         place \in {"waiting", "finish", "refused"},
         place = "waiting" => s = "waiting_for_provider"
  PROVE  IInv'
<1>1. PlaceOK(g, t)
  BY DEF IInv, AttemptOK
<1>2. mem[g][t].status \in {"running", "waiting_for_provider"}
  BY <1>1 DEF PlaceOK
<1>3. /\ mem' \in [Gens -> Graphs]
      /\ \A h \in Gens \ {g} : mem'[h] = mem[h]
      /\ \A u \in Tasks \ {t} : mem'[g][u] = mem[g][u]
      /\ mem'[g][t].status = s /\ RecordOK(mem'[g][t], t)
      /\ s \notin Unfinished /\ Spent(mem[g][t]) => Spent(mem'[g][t])
  BY <1>2, StatusStep
<1>4. t \in External /\ Spent(mem[g][t]) => Spent(mem'[g][t])
  BY <1>3 DEF Spent, Unfinished
<1>5. RowSaved(g)
  BY DEF RowSaved
<1> QED BY <1>2, <1>3, <1>4, <1>5, TaskInv DEF Working

LEMMA SettleStep ==
  ASSUME NEW g \in Gens, NEW t \in Tasks, NEW status \in Status, Settle(g, t, status)
  PROVE  \E s \in {status, "cancelled"} :
           mem' = [mem EXCEPT ![g][t].status = s]
  BY DEF Settle

LEMMA ResultInv ==
  ASSUME IInv, NEW g \in Gens, NEW t \in Tasks,
         \/ Resolve(g, t)
         \/ Fail(g, t)
         \/ RefuseAdmission(g, t)
         \/ BackoffOver(g, t)
         \/ Retry(g, t)
  PROVE  IInv'
<1>1. Executing(g) /\ Busy(g, t) /\ PlaceOK(g, t) /\ mem[g][t] \in TaskRecord /\ RecordOK(mem[g][t], t)
  BY DEF Resolve, Fail, RefuseAdmission, BackoffOver, Retry, InHandler, At, Busy, IInv, AttemptOK,
         Good, Graphs
<1>2. UNCHANGED <<row, authority, phase, aborted, broken, effects, outdated>>
  BY DEF Resolve, Fail, RefuseAdmission, BackoffOver, Retry
<1>3. pc[g][t] \in Working \/ pc[g][t] = "backoff"
  BY DEF Resolve, Fail, RefuseAdmission, BackoffOver, Retry, InHandler, At, Working
<1>4. CASE Resolve(g, t) \/ Fail(g, t) \/ RefuseAdmission(g, t)
  <2>1. PICK status \in {"completed", "failed", "blocked"}, place \in {"finish", "refused"} :
          Settle(g, t, status) /\ Goto(g, t, place)
    BY <1>4 DEF Resolve, Fail, RefuseAdmission
  <2>2. PICK s \in {status, "cancelled"} : mem' = [mem EXCEPT ![g][t].status = s]
    BY <2>1, SettleStep DEF Status, Terminal
  <2> QED BY <1>1, <1>2, <1>3, <2>1, <2>2, LocalInv
    DEF Status, Terminal, Places, Unfinished, Waits
<1>5. CASE BackoffOver(g, t)
  <2>1. PICK s \in {"ready", "cancelled"} : mem' = [mem EXCEPT ![g][t].status = s]
    BY <1>5, SettleStep DEF BackoffOver, Status
  <2>2. mem[g][t].status = "waiting_for_provider" /\ mem[g][t].attempts < MaxAttempts[t]
    BY <1>1, <1>5 DEF BackoffOver, At, PlaceOK, RecordOK, Unfinished
  <2>3. Goto(g, t, "finish")
    BY <1>5 DEF BackoffOver
  <2> QED BY <1>1, <1>2, <1>3, <2>1, <2>2, <2>3, LocalInv
    DEF Status, Terminal, Places, Unfinished, Waits
<1>6. CASE Retry(g, t)
  <2>1. mem[g][t].attempts < MaxAttempts[t] /\ mem[g][t].status = "running"
    BY <1>1, <1>6 DEF Retry, InHandler, At, PlaceOK, Working
  <2>2. t \notin External
    BY <1>1, <2>1, PlanAssumption DEF RecordOK, TaskRecord
  <2>3. Goto(g, t, "waiting") /\ mem' = [mem EXCEPT ![g][t].status = "waiting_for_provider"]
    BY <1>6 DEF Retry
  <2> QED BY <1>1, <1>2, <1>3, <2>1, <2>2, <2>3, LocalInv DEF Status, Places
<1> QED BY <1>4, <1>5, <1>6

LEMMA EffectInv == ASSUME IInv, NEW g \in Gens, NEW t \in Tasks, Effect(g, t) PROVE IInv'
<1>1. /\ Executing(g) /\ pc[g][t] = "handler" /\ Claimed(g)
      /\ UNCHANGED <<row, authority, mem, phase, aborted, broken, outdated>>
      /\ effects' = IF t \in External THEN [effects EXCEPT ![g][t] = @ + 1] ELSE effects
      /\ Goto(g, t, "affected")
  BY DEF Effect, At, Executing, Claimed
<1>2. /\ pc' \in [Gens -> [Tasks -> Places]]
      /\ \A h \in Gens \ {g} : pc'[h] = pc[h]
      /\ \A u \in Tasks \ {t} : pc'[g][u] = pc[g][u]
      /\ pc'[g][t] = "affected"
  BY <1>1 DEF IInv, TypeOK, Goto, Places
<1>3. effects \in [Gens -> [Tasks -> Nat]] /\ effects' \in [Gens -> [Tasks -> Nat]]
  BY <1>1 DEF IInv, TypeOK
<1>4. /\ t \in External => effects'[g][t] = effects[g][t] + 1
      /\ \A h \in Gens \ {g} : effects'[h] = effects[h]
      /\ \A u \in Tasks \ {t} : effects'[g][u] = effects[g][u]
      /\ t \notin External => effects' = effects
  BY <1>1, <1>3
<1>5. ASSUME NEW u \in Tasks
      PROVE  (\A h \in Gens : Did(h, u)' => Did(h, u)) /\ (Fired(u)' => Fired(u))
  <2>1. ASSUME NEW h \in Gens, Did(h, u)' PROVE Did(h, u)
    BY <1>1, <1>2, <1>4, <2>1 DEF Did
  <2> QED BY <1>1, <2>1 DEF Fired, Lost
<1>6. ASSUME NEW u \in External PROVE Once(u)'
  <2>1. u \in Tasks /\ Once(u)
    BY PlanAssumption DEF IInv
  <2>2. ASSUME NEW h \in Gens
        PROVE  effects'[h][u] <= 1 /\ (pc'[h][u] = "handler" => effects'[h][u] = 0)
    <3>1. effects[h][u] <= 1 /\ (pc[h][u] = "handler" => effects[h][u] = 0)
      BY <2>1 DEF Once
    <3>2. CASE h = g /\ u = t
      BY <1>1, <1>2, <1>4, <3>1, <3>2
    <3>3. CASE h # g \/ u # t
      BY <1>2, <1>4, <2>1, <3>1, <3>3
    <3> QED BY <3>2, <3>3
  <2> QED BY <1>1, <1>5, <2>1, <2>2 DEF Once, Overtaken
<1>7. AttemptOK(g)'
  <2>1. AttemptOK(g)
    BY DEF IInv
  <2>2. \A u \in Tasks : PlaceOK(g, u)'
    BY <1>1, <1>2, <2>1 DEF AttemptOK, PlaceOK, Busy, Working, Lost
  <2> QED BY <1>1, <2>1, <2>2 DEF AttemptOK, Executing, Claimed
<1>8. HolderOK(g)'
  <2>1. HolderOK(g) /\ (Holds(g)' => Holds(g))
    BY <1>1 DEF IInv, Holds, CanWrite, Alive
  <2>2. \A u \in Tasks : KeepsOutcome(g, u) => KeepsOutcome(g, u)'
    BY <1>1 DEF KeepsOutcome, Rewinding
  <2>3. \A u \in Tasks : KeepsSpent(g, u) => KeepsSpent(g, u)'
    BY <1>1, <1>2, <1>5 DEF KeepsSpent
  <2> QED BY <2>1, <2>2, <2>3 DEF HolderOK
<1>9. RowSaved(g)
  BY <1>1 DEF RowSaved
<1>10. Good(mem'[g]) /\ mem' \in [Gens -> Graphs]
  BY <1>1 DEF IInv, TypeOK, Graphs
<1>11. \A u \in External : Fired(u)' => Fired(u)
  BY <1>5, PlanAssumption
<1>12. \E x \in {"top", "dispatch", "batch", "last", "done", "rejected"} :
         phase' \in {phase, [phase EXCEPT ![g] = x]}
  BY <1>1
<1> QED BY <1>1, <1>2, <1>3, <1>4, <1>6, <1>7, <1>8, <1>9, <1>10, <1>11, <1>12, StepInv

-----------------------------------------------------------------------------
\* The steps of run(), with no task executing.

LEMMA WholeSaves ==
  ASSUME IInv, NEW g \in Gens, Alive(g), phase[g] # "adopted",
         Written(g, mem[g]) \/ NotWritten(g, mem[g])
  PROVE  RowSaved(g) /\ broken' \in {broken, broken \union {g}}
  BY DEF Written, NotWritten, RowSaved, Holds

LEMMA LoopInv ==
  ASSUME IInv, NEW g \in Gens, Alive(g), phase[g] # "adopted", \A t \in Tasks : ~Busy(g, t),
         UNCHANGED <<authority, pc, aborted, effects, outdated>>,
         Rewinding(g) => row' = mem[g] \/ g \in broken', RowSaved(g),
         broken' \in {broken, broken \union {g}},
         NEW x \in {"top", "dispatch", "last", "done", "rejected"},
         phase' = [phase EXCEPT ![g] = x],
         mem' \in [Gens -> Graphs], \A h \in Gens \ {g} : mem'[h] = mem[h], Good(mem'[g]),
         \A t \in Tasks : mem[g][t].status \in Outcome => mem'[g][t] = mem[g][t],
         \A t \in External : Spent(mem[g][t]) => Spent(mem'[g][t])
  PROVE  IInv'
<1>1. AttemptOK(g)'
  <2>1. phase'[g] = x
    BY DEF IInv, TypeOK
  <2>2. \A t \in Tasks : ~Busy(g, t)' /\ pc'[g][t] = "idle"
    BY DEF Busy
  <2>3. \A t \in Tasks : PlaceOK(g, t)'
    BY <2>2 DEF PlaceOK, Working
  <2> QED BY <2>1, <2>2, <2>3 DEF AttemptOK, Claimed
<1>2. \A t \in Tasks : Fired(t)' <=> Fired(t)
  BY DEF Fired, Did, Lost
<1>3. HolderOK(g)'
  <2>1. SUFFICES ASSUME Holds(g)', NEW t \in Tasks PROVE KeepsOutcome(g, t)' /\ KeepsSpent(g, t)'
    BY DEF HolderOK
  <2>2. Holds(g) /\ g \notin broken'
    BY <2>1 DEF Holds, CanWrite
  <2>3. KeepsOutcome(g, t)'
    BY <2>2, RowStep DEF KeepsOutcome, Outcome
  <2>4. KeepsSpent(g, t)'
    BY <1>2, <2>2 DEF IInv, HolderOK, KeepsSpent
  <2> QED BY <2>3, <2>4
<1>4. \A t \in External : t \in Tasks /\ Once(t)'
  BY <1>2, RowStep, PlanAssumption DEF IInv, Once, Did, Overtaken
<1>5. pc' \in [Gens -> [Tasks -> Places]] /\ effects' \in [Gens -> [Tasks -> Nat]] /\ Claimed(g)
  BY DEF IInv, TypeOK, Alive, Claimed
<1> QED BY <1>1, <1>2, <1>3, <1>4, <1>5, StepInv

\* A write of the graph, after which the attempt goes on or throws.
LEMMA SaveInv ==
  ASSUME IInv, NEW g \in Gens, Alive(g), ~Executing(g), phase[g] # "adopted",
         Written(g, mem[g]) \/ NotWritten(g, mem[g]),
         UNCHANGED <<authority, mem, pc, aborted, effects, outdated>>,
         NEW x \in {"top", "done", "rejected"}, phase' = [phase EXCEPT ![g] = x]
  PROVE  IInv'
<1>1. \A t \in Tasks : ~Busy(g, t)
  BY DEF IInv, AttemptOK
<1>2. mem' \in [Gens -> Graphs] /\ Good(mem'[g])
  BY DEF IInv, TypeOK, Graphs
<1>3. row' = mem[g] \/ g \in broken'
  BY DEF Written, NotWritten
<1> QED BY <1>1, <1>2, <1>3, WholeSaves, LoopInv

LEMMA BeginInv == ASSUME IInv, NEW g \in Gens, Begin(g) \/ Last(g) PROVE IInv'
<1>1. /\ Alive(g) /\ ~Executing(g) /\ phase[g] # "adopted"
      /\ UNCHANGED <<authority, mem, pc, aborted, effects, outdated>>
  BY DEF Begin, Last, Alive, Executing
<1>2. /\ Written(g, mem[g]) \/ NotWritten(g, mem[g])
      /\ \E x \in {"top", "done", "rejected"} : phase' = [phase EXCEPT ![g] = x]
  BY DEF Begin, Last
<1> QED BY <1>1, <1>2, SaveInv

LEMMA TopInv == ASSUME IInv, NEW g \in Gens, Top(g) PROVE IInv'
<1>1. /\ Alive(g) /\ phase[g] # "adopted" /\ ~Rewinding(g)
      /\ UNCHANGED <<row, authority, pc, aborted, broken, effects, outdated>>
      /\ phase[g] = "top" \/ pc[g] = Idle
  BY DEF Top, Alive, Rewinding
<1>2. \A t \in Tasks : ~Busy(g, t)
  BY <1>1 DEF Busy, Idle, IInv, AttemptOK, Executing
<1>3. Good(mem[g]) /\ mem \in [Gens -> Graphs]
  BY DEF IInv, TypeOK, Graphs
<1> PICK m : m = IF g \in aborted THEN CancelRest(mem[g]) ELSE Pass(mem[g])
  OBVIOUS
<1>4. /\ mem' = [mem EXCEPT ![g] = m]
      /\ \E x \in {"dispatch", "last"} : phase' = [phase EXCEPT ![g] = x]
  BY DEF Top
<1>5. /\ Good(m)
      /\ \A t \in Tasks : mem[g][t].status \in Outcome => m[t] = mem[g][t]
      /\ \A t \in Tasks : Spent(mem[g][t]) => Spent(m[t])
  BY <1>3, CancelRestGood, PassGood DEF Outcome, Terminal, Waits, Spent, Unfinished
<1>6. /\ mem' \in [Gens -> Graphs] /\ mem'[g] = m
      /\ \A h \in Gens \ {g} : mem'[h] = mem[h]
  BY <1>3, <1>4, <1>5 DEF Good
<1>7. RowSaved(g) /\ \A t \in External : t \in Tasks
  BY <1>1, PlanAssumption DEF RowSaved
<1> QED BY <1>1, <1>2, <1>4, <1>5, <1>6, <1>7, LoopInv

LEMMA BatchIsReady ==
  ASSUME NEW R \in SUBSET Tasks
  PROVE  /\ BatchOf(R) \subseteq R
         /\ \A t, u \in BatchOf(R) : t \in Mutation => t = u
  BY PlanAssumption DEF BatchOf, Tasks

LEMMA StartInv ==
  ASSUME IInv, NEW g \in Gens, phase[g] = "dispatch", Written(g, mem[g]),
         StartBatch(g, BatchOf(ReadyTasks(mem[g]))), phase' = [phase EXCEPT ![g] = "batch"],
         UNCHANGED <<authority, aborted, effects, outdated>>
  PROVE  IInv'
<1> PICK B : B = BatchOf(ReadyTasks(mem[g]))
  OBVIOUS
<1>0. PICK m : m = [t \in Tasks |->
       IF t \notin B THEN mem[g][t]
       ELSE IF t \in NoHandler[g] THEN [mem[g][t] EXCEPT !.status = "blocked"]
       ELSE [mem[g][t] EXCEPT !.status = "running", !.started = TRUE, !.attempts = @ + 1]]
  OBVIOUS
<1>1. /\ B \subseteq ReadyTasks(mem[g]) /\ B \subseteq Tasks
      /\ \A t, u \in B : t \in Mutation => t = u
  BY BatchIsReady DEF ReadyTasks
<1>2. mem \in [Gens -> Graphs] /\ Good(mem[g]) /\ pc \in [Gens -> [Tasks -> Places]]
  BY DEF IInv, TypeOK, Graphs
<1>3. mem' = [mem EXCEPT ![g] = m]
  BY <1>0 DEF StartBatch
<1>4. /\ pc' \in [Gens -> [Tasks -> Places]]
      /\ \A h \in Gens \ {g} : pc'[h] = pc[h]
      /\ \A t \in Tasks : pc'[g][t] = IF t \notin B THEN "idle"
                                      ELSE IF t \in NoHandler[g] THEN "finish" ELSE "starting"
  BY <1>2 DEF StartBatch, Places
<1>5. ASSUME NEW t \in Tasks
      PROVE  /\ m[t] \in TaskRecord /\ RecordOK(m[t], t)
             /\ t \notin B => m[t] = mem[g][t]
             /\ t \in B => mem[g][t].status = "ready" /\ m[t].status \in {"blocked", "running"}
             /\ t \in B \ NoHandler[g] => m[t].status = "running"
  <2>1. mem[g][t] \in TaskRecord /\ RecordOK(mem[g][t], t) /\ MaxAttempts[t] \in Nat
    BY <1>2, PlanAssumption DEF Good, Graphs
  <2>2. CASE t \notin B
    BY <1>0, <2>1, <2>2
  <2>3. CASE t \in B /\ t \in NoHandler[g]
    <3>1. m[t] = [mem[g][t] EXCEPT !.status = "blocked"] /\ mem[g][t].status = "ready"
      BY <1>0, <1>1, <2>3 DEF ReadyTasks
    <3> QED BY <2>1, <2>3, <3>1 DEF TaskRecord, Status, Terminal, RecordOK, Unfinished, Waits
  <2>4. CASE t \in B /\ t \notin NoHandler[g]
    <3>1. /\ m[t] = [mem[g][t] EXCEPT !.status = "running", !.started = TRUE, !.attempts = @ + 1]
          /\ mem[g][t].status = "ready"
      BY <1>0, <1>1, <2>4 DEF ReadyTasks
    <3>2. PICK n : n = mem[g][t].attempts + 1
      OBVIOUS
    <3>3. n \in Nat
      BY <2>1, <3>2 DEF TaskRecord
    <3>4. m[t] = [mem[g][t] EXCEPT !.status = "running", !.started = TRUE, !.attempts = n]
      BY <2>1, <3>1, <3>2 DEF TaskRecord
    <3>5. /\ m[t] \in TaskRecord /\ m[t].status = "running" /\ m[t].started
          /\ m[t].attempts = n /\ m[t].upstream = mem[g][t].upstream
      BY <2>1, <3>3, <3>4 DEF TaskRecord, Status
    <3>6. mem[g][t].attempts < MaxAttempts[t] /\ mem[g][t].attempts \in Nat /\ ~mem[g][t].upstream
      BY <2>1, <3>1 DEF RecordOK, Unfinished, Waits, TaskRecord
    <3>7. RecordOK(m[t], t)
      BY <2>1, <3>2, <3>5, <3>6 DEF RecordOK, Unfinished, Waits
    <3> QED BY <2>4, <3>1, <3>5, <3>7
  <2> QED BY <2>2, <2>3, <2>4
<1>6. Good(m)
  <2>1. m \in Graphs
    BY <1>0, <1>5 DEF Graphs
  <2>2. ASSUME NEW t \in Tasks PROVE Founded(m, t)
    <3>1. Founded(mem[g], t)
      BY <1>2 DEF Good
    <3>2. DepsCompleted(mem[g], t) => DepsCompleted(m, t)
      BY <1>5, DepTyped DEF DepsCompleted, Completed
    <3> QED BY <1>5, <3>1, <3>2 DEF Founded
  <2> QED BY <1>5, <2>1, <2>2 DEF Good
<1>7. /\ mem' \in [Gens -> Graphs] /\ mem'[g] = m
      /\ \A h \in Gens \ {g} : mem'[h] = mem[h]
  BY <1>2, <1>3, <1>6 DEF Good
<1>8. Holds(g) /\ RowSaved(g) /\ row' = mem[g] /\ broken' = broken /\ Claimed(g)
  BY DEF Written, Holds, RowSaved, Alive, Claimed
<1>9. phase'[g] = "batch"
  BY DEF IInv, TypeOK
<1>10. \A t \in Tasks : ~Busy(g, t)
  BY DEF IInv, AttemptOK, Executing
<1>11. ASSUME NEW t \in Tasks
       PROVE  (\A h \in Gens : Did(h, t)' <=> Did(h, t)) /\ (Fired(t)' <=> Fired(t))
  <2>1. \A h \in Gens : Did(h, t)' <=> Did(h, t)
    BY <1>4, <1>10 DEF Did, Busy
  <2> QED BY <2>1 DEF Fired, Lost
<1>12. AttemptOK(g)'
  <2>1. ASSUME NEW t \in Tasks PROVE PlaceOK(g, t)'
    <3>1. t \in B => DepsCompleted(mem[g], t)
      BY <1>2, <1>5 DEF Good, Founded
    <3> QED BY <1>1, <1>4, <1>5, <1>7, <1>8, <3>1 DEF PlaceOK, Working, Busy
  <2> QED BY <1>9, <2>1 DEF AttemptOK, Executing, Claimed
<1>13. HolderOK(g)'
  <2>1. ASSUME NEW t \in Tasks PROVE KeepsOutcome(g, t)'
    BY <1>5, <1>7, <1>8 DEF KeepsOutcome, Outcome
  <2>2. ASSUME NEW t \in Tasks PROVE KeepsSpent(g, t)'
    <3>1. t \in External /\ Fired(t) => Spent(mem[g][t])
      BY <1>8 DEF IInv, HolderOK, KeepsSpent
    <3>2. Spent(mem[g][t]) => t \notin B
      BY <1>5 DEF Spent, Unfinished, Waits
    <3> QED BY <1>4, <1>5, <1>7, <1>11, <3>1, <3>2 DEF KeepsSpent
  <2> QED BY <2>1, <2>2 DEF HolderOK
<1>14. ASSUME NEW t \in External PROVE Once(t)' /\ t \in Tasks
  <2>1. t \in Tasks /\ Once(t) /\ (Fired(t) => Spent(row'[t]))
    BY <1>8, RowStep, PlanAssumption DEF IInv
  <2>2. \A h \in Gens : pc'[h][t] = "handler" => pc[h][t] = "handler"
    BY <1>4, <2>1
  <2> QED BY <1>11, <2>1, <2>2 DEF Once, Overtaken
<1>15. effects' \in [Gens -> [Tasks -> Nat]] /\ broken' \in {broken, broken \union {g}}
  BY <1>8 DEF IInv, TypeOK
<1> QED BY <1>4, <1>6, <1>7, <1>8, <1>11, <1>12, <1>13, <1>14, <1>15, StepInv

LEMMA DispatchInv == ASSUME IInv, NEW g \in Gens, Dispatch(g) PROVE IInv'
<1>1. /\ Alive(g) /\ ~Executing(g) /\ phase[g] # "adopted"
      /\ UNCHANGED <<authority, aborted, effects, outdated>>
  BY DEF Dispatch, Alive, Executing
<1>2. CASE Written(g, mem[g]) /\ ReadyTasks(mem[g]) # {}
  <2>1. phase[g] = "dispatch" /\ ~NotWritten(g, mem[g])
    BY <1>2 DEF Dispatch, Written, NotWritten, CanWrite
  <2> QED BY <1>1, <1>2, <2>1, StartInv DEF Dispatch
<1>3. CASE ~(Written(g, mem[g]) /\ ReadyTasks(mem[g]) # {})
  <2>1. UNCHANGED <<mem, pc>> /\ (Written(g, mem[g]) \/ NotWritten(g, mem[g]))
    BY <1>3 DEF Dispatch
  <2>2. \E x \in {"top", "done", "rejected"} : phase' = [phase EXCEPT ![g] = x]
    BY <1>3 DEF Dispatch
  <2> QED BY <1>1, <2>1, <2>2, SaveInv
<1> QED BY <1>2, <1>3

-----------------------------------------------------------------------------
\* What happens around the process.

LEMMA AbortInv == ASSUME IInv, NEW g \in Gens, Abort(g) PROVE IInv'
<1> USE DEF IInv
<1>1. /\ UNCHANGED <<row, authority, mem, phase, pc, broken, effects, outdated>>
      /\ aborted' = aborted \union {g} /\ Claimed(g)
  BY DEF Abort, Alive, Claimed
<1>2. TypeOK' /\ Good(row') /\ Order' /\ \A h \in Gens : Good(mem'[h])
  BY <1>1 DEF TypeOK, Order, Claimed
<1>3. ASSUME NEW h \in Gens PROVE AttemptOK(h)' /\ HolderOK(h)'
  <2>1. AttemptOK(h) /\ HolderOK(h)
    OBVIOUS
  <2>2. AttemptOK(h)'
    BY <1>1, <2>1 DEF AttemptOK, Executing, PlaceOK, Busy, Lost, Claimed
  <2>3. HolderOK(h)'
    BY <1>1, <2>1
    DEF HolderOK, Holds, CanWrite, Alive, KeepsOutcome, KeepsSpent, Fired, Did, Lost, Rewinding
  <2> QED BY <2>2, <2>3
<1>4. \A t \in External : Once(t)'
  BY <1>1 DEF Once, Fired, Did, Lost, Overtaken
<1> QED BY <1>2, <1>3, <1>4

LEMMA InterruptInv == ASSUME IInv, Interrupt PROVE IInv'
<1> USE DEF IInv
<1>1. UNCHANGED <<row, mem, phase, pc, aborted, broken, effects, outdated>> /\ authority' = 0
  BY DEF Interrupt
<1>2. TypeOK' /\ Good(row') /\ Order' /\ \A h \in Gens : Good(mem'[h])
  BY <1>1, PlanAssumption DEF TypeOK, Order, Claimed, Gens
<1>3. ASSUME NEW h \in Gens PROVE AttemptOK(h)' /\ HolderOK(h)'
  <2>1. AttemptOK(h)'
    BY <1>1 DEF AttemptOK, Executing, PlaceOK, Busy, Lost, Claimed
  <2>2. ~Holds(h)'
    BY <1>1 DEF Holds, CanWrite, Gens
  <2> QED BY <2>1, <2>2 DEF HolderOK
<1>4. \A t \in External : Once(t)'
  BY <1>1 DEF Once, Fired, Did, Lost, Overtaken
<1> QED BY <1>2, <1>3, <1>4

LEMMA CrashInv == ASSUME IInv, NEW g \in Gens, Crash(g) PROVE IInv'
<1> USE DEF IInv
<1> PICK m : m = [t \in Tasks |-> Fresh(t)]
  OBVIOUS
<1>1. /\ UNCHANGED <<row, authority, effects, outdated>>
      /\ phase' = [phase EXCEPT ![g] = "dead"] /\ pc' = [pc EXCEPT ![g] = Idle]
      /\ mem' = [mem EXCEPT ![g] = m]
      /\ aborted' = aborted \ {g} /\ broken' = broken \ {g} /\ Claimed(g)
  BY DEF Crash, Alive, Claimed
<1>2. Good(m)
  BY FreshGood
<1>3. /\ mem' \in [Gens -> Graphs] /\ mem'[g] = m /\ phase'[g] = "dead"
      /\ pc' \in [Gens -> [Tasks -> Places]] /\ \A t \in Tasks : pc'[g][t] = "idle"
      /\ \A h \in Gens \ {g} : mem'[h] = mem[h] /\ phase'[h] = phase[h] /\ pc'[h] = pc[h]
  BY <1>1, <1>2 DEF TypeOK, Graphs, Good, Idle, Places
<1>4. TypeOK' /\ Order'
  <2>1. \A h \in Gens : Claimed(h)' <=> Claimed(h)
    BY <1>1, <1>3 DEF Claimed
  <2> QED BY <1>1, <1>3, <2>1 DEF TypeOK, Graphs, Order
<1>5. ASSUME NEW t \in Tasks
      PROVE  (\A h \in Gens : Did(h, t)' => Did(h, t)) /\ (Fired(t)' => Fired(t))
  <2>1. \A h \in Gens : Did(h, t)' => Did(h, t)
    BY <1>1, <1>3 DEF Did
  <2> QED BY <1>1, <2>1 DEF Fired, Lost
<1>6. AttemptOK(g)' /\ HolderOK(g)'
  <2>1. \A t \in Tasks : PlaceOK(g, t)'
    BY <1>3 DEF PlaceOK, Busy, Working
  <2> QED BY <1>3, <2>1 DEF AttemptOK, Busy, HolderOK, Holds, Alive, Claimed
<1>7. ASSUME NEW h \in Gens \ {g} PROVE AttemptOK(h)' /\ HolderOK(h)'
  <2>1. AttemptOK(h)'
    BY <1>1, <1>3 DEF AttemptOK, Executing, PlaceOK, Busy, Lost, Claimed
  <2>2. Holds(h)' => Holds(h)
    BY <1>1, <1>3 DEF Holds, CanWrite, Alive
  <2>3. ASSUME NEW t \in Tasks, Holds(h) PROVE KeepsOutcome(h, t)' /\ KeepsSpent(h, t)'
    BY <1>1, <1>3, <1>5, <2>3 DEF HolderOK, KeepsOutcome, KeepsSpent, Rewinding
  <2> QED BY <2>1, <2>2, <2>3 DEF HolderOK
<1>8. ASSUME NEW t \in External PROVE Once(t)'
  <2>1. t \in Tasks /\ Once(t)
    BY PlanAssumption
  <2>2. \A h \in Gens : pc'[h][t] = "handler" => pc[h][t] = "handler"
    BY <1>3, <2>1
  <2> QED BY <1>1, <1>5, <2>1, <2>2 DEF Once, Overtaken
<1>9. Good(row') /\ \A h \in Gens : Good(mem'[h])
  BY <1>1, <1>2, <1>3
<1> QED BY <1>4, <1>6, <1>7, <1>8, <1>9

\* A resuming attempt that takes a new graph or the next phase, and not the run.
LEMMA QuietInv ==
  ASSUME IInv, NEW g \in Gens, ~Executing(g),
         UNCHANGED <<row, authority, pc, aborted, broken, effects, outdated>>,
         NEW x \in {"unborn", "loaded", "begin"}, phase' = [phase EXCEPT ![g] = x],
         x = "begin" <=> Claimed(g), NEW m, Good(m), mem' = [mem EXCEPT ![g] = m],
         x = "begin" => m = Recover(row)
  PROVE  IInv'
<1> USE DEF IInv
<1>1. /\ mem' \in [Gens -> Graphs] /\ mem'[g] = m /\ phase'[g] = x
      /\ \A h \in Gens \ {g} : mem'[h] = mem[h] /\ phase'[h] = phase[h]
  BY DEF TypeOK, Graphs, Good
<1>2. TypeOK' /\ Good(row') /\ \A h \in Gens : Good(mem'[h])
  BY <1>1 DEF TypeOK, Graphs
<1>3. (\A h \in Gens : Claimed(h)' <=> Claimed(h)) /\ Order'
  <2>1. \A h \in Gens : Claimed(h)' <=> Claimed(h)
    BY <1>1 DEF Claimed
  <2> QED BY <2>1 DEF Order
<1>4. \A t \in Tasks : ~Busy(g, t)
  BY DEF AttemptOK
<1>5. ASSUME NEW h \in Gens PROVE AttemptOK(h)'
  <2>1. AttemptOK(h)
    OBVIOUS
  <2>2. CASE h = g
    <3>1. \A t \in Tasks : PlaceOK(g, t)'
      BY <1>4 DEF PlaceOK, Busy, Working
    <3> QED BY <1>3, <1>4, <2>1, <2>2, <3>1 DEF AttemptOK, Busy
  <2>3. CASE h # g
    BY <1>1, <1>3, <2>1, <2>3 DEF AttemptOK, Executing, PlaceOK, Busy, Lost
  <2> QED BY <2>2, <2>3
<1>6. \A t \in External : t \in Tasks /\ Once(t)' /\ (Fired(t)' => Spent(row[t]))
  BY PlanAssumption DEF Once, Fired, Did, Lost, Overtaken
<1>7. HolderOK(g)'
  <2>1. CASE x # "begin"
    BY <1>1, <2>1 DEF HolderOK, Holds, Alive
  <2>2. CASE x = "begin"
    <3>1. /\ \A t \in Tasks : row[t].status \in Outcome => m[t] = row[t]
          /\ \A t \in External : Spent(row[t]) => Spent(m[t])
      BY <2>2, RecoverGood
    <3> QED BY <1>1, <1>4, <1>6, <3>1 DEF HolderOK, KeepsOutcome, KeepsSpent, Busy
  <2> QED BY <2>1, <2>2
<1>8. ASSUME NEW h \in Gens \ {g} PROVE HolderOK(h)'
  <2>1. HolderOK(h) /\ (Holds(h)' <=> Holds(h)) /\ (Rewinding(h)' <=> Rewinding(h))
    BY <1>1 DEF Holds, CanWrite, Alive, Rewinding
  <2> QED BY <1>1, <2>1 DEF HolderOK, KeepsOutcome, KeepsSpent, Fired, Did, Lost
<1> QED BY <1>2, <1>3, <1>5, <1>6, <1>7, <1>8

LEMMA LoadInv == ASSUME IInv, NEW g \in Gens, Load(g) \/ Refuse(g) PROVE IInv'
<1>1. Good(Recover(row)) /\ Good([t \in Tasks |-> Fresh(t)])
  BY RecoverGood, FreshGood DEF IInv
<1>2. /\ ~Executing(g)
      /\ UNCHANGED <<row, authority, pc, aborted, broken, effects, outdated>>
  BY DEF Load, Refuse, Executing
<1>3. CASE Load(g)
  <2>1. PICK x \in {"loaded", "begin"} :
          phase' = [phase EXCEPT ![g] = x] /\ (x = "begin" <=> Claimed(g))
    BY <1>3 DEF Load, Claimed
  <2>2. mem' = [mem EXCEPT ![g] = Recover(row)]
    BY <1>3 DEF Load
  <2> QED BY <1>1, <1>2, <2>1, <2>2, QuietInv
<1>4. CASE Refuse(g)
  <2>1. phase' = [phase EXCEPT ![g] = "unborn"] /\ ~Claimed(g)
    BY <1>4 DEF Refuse, Claimed
  <2>2. mem' = [mem EXCEPT ![g] = [t \in Tasks |-> Fresh(t)]]
    BY <1>4 DEF Refuse
  <2> QED BY <1>1, <1>2, <2>1, <2>2, QuietInv
<1> QED BY <1>3, <1>4

\* Whoever takes the run comes after all that did anything.
LEMMA TakeIsLast ==
  ASSUME IInv, NEW g \in Gens, ~Claimed(g), NEW h \in Gens, Claimed(h)
  PROVE  h < g
<1>1. h # g /\ ~(g < h)
  BY DEF IInv, Order
<1> QED BY <1>1, PlanAssumption DEF Gens

\* Taking the run, to load afterwards, or with a graph that is up to date or not.
LEMMA ClaimInv == ASSUME IInv, NEW g \in Gens, Claim(g) \/ Adopt(g) PROVE IInv'
<1> USE DEF IInv
<1>1. /\ UNCHANGED <<row, mem, pc, aborted, broken, effects>> /\ authority' = g
      /\ ~Claimed(g) /\ ~Executing(g) /\ \A h \in Gens : h < g => Claimed(h)
  BY DEF Claim, Adopt, MayTake, Claimed, Executing
<1>2. PICK x \in {"begin", "adopted"} :
        /\ phase' = [phase EXCEPT ![g] = x]
        /\ outdated' \in {outdated, outdated \union {g}}
        /\ x = "begin" /\ mem[g] # Recover(row) => outdated' = outdated \union {g}
  BY DEF Claim, Adopt
<1>3. /\ phase'[g] = x /\ Claimed(g)'
      /\ \A h \in Gens \ {g} : phase'[h] = phase[h] /\ (Claimed(h)' <=> Claimed(h))
  BY <1>2 DEF TypeOK, Claimed
<1>4. TypeOK' /\ Good(row') /\ \A h \in Gens : Good(mem'[h])
  BY <1>1, <1>2, PlanAssumption DEF TypeOK, Gens
<1>5. Order'
  <2>1. ASSUME NEW h \in Gens, g < h PROVE ~Claimed(h)'
    <3>1. h # g /\ ~(h < g)
      BY <2>1, PlanAssumption DEF Gens
    <3> QED BY <1>1, <1>3, <3>1, TakeIsLast
  <2>2. ASSUME NEW h \in Gens, NEW k \in Gens, h < k, Claimed(k)' PROVE Claimed(h)'
    <3>1. CASE k = g
      BY <1>1, <1>3, <2>2, <3>1, PlanAssumption DEF Gens
    <3>2. CASE k # g
      BY <1>3, <2>2, <3>2 DEF Order
    <3> QED BY <3>1, <3>2
  <2>3. \A h \in Gens : authority' = h => h = g
    BY <1>1
  <2> QED BY <1>3, <2>1, <2>2, <2>3 DEF Order
<1>6. \A h \in Gens : Lost(h) => Lost(h)'
  BY <1>2 DEF Lost
<1>7. \A t \in Tasks : ~Busy(g, t)
  BY <1>1 DEF AttemptOK
<1>8. ASSUME NEW h \in Gens PROVE AttemptOK(h)'
  <2>1. AttemptOK(h)
    OBVIOUS
  <2>2. \A t \in Tasks : PlaceOK(h, t)'
    BY <1>1, <1>6, <2>1 DEF AttemptOK, PlaceOK, Busy
  <2>3. CASE h = g
    BY <1>1, <1>3, <1>7, <2>2, <2>3 DEF AttemptOK, Busy
  <2>4. CASE h # g
    BY <1>1, <1>2, <1>3, <2>1, <2>2, <2>4 DEF AttemptOK, Executing, Busy
  <2> QED BY <2>3, <2>4
<1>9. ASSUME NEW t \in Tasks
      PROVE  /\ \A h \in Gens : Did(h, t)' <=> Did(h, t)
             /\ Fired(t)' => Fired(t)
             /\ g \in outdated' => ~Fired(t)'
  <2>1. \A h \in Gens : Did(h, t)' <=> Did(h, t)
    BY <1>1 DEF Did
  <2>2. ASSUME NEW h \in Gens, Did(h, t), g \in outdated' PROVE Lost(h)'
    <3>1. h < g
      BY <1>1, <2>2, DidClaimed, TakeIsLast
    <3> QED BY <2>2, <3>1 DEF Lost
  <2> QED BY <1>6, <2>1, <2>2 DEF Fired
<1>10. HolderOK(g)'
  <2>1. CASE x = "adopted"
    BY <1>3, <2>1 DEF HolderOK, Holds
  <2>2. CASE g \in outdated' /\ x = "begin"
    BY <1>3, <1>9, <2>2 DEF HolderOK, KeepsOutcome, KeepsSpent, Rewinding
  <2>3. CASE g \notin outdated' /\ x = "begin"
    <3>1. mem[g] = Recover(row)
      BY <1>2, <2>3
    <3>2. /\ \A t \in Tasks : row[t].status \in Outcome => mem[g][t] = row[t]
          /\ \A t \in External : Spent(row[t]) => Spent(mem[g][t])
      BY <3>1, RecoverGood
    <3>3. \A t \in External : t \in Tasks /\ (Fired(t) => Spent(row[t]))
      BY PlanAssumption DEF Once
    <3> QED BY <1>1, <1>7, <1>9, <3>2, <3>3 DEF HolderOK, KeepsOutcome, KeepsSpent, Busy
  <2> QED BY <2>1, <2>2, <2>3
<1>11. \A h \in Gens \ {g} : HolderOK(h)'
  BY <1>1 DEF HolderOK, Holds, CanWrite
<1>12. ASSUME NEW t \in External PROVE Once(t)'
  <2>1. t \in Tasks /\ Once(t)
    BY PlanAssumption
  <2>2. \A h, k \in Gens : Overtaken(h, k) => Overtaken(h, k)'
    BY <1>2 DEF Overtaken
  <2> QED BY <1>1, <1>9, <2>1, <2>2 DEF Once
<1> QED BY <1>4, <1>5, <1>8, <1>10, <1>11, <1>12

-----------------------------------------------------------------------------
\* The invariant.

LEMMA InitInv == Init => IInv
<1> SUFFICES ASSUME Init PROVE IInv
  OBVIOUS
<1> PICK m : m = [t \in Tasks |-> Fresh(t)]
  OBVIOUS
<1>1. Good(m)
  BY FreshGood
<1>2. /\ row = m /\ mem = [g \in Gens |-> m] /\ authority = 1 /\ aborted = {} /\ broken = {}
      /\ phase = [g \in Gens |-> IF g = 1 THEN "begin" ELSE "unborn"]
      /\ pc = [g \in Gens |-> Idle] /\ effects = [g \in Gens |-> [t \in Tasks |-> 0]]
      /\ outdated = {}
  BY DEF Init
<1>3. TypeOK
  BY <1>1, <1>2, PlanAssumption DEF TypeOK, Good, Graphs, Gens, Idle, Places
<1>4. \A g \in Gens, t \in Tasks : pc[g][t] = "idle" /\ effects[g][t] = 0 /\ ~Did(g, t)
  BY <1>2 DEF Idle, Did
<1>5. \A t \in Tasks : ~Fired(t)
  BY <1>4 DEF Fired
<1>6. \A g \in Gens : AttemptOK(g)
  <2>1. \A g \in Gens, t \in Tasks : PlaceOK(g, t)
    BY <1>4 DEF PlaceOK, Busy, Working
  <2> QED BY <1>2, <1>4, <2>1 DEF AttemptOK, Busy
<1>7. \A g \in Gens : HolderOK(g)
  BY <1>2, <1>4, <1>5 DEF HolderOK, KeepsOutcome, KeepsSpent
<1>8. \A t \in External : t \in Tasks /\ Once(t)
  BY <1>4, <1>5, PlanAssumption DEF Once
<1>9. Order
  <2>1. \A g \in Gens : Claimed(g) <=> g = 1
    BY <1>2 DEF Claimed
  <2> QED BY <1>2, <2>1, PlanAssumption DEF Order, Gens
<1> QED BY <1>1, <1>2, <1>3, <1>6, <1>7, <1>8, <1>9 DEF IInv

LEMMA NextInv == IInv /\ [Next]_vars => IInv'
<1> SUFFICES ASSUME IInv, [Next]_vars PROVE IInv'
  OBVIOUS
<1>1. ASSUME NEW g \in Gens, NEW t \in Tasks, Execute(g, t) PROVE IInv'
  BY <1>1, WriteInv, ResultInv, EffectInv DEF Execute
<1>2. ASSUME NEW g \in Gens, Work(g) PROVE IInv'
  BY <1>1, <1>2, BeginInv, TopInv, DispatchInv DEF Work
<1>3. ASSUME NEW g \in Gens, Abort(g) \/ Crash(g) \/ Resume(g) PROVE IInv'
  BY <1>3, AbortInv, CrashInv, LoadInv, ClaimInv DEF Resume
<1>4. CASE UNCHANGED vars
  <2>1. UNCHANGED <<row, authority, mem, phase, pc, aborted, broken, effects, outdated>>
    BY <1>4 DEF vars
  <2>2. TypeOK' /\ Good(row') /\ Order' /\ \A h \in Gens : Good(mem'[h])
    BY <2>1 DEF IInv, TypeOK, Order, Claimed
  <2>3. \A h \in Gens : AttemptOK(h) => AttemptOK(h)'
    BY <2>1 DEF AttemptOK, Executing, PlaceOK, Busy, Lost, Claimed
  <2>4. \A h \in Gens : HolderOK(h) => HolderOK(h)'
    BY <2>1
    DEF HolderOK, Holds, CanWrite, Alive, KeepsOutcome, KeepsSpent, Fired, Did, Lost, Rewinding
  <2>5. \A t \in External : Once(t) => Once(t)'
    BY <2>1 DEF Once, Fired, Did, Lost, Overtaken
  <2> QED BY <2>2, <2>3, <2>4, <2>5 DEF IInv
<1> QED BY <1>2, <1>3, <1>4, InterruptInv DEF Next

LEMMA AlwaysInv == Spec => []IInv
  BY InitInv, NextInv, PTL DEF Spec

-----------------------------------------------------------------------------
\* No attempt does a publish, commit or deploy twice, and a later attempt does it
\* again only behind one that began with an outdated graph, whatever the plan and
\* however often the run is interrupted and resumed (canonicalResume.ts:95-110,
\* pipeline.ts:1197, 1233).
THEOREM PublishedOnceUnlessOutdated == Spec => []ExternalOnceUnlessOutdated
<1>1. IInv => ExternalOnceUnlessOutdated
  BY DEF IInv, Once, Did, ExternalOnceUnlessOutdated
<1> QED BY <1>1, AlwaysInv, PTL

\* The types are kept, and no task gets more attempts than its policy allows or
\* fewer than none, over any number of resumes (canonicalResume.ts:121).
THEOREM BudgetKept == Spec => []AttemptsWithinBudget
<1>1. IInv => AttemptsWithinBudget
  BY DEF IInv, Good, RecordOK, AttemptsWithinBudget
<1> QED BY <1>1, AlwaysInv, PTL

\* A handler works only on dependencies the row records as completed, and a
\* mutation never beside another task of its attempt, also in an attempt that has
\* been superseded, unless by one that began with an outdated graph, which may undo
\* the dependencies but not the mutation's being alone (executionRuntime.ts:485,
\* 490-492).
THEOREM HandlersStayIsolated == Spec => []HandlersIsolated
<1>1. IInv => HandlersIsolated
  <2>1. SUFFICES ASSUME IInv, NEW g \in Gens, NEW t \in Tasks, InHandler(g, t)
                 PROVE  /\ DepsCompleted(row, t) \/ Lost(g)
                        /\ t \in Mutation => \A u \in Tasks \ {t} : pc[g][u] = "idle"
    BY PlanAssumption DEF HandlersIsolated, DependenciesDurable, MutationAlone, DepsCompleted, Lost
  <2>2. Busy(g, t) /\ PlaceOK(g, t)
    BY <2>1 DEF InHandler, At, Busy, IInv, AttemptOK
  <2> QED BY <2>2 DEF PlaceOK, Busy
<1> QED BY <1>1, AlwaysInv, PTL

LEMMA NextSaves ==
  ASSUME IInv, Next
  PROVE  row' = row \/ \E g \in Gens : RowSaved(g)
<1>1. ASSUME NEW g \in Gens, NEW t \in Tasks, Execute(g, t)
      PROVE  row' = row \/ RowSaved(g)
  <2>1. CASE \/ Effect(g, t) \/ Resolve(g, t) \/ Fail(g, t) \/ Retry(g, t) \/ BackoffOver(g, t)
             \/ RefuseAdmission(g, t)
    BY <2>1 DEF Effect, Resolve, Fail, Retry, BackoffOver, RefuseAdmission
  <2>2. CASE TaskStart(g, t) \/ TaskWaits(g, t) \/ TaskRefused(g, t) \/ TaskFinish(g, t)
    <3>1. /\ Executing(g) /\ Busy(g, t)
          /\ Written(g, Record(g, t)) \/ NotWritten(g, Record(g, t))
      BY <2>2 DEF TaskStart, TaskWaits, TaskFinish, TaskRefused, WriteThen, At, Busy
    <3> QED BY <3>1, WriteSaves
  <2> QED BY <1>1, <2>1, <2>2 DEF Execute
<1>2. ASSUME NEW g \in Gens, Begin(g) \/ Last(g) \/ Dispatch(g)
      PROVE  RowSaved(g)
  <2>1. Alive(g) /\ phase[g] # "adopted" /\ (Written(g, mem[g]) \/ NotWritten(g, mem[g]))
    BY <1>2 DEF Begin, Last, Dispatch, Alive
  <2> QED BY <2>1, WholeSaves
<1>3. ASSUME NEW g \in Gens, Top(g) \/ Abort(g) \/ Crash(g) \/ Resume(g) \/ Interrupt
      PROVE  row' = row
  BY <1>3 DEF Top, Abort, Crash, Resume, Load, Claim, Adopt, Refuse, Interrupt
<1> QED BY <1>1, <1>2, <1>3 DEF Next, Work, Interrupt

\* What the row records as completed or failed is never rewritten, neither by a
\* superseded attempt nor by recovery, but by the first write of an attempt that
\* has the run and began with an outdated graph
\* (20261016001000_execution_checkpoint_attempt.sql:21, pipeline.ts:1514).
THEOREM OutcomesStand == Spec => OutcomesStick
<1>1. IInv /\ [Next]_vars
        => [\A t \in Tasks :
              row[t].status \in {"completed", "failed"} =>
                \/ row'[t] = row[t]
                \/ authority \in outdated /\ phase[authority] = "begin"]_vars
  BY NextSaves, RowStep DEF Outcome
<1> QED BY <1>1, AlwaysInv, PTL DEF Spec, OutcomesStick

\* A step makes a task completed only as its handler's result.
LEMMA CompletesByResult ==
  ASSUME IInv, Next, NEW g \in Gens, g \in aborted, phase[g] # "adopted",
         NEW t \in Tasks \ Uninterruptible, Completed(mem'[g], t)
  PROVE  Completed(mem[g], t)
<1> USE DEF IInv
<1>1. mem \in [Gens -> Graphs] /\ phase[g] # "unborn" /\ phase[g] # "loaded"
  BY DEF TypeOK, Graphs, AttemptOK, Claimed
<1>2. ASSUME NEW h \in Gens, NEW m, mem' = [mem EXCEPT ![h] = m],
             Completed(m, t) => h # g \/ Completed(mem[g], t)
      PROVE  Completed(mem[g], t)
  BY <1>1, <1>2 DEF Completed
<1>3. ASSUME NEW h \in Gens, NEW u \in Tasks, NEW s \in Status,
             mem' = [mem EXCEPT ![h][u].status = s], h = g /\ u = t => s # "completed"
      PROVE  Completed(mem[g], t)
  BY <1>1, <1>3 DEF Completed, Graphs, TaskRecord
<1>4. ASSUME NEW h \in Gens, NEW u \in Tasks, NEW status \in Status, Settle(h, u, status)
      PROVE  Completed(mem[g], t)
  <2>1. PICK s : s = IF u \notin Uninterruptible /\ h \in aborted /\ status # "failed"
                     THEN "cancelled" ELSE status
    OBVIOUS
  <2>2. mem' = [mem EXCEPT ![h][u].status = s] /\ s \in Status
    BY <1>4, <2>1 DEF Settle, Status, Terminal
  <2>3. h = g /\ u = t => s # "completed"
    BY <2>1
  <2> QED BY <1>3, <2>2, <2>3
<1>5. ASSUME NEW h \in Gens, NEW u \in Tasks, Execute(h, u) PROVE Completed(mem[g], t)
  <2>1. CASE Resolve(h, u) \/ Fail(h, u) \/ BackoffOver(h, u) \/ RefuseAdmission(h, u)
    <3>1. \E status \in Status : Settle(h, u, status)
      BY <2>1 DEF Resolve, Fail, BackoffOver, RefuseAdmission, Status, Terminal
    <3> QED BY <1>4, <3>1
  <2>2. CASE Retry(h, u)
    <3>1. mem' = [mem EXCEPT ![h][u].status = "waiting_for_provider"]
      BY <2>2 DEF Retry
    <3>2. "waiting_for_provider" \in Status /\ "waiting_for_provider" # "completed"
      BY DEF Status
    <3> QED BY <1>3, <3>1, <3>2
  <2>3. CASE ~(\/ Resolve(h, u) \/ Fail(h, u) \/ BackoffOver(h, u)
               \/ RefuseAdmission(h, u) \/ Retry(h, u))
    BY <1>5, <2>3 DEF Execute, TaskStart, TaskWaits, TaskRefused, TaskFinish, WriteThen, Effect
  <2> QED BY <2>1, <2>2, <2>3
<1>6. ASSUME NEW h \in Gens, Top(h) PROVE Completed(mem[g], t)
  <2>1. CASE h \in aborted
    <3>1. mem' = [mem EXCEPT ![h] = CancelRest(mem[h])]
      BY <1>6, <2>1 DEF Top
    <3>2. Completed(CancelRest(mem[h]), t) => Completed(mem[h], t)
      BY CancelRestGood
    <3> QED BY <1>2, <3>1, <3>2
  <2>2. CASE h \notin aborted
    BY <1>1, <1>6, <2>2 DEF Top
  <2> QED BY <2>1, <2>2
<1>7. ASSUME NEW h \in Gens, Begin(h) \/ Last(h) \/ Abort(h) PROVE Completed(mem[g], t)
  BY <1>7 DEF Begin, Last, Abort
<1>8. ASSUME NEW h \in Gens, Dispatch(h) PROVE Completed(mem[g], t)
  <2>1. CASE UNCHANGED mem
    BY <2>1
  <2>2. CASE StartBatch(h, BatchOf(ReadyTasks(mem[h])))
    <3>1. PICK B : B = BatchOf(ReadyTasks(mem[h]))
      OBVIOUS
    <3>2. h = g => mem'[g][t] = mem[g][t] \/ mem'[g][t].status \in {"blocked", "running"}
      <4>1. SUFFICES ASSUME h = g
                     PROVE  mem'[g][t] = mem[g][t] \/ mem'[g][t].status \in {"blocked", "running"}
        OBVIOUS
      <4>2. mem[g][t] \in TaskRecord
        BY <1>1 DEF Graphs
      <4>3. \/ mem'[g][t] = mem[g][t]
            \/ mem'[g][t] = [mem[g][t] EXCEPT !.status = "blocked"]
            \/ mem'[g][t] = [mem[g][t] EXCEPT !.status = "running", !.started = TRUE,
                                             !.attempts = @ + 1]
        BY <1>1, <2>2, <3>1, <4>1 DEF StartBatch
      <4> QED BY <4>2, <4>3 DEF TaskRecord
    <3>3. h # g => mem'[g] = mem[g]
      BY <1>1, <2>2 DEF StartBatch
    <3> QED BY <3>2, <3>3 DEF Completed
  <2> QED BY <1>8, <2>1, <2>2 DEF Dispatch
<1>9. ASSUME NEW h \in Gens, Crash(h) PROVE Completed(mem[g], t)
  BY <1>2, <1>9 DEF Crash, Fresh, Completed
<1>10. ASSUME NEW h \in Gens, Resume(h) PROVE Completed(mem[g], t)
  BY <1>1, <1>10 DEF Resume, Load, Claim, Adopt, Refuse
<1>11. CASE Interrupt
  BY <1>11 DEF Interrupt
<1> QED BY <1>5, <1>6, <1>7, <1>8, <1>9, <1>10, <1>11 DEF Next, Work

\* Once the run's signal is aborted, no interruptible task becomes completed,
\* whatever its handler returns (executionRuntime.ts:572).
THEOREM NothingCompletesAfterAbort == Spec => NoCompletionAfterAbort
<1>1. IInv /\ [Next]_vars
        => [\A g \in aborted, t \in Tasks \ Uninterruptible :
              Completed(mem'[g], t) => Completed(mem[g], t) \/ phase[g] = "adopted"]_vars
  <2>1. IInv => aborted \subseteq Gens
    BY DEF IInv, TypeOK
  <2> QED BY <2>1, CompletesByResult
<1> QED BY <1>1, AlwaysInv, PTL DEF Spec, NoCompletionAfterAbort

-----------------------------------------------------------------------------
(* The two walks over the graph, in task order. *)

DoomedAt(m, f, t) ==
  \E d \in Deps[t] : m[d].status \in Bad \/ (d < t /\ m[d].status \in Waits /\ f[d])
UnlockedAt(m, f, t) ==
  \A d \in Deps[t] : m[d].status \in Bad => d < t /\ Shut(m, d) /\ f[d]

LEMMA TasksAreNumbers == Tasks \subseteq Nat /\ N \in Nat
  BY PlanAssumption DEF Tasks

LEMMA Least == ASSUME NEW S \in SUBSET Nat, S # {} PROVE \E n \in S : \A k \in S : n <= k
<1>1. IsWellFoundedOn({x \in Nat \X Nat : x[1] < x[2]}, Nat)
  BY NatLessThanWellFounded DEF OpToRel
<1>2. PICK n \in S : \A k \in S : ~(<<k, n>> \in {x \in Nat \X Nat : x[1] < x[2]})
  BY <1>1, WFMin
<1>3. ASSUME NEW k \in S PROVE n <= k
  <2>1. n \in Nat /\ k \in Nat /\ <<k, n>> \in Nat \X Nat
    OBVIOUS
  <2>2. ~(k < n)
    BY <1>2, <2>1
  <2> QED BY <2>1, <2>2
<1> QED BY <1>3

\* What a walk says of a task rests on what it says of smaller ones, so there
\* is a function that says it: of the first k tasks, for every k.
LEMMA DoomedExists == \A m : \E f : f = [t \in Tasks |-> DoomedAt(m, f, t)]
<1> TAKE m
<1> DEFINE To(k) == \E f : f = [t \in 1..k |-> DoomedAt(m, f, t)]
           Bads == {k \in 0..N : ~To(k)}
<1>1. ASSUME Bads # {} PROVE FALSE
  <2>1. Bads \in SUBSET Nat
    BY TasksAreNumbers
  <2>2. PICK n \in Bads : \A k \in Bads : n <= k
    <3> HIDE DEF Bads
    <3> QED BY <1>1, <2>1, Least
  <2>3. n \in 0..N /\ N \in Nat /\ ~To(n)
    BY TasksAreNumbers
  <2>4. n # 0
    <3>1. To(0)
      <4> DEFINE f == [t \in 1..0 |-> TRUE]
      <4>1. f = [t \in 1..0 |-> DoomedAt(m, f, t)]
        OBVIOUS
      <4> QED BY <4>1
    <3> QED BY <2>3, <3>1
  <2>5. n - 1 \in 0..N /\ n - 1 \notin Bads
    BY <2>2, <2>3, <2>4
  <2>6. PICK f : f = [t \in 1..(n - 1) |-> DoomedAt(m, f, t)]
    BY <2>5
  <2> DEFINE g == [t \in 1..n |-> IF t = n THEN DoomedAt(m, f, n) ELSE f[t]]
  <2>7. ASSUME NEW t \in 1..n PROVE g[t] = DoomedAt(m, g, t)
    <3>1. \A d \in 1..(n - 1) : g[d] = f[d]
      BY <2>3
    <3>2. \A d \in Deps[t] : d < t => d \in 1..(n - 1)
      BY <2>3, PlanAssumption DEF Tasks
    <3>3. DoomedAt(m, g, t) = DoomedAt(m, f, t)
      BY <3>1, <3>2 DEF DoomedAt
    <3>4. CASE t = n
      BY <3>3, <3>4
    <3>5. CASE t # n
      <4>1. t \in 1..(n - 1)
        BY <2>3, <3>5
      <4> QED BY <2>6, <3>3, <3>5, <4>1
    <3> QED BY <3>4, <3>5
  <2>8. g = [t \in 1..n |-> DoomedAt(m, g, t)]
    BY <2>7
  <2> QED BY <2>3, <2>8
<1>2. To(N)
  BY <1>1, TasksAreNumbers
<1> QED BY <1>2 DEF Tasks

LEMMA UnlockedExists == \A m : \E f : f = [t \in Tasks |-> UnlockedAt(m, f, t)]
<1> TAKE m
<1> DEFINE To(k) == \E f : f = [t \in 1..k |-> UnlockedAt(m, f, t)]
           Bads == {k \in 0..N : ~To(k)}
<1>1. ASSUME Bads # {} PROVE FALSE
  <2>1. Bads \in SUBSET Nat
    BY TasksAreNumbers
  <2>2. PICK n \in Bads : \A k \in Bads : n <= k
    <3> HIDE DEF Bads
    <3> QED BY <1>1, <2>1, Least
  <2>3. n \in 0..N /\ N \in Nat /\ ~To(n)
    BY TasksAreNumbers
  <2>4. n # 0
    <3>1. To(0)
      <4> DEFINE f == [t \in 1..0 |-> TRUE]
      <4>1. f = [t \in 1..0 |-> UnlockedAt(m, f, t)]
        OBVIOUS
      <4> QED BY <4>1
    <3> QED BY <2>3, <3>1
  <2>5. n - 1 \in 0..N /\ n - 1 \notin Bads
    BY <2>2, <2>3, <2>4
  <2>6. PICK f : f = [t \in 1..(n - 1) |-> UnlockedAt(m, f, t)]
    BY <2>5
  <2> DEFINE g == [t \in 1..n |-> IF t = n THEN UnlockedAt(m, f, n) ELSE f[t]]
  <2>7. ASSUME NEW t \in 1..n PROVE g[t] = UnlockedAt(m, g, t)
    <3>1. \A d \in 1..(n - 1) : g[d] = f[d]
      BY <2>3
    <3>2. \A d \in Deps[t] : d < t => d \in 1..(n - 1)
      BY <2>3, PlanAssumption DEF Tasks
    <3>3. UnlockedAt(m, g, t) = UnlockedAt(m, f, t)
      BY <3>1, <3>2 DEF UnlockedAt
    <3>4. CASE t = n
      BY <3>3, <3>4
    <3>5. CASE t # n
      <4>1. t \in 1..(n - 1)
        BY <2>3, <3>5
      <4> QED BY <2>6, <3>3, <3>5, <4>1
    <3> QED BY <3>4, <3>5
  <2>8. g = [t \in 1..n |-> UnlockedAt(m, g, t)]
    BY <2>7
  <2> QED BY <2>3, <2>8
<1>2. To(N)
  BY <1>1, TasksAreNumbers
<1> QED BY <1>2 DEF Tasks

\* The functions of the model satisfy their recursive definitions.
LEMMA DoomedDef ==
  ASSUME NEW m, NEW t \in Tasks
  PROVE  Doomed(m)[t] <=> DoomedAt(m, Doomed(m), t)
<1>1. PICK f : f = (CHOOSE h : h = [u \in Tasks |-> DoomedAt(m, h, u)])
  OBVIOUS
<1>2. f = [u \in Tasks |-> DoomedAt(m, f, u)]
  BY <1>1, DoomedExists
<1>3. f = Doomed(m)
  BY <1>1 DEF Doomed, DoomedAt
<1> QED BY <1>2, <1>3

LEMMA UnlockedDef ==
  ASSUME NEW m, NEW t \in Tasks
  PROVE  Unlocked(m)[t] <=> UnlockedAt(m, Unlocked(m), t)
<1>1. PICK f : f = (CHOOSE h : h = [u \in Tasks |-> UnlockedAt(m, h, u)])
  OBVIOUS
<1>2. f = [u \in Tasks |-> UnlockedAt(m, f, u)]
  BY <1>1, UnlockedExists
<1>3. f = Unlocked(m)
  BY <1>1 DEF Unlocked, UnlockedAt
<1> QED BY <1>2, <1>3

-----------------------------------------------------------------------------
(* A pass of the loop, and recovery, go through the whole graph at once. *)

Rested(m) == \A t \in Tasks : m[t].status \in Waits \union Terminal
Waiting(m, t) == m[t].status \in Waits
HasBadDep(m, t) == \E d \in Deps[t] : m[d].status \in Bad

\* Who is blocked by dependencies has one that is failed, blocked or cancelled.
BlockedWithCause(m) == \A t \in Tasks : Shut(m, t) => HasBadDep(m, t)

\* What still waits and is not ready waits for something that waits.
Passed(m) ==
  Rested(m) /\ \A t \in Tasks :
    m[t].status = "pending" => \E d \in Deps[t] : Waiting(m, d)

LEMMA PassReachesAll ==
  ASSUME NEW m, Good(m), Rested(m)
  PROVE  Passed(Pass(m))
<1> PICK p : p = Pass(m)
  OBVIOUS
<1>1. ASSUME NEW t \in Tasks
      PROVE  /\ m[t].status \notin Waits => p[t] = m[t]
             /\ m[t].status \in Waits =>
                  p[t].status = IF Doomed(m)[t] THEN "blocked"
                                ELSE IF DepsCompleted(m, t) THEN "ready" ELSE m[t].status
  <2>1. m[t] \in TaskRecord
    BY DEF Good, Graphs
  <2> QED BY <2>1 DEF Pass, TaskRecord
<1>2. Rested(p)
  BY <1>1 DEF Rested, Waits, Terminal
<1>3. ASSUME NEW t \in Tasks, p[t].status = "pending" PROVE \E d \in Deps[t] : Waiting(p, d)
  <2>1. m[t].status \in Waits /\ ~Doomed(m)[t] /\ ~DepsCompleted(m, t)
    BY <1>1, <1>3 DEF Waits
  <2>2. PICK d \in Deps[t] : m[d].status # "completed"
    BY <2>1 DEF DepsCompleted, Completed
  <2>3. d \in Tasks /\ d < t
    BY PlanAssumption
  <2>4. ~DoomedAt(m, Doomed(m), t)
    BY <2>1, DoomedDef
  <2>5. m[d].status \in Waits /\ ~Doomed(m)[d]
    BY <2>2, <2>3, <2>4 DEF DoomedAt, Rested, Bad
  <2> QED BY <1>1, <2>3, <2>5 DEF Waiting, Waits
<1> QED BY <1>2, <1>3 DEF Passed

\* A loop that finds nothing ready has nothing waiting either.
LEMMA NothingWaits ==
  ASSUME NEW m, Passed(m), ReadyTasks(m) = {}
  PROVE  \A t \in Tasks : m[t].status \in Terminal
<1> DEFINE W == {t \in Tasks : Waiting(m, t)}
<1>1. ASSUME W # {} PROVE FALSE
  <2>1. W \in SUBSET Nat
    BY TasksAreNumbers
  <2>2. PICK t \in W : \A u \in W : t <= u
    <3> HIDE DEF W
    <3> QED BY <1>1, <2>1, Least
  <2>3. m[t].status = "pending"
    BY DEF ReadyTasks, Waiting, Waits
  <2>4. PICK d \in Deps[t] : Waiting(m, d)
    BY <2>3 DEF Passed
  <2>5. d \in Tasks /\ d < t /\ t \in Nat /\ d \in Nat
    BY PlanAssumption, TasksAreNumbers
  <2>6. t <= d
    BY <2>2, <2>4, <2>5
  <2> QED BY <2>5, <2>6
<1> QED BY <1>1 DEF Passed, Rested, Waiting

LEMMA PassCause ==
  ASSUME NEW m, Good(m), BlockedWithCause(m)
  PROVE  BlockedWithCause(Pass(m))
<1> PICK p : p = Pass(m)
  OBVIOUS
<1>1. ASSUME NEW t \in Tasks
      PROVE  /\ m[t].status \notin Waits => p[t] = m[t]
             /\ m[t].status \in Waits /\ Doomed(m)[t] => p[t].status = "blocked"
             /\ Shut(p, t) => Shut(m, t) \/ (m[t].status \in Waits /\ Doomed(m)[t])
  <2>1. m[t] \in TaskRecord
    BY DEF Good, Graphs
  <2> QED BY <2>1 DEF Pass, TaskRecord, Shut, Waits
<1>2. ASSUME NEW t \in Tasks, NEW d \in Deps[t], m[d].status \in Bad PROVE HasBadDep(p, t)
  <2>1. d \in Tasks
    BY PlanAssumption
  <2>2. p[d] = m[d]
    BY <1>1, <1>2, <2>1 DEF Bad, Terminal, Waits
  <2> QED BY <1>2, <2>2 DEF HasBadDep
<1>3. ASSUME NEW t \in Tasks, Shut(p, t) PROVE HasBadDep(p, t)
  <2>1. CASE Shut(m, t)
    BY <1>2, <2>1 DEF BlockedWithCause, HasBadDep
  <2>2. CASE m[t].status \in Waits /\ Doomed(m)[t]
    <3>1. PICK d \in Deps[t] :
            m[d].status \in Bad \/ (d < t /\ m[d].status \in Waits /\ Doomed(m)[d])
      BY <2>2, DoomedDef DEF DoomedAt
    <3>2. d \in Tasks
      BY PlanAssumption
    <3>3. CASE m[d].status \in Waits /\ Doomed(m)[d]
      BY <1>1, <3>2, <3>3 DEF HasBadDep, Bad, Terminal
    <3> QED BY <1>2, <3>1, <3>3
  <2> QED BY <1>1, <1>3, <2>1, <2>2
<1> QED BY <1>3 DEF BlockedWithCause

\* Recovery leaves nothing running, and in one pass unblocks whatever was
\* blocked only because of what can run again.
LEMMA RecoverReachesAll ==
  ASSUME NEW m, m \in Graphs
  PROVE  Rested(Recover(m)) /\ BlockedWithCause(Recover(m))
<1> PICK r : r = [t \in Tasks |-> RecoverTask(m, t)]
  OBVIOUS
<1> PICK p : p = Recover(m)
  OBVIOUS
<1>1. ASSUME NEW t \in Tasks
      PROVE  r[t].status \in Waits \union Terminal /\ r[t] \in TaskRecord
  <2>1. m[t] \in TaskRecord
    BY DEF Graphs
  <2>2. CASE m[t].status \notin Resumable
    BY <2>1, <2>2 DEF RecoverTask, Resumable, TaskRecord, Status, Waits
  <2>3. CASE m[t].status \in Resumable /\ m[t].started /\ t \in Uninterruptible \ Checkpointed
    BY <2>1, <2>3 DEF RecoverTask, TaskRecord, Status, Terminal
  <2>4. CASE m[t].status \in Resumable /\ ~(m[t].started /\ t \in Uninterruptible \ Checkpointed)
    <3>1. PICK n \in Nat : n = IF m[t].status # "waiting_for_provider" /\ m[t].attempts > 0
                               THEN m[t].attempts - 1 ELSE m[t].attempts
      BY <2>1 DEF TaskRecord
    <3>2. r[t] = [m[t] EXCEPT !.status = IF DepsCompleted(m, t) THEN "ready" ELSE "pending",
                              !.started = FALSE, !.upstream = FALSE, !.attempts = n]
      <4>1. r[t] = [Reset(m, t) EXCEPT !.attempts =
                      IF m[t].status # "waiting_for_provider" /\ @ > 0 THEN @ - 1 ELSE @]
        BY <2>4 DEF RecoverTask
      <4> QED BY <2>1, <3>1, <4>1 DEF Reset, TaskRecord
    <3> QED BY <2>1, <3>2 DEF TaskRecord, Status, Waits
  <2> QED BY <2>2, <2>3, <2>4
<1>2. ASSUME NEW t \in Tasks
      PROVE  /\ Shut(r, t) /\ Unlocked(r)[t] => p[t].status \in Waits /\ ~p[t].upstream
             /\ ~(Shut(r, t) /\ Unlocked(r)[t]) => p[t] = r[t]
  BY <1>1 DEF Recover, Reset, TaskRecord, Waits
<1>3. Rested(p)
  BY <1>1, <1>2 DEF Rested
<1>4. ASSUME NEW t \in Tasks, Shut(p, t) PROVE HasBadDep(p, t)
  <2>1. Shut(r, t) /\ ~Unlocked(r)[t]
    BY <1>2, <1>4 DEF Shut
  <2>2. PICK d \in Deps[t] : r[d].status \in Bad /\ ~(Shut(r, d) /\ Unlocked(r)[d])
    <3>1. ~UnlockedAt(r, Unlocked(r), t)
      BY <2>1, UnlockedDef
    <3> QED BY <3>1, PlanAssumption DEF UnlockedAt
  <2>3. d \in Tasks
    BY PlanAssumption
  <2> QED BY <1>2, <2>2, <2>3 DEF HasBadDep
<1> QED BY <1>3, <1>4 DEF BlockedWithCause

LEMMA CancelCause ==
  ASSUME NEW m, Good(m), BlockedWithCause(m)
  PROVE  BlockedWithCause(CancelRest(m)) /\ \A t \in Tasks : CancelRest(m)[t].status \in Terminal
<1> PICK p : p = CancelRest(m)
  OBVIOUS
<1>1. ASSUME NEW t \in Tasks
      PROVE  /\ p[t].status \in Terminal /\ (m[t].status \in Terminal => p[t] = m[t])
             /\ Shut(p, t) => Shut(m, t)
  <2>1. m[t] \in TaskRecord
    BY DEF Good, Graphs
  <2> QED BY <2>1 DEF CancelRest, TaskRecord, Terminal, Shut
<1>2. ASSUME NEW t \in Tasks, Shut(p, t) PROVE HasBadDep(p, t)
  <2>1. PICK d \in Deps[t] : m[d].status \in Bad
    BY <1>1, <1>2 DEF BlockedWithCause, HasBadDep
  <2>2. d \in Tasks
    BY PlanAssumption
  <2> QED BY <1>1, <2>1, <2>2 DEF HasBadDep, Bad
<1> QED BY <1>1, <1>2 DEF BlockedWithCause

-----------------------------------------------------------------------------
(* The loop of an attempt. *)

\* A task nobody executes is not left in a status that only an execution has.
FlowOK(g) ==
  /\ phase[g] \in {"loaded", "begin", "top", "dispatch"} => Rested(mem[g])
  /\ phase[g] = "batch" =>
       \A t \in Tasks :
         pc[g][t] \in {"idle", "finish", "refused"} => mem[g][t].status \in Waits \union Terminal
  /\ phase[g] = "dispatch" => Passed(mem[g])
  /\ phase[g] \in {"last", "done"} => AllTerminal(g)
  /\ BlockedWithCause(mem[g])
FlowInv == \A g \in Gens : FlowOK(g)

LEMMA FlowStep ==
  ASSUME FlowInv, NEW g \in Gens, FlowOK(g)',
         \A h \in Gens \ {g} : mem'[h] = mem[h] /\ phase'[h] = phase[h] /\ pc'[h] = pc[h]
  PROVE  FlowInv'
BY DEF FlowInv, FlowOK, AllTerminal

LEMMA AttemptFacts ==
  ASSUME IInv, FlowInv, NEW g \in Gens
  PROVE  /\ Good(mem[g]) /\ AttemptOK(g) /\ FlowOK(g) /\ mem[g] \in Graphs
         /\ mem \in [Gens -> Graphs] /\ DOMAIN phase = Gens /\ DOMAIN pc = Gens
         /\ pc[g] \in [Tasks -> Places]
BY DEF IInv, FlowInv, TypeOK, Good, Graphs

LEMMA BeginFlow ==
  ASSUME IInv, FlowInv, NEW g \in Gens, Begin(g) \/ Last(g)
  PROVE  FlowInv'
<1>1. FlowOK(g) /\ UNCHANGED <<mem, pc>> /\ DOMAIN phase = Gens
  BY AttemptFacts DEF Begin, Last
<1>2. \/ phase[g] = "begin" /\ phase' = [phase EXCEPT ![g] = "top"]
      \/ phase[g] = "last" /\ phase' = [phase EXCEPT ![g] = "done"]
      \/ phase' = [phase EXCEPT ![g] = "rejected"]
  BY DEF Begin, Last
<1>3. FlowOK(g)'
  BY <1>1, <1>2 DEF FlowOK, AllTerminal
<1> QED BY <1>1, <1>2, <1>3, FlowStep

LEMMA TopFlow ==
  ASSUME IInv, FlowInv, NEW g \in Gens, Top(g)
  PROVE  FlowInv'
<1>1. /\ Good(mem[g]) /\ FlowOK(g) /\ DOMAIN phase = Gens /\ UNCHANGED pc
      /\ mem \in [Gens -> Graphs]
  BY AttemptFacts DEF Top
<1>2. Rested(mem[g])
  BY <1>1 DEF Top, FlowOK, Idle, Rested
<1>3. CASE mem' = [mem EXCEPT ![g] = CancelRest(@)] /\ phase' = [phase EXCEPT ![g] = "last"]
  <2>1. mem'[g] = CancelRest(mem[g]) /\ phase'[g] = "last"
    BY <1>1, <1>3
  <2>2. BlockedWithCause(mem'[g]) /\ AllTerminal(g)'
    BY <1>1, <2>1, CancelCause DEF FlowOK, AllTerminal
  <2>3. FlowOK(g)'
    BY <2>1, <2>2 DEF FlowOK
  <2> QED BY <1>1, <1>3, <2>3, FlowStep
<1>4. CASE mem' = [mem EXCEPT ![g] = Pass(@)] /\ phase' = [phase EXCEPT ![g] = "dispatch"]
  <2>1. mem'[g] = Pass(mem[g]) /\ phase'[g] = "dispatch"
    BY <1>1, <1>4
  <2>2. BlockedWithCause(mem'[g]) /\ Passed(mem'[g])
    BY <1>1, <1>2, <2>1, PassCause, PassReachesAll DEF FlowOK
  <2>3. FlowOK(g)'
    BY <2>1, <2>2 DEF FlowOK, Passed
  <2> QED BY <1>1, <1>4, <2>3, FlowStep
<1> QED BY <1>3, <1>4 DEF Top

\* What is started was ready: nothing was blocked because of it.
LEMMA StartCause ==
  ASSUME IInv, FlowInv, NEW g \in Gens, NEW B \in SUBSET ReadyTasks(mem[g]), StartBatch(g, B)
  PROVE  /\ BlockedWithCause(mem'[g])
         /\ \A t \in Tasks \ B : mem'[g][t] = mem[g][t] /\ pc'[g][t] = "idle"
         /\ \A t \in B : mem'[g][t].status = "blocked" \/ pc'[g][t] = "starting"
         /\ \A h \in Gens \ {g} : mem'[h] = mem[h] /\ pc'[h] = pc[h]
<1>1. /\ FlowOK(g) /\ mem \in [Gens -> Graphs] /\ DOMAIN pc = Gens
      /\ \A t \in Tasks : RecordOK(mem[g][t], t) /\ mem[g][t] \in TaskRecord
  BY AttemptFacts DEF Good, Graphs
<1>2. ASSUME NEW t \in Tasks
      PROVE  /\ t \notin B => mem'[g][t] = mem[g][t] /\ pc'[g][t] = "idle"
             /\ t \in B => mem'[g][t].status = "blocked" \/ pc'[g][t] = "starting"
             /\ t \in B => mem[g][t].status = "ready" /\ ~mem'[g][t].upstream
  <2>1. t \in B => mem[g][t].status = "ready" /\ ~mem[g][t].upstream
    BY <1>1 DEF ReadyTasks, RecordOK, TaskRecord
  <2> QED BY <1>1, <2>1 DEF StartBatch, TaskRecord
<1>3. ASSUME NEW t \in Tasks, Shut(mem'[g], t) PROVE HasBadDep(mem'[g], t)
  <2>1. Shut(mem[g], t)
    BY <1>2, <1>3 DEF Shut
  <2>2. PICK d \in Deps[t] : mem[g][d].status \in Bad
    BY <1>1, <2>1 DEF FlowOK, BlockedWithCause, HasBadDep
  <2>3. d \in Tasks /\ d \notin B
    BY <1>2, <2>2, PlanAssumption DEF Bad, Terminal
  <2> QED BY <1>2, <2>2, <2>3 DEF HasBadDep
<1>4. \A h \in Gens \ {g} : mem'[h] = mem[h] /\ pc'[h] = pc[h]
  BY <1>1 DEF StartBatch
<1>5. B \subseteq Tasks
  BY DEF ReadyTasks
<1> QED BY <1>2, <1>3, <1>4, <1>5 DEF BlockedWithCause

LEMMA DispatchFlow ==
  ASSUME IInv, FlowInv, NEW g \in Gens, Dispatch(g)
  PROVE  FlowInv'
<1>1. /\ FlowOK(g) /\ DOMAIN phase = Gens /\ Passed(mem[g])
  BY AttemptFacts DEF Dispatch, FlowOK
<1>2. CASE phase' = [phase EXCEPT ![g] = "rejected"] /\ UNCHANGED <<mem, pc>>
  <2>1. FlowOK(g)'
    BY <1>1, <1>2 DEF FlowOK
  <2> QED BY <1>1, <1>2, <2>1, FlowStep
<1>3. CASE /\ ReadyTasks(mem[g]) = {} /\ phase' = [phase EXCEPT ![g] = "done"]
           /\ UNCHANGED <<mem, pc>>
  <2>1. AllTerminal(g)
    BY <1>1, <1>3, NothingWaits DEF AllTerminal
  <2>2. FlowOK(g)'
    BY <1>1, <1>3, <2>1 DEF FlowOK, AllTerminal
  <2> QED BY <1>1, <1>3, <2>2, FlowStep
<1>4. CASE /\ phase' = [phase EXCEPT ![g] = "batch"]
           /\ StartBatch(g, BatchOf(ReadyTasks(mem[g])))
  <2>1. BatchOf(ReadyTasks(mem[g])) \in SUBSET ReadyTasks(mem[g])
    BY DEF BatchOf
  <2>2. PICK B \in SUBSET ReadyTasks(mem[g]) : StartBatch(g, B)
    BY <1>4, <2>1
  <2>3. /\ BlockedWithCause(mem'[g])
        /\ \A t \in Tasks \ B : mem'[g][t] = mem[g][t] /\ pc'[g][t] = "idle"
        /\ \A t \in B : mem'[g][t].status = "blocked" \/ pc'[g][t] = "starting"
        /\ \A h \in Gens \ {g} : mem'[h] = mem[h] /\ pc'[h] = pc[h]
    BY <2>2, StartCause
  <2>4. FlowOK(g)'
    BY <1>1, <1>4, <2>3 DEF FlowOK, Passed, Rested, Terminal
  <2> QED BY <1>1, <1>4, <2>3, <2>4, FlowStep
<1> QED BY <1>2, <1>3, <1>4 DEF Dispatch

\* A step of a task that leaves its record.
LEMMA WriteFlow ==
  ASSUME IInv, FlowInv, NEW g \in Gens, NEW t \in Tasks,
         \/ TaskStart(g, t)
         \/ TaskWaits(g, t)
         \/ TaskFinish(g, t)
         \/ TaskRefused(g, t)
         \/ Effect(g, t)
  PROVE  FlowInv'
<1>1. /\ FlowOK(g) /\ phase[g] \in {"batch", "rejected"} /\ mem' = mem /\ DOMAIN phase = Gens
      /\ DOMAIN pc = Gens /\ pc[g] \in [Tasks -> Places]
  BY AttemptFacts
  DEF TaskStart, TaskWaits, TaskFinish, TaskRefused, WriteThen, Effect, At, Executing
<1>2. PICK place \in Places :
        /\ pc' = [pc EXCEPT ![g][t] = place]
        /\ phase' \in {phase, [phase EXCEPT ![g] = "rejected"]}
        /\ place \in {"idle", "finish", "refused"} =>
             pc[g][t] = "finish" \/ phase' = [phase EXCEPT ![g] = "rejected"]
  BY DEF TaskStart, TaskWaits, TaskFinish, TaskRefused, WriteThen, Throw, At, Goto, Effect, Places
<1>3. FlowOK(g)'
  <2>1. pc'[g][t] = place /\ \A u \in Tasks \ {t} : pc'[g][u] = pc[g][u]
    BY <1>1, <1>2
  <2>2. phase'[g] = phase[g] \/ phase'[g] = "rejected"
    BY <1>1, <1>2
  <2>3. phase'[g] = "batch" /\ place \in {"idle", "finish", "refused"} => pc[g][t] = "finish"
    BY <1>1, <1>2
  <2> QED BY <1>1, <2>1, <2>2, <2>3 DEF FlowOK
<1>4. \A h \in Gens \ {g} : mem'[h] = mem[h] /\ phase'[h] = phase[h] /\ pc'[h] = pc[h]
  BY <1>1, <1>2
<1> QED BY <1>3, <1>4, FlowStep

\* A step of a task that changes its status.
LEMMA ResultFlow ==
  ASSUME IInv, FlowInv, NEW g \in Gens, NEW t \in Tasks,
         \/ Resolve(g, t)
         \/ Fail(g, t)
         \/ Retry(g, t)
         \/ BackoffOver(g, t)
         \/ RefuseAdmission(g, t)
  PROVE  FlowInv'
<1>1. /\ FlowOK(g) /\ phase[g] \in {"batch", "rejected"} /\ phase' = phase
      /\ mem \in [Gens -> Graphs] /\ DOMAIN pc = Gens /\ pc[g] \in [Tasks -> Places]
  BY AttemptFacts
  DEF Resolve, Fail, Retry, BackoffOver, RefuseAdmission, InHandler, At, Executing
<1>2. /\ mem[g][t].status \in {"running", "waiting_for_provider"} /\ RecordOK(mem[g][t], t)
      /\ mem[g][t] \in TaskRecord
  BY <1>1, AttemptFacts
  DEF Resolve, Fail, Retry, BackoffOver, RefuseAdmission, InHandler, At, AttemptOK, PlaceOK, Good,
      Working, Graphs
<1>3. PICK s \in Waits \union Terminal \union {"waiting_for_provider"},
           place \in {"finish", "refused", "waiting"} :
        /\ mem' = [mem EXCEPT ![g][t].status = s] /\ pc' = [pc EXCEPT ![g][t] = place]
        /\ place # "waiting" => s # "waiting_for_provider"
  BY DEF Resolve, Fail, Retry, BackoffOver, RefuseAdmission, Settle, Goto, Waits, Terminal
<1>4. /\ mem'[g][t].status = s /\ mem'[g][t].upstream = mem[g][t].upstream
      /\ \A u \in Tasks \ {t} : mem'[g][u] = mem[g][u] /\ pc'[g][u] = pc[g][u]
      /\ pc'[g][t] = place
      /\ \A h \in Gens \ {g} : mem'[h] = mem[h] /\ pc'[h] = pc[h]
  BY <1>1, <1>2, <1>3 DEF Graphs, TaskRecord
<1>5. ~mem[g][t].upstream
  BY <1>2 DEF RecordOK, TaskRecord
<1>6. ASSUME NEW u \in Tasks, Shut(mem'[g], u) PROVE HasBadDep(mem'[g], u)
  <2>1. Shut(mem[g], u)
    BY <1>4, <1>5, <1>6 DEF Shut
  <2>2. PICK d \in Deps[u] : mem[g][d].status \in Bad
    BY <1>1, <2>1 DEF FlowOK, BlockedWithCause, HasBadDep
  <2>3. d \in Tasks /\ d # t
    BY <1>2, <2>2, PlanAssumption DEF Bad, Terminal
  <2> QED BY <1>4, <2>2, <2>3 DEF HasBadDep
<1>7. FlowOK(g)'
  BY <1>1, <1>3, <1>4, <1>6 DEF FlowOK, BlockedWithCause
<1> QED BY <1>1, <1>4, <1>7, FlowStep

LEMMA FreshFlow ==
  LET m == [t \in Tasks |-> Fresh(t)] IN Rested(m) /\ BlockedWithCause(m)
BY DEF Fresh, Rested, BlockedWithCause, Shut, Waits

\* A graph is loaded, before the run is claimed or afterwards, or forgotten.
LEMMA LoadFlow ==
  ASSUME IInv, FlowInv, NEW g \in Gens, Load(g) \/ Refuse(g) \/ Crash(g)
  PROVE  FlowInv'
<1>1. mem \in [Gens -> Graphs] /\ DOMAIN phase = Gens /\ DOMAIN pc = Gens /\ row \in Graphs
  BY AttemptFacts DEF IInv, TypeOK, Graphs
<1>2. PICK m \in {Recover(row), [t \in Tasks |-> Fresh(t)]} : mem' = [mem EXCEPT ![g] = m]
  BY DEF Load, Refuse, Crash
<1>3. PICK x \in {"unborn", "loaded", "begin", "dead"} : phase' = [phase EXCEPT ![g] = x]
  BY DEF Load, Refuse, Crash
<1>4. pc' \in {pc, [pc EXCEPT ![g] = Idle]}
  BY DEF Load, Refuse, Crash
<1>5. Rested(m) /\ BlockedWithCause(m)
  BY <1>1, <1>2, RecoverReachesAll, FreshFlow
<1>6. mem'[g] = m /\ phase'[g] = x
  BY <1>1, <1>2, <1>3
<1>7. FlowOK(g)'
  BY <1>5, <1>6 DEF FlowOK
<1>8. \A h \in Gens \ {g} : mem'[h] = mem[h] /\ phase'[h] = phase[h] /\ pc'[h] = pc[h]
  BY <1>1, <1>2, <1>3, <1>4
<1> QED BY <1>7, <1>8, FlowStep

\* What was loaded is begun as it is.
LEMMA ClaimFlow ==
  ASSUME IInv, FlowInv, NEW g \in Gens, Claim(g) \/ Adopt(g)
  PROVE  FlowInv'
<1>1. UNCHANGED <<mem, pc>> /\ DOMAIN phase = Gens /\ FlowOK(g)
  BY AttemptFacts DEF Claim, Adopt
<1>2. \/ phase[g] = "loaded" /\ phase' = [phase EXCEPT ![g] = "begin"]
      \/ phase' = [phase EXCEPT ![g] = "adopted"]
  BY DEF Claim, Adopt
<1>3. FlowOK(g)'
  BY <1>1, <1>2 DEF FlowOK, AllTerminal
<1> QED BY <1>1, <1>2, <1>3, FlowStep

LEMMA InitFlow == Init => FlowInv
  BY FreshFlow DEF Init, FlowInv, FlowOK

LEMMA NextFlow == IInv /\ FlowInv /\ [Next]_vars => FlowInv'
<1> SUFFICES ASSUME IInv, FlowInv, [Next]_vars PROVE FlowInv'
  OBVIOUS
<1>1. ASSUME NEW g \in Gens, NEW t \in Tasks, Execute(g, t) PROVE FlowInv'
  BY <1>1, WriteFlow, ResultFlow DEF Execute
<1>2. ASSUME NEW g \in Gens, Work(g) PROVE FlowInv'
  BY <1>1, <1>2, BeginFlow, TopFlow, DispatchFlow DEF Work
<1>3. ASSUME NEW g \in Gens, Crash(g) \/ Resume(g) PROVE FlowInv'
  BY <1>3, LoadFlow, ClaimFlow DEF Resume
<1>4. CASE UNCHANGED <<mem, phase, pc>>
  BY <1>4 DEF FlowInv, FlowOK, AllTerminal
<1> QED BY <1>2, <1>3, <1>4 DEF Next, Abort, Interrupt, vars

LEMMA AlwaysFlow == Spec => [](IInv /\ FlowInv)
<1>1. Init => IInv /\ FlowInv
  BY InitInv, InitFlow
<1>2. IInv /\ FlowInv /\ [Next]_vars => (IInv /\ FlowInv)'
  BY NextInv, NextFlow
<1> QED BY <1>1, <1>2, PTL DEF Spec

\* A run that returns has left nothing waiting: the loop ends when no task is
\* ready, and that is when every task is terminal, whatever failed, was
\* blocked, cancelled or resumed before (executionRuntime.ts:477-489).
ReturnsTerminal == \A g \in Gens : phase[g] = "done" => AllTerminal(g)
THEOREM NothingIsStranded == Spec => []ReturnsTerminal
<1>1. FlowInv => ReturnsTerminal
  BY DEF FlowInv, FlowOK, ReturnsTerminal
<1> QED BY <1>1, AlwaysFlow, PTL

\* No process keeps a task blocked by its dependencies of which none is
\* failed, blocked or cancelled: a pass blocks nothing else, and recovery, in one
\* pass in task order, unblocks all that its own resets have freed
\* (canonicalResume.ts:130-149).
BlockedForCause == \A g \in Gens : BlockedWithCause(mem[g])
THEOREM BlocksHaveCause == Spec => []BlockedForCause
<1>1. FlowInv => BlockedForCause
  BY DEF FlowInv, FlowOK, BlockedForCause
<1> QED BY <1>1, AlwaysFlow, PTL
=============================================================================
