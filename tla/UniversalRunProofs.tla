-------------------------- MODULE UniversalRunProofs --------------------------
(***************************************************************************)
(* For any number of attempts and file sets, but behind a resume with an   *)
(* outdated graph: one attempt at a time writes to the repository, a       *)
(* publish that may have happened is repeated only after a recorded        *)
(* failure, and the run is implemented once.  And without exception: what  *)
(* is published was built, tested and reviewed as it is.                   *)
(*                                                                         *)
(* Attempts claim the run in order and the one with authority is the       *)
(* newest, so what it has in memory is what the row records (RowInSync),   *)
(* but for the time it still holds an outdated graph.  The row is how an   *)
(* attempt knows of the ones before it: that the implementation was        *)
(* entered (ImplOnce), that the publish may have run (PubAlone, PubKept).  *)
(* An attempt that claims with an outdated graph comes after all that did  *)
(* anything: from then on what they did is lost, and not held against the  *)
(* row any more.  An attempt that lost its authority goes on, and learns   *)
(* of that only at its next write; what it has reached by then is the      *)
(* place of its phase.                                                     *)
(***************************************************************************)
EXTENDS UniversalRun, TLAPS

\* Attempts that have not begun to work, and those that have finished.
Starting(g) == pc[g].at \in {"unborn", "loaded", "adopted", "engineering"}
Over(g) == pc[g].at \in {"ended", "dead"}

BornInOrder ==
  /\ \A g, h \in Gens : g < h /\ Claimed(h) => Claimed(g)
  /\ authority # 0 =>
       /\ Claimed(authority) /\ pc[authority].at # "ended"
       /\ \A h \in Gens : authority < h => ~Claimed(h)
  /\ \A g \in outdated : Claimed(g)

\* A later attempt took over with an outdated graph; it has not written it yet.
Lost(g) == \E k \in outdated : g < k
Rewinding(g) == g \in outdated /\ pc[g].at = "engineering"

\* What the attempt with authority has in memory, against the row.
Synced(g) ==
  IF pc[g].at = "engineering" THEN mem[g] = Recover(row)
  ELSE IF In(g, "finish")
  THEN /\ \A t \in Tasks \ {Task(g)} : mem[g][t] = row[t]
       /\ row[Task(g)].status = "running" /\ row[Task(g)].started
  ELSE mem[g] = row
InSync(g) ==
  authority = g /\ Alive(g) /\ pc[g].at # "adopted" /\ ~Rewinding(g) => Synced(g)
RowInSync == \A g \in Gens : InSync(g)

\* The task of the phase an attempt is in; no other task is running.
Working(g) == In(g, "handler") \/ In(g, "committed")
TaskPlace(g) ==
  /\ In(g, "start") => mem[g][Task(g)].status = "ready"
  /\ Working(g) => mem[g][Task(g)].status = "running" /\ mem[g][Task(g)].started
  /\ In(g, "committed") => pc[g].at = "publish"
  /\ In(g, "finish") => mem[g][Task(g)].status \in {"completed", "failed", "cancelled"}
  /\ In(g, "finish") /\ mem[g][Task(g)].status = "cancelled" => pc[g].at # "publish"
  /\ ~Over(g) => \A t \in Tasks : mem[g][t].status = "running" => Working(g) /\ t = Task(g)

\* An implementation that completed has files, an approval has a reviewer.
TasksOK(m) ==
  /\ m["impl"].status = "completed" => m["impl"].out \in Files
  /\ m["rev"].out = "approved" => log.approved # {}

\* The files of an attempt that is past its checks.
Checked(g) ==
  /\ pc[g].at \in {"browser", "recheck", "review", "publish"} => Entry(g) \in log.passed
  /\ pc[g].at \in {"validate", "revalidate"} =>
       /\ pc[g].step \in {"start", "handler"} => Out(g, "val") = "none"
       /\ pc[g].step \in {"finish", "return"} /\ Out(g, "val") = "passed" =>
            Entry(g) \in log.passed

EarlierApproved(g) == \E a \in log.approved : a.by < g
Reviewed(g) ==
  /\ pc[g].at = "publish" => EarlierApproved(g) \/ Entry(g) \in log.approved
  /\ ~Over(g) /\ (pc[g].at = "engineering" => authority = g) /\ Out(g, "rev") = "approved" =>
       \/ EarlierApproved(g)
       \/ Entry(g) \in log.approved /\ pc[g].at \in {"review", "publish"}

AttemptOK(g) == TaskPlace(g) /\ TasksOK(mem[g]) /\ Checked(g) /\ Reviewed(g)

\* The attempt that implements, or did: the row knows of it.
Asker(g) == g \in log.asked \/ (pc[g].at = "implement" /\ pc[g].step \in {"start", "handler"})
ImplOnce ==
  /\ \A g, h \in Gens : Asker(g) /\ Asker(h) /\ g < h => Overtaken(g, h)
  /\ \A g \in Gens : Asker(g) /\ ~Lost(g) => row["impl"].status # "absent"

\* The row says that the publish is running, or that nobody knows how it went.
Ran(m) == m["pub"].status = "uncertain" \/ (m["pub"].status = "running" /\ m["pub"].started)
PubAlone ==
  \A g \in Gens : Publishing(g) /\ ~Lost(g) =>
    /\ Ran(row)
    /\ \A h \in Gens \ {g} :
         authority = h /\ Alive(h) /\ ~Starting(h) => row["pub"].status = "uncertain"

Pub(g) == Publishing(g) \/ \E s \in log.shipped : s.by = g
Between(a, b) == \E g \in log.refused : a <= g /\ g < b
PubsApart ==
  \A a, b \in Gens : Pub(a) /\ Pub(b) /\ a < b => Between(a, b) \/ Overtaken(a, b)
PubKept ==
  \A a \in Gens : Pub(a) /\ ~Lost(a) =>
    Ran(row) \/ row["pub"].status = "completed" \/ \E g \in log.refused : a <= g
RefusedOver == \A g \in log.refused : Over(g) \/ Returned(g, "publish")
LogBorn ==
  /\ \A s \in log.shipped \union log.approved : ~Starting(s.by)
  /\ \A g \in log.asked : ~Starting(g)

PubOK == OnePublisherUnlessOutdated /\ PubAlone /\ PubsApart /\ PubKept /\ RefusedOver

IInv ==
  /\ TypeOK /\ BornInOrder /\ RowInSync /\ TasksOK(row) /\ LogBorn
  /\ \A g \in Gens : AttemptOK(g)
  /\ ImplOnce /\ ShippedChecked
  /\ PubOK

-----------------------------------------------------------------------------
\* The types of what actions are built from.

Logs == [shipped : SUBSET Entries, refused : SUBSET Gens, passed : SUBSET Entries,
         approved : SUBSET Entries, asked : SUBSET Gens]

LEMMA GenIsPositive == \A g \in Gens : g # 0 /\ g \in 0..MaxGen /\ g \in Nat
  BY RunAssumption DEF Gens

LEMMA TaskTyped ==
  ASSUME NEW g \in Gens, pc[g].at \in DOMAIN TaskOf
  PROVE  Task(g) \in Tasks
  BY DEF Task, TaskOf, Tasks

LEMMA Places ==
  DOMAIN TaskOf = {"implement", "noop", "validate", "repair", "revalidate", "browserRepair",
                   "review", "publish"}
  BY DEF TaskOf

LEMMA TasksOfPlaces ==
  ASSUME NEW g \in Gens
  PROVE  /\ pc[g].at = "implement" => Task(g) = "impl"
         /\ pc[g].at \in {"noop", "repair", "browserRepair"} => Task(g) = "rep"
         /\ pc[g].at \in {"validate", "revalidate"} => Task(g) = "val"
         /\ pc[g].at = "review" => Task(g) = "rev"
         /\ pc[g].at = "publish" => Task(g) = "pub"
  BY DEF Task, TaskOf

LEMMA NextTask == ASSUME NEW g \in Gens, pc'[g].at = "publish" PROVE Task(g)' = "pub"
  BY DEF Task, TaskOf

\* Recovery keeps the record of what completed, failed or is uncertain.
LEMMA RecoverTasks ==
  ASSUME NEW m \in [Tasks -> TaskRecord]
  PROVE  /\ Recover(m) \in [Tasks -> TaskRecord]
         /\ \A t \in Tasks :
              /\ Recover(m)[t].status # "running" /\ Recover(m)[t].out = m[t].out
              /\ Recover(m)[t].status = "absent" <=> m[t].status = "absent"
              /\ Recover(m)[t].status = "completed" <=> m[t].status = "completed"
         /\ Ran(m) => Recover(m)["pub"].status = "uncertain"
<1>1. ASSUME NEW t \in Tasks
      PROVE  /\ Recover(m)[t] \in TaskRecord
             /\ Recover(m)[t].status # "running" /\ Recover(m)[t].out = m[t].out
             /\ Recover(m)[t].status = "absent" <=> m[t].status = "absent"
             /\ Recover(m)[t].status = "completed" <=> m[t].status = "completed"
             /\ t = "pub" /\ Ran(m) => Recover(m)[t].status = "uncertain"
  <2>1. m[t] \in TaskRecord
    OBVIOUS
  <2>2. CASE m[t].status \notin Resumable
    <3>1. Recover(m)[t] = m[t]
      BY <2>2 DEF Recover
    <3> QED BY <2>1, <2>2, <3>1 DEF Ran, Resumable
  <2>3. CASE m[t].status \in Resumable /\ t = "pub" /\ m[t].started
    <3>1. Recover(m)[t] = [m[t] EXCEPT !.status = "uncertain"]
      BY <2>3 DEF Recover
    <3> QED BY <2>1, <2>3, <3>1 DEF Ran, Resumable, TaskRecord, Status
  <2>4. CASE m[t].status \in Resumable /\ ~(t = "pub" /\ m[t].started)
    <3>1. Recover(m)[t] = [m[t] EXCEPT !.status = "ready", !.started = FALSE]
      BY <2>4 DEF Recover
    <3> QED BY <2>1, <2>4, <3>1 DEF Ran, Resumable, TaskRecord, Status
  <2> QED BY <2>2, <2>3, <2>4
<1>2. Recover(m) \in [Tasks -> TaskRecord]
  BY <1>1 DEF Recover
<1>3. "pub" \in Tasks
  BY DEF Tasks
<1> QED BY <1>1, <1>2, <1>3

-----------------------------------------------------------------------------
\* Whose writes can still reach the row.
LEMMA HolderFacts ==
  ASSUME IInv, NEW g \in Gens, authority = g
  PROVE  /\ Claimed(g) /\ ~Lost(g) /\ pc[g].at # "ended"
         /\ \A h \in Gens : g < h => ~Claimed(h)
         /\ Alive(g) /\ ~Starting(g) => Synced(g)
<1>1. /\ Claimed(g) /\ pc[g].at # "ended" /\ \A h \in Gens : g < h => ~Claimed(h)
      /\ outdated \subseteq Gens
  BY GenIsPositive DEF IInv, BornInOrder, TypeOK
<1>2. ~Lost(g)
  BY <1>1 DEF Lost, IInv, BornInOrder
<1>3. Alive(g) /\ ~Starting(g) => Synced(g)
  BY DEF IInv, RowInSync, InSync, Starting, Rewinding
<1> QED BY <1>1, <1>2, <1>3

LEMMA DoersHaveBegun ==
  ASSUME IInv, NEW g \in Gens, Asker(g) \/ Pub(g) \/ g \in log.refused
  PROVE  ~Starting(g) /\ Claimed(g)
<1>1. ~Starting(g)
  BY DEF IInv, LogBorn, Asker, Pub, Publishing, Starting, PubOK, RefusedOver, Over, Returned
<1> QED BY <1>1 DEF Starting, Claimed

\* Who did something and is lost to the attempt with authority was overtaken.
LEMMA LostIsOvertaken ==
  ASSUME IInv, NEW g \in Gens, authority = g, NEW h \in Gens, Asker(h) \/ Pub(h)
  PROVE  h <= g /\ (Lost(h) => h # g /\ Overtaken(h, g))
<1>1. h <= g
  BY HolderFacts, DoersHaveBegun, GenIsPositive
<1>2. \A k \in outdated : k \in Gens /\ k <= g
  BY HolderFacts, GenIsPositive DEF IInv, BornInOrder, TypeOK
<1> QED BY <1>1, <1>2, HolderFacts DEF Lost, Overtaken

\* Until an outdated graph is written, all that was done is lost.
LEMMA RewindLoses ==
  ASSUME IInv, NEW g \in Gens, authority = g, Rewinding(g), NEW h \in Gens, Asker(h) \/ Pub(h)
  PROVE  Lost(h)
<1>1. h # g
  BY DoersHaveBegun DEF Rewinding, Starting
<1> QED BY <1>1, LostIsOvertaken, GenIsPositive DEF Lost, Rewinding

\* What a step of one attempt has to show.

Moves(g) ==
  /\ pc' \in [Gens -> [at : Phases, step : Steps]]
  /\ mem' \in [Gens -> [Tasks -> TaskRecord]]
  /\ files' \in [Gens -> Files]
  /\ \A h \in Gens \ {g} : pc'[h] = pc[h] /\ mem'[h] = mem[h] /\ files'[h] = files[h]
  /\ pc'[g].at \notin {"unborn", "loaded"} /\ (Starting(g)' => Starting(g))
  /\ outdated' = outdated
  /\ authority' = authority \/ (authority = g /\ authority' = 0 /\ pc'[g].at = "ended")
  /\ authority' = g => pc'[g].at # "ended"
  /\ complete' \in BOOLEAN /\ aborted' \subseteq Gens
  /\ row' = row \/ (authority = g /\ row' = mem'[g])

\* What is logged stays, and what is new is of this attempt.
Grows(g) ==
  /\ log' \in Logs
  /\ log.passed \subseteq log'.passed /\ log.approved \subseteq log'.approved
  /\ log.shipped \subseteq log'.shipped /\ log.refused \subseteq log'.refused
  /\ \A s \in log'.shipped \ log.shipped : s = Entry(g) /\ pc[g].at = "publish"
  /\ \A s \in log'.approved \ log.approved : s.by = g /\ ~Starting(g)
  /\ \A h \in log'.asked \ log.asked : h = g /\ ~Starting(g)

LEMMA StepInv ==
  ASSUME IInv, NEW g \in Gens, Alive(g), Moves(g), Grows(g), AttemptOK(g)', InSync(g)',
         ImplOnce', PubOK'
  PROVE  IInv'
<1>1. TypeOK /\ TypeOK'
  <2>1. TypeOK /\ authority' \in 0..MaxGen
    BY RunAssumption DEF IInv, TypeOK, Moves, Gens
  <2> QED BY <2>1 DEF Moves, Grows, TypeOK, Logs
<1>2. \A h \in Gens : (Claimed(h)' <=> Claimed(h)) /\ (Starting(h)' => Starting(h))
  <2>1. Claimed(g)' /\ Claimed(g) /\ (Starting(g)' => Starting(g))
    BY DEF Moves, Claimed, Alive
  <2>2. \A h \in Gens \ {g} : pc'[h] = pc[h]
    BY DEF Moves
  <2> QED BY <2>1, <2>2 DEF Claimed, Starting
<1>3. BornInOrder'
  <2>1. authority' # 0 => authority' = authority /\ authority \in Gens
    BY <1>1, RunAssumption DEF Moves, TypeOK, Gens
  <2>2. authority' # 0 => Claimed(authority)' /\ pc'[authority'].at # "ended"
    BY <1>2, <2>1 DEF Moves, IInv, BornInOrder
  <2>3. outdated' = outdated /\ outdated \subseteq Gens
    BY <1>1 DEF Moves, TypeOK
  <2> QED BY <1>2, <2>1, <2>2, <2>3 DEF IInv, BornInOrder
<1>4. ASSUME NEW h \in Gens PROVE InSync(h)'
  <2>1. CASE h = g
    BY <2>1
  <2>2. CASE h # g /\ authority' = h
    <3>1. /\ authority = h /\ row' = row /\ pc'[h] = pc[h] /\ mem'[h] = mem[h]
          /\ outdated' = outdated
      BY <2>2, GenIsPositive DEF Moves
    <3>2. InSync(h)
      BY DEF IInv, RowInSync
    <3>3. Synced(h) => Synced(h)'
      BY <3>1 DEF Synced, In, Task, Recover, Ran
    <3> QED BY <3>1, <3>2, <3>3 DEF InSync, Alive, Rewinding
  <2>3. CASE authority' # h
    BY <2>3 DEF InSync
  <2> QED BY <2>1, <2>2, <2>3
<1>5. ASSUME NEW m, TasksOK(m) PROVE TasksOK(m)'
  BY <1>5 DEF TasksOK, Grows
<1>6. TasksOK(row)'
  <2>1. TasksOK(row) /\ TasksOK(mem[g])'
    BY DEF IInv, AttemptOK
  <2>2. TasksOK(row)'
    BY <2>1 DEF TasksOK, Moves, Grows
  <2> QED BY <2>2
<1>7. LogBorn'
  <2>1. ASSUME NEW s \in log'.shipped \union log'.approved PROVE ~Starting(s.by)'
    <3>1. s.by \in Gens
      BY <1>1 DEF TypeOK, Entries
    <3>2. ~Starting(s.by)
      <4>1. CASE s \in log.shipped \union log.approved
        BY <4>1 DEF IInv, LogBorn
      <4>2. CASE s \notin log.shipped \union log.approved
        BY <2>1, <4>2 DEF Grows, Starting, Entry
      <4> QED BY <4>1, <4>2
    <3> QED BY <1>2, <3>1, <3>2
  <2>2. ASSUME NEW h \in log'.asked PROVE ~Starting(h)'
    <3>1. h \in Gens /\ ~Starting(h)
      BY <1>1 DEF Grows, IInv, LogBorn, TypeOK
    <3> QED BY <1>2, <3>1
  <2> QED BY <2>1, <2>2 DEF LogBorn
<1>8. ASSUME NEW h \in Gens \ {g} PROVE AttemptOK(h)'
  <2>1. pc'[h] = pc[h] /\ mem'[h] = mem[h] /\ files'[h] = files[h] /\ AttemptOK(h)
    BY DEF Moves, IInv
  <2>2. TaskPlace(h)'
    BY <2>1 DEF AttemptOK, TaskPlace, In, Working, Task, Over
  <2>3. TasksOK(mem[h])'
    BY <2>1 DEF AttemptOK, TasksOK, Grows
  <2>4. Checked(h)'
    BY <2>1 DEF AttemptOK, Checked, Entry, Out, Grows
  <2>5. Reviewed(h)'
    <3>1. authority' = h => authority = h
      BY GenIsPositive DEF Moves
    <3> QED BY <2>1, <3>1 DEF AttemptOK, Reviewed, EarlierApproved, Entry, Out, Over, Grows
  <2> QED BY <2>2, <2>3, <2>4, <2>5 DEF AttemptOK
<1>9. ShippedChecked'
  <2>1. ASSUME NEW s \in log'.shipped
        PROVE  s \in log'.passed /\ (s \in log'.approved \/ \E a \in log'.approved : a.by < s.by)
    <3>1. CASE s \in log.shipped
      BY <3>1 DEF IInv, ShippedChecked, Grows
    <3>2. CASE s \notin log.shipped
      <4>1. s = Entry(g) /\ s.by = g /\ pc[g].at = "publish" /\ AttemptOK(g)
        BY <2>1, <3>2 DEF Grows, Entry, IInv
      <4> QED BY <4>1 DEF AttemptOK, Checked, Reviewed, EarlierApproved, Grows
    <3> QED BY <3>1, <3>2
  <2> QED BY <2>1 DEF ShippedChecked
<1> QED BY <1>1, <1>3, <1>4, <1>6, <1>7, <1>8, <1>9 DEF IInv, RowInSync

\* What an attempt with authority writes it has taken from the row, but for
\* the task it is at.
LEMMA WritesRow ==
  ASSUME IInv, NEW g \in Gens, Alive(g), ~Starting(g), Moves(g), row' # row
  PROVE  /\ authority = g /\ row' = mem'[g]
         /\ mem[g]["impl"].status = "absent" <=> row["impl"].status = "absent"
         /\ pc[g].at # "publish" => mem[g]["pub"] = row["pub"]
<1>1. authority = g /\ row' = mem'[g] /\ Synced(g) /\ pc[g].at # "engineering"
  BY HolderFacts DEF Moves, Starting
<1>2. row \in [Tasks -> TaskRecord] /\ "impl" \in Tasks /\ "pub" \in Tasks
  BY DEF IInv, TypeOK, Tasks
<1>3. CASE In(g, "finish")
  <2>1. AttemptOK(g)
    BY DEF IInv
  <2>2. Task(g) = "impl" => mem[g]["impl"].status # "absent" /\ row["impl"].status # "absent"
    BY <1>1, <1>3, <2>1 DEF Synced, AttemptOK, TaskPlace
  <2>3. pc[g].at # "publish" => Task(g) # "pub"
    BY <1>3, TasksOfPlaces, Places DEF In
  <2> QED BY <1>1, <1>2, <1>3, <2>2, <2>3 DEF Synced
<1>4. CASE ~In(g, "finish")
  BY <1>1, <1>4 DEF Synced
<1> QED BY <1>1, <1>3, <1>4

\* A step that does not ask for an implementation.
LEMMA AskStays ==
  ASSUME IInv, NEW g \in Gens, Alive(g), Moves(g), \A h \in Gens : Asker(h)' => Asker(h),
         \/ row' = row
         \/ ~Starting(g) /\ (mem'[g]["impl"].status = "absent" => mem[g]["impl"].status = "absent")
  PROVE  ImplOnce'
<1>1. row'["impl"].status = "absent" => row["impl"].status = "absent"
  BY WritesRow
<1>2. outdated' = outdated
  BY DEF Moves
<1> QED BY <1>1, <1>2 DEF IInv, ImplOnce, Lost, Overtaken

\* A step that does not publish.
LEMMA PubStays ==
  ASSUME IInv, NEW g \in Gens, Alive(g), ~Starting(g), Moves(g),
         \A h \in Gens : (Publishing(h)' => Publishing(h)) /\ (Pub(h)' => Pub(h)),
         log'.refused = log.refused,
         row' = row \/ (mem'[g]["pub"] = mem[g]["pub"] /\ pc[g].at # "publish"), TypeOK',
         Returned(g, "publish") => Over(g)' \/ Returned(g, "publish")'
  PROVE  PubOK'
<1>1. row'["pub"] = row["pub"] /\ (Ran(row)' <=> Ran(row)) /\ outdated' = outdated
  BY WritesRow DEF Ran, Moves
<1>2. PubAlone'
  <2>1. ASSUME NEW h \in Gens, authority' = h, Alive(h)', ~Starting(h)'
        PROVE  authority = h /\ Alive(h) /\ ~Starting(h)
    BY <2>1, GenIsPositive DEF Moves, Alive, Starting
  <2> QED BY <1>1, <2>1 DEF IInv, PubOK, PubAlone, Lost
<1>3. PubsApart' /\ PubKept'
  BY <1>1 DEF IInv, PubOK, PubsApart, PubKept, Between, Lost, Overtaken
<1>4. OnePublisherUnlessOutdated'
  BY <1>1 DEF IInv, PubOK, OnePublisherUnlessOutdated, Overtaken
<1>5. RefusedOver'
  <2>1. ASSUME NEW h \in log.refused PROVE Over(h)' \/ Returned(h, "publish")'
    <3>1. h \in Gens /\ (Over(h) \/ Returned(h, "publish"))
      BY DEF IInv, PubOK, RefusedOver, TypeOK
    <3>2. h # g => pc'[h] = pc[h]
      BY <3>1 DEF Moves
    <3> QED BY <3>1, <3>2 DEF Returned, Alive, Over
  <2> QED BY <2>1 DEF RefusedOver
<1> QED BY <1>2, <1>3, <1>4, <1>5 DEF PubOK

-----------------------------------------------------------------------------
\* Leaving a run and going on to the next phase.

LEMMA AliveTyped ==
  ASSUME TypeOK, NEW g \in Gens
  PROVE  /\ pc[g] \in [at : Phases, step : Steps] /\ mem[g] \in [Tasks -> TaskRecord]
         /\ files[g] \in Files /\ row \in [Tasks -> TaskRecord] /\ log \in Logs
         /\ Entry(g) \in Entries
  BY DEF TypeOK, Logs, Entry, Entries

LEMMA OverOK ==
  ASSUME NEW g \in Gens, pc'[g].at \in {"ended", "dead"}, TasksOK(mem[g])'
  PROVE  AttemptOK(g)' /\ ~Alive(g)'
  BY Places DEF AttemptOK, TaskPlace, Checked, Reviewed, Alive, Over, In, Working

LEMMA SameLog == ASSUME TypeOK, NEW g \in Gens, UNCHANGED log PROVE Grows(g)
  BY DEF Grows, TypeOK, Logs

LEMMA LeaveMoves ==
  ASSUME TypeOK, NEW g \in Gens, NEW success \in BOOLEAN, Leave(g, success),
         UNCHANGED <<files, aborted, outdated>>, mem' \in [Gens -> [Tasks -> TaskRecord]],
         \A h \in Gens \ {g} : mem'[h] = mem[h],
         row' = row \/ (authority = g /\ row' = mem'[g])
  PROVE  Moves(g) /\ pc'[g].at = "ended"
<1>1. pc' = [pc EXCEPT ![g] = [at |-> "ended", step |-> "enter"]]
  BY DEF Leave, Goto
<1>2. pc' \in [Gens -> [at : Phases, step : Steps]] /\ pc'[g].at = "ended"
  BY <1>1 DEF TypeOK, Phases, Steps
<1>3. authority' = IF authority = g THEN 0 ELSE authority
  BY DEF Leave
<1>4. complete' \in BOOLEAN
  BY DEF Leave, TypeOK
<1> QED BY <1>1, <1>2, <1>3, <1>4, GenIsPositive DEF Moves, Starting, TypeOK

LEMMA LeaveInv ==
  ASSUME IInv, NEW g \in Gens, Alive(g), NEW success \in BOOLEAN, Leave(g, success),
         ~Starting(g), UNCHANGED <<files, aborted, mem, row, log, outdated>>
  PROVE  IInv'
<1>1. TypeOK
  BY DEF IInv
<1>2. Moves(g) /\ pc'[g].at = "ended" /\ Grows(g)
  BY <1>1, LeaveMoves, SameLog DEF TypeOK
<1>3. AttemptOK(g)' /\ InSync(g)'
  <2>1. TasksOK(mem[g])'
    BY DEF IInv, AttemptOK, TasksOK
  <2> QED BY <1>2, <2>1, OverOK DEF InSync
<1>4. \A h \in Gens : (Publishing(h)' => Publishing(h)) /\ (Asker(h)' => Asker(h))
  BY <1>2 DEF Moves, Publishing, Asker
<1>5. ImplOnce'
  BY <1>2, <1>4, AskStays
<1>6. TypeOK'
  BY <1>1, <1>2, RunAssumption DEF TypeOK, Moves
<1>7. PubOK'
  BY <1>2, <1>4, <1>6, PubStays DEF Pub, Over
<1> QED BY <1>2, <1>3, <1>5, <1>7, StepInv

\* Between the tasks: only the phase, the files and the log change.
Later == Phases \ {"unborn", "loaded", "adopted", "engineering", "ended", "dead"}
LEMMA OnwardInv ==
  ASSUME IInv, NEW g \in Gens, NEW phase \in Later,
         Onward(g, phase), UNCHANGED <<row, mem, aborted, outdated>>,
         Alive(g), ~Starting(g), pc[g].at # "publish",
         pc[g].at \in DOMAIN TaskOf => pc[g].step = "return",
         \E f \in Files : files' = [files EXCEPT ![g] = f],
         Grows(g), log'.shipped = log.shipped, log'.refused = log.refused, log'.asked = log.asked,
         Checked(g)', Reviewed(g)'
  PROVE  IInv'
<1>1. TypeOK
  BY DEF IInv
<1>2. pc' = [pc EXCEPT ![g] = [at |-> phase, step |-> "enter"]] /\ UNCHANGED <<authority, complete>>
  BY DEF Onward, Goto
<1>3. /\ pc' \in [Gens -> [at : Phases, step : Steps]]
      /\ pc'[g].at = phase /\ pc'[g].step = "enter" /\ ~Starting(g)'
  BY <1>1, <1>2 DEF TypeOK, Steps, Later, Starting
<1>4. Moves(g)
  <2>1. files' \in [Gens -> Files] /\ \A h \in Gens \ {g} : files'[h] = files[h]
    BY <1>1 DEF TypeOK
  <2>2. \A h \in Gens \ {g} : pc'[h] = pc[h]
    BY <1>1, <1>2 DEF TypeOK
  <2>3. phase \notin {"unborn", "loaded", "ended"}
    BY DEF Later
  <2> QED BY <1>1, <1>2, <1>3, <2>1, <2>2, <2>3 DEF Moves, TypeOK
<1>5. AttemptOK(g)'
  <2>1. ~Working(g) /\ ~Working(g)' /\ ~In(g, "start")' /\ ~In(g, "finish")' /\ ~In(g, "committed")'
    BY <1>3 DEF Working, In
  <2>2. AttemptOK(g) /\ ~Over(g)
    BY DEF IInv, Alive, Over
  <2>3. TaskPlace(g)'
    BY <2>1, <2>2 DEF AttemptOK, TaskPlace
  <2>4. TasksOK(mem[g])'
    BY <2>2 DEF AttemptOK, TasksOK, Grows
  <2> QED BY <2>3, <2>4 DEF AttemptOK
<1>6. InSync(g)'
  <2>1. authority' = g => Synced(g)
    BY <1>2, HolderFacts
  <2>2. ~In(g, "finish") /\ ~In(g, "finish")'
    BY <1>3 DEF In
  <2>3. phase # "engineering" /\ pc[g].at # "engineering"
    BY DEF Later, Starting
  <2> QED BY <1>3, <2>1, <2>2, <2>3 DEF Synced, InSync
<1>7. \A h \in Gens : (Publishing(h)' => Publishing(h)) /\ (Asker(h)' => Asker(h))
  BY <1>3, <1>4 DEF Moves, Publishing, Asker
<1>8. ImplOnce'
  BY <1>4, <1>7, AskStays
<1>9. TypeOK'
  BY <1>1, <1>2, <1>4 DEF TypeOK, Moves, Grows, Logs
<1>10. PubOK'
  BY <1>4, <1>7, <1>9, PubStays DEF Pub, Returned
<1> QED BY <1>4, <1>5, <1>6, <1>8, <1>10, StepInv

-----------------------------------------------------------------------------
\* A task: saved, handled and saved again.

LEMMA SaveMoves ==
  ASSUME TypeOK, NEW g \in Gens, Alive(g), NEW tasks \in [Tasks -> TaskRecord], NEW step \in Steps,
         SaveThen(g, tasks, step), mem' \in [Gens -> [Tasks -> TaskRecord]], mem'[g] = tasks,
         \A h \in Gens \ {g} : mem'[h] = mem[h], UNCHANGED <<files, aborted, outdated>>
  PROVE  /\ Moves(g)
         /\ \/ /\ authority = g /\ row' = tasks
               /\ pc'[g].at = pc[g].at /\ pc'[g].step = step
            \/ pc'[g].at = "ended"
<1>1. CASE CanWrite(g) /\ row' = tasks /\ Step(g, step) /\ UNCHANGED <<authority, complete>>
  <2>1. pc' = [pc EXCEPT ![g].step = step]
    BY <1>1 DEF Step
  <2>2. /\ pc' \in [Gens -> [at : Phases, step : Steps]]
        /\ pc'[g].at = pc[g].at /\ pc'[g].step = step
    BY <2>1 DEF TypeOK
  <2> QED BY <1>1, <2>1, <2>2 DEF Moves, TypeOK, CanWrite, Alive, Starting
<1>2. CASE Throw(g) /\ (row' = row \/ (CanWrite(g) /\ row' = tasks))
  <2>1. PICK success \in BOOLEAN : Leave(g, success)
    BY <1>2 DEF Throw
  <2> QED BY <1>2, <2>1, LeaveMoves DEF CanWrite
<1> QED BY <1>1, <1>2 DEF SaveThen

\* An attempt that enters or starts its task, saving it as "ready", "running"
\* or "cancelled"; it does not get to the handler of the publish.
LEMMA TaskInv ==
  ASSUME IInv, NEW g \in Gens, Alive(g), Moves(g), NEW t, t = Task(g),
         In(g, "enter") \/ In(g, "start"), mem'[g][t].status \notin {"absent", "completed"},
         \A u \in Tasks \ {t} : mem'[g][u] = mem[g][u],
         \/ pc'[g].at = "ended"
         \/ authority = g /\ row' = mem'[g] /\ pc'[g].at = pc[g].at
            /\ pc'[g].step \in {"start", "handler", "return"},
         pc'[g].at # "ended" => TaskPlace(g)',
         mem'[g][t].out \in {"none", mem[g][t].out},
         t = "val" => mem'[g][t].out = "none",
         UNCHANGED <<files, log>>,
         t = "impl" => In(g, "start") \/ mem[g]["impl"].status = "absent",
         t = "pub" => /\ mem[g]["pub"].status \notin {"completed", "uncertain", "running"}
                      /\ mem'[g]["pub"].status # "uncertain"
  PROVE  IInv'
<1> USE DEF IInv
<1>1. /\ TypeOK /\ TypeOK' /\ Grows(g) /\ t \in Tasks /\ ~Starting(g) /\ ~Over(g)
      /\ outdated' = outdated
  BY SameLog, RunAssumption, TaskTyped, Places DEF TypeOK, Moves, In, Starting, Over
<1>2. AttemptOK(g)
  OBVIOUS
<1>3. TasksOK(mem[g])'
  BY <1>1, <1>2 DEF AttemptOK, TasksOK, Tasks
<1>4. AttemptOK(g)'
  <2>1. CASE pc'[g].at = "ended"
    BY <1>3, <2>1, OverOK
  <2>2. CASE pc'[g].at # "ended"
    <3>1. pc'[g].at = pc[g].at /\ files'[g] = files[g] /\ log' = log
      BY <2>2 DEF Moves
    <3>2. Checked(g)'
      BY <1>1, <1>2, <2>2, <3>1, TasksOfPlaces DEF AttemptOK, Checked, Entry, Out
    <3>3. Reviewed(g)'
      BY <1>1, <1>2, <2>2, <3>1, TasksOfPlaces
        DEF AttemptOK, Reviewed, Entry, Out, EarlierApproved, Tasks, Starting
    <3> QED BY <1>3, <2>2, <3>2, <3>3 DEF AttemptOK
  <2> QED BY <2>1, <2>2
<1>5. InSync(g)'
  <2>1. Alive(g)' => row' = mem'[g] /\ pc'[g].step # "finish" /\ pc'[g].at = pc[g].at
    BY DEF Alive
  <2> QED BY <2>1, Places DEF InSync, Synced, In
<1>6. authority = g => mem[g] = row
  BY <1>1, HolderFacts, Places DEF Synced, In
<1>7. ImplOnce'
  <2>1. CASE t # "impl"
    <3>1. \A h \in Gens : Asker(h)' => Asker(h)
      BY <2>1, TasksOfPlaces DEF Moves, Asker
    <3>2. mem'[g]["impl"] = mem[g]["impl"]
      BY <2>1 DEF Tasks
    <3> QED BY <1>1, <3>1, <3>2, AskStays
  <2>2. CASE t = "impl" /\ In(g, "start")
    <3>1. Asker(g)
      BY <2>2, TasksOfPlaces, Places DEF Asker, In
    <3>2. \A h \in Gens : Asker(h)' => Asker(h)
      BY <3>1 DEF Moves, Asker
    <3> QED BY <1>1, <2>2, <3>2, AskStays
  <2>3. CASE t = "impl" /\ ~In(g, "start")
    <3>1. CASE pc'[g].at = "ended"
      <4>1. \A h \in Gens : Asker(h)' => Asker(h)
        BY <3>1 DEF Moves, Asker
      <4> QED BY <1>1, <2>3, <4>1, AskStays
    <3>2. CASE pc'[g].at # "ended"
      <4>1. authority = g /\ \A h \in Gens : Asker(h) => Lost(h)
        BY <1>6, <2>3, <3>2 DEF ImplOnce
      <4>2. ASSUME NEW h \in Gens, Asker(h)' PROVE h = g \/ (Asker(h) /\ Lost(h))
        BY <4>1, <4>2 DEF Moves, Asker
      <4>3. ASSUME NEW h \in Gens, Asker(h) PROVE h <= g /\ h # g /\ Overtaken(h, g)
        BY <4>1, <4>3, LostIsOvertaken
      <4>4. ASSUME NEW h \in Gens, NEW k \in Gens, Asker(h)', Asker(k)', h < k
            PROVE  Overtaken(h, k)'
        <5>1. h # g
          BY <4>2, <4>3, <4>4, GenIsPositive
        <5>2. Overtaken(h, k)
          BY <4>2, <4>3, <4>4, <5>1 DEF ImplOnce
        <5> QED BY <1>1, <5>2 DEF Overtaken
      <4>5. ASSUME NEW h \in Gens, Asker(h)', ~Lost(h)' PROVE row'["impl"].status # "absent"
        <5>1. row' = mem'[g]
          BY <3>2
        <5> QED BY <2>3, <5>1
      <4> QED BY <4>4, <4>5 DEF ImplOnce
    <3> QED BY <3>1, <3>2
  <2> QED BY <2>1, <2>2, <2>3
<1>8. PubOK'
  <2>1. CASE t # "pub"
    <3>1. pc[g].at # "publish" /\ mem'[g]["pub"] = mem[g]["pub"]
      BY <2>1, TasksOfPlaces DEF In, Tasks
    <3>2. \A h \in Gens : (Publishing(h)' => Publishing(h)) /\ (Pub(h)' => Pub(h))
      BY <3>1 DEF Moves, Publishing, Pub
    <3> QED BY <1>1, <3>1, <3>2, PubStays DEF Returned
  <2>2. CASE t = "pub" /\ authority # g
    <3>1. row' = row /\ pc'[g].at = "ended"
      BY <2>2 DEF Moves
    <3>2. \A h \in Gens : (Publishing(h)' => Publishing(h)) /\ (Pub(h)' => Pub(h))
      BY <3>1 DEF Moves, Publishing, Pub
    <3> QED BY <1>1, <3>1, <3>2, PubStays DEF Over
  <2>3. CASE t = "pub" /\ authority = g
    <3>1. ~Ran(row) /\ row["pub"].status # "completed" /\ pc[g].at = "publish"
      BY <1>6, <2>3, TasksOfPlaces, Places DEF Ran, In
    <3>2. \A h \in Gens : Publishing(h) => Lost(h)
      BY <3>1 DEF PubOK, PubAlone
    <3>3. g \notin log.refused
      BY <3>1, Places DEF PubOK, RefusedOver, Over, Returned, In
    <3>4. ASSUME NEW h \in Gens, Pub(h)
          PROVE  h # g /\ h <= g /\ (Between(h, g) \/ Overtaken(h, g))
      <4>1. CASE Lost(h)
        BY <2>3, <3>4, <4>1, LostIsOvertaken
      <4>2. CASE ~Lost(h)
        <5>1. PICK r \in log.refused : h <= r
          BY <3>1, <3>4, <4>2 DEF PubOK, PubKept
        <5>2. r \in Gens /\ r # g
          BY <1>1, <3>3 DEF TypeOK
        <5>3. ~(g < r)
          BY <2>3, <5>2, DoersHaveBegun, HolderFacts
        <5> QED BY <5>1, <5>2, <5>3, GenIsPositive DEF Between
      <4> QED BY <4>1, <4>2
    <3>5. \A h \in Gens : Publishing(h)' => Publishing(h) \/ h = g
      BY DEF Moves, Publishing
    <3>6. \A h \in Gens : Pub(h)' => Pub(h) \/ (h = g /\ Publishing(g)')
      BY <3>5 DEF Pub
    <3>7. Publishing(g)' => row' = mem'[g] /\ Ran(row)' /\ authority' = g
      <4> SUFFICES ASSUME Publishing(g)' PROVE row' = mem'[g] /\ Ran(row)' /\ authority' = g
        OBVIOUS
      <4>1. In(g, "handler")' /\ pc'[g].at # "ended"
        BY <3>1, Places DEF Publishing, In
      <4>2. row' = mem'[g] /\ authority' = g /\ pc'[g].at = "publish"
        BY <2>3, <3>1, <4>1 DEF Moves
      <4>3. Task(g)' = "pub"
        BY <4>2, NextTask
      <4> QED BY <4>1, <4>2, <4>3 DEF TaskPlace, Working, Ran
    <3>8. PubAlone'
      <4>1. ASSUME NEW h \in Gens, Publishing(h)', ~Lost(h)' PROVE h = g
        BY <1>1, <3>2, <3>5, <4>1 DEF Lost
      <4> QED BY <3>7, <4>1 DEF PubAlone
    <3>9. PubKept'
      <4>1. ASSUME NEW h \in Gens, Pub(h), ~Lost(h)'
            PROVE  \E r \in log'.refused : h <= r
        BY <1>1, <3>1, <4>1 DEF PubOK, PubKept, Lost
      <4> QED BY <3>6, <3>7, <4>1 DEF PubKept
    <3>10. PubsApart' /\ OnePublisherUnlessOutdated'
      <4>1. ASSUME NEW h \in Gens, NEW k \in Gens, Pub(h)', Pub(k)', h < k
            PROVE  Between(h, k) \/ Overtaken(h, k)
        <5>1. h # g
          BY <3>4, <3>6, <4>1, GenIsPositive
        <5> QED BY <3>4, <3>6, <4>1, <5>1 DEF PubOK, PubsApart
      <4>2. ASSUME NEW h \in Gens, NEW k \in Gens, Publishing(h)', Publishing(k)', h < k
            PROVE  Overtaken(h, k)
        <5>1. Publishing(h)
          BY <3>4, <3>5, <3>6, <4>2, GenIsPositive DEF Pub
        <5>2. CASE Publishing(k)
          BY <4>2, <5>1, <5>2 DEF PubOK, OnePublisherUnlessOutdated
        <5>3. CASE k = g
          BY <2>3, <3>2, <5>1, <5>3, LostIsOvertaken DEF Pub
        <5> QED BY <3>5, <4>2, <5>2, <5>3
      <4> QED BY <1>1, <4>1, <4>2
            DEF PubsApart, OnePublisherUnlessOutdated, Between, Overtaken
    <3>11. RefusedOver'
      BY <1>1, <3>3 DEF PubOK, RefusedOver, Moves, Returned, Over, TypeOK
    <3> QED BY <3>8, <3>9, <3>10, <3>11 DEF PubOK
  <2> QED BY <2>1, <2>2, <2>3
<1> QED BY <1>1, <1>4, <1>5, <1>7, <1>8, StepInv

LEMMA SetRecord ==
  ASSUME TypeOK, NEW g \in Gens, NEW t \in Tasks, NEW r \in TaskRecord
  PROVE  LET tasks == [mem[g] EXCEPT ![t] = r]
             all == [mem EXCEPT ![g] = tasks]
         IN /\ tasks \in [Tasks -> TaskRecord] /\ all \in [Gens -> [Tasks -> TaskRecord]]
            /\ all[g] = tasks /\ tasks[t] = r /\ \A u \in Tasks \ {t} : tasks[u] = mem[g][u]
            /\ \A h \in Gens \ {g} : all[h] = mem[h]
  BY DEF TypeOK

LEMMA AtTask ==
  ASSUME TypeOK, NEW g \in Gens, pc[g].at \in DOMAIN TaskOf
  PROVE  Alive(g) /\ ~Over(g) /\ ~Starting(g) /\ Task(g) \in Tasks
  BY TaskTyped, Places DEF Alive, Over, Starting

\* What was kept from before is not run again.
LEMMA KeptInv ==
  ASSUME IInv, NEW g \in Gens, In(g, "enter"), Kept(mem[g], Task(g)), Step(g, "return"),
         UNCHANGED <<row, authority, complete, files, mem, aborted, log, outdated>>
  PROVE  IInv'
<1>1. /\ TypeOK /\ Alive(g) /\ ~Over(g) /\ ~Starting(g) /\ AttemptOK(g) /\ Grows(g)
      /\ TypeOK'
  <2>1. TypeOK
    BY DEF IInv
  <2>2. TypeOK'
    BY <2>1 DEF TypeOK, Step, Steps
  <2> QED BY <2>1, <2>2, AtTask, SameLog DEF In, IInv
<1>2. /\ pc' \in [Gens -> [at : Phases, step : Steps]]
      /\ pc'[g].at = pc[g].at /\ pc'[g].step = "return"
      /\ \A h \in Gens \ {g} : pc'[h] = pc[h]
  BY <1>1 DEF Step, TypeOK
<1>3. Moves(g)
  BY <1>1, <1>2 DEF Moves, TypeOK, Alive, Starting
<1>4. AttemptOK(g)'
  <2>1. TaskPlace(g)'
    BY <1>1, <1>2 DEF AttemptOK, TaskPlace, In, Working, Over
  <2>2. pc[g].at \notin {"validate", "revalidate"}
    BY TasksOfPlaces DEF Kept
  <2> QED BY <1>1, <1>2, <2>1, <2>2
    DEF AttemptOK, TasksOK, Checked, Reviewed, Entry, Out, EarlierApproved, Over
<1>5. InSync(g)'
  BY <1>1, <1>2, HolderFacts DEF InSync, Synced, In, Starting
<1>6. \A h \in Gens : (Publishing(h)' => Publishing(h)) /\ (Asker(h)' => Asker(h))
  BY <1>2 DEF Publishing, Asker
<1>7. ImplOnce'
  BY <1>1, <1>3, <1>6, AskStays
<1>8. PubOK'
  BY <1>1, <1>3, <1>6, PubStays DEF Pub, Returned, In
<1> QED BY <1>1, <1>3, <1>4, <1>5, <1>7, <1>8, StepInv

LEMMA EnterInv ==
  ASSUME IInv, NEW g \in Gens, Enter(g), UNCHANGED outdated PROVE IInv'
<1>1. CASE Kept(mem[g], Task(g))
  BY <1>1, KeptInv DEF Enter
<1>2. CASE ~Kept(mem[g], Task(g))
  <2> DEFINE t == Task(g)
  <2>1. TypeOK /\ Alive(g) /\ ~Over(g) /\ t \in Tasks /\ AttemptOK(g) /\ Node \in TaskRecord
    BY AtTask DEF Enter, In, IInv, Node, TaskRecord, Status
  <2>2. PICK tasks : /\ tasks = [mem[g] EXCEPT ![t] = Node]
                     /\ mem' = [mem EXCEPT ![g] = tasks] /\ SaveThen(g, tasks, "start")
    BY <1>2 DEF Enter
  <2>3. /\ tasks \in [Tasks -> TaskRecord] /\ mem' \in [Gens -> [Tasks -> TaskRecord]]
        /\ mem'[g] = tasks /\ tasks[t] = Node /\ \A u \in Tasks \ {t} : tasks[u] = mem[g][u]
        /\ \A h \in Gens \ {g} : mem'[h] = mem[h]
    BY <2>1, <2>2, SetRecord
  <2>4. /\ Moves(g)
        /\ \/ /\ authority = g /\ row' = tasks /\ pc'[g].at = pc[g].at /\ pc'[g].step = "start"
           \/ pc'[g].at = "ended"
    BY <2>1, <2>2, <2>3, SaveMoves DEF Enter, Steps
  <2>5. tasks[t].status = "ready" /\ tasks[t].out = "none"
    BY <2>3 DEF Node
  <2>6. ASSUME pc'[g].at # "ended" PROVE TaskPlace(g)'
    <3>1. pc'[g].at = pc[g].at /\ pc'[g].step = "start"
      BY <2>4, <2>6
    <3>2. Task(g)' = t
      BY <3>1 DEF Task
    <3>3. ~Working(g) /\ \A u \in Tasks : mem[g][u].status # "running"
      BY <2>1 DEF AttemptOK, TaskPlace, Enter, In, Working
    <3> QED BY <2>3, <2>5, <3>1, <3>2, <3>3 DEF TaskPlace, In, Working
  <2>7. t = "impl" => mem[g]["impl"].status = "absent"
    BY <1>2 DEF Kept
  <2>8. t = "pub" => mem[g]["pub"].status \notin {"completed", "uncertain", "running"}
    BY <1>2, <2>1 DEF Kept, Enter, In, Working, AttemptOK, TaskPlace
  <2> HIDE DEF t
  <2> QED BY <2>1, <2>3, <2>4, <2>5, <2>6, <2>7, <2>8, TaskInv DEF Enter, t
<1> QED BY <1>1, <1>2

LEMMA StartInv ==
  ASSUME IInv, NEW g \in Gens, Start(g), UNCHANGED outdated PROVE IInv'
<1> DEFINE t == Task(g)
<1>1. /\ TypeOK /\ Alive(g) /\ ~Over(g) /\ t \in Tasks /\ AttemptOK(g)
      /\ mem[g][t] \in TaskRecord
  <2>1. TypeOK /\ Alive(g) /\ ~Over(g) /\ t \in Tasks /\ AttemptOK(g)
    BY AtTask DEF Start, In, IInv
  <2> QED BY <2>1, AliveTyped
<1>2. PICK r, step :
        /\ \/ /\ r = [mem[g][t] EXCEPT !.status = "running", !.started = TRUE]
              /\ step = "handler"
           \/ r = [mem[g][t] EXCEPT !.status = "cancelled"] /\ step = "return"
        /\ mem' = [mem EXCEPT ![g] = [mem[g] EXCEPT ![t] = r]]
        /\ SaveThen(g, [mem[g] EXCEPT ![t] = r], step)
  <2>1. CASE g \notin aborted
    <3> DEFINE r == [mem[g][t] EXCEPT !.status = "running", !.started = TRUE]
    <3>1. [mem[g] EXCEPT ![t].status = "running", ![t].started = TRUE] = [mem[g] EXCEPT ![t] = r]
      BY <1>1, AliveTyped
    <3> QED BY <2>1, <3>1 DEF Start
  <2>2. CASE g \in aborted
    <3> DEFINE r == [mem[g][t] EXCEPT !.status = "cancelled"]
    <3>1. [mem[g] EXCEPT ![t].status = "cancelled"] = [mem[g] EXCEPT ![t] = r]
      BY <1>1, AliveTyped
    <3> QED BY <2>2, <3>1 DEF Start
  <2> QED BY <2>1, <2>2
<1>3. /\ r \in TaskRecord /\ r.out = mem[g][t].out
      /\ \/ r.status = "running" /\ r.started /\ step = "handler"
         \/ r.status = "cancelled" /\ step = "return"
  <2>1. CASE r = [mem[g][t] EXCEPT !.status = "running", !.started = TRUE] /\ step = "handler"
    BY <1>1, <2>1 DEF TaskRecord, Status
  <2>2. CASE r = [mem[g][t] EXCEPT !.status = "cancelled"] /\ step = "return"
    BY <1>1, <2>2 DEF TaskRecord, Status
  <2> QED BY <1>2, <2>1, <2>2
<1>4. PICK tasks : tasks = [mem[g] EXCEPT ![t] = r]
  OBVIOUS
<1>5. /\ tasks \in [Tasks -> TaskRecord] /\ mem' \in [Gens -> [Tasks -> TaskRecord]]
      /\ mem'[g] = tasks /\ tasks[t] = r /\ \A u \in Tasks \ {t} : tasks[u] = mem[g][u]
      /\ \A h \in Gens \ {g} : mem'[h] = mem[h]
  BY <1>1, <1>2, <1>3, <1>4, SetRecord
<1>6. /\ Moves(g)
      /\ \/ /\ authority = g /\ row' = tasks /\ pc'[g].at = pc[g].at /\ pc'[g].step = step
         \/ pc'[g].at = "ended"
  <2>1. step \in Steps /\ SaveThen(g, tasks, step) /\ UNCHANGED <<files, aborted>>
    BY <1>2, <1>3, <1>4 DEF Steps, Start
  <2> QED BY <1>1, <1>5, <2>1, SaveMoves
<1>7. /\ In(g, "start") /\ ~In(g, "enter") /\ mem[g][t].status = "ready"
      /\ \A u \in Tasks : mem[g][u].status # "running"
  BY <1>1 DEF Start, AttemptOK, TaskPlace, In, Working
<1>8. ASSUME pc'[g].at # "ended" PROVE TaskPlace(g)'
  <2>1. pc'[g].at = pc[g].at /\ pc'[g].step = step
    BY <1>6, <1>8
  <2>2. Task(g)' = t /\ (step = "handler" => Working(g)')
    BY <1>7, <2>1 DEF Task, Working, In
  <2> QED BY <1>3, <1>5, <1>7, <2>1, <2>2 DEF TaskPlace, In, Working
<1>9. t = "val" => r.out = "none"
  <2>1. t = "val" => pc[g].at \in {"validate", "revalidate"}
    BY <1>7, TasksOfPlaces, Places DEF In
  <2> QED BY <1>1, <1>3, <1>7, <2>1 DEF AttemptOK, Checked, Out, In
<1> HIDE DEF t
<1> QED BY <1>1, <1>3, <1>5, <1>6, <1>7, <1>8, <1>9, TaskInv DEF Start, t

Outs == Files \union {"none", "passed", "failed", "approved", "rejected", "sha"}

\* A handler that returned or threw, with what it logged.
LEMMA SettleInv ==
  ASSUME IInv, NEW g \in Gens, Working(g), NEW status \in {"completed", "failed"}, NEW out \in Outs,
         Settle(g, status, out), Grows(g), UNCHANGED outdated,
         Pub(g)' => Pub(g), log'.refused = log.refused,
         log'.asked = log.asked \/ (log'.asked = log.asked \union {g} /\ Task(g) = "impl"),
         Task(g) = "impl" /\ status = "completed" => out \in Files,
         Task(g) = "val" /\ out = "passed" => Entry(g) \in log'.passed,
         Task(g) = "rev" /\ out = "approved" => Entry(g) \in log'.approved
  PROVE  IInv'
<1> PICK t : t = Task(g)
  OBVIOUS
<1>1. /\ TypeOK /\ Alive(g) /\ t \in Tasks /\ AttemptOK(g) /\ mem[g][t] \in TaskRecord
      /\ ~Over(g) /\ ~Starting(g) /\ pc[g].at \in DOMAIN TaskOf
  <2>1. TypeOK /\ pc[g].at \in DOMAIN TaskOf /\ AttemptOK(g)
    BY DEF Working, In, IInv
  <2> QED BY <2>1, AtTask, AliveTyped
<1>2. PICK s : /\ s = status \/ (s = "cancelled" /\ t \in Interruptible)
               /\ mem' = [mem EXCEPT ![g][t].status = s, ![g][t].out = out]
  BY DEF Settle
<1>3. s \in {"completed", "failed", "cancelled"} /\ (s = "completed" => status = "completed")
      /\ (t = "pub" => s # "cancelled")
  BY <1>2 DEF Interruptible
<1>4. /\ mem' \in [Gens -> [Tasks -> TaskRecord]]
      /\ mem'[g][t].status = s /\ mem'[g][t].out = out
      /\ \A u \in Tasks \ {t} : mem'[g][u] = mem[g][u]
      /\ \A h \in Gens \ {g} : mem'[h] = mem[h]
  <2>1. PICK r : r = [mem[g][t] EXCEPT !.status = s, !.out = out]
    OBVIOUS
  <2>2. r \in TaskRecord /\ r.status = s /\ r.out = out
    BY <1>1, <1>3, <2>1 DEF TaskRecord, Status, Outs
  <2>3. mem' = [mem EXCEPT ![g] = [mem[g] EXCEPT ![t] = r]]
    BY <1>1, <1>2, <2>1, AliveTyped DEF TypeOK
  <2>4. PICK tasks : tasks = [mem[g] EXCEPT ![t] = r]
    OBVIOUS
  <2>5. /\ tasks \in [Tasks -> TaskRecord] /\ tasks[t] = r
        /\ \A u \in Tasks \ {t} : tasks[u] = mem[g][u]
    BY <1>1, <2>2, <2>4, AliveTyped
  <2>6. mem' = [mem EXCEPT ![g] = tasks] /\ mem \in [Gens -> [Tasks -> TaskRecord]]
    BY <1>1, <2>3, <2>4 DEF TypeOK
  <2> QED BY <2>2, <2>5, <2>6
<1>5. /\ pc' \in [Gens -> [at : Phases, step : Steps]]
      /\ pc'[g].at = pc[g].at /\ pc'[g].step = "finish"
      /\ \A h \in Gens \ {g} : pc'[h] = pc[h]
  BY <1>1 DEF Settle, Step, TypeOK, Steps
<1>6. Moves(g)
  BY <1>1, <1>4, <1>5 DEF Moves, TypeOK, Settle, Alive, Starting
<1>7. TypeOK'
  BY <1>1, <1>4, <1>5 DEF TypeOK, Settle, Grows, Logs
<1>8. Task(g)' = t /\ ~Working(g)' /\ ~In(g, "start")' /\ ~In(g, "committed")' /\ ~In(g, "finish")
  BY <1>5 DEF Task, Working, In
<1>9. AttemptOK(g)'
  <2>1. \A u \in Tasks : mem'[g][u].status # "running"
    BY <1>1, <1>3, <1>4 DEF AttemptOK, TaskPlace
  <2>2. t = "pub" <=> pc[g].at = "publish"
    BY <1>1, TasksOfPlaces, Places
  <2>3. TaskPlace(g)'
    BY <1>3, <1>4, <1>5, <1>8, <2>1, <2>2 DEF TaskPlace
  <2>4. TasksOK(mem[g])'
    <3>1. mem'[g]["impl"].status = "completed" => mem'[g]["impl"].out \in Files
      BY <1>1, <1>3, <1>4 DEF AttemptOK, TasksOK, Tasks
    <3>2. mem'[g]["rev"].out = "approved" => log'.approved # {}
      BY <1>1, <1>4 DEF AttemptOK, TasksOK, Tasks, Grows
    <3> QED BY <3>1, <3>2 DEF TasksOK
  <2>5. Entry(g)' = Entry(g)
    BY DEF Entry, Settle
  <2>6. Checked(g)'
    <3>1. pc[g].at \in {"validate", "revalidate"} => t = "val"
      BY TasksOfPlaces
    <3> QED BY <1>1, <1>4, <1>5, <2>5, <3>1 DEF AttemptOK, Checked, Out, Grows
  <2>7. Reviewed(g)'
    <3>1. t = "rev" => pc[g].at = "review"
      BY <1>1, TasksOfPlaces, Places
    <3>2. EarlierApproved(g) => EarlierApproved(g)'
      BY DEF EarlierApproved, Grows
    <3>3. Entry(g) \in log.approved => Entry(g) \in log'.approved
      BY DEF Grows
    <3>4. t # "rev" => mem'[g]["rev"] = mem[g]["rev"]
      BY <1>4 DEF Tasks
    <3> QED BY <1>1, <1>4, <1>5, <2>5, <3>1, <3>2, <3>3, <3>4
      DEF AttemptOK, Reviewed, Out, Starting
  <2> QED BY <2>3, <2>4, <2>6, <2>7 DEF AttemptOK
<1>10. InSync(g)'
  <2> SUFFICES ASSUME authority' = g PROVE Synced(g)'
    BY DEF InSync
  <2>1. mem[g] = row /\ row' = row
    BY <1>1, <1>8, HolderFacts DEF Synced, Settle, Starting
  <2>2. row[t].status = "running" /\ row[t].started
    BY <1>1, <2>1 DEF AttemptOK, TaskPlace
  <2>3. In(g, "finish")' /\ pc'[g].at # "engineering"
    BY <1>1, <1>5 DEF In, Starting
  <2> QED BY <1>4, <1>8, <2>1, <2>2, <2>3 DEF Synced
<1>11. \A h \in Gens : (Publishing(h)' => Publishing(h)) /\ (Pub(h)' => Pub(h))
  <2>1. \A h \in Gens : Publishing(h)' => Publishing(h)
    BY <1>5 DEF Publishing
  <2>2. ASSUME NEW h \in Gens \ {g}, Pub(h)' PROVE Pub(h)
    BY <2>1, <2>2 DEF Pub, Grows, Entry
  <2> QED BY <2>1, <2>2
<1>12. ImplOnce'
  <2>1. t = "impl" => Asker(g)
    BY <1>1, TasksOfPlaces, Places DEF Asker, Working, In, AttemptOK, TaskPlace
  <2>2. \A h \in Gens : Asker(h)' => Asker(h)
    BY <1>5, <2>1 DEF Asker
  <2> QED BY <1>1, <1>6, <2>2, AskStays DEF Settle
<1>13. PubOK'
  BY <1>1, <1>6, <1>7, <1>8, <1>11, PubStays DEF Settle, Returned, Working, In
<1> QED BY <1>1, <1>6, <1>9, <1>10, <1>12, <1>13, StepInv

\* One entry of the log.
LEMMA LoggedOne ==
  ASSUME TypeOK, NEW g \in Gens, ~Starting(g)
  PROVE  /\ Logged("asked", g) =>
              Grows(g) /\ log'.asked = log.asked \union {g} /\ log'.shipped = log.shipped
              /\ log'.refused = log.refused
         /\ Logged("passed", Entry(g)) =>
              Grows(g) /\ Entry(g) \in log'.passed /\ log'.shipped = log.shipped
              /\ log'.refused = log.refused /\ log'.asked = log.asked
         /\ Logged("approved", Entry(g)) =>
              Grows(g) /\ Entry(g) \in log'.approved /\ log'.shipped = log.shipped
              /\ log'.refused = log.refused /\ log'.asked = log.asked
         /\ pc[g].at = "publish" /\ Logged("shipped", Entry(g)) =>
              Grows(g) /\ log'.shipped = log.shipped \union {Entry(g)}
              /\ log'.refused = log.refused /\ log'.asked = log.asked
         /\ Logged("refused", g) =>
              Grows(g) /\ log'.refused = log.refused \union {g} /\ log'.shipped = log.shipped
              /\ log'.asked = log.asked
<1>1. log \in Logs /\ Entry(g) \in Entries /\ Entry(g).by = g
  BY AliveTyped DEF Entry
<1>2. ASSUME Logged("asked", g)
      PROVE  Grows(g) /\ log'.asked = log.asked \union {g} /\ log'.shipped = log.shipped
             /\ log'.refused = log.refused
  BY <1>1, <1>2 DEF Logged, Grows, Logs
<1>3. ASSUME Logged("passed", Entry(g))
      PROVE  Grows(g) /\ Entry(g) \in log'.passed /\ log'.shipped = log.shipped
             /\ log'.refused = log.refused /\ log'.asked = log.asked
  BY <1>1, <1>3 DEF Logged, Grows, Logs
<1>4. ASSUME Logged("approved", Entry(g))
      PROVE  Grows(g) /\ Entry(g) \in log'.approved /\ log'.shipped = log.shipped
             /\ log'.refused = log.refused /\ log'.asked = log.asked
  BY <1>1, <1>4 DEF Logged, Grows, Logs
<1>5. ASSUME pc[g].at = "publish", Logged("shipped", Entry(g))
      PROVE  Grows(g) /\ log'.shipped = log.shipped \union {Entry(g)}
             /\ log'.refused = log.refused /\ log'.asked = log.asked
  BY <1>1, <1>5 DEF Logged, Grows, Logs
<1>6. ASSUME Logged("refused", g)
      PROVE  Grows(g) /\ log'.refused = log.refused \union {g} /\ log'.shipped = log.shipped
             /\ log'.asked = log.asked
  BY <1>1, <1>6 DEF Logged, Grows, Logs
<1> QED BY <1>2, <1>3, <1>4, <1>5, <1>6

LEMMA ImplementInv ==
  ASSUME IInv, NEW g \in Gens, Implement(g), UNCHANGED outdated PROVE IInv'
<1>1. TypeOK /\ Working(g) /\ Task(g) = "impl" /\ Logged("asked", g) /\ ~Starting(g)
  BY AtTask DEF Implement, Handling, Working, In, IInv
<1>2. PICK status \in {"completed", "failed"}, out \in Outs :
        Settle(g, status, out) /\ (status = "completed" => out \in Files)
  <2>1. CASE \E f \in IF Greenfield THEN Versions ELSE Files : Settle(g, "completed", f)
    BY <2>1 DEF Outs, Files
  <2>2. CASE Settle(g, "failed", "none")
    BY <2>2 DEF Outs
  <2> QED BY <2>1, <2>2 DEF Implement
<1>3. /\ Grows(g) /\ log'.asked = log.asked \union {g} /\ log'.shipped = log.shipped
      /\ log'.refused = log.refused
  BY <1>1, LoggedOne
<1>4. Pub(g)' => Pub(g)
  BY <1>2, <1>3 DEF Pub, Publishing, Settle, Step, IInv, TypeOK
<1> QED BY <1>1, <1>2, <1>3, <1>4, SettleInv

\* The other handlers that settle, with what they returned.
LEMMA ReturnInv ==
  ASSUME IInv, NEW g \in Gens, Working(g), Task(g) # "impl",
         NEW status \in {"completed", "failed"}, NEW out \in Outs, Settle(g, status, out),
         UNCHANGED outdated,
         \/ UNCHANGED log
         \/ Task(g) = "val" /\ Logged("passed", Entry(g))
         \/ Task(g) = "rev" /\ Logged("approved", Entry(g)),
         Task(g) = "val" /\ out = "passed" => Logged("passed", Entry(g)),
         Task(g) = "rev" /\ out = "approved" => Logged("approved", Entry(g))
  PROVE  IInv'
<1>1. TypeOK /\ ~Starting(g)
  BY AtTask DEF IInv, Working, In
<1>2. /\ Grows(g) /\ log'.shipped = log.shipped /\ log'.refused = log.refused
      /\ log'.asked = log.asked
  BY <1>1, LoggedOne, SameLog
<1>3. Pub(g)' => Pub(g)
  <2>1. pc'[g].step = "finish"
    BY <1>1 DEF Settle, Step, TypeOK
  <2> QED BY <1>2, <2>1 DEF Pub, Publishing
<1>4. /\ Task(g) = "val" /\ out = "passed" => Entry(g) \in log'.passed
      /\ Task(g) = "rev" /\ out = "approved" => Entry(g) \in log'.approved
  BY <1>1, LoggedOne
<1> QED BY <1>2, <1>3, <1>4, SettleInv

LEMMA RepairInv ==
  ASSUME IInv, NEW g \in Gens, Repair(g), UNCHANGED outdated PROVE IInv'
<1>1. Working(g) /\ Task(g) = "rep" /\ UNCHANGED log
  BY DEF Repair, Handling, Working
<1>2. PICK status \in {"completed", "failed"}, out \in Outs : Settle(g, status, out)
  BY DEF Repair, Outs
<1> QED BY <1>1, <1>2, ReturnInv

LEMMA ValidateInv ==
  ASSUME IInv, NEW g \in Gens, Validate(g), UNCHANGED outdated PROVE IInv'
<1>1. Working(g) /\ Task(g) = "val"
  BY DEF Validate, Handling, Working
<1>2. CASE Settle(g, "completed", "passed") /\ Logged("passed", Entry(g))
  <2>1. "passed" \in Outs
    BY DEF Outs
  <2> QED BY <1>1, <1>2, <2>1, ReturnInv
<1>3. ASSUME NEW out \in {"failed", "none"}, Settle(g, "failed", out), UNCHANGED log PROVE IInv'
  <2>1. out \in Outs
    BY DEF Outs
  <2> QED BY <1>1, <1>3, <2>1, ReturnInv
<1> QED BY <1>2, <1>3 DEF Validate

LEMMA ReviewInv ==
  ASSUME IInv, NEW g \in Gens, Review(g), UNCHANGED outdated PROVE IInv'
<1>1. Working(g) /\ Task(g) = "rev"
  BY DEF Review, Handling, Working
<1>2. CASE Settle(g, "completed", "approved") /\ Logged("approved", Entry(g))
  <2>1. "approved" \in Outs
    BY DEF Outs
  <2> QED BY <1>1, <1>2, <2>1, ReturnInv
<1>3. ASSUME NEW out \in {"rejected", "none"}, Settle(g, "failed", out), UNCHANGED log PROVE IInv'
  <2>1. out \in Outs
    BY DEF Outs
  <2> QED BY <1>1, <1>3, <2>1, ReturnInv
<1> QED BY <1>2, <1>3 DEF Review

LEMMA PublishedInv ==
  ASSUME IInv, NEW g \in Gens, Published(g) \/ PublishFailed(g), UNCHANGED outdated
  PROVE  IInv'
<1>1. Working(g) /\ Task(g) = "pub" /\ UNCHANGED log
  <2>1. In(g, "committed") => pc[g].at = "publish"
    BY DEF IInv, AttemptOK, TaskPlace
  <2> QED BY <2>1, TasksOfPlaces DEF Published, PublishFailed, Handling, Working
<1>2. PICK status \in {"completed", "failed"}, out \in Outs : Settle(g, status, out)
  BY DEF Published, PublishFailed, Outs
<1> QED BY <1>1, <1>2, ReturnInv

LEMMA CommitInv ==
  ASSUME IInv, NEW g \in Gens, Commit(g), UNCHANGED outdated PROVE IInv'
<1>1. /\ TypeOK /\ Alive(g) /\ ~Over(g) /\ ~Starting(g) /\ AttemptOK(g)
      /\ pc[g].at = "publish" /\ Publishing(g) /\ Working(g)
  <2>1. pc[g].at = "publish"
    BY TasksOfPlaces, Places DEF Commit, Handling, In
  <2> QED BY <2>1 DEF Commit, Handling, In, IInv, Alive, Over, Starting, Publishing, Working
<1>2. /\ Grows(g) /\ log'.shipped = log.shipped \union {Entry(g)}
      /\ log'.refused = log.refused /\ log'.asked = log.asked
  BY <1>1, LoggedOne DEF Commit
<1>3. /\ pc' \in [Gens -> [at : Phases, step : Steps]]
      /\ pc'[g].at = "publish" /\ pc'[g].step = "committed"
      /\ \A h \in Gens \ {g} : pc'[h] = pc[h]
  BY <1>1 DEF Commit, Step, TypeOK, Steps
<1>4. Moves(g)
  BY <1>1, <1>3 DEF Moves, TypeOK, Commit, Starting
<1>5. TypeOK'
  BY <1>1, <1>2, <1>3 DEF TypeOK, Commit, Grows, Logs
<1>6. AttemptOK(g)'
  <2>1. Task(g)' = Task(g) /\ Working(g)' /\ ~In(g, "start")' /\ ~In(g, "finish")'
    BY <1>1, <1>3 DEF Task, Working, In
  <2>2. TaskPlace(g)'
    BY <1>1, <1>3, <2>1 DEF AttemptOK, TaskPlace, Commit
  <2>3. Checked(g)' /\ TasksOK(mem[g])' /\ Reviewed(g)'
    BY <1>1, <1>2, <1>3
      DEF AttemptOK, Checked, TasksOK, Reviewed, EarlierApproved, Entry, Out, Commit, Over, Grows
  <2> QED BY <2>2, <2>3 DEF AttemptOK
<1>7. InSync(g)'
  BY <1>1, <1>3, HolderFacts DEF InSync, Synced, In, Commit, Handling
<1>8. \A h \in Gens : Publishing(h)' => Publishing(h)
  BY <1>1, <1>3 DEF Publishing
<1>9. \A h \in Gens : Pub(h)' => Pub(h)
  <2>1. Entry(g).by = g
    BY DEF Entry
  <2> QED BY <1>1, <1>2, <1>8, <2>1 DEF Pub
<1>10. ImplOnce'
  <2>1. \A h \in Gens : Asker(h)' => Asker(h)
    BY <1>2, <1>3 DEF Asker
  <2> QED BY <1>1, <1>4, <2>1, AskStays DEF Commit
<1>11. PubOK'
  BY <1>1, <1>2, <1>4, <1>5, <1>8, <1>9, PubStays DEF Commit, Returned, Handling, In
<1> QED BY <1>1, <1>2, <1>4, <1>6, <1>7, <1>10, <1>11, StepInv

LEMMA FinishInv ==
  ASSUME IInv, NEW g \in Gens, Finish(g), UNCHANGED outdated PROVE IInv'
<1> PICK t : t = Task(g)
  OBVIOUS
<1>1. /\ TypeOK /\ Alive(g) /\ ~Over(g) /\ ~Starting(g) /\ t \in Tasks /\ AttemptOK(g)
      /\ In(g, "finish") /\ ~Working(g) /\ UNCHANGED <<files, mem, aborted>>
  BY AtTask DEF Finish, In, Working, IInv
<1>2. /\ Moves(g)
      /\ \/ /\ authority = g /\ row' = mem[g] /\ pc'[g].at = pc[g].at /\ pc'[g].step = "return"
         \/ pc'[g].at = "ended"
  BY <1>1, AliveTyped, SaveMoves DEF Finish, Steps, TypeOK
<1>3. /\ Grows(g) /\ log'.shipped = log.shipped /\ log'.asked = log.asked
      /\ log'.passed = log.passed /\ log'.approved = log.approved
      /\ \/ log' = log /\ (pc[g].at = "publish" => row'["pub"].status # "failed")
         \/ pc[g].at = "publish" /\ log'.refused = log.refused \union {g}
  <2>1. CASE pc[g].at = "publish" /\ row'["pub"].status = "failed"
    <3>1. Logged("refused", g)
      BY <2>1 DEF Finish
    <3> QED BY <1>1, <2>1, <3>1, LoggedOne DEF Logged, TypeOK
  <2>2. CASE ~(pc[g].at = "publish" /\ row'["pub"].status = "failed")
    BY <1>1, <2>2, SameLog DEF Finish
  <2> QED BY <2>1, <2>2
<1>4. TypeOK'
  BY <1>1, <1>2, <1>3, RunAssumption DEF TypeOK, Moves, Grows, Logs
<1>5. AttemptOK(g)'
  <2>1. TasksOK(mem[g])'
    BY <1>1, <1>3 DEF AttemptOK, TasksOK
  <2>2. CASE pc'[g].at = "ended"
    BY <2>1, <2>2, OverOK
  <2>3. CASE pc'[g].at # "ended"
    <3>1. pc'[g].at = pc[g].at /\ pc'[g].step = "return"
      BY <1>2, <2>3
    <3>2. TaskPlace(g)'
      BY <1>1, <3>1 DEF AttemptOK, TaskPlace, In, Working
    <3>3. Checked(g)' /\ Reviewed(g)'
      BY <1>1, <1>3, <3>1
        DEF AttemptOK, Checked, Reviewed, EarlierApproved, Entry, Out, Over, Starting, In
    <3> QED BY <2>1, <3>2, <3>3 DEF AttemptOK
  <2> QED BY <2>2, <2>3
<1>6. InSync(g)'
  <2>1. Alive(g)' => row' = mem'[g] /\ pc'[g].at = pc[g].at /\ pc'[g].step = "return"
    BY <1>1, <1>2 DEF Alive
  <2> QED BY <1>1, <2>1 DEF InSync, Synced, In, Starting
<1>7. \A h \in Gens : (Asker(h)' => Asker(h)) /\ (Publishing(h)' => Publishing(h) /\ h # g)
  BY <1>2, <1>3 DEF Moves, Asker, Publishing
<1>8. \A h \in Gens : Pub(h)' => Pub(h)
  BY <1>3, <1>7 DEF Pub
<1>9. ImplOnce'
  BY <1>1, <1>2, <1>7, AskStays
<1>10. PubOK'
  <2>1. CASE log' = log /\ (row' = row \/ pc[g].at # "publish")
    BY <1>1, <1>2, <1>4, <1>7, <1>8, <2>1, PubStays DEF Returned, In
  <2>2. CASE row' = row /\ pc[g].at = "publish" /\ log'.refused = log.refused \union {g}
    <3>1. PubsApart' /\ PubKept'
      BY <1>8, <2>2 DEF IInv, PubOK, PubsApart, PubKept, Between, Ran, Lost, Overtaken
    <3>2. PubAlone'
      <4>1. ASSUME NEW h \in Gens, authority' = h, Alive(h)', ~Starting(h)'
            PROVE  authority = h /\ Alive(h) /\ ~Starting(h)
        BY <1>1, <1>2, <4>1, GenIsPositive DEF Moves, Alive, Starting
      <4> QED BY <1>7, <2>2, <4>1 DEF IInv, PubOK, PubAlone, Ran, Lost
    <3>3. RefusedOver'
      <4>1. ASSUME NEW h \in Gens \ {g}, h \in log.refused
            PROVE  Over(h)' \/ Returned(h, "publish")'
        BY <1>2, <4>1 DEF IInv, PubOK, RefusedOver, Moves, Returned, Over
      <4>2. pc'[g].at = "ended" \/ Returned(g, "publish")'
        BY <1>2, <2>2 DEF Moves, Returned
      <4>3. log.refused \subseteq Gens
        BY <1>1 DEF TypeOK
      <4> QED BY <2>2, <4>1, <4>2, <4>3 DEF RefusedOver, Over
    <3> QED BY <1>4, <1>7, <3>1, <3>2, <3>3
          DEF IInv, PubOK, OnePublisherUnlessOutdated, Overtaken
  <2>3. CASE row' # row /\ pc[g].at = "publish"
    <3>1. authority = g /\ row' = mem[g] /\ Synced(g) /\ t = "pub"
      BY <1>1, <1>2, <2>3, TasksOfPlaces, HolderFacts DEF Moves
    <3>2. row["pub"].status = "running" /\ mem[g]["pub"].status \in {"completed", "failed"}
      BY <1>1, <2>3, <3>1 DEF Synced, AttemptOK, TaskPlace
    <3>3. \A h \in Gens : Publishing(h) => h = g \/ Lost(h)
      BY <1>1, <2>3, <3>1, <3>2 DEF IInv, PubOK, PubAlone
    <3>4. outdated' = outdated /\ \A h \in Gens : Publishing(h)' => Publishing(h) /\ Lost(h)'
      BY <1>2, <1>7, <3>3 DEF Moves, Lost
    <3>5. PubAlone' /\ OnePublisherUnlessOutdated'
      BY <1>4, <3>4
        DEF IInv, PubOK, PubAlone, OnePublisherUnlessOutdated, Overtaken
    <3>6. PubsApart'
      BY <1>3, <1>8, <3>4 DEF IInv, PubOK, PubsApart, Between, Overtaken
    <3>7. \A h \in Gens : Pub(h) => h <= g
      BY <3>1, LostIsOvertaken
    <3>8. PubKept'
      <4>1. CASE mem[g]["pub"].status = "completed"
        BY <3>1, <4>1 DEF PubKept
      <4>2. CASE mem[g]["pub"].status = "failed"
        <5>1. g \in log'.refused
          BY <1>3, <2>3, <3>1, <4>2
        <5> QED BY <1>8, <3>7, <5>1 DEF PubKept
      <4> QED BY <3>2, <4>1, <4>2
    <3>9. RefusedOver'
      <4>1. ASSUME NEW h \in Gens \ {g}, h \in log.refused
            PROVE  Over(h)' \/ Returned(h, "publish")'
        BY <1>2, <4>1 DEF IInv, PubOK, RefusedOver, Moves, Returned, Over
      <4>2. pc'[g].at = "ended" \/ Returned(g, "publish")'
        BY <1>2, <2>3 DEF Moves, Returned
      <4>3. log.refused \subseteq Gens /\ log'.refused \subseteq log.refused \union {g}
        BY <1>1, <1>3 DEF TypeOK
      <4> QED BY <4>1, <4>2, <4>3 DEF RefusedOver, Over
    <3> QED BY <3>5, <3>6, <3>8, <3>9 DEF PubOK
  <2> QED BY <1>3, <2>1, <2>2, <2>3
<1> QED BY <1>1, <1>2, <1>3, <1>5, <1>6, <1>9, <1>10, StepInv

-----------------------------------------------------------------------------
\* The phases, after their tasks.

LEMMA ReturnedFacts ==
  ASSUME IInv, NEW g \in Gens, NEW phase \in Phases,
         pc[g].at \in DOMAIN TaskOf \union {"browser", "rebuild", "recheck"},
         Onward(g, phase), UNCHANGED mem
  PROVE  /\ TypeOK /\ Alive(g) /\ ~Starting(g) /\ AttemptOK(g)
         /\ pc'[g].at = phase /\ pc'[g].step = "enter" /\ mem'[g] = mem[g]
         /\ (UNCHANGED log => Grows(g))
         /\ (Out(g, "rev") = "approved" => EarlierApproved(g) \/ Entry(g) \in log.approved)
<1>1. TypeOK /\ Alive(g) /\ ~Over(g) /\ ~Starting(g) /\ AttemptOK(g)
  BY Places DEF IInv, Alive, Starting, Over
<1> QED BY <1>1, SameLog DEF Onward, Goto, TypeOK, Steps, AttemptOK, Reviewed, Starting

\* To a phase whose files are not checked yet.
LEMMA UncheckedInv ==
  ASSUME IInv, NEW g \in Gens, NEW from \in DOMAIN TaskOf \union {"browser"}, pc[g].at = from,
         from \notin {"review", "publish"}, from \in DOMAIN TaskOf => pc[g].step = "return", Local,
         NEW phase \in {"noop", "validate", "repair", "revalidate", "browserRepair", "rebuild"},
         Onward(g, phase), \E f \in Files : files' = [files EXCEPT ![g] = f], UNCHANGED outdated
  PROVE  IInv'
<1>1. phase \in Phases /\ phase \in Later /\ pc[g].at \notin {"review", "publish"}
  BY Places DEF Phases, Later
<1>2. /\ TypeOK /\ Alive(g) /\ ~Starting(g) /\ AttemptOK(g) /\ Grows(g)
      /\ pc'[g].at = phase /\ pc'[g].step = "enter"
  BY <1>1, ReturnedFacts DEF Local
<1>3. Checked(g)'
  BY <1>2 DEF Checked
<1>4. Reviewed(g)'
  BY <1>1, <1>2
    DEF AttemptOK, Reviewed, Out, Local, EarlierApproved, Starting, Alive, Over
<1> QED BY <1>1, <1>2, <1>3, <1>4, OnwardInv DEF Local

\* To a phase whose files have passed.
LEMMA PassedInv ==
  ASSUME IInv, NEW g \in Gens,
         NEW from \in (DOMAIN TaskOf \union {"browser", "rebuild", "recheck"}) \ {"publish"},
         pc[g].at = from, from \in DOMAIN TaskOf => pc[g].step = "return",
         UNCHANGED <<row, mem, aborted, files, outdated>>,
         NEW phase \in {"browser", "recheck", "review", "publish"}, Onward(g, phase),
         UNCHANGED log \/ Logged("passed", Entry(g)), Entry(g) \in log'.passed,
         from = "review" => phase = "publish",
         phase = "publish" => from = "review" /\ Out(g, "rev") = "approved"
  PROVE  IInv'
<1>1. phase \in Phases /\ phase \in Later /\ pc[g].at # "publish"
  BY Places DEF Phases, Later
<1>2. /\ TypeOK /\ Alive(g) /\ ~Starting(g) /\ AttemptOK(g)
      /\ pc'[g].at = phase /\ pc'[g].step = "enter"
  BY <1>1, ReturnedFacts
<1>3. /\ Grows(g) /\ log'.shipped = log.shipped /\ log'.refused = log.refused
      /\ log'.asked = log.asked
  BY <1>2, LoggedOne, SameLog
<1>4. Entry(g)' = Entry(g) /\ Entry(g) \in log'.passed
  BY DEF Entry
<1>5. Checked(g)'
  BY <1>2, <1>4 DEF Checked
<1>6. Reviewed(g)'
  <2>1. EarlierApproved(g) => EarlierApproved(g)'
    BY <1>3 DEF EarlierApproved, Grows
  <2>2. Entry(g) \in log.approved => Entry(g) \in log'.approved
    BY <1>3 DEF Grows
  <2> QED BY <1>2, <1>4, <2>1, <2>2 DEF AttemptOK, Reviewed, Out, Starting, Alive, Over
<1>7. files' = [files EXCEPT ![g] = files[g]] /\ files[g] \in Files
  BY <1>2 DEF TypeOK
<1> QED BY <1>1, <1>2, <1>3, <1>5, <1>6, <1>7, OnwardInv

LEMMA GiveUpInv ==
  ASSUME IInv, NEW g \in Gens, pc[g].at \in DOMAIN TaskOf \union {"browser", "rebuild", "recheck"},
         GiveUp(g), Local, UNCHANGED outdated
  PROVE  IInv'
<1>1. Alive(g) /\ ~Starting(g)
  BY Places DEF Alive, Starting
<1> QED BY <1>1, LeaveInv DEF GiveUp, Local

LEMMA AfterTaskInv ==
  ASSUME IInv, NEW g \in Gens,
         \/ AfterImplement(g) \/ AfterNoopRepair(g) \/ AfterValidate(g) \/ AfterRepair(g)
         \/ AfterRevalidate(g) \/ AfterBrowserRepair(g) \/ AfterReview(g) \/ AfterPublish(g),
         UNCHANGED outdated
  PROVE  IInv'
<1> USE DEF AfterImplement, AfterNoopRepair, AfterValidate, AfterRepair, AfterRevalidate,
            AfterBrowserRepair, AfterReview, AfterPublish, Returned
<1> PICK from : from = pc[g].at
  OBVIOUS
<1>1. /\ TypeOK /\ AttemptOK(g) /\ Local /\ pc[g].step = "return" /\ from \in DOMAIN TaskOf
      /\ pc[g] = [at |-> from, step |-> "return"] /\ mem[g] \in [Tasks -> TaskRecord]
  <2>1. TypeOK /\ AttemptOK(g)
    BY DEF IInv
  <2>2. Local /\ pc[g] = [at |-> from, step |-> "return"] /\ from \in DOMAIN TaskOf
    BY Places
  <2> QED BY <2>1, <2>2, AliveTyped
<1>2. CASE GiveUp(g)
  BY <1>1, <1>2, GiveUpInv
<1>3. CASE from \in {"implement", "noop", "repair", "browserRepair"} /\ ~GiveUp(g)
  <2>1. PICK f \in Files, phase \in {"noop", "validate", "revalidate", "rebuild"} :
          files' = [files EXCEPT ![g] = f] /\ Onward(g, phase)
    <3>1. CASE from = "implement"
      <4>1. Out(g, "impl") \in Files
        BY <1>1, <1>3, <3>1 DEF AttemptOK, TasksOK, Out
      <4> QED BY <1>1, <1>3, <3>1, <4>1
    <3>2. CASE from # "implement"
      BY <1>1, <1>3, <3>2 DEF Repaired, Files
    <3> QED BY <3>1, <3>2
  <2> QED BY <1>1, <1>3, <2>1, UncheckedInv
<1>4. CASE from \in {"validate", "revalidate"} /\ ~GiveUp(g)
  <2>1. /\ UNCHANGED files
        /\ \/ Out(g, "val") = "passed" /\ Onward(g, "browser")
           \/ Onward(g, "repair")
    BY <1>1, <1>4
  <2>2. CASE Out(g, "val") = "passed" /\ Onward(g, "browser")
    <3>1. Entry(g) \in log'.passed
      BY <1>1, <1>4, <2>2 DEF AttemptOK, Checked, Local
    <3> QED BY <1>1, <1>4, <2>1, <2>2, <3>1, PassedInv DEF Local
  <2>3. CASE Onward(g, "repair")
    <3>1. files' = [files EXCEPT ![g] = files[g]] /\ files[g] \in Files
      BY <1>1, <2>1 DEF TypeOK
    <3> QED BY <1>1, <1>4, <2>3, <3>1, UncheckedInv
  <2> QED BY <2>1, <2>2, <2>3
<1>5. CASE from = "review" /\ ~GiveUp(g)
  <2>1. UNCHANGED files /\ Out(g, "rev") = "approved" /\ Onward(g, "publish")
    BY <1>1, <1>5
  <2>2. Entry(g) \in log'.passed
    BY <1>1, <1>5 DEF AttemptOK, Checked, Local
  <2> QED BY <1>1, <1>5, <2>1, <2>2, PassedInv DEF Local
<1>6. CASE from = "publish"
  <2>1. PICK success \in BOOLEAN : Leave(g, success) /\ UNCHANGED files
    BY <1>1, <1>6
  <2>2. Alive(g) /\ ~Starting(g)
    BY <1>6 DEF Alive, Starting
  <2> QED BY <1>1, <2>1, <2>2, LeaveInv DEF Local
<1> QED BY <1>1, <1>2, <1>3, <1>4, <1>5, <1>6, Places

LEMMA BrowserInv ==
  ASSUME IInv, NEW g \in Gens, Browser(g), UNCHANGED outdated PROVE IInv'
<1>1. TypeOK /\ AttemptOK(g) /\ pc[g].at = "browser" /\ Local /\ Entry(g) \in log'.passed
  BY DEF IInv, Browser, AttemptOK, Checked, Local
<1>2. CASE Onward(g, "review") /\ UNCHANGED files
  BY <1>1, <1>2, PassedInv, Places DEF Local
<1>3. CASE Onward(g, "browserRepair") /\ UNCHANGED files
  <2>1. files' = [files EXCEPT ![g] = files[g]] /\ files[g] \in Files
    BY <1>1, <1>3 DEF TypeOK
  <2> QED BY <1>1, <1>3, <2>1, UncheckedInv, Places
<1>4. CASE GiveUp(g)
  BY <1>1, <1>4, GiveUpInv
<1> QED BY <1>2, <1>3, <1>4 DEF Browser

LEMMA RebuildInv ==
  ASSUME IInv, NEW g \in Gens, Rebuild(g), UNCHANGED outdated PROVE IInv'
<1>1. TypeOK /\ pc[g].at = "rebuild" /\ UNCHANGED <<row, mem, aborted>>
  BY DEF IInv, Rebuild
<1>2. CASE Onward(g, "recheck") /\ Logged("passed", Entry(g)) /\ UNCHANGED files
  <2>1. Entry(g) \in log'.passed
    BY <1>1, <1>2, LoggedOne DEF Starting
  <2> QED BY <1>1, <1>2, <2>1, PassedInv, Places
<1>3. CASE GiveUp(g) /\ UNCHANGED log
  BY <1>1, <1>3, GiveUpInv DEF Local
<1> QED BY <1>2, <1>3 DEF Rebuild

LEMMA RecheckInv ==
  ASSUME IInv, NEW g \in Gens, Recheck(g), UNCHANGED outdated PROVE IInv'
<1>1. TypeOK /\ AttemptOK(g) /\ pc[g].at = "recheck" /\ Local /\ Entry(g) \in log'.passed
  BY DEF IInv, Recheck, AttemptOK, Checked, Local
<1>2. CASE Onward(g, "review") /\ UNCHANGED files
  BY <1>1, <1>2, PassedInv, Places DEF Local
<1>3. CASE GiveUp(g)
  BY <1>1, <1>3, GiveUpInv
<1> QED BY <1>2, <1>3 DEF Recheck

-----------------------------------------------------------------------------
\* Around the process.

LEMMA AbortInv == ASSUME IInv, NEW g \in Gens, Abort(g) PROVE IInv'
<1>1. TypeOK /\ Alive(g) /\ AttemptOK(g) /\ Grows(g) /\ TypeOK'
  BY SameLog DEF IInv, Abort, TypeOK
<1>2. Moves(g)
  <2>1. authority = g => pc[g].at # "ended"
    BY HolderFacts
  <2> QED BY <1>1, <2>1 DEF Moves, Abort, TypeOK, Alive, Starting
<1>3. AttemptOK(g)'
  BY <1>1 DEF Abort, AttemptOK, TaskPlace, TasksOK, Checked, Reviewed, EarlierApproved, Entry,
    Out, In, Working, Task, Over
<1>4. InSync(g)'
  <2>1. InSync(g)
    BY DEF IInv, RowInSync
  <2>2. Synced(g) => Synced(g)'
    BY DEF Abort, Synced, In, Task, Recover
  <2> QED BY <2>1, <2>2 DEF Abort, InSync, Alive, Rewinding
<1>5. ImplOnce' /\ PubOK'
  BY <1>1 DEF Abort, IInv, ImplOnce, Asker, PubOK, OnePublisherUnlessOutdated, PubAlone, PubsApart,
    PubKept, RefusedOver, Pub, Publishing, Between, Returned, Ran, Alive, Starting, Over, Lost,
    Overtaken
<1> QED BY <1>1, <1>2, <1>3, <1>4, <1>5, StepInv

LEMMA NoTasksTyped ==
  /\ NoTasks \in [Tasks -> TaskRecord]
  /\ \A t \in Tasks : NoTasks[t].status = "absent" /\ NoTasks[t].out = "none"
<1>1. Node \in TaskRecord /\ Node.out = "none"
  BY DEF Node, TaskRecord, Status
<1>2. PICK r : r = [Node EXCEPT !.status = "absent"]
  OBVIOUS
<1>3. r \in TaskRecord /\ r.status = "absent" /\ r.out = "none"
  BY <1>1, <1>2 DEF TaskRecord, Status
<1> QED BY <1>2, <1>3 DEF NoTasks

LEMMA CrashInv == ASSUME IInv, NEW g \in Gens, Crash(g) PROVE IInv'
<1>1. TypeOK /\ Alive(g) /\ Grows(g)
  BY SameLog DEF IInv, Crash
<1>2. /\ pc' \in [Gens -> [at : Phases, step : Steps]] /\ pc'[g].at = "dead"
      /\ \A h \in Gens \ {g} : pc'[h] = pc[h]
  BY <1>1 DEF Crash, Goto, TypeOK, Phases, Steps
<1>3. mem' \in [Gens -> [Tasks -> TaskRecord]] /\ mem'[g] = NoTasks
  BY <1>1, NoTasksTyped DEF Crash, TypeOK
<1>4. Moves(g)
  BY <1>1, <1>2, <1>3 DEF Moves, Crash, TypeOK, Files, Starting
<1>5. TypeOK'
  BY <1>1, <1>2, <1>3, <1>4 DEF TypeOK, Moves, Crash
<1>6. AttemptOK(g)' /\ ~Alive(g)' /\ InSync(g)'
  <2>1. TasksOK(mem[g])'
    BY <1>3, NoTasksTyped DEF TasksOK, Tasks
  <2> QED BY <1>2, <2>1, OverOK DEF InSync
<1>7. \A h \in Gens : (Publishing(h)' => Publishing(h)) /\ (Asker(h)' => Asker(h))
  BY <1>2 DEF Publishing, Asker, Crash
<1>8. ImplOnce'
  BY <1>1, <1>4, <1>7, AskStays DEF Crash
<1>9. PubOK'
  <2>1. \A h \in Gens : Pub(h)' => Pub(h)
    BY <1>7 DEF Pub, Crash
  <2>2. \A h \in Gens : authority' = h /\ Alive(h)' => h # g /\ authority = h /\ pc'[h] = pc[h]
    BY <1>2, <1>6 DEF Crash
  <2>3. PubAlone'
    BY <1>7, <2>2 DEF IInv, PubOK, PubAlone, Crash, Ran, Alive, Starting, Lost
  <2>4. PubsApart' /\ PubKept'
    BY <2>1 DEF IInv, PubOK, PubsApart, PubKept, Between, Ran, Crash, Lost, Overtaken
  <2>5. RefusedOver'
    BY <1>1, <1>2 DEF IInv, PubOK, RefusedOver, Returned, Over, Crash, TypeOK
  <2> QED BY <1>5, <1>7, <2>3, <2>4, <2>5
        DEF IInv, PubOK, OnePublisherUnlessOutdated, Overtaken, Crash
<1> QED BY <1>1, <1>4, <1>6, <1>8, <1>9, StepInv

LEMMA EngineeringInv ==
  ASSUME IInv, NEW g \in Gens, Engineering(g), UNCHANGED outdated PROVE IInv'
<1>1. /\ TypeOK /\ Alive(g) /\ ~Over(g) /\ AttemptOK(g) /\ Grows(g) /\ pc[g].at = "engineering"
      /\ mem[g] \in [Tasks -> TaskRecord] /\ row \in [Tasks -> TaskRecord]
  BY SameLog, AliveTyped DEF IInv, Engineering, Alive, Over
<1>2. PICK tasks :
        /\ tasks = [t \in Tasks |-> IF mem[g][t].status = "ready"
                      THEN [mem[g][t] EXCEPT !.status = "blocked"] ELSE mem[g][t]]
        /\ mem' = [mem EXCEPT ![g] = tasks]
        /\ \/ CanWrite(g) /\ row' = tasks /\ Onward(g, "implement")
           \/ Leave(g, FALSE) /\ (row' = row \/ (CanWrite(g) /\ row' = tasks))
  BY DEF Engineering
<1>3. ASSUME NEW t \in Tasks
      PROVE  /\ tasks[t] \in TaskRecord /\ tasks[t].out = mem[g][t].out
             /\ tasks[t].status # "running"
             /\ \A s \in {"absent", "completed", "uncertain"} :
                  mem[g][t].status = s <=> tasks[t].status = s
  <2>1. mem[g][t] \in TaskRecord /\ mem[g][t].status # "running"
    BY <1>1, Places DEF AttemptOK, TaskPlace, Working, In
  <2>2. CASE mem[g][t].status = "ready"
    <3>1. tasks[t] = [mem[g][t] EXCEPT !.status = "blocked"]
      BY <1>2, <2>2
    <3> QED BY <2>1, <2>2, <3>1 DEF TaskRecord, Status
  <2>3. CASE mem[g][t].status # "ready"
    BY <1>2, <2>1, <2>3
  <2> QED BY <2>2, <2>3
<1>4. /\ tasks \in [Tasks -> TaskRecord] /\ mem' \in [Gens -> [Tasks -> TaskRecord]]
      /\ mem'[g] = tasks /\ \A h \in Gens \ {g} : mem'[h] = mem[h]
  <2>1. tasks \in [Tasks -> TaskRecord]
    BY <1>2, <1>3
  <2> QED BY <1>1, <1>2, <2>1 DEF TypeOK
<1>5. /\ Moves(g)
      /\ \/ authority = g /\ row' = tasks /\ pc'[g].at = "implement" /\ pc'[g].step = "enter"
         \/ pc'[g].at = "ended"
  <2>1. CASE CanWrite(g) /\ row' = tasks /\ Onward(g, "implement")
    <3>1. pc' = [pc EXCEPT ![g] = [at |-> "implement", step |-> "enter"]]
          /\ UNCHANGED <<authority, complete>>
      BY <2>1 DEF Onward, Goto
    <3>2. /\ pc' \in [Gens -> [at : Phases, step : Steps]]
          /\ pc'[g].at = "implement" /\ pc'[g].step = "enter"
      BY <1>1, <3>1, Places DEF TypeOK, Phases, Steps
    <3> QED BY <1>1, <1>4, <2>1, <3>1, <3>2 DEF Moves, TypeOK, CanWrite, Starting, Engineering
  <2>2. CASE Leave(g, FALSE) /\ (row' = row \/ (CanWrite(g) /\ row' = tasks))
    BY <1>1, <1>4, <2>2, LeaveMoves DEF Engineering, CanWrite
  <2> QED BY <1>2, <2>1, <2>2
<1>6. TypeOK'
  BY <1>1, <1>5, RunAssumption DEF TypeOK, Moves, Engineering
<1>7. AttemptOK(g)'
  <2>1. TasksOK(mem[g])'
    BY <1>1, <1>3, <1>4 DEF AttemptOK, TasksOK, Tasks, Engineering
  <2>2. CASE pc'[g].at = "ended"
    BY <2>1, <2>2, OverOK
  <2>3. CASE pc'[g].at = "implement" /\ pc'[g].step = "enter"
    <3>1. TaskPlace(g)'
      BY <1>3, <1>4, <2>3 DEF TaskPlace, In, Working
    <3>2. Checked(g)'
      BY <2>3 DEF Checked
    <3>3. Reviewed(g)'
      <4>1. authority = g
        BY <1>5, <2>3
      <4> QED BY <1>1, <1>3, <1>4, <2>3, <4>1
        DEF AttemptOK, Reviewed, Out, EarlierApproved, Engineering, Tasks
    <3> QED BY <2>1, <3>1, <3>2, <3>3 DEF AttemptOK
  <2> QED BY <1>5, <2>2, <2>3
<1>8. InSync(g)'
  BY <1>4, <1>5 DEF InSync, Synced, In, Alive
<1>9. \A h \in Gens : (Asker(h)' => Asker(h)) /\ (Publishing(h)' => Publishing(h) /\ h # g)
  BY <1>5 DEF Moves, Asker, Publishing, Engineering
<1>10. ASSUME row' # row
       PROVE  /\ authority = g
              /\ \A h \in Gens : Asker(h) \/ Pub(h) =>
                   \/ Lost(h)
                   \/ /\ row'["impl"].status = "absent" => row["impl"].status = "absent"
                      /\ Ran(row) => row'["pub"].status = "uncertain"
                      /\ row["pub"].status = "completed" => row'["pub"].status = "completed"
  <2>1. authority = g /\ row' = tasks /\ "pub" \in Tasks /\ "impl" \in Tasks
    BY <1>4, <1>5, <1>10 DEF Moves, Tasks
  <2>2. CASE Rewinding(g)
    BY <2>1, <2>2, RewindLoses
  <2>3. CASE ~Rewinding(g)
    <3>1. mem[g] = Recover(row)
      BY <1>1, <2>1, <2>3 DEF IInv, RowInSync, InSync, Synced
    <3> QED BY <1>1, <1>3, <2>1, <3>1, RecoverTasks
  <2> QED BY <2>1, <2>2, <2>3
<1>11. outdated' = outdated
  OBVIOUS
<1>12. ImplOnce'
  <2>1. ASSUME NEW h \in Gens, Asker(h)', ~Lost(h)' PROVE row'["impl"].status # "absent"
    <3>1. Asker(h) /\ ~Lost(h)
      BY <1>9, <2>1 DEF Lost
    <3> QED BY <1>10, <3>1 DEF IInv, ImplOnce
  <2> QED BY <1>9, <2>1 DEF IInv, ImplOnce, Overtaken
<1>13. PubOK'
  <2>1. \A h \in Gens : Pub(h)' => Pub(h)
    BY <1>9 DEF Pub, Engineering
  <2>2. PubAlone'
    <3>1. ASSUME NEW h \in Gens, Publishing(h)', ~Lost(h)'
          PROVE  /\ Ran(row)'
                 /\ \A k \in Gens \ {h} : authority' = k /\ Alive(k)' /\ ~Starting(k)'
                      => row'["pub"].status = "uncertain"
      <4>1. Publishing(h) /\ Ran(row) /\ h # g /\ ~Lost(h) /\ Pub(h)
        BY <1>9, <3>1 DEF IInv, PubOK, PubAlone, Lost, Pub
      <4>2. CASE row' # row
        BY <1>10, <4>1, <4>2 DEF Ran
      <4>3. CASE row' = row
        <5>1. ASSUME NEW k \in Gens \ {h}, authority' = k, Alive(k)', ~Starting(k)'
              PROVE  row["pub"].status = "uncertain"
          <6>1. CASE k = g
            <7>1. row' = tasks /\ authority = g
              BY <1>5, <5>1, <6>1 DEF Alive
            <7>2. ~Rewinding(g)
              BY <4>1, <7>1, RewindLoses
            <7>3. mem[g] = Recover(row)
              BY <1>1, <7>1, <7>2 DEF IInv, RowInSync, InSync, Synced
            <7>4. tasks["pub"].status = "uncertain"
              BY <1>1, <1>3, <4>1, <7>3, RecoverTasks DEF Tasks
            <7> QED BY <4>3, <7>1, <7>4
          <6>2. CASE k # g
            <7>1. authority = k /\ Alive(k) /\ ~Starting(k)
              BY <1>5, <5>1, <6>2, GenIsPositive DEF Moves, Alive, Starting
            <7> QED BY <4>1, <7>1 DEF IInv, PubOK, PubAlone
          <6> QED BY <6>1, <6>2
        <5> QED BY <4>1, <4>3, <5>1 DEF Ran
      <4> QED BY <4>2, <4>3
    <3> QED BY <3>1 DEF PubAlone
  <2>3. PubKept'
    <3>1. ASSUME NEW h \in Gens, Pub(h)', ~Lost(h)'
          PROVE  Ran(row)' \/ row'["pub"].status = "completed" \/ \E r \in log'.refused : h <= r
      <4>1. Pub(h) /\ ~Lost(h) /\ log' = log
        BY <2>1, <3>1 DEF Lost, Engineering
      <4>2. Ran(row) \/ row["pub"].status = "completed" \/ \E r \in log.refused : h <= r
        BY <4>1 DEF IInv, PubOK, PubKept
      <4> QED BY <1>10, <4>1, <4>2 DEF Ran
    <3> QED BY <3>1 DEF PubKept
  <2>4. PubsApart'
    BY <2>1 DEF IInv, PubOK, PubsApart, Between, Overtaken, Engineering
  <2>5. RefusedOver'
    <3>1. g \notin log.refused
      BY <1>1, DoersHaveBegun DEF Starting
    <3>2. \A h \in log.refused : pc'[h] = pc[h]
      BY <1>1, <1>5, <3>1 DEF Moves, TypeOK
    <3> QED BY <3>2 DEF IInv, PubOK, RefusedOver, Returned, Over, Engineering
  <2> QED BY <1>6, <1>9, <2>2, <2>3, <2>4, <2>5
        DEF IInv, PubOK, OnePublisherUnlessOutdated, Overtaken
<1> QED BY <1>1, <1>5, <1>7, <1>8, <1>12, <1>13, StepInv

\* Whether an approval on record is of an attempt before this one.
LEMMA ApprovedEarlier ==
  ASSUME IInv, NEW g \in Gens, row["rev"].out = "approved", Starting(g),
         ~Claimed(g) \/ authority = g
  PROVE  EarlierApproved(g)
<1>1. PICK a \in log.approved : TRUE
  BY DEF IInv, TasksOK
<1>2. a.by \in Gens /\ ~Starting(a.by)
  BY DEF IInv, LogBorn, TypeOK, Entries
<1>3. Claimed(a.by) /\ a.by # g
  BY <1>2 DEF Starting, Claimed
<1>4. ~(g < a.by)
  BY <1>2, <1>3, HolderFacts DEF IInv, BornInOrder
<1> QED BY <1>2, <1>3, <1>4, GenIsPositive DEF EarlierApproved

\* What an attempt that begins shows the others: nothing they did is undone.
LEMMA BeginInv ==
  ASSUME IInv, NEW g \in Gens, Starting(g), Starting(g)', TypeOK', BornInOrder', RowInSync',
         AttemptOK(g)', \A h \in Gens \ {g} : pc'[h] = pc[h] /\ mem'[h] = mem[h],
         UNCHANGED <<row, files, log>>, outdated \subseteq outdated',
         authority' = authority \/ authority' = g
  PROVE  IInv'
<1>1. TypeOK
  BY DEF IInv
<1>2. \A h \in Gens : Starting(h)' <=> Starting(h)
  BY DEF Starting
<1>3. \A h \in Gens : (Asker(h)' => Asker(h)) /\ (Publishing(h)' => Publishing(h))
  BY DEF Asker, Publishing, Starting
<1>4. \A h \in Gens : Lost(h) => Lost(h)'
  BY DEF Lost
<1>5. \A h, k \in Gens : Overtaken(h, k) => Overtaken(h, k)'
  BY DEF Overtaken
<1>6. TasksOK(row)' /\ ShippedChecked'
  BY DEF IInv, TasksOK, ShippedChecked
<1>7. LogBorn'
  <2>1. log.shipped \union log.approved \subseteq Entries /\ log.asked \subseteq Gens
    BY <1>1 DEF TypeOK
  <2>2. \A s \in Entries : s.by \in Gens
    BY DEF Entries
  <2> QED BY <1>2, <2>1, <2>2 DEF IInv, LogBorn
<1>8. ASSUME NEW h \in Gens \ {g} PROVE AttemptOK(h)'
  <2>1. /\ pc'[h] = pc[h] /\ mem'[h] = mem[h] /\ files' = files /\ log' = log /\ AttemptOK(h)
        /\ (authority' = h => authority = h)
    BY DEF IInv
  <2> QED BY <2>1 DEF AttemptOK, TaskPlace, TasksOK, Checked, Reviewed, EarlierApproved, Entry,
        Out, In, Working, Task, Over
<1>9. ImplOnce'
  <2>1. \A h, k \in Gens : Asker(h)' /\ Asker(k)' /\ h < k => Overtaken(h, k)'
    BY <1>3, <1>5 DEF IInv, ImplOnce
  <2>2. \A h \in Gens : Asker(h)' /\ ~Lost(h)' => row'["impl"].status # "absent"
    BY <1>3, <1>4 DEF IInv, ImplOnce
  <2> QED BY <2>1, <2>2 DEF ImplOnce
<1>10. PubOK'
  <2>1. \A h \in Gens : Pub(h)' => Pub(h)
    BY <1>3 DEF Pub
  <2>2. Ran(row)' <=> Ran(row)
    BY DEF Ran
  <2>3. PubAlone'
    <3>1. ASSUME NEW h \in Gens, authority' = h, Alive(h)', ~Starting(h)'
          PROVE  authority = h /\ Alive(h) /\ ~Starting(h)
      BY <1>2, <3>1 DEF Alive
    <3>2. ASSUME NEW h \in Gens, Publishing(h)', ~Lost(h)'
          PROVE  /\ Ran(row)'
                 /\ \A k \in Gens \ {h} : authority' = k /\ Alive(k)' /\ ~Starting(k)'
                      => row'["pub"].status = "uncertain"
      <4>1. Publishing(h) /\ ~Lost(h)
        BY <1>3, <1>4, <3>2
      <4> QED BY <2>2, <3>1, <4>1 DEF IInv, PubOK, PubAlone
    <3> QED BY <3>2 DEF PubAlone
  <2>4. PubsApart'
    <3>1. ASSUME NEW h \in Gens, NEW k \in Gens, Pub(h)', Pub(k)', h < k
          PROVE  Between(h, k)' \/ Overtaken(h, k)'
      <4>1. Between(h, k) \/ Overtaken(h, k)
        BY <2>1, <3>1 DEF IInv, PubOK, PubsApart
      <4> QED BY <1>5, <4>1 DEF Between
    <3> QED BY <3>1 DEF PubsApart
  <2>5. PubKept'
    BY <1>4, <2>1, <2>2 DEF IInv, PubOK, PubKept
  <2>6. RefusedOver'
    <3>1. log.refused \subseteq Gens \ {g}
      BY <1>1, DoersHaveBegun DEF TypeOK
    <3> QED BY <3>1 DEF IInv, PubOK, RefusedOver, Returned, Over
  <2>7. OnePublisherUnlessOutdated'
    <3>1. \A h, k \in Gens : Publishing(h)' /\ Publishing(k)' /\ h < k => Overtaken(h, k)'
      BY <1>3, <1>5 DEF IInv, PubOK, OnePublisherUnlessOutdated
    <3> QED BY <3>1 DEF OnePublisherUnlessOutdated
  <2> QED BY <2>3, <2>4, <2>5, <2>6, <2>7 DEF PubOK
<1> QED BY <1>6, <1>7, <1>8, <1>9, <1>10 DEF IInv

\* A graph that is loaded is what the row records.
LEMMA LoadInv == ASSUME IInv, NEW g \in Gens, Load(g) PROVE IInv'
<1>1. /\ TypeOK /\ Starting(g) /\ ~Over(g) /\ pc[g].at \in {"unborn", "adopted"}
      /\ Recover(row) \in [Tasks -> TaskRecord]
      /\ UNCHANGED <<row, authority, complete, files, aborted, log, outdated>>
  BY RecoverTasks DEF IInv, Load, Starting, Over, TypeOK
<1>2. /\ pc' \in [Gens -> [at : Phases, step : Steps]] /\ Starting(g)'
      /\ \/ pc[g].at = "unborn" /\ pc'[g].at = "loaded"
         \/ pc[g].at = "adopted" /\ pc'[g].at = "engineering"
      /\ \A h \in Gens \ {g} : pc'[h] = pc[h] /\ mem'[h] = mem[h]
      /\ mem' \in [Gens -> [Tasks -> TaskRecord]] /\ mem'[g] = Recover(row)
  <2>1. /\ \/ pc[g].at = "unborn" /\ Goto(g, "loaded")
           \/ pc[g].at = "adopted" /\ Goto(g, "engineering")
        /\ mem' = [mem EXCEPT ![g] = Recover(row)]
    BY DEF Load
  <2>2. \A phase \in {"loaded", "engineering"} : Goto(g, phase) =>
          /\ pc' \in [Gens -> [at : Phases, step : Steps]] /\ pc'[g].at = phase
          /\ \A h \in Gens \ {g} : pc'[h] = pc[h]
    BY <1>1 DEF Goto, TypeOK, Phases, Steps
  <2> QED BY <1>1, <2>1, <2>2 DEF TypeOK, Starting
<1>3. TypeOK'
  BY <1>1, <1>2 DEF TypeOK
<1>4. BornInOrder'
  <2>1. \A h \in Gens : (Claimed(h)' <=> Claimed(h))
    BY <1>2 DEF Claimed
  <2>2. authority # 0 => authority \in Gens
    BY <1>1 DEF TypeOK, Gens
  <2> QED BY <1>1, <1>2, <2>1, <2>2 DEF IInv, BornInOrder, TypeOK
<1>5. RowInSync'
  <2>1. Synced(g)' \/ pc'[g].at = "loaded"
    BY <1>1, <1>2 DEF Synced, Recover
  <2>2. ASSUME NEW h \in Gens \ {g} PROVE InSync(h)'
    <3>1. InSync(h) /\ pc'[h] = pc[h] /\ mem'[h] = mem[h]
      BY <1>2 DEF IInv, RowInSync
    <3> QED BY <1>1, <3>1 DEF InSync, Synced, In, Task, Recover, Alive, Rewinding
  <2> QED BY <2>1, <2>2 DEF RowInSync, InSync, Alive
<1>6. AttemptOK(g)'
  <2>1. TaskPlace(g)'
    BY <1>1, <1>2, RecoverTasks, Places DEF TaskPlace, In, Working, TypeOK
  <2>2. TasksOK(mem[g])'
    BY <1>1, <1>2, RecoverTasks DEF IInv, TasksOK, TypeOK, Tasks
  <2>3. Checked(g)'
    BY <1>2 DEF Checked
  <2>4. Reviewed(g)'
    <3>1. Out(g, "rev")' = row["rev"].out
      BY <1>1, <1>2, RecoverTasks DEF Out, TypeOK, Tasks
    <3>2. EarlierApproved(g)' <=> EarlierApproved(g)
      BY <1>1 DEF EarlierApproved
    <3>3. CASE pc'[g].at = "loaded"
      BY <1>1, <1>2, <3>1, <3>2, <3>3, ApprovedEarlier DEF Reviewed, Claimed
    <3>4. CASE pc'[g].at = "engineering"
      BY <1>1, <1>2, <3>1, <3>2, <3>4, ApprovedEarlier DEF Reviewed
    <3> QED BY <1>2, <3>3, <3>4
  <2> QED BY <2>1, <2>2, <2>3, <2>4 DEF AttemptOK
<1> QED BY <1>1, <1>2, <1>3, <1>4, <1>5, <1>6, BeginInv

\* A request that did not get the run.
LEMMA RefuseInv == ASSUME IInv, NEW g \in Gens, Refuse(g) PROVE IInv'
<1>1. /\ TypeOK /\ Starting(g) /\ ~Claimed(g) /\ authority # g
      /\ UNCHANGED <<row, authority, complete, files, aborted, log, outdated>>
  BY HolderFacts DEF IInv, Refuse, Starting, Claimed
<1>2. /\ pc' \in [Gens -> [at : Phases, step : Steps]] /\ pc'[g].at = "unborn" /\ Starting(g)'
      /\ \A h \in Gens \ {g} : pc'[h] = pc[h] /\ mem'[h] = mem[h]
      /\ mem' \in [Gens -> [Tasks -> TaskRecord]] /\ mem'[g] = NoTasks
  BY <1>1, NoTasksTyped DEF Refuse, Goto, TypeOK, Phases, Steps, Starting
<1>3. TypeOK'
  BY <1>1, <1>2 DEF TypeOK
<1>4. BornInOrder'
  <2>1. \A h \in Gens : (Claimed(h)' <=> Claimed(h)) /\ (h # g => pc'[h] = pc[h])
    BY <1>1, <1>2 DEF Claimed
  <2>2. authority # 0 => authority \in Gens
    BY <1>1 DEF TypeOK, Gens
  <2> QED BY <1>1, <1>2, <2>1, <2>2 DEF IInv, BornInOrder, TypeOK
<1>5. RowInSync'
  <2>1. ASSUME NEW h \in Gens \ {g} PROVE InSync(h)'
    <3>1. InSync(h) /\ pc'[h] = pc[h] /\ mem'[h] = mem[h]
      BY <1>2 DEF IInv, RowInSync
    <3> QED BY <1>1, <3>1 DEF InSync, Synced, In, Task, Recover, Alive, Rewinding
  <2> QED BY <1>1, <2>1 DEF RowInSync, InSync
<1>6. AttemptOK(g)'
  <2>1. TaskPlace(g)'
    BY <1>2, NoTasksTyped, Places DEF TaskPlace, In, Working
  <2>2. TasksOK(mem[g])'
    BY <1>2, NoTasksTyped DEF TasksOK, Tasks
  <2>3. Checked(g)' /\ Reviewed(g)'
    BY <1>2, NoTasksTyped DEF Checked, Reviewed, Out, Tasks
  <2> QED BY <2>1, <2>2, <2>3 DEF AttemptOK
<1> QED BY <1>1, <1>2, <1>3, <1>4, <1>5, <1>6, BeginInv

\* Who claims the run comes after all that claimed it before; a graph the row
\* has gone past makes them lost.
LEMMA ClaimInv == ASSUME IInv, NEW g \in Gens, Claim(g) \/ Adopt(g) PROVE IInv'
<1>1. /\ TypeOK /\ Starting(g) /\ ~Claimed(g) /\ MayTake(g) /\ authority' = g
      /\ pc[g].at \in {"unborn", "loaded"}
      /\ UNCHANGED <<row, complete, files, mem, aborted, log>>
  BY DEF IInv, Claim, Adopt, Starting, Claimed
<1>2. /\ pc' \in [Gens -> [at : Phases, step : Steps]]
      /\ pc'[g].at \in {"adopted", "engineering"}
      /\ \A h \in Gens \ {g} : pc'[h] = pc[h]
  <2>1. \A phase \in {"adopted", "engineering"} : Goto(g, phase) =>
          /\ pc' \in [Gens -> [at : Phases, step : Steps]] /\ pc'[g].at = phase
          /\ \A h \in Gens \ {g} : pc'[h] = pc[h]
    BY <1>1 DEF Goto, TypeOK, Phases, Steps
  <2> QED BY <2>1 DEF Claim, Adopt
<1>3. /\ outdated \subseteq outdated' /\ outdated' \subseteq outdated \union {g}
      /\ pc'[g].at = "engineering" => g \in outdated' \/ mem[g] = Recover(row)
  BY <1>1, <1>2 DEF Claim, Adopt, Goto, TypeOK
<1>4. TypeOK'
  BY <1>1, <1>2, <1>3, GenIsPositive DEF TypeOK
<1>5. BornInOrder'
  <2>1. \A h \in Gens : Claimed(h)' <=> Claimed(h) \/ h = g
    BY <1>2 DEF Claimed
  <2>2. \A h \in Gens : h < g => Claimed(h)
    BY <1>1 DEF MayTake
  <2>3. \A h \in Gens : g < h => ~Claimed(h) /\ h # g
    BY <1>1, GenIsPositive DEF IInv, BornInOrder
  <2>4. \A h, k \in Gens : h < k /\ Claimed(k)' => Claimed(h)'
    BY <2>1, <2>2 DEF IInv, BornInOrder
  <2>5. \A h \in outdated' : Claimed(h)'
    BY <1>1, <1>3, <2>1 DEF IInv, BornInOrder, TypeOK
  <2> QED BY <1>1, <1>2, <2>1, <2>3, <2>4, <2>5 DEF BornInOrder
<1>6. RowInSync'
  <2>1. InSync(g)'
    BY <1>1, <1>2, <1>3 DEF InSync, Rewinding, Synced, Recover
  <2> QED BY <1>1, <2>1 DEF RowInSync, InSync
<1>7. AttemptOK(g)'
  <2>1. AttemptOK(g) /\ ~Over(g) /\ pc[g].at # "engineering"
    BY <1>1 DEF IInv, Over
  <2>2. TaskPlace(g)'
    <3>1. \A t \in Tasks : mem[g][t].status # "running"
      BY <1>1, <2>1, Places DEF AttemptOK, TaskPlace, Working, In
    <3> QED BY <1>1, <1>2, <3>1, Places DEF TaskPlace, Working, In
  <2>3. TasksOK(mem[g])' /\ Checked(g)'
    BY <1>1, <1>2, <2>1 DEF AttemptOK, TasksOK, Checked
  <2>4. Reviewed(g)'
    BY <1>1, <1>2, <2>1 DEF AttemptOK, Reviewed, EarlierApproved, Entry, Out
  <2> QED BY <2>2, <2>3, <2>4 DEF AttemptOK
<1>8. Starting(g)'
  BY <1>2 DEF Starting
<1> QED BY <1>1, <1>2, <1>3, <1>4, <1>5, <1>6, <1>7, <1>8, BeginInv

LEMMA InterruptInv == ASSUME IInv, Interrupt PROVE IInv'
<1>1. /\ TypeOK /\ TypeOK' /\ authority' = 0
      /\ UNCHANGED <<row, complete, pc, files, mem, aborted, log, outdated>>
  BY RunAssumption DEF IInv, Interrupt, TypeOK
<1>2. BornInOrder' /\ RowInSync'
  BY <1>1, GenIsPositive DEF IInv, BornInOrder, RowInSync, InSync, Claimed
<1>3. TasksOK(row)' /\ LogBorn' /\ ShippedChecked' /\ \A g \in Gens : AttemptOK(g)'
  BY <1>1, GenIsPositive DEF IInv, LogBorn, ShippedChecked, Starting, AttemptOK, TaskPlace, TasksOK,
    Checked, Reviewed, EarlierApproved, Entry, Out, In, Working, Task, Over
<1>4. ImplOnce'
  BY <1>1 DEF IInv, ImplOnce, Asker, Lost, Overtaken
<1>5. PubOK'
  BY <1>1, GenIsPositive DEF IInv, PubOK, OnePublisherUnlessOutdated, PubAlone, PubsApart, PubKept,
    RefusedOver, Pub, Publishing, Between, Returned, Over, Ran, Lost, Overtaken
<1> QED BY <1>1, <1>2, <1>3, <1>4, <1>5 DEF IInv

LEMMA QuietInv == ASSUME IInv, UNCHANGED vars PROVE IInv'
<1>1. /\ TypeOK /\ TypeOK'
      /\ UNCHANGED <<row, authority, complete, pc, files, mem, aborted, log, outdated>>
  BY DEF IInv, vars, TypeOK
<1>2. BornInOrder' /\ RowInSync'
  BY <1>1 DEF IInv, BornInOrder, RowInSync, InSync, Rewinding, Claimed, Synced, Alive, In, Task,
    Recover
<1>3. TasksOK(row)' /\ LogBorn' /\ ShippedChecked' /\ \A g \in Gens : AttemptOK(g)'
  BY <1>1 DEF IInv, LogBorn, ShippedChecked, Starting, AttemptOK, TaskPlace, TasksOK, Checked,
    Reviewed, EarlierApproved, Entry, Out, In, Working, Task, Over
<1>4. ImplOnce'
  BY <1>1 DEF IInv, ImplOnce, Asker, Lost, Overtaken
<1>5. PubOK'
  BY <1>1 DEF IInv, PubOK, OnePublisherUnlessOutdated, PubAlone, PubsApart, PubKept, RefusedOver,
    Pub, Publishing, Between, Returned, Ran, Alive, Starting, Over, Lost, Overtaken
<1> QED BY <1>1, <1>2, <1>3, <1>4, <1>5 DEF IInv

LEMMA InitInv == Init => IInv
<1> SUFFICES ASSUME Init PROVE IInv
  OBVIOUS
<1>1. /\ \A g \in Gens : /\ pc[g].at = (IF g = 1 THEN "implement" ELSE "unborn")
                         /\ pc[g].step = "enter" /\ mem[g] = NoTasks /\ files[g] = Base
      /\ row = NoTasks /\ authority = 1 /\ 1 \in Gens
      /\ log.shipped = {} /\ log.refused = {} /\ log.passed = {} /\ log.approved = {}
      /\ log.asked = {} /\ outdated = {}
  BY RunAssumption DEF Init, Gens
<1>2. TypeOK
  <2>1. pc \in [Gens -> [at : Phases, step : Steps]]
    BY Places DEF Init, Phases, Steps
  <2>2. mem \in [Gens -> [Tasks -> TaskRecord]] /\ row \in [Tasks -> TaskRecord]
    BY NoTasksTyped DEF Init
  <2>3. files \in [Gens -> Files] /\ complete \in BOOLEAN
    BY DEF Init, Files
  <2>4. authority \in 0..MaxGen
    BY <1>1, GenIsPositive
  <2>5. log \in Logs /\ aborted \subseteq Gens
    BY DEF Init, Logs
  <2> QED BY <1>1, <2>1, <2>2, <2>3, <2>4, <2>5 DEF TypeOK, Logs
<1>3. BornInOrder
  BY <1>1 DEF BornInOrder, Claimed, Gens
<1>4. RowInSync
  BY <1>1 DEF RowInSync, InSync, Synced, In
<1>5. TasksOK(NoTasks) /\ LogBorn /\ ShippedChecked
  BY <1>1, NoTasksTyped DEF TasksOK, LogBorn, Tasks, ShippedChecked
<1>6. ASSUME NEW g \in Gens PROVE AttemptOK(g)
  <2>1. TaskPlace(g)
    BY <1>1, NoTasksTyped DEF TaskPlace, In, Working
  <2>2. Checked(g) /\ Reviewed(g)
    BY <1>1, NoTasksTyped DEF Checked, Reviewed, Out, Tasks
  <2> QED BY <1>1, <1>5, <2>1, <2>2 DEF AttemptOK
<1>7. ImplOnce
  BY <1>1 DEF ImplOnce, Asker
<1>8. PubOK
  BY <1>1, <1>2 DEF PubOK, OnePublisherUnlessOutdated, PubAlone, PubsApart, PubKept, RefusedOver,
    Pub, Publishing
<1> QED BY <1>1, <1>2, <1>3, <1>4, <1>5, <1>6, <1>7, <1>8 DEF IInv

LEMMA RunTaskInv ==
  ASSUME IInv, NEW g \in Gens, RunTask(g), UNCHANGED outdated PROVE IInv'
BY EnterInv, StartInv, ImplementInv, RepairInv, ValidateInv, ReviewInv, CommitInv, PublishedInv,
  FinishInv DEF RunTask

LEMMA NextInv == IInv /\ [Next]_vars => IInv'
<1> SUFFICES ASSUME IInv, [Next]_vars PROVE IInv'
  OBVIOUS
<1>1. ASSUME NEW g \in Gens, Work(g) PROVE IInv'
  BY <1>1, EngineeringInv, RunTaskInv, AfterTaskInv, BrowserInv, RebuildInv, RecheckInv DEF Work
<1>2. ASSUME NEW g \in Gens, Abort(g) \/ Crash(g) \/ Resume(g) PROVE IInv'
  BY <1>2, AbortInv, CrashInv, LoadInv, RefuseInv, ClaimInv DEF Resume
<1>3. CASE Interrupt
  BY <1>3, InterruptInv
<1>4. CASE UNCHANGED vars
  BY <1>4, QuietInv
<1> QED BY <1>1, <1>2, <1>3, <1>4 DEF Next

LEMMA AlwaysInv == Spec => []IInv
BY InitInv, NextInv, PTL DEF Spec

-----------------------------------------------------------------------------
\* Of any number of attempts of a run at most one is in the repository's
\* writer at a time, superseded ones that still go on included, unless one
\* between them claimed the run with a graph loaded too early.
THEOREM OneAtATime == Spec => []OnePublisherUnlessOutdated
<1>1. IInv => OnePublisherUnlessOutdated
  BY DEF IInv, PubOK
<1> QED BY <1>1, AlwaysInv, PTL

\* Two attempts commit only if one of the first or between them had its
\* publish recorded as failed, or one between them claimed the run with a graph
\* loaded too early: what the row shows as completed or cut short is never
\* published again.
THEOREM RepeatedOnlyForCause == Spec => []RepublishHasCause
<1>1. IInv => RepublishHasCause
  <2> SUFFICES ASSUME IInv, NEW a \in log.shipped, NEW b \in log.shipped, a.by < b.by
               PROVE  Between(a.by, b.by) \/ Overtaken(a.by, b.by)
    BY DEF RepublishHasCause, Between
  <2>1. a.by \in Gens /\ b.by \in Gens
    BY DEF IInv, TypeOK, Entries
  <2> QED BY <2>1 DEF IInv, PubOK, PubsApart, Pub
<1> QED BY <1>1, AlwaysInv, PTL

\* What is committed has passed the checks as it is, and was approved as it is
\* or an earlier attempt had its approval.
THEOREM ShippedWasChecked == Spec => []ShippedChecked
<1>1. IInv => ShippedChecked
  BY DEF IInv
<1> QED BY <1>1, AlwaysInv, PTL

\* The implementation is asked for in a second attempt of the run only when
\* that one, or one between them, claimed the run with a graph loaded too early.
THEOREM AskedOnce == Spec => []ImplementedOnceUnlessOutdated
<1>1. IInv => ImplementedOnceUnlessOutdated
  BY DEF IInv, ImplOnce, Asker, ImplementedOnceUnlessOutdated, TypeOK
<1> QED BY <1>1, AlwaysInv, PTL
=============================================================================
