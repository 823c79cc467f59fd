---------------------------- MODULE RunStoreProofs ----------------------------
(***************************************************************************)
(* For any number of requests, processes, events and snapshots in flight:  *)
(* the row of a run tells the truth, one request wins each end of it, a    *)
(* resume keeps the artifact and nothing goes back.                        *)
(*                                                                         *)
(* A generation is claimed once.  So an end that another request claimed   *)
(* never comes back to the row (Spent): it could only be written by the    *)
(* generation it ended, which the claim has replaced.  And whatever still  *)
(* says how an attempt ended, in flight, in the row, in the memory of a    *)
(* request that read it or of its own process, says the same (Agree).      *)
(***************************************************************************)
EXTENDS RunStore, TLAPS

Done(q) == req[q].at \in {"working", "closing", "over"}
Holder(q) == req[q].at \in {"working", "closing"}

\* The end e is of attempt g, by its process or by the database.
EndOf(e, g) == e \in {2 * g, 2 * g + 1}

\* The record of a request, by the place it is at.
ReqOK(q) ==
  /\ Active(q) => req[q].proc \in Procs
  /\ req[q].at = "read" /\ req[q].seen.gen = NULL => req[q].seen.out = NULL
  /\ req[q].at = "working" =>
       req[q].status \in {"running", "cancelled"} /\ (req[q].status = "running" => req[q].ended = NULL)
  /\ req[q].at = "closing" =>
       /\ req[q].status \in {"complete", "error", "cancelled"} /\ req[q].ended = ByRequest(q)
       /\ req[q].status = "complete" => req[q].out = q

\* A snapshot on its way.
SnapshotOK(m) ==
  /\ Done(m.from) /\ (IF m.status = "running" THEN m.ended = NULL ELSE m.ended = ByRequest(m.from))
  /\ m.status = "complete" => m.out = m.from /\ req[m.from].status = "complete"

\* The row is of an attempt, or of the end of one.
RowOK ==
  /\ IF row.gen = NULL THEN row.out = NULL /\ row.status # "running" ELSE Done(row.gen)
  /\ row.ended # NULL =>
       /\ \E g \in Reqs : Done(g) /\ EndOf(row.ended, g)
       /\ row.gen # NULL => row.ended = ByRequest(row.gen)

\* No attempt can give the row the end e any more.
Spent(e) ==
  IF e = NULL THEN row.status # "absent"
  ELSE row.ended # e /\ \E g \in Reqs : EndOf(e, g) /\ Done(g) /\ row.gen # g

\* Where it is written how attempt g ended, with the output o.
Says(g, o) ==
  \/ \E m \in net : m.from = g /\ m.ended # NULL /\ m.out = o
  \/ row.gen = g /\ row.ended # NULL /\ row.out = o
  \/ \E q \in Reqs : req[q].at = "read" /\ req[q].seen.gen = g /\ req[q].seen.out = o
  \/ req[g].at = "closing" /\ req[g].out = o

\* An attempt that is to be, or that its process works on.
Open(g) == ~Done(g) \/ (req[g].at = "working" /\ req[g].status = "running")

Agree(g) ==
  /\ \A o1, o2 \in Gens : Says(g, o1) /\ Says(g, o2) => o1 = o2
  /\ Open(g) => \A o \in Gens : ~Says(g, o)

SpentOK == \A q \in Reqs : Holder(q) => Spent(req[q].seen.ended)

IInv ==
  /\ RowTruth /\ OneWinner /\ RowOK /\ SpentOK
  /\ \A q \in Reqs : ReqOK(q) /\ Agree(q)
  /\ \A m \in net : SnapshotOK(m)

-----------------------------------------------------------------------------
(* Arithmetic of the ends. *)

Requests == [at : {"idle", "create", "loaded", "read", "working", "closing", "over"},
             proc : Procs \union {NULL}, seen : [seq : Nat, gen : Gens, out : Gens, ended : Ends],
             status : RunStatus \union {"absent"}, seq : Nat, out : Gens, ended : Ends]

LEMMA EndsType ==
  /\ NULL = 0 /\ NULL \in Gens /\ NULL \in Ends /\ Reqs \subseteq Gens /\ NULL \notin Reqs
  /\ Gens = Reqs \union {NULL}
  /\ \A g \in Reqs : 2 * g \in Ends /\ 2 * g + 1 \in Ends /\ 2 * g # NULL /\ 2 * g + 1 # NULL
BY StoreAssumption DEF NULL, Gens, Ends, Reqs

LEMMA EndsDiffer ==
  ASSUME NEW g \in Reqs, NEW h \in Reqs, NEW e, EndOf(e, g), EndOf(e, h)
  PROVE  g = h
BY StoreAssumption DEF EndOf, Reqs

-----------------------------------------------------------------------------
(* What a step of one request leaves alone. *)

\* Only the record of this request changes.
Only(q) ==
  /\ req' \in [Reqs -> Requests]
  /\ \A h \in Reqs : h # q => req'[h] = req[h]

\* An attempt never un-happens, and a completed one stays completed.
Forward ==
  \A g \in Reqs :
    /\ Done(g) => Done(g)'
    /\ Done(g) /\ req[g].status = "complete" => req'[g].status = "complete"

\* Nothing new is written about how an attempt ended.
NoNews ==
  \A g \in Reqs :
    /\ Open(g)' => Open(g)
    /\ \A o \in Gens : Says(g, o)' => Says(g, o)

LEMMA AgreeStays ==
  ASSUME NEW g \in Reqs, Agree(g), NoNews
  PROVE  Agree(g)'
BY DEF Agree, NoNews, Gens

LEMMA SnapshotStays ==
  ASSUME TypeOK, NEW m \in Snapshots, SnapshotOK(m), Forward
  PROVE  SnapshotOK(m)'
BY DEF SnapshotOK, Forward, Snapshots, Done

LEMMA SpentStays ==
  ASSUME NEW e, Spent(e), Forward, UNCHANGED row
  PROVE  Spent(e)'
BY DEF Spent, Forward, Done

LEMMA RowStays ==
  ASSUME IInv, Forward, UNCHANGED row
  PROVE  /\ RowOK'
         /\ row'.status = "complete" =>
              /\ row'.gen \in Reqs /\ row'.out = row'.gen
              /\ req'[row'.gen].status = "complete"
<1>1. TypeOK /\ row.gen \in Gens
  BY DEF IInv, RowTruth, TypeOK, Rows
<1>2. RowOK'
  BY <1>1, EndsType DEF IInv, RowOK, Forward, Done
<1>3. row.status = "complete" => row.gen \in Reqs /\ Done(row.gen)
  BY EndsType DEF IInv, RowTruth, RowOK
<1> QED BY <1>2, <1>3 DEF IInv, RowTruth, Forward, Done

\* A request that goes on and leaves the row alone; another end than its own
\* is nobody's to tell.
LEMMA GoesOn ==
  ASSUME IInv, UNCHANGED row, NEW q \in Reqs, Only(q), ReqOK(q)',
         Done(q) => Done(q)' /\ (req[q].status = "complete" => req'[q].status = "complete"),
         Holder(q)' => Holder(q) /\ req'[q].seen = req[q].seen,
         net' \subseteq Snapshots, \A m \in net' : m \in net \/ SnapshotOK(m)', \A g \in Reqs : Agree(g)'
  PROVE  IInv'
<1>1. TypeOK /\ TypeOK'
  BY DEF IInv, RowTruth, TypeOK, Only, Requests
<1>2. Forward
  BY DEF Forward, Only, Done
<1>3. RowOK' /\ RowTruth'
  BY <1>1, <1>2, RowStays DEF RowTruth
<1>4. \A m \in net' : SnapshotOK(m)'
  BY <1>1, <1>2, SnapshotStays DEF IInv, TypeOK
<1>5. \A h \in Reqs : Holder(h)' => Holder(h) /\ req'[h].seen = req[h].seen
  BY DEF Only, Holder
<1>6. SpentOK'
  BY <1>2, <1>5, SpentStays DEF SpentOK, IInv
<1>7. OneWinner'
  BY <1>5 DEF OneWinner, Holder, IInv
<1>8. \A h \in Reqs : ReqOK(h)'
  BY DEF Only, ReqOK, Active, IInv
<1> QED BY <1>3, <1>4, <1>6, <1>7, <1>8 DEF IInv

\* A request that repeats at most what it says already, or what the row says.
LEMMA NothingNew ==
  ASSUME UNCHANGED row, NEW q \in Reqs, Only(q), Open(q)' => Open(q),
         \A m \in net' : \/ m \in net \/ m.ended = NULL
                         \/ m.from = q /\ req[q].at = "closing" /\ m.out = req[q].out,
         req'[q].at = "read" =>
           \/ req[q].at = "read" /\ req'[q].seen = req[q].seen
           \/ row.ended # NULL /\ row.gen = req'[q].seen.gen /\ row.out = req'[q].seen.out,
         req'[q].at = "closing" => req[q].at = "closing" /\ req'[q].out = req[q].out
  PROVE  NoNews
<1>1. ASSUME NEW g \in Reqs, Open(g)' PROVE Open(g)
  BY <1>1 DEF Open, Done, Only
<1>2. ASSUME NEW g \in Reqs, NEW o \in Gens, Says(g, o)' PROVE Says(g, o)
  <2>1. CASE \E m \in net' : m.from = g /\ m.ended # NULL /\ m.out = o
    BY <2>1 DEF Says
  <2>2. CASE row'.gen = g /\ row'.ended # NULL /\ row'.out = o
    BY <2>2 DEF Says
  <2>3. CASE \E h \in Reqs : req'[h].at = "read" /\ req'[h].seen.gen = g /\ req'[h].seen.out = o
    BY <2>3 DEF Says, Only
  <2>4. CASE req'[g].at = "closing" /\ req'[g].out = o
    BY <2>4 DEF Says, Only
  <2> QED BY <1>2, <2>1, <2>2, <2>3, <2>4 DEF Says
<1> QED BY <1>1, <1>2 DEF NoNews

LEMMA IdleType ==
  /\ NoRequest \in Requests /\ Seen(AbsentRow) \in [seq : Nat, gen : Gens, out : Gens, ended : Ends]
  /\ AbsentRow \in Rows
BY EndsType DEF NoRequest, Seen, AbsentRow, Requests, RunStatus, Rows

LEMMA OverType ==
  ASSUME NEW r \in Requests
  PROVE  Over(r) \in Requests /\ Over(r).at = "over" /\ (r.status = "complete" <=> Over(r).status = "complete")
BY IdleType DEF Over, Requests, RunStatus

\* A request is over; it may have sent its record once more.
LEMMA LeaveInv ==
  ASSUME IInv, UNCHANGED row, NEW q \in Reqs, Leave(q),
         net' = net \/ (req[q].at = "closing" /\ net' = net \union {Snapshot(q)})
  PROVE  IInv'
<1>1. TypeOK /\ req \in [Reqs -> Requests] /\ ReqOK(q)
  BY DEF IInv, RowTruth, TypeOK, Requests
<1>2. req'[q] = Over(req[q]) /\ Only(q)
  BY <1>1, OverType DEF Leave, Only
<1>3. req'[q].at = "over" /\ (req[q].status = "complete" => req'[q].status = "complete")
  BY <1>1, <1>2, OverType
<1>4. ReqOK(q)' /\ Done(q)' /\ ~Holder(q)' /\ ~Open(q)'
  BY <1>3 DEF ReqOK, Active, Done, Holder, Open
<1>5. PICK m : m = Snapshot(q)
  OBVIOUS
<1>6. req[q].at = "closing" => m \in Snapshots /\ SnapshotOK(m)' /\ m.from = q /\ m.out = req[q].out
  <2> SUFFICES ASSUME req[q].at = "closing"
               PROVE  m \in Snapshots /\ SnapshotOK(m)' /\ m.from = q /\ m.out = req[q].out
    OBVIOUS
  <2>1. /\ req[q].proc \in Procs /\ req[q].status \in {"complete", "error", "cancelled"}
        /\ req[q].ended = ByRequest(q) /\ (req[q].status = "complete" => req[q].out = q)
    BY <1>1 DEF ReqOK, Active
  <2>2. m \in Snapshots
    BY <1>1, <1>5, <2>1 DEF Snapshot, Snapshots, Requests, RunStatus
  <2>3. SnapshotOK(m)'
    BY <1>3, <1>4, <1>5, <2>1 DEF Snapshot, SnapshotOK
  <2> QED BY <1>5, <2>2, <2>3 DEF Snapshot
<1>7. net' \subseteq Snapshots /\ \A x \in net' : x \in net \/ SnapshotOK(x)'
  <2>1. net' = net \/ (net' = net \union {m} /\ m \in Snapshots /\ SnapshotOK(m)')
    BY <1>5, <1>6
  <2>2. net \subseteq Snapshots
    BY <1>1 DEF TypeOK
  <2> QED BY <2>1, <2>2
<1>8. NoNews
  BY <1>2, <1>3, <1>4, <1>5, <1>6, NothingNew
<1>9. \A g \in Reqs : Agree(g)'
  BY <1>8, AgreeStays DEF IInv
<1> QED BY <1>2, <1>3, <1>4, <1>7, <1>9, GoesOn

LEMMA AskInv ==
  ASSUME IInv, NEW q \in Reqs, NEW p \in Procs, Ask(q, p)
  PROVE  IInv'
<1>1. TypeOK /\ req \in [Reqs -> Requests] /\ req[q].at = "idle" /\ UNCHANGED <<row, net>>
  BY DEF IInv, RowTruth, TypeOK, Requests, Ask
<1>2. PICK at \in {"create", "loaded"} : req' = [req EXCEPT ![q].at = at, ![q].proc = p]
  BY DEF Ask
<1>3. Only(q) /\ req'[q].at = at /\ req'[q].proc = p
  <2>1. req' = [req EXCEPT ![q] = [req[q] EXCEPT !.at = at, !.proc = p]]
    BY <1>1, <1>2
  <2>2. [req[q] EXCEPT !.at = at, !.proc = p] \in Requests
    BY <1>1 DEF Requests
  <2> QED BY <1>1, <2>1, <2>2 DEF Only, Requests
<1>4. ReqOK(q)' /\ ~Done(q) /\ ~Holder(q)' /\ Open(q)
  BY <1>1, <1>3 DEF ReqOK, Active, Done, Holder, Open
<1>5. NoNews
  BY <1>1, <1>3, <1>4, NothingNew
<1>6. \A g \in Reqs : Agree(g)'
  BY <1>5, AgreeStays DEF IInv
<1>7. net' \subseteq Snapshots /\ \A m \in net' : m \in net
  BY <1>1 DEF TypeOK
<1> QED BY <1>1, <1>3, <1>4, <1>6, <1>7, GoesOn

LEMMA ReadInv ==
  ASSUME IInv, NEW q \in Reqs, Read(q)
  PROVE  IInv'
<1>1. TypeOK /\ req \in [Reqs -> Requests] /\ req[q].at = "loaded" /\ UNCHANGED <<row, net>>
  BY DEF IInv, RowTruth, TypeOK, Requests, Read
<1>2. CASE row.status \in Resumable
  <2>1. req' = [req EXCEPT ![q].at = "read", ![q].seen = Seen(row)]
    BY <1>2 DEF Read
  <2>2. Seen(row) \in [seq : Nat, gen : Gens, out : Gens, ended : Ends]
        /\ Seen(row).gen = row.gen /\ Seen(row).out = row.out /\ row.ended # NULL
    BY <1>1, <1>2 DEF TypeOK, Rows, Seen, Resumable
  <2>3. Only(q) /\ req'[q].at = "read" /\ req'[q].seen = Seen(row) /\ req'[q].proc = req[q].proc
    <3>1. req' = [req EXCEPT ![q] = [req[q] EXCEPT !.at = "read", !.seen = Seen(row)]]
      BY <1>1, <2>1
    <3>2. [req[q] EXCEPT !.at = "read", !.seen = Seen(row)] \in Requests
      BY <1>1, <2>2 DEF Requests
    <3> QED BY <1>1, <3>1, <3>2 DEF Only, Requests
  <2>4. ReqOK(q)' /\ ~Done(q) /\ ~Holder(q)' /\ Open(q)
    BY <1>1, <2>2, <2>3 DEF ReqOK, Active, Done, Holder, Open, IInv, RowOK
  <2>5. NoNews
    BY <1>1, <2>2, <2>3, <2>4, NothingNew
  <2>6. \A g \in Reqs : Agree(g)'
    BY <2>5, AgreeStays DEF IInv
  <2>7. net' \subseteq Snapshots /\ \A m \in net' : m \in net
    BY <1>1 DEF TypeOK
  <2> QED BY <1>1, <2>3, <2>4, <2>6, <2>7, GoesOn
<1>3. CASE row.status \notin Resumable
  BY <1>1, <1>3, LeaveInv DEF Read
<1> QED BY <1>2, <1>3

LEMMA AppendInv ==
  ASSUME IInv, NEW q \in Reqs, Append(q)
  PROVE  IInv'
<1>1. TypeOK /\ req \in [Reqs -> Requests] /\ req[q].at = "working" /\ UNCHANGED <<row, net>>
  BY DEF IInv, RowTruth, TypeOK, Requests, Append, Working
<1>2. req' = [req EXCEPT ![q].seq = @ + 1]
  BY DEF Append
<1>3. Only(q) /\ req'[q] = [req[q] EXCEPT !.seq = @ + 1]
  BY <1>1, <1>2 DEF Only, Requests
<1>4. /\ req'[q].at = "working" /\ req'[q].proc = req[q].proc /\ req'[q].seen = req[q].seen
      /\ req'[q].status = req[q].status /\ req'[q].ended = req[q].ended
  BY <1>1, <1>3 DEF Requests
<1>5. ReqOK(q)' /\ Done(q)' /\ Holder(q) /\ (Open(q)' => Open(q))
  BY <1>1, <1>4 DEF IInv, ReqOK, Active, Done, Holder, Open
<1>6. NoNews
  BY <1>1, <1>3, <1>4, <1>5, NothingNew
<1>7. \A g \in Reqs : Agree(g)'
  BY <1>6, AgreeStays DEF IInv
<1>8. net' \subseteq Snapshots /\ \A m \in net' : m \in net
  BY <1>1 DEF TypeOK
<1> QED BY <1>1, <1>3, <1>4, <1>5, <1>7, <1>8, GoesOn

-----------------------------------------------------------------------------
(* Snapshots are sent. *)

LEMMA TimerInv ==
  ASSUME IInv, NEW q \in Reqs, Timer(q)
  PROVE  IInv'
<1>1. TypeOK /\ req \in [Reqs -> Requests] /\ ReqOK(q) /\ UNCHANGED <<row, req>>
      /\ req[q].at = "working" /\ req[q].status = "running"
  BY DEF IInv, RowTruth, TypeOK, Requests, Timer, Working
<1>2. PICK m : m = Snapshot(q)
  OBVIOUS
<1>3. m \in Snapshots /\ m.from = q /\ m.status = "running" /\ m.ended = NULL
  BY <1>1, <1>2 DEF ReqOK, Active, Snapshot, Snapshots, Requests, RunStatus
<1>4. SnapshotOK(m)'
  BY <1>1, <1>3 DEF SnapshotOK, Done
<1>5. net' = net \union {m} /\ net \subseteq Snapshots
  BY <1>1, <1>2 DEF Timer, Send, TypeOK
<1>6. Only(q) /\ ReqOK(q)' /\ (Open(q)' => Open(q)) /\ (Done(q) => Done(q)') /\ (Holder(q)' => Holder(q))
  BY <1>1 DEF Only, ReqOK, Active, Open, Done, Holder
<1>7. NoNews
  BY <1>1, <1>3, <1>5, <1>6, NothingNew
<1>8. \A g \in Reqs : Agree(g)'
  BY <1>7, AgreeStays DEF IInv
<1>9. net' \subseteq Snapshots /\ \A x \in net' : x \in net \/ SnapshotOK(x)'
  BY <1>3, <1>4, <1>5
<1> QED BY <1>1, <1>6, <1>8, <1>9, GoesOn

\* The process ends its record.  Nobody said before how this attempt ended.
LEMMA CloseInv ==
  ASSUME IInv, NEW q \in Reqs, NEW r \in Requests, Close(q, r),
         r.at = "closing", r.status \in {"complete", "error", "cancelled"}, r.ended = ByRequest(q),
         r.seen = req[q].seen, r.proc = req[q].proc, r.status = "complete" => r.out = q
  PROVE  IInv'
<1>1. TypeOK /\ req \in [Reqs -> Requests] /\ ReqOK(q) /\ Agree(q) /\ UNCHANGED row
      /\ req[q].at = "working" /\ req[q].status = "running"
  BY DEF IInv, RowTruth, TypeOK, Requests, Close, Working
<1>2. Only(q) /\ req'[q] = r
  BY <1>1 DEF Only, Close
<1>3. PICK m : m = [from |-> q, worker |-> r.proc, status |-> r.status,
                    seq |-> r.seq, out |-> r.out, ended |-> r.ended]
  OBVIOUS
<1>4. m \in Snapshots /\ m.from = q /\ m.status = r.status /\ m.ended = ByRequest(q) /\ m.out = r.out
  BY <1>1, <1>3 DEF ReqOK, Active, Snapshots, Requests, RunStatus
<1>5. ReqOK(q)' /\ Done(q)' /\ Holder(q) /\ Open(q) /\ ~Open(q)'
  BY <1>1, <1>2 DEF ReqOK, Active, Done, Holder, Open
<1>6. SnapshotOK(m)'
  BY <1>2, <1>4, <1>5 DEF SnapshotOK
<1>7. net' = net \union {m} /\ net \subseteq Snapshots
  BY <1>1, <1>3 DEF Close, Send, TypeOK
<1>8. \A o \in Gens : ~Says(q, o)
  BY <1>1, <1>5 DEF Agree
<1>9. ASSUME NEW o \in Gens, Says(q, o)' PROVE o = r.out
  BY <1>1, <1>2, <1>4, <1>7, <1>8, <1>9 DEF Says, Only
<1>10. ASSUME NEW g \in Reqs, g # q PROVE Agree(g)'
  <2>1. ASSUME NEW o \in Gens, Says(g, o)' PROVE Says(g, o)
    BY <1>1, <1>2, <1>4, <1>7, <1>10, <2>1 DEF Says, Only
  <2>2. (Open(g)' => Open(g)) /\ Agree(g)
    BY <1>2, <1>10 DEF Open, Done, Only, IInv
  <2> QED BY <2>1, <2>2 DEF Agree, Gens
<1>11. \A g \in Reqs : Agree(g)'
  BY <1>5, <1>9, <1>10 DEF Agree, Gens
<1>12. net' \subseteq Snapshots /\ \A x \in net' : x \in net \/ SnapshotOK(x)'
  BY <1>4, <1>6, <1>7
<1> QED BY <1>1, <1>2, <1>5, <1>11, <1>12, GoesOn

LEMMA CompleteInv ==
  ASSUME IInv, NEW q \in Reqs, Complete(q)
  PROVE  IInv'
<1>1. PICK status \in {"complete", "error"} :
        Close(q, [req[q] EXCEPT !.at = "closing", !.status = status, !.out = q,
                                !.ended = ByRequest(q)])
  BY DEF Complete
<1>2. PICK r : r = [req[q] EXCEPT !.at = "closing", !.status = status, !.out = q,
                                  !.ended = ByRequest(q)]
  OBVIOUS
<1>3. req[q] \in Requests /\ q \in Gens /\ ByRequest(q) \in Ends
  BY EndsType DEF IInv, RowTruth, TypeOK, Requests, ByRequest
<1>4. r \in Requests
  BY <1>2, <1>3 DEF Requests, RunStatus
<1>5. /\ r.at = "closing" /\ r.status = status /\ r.ended = ByRequest(q)
      /\ r.seen = req[q].seen /\ r.proc = req[q].proc /\ r.out = q
  BY <1>2, <1>3 DEF Requests
<1> QED BY <1>1, <1>2, <1>4, <1>5, CloseInv

LEMMA FailInv ==
  ASSUME IInv, NEW q \in Reqs, Fail(q)
  PROVE  IInv'
<1>1. PICK status \in Resumable :
        Close(q, [req[q] EXCEPT !.at = "closing", !.status = status, !.ended = ByRequest(q)])
  BY DEF Fail
<1>2. PICK r : r = [req[q] EXCEPT !.at = "closing", !.status = status, !.ended = ByRequest(q)]
  OBVIOUS
<1>3. req[q] \in Requests /\ ByRequest(q) \in Ends /\ status \in {"error", "cancelled"}
  BY EndsType DEF IInv, RowTruth, TypeOK, Requests, ByRequest, Resumable
<1>4. r \in Requests
  BY <1>2, <1>3 DEF Requests, RunStatus
<1>5. /\ r.at = "closing" /\ r.status = status /\ r.ended = ByRequest(q)
      /\ r.seen = req[q].seen /\ r.proc = req[q].proc
  BY <1>2, <1>3 DEF Requests
<1> QED BY <1>1, <1>2, <1>3, <1>4, <1>5, CloseInv

LEMMA CorrectInv ==
  ASSUME IInv, NEW q \in Reqs, Correct(q)
  PROVE  IInv'
<1>1. TypeOK /\ req \in [Reqs -> Requests] /\ ReqOK(q) /\ UNCHANGED row
      /\ req[q].at = "closing" /\ req[q].status = "error"
  BY DEF IInv, RowTruth, TypeOK, Requests, Correct
<1>2. /\ Only(q) /\ req'[q].at = "closing" /\ req'[q].status = "cancelled" /\ req'[q].out = req[q].out
      /\ req'[q].ended = req[q].ended /\ req'[q].seen = req[q].seen /\ req'[q].proc = req[q].proc
  BY <1>1 DEF Correct, Only, Requests, RunStatus
<1>3. PICK m : m = [Snapshot(q) EXCEPT !.status = "cancelled"]
  OBVIOUS
<1>4. m \in Snapshots /\ m.from = q /\ m.status = "cancelled" /\ m.ended = ByRequest(q) /\ m.out = req[q].out
  BY <1>1, <1>3 DEF ReqOK, Active, Snapshot, Snapshots, Requests, RunStatus
<1>5. ReqOK(q)' /\ Done(q)' /\ Holder(q) /\ ~Open(q)'
  BY <1>1, <1>2 DEF ReqOK, Active, Done, Holder, Open
<1>6. SnapshotOK(m)'
  BY <1>4, <1>5 DEF SnapshotOK
<1>7. net' = net \union {m} /\ net \subseteq Snapshots
  BY <1>1, <1>3 DEF Correct, Send, TypeOK
<1>8. NoNews
  BY <1>1, <1>2, <1>4, <1>5, <1>7, NothingNew
<1>9. \A g \in Reqs : Agree(g)'
  BY <1>8, AgreeStays DEF IInv
<1>10. net' \subseteq Snapshots /\ \A x \in net' : x \in net \/ SnapshotOK(x)'
  BY <1>4, <1>6, <1>7
<1> QED BY <1>1, <1>2, <1>5, <1>9, <1>10, GoesOn

LEMMA Close2Inv ==
  ASSUME IInv, NEW q \in Reqs, Close2(q)
  PROVE  IInv'
BY LeaveInv DEF Close2, Send

-----------------------------------------------------------------------------
(* A claim. *)

\* The row goes to a new attempt and keeps its events and its output.
Taken(q) ==
  /\ row' \in Rows /\ row'.status = "running" /\ row'.gen = q /\ row'.beat = "fresh"
  /\ row'.ended = NULL /\ row'.seq = row.seq /\ row'.out = row.out

LEMMA HeldFields ==
  ASSUME NEW r \in Rows, NEW q \in Reqs, NEW w \in Procs
  PROVE  /\ Held(r, q, w) \in Rows /\ Held(r, q, w).status = "running" /\ Held(r, q, w).gen = q
         /\ Held(r, q, w).beat = "fresh" /\ Held(r, q, w).ended = NULL
         /\ Held(r, q, w).seq = r.seq /\ Held(r, q, w).out = r.out
BY EndsType DEF Held, Rows, RunStatus

\* What a claim ends is spent, and what was spent stays so.
LEMMA TakenSpends ==
  ASSUME IInv, NEW q \in Reqs, ~Done(q), Taken(q), Forward, NEW e \in Ends,
         e = row.ended \/ Spent(e)
  PROVE  Spent(e)'
<1>1. CASE e = NULL
  BY <1>1 DEF Spent, Taken
<1>2. CASE e # NULL
  <2>1. PICK g \in Reqs : EndOf(e, g) /\ Done(g) /\ g # q
    BY <1>2 DEF IInv, RowOK, Spent
  <2>2. Done(g)' /\ row'.gen # g /\ row'.ended # e
    BY <1>2, <2>1 DEF Taken, Forward
  <2> QED BY <1>2, <2>1, <2>2 DEF Spent
<1> QED BY <1>1, <1>2

LEMMA ClaimedInv ==
  ASSUME IInv, NEW q \in Reqs, ~Done(q), Taken(q), UNCHANGED net, Only(q),
         row.status = "absent" \/ row.ended # NULL,
         \/ req'[q].at = "over"
         \/ /\ req'[q].at = "working" /\ req'[q].status = "running" /\ req'[q].ended = NULL
            /\ req'[q].proc \in Procs /\ req'[q].seen.ended = row.ended
  PROVE  IInv'
<1>1. TypeOK /\ TypeOK'
  BY DEF IInv, RowTruth, TypeOK, Only, Requests, Taken
<1>2. Forward
  BY DEF Forward, Only, Done
<1>3. RowTruth' /\ RowOK'
  BY <1>1, EndsType DEF RowTruth, RowOK, Taken, Done
<1>4. ASSUME NEW h \in Reqs, h # q, Holder(h)'
      PROVE  /\ Holder(h) /\ req'[h].seen = req[h].seen /\ req[h].seen.ended \in Ends
             /\ Spent(req[h].seen.ended) /\ req[h].seen.ended # row.ended
  <2>1. Holder(h) /\ req'[h].seen = req[h].seen /\ req[h].seen.ended \in Ends
    BY <1>1, <1>4 DEF Only, Holder, TypeOK
  <2>2. Spent(req[h].seen.ended)
    BY <2>1 DEF IInv, SpentOK
  <2> QED BY <2>1, <2>2 DEF Spent
<1>5. ASSUME NEW h \in Reqs, Holder(h)' PROVE Spent(req[h].seen.ended)'
  <2>1. PICK e : e = req'[h].seen.ended
    OBVIOUS
  <2>2. e \in Ends /\ (e = row.ended \/ Spent(e))
    BY <1>1, <1>4, <1>5, <2>1 DEF TypeOK, Holder, Only, Requests
  <2>3. Spent(e)'
    BY <1>2, <2>2, TakenSpends
  <2> QED BY <2>1, <2>3 DEF Spent
<1>6. SpentOK'
  BY <1>5 DEF SpentOK
<1>7. OneWinner'
  <2> SUFFICES ASSUME NEW a \in Reqs, NEW b \in Reqs, a # b, Holder(a)', Holder(b)'
               PROVE  req'[a].seen.ended # req'[b].seen.ended
    BY DEF OneWinner, Holder
  <2>1. CASE a # q /\ b # q
    BY <1>4, <2>1 DEF IInv, OneWinner, Holder
  <2>2. CASE a = q \/ b = q
    BY <1>4, <2>2 DEF Holder
  <2> QED BY <2>1, <2>2
<1>8. \A h \in Reqs : ReqOK(h)'
  <2>1. ReqOK(q)'
    BY DEF ReqOK, Active
  <2> QED BY <2>1 DEF IInv, Only, ReqOK, Active
<1>9. \A m \in net' : SnapshotOK(m)'
  BY <1>1, <1>2, SnapshotStays DEF IInv, TypeOK
<1>10. NoNews
  <2>1. \A g \in Reqs : Open(g)' => Open(g)
    BY DEF Open, Done, Only
  <2>2. ASSUME NEW g \in Reqs, NEW o \in Gens, Says(g, o)' PROVE Says(g, o)
    <3>1. CASE \E m \in net' : m.from = g /\ m.ended # NULL /\ m.out = o
      BY <3>1 DEF Says
    <3>2. CASE row'.gen = g /\ row'.ended # NULL /\ row'.out = o
      BY <3>2 DEF Taken
    <3>3. CASE \E h \in Reqs : req'[h].at = "read" /\ req'[h].seen.gen = g /\ req'[h].seen.out = o
      BY <3>3 DEF Says, Only
    <3>4. CASE req'[g].at = "closing" /\ req'[g].out = o
      BY <3>4 DEF Says, Only
    <3> QED BY <2>2, <3>1, <3>2, <3>3, <3>4 DEF Says
  <2> QED BY <2>1, <2>2 DEF NoNews
<1>11. \A g \in Reqs : Agree(g)'
  BY <1>10, AgreeStays DEF IInv
<1> QED BY <1>3, <1>6, <1>7, <1>8, <1>9, <1>11 DEF IInv

LEMMA HoldsFields ==
  ASSUME TypeOK, NEW q \in Reqs, req[q].at \in {"create", "read"}, req[q].proc \in Procs,
         NEW r \in [seq : Nat, gen : Gens, out : Gens, ended : Ends], Holds(q, r)
  PROVE  /\ Only(q) /\ req'[q].at = "working" /\ req'[q].status = "running" /\ req'[q].ended = NULL
         /\ req'[q].proc \in Procs /\ req'[q].seen.ended = r.ended
<1>1. req \in [Reqs -> Requests]
  BY DEF TypeOK, Requests
<1>2. PICK n : n = [r EXCEPT !.gen = NULL, !.out = NULL]
  OBVIOUS
<1>3. n \in [seq : Nat, gen : Gens, out : Gens, ended : Ends] /\ n.ended = r.ended
  BY <1>2, EndsType
<1>4. req' = [req EXCEPT ![q] = [req[q] EXCEPT !.at = "working", !.status = "running", !.seq = r.seq,
                                               !.out = r.out, !.ended = NULL, !.seen = n]]
  BY <1>1, <1>2 DEF Holds
<1>5. PICK x : x = [req[q] EXCEPT !.at = "working", !.status = "running", !.seq = r.seq,
                                  !.out = r.out, !.ended = NULL, !.seen = n]
  OBVIOUS
<1>6. req[q] \in Requests /\ r.seq \in Nat /\ r.out \in Gens /\ NULL \in Ends
      /\ "working" \in {"idle", "create", "loaded", "read", "working", "closing", "over"}
      /\ "running" \in RunStatus \union {"absent"}
  BY <1>1, EndsType DEF RunStatus
<1>7. x \in Requests
  BY <1>3, <1>5, <1>6 DEF Requests
<1>8. x.at = "working" /\ x.status = "running" /\ x.ended = NULL
      /\ x.proc = req[q].proc /\ x.seen = n
  BY <1>5, <1>6 DEF Requests
<1> QED BY <1>1, <1>3, <1>4, <1>5, <1>7, <1>8 DEF Only

LEMMA LeaveFields ==
  ASSUME TypeOK, NEW q \in Reqs, Leave(q)
  PROVE  Only(q) /\ req'[q].at = "over"
<1>1. req \in [Reqs -> Requests]
  BY DEF TypeOK, Requests
<1> QED BY <1>1, OverType DEF Leave, Only

LEMMA CreateInv ==
  ASSUME IInv, NEW q \in Reqs, Create(q)
  PROVE  IInv'
<1>1. TypeOK /\ ReqOK(q) /\ req[q].at = "create" /\ row \in Rows /\ UNCHANGED net
  BY DEF IInv, RowTruth, TypeOK, Create
<1>2. req[q].proc \in Procs /\ ~Done(q)
  BY <1>1 DEF ReqOK, Active, Done
<1>3. CASE row.status = "absent" /\ row' = Held(row, q, req[q].proc)
  <2>1. Taken(q)
    BY <1>1, <1>2, <1>3, HeldFields DEF Taken
  <2>2. row.ended = NULL /\ Seen(AbsentRow).ended = NULL
    BY <1>1, <1>3 DEF TypeOK, Seen, AbsentRow
  <2>3. CASE Holds(q, Seen(AbsentRow))
    <3>1. /\ Only(q) /\ req'[q].at = "working" /\ req'[q].status = "running" /\ req'[q].ended = NULL
          /\ req'[q].proc \in Procs /\ req'[q].seen.ended = Seen(AbsentRow).ended
      BY <1>1, <1>2, <2>3, IdleType, HoldsFields
    <3> QED BY <1>1, <1>2, <1>3, <2>1, <2>2, <3>1, ClaimedInv
  <2>4. CASE Leave(q)
    <3>1. Only(q) /\ req'[q].at = "over"
      BY <1>1, <2>4, LeaveFields
    <3> QED BY <1>1, <1>2, <1>3, <2>1, <3>1, ClaimedInv
  <2>5. CASE row' = row /\ Leave(q)
    BY <1>1, <2>5, LeaveInv
  <2> QED BY <1>3, <2>3, <2>4, <2>5 DEF Create
<1>4. CASE row' = row /\ Leave(q)
  BY <1>1, <1>4, LeaveInv
<1> QED BY <1>3, <1>4 DEF Create

\* Whatever came and went, a claim that succeeds read the output the row has.
LEMMA ReadIsFresh ==
  ASSUME IInv, NEW q \in Reqs, req[q].at = "read", Claims(row, req[q].seen)
  PROVE  row.ended # NULL /\ req[q].seen.out = row.out /\ req[q].seen.ended = row.ended
<1>1. TypeOK /\ row \in Rows /\ req \in [Reqs -> Requests] /\ ReqOK(q) /\ row.status \in Resumable
      /\ req[q].seen.gen = row.gen /\ req[q].seen.ended = row.ended
  BY DEF IInv, RowTruth, TypeOK, Requests, Claims
<1>2. row.ended # NULL /\ row.gen \in Gens /\ row.out \in Gens /\ req[q].seen.out \in Gens
  BY <1>1 DEF TypeOK, Resumable, Rows, Requests
<1>3. CASE row.gen = NULL
  BY <1>1, <1>2, <1>3 DEF ReqOK, IInv, RowOK
<1>4. CASE row.gen # NULL
  <2>1. row.gen \in Reqs
    BY <1>2, <1>4, EndsType
  <2>2. Says(row.gen, row.out) /\ Says(row.gen, req[q].seen.out)
    BY <1>1, <1>2, <2>1 DEF Says
  <2> QED BY <1>1, <1>2, <2>1, <2>2 DEF IInv, Agree
<1> QED BY <1>3, <1>4

LEMMA ClaimInv ==
  ASSUME IInv, NEW q \in Reqs, Claim(q)
  PROVE  IInv' /\ (row' = row \/ Taken(q))
<1>1. TypeOK /\ ReqOK(q) /\ req[q].at = "read" /\ row \in Rows /\ UNCHANGED net
      /\ req[q].seen \in [seq : Nat, gen : Gens, out : Gens, ended : Ends]
  BY DEF IInv, RowTruth, TypeOK, Claim
<1>2. req[q].proc \in Procs /\ ~Done(q)
  BY <1>1 DEF ReqOK, Active, Done
<1>3. CASE /\ Claims(row, req[q].seen)
           /\ row' = [Held(row, q, req[q].proc) EXCEPT !.out = req[q].seen.out]
           /\ Holds(q, req[q].seen) \/ Leave(q)
  <2>1. row.ended # NULL /\ req[q].seen.out = row.out /\ req[q].seen.ended = row.ended
    BY <1>1, <1>3, ReadIsFresh
  <2>2. row' = Held(row, q, req[q].proc)
    BY <1>1, <1>2, <1>3, <2>1, HeldFields DEF Rows
  <2>3. Taken(q)
    BY <1>1, <1>2, <2>2, HeldFields DEF Taken
  <2>4. CASE Holds(q, req[q].seen)
    <3>1. /\ Only(q) /\ req'[q].at = "working" /\ req'[q].status = "running" /\ req'[q].ended = NULL
          /\ req'[q].proc \in Procs /\ req'[q].seen.ended = row.ended
      BY <1>1, <1>2, <2>1, <2>4, HoldsFields
    <3> QED BY <1>1, <1>2, <2>1, <2>3, <3>1, ClaimedInv
  <2>5. CASE Leave(q)
    <3>1. Only(q) /\ req'[q].at = "over"
      BY <1>1, <2>5, LeaveFields
    <3> QED BY <1>1, <1>2, <2>1, <2>3, <3>1, ClaimedInv
  <2> QED BY <1>3, <2>3, <2>4, <2>5
<1>4. CASE row' = row /\ Leave(q)
  BY <1>1, <1>4, LeaveInv
<1> QED BY <1>3, <1>4 DEF Claim

-----------------------------------------------------------------------------
(* The row is written by others. *)

\* A step after which no end that is spent can be told again.
SpendsOn == \A e \in Ends : Spent(e) => Spent(e)'

\* The records stay, but that some that were running may end.
LEMMA RowInv ==
  ASSUME IInv, TypeOK', RowOK', RowTruth', SpendsOn, NoNews, Forward, net' \subseteq net,
         \A h \in Reqs : /\ ReqOK(h)'
                         /\ req'[h].at = req[h].at /\ req'[h].seen = req[h].seen
  PROVE  IInv'
<1>1. TypeOK
  BY DEF IInv, RowTruth
<1>2. SpentOK'
  <2> SUFFICES ASSUME NEW h \in Reqs, Holder(h)' PROVE Spent(req[h].seen.ended)'
    BY DEF SpentOK
  <2>1. PICK e : e = req'[h].seen.ended
    OBVIOUS
  <2>2. e \in Ends /\ Spent(e)
    BY <1>1, <2>1 DEF TypeOK, Holder, IInv, SpentOK
  <2>3. Spent(e)'
    BY <2>2 DEF SpendsOn, Spent
  <2> QED BY <2>1, <2>3 DEF Spent
<1>3. OneWinner'
  BY DEF OneWinner, IInv
<1>4. \A m \in net' : SnapshotOK(m)'
  BY <1>1, SnapshotStays DEF IInv, TypeOK
<1>5. \A g \in Reqs : Agree(g)'
  BY AgreeStays DEF IInv
<1> QED BY <1>2, <1>3, <1>4, <1>5 DEF IInv

\* What an accepted snapshot that is news makes of the row.
LEMMA PersistedFields ==
  ASSUME NEW r \in Rows, NEW m \in Snapshots, ~Repeats(r, m)
  PROVE  LET n == Persisted(r, m.worker, m) IN
         /\ n \in Rows /\ n.status = m.status /\ n.seq = m.seq /\ n.out = m.out /\ n.ended = m.ended
         /\ n.gen = r.gen /\ (n.status = "running" <=> n.beat # "none")
<1>1. PICK w : w = IF m.status = "running" THEN m.worker ELSE NULL
  OBVIOUS
<1>2. PICK b : b = IF m.status = "running" THEN "fresh" ELSE "none"
  OBVIOUS
<1>3. w \in Procs \union {NULL} /\ b \in {"none", "fresh", "late"} /\ (m.status = "running" <=> b # "none")
  BY <1>1, <1>2 DEF Snapshots
<1>4. Persisted(r, m.worker, m) =
        [r EXCEPT !.status = m.status, !.seq = m.seq, !.out = m.out, !.ended = m.ended,
                  !.worker = w, !.beat = b]
  BY <1>1, <1>2 DEF Persisted
<1>5. PICK n : n = [r EXCEPT !.status = m.status, !.seq = m.seq, !.out = m.out, !.ended = m.ended,
                             !.worker = w, !.beat = b]
  OBVIOUS
<1>6. m.status \in RunStatus \union {"absent"} /\ m.seq \in Nat /\ m.out \in Gens /\ m.ended \in Ends
  BY DEF Snapshots
<1>7. n \in Rows
  BY <1>3, <1>5, <1>6 DEF Rows
<1>8. /\ n.status = m.status /\ n.seq = m.seq /\ n.out = m.out /\ n.ended = m.ended
      /\ n.gen = r.gen /\ n.beat = b
  BY <1>5 DEF Rows
<1> QED BY <1>3, <1>4, <1>5, <1>7, <1>8

LEMMA ArriveInv ==
  ASSUME IInv, NEW m \in net, Arrive(m)
  PROVE  /\ IInv'
         /\ row' = row \/ (row.status # "complete" /\ row'.seq >= row.seq /\ row'.gen = row.gen)
         /\ row'.status = "running" => row' = row \/ row.status = "running"
<1>1. TypeOK /\ row \in Rows /\ net \subseteq Snapshots /\ m \in Snapshots /\ SnapshotOK(m)
      /\ net' \subseteq net /\ UNCHANGED req
  BY DEF IInv, RowTruth, TypeOK, Arrive
<1>2. /\ Forward
      /\ \A g \in Reqs : /\ Open(g)' => Open(g)
                         /\ ReqOK(g)' /\ req'[g].at = req[g].at /\ req'[g].seen = req[g].seen
  BY <1>1 DEF Forward, Done, Open, IInv, ReqOK, Active
<1>3. CASE row' = row
  <2>1. TypeOK' /\ RowOK' /\ RowTruth' /\ SpendsOn
    BY <1>1, <1>3 DEF TypeOK, IInv, RowOK, RowTruth, SpendsOn, Spent, Done
  <2>2. NoNews
    BY <1>1, <1>2, <1>3 DEF NoNews, Says
  <2> QED BY <1>1, <1>2, <1>3, <2>1, <2>2, RowInv
<1>4. CASE row' # row
  <2>1. CanPersist(row, m.from, m.worker, m) /\ ~Repeats(row, m) /\ row' = Persisted(row, m.worker, m)
    BY <1>4 DEF Arrive, Persisted
  <2>2. /\ row' \in Rows /\ row'.status = m.status /\ row'.seq = m.seq /\ row'.out = m.out
        /\ row'.ended = m.ended /\ row'.gen = row.gen /\ (row'.status = "running" <=> row'.beat # "none")
    BY <1>1, <2>1, PersistedFields
  <2>3. /\ row.gen = m.from /\ m.from \in Reqs /\ row.status # "complete" /\ m.seq >= row.seq
        /\ m.status = "running" => row.status = "running"
    BY <1>1, <2>1 DEF CanPersist, Snapshots, Resumable
  <2>4. m.status \in RunStatus /\ (m.status = "running" <=> m.ended = NULL)
        /\ (m.status # "running" => m.ended = ByRequest(m.from))
    BY <1>1, <2>3, EndsType DEF SnapshotOK, Snapshots, ByRequest
  <2>5. TypeOK'
    BY <1>1, <2>2, <2>4 DEF TypeOK, RunStatus
  <2>6. RowTruth'
    BY <1>1, <2>2, <2>3, <2>5 DEF RowTruth, SnapshotOK
  <2>7. RowOK'
    <3>1. Done(m.from)' /\ EndOf(ByRequest(m.from), m.from) /\ m.from # NULL
      BY <1>1, <2>3, EndsType DEF SnapshotOK, Done, EndOf, ByRequest
    <3> QED BY <2>2, <2>3, <2>4, <3>1 DEF RowOK
  <2>8. SpendsOn
    <3> SUFFICES ASSUME NEW e \in Ends, Spent(e) PROVE Spent(e)'
      BY DEF SpendsOn
    <3>1. CASE e = NULL
      BY <2>2, <2>4, <3>1 DEF Spent, RunStatus
    <3>2. CASE e # NULL
      <4>1. PICK g \in Reqs : EndOf(e, g) /\ Done(g) /\ row.gen # g
        BY <3>2 DEF Spent
      <4>2. e # m.ended
        <5>1. e = ByRequest(m.from) => EndOf(e, m.from)
          BY DEF EndOf, ByRequest
        <5> QED BY <2>3, <2>4, <3>2, <4>1, <5>1, EndsDiffer
      <4>3. Done(g)' /\ row'.gen # g /\ row'.ended # e
        BY <1>1, <2>2, <4>1, <4>2 DEF Done
      <4> QED BY <3>2, <4>1, <4>3 DEF Spent
    <3> QED BY <3>1, <3>2
  <2>9. NoNews
    BY <1>1, <1>2, <2>2, <2>3 DEF NoNews, Says
  <2> QED BY <1>1, <1>2, <2>2, <2>3, <2>5, <2>6, <2>7, <2>8, <2>9, RowInv
<1> QED BY <1>3, <1>4

LEMMA LoseInv ==
  ASSUME IInv, NEW m \in net, Lose(m)
  PROVE  IInv'
<1>1. TypeOK' /\ net' \subseteq net /\ UNCHANGED <<row, req>>
  BY DEF IInv, RowTruth, TypeOK, Lose
<1>2. RowOK' /\ RowTruth' /\ SpendsOn /\ Forward
  BY <1>1 DEF IInv, RowOK, RowTruth, SpendsOn, Spent, Forward, Done
<1>3. NoNews
  BY <1>1 DEF NoNews, Says, Open, Done
<1>4. \A h \in Reqs : ReqOK(h)' /\ req'[h].at = req[h].at /\ req'[h].seen = req[h].seen
  BY <1>1 DEF IInv, ReqOK, Active
<1> QED BY <1>1, <1>2, <1>3, <1>4, RowInv

\* Only the heartbeat of a running row changes.
LEMMA BeatInv ==
  ASSUME IInv, row.status = "running", NEW b \in {"fresh", "late"},
         row' = [row EXCEPT !.beat = b], UNCHANGED <<req, net>>
  PROVE  IInv' /\ row'.seq = row.seq /\ row'.status = row.status
<1>1. TypeOK /\ row \in Rows
  BY DEF IInv, RowTruth, TypeOK
<1>2. /\ row' \in Rows /\ row'.status = row.status /\ row'.gen = row.gen /\ row'.seq = row.seq
      /\ row'.out = row.out /\ row'.ended = row.ended /\ row'.beat = b
  BY <1>1 DEF Rows
<1>3. TypeOK' /\ RowOK' /\ RowTruth' /\ SpendsOn /\ Forward
  BY <1>1, <1>2 DEF TypeOK, IInv, RowOK, RowTruth, SpendsOn, Spent, Forward, Done
<1>4. NoNews
  BY <1>2 DEF NoNews, Says, Open, Done
<1>5. \A h \in Reqs : ReqOK(h)' /\ req'[h].at = req[h].at /\ req'[h].seen = req[h].seen
  BY DEF IInv, ReqOK, Active
<1> QED BY <1>2, <1>3, <1>4, <1>5, RowInv

LEMMA LateInv ==
  ASSUME IInv, Late
  PROVE  IInv' /\ row'.seq = row.seq /\ row.status = "running" /\ row'.status = row.status
<1>1. row.status = "running"
  BY DEF Late, IInv, RowTruth, TypeOK
<1> QED BY <1>1, BeatInv DEF Late

\* The database ends an attempt, and processes that know end their record.
LEMMA StopInv ==
  ASSUME IInv, row.status = "running", NEW status \in Resumable, row' = Stopped(row, status, BySql(row)),
         UNCHANGED net, req' \in [Reqs -> Requests],
         \A h \in Reqs :
           \/ req'[h] = req[h]
           \/ /\ req[h].at = "working" /\ req'[h].at = "working" /\ req'[h].proc = req[h].proc
              /\ req'[h].seen = req[h].seen
              /\ req[h].status = "running" /\ req'[h].status = "cancelled"
  PROVE  IInv' /\ row'.seq = row.seq /\ row'.status \in Resumable
<1>1. TypeOK /\ row \in Rows /\ row.gen \in Reqs /\ Done(row.gen)
  BY EndsType DEF IInv, RowTruth, TypeOK, Rows, RowOK
<1>2. BySql(row) \in Ends /\ BySql(row) # NULL /\ EndOf(BySql(row), row.gen)
  BY <1>1, EndsType DEF BySql, EndOf
<1>3. /\ row' \in Rows /\ row'.status = status /\ row'.gen = NULL /\ row'.seq = row.seq
      /\ row'.out = NULL /\ row'.ended = BySql(row) /\ row'.beat = "none"
  BY <1>1, <1>2, EndsType DEF Stopped, Rows, Resumable, RunStatus
<1>4. TypeOK'
  BY <1>1, <1>2, <1>3 DEF TypeOK, Requests, Resumable
<1>5. Forward /\ \A g \in Reqs : (Open(g)' => Open(g)) /\ (Done(g) => Done(g)')
  BY DEF Forward, Done, Open
<1>6. RowOK' /\ RowTruth'
  BY <1>1, <1>2, <1>3, <1>4, <1>5 DEF RowOK, RowTruth, Resumable
<1>7. SpendsOn
  <2> SUFFICES ASSUME NEW e \in Ends, Spent(e) PROVE Spent(e)'
    BY DEF SpendsOn
  <2>1. CASE e = NULL
    BY <1>3, <2>1 DEF Spent, Resumable
  <2>2. CASE e # NULL
    <3>1. PICK g \in Reqs : EndOf(e, g) /\ Done(g) /\ row.gen # g
      BY <2>2 DEF Spent
    <3>2. e # BySql(row)
      BY <1>1, <1>2, <3>1, EndsDiffer
    <3>3. Done(g)' /\ row'.gen # g /\ row'.ended # e
      BY <1>3, <1>5, <3>1, <3>2, EndsType
    <3> QED BY <2>2, <3>1, <3>3 DEF Spent
  <2> QED BY <2>1, <2>2
<1>8. NoNews
  <2>1. ASSUME NEW g \in Reqs, NEW o \in Gens, Says(g, o)' PROVE Says(g, o)
    BY <1>3, <2>1, EndsType DEF Says
  <2> QED BY <1>5, <2>1 DEF NoNews
<1>9. \A h \in Reqs : ReqOK(h)' /\ req'[h].at = req[h].at /\ req'[h].seen = req[h].seen
  BY DEF IInv, ReqOK, Active
<1> QED BY <1>3, <1>4, <1>5, <1>6, <1>7, <1>8, <1>9, RowInv

LEMMA CancelInv ==
  ASSUME IInv, NEW p \in Procs, Cancel(p)
  PROVE  IInv' /\ row'.seq = row.seq /\ row.status = "running" /\ row'.status \in Resumable
<1>1. TypeOK /\ req \in [Reqs -> Requests] /\ row \in Rows /\ row.gen \in Reqs
  BY EndsType DEF IInv, RowTruth, TypeOK, Requests, Rows, RowOK, Cancel
<1>2. BySql(row) \in Ends
  BY <1>1, EndsType DEF BySql
<1>3. ASSUME NEW h \in Reqs, Working(h), req[h].status = "running",
             NEW r, r = [req[h] EXCEPT !.status = "cancelled", !.out = NULL, !.ended = BySql(row)]
      PROVE  r \in Requests /\ r.at = "working" /\ r.proc = req[h].proc /\ r.seen = req[h].seen
             /\ r.status = "cancelled"
  <2>1. req[h] \in Requests /\ NULL \in Gens /\ "cancelled" \in RunStatus \union {"absent"}
    BY <1>1, EndsType DEF RunStatus
  <2>2. r \in Requests
    BY <1>2, <1>3, <2>1 DEF Requests
  <2>3. r.at = req[h].at /\ r.proc = req[h].proc /\ r.seen = req[h].seen /\ r.status = "cancelled"
    BY <1>3, <2>1 DEF Requests
  <2> QED BY <1>3, <2>2, <2>3 DEF Working
<1>4. ASSUME NEW h \in Reqs
      PROVE  /\ req'[h] \in Requests
             /\ \/ req'[h] = req[h]
                \/ /\ req[h].at = "working" /\ req'[h].at = "working" /\ req'[h].proc = req[h].proc
                   /\ req'[h].seen = req[h].seen
                   /\ req[h].status = "running" /\ req'[h].status = "cancelled"
  <2>1. CASE Working(h) /\ req[h].proc = p /\ req[h].status = "running"
    <3>1. req'[h] = [req[h] EXCEPT !.status = "cancelled", !.out = NULL, !.ended = BySql(row)]
      BY <2>1 DEF Cancel
    <3> QED BY <1>3, <2>1, <3>1 DEF Working
  <2>2. CASE ~(Working(h) /\ req[h].proc = p /\ req[h].status = "running")
    <3>1. req'[h] = req[h]
      BY <2>2 DEF Cancel
    <3> QED BY <1>1, <3>1
  <2> QED BY <2>1, <2>2
<1>5. req' \in [Reqs -> Requests]
  BY <1>4 DEF Cancel
<1>6. row.status = "running" /\ row' = Stopped(row, "cancelled", BySql(row)) /\ UNCHANGED net
      /\ "cancelled" \in Resumable
  BY DEF Cancel, Resumable
<1> QED BY <1>4, <1>5, <1>6, StopInv

LEMMA EndedInv ==
  ASSUME IInv, Reconcile \/ \E p \in Procs : Shutdown(p)
  PROVE  IInv' /\ row'.seq = row.seq /\ row.status = "running" /\ row'.status \in Resumable
<1>1. row.status = "running" /\ row' = Stopped(row, "error", BySql(row)) /\ UNCHANGED <<req, net>>
      /\ "error" \in Resumable
  BY DEF Reconcile, Shutdown, WorkerLost, Resumable
<1>2. req' \in [Reqs -> Requests]
  BY <1>1 DEF IInv, RowTruth, TypeOK, Requests
<1> QED BY <1>1, <1>2, StopInv

-----------------------------------------------------------------------------
(* The invariant and the theorems. *)

LEMMA InitInv == Init => IInv
<1> SUFFICES ASSUME Init PROVE IInv
  OBVIOUS
<1>1. TypeOK
  BY IdleType DEF Init, TypeOK, AbsentRow, NoRequest, Requests
<1>2. RowTruth /\ OneWinner /\ RowOK /\ SpentOK
  BY <1>1 DEF Init, RowTruth, AbsentRow, OneWinner, NoRequest, RowOK, SpentOK, Holder
<1>3. \A q \in Reqs : ReqOK(q) /\ Agree(q)
  BY EndsType DEF Init, ReqOK, Active, NoRequest, Agree, Says, AbsentRow
<1> QED BY <1>2, <1>3 DEF IInv, Init

\* What a step does to the row, where it changes it.
RowStep ==
  /\ row'.seq >= row.seq
  /\ row.status = "complete" => row' = row
  /\ row.status \in Resumable /\ row'.status = "running" => row'.out = row.out

LEMMA StepInv == IInv /\ [Next]_vars => IInv' /\ RowStep
<1> SUFFICES ASSUME IInv, [Next]_vars PROVE IInv' /\ RowStep
  OBVIOUS
<1>1. row \in Rows /\ row.seq \in Nat
  BY DEF IInv, RowTruth, TypeOK, Rows
<1>2. ASSUME row' = row PROVE RowStep
  BY <1>1, <1>2 DEF RowStep, Resumable
<1>3. ASSUME row'.seq = row.seq, row.status = "running" PROVE RowStep
  BY <1>1, <1>3 DEF RowStep, Resumable
<1>4. ASSUME NEW q \in Reqs, Create(q) PROVE IInv' /\ RowStep
  <2>1. row' = row \/ (row.status = "absent" /\ row' = Held(row, q, req[q].proc))
    BY <1>4 DEF Create
  <2>2. row'.seq = row.seq
    BY <1>1, <2>1 DEF Held, Rows
  <2>3. RowStep
    BY <1>1, <1>2, <2>1, <2>2 DEF RowStep, Resumable
  <2> QED BY <1>4, <2>3, CreateInv
<1>5. ASSUME NEW q \in Reqs, Claim(q) PROVE IInv' /\ RowStep
  <2>1. IInv' /\ (row' = row \/ Taken(q))
    BY <1>5, ClaimInv
  <2>2. row' = row \/ row.status # "complete"
    BY <1>5 DEF Claim, Claims, Resumable
  <2> QED BY <1>1, <1>2, <2>1, <2>2 DEF RowStep, Taken
<1>6. ASSUME NEW q \in Reqs,
             Crash(q) \/ Read(q) \/ Append(q) \/ Complete(q) \/ Fail(q) \/ Close2(q) \/ Timer(q) \/ Correct(q)
      PROVE  IInv' /\ RowStep
  <2>1. row' = row
    BY <1>6 DEF Crash, Read, Append, Complete, Fail, Close, Close2, Timer, Correct
  <2>2. Crash(q) => IInv'
    BY LeaveInv DEF Crash
  <2> QED BY <1>2, <1>6, <2>1, <2>2, ReadInv, AppendInv, CompleteInv, FailInv, Close2Inv, TimerInv, CorrectInv
<1>7. ASSUME NEW q \in Reqs, NEW p \in Procs, Ask(q, p) PROVE IInv' /\ RowStep
  BY <1>2, <1>7, AskInv DEF Ask
<1>8. ASSUME NEW q \in Reqs, Heartbeat(q) PROVE IInv' /\ RowStep
  BY <1>3, <1>8, BeatInv DEF Heartbeat, CanBeat
<1>9. ASSUME NEW m \in net, Arrive(m) PROVE IInv' /\ RowStep
  <2>1. /\ IInv'
        /\ row' = row \/ (row.status # "complete" /\ row'.seq >= row.seq /\ row'.gen = row.gen)
        /\ row'.status = "running" => row' = row \/ row.status = "running"
    BY <1>9, ArriveInv
  <2>2. CASE row' = row
    BY <1>2, <2>1, <2>2
  <2>3. CASE row' # row
    BY <2>1, <2>3 DEF RowStep, Resumable
  <2> QED BY <2>2, <2>3
<1>10. ASSUME NEW m \in net, Lose(m) PROVE IInv' /\ RowStep
  BY <1>2, <1>10, LoseInv DEF Lose
<1>11. ASSUME (\E p \in Procs : Cancel(p) \/ Shutdown(p)) \/ Lapse \/ Stall \/ Reconcile
       PROVE  IInv' /\ RowStep
  BY <1>3, <1>11, CancelInv, EndedInv, LateInv DEF Lapse, Stall
<1>12. CASE UNCHANGED vars
  <2>1. RowStep
    BY <1>2, <1>12 DEF vars
  <2>2. TypeOK' /\ RowOK' /\ RowTruth' /\ SpendsOn /\ Forward
    BY <1>12 DEF vars, TypeOK, IInv, RowOK, RowTruth, SpendsOn, Spent, Forward, Done
  <2>3. NoNews
    BY <1>12 DEF vars, NoNews, Says, Open, Done
  <2>4. \A h \in Reqs : ReqOK(h)' /\ req'[h].at = req[h].at /\ req'[h].seen = req[h].seen
    BY <1>12 DEF vars, IInv, ReqOK, Active
  <2> QED BY <1>12, <2>1, <2>2, <2>3, <2>4, RowInv DEF vars
<1> QED BY <1>4, <1>5, <1>6, <1>7, <1>8, <1>9, <1>10, <1>11, <1>12 DEF Next, Work, Admit

LEMMA AlwaysInv == Spec => []IInv
BY InitInv, StepInv, PTL DEF Spec

\* What the row says of an attempt is what its process decided, however many
\* attempts there were and whatever arrives late (runStore.ts:613).
THEOREM RowTellsTruth == Spec => []RowTruth
<1>1. IInv => RowTruth
  BY DEF IInv
<1> QED BY <1>1, AlwaysInv, PTL

\* No two requests resume from the same end of the run, however many read it
\* (runStore.ts:543).
THEOREM EachEndHasOneWinner == Spec => []OneWinner
<1>1. IInv => OneWinner
  BY DEF IInv
<1> QED BY <1>1, AlwaysInv, PTL

\* A resume gives the run the artifact that its row has, whatever happened
\* since it read it (runStore.ts:506, 536-541).
THEOREM ResumesKeepArtifacts == Spec => ResumeKeepsArtifact
<1>1. IInv /\ [Next]_vars
        => [row.status \in Resumable /\ row'.status = "running" => row'.out = row.out]_vars
  BY StepInv DEF RowStep
<1> QED BY <1>1, AlwaysInv, PTL DEF Spec, ResumeKeepsArtifact

\* A completed run stays as it is and no run loses events (runStore.ts:625,
\* 20261015000300_swarm_run_attempt_fencing.sql:31).
THEOREM RowsNeverGoBack == Spec => RowNeverGoesBack
<1>1. IInv /\ [Next]_vars => [row'.seq >= row.seq /\ (row.status = "complete" => row' = row)]_vars
  BY StepInv DEF RowStep
<1> QED BY <1>1, AlwaysInv, PTL DEF Spec, RowNeverGoesBack
=============================================================================
