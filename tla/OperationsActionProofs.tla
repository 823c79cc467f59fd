------------------------ MODULE OperationsActionProofs ------------------------
(***************************************************************************)
(* For any actions, definitions, people and processes: what the row of an  *)
(* action says is what was done, and nothing is changed without approval.  *)
(*                                                                         *)
(* A report may come from any request that ever claimed the action.  What  *)
(* keeps the record true is that only a call of the last attempt, under a  *)
(* claim that has not ended, passes Holds, and that the request of an      *)
(* internal action never reports a success of its own: the change and the  *)
(* report are one transaction.                                             *)
(***************************************************************************)
EXTENDS OperationsAction, TLAPS

Places == {"claim", "internal", "external", "wait", "verified", "failed", "blocked"}
Statuses == {"absent", "confirmation_required", "approval_required", "approved",
             "queued", "running", "verified", "failed", "blocked"}
Execution ==
  [at : Places, act : Actions, who : People, status : Statuses, attempt : Nat]

Internal(a) == Definition[a].adapter = "internal"

\* Where the request of an internal or another action may be.
Suits(e) ==
  /\ e.at \in {"internal", "wait"} => Internal(e.act)
  /\ e.at \in {"external", "verified"} => ~Internal(e.act)

ProcsOK ==
  /\ attempts \in [Actions -> Nat]
  /\ exec \in [Procs -> {Idle} \union Execution] /\ \A p \in Procs : Suits(exec[p])
  /\ \A c \in sent : Internal(c.act)

Changed(a) == {c.call.attempt : c \in {d \in changes : d.call.act = a}}
Recorded(a) == Changed(a) = IF status[a] = "verified" /\ Internal(a) THEN {evidence[a]} ELSE {}
LastOutcome(a) == evidence[a] \in {0, attempts[a]} \/ status[a] = "running"

IInv == TypeOK /\ ProcsOK /\ \A a \in Actions : Recorded(a) /\ LastOutcome(a)

-----------------------------------------------------------------------------
(* Steps. *)

\* An action whose columns a step leaves alone is recorded as before.
LEMMA OthersRecorded ==
  ASSUME NEW a \in Actions, Recorded(a), LastOutcome(a), status'[a] = status[a],
         attempts'[a] = attempts[a], evidence'[a] = evidence[a], Changed(a)' = Changed(a)
  PROVE  Recorded(a)' /\ LastOutcome(a)'
BY DEF Recorded, LastOutcome

\* A step that reports nothing and starts no attempt.
LEMMA QuietInv ==
  ASSUME IInv, TypeOK', ProcsOK', UNCHANGED <<attempts, evidence, changes>>,
         \A a \in Actions : status'[a] # status[a] =>
           {status[a], status'[a]} \subseteq Statuses \ {"running", "verified"}
  PROVE  IInv'
<1> SUFFICES ASSUME NEW a \in Actions PROVE Recorded(a)' /\ LastOutcome(a)'
  BY DEF IInv
<1>1. Changed(a)' = Changed(a) /\ Recorded(a) /\ LastOutcome(a)
  BY DEF IInv, Changed
<1> QED BY <1>1 DEF Recorded, LastOutcome

\* The rows and the requests stay, or the requests go on.
LEMMA RowsStay ==
  ASSUME IInv, TypeOK', ProcsOK', UNCHANGED <<status, attempts, evidence, changes>>
  PROVE  IInv'
BY QuietInv

\* An action moves on, and its approval is asked for or given.
LEMMA MoveTypes ==
  ASSUME IInv, NEW a \in Actions, NEW s \in Statuses, s # "running", status[a] # "running",
         status' = [status EXCEPT ![a] = s], NEW n \in 0..MaxVersion,
         planned' = [planned EXCEPT ![a] = n], NEW d, approval' = [approval EXCEPT ![a] = d],
         d \in [decision : {"none", "pending", "approved", "rejected"},
                by : People, expired : BOOLEAN],
         UNCHANGED <<attempts, claim, evidence, version, members, changes, sent>>
  PROVE  TypeOK'
<1>1. status' \in [Actions -> Statuses]
  BY DEF IInv, TypeOK, Statuses
<1>2. ASSUME NEW b \in Actions
      PROVE  attempts'[b] \in 0..Definition[b].attempts
             /\ (status'[b] = "running" <=> claim'[b].ends # "none")
  BY DEF IInv, TypeOK
<1>3. planned' \in [Actions -> 0..MaxVersion]
  BY DEF IInv, TypeOK
<1>4. approval' \in [Actions -> [decision : {"none", "pending", "approved", "rejected"},
                                by : People, expired : BOOLEAN]]
  BY DEF IInv, TypeOK
<1> QED BY <1>1, <1>2, <1>3, <1>4 DEF IInv, TypeOK, Statuses

LEMMA PendingType ==
  Pending \in [decision : {"none", "pending", "approved", "rejected"},
               by : People, expired : BOOLEAN]
<1>1. NoApproval \in [decision : {"none", "pending", "approved", "rejected"},
                     by : People, expired : BOOLEAN]
  BY OperationsAssumption DEF NoApproval
<1> QED BY <1>1 DEF Pending

LEMMA CreateInv == ASSUME IInv, NEW a \in Actions, Create(a) PROVE IInv'
<1>1. PICK s \in {"confirmation_required", "approval_required", "queued"} :
        status' = [status EXCEPT ![a] = s]
  BY DEF Create, Onward
<1>2. PICK d \in {Pending, approval[a]} : approval' = [approval EXCEPT ![a] = d]
  BY DEF Create, Ask, IInv, TypeOK
<1>3. d \in [decision : {"none", "pending", "approved", "rejected"},
             by : People, expired : BOOLEAN]
  BY <1>2, PendingType DEF IInv, TypeOK
<1>4. version[Target(a)] \in 0..MaxVersion
  BY DEF IInv, TypeOK, Targets
<1>5. TypeOK'
  BY <1>1, <1>2, <1>3, <1>4, MoveTypes DEF Create, Statuses
<1>6. ProcsOK'
  BY DEF Create, IInv, ProcsOK
<1> QED BY <1>1, <1>5, <1>6, QuietInv DEF Create, IInv, TypeOK, Statuses

LEMMA ConfirmInv == ASSUME IInv, NEW a \in Actions, Confirm(a) PROVE IInv'
<1>1. PICK s \in {"approval_required", "queued"} : status' = [status EXCEPT ![a] = s]
  BY DEF Confirm, Onward
<1>2. PICK d \in {Pending, approval[a]} : approval' = [approval EXCEPT ![a] = d]
  BY DEF Confirm, Ask, IInv, TypeOK
<1>3. d \in [decision : {"none", "pending", "approved", "rejected"},
             by : People, expired : BOOLEAN]
  BY <1>2, PendingType DEF IInv, TypeOK
<1>4. planned[a] \in 0..MaxVersion /\ planned' = [planned EXCEPT ![a] = planned[a]]
  BY DEF Confirm, IInv, TypeOK
<1>5. TypeOK'
  BY <1>1, <1>2, <1>3, <1>4, MoveTypes DEF Confirm, Statuses
<1>6. ProcsOK'
  BY DEF Confirm, IInv, ProcsOK
<1> QED BY <1>1, <1>5, <1>6, QuietInv DEF Confirm, IInv, TypeOK, Statuses

LEMMA DecideInv == ASSUME IInv, NEW a \in Actions, NEW u \in People, Decide(a, u) PROVE IInv'
<1>1. PICK s \in {"approved", "blocked"} : status' = [status EXCEPT ![a] = s]
  BY DEF Decide
<1>2. PICK d : /\ approval' = [approval EXCEPT ![a] = d]
               /\ d \in [decision : {"none", "pending", "approved", "rejected"},
                         by : People, expired : BOOLEAN]
  <2>1. approval[a] \in [decision : {"none", "pending", "approved", "rejected"},
                         by : People, expired : BOOLEAN]
    BY DEF IInv, TypeOK
  <2>2. PICK verdict \in {"approved", "rejected"} :
          approval' = [approval EXCEPT ![a] = [approval[a] EXCEPT !.decision = verdict, !.by = u]]
    BY DEF Decide
  <2>3. [approval[a] EXCEPT !.decision = verdict, !.by = u]
          \in [decision : {"none", "pending", "approved", "rejected"}, by : People,
              expired : BOOLEAN]
    BY <2>1
  <2> QED BY <2>2, <2>3
<1>4. planned[a] \in 0..MaxVersion /\ planned' = [planned EXCEPT ![a] = planned[a]]
  BY DEF Decide, IInv, TypeOK
<1>5. TypeOK'
  BY <1>1, <1>2, <1>4, MoveTypes DEF Decide, Statuses
<1>6. ProcsOK'
  BY DEF Decide, IInv, ProcsOK
<1> QED BY <1>1, <1>5, <1>6, QuietInv DEF Decide, IInv, TypeOK, Statuses

LEMMA ExecuteInv ==
  ASSUME IInv, NEW p \in Procs, NEW u \in People, NEW a \in Actions, Execute(p, u, a)
  PROVE  IInv'
<1> DEFINE e == [at |-> "claim", act |-> a, who |-> u, status |-> status[a],
                 attempt |-> attempts[a]]
<1>1. e \in Execution /\ Suits(e) /\ exec' = [exec EXCEPT ![p] = e]
  BY DEF Execute, IInv, TypeOK, ProcsOK, Execution, Places, Statuses, Suits
<1> HIDE DEF e
<1>2. TypeOK'
  BY DEF Execute, rows, IInv, TypeOK
<1>3. ProcsOK'
  BY <1>1 DEF Execute, rows, IInv, ProcsOK
<1> QED BY <1>2, <1>3, RowsStay DEF Execute, rows

\* A new attempt: what was done under an earlier one is not reported any more.
LEMMA ClaimInv == ASSUME IInv, NEW p \in Procs, Claim(p) PROVE IInv'
<1> DEFINE a == exec[p].act
<1>1. exec[p] \in Execution /\ a \in Actions /\ exec[p].who \in People
  BY DEF Claim, IInv, ProcsOK, Execution, Idle
<1>2. CASE /\ Claimable(a)
           /\ status' = [status EXCEPT ![a] = "running"]
           /\ attempts' = [attempts EXCEPT ![a] = @ + 1]
           /\ claim' = [claim EXCEPT ![a] = [by |-> exec[p].who, ends |-> "later"]]
           /\ exec' = [exec EXCEPT ![p] = [@ EXCEPT !.at = Definition[a].adapter,
                                                    !.attempt = attempts[a] + 1]]
  <2>1. attempts[a] \in Nat /\ attempts[a] < Definition[a].attempts
        /\ Definition[a].attempts \in Nat
    BY <1>1, <1>2, OperationsAssumption DEF Claimable, IInv, ProcsOK
  <2>2. TypeOK'
    BY <1>1, <1>2, <2>1 DEF Claim, IInv, TypeOK, ProcsOK
  <2>3. ProcsOK'
    <3>0. PICK e : e = [exec[p] EXCEPT !.at = Definition[a].adapter, !.attempt = attempts[a] + 1]
      OBVIOUS
    <3>1. e \in Execution /\ e.at = Definition[a].adapter /\ e.act = a
      <4>1. Definition[a].adapter \in Places /\ attempts[a] + 1 \in Nat
        BY <1>1, <2>1, OperationsAssumption DEF Places
      <4> QED BY <1>1, <3>0, <4>1 DEF Execution
    <3>2. Suits(e)
      BY <3>1, <1>1, OperationsAssumption DEF Suits, Internal
    <3>3. exec' = [exec EXCEPT ![p] = e]
      BY <1>2, <3>0
    <3>4. attempts' \in [Actions -> Nat]
      BY <1>1, <1>2 DEF IInv, ProcsOK
    <3>5. exec' \in [Procs -> {Idle} \union Execution] /\ \A q \in Procs : Suits(exec'[q])
      BY <3>1, <3>2, <3>3 DEF IInv, ProcsOK
    <3> QED BY <3>4, <3>5 DEF Claim, IInv, ProcsOK
  <2>4. ASSUME NEW b \in Actions PROVE Recorded(b)' /\ LastOutcome(b)'
    <3>1. Recorded(b) /\ LastOutcome(b) /\ Changed(b)' = Changed(b) /\ evidence' = evidence
      BY DEF Claim, IInv, Changed
    <3>2. CASE b = a
      <4>1. status[b] # "verified" /\ status'[b] = "running"
        BY <1>1, <1>2, <3>2 DEF Claimable, IInv, TypeOK
      <4> QED BY <3>1, <4>1 DEF Recorded, LastOutcome
    <3>3. CASE b # a
      BY <1>2, <3>1, <3>3, OthersRecorded DEF IInv, TypeOK, ProcsOK
    <3> QED BY <3>2, <3>3
  <2> QED BY <2>2, <2>3, <2>4 DEF IInv
<1>3. CASE UNCHANGED <<status, attempts, claim>> /\ Return(p)
  <2>1. TypeOK'
    BY <1>3 DEF Claim, IInv, TypeOK
  <2>2. ProcsOK'
    BY <1>3 DEF Claim, IInv, ProcsOK, Return, Suits, Idle
  <2> QED BY <1>3, <2>1, <2>2, RowsStay DEF Claim
<1> QED BY <1>2, <1>3 DEF Claim

\* What a report does, when it is of the attempt that holds the claim.
LEMMA CompletedInv ==
  ASSUME IInv, NEW c, c.act \in Actions, c.attempt \in Nat, Holds(c),
         NEW result \in {"verified", "failed", "blocked"}, Completed(c, result),
         UNCHANGED <<attempts, approval, planned, members>>,
         version' \in [Targets -> 0..MaxVersion], sent' \subseteq Calls, ProcsOK',
         changes' \subseteq [call : Calls, version : 0..MaxVersion],
         \A b \in Actions \ {c.act} : Changed(b)' = Changed(b),
         Changed(c.act)' = IF result = "verified" /\ Internal(c.act) THEN {c.attempt} ELSE {}
  PROVE  IInv'
<1>1. /\ status' = [status EXCEPT ![c.act] = result]
      /\ evidence' = [evidence EXCEPT ![c.act] = c.attempt]
      /\ claim' = [claim EXCEPT ![c.act] = Unclaimed] /\ attempts[c.act] = c.attempt
  BY DEF Completed, Holds
<1>2. TypeOK'
  BY <1>1, OperationsAssumption DEF IInv, TypeOK, Unclaimed
<1>3. ASSUME NEW b \in Actions PROVE Recorded(b)' /\ LastOutcome(b)'
  <2>1. CASE b = c.act
    <3>1. status'[b] = result /\ evidence'[b] = c.attempt /\ attempts'[b] = c.attempt
      BY <1>1, <2>1 DEF IInv, TypeOK
    <3> QED BY <2>1, <3>1 DEF Recorded, LastOutcome
  <2>2. CASE b # c.act
    BY <1>1, <2>2, OthersRecorded DEF IInv, TypeOK
  <2> QED BY <2>1, <2>2
<1> QED BY <1>2, <1>3 DEF IInv

\* The request of an internal action has no success to report.
LEMMA CompleteInv == ASSUME IInv, NEW p \in Procs, Complete(p) PROVE IInv'
<1>0. PICK e : e = exec[p]
  OBVIOUS
<1>1. /\ e \in Execution /\ e.act \in Actions /\ e.attempt \in Nat /\ Suits(e)
      /\ e.at \in {"verified", "failed", "blocked"}
  BY <1>0 DEF Complete, IInv, ProcsOK, Execution, Idle
<1>2. ProcsOK'
  BY DEF Complete, IInv, ProcsOK, Return, Suits, Idle
<1>3. \A b \in Actions : Changed(b)' = Changed(b)
  BY DEF Complete, Changed
<1>4. CASE Holds(e) /\ Completed(e, e.at)
  <2>1. Changed(e.act) = {}
    BY <1>1, <1>4 DEF IInv, Recorded, Holds
  <2>2. ~(e.at = "verified" /\ Internal(e.act))
    BY <1>1 DEF Suits
  <2>3. Changed(e.act)' = IF e.at = "verified" /\ Internal(e.act) THEN {e.attempt} ELSE {}
    BY <1>1, <1>3, <2>1, <2>2
  <2>4. /\ UNCHANGED <<attempts, approval, planned, members>>
        /\ version' \in [Targets -> 0..MaxVersion] /\ sent' \subseteq Calls
        /\ changes' \subseteq [call : Calls, version : 0..MaxVersion]
    BY DEF Complete, IInv, TypeOK
  <2> QED BY <1>1, <1>2, <1>3, <1>4, <2>3, <2>4, CompletedInv
<1>5. CASE UNCHANGED <<status, evidence, claim>>
  <2>1. TypeOK'
    BY <1>5 DEF Complete, IInv, TypeOK
  <2> QED BY <1>2, <1>5, <2>1, RowsStay DEF Complete
<1> QED BY <1>0, <1>4, <1>5 DEF Complete

\* Who waits is told of what was done or of a refusal, never of a success.
LEMMA AnswerProcs ==
  ASSUME IInv, NEW c, NEW at \in {"done", "failed", "blocked"}, Answer(c, at),
         UNCHANGED attempts, sent' \subseteq sent
  PROVE  ProcsOK'
<1>1. CASE exec' = exec
  BY <1>1 DEF IInv, ProcsOK
<1>2. ASSUME NEW p \in Procs, Waits(p, c), Return(p) PROVE ProcsOK'
  BY <1>2 DEF IInv, ProcsOK, Return, Suits, Idle
<1>3. ASSUME NEW p \in Procs, Waits(p, c), Goes(p, at), at # "done" PROVE ProcsOK'
  <2> DEFINE e == [exec[p] EXCEPT !.at = at]
  <2>1. exec[p] \in Execution
    BY <1>3 DEF Waits, IInv, ProcsOK, Idle
  <2>2. e \in Execution /\ Suits(e)
    BY <1>3, <2>1 DEF Execution, Places, Suits
  <2>3. exec' = [exec EXCEPT ![p] = e]
    BY <1>3 DEF Goes
  <2> HIDE DEF e
  <2> QED BY <2>2, <2>3 DEF IInv, ProcsOK
<1> QED BY <1>1, <1>2, <1>3 DEF Answer

\* The change and its report are one step.
LEMMA ApplyInv == ASSUME IInv, NEW c \in sent, Apply(c) PROVE IInv'
<1>1. c \in Calls /\ c.act \in Actions /\ c.attempt \in Nat /\ Internal(c.act)
  BY DEF IInv, TypeOK, ProcsOK, Calls
<1>2. sent' \subseteq sent /\ sent' \subseteq Calls
  BY DEF Apply, IInv, TypeOK
<1>3. ProcsOK'
  BY <1>2, AnswerProcs DEF Apply
<1>4. CASE UNCHANGED <<version, changes, status, evidence, claim>>
  <2>1. TypeOK'
    BY <1>2, <1>4 DEF Apply, IInv, TypeOK
  <2> QED BY <1>3, <1>4, <2>1, RowsStay DEF Apply
<1>5. CASE /\ Holds(c) /\ version[Target(c.act)] < MaxVersion
           /\ version' = [version EXCEPT ![Target(c.act)] = @ + 1]
           /\ changes' = changes \union {[call |-> c, version |-> version[Target(c.act)]]}
           /\ Completed(c, "verified")
  <2> DEFINE v == version[Target(c.act)]
             d == [call |-> c, version |-> v]
  <2>1. Target(c.act) \in Targets /\ v \in 0..MaxVersion /\ MaxVersion \in Nat
    BY <1>1, OperationsAssumption DEF IInv, TypeOK, Targets
  <2>2. version' \in [Targets -> 0..MaxVersion]
    BY <1>5, <2>1 DEF IInv, TypeOK
  <2>3. changes' = changes \union {d} /\ d \in [call : Calls, version : 0..MaxVersion]
        /\ d.call = c
    BY <1>1, <1>5, <2>1
  <2>4. changes' \subseteq [call : Calls, version : 0..MaxVersion]
    BY <2>3 DEF IInv, TypeOK
  <2>5. Changed(c.act) = {}
    BY <1>1, <1>5 DEF IInv, Recorded, Holds
  <2> HIDE DEF d
  <2>6. Changed(c.act)' = {c.attempt}
    BY <2>3, <2>5 DEF Changed
  <2>7. \A b \in Actions \ {c.act} : Changed(b)' = Changed(b)
    BY <2>3 DEF Changed
  <2> QED BY <1>1, <1>2, <1>3, <1>5, <2>2, <2>4, <2>6, <2>7, CompletedInv DEF Apply
<1> QED BY <1>4, <1>5 DEF Apply

LEMMA InitInv == Init => IInv
<1> SUFFICES ASSUME Init PROVE IInv
  OBVIOUS
<1>1. TypeOK
  BY OperationsAssumption DEF Init, TypeOK, Unclaimed, NoApproval
<1>2. ProcsOK
  BY DEF Init, ProcsOK, Suits, Idle
<1>3. ASSUME NEW a \in Actions PROVE Recorded(a) /\ LastOutcome(a)
  BY DEF Init, Recorded, Changed, LastOutcome
<1> QED BY <1>1, <1>2, <1>3 DEF IInv

LEMMA NextInv == IInv /\ [Next]_vars => IInv'
<1> SUFFICES ASSUME IInv, [Next]_vars PROVE IInv'
  OBVIOUS
<1>1. ASSUME NEW a \in Actions, ClaimEnds(a) PROVE IInv'
  <2>1. claim' \in [Actions -> [by : People, ends : {"none", "later", "before"}]]
        /\ \A b \in Actions : claim'[b].ends # "none" <=> claim[b].ends # "none"
    BY <1>1 DEF ClaimEnds, IInv, TypeOK
  <2>2. TypeOK' /\ ProcsOK'
    BY <1>1, <2>1 DEF ClaimEnds, IInv, TypeOK, ProcsOK
  <2> QED BY <1>1, <2>2, RowsStay DEF ClaimEnds
<1>2. ASSUME NEW a \in Actions, ApprovalExpires(a) PROVE IInv'
  <2>1. TypeOK' /\ ProcsOK'
    BY <1>2 DEF ApprovalExpires, IInv, TypeOK, ProcsOK
  <2> QED BY <1>2, <2>1, RowsStay DEF ApprovalExpires
<1>3. ASSUME NEW p \in Procs, Send(p) PROVE IInv'
  <2> DEFINE c == [act |-> exec[p].act, who |-> exec[p].who, attempt |-> exec[p].attempt]
  <2>1. exec[p] \in Execution /\ Suits(exec[p]) /\ exec[p].at = "internal"
    BY <1>3 DEF Send, IInv, ProcsOK, Idle
  <2>2. c \in Calls /\ Internal(c.act) /\ sent' = sent \union {c}
    BY <1>3, <2>1 DEF Send, Execution, Calls, Suits
  <2>3. [exec[p] EXCEPT !.at = "wait"] \in Execution /\ Suits([exec[p] EXCEPT !.at = "wait"])
    BY <2>1 DEF Execution, Places, Suits
  <2> HIDE DEF c
  <2>4. TypeOK'
    BY <1>3, <2>2 DEF Send, rows, IInv, TypeOK
  <2>5. exec' \in [Procs -> {Idle} \union Execution] /\ \A q \in Procs : Suits(exec'[q])
    BY <1>3, <2>3 DEF Send, Goes, IInv, ProcsOK
  <2>6. ProcsOK'
    BY <1>3, <2>2, <2>5 DEF Send, rows, IInv, ProcsOK
  <2> QED BY <1>3, <2>4, <2>6, RowsStay DEF Send, rows
<1>4. ASSUME NEW p \in Procs, NEW place \in {"verified", "failed", "blocked"}, Goes(p, place),
             exec[p].at \in {"wait", "external"}, exec[p].at = "wait" => place = "failed",
             UNCHANGED <<rows, version, members, changes, sent>>
      PROVE IInv'
  <2>1. exec[p] \in Execution /\ Suits(exec[p])
    BY <1>4 DEF IInv, ProcsOK, Idle
  <2>2. [exec[p] EXCEPT !.at = place] \in Execution /\ Suits([exec[p] EXCEPT !.at = place])
    BY <1>4, <2>1 DEF Execution, Places, Suits
  <2>3. exec' \in [Procs -> {Idle} \union Execution] /\ \A q \in Procs : Suits(exec'[q])
    BY <1>4, <2>2 DEF Goes, IInv, ProcsOK
  <2>4. TypeOK' /\ ProcsOK'
    BY <1>4, <2>3 DEF rows, IInv, TypeOK, ProcsOK
  <2> QED BY <1>4, <2>4, RowsStay DEF rows
<1>5. ASSUME NEW p \in Procs, Crash(p) PROVE IInv'
  <2>1. TypeOK' /\ ProcsOK'
    BY <1>5 DEF Crash, rows, IInv, TypeOK, ProcsOK, Return, Suits, Idle
  <2> QED BY <1>5, <2>1, RowsStay DEF Crash, rows
<1>6. ASSUME NEW u \in People, Revoke(u) PROVE IInv'
  <2>1. TypeOK' /\ ProcsOK'
    BY <1>6 DEF Revoke, rows, IInv, TypeOK, ProcsOK
  <2> QED BY <1>6, <2>1, RowsStay DEF Revoke, rows
<1>7. ASSUME NEW t \in Targets, Change(t) PROVE IInv'
  <2>1. version' \in [Targets -> 0..MaxVersion]
    BY <1>7, OperationsAssumption DEF Change, IInv, TypeOK
  <2>2. TypeOK' /\ ProcsOK'
    BY <1>7, <2>1 DEF Change, rows, IInv, TypeOK, ProcsOK
  <2> QED BY <1>7, <2>2, RowsStay DEF Change, rows
<1>8. CASE UNCHANGED vars
  <2>1. TypeOK' /\ ProcsOK'
    BY <1>8 DEF vars, IInv, TypeOK, ProcsOK
  <2> QED BY <1>8, <2>1, RowsStay DEF vars
<1>9. ASSUME NEW p \in Procs, Claim(p) \/ GiveUp(p) \/ External(p) \/ Complete(p) PROVE IInv'
  BY <1>4, <1>9, ClaimInv, CompleteInv DEF GiveUp, External
<1> QED BY <1>1, <1>2, <1>3, <1>5, <1>6, <1>7, <1>8, <1>9, CreateInv, ConfirmInv, DecideInv,
     ExecuteInv, ApplyInv DEF Next

LEMMA AlwaysInv == Spec => []IInv
  BY InitInv, NextInv, PTL DEF Spec

\* A verified internal action has changed its target once, in the attempt its
\* evidence is of, and no other action has changed anything
\* (operationsService.ts:446).
THEOREM RecordStaysTrue == Spec => []RecordIsTrue
<1>1. IInv => RecordIsTrue
  BY DEF IInv, RecordIsTrue, Recorded, Changed, Internal
<1> QED BY <1>1, AlwaysInv, PTL

\* An attempt whose claim ended and was taken again does not report any more
\* (20261018000100:33).
THEOREM LastAttemptReports == Spec => []OutcomeOfLastAttempt
<1>1. IInv => OutcomeOfLastAttempt
  BY DEF IInv, OutcomeOfLastAttempt, LastOutcome
<1> QED BY <1>1, AlwaysInv, PTL

\* A target changes only from the approved version, while its approval stands and
\* whoever gave it still may, also when any of that ended after the claim
\* (20261019000900:153).
THEOREM ChangesAreApproved == Spec => ChangeIsApproved
<1> DEFINE Permitted(c) ==
      /\ c.call.who \in members /\ c.version = planned[c.call.act]
      /\ Definition[c.call.act].approval =>
           /\ approval[c.call.act].decision = "approved" /\ ~approval[c.call.act].expired
           /\ approval[c.call.act].by \in members \ {Requester}
<1>1. ASSUME NEW c \in sent, Apply(c), NEW d \in changes' \ changes PROVE Permitted(d)
  <2>1. /\ Admitted(c) /\ Fits(c.act)
        /\ changes' = changes \union {[call |-> c, version |-> version[Target(c.act)]]}
    BY <1>1 DEF Apply
  <2>2. d.call = c /\ d.version = version[Target(c.act)]
    BY <1>1, <2>1
  <2> QED BY <2>1, <2>2 DEF Admitted, Approved, Fits
<1>2. ASSUME [Next]_vars PROVE \A d \in changes' \ changes : Permitted(d)
  <2>1. CASE \E c \in sent : Apply(c)
    BY <1>1, <2>1
  <2>2. CASE changes' = changes
    BY <2>2
  <2> QED BY <1>2, <2>1, <2>2 DEF Next, vars, rows, Create, Confirm, ClaimEnds, ApprovalExpires,
       Decide, Execute, Claim, Send, GiveUp, External, Complete, Crash, Revoke, Change
<1>3. [Next]_vars =>
        [\A c \in changes' \ changes :
           /\ c.call.who \in members /\ c.version = planned[c.call.act]
           /\ Definition[c.call.act].approval =>
                /\ approval[c.call.act].decision = "approved" /\ ~approval[c.call.act].expired
                /\ approval[c.call.act].by \in members \ {Requester}]_vars
  BY <1>2
<1> QED BY <1>3, PTL DEF Spec, ChangeIsApproved
=============================================================================
