--------------------------- MODULE OperationsAction ---------------------------
(***************************************************************************)
(* Actions of the operations centre: requested, confirmed, approved by a   *)
(* second person, claimed for a while by the request that executes them,   *)
(* and completed, each in a transaction of its own                         *)
(* (backend/src/operations/operationsService.ts, operations_* and          *)
(* *_operations_* functions of the database).                              *)
(*                                                                         *)
(* The change an internal action makes and its completion are one          *)
(* transaction; other actions go through an adapter.  A call may reach the *)
(* database after its request has given up on it.  There is no clock: an   *)
(* approval or a claim may end at any moment.                              *)
(***************************************************************************)
EXTENDS Naturals, FiniteSets

CONSTANTS
  Actions,
  Definition,   \* per action: what ACTION_DEFINITIONS says, and its target
  People,
  Requester,    \* of all actions
  Procs,        \* requests that execute actions
  MaxActions,   \* that are created
  MaxVersion    \* of a target, that are explored

ASSUME OperationsAssumption ==
  /\ Requester \in People /\ {MaxActions, MaxVersion} \subseteq Nat
  /\ \A a \in Actions : /\ Definition[a].attempts \in Nat
                        /\ {Definition[a].confirm, Definition[a].approval} \subseteq BOOLEAN
                        /\ Definition[a].adapter \in {"internal", "external"}

VARIABLES
  status, attempts,  \* per action: two columns of its row
  claim,             \* per action: lease_owner and whether lease_expires_at has passed
  approval,          \* per action: the row of its approval
  evidence,          \* per action: the attempt its evidence_reference is of, or 0
  planned, version,  \* target_version of the action, the version of the target
  members,           \* the people whose role permits what they do here
  changes,           \* what internal actions have changed, for the properties
  exec, sent         \* per request: where it is; calls on their way

vars == <<status, attempts, claim, approval, evidence, planned, version, members, changes, exec,
          sent>>

rows == <<status, attempts, claim, approval, evidence, planned>>

Idle == [at |-> "idle"]
Unclaimed == [by |-> Requester, ends |-> "none"]
NoApproval == [decision |-> "none", by |-> Requester, expired |-> FALSE]
Pending == [NoApproval EXCEPT !.decision = "pending"]

Target(a) == Definition[a].target
Targets == {Target(a) : a \in Actions}

Init ==
  /\ status = [a \in Actions |-> "absent"]
  /\ attempts = [a \in Actions |-> 0]
  /\ claim = [a \in Actions |-> Unclaimed]
  /\ approval = [a \in Actions |-> NoApproval]
  /\ evidence = [a \in Actions |-> 0]
  /\ planned = [a \in Actions |-> 0]
  /\ version = [t \in Targets |-> 0]
  /\ members = People
  /\ changes = {}
  /\ exec = [p \in Procs |-> Idle] /\ sent = {}

-----------------------------------------------------------------------------
\* Requests, confirmations and approvals.

\* The next status of an action that needs no confirmation any more.
Onward(a) == IF Definition[a].approval THEN "approval_required" ELSE "queued"
Ask(a) == IF Definition[a].approval THEN [approval EXCEPT ![a] = Pending] ELSE approval

\* A request may bring the confirmation along.  A queued action is executed next.
Create(a) ==
  /\ status[a] = "absent" /\ Requester \in members
  /\ Cardinality({b \in Actions : status[b] # "absent"}) < MaxActions
  /\ planned' = [planned EXCEPT ![a] = version[Target(a)]]
  /\ \/ /\ Definition[a].confirm
        /\ status' = [status EXCEPT ![a] = "confirmation_required"] /\ approval' = approval
     \/ status' = [status EXCEPT ![a] = Onward(a)] /\ approval' = Ask(a)
  /\ UNCHANGED <<attempts, claim, evidence, version, members, changes, exec, sent>>

Confirm(a) ==
  /\ status[a] = "confirmation_required" /\ Requester \in members
  /\ status' = [status EXCEPT ![a] = Onward(a)] /\ approval' = Ask(a)
  /\ UNCHANGED <<attempts, claim, evidence, planned, version, members, changes, exec, sent>>

Decide(a, u) ==
  /\ status[a] = "approval_required" /\ u \in members \ {Requester}
  /\ approval[a].decision = "pending" /\ ~approval[a].expired
  /\ \/ /\ approval' = [approval EXCEPT ![a].decision = "approved", ![a].by = u]
        /\ status' = [status EXCEPT ![a] = "approved"]
     \/ /\ approval' = [approval EXCEPT ![a].decision = "rejected", ![a].by = u]
        /\ status' = [status EXCEPT ![a] = "blocked"]
  /\ UNCHANGED <<attempts, claim, evidence, planned, version, members, changes, exec, sent>>

-----------------------------------------------------------------------------
\* Execution.

\* The role of the person who approved is looked up again.
Approved(a) ==
  Definition[a].approval =>
    /\ approval[a].decision = "approved" /\ ~approval[a].expired
    /\ approval[a].by # Requester /\ approval[a].by \in members

\* What executeAction reads before it claims the action.
Execute(p, u, a) ==
  /\ exec[p] = Idle /\ u \in members
  /\ status[a] \notin {"absent", "verified", "confirmation_required"}
  /\ version[Target(a)] = planned[a]
  /\ Definition[a].approval => approval[a].decision = "approved" /\ ~approval[a].expired
  /\ exec' = [exec EXCEPT ![p] = [at |-> "claim", act |-> a, who |-> u,
                                  status |-> status[a], attempt |-> attempts[a]]]
  /\ UNCHANGED <<rows, version, members, changes, sent>>

Claimable(a) ==
  /\ status[a] \in {"queued", "approved", "failed", "running"}
  /\ attempts[a] < Definition[a].attempts /\ claim[a].ends # "later"

Goes(p, at) == exec' = [exec EXCEPT ![p].at = at]
Return(p) == exec' = [exec EXCEPT ![p] = Idle]

\* claim_operations_action_admitted; its answer may be an error or nothing.
Claim(p) ==
  LET a == exec[p].act IN
  /\ exec[p].at = "claim"
  /\ IF /\ exec[p].who \in members /\ Approved(a) /\ Claimable(a)
        /\ status[a] = exec[p].status /\ attempts[a] = exec[p].attempt
     THEN /\ status' = [status EXCEPT ![a] = "running"]
          /\ attempts' = [attempts EXCEPT ![a] = @ + 1]
          /\ claim' = [claim EXCEPT ![a] = [by |-> exec[p].who, ends |-> "later"]]
          /\ exec' = [exec EXCEPT ![p] = [@ EXCEPT !.at = Definition[a].adapter,
                                                   !.attempt = attempts[a] + 1]]
     ELSE UNCHANGED <<status, attempts, claim>> /\ Return(p)
  /\ UNCHANGED <<approval, evidence, planned, version, members, changes, sent>>

\* Mutant: whoever holds the claim, whatever the attempt.
HoldsByOwner(c) == status[c.act] = "running" /\ claim[c.act] = [by |-> c.who, ends |-> "later"]

\* The action is as it was claimed, and the claim has not ended.
Holds(c) ==
  /\ status[c.act] = "running" /\ attempts[c.act] = c.attempt
  /\ claim[c.act] = [by |-> c.who, ends |-> "later"]

\* complete_operations_action
Completed(c, result) ==
  /\ status' = [status EXCEPT ![c.act] = result]
  /\ evidence' = [evidence EXCEPT ![c.act] = c.attempt]
  /\ claim' = [claim EXCEPT ![c.act] = Unclaimed]

Send(p) ==
  /\ exec[p].at = "internal" /\ Goes(p, "wait")
  /\ sent' = sent \union {[act |-> exec[p].act, who |-> exec[p].who, attempt |-> exec[p].attempt]}
  /\ UNCHANGED <<rows, version, members, changes>>

\* Mutant: the approval was checked when the action was claimed.
AdmittedAsClaimed(c) == c.who \in members

Admitted(c) == c.who \in members /\ Approved(c.act)

Fits(a) == version[Target(a)] = planned[a]

Waits(p, c) ==
  exec[p].at = "wait" /\ c = [act |-> exec[p].act, who |-> exec[p].who, attempt |-> exec[p].attempt]

\* Who waits is told, unless the answer is lost.
Answer(c, at) ==
  \/ exec' = exec
  \/ \E p \in Procs : Waits(p, c) /\ IF at = "done" THEN Return(p) ELSE Goes(p, at)

\* Mutant: the request completes the action when it has the answer.
ApplyThenReport(c) ==
  /\ c \in sent /\ sent' = sent \ {c}
  /\ IF Admitted(c) /\ Holds(c) /\ Fits(c.act)
     THEN /\ version[Target(c.act)] < MaxVersion
          /\ version' = [version EXCEPT ![Target(c.act)] = @ + 1]
          /\ changes' = changes \union {[call |-> c, version |-> version[Target(c.act)]]}
          /\ Answer(c, "verified")
     ELSE UNCHANGED <<version, changes>> /\ Answer(c, "failed")
  /\ UNCHANGED <<rows, members>>

\* mutate_operations_internal_target.  What the target's own status permits is left open.
Apply(c) ==
  /\ c \in sent /\ sent' = sent \ {c}
  /\ \/ /\ Admitted(c) /\ Holds(c) /\ Fits(c.act) /\ version[Target(c.act)] < MaxVersion
        /\ version' = [version EXCEPT ![Target(c.act)] = @ + 1]
        /\ changes' = changes \union {[call |-> c, version |-> version[Target(c.act)]]}
        /\ Completed(c, "verified") /\ Answer(c, "done")
     \/ /\ UNCHANGED <<version, changes, status, evidence, claim>>
        /\ Answer(c, IF Admitted(c) /\ Holds(c) THEN "blocked" ELSE "failed")
  /\ UNCHANGED <<attempts, approval, planned, members>>

\* An error of the call says nothing about what it did.
GiveUp(p) ==
  /\ exec[p].at = "wait" /\ Goes(p, "failed")
  /\ UNCHANGED <<rows, version, members, changes, sent>>

\* An adapter checks, runs or refuses, and answers when it does.
External(p) ==
  /\ exec[p].at = "external"
  /\ \E result \in {"verified", "failed", "blocked"} : Goes(p, result)
  /\ UNCHANGED <<rows, version, members, changes, sent>>

Complete(p) ==
  /\ exec[p].at \in {"verified", "failed", "blocked"} /\ Return(p)
  /\ IF Holds(exec[p]) THEN Completed(exec[p], exec[p].at)
     ELSE UNCHANGED <<status, evidence, claim>>
  /\ UNCHANGED <<attempts, approval, planned, version, members, changes, sent>>

-----------------------------------------------------------------------------
\* The surroundings.

Crash(p) ==
  /\ exec[p] # Idle /\ Return(p)
  /\ UNCHANGED <<rows, version, members, changes, sent>>

ClaimEnds(a) ==
  /\ claim[a].ends = "later" /\ claim' = [claim EXCEPT ![a].ends = "before"]
  /\ UNCHANGED <<status, attempts, approval, evidence, planned, version, members, changes, exec, sent>>

ApprovalExpires(a) ==
  /\ approval[a].decision # "none" /\ approval' = [approval EXCEPT ![a].expired = TRUE]
  /\ UNCHANGED <<status, attempts, claim, evidence, planned, version, members, changes, exec, sent>>

Revoke(u) ==
  /\ members' = members \ {u}
  /\ UNCHANGED <<rows, version, changes, exec, sent>>

\* The target changes for another reason.
Change(t) ==
  /\ version[t] < MaxVersion /\ version' = [version EXCEPT ![t] = @ + 1]
  /\ UNCHANGED <<rows, members, changes, exec, sent>>

-----------------------------------------------------------------------------
Next ==
  \/ \E a \in Actions : Create(a) \/ Confirm(a) \/ ClaimEnds(a) \/ ApprovalExpires(a)
  \/ \E a \in Actions, u \in People : Decide(a, u)
  \/ \E p \in Procs, u \in People, a \in Actions : Execute(p, u, a)
  \/ \E p \in Procs : Claim(p) \/ Send(p) \/ GiveUp(p) \/ External(p) \/ Complete(p) \/ Crash(p)
  \/ \E c \in sent : Apply(c)
  \/ \E u \in People : Revoke(u)
  \/ \E t \in Targets : Change(t)

Spec == Init /\ [][Next]_vars

-----------------------------------------------------------------------------
Calls == [act : Actions, who : People, attempt : Nat]

TypeOK ==
  /\ status \in [Actions -> {"absent", "confirmation_required", "approval_required", "approved",
                             "queued", "running", "verified", "failed", "blocked"}]
  /\ claim \in [Actions -> [by : People, ends : {"none", "later", "before"}]]
  /\ approval \in [Actions -> [decision : {"none", "pending", "approved", "rejected"},
                               by : People, expired : BOOLEAN]]
  /\ evidence \in [Actions -> Nat] /\ planned \in [Actions -> 0..MaxVersion]
  /\ version \in [Targets -> 0..MaxVersion] /\ members \subseteq People
  /\ changes \subseteq [call : Calls, version : 0..MaxVersion] /\ sent \subseteq Calls
  /\ \A a \in Actions : /\ attempts[a] \in 0..Definition[a].attempts
                        /\ status[a] = "running" <=> claim[a].ends # "none"

\* What is recorded is what was done: an internal action that is verified has
\* changed its target once, in the attempt its evidence is of, and one that is
\* not has changed nothing, whatever calls came late, were repeated or got no
\* answer (operationsService.ts:446, 20261019000900:251).
RecordIsTrue ==
  /\ TypeOK
  /\ \A a \in Actions :
       {c.call.attempt : c \in {d \in changes : d.call.act = a}}
         = IF status[a] = "verified" /\ Definition[a].adapter = "internal" THEN {evidence[a]} ELSE {}

\* A recorded outcome is that of the last attempt: one whose claim ended and was
\* taken again does not report any more (20261018000100:33).
OutcomeOfLastAttempt == \A a \in Actions : evidence[a] \in {0, attempts[a]} \/ status[a] = "running"

\* A target changes only from the version that was approved, while the person who
\* approved it still may, and within the approval's time, also when any of that
\* ends after the claim (20261019000900:153).
ChangeIsApproved ==
  [][\A c \in changes' \ changes :
       /\ c.call.who \in members /\ c.version = planned[c.call.act]
       /\ Definition[c.call.act].approval =>
            /\ approval[c.call.act].decision = "approved" /\ ~approval[c.call.act].expired
            /\ approval[c.call.act].by \in members \ {Requester}]_vars
=============================================================================
