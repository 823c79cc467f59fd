----------------------------- MODULE ProviderBudget -----------------------------
(***************************************************************************)
(* What one user's calls of paid providers may cost: a call reserves its   *)
(* worst case on the billing cycle of the moment, goes out, and is settled *)
(* at its measured cost, released, or held for a reconciliation            *)
(* (backend/src/ai/providerBudget.ts, voiceBudget.ts, parallelDispatch.ts, *)
(* 20261019000200_provider_budget_cycle_parent.sql).                       *)
(*                                                                         *)
(* Every function of the database is one step: those of the budget take    *)
(* the user's lock, and a payment, which takes another one, is ordered     *)
(* with them by the cycle's row.  The caller may wait for the answer, or   *)
(* stop waiting: the request is then late, and is carried out at some      *)
(* later time or never.                                                    *)
(***************************************************************************)
EXTENDS Integers, FiniteSets, FiniteSetsExt

CONSTANTS Calls,      \* provider calls, each with an idempotency key of its own
          Amount,     \* per call: what it reserves
          Retrying,   \* model calls: the SDK may send them twice
          Voice,      \* calls of the voice budget
          Approved,   \* calls of one admitted operations action
          Ceiling,    \* what that action may cost
          MaxCycles,  \* billing cycles that are explored
          FreeLimit,  \* entitlement of a free cycle, unlocked from its start
          PaidLimit,  \* entitlement of a paid cycle, unlocked step by step
          Extra,      \* unlocked in advance for calls that complete work
          MaxFaults   \* requests given up and processes stopped

ASSUME BudgetAssumption ==
  /\ IsFiniteSet(Calls) /\ Amount \in [Calls -> Nat \ {0}] /\ Retrying \subseteq Calls
  /\ Voice \subseteq Calls \ Retrying /\ Approved \subseteq Retrying
  /\ {Ceiling, FreeLimit, PaidLimit, Extra, MaxFaults} \subseteq Nat
  /\ MaxCycles \in Nat \ {0}

Cycles == 1..MaxCycles
NoCycle == 0

VARIABLES
  cycle,  \* per cycle: its row; "lapsed" is active and past its end
  open,   \* what the current cycle has unlocked
  res,    \* per call: its row of xroga_provider_reservations
  at,     \* per call: where the process is
  sent,   \* per call: requests sent to the provider
  cost,   \* per call: the cost of the completed call, or NotCompleted
  late,   \* per call: requests to the database nobody waits for any more
  faults

budgetVars == <<cycle, open, res, at, sent, cost, late, faults>>

NotCompleted == -1
NoRow == [status |-> "none", cycle |-> NoCycle, paid |-> 0]

Cycle(limit) == [status |-> "active", limit |-> limit, reserved |-> 0, settled |-> 0]
NoSuchCycle == [Cycle(0) EXCEPT !.status = "none"]

BudgetInit ==
  /\ cycle = [k \in Cycles |-> NoSuchCycle] /\ open = 0
  /\ res = [c \in Calls |-> NoRow]
  /\ at = [c \in Calls |-> "idle"]
  /\ sent = [c \in Calls |-> 0]
  /\ cost = [c \in Calls |-> NotCompleted]
  /\ late = [c \in Calls |-> {}]
  /\ faults = 0

-----------------------------------------------------------------------------
\* Billing cycles.

Active == {k \in Cycles : cycle[k].status = "active"}
Current == {k \in Cycles : cycle[k].status \in {"active", "lapsed"}}
NextCycle(k) == cycle[k].status = "none" /\ \A i \in Cycles : i < k => cycle[i].status # "none"

\* Cycle k takes the place of the current one.
Renew(k, limit, unlocked) ==
  /\ NextCycle(k) /\ open' = unlocked
  /\ cycle' = [i \in Cycles |->
       IF i = k THEN Cycle(limit)
       ELSE IF i \in Current THEN [cycle[i] EXCEPT !.status = "expired"] ELSE cycle[i]]

\* A payment opens a cycle whatever is left of the current one.
Pay(k) == Renew(k, PaidLimit, 0) /\ UNCHANGED <<res, at, sent, cost, late, faults>>

\* ensure_xroga_free_cycle: a cycle that has not ended stays.
EnsureFree ==
  \/ Active # {} /\ UNCHANGED <<cycle, open>>
  \/ Active = {} /\ \E k \in Cycles : Renew(k, FreeLimit, FreeLimit)

\* A status query, also that of a call that was refused.
Query == EnsureFree /\ UNCHANGED <<res, at, sent, cost, late, faults>>

\* The cycle's 30 days are over; another day begins, or Full Access is chosen.
\* Going back to the balanced pace takes nothing back.
Lapse(k) ==
  /\ k \in Active /\ cycle' = [cycle EXCEPT ![k].status = "lapsed"]
  /\ UNCHANGED <<open, res, at, sent, cost, late, faults>>
Unlock(k) ==
  /\ k \in Active /\ open < cycle[k].limit /\ open' = open + 1
  /\ UNCHANGED <<cycle, res, at, sent, cost, late, faults>>

-----------------------------------------------------------------------------
\* The functions of the database.

Held(c) == res[c].status \in {"reserved", "pending"}
AmountOf(c) == Amount[c]
Committed == MapThenSumSet(AmountOf, {c \in Approved : Held(c) \/ res[c].status = "settled"})

\* Mutant: the unlocked part is compared with what is settled only.
FitsSettled(c, k) ==
  cycle[k].settled + Amount[c] <= cycle[k].limit

Fits(c, k) ==
  LET unlocked == open + (IF c \in Approved THEN Extra ELSE 0)
      spent == cycle[k].settled + cycle[k].reserved + Amount[c]
  IN spent <= unlocked /\ spent <= cycle[k].limit

\* reserve_xroga_provider_budget, for an approved call under its action's ceiling.
Reservable(c, k) ==
  /\ k \in Active /\ Fits(c, k)
  /\ c \in Approved => Committed + Amount[c] <= Ceiling
DoReserve(c, k) ==
  /\ Reservable(c, k)
  /\ cycle' = [cycle EXCEPT ![k].reserved = @ + Amount[c]]
  /\ res' = [res EXCEPT ![c] = [status |-> "reserved", cycle |-> k, paid |-> 0]]

\* Mutant: what is settled is booked on the cycle that is active now.
DoSettleOnActive(c) ==
  IF ~Held(c) THEN UNCHANGED <<cycle, res>>
  ELSE /\ res' = [res EXCEPT ![c].status = "settled", ![c].paid = cost[c]]
       /\ \E k \in (IF Current = {} THEN {res[c].cycle} ELSE Current) :
            cycle' = [cycle EXCEPT ![k].reserved = @ - Amount[c], ![k].settled = @ + cost[c]]

DoSettle(c) ==
  IF ~Held(c) THEN UNCHANGED <<cycle, res>>
  ELSE /\ res' = [res EXCEPT ![c].status = "settled", ![c].paid = cost[c]]
       /\ cycle' = [cycle EXCEPT ![res[c].cycle].reserved = @ - Amount[c],
                                 ![res[c].cycle].settled = @ + cost[c]]

\* release_xroga_provider_budget, with and without p_pending_reconciliation.
DoHold(c) ==
  /\ res' = IF Held(c) THEN [res EXCEPT ![c].status = "pending"] ELSE res
  /\ UNCHANGED cycle
DoRelease(c) ==
  IF ~Held(c) THEN UNCHANGED <<cycle, res>>
  ELSE /\ res' = [res EXCEPT ![c].status = "released"]
       /\ cycle' = [cycle EXCEPT ![res[c].cycle].reserved = @ - Amount[c]]

-----------------------------------------------------------------------------
\* A call.

Go(c, step) == at' = [at EXCEPT ![c] = step]

Submit(c) ==
  /\ at[c] = "idle" /\ Go(c, "reserve")
  /\ UNCHANGED <<cycle, open, res, sent, cost, late, faults>>

Reserve(c) ==
  /\ at[c] \in {"reserve", "again"} /\ \E k \in Cycles : DoReserve(c, k)
  /\ Go(c, "ready")
  /\ UNCHANGED <<open, sent, cost, late, faults>>

\* Without an active cycle the free one is asked for, once.  Who waited for
\* the row of a cycle that a payment replaced finds none either.
Replaced == \E k \in Cycles : cycle[k].status = "expired"
NoActiveCycle(c) ==
  /\ at[c] = "reserve" /\ (Current = {} \/ Replaced) /\ Go(c, "ensure")
  /\ UNCHANGED <<cycle, open, res, sent, cost, late, faults>>
Ensure(c) ==
  /\ at[c] = "ensure" /\ (EnsureFree \/ UNCHANGED <<cycle, open>>) /\ Go(c, "again")
  /\ UNCHANGED <<res, sent, cost, late, faults>>
Refuse(c) ==
  /\ at[c] \in {"reserve", "again"} /\ (Current # {} \/ at[c] = "again")
  /\ (\A k \in Cycles : ~Reservable(c, k)) \/ (at[c] = "again" /\ Replaced)
  /\ Go(c, "done")
  /\ UNCHANGED <<cycle, open, res, sent, cost, late, faults>>

\* How a failed call is closed.  The voice budget goes by what was sent, the
\* others by the kind of the failure.
Fail(c, doubtful) ==
  Go(c, IF (IF c \in Voice THEN sent[c] > 0 ELSE doubtful) THEN "hold" ELSE "release")

\* The last check before the wire refuses, or the caller has cancelled.
Deny(c) ==
  /\ at[c] = "ready" /\ \E doubtful \in BOOLEAN : Fail(c, doubtful)
  /\ UNCHANGED <<cycle, open, res, sent, cost, late, faults>>

CallProvider(c) ==
  /\ at[c] = "ready" /\ Go(c, "wire") /\ sent' = [sent EXCEPT ![c] = @ + 1]
  /\ UNCHANGED <<cycle, open, res, cost, late, faults>>

\* The provider refuses, or nothing usable comes back; the SDK may try again.
Unanswered(c) ==
  /\ at[c] = "wire"
  /\ \/ \E doubtful \in BOOLEAN : Fail(c, doubtful)
     \/ c \in Retrying /\ sent[c] = 1 /\ Go(c, "ready")
  /\ UNCHANGED <<cycle, open, res, sent, cost, late, faults>>

\* Mutant: a completed call that cannot be settled is a failed call.
CompleteOrFail(c) ==
  /\ at[c] = "wire"
  /\ \E n \in 0..Amount[c] + 1 :
       /\ cost' = [cost EXCEPT ![c] = n]
       /\ Go(c, IF n <= Amount[c] THEN "settle" ELSE "release")
  /\ UNCHANGED <<cycle, open, res, sent, late, faults>>

\* A call that costs more than was reserved is not settled.
Complete(c) ==
  /\ at[c] = "wire"
  /\ \E n \in 0..Amount[c] + 1 :
       /\ cost' = [cost EXCEPT ![c] = n]
       /\ Go(c, IF n <= Amount[c] THEN "settle" ELSE "hold")
  /\ UNCHANGED <<cycle, open, res, sent, late, faults>>

Settle(c) ==
  /\ at[c] = "settle" /\ DoSettle(c) /\ Go(c, "done")
  /\ UNCHANGED <<open, sent, cost, late, faults>>
Close(c) ==
  /\ at[c] \in {"hold", "release"} /\ Go(c, "done")
  /\ IF at[c] = "hold" THEN DoHold(c) ELSE DoRelease(c)
  /\ UNCHANGED <<open, sent, cost, late, faults>>

\* The answer to a request does not come, or the process stops.
Asks == {"reserve", "again", "settle", "hold", "release"}
Fault(c) ==
  /\ at[c] \notin {"idle", "done"} /\ faults < MaxFaults /\ faults' = faults + 1
  /\ late' = IF at[c] \in Asks THEN [late EXCEPT ![c] = @ \union {at[c]}] ELSE late
  /\ Go(c, "done") \/ (at[c] = "settle" /\ Go(c, "hold"))
  /\ UNCHANGED <<cycle, open, res, sent, cost>>

Late(c, ask) ==
  /\ ask \in late[c] /\ late' = [late EXCEPT ![c] = @ \ {ask}]
  /\ CASE ask = "settle" -> DoSettle(c)
       [] ask = "hold" -> DoHold(c)
       [] ask = "release" -> DoRelease(c)
       [] OTHER -> \E k \in Cycles : DoReserve(c, k)
  /\ UNCHANGED <<open, at, sent, cost, faults>>

-----------------------------------------------------------------------------
BudgetNext ==
  \/ \E k \in Cycles : Pay(k) \/ Lapse(k) \/ Unlock(k)
  \/ Query
  \/ \E c \in Calls :
       \/ Submit(c) \/ Reserve(c) \/ NoActiveCycle(c) \/ Ensure(c) \/ Refuse(c) \/ Deny(c)
       \/ CallProvider(c) \/ Unanswered(c) \/ Complete(c) \/ Settle(c) \/ Close(c) \/ Fault(c)
       \/ \E ask \in late[c] : Late(c, ask)

BudgetSpec == BudgetInit /\ [][BudgetNext]_budgetVars
-----------------------------------------------------------------------------
Steps == {"idle", "reserve", "ensure", "again", "ready", "wire", "settle", "hold", "release", "done"}

BudgetTypeOK ==
  /\ cycle \in [Cycles -> [status : {"none", "active", "lapsed", "expired"},
                           limit : Nat, reserved : Nat, settled : Nat]]
  /\ open \in Nat
  /\ res \in [Calls -> [status : {"none", "reserved", "pending", "settled", "released"},
                        cycle : Cycles \union {NoCycle}, paid : Nat]]
  /\ at \in [Calls -> Steps] /\ sent \in [Calls -> 0..2] /\ cost \in [Calls -> Nat \union {NotCompleted}]
  /\ late \in [Calls -> SUBSET Asks] /\ faults \in 0..MaxFaults

\* The counters of every cycle are those of the calls booked on it, also when
\* an answer was lost and settled, held and released come late or after the
\* cycle has been replaced
\* (20261019000200_provider_budget_cycle_parent.sql:82-84, 115-116).
Paid(c) == res[c].paid
CyclesAgree ==
  /\ BudgetTypeOK
  /\ \A k \in Cycles :
       LET Booked == {c \in Calls : res[c].cycle = k}
       IN /\ cycle[k].reserved = MapThenSumSet(AmountOf, {c \in Booked : Held(c)})
          /\ cycle[k].settled = MapThenSumSet(Paid, {c \in Booked : res[c].status = "settled"})

\* What is spent and what may still be spent stays within the entitlement of
\* each cycle, and for an admitted action within its approved ceiling
\* (20260728010000_command45_shared_provider_entitlement.sql:22,
\* 20261020000400_operations_provider_budget_authority.sql:76-81).
EntitlementKept == \A k \in Cycles : cycle[k].settled + cycle[k].reserved <= cycle[k].limit
SpendWithinBudget == EntitlementKept /\ Committed <= Ceiling

\* "Completed provider spending must never be released after accounting
\* failure" (providerBudget.settlement.test.ts:35), nor that of a voice call
\* once its audio was sent (voiceBudget.ts:87): it is held until it is settled,
\* and settled at what it cost.
Spent(c) == cost[c] # NotCompleted \/ (c \in Voice /\ sent[c] > 0)
Accounted(c) ==
  Spent(c) => Held(c) \/ (res[c].status = "settled" /\ res[c].paid = cost[c])
SpentIsHeld == \A c \in Calls : Accounted(c)
=============================================================================
