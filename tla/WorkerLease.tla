----------------------------- MODULE WorkerLease -----------------------------
(***************************************************************************)
(* The worker task lease (backend/src/workers/leaseStore.ts and the        *)
(* functions worker_lease_* of 20261024000000_worker_task_leases.sql).     *)
(*                                                                         *)
(* A session is one handler invocation: it asks for its lease once, keeps  *)
(* what it was given for as long as it runs and may use it late.  Several  *)
(* sessions can run in one worker process, so a worker's name alone says   *)
(* nothing about which of them holds a key: the token does.                *)
(*                                                                         *)
(* Time is the database's clock.  rows[k].left is the time until the row's *)
(* expires_at (0 once it is reached), so "expires_at <= now" is left = 0.  *)
(***************************************************************************)
EXTENDS Naturals, FiniteSets

CONSTANTS Keys,      \* (tenant, run, task) triples
          Sessions,  \* handler invocations
          WorkerOf,  \* the worker process each session runs in
          Ttls       \* the lease times callers ask for, in ticks

\* checkTtl: a lease time is at least one unit (and at most 15 minutes).
ASSUME LeaseAssumption == Ttls \subseteq Nat \ {0}

Workers == {WorkerOf[s] : s \in Sessions}

VARIABLES
  rows,     \* worker_task_leases; a key without a row is one that was never held
  lease,    \* per session: the key and token it was given
  released, \* sessions that called release
  dead      \* sessions whose process has stopped

leaseVars == <<rows, lease, released, dead>>

NoRow == [worker |-> "nobody", token |-> 0, left |-> 0, held |-> FALSE]
NoLease == [token |-> 0]

LeaseInit ==
  /\ rows = [k \in Keys |-> NoRow]
  /\ lease = [s \in Sessions |-> NoLease]
  /\ released = {}
  /\ dead = {}

HasLease(s) == lease[s] # NoLease

\* Mutant: the worker's name taken for the holder.
OwnsByWorker(s, k) ==
  /\ HasLease(s) /\ lease[s].key = k
  /\ rows[k].held /\ rows[k].worker = WorkerOf[s]

\* The row is still the one this session was given.
Owns(s, k) ==
  /\ HasLease(s) /\ lease[s].key = k
  /\ rows[k].held
  /\ rows[k].worker = WorkerOf[s]
  /\ rows[k].token = lease[s].token

\* worker_lease_check answers 'ok'.
Current(s, k) == Owns(s, k) /\ rows[k].left > 0

Free(k) == ~rows[k].held \/ rows[k].left = 0

\* Mutant: a token sequence that restarts after a release.
AcquireRestartsTokens(s, k, ttl) ==
  LET token == IF rows[k].held THEN rows[k].token + 1 ELSE 1 IN
  /\ ~HasLease(s) /\ Free(k)
  /\ rows' = [rows EXCEPT ![k] = [worker |-> WorkerOf[s], token |-> token,
                                  left |-> ttl, held |-> TRUE]]
  /\ lease' = [lease EXCEPT ![s] = [key |-> k, token |-> token]]
  /\ UNCHANGED <<released, dead>>

Acquire(s, k, ttl) ==
  /\ ~HasLease(s) /\ Free(k)
  /\ rows' = [rows EXCEPT ![k] = [worker |-> WorkerOf[s], token |-> @.token + 1,
                                  left |-> ttl, held |-> TRUE]]
  /\ lease' = [lease EXCEPT ![s] = [key |-> k, token |-> rows[k].token + 1]]
  /\ UNCHANGED <<released, dead>>

\* null: another session holds a live lease.
AcquireRefused(s, k) ==
  /\ ~HasLease(s) /\ ~Free(k)
  /\ UNCHANGED leaseVars

Renew(s, k, ttl) ==
  /\ Current(s, k)
  /\ rows' = [rows EXCEPT ![k].left = ttl]
  /\ UNCHANGED <<lease, released, dead>>

\* LEASE_LOST or LEASE_EXPIRED: the row is left alone.
RenewRefused(s, k) ==
  /\ HasLease(s) /\ lease[s].key = k /\ ~Current(s, k)
  /\ UNCHANGED leaseVars

\* Mutant: a release by key, whoever holds it.
ReleaseByKey(s, k) ==
  /\ HasLease(s) /\ lease[s].key = k
  /\ rows' = [rows EXCEPT ![k].held = FALSE]
  /\ released' = released \union {s}
  /\ UNCHANGED <<lease, dead>>

\* Called in a finally block, perhaps long after the lease was lost.
Release(s, k) ==
  /\ HasLease(s) /\ lease[s].key = k
  /\ rows' = [rows EXCEPT ![k].held = IF Owns(s, k) THEN FALSE ELSE @]
  /\ released' = released \union {s}
  /\ UNCHANGED <<lease, dead>>

StopSession(s) ==
  /\ dead' = dead \union {s}
  /\ UNCHANGED <<rows, lease, released>>

Tick ==
  /\ rows' = [k \in Keys |-> [rows[k] EXCEPT !.left = IF @ = 0 THEN 0 ELSE @ - 1]]
  /\ UNCHANGED <<lease, released, dead>>

Call(s) ==
  \E k \in Keys :
    \/ \E ttl \in Ttls : Acquire(s, k, ttl) \/ Renew(s, k, ttl)
    \/ AcquireRefused(s, k) \/ RenewRefused(s, k) \/ Release(s, k)

LeaseNext ==
  \/ \E s \in Sessions \ dead : Call(s) \/ StopSession(s)
  \/ Tick

LeaseSpec == LeaseInit /\ [][LeaseNext]_leaseVars

-----------------------------------------------------------------------------
RowType == [worker : Workers \union {"nobody"}, token : Nat, left : Nat, held : BOOLEAN]
LeaseType == [key : Keys, token : Nat \ {0}]

LeaseTypeOK ==
  /\ rows \in [Keys -> RowType]
  /\ lease \in [Sessions -> LeaseType \union {NoLease}]
  /\ released \subseteq Sessions /\ dead \subseteq Sessions

\* Two sessions are never both told that they hold the same task, also when
\* they run in the same worker process.
OneHolder ==
  \A k \in Keys : \A s, t \in Sessions : Current(s, k) /\ Current(t, k) => s = t

\* No two sessions were given the same token for a task, and none a token
\* the row has not reached: the sequence never restarts, also after release.
TokensUnique ==
  \A s, t \in Sessions :
    HasLease(s) =>
      /\ lease[s].token <= rows[lease[s].key].token
      /\ HasLease(t) /\ lease[t].key = lease[s].key /\ lease[t].token = lease[s].token => s = t

\* Once a session's lease has expired or was lost it is never current again:
\* no late renewal, and nobody else's call, brings it back.
NoRevival ==
  [][\A s \in Sessions, k \in Keys :
       HasLease(s) /\ lease[s].key = k /\ ~Current(s, k) => ~Current(s, k)']_leaseVars

\* A session loses a lease that is current only by releasing it itself or
\* because its time is over: a stale session's late release, renewal or
\* request never takes it away.
LeaseIsKept ==
  [][\A s \in Sessions, k \in Keys :
       Current(s, k) /\ ~Current(s, k)' => s \in released' \/ rows[k].left = 1]_leaseVars

\* The rows implement the time-free promise.
Promise == INSTANCE FencedLease WITH
  holders <- [k \in Keys |-> {s \in Sessions : Current(s, k)}],
  token   <- [k \in Keys |-> rows[k].token],
  fence   <- [s \in Sessions |-> lease[s].token]

FencedLeaseSpec == Promise!Spec
=============================================================================
