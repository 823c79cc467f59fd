----------------------------- MODULE WorkersProofs -----------------------------
(***************************************************************************)
(* Proofs about the two components that decide which worker has some work: *)
(* WorkerLease, for the tasks of a run, and CanonicalDelivery, for whole   *)
(* runs.  They have no state in common; the definitions of WorkerLease     *)
(* carry its name where CanonicalDelivery has the same.                    *)
(*                                                                         *)
(* WorkerLease: for every set of tasks, sessions and workers the rows are  *)
(* well typed, at most one session holds a task, a lost lease stays lost,  *)
(* a current one is taken by nobody else's call, and WorkerLease           *)
(* implements FencedLease.  The inductive invariant is LeaseTypeOK and     *)
(* TokensUnique: who holds a task is decided by comparing tokens, so       *)
(* everything rests on no two sessions ever having been given the same     *)
(* one.                                                                    *)
(*                                                                         *)
(* CanonicalDelivery: for any number of runs, requests and jobs a replaced *)
(* request gets no worker, a run starts over at most once, what is         *)
(* launched and prompt fits the capacity, and a recorded result stands.    *)
(* All of it rests on the requests of a run being numbered in their order  *)
(* and only the newest being open: a claim then concerns one delivery.     *)
(***************************************************************************)
EXTENDS WorkerLease, CanonicalDelivery, FiniteSetTheorems, TLAPS

(***************************************************************************)
(* WorkerLease.                                                            *)
(***************************************************************************)

LeaseInv == LeaseTypeOK /\ TokensUnique

\* What a session holds, and what the row of a current one looks like.
LEMMA HandleType ==
  ASSUME LeaseTypeOK, NEW s \in Sessions
  PROVE  /\ HasLease(s) => lease[s].key \in Keys /\ lease[s].token \in Nat \ {0}
         /\ ~HasLease(s) => lease[s].token = 0
  BY DEF LeaseTypeOK, LeaseType, HasLease, NoLease

LEMMA RowTyped ==
  ASSUME LeaseTypeOK, NEW k \in Keys
  PROVE  /\ rows[k] \in RowType
         /\ rows[k].token \in Nat /\ rows[k].left \in Nat
  BY DEF LeaseTypeOK, RowType

LEMMA LeaseInitInv == LeaseInit => LeaseInv
  BY DEF LeaseInit, LeaseInv, LeaseTypeOK, TokensUnique, RowType, NoRow, NoLease, HasLease

LEMMA AcquireInv ==
  ASSUME LeaseInv, NEW s \in Sessions, NEW k \in Keys, NEW ttl \in Ttls, Acquire(s, k, ttl)
  PROVE  LeaseInv'
<1> USE DEF LeaseInv
<1>1. rows[k].token + 1 \in Nat \ {0} /\ ttl \in Nat
  BY RowTyped, LeaseAssumption
<1>2. LeaseTypeOK'
  <2>1. [worker |-> WorkerOf[s], token |-> rows[k].token + 1, left |-> ttl, held |-> TRUE] \in RowType
    BY <1>1 DEF RowType, Workers
  <2>2. [key |-> k, token |-> rows[k].token + 1] \in LeaseType
    BY <1>1 DEF LeaseType
  <2> QED BY <2>1, <2>2 DEF Acquire, LeaseTypeOK
<1>3. /\ lease'[s] = [key |-> k, token |-> rows[k].token + 1]
      /\ \A t \in Sessions \ {s} : lease'[t] = lease[t]
      /\ rows'[k].token = rows[k].token + 1
      /\ \A l \in Keys \ {k} : rows'[l] = rows[l]
  BY DEF Acquire, LeaseTypeOK
<1>4. ASSUME NEW t \in Sessions, HasLease(t)'
      PROVE  lease'[t].token <= rows'[lease'[t].key].token
  <2>1. CASE t = s
    BY <1>1, <1>3, <2>1
  <2>2. CASE t # s
    <3>1. HasLease(t) /\ lease[t].key \in Keys /\ lease[t].token \in Nat
      BY <1>3, <1>4, <2>2, HandleType DEF HasLease, NoLease
    <3>2. lease[t].token <= rows[lease[t].key].token
      BY <3>1 DEF TokensUnique
    <3>3. rows[lease[t].key].token \in Nat
      BY <3>1, RowTyped
    <3> QED BY <1>1, <1>3, <2>2, <3>1, <3>2, <3>3
  <2> QED BY <2>1, <2>2
<1>5. ASSUME NEW t \in Sessions, NEW u \in Sessions, HasLease(t)', HasLease(u)',
             lease'[u].key = lease'[t].key, lease'[u].token = lease'[t].token, t # u
      PROVE  FALSE
  <2>1. \A r \in Sessions \ {s} : HasLease(r)' => HasLease(r)
    BY <1>3 DEF HasLease, NoLease
  <2>2. ASSUME NEW r \in Sessions \ {s}, HasLease(r), lease[r].key = k
        PROVE  lease[r].token # rows[k].token + 1
    <3>1. lease[r].token \in Nat /\ rows[k].token \in Nat
      BY <2>2, HandleType, RowTyped
    <3>2. lease[r].token <= rows[k].token
      BY <2>2 DEF TokensUnique
    <3> QED BY <3>1, <3>2
  <2>3. CASE t = s
    BY <1>3, <1>5, <2>1, <2>2, <2>3
  <2>4. CASE u = s
    BY <1>3, <1>5, <2>1, <2>2, <2>4
  <2>5. CASE t # s /\ u # s
    BY <1>3, <1>5, <2>1, <2>5 DEF TokensUnique
  <2> QED BY <2>3, <2>4, <2>5
<1>6. TokensUnique'
  BY <1>4, <1>5 DEF TokensUnique
<1> QED BY <1>2, <1>6

\* The steps that give out no lease leave every token as it is.
LEMMA LeaseQuietInv ==
  ASSUME LeaseInv, rows' \in [Keys -> RowType], \A k \in Keys : rows'[k].token = rows[k].token,
         lease' = lease, released' \subseteq Sessions, dead' \subseteq Sessions
  PROVE  LeaseInv'
<1>1. \A s \in Sessions : HasLease(s)' = HasLease(s)
  BY DEF HasLease, NoLease
<1>2. \A s \in Sessions : HasLease(s) => lease[s].key \in Keys
  BY HandleType DEF LeaseInv
<1> QED BY <1>1, <1>2 DEF LeaseInv, LeaseTypeOK, TokensUnique

LEMMA RenewInv ==
  ASSUME LeaseInv, NEW s \in Sessions, NEW k \in Keys, NEW ttl \in Ttls, Renew(s, k, ttl)
  PROVE  /\ LeaseInv'
         /\ \A l \in Keys :
              /\ rows'[l].held = rows[l].held /\ rows'[l].worker = rows[l].worker
              /\ rows'[l].token = rows[l].token
              /\ l # k => rows'[l] = rows[l]
<1>1. rows' \in [Keys -> RowType]
  BY LeaseAssumption DEF Renew, LeaseInv, LeaseTypeOK, RowType
<1>2. \A l \in Keys : l # k => rows'[l] = rows[l]
  BY DEF Renew, LeaseInv, LeaseTypeOK
<1>3. rows'[k].held = rows[k].held /\ rows'[k].worker = rows[k].worker /\ rows'[k].token = rows[k].token
  BY DEF Renew, LeaseInv, LeaseTypeOK, RowType
<1> QED BY <1>1, <1>2, <1>3, LeaseQuietInv DEF Renew, LeaseInv, LeaseTypeOK

LEMMA ReleaseInv ==
  ASSUME LeaseInv, NEW s \in Sessions, NEW k \in Keys, Release(s, k)
  PROVE  /\ LeaseInv'
         /\ \A l \in Keys :
              /\ rows'[l].held => rows[l].held
              /\ rows'[l].worker = rows[l].worker
              /\ rows'[l].token = rows[l].token /\ rows'[l].left = rows[l].left
              /\ ~(l = k /\ Owns(s, k)) => rows'[l] = rows[l]
<1>1. rows' \in [Keys -> RowType]
  BY DEF Release, LeaseInv, LeaseTypeOK, RowType
<1>2. \A l \in Keys : l # k => rows'[l] = rows[l]
  BY DEF Release, LeaseInv, LeaseTypeOK
<1>3. /\ rows'[k].worker = rows[k].worker /\ rows'[k].token = rows[k].token
      /\ rows'[k].left = rows[k].left
      /\ rows'[k].held = IF Owns(s, k) THEN FALSE ELSE rows[k].held
  BY DEF Release, LeaseInv, LeaseTypeOK, RowType
<1>4. ~Owns(s, k) => rows'[k] = rows[k]
  BY <1>1, <1>3 DEF LeaseInv, LeaseTypeOK, RowType
<1>5. rows'[k].held => rows[k].held
  BY <1>3
<1> QED BY <1>1, <1>2, <1>3, <1>4, <1>5, LeaseQuietInv DEF Release, LeaseInv, LeaseTypeOK

LEMMA TickInv ==
  ASSUME LeaseInv, Tick
  PROVE  /\ LeaseInv'
         /\ \A l \in Keys :
              /\ rows'[l].held = rows[l].held /\ rows'[l].worker = rows[l].worker
              /\ rows'[l].token = rows[l].token /\ rows'[l].left <= rows[l].left
<1>1. ASSUME NEW l \in Keys
      PROVE  /\ rows'[l] \in RowType
             /\ rows'[l].held = rows[l].held /\ rows'[l].worker = rows[l].worker
             /\ rows'[l].token = rows[l].token /\ rows'[l].left <= rows[l].left
  <2> DEFINE left == IF rows[l].left = 0 THEN 0 ELSE rows[l].left - 1
  <2>1. rows'[l] = [rows[l] EXCEPT !.left = left]
    BY DEF Tick
  <2>2. left \in Nat /\ left <= rows[l].left
    BY RowTyped DEF LeaseInv
  <2>3. rows[l] \in RowType
    BY RowTyped DEF LeaseInv
  <2> HIDE DEF left
  <2>4. rows'[l] = [worker |-> rows[l].worker, token |-> rows[l].token, left |-> left, held |-> rows[l].held]
    BY <2>1, <2>3 DEF RowType
  <2> QED BY <2>2, <2>3, <2>4 DEF RowType
<1>2. rows' \in [Keys -> RowType]
  BY <1>1 DEF Tick
<1> QED BY <1>1, <1>2, LeaseQuietInv DEF Tick, LeaseInv, LeaseTypeOK

LEMMA LeaseNextInv == LeaseInv /\ [LeaseNext]_leaseVars => LeaseInv'
<1> SUFFICES ASSUME LeaseInv, [LeaseNext]_leaseVars PROVE LeaseInv'
  OBVIOUS
<1>1. ASSUME NEW s \in Sessions \ dead, NEW k \in Keys, NEW ttl \in Ttls, Acquire(s, k, ttl) PROVE LeaseInv'
  BY <1>1, AcquireInv
<1>2. ASSUME NEW s \in Sessions \ dead, NEW k \in Keys, NEW ttl \in Ttls, Renew(s, k, ttl) PROVE LeaseInv'
  BY <1>2, RenewInv
<1>3. ASSUME NEW s \in Sessions \ dead, NEW k \in Keys, Release(s, k) PROVE LeaseInv'
  BY <1>3, ReleaseInv
<1>4. ASSUME NEW s \in Sessions \ dead, StopSession(s) PROVE LeaseInv'
  <2>1. dead' \subseteq Sessions
    BY <1>4 DEF StopSession, LeaseInv, LeaseTypeOK
  <2> QED BY <1>4, <2>1, LeaseQuietInv DEF StopSession, LeaseInv, LeaseTypeOK
<1>5. ASSUME Tick PROVE LeaseInv'
  BY <1>5, TickInv
<1>6. ASSUME UNCHANGED leaseVars PROVE LeaseInv'
  BY <1>6 DEF leaseVars, LeaseInv, LeaseTypeOK, TokensUnique, HasLease
<1> QED BY <1>1, <1>2, <1>3, <1>4, <1>5, <1>6 DEF LeaseNext, Call, AcquireRefused, RenewRefused

\* Rows and handles keep their types, and no token is ever given out twice
\* for a task: the sequence survives release, expiry and takeover.
THEOREM TokensNeverRepeat == LeaseSpec => []LeaseTypeOK /\ []TokensUnique
<1>1. LeaseInv => LeaseTypeOK /\ TokensUnique
  BY DEF LeaseInv
<1> QED BY <1>1, LeaseInitInv, LeaseNextInv, PTL DEF LeaseSpec

LEMMA OneHolderInv == LeaseInv => OneHolder
<1> SUFFICES ASSUME LeaseInv, NEW k \in Keys, NEW s \in Sessions, NEW t \in Sessions,
                    Current(s, k), Current(t, k)
             PROVE  s = t
  BY DEF OneHolder
<1> QED BY DEF LeaseInv, TokensUnique, Current, Owns

\* worker_lease_check never answers 'ok' to two sessions for one task.
THEOREM OneHolderCorrect == LeaseSpec => []OneHolder
  BY LeaseInitInv, LeaseNextInv, OneHolderInv, PTL DEF LeaseSpec

\* A lease that is no longer current stays so: a grant gives out a token this
\* session does not have, and only a current session's renewal moves a row's
\* time forward.
THEOREM LostStaysLost == LeaseSpec => NoRevival
<1>1. LeaseInv /\ [LeaseNext]_leaseVars =>
        \A s \in Sessions, k \in Keys :
          HasLease(s) /\ lease[s].key = k /\ ~Current(s, k) => ~Current(s, k)'
  <2> SUFFICES ASSUME LeaseInv, [LeaseNext]_leaseVars, NEW s \in Sessions, NEW k \in Keys,
                      HasLease(s), lease[s].key = k, ~Current(s, k)
               PROVE  ~Current(s, k)'
    OBVIOUS
  <2> USE DEF LeaseInv
  <2>1. /\ rows[k] \in RowType /\ lease[s].token \in Nat /\ lease[s].token <= rows[k].token
        /\ rows[k].token \in Nat /\ rows[k].left \in Nat
    BY RowTyped, HandleType DEF TokensUnique
  <2>2. ASSUME NEW r \in Sessions \ dead, NEW l \in Keys, NEW ttl \in Ttls, Acquire(r, l, ttl)
        PROVE  ~Current(s, k)'
    <3>1. r # s /\ lease'[s] = lease[s]
      BY <2>2 DEF Acquire, LeaseTypeOK
    <3>2. CASE l = k
      BY <2>1, <2>2, <3>1, <3>2 DEF Acquire, LeaseTypeOK, Current, Owns
    <3>3. CASE l # k
      BY <2>2, <3>1, <3>3 DEF Acquire, LeaseTypeOK, Current, Owns, HasLease, NoLease
    <3> QED BY <3>2, <3>3
  <2>3. ASSUME NEW r \in Sessions \ dead, NEW l \in Keys, NEW ttl \in Ttls, Renew(r, l, ttl)
        PROVE  ~Current(s, k)'
    <3>1. /\ lease' = lease
          /\ rows'[k].held = rows[k].held /\ rows'[k].worker = rows[k].worker
          /\ rows'[k].token = rows[k].token /\ (l # k => rows'[k] = rows[k])
      BY <2>3, RenewInv DEF Renew
    <3>2. CASE l = k
      <4>1. ~Owns(s, k)
        BY <2>3, <3>2 DEF Renew, Current, Owns, TokensUnique
      <4> QED BY <3>1, <4>1 DEF Current, Owns, HasLease, NoLease
    <3>3. CASE l # k
      BY <3>1, <3>3 DEF Current, Owns, HasLease, NoLease
    <3> QED BY <3>2, <3>3
  <2>4. ASSUME NEW r \in Sessions \ dead, NEW l \in Keys, Release(r, l)
        PROVE  ~Current(s, k)'
    <3>1. /\ lease' = lease
          /\ rows'[k].held => rows[k].held
          /\ rows'[k].worker = rows[k].worker
          /\ rows'[k].token = rows[k].token /\ rows'[k].left = rows[k].left
      BY <2>4, ReleaseInv DEF Release
    <3> QED BY <3>1 DEF Current, Owns, HasLease, NoLease
  <2>5. ASSUME Tick
        PROVE  ~Current(s, k)'
    <3>1. /\ lease' = lease
          /\ rows'[k].held = rows[k].held /\ rows'[k].worker = rows[k].worker
          /\ rows'[k].token = rows[k].token /\ rows'[k].left <= rows[k].left
      BY <2>5, TickInv DEF Tick
    <3>2. rows'[k].left > 0 => rows[k].left > 0
      <4>1. LeaseInv'
        BY <2>5, TickInv
      <4>2. rows'[k].left \in Nat
        BY <4>1 DEF LeaseTypeOK, RowType
      <4> QED BY <2>1, <3>1, <4>2
    <3> QED BY <3>1, <3>2 DEF Current, Owns, HasLease, NoLease
  <2>6. ASSUME lease' = lease, rows' = rows
        PROVE  ~Current(s, k)'
    BY <2>6 DEF Current, Owns, HasLease, NoLease
  <2> QED BY <2>2, <2>3, <2>4, <2>5, <2>6
          DEF LeaseNext, Call, AcquireRefused, RenewRefused, StopSession, leaseVars
<1> QED BY <1>1, LeaseInitInv, LeaseNextInv, PTL DEF LeaseSpec, NoRevival

\* A current lease ends only by its own session's release or by the clock:
\* whoever else calls does not own the row, because tokens are unique.
THEOREM CurrentLeaseIsKept == LeaseSpec => LeaseIsKept
<1>1. LeaseInv /\ [LeaseNext]_leaseVars =>
        \A s \in Sessions, k \in Keys :
          Current(s, k) /\ ~Current(s, k)' => s \in released' \/ rows[k].left = 1
  <2> SUFFICES ASSUME LeaseInv, [LeaseNext]_leaseVars, NEW s \in Sessions, NEW k \in Keys,
                      Current(s, k), ~Current(s, k)'
               PROVE  s \in released' \/ rows[k].left = 1
    OBVIOUS
  <2> USE DEF LeaseInv
  <2>1. rows[k].left \in Nat /\ rows[k].left > 0 /\ HasLease(s) /\ rows[k].held
    BY RowTyped DEF Current, Owns
  <2>2. ASSUME NEW r \in Sessions \ dead, NEW l \in Keys, NEW ttl \in Ttls, Acquire(r, l, ttl)
        PROVE  FALSE
    <3>1. l # k /\ r # s
      BY <2>1, <2>2 DEF Acquire, Free
    <3>2. lease'[s] = lease[s] /\ rows'[k] = rows[k]
      BY <2>2, <3>1 DEF Acquire, LeaseTypeOK
    <3> QED BY <3>2 DEF Current, Owns, HasLease, NoLease
  <2>3. ASSUME NEW r \in Sessions \ dead, NEW l \in Keys, NEW ttl \in Ttls, Renew(r, l, ttl)
        PROVE  FALSE
    <3>1. /\ lease' = lease
          /\ rows'[k].held = rows[k].held /\ rows'[k].worker = rows[k].worker
          /\ rows'[k].token = rows[k].token /\ (l # k => rows'[k] = rows[k])
      BY <2>3, RenewInv DEF Renew
    <3>2. l = k => rows'[k].left > 0
      BY <2>3, LeaseAssumption DEF Renew, LeaseTypeOK, RowType
    <3> QED BY <2>1, <3>1, <3>2 DEF Current, Owns, HasLease, NoLease
  <2>4. ASSUME NEW r \in Sessions \ dead, NEW l \in Keys, Release(r, l)
        PROVE  s \in released'
    <3>1. k = l /\ Owns(r, l)
      <4>1. lease' = lease
        BY <2>4 DEF Release
      <4>2. ~(k = l /\ Owns(r, l)) => rows'[k] = rows[k]
        BY <2>4, ReleaseInv
      <4> QED BY <4>1, <4>2 DEF Current, Owns, HasLease, NoLease
    <3>2. r = s
      BY <3>1 DEF TokensUnique, Current, Owns
    <3> QED BY <2>4, <3>2 DEF Release
  <2>5. ASSUME Tick
        PROVE  rows[k].left = 1
    <3>1. /\ lease' = lease
          /\ rows'[k].held = rows[k].held /\ rows'[k].worker = rows[k].worker
          /\ rows'[k].token = rows[k].token
      BY <2>5, TickInv DEF Tick
    <3>2. ~(rows'[k].left > 0)
      BY <2>1, <3>1 DEF Current, Owns, HasLease, NoLease
    <3>3. rows'[k].left = rows[k].left - 1
      BY <2>1, <2>5 DEF Tick, LeaseTypeOK, RowType
    <3> QED BY <2>1, <3>2, <3>3
  <2>6. ASSUME lease' = lease, rows' = rows
        PROVE  FALSE
    BY <2>6 DEF Current, Owns, HasLease, NoLease
  <2> QED BY <2>2, <2>3, <2>4, <2>5, <2>6
          DEF LeaseNext, Call, AcquireRefused, RenewRefused, StopSession, leaseVars
<1> QED BY <1>1, LeaseInitInv, LeaseNextInv, PTL DEF LeaseSpec, LeaseIsKept
-----------------------------------------------------------------------------
holdersBar == [k \in Keys |-> {s \in Sessions : Current(s, k)}]
tokenBar == [k \in Keys |-> rows[k].token]
fenceBar == [s \in Sessions |-> lease[s].token]

LEMMA InitMaps == LeaseInit => Promise!Init
  BY DEF LeaseInit, Promise!Init, Current, Owns, HasLease, NoLease, NoRow

LEMMA AcquireMaps ==
  ASSUME LeaseInv, NEW s \in Sessions, NEW k \in Keys, NEW ttl \in Ttls, Acquire(s, k, ttl)
  PROVE  Promise!Grant(s, k)
<1> USE DEF LeaseInv
<1>1. /\ lease'[s] = [key |-> k, token |-> rows[k].token + 1]
      /\ \A t \in Sessions \ {s} : lease'[t] = lease[t]
      /\ rows'[k] = [worker |-> WorkerOf[s], token |-> rows[k].token + 1, left |-> ttl, held |-> TRUE]
      /\ \A l \in Keys \ {k} : rows'[l] = rows[l]
  BY DEF Acquire, LeaseTypeOK
<1>2. rows[k].token \in Nat /\ ttl > 0
  BY RowTyped, LeaseAssumption
<1>3. fenceBar[s] = 0 /\ fenceBar' = [fenceBar EXCEPT ![s] = tokenBar[k] + 1]
  <2>1. \A t \in Sessions : fenceBar'[t] = IF t = s THEN tokenBar[k] + 1 ELSE fenceBar[t]
    BY <1>1 DEF fenceBar, tokenBar
  <2>2. fenceBar[s] = 0
    BY DEF fenceBar, Acquire, HasLease, NoLease
  <2>3. fenceBar' = [t \in Sessions |-> fenceBar'[t]] /\ fenceBar = [t \in Sessions |-> fenceBar[t]]
    BY DEF fenceBar
  <2> QED BY <2>1, <2>2, <2>3
<1>4. tokenBar' = [tokenBar EXCEPT ![k] = @ + 1]
  <2>1. \A l \in Keys : tokenBar'[l] = IF l = k THEN tokenBar[l] + 1 ELSE tokenBar[l]
    BY <1>1 DEF tokenBar
  <2> QED BY <2>1 DEF tokenBar
<1>5. holdersBar[k] = {}
  BY <1>2, RowTyped DEF holdersBar, Acquire, Free, Current, Owns
<1>6. ASSUME NEW t \in Sessions PROVE Current(t, k)' <=> t = s
  <2>1. CASE t = s
    BY <1>1, <1>2, <2>1 DEF Current, Owns, HasLease, NoLease
  <2>2. CASE t # s
    <3>1. HasLease(t) /\ lease[t].key = k => lease[t].token \in Nat /\ lease[t].token <= rows[k].token
      BY HandleType DEF TokensUnique
    <3> QED BY <1>1, <1>2, <2>2, <3>1 DEF Current, Owns, HasLease, NoLease
  <2> QED BY <2>1, <2>2
<1>7. ASSUME NEW t \in Sessions, NEW l \in Keys \ {k} PROVE Current(t, l)' <=> Current(t, l)
  <2>1. ~HasLease(s) /\ lease'[s].key # l
    BY <1>1 DEF Acquire
  <2> QED BY <1>1, <2>1 DEF Current, Owns, HasLease, NoLease
<1>8. holdersBar' = [holdersBar EXCEPT ![k] = {s}]
  <2>1. ASSUME NEW l \in Keys PROVE holdersBar'[l] = IF l = k THEN {s} ELSE holdersBar[l]
    BY <1>6, <1>7 DEF holdersBar
  <2> QED BY <2>1 DEF holdersBar
<1> QED BY <1>3, <1>4, <1>5, <1>8 DEF Promise!Grant, holdersBar, tokenBar, fenceBar

\* A step that takes no lease and gives none maps to the end of the leases
\* on K: none of its sessions stays current, and all others do.
LEMMA EndMaps ==
  ASSUME NEW K \in SUBSET Keys, lease' = lease, \A k \in Keys : rows'[k].token = rows[k].token,
         \A s \in Sessions, k \in Keys : Current(s, k)' <=> k \notin K /\ Current(s, k)
  PROVE  Promise!End(K)
  BY DEF Promise!End

\* The rows, with their clock, renewals and late releases, implement the
\* time-free lease: every step is a grant, an end of leases, or nothing.
THEOREM ImplementsFencedLease == LeaseSpec => FencedLeaseSpec
<1>1. LeaseInv /\ [LeaseNext]_leaseVars => [Promise!Next]_(Promise!vars)
  <2> SUFFICES ASSUME LeaseInv, [LeaseNext]_leaseVars PROVE Promise!Next \/ UNCHANGED Promise!vars
    OBVIOUS
  <2>1. ASSUME NEW s \in Sessions \ dead, NEW k \in Keys, NEW ttl \in Ttls, Acquire(s, k, ttl)
        PROVE  Promise!Next
    BY <2>1, AcquireMaps DEF Promise!Next
  <2>2. ASSUME NEW s \in Sessions \ dead, NEW k \in Keys, NEW ttl \in Ttls, Renew(s, k, ttl)
        PROVE  Promise!Next
    <3>1. /\ LeaseInv' /\ lease' = lease
          /\ \A l \in Keys : rows'[l].token = rows[l].token /\ (l # k => rows'[l] = rows[l])
          /\ rows'[k].held = rows[k].held /\ rows'[k].worker = rows[k].worker
      BY <2>2, RenewInv DEF Renew
    <3>2. rows'[k].left > 0
      BY <2>2, LeaseAssumption DEF Renew, LeaseInv, LeaseTypeOK, RowType
    <3>3. rows[k].left > 0
      BY <2>2 DEF Renew, Current
    <3>4. \A t \in Sessions, l \in Keys : Current(t, l)' <=> l \notin {} /\ Current(t, l)
      BY <3>1, <3>2, <3>3 DEF Current, Owns, HasLease, NoLease
    <3>5. Promise!End({})
      BY <3>1, <3>4, EndMaps
    <3> QED BY <3>5 DEF Promise!Next
  <2>3. ASSUME NEW s \in Sessions \ dead, NEW k \in Keys, Release(s, k)
        PROVE  Promise!Next
    <3> DEFINE K == IF Owns(s, k) THEN {k} ELSE {}
    <3>1. /\ lease' = lease /\ \A l \in Keys : rows'[l].token = rows[l].token
          /\ \A l \in Keys \ K : rows'[l] = rows[l]
      BY <2>3, ReleaseInv DEF Release
    <3>2. \A l \in K : ~rows'[l].held
      BY <2>3 DEF Release, LeaseInv, LeaseTypeOK, RowType
    <3>3. \A t \in Sessions, l \in Keys : Current(t, l)' <=> l \notin K /\ Current(t, l)
      <4> HIDE DEF K
      <4> QED BY <3>1, <3>2 DEF Current, Owns, HasLease, NoLease
    <3>4. Promise!End(K)
      BY <3>1, <3>3, EndMaps
    <3> QED BY <3>4 DEF Promise!Next
  <2>4. ASSUME Tick
        PROVE  Promise!Next
    <3> DEFINE K == {l \in Keys : ~(rows'[l].left > 0)}
    <3>1. /\ LeaseInv' /\ lease' = lease
          /\ \A l \in Keys : /\ rows'[l].held = rows[l].held /\ rows'[l].worker = rows[l].worker
                             /\ rows'[l].token = rows[l].token /\ rows'[l].left <= rows[l].left
      BY <2>4, TickInv DEF Tick
    <3>2. \A l \in Keys \ K : rows[l].left > 0
      BY <3>1, RowTyped DEF LeaseInv, LeaseTypeOK, RowType
    <3>3. \A t \in Sessions, l \in Keys : Current(t, l)' <=> l \notin K /\ Current(t, l)
      BY <3>1, <3>2 DEF Current, Owns, HasLease, NoLease
    <3>4. Promise!End(K)
      BY <3>1, <3>3, EndMaps
    <3> QED BY <3>4 DEF Promise!Next
  <2>5. ASSUME lease' = lease, rows' = rows
        PROVE  UNCHANGED Promise!vars
    BY <2>5 DEF Promise!vars, Current, Owns, HasLease, NoLease
  <2> QED BY <2>1, <2>2, <2>3, <2>4, <2>5
          DEF LeaseNext, Call, AcquireRefused, RenewRefused, StopSession, leaseVars
<1> QED BY <1>1, InitMaps, LeaseInitInv, LeaseNextInv, PTL DEF LeaseSpec, FencedLeaseSpec, Promise!Spec

(***************************************************************************)
(* CanonicalDelivery.                                                      *)
(***************************************************************************)

\* Deliveries are numbered in the order of their creation.
Made(d) == del[d].state # "none"
MadeInOrder == \A c, d \in Deliveries : c < d /\ Made(d) => Made(c)

\* A delivery that is not superseded is the newest of its run.
Open(d) == del[d].state \in {"pending", "launching", "running"}
Newest == \A c, d \in Deliveries : Open(d) /\ Made(c) /\ RunOf(c) = RunOf(d) => c <= d

DeliveryOK(d) ==
  /\ IF Made(d) THEN RunOf(d) \in Runs /\ row[RunOf(d)].status # "absent"
     ELSE del[d] = NoDelivery /\ launcher[d] = {}
  /\ del[d].live => Open(d)
  /\ del[d].state \in {"pending", "launching"} /\ row[RunOf(d)].status = "running"
       => row[RunOf(d)].gen = NULL
  /\ del[d].result => del[d].worker # NULL

\* Who may start over has nobody's work before him.
FreshAlone ==
  \A c, d \in Deliveries : Made(c) /\ c < d /\ RunOf(c) = RunOf(d) /\ del[d].fresh
    => del[c].worker = NULL

JobOK(j) ==
  /\ job[j].at \in {"started", "working", "closing", "recording"} =>
       job[j].del \in Deliveries /\ Made(job[j].del)
  /\ job[j].at \in {"none", "started", "working"} => job[j].status = "absent"
  /\ job[j].at = "recording" => job[j].status = "complete"
  /\ job[j].at = "closing" => job[j].status \in {"complete", "error"}

\* A heartbeat comes from a generation.
BeatOK == \A r \in Runs : row[r].beat = "again" => row[r].gen # NULL

\* Launches and workers that have been heard of all the time.
Prompt == {d \in Counted : row[RunOf(d)].beat # "again"}
PromptFits == Cardinality(Prompt) <= LaunchCapacity

DeliveryInv ==
  /\ TypeOK /\ MadeInOrder /\ Newest /\ FreshAlone /\ BeatOK /\ ResultStands
  /\ \A d \in Deliveries : DeliveryOK(d)
  /\ \A j \in Jobs : JobOK(j)
  /\ PromptFits

-----------------------------------------------------------------------------
(* Types, and how the parts of the invariant change. *)

RunRow ==
  [status : RunStatus \union {"absent"}, gen : Gens, worker : Gens,
   beat : {"none", "fresh", "late", "again"}, seq : {0}, out : Gens, ended : Gens]
DelRow ==
  [state : {"none", "pending", "launching", "running", "superseded"},
   run : Runs \union {NULL}, fresh : BOOLEAN, live : BOOLEAN, tries : 0..MaxLaunches,
   worker : Gens, result : BOOLEAN]
Launches == [token : 1..MaxLaunches, step : {"launch", "record"}]
JobRow ==
  [at : {"none", "started", "working", "closing", "recording", "over"},
   del : Deliveries \union {NULL}, status : {"absent", "complete", "error"}]

LEMMA DeliveryTypes ==
  ASSUME TypeOK
  PROVE  /\ row \in [Runs -> RunRow] /\ del \in [Deliveries -> DelRow]
         /\ task \in [Deliveries -> {"none", "queued", "delivered"}]
         /\ launcher \in [Deliveries -> SUBSET Launches] /\ job \in [Jobs -> JobRow]
  BY DEF TypeOK, RunRow, DelRow, Launches, JobRow

LEMMA NumbersTyped ==
  /\ \A j \in Jobs : j \in Gens /\ j # NULL
  /\ \A r \in Runs : r # NULL
  /\ \A d \in Deliveries : d \in Nat /\ d # NULL
  /\ NULL \in Gens
  BY DeliveryAssumption DEF Jobs, Runs, Deliveries, Gens, NULL

\* A delivery that has something belongs to a run.
LEMMA MadeOnes ==
  ASSUME DeliveryInv, NEW d \in Deliveries,
         Open(d) \/ del[d].fresh \/ del[d].worker # NULL \/ del[d].result \/ del[d].run # NULL
  PROVE  Made(d) /\ RunOf(d) \in Runs /\ row[RunOf(d)].status # "absent"
<1>1. DeliveryOK(d)
  BY DEF DeliveryInv
<1>2. Made(d)
  BY <1>1 DEF DeliveryOK, Made, Open, NoDelivery
<1> QED BY <1>1, <1>2 DEF DeliveryOK

\* Only one delivery of a run is open.
LEMMA OpenIsUnique ==
  ASSUME DeliveryInv, NEW c \in Deliveries, NEW d \in Deliveries,
         Open(c), Open(d), RunOf(c) = RunOf(d)
  PROVE  c = d
<1>1. Made(c) /\ Made(d)
  BY MadeOnes
<1>2. c <= d /\ d <= c
  BY <1>1 DEF DeliveryInv, Newest
<1> QED BY <1>2, NumbersTyped

-----------------------------------------------------------------------------
(* What holds after a step that leaves much alone. *)

\* A job moves; what was complete stays so.
JobsMove ==
  /\ job' \in [Jobs -> JobRow]
  /\ \A j \in Jobs : job[j].status = "complete" => job'[j].status = "complete"
  /\ \A j \in Jobs : job'[j] = job[j] \/ JobOK(j)'

MadeStays == \A d \in Deliveries : Made(d) => Made(d)'

LEMMA JobsKept ==
  ASSUME DeliveryInv, JobsMove, MadeStays
  PROVE  \A j \in Jobs : JobOK(j)'
<1> SUFFICES ASSUME NEW j \in Jobs, job'[j] = job[j] PROVE JobOK(j)'
  BY DEF JobsMove
<1>1. JobOK(j)
  BY DEF DeliveryInv
<1> QED BY <1>1 DEF JobOK, MadeStays

\* Completed runs and results are left alone.
Stands(r) == row[r].status = "complete" => row'[r].status = "complete" /\ row'[r].gen = row[r].gen
RowsStand == \A r \in Runs : Stands(r)
ResultsSame ==
  \A d \in Deliveries :
    /\ del'[d].result => del[d].result
    /\ del[d].result => del'[d].run = del[d].run /\ del'[d].worker = del[d].worker

LEMMA ResultsKept ==
  ASSUME DeliveryInv, JobsMove, RowsStand, ResultsSame
  PROVE  ResultStands'
<1> SUFFICES ASSUME NEW d \in Deliveries, del'[d].result
             PROVE  /\ row'[RunOf(d)'].status = "complete"
                    /\ row'[RunOf(d)'].gen = del'[d].worker
                    /\ job'[row'[RunOf(d)'].gen].status = "complete"
  BY DEF ResultStands
<1>1. del[d].result /\ RunOf(d)' = RunOf(d) /\ del'[d].worker = del[d].worker
  BY DEF ResultsSame, RunOf
<1>2. RunOf(d) \in Runs /\ del[d].worker \in Jobs
  <2>1. RunOf(d) \in Runs
    BY <1>1, MadeOnes
  <2>2. DeliveryOK(d) /\ del[d].worker \in Gens
    BY DeliveryTypes DEF DeliveryInv, DelRow
  <2> QED BY <1>1, <2>1, <2>2, DeliveryAssumption DEF DeliveryOK, Gens, Jobs, NULL
<1>3. /\ row[RunOf(d)].status = "complete" /\ row[RunOf(d)].gen = del[d].worker
      /\ job[del[d].worker].status = "complete"
  BY <1>1 DEF DeliveryInv, ResultStands
<1> QED BY <1>1, <1>2, <1>3 DEF RowsStand, Stands, JobsMove

\* Nothing is counted that was not.
LEMMA FewerPrompt ==
  ASSUME DeliveryInv, Prompt' \subseteq Prompt
  PROVE  PromptFits'
<1>1. IsFiniteSet(Deliveries)
  BY FS_Interval, DeliveryAssumption DEF Deliveries
<1>2. Prompt \subseteq Deliveries
  BY DEF Prompt, Counted
<1>3. IsFiniteSet(Prompt)
  BY <1>1, <1>2, FS_Subset
<1>4. Cardinality(Prompt') <= Cardinality(Prompt) /\ Cardinality(Prompt) \in Nat
  BY <1>3, FS_Subset, FS_CardinalityType
<1>5. Cardinality(Prompt') \in Nat
  BY <1>3, FS_Subset, FS_CardinalityType
<1>6. LaunchCapacity \in Nat
  BY DeliveryAssumption
<1> QED BY <1>4, <1>5, <1>6 DEF PromptFits, DeliveryInv

-----------------------------------------------------------------------------
\* Steps of the queue, of the dispatcher's calls and of a job by itself.
QuietStep ==
  /\ row' = row /\ del' = del
  /\ task' \in [Deliveries -> {"none", "queued", "delivered"}]
  /\ launcher' \in [Deliveries -> SUBSET Launches]
  /\ \A d \in Deliveries : Made(d) \/ launcher'[d] = launcher[d]
  /\ JobsMove

LEMMA QuietKeeps == ASSUME DeliveryInv, QuietStep PROVE DeliveryInv'
<1> USE DEF QuietStep
<1>1. TypeOK'
  BY DeliveryTypes DEF DeliveryInv, TypeOK, Launches, JobsMove, JobRow
<1>2. MadeInOrder' /\ Newest' /\ FreshAlone' /\ BeatOK'
  BY DEF DeliveryInv, MadeInOrder, Newest, FreshAlone, BeatOK, Made, Open, RunOf
<1>3. ResultStands'
  BY ResultsKept DEF RowsStand, Stands, ResultsSame
<1>4. ASSUME NEW d \in Deliveries PROVE DeliveryOK(d)'
  BY DEF DeliveryInv, DeliveryOK, Made, Open, RunOf
<1>5. \A j \in Jobs : JobOK(j)'
  BY JobsKept DEF MadeStays, Made
<1>6. Prompt' = Prompt
  BY DEF Prompt, Counted, Launching, WorkedOn, RunOf
<1>7. PromptFits'
  BY <1>6, FewerPrompt
<1> QED BY <1>1, <1>2, <1>3, <1>4, <1>5, <1>7 DEF DeliveryInv

\* A step on the row of one run: no run is completed over another end, none
\* begins to run, and who was silent is not prompt again.
RowStep(r) ==
  /\ row' \in [Runs -> RunRow] /\ \A i \in Runs \ {r} : row'[i] = row[i]
  /\ Stands(r)
  /\ row[r].status # "absent" => row'[r].status # "absent"
  /\ row'[r].status = "running" =>
       /\ row[r].status = "running"
       /\ row'[r].gen = row[r].gen /\ row'[r].worker = row[r].worker
  /\ row'[r].beat = "again" => row'[r].gen # NULL
  /\ row'[r].status = "running" /\ row'[r].beat = "fresh" => row[r].beat = "fresh"
  /\ row'[r].status = "running" /\ row'[r].beat = "none" => row[r].beat = "none"
  /\ UNCHANGED <<del, task, launcher>> /\ JobsMove

LEMMA RowKeeps == ASSUME DeliveryInv, NEW r \in Runs, RowStep(r) PROVE DeliveryInv'
<1>1. TypeOK'
  BY DeliveryTypes DEF DeliveryInv, TypeOK, RowStep, RunRow, JobsMove, JobRow
<1>2. MadeInOrder' /\ Newest' /\ FreshAlone'
  BY DEF DeliveryInv, MadeInOrder, Newest, FreshAlone, Made, Open, RunOf, RowStep
<1>3. BeatOK'
  BY DEF DeliveryInv, BeatOK, RowStep
<1>4. ResultStands'
  BY ResultsKept DEF RowsStand, Stands, ResultsSame, RowStep
<1>5. ASSUME NEW d \in Deliveries PROVE DeliveryOK(d)'
  <2>1. DeliveryOK(d) /\ del' = del /\ launcher' = launcher
    BY DEF DeliveryInv, RowStep
  <2>2. CASE Made(d)
    <3>1. RunOf(d) \in Runs
      BY <2>1, <2>2 DEF DeliveryOK
    <3>2. row[RunOf(d)].status # "absent" => row'[RunOf(d)].status # "absent"
      BY <3>1 DEF RowStep
    <3>3. row'[RunOf(d)].status = "running" =>
            row[RunOf(d)].status = "running" /\ row'[RunOf(d)].gen = row[RunOf(d)].gen
      BY <3>1 DEF RowStep
    <3> QED BY <2>1, <2>2, <3>1, <3>2, <3>3 DEF DeliveryOK, Made, Open, RunOf
  <2>3. CASE ~Made(d)
    BY <2>1, <2>3 DEF DeliveryOK, Made, Open, NoDelivery
  <2> QED BY <2>2, <2>3
<1>6. \A j \in Jobs : JobOK(j)'
  BY JobsKept DEF MadeStays, Made, RowStep
<1>7. ASSUME NEW d \in Prompt' PROVE d \in Prompt
  <2>1. /\ d \in Deliveries /\ del' = del /\ RunOf(d)' = RunOf(d)
        /\ row'[RunOf(d)].status = "running" /\ row'[RunOf(d)].beat # "again"
        /\ (Launching(d) \/ WorkedOn(d)')
    BY <1>7 DEF Prompt, Counted, Launching, RunOf, RowStep
  <2>2. Open(d) /\ Made(d) /\ RunOf(d) \in Runs
    <3>1. Open(d)
      BY <2>1 DEF Launching, WorkedOn, Open
    <3> QED BY <2>1, <3>1, MadeOnes
  <2>3. /\ row[RunOf(d)].status = "running"
        /\ row'[RunOf(d)].gen = row[RunOf(d)].gen /\ row'[RunOf(d)].worker = row[RunOf(d)].worker
    BY <2>1, <2>2 DEF RowStep
  <2>4. row'[RunOf(d)].beat \in {"none", "fresh", "late"}
    BY <1>1, <2>1, <2>2, DeliveryTypes DEF RunRow, RowStep
  <2>5. row'[RunOf(d)].beat = "late" \/ row[RunOf(d)].beat = row'[RunOf(d)].beat
    BY <2>1, <2>2, <2>4 DEF RowStep
  <2>6. Launching(d) => row[RunOf(d)].beat # "again"
    <3>1. DeliveryOK(d) /\ (row[RunOf(d)].beat = "again" => row[RunOf(d)].gen # NULL)
      BY <2>1, <2>2 DEF DeliveryInv, BeatOK
    <3> QED BY <2>3, <3>1 DEF DeliveryOK, Launching
  <2>7. del[d].run # NULL
    BY <2>2, NumbersTyped DEF RunOf
  <2>8. CASE Launching(d)
    BY <2>1, <2>3, <2>6, <2>7, <2>8 DEF Prompt, Counted
  <2>9. CASE WorkedOn(d)'
    <3>1. /\ del[d].state = "running" /\ row'[RunOf(d)].worker = del[d].worker
          /\ row'[RunOf(d)].gen = del[d].worker /\ row'[RunOf(d)].beat # "late"
      BY <2>1, <2>9 DEF WorkedOn
    <3>2. WorkedOn(d) /\ row[RunOf(d)].beat # "again"
      BY <2>1, <2>3, <2>5, <3>1 DEF WorkedOn
    <3> QED BY <2>1, <2>3, <2>7, <3>2 DEF Prompt, Counted
  <2> QED BY <2>1, <2>8, <2>9
<1>8. PromptFits'
  BY <1>7, FewerPrompt
<1> QED BY <1>1, <1>2, <1>3, <1>4, <1>5, <1>6, <1>8 DEF DeliveryInv

-----------------------------------------------------------------------------
(* The steps of the queue and of the dispatcher's calls. *)

LEMMA JobsStill == ASSUME DeliveryInv, job' = job PROVE JobsMove
  BY DeliveryTypes DEF DeliveryInv, JobsMove

LEMMA DispatchKeeps == ASSUME DeliveryInv, NEW d \in Deliveries, Dispatch(d) PROVE DeliveryInv'
<1>1. QuietStep
  BY JobsStill, DeliveryTypes DEF DeliveryInv, Dispatch, QuietStep
<1> QED BY <1>1, QuietKeeps

LEMMA AcknowledgeKeeps ==
  ASSUME DeliveryInv, NEW d \in Deliveries, Acknowledge(d) PROVE DeliveryInv'
<1>1. QuietStep
  BY JobsStill, DeliveryTypes DEF DeliveryInv, Acknowledge, QuietStep
<1> QED BY <1>1, QuietKeeps

\* A call that is on its way belongs to a delivery.
LEMMA CalledIsMade ==
  ASSUME DeliveryInv, NEW d \in Deliveries, NEW c \in launcher[d]
  PROVE  Made(d) /\ c \in Launches
<1>1. DeliveryOK(d) /\ launcher[d] \in SUBSET Launches
  BY DeliveryTypes DEF DeliveryInv
<1> QED BY <1>1 DEF DeliveryOK

\* What happens to the calls of a delivery.
LEMMA CallsMove ==
  ASSUME DeliveryInv, NEW d \in Deliveries, Made(d), NEW calls \in SUBSET Launches,
         launcher' = [launcher EXCEPT ![d] = calls]
  PROVE  /\ launcher' \in [Deliveries -> SUBSET Launches]
         /\ \A e \in Deliveries : Made(e) \/ launcher'[e] = launcher[e]
  BY DeliveryTypes DEF DeliveryInv

LEMMA LaunchFailsKeeps ==
  ASSUME DeliveryInv, NEW d \in Deliveries, NEW c \in launcher[d], LaunchFails(d, c)
  PROVE  DeliveryInv'
<1>1. Made(d) /\ launcher[d] \ {c} \in SUBSET Launches
  BY CalledIsMade, DeliveryTypes DEF DeliveryInv
<1>2. launcher' = [launcher EXCEPT ![d] = launcher[d] \ {c}]
  BY DEF LaunchFails, Without
<1>3. QuietStep
  BY <1>1, <1>2, CallsMove, JobsStill, DeliveryTypes DEF DeliveryInv, LaunchFails, QuietStep
<1> QED BY <1>3, QuietKeeps

LEMMA RecordLaunchKeeps ==
  ASSUME DeliveryInv, NEW d \in Deliveries, NEW c \in launcher[d], RecordLaunch(d, c)
  PROVE  DeliveryInv'
<1>1. Made(d) /\ launcher[d] \ {c} \in SUBSET Launches
  BY CalledIsMade, DeliveryTypes DEF DeliveryInv
<1>2. launcher' = [launcher EXCEPT ![d] = launcher[d] \ {c}]
  BY DEF RecordLaunch, Without
<1>3. task' \in [Deliveries -> {"none", "queued", "delivered"}]
  BY DeliveryTypes DEF DeliveryInv, RecordLaunch
<1>4. QuietStep
  BY <1>1, <1>2, <1>3, CallsMove, JobsStill DEF RecordLaunch, QuietStep
<1> QED BY <1>4, QuietKeeps

LEMMA LaunchKeeps ==
  ASSUME DeliveryInv, NEW d \in Deliveries, NEW c \in launcher[d], Launch(d, c)
  PROVE  DeliveryInv'
<1>1. Made(d) /\ c \in Launches /\ launcher[d] \in SUBSET Launches
  BY CalledIsMade, DeliveryTypes DEF DeliveryInv
<1>2. [c EXCEPT !.step = "record"] \in Launches
  BY <1>1 DEF Launches
<1>3. \E calls \in SUBSET Launches : launcher' = [launcher EXCEPT ![d] = calls]
  <2>1. CASE Without(d, c)
    BY <1>1, <2>1 DEF Without
  <2>2. CASE launcher' = [launcher EXCEPT ![d] = (@ \ {c}) \union {[c EXCEPT !.step = "record"]}]
    <3>1. (launcher[d] \ {c}) \union {[c EXCEPT !.step = "record"]} \in SUBSET Launches
      BY <1>1, <1>2
    <3> QED BY <2>2, <3>1
  <2> QED BY <2>1, <2>2 DEF Launch
<1>4. JobsMove
  <2>1. PICK j \in Jobs :
          NextJob(j) /\ job' = [job EXCEPT ![j] = [NoJob EXCEPT !.at = "started", !.del = d]]
    BY DEF Launch
  <2>2. job \in [Jobs -> JobRow] /\ JobOK(j) /\ job[j].at = "none"
    BY <2>1, DeliveryTypes DEF DeliveryInv, NextJob
  <2>3. [NoJob EXCEPT !.at = "started", !.del = d] \in JobRow
    BY DEF NoJob, JobRow
  <2>4. /\ job' \in [Jobs -> JobRow] /\ \A i \in Jobs \ {j} : job'[i] = job[i]
        /\ job'[j].at = "started" /\ job'[j].del = d /\ job'[j].status = "absent"
    BY <2>1, <2>2, <2>3 DEF NoJob
  <2>5. JobOK(j)' /\ job[j].status # "complete"
    BY <1>1, <2>2, <2>4 DEF JobOK, Made, Launch
  <2> QED BY <2>4, <2>5 DEF JobsMove
<1>5. QuietStep
  BY <1>1, <1>3, <1>4, CallsMove, DeliveryTypes DEF DeliveryInv, Launch, QuietStep
<1> QED BY <1>5, QuietKeeps

-----------------------------------------------------------------------------
(* The steps of a job. *)

LEMMA ExitMoves == ASSUME DeliveryInv, NEW j \in Jobs, Exit(j) PROVE JobsMove
<1>1. job \in [Jobs -> JobRow] /\ job[j] \in JobRow
  BY DeliveryTypes DEF DeliveryInv
<1> DEFINE status == IF job[j].status = "complete" THEN "complete" ELSE "absent"
           over == [NoJob EXCEPT !.at = "over", !.status = status]
<1>2. /\ job' = [job EXCEPT ![j] = over] /\ over \in JobRow /\ over.at = "over"
      /\ job[j].status = "complete" => over.status = "complete"
  <2>1. status \in {"absent", "complete"}
    OBVIOUS
  <2>2. over \in JobRow /\ over.at = "over" /\ over.status = status
    <3> HIDE DEF status
    <3> QED BY <2>1 DEF NoJob, JobRow
  <2> QED BY <2>2 DEF Exit
<1>3. job' \in [Jobs -> JobRow] /\ job'[j] = over /\ \A i \in Jobs \ {j} : job'[i] = job[i]
  BY <1>1, <1>2
<1>4. JobOK(j)'
  BY <1>3 DEF JobOK
<1> QED BY <1>2, <1>3, <1>4 DEF JobsMove

\* A job that goes on with its run.
LEMMA GoesOn ==
  ASSUME DeliveryInv, MadeStays, NEW j \in Jobs,
         job[j].at \in {"started", "working", "closing"},
         NEW at \in {"working", "closing", "recording"},
         NEW status \in {"absent", "complete", "error"},
         job' = [job EXCEPT ![j].at = at, ![j].status = status],
         job[j].status = "complete" => status = "complete",
         at = "working" => status = "absent",
         at = "recording" => status = "complete",
         at = "closing" => status \in {"complete", "error"}
  PROVE  JobsMove
<1>1. job \in [Jobs -> JobRow] /\ JobOK(j)
  BY DeliveryTypes DEF DeliveryInv
<1>2. /\ job' \in [Jobs -> JobRow] /\ \A i \in Jobs \ {j} : job'[i] = job[i]
      /\ job'[j].at = at /\ job'[j].status = status /\ job'[j].del = job[j].del
  BY <1>1 DEF JobRow
<1>3. JobOK(j)'
  BY <1>1, <1>2 DEF JobOK, MadeStays
<1> QED BY <1>2, <1>3 DEF JobsMove

LEMMA GoMoves ==
  ASSUME DeliveryInv, NEW j \in Jobs, NEW at, Go(j, at)
  PROVE  job' = [job EXCEPT ![j].at = at, ![j].status = job[j].status]
<1>1. job \in [Jobs -> JobRow]
  BY DeliveryTypes DEF DeliveryInv
<1> QED BY <1>1 DEF Go, JobRow

LEMMA EndKeeps == ASSUME DeliveryInv, NEW j \in Jobs, End(j) PROVE DeliveryInv'
<1>1. JobOK(j) /\ MadeStays
  BY DEF DeliveryInv, End, MadeStays, Made
<1>2. JobsMove
  BY <1>1, GoesOn DEF End, JobOK
<1>3. QuietStep
  BY <1>2, DeliveryTypes DEF DeliveryInv, End, QuietStep
<1> QED BY <1>3, QuietKeeps

LEMMA JobDiesKeeps == ASSUME DeliveryInv, NEW j \in Jobs, Crash(j) PROVE DeliveryInv'
<1>1. QuietStep
  BY ExitMoves, DeliveryTypes DEF DeliveryInv, Crash, QuietStep
<1> QED BY <1>1, QuietKeeps

\* A job writes to the row of the run of its delivery.
LEMMA SetRowWrites ==
  ASSUME DeliveryInv, NEW j \in Jobs, job[j].at \in {"started", "working", "closing", "recording"},
         NEW x \in RunRow, SetRow(j, x)
  PROVE  LET r == RunOf(job[j].del)
         IN /\ r \in Runs /\ Row(j) = row[r] /\ row[r].status # "absent"
            /\ row' \in [Runs -> RunRow] /\ row'[r] = x
            /\ \A i \in Runs \ {r} : row'[i] = row[i]
<1>1. job[j].del \in Deliveries /\ Made(job[j].del)
  BY DEF DeliveryInv, JobOK
<1>2. RunOf(job[j].del) \in Runs /\ row[RunOf(job[j].del)].status # "absent"
  BY <1>1 DEF DeliveryInv, DeliveryOK
<1>3. row \in [Runs -> RunRow]
  BY DeliveryTypes DEF DeliveryInv
<1> QED BY <1>2, <1>3 DEF SetRow, Row

-----------------------------------------------------------------------------
(* The steps on the row of a run. *)

\* A run that ends, or a snapshot that the row repeats.
LEMMA EndsRow ==
  ASSUME DeliveryInv, NEW r \in Runs, NEW x \in RunRow, row[r].status # "absent",
         row' = [row EXCEPT ![r] = x], UNCHANGED <<del, task, launcher>>, JobsMove,
         \/ x = row[r]
         \/ /\ row[r].status # "complete"
            /\ x.status \in {"complete", "error", "cancelled"} /\ x.beat = "none"
  PROVE  DeliveryInv'
<1>1. row \in [Runs -> RunRow]
  BY DeliveryTypes DEF DeliveryInv
<1>2. /\ row' \in [Runs -> RunRow] /\ row'[r] = x /\ \A i \in Runs \ {r} : row'[i] = row[i]
  BY <1>1
<1>3. CASE x = row[r]
  <2>1. RowStep(r)
    BY <1>2, <1>3 DEF DeliveryInv, BeatOK, RowStep, Stands
  <2> QED BY <2>1, RowKeeps
<1>4. CASE /\ row[r].status # "complete"
           /\ x.status \in {"complete", "error", "cancelled"} /\ x.beat = "none"
  <2>1. RowStep(r)
    BY <1>2, <1>4 DEF RowStep, Stands
  <2> QED BY <2>1, RowKeeps
<1> QED BY <1>3, <1>4

LEMMA StoppedRow ==
  ASSUME NEW r \in RunRow, NEW status \in Resumable
  PROVE  /\ Stopped(r, status, 0) \in RunRow
         /\ Stopped(r, status, 0).status = status /\ Stopped(r, status, 0).beat = "none"
  BY NumbersTyped DEF RunRow, Resumable, RunStatus, Stopped, NULL

LEMMA StopKeeps ==
  ASSUME DeliveryInv, NEW r \in Runs, NEW status \in Resumable, row[r].status = "running",
         row' = [row EXCEPT ![r] = Stopped(row[r], status, 0)],
         UNCHANGED <<del, task, launcher, job>>
  PROVE  DeliveryInv'
<1>1. row[r] \in RunRow
  BY DeliveryTypes DEF DeliveryInv
<1> QED BY <1>1, StoppedRow, JobsStill, EndsRow DEF Resumable

LEMMA ReconcileKeeps == ASSUME DeliveryInv, NEW r \in Runs, Reconcile(r) PROVE DeliveryInv'
  BY StopKeeps DEF Reconcile, Reconcilable, NeverStarted, WorkerLost, Resumable

LEMMA CancelKeeps == ASSUME DeliveryInv, NEW r \in Runs, Cancel(r) PROVE DeliveryInv'
  BY StopKeeps DEF Cancel, Resumable

LEMMA DeadlineKeeps == ASSUME DeliveryInv, NEW j \in Jobs, Deadline(j) PROVE DeliveryInv'
<1>1. job[j].del \in Deliveries /\ Made(job[j].del)
  BY DEF DeliveryInv, JobOK, Deadline
<1>2. RunOf(job[j].del) \in Runs
  BY <1>1 DEF DeliveryInv, DeliveryOK
<1> QED BY <1>2, StopKeeps DEF Deadline, Row, SetRow, Resumable

LEMMA LateKeeps == ASSUME DeliveryInv, NEW r \in Runs, Late(r) PROVE DeliveryInv'
<1>1. row \in [Runs -> RunRow]
  BY DeliveryTypes DEF DeliveryInv
<1>2. PICK x \in RunRow :
        /\ row' = [row EXCEPT ![r] = x] /\ x.status = row[r].status /\ x.gen = row[r].gen
        /\ x.worker = row[r].worker /\ x.beat = "late"
  <2>1. [row[r] EXCEPT !.beat = "late"] \in RunRow
    BY <1>1 DEF RunRow
  <2> QED BY <1>1, <2>1 DEF Late, RunRow
<1>3. /\ row' \in [Runs -> RunRow] /\ row'[r] = x /\ \A i \in Runs \ {r} : row'[i] = row[i]
  BY <1>1, <1>2
<1>4. RowStep(r)
  BY <1>2, <1>3, JobsStill DEF Late, RowStep, Stands
<1> QED BY <1>4, RowKeeps

LEMMA HeartbeatKeeps == ASSUME DeliveryInv, NEW j \in Jobs, Heartbeat(j) PROVE DeliveryInv'
<1> DEFINE r == RunOf(job[j].del)
           x == [row[r] EXCEPT !.beat = "again"]
<1>1. row \in [Runs -> RunRow] /\ job[j].del \in Deliveries /\ Made(job[j].del)
  BY DeliveryTypes DEF DeliveryInv, JobOK, Heartbeat, Beats
<1>2. r \in Runs /\ row[r].gen = j /\ row[r].status = "running" /\ row[r].beat = "late"
  BY <1>1 DEF DeliveryInv, DeliveryOK, Heartbeat, CanBeat, Row
<1>3. /\ x \in RunRow /\ x.status = row[r].status /\ x.gen = row[r].gen
      /\ x.worker = row[r].worker /\ x.beat = "again"
  BY <1>1, <1>2 DEF RunRow
<1>4. SetRow(j, x)
  BY DEF Heartbeat, Row
<1> HIDE DEF x
<1>5. /\ row' \in [Runs -> RunRow] /\ row'[r] = x /\ \A i \in Runs \ {r} : row'[i] = row[i]
  BY <1>1, <1>2, <1>3, <1>4 DEF SetRow
<1>6. RowStep(r)
  BY <1>2, <1>3, <1>5, JobsStill, NumbersTyped DEF Heartbeat, RowStep, Stands
<1> QED BY <1>2, <1>6, RowKeeps

LEMMA FinalRow ==
  ASSUME NEW r \in RunRow, NEW w \in Gens,
         NEW s \in [status : {"complete", "error"}, seq : {0}, ended : Gens, out : Gens]
  PROVE  /\ Persisted(r, w, s) \in RunRow
         /\ \/ Persisted(r, w, s) = r
            \/ Persisted(r, w, s).status = s.status /\ Persisted(r, w, s).beat = "none"
<1>1. CASE Repeats(r, s)
  BY <1>1 DEF Persisted
<1>2. CASE ~Repeats(r, s)
  <2>1. Persisted(r, w, s) = [r EXCEPT !.status = s.status, !.seq = s.seq, !.out = s.out,
                                       !.ended = s.ended, !.worker = NULL, !.beat = "none"]
    BY <1>2 DEF Persisted
  <2>2. Persisted(r, w, s) \in RunRow
    BY <2>1, NumbersTyped DEF RunRow, RunStatus
  <2> QED BY <2>1, <2>2 DEF RunRow
<1> QED BY <1>1, <1>2

LEMMA PersistKeeps == ASSUME DeliveryInv, NEW j \in Jobs, Persist(j) PROVE DeliveryInv'
<1>1. CASE Exit(j) /\ UNCHANGED row
  <2>1. QuietStep
    BY <1>1, ExitMoves, DeliveryTypes DEF DeliveryInv, Persist, QuietStep
  <2> QED BY <2>1, QuietKeeps
<1>2. CASE /\ CanPersist(Row(j), j, j, Final(j)) /\ SetRow(j, Persisted(Row(j), j, Final(j)))
           /\ IF job[j].status = "complete" THEN Go(j, "recording") ELSE Exit(j)
  <2> DEFINE r == RunOf(job[j].del)
  <2>1. JobOK(j) /\ job[j].at = "closing" /\ row \in [Runs -> RunRow]
    BY DeliveryTypes DEF DeliveryInv, Persist
  <2>2. r \in Runs /\ row[r].status # "absent" /\ Row(j) = row[r]
    BY <2>1 DEF DeliveryInv, JobOK, DeliveryOK, Row
  <2>3. Final(j) \in [status : {"complete", "error"}, seq : {0}, ended : Gens, out : Gens]
    BY <2>1, <2>2, NumbersTyped DEF JobOK, Final, RunRow
  <2>4. PICK x \in RunRow :
          /\ x = Persisted(row[r], j, Final(j))
          /\ x = row[r] \/ (x.status \in {"complete", "error"} /\ x.beat = "none")
    BY <2>1, <2>2, <2>3, FinalRow, NumbersTyped
  <2>5. row[r].status = "complete" => x = row[r]
    BY <1>2, <2>2, <2>4 DEF CanPersist, Persisted
  <2>6. row' = [row EXCEPT ![r] = x]
    BY <1>2, <2>2, <2>4 DEF SetRow
  <2>7. JobsMove
    <3>1. MadeStays
      BY DEF Persist, MadeStays, Made
    <3>2. CASE job[j].status = "complete"
      <4>1. job' = [job EXCEPT ![j].at = "recording", ![j].status = "complete"]
        BY <1>2, <3>2, GoMoves
      <4> QED BY <2>1, <3>1, <4>1, GoesOn
    <3>3. CASE job[j].status # "complete"
      BY <1>2, <3>3, ExitMoves
    <3> QED BY <3>2, <3>3
  <2> HIDE DEF r
  <2> QED BY <2>2, <2>4, <2>5, <2>6, <2>7, EndsRow DEF Persist
<1> QED BY <1>1, <1>2 DEF Persist

-----------------------------------------------------------------------------
(* The steps on a delivery. *)

\* A step on one delivery, which keeps its run and its worker.
DelStep(d) ==
  /\ row' = row /\ task' = task /\ Made(d)
  /\ del' \in [Deliveries -> DelRow] /\ \A e \in Deliveries \ {d} : del'[e] = del[e]
  /\ del'[d].run = del[d].run /\ del'[d].fresh = del[d].fresh /\ del'[d].worker = del[d].worker
  /\ Made(d)' /\ (Open(d)' => Open(d)) /\ (del'[d].live => Open(d)')
  /\ del'[d].state \in {"pending", "launching"} => del[d].state \in {"pending", "launching"}
  /\ del'[d].result => del'[d].worker # NULL
  /\ launcher' \in [Deliveries -> SUBSET Launches]
  /\ \A e \in Deliveries : Made(e) \/ launcher'[e] = launcher[e]
  /\ JobsMove

LEMMA DelKeeps ==
  ASSUME DeliveryInv, NEW d \in Deliveries, DelStep(d), ResultStands', PromptFits'
  PROVE  DeliveryInv'
<1>1. TypeOK'
  BY DeliveryTypes DEF DeliveryInv, TypeOK, DelStep, DelRow, Launches, JobsMove, JobRow
<1>2. \A e \in Deliveries : /\ RunOf(e)' = RunOf(e) /\ (Made(e)' <=> Made(e))
                            /\ (Open(e)' => Open(e))
                            /\ del'[e].fresh = del[e].fresh /\ del'[e].worker = del[e].worker
  BY DEF DelStep, Made, Open, RunOf
<1>3. MadeInOrder' /\ Newest' /\ FreshAlone'
  BY <1>2 DEF DeliveryInv, MadeInOrder, Newest, FreshAlone
<1>4. BeatOK'
  BY DEF DeliveryInv, BeatOK, DelStep
<1>5. ASSUME NEW e \in Deliveries PROVE DeliveryOK(e)'
  <2>1. DeliveryOK(e)
    BY DEF DeliveryInv
  <2>2. CASE e = d
    BY <1>2, <2>1, <2>2 DEF DelStep, DeliveryOK
  <2>3. CASE e # d
    BY <1>2, <2>1, <2>3 DEF DelStep, DeliveryOK, Open, Made
  <2> QED BY <2>2, <2>3
<1>6. \A j \in Jobs : JobOK(j)'
  BY <1>2, JobsKept DEF MadeStays, DelStep
<1> QED BY <1>1, <1>3, <1>4, <1>5, <1>6 DEF DeliveryInv

LEMMA DelRowChanges ==
  ASSUME NEW x \in DelRow, NEW n \in 0..MaxLaunches
  PROVE  /\ [x EXCEPT !.state = "launching", !.live = TRUE, !.tries = n] \in DelRow
         /\ [x EXCEPT !.live = FALSE] \in DelRow
         /\ [x EXCEPT !.result = TRUE] \in DelRow
  BY DEF DelRow

LEMMA CountedFinite ==
  /\ \A S \in SUBSET Deliveries : IsFiniteSet(S) /\ Cardinality(S) \in Nat
  /\ Counted \in SUBSET Deliveries /\ Prompt \in SUBSET Counted
<1>1. IsFiniteSet(Deliveries)
  BY FS_Interval, DeliveryAssumption DEF Deliveries
<1>2. \A S \in SUBSET Deliveries : IsFiniteSet(S) /\ Cardinality(S) \in Nat
  BY <1>1, FS_Subset, FS_CardinalityType
<1>3. Counted \in SUBSET Deliveries /\ Prompt \in SUBSET Counted
  BY DEF Counted, Prompt
<1> QED BY <1>2, <1>3

LEMMA LeaseOverKeeps == ASSUME DeliveryInv, NEW d \in Deliveries, LeaseOver(d) PROVE DeliveryInv'
<1>1. del \in [Deliveries -> DelRow] /\ del[d].state = "launching" /\ DeliveryOK(d)
  BY DeliveryTypes DEF DeliveryInv, LeaseOver, Launching
<1>2. /\ del' \in [Deliveries -> DelRow] /\ \A e \in Deliveries \ {d} : del'[e] = del[e]
      /\ del'[d] = [del[d] EXCEPT !.live = FALSE]
  <2>1. [del[d] EXCEPT !.live = FALSE] \in DelRow
    BY <1>1 DEF DelRow
  <2> QED BY <1>1, <2>1 DEF LeaseOver
<1>3. DelStep(d)
  BY <1>1, <1>2, JobsStill, DeliveryTypes
     DEF DeliveryInv, DelRow, DelStep, DeliveryOK, LeaseOver, Made, Open
<1>4. ResultStands'
  <2>1. RowsStand /\ ResultsSame
    BY <1>1, <1>2 DEF LeaseOver, DelRow, RowsStand, Stands, ResultsSame
  <2> QED BY <1>3, <2>1, ResultsKept DEF DelStep
<1>5. Prompt' \subseteq Prompt
  <2>1. ASSUME NEW e \in Prompt' PROVE e \in Prompt
    <3>1. e \in Deliveries /\ e # d
      BY <1>1, <1>2, <2>1 DEF Prompt, Counted, Launching, WorkedOn, DelRow
    <3>2. del'[e] = del[e] /\ row' = row
      BY <1>2, <3>1 DEF LeaseOver
    <3> QED BY <2>1, <3>1, <3>2 DEF Prompt, Counted, Launching, WorkedOn, RunOf
  <2> QED BY <2>1
<1> QED BY <1>3, <1>4, <1>5, FewerPrompt, DelKeeps

LEMMA ReserveKeeps == ASSUME DeliveryInv, NEW d \in Deliveries, Reserve(d) PROVE DeliveryInv'
<1>1. /\ del \in [Deliveries -> DelRow] /\ launcher \in [Deliveries -> SUBSET Launches]
      /\ del[d].state \in {"pending", "launching"} /\ DeliveryOK(d) /\ Made(d)
  BY DeliveryTypes DEF DeliveryInv, Reserve, Made
<1>2. del[d].tries + 1 \in 1..MaxLaunches /\ del[d].tries + 1 \in 0..MaxLaunches
  BY <1>1, DeliveryAssumption DEF DelRow, Reserve
<1>3. PICK x \in DelRow :
        /\ del' = [del EXCEPT ![d] = x] /\ x.state = "launching" /\ x.run = del[d].run
        /\ x.fresh = del[d].fresh /\ x.worker = del[d].worker /\ x.result = del[d].result
  <2> DEFINE x == [del[d] EXCEPT !.state = "launching", !.live = TRUE, !.tries = @ + 1]
  <2>1. del' = [del EXCEPT ![d] = x]
    BY <1>1 DEF Reserve, DelRow
  <2>2. x \in DelRow
    BY <1>1, <1>2, DelRowChanges
  <2>3. /\ x.state = "launching" /\ x.run = del[d].run
        /\ x.fresh = del[d].fresh /\ x.worker = del[d].worker /\ x.result = del[d].result
    BY <1>1 DEF DelRow
  <2> QED BY <2>1, <2>2, <2>3
<1>4. /\ del' \in [Deliveries -> DelRow] /\ \A e \in Deliveries \ {d} : del'[e] = del[e]
      /\ del'[d] = x
  BY <1>1, <1>3
<1>5. /\ launcher' \in [Deliveries -> SUBSET Launches]
      /\ \A e \in Deliveries : Made(e) \/ launcher'[e] = launcher[e]
  <2>1. launcher[d] \union {[token |-> del[d].tries + 1, step |-> "launch"]} \in SUBSET Launches
    BY <1>1, <1>2 DEF Launches
  <2> QED BY <1>1, <2>1, CallsMove DEF Reserve
<1>6. DelStep(d)
  BY <1>1, <1>3, <1>4, <1>5, JobsStill DEF DelStep, DeliveryOK, Reserve, Made, Open
<1>7. ResultStands'
  <2>1. RowsStand /\ ResultsSame
    BY <1>3, <1>4 DEF Reserve, RowsStand, Stands, ResultsSame
  <2> QED BY <1>6, <2>1, ResultsKept DEF DelStep
<1>8. Prompt' \subseteq Prompt \union {d}
  <2>1. ASSUME NEW e \in Prompt', e # d PROVE e \in Prompt
    <3>1. e \in Deliveries /\ del'[e] = del[e] /\ row' = row
      BY <1>4, <2>1 DEF Prompt, Counted, Reserve
    <3> QED BY <2>1, <3>1 DEF Prompt, Counted, Launching, WorkedOn, RunOf
  <2> QED BY <2>1
<1>9. PromptFits'
  <2>1. IsFiniteSet(Counted) /\ Cardinality(Counted) \in Nat
    BY CountedFinite
  <2>2. IsFiniteSet(Prompt) /\ Cardinality(Prompt) \in Nat
    BY CountedFinite
  <2>3. Cardinality(Prompt) <= Cardinality(Counted)
    BY <2>1, CountedFinite, FS_Subset
  <2>4. /\ IsFiniteSet(Prompt \union {d}) /\ Cardinality(Prompt \union {d}) \in Nat
        /\ Cardinality(Prompt \union {d}) <= Cardinality(Prompt) + 1
    <3>1. Prompt \union {d} \in SUBSET Deliveries
      BY CountedFinite
    <3>2. Cardinality(Prompt \union {d}) =
            IF d \in Prompt THEN Cardinality(Prompt) ELSE Cardinality(Prompt) + 1
      BY <2>2, FS_AddElement
    <3> QED BY <2>2, <3>1, <3>2, CountedFinite
  <2>5. Cardinality(Prompt') <= Cardinality(Prompt \union {d}) /\ Cardinality(Prompt') \in Nat
    BY <1>8, <2>4, FS_Subset, FS_CardinalityType
  <2>6. Cardinality(Counted) < LaunchCapacity /\ LaunchCapacity \in Nat
    BY DeliveryAssumption DEF Reserve, HasCapacity
  <2> QED BY <2>1, <2>2, <2>3, <2>4, <2>5, <2>6 DEF PromptFits
<1> QED BY <1>6, <1>7, <1>9, DelKeeps

LEMMA RecordResultKeeps ==
  ASSUME DeliveryInv, NEW j \in Jobs, RecordResult(j) PROVE DeliveryInv'
<1>d. PICK d \in Deliveries : d = job[j].del /\ Made(d)
  BY DEF DeliveryInv, JobOK, RecordResult
<1>1. JobsMove
  BY ExitMoves DEF RecordResult
<1>2. CASE del' = del
  <2>1. QuietStep
    BY <1>1, <1>2, DeliveryTypes DEF DeliveryInv, RecordResult, QuietStep
  <2> QED BY <2>1, QuietKeeps
<1>3. CASE /\ del[d].state = "running" /\ Row(j).status = "complete"
           /\ Row(j).gen = j /\ del[d].worker = j
           /\ del' = [del EXCEPT ![d].result = TRUE]
  <2>1. /\ d \in Deliveries /\ Made(d) /\ del \in [Deliveries -> DelRow] /\ DeliveryOK(d)
        /\ job[j].status = "complete"
    BY <1>d, DeliveryTypes DEF DeliveryInv, JobOK, RecordResult
  <2>2. /\ del' \in [Deliveries -> DelRow] /\ \A e \in Deliveries \ {d} : del'[e] = del[e]
        /\ del'[d] = [del[d] EXCEPT !.result = TRUE]
    <3>1. [del[d] EXCEPT !.result = TRUE] \in DelRow
      <4>1. 0 \in 0..MaxLaunches /\ del[d] \in DelRow
        BY <2>1, DeliveryAssumption
      <4> QED BY <4>1, DelRowChanges
    <3> QED BY <1>3, <2>1, <3>1
  <2>3. /\ del'[d].state = "running" /\ del'[d].run = del[d].run /\ del'[d].worker = j
        /\ del'[d].fresh = del[d].fresh /\ del'[d].live = del[d].live
    BY <1>3, <2>1, <2>2 DEF DelRow
  <2>4. DelStep(d)
    <3>1. row' = row /\ task' = task /\ launcher' = launcher
      BY DEF RecordResult
    <3>2. launcher \in [Deliveries -> SUBSET Launches] /\ j # NULL
      BY DeliveryTypes, NumbersTyped DEF DeliveryInv
    <3>3. Open(d) /\ Open(d)' /\ Made(d)'
      BY <1>3, <2>3 DEF Open, Made
    <3> QED BY <1>1, <1>3, <2>1, <2>2, <2>3, <3>1, <3>2, <3>3 DEF DelStep
  <2>5. ResultStands'
    <3> SUFFICES ASSUME NEW e \in Deliveries, del'[e].result
                 PROVE  /\ row'[RunOf(e)'].status = "complete"
                        /\ row'[RunOf(e)'].gen = del'[e].worker
                        /\ job'[row'[RunOf(e)'].gen].status = "complete"
      BY DEF ResultStands
    <3>1. CASE e = d
      BY <1>d, <1>1, <1>3, <2>1, <2>3, <3>1 DEF RecordResult, Row, RunOf, JobsMove
    <3>2. CASE e # d
      <4>1. del'[e] = del[e] /\ del[e].result /\ row' = row /\ RunOf(e)' = RunOf(e)
        BY <2>2, <3>2 DEF RecordResult, RunOf
      <4>2. /\ row[RunOf(e)].status = "complete" /\ row[RunOf(e)].gen = del[e].worker
            /\ job[row[RunOf(e)].gen].status = "complete"
        BY <4>1 DEF DeliveryInv, ResultStands
      <4>3. del[e].worker \in Jobs
        <5>1. DeliveryOK(e) /\ del[e].worker \in Gens
          BY <2>1 DEF DeliveryInv, DelRow
        <5> QED BY <4>1, <5>1, DeliveryAssumption DEF DeliveryOK, Gens, Jobs, NULL
      <4> QED BY <1>1, <4>1, <4>2, <4>3 DEF JobsMove
    <3> QED BY <3>1, <3>2
  <2>6. Prompt' \subseteq Prompt
    <3>1. ASSUME NEW e \in Prompt' PROVE e \in Prompt
      <4>1. e \in Deliveries /\ row' = row
        BY <3>1 DEF Prompt, Counted, RecordResult
      <4>2. /\ del'[e].state = del[e].state /\ del'[e].run = del[e].run
            /\ del'[e].worker = del[e].worker /\ del'[e].live = del[e].live
        BY <1>3, <2>2, <2>3, <4>1
      <4> QED BY <3>1, <4>1, <4>2 DEF Prompt, Counted, Launching, WorkedOn, RunOf
    <3> QED BY <3>1
  <2> QED BY <2>1, <2>4, <2>5, <2>6, FewerPrompt, DelKeeps
<1> QED BY <1>d, <1>2, <1>3 DEF RecordResult

LEMMA ClaimedDelivery ==
  ASSUME NEW x \in DelRow, NEW g \in Gens
  PROVE  [x EXCEPT !.state = "running", !.worker = g, !.live = FALSE] \in DelRow
  BY DEF DelRow

LEMMA HeldRow ==
  ASSUME NEW y \in RunRow, NEW g \in Gens
  PROVE  \E x \in RunRow : /\ x = Held(y, g, g) /\ x.status = "running" /\ x.gen = g
                           /\ x.worker = g /\ x.beat = "fresh"
<1>1. NULL \in Gens
  BY NumbersTyped
<1> DEFINE x == [y EXCEPT !.status = "running", !.gen = g, !.worker = g, !.beat = "fresh",
                          !.ended = NULL]
<1>2. x \in RunRow
  BY <1>1 DEF RunRow, RunStatus
<1>3. x.status = "running" /\ x.gen = g /\ x.worker = g /\ x.beat = "fresh"
  BY DEF RunRow
<1>4. x = Held(y, g, g)
  BY DEF Held
<1> HIDE DEF x
<1> QED BY <1>2, <1>3, <1>4

\* A job takes the run of its delivery.
LEMMA ClaimKeeps == ASSUME DeliveryInv, NEW j \in Jobs, Claim(j) PROVE DeliveryInv'
<1>1. CASE Exit(j) /\ UNCHANGED <<row, del>>
  <2>1. QuietStep
    BY <1>1, ExitMoves, DeliveryTypes DEF DeliveryInv, Claim, QuietStep
  <2> QED BY <2>1, QuietKeeps
<1>2. CASE /\ MayClaim(Row(j), del[job[j].del])
           /\ SetRow(j, Held(Row(j), j, j))
           /\ del' = [del EXCEPT ![job[j].del].state = "running", ![job[j].del].worker = j,
                                 ![job[j].del].live = FALSE]
           /\ Go(j, "working") \/ Exit(j)
  <2>1. PICK d \in Deliveries : d = job[j].del /\ Made(d)
    BY DEF DeliveryInv, JobOK, Claim
  <2>2. PICK r \in Runs : r = RunOf(d) /\ row[r].status # "absent"
    BY <2>1 DEF DeliveryInv, DeliveryOK
  <2>3. /\ del \in [Deliveries -> DelRow] /\ row \in [Runs -> RunRow] /\ j \in Gens /\ j # NULL
        /\ JobOK(j) /\ DeliveryOK(d)
    BY DeliveryTypes, NumbersTyped DEF DeliveryInv
  <2>4. /\ row[r].status = "running" /\ row[r].worker = NULL /\ row[r].gen = NULL
        /\ Launching(d) /\ Open(d) /\ ~del[d].result
    <3>1. /\ row[r].status = "running" /\ row[r].worker = NULL /\ row[r].gen = NULL
          /\ Launching(d) /\ Open(d)
      BY <1>2, <2>1, <2>2 DEF MayClaim, Row, Launching, Open
    <3>2. del[d].result => row[r].status = "complete"
      BY <2>2 DEF DeliveryInv, ResultStands
    <3> QED BY <3>1, <3>2
  <2>5. PICK x \in DelRow :
          /\ del' = [del EXCEPT ![d] = x]
          /\ x.state = "running" /\ x.worker = j /\ x.live = FALSE
          /\ x.run = r /\ x.fresh = del[d].fresh /\ x.result = FALSE
    <3> DEFINE x == [del[d] EXCEPT !.state = "running", !.worker = j, !.live = FALSE]
    <3>1. x \in DelRow
      BY <2>3, ClaimedDelivery
    <3>2. del' = [del EXCEPT ![d] = x]
      BY <1>2, <2>1, <2>3
    <3>3. /\ x.state = "running" /\ x.worker = j /\ x.live = FALSE
          /\ x.run = r /\ x.fresh = del[d].fresh /\ x.result = FALSE
      BY <2>2, <2>3, <2>4 DEF DelRow, RunOf
    <3> QED BY <3>1, <3>2, <3>3
  <2>6. /\ del' \in [Deliveries -> DelRow] /\ \A e \in Deliveries \ {d} : del'[e] = del[e]
        /\ del'[d] = x
    BY <2>3, <2>5
  <2>7. PICK y \in RunRow :
          /\ row' = [row EXCEPT ![r] = y] /\ y.status = "running" /\ y.gen = j /\ y.worker = j
          /\ y.beat = "fresh"
    <3>1. row' = [row EXCEPT ![r] = Held(row[r], j, j)]
      BY <1>2, <2>1, <2>2 DEF SetRow, Row
    <3>2. row[r] \in RunRow
      BY <2>3
    <3> QED BY <2>3, <3>1, <3>2, HeldRow
  <2>8. /\ row' \in [Runs -> RunRow] /\ row'[r] = y /\ \A i \in Runs \ {r} : row'[i] = row[i]
    BY <2>3, <2>7
  <2>9. \A e \in Deliveries :
          /\ RunOf(e)' = RunOf(e) /\ (Made(e)' <=> Made(e)) /\ (Open(e)' <=> Open(e))
          /\ del'[e].fresh = del[e].fresh /\ (del'[e].result <=> del[e].result)
    <3>1. del'[d].state = "running" /\ del'[d].run = del[d].run
      BY <2>2, <2>5, <2>6 DEF RunOf
    <3>2. RunOf(d)' = RunOf(d) /\ Made(d)' /\ Open(d)'
      BY <3>1 DEF RunOf, Made, Open
    <3> QED BY <2>1, <2>4, <2>5, <2>6, <3>2 DEF RunOf, Made, Open
  <2>10. JobsMove
    <3>1. MadeStays
      BY <2>9 DEF MadeStays
    <3>2. CASE Go(j, "working")
      <4>1. job' = [job EXCEPT ![j].at = "working", ![j].status = "absent"]
        BY <2>3, <3>2, GoMoves DEF JobOK, Claim
      <4> QED BY <2>3, <3>1, <4>1, GoesOn DEF JobOK, Claim
    <3>3. CASE Exit(j)
      BY <3>3, ExitMoves
    <3> QED BY <1>2, <3>2, <3>3
  <2>11. TypeOK'
    BY <2>6, <2>8, <2>10, DeliveryTypes
       DEF DeliveryInv, Claim, TypeOK, RunRow, DelRow, Launches, JobsMove, JobRow
  <2>12. MadeInOrder' /\ Newest'
    BY <2>9 DEF DeliveryInv, MadeInOrder, Newest
  <2>13. FreshAlone'
    <3> SUFFICES ASSUME NEW c \in Deliveries, NEW e \in Deliveries,
                        Made(c), c < e, RunOf(c) = RunOf(e), del[e].fresh
                 PROVE  del'[c].worker = NULL
      BY <2>9 DEF FreshAlone
    <3>1. del[c].worker = NULL /\ Made(e)
      BY MadeOnes DEF DeliveryInv, FreshAlone
    <3>2. c # d
      <4>1. c = d => e <= c
        BY <2>4, <3>1 DEF DeliveryInv, Newest
      <4> QED BY <4>1, NumbersTyped
    <3> QED BY <2>6, <3>1, <3>2
  <2>14. BeatOK'
    BY <2>3, <2>7, <2>8 DEF DeliveryInv, BeatOK
  <2>15. ResultStands'
    <3>1. RowsStand
      BY <2>4, <2>8 DEF RowsStand, Stands
    <3>2. ResultsSame
      BY <2>4, <2>6, <2>9 DEF ResultsSame, RunOf
    <3> QED BY <2>10, <3>1, <3>2, ResultsKept
  <2>16. ASSUME NEW e \in Deliveries PROVE DeliveryOK(e)'
    <3>1. DeliveryOK(e) /\ launcher' = launcher
      BY DEF DeliveryInv, Claim
    <3>2. CASE e = d
      BY <2>1, <2>2, <2>5, <2>6, <2>7, <2>8, <2>9, <3>2 DEF DeliveryOK, Open
    <3>3. CASE e # d
      <4>1. del'[e] = del[e]
        BY <2>6, <3>3
      <4>2. Made(e) => RunOf(e) \in Runs /\ row'[RunOf(e)].status # "absent"
        BY <2>7, <2>8, <3>1 DEF DeliveryOK
      <4>3. ~(Open(e) /\ RunOf(e) = r)
        BY <2>2, <2>4, <3>3, OpenIsUnique
      <4>4. Open(e) => Made(e)
        BY DEF Open, Made
      <4>5. del[e].state \in {"pending", "launching"} => Open(e)
        BY DEF Open
      <4> QED BY <2>8, <2>9, <3>1, <4>1, <4>2, <4>3, <4>4, <4>5 DEF DeliveryOK
    <3> QED BY <3>2, <3>3
  <2>17. \A i \in Jobs : JobOK(i)'
    BY <2>9, <2>10, JobsKept DEF MadeStays
  <2>18. Prompt' \subseteq Prompt
    <3>1. ASSUME NEW e \in Prompt' PROVE e \in Prompt
      <4>1. CASE e = d
        <5>1. row[r].beat # "again"
          BY <2>4 DEF DeliveryInv, BeatOK
        <5>2. del[d].run # NULL
          BY <2>2, NumbersTyped DEF RunOf
        <5> QED BY <2>2, <2>4, <4>1, <5>1, <5>2 DEF Prompt, Counted
      <4>2. CASE e # d
        <5>1. /\ e \in Deliveries /\ del'[e] = del[e] /\ RunOf(e)' = RunOf(e)
              /\ Launching(e) \/ WorkedOn(e)'
          BY <2>6, <2>9, <3>1, <4>2 DEF Prompt, Counted, Launching
        <5>2. Open(e)
          BY <5>1 DEF Open, Launching, WorkedOn
        <5>3. RunOf(e) \in Runs /\ RunOf(e) # r
          BY <2>2, <2>4, <4>2, <5>1, <5>2, OpenIsUnique, MadeOnes
        <5>4. row'[RunOf(e)] = row[RunOf(e)]
          BY <2>8, <5>3
        <5>5. Launching(e) \/ WorkedOn(e)
          BY <5>1, <5>4 DEF Launching, WorkedOn
        <5> QED BY <3>1, <5>1, <5>4, <5>5 DEF Prompt, Counted
      <4> QED BY <4>1, <4>2
    <3> QED BY <3>1
  <2>19. PromptFits'
    BY <2>18, FewerPrompt
  <2> QED BY <2>11, <2>12, <2>13, <2>14, <2>15, <2>16, <2>17, <2>19 DEF DeliveryInv
<1> QED BY <1>1, <1>2 DEF Claim

\* Nothing came before the first request of a run; a later one may only start
\* over when nobody has worked on the run.
LEMMA EnqueueKeeps ==
  ASSUME DeliveryInv, NEW r \in Runs, NEW d \in Deliveries, Enqueue(r, d) PROVE DeliveryInv'
<1>1. /\ del \in [Deliveries -> DelRow] /\ row \in [Runs -> RunRow]
      /\ ~Made(d) /\ DeliveryOK(d) /\ row[r].status \in Resumable \union {"absent"}
  BY DeliveryTypes DEF DeliveryInv, Enqueue, New, Made
<1>2. \A c \in Deliveries : Made(c) => c < d
  BY <1>1, NumbersTyped DEF DeliveryInv, MadeInOrder, Made
<1>3. PICK x \in DelRow :
        /\ \A c \in Deliveries :
             del'[c] = IF c = d THEN x ELSE IF c \in Of(r) THEN Retired(del[c]) ELSE del[c]
        /\ x.state = "pending" /\ x.run = r /\ x.fresh = Fresh(r) /\ x.live = FALSE
        /\ x.worker = NULL /\ x.result = FALSE
  <2> DEFINE x == [NoDelivery EXCEPT !.state = "pending", !.run = r, !.fresh = Fresh(r)]
  <2>1. Fresh(r) \in BOOLEAN
    BY DEF Fresh
  <2>2. 0 \in 0..MaxLaunches
    BY DeliveryAssumption
  <2>3. /\ x \in DelRow
        /\ x.state = "pending" /\ x.run = r /\ x.fresh = Fresh(r) /\ x.live = FALSE
        /\ x.worker = NULL /\ x.result = FALSE
    BY <2>1, <2>2, NumbersTyped DEF DelRow, NoDelivery
  <2>4. \A c \in Deliveries :
          del'[c] = IF c = d THEN x ELSE IF c \in Of(r) THEN Retired(del[c]) ELSE del[c]
    BY DEF Enqueue, Superseded
  <2> QED BY <2>3, <2>4
<1>4. ASSUME NEW y \in DelRow
      PROVE  /\ Retired(y) \in DelRow /\ Retired(y).state = "superseded"
             /\ Retired(y).run = y.run /\ Retired(y).fresh = y.fresh
             /\ Retired(y).worker = y.worker /\ Retired(y).result = y.result
             /\ Retired(y).live = FALSE
  <2>1. 0 \in 0..MaxLaunches
    BY DeliveryAssumption
  <2> QED BY <2>1 DEF Retired, NoDelivery, DelRow
<1>5. d \notin Of(r)
  BY <1>1, NumbersTyped DEF DeliveryOK, Of, NoDelivery
<1>6. del' \in [Deliveries -> DelRow]
  <2>1. \A c \in Deliveries : del'[c] \in DelRow
    BY <1>1, <1>3, <1>4
  <2>2. del' = [c \in Deliveries |-> del'[c]]
    BY DEF Enqueue
  <2> QED BY <2>1, <2>2
<1>7. ASSUME NEW c \in Deliveries \ {d}
      PROVE  /\ RunOf(c)' = RunOf(c) /\ (Made(c)' <=> Made(c))
             /\ del'[c].fresh = del[c].fresh /\ del'[c].worker = del[c].worker
             /\ del'[c].result = del[c].result
             /\ IF RunOf(c) = r THEN Made(c) /\ ~Open(c)' /\ ~del'[c].live
                ELSE del'[c] = del[c] /\ (Open(c)' <=> Open(c))
  <2>1. CASE c \in Of(r)
    <3>1. del'[c] = Retired(del[c]) /\ del[c] \in DelRow /\ del[c].run = r /\ RunOf(c) = r
      BY <1>1, <1>3, <2>1 DEF Of, RunOf
    <3>2. Made(c)
      BY <3>1, MadeOnes, NumbersTyped
    <3> QED BY <1>4, <3>1, <3>2 DEF RunOf, Made, Open
  <2>2. CASE c \notin Of(r)
    BY <1>3, <2>2 DEF Of, RunOf, Made, Open
  <2> QED BY <2>1, <2>2
<1>8. Made(d)' /\ Open(d)' /\ RunOf(d)' = r /\ ~del'[d].live /\ ~del'[d].result /\ del'[d] = x
  BY <1>3 DEF Made, Open, RunOf
<1>9. PICK y \in RunRow :
        /\ row' = [row EXCEPT ![r] = y] /\ y.status = "running" /\ y.gen = NULL /\ y.beat = "fresh"
  <2>1. row' = [row EXCEPT ![r] = Held(row[r], NULL, NULL)]
    BY DEF Enqueue
  <2>2. row[r] \in RunRow /\ NULL \in Gens
    BY <1>1, NumbersTyped
  <2> QED BY <2>1, <2>2, HeldRow
<1>10. /\ row' \in [Runs -> RunRow] /\ row'[r] = y /\ \A i \in Runs \ {r} : row'[i] = row[i]
  BY <1>1, <1>9
<1>11. JobsMove
  BY JobsStill DEF Enqueue
<1>12. TypeOK'
  BY <1>6, <1>10, <1>11, DeliveryTypes
     DEF DeliveryInv, Enqueue, TypeOK, RunRow, DelRow, Launches, JobsMove, JobRow
<1>13. MadeInOrder'
  <2> SUFFICES ASSUME NEW b \in Deliveries, NEW c \in Deliveries, b < c, Made(c)' PROVE Made(b)'
    BY DEF MadeInOrder
  <2>1. CASE c = d
    <3>1. Made(b)
      BY <2>1 DEF Enqueue, New, Made
    <3> QED BY <1>7, <1>8, <3>1
  <2>2. CASE c # d
    <3>1. Made(b)
      BY <1>7, <2>2 DEF DeliveryInv, MadeInOrder
    <3> QED BY <1>7, <1>8, <3>1
  <2> QED BY <2>1, <2>2
<1>14. Newest'
  <2> SUFFICES ASSUME NEW b \in Deliveries, NEW c \in Deliveries,
                      Open(c)', Made(b)', RunOf(b)' = RunOf(c)'
               PROVE  b <= c
    BY DEF Newest
  <2>1. CASE c = d
    BY <1>2, <1>7, <2>1, NumbersTyped
  <2>2. CASE c # d
    <3>1. RunOf(c) # r /\ Open(c) /\ b # d
      BY <1>7, <1>8, <2>2
    <3> QED BY <1>7, <2>2, <3>1 DEF DeliveryInv, Newest
  <2> QED BY <2>1, <2>2
<1>15. FreshAlone'
  <2> SUFFICES ASSUME NEW b \in Deliveries, NEW c \in Deliveries,
                      Made(b)', b < c, RunOf(b)' = RunOf(c)', del'[c].fresh
               PROVE  del'[b].worker = NULL
    BY DEF FreshAlone
  <2>1. CASE c = d
    <3>1. b # d
      BY <2>1, NumbersTyped
    <3>2. RunOf(b) = r /\ Made(b) /\ Fresh(r)
      BY <1>3, <1>7, <1>8, <2>1, <3>1
    <3>3. row[r].status # "absent" /\ b \in Of(r)
      BY <3>2 DEF DeliveryInv, DeliveryOK, Of, RunOf
    <3> QED BY <1>7, <3>1, <3>2, <3>3 DEF Fresh
  <2>2. CASE c # d
    <3>1. Made(c) /\ del[c].fresh
      BY <1>7, <2>2, MadeOnes
    <3>2. b # d
      BY <1>2, <2>2, <3>1, NumbersTyped
    <3> QED BY <1>7, <2>2, <3>1, <3>2 DEF DeliveryInv, FreshAlone
  <2> QED BY <2>1, <2>2
<1>16. BeatOK'
  BY <1>9, <1>10 DEF DeliveryInv, BeatOK
<1>17. ResultStands'
  <2>1. RowsStand
    BY <1>1, <1>10 DEF RowsStand, Stands, Resumable
  <2>2. ResultsSame
    <3> SUFFICES ASSUME NEW c \in Deliveries
                 PROVE  /\ del'[c].result => del[c].result
                        /\ del[c].result => del'[c].run = del[c].run /\ del'[c].worker = del[c].worker
      BY DEF ResultsSame
    <3>1. CASE c = d
      BY <1>1, <1>8, <3>1 DEF DeliveryOK, NoDelivery
    <3>2. CASE c # d
      BY <1>7, <3>2 DEF RunOf
    <3> QED BY <3>1, <3>2
  <2> QED BY <1>11, <2>1, <2>2, ResultsKept
<1>18. ASSUME NEW c \in Deliveries PROVE DeliveryOK(c)'
  <2>1. CASE c = d
    BY <1>8, <1>9, <1>10, <2>1 DEF DeliveryOK
  <2>2. CASE c # d
    <3>1. DeliveryOK(c) /\ launcher' = launcher
      BY DEF DeliveryInv, Enqueue
    <3>2. CASE RunOf(c) = r
      <4>1. /\ RunOf(c)' = r /\ Made(c)' /\ ~Open(c)' /\ ~del'[c].live
            /\ del'[c].result = del[c].result /\ del'[c].worker = del[c].worker
        BY <1>7, <2>2, <3>2
      <4>2. row'[r].status # "absent"
        BY <1>9, <1>10
      <4>3. del'[c].state \notin {"pending", "launching"}
        BY <4>1 DEF Open
      <4> QED BY <3>1, <4>1, <4>2, <4>3 DEF DeliveryOK
    <3>3. CASE RunOf(c) # r
      <4>1. del'[c] = del[c] /\ RunOf(c)' = RunOf(c)
        BY <1>7, <2>2, <3>3
      <4>2. Made(c) => row'[RunOf(c)] = row[RunOf(c)]
        BY <1>10, <3>1, <3>3 DEF DeliveryOK
      <4>3. del[c].state \in {"pending", "launching"} => Made(c)
        BY DEF Made
      <4> QED BY <3>1, <4>1, <4>2, <4>3 DEF DeliveryOK, Made, Open
    <3> QED BY <3>2, <3>3
  <2> QED BY <2>1, <2>2
<1>19. \A i \in Jobs : JobOK(i)'
  <2>1. MadeStays
    BY <1>7, <1>8 DEF MadeStays
  <2> QED BY <1>11, <2>1, JobsKept
<1>20. Prompt' \subseteq Prompt
  <2>1. ASSUME NEW c \in Prompt' PROVE c \in Prompt
    <3>1. c \in Deliveries /\ (Launching(c)' \/ WorkedOn(c)')
      BY <2>1 DEF Prompt, Counted
    <3>2. c # d
      BY <1>3, <1>8, <3>1 DEF Launching, WorkedOn
    <3>3. RunOf(c) # r /\ del'[c] = del[c] /\ RunOf(c)' = RunOf(c) /\ Open(c)
      BY <1>7, <3>1, <3>2 DEF Launching, WorkedOn, Open
    <3>4. row'[RunOf(c)] = row[RunOf(c)]
      BY <1>10, <3>1, <3>3, MadeOnes
    <3> QED BY <2>1, <3>1, <3>3, <3>4 DEF Prompt, Counted, Launching, WorkedOn
  <2> QED BY <2>1
<1>21. PromptFits'
  BY <1>20, FewerPrompt
<1> QED BY <1>12, <1>13, <1>14, <1>15, <1>16, <1>17, <1>18, <1>19, <1>21 DEF DeliveryInv

-----------------------------------------------------------------------------
LEMMA DeliveryStarts == Init => DeliveryInv
<1> SUFFICES ASSUME Init PROVE DeliveryInv
  OBVIOUS
<1>1. NULL \in Gens /\ 0 \in 0..MaxLaunches
  BY NumbersTyped, DeliveryAssumption
<1>2. \A d \in Deliveries : del[d] = NoDelivery /\ launcher[d] = {}
  BY DEF Init
<1>3. NoDelivery.state = "none" /\ ~NoDelivery.live /\ ~NoDelivery.result /\ ~NoDelivery.fresh
  BY DEF NoDelivery
<1>4. \A d \in Deliveries : ~Made(d) /\ ~Open(d)
  BY <1>2, <1>3 DEF Made, Open
<1>5. TypeOK
  <2>1. AbsentRow \in RunRow /\ NoDelivery \in DelRow /\ NoJob \in JobRow
    BY <1>1 DEF AbsentRow, RunRow, NoDelivery, DelRow, NoJob, JobRow
  <2> QED BY <2>1 DEF Init, TypeOK, RunRow, DelRow, JobRow
<1>6. MadeInOrder /\ Newest /\ FreshAlone
  BY <1>4 DEF MadeInOrder, Newest, FreshAlone
<1>7. BeatOK /\ ResultStands
  BY <1>2, <1>3 DEF Init, AbsentRow, BeatOK, ResultStands
<1>8. \A d \in Deliveries : DeliveryOK(d)
  <2>1. \A d \in Deliveries : del[d].state \notin {"pending", "launching"}
    BY <1>2, <1>3
  <2> QED BY <1>2, <1>3, <1>4, <2>1 DEF DeliveryOK
<1>9. \A j \in Jobs : JobOK(j)
  BY DEF Init, NoJob, JobOK
<1>10. PromptFits
  <2>1. Prompt = {}
    BY <1>2, <1>3 DEF Prompt, Counted, Launching, WorkedOn
  <2> QED BY <2>1, FS_EmptySet, DeliveryAssumption DEF PromptFits
<1> QED BY <1>5, <1>6, <1>7, <1>8, <1>9, <1>10 DEF DeliveryInv

LEMMA DeliveryStays == DeliveryInv /\ [Next]_vars => DeliveryInv'
<1> SUFFICES ASSUME DeliveryInv, [Next]_vars PROVE DeliveryInv'
  OBVIOUS
<1>1. ASSUME NEW r \in Runs, NEW d \in Deliveries, Enqueue(r, d) PROVE DeliveryInv'
  BY <1>1, EnqueueKeeps
<1>2. ASSUME NEW d \in Deliveries, Dispatch(d) \/ Acknowledge(d) \/ Reserve(d) \/ LeaseOver(d)
      PROVE  DeliveryInv'
  BY <1>2, DispatchKeeps, AcknowledgeKeeps, ReserveKeeps, LeaseOverKeeps
<1>3. ASSUME NEW d \in Deliveries, NEW c \in launcher[d],
             Launch(d, c) \/ LaunchFails(d, c) \/ RecordLaunch(d, c)
      PROVE  DeliveryInv'
  BY <1>3, LaunchKeeps, LaunchFailsKeeps, RecordLaunchKeeps
<1>4. ASSUME NEW j \in Jobs,
             \/ Claim(j) \/ End(j) \/ Persist(j) \/ RecordResult(j)
             \/ Crash(j) \/ Deadline(j) \/ Heartbeat(j)
      PROVE  DeliveryInv'
  BY <1>4, ClaimKeeps, EndKeeps, PersistKeeps, RecordResultKeeps, JobDiesKeeps, DeadlineKeeps,
     HeartbeatKeeps
<1>5. ASSUME NEW r \in Runs, Lapse(r) \/ Stall(r) \/ Reconcile(r) \/ Cancel(r) PROVE DeliveryInv'
  BY <1>5, LateKeeps, ReconcileKeeps, CancelKeeps DEF Lapse, Stall
<1>6. CASE UNCHANGED vars
  <2>1. QuietStep
    BY <1>6, JobsStill, DeliveryTypes DEF vars, DeliveryInv, QuietStep
  <2> QED BY <2>1, QuietKeeps
<1> QED BY <1>1, <1>2, <1>3, <1>4, <1>5, <1>6 DEF Next

LEMMA DeliveryAlways == Spec => []DeliveryInv
<1> QED BY DeliveryStarts, DeliveryStays, PTL DEF Spec

-----------------------------------------------------------------------------
\* Only a claim gives a worker to a request, and only the newest request of a
\* run has a launch that may be claimed.
THEOREM OldRequestsStayOut == Spec => OldRequestNeverRuns
<1>1. ASSUME DeliveryInv, [Next]_vars, NEW d \in Deliveries, del'[d].worker # del[d].worker,
             NEW c \in Of(RunOf(d))
      PROVE  c <= d
  <2>1. c \in Deliveries /\ RunOf(c) = RunOf(d)
    BY DEF Of, RunOf
  <2>2. Open(d)
    <3>1. ASSUME NEW j \in Jobs, Claim(j) PROVE Open(d)
      <4>1. job[j].del = d /\ MayClaim(Row(j), del[job[j].del])
        BY <1>1, <3>1, DeliveryTypes DEF DeliveryInv, Claim
      <4> QED BY <4>1 DEF MayClaim, Open
    <3>2. ASSUME NEW r \in Runs, NEW e \in Deliveries, Enqueue(r, e) PROVE FALSE
      <4>1. e = d => FALSE
        <5>1. e = d => del[d] = NoDelivery
          <6>1. DeliveryOK(d)
            BY <1>1 DEF DeliveryInv
          <6> QED BY <3>2, <6>1 DEF DeliveryOK, Enqueue, New, Made
        <5> QED BY <1>1, <3>2, <5>1 DEF Enqueue, NoDelivery
      <4> QED BY <1>1, <3>2, <4>1 DEF Enqueue, Retired, NoDelivery
    <3>3. ASSUME NEW e \in Deliveries, Reserve(e) \/ LeaseOver(e) PROVE FALSE
      <4>1. del \in [Deliveries -> DelRow]
        BY <1>1, DeliveryTypes DEF DeliveryInv
      <4>2. CASE Reserve(e)
        BY <1>1, <4>1, <4>2 DEF Reserve, DelRow
      <4>3. CASE LeaseOver(e)
        BY <1>1, <4>1, <4>3 DEF LeaseOver, DelRow
      <4> QED BY <3>3, <4>2, <4>3
    <3>4. ASSUME NEW j \in Jobs, RecordResult(j) PROVE FALSE
      BY <1>1, <3>4, DeliveryTypes DEF DeliveryInv, DelRow, RecordResult
    <3>5. del' # del
      BY <1>1
    <3> QED
      BY <1>1, <3>1, <3>2, <3>3, <3>4, <3>5
         DEF Next, vars, Dispatch, Acknowledge, Launch, LaunchFails, RecordLaunch, End, Persist,
             Crash, Deadline, Heartbeat, Lapse, Stall, Late, Reconcile, Cancel
  <2>3. RunOf(d) \in Runs
    BY <1>1, <2>2, MadeOnes
  <2>4. Made(c)
    BY <1>1, <2>1, <2>3, MadeOnes, NumbersTyped DEF RunOf
  <2> QED BY <1>1, <2>1, <2>2, <2>4 DEF DeliveryInv, Newest
<1>2. DeliveryInv /\ [Next]_vars =>
        [\A d \in Deliveries : del'[d].worker # del[d].worker =>
           \A c \in Of(RunOf(d)) : c <= d]_vars
  BY <1>1
<1> QED BY <1>2, DeliveryAlways, PTL DEF Spec, OldRequestNeverRuns

\* Of two requests of a run that got workers, the later one was made when the
\* earlier could have had one: it does not start over.
THEOREM FreshStartsOnce == Spec => []StartsFreshOnce
<1>1. ASSUME DeliveryInv, NEW c \in Deliveries, NEW d \in Deliveries, c < d,
             del[c].worker # NULL, RunOf(c) = RunOf(d)
      PROVE  ~del[d].fresh
  BY <1>1, MadeOnes DEF DeliveryInv, FreshAlone
<1>2. DeliveryInv => StartsFreshOnce
  <2> SUFFICES ASSUME DeliveryInv, NEW c \in Deliveries, NEW d \in Deliveries, c # d,
                      del[c].worker # NULL, del[d].worker # NULL, RunOf(c) = RunOf(d)
               PROVE  ~(del[c].fresh /\ del[d].fresh)
    BY DEF StartsFreshOnce
  <2>1. c < d \/ d < c
    BY NumbersTyped
  <2> QED BY <1>1, <2>1
<1> QED BY <1>2, DeliveryAlways, PTL

\* Launches and prompt workers fit; what else is counted was late before.
THEOREM CapacityHolds == Spec => []CapacityKept
<1>1. DeliveryInv => CapacityKept
  <2> SUFFICES ASSUME DeliveryInv
               PROVE  Cardinality(Counted)
                        <= LaunchCapacity
                             + Cardinality({d \in Counted : row[RunOf(d)].beat = "again"})
    BY DEF DeliveryInv, CapacityKept
  <2> DEFINE Again == {d \in Counted : row[RunOf(d)].beat = "again"}
  <2>1. Counted = Prompt \union Again /\ Prompt \intersect Again = {}
    BY DEF Prompt
  <2>2. Prompt \in SUBSET Deliveries /\ Again \in SUBSET Deliveries
    BY CountedFinite
  <2>3. /\ IsFiniteSet(Prompt) /\ Cardinality(Prompt) \in Nat
        /\ IsFiniteSet(Again) /\ Cardinality(Again) \in Nat
    BY <2>2, CountedFinite
  <2> HIDE DEF Again
  <2>4. Cardinality(Counted) = Cardinality(Prompt) + Cardinality(Again) - Cardinality({})
    BY <2>1, <2>3, FS_Union
  <2>5. Cardinality({}) = 0
    BY FS_EmptySet
  <2>6. Cardinality(Prompt) <= LaunchCapacity /\ LaunchCapacity \in Nat
    BY DeliveryAssumption DEF DeliveryInv, PromptFits
  <2>7. Cardinality(Counted) <= LaunchCapacity + Cardinality(Again)
    BY <2>3, <2>4, <2>5, <2>6
  <2> QED BY <2>7 DEF Again
<1> QED BY <1>1, DeliveryAlways, PTL

\* What a worker recorded as the result of its run stays the run's.
THEOREM ResultsStand == Spec => []ResultStands
<1>1. DeliveryInv => ResultStands
  BY DEF DeliveryInv
<1> QED BY <1>1, DeliveryAlways, PTL
=============================================================================
