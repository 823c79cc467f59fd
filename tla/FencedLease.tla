----------------------------- MODULE FencedLease -----------------------------
(***************************************************************************)
(* What a worker lease promises, without clocks, rows or worker names: of  *)
(* the sessions that ask for a key at most one holds it, each grant has a  *)
(* larger fencing token than every earlier one, and a session that lost    *)
(* the key never holds it again.  WorkerLease implements it.               *)
(***************************************************************************)
EXTENDS Naturals

CONSTANTS Keys,      \* the tasks that can be leased
          Sessions   \* the handler invocations that ask for a lease, once each

VARIABLES
  holders,  \* per key: the sessions whose lease is current
  token,    \* per key: the last fencing token given out
  fence     \* per session: the token it was given, 0 before

vars == <<holders, token, fence>>

Init ==
  /\ holders = [k \in Keys |-> {}]
  /\ token = [k \in Keys |-> 0]
  /\ fence = [s \in Sessions |-> 0]

Grant(s, k) ==
  /\ fence[s] = 0 /\ holders[k] = {}
  /\ holders' = [holders EXCEPT ![k] = {s}]
  /\ token' = [token EXCEPT ![k] = @ + 1]
  /\ fence' = [fence EXCEPT ![s] = token[k] + 1]

\* The leases on the keys of K end: released, or their time is over.
End(K) ==
  /\ holders' = [k \in Keys |-> IF k \in K THEN {} ELSE holders[k]]
  /\ UNCHANGED <<token, fence>>

Next ==
  \/ \E s \in Sessions, k \in Keys : Grant(s, k)
  \/ \E K \in SUBSET Keys : End(K)

Spec == Init /\ [][Next]_vars
=============================================================================
