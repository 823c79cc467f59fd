-------------------------- MODULE MCOperationsAction --------------------------
(***************************************************************************)
(* One action with each kind of definition of operationsEngine.ts, and     *)
(* three people: who requests it, who may approve it, somebody else.       *)
(***************************************************************************)
EXTENDS OperationsAction, TLC

CONSTANTS acknowledge, resolve, resume, refresh, benchmark, target,
          requester, manager, operator, p1, p2

Row(confirm, approve, adapter, n) ==
  [confirm |-> confirm, approval |-> approve, adapter |-> adapter, target |-> target, attempts |-> n]

Defined ==
  acknowledge :> Row(FALSE, FALSE, "internal", 2) @@ resolve :> Row(TRUE, FALSE, "internal", 2)
  @@ resume :> Row(TRUE, TRUE, "internal", 1) @@ benchmark :> Row(TRUE, TRUE, "external", 1)
  @@ refresh :> Row(FALSE, FALSE, "external", 2)

Kinds == DOMAIN Defined
Staff == {requester, manager, operator}
TwoProcs == {p1, p2}
Symmetric == Permutations(TwoProcs) \union Permutations({manager, operator})
=============================================================================
