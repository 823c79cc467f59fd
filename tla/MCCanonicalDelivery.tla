-------------------------- MODULE MCCanonicalDelivery --------------------------
(***************************************************************************)
(* Two runs that compete for one launch.                                   *)
(***************************************************************************)
EXTENDS CanonicalDelivery
=============================================================================
