---------------------------- MODULE MCDriveStorage ----------------------------
(***************************************************************************)
(* Two objects of a tenant whose quota is one of them, and one client      *)
(* beside the reconciliation.                                              *)
(***************************************************************************)
EXTENDS DriveStorage

CONSTANTS o1, o2, p1, sweeper

TwoObjects == {o1, o2}
OneClient == {p1}
=============================================================================
