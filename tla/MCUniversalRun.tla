---------------------------- MODULE MCUniversalRun ----------------------------
(***************************************************************************)
(* One file set besides the project's own: what a model produces and what  *)
(* a repair makes of it differ when one of them is the project's.          *)
(***************************************************************************)
EXTENDS UniversalRun
=============================================================================
