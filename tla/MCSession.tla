------------------------------- MODULE MCSession --------------------------------
(***************************************************************************)
(* Bounds for SessionLifecycle: two runs, so that a late thread of the     *)
(* first meets the second.                                                 *)
(***************************************************************************)
EXTENDS SessionLifecycle
=================================================================================
