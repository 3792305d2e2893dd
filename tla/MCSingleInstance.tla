-------------------------- MODULE MCSingleInstance --------------------------
(***************************************************************************)
(* SingleInstance on small instances.                                      *)
(***************************************************************************)
EXTENDS SingleInstance
=============================================================================
