----------------------------- MODULE MCRsyncSync ------------------------------
(***************************************************************************)
(* RsyncSync on small instances.                                           *)
(***************************************************************************)
EXTENDS RsyncSync
=============================================================================
