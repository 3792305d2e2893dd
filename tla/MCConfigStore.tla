---------------------------- MODULE MCConfigStore ----------------------------
(***************************************************************************)
(* ConfigStore on small instances.  None, Torn and Part are model values.        *)
(***************************************************************************)
EXTENDS ConfigStore
=============================================================================
