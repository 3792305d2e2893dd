------------------------------ MODULE MCWatcher ------------------------------
(***************************************************************************)
(* Watcher on a tree of a directory d, with a file f and a directory e in  *)
(* it, and a file h beside d.                                              *)
(***************************************************************************)
EXTENDS Watcher
MCParent == [p \in Paths |-> CASE p \in {"d", "h"} -> "root" [] p \in {"e", "f"} -> "d"]
=============================================================================
