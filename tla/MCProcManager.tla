--------------------------- MODULE MCProcManager ----------------------------
(***************************************************************************)
(* ProcManager on small instances.                                         *)
(***************************************************************************)
EXTENDS ProcManager, TLC

\* Start calls of one kind, Stop calls, recoveries and PIDs are interchangeable.
Symmetry == Permutations(Runs \ Autostarted) \cup Permutations(Autostarted)
              \cup Permutations(Stops) \cup Permutations(Recoveries)
              \cup Permutations(Pids)
=============================================================================
