----------------------------- MODULE MCAppEntries -----------------------------
(***************************************************************************)
(* AppEntries on small instances, with the calls and the servers as        *)
(* interchangeable model values.  No call reads the copy of the entry      *)
(* before it has taken one: what a call held that is over, or has not yet  *)
(* read, makes no difference.                                              *)
(***************************************************************************)
EXTENDS AppEntries, TLC
Symmetry == Permutations(Calls) \cup Permutations(Servers)
Holding(c) == IF pc[c] \in {"stop", "start", "dial", "full"} THEN held[c] ELSE None
View == <<kind, stored, servers, shown, running, pc, [c \in Calls |-> Holding(c)], made,
          deleted, failed, raced>>
=============================================================================
