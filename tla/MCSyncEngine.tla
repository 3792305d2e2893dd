---------------------------- MODULE MCSyncEngine ----------------------------
(***************************************************************************)
(* SyncEngine on a small instance: one worker has a batch to push and one  *)
(* that comes during the push, the other a single batch.                   *)
(***************************************************************************)
EXTENDS SyncEngine

MCMaxBatches ==
  LET busy == CHOOSE w \in Workers : TRUE
  IN  [w \in Workers |-> IF w = busy THEN 2 ELSE 1]
=============================================================================
