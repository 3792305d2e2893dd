----------------------------- MODULE SyncClaim ------------------------------
(***************************************************************************)
(* What e.activeSync promises for one mapping: an exclusive claim.  A pass *)
(* (an auto-sync push or a full sync) takes it only when nobody has it,    *)
(* keeps it while it works, and gives it back.                             *)
(***************************************************************************)
CONSTANTS
  Syncers, \* the passes that may sync the mapping
  None     \* nobody

VARIABLE holder

Init == holder = None

Claim(s) ==
  /\ holder = None
  /\ holder' = s

Release ==
  /\ holder # None
  /\ holder' = None

Next == Release \/ \E s \in Syncers : Claim(s)

Spec == Init /\ [][Next]_holder
=============================================================================
