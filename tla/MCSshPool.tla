------------------------------ MODULE MCSshPool ------------------------------
(***************************************************************************)
(* SshPool on small instances.                                             *)
(***************************************************************************)
EXTENDS SshPool, TLC

CONSTANTS u1, u2, u3, s1, s2
MCServerOf == u1 :> s1 @@ u2 :> s1 @@ u3 :> s2
=============================================================================
