\* Two Start calls, a Stop call and two clients of a SOCKS5 forward, under fairness.
SPECIFICATION FairSpec
CONSTANTS
  Gens = {g1, g2}
  Conns = {c1, c2}
  Stops = {s1}
  Dynamic = TRUE
  AcceptMayFail = TRUE
  None = None
INVARIANTS
  StopIsComplete
  NoRemoteLeak
  RunningIsServed
PROPERTY StopReturns
\* The system rests when every call has returned.
CHECK_DEADLOCK FALSE
