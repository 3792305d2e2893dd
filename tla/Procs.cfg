\* A Start of the user and one of autostart, a Stop call (alone, or in a delete or an
\* import), two recoveries (of two sessions, or of a session and an import), under
\* fairness.
SPECIFICATION FairSpec
CONSTANTS
  Runs = {r1, a1}
  Autostarted = {a1}
  Stops = {s1}
  Recoveries = {c1, c2}
  Pids = {p1, p2}
  DiskFails = TRUE
  PidReuse = TRUE
  None = None
INVARIANTS
  NoUntrackedChild
  
  PersistedIsFound
PROPERTY ExitIsNoticed
\* The system rests when every call has returned.
CHECK_DEADLOCK FALSE
