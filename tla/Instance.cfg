\* Three processes of the program, each launched, closed or killed at any time.
SPECIFICATION FairSpec
CONSTANTS
  Procs = {p1, p2, p3}
  None = None
  Mutex = Mutex
INVARIANTS
  OnePrimaryOfAFile
PROPERTY RefusedIsShown
\* The system rests when every process is gone, or the primary idles.
CHECK_DEADLOCK FALSE
