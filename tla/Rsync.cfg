\* Two syncs of a runtime of one file of bin and one of etc, a connection that hangs,
\* and crashes, under fairness.
SPECIFICATION RsyncFairSpec
CONSTANTS
  Calls = {c1, c2}
  Copies = 2
  Heads = {1, 2}
  Faults = {"misread", "crash"}
  Exe = 1
  MaxHung = 1
INVARIANTS
  MarkerMeansWhole
  RemoteIsOver
PROPERTY CancelReturns
\* The system rests when every sync has returned.
CHECK_DEADLOCK FALSE
