\* Two calls one after the other on a tree that changes, under fairness.
SPECIFICATION FairSpec
CONSTANTS
  Root = "root"
  Paths = {"d", "f", "g", "x"}
  Parent <- MCParent
  Excluded = {"x"}
  Size <- MCSize
  Time <- MCTime
  Second = 2
  Workers = {"w1", "w2"}
  OnServer <- MCOnServer
  AtHome <- MCAtHome
  MaxChanges = 2
  MaxSyncs = 2
INVARIANTS
  SuccessIsComplete
  SameIsEqual
PROPERTIES
  ExtrasAreKept
  SyncEnds
CHECK_DEADLOCK FALSE
