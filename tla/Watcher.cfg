\* Changes of a tree of two nested directories, a file and an excluded file, with a
\* queue that overflows, under fairness.
SPECIFICATION WatchFairSpec
CONSTANTS
  Root = "root"
  Dirs = {"d", "e"}
  Files = {"f", "h"}
  Parent <- MCParent
  Excluded = {"h"}
  MaxChanges = 5
  MaxQueue = 2
INVARIANTS
  NewDirsWatched
  ToldOfChanges
PROPERTY ChangesArrive
CHECK_DEADLOCK FALSE
