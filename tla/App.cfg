\* Two calls at a time, or one after the other, of every kind.
SPECIFICATION Spec
CONSTANTS
  Calls = {c1, c2}
  Servers = {s1, s2}
  Kinds = {"mapping", "forward", "process"}
  Ops = {"save", "delete", "full", "start", "stop", "import", "server"}
  MaxMade = 2
  None = None
SYMMETRY Symmetry
VIEW View
INVARIANTS
  RuntimeFollowsConfig
  ServerInUseStays
  MaskIsNoSecret
CHECK_DEADLOCK FALSE
