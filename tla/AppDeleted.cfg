\* A full sync is still running when its mapping is deleted.
SPECIFICATION Spec
CONSTANTS
  Calls = {c1, c2}
  Servers = {s1, s2}
  Kinds = {"mapping"}
  Ops = {"save", "delete", "full"}
  MaxMade = 2
  None = None
SYMMETRY Symmetry
VIEW View
INVARIANT DeletedStaysDeleted
CHECK_DEADLOCK FALSE
