\* Kills, failing operations, power cuts and damaged files.
SPECIFICATION Spec
CONSTANTS
  MaxVersion = 4
  MaxFaults = 3
  Kinds = {"write", "crash", "power", "loss", "spoil"}
  None = None
  Torn = Torn
  Part = Part
INVARIANTS
  AckedIsOnDisk
  AtomicPersistence
  OneFaultCostsOneSave
CHECK_DEADLOCK FALSE
