\* Two StartMapping calls racing with a StopMapping call and a full sync, under the
\* fairness of the Go scheduler.  No symmetry: some properties are temporal.
SPECIFICATION FairSpec
CONSTANTS
  Workers = {w1, w2}
  Fulls = {f1}
  Stops = {s1}
  Paths = {p1}
  MaxBatches <- MCMaxBatches
  None = None
INVARIANTS
  TypeOK
  SerialSync
  NoLostWakeup
  NoOrphanWorker
  PushOnOpenBackend
  StopIsFinal
  NoBackendLeak
PROPERTIES
  PendingIsPushed
  ImplementsClaim
  StopTerminates
\* The system rests when every call has returned and no change is pending.
CHECK_DEADLOCK FALSE
