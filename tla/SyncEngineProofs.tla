-------------------------- MODULE SyncEngineProofs --------------------------
(***************************************************************************)
(* Safety of SyncEngine for any number of calls, paths and batches.        *)
(***************************************************************************)
EXTENDS SyncEngine, RsyncSync, TLAPS

\* Releasing the claim keeps the types of what it changes.
LEMMA ReleaseClaimType ==
  ASSUME TypeOK, ReleaseClaim
  PROVE  activeSync' \in BOOLEAN /\ notifying' \in [Workers -> Nat]
<1>1. CASE registered = None
  BY <1>1 DEF TypeOK, ReleaseClaim
<1>2. CASE registered # None
  <2>1. registered \in Workers /\ notifying[registered] + 1 \in Nat
    BY <1>2 DEF TypeOK
  <2>2. QED BY <1>2, <2>1 DEF TypeOK, ReleaseClaim
<1>3. QED BY <1>1, <1>2

\* startPush keeps the types of what it changes.
LEMMA StartPushType ==
  ASSUME TypeOK, NEW w \in Workers, NEW p \in SUBSET Paths,
         NEW s \in [Workers -> BOOLEAN], StartPush(w, p, s)
  PROVE  /\ activeSync' \in BOOLEAN
         /\ pending' \in [Workers -> SUBSET Paths]
         /\ syncing' \in [Workers -> BOOLEAN]
         /\ push' \in [Workers -> {"idle", "running", "ending"}]
<1>1. activeSync' \in BOOLEAN
  BY DEF TypeOK, StartPush
<1>2. pending' \in [Workers -> SUBSET Paths]
  BY DEF TypeOK, StartPush
<1>3. syncing' \in [Workers -> BOOLEAN]
  BY DEF TypeOK, StartPush
<1>4. push' \in [Workers -> {"idle", "running", "ending"}]
  BY DEF TypeOK, StartPush
<1>5. QED BY <1>1, <1>2, <1>3, <1>4

\* The engine starts in a well-typed state ...
LEMMA TypeInit == Init => TypeOK
<1> SUFFICES ASSUME Init PROVE TypeOK
  OBVIOUS
<1>1. sent \in [Workers -> Nat] /\ \A w \in Workers : sent[w] <= MaxBatches[w]
  <2>1. \A w \in Workers : MaxBatches[w] \in Nat
    BY EngineAssumption, SMT DEF EngineAssumption
  <2>2. sent = [w \in Workers |-> 0]
    BY DEF Init
  <2>3. QED BY <2>1, <2>2, SMT
<1>2. QED
  BY <1>1 DEF Init, TypeOK, Phases

\* ... and every step keeps it well-typed.
LEMMA TypeStep ==
  ASSUME TypeOK, [Next]_vars
  PROVE  TypeOK'
<1> USE EngineAssumption DEF EngineAssumption, TypeOK, Phases, callVars, workerVars, GoTo
<1>1. ASSUME NEW w \in Workers, StartCall(w) PROVE TypeOK'
  <2>1. CASE StartEnter(w)    BY <2>1 DEF StartEnter
  <2>2. CASE StartResolve(w)  BY <2>2 DEF StartResolve
  <2>3. CASE StartPrepare(w)  BY <2>3 DEF StartPrepare
  <2>4. CASE StartRegister(w)
    <3>1. CASE registered' = w /\ GoTo(w, "loop") /\ UNCHANGED <<canceled, backend>>
      BY <2>4, <3>1 DEF StartRegister
    <3>2. CASE /\ GoTo(w, "failed") /\ UNCHANGED registered
               /\ canceled' = [canceled EXCEPT ![w] = TRUE]
               /\ backend' = [backend EXCEPT ![w] = "closed"]
      BY <2>4, <3>2 DEF StartRegister
    <3>3. QED BY <2>4, <3>1, <3>2 DEF StartRegister
  <2>5. QED BY <1>1, <2>1, <2>2, <2>3, <2>4 DEF StartCall
<1>2. ASSUME NEW w \in Workers, WatcherSend(w) PROVE TypeOK'
  BY <1>2 DEF WatcherSend
<1>3. ASSUME NEW w \in Workers, WorkerLoop(w) PROVE TypeOK'
  <2>1. CASE RecvRetry(w)
    <3>1. StartPush(w, pending[w], syncing)
      BY <2>1 DEF RecvRetry
    <3>2. QED BY <2>1, <3>1, StartPushType DEF RecvRetry
  <2>2. CASE RecvBatch(w)
    <3>1. StartPush(w, pending[w] \cup batches[w], syncing)
      BY <2>2 DEF RecvBatch
    <3>2. QED BY <2>2, <3>1, StartPushType DEF RecvBatch
  <2>3. CASE RecvResult(w)
    <3>1. StartPush(w, pending[w], [syncing EXCEPT ![w] = FALSE])
      BY <2>3 DEF RecvResult
    <3>2. QED BY <2>3, <3>1, StartPushType DEF RecvResult
  <2>4. CASE CtxDone(w)      BY <2>4 DEF CtxDone
  <2>5. CASE Drain(w)        BY <2>5 DEF Drain
  <2>6. CASE CloseBackend(w) BY <2>6 DEF CloseBackend
  <2>7. CASE CloseDone(w)    BY <2>7 DEF CloseDone
  <2>8. QED BY <1>3, <2>1, <2>2, <2>3, <2>4, <2>5, <2>6, <2>7 DEF WorkerLoop
<1>4. ASSUME NEW w \in Workers, Pusher(w) PROVE TypeOK'
  <2>1. CASE PushReturns(w) BY <2>1 DEF PushReturns
  <2>2. CASE PushEnds(w)    BY <2>2, ReleaseClaimType DEF PushEnds
  <2>3. QED BY <1>4, <2>1, <2>2 DEF Pusher
<1>5. ASSUME NEW w \in Workers, Notify(w) PROVE TypeOK'
  BY <1>5 DEF Notify
<1>6. ASSUME NEW f \in Fulls, FullCall(f) PROVE TypeOK'
  <2>1. CASE FullBegin(f)   BY <2>1 DEF FullBegin
  <2>2. CASE FullResolve(f) BY <2>2 DEF FullResolve
  <2>3. CASE FullReturns(f) BY <2>3 DEF FullReturns
  <2>4. CASE FullEnds(f)    BY <2>4, ReleaseClaimType DEF FullEnds
  <2>5. QED BY <1>6, <2>1, <2>2, <2>3, <2>4 DEF FullCall
<1>7. ASSUME NEW s \in Stops, StopCall(s) PROVE TypeOK'
  <2>1. CASE StopTake(s)    BY <2>1 DEF StopTake
  <2>2. CASE StopCancel(s)  BY <2>2 DEF StopCancel
  <2>3. CASE StopReturns(s) BY <2>3 DEF StopReturns
  <2>4. QED BY <1>7, <2>1, <2>2, <2>3 DEF StopCall
<1>8. CASE UNCHANGED vars
  BY <1>8 DEF vars
<1>9. QED
  BY <1>1, <1>2, <1>3, <1>4, <1>5, <1>6, <1>7, <1>8 DEF Next

\* The variables keep their types: every state the engine can reach is one
\* that its declarations allow.
THEOREM TypeCorrect == Spec => []TypeOK
<1>1. TypeOK /\ [Next]_vars => TypeOK'
  BY TypeStep
<1>2. QED
  BY TypeInit, <1>1, PTL DEF Spec

-----------------------------------------------------------------------------
\* Each part of the inductive invariant is preserved by every step.
LEMMA ClaimStep ==
  ASSUME TypeOK, ClaimInv, [Next]_vars
  PROVE  ClaimInv'
<1> USE EngineAssumption DEF EngineAssumption, TypeOK, ClaimInv, ClaimHolders,
                             callVars, workerVars
<1>1. ASSUME NEW w \in Workers, StartCall(w) PROVE ClaimInv'
  <2>1. CASE StartEnter(w)  BY <2>1 DEF StartEnter
  <2>2. CASE StartResolve(w)  BY <2>2 DEF StartResolve
  <2>3. CASE StartPrepare(w)  BY <2>3 DEF StartPrepare
  <2>4. CASE StartRegister(w)  BY <2>4 DEF StartRegister
  <2>5. QED BY <1>1, <2>1, <2>2, <2>3, <2>4 DEF StartCall
<1>2. ASSUME NEW w \in Workers, WatcherSend(w) PROVE ClaimInv'
  BY <1>2 DEF WatcherSend
<1>3. ASSUME NEW w \in Workers, WorkerLoop(w) PROVE ClaimInv'
  <2>1. CASE RecvRetry(w)  BY <2>1 DEF RecvRetry, StartPush
  <2>2. CASE RecvBatch(w)  BY <2>2 DEF RecvBatch, StartPush
  <2>3. CASE RecvResult(w)  BY <2>3 DEF RecvResult, StartPush
  <2>4. CASE CtxDone(w)  BY <2>4 DEF CtxDone
  <2>5. CASE Drain(w)  BY <2>5 DEF Drain
  <2>6. CASE CloseBackend(w)  BY <2>6 DEF CloseBackend
  <2>7. CASE CloseDone(w)  BY <2>7 DEF CloseDone
  <2>8. QED BY <1>3, <2>1, <2>2, <2>3, <2>4, <2>5, <2>6, <2>7 DEF WorkerLoop
<1>4. ASSUME NEW w \in Workers, Pusher(w) PROVE ClaimInv'
  <2>1. CASE PushReturns(w)  BY <2>1 DEF PushReturns
  <2>2. CASE PushEnds(w)  BY <2>2 DEF PushEnds, ReleaseClaim
  <2>3. QED BY <1>4, <2>1, <2>2 DEF Pusher
<1>5. ASSUME NEW w \in Workers, Notify(w) PROVE ClaimInv'
  BY <1>5 DEF Notify
<1>6. ASSUME NEW f \in Fulls, FullCall(f) PROVE ClaimInv'
  <2>1. CASE FullBegin(f)  BY <2>1 DEF FullBegin
  <2>2. CASE FullResolve(f)  BY <2>2 DEF FullResolve
  <2>3. CASE FullReturns(f)  BY <2>3 DEF FullReturns
  <2>4. CASE FullEnds(f)  BY <2>4 DEF FullEnds, ReleaseClaim
  <2>5. QED BY <1>6, <2>1, <2>2, <2>3, <2>4 DEF FullCall
<1>7. ASSUME NEW s \in Stops, StopCall(s) PROVE ClaimInv'
  <2>1. CASE StopTake(s)  BY <2>1 DEF StopTake
  <2>2. CASE StopCancel(s)  BY <2>2 DEF StopCancel
  <2>3. CASE StopReturns(s)  BY <2>3 DEF StopReturns
  <2>4. QED BY <1>7, <2>1, <2>2, <2>3 DEF StopCall
<1>8. CASE UNCHANGED vars
  BY <1>8 DEF vars
<1>9. QED
  BY <1>1, <1>2, <1>3, <1>4, <1>5, <1>6, <1>7, <1>8 DEF Next

\* The registry and the StopMapping calls.
LEMMA RegistryStep ==
  ASSUME TypeOK, RegistryInv, WorkerInv, [Next]_vars
  PROVE  RegistryInv'
<1> USE EngineAssumption DEF EngineAssumption, TypeOK, RegistryInv, WorkerInv,
                             callVars, workerVars, GoTo
<1>1. ASSUME NEW w \in Workers, StartCall(w) PROVE RegistryInv'
  <2>1. CASE StartEnter(w)  BY <2>1 DEF StartEnter
  <2>2. CASE StartResolve(w)  BY <2>2 DEF StartResolve
  <2>3. CASE StartPrepare(w)  BY <2>3 DEF StartPrepare
  <2>4. CASE StartRegister(w)  BY <2>4 DEF StartRegister
  <2>5. QED BY <1>1, <2>1, <2>2, <2>3, <2>4 DEF StartCall
<1>2. ASSUME NEW w \in Workers, WatcherSend(w) PROVE RegistryInv'
  BY <1>2 DEF WatcherSend
<1>3. ASSUME NEW w \in Workers, WorkerLoop(w) PROVE RegistryInv'
  <2>1. CASE RecvRetry(w)  BY <2>1 DEF RecvRetry, StartPush
  <2>2. CASE RecvBatch(w)  BY <2>2 DEF RecvBatch, StartPush
  <2>3. CASE RecvResult(w)  BY <2>3 DEF RecvResult, StartPush
  <2>4. CASE CtxDone(w)  BY <2>4 DEF CtxDone
  <2>5. CASE Drain(w)  BY <2>5 DEF Drain
  <2>6. CASE CloseBackend(w)  BY <2>6 DEF CloseBackend
  <2>7. CASE CloseDone(w)  BY <2>7 DEF CloseDone
  <2>8. QED BY <1>3, <2>1, <2>2, <2>3, <2>4, <2>5, <2>6, <2>7 DEF WorkerLoop
<1>4. ASSUME NEW w \in Workers, Pusher(w) PROVE RegistryInv'
  <2>1. CASE PushReturns(w)  BY <2>1 DEF PushReturns
  <2>2. CASE PushEnds(w)  BY <2>2 DEF PushEnds, ReleaseClaim
  <2>3. QED BY <1>4, <2>1, <2>2 DEF Pusher
<1>5. ASSUME NEW w \in Workers, Notify(w) PROVE RegistryInv'
  BY <1>5 DEF Notify
<1>6. ASSUME NEW f \in Fulls, FullCall(f) PROVE RegistryInv'
  <2>1. CASE FullBegin(f)  BY <2>1 DEF FullBegin
  <2>2. CASE FullResolve(f)  BY <2>2 DEF FullResolve
  <2>3. CASE FullReturns(f)  BY <2>3 DEF FullReturns
  <2>4. CASE FullEnds(f)  BY <2>4 DEF FullEnds, ReleaseClaim
  <2>5. QED BY <1>6, <2>1, <2>2, <2>3, <2>4 DEF FullCall
<1>7. ASSUME NEW s \in Stops, StopCall(s) PROVE RegistryInv'
  <2>1. CASE StopTake(s)  BY <2>1 DEF StopTake
  <2>2. CASE StopCancel(s)  BY <2>2 DEF StopCancel
  <2>3. CASE StopReturns(s)  BY <2>3 DEF StopReturns
  <2>4. QED BY <1>7, <2>1, <2>2, <2>3 DEF StopCall
<1>8. CASE UNCHANGED vars
  BY <1>8 DEF vars
<1>9. QED
  BY <1>1, <1>2, <1>3, <1>4, <1>5, <1>6, <1>7, <1>8 DEF Next

\* The workers.
LEMMA WorkerStep ==
  ASSUME TypeOK, RegistryInv, WorkerInv, [Next]_vars
  PROVE  WorkerInv'
<1> USE EngineAssumption DEF EngineAssumption, TypeOK, RegistryInv, WorkerInv,
                             callVars, workerVars, GoTo
<1>1. ASSUME NEW w \in Workers, StartCall(w) PROVE WorkerInv'
  <2>1. CASE StartEnter(w)  BY <2>1 DEF StartEnter
  <2>2. CASE StartResolve(w)  BY <2>2 DEF StartResolve
  <2>3. CASE StartPrepare(w)  BY <2>3 DEF StartPrepare
  <2>4. CASE StartRegister(w)
    <3>1. CASE registered = None  BY <2>4, <3>1 DEF StartRegister
    <3>2. CASE registered # None  BY <2>4, <3>2 DEF StartRegister
    <3>3. QED BY <3>1, <3>2
  <2>5. QED BY <1>1, <2>1, <2>2, <2>3, <2>4 DEF StartCall
<1>2. ASSUME NEW w \in Workers, WatcherSend(w) PROVE WorkerInv'
  BY <1>2 DEF WatcherSend
<1>3. ASSUME NEW w \in Workers, WorkerLoop(w) PROVE WorkerInv'
  <2>1. CASE RecvRetry(w)  BY <2>1 DEF RecvRetry, StartPush
  <2>2. CASE RecvBatch(w)  BY <2>2 DEF RecvBatch, StartPush
  <2>3. CASE RecvResult(w)
    <3>1. push[w] # "running"
      BY <2>3 DEF RecvResult
    <3>2. CASE push'[w] = "running"
      BY <2>3, <3>1, <3>2 DEF RecvResult, StartPush
    <3>3. CASE push'[w] # "running"
      BY <2>3, <3>1, <3>3 DEF RecvResult, StartPush
    <3>4. QED BY <3>2, <3>3
  <2>4. CASE CtxDone(w)  BY <2>4 DEF CtxDone
  <2>5. CASE Drain(w)  BY <2>5 DEF Drain
  <2>6. CASE CloseBackend(w)  BY <2>6 DEF CloseBackend
  <2>7. CASE CloseDone(w)  BY <2>7 DEF CloseDone
  <2>8. QED BY <1>3, <2>1, <2>2, <2>3, <2>4, <2>5, <2>6, <2>7 DEF WorkerLoop
<1>4. ASSUME NEW w \in Workers, Pusher(w) PROVE WorkerInv'
  <2>1. CASE PushReturns(w)  BY <2>1 DEF PushReturns
  <2>2. CASE PushEnds(w)  BY <2>2 DEF PushEnds, ReleaseClaim
  <2>3. QED BY <1>4, <2>1, <2>2 DEF Pusher
<1>5. ASSUME NEW w \in Workers, Notify(w) PROVE WorkerInv'
  BY <1>5 DEF Notify
<1>6. ASSUME NEW f \in Fulls, FullCall(f) PROVE WorkerInv'
  <2>1. CASE FullBegin(f)  BY <2>1 DEF FullBegin
  <2>2. CASE FullResolve(f)  BY <2>2 DEF FullResolve
  <2>3. CASE FullReturns(f)  BY <2>3 DEF FullReturns
  <2>4. CASE FullEnds(f)  BY <2>4 DEF FullEnds, ReleaseClaim
  <2>5. QED BY <1>6, <2>1, <2>2, <2>3, <2>4 DEF FullCall
<1>7. ASSUME NEW s \in Stops, StopCall(s) PROVE WorkerInv'
  <2>1. CASE StopTake(s)  BY <2>1 DEF StopTake
  <2>2. CASE StopCancel(s)  BY <2>2 DEF StopCancel
  <2>3. CASE StopReturns(s)  BY <2>3 DEF StopReturns
  <2>4. QED BY <1>7, <2>1, <2>2, <2>3 DEF StopCall
<1>8. CASE UNCHANGED vars
  BY <1>8 DEF vars
<1>9. QED
  BY <1>1, <1>2, <1>3, <1>4, <1>5, <1>6, <1>7, <1>8 DEF Next

\* Who holds a live worker.
LEMMA OrphanStep ==
  ASSUME TypeOK, RegistryInv, NoOrphanWorker, [Next]_vars
  PROVE  NoOrphanWorker'
<1> USE EngineAssumption DEF EngineAssumption, TypeOK, RegistryInv, NoOrphanWorker,
                             callVars, workerVars, GoTo
<1>1. ASSUME NEW w \in Workers, StartCall(w) PROVE NoOrphanWorker'
  <2>1. CASE StartEnter(w)  BY <2>1 DEF StartEnter
  <2>2. CASE StartResolve(w)  BY <2>2 DEF StartResolve
  <2>3. CASE StartPrepare(w)  BY <2>3 DEF StartPrepare
  <2>4. CASE StartRegister(w)  BY <2>4 DEF StartRegister
  <2>5. QED BY <1>1, <2>1, <2>2, <2>3, <2>4 DEF StartCall
<1>2. ASSUME NEW w \in Workers, WatcherSend(w) PROVE NoOrphanWorker'
  BY <1>2 DEF WatcherSend
<1>3. ASSUME NEW w \in Workers, WorkerLoop(w) PROVE NoOrphanWorker'
  <2>1. CASE RecvRetry(w)  BY <2>1 DEF RecvRetry, StartPush
  <2>2. CASE RecvBatch(w)  BY <2>2 DEF RecvBatch, StartPush
  <2>3. CASE RecvResult(w)  BY <2>3 DEF RecvResult, StartPush
  <2>4. CASE CtxDone(w)  BY <2>4 DEF CtxDone
  <2>5. CASE Drain(w)  BY <2>5 DEF Drain
  <2>6. CASE CloseBackend(w)  BY <2>6 DEF CloseBackend
  <2>7. CASE CloseDone(w)  BY <2>7 DEF CloseDone
  <2>8. QED BY <1>3, <2>1, <2>2, <2>3, <2>4, <2>5, <2>6, <2>7 DEF WorkerLoop
<1>4. ASSUME NEW w \in Workers, Pusher(w) PROVE NoOrphanWorker'
  <2>1. CASE PushReturns(w)  BY <2>1 DEF PushReturns
  <2>2. CASE PushEnds(w)  BY <2>2 DEF PushEnds, ReleaseClaim
  <2>3. QED BY <1>4, <2>1, <2>2 DEF Pusher
<1>5. ASSUME NEW w \in Workers, Notify(w) PROVE NoOrphanWorker'
  BY <1>5 DEF Notify
<1>6. ASSUME NEW f \in Fulls, FullCall(f) PROVE NoOrphanWorker'
  <2>1. CASE FullBegin(f)  BY <2>1 DEF FullBegin
  <2>2. CASE FullResolve(f)  BY <2>2 DEF FullResolve
  <2>3. CASE FullReturns(f)  BY <2>3 DEF FullReturns
  <2>4. CASE FullEnds(f)  BY <2>4 DEF FullEnds, ReleaseClaim
  <2>5. QED BY <1>6, <2>1, <2>2, <2>3, <2>4 DEF FullCall
<1>7. ASSUME NEW s \in Stops, StopCall(s) PROVE NoOrphanWorker'
  <2>1. CASE StopTake(s)  BY <2>1 DEF StopTake
  <2>2. CASE StopCancel(s)  BY <2>2 DEF StopCancel
  <2>3. CASE StopReturns(s)  BY <2>3 DEF StopReturns
  <2>4. QED BY <1>7, <2>1, <2>2, <2>3 DEF StopCall
<1>8. CASE UNCHANGED vars
  BY <1>8 DEF vars
<1>9. QED
  BY <1>1, <1>2, <1>3, <1>4, <1>5, <1>6, <1>7, <1>8 DEF Next

\* Wake-ups.
LEMMA WakeupStep ==
  ASSUME TypeOK, RegistryInv, WorkerInv, NoLostWakeup, [Next]_vars
  PROVE  NoLostWakeup'
<1> USE EngineAssumption DEF EngineAssumption, TypeOK, RegistryInv, WorkerInv,
                             NoLostWakeup, callVars, workerVars, GoTo
<1>1. ASSUME NEW w \in Workers, StartCall(w) PROVE NoLostWakeup'
  <2>1. CASE StartEnter(w)  BY <2>1 DEF StartEnter
  <2>2. CASE StartResolve(w)  BY <2>2 DEF StartResolve
  <2>3. CASE StartPrepare(w)  BY <2>3 DEF StartPrepare
  <2>4. CASE StartRegister(w)  BY <2>4 DEF StartRegister
  <2>5. QED BY <1>1, <2>1, <2>2, <2>3, <2>4 DEF StartCall
<1>2. ASSUME NEW w \in Workers, WatcherSend(w) PROVE NoLostWakeup'
  BY <1>2 DEF WatcherSend
<1>3. ASSUME NEW w \in Workers, WorkerLoop(w) PROVE NoLostWakeup'
  <2>1. CASE RecvRetry(w)  BY <2>1 DEF RecvRetry, StartPush
  <2>2. CASE RecvBatch(w)  BY <2>2 DEF RecvBatch, StartPush
  <2>3. CASE RecvResult(w)  BY <2>3 DEF RecvResult, StartPush
  <2>4. CASE CtxDone(w)  BY <2>4 DEF CtxDone
  <2>5. CASE Drain(w)  BY <2>5 DEF Drain
  <2>6. CASE CloseBackend(w)  BY <2>6 DEF CloseBackend
  <2>7. CASE CloseDone(w)  BY <2>7 DEF CloseDone
  <2>8. QED BY <1>3, <2>1, <2>2, <2>3, <2>4, <2>5, <2>6, <2>7 DEF WorkerLoop
<1>4. ASSUME NEW w \in Workers, Pusher(w) PROVE NoLostWakeup'
  <2>1. CASE PushReturns(w)  BY <2>1 DEF PushReturns
  <2>2. CASE PushEnds(w)  BY <2>2 DEF PushEnds, ReleaseClaim
  <2>3. QED BY <1>4, <2>1, <2>2 DEF Pusher
<1>5. ASSUME NEW w \in Workers, Notify(w) PROVE NoLostWakeup'
  BY <1>5 DEF Notify
<1>6. ASSUME NEW f \in Fulls, FullCall(f) PROVE NoLostWakeup'
  <2>1. CASE FullBegin(f)  BY <2>1 DEF FullBegin
  <2>2. CASE FullResolve(f)  BY <2>2 DEF FullResolve
  <2>3. CASE FullReturns(f)  BY <2>3 DEF FullReturns
  <2>4. CASE FullEnds(f)  BY <2>4 DEF FullEnds, ReleaseClaim
  <2>5. QED BY <1>6, <2>1, <2>2, <2>3, <2>4 DEF FullCall
<1>7. ASSUME NEW s \in Stops, StopCall(s) PROVE NoLostWakeup'
  <2>1. CASE StopTake(s)  BY <2>1 DEF StopTake
  <2>2. CASE StopCancel(s)  BY <2>2 DEF StopCancel
  <2>3. CASE StopReturns(s)  BY <2>3 DEF StopReturns
  <2>4. QED BY <1>7, <2>1, <2>2, <2>3 DEF StopCall
<1>8. CASE UNCHANGED vars
  BY <1>8 DEF vars
<1>9. QED
  BY <1>1, <1>2, <1>3, <1>4, <1>5, <1>6, <1>7, <1>8 DEF Next

-----------------------------------------------------------------------------
\* The inductive invariant.
THEOREM InvCorrect == Spec => []Inv
<1>1. Init => Inv
  <2> SUFFICES ASSUME Init PROVE ClaimInv /\ RegistryInv /\ WorkerInv
                                   /\ NoOrphanWorker /\ NoLostWakeup
    BY TypeInit DEF Inv
  <2> USE EngineAssumption DEF EngineAssumption, Init
  <2>1. ClaimInv       BY DEF ClaimInv, ClaimHolders
  <2>2. RegistryInv    BY DEF RegistryInv
  <2>3. WorkerInv      BY DEF WorkerInv
  <2>4. NoOrphanWorker BY DEF NoOrphanWorker
  <2>5. NoLostWakeup   BY DEF NoLostWakeup
  <2>6. QED BY <2>1, <2>2, <2>3, <2>4, <2>5
<1>2. Inv /\ [Next]_vars => Inv'
  BY TypeStep, ClaimStep, RegistryStep, WorkerStep, OrphanStep, WakeupStep DEF Inv
<1>3. QED
  BY <1>1, <1>2, PTL DEF Spec

\* engine.go beginSync/endSync: auto-sync pushes and full syncs of a mapping
\* are never in a backend together, whatever calls race.
THEOREM SyncsAreSerial == Spec => []SerialSync
<1>1. Inv => SerialSync
  BY DEF Inv, ClaimInv, ClaimHolders, SerialSync, InBackend
<1>2. QED BY <1>1, InvCorrect, PTL

\* engine.go endSync: a registered worker with pending changes has a push of
\* its own, or a wake-up it can count on.
THEOREM WakeupsAreKept == Spec => []NoLostWakeup
<1>1. Inv => NoLostWakeup
  BY DEF Inv
<1>2. QED BY <1>1, InvCorrect, PTL

\* engine.go StartMapping/StopMapping: no running worker is out of reach of
\* StopMapping.
THEOREM WorkersAreReachable == Spec => []NoOrphanWorker
<1>1. Inv => NoOrphanWorker
  BY DEF Inv
<1>2. QED BY <1>1, InvCorrect, PTL

\* engine.go runMapping: the deferred close of the backend waits for the push
\* in flight.
THEOREM PushesAreOnOpenBackends == Spec => []PushOnOpenBackend
<1>1. Inv => PushOnOpenBackend
  BY DEF Inv, WorkerInv, PushOnOpenBackend
<1>2. QED BY <1>1, InvCorrect, PTL

\* engine.go StopMapping: when it returned, its worker is over for good.
THEOREM StopsAreFinal == Spec => []StopIsFinal
<1>1. Inv => StopIsFinal
  <2> SUFFICES ASSUME Inv, NEW s \in Stops, stop[s] = "done", target[s] # None
               PROVE  /\ phase[target[s]] = "done"
                      /\ push[target[s]] # "running"
                      /\ backend[target[s]] = "closed"
    BY DEF StopIsFinal
  <2>1. target[s] \in Workers /\ phase[target[s]] = "done"
    BY DEF Inv, TypeOK, RegistryInv
  <2>2. QED BY <2>1 DEF Inv, TypeOK, WorkerInv
<1>2. QED BY <1>1, InvCorrect, PTL

\* engine.go resolveBackend/closeOwnedBackend: what StartMapping dialled is
\* closed on every way out.
THEOREM BackendsAreClosed == Spec => []NoBackendLeak
<1>1. Inv => NoBackendLeak
  BY DEF Inv, WorkerInv, NoBackendLeak
<1>2. QED BY <1>1, InvCorrect, PTL

-----------------------------------------------------------------------------
(***************************************************************************)
(* The engine implements SyncClaim.                                        *)
(***************************************************************************)

\* A step takes the free claim, gives it back, or leaves it alone.
LEMMA ClaimHoldersStep ==
  ASSUME TypeOK, ClaimInv, [Next]_vars
  PROVE  ClaimHolders = {} \/ ClaimHolders' = {} \/ ClaimHolders' = ClaimHolders
<1> DEFINE Goal == ClaimHolders = {} \/ ClaimHolders' = {} \/ ClaimHolders' = ClaimHolders
<1> USE EngineAssumption DEF EngineAssumption, TypeOK, ClaimInv, ClaimHolders,
                             callVars, workerVars
<1>1. ASSUME NEW w \in Workers, StartCall(w) PROVE Goal
  <2>1. CASE StartEnter(w)  BY <2>1 DEF StartEnter
  <2>2. CASE StartResolve(w)  BY <2>2 DEF StartResolve
  <2>3. CASE StartPrepare(w)  BY <2>3 DEF StartPrepare
  <2>4. CASE StartRegister(w)  BY <2>4 DEF StartRegister
  <2>5. QED BY <1>1, <2>1, <2>2, <2>3, <2>4 DEF StartCall
<1>2. ASSUME NEW w \in Workers, WatcherSend(w) PROVE Goal
  BY <1>2 DEF WatcherSend
<1>3. ASSUME NEW w \in Workers, WorkerLoop(w) PROVE Goal
  <2>1. CASE RecvRetry(w)  BY <2>1 DEF RecvRetry, StartPush
  <2>2. CASE RecvBatch(w)  BY <2>2 DEF RecvBatch, StartPush
  <2>3. CASE RecvResult(w)  BY <2>3 DEF RecvResult, StartPush
  <2>4. CASE CtxDone(w)  BY <2>4 DEF CtxDone
  <2>5. CASE Drain(w)  BY <2>5 DEF Drain
  <2>6. CASE CloseBackend(w)  BY <2>6 DEF CloseBackend
  <2>7. CASE CloseDone(w)  BY <2>7 DEF CloseDone
  <2>8. QED BY <1>3, <2>1, <2>2, <2>3, <2>4, <2>5, <2>6, <2>7 DEF WorkerLoop
<1>4. ASSUME NEW w \in Workers, Pusher(w) PROVE Goal
  <2>1. CASE PushReturns(w)  BY <2>1 DEF PushReturns
  <2>2. CASE PushEnds(w)  BY <2>2 DEF PushEnds, ReleaseClaim
  <2>3. QED BY <1>4, <2>1, <2>2 DEF Pusher
<1>5. ASSUME NEW w \in Workers, Notify(w) PROVE Goal
  BY <1>5 DEF Notify
<1>6. ASSUME NEW f \in Fulls, FullCall(f) PROVE Goal
  <2>1. CASE FullBegin(f)  BY <2>1 DEF FullBegin
  <2>2. CASE FullResolve(f)  BY <2>2 DEF FullResolve
  <2>3. CASE FullReturns(f)  BY <2>3 DEF FullReturns
  <2>4. CASE FullEnds(f)  BY <2>4 DEF FullEnds, ReleaseClaim
  <2>5. QED BY <1>6, <2>1, <2>2, <2>3, <2>4 DEF FullCall
<1>7. ASSUME NEW s \in Stops, StopCall(s) PROVE Goal
  <2>1. CASE StopTake(s)  BY <2>1 DEF StopTake
  <2>2. CASE StopCancel(s)  BY <2>2 DEF StopCancel
  <2>3. CASE StopReturns(s)  BY <2>3 DEF StopReturns
  <2>4. QED BY <1>7, <2>1, <2>2, <2>3 DEF StopCall
<1>8. CASE UNCHANGED vars
  BY <1>8 DEF vars
<1>9. QED
  BY <1>1, <1>2, <1>3, <1>4, <1>5, <1>6, <1>7, <1>8 DEF Next

\* engine.go beginSync/endSync: every behaviour of the engine is, seen through
\* who holds the claim, a behaviour of the exclusive claim.
THEOREM EngineImplementsClaim == Spec => ImplementsClaim
<1>1. Init => Claim!Init
  BY DEF Init, Claim!Init, ClaimHolders, claimHolder
<1>2. Inv /\ Inv' /\ [Next]_vars => [Claim!Next]_claimHolder
  <2> SUFFICES ASSUME Inv, Inv', [Next]_vars PROVE [Claim!Next]_claimHolder
    OBVIOUS
  <2>1. ClaimHolders \subseteq Workers \cup Fulls /\ ClaimHolders' \subseteq Workers \cup Fulls
    BY DEF ClaimHolders
  <2>2. CASE ClaimHolders = {}
    <3>1. claimHolder = None
      BY <2>2 DEF claimHolder
    <3>2. CASE ClaimHolders' = {}
      BY <3>1, <3>2 DEF claimHolder
    <3>3. CASE ClaimHolders' # {}
      <4>1. claimHolder' \in Workers \cup Fulls
        BY <2>1, <3>3 DEF claimHolder
      <4>2. QED BY <3>1, <4>1 DEF Claim!Next, Claim!Claim
    <3>4. QED BY <3>2, <3>3
  <2>3. CASE ClaimHolders # {} /\ ClaimHolders' = {}
    <3>1. claimHolder # None /\ claimHolder' = None
      BY <2>1, <2>3, EngineAssumption DEF claimHolder, EngineAssumption
    <3>2. QED BY <3>1 DEF Claim!Next, Claim!Release
  <2>4. CASE ClaimHolders' = ClaimHolders
    BY <2>4 DEF claimHolder
  <2>5. QED
    BY <2>2, <2>3, <2>4, ClaimHoldersStep DEF Inv
<1>3. QED
  BY <1>1, <1>2, InvCorrect, PTL DEF Spec, ImplementsClaim, Claim!Spec

-----------------------------------------------------------------------------
(***************************************************************************)
(* The rsync backend: a good marker stands for a whole runtime, and a sync *)
(* that returned is over on the server, for any number of syncs and files. *)
(***************************************************************************)
\* The steps of the call of Extract that unpacks.
LEMMA ExtractTypeStep ==
  ASSUME RuntimeAssumption, RsyncTypeOK, AtInv, NEW c \in Calls, Extract(c), UNCHANGED syncVars
  PROVE  RsyncTypeOK' /\ AtInv'
<1> USE DEF RuntimeAssumption, RsyncTypeOK, AtInv, syncVars, Go, Put, Unpacking, Copying, Entries, Files, Marker
<1>1. CASE Begin(c)      BY <1>1 DEF Begin
<1>2. CASE Check(c)
  <2>1. spoilt' \in BOOLEAN
    <3>1. CASE UNCHANGED spoilt
      BY <3>1
    <3>2. CASE spoilt' = (spoilt \/ Others(c) # {} \/ disk[Marker] = "whole")
      BY <3>2, Zenon
    <3>3. QED BY <1>2, <3>1, <3>2 DEF Check
  <2>2. PICK l \in {"ready", "list"} : Go(c, l)
    BY <1>2 DEF Check
  <2>3. UNCHANGED <<disk, dir, at, todo>>
    BY <1>2 DEF Check
  <2>4. QED BY <2>1, <2>2, <2>3
<1>3. CASE RemoveOne(c)  BY <1>3 DEF RemoveOne
<1>4. CASE RemoveDir(c)
  <2>1. dir' \in BOOLEAN
    BY <1>4 DEF RemoveDir
  <2>2. PICK l \in {"mkdir", "failed"} : Go(c, l)
    BY <1>4 DEF RemoveDir
  <2>3. at' = [at EXCEPT ![c] = 1] /\ UNCHANGED <<disk, todo, spoilt>>
    BY <1>4 DEF RemoveDir
  <2>4. 1 \in 1..Copies /\ 1 \in 1..(Copies + 1)
    OBVIOUS
  <2>5. QED BY <2>1, <2>2, <2>3, <2>4
<1>5. CASE Mkdir(c)      BY <1>5 DEF Mkdir
<1>6. CASE OpenFile(c)   BY <1>6 DEF OpenFile
<1>7. CASE Fill(c)       BY <1>7 DEF Fill, After
<1>8. CASE Mark(c)       BY <1>8 DEF Mark
<1>9. CASE Marked(c)     BY <1>9 DEF Marked
<1>10. CASE UnpackFails(c) BY <1>10 DEF UnpackFails, StartRemoval, Present
<1>11. CASE ListOld(c)   BY <1>11 DEF ListOld, StartRemoval, Present
<1>12. QED
  BY <1>1, <1>2, <1>3, <1>4, <1>5, <1>6, <1>7, <1>8, <1>9, <1>10, <1>11 DEF Extract

\* ... and what they keep of the runtime on disk.
LEMMA ExtractUnpackStep ==
  ASSUME RuntimeAssumption, RsyncTypeOK, AtInv, UnpackInv, NEW c \in Calls, Extract(c)
  PROVE  UnpackInv'
<1> USE DEF RuntimeAssumption, RsyncTypeOK, AtInv, UnpackInv, MarkerMeansWhole, Whole, Go, Put,
            Unpacking, Copying, Entries, Files, Marker
<1>1. CASE Begin(c)      BY <1>1 DEF Begin
<1>2. CASE Check(c)
  <2>1. CASE disk[Marker] = "whole" /\ Go(c, "ready") /\ UNCHANGED <<todo, spoilt>>
    BY <1>2, <2>1 DEF Check
  <2>2. CASE Go(c, "list") /\ ~spoilt'
    <3>1. ~spoilt /\ Others(c) = {} /\ disk[Marker] # "whole"
      <4>1. xpc'[c] = "list"
        BY <2>2
      <4>2. ~Go(c, "ready")
        BY <4>1
      <4>3. spoilt' = (spoilt \/ Others(c) # {} \/ disk[Marker] = "whole")
        BY <1>2, <4>2 DEF Check
      <4>4. QED BY <2>2, <4>3, Zenon
    <3>2. \A d \in Calls \ {c} : xpc[d] \notin Unpacking
      BY <3>1 DEF Others
    <3>3. xpc' = [xpc EXCEPT ![c] = "list"] /\ UNCHANGED <<disk, at>>
      BY <1>2, <2>2 DEF Check
    <3>4. QED BY <3>1, <3>2, <3>3
  <2>3. CASE spoilt'
    BY <2>3
  <2>4. QED BY <1>2, <2>1, <2>2, <2>3 DEF Check
<1>3. CASE RemoveOne(c)  BY <1>3 DEF RemoveOne
<1>4. CASE RemoveDir(c)  BY <1>4 DEF RemoveDir
<1>5. CASE Mkdir(c)      BY <1>5 DEF Mkdir
<1>6. CASE OpenFile(c)   BY <1>6 DEF OpenFile
<1>7. CASE Fill(c)
  <2> SUFFICES ASSUME ~spoilt PROVE UnpackInv'
    BY <1>7 DEF Fill
  <2> DEFINE f == at[c]
  <2>1. f \in 1..Copies /\ xpc[c] = "fill" /\ UNCHANGED spoilt
    BY <1>7 DEF Fill
  <2>2. \A d \in Calls \ {c} : xpc[d] \notin Unpacking
    BY <2>1
  <2>3. disk' = [disk EXCEPT ![f] = "whole"]
    BY <1>7, <2>1, <2>2 DEF Fill, Others
  <2>4. PICK l \in {"mkdir", "open", "mark"} : xpc' = [xpc EXCEPT ![c] = l]
    BY <1>7 DEF Fill, After
  <2>5. at' = [at EXCEPT ![c] = f + 1]
    BY <1>7 DEF Fill
  <2>6. disk[0] # "whole" /\ \A g \in 1..Copies : g < f => disk[g] = "whole"
    BY <2>1
  <2>7. disk'[0] # "whole"
    BY <2>1, <2>3, <2>6
  <2>8. \A g \in 1..Copies : g < f + 1 => disk'[g] = "whole"
    <3>1. \A g \in 1..Copies : g < f + 1 => g < f \/ g = f
      <4>1. \A g, h \in Nat : g < h + 1 => g < h \/ g = h
        OBVIOUS
      <4>2. f \in Nat /\ \A g \in 1..Copies : g \in Nat
        BY <2>1
      <4>3. QED BY ONLY <4>1, <4>2
    <3>2. \A g \in 1..Copies : disk'[g] = IF g = f THEN "whole" ELSE disk[g]
      BY <2>3
    <3>3. QED BY ONLY <2>6, <3>1, <3>2
  <2>9. QED BY <2>1, <2>2, <2>4, <2>5, <2>7, <2>8
<1>8. CASE Mark(c)       BY <1>8 DEF Mark
<1>9. CASE Marked(c)     BY <1>9 DEF Marked
<1>10. CASE UnpackFails(c) BY <1>10 DEF UnpackFails, StartRemoval
<1>11. CASE ListOld(c)   BY <1>11 DEF ListOld, StartRemoval
<1>12. QED
  BY <1>1, <1>2, <1>3, <1>4, <1>5, <1>6, <1>7, <1>8, <1>9, <1>10, <1>11 DEF Extract

-----------------------------------------------------------------------------
\* Every step keeps the state well-typed.
LEMMA RsyncTypeStep ==
  ASSUME RuntimeAssumption, RsyncTypeOK, AtInv, [RsyncNext]_rsyncVars
  PROVE  RsyncTypeOK' /\ AtInv'
<1>1. ASSUME NEW c \in Calls, ExtractStep(c) PROVE RsyncTypeOK' /\ AtInv'
  BY <1>1, ExtractTypeStep DEF ExtractStep
<1> USE DEF RsyncTypeOK, AtInv, Copying, rtVars, syncVars
<1>2. CASE Crash
  BY <1>2 DEF Crash, RuntimeCrash
<1>3. ASSUME NEW c \in Calls, Call(c), ~ExtractStep(c) PROVE RsyncTypeOK' /\ AtInv'
  <2>1. CASE Build(c)
    <3>1. PICK l \in {"returned", "built"} : pc' = [pc EXCEPT ![c] = l]
      BY ONLY <2>1 DEF Build, ReturnFrom
    <3>2. UNCHANGED <<rtVars, cancelled, rsync, bridge, link, remote>>
      BY <2>1 DEF Build
    <3>3. QED BY <3>1, <3>2
  <2>2. CASE Start(c)
    <3>1. CASE ReturnFrom(c) /\ UNCHANGED rsync
      BY <2>2, <3>1 DEF Start, ReturnFrom
    <3>2. CASE ~(ReturnFrom(c) /\ UNCHANGED rsync)
      <4>1. /\ pc' = [pc EXCEPT ![c] = "running"]
            /\ rsync' = [rsync EXCEPT ![c] = "running"]
            /\ UNCHANGED <<rtVars, cancelled, bridge, link, remote>>
        BY <2>2, <3>2 DEF Start
      <4>2. QED BY <4>1
    <3>3. QED BY <3>1, <3>2
  <2>3. CASE Kill(c)   BY <2>3 DEF Kill
  <2>4. CASE Return(c) BY <2>4 DEF Return, ReturnFrom
  <2>5. QED BY <1>3, <2>1, <2>2, <2>3, <2>4 DEF Call
<1>4. ASSUME NEW c \in Calls, Cancel(c) PROVE RsyncTypeOK' /\ AtInv'
  BY <1>4 DEF Cancel
<1>5. ASSUME NEW c \in Calls, Bridge(c) PROVE RsyncTypeOK' /\ AtInv'
  <2>1. CASE Dial(c)        BY <2>1 DEF Dial, BridgeTo
  <2>2. CASE StartRemote(c) BY <2>2 DEF StartRemote, BridgeTo
  <2>3. CASE BridgeEnds(c)  BY <2>3 DEF BridgeEnds, BridgeTo
  <2>4. QED BY <1>5, <2>1, <2>2, <2>3 DEF Bridge
<1>6. ASSUME NEW c \in Calls, External(c) PROVE RsyncTypeOK' /\ AtInv'
  <2>1. CASE RsyncForks(c) BY <2>1 DEF RsyncForks, BridgeTo
  <2>2. CASE RsyncEnds(c)  BY <2>2 DEF RsyncEnds
  <2>3. CASE RemoteEnds(c) BY <2>3 DEF RemoteEnds
  <2>4. CASE Lose(c)       BY <2>4 DEF Lose, Break
  <2>5. CASE Hang(c)       BY <2>5 DEF Hang, Break
  <2>6. QED BY <1>6, <2>1, <2>2, <2>3, <2>4, <2>5 DEF External
<1>7. CASE UNCHANGED rsyncVars
  BY <1>7 DEF rsyncVars
<1>8. QED
  BY <1>1, <1>2, <1>3, <1>4, <1>5, <1>6, <1>7 DEF RsyncNext, Call

\* Only Extract, and a crash, touch the runtime.
LEMMA UnpackStep ==
  ASSUME RuntimeAssumption, RsyncTypeOK, AtInv, UnpackInv, [RsyncNext]_rsyncVars
  PROVE  UnpackInv'
<1>1. CASE \E c \in Calls : ExtractStep(c)
  BY <1>1, ExtractUnpackStep DEF ExtractStep
<1>2. CASE Crash
  BY <1>2 DEF Crash, RuntimeCrash, RsyncTypeOK, UnpackInv, MarkerMeansWhole, Whole, Unpacking, Copying
<1>3. CASE UNCHANGED rtVars
  BY <1>3 DEF rtVars, UnpackInv, MarkerMeansWhole, Whole
<1>4. QED
  BY <1>1, <1>2, <1>3 DEF RsyncNext, rsyncVars, Call, Bridge, External, Cancel, Build, Start, Kill, Return,
     Dial, StartRemote, BridgeEnds, RsyncForks, RsyncEnds, RemoteEnds, Lose, Hang, BridgeTo, Break

\* What a call has started, in every step of the call and of its processes.
LEMMA CallStep ==
  ASSUME RsyncTypeOK, CallInv, [RsyncNext]_rsyncVars
  PROVE  CallInv'
<1> USE DEF RsyncTypeOK, CallInv
<1>1. CASE Crash
  BY <1>1 DEF Crash
<1>2. ASSUME NEW c \in Calls, Call(c) PROVE CallInv'
  <2>1. CASE ExtractStep(c) BY <2>1 DEF ExtractStep, syncVars
  <2>2. CASE Build(c)  BY <2>2 DEF Build, ReturnFrom
  <2>3. CASE Start(c)  BY <2>3 DEF Start, ReturnFrom
  <2>4. CASE Kill(c)   BY <2>4 DEF Kill
  <2>5. CASE Return(c) BY <2>5 DEF Return, ReturnFrom
  <2>6. QED BY <1>2, <2>1, <2>2, <2>3, <2>4, <2>5 DEF Call
<1>3. ASSUME NEW c \in Calls, Cancel(c) PROVE CallInv'
  BY <1>3 DEF Cancel
<1>4. ASSUME NEW c \in Calls, Bridge(c) PROVE CallInv'
  <2>1. CASE Dial(c)        BY <2>1 DEF Dial, BridgeTo
  <2>2. CASE StartRemote(c) BY <2>2 DEF StartRemote, BridgeTo
  <2>3. CASE BridgeEnds(c)  BY <2>3 DEF BridgeEnds, BridgeTo
  <2>4. QED BY <1>4, <2>1, <2>2, <2>3 DEF Bridge
<1>5. ASSUME NEW c \in Calls, External(c) PROVE CallInv'
  <2>1. CASE RsyncForks(c) BY <2>1 DEF RsyncForks, BridgeTo
  <2>2. CASE RsyncEnds(c)  BY <2>2 DEF RsyncEnds
  <2>3. CASE RemoteEnds(c) BY <2>3 DEF RemoteEnds
  <2>4. CASE Lose(c)       BY <2>4 DEF Lose, Break
  <2>5. CASE Hang(c)       BY <2>5 DEF Hang, Break
  <2>6. QED BY <1>5, <2>1, <2>2, <2>3, <2>4, <2>5 DEF External
<1>6. CASE UNCHANGED rsyncVars
  BY <1>6 DEF rsyncVars, syncVars
<1>7. QED
  BY <1>1, <1>2, <1>3, <1>4, <1>5, <1>6 DEF RsyncNext

-----------------------------------------------------------------------------
\* The inductive invariant: one call unpacks at a time, and a call's processes are its own.
THEOREM RsyncInvCorrect == RsyncSpec => []RsyncInv
<1>1. RsyncInit => RsyncInv
  <2> SUFFICES ASSUME RsyncInit PROVE RsyncInv
    OBVIOUS
  <2> USE RuntimeAssumption DEF RuntimeAssumption, RsyncInit, RuntimeInit, All
  <2>1. RsyncTypeOK
    <3>1. 1 \in 1..(Copies + 1)
      OBVIOUS
    <3>2. QED BY <3>1 DEF RsyncTypeOK
  <2>2. AtInv /\ UnpackInv
    BY DEF AtInv, UnpackInv, MarkerMeansWhole, Unpacking, Copying, Entries, Files, Marker
  <2>3. CallInv
    BY DEF CallInv
  <2>4. QED BY <2>1, <2>2, <2>3 DEF RsyncInv
<1>2. RsyncInv /\ [RsyncNext]_rsyncVars => RsyncInv'
  BY RuntimeAssumption, RsyncTypeStep, UnpackStep, CallStep DEF RsyncInv
<1>3. QED
  BY <1>1, <1>2, PTL DEF RsyncSpec

\* rsyncbin.go Extract: the marker is written last and removed first, whatever fails in
\* between and wherever the program dies.
THEOREM MarkerIsLast == RsyncSpec => []MarkerMeansWhole
<1>1. RsyncInv => MarkerMeansWhole
  BY DEF RsyncInv, UnpackInv, MarkerMeansWhole
<1>2. QED
  BY <1>1, RsyncInvCorrect, PTL

\* backend.go FullSync, bridge.go Run: a sync that returned is over on the server as well,
\* also when it was cancelled, unless its connection was lost.
THEOREM ReturnIsTheEnd == RsyncSpec => []RemoteIsOver
<1>1. RsyncInv => RemoteIsOver
  <2> SUFFICES ASSUME RsyncInv, NEW c \in Calls, pc[c] = "returned", remote[c] = "running"
               PROVE  link[c] = "lost"
    BY DEF RemoteIsOver
  <2>1. bridge[c] = "gone"
    BY DEF RsyncInv, CallInv
  <2>2. QED BY <2>1 DEF RsyncInv, CallInv
<1>2. QED
  BY <1>1, RsyncInvCorrect, PTL
=============================================================================
