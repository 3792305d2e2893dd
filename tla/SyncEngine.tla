----------------------------- MODULE SyncEngine -----------------------------
(***************************************************************************)
(* The auto-sync engine of internal/syncengine/engine.go, for ONE mapping  *)
(* ID: the registry e.mappings and the claim e.activeSync are keyed by ID, *)
(* so distinct IDs do not interact.                                        *)
(*                                                                         *)
(* A member of Workers is one call of StartMapping together with the       *)
(* worker goroutine (runMapping) it may start; a member of Fulls is one    *)
(* call of FullSync, a member of Stops one call of StopMapping.  All of    *)
(* them run concurrently.  Every lock-protected region of the code is one  *)
(* step, and so is every channel operation.                                *)
(***************************************************************************)
EXTENDS Naturals, FiniteSets

CONSTANTS
  Workers,    \* calls of StartMapping for the mapping
  Fulls,      \* calls of FullSync for the mapping
  Stops,      \* calls of StopMapping for the mapping
  Paths,      \* relative paths that may change
  MaxBatches, \* bound: batches the watcher of each worker sends
  None        \* no worker

ASSUME EngineAssumption ==
  /\ None \notin Workers \cup Fulls
  /\ Workers \cap Fulls = {}
  /\ MaxBatches \in [Workers -> Nat]

VARIABLES
  registered, \* e.mappings[id]: the registered worker
  activeSync, \* whether id is in e.activeSync
  phase,      \* where each StartMapping call / worker goroutine is
  canceled,   \* the worker's context is cancelled
  backend,    \* the worker's owned backend: none, open, closed
  pending,    \* runMapping's pending map, by its keys
  batches,    \* the watcher's channel of capacity 1 ({} when empty)
  sent,       \* batches sent so far (bounded by MaxBatches)
  retry,      \* running.retry holds its token
  syncing,    \* runMapping's flag: a push was started, its result not read
  push,       \* the push goroutine that holds the claim
  results,    \* the results channel of capacity 1
  notifying,  \* goroutines past endSync's lock, about to send to retry
  full,       \* where each FullSync call is
  stop,       \* where each StopMapping call is
  target      \* the worker a StopMapping call took from the registry

workerVars == <<phase, canceled, backend, pending, batches, sent, retry,
                syncing, push, results>>
callVars   == <<full, stop, target>>
vars == <<registered, activeSync, workerVars, notifying, callVars>>

Phases == {"idle", "resolve", "prepare", "register", "failed",
           "loop", "drain", "closing", "closed", "done"}

TypeOK ==
  /\ registered \in Workers \cup {None}
  /\ activeSync \in BOOLEAN
  /\ phase \in [Workers -> Phases]
  /\ canceled \in [Workers -> BOOLEAN]
  /\ backend \in [Workers -> {"none", "open", "closed"}]
  /\ pending \in [Workers -> SUBSET Paths]
  /\ batches \in [Workers -> SUBSET Paths]
  /\ sent \in [Workers -> Nat] /\ \A w \in Workers : sent[w] <= MaxBatches[w]
  /\ retry \in [Workers -> BOOLEAN]
  /\ syncing \in [Workers -> BOOLEAN]
  /\ push \in [Workers -> {"idle", "running", "ending"}]
  /\ results \in [Workers -> {"none", "ok", "failed"}]
  /\ notifying \in [Workers -> Nat]
  /\ full \in [Fulls -> {"idle", "busy", "resolve", "running", "ending", "done"}]
  /\ stop \in [Stops -> {"idle", "cancel", "wait", "done"}]
  /\ target \in [Stops -> Workers \cup {None}]

Init ==
  /\ registered = None
  /\ activeSync = FALSE
  /\ phase = [w \in Workers |-> "idle"]
  /\ canceled = [w \in Workers |-> FALSE]
  /\ backend = [w \in Workers |-> "none"]
  /\ pending = [w \in Workers |-> {}]
  /\ batches = [w \in Workers |-> {}]
  /\ sent = [w \in Workers |-> 0]
  /\ retry = [w \in Workers |-> FALSE]
  /\ syncing = [w \in Workers |-> FALSE]
  /\ push = [w \in Workers |-> "idle"]
  /\ results = [w \in Workers |-> "none"]
  /\ notifying = [w \in Workers |-> 0]
  /\ full = [f \in Fulls |-> "idle"]
  /\ stop = [s \in Stops |-> "idle"]
  /\ target = [s \in Stops |-> None]

-----------------------------------------------------------------------------
(***************************************************************************)
(* StartMapping.  The registry is tested twice: on entry, and again when   *)
(* the backend is dialled and the watcher runs; the lock is not held in    *)
(* between.                                                                *)
(***************************************************************************)
GoTo(w, p) == phase' = [phase EXCEPT ![w] = p]

StartEnter(w) ==
  /\ phase[w] = "idle"
  /\ GoTo(w, IF registered = None THEN "resolve" ELSE "failed")
  /\ UNCHANGED <<registered, activeSync, canceled, backend, pending, batches,
                 sent, retry, syncing, push, results, notifying, callVars>>

\* resolveBackend: the server lookup or the dial may fail.
StartResolve(w) ==
  /\ phase[w] = "resolve"
  /\ \/ GoTo(w, "failed") /\ UNCHANGED backend
     \/ GoTo(w, "prepare") /\ backend' = [backend EXCEPT ![w] = "open"]
  /\ UNCHANGED <<registered, activeSync, canceled, pending, batches,
                 sent, retry, syncing, push, results, notifying, callVars>>

\* Matcher, watcher and Watch: any of them may fail, and the backend is closed.
StartPrepare(w) ==
  /\ phase[w] = "prepare"
  /\ \/ GoTo(w, "failed") /\ backend' = [backend EXCEPT ![w] = "closed"]
     \/ GoTo(w, "register") /\ UNCHANGED backend
  /\ UNCHANGED <<registered, activeSync, canceled, pending, batches,
                 sent, retry, syncing, push, results, notifying, callVars>>

\* Mutation of StartRegister: the second test is missing.
StartRegisterUnchecked(w) ==
  /\ phase[w] = "register"
  /\ registered' = w
  /\ GoTo(w, "loop")
  /\ UNCHANGED <<activeSync, canceled, backend, pending, batches,
                 sent, retry, syncing, push, results, notifying, callVars>>

\* Mutation of StartRegister: the loser of the race keeps its backend open.
StartRegisterLeaky(w) ==
  /\ phase[w] = "register"
  /\ registered' = IF registered = None THEN w ELSE registered
  /\ GoTo(w, IF registered = None THEN "loop" ELSE "failed")
  /\ canceled' = [canceled EXCEPT ![w] = (registered # None)]
  /\ UNCHANGED <<activeSync, backend, pending, batches,
                 sent, retry, syncing, push, results, notifying, callVars>>

\* The second test and the registration, then "go e.runMapping".
StartRegister(w) ==
  /\ phase[w] = "register"
  /\ \/ /\ registered = None
        /\ registered' = w
        /\ GoTo(w, "loop")
        /\ UNCHANGED <<canceled, backend>>
     \/ /\ registered # None
        /\ GoTo(w, "failed")
        /\ canceled' = [canceled EXCEPT ![w] = TRUE]
        /\ backend' = [backend EXCEPT ![w] = "closed"]
        /\ UNCHANGED registered
  /\ UNCHANGED <<activeSync, pending, batches,
                 sent, retry, syncing, push, results, notifying, callVars>>

-----------------------------------------------------------------------------
(***************************************************************************)
(* The watcher's side of the batches channel: it may fill it from the      *)
(* moment Watch returned, and may still win the race against ctx.Done.     *)
(***************************************************************************)
WatcherSend(w) ==
  /\ phase[w] \in {"register", "loop", "drain", "closing", "closed"}
  /\ batches[w] = {}
  /\ sent[w] < MaxBatches[w]
  /\ \E b \in SUBSET Paths \ {{}} : batches' = [batches EXCEPT ![w] = b]
  /\ sent' = [sent EXCEPT ![w] = @ + 1]
  /\ UNCHANGED <<registered, activeSync, phase, canceled, backend, pending,
                 retry, syncing, push, results, notifying, callVars>>

-----------------------------------------------------------------------------
(***************************************************************************)
(* The worker's select loop.  StartPush is the closure startPush, called   *)
(* at the end of three cases of the select with the pending map p and the  *)
(* flag s as that case leaves them.                                        *)
(***************************************************************************)
\* Mutation of StartPush: ErrSyncInProgress is ignored.
StartPushUnclaimed(w, p, s) ==
  LET pushes == ~s[w] /\ p # {} /\ ~canceled[w] IN
  /\ activeSync' = (activeSync \/ pushes)
  /\ pending' = [pending EXCEPT ![w] = IF pushes THEN {} ELSE p]
  /\ syncing' = IF pushes THEN [s EXCEPT ![w] = TRUE] ELSE s
  /\ push' = IF pushes THEN [push EXCEPT ![w] = "running"] ELSE push

StartPush(w, p, s) ==
  \/ /\ ~s[w] /\ p # {} /\ ~canceled[w] /\ ~activeSync
     /\ activeSync' = TRUE
     /\ pending' = [pending EXCEPT ![w] = {}]
     /\ syncing' = [s EXCEPT ![w] = TRUE]
     /\ push' = [push EXCEPT ![w] = "running"]
  \/ /\ s[w] \/ p = {} \/ canceled[w] \/ activeSync
     /\ pending' = [pending EXCEPT ![w] = p]
     /\ syncing' = s
     /\ UNCHANGED <<activeSync, push>>

RecvRetry(w) ==
  /\ phase[w] = "loop"
  /\ retry[w]
  /\ retry' = [retry EXCEPT ![w] = FALSE]
  /\ StartPush(w, pending[w], syncing)
  /\ UNCHANGED <<registered, phase, canceled, backend, batches, sent,
                 results, notifying, callVars>>

RecvBatch(w) ==
  /\ phase[w] = "loop"
  /\ batches[w] # {}
  /\ batches' = [batches EXCEPT ![w] = {}]
  /\ StartPush(w, pending[w] \cup batches[w], syncing)
  /\ UNCHANGED <<registered, phase, canceled, backend, sent, retry,
                 results, notifying, callVars>>

\* The result is read (and onFinish is told, which changes nothing here), the next
\* push is started.
RecvResult(w) ==
  /\ phase[w] = "loop"
  /\ results[w] # "none"
  /\ results' = [results EXCEPT ![w] = "none"]
  /\ StartPush(w, pending[w], [syncing EXCEPT ![w] = FALSE])
  /\ UNCHANGED <<registered, phase, canceled, backend, batches, sent, retry,
                 notifying, callVars>>

\* Mutation of CtxDone: the push in flight is not waited for.
CtxDoneNoDrain(w) ==
  /\ phase[w] = "loop"
  /\ canceled[w]
  /\ GoTo(w, "closing")
  /\ UNCHANGED <<registered, activeSync, canceled, backend, pending, batches,
                 sent, retry, syncing, push, results, notifying, callVars>>

\* Mutation of CtxDone: a result is waited for whether or not a push runs.
CtxDoneAlwaysDrains(w) ==
  /\ phase[w] = "loop"
  /\ canceled[w]
  /\ GoTo(w, "drain")
  /\ UNCHANGED <<registered, activeSync, canceled, backend, pending, batches,
                 sent, retry, syncing, push, results, notifying, callVars>>

\* case <-ctx.Done(): wait for the push in flight, if any.
CtxDone(w) ==
  /\ phase[w] = "loop"
  /\ canceled[w]
  /\ GoTo(w, IF syncing[w] THEN "drain" ELSE "closing")
  /\ UNCHANGED <<registered, activeSync, canceled, backend, pending, batches,
                 sent, retry, syncing, push, results, notifying, callVars>>

\* The result read here is dropped.
Drain(w) ==
  /\ phase[w] = "drain"
  /\ results[w] # "none"
  /\ results' = [results EXCEPT ![w] = "none"]
  /\ GoTo(w, "closing")
  /\ UNCHANGED <<registered, activeSync, canceled, backend, pending, batches,
                 sent, retry, syncing, push, notifying, callVars>>

\* The deferred calls, last deferred first: close the backend, close(done).
CloseBackend(w) ==
  /\ phase[w] = "closing"
  /\ backend' = [backend EXCEPT ![w] = "closed"]
  /\ GoTo(w, "closed")
  /\ UNCHANGED <<registered, activeSync, canceled, pending, batches,
                 sent, retry, syncing, push, results, notifying, callVars>>

CloseDone(w) ==
  /\ phase[w] = "closed"
  /\ GoTo(w, "done")
  /\ UNCHANGED <<registered, activeSync, canceled, backend, pending, batches,
                 sent, retry, syncing, push, results, notifying, callVars>>

-----------------------------------------------------------------------------
(***************************************************************************)
(* endSync: under the lock the claim is released and the registered        *)
(* worker's retry channel is looked up; the send is a later step.          *)
(***************************************************************************)
\* Mutation of ReleaseClaim: the retry channel is forgotten.
ReleaseClaimSilently ==
  /\ activeSync' = FALSE
  /\ UNCHANGED notifying

ReleaseClaim ==
  /\ activeSync' = FALSE
  /\ notifying' = IF registered = None THEN notifying
                  ELSE [notifying EXCEPT ![registered] = @ + 1]

\* Mutation of Notify: the send is not guarded.
NotifyUnguarded(w) ==
  /\ notifying' = [notifying EXCEPT ![w] = @ - 1]
  /\ retry' = [retry EXCEPT ![w] = TRUE]
  /\ UNCHANGED <<registered, activeSync, phase, canceled, backend, pending,
                 batches, sent, syncing, push, results, callVars>>

\* The send, which a full channel drops.
Notify(w) ==
  /\ notifying[w] > 0
  /\ notifying' = [notifying EXCEPT ![w] = @ - 1]
  /\ retry' = [retry EXCEPT ![w] = TRUE]
  /\ UNCHANGED <<registered, activeSync, phase, canceled, backend, pending,
                 batches, sent, syncing, push, results, callVars>>

\* The push goroutine: PushChanges returns and its result is sent ...
PushReturns(w) ==
  /\ push[w] = "running"
  /\ results[w] = "none"
  /\ \E r \in {"ok", "failed"} : results' = [results EXCEPT ![w] = r]
  /\ push' = [push EXCEPT ![w] = "ending"]
  /\ UNCHANGED <<registered, activeSync, phase, canceled, backend, pending,
                 batches, sent, retry, syncing, notifying, callVars>>

\* ... and only then does the deferred endSync run.
PushEnds(w) ==
  /\ push[w] = "ending"
  /\ push' = [push EXCEPT ![w] = "idle"]
  /\ ReleaseClaim
  /\ UNCHANGED <<registered, phase, canceled, backend, pending, batches, sent,
                 retry, syncing, results, callVars>>

-----------------------------------------------------------------------------
\* Mutation of FullBegin: FullSync goes ahead during another pass.
FullBeginUnclaimed(f) ==
  /\ full[f] = "idle"
  /\ full' = [full EXCEPT ![f] = "resolve"]
  /\ activeSync' = TRUE
  /\ UNCHANGED <<registered, workerVars, notifying, stop, target>>

\* FullSync: claim the mapping or fail with ErrSyncInProgress.
FullBegin(f) ==
  /\ full[f] = "idle"
  /\ full' = [full EXCEPT ![f] = IF activeSync THEN "busy" ELSE "resolve"]
  /\ activeSync' = TRUE
  /\ UNCHANGED <<registered, workerVars, notifying, stop, target>>

FullResolve(f) ==
  /\ full[f] = "resolve"
  /\ \E next \in {"running", "ending"} : full' = [full EXCEPT ![f] = next]
  /\ UNCHANGED <<registered, activeSync, workerVars, notifying, stop, target>>

FullReturns(f) ==
  /\ full[f] = "running"
  /\ full' = [full EXCEPT ![f] = "ending"]
  /\ UNCHANGED <<registered, activeSync, workerVars, notifying, stop, target>>

FullEnds(f) ==
  /\ full[f] = "ending"
  /\ full' = [full EXCEPT ![f] = "done"]
  /\ ReleaseClaim
  /\ UNCHANGED <<registered, workerVars, stop, target>>

-----------------------------------------------------------------------------
\* StopMapping: take the worker out of the registry; unknown ID is a no-op.
StopTake(s) ==
  /\ stop[s] = "idle"
  /\ stop' = [stop EXCEPT ![s] = IF registered = None THEN "done" ELSE "cancel"]
  /\ target' = [target EXCEPT ![s] = registered]
  /\ registered' = None
  /\ UNCHANGED <<activeSync, workerVars, notifying, full>>

StopCancel(s) ==
  /\ stop[s] = "cancel"
  /\ stop' = [stop EXCEPT ![s] = "wait"]
  /\ canceled' = [canceled EXCEPT ![target[s]] = TRUE]
  /\ UNCHANGED <<registered, activeSync, phase, backend, pending, batches, sent,
                 retry, syncing, push, results, notifying, full, target>>

\* Mutation of StopReturns: StopMapping does not wait for the worker.
StopReturnsEarly(s) ==
  /\ stop[s] = "wait"
  /\ stop' = [stop EXCEPT ![s] = "done"]
  /\ UNCHANGED <<registered, activeSync, workerVars, notifying, full, target>>

StopReturns(s) ==
  /\ stop[s] = "wait"
  /\ phase[target[s]] = "done"
  /\ stop' = [stop EXCEPT ![s] = "done"]
  /\ UNCHANGED <<registered, activeSync, workerVars, notifying, full, target>>

-----------------------------------------------------------------------------
StartCall(w) == StartEnter(w) \/ StartResolve(w) \/ StartPrepare(w) \/ StartRegister(w)

WorkerLoop(w) == \/ RecvRetry(w) \/ RecvBatch(w) \/ RecvResult(w) \/ CtxDone(w)
                 \/ Drain(w) \/ CloseBackend(w) \/ CloseDone(w)

Pusher(w) == PushReturns(w) \/ PushEnds(w)

FullCall(f) == FullBegin(f) \/ FullResolve(f) \/ FullReturns(f) \/ FullEnds(f)

StopCall(s) == StopTake(s) \/ StopCancel(s) \/ StopReturns(s)

Next ==
  \/ \E w \in Workers : \/ StartCall(w) \/ WatcherSend(w) \/ WorkerLoop(w)
                        \/ Pusher(w) \/ Notify(w)
  \/ \E f \in Fulls : FullCall(f)
  \/ \E s \in Stops : StopCall(s)

Spec == Init /\ [][Next]_vars

(***************************************************************************)
(* A goroutine that can run eventually runs, and a backend call returns.   *)
(* Nobody is obliged to call StartMapping, FullSync or StopMapping, nor    *)
(* does a watcher have to see a change.                                    *)
(***************************************************************************)
Fairness ==
  /\ \A w \in Workers : /\ WF_vars(phase[w] # "idle" /\ StartCall(w))
                        /\ WF_vars(WorkerLoop(w))
                        /\ WF_vars(Pusher(w))
                        /\ WF_vars(Notify(w))
  /\ \A f \in Fulls : WF_vars(full[f] # "idle" /\ FullCall(f))
  /\ \A s \in Stops : WF_vars(stop[s] # "idle" /\ StopCall(s))

FairSpec == Spec /\ Fairness

-----------------------------------------------------------------------------
(***************************************************************************)
(* Properties.                                                             *)
(***************************************************************************)

\* The passes that are inside a backend for this mapping.
InBackend == {w \in Workers : push[w] = "running"}
               \cup {f \in Fulls : full[f] = "running"}

\* The passes that hold e.activeSync's claim on the mapping.
ClaimHolders == {w \in Workers : push[w] # "idle"}
                  \cup {f \in Fulls : full[f] \in {"resolve", "running", "ending"}}

claimHolder == IF ClaimHolders = {} THEN None
               ELSE CHOOSE x \in ClaimHolders : TRUE

Claim == INSTANCE SyncClaim WITH Syncers <- Workers \cup Fulls,
                                 holder  <- claimHolder

\* The engine implements the exclusive claim: each of its steps takes it when
\* free, gives it back, or leaves it where it is.
ImplementsClaim == Claim!Spec

\* Syncs of a mapping are serial: auto-sync pushes (of any worker, old or
\* new) and full syncs never touch the remote tree at the same time.
SerialSync == \A x, y \in InBackend : x = y

\* A change is never left behind: when the registered worker has pending
\* changes and no push of its own, someone holds the claim and will wake it,
\* or the wake-up is on its way (endSync's lookup, the retry token).
NoLostWakeup ==
  \A w \in Workers :
    registered = w /\ pending[w] # {} /\ ~syncing[w]
      => activeSync \/ notifying[w] > 0 \/ retry[w]

\* No worker is leaked: one that runs with a live context can still be
\* stopped, being in the registry or in the hands of a StopMapping call.
NoOrphanWorker ==
  \A w \in Workers :
    phase[w] = "loop" /\ ~canceled[w]
      => registered = w \/ \E s \in Stops : stop[s] = "cancel" /\ target[s] = w

\* A push works on an open backend: the worker does not close its backend,
\* after cancellation or otherwise, while its own push is still in it.
PushOnOpenBackend ==
  \A w \in Workers : push[w] = "running" => backend[w] = "open"

\* Once StopMapping returned, the worker it took is over: it is in no
\* backend, its backend is closed, and it can start no further push.
StopIsFinal ==
  \A s \in Stops :
    stop[s] = "done" /\ target[s] # None
      => /\ phase[target[s]] = "done"
         /\ push[target[s]] # "running"
         /\ backend[target[s]] = "closed"

\* Every backend a StartMapping call dialled is closed when that call failed
\* or its worker ended.
NoBackendLeak ==
  \A w \in Workers : phase[w] \in {"failed", "closed", "done"} => backend[w] # "open"

\* A pending change is handed to the backend in the end, unless its worker
\* is cancelled.
PendingIsPushed ==
  \A w \in Workers : pending[w] # {} ~> (pending[w] = {} \/ canceled[w])

\* StopMapping returns, whatever push it finds in flight.
StopTerminates == \A s \in Stops : stop[s] = "cancel" ~> stop[s] = "done"

-----------------------------------------------------------------------------
(***************************************************************************)
(* The inductive invariant behind the safety properties, in parts.         *)
(***************************************************************************)

\* The claim is held by exactly one pass, or by none.
ClaimInv ==
  /\ activeSync <=> ClaimHolders # {}
  /\ \A x, y \in ClaimHolders : x = y

\* The registered worker runs with a live context; a StopMapping call owns the
\* worker it took, which still runs until that call cancels it.
RegistryInv ==
  /\ registered # None => phase[registered] = "loop" /\ ~canceled[registered]
  /\ \A s \in Stops :
       /\ stop[s] = "idle" => target[s] = None
       /\ stop[s] \in {"cancel", "wait"} => target[s] \in Workers
       /\ stop[s] = "cancel" => /\ target[s] # registered
                                /\ phase[target[s]] = "loop"
                                /\ ~canceled[target[s]]
       /\ stop[s] = "done" /\ target[s] # None => phase[target[s]] = "done"
  /\ \A s, t \in Stops :
       stop[s] = "cancel" /\ stop[t] = "cancel" /\ target[s] = target[t] => s = t

\* How far a worker is tells what its local state can be.
WorkerInv ==
  \A w \in Workers :
    /\ phase[w] \in {"idle", "resolve", "prepare", "register"}
         => ~canceled[w] /\ pending[w] = {} /\ ~syncing[w] /\ results[w] = "none"
    /\ phase[w] \in {"prepare", "register", "loop", "drain", "closing"}
         <=> backend[w] = "open"
    /\ phase[w] \in {"closed", "done"} => backend[w] = "closed"
    /\ phase[w] = "loop" => (syncing[w] <=> push[w] = "running" \/ results[w] # "none")
    /\ push[w] = "running"
         => phase[w] \in {"loop", "drain"} /\ syncing[w] /\ results[w] = "none"

Inv == TypeOK /\ ClaimInv /\ RegistryInv /\ WorkerInv
         /\ NoOrphanWorker /\ NoLostWakeup
=============================================================================
