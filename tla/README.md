# A formal model of ssh_gun

ssh_gun is a Wails desktop application: a Go back end behind a Vue window that
keeps directories in sync with servers (SFTP or rsync), runs port forwards over
SSH, and supervises local processes. This directory has TLA+ models of the parts
of it that are concurrent, or that must survive crashes, the TLC runs that check
them, and proofs of every safety property that the passing runs check.

    tlc -workers 2 -config SyncEngine.cfg MCSyncEngine   # one run
    tlapm SyncEngineProofs.tla                           # the proofs

`PROJECT.json` lists the components, the runs, for each definition the source
lines it models (`map`), the hazards of the code with the properties that cover
them, the mutations that each property is known to detect, and the theorems.

## 1. The system and its parts

| part | source | state | operations | what makes it correct |
|---|---|---|---|---|
| sync engine | `internal/syncengine/engine.go`, `backend.go` | registry of workers by mapping ID, set of active syncs, per worker: context, backend, pending changes, result and retry channels | `StartMapping`, `StopMapping`, `FullSync`, `runMapping`, `PushChanges` | syncs of a mapping are serial; no change is left behind; no worker or backend is leaked; a stopped worker is over |
| watcher | `internal/syncengine/watcher.go` | native watches, pending names, debounce timer, batch channel of capacity 1 | `Watch`, `run`, `addRecursive`, `resolve` | what happened in the tree is told to the engine in the end; new directories are watched |
| process manager | `internal/procman/` | map of records, runtime file, wait goroutines | `Start`, `Stop`, `StopAll`, `Status`, `RecoverOnStartup` | no living child is forgotten, none runs twice, an exit is noticed, survivors are found after a restart |
| port forwards | `internal/forward/` | map of forwards; per forward: listener, accept loop, connection pairs, wait group | `Start`, `Stop`, `Status`, accept loop, handler, SOCKS5 exchange | after `Stop` nothing of the forward is left; nothing leaks; the status tells the truth |
| config store | `internal/config/store.go` | the configuration in memory, `config.toml`, `.bak`, `.tmp` | `Open`, every mutator through `saveLocked` | a crash or a failing operation never costs an acknowledged configuration |
| application | `app.go` | none of its own but `syncStatus` | the calls of the window, autostart, import, shutdown | what runs follows the configuration, references hold |
| config model, export, secrets | `internal/config/model.go`, `export.go`, `dpapi_*.go` | none | normalise, mask, export, import, encrypt | a mask or a missing secret never replaces a secret by mistake |
| SFTP backend | `internal/syncengine/sftpbackend/` | one SFTP session; per call a plan of changes and a pool of upload workers | `FullSync`, `PushChanges`, `Close` | success means the trees agree; what an interrupted upload left is found again; an error or a cancellation ends all workers |
| diff and scan | `differ.go`, `scanner.go`, `findparse.go`, `pathmap.go`, `tarstream.go` | none | compare two trees | the actions make the remote tree equal to the local one |
| excludes | `excludes.go`, `gitignore.go` | patterns | match a path | sequential |
| rsync runtime | `internal/rsyncbin/` | a directory of files and a marker | `Extract` | a marker stands for a whole runtime |
| rsync backend | `syncengine/rsyncbackend/` | per sync: a temporary file of rules, an rsync process | `FullSync`, `PushChanges` | a sync that returned is over on the server too; a cancelled one returns |
| rsh bridge | `internal/rshbridge/` | a process with an SSH connection of its own | `Run` | it ends when either side does |
| SSH client and pool | `internal/sshclient/` | clients by server, one mutex | `Get`, `Close` | no connection leaks, no client is closed under its users, `Get` returns |
| single instance | `internal/singleinstance/` | lock file or mutex, activation listener | `Acquire`, `ListenActivate`, `NotifyActivate`, `Close` | one instance; a second one activates the first |
| log | `internal/applog/` | ring buffer, log file | write, read back, rotate | the ring has the last lines in order |
| window, tray, autostart, assets, test server | `frontend/`, `tray.go`, `main.go`, `internal/autostart/`, `assets/`, `internal/testsshd/` | views | call the handlers of `app.go` | not part of the core |

How they interact. Wails runs every call of the window in a goroutine of its
own; `app.go` serves it by calling the store and then the engine, the forward
manager or the process manager, with no lock held from one call to the next.
The engine asks the watcher for batches over a channel, and a backend (SFTP or
rsync) to push them; it reports results by a callback that ends as an event in
the window. Forwards and backends dial through `sshclient`. Store, engine,
managers and pool each have one mutex, and each gives it up around slow work:
dialling, killing, copying, waiting. What survives the program is
`config.toml` with its backup, the runtime file of the process manager, the
managed processes themselves, the remote trees, the unpacked rsync runtime and,
after a crash, an rsync with its remote shell.

What is hard, and no unit test of the repository reaches:

* registries tested, given up and tested again (`StartMapping` around the dial,
  `procman.Stop` around the kill, `forward.Stop` around the closes);
* cancellation against work in flight: a push, a dial, a debounce timer;
* wake-ups sent after the lock is given up, over channels of capacity 1;
* a process, or the machine, that ends between two file operations;
* PIDs that were persisted and may belong to somebody else by now;
* a tree that changes while it is walked;
* a mutex held over a probe and a dial, with a server that stops answering;
* three processes that only hear of each other's end through a pipe.

## 2. Modules

| module | models | a behaviour is |
|---|---|---|
| `SyncClaim` | what `e.activeSync` promises: an exclusive claim | passes taking and releasing it |
| `SyncEngine` | the engine, for one mapping ID | calls of `StartMapping`, `StopMapping`, `FullSync`, the workers, watchers and pushes they start |
| `SyncEngineProofs` | theorems about `SyncEngine` and its backend `RsyncSync` | |
| `ProcManager` | the process manager, for one process ID, with the operating system's processes and the runtime file | sessions of the application, with crashes, restarts and imports |
| `ForwardManager` | the forward manager, for one forward ID | calls of `Start` and `Stop`, clients, dials |
| `ConfigStore` | the configuration in memory and its three files | opens, saves and faults |
| `AppEntries` | the calls of the window on a mapping, a forward or a process, and on the servers | overlapping calls of `app.go` |
| `Watcher` | one watcher and the tree it watches | changes of the tree against `run` |
| `SftpBackend` | the SFTP backend with scan and diff, for one mapping | two trees, calls of `FullSync` and `PushChanges`, errors, a cancellation, changes of the local tree |
| `SshPool` | the pool of SSH clients and its users | calls of `Get`, sessions, lost and hanging connections, the shutdown |
| `SingleInstance` | processes of the program, the lock and the activation listener | launches, closes, crashes |
| `RsyncRuntime` | `Extract`, for several goroutines | file operations on one directory |
| `RsyncSync` | syncs with rsync, on top of `RsyncRuntime` | goroutines, rsync processes, remote shells, connections, crashes |
| `AppEntriesProofs`, `ConfigStoreProofs`, `ForwardManagerProofs`, `ProcManagerProofs`, `SftpBackendProofs`, `SshPoolProofs` | theorems about those six | |
| `PlatformProofs` | theorems about `Watcher` and `SingleInstance`, the two that live on what the operating system hands them | |
| `MC...` | model values and symmetry for TLC | |

All models of one ID are sound for many: the maps are keyed by ID, and an ID's
entries are only read and written by calls for that ID (`StopAll` is `Stop` of
each). A process of the code (a call, a goroutine) is a model value with a
program counter; a region under a lock, a channel operation, a call of the
operating system and a write to disk is one step each, so a step is as large as
the code makes it, never larger. Two components whose theorems share a module
have names of their own for `Init`, `Next`, `Spec` and the like (`WatchInit`,
`RsyncInit`, ...). An operation that may fail is a disjunction.
Definitions named "Mutation of ..." are not part of any specification: they are
what a plausible mistake would make of an action, and show that a property
would notice it.

**SyncEngine.** `registered` is `e.mappings[id]`, `activeSync` membership in
`e.activeSync`. `phase[w]` follows a `StartMapping` call through its two tests
of the registry (`StartEnter`, `StartRegister`) and the steps between them that
hold no lock (`StartResolve`, `StartPrepare`), and then its worker: `"loop"` is
the select of `runMapping`, `"drain"` the wait for the push in flight after
cancellation, `"closing"` and `"closed"` the deferred calls. `StartPush` is the
closure of that name, whole, at the end of the three cases that call it:
refused by an active sync it keeps `pending` as it is. The push goroutine sends
its result and ends its claim in two steps (`PushReturns`, `PushEnds`), which is
what makes the wake-up necessary; `ReleaseClaim` looks the worker up under the
lock and `Notify` sends later. A batch is a set of paths: which change of a path
won is not told apart.

**ProcManager.** `trackedPid`/`trackedRun` are the record under the ID, `file`
the runtime file's entry, `os` what lives at each PID: nothing, a child, a
zombie, a stranger. A call of `Start` reads the configuration first (`StartRead`,
in `app.go`), and may come to the manager when the ID is in it no more; it holds the
lock over spawn and save. `Stop` reads under the lock, kills without it, untracks
under it and removes the entry without it: four steps. `killProcessTree` returns when
the process has been asked to end, so a kill puts it into `killed`, and it dies at
some later time (`ProcessExits`). Whether a PID is alive is modelled as on Windows: a
child that ended and was not waited for is not. `RecoverOnStartup` is load, check, and adopt or
remove; every session makes such a call in a goroutine of its own, next to whatever
the window does, and every import one more (`due`). A `Stop` may be the first half of
a delete (`DeleteProcess`) or of an import (`ImportConfig`, whose `StopAll` it is).
`Crash` ends the application and leaves its children alive. The history `risk` has,
for each live process, what the code does not protect its record or its entry from.

**ForwardManager.** `Start` holds the lock while it dials and listens; the
accept loop has a step for the accept, one for the admission under the lock and
one for the start of the handler; the handler dials, sets the remote connection,
copies and closes; `Stop` marks under the lock, then closes the listener, the
pairs of its snapshot one by one, and waits for the group. The SOCKS5 exchange
is one step that succeeds or fails.

**ConfigStore.** Every step of `saveLocked` may fail, or be the last one before
a kill: `os.WriteFile` truncates and then fills, `os.Rename` is atomic. A
configuration is the number of the save that made it, 0 the empty one. A file whose
writing was cut short (`Stubs`) has no bytes, which decodes as the empty
configuration, or ends with a line (`Part`), which decodes as well, or does not
decode (`Torn`). A power cut does this to any file that was not flushed, or makes it
what it was at any time before. `happened` remembers what kinds of faults there were,
so that each property says which it stands up to; `"loss"` is a power cut that found
`config.toml` itself not flushed.

**AppEntries.** `kind` says whether the one entry is a mapping, a forward or a
process; `stored` and `servers` are what the store has, `running` is the entry
that the worker, forward or process was started with. The handlers of `app.go`
are split where they call the store, the engine or a manager, and each of those
calls is one step here (`ConfigStore`, `SyncEngine`, `ForwardManager` and
`ProcManager` have the steps within), but for `StartMapping`, which keeps its
two tests. Only saving a mapping stops and starts it again (`SaveStop`); a saved
forward or process goes on as it was started. A save that cannot be written has
still changed the store's memory. A secret is `"bare"` (empty),
`"secret"` or, by mistake, the `"mask"` the window shows for one; `shown` are the
servers for which a form may send a mask, at any later time. `Documents` are the
exports: with no secrets at all, or with those sealed by the passphrase. The entry of
a file that is loaded or imported may refer to any server, also to one in no list
(`Dangling`), as nothing in the code forbids that. `raced` remembers what a property
excepts.

**Watcher.** `tree` is the file system, `events` the native queue (a full one
loses names), `walk` what `addRecursive` still has to do, `batch` and `batches`
the way out. Resolving happens when the timer fires, so it sees the tree of
that moment. Every call of the system may fail on what is there: the `Lstat` of an
event (`TakeEvent`), adding a watch (`WalkAdd`) and reading a directory (`WalkList`),
each of which ends the walk (`WalkEnds`), and the `Lstat` of `resolve`
(`TimerFires`), which drops the name. Three history variables name what the code
cannot know: `blind` the paths that last changed where no watch could see it, `lost`
the directories no walk will come to any more, `dropped` the names that could not be
looked up.

**SftpBackend.** `local` and `remote` are the trees, `pc` where the call is:
`FullSync` scans one directory per step (`ScanLocal`), lists the remote tree
(`ListRemote`, with `Diff` and `selectedDeletes`) and goes on as `PushChanges`:
`DeleteNext`, the deepest first, `MkdirNext`, then the pool. `StartPool`,
`FeederEnds`, `WorkerEnds` and `PoolReturns` are `uploadAll`; `Take` is the send of
the feeder with the receive of a worker, for the channel has no capacity;
`UploadCreate`, `UploadCopy` and `UploadTimes` are `uploadOne` between its remote
operations. A remote operation that fails may have done part of its work. The data
of a file are the number of the change that made it, or `Part`, a file cut off, or
`Mixed`, one read while it was written; its time is the number of the change whose
time it has, or 0 for the server's clock. `Time` gives each change a time in fractions
of a second: SFTP cuts these off (`Stamped`) and `Diff` compares with a skew of one
second (`Near`), so files of other versions may pass for the same, and a time of the
server's clock may be near any other. A batch has the tree as it is, or as it was
when the watcher resolved it and the engine kept it waiting (`held`). A file that is
there and cannot be opened is passed over with success (`skipped`). Sync calls do not
overlap, as `SerialSync` says.

**SshPool.** `mu` is `Pool.mu`, held from `Lock` to `Return` over the probe and
the dial. A client is the number of its connection; `sessions` is what the server
counts, and a probe needs one of its own; the server may also refuse it for reasons of
its own, or admit no sessions at all. A server in `hung` keeps its
connections and answers nothing, so no step of `Get` for it is enabled. Users are
SFTP backends, which hold a session, and a second one while a full sync lists the
remote tree (`Exec`), and forwards, which hold none; `Quit` stops
those that run, one by one, and `Close` closes what is pooled.

**SingleInstance.** Both builds in one module: `os` chooses. A lock file is the
process that created it, `path` what its name stands for now, so that a file
that was removed and is still open is told from the new one. `flock` and
`CreateMutex` do not wait. A crash closes and unlocks, and leaves the lock file.
`asks` are requests on their way to a listener, and are lost with it.

**RsyncRuntime, RsyncSync.** Entry 0 of the directory is the marker, the others
are the files in the order of the copy; `After` says where a copy goes on. A file
is torn from `OpenFile` to `Fill`; `RemoveAll` lists the entries (`ListOld`, a step
after the marker was read), removes them one by one, and fails when something is left. `RsyncSync` extends it by the call of
`FullSync` (`pc`), its rsync process (which needs one file of the runtime, `Exe`), the bridge, the bridge's connection and the
rsync on the server. `Kill` is what `exec.CommandContext` does; `Return` waits for
the end of the pipe that rsync and the bridge share, as `CombinedOutput` does
without a `WaitDelay`. What the bridge learns of a killed rsync is the end of its
input (`InputEnds`), which ends the remote rsync, and with it the session.

## 3. Runs

| run | question | bounds, and why they are enough |
|---|---|---|
| `engine` | Are syncs serial and the claim exclusive as `SyncClaim` says, wake-ups kept, nothing leaked, stopped workers over; and does everything that must happen happen when a worker is replaced while the claim is held? | two workers (an old and a new one, or two that race), a stop, a full sync, one path; one worker gets two batches (one pushed, one that comes during the push), the other one. Fairness, hence no symmetry; the proofs cover all other sizes of the safety properties |
| `sftp` | Does success mean that the trees agree, does an incomplete upload never pass for the file, are extras kept, does the pool end? | a directory with a file, a file beside it, an excluded one; each may be, or turn into, the other kind; two calls, the second after whatever the first left; one change of the local tree, within a second of what was there, so that only its size tells it; two workers, so that one can fail under the other. The proofs cover times of any distance |
| `procs` | Do `Start`, `Stop`, the wait goroutine and the recovery keep the record, the entry and the process together, over crashes, deletes, imports and failed writes, with PIDs given to strangers? | a `Start` of the window and one of the autostart, a `Stop` (alone, in a delete, or in an import), two PIDs, two recoveries: of two sessions, or of a session and an import. Fairness, hence no symmetry; the safety properties were also checked, with symmetry, with three starts, with two stops, and with three recoveries, and are proved for any numbers |
| `forward` | Is `Stop` complete, does it return, and is the status right? | two generations, two connections, one `Stop`, SOCKS5 |
| `config` | What does a restart load after kills, failing operations, power cuts and damage? | four configurations, three faults in a row: a save, its predecessor, one that fails and one after it |
| `app` | Does what runs follow what is stored, does an entry keep its server, and a server its secret? | two calls at a time, all kinds of entry, two versions of it, two servers; a state is told by what the calls hold (`View`), not by copies that nothing reads any more |
| `app_deleted` (violation) | Does a deleted mapping stay deleted? | two calls |
| `watcher` | Is what changes told, and are new directories watched? | a nested pair of directories, a file in one, an excluded path, four changes, and a queue of two names |
| `pool` | Is a connection leaked, is a user cut off, does `Get` return? | three users, two of the same server, so that one can be cut off by the other while a third waits for the lock; two sessions per connection, so that one user and its listing, or two users, leave a probe none; two connections, one server that hangs. The safety properties were also checked with three connections |
| `instance` | Is there one primary, and is a refused process heard? | three processes: one that closes, one that holds the removed file, one that makes a new one |
| `rsync` | Does the marker mean a whole runtime, is a returned sync over on the server, does a cancelled one return? | two syncs, a file of `bin` and one of `etc`, a connection that hangs, crashes, an unreadable marker |
| `rsync_overlap` (violation) | Is the runtime installed where a good marker is? | the same without faults |

Each module has a type invariant (`TypeOK`, `WatchTypeOK`,
`RsyncTypeOK`). It is checked in the run `engine`; for the other
modules it was checked with the runs' bounds, is part of what section 4 proves, and
is not part of a run, where it would say little beside the other properties.

Deadlock checking is off in the runs in which the system may rest: every call
has returned and nothing changes any more. That is the normal end of a bounded
behaviour and not a fault; where someone waits for ever it would show in the
liveness properties (`StopTerminates`, `StopReturns`, `PendingIsPushed`,
`ExitIsNoticed`, `ChangesArrive`, `SyncEnds`, `GetReturns`, `RefusedIsShown`,
`CancelReturns`).

### Fairness

`WF` of the steps of a goroutine once it runs: the Go scheduler runs what can
run, and a mutex is given to whoever waits. Calls of backends and dials are
taken to return, with success or failure; a handshake or a copy is only taken to
end when its connection is closed. Nobody has to call anything, exit, connect or
change a file, and no fairness is asked of these. Weak fairness is enough
elsewhere: no step in question is disabled again and again while its
goroutine waits for it. The select of `runMapping` and of the watcher's `run` is
weakly fair as a whole: which ready case is taken is open. `SftpBackend` asks only
that some goroutine of a call goes on while one can (`WF` of `Run`): the steps of a
call are finitely many, so no more is needed for it to end.

`SshPool` asks strong fairness of `Lock`: other users may take and free the lock
again and again while one waits for it, and `sync.Mutex` hands it to a waiter that
starves. `SingleInstance`: a launched process goes on, and the listener serves.
`RsyncSync`: goroutines and processes go on, rsync ends when its remote shell
has, and the rsync on the server when its input ends; nothing else is asked of
rsync or the network, and a transfer may last for ever.

### What the violations show

* `app_deleted`: `RunFullSync` writes back the copy of the mapping it read before
  the sync (`app.go:429`) and thereby undoes a delete or a save made meanwhile.
* `rsync_overlap`: `Extract` holds no lock. A second call reads no marker and
  starts its `RemoveAll` (`rsyncbin.go:31`) while the first writes the last entries
  and the marker; files are removed, `RemoveAll` fails on what came after its
  listing, and the good marker stays on an incomplete runtime.

Seen while modelling, and left out of what the properties state:

* `StopMapping` gives up the registry entry before the worker is over
  (`engine.go:198`), so an old and a new worker exist side by side for a while.
  Their pushes are still serial (`SerialSync`), as the comment at 128 wants.
* The result of a push that ends during cancellation is read and dropped
  (`engine.go:314`): the window is not told of it.
* `RecoverOnStartup` may overwrite the record of a process the window started
  between its check and its adoption (`manager.go:257`), and remove its entry. The
  properties of `ProcManager` except a process whose entry was written while a
  recovery was under way.
* `procman.Stop` removes the runtime entry after it gave up the lock
  (`manager.go:181`) and may remove the entry of a later `Start`. A process whose
  entry was written while a `Stop` was under way is excepted: the next session does
  not find it, and may start it again.
* `procman.Stop` returns when the kill was asked for (`manager.go:169`, `kill_*.go`):
  the process may live on for a while, and a `Start` right after runs beside it.
  `RunsOnce` is about processes that nobody has killed.
* `procman.Start` does not know of a survivor before the recovery is through: it
  starts a second process and replaces the entry of the first (`manager.go:134`).
* A `Start` that read the configuration before a delete starts the process after it
  (`app.go:500`).
* `saveLocked` renames without flushing the file (`store.go:98`). After a power cut
  the new file may not decode, and the backup is loaded; or it is empty, or ends with
  a line, and decodes: `Open` then loads it, and the configuration is lost without a
  word (`store.go:58`). The properties hold over power cuts that find `config.toml`
  flushed, and except the others.
* A change within a second of the version pushed last, of the same size, is taken for
  it by `Diff` (`differ.go:59`), as times are cut to seconds on the server
  (`sftpbackend/backend.go:288`): if no batch brings it, no full sync will either.
  `SameIsEqual` excepts such versions (`Hasty`).
* A local file that is there and cannot be opened is passed over, and the sync reports
  success (`sftpbackend/backend.go:245`).
* When the connection of a sync with rsync is lost, the call returns while the
  server's rsync may go on for a time, beside the next sync of the mapping.
* A walk of new directories ends at the first call that fails (`watcher.go:167`,
  `186`), and what it did not come to has no watch, ever. A name that `resolve` cannot
  look up is forgotten (`watcher.go:207`). `NewDirsWatched` and `ToldOfChanges` except
  these and nothing else.
* Imported entries may refer to servers in no list: `ImportMerge` and `ImportReplace`
  report it and store them (`store.go:563`, `598`). `ServerInUseStays` excepts them.
* A path that turns from a file into a directory, or back, between two batches
  makes the push fail (`backend.go:154`, `262`), and the engine has cleared the
  batch by then (`engine.go:278`): only a full sync brings it. `SuccessIsComplete`
  is about calls that report success.
* `RemoveAll` of a remote directory removes excluded files below it as well
  (`backend.go:135`).
* An edit of `config.toml` by hand, while the program runs, is overwritten by
  the next save.
* A process adopted by `RecoverOnStartup` (`procman/manager.go:257`) has no wait
  goroutine, and `Status` does not look: after it ended it is `Running` for ever,
  and `Start` refuses, until `Stop`.
* After a failed `Accept` the accept loop clears `running`
  (`forward/manager.go:197`) and leaves the listener open; `Stop` finds the forward
  not running and returns, so the port stays taken and the connections open.
* `addRecursive` notes directories only (`watcher.go:170`): files that were in a new
  directory before its watch are not pushed until they are written again or a
  full sync runs.
* A delete, or another save, that overlaps a `StartMapping` still dialling
  (`app.go:379`, `388`) does not stop it: `RuntimeFollowsConfig` is stated for
  calls that do not overlap.
* A save that cannot be written leaves the change in memory and the worker as it
  was (`store.go:265`, `app.go:376`); a process that could not be killed goes on when
  its entry is deleted (`app.go:494`).
* The form of a server that was deleted meanwhile is stored as a new server with
  the mask as its password (`store.go:175`).
* Merging an export without secrets empties the secrets of the servers it has
  (`store.go:613`).
* The pool is keyed by server ID alone: after an edit of a server `Get` still
  returns the client with the old settings (`client.go:30`). `Invalidate` exists
  and is called by nobody.
* A probe on a client whose sessions are all in use, or whose server refuses one,
  closes it under its users (`client.go:36`); `NobodyIsCutOff` excepts this.
* The handshake and the probe have no time limit, and the pool's lock is held over
  them: a server that hangs blocks the calls for all others (`GetReturns`).
* A primary that closes removes the lock file (`singleinstance_other.go:52`) that
  another process may have open: two primaries. `OnePrimaryOfAFile` excepts this.
* A process launched while the primary closes finds the lock taken and nobody who
  listens, and ends without a window.
* A cancelled sync whose bridge hangs does not return, and `StopMapping` waits for it
  (`rsyncbackend/backend.go:45`). After a crash the rsync of a session goes on beside
  the next one's.

## 4. Proofs

`SyncEngineProofs` proves, for any numbers of workers, stops, full syncs, paths
and batches, from `EngineAssumption` alone (the sets are disjoint, `None` is in
none of them, each worker has a bound on its batches):

| theorem | says |
|---|---|
| `TypeCorrect` | `Spec => []TypeOK` |
| `InvCorrect` | `Spec => []Inv`, the inductive invariant |
| `SyncsAreSerial` | `Spec => []SerialSync` |
| `WakeupsAreKept` | `Spec => []NoLostWakeup` |
| `WorkersAreReachable` | `Spec => []NoOrphanWorker` |
| `PushesAreOnOpenBackends` | `Spec => []PushOnOpenBackend` |
| `StopsAreFinal` | `Spec => []StopIsFinal` |
| `BackendsAreClosed` | `Spec => []NoBackendLeak` |
| `EngineImplementsClaim` | `Spec => ImplementsClaim`: the refinement of `SyncClaim` |

`Inv` is `TypeOK`, and

* `ClaimInv`: `activeSync` is set exactly when some pass holds the claim, and at
  most one does. `SerialSync` alone is not inductive: a pass that has the claim
  and is not yet, or no longer, in its backend also keeps others out;
* `RegistryInv`: the registered worker runs and is not cancelled, and a worker
  taken by a `StopMapping` is registered no more and belongs to that call.
  `NoOrphanWorker` needs it, for else a second `StopMapping` could have
  cancelled, or a `StartMapping` displaced, the registered worker;
* `WorkerInv`: what the phase of a worker says of its backend, flag, push and
  result. `PushOnOpenBackend` rests on it: the worker leaves `"drain"` only with
  a result in the channel, and then its push is in the backend no more;
* `NoOrphanWorker` and `NoLostWakeup`, inductive with the others. That a wake-up
  is kept is the one that takes an argument over several actors: a worker that
  was refused found `activeSync` set, so a pass holds the claim, so its end will
  look up the registered worker, which is that one as long as it is registered.

For each conjunct there is a lemma that says a step keeps it, with one case per
action; the refinement is proved from the invariant by
showing which actions take or release the claim and that all others leave
`claimHolder` alone.

The other proofs go the same way: each modelled component has the parts of an
inductive invariant `Inv` at the end of its module, one lemma for each part says
that a step keeps it, and the properties follow. Each `Inv` was checked by TLC
with the constants of the run before it was proved. The theorems are about the
models as the runs use them, for every value of the constants that the named
assumptions allow; the bounds (`MaxChanges`, `MaxDials`, ...) are constants too, so
that no bound of a run is one of a theorem.

| module | theorem | says | assumes |
|---|---|---|---|
| `AppEntriesProofs` | `InvCorrect`, `RuntimeFollows` | `Spec => []RuntimeFollowsConfig` | `OpsAssumption` |
| | `ServerStays` | `Spec => []ServerInUseStays` | |
| | `MaskNotStored` | `Spec => []MaskIsNoSecret` | |
| `ConfigStoreProofs` | `InvCorrect`, `PersistenceIsAtomic` | `Spec => []AtomicPersistence` | `StoreAssumption` |
| | `AckedStaysOnDisk` | `Spec => []AckedIsOnDisk` | |
| | `OneFaultIsCheap` | `Spec => []OneFaultCostsOneSave` | |
| `ForwardManagerProofs` | `InvCorrect`, `StopsAreComplete` | `Spec => []StopIsComplete` | `ForwardAssumption` |
| | `RemotesAreClosed` | `Spec => []NoRemoteLeak` | |
| | `RunningMeansServed` | `Spec => []RunningIsServed` | |
| `PlatformProofs` | `WatchInvCorrect`, `ChangesAreTold` | `WatchSpec => []ToldOfChanges` | `TreeAssumption` |
| | `NewDirsAreWatched` | `WatchSpec => []NewDirsWatched` | |
| | `InstanceInvCorrect`, `PrimaryIsUnique` | `Spec => []OnePrimaryOfAFile` | `InstanceAssumption` |
| `ProcManagerProofs` | `InvCorrect`, `ChildrenAreTracked` | `Spec => []NoUntrackedChild` | `ProcAssumption` |
| | `OneAtATime` | `Spec => []RunsOnce` | |
| | `PersistedAreFound` | `Spec => []PersistedIsFound` | |
| `SftpBackendProofs` | `InvCorrect`, `SuccessesAreComplete` | `Spec => []SuccessIsComplete` | `BackendAssumption`, `TreeAssumption` |
| | `SameFilesAreEqual` | `Spec => []SameIsEqual` | |
| | `ExtrasStay` | `Spec => ExtrasAreKept`, an action property | |
| `SshPoolProofs` | `InvCorrect`, `NoLeak` | `Spec => []NoClientLeak` | `PoolAssumption` |
| | `CutOffForAReason` | `Spec => []NobodyIsCutOff` | |
| `SyncEngineProofs` | `RsyncInvCorrect`, `MarkerIsLast` | `RsyncSpec => []MarkerMeansWhole` | `RuntimeAssumption` |
| | `ReturnIsTheEnd` | `RsyncSpec => []RemoteIsOver` | |

* `AppEntries`: `RuntimeFollowsConfig` speaks of the state at rest. In between
  `RestInv` says that one call is under way at most as long as no calls
  overlapped, and for each place it can be at what runs and that its copy is
  still the stored entry. `ServerInUseStays` and `MaskIsNoSecret` hold with
  overlaps and are inductive with `TypeOK`.
* `SshPool`: `NoClientLeak` needs `LockInv` (a dial finds its place in the pool
  still empty, since it holds the lock) and that no client is pooled twice;
  `NobodyIsCutOff` needs that a probe only fails on a spoilt client
  (`UseInv`), which a refused probe makes it. `SessionsInv` says that the server
  counts at least the sessions of the users and of their listings, which shows that
  the number is a natural one: no session is closed twice.
* `SingleInstance`: `FileInv` says that an open lock file has the name still, or
  was removed, and that a primary has locked its own. Two primaries with the
  name have the same file, and it has one owner.
* `RsyncSync`: `UnpackInv` says that, while nothing was spoilt, the call that
  unpacks is alone, that every file before the one it is at is whole, and that
  no good marker is there until the last is; a crash keeps that at any point.
  `RemoteIsOver` relates a call to a process two removes away from it: `CallInv` says
  that the remote rsync is over before the bridge is, unless the connection is lost,
  and the bridge, which a kill of rsync leaves alone, before the call.

* `ForwardManager`: `StopIsComplete` is the end of a wait, so it needs `CountInv`:
  the wait group of a forward is the number of its handlers, and one for its
  accept loop. That the count is right needs `LoopInv`: a connection in the hand
  of the loop is in nobody else's. `RunInv` says that one forward runs at most and
  is the one registered, which holds because the lock covers a `Start` from its
  test to its entry (`StartInv`). `NoRemoteLeak` is inductive with `RemoteInv`: a
  remote connection is open only between the dial and the close of its pair.
* `ConfigStore`: `WholeInv` and `BackupInv` say, for the kinds of faults each
  property stands up to, what the three files hold at each step of `saveLocked` and
  of `Open`: while `config.toml` is damaged the backup holds the configuration
  before it, and a save renews the backup before it touches `config.toml`.
  `CompleteInv` says that what is renamed is the whole of the configuration being
  saved, and `FaultInv` ties the count of faults to the history of them.
* `ProcManager`: `RunInv` and `TrackInv` say that a run keeps its PID and does not come
  back to life, that the record is of a run that had it, and that what `Stop` and a
  recovery hold is a PID. `UntrackInv` is why a `Stop`, which kills with no lock, does
  not untrack a process that lives: it read the PID of another one before.
  `ChildInv` and `PersistInv` say what a process at no risk can count on: the
  recoveries under way have its PID and will adopt it, the `Stop`s under way are
  before their kill, and the entry is its own. `RunsOnce` follows from `PersistInv`:
  two such processes would have the same entry, hence the same PID, and at a PID lives
  one.
* `SftpBackend`: success is many steps by many workers on a plan made from what
  was found, so the invariant has a part for each of these. `FoundInv` and
  `ScanInv`: as long as the local tree stays as it was (`quiet`), what was found is
  what is there, and every directory not read yet is on the list. `TargetInv`: each
  path the call is to bring about is as it should be and not in danger of a
  deletion (`Done`), or still in the plan, in the channel or with a worker (`Due`).
  `PoolInv` keeps two workers off one path, and `PhaseInv` the parts of the plan in
  order. `StampInv` is why an interrupted upload is found again: a time on the
  server other than its own clock's was set after the content was there, which
  `UploadInv` follows through the worker; `Hasty` is what is left when `Near`, the cut
  to seconds and the skew, is worked out for two different versions. Both trees stay trees; the lemmas about
  `Below`, `Above` and `Depth` say what removing the deepest first, and making what
  is above first, does to them. `Below` is defined as the least set closed under
  contents, for recursion is out of the prover's reach. `TreeAssumption` says what
  it is for a path to be in a tree: what holds of a path whenever it holds of its
  directory holds of all paths. No step needs more of the tree than that.
* `Watcher`: `ToldInv` says of each path a watch saw change that the engine will
  know it when it has taken the batches on the way (`Coming`), or that it is pending
  or in the queue. That two batches on the way do not undo one another rests on
  `NothingBelow`: below a path that is not there is nothing, so that a batch which
  tells of a removed directory tells nothing wrong about what was in it.
  `WatchedInv` is the like for the watches: a directory not watched yet is in the
  queue, or next to be watched or listed by the walk, or in a directory of which this
  holds. `NewDirsWatched` follows by the order of the tree (`TreeAssumption` has no
  path below itself): were one of them left at rest, there would be one whose parent is
  watched or lost. `blind`, `dropped` and `lost` are what the code cannot have seen, or
  has given up.

Not proved, only checked:

* liveness (`PendingIsPushed`, `StopTerminates`, `SyncEnds`, `ExitIsNoticed`,
  `StopReturns`, `ChangesArrive`, `GetReturns`, `RefusedIsShown`, `CancelReturns`):
  neither fairness nor `ENABLED` is within the prover's reach;
* that `HasContents` and `Below` are what `RemoveAll` reaches on a real server: it is
  what the models take a directory to be.

## 5. Not modelled

`PROJECT.json` gives the reason per component. In short: pattern matching,
normalisation, quoting, encoding and encryption are sequential data handling
that unit tests reach; the autostart entry and `shellopen` are single calls of
the system; the window, tray, assets, build files and the test server are not
core. The log is a ring under one lock and a file.

Within the modelled parts: of `ForwardManager` the SOCKS5 bytes and the text of
errors; of `Watcher` the installation of the first watches, which ends before
`Watch` returns, links and reparse points, the channel of errors, which only reports,
renames of directories with what is in them, and a directory that becomes a file or
back (the failing `Lstat` it causes is there for every name); of `SftpBackend` links,
modes, the compare mode `checksum` (only an edit of the file sets it, and nothing
computes a hash) and `Chtimes` changes (nothing makes any); of `ConfigStore` the
contents of a configuration; of `app.go` the status shown, the events, settings
and logs; of `SshPool` `TestConnection`, which dials for itself; of `SingleInstance`
the time limits of two seconds on a request and on its answer, for which fairness
stands; of `RsyncSync` the arguments, the bytes, and the temporary file of exclude
rules, which a call removes if it can (`rsyncbackend/backend.go:64`) and which nothing
else reads. Data races
on the map `e.mappings` (read in `endSync` under another mutex) are modelled as
atomic reads: what the Go run time does on a detected concurrent map access is
not.

## 6. Plan

Done: 1. `SyncEngine`, `SyncClaim` and the proofs; 2. `ProcManager`;
3. `ForwardManager`; 4. `ConfigStore`; 5. `AppEntries`, first for mappings, then
for forwards, processes and secrets; 6. `Watcher`; 7. `SftpBackend`, with `Diff`
and `ScanLocal`; 8. `SshPool`; 9. `SingleInstance`; 10. `RsyncRuntime` and
`RsyncSync`.

Next, in this order:

11. A composition of `SftpBackend` and `Watcher` in an abstract form: batches of
    changes and full syncs bring the remote tree to the local one in the end, but
    for the cases listed in section 3.
12. `RingBuffer` as a sequence with its last N elements, with a proof.
13. A composition of `SyncEngine` and `RsyncSync`: `StopMapping` against a sync that
    returns late.

The number of runs is kept small: a new question about a modelled component
joins an existing run when its constants fit.

Proofs to come: for each new module its invariants. For those there are, what is
left to state is the composition: that the calls of `AppEntries` on the engine,
the forwards and the processes, one step each there, are what the other modules
promise of them.
