---------------------------- MODULE ProcManager -----------------------------
(***************************************************************************)
(* The managed-process supervisor of internal/procman, for one process ID: *)
(* Start, Stop, the wait goroutine and RecoverOnStartup of manager.go, the *)
(* runtime file of state.go that survives the application, and the         *)
(* operating system's processes, which survive it too.                     *)
(*                                                                         *)
(* A member of Runs is one call of Start together with the OS process it   *)
(* spawns; the members of Autostarted are calls made by app.go's           *)
(* autostart, after a RecoverOnStartup, the others come from the UI at any *)
(* time. Liveness of a PID is what alive_windows.go reports.               *)
(***************************************************************************)
EXTENDS Naturals, FiniteSets

CONSTANTS
  Runs,        \* calls of Start
  Autostarted, \* the calls among them made by autostart
  Stops,       \* calls of Stop, alone or in a delete or an import
  Recoveries,  \* calls of RecoverOnStartup
  Pids,        \* process IDs of the operating system
  DiskFails,   \* whether writing the runtime file may fail
  PidReuse,    \* whether the system may give a PID again
  None

ASSUME ProcAssumption ==
  /\ Autostarted \subseteq Runs
  /\ None \notin Runs \cup Pids
  /\ {"free", "zombie", "stranger"} \cap Runs = {}
  /\ DiskFails \in BOOLEAN /\ PidReuse \in BOOLEAN

VARIABLES
  up,         \* the application runs
  mu,         \* the Start call that holds Manager.mu over several steps
  trackedPid, \* processes[id].pid
  trackedRun, \* the Start call that made processes[id]; None when adopted
  file,       \* the PID persisted for id in the runtime file
  os,         \* what lives at each PID; a zombie exited and was not waited for
  killed,     \* the runs that a successful kill asked to end, until they do
  run,        \* how far each Start call, and its wait goroutine, is
  pid,        \* the PID of the process it spawned
  risk,       \* history: why the entry or the record of a live run may be lost
  stop,       \* how far each Stop call is
  stopPid,    \* the PID it read
  rec,        \* how far each RecoverOnStartup is
  snap,       \* the entry it loaded
  known,      \* whether the configuration it was given has the ID
  due,        \* autostarts of this session that have not begun
  configured  \* the ID is in the configuration

memory == <<mu, trackedPid, trackedRun>>
system == <<os, killed>>
runs   == <<run, pid, risk>>
stops  == <<stop, stopPid>>
recov  == <<rec, snap, known, due>>
vars   == <<up, memory, file, system, runs, stops, recov, configured>>

\* Its entry is not written; a Stop, or a recovery, was under way when it was written; a
\* Stop had its PID from an older process; its entry was replaced; the ID was deleted.
Risks == {"unsaved", "stop", "recovery", "pid", "replaced", "deleted"}

TypeOK ==
  /\ up \in BOOLEAN
  /\ mu \in Runs \cup {None}
  /\ trackedPid \in Pids \cup {None}
  /\ trackedRun \in Runs \cup {None}
  /\ file \in Pids \cup {None}
  /\ os \in [Pids -> Runs \cup {"free", "zombie", "stranger"}]
  /\ killed \subseteq Runs
  /\ run \in [Runs -> {"new", "read", "refused", "saving", "running", "reaped",
                       "left", "gone"}]
  /\ pid \in [Runs -> Pids \cup {None}]
  /\ risk \in [Runs -> SUBSET Risks]
  /\ stop \in [Stops -> {"idle", "kill", "untrack", "remove", "failed", "done", "cut",
                         "over"}]
  /\ stopPid \in [Stops -> Pids \cup {None}]
  /\ rec \in [Recoveries -> {"new", "loaded", "remove", "adopt", "done", "over"}]
  /\ snap \in [Recoveries -> Pids \cup {None}]
  /\ known \in [Recoveries -> BOOLEAN]
  /\ due \in Nat
  /\ configured \in BOOLEAN

Init ==
  /\ up = TRUE
  /\ mu = None /\ trackedPid = None /\ trackedRun = None
  /\ file = None
  /\ os = [p \in Pids |-> "free"] /\ killed = {}
  /\ run = [r \in Runs |-> "new"]
  /\ pid = [r \in Runs |-> None]
  /\ risk = [r \in Runs |-> {"unsaved"}]
  /\ stop = [s \in Stops |-> "idle"]
  /\ stopPid = [s \in Stops |-> None]
  /\ rec = [c \in Recoveries |-> "new"]
  /\ snap = [c \in Recoveries |-> None]
  /\ known = [c \in Recoveries |-> FALSE]
  /\ due = 1
  /\ configured = TRUE

-----------------------------------------------------------------------------
\* isProcessAlive: something runs at the PID, whoever it is.
Alive(p) == os[p] \in Runs \cup {"stranger"}

\* A child of this session stays a zombie until it is waited for.
Child(r) == run[r] \in {"saving", "running"}

Dead(p) == IF os[p] \in Runs /\ Child(os[p]) THEN "zombie" ELSE "free"

\* A PID the system may hand out.
Available(p) == os[p] = "free" /\ (PidReuse \/ \A r \in Runs : pid[r] # p)

\* Writing the runtime file: save and remove, whose error changes nothing else.
Write(entry) == file' \in {entry} \cup (IF DiskFails THEN {file} ELSE {})

-----------------------------------------------------------------------------
\* A Stop, and a recovery that has loaded its entry, before their last step.
StopOpen(s)    == stop[s] \in {"kill", "untrack", "remove"}
RecoverOpen(c) == rec[c] \in {"loaded", "remove", "adopt"}

\* A process that lives and that nobody has killed.
Running(r) == pid[r] # None /\ os[pid[r]] = r /\ r \notin killed

-----------------------------------------------------------------------------
(***************************************************************************)
(* Start: app.go reads the configuration; then one critical section of     *)
(* Manager.mu, in which the process exists before the runtime file says so.*)
(***************************************************************************)
StartRead(r) ==
  /\ up /\ run[r] = "new" /\ configured
  /\ r \in Autostarted => \E c \in Recoveries : rec[c] = "done"
  /\ run' = [run EXCEPT ![r] = "read"]
  /\ UNCHANGED <<up, memory, file, system, pid, risk, stops, recov, configured>>

\* A Start call fails when a process is tracked, and whenever its arguments cannot
\* be split or its command cannot be run. The entry of a survivor that no recovery
\* has adopted is about to be replaced.
StartSpawn(r) ==
  /\ up /\ mu = None /\ run[r] = "read"
  /\ \/ /\ run' = [run EXCEPT ![r] = "refused"]
        /\ UNCHANGED <<memory, os, pid, risk>>
     \/ /\ trackedPid = None
        /\ \E p \in Pids :
             /\ Available(p)
             /\ os' = [os EXCEPT ![p] = r]
             /\ pid' = [pid EXCEPT ![r] = p]
             /\ trackedPid' = p
             /\ risk' = [q \in Runs |->
                  IF q = r /\ \E s \in Stops : StopOpen(s) /\ stopPid[s] = p
                  THEN risk[q] \cup {"pid"}
                  ELSE IF Running(q) /\ pid[q] = file THEN risk[q] \cup {"replaced"}
                  ELSE risk[q]]
        /\ trackedRun' = r
        /\ mu' = r
        /\ run' = [run EXCEPT ![r] = "saving"]
  /\ UNCHANGED <<up, file, killed, stops, recov, configured>>

\* What is under way while the entry is written may still drop or replace it.
SavedRisk ==
  (IF \E s \in Stops : StopOpen(s) THEN {"stop"} ELSE {})
    \cup (IF \E c \in Recoveries : RecoverOpen(c) THEN {"recovery"} ELSE {})
    \cup (IF configured THEN {} ELSE {"deleted"})

StartSave(r) ==
  /\ up /\ mu = r
  /\ Write(pid[r])
  /\ risk' = [risk EXCEPT ![r] =
                 SavedRisk \cup (IF file' = pid[r] THEN @ \ {"unsaved"} ELSE @)]
  /\ mu' = None
  /\ run' = [run EXCEPT ![r] = "running"]
  /\ UNCHANGED <<up, trackedPid, trackedRun, system, pid, stops, recov, configured>>

-----------------------------------------------------------------------------
\* The process ends, by itself or since it was killed.
ProcessExits(r) ==
  /\ pid[r] # None /\ os[pid[r]] = r
  /\ os' = [os EXCEPT ![pid[r]] = Dead(pid[r])]
  /\ killed' = killed \ {r}
  /\ risk' = [risk EXCEPT ![r] = {}]
  /\ UNCHANGED <<up, memory, file, run, pid, stops, recov, configured>>

\* cmd.Wait returns; only now can the PID be given to another process.
WaitReaps(r) ==
  /\ up /\ run[r] = "running" /\ os[pid[r]] = "zombie"
  /\ os' = [os EXCEPT ![pid[r]] = "free"]
  /\ run' = [run EXCEPT ![r] = "reaped"]
  /\ UNCHANGED <<up, memory, file, killed, pid, risk, stops, recov, configured>>

\* Mutation of WaitCleans: the record is dropped without asking whose it is.
WaitCleansAny(r) ==
  /\ up /\ mu = None /\ run[r] = "reaped"
  /\ run' = [run EXCEPT ![r] = "gone"]
  /\ trackedPid' = None /\ trackedRun' = None
  /\ Write(None)
  /\ UNCHANGED <<up, mu, system, pid, risk, stops, recov, configured>>

\* Mutation of WaitCleans: the record of an exited process stays.
WaitCleansNothing(r) ==
  /\ up /\ mu = None /\ run[r] = "reaped"
  /\ run' = [run EXCEPT ![r] = "gone"]
  /\ Write(None)
  /\ UNCHANGED <<up, memory, system, pid, risk, stops, recov, configured>>

\* wait's critical section: drop the record, and the entry, if still its own.
WaitCleans(r) ==
  /\ up /\ mu = None /\ run[r] = "reaped"
  /\ run' = [run EXCEPT ![r] = "gone"]
  /\ \/ /\ trackedRun = r
        /\ trackedPid' = None /\ trackedRun' = None
        /\ Write(None)
     \/ /\ trackedRun # r
        /\ UNCHANGED <<trackedPid, trackedRun, file>>
  /\ UNCHANGED <<up, mu, system, pid, risk, stops, recov, configured>>

\* The operating system gives a free PID that one of ours had to a process that is not.
PidTaken(p) ==
  /\ Available(p) /\ \E r \in Runs : pid[r] = p
  /\ os' = [os EXCEPT ![p] = "stranger"]
  /\ UNCHANGED <<up, memory, file, killed, runs, stops, recov, configured>>

StrangerExits(p) ==
  /\ os[p] = "stranger"
  /\ os' = [os EXCEPT ![p] = "free"]
  /\ UNCHANGED <<up, memory, file, killed, runs, stops, recov, configured>>

-----------------------------------------------------------------------------
(***************************************************************************)
(* Stop: the PID is read under the lock, killed without it, untracked under*)
(* it again, and the entry removed after it.                               *)
(***************************************************************************)
StopRead(s) ==
  /\ up /\ mu = None /\ stop[s] = "idle"
  /\ stop' = [stop EXCEPT ![s] = IF trackedPid = None THEN "done" ELSE "kill"]
  /\ stopPid' = [stopPid EXCEPT ![s] = trackedPid]
  /\ UNCHANGED <<up, memory, file, system, runs, recov, configured>>

\* killProcessTree succeeds: whoever runs at the PID is asked to end.
Kill(p) == killed' = killed \cup ({os[p]} \cap Runs)

\* Mutation of StopKill: an error of killProcessTree is taken for "already gone".
StopKillIgnored(s) ==
  /\ up /\ stop[s] = "kill"
  /\ Kill(stopPid[s]) \/ UNCHANGED killed
  /\ stop' = [stop EXCEPT ![s] = "untrack"]
  /\ UNCHANGED <<up, memory, file, os, runs, stopPid, recov, configured>>

\* The kill succeeds, and the process may live on for a while; or it fails on a
\* process that lives (Stop returns the error); or it finds nothing to kill.
StopKill(s) ==
  /\ up /\ stop[s] = "kill"
  /\ \/ /\ Alive(stopPid[s])
        /\ \/ /\ Kill(stopPid[s])
              /\ stop' = [stop EXCEPT ![s] = "untrack"]
           \/ /\ stop' = [stop EXCEPT ![s] = "failed"]
              /\ UNCHANGED killed
     \/ /\ ~Alive(stopPid[s])
        /\ stop' = [stop EXCEPT ![s] = "untrack"]
        /\ UNCHANGED killed
  /\ UNCHANGED <<up, memory, file, os, runs, stopPid, recov, configured>>

StopUntrack(s) ==
  /\ up /\ mu = None /\ stop[s] = "untrack"
  /\ stop' = [stop EXCEPT ![s] = "remove"]
  /\ IF trackedPid = stopPid[s]
     THEN trackedPid' = None /\ trackedRun' = None
     ELSE UNCHANGED <<trackedPid, trackedRun>>
  /\ UNCHANGED <<up, mu, file, system, runs, stopPid, recov, configured>>

\* m.state.remove(id): whatever the entry now is.
StopRemove(s) ==
  /\ up /\ stop[s] = "remove"
  /\ Write(None)
  /\ stop' = [stop EXCEPT ![s] = "done"]
  /\ stopPid' = [stopPid EXCEPT ![s] = None]
  /\ UNCHANGED <<up, memory, system, runs, recov, configured>>

\* DeleteManagedProcess: the ID leaves the configuration whether the Stop worked or not.
DeleteProcess(s) ==
  /\ up /\ stop[s] \in {"done", "failed"}
  /\ stop' = [stop EXCEPT ![s] = "over"]
  /\ configured' = FALSE
  /\ risk' = [r \in Runs |-> IF Running(r) THEN risk[r] \cup {"deleted"} ELSE risk[r]]
  /\ UNCHANGED <<up, memory, file, system, run, pid, stopPid, recov>>

\* ImportConfig: after StopAll, whose call of Stop this is, the imported document has
\* the ID or does not, or the import fails; autostart runs once more in any case.
ImportConfig(s) ==
  /\ up /\ stop[s] \in {"done", "failed"}
  /\ stop' = [stop EXCEPT ![s] = "over"]
  /\ configured' \in BOOLEAN
  /\ risk' = [r \in Runs |-> IF Running(r) /\ ~configured'
                            THEN risk[r] \cup {"deleted"} ELSE risk[r]]
  /\ due' = due + 1
  /\ UNCHANGED <<up, memory, file, system, run, pid, stopPid, rec, snap, known>>

-----------------------------------------------------------------------------
(***************************************************************************)
(* RecoverOnStartup, first in autostart, at start-up in a goroutine of its *)
(* own and after an import: read the configuration and the file, look at   *)
(* the PID, then clean, kill or adopt.                                     *)
(***************************************************************************)
RecoverLoad(c) ==
  /\ up /\ due > 0 /\ rec[c] = "new"
  /\ due' = due - 1
  /\ IF file = None
     THEN rec' = [rec EXCEPT ![c] = "done"] /\ UNCHANGED <<snap, known>>
     ELSE /\ rec' = [rec EXCEPT ![c] = "loaded"]
          /\ snap' = [snap EXCEPT ![c] = file]
          /\ known' = [known EXCEPT ![c] = configured]
  /\ UNCHANGED <<up, memory, file, system, runs, stops, configured>>

RecoverCheck(c) ==
  /\ up /\ rec[c] = "loaded"
  /\ \/ /\ ~Alive(snap[c])
        /\ rec' = [rec EXCEPT ![c] = "remove"] /\ UNCHANGED killed
     \/ /\ Alive(snap[c]) /\ ~known[c]
        /\ rec' = [rec EXCEPT ![c] = "remove"]
        /\ Kill(snap[c]) \/ UNCHANGED killed
     \/ /\ Alive(snap[c]) /\ known[c]
        /\ rec' = [rec EXCEPT ![c] = "adopt"] /\ UNCHANGED killed
  /\ UNCHANGED <<up, memory, file, os, runs, stops, snap, known, due, configured>>

RecoverRemove(c) ==
  /\ up /\ rec[c] = "remove"
  /\ Write(None)
  /\ rec' = [rec EXCEPT ![c] = "done"]
  /\ snap' = [snap EXCEPT ![c] = None]
  /\ UNCHANGED <<up, memory, system, runs, stops, known, due, configured>>

\* Mutation of RecoverAdopt: the live process is noticed and not tracked.
RecoverAdoptNothing(c) ==
  /\ up /\ mu = None /\ rec[c] = "adopt"
  /\ rec' = [rec EXCEPT ![c] = "done"]
  /\ snap' = [snap EXCEPT ![c] = None]
  /\ UNCHANGED <<up, memory, file, system, runs, stops, known, due, configured>>

RecoverAdopt(c) ==
  /\ up /\ mu = None /\ rec[c] = "adopt"
  /\ trackedPid' = snap[c] /\ trackedRun' = None
  /\ rec' = [rec EXCEPT ![c] = "done"]
  /\ snap' = [snap EXCEPT ![c] = None]
  /\ UNCHANGED <<up, mu, file, system, runs, stops, known, due, configured>>

-----------------------------------------------------------------------------
\* The application dies; the processes it spawned live on.
Crash ==
  /\ up
  /\ up' = FALSE
  /\ mu' = None /\ trackedPid' = None /\ trackedRun' = None
  /\ os' = [p \in Pids |-> IF os[p] = "zombie" THEN "free" ELSE os[p]]
  /\ run' = [r \in Runs |-> IF Child(r) THEN "left"
                            ELSE IF run[r] = "reaped" THEN "gone"
                            ELSE IF run[r] = "read" THEN "refused" ELSE run[r]]
  /\ stop' = [s \in Stops |-> IF stop[s] = "idle" THEN "idle" ELSE "cut"]
  /\ rec' = [c \in Recoveries |-> IF rec[c] = "new" THEN "new" ELSE "over"]
  /\ snap' = [c \in Recoveries |-> None]
  /\ due' = 0
  /\ stopPid' = [s \in Stops |-> None]
  /\ UNCHANGED <<file, killed, pid, risk, known, configured>>

\* The bound on the sessions: each has a call of Recoveries for its autostart.
Restart ==
  /\ ~up /\ \E c \in Recoveries : rec[c] = "new"
  /\ up' = TRUE
  /\ due' = 1
  /\ UNCHANGED <<memory, file, system, runs, stops, rec, snap, known, configured>>

-----------------------------------------------------------------------------
Waiter(r)  == WaitReaps(r) \/ WaitCleans(r)
StopCall(s) == StopRead(s) \/ StopKill(s) \/ StopUntrack(s) \/ StopRemove(s)
Recover(c) == RecoverLoad(c) \/ RecoverCheck(c) \/ RecoverRemove(c) \/ RecoverAdopt(c)

Next ==
  \/ \E r \in Runs : StartRead(r) \/ StartSpawn(r) \/ StartSave(r) \/ ProcessExits(r)
                      \/ Waiter(r)
  \/ \E p \in Pids : PidTaken(p) \/ StrangerExits(p)
  \/ \E s \in Stops : StopCall(s) \/ DeleteProcess(s) \/ ImportConfig(s)
  \/ \E c \in Recoveries : Recover(c)
  \/ Crash \/ Restart

Spec == Init /\ [][Next]_vars

(***************************************************************************)
(* Critical sections, wait goroutines and RecoverOnStartup go on; nobody   *)
(* has to start, stop or end a process.                                    *)
(***************************************************************************)
Fairness ==
  /\ \A r \in Runs : WF_vars(StartSave(r)) /\ WF_vars(Waiter(r))
  /\ \A s \in Stops : WF_vars(stop[s] # "idle" /\ StopCall(s))
  /\ \A c \in Recoveries : WF_vars(Recover(c))

FairSpec == Spec /\ Fairness

-----------------------------------------------------------------------------
\* A child of this session that lives, and that nobody killed, is tracked, so that Stop
\* and StopAll find it, whatever calls of Start, Stop, wait, delete, import and recovery
\* come and went. Only a recovery may displace its record, one that had loaded an older
\* entry, or that still finds one since this one's could not be written; or a Stop that
\* read the same PID of a process before it.
NoUntrackedChild ==
  \A r \in Runs :
    /\ Child(r) /\ Running(r)
    /\ {"unsaved", "recovery", "pid"} \cap risk[r] = {}
    => trackedPid = pid[r]

\* The process of the ID runs once: two that nobody killed live at the same time, in one
\* session or over several, only if one of them has no entry in the runtime file,
\* because it was not written, or was removed by a Stop or a recovery that overlapped
\* its Start, or was overwritten by a Start before the recovery of a new session.
RunsOnce ==
  \A q, r \in Runs :
    q # r /\ Running(q) /\ Running(r) => risk[q] \cup risk[r] # {}

\* A process whose entry was written, with no Stop and no recovery under way, and not
\* replaced since, and that outlived the application, is tracked again as soon as a
\* RecoverOnStartup is through, whatever starts, stops and recovers at the same time.
PersistedIsFound ==
  \A r \in Runs :
    /\ run[r] = "left" /\ Running(r) /\ risk[r] = {}
    /\ \E c \in Recoveries : rec[c] = "done"
    => trackedPid = pid[r]

\* The record of an exited child is dropped in the end.
ExitIsNoticed ==
  \A r \in Runs :
    trackedRun = r /\ os[pid[r]] # r ~> trackedRun # r

-----------------------------------------------------------------------------
(***************************************************************************)
(* The inductive invariant behind NoUntrackedChild, RunsOnce and           *)
(* PersistedIsFound, in parts.                                             *)
(***************************************************************************)

\* A run has a PID from its spawn on, holds the lock while it is saved, and does not come
\* back to life.
RunInv ==
  /\ \A r \in Runs : run[r] \in {"new", "read", "refused"} <=> pid[r] = None
  /\ \A r \in Runs : run[r] = "saving" <=> mu = r
  /\ \A r \in Runs : pid[r] = None \/ (run[r] = "saving" /\ Running(r))
                      => "unsaved" \in risk[r]
  /\ \A p \in Pids : os[p] \in Runs => pid[os[p]] = p
  /\ \A r \in Runs : run[r] \in {"reaped", "gone"} => os[pid[r]] # r

\* The record is of a run that had the PID; what Stop and recovery hold is a PID.
TrackInv ==
  /\ trackedRun # None => pid[trackedRun] # None /\ trackedPid = pid[trackedRun]
  /\ mu # None => trackedRun = mu
  /\ \A s \in Stops : StopOpen(s) => stopPid[s] # None
  /\ \A c \in Recoveries : RecoverOpen(c) => snap[c] # None

\* A Stop that is about to untrack a live process read the PID before that one had it.
UntrackInv ==
  \A r \in Runs, s \in Stops :
    Running(r) /\ "pid" \notin risk[r] /\ stop[s] = "untrack" => stopPid[s] # pid[r]

\* A saved child is on record, and no recovery knows or can find another PID.
ChildInv ==
  \A r \in Runs :
    Child(r) /\ Running(r) /\ {"unsaved", "recovery", "pid"} \cap risk[r] = {} =>
      /\ trackedPid = pid[r] /\ trackedRun \in {None, r}
      /\ file \in {None, pid[r]}
      /\ \A c \in Recoveries : RecoverOpen(c) => snap[c] = pid[r]

\* The runtime file keeps the entry of a process at no risk; a recovery under way will
\* adopt that process, and a Stop under way will kill it or give up.
PersistInv ==
  \A r \in Runs :
    Running(r) /\ risk[r] = {} =>
      /\ configured /\ file = pid[r]
      /\ trackedPid \in {None, pid[r]} /\ trackedRun \in {None, r}
      /\ Child(r) \/ (\E c \in Recoveries : rec[c] = "done") => trackedPid = pid[r]
      /\ \A c \in Recoveries :
           RecoverOpen(c) => snap[c] = pid[r] /\ known[c] /\ rec[c] # "remove"
      /\ \A s \in Stops : StopOpen(s) => stop[s] = "kill" /\ stopPid[s] = pid[r]

Inv == TypeOK /\ RunInv /\ TrackInv /\ UntrackInv /\ ChildInv /\ PersistInv
=============================================================================
