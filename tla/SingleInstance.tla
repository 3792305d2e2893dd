---------------------------- MODULE SingleInstance ----------------------------
(***************************************************************************)
(* One instance of the program at a time (internal/singleinstance, main.go *)
(* and app.go): a process that gets the lock is the primary instance and   *)
(* listens for others, any other asks it to show its window and exits.     *)
(* The lock is a named mutex on Windows, and elsewhere a lock on a file    *)
(* that its owner removes when it closes.  A file is named by the process  *)
(* that created it; a process lives once.                                  *)
(***************************************************************************)
EXTENDS Naturals

CONSTANTS
  Procs, \* processes of the program
  None,
  Mutex  \* what all processes open on Windows

ASSUME InstanceAssumption == {None, Mutex} \cap Procs = {} /\ None # Mutex

VARIABLES
  os,      \* which of the two the program was built for
  pc,      \* where each process is
  fd,      \* the file, or the mutex, it has open
  path,    \* the file under the lock file's name
  locked,  \* for each file the process that has locked it
  port,    \* the process that listens on the activation address
  asks,    \* requests the listener has not served: who asked whom
  shown,   \* processes whose request made a primary show its window
  orphaned \* history: processes that had the file open which another one removed
vars == <<os, pc, fd, path, locked, port, asks, shown, orphaned>>

Primary == {"primary", "serving", "deaf"}
Live    == Primary \cup {"acquire", "lock", "denied", "notify", "unlock", "close", "remove"}

TypeOK ==
  /\ os \in {"windows", "other"}
  /\ pc \in [Procs -> Live \cup {"off", "gone", "crashed"}]
  /\ fd \in [Procs -> Procs \cup {None, Mutex}]
  /\ path \in Procs \cup {None}
  /\ locked \in [Procs -> Procs \cup {None}]
  /\ port \in Procs \cup {None}
  /\ asks \subseteq Procs \X Procs
  /\ shown \subseteq Procs /\ orphaned \subseteq Procs

\* A lock file may be left from an instance that crashed: nobody has it open, so it
\* is as good as none.
Init ==
  /\ os \in {"windows", "other"}
  /\ pc = [p \in Procs |-> "off"]
  /\ fd = [p \in Procs |-> None]
  /\ path = None
  /\ locked = [p \in Procs |-> None]
  /\ port = None
  /\ asks = {} /\ shown = {} /\ orphaned = {}

GoTo(p, l) == pc' = [pc EXCEPT ![p] = l]
Hold(p, f) == fd' = [fd EXCEPT ![p] = f]
Release(p) == [f \in Procs |-> IF locked[f] = p THEN None ELSE locked[f]]

-----------------------------------------------------------------------------
(***************************************************************************)
(* Acquire.                                                                *)
(***************************************************************************)
Launch(p) ==
  /\ pc[p] = "off"
  /\ GoTo(p, "acquire")
  /\ UNCHANGED <<os, fd, path, locked, port, asks, shown, orphaned>>

\* CreateMutex opens the mutex, and tells whether some process had it open.
CreateMutex(p) ==
  /\ pc[p] = "acquire" /\ os = "windows"
  /\ Hold(p, Mutex)
  /\ GoTo(p, IF \E q \in Procs : fd[q] = Mutex THEN "denied" ELSE "primary")
  /\ UNCHANGED <<os, path, locked, port, asks, shown, orphaned>>

\* Until it closes the handle, a process that was refused keeps the mutex alive.
CloseHandle(p) ==
  /\ pc[p] = "denied"
  /\ Hold(p, None)
  /\ GoTo(p, "notify")
  /\ UNCHANGED <<os, path, locked, port, asks, shown, orphaned>>

OpenFile(p) ==
  /\ pc[p] = "acquire" /\ os = "other"
  /\ path' = IF path = None THEN p ELSE path
  /\ Hold(p, path')
  /\ GoTo(p, "lock")
  /\ UNCHANGED <<os, locked, port, asks, shown, orphaned>>

\* Mutation of Flock: a failure to lock is taken for success.
FlockUnchecked(p) ==
  /\ pc[p] = "lock"
  /\ locked' = IF locked[fd[p]] = None THEN [locked EXCEPT ![fd[p]] = p] ELSE locked
  /\ GoTo(p, "primary")
  /\ UNCHANGED <<os, fd, path, port, asks, shown, orphaned>>

\* flock does not wait; refused, the file is closed.
Flock(p) ==
  /\ pc[p] = "lock"
  /\ IF locked[fd[p]] = None
     THEN /\ locked' = [locked EXCEPT ![fd[p]] = p]
          /\ GoTo(p, "primary")
          /\ UNCHANGED fd
     ELSE /\ Hold(p, None)
          /\ GoTo(p, "notify")
          /\ UNCHANGED locked
  /\ UNCHANGED <<os, path, port, asks, shown, orphaned>>

-----------------------------------------------------------------------------
(***************************************************************************)
(* Activation.                                                             *)
(***************************************************************************)
\* The application has started and listens; it goes on without when it cannot.
ListenActivate(p) ==
  /\ pc[p] = "primary"
  /\ IF port = None THEN port' = p /\ GoTo(p, "serving")
                    ELSE GoTo(p, "deaf") /\ UNCHANGED port
  /\ UNCHANGED <<os, fd, path, locked, asks, shown, orphaned>>

\* The process sends its request, or finds nobody who listens, and exits.
NotifyActivate(p) ==
  /\ pc[p] = "notify"
  /\ asks' = IF port = None THEN asks ELSE asks \cup {<<p, port>>}
  /\ GoTo(p, "gone")
  /\ UNCHANGED <<os, fd, path, locked, port, shown, orphaned>>

\* Mutation of Serve: the loop ends with the first request.
ServeOnce(q) ==
  /\ pc[q] = "serving" /\ shown = {}
  /\ \E a \in asks : a[2] = q /\ asks' = asks \ {a} /\ shown' = shown \cup {a[1]}
  /\ UNCHANGED <<os, pc, fd, path, locked, port, orphaned>>

\* serve accepts a connection, and its handler answers and shows the window.
Serve(q) ==
  /\ pc[q] = "serving"
  /\ \E a \in asks : a[2] = q /\ asks' = asks \ {a} /\ shown' = shown \cup {a[1]}
  /\ UNCHANGED <<os, pc, fd, path, locked, port, orphaned>>

-----------------------------------------------------------------------------
(***************************************************************************)
(* Guard.Close at the end of shutdown, and the end without it.             *)
(***************************************************************************)
FreePort(p) ==
  /\ port' = IF port = p THEN None ELSE port
  /\ asks' = {a \in asks : a[2] # p}

CloseServer(p) ==
  /\ pc[p] \in {"serving", "deaf"}
  /\ FreePort(p)
  /\ GoTo(p, IF os = "windows" THEN "close" ELSE "unlock")
  /\ UNCHANGED <<os, fd, path, locked, shown, orphaned>>

Unlock(p) ==
  /\ pc[p] = "unlock"
  /\ locked' = Release(p)
  /\ GoTo(p, "close")
  /\ UNCHANGED <<os, fd, path, port, asks, shown, orphaned>>

CloseFile(p) ==
  /\ pc[p] = "close"
  /\ Hold(p, None)
  /\ GoTo(p, IF os = "windows" THEN "gone" ELSE "remove")
  /\ UNCHANGED <<os, path, locked, port, asks, shown, orphaned>>

\* os.Remove takes away what has the name by now, its own file or another's.
Remove(p) ==
  /\ pc[p] = "remove"
  /\ path' = None
  /\ orphaned' = orphaned \cup {q \in Procs : path # None /\ fd[q] = path}
  /\ GoTo(p, "gone")
  /\ UNCHANGED <<os, fd, locked, port, asks, shown>>

\* Killed, or the window could not be made: the system closes everything.
Crash(p) ==
  /\ pc[p] \in Live
  /\ Hold(p, None)
  /\ locked' = Release(p)
  /\ FreePort(p)
  /\ GoTo(p, "crashed")
  /\ UNCHANGED <<os, path, shown, orphaned>>

-----------------------------------------------------------------------------
Acquire(p) == CreateMutex(p) \/ CloseHandle(p) \/ OpenFile(p) \/ Flock(p)
Exit(p)    == CloseServer(p) \/ Unlock(p) \/ CloseFile(p) \/ Remove(p) \/ Crash(p)
Next ==
  \E p \in Procs :
    Launch(p) \/ Acquire(p) \/ ListenActivate(p) \/ NotifyActivate(p) \/ Serve(p) \/ Exit(p)

Spec == Init /\ [][Next]_vars

\* A process goes on once launched, and its listener serves whoever asks.
FairSpec ==
  Spec /\ \A p \in Procs : WF_vars(Acquire(p) \/ NotifyActivate(p)) /\ WF_vars(Serve(p))

-----------------------------------------------------------------------------
IsPrimary(p) == pc[p] \in Primary

\* There are never two primaries on Windows; elsewhere only when a process that
\* closed took the lock file away from one that had it open already.  Launches at the
\* same time, and crashes at any point, do not lead to two.
OnePrimaryOfAFile ==
  \A p, q \in Procs :
    IsPrimary(p) /\ IsPrimary(q) /\ {p, q} \cap orphaned = {} => p = q

\* A process that was refused, by whomever, makes the instance that listens show its
\* window, as long as that one goes on listening: no request is left behind.
RefusedIsShown ==
  \A p, q \in Procs :
    pc[p] = "notify" /\ port = q
      ~> p \in shown \/ pc[p] = "crashed" \/ pc[q] # "serving"

-----------------------------------------------------------------------------
(***************************************************************************)
(* The inductive invariant behind OnePrimaryOfAFile, in parts.             *)
(***************************************************************************)

\* Whoever is primary has the mutex open, and nobody becomes it while the mutex is.
MutexInv ==
  os = "windows" =>
    /\ \A p \in Procs : pc[p] # "lock" /\ (IsPrimary(p) => fd[p] = Mutex)
    /\ \A p, q \in Procs : IsPrimary(p) /\ IsPrimary(q) => p = q

\* Whoever is primary has locked the file it has open; an open file has the lock file's
\* name, or was removed.
FileInv ==
  os = "other" =>
    \A p \in Procs :
      /\ pc[p] = "lock" => fd[p] \in Procs
      /\ IsPrimary(p) => fd[p] \in Procs /\ locked[fd[p]] = p
      /\ fd[p] \in Procs => fd[p] = path \/ p \in orphaned

Inv == TypeOK /\ MutexInv /\ FileInv
=============================================================================
