------------------------------- MODULE Watcher -------------------------------
(***************************************************************************)
(* How changes of the local tree become batches (watcher.go): a native     *)
(* watch per directory puts names into a queue, run collects them in       *)
(* pending and looks new directories up to watch them too, and when no     *)
(* event came for the debounce time it resolves the names against the tree *)
(* and hands the batch over.  WatchInit is the moment Watch returns.       *)
(*                                                                         *)
(* The tree and the native watches are the operating system's: a change    *)
(* in a watched directory is one queued name, a change elsewhere is none.  *)
(* Every call that looks at the tree or asks for a watch may fail on what  *)
(* is there, for want of rights or of watches.                             *)
(***************************************************************************)
EXTENDS Naturals, Sequences

CONSTANTS
  Root, Dirs,  \* the watched root, the directories below it
  Files,
  Parent,      \* the directory of each file and directory
  Excluded,    \* the paths the matcher skips, with all that is below them
  MaxChanges,  \* bound: changes of the tree
  MaxQueue     \* names the native queue holds

Paths == Dirs \cup Files

ASSUME TreeAssumption ==
  /\ Dirs \cap Files = {} /\ Root \notin Paths
  /\ Parent \in [Paths -> Dirs \cup {Root}]
  /\ \A S \in SUBSET Paths : S # {} => \E p \in S : Parent[p] \notin S
  /\ Excluded \subseteq Paths
  /\ \A p \in Paths : Parent[p] \in Excluded => p \in Excluded
  /\ MaxChanges \in Nat \ {0} /\ MaxQueue \in Nat \ {0}

VARIABLES
  tree,    \* of each path the number of the change that made it what it is, 0: not there
  changes, \* changes so far
  watched, \* directories with a native watch
  events,  \* native.Events
  walk,    \* addRecursive: what WalkDir still does, <<"add" or "list", directory>>
  pending,
  timer,   \* a debounce timer is running
  batch,   \* resolved and waiting for room in the channel
  batches, \* the channel, of capacity 1
  over,    \* run returned
  seen,    \* history: what the engine was told of each path last
  blind,   \* history: changed last with no watch in place, or when the queue was full,
           \* and not found by a walk since
  lost,    \* history: what no walk is to find: made when the queue was full, or passed
           \* over by a walk that was cut short, or made in a directory of these
  dropped  \* history: names that resolve could not look up last
watchVars == <<tree, changes, watched, events, walk, pending, timer, batch, batches, over, seen,
               blind, lost, dropped>>

disk == <<tree, changes, watched, events, blind>>
out  == <<batch, batches, over, seen, dropped>>

Exists(p) == p = Root \/ (p \in Paths /\ tree[p] # 0)
Under(d)  == {p \in Paths : Parent[p] = d}
Versions  == 0..MaxChanges
NoBatch   == <<>>

\* A batch is a partial function from paths to what resolve found there.
Batches == UNION {[B -> Versions] : B \in SUBSET Paths}

WatchTypeOK ==
  /\ tree \in [Paths -> Versions] /\ seen \in [Paths -> Versions]
  /\ changes \in Versions
  /\ watched \subseteq Dirs \cup {Root}
  /\ events \in Seq(Paths) /\ Len(events) <= MaxQueue
  /\ walk \subseteq {"add", "list"} \X (Dirs \ Excluded)
  /\ pending \subseteq Paths \ Excluded
  /\ timer \in BOOLEAN /\ over \in BOOLEAN
  /\ batch \in Batches /\ batches \in {<<>>} \cup {<<b>> : b \in Batches}
  /\ blind \subseteq Paths /\ lost \subseteq Paths /\ dropped \subseteq Paths

\* Every directory there is when Watch returns is watched, but for the excluded.
WatchInit ==
  /\ tree \in {t \in [Paths -> {0, 1}] : \A p \in Paths : t[p] = 1 /\ Parent[p] # Root => t[Parent[p]] = 1}
  /\ changes = 1
  /\ watched = {Root} \cup {d \in Dirs \ Excluded : tree[d] = 1}
  /\ events = <<>> /\ walk = {} /\ pending = {}
  /\ timer = FALSE /\ over = FALSE
  /\ batch = NoBatch /\ batches = <<>>
  /\ seen = tree
  /\ blind = {} /\ lost = {} /\ dropped = {}

-----------------------------------------------------------------------------
(***************************************************************************)
(* The tree and the native watches.                                        *)
(***************************************************************************)
\* p changes, and its directory's watch says so if there is one and room for it.  In a
\* directory that is still to be watched a walk is to find p.
Change(p, v) ==
  /\ changes < MaxChanges /\ changes' = changes + 1
  /\ tree' = [tree EXCEPT ![p] = v]
  /\ LET heard == Parent[p] \in watched /\ Len(events) < MaxQueue
         early == Parent[p] \notin watched \cup lost
     IN  /\ events' = IF heard THEN Append(events, p) ELSE events
         /\ blind' = IF heard THEN blind \ {p} ELSE blind \cup {p}
         /\ lost'  = IF heard \/ early THEN lost \ {p} ELSE lost \cup {p}
  /\ UNCHANGED <<walk, pending, timer, out>>

\* A file or directory is created, or a file written.
Make(p) ==
  /\ Exists(Parent[p]) /\ (p \in Dirs => ~Exists(p))
  /\ Change(p, changes + 1)
  /\ UNCHANGED watched

\* A file, or an empty directory with its watch, is removed.
Vanish(p) ==
  /\ Exists(p) /\ \A q \in Under(p) : ~Exists(q)
  /\ Change(p, 0)
  /\ watched' = watched \ {p}

-----------------------------------------------------------------------------
(***************************************************************************)
(* run.                                                                    *)
(***************************************************************************)
Free == ~over /\ walk = {} /\ batch = NoBatch

\* A path and what is below it: what any set has that has the path, and with every
\* path those in it.
HasContents(S) == \A x \in Paths : Parent[x] \in S => x \in S
Below ==
  [p \in Paths |-> {q \in Paths : \A S \in SUBSET Paths : p \in S /\ HasContents(S) => q \in S}]

\* The directories S and all in them that stay without a watch.
Unwatched(S) == {e \in Dirs : Exists(e) /\ e \notin watched /\ \E d \in S : e \in Below[d]}

\* An event: skip what is excluded, walk a directory, start the timer again.  A directory
\* that Lstat fails on is not walked.
TakeEvent ==
  /\ Free /\ events # <<>>
  /\ events' = Tail(events)
  /\ LET p == Head(events)
     IN  IF p \in Excluded THEN UNCHANGED <<walk, pending, timer, lost>>
         ELSE /\ pending' = pending \cup {p}
              /\ timer' = TRUE
              /\ \/ walk' = (IF p \in Dirs /\ Exists(p) THEN {<<"add", p>>} ELSE {}) /\ UNCHANGED lost
                 \/ walk' = {} /\ lost' = lost \cup Unwatched({p})
  /\ UNCHANGED <<tree, changes, watched, blind, out>>

\* The walk ends where it is, with the rest of the tree unvisited.
WalkEnds == walk' = {} /\ lost' = lost \cup Unwatched({t[2] : t \in walk})

\* Mutation of WalkAdd: a new directory is watched, and those in it are not looked for.
WalkAddShallow ==
  /\ ~over
  /\ \E d \in Dirs :
       /\ <<"add", d>> \in walk
       /\ IF Exists(d)
          THEN /\ watched' = watched \cup {d}
               /\ pending' = pending \cup {d}
               /\ blind' = blind \ {d} /\ lost' = lost \ {d}
               /\ walk' = walk \ {<<"add", d>>}
          ELSE WalkEnds /\ UNCHANGED <<watched, pending, blind>>
  /\ UNCHANGED <<tree, changes, events, timer, out>>

\* Mutation of WalkAdd: the directories found are not noted.
WalkAddUnnoted ==
  /\ ~over
  /\ \E d \in Dirs :
       /\ <<"add", d>> \in walk
       /\ IF Exists(d)
          THEN /\ watched' = watched \cup {d}
               /\ blind' = blind \ {d} /\ lost' = lost \ {d}
               /\ walk' = (walk \ {<<"add", d>>}) \cup {<<"list", d>>}
          ELSE WalkEnds /\ UNCHANGED <<watched, blind>>
  /\ UNCHANGED <<tree, changes, events, pending, timer, out>>

\* addRecursive at a directory: watch it and note it.  If it is gone by now or the watch
\* is refused the walk ends.
WalkAdd ==
  /\ ~over
  /\ \E d \in Dirs :
       /\ <<"add", d>> \in walk
       /\ \/ /\ Exists(d)
             /\ watched' = watched \cup {d}
             /\ pending' = pending \cup {d}
             /\ blind' = blind \ {d} /\ lost' = lost \ {d}
             /\ walk' = (walk \ {<<"add", d>>}) \cup {<<"list", d>>}
          \/ WalkEnds /\ UNCHANGED <<watched, pending, blind>>
  /\ UNCHANGED <<tree, changes, events, timer, out>>

\* WalkDir reads the directory; only directories in it are of interest.  If it cannot be
\* read the walk ends.
WalkList ==
  /\ ~over
  /\ \E d \in Dirs :
       /\ <<"list", d>> \in walk
       /\ \/ /\ Exists(d)
             /\ walk' = (walk \ {<<"list", d>>})
                          \cup {<<"add", e>> : e \in {x \in Under(d) \cap Dirs : Exists(x) /\ x \notin Excluded}}
             /\ UNCHANGED lost
          \/ WalkEnds
  /\ UNCHANGED <<disk, pending, timer, out>>

\* Mutation of TimerFires: names stay pending until they are resolved, without a timer.
TimerFiresHalf ==
  /\ Free /\ timer
  /\ \E p \in pending :
       batch' = [q \in {p} |-> tree[q]] /\ pending' = pending \ {p}
  /\ timer' = FALSE
  /\ UNCHANGED <<disk, walk, batches, over, seen, lost, dropped>>

\* The debounce time passed since the last event: resolve all that is pending.  A name that
\* cannot be looked up, other than for being gone, is left out and forgotten; a batch of
\* none is none.  (When the clock says otherwise the timer is started again, and nothing
\* changes here.)
TimerFires ==
  /\ Free /\ timer
  /\ \E failed \in SUBSET pending :
       /\ batch' = [p \in pending \ failed |-> tree[p]]
       /\ dropped' = (dropped \ pending) \cup failed
  /\ pending' = {}
  /\ timer' = FALSE
  /\ UNCHANGED <<disk, walk, batches, over, seen, lost>>

Emit ==
  /\ ~over /\ batch # NoBatch /\ batches = <<>>
  /\ batches' = <<batch>> /\ batch' = NoBatch
  /\ UNCHANGED <<disk, walk, pending, timer, over, seen, lost, dropped>>

\* ctx is done: between two events, or instead of Emit.
Cancel ==
  /\ ~over /\ walk = {}
  /\ over' = TRUE
  /\ UNCHANGED <<disk, walk, pending, timer, batch, batches, seen, lost, dropped>>

\* What the engine knows, s, once it took batch b: what it is told of a removed directory
\* goes for all that was in it.
Told(s, b) ==
  LET gone == UNION {Below[p] : p \in {q \in DOMAIN b : b[q] = 0}}
  IN  [p \in Paths |-> IF p \in DOMAIN b THEN b[p] ELSE IF p \in gone THEN 0 ELSE s[p]]

Receive ==
  /\ batches # <<>>
  /\ batches' = <<>>
  /\ seen' = Told(seen, Head(batches))
  /\ UNCHANGED <<disk, walk, pending, timer, batch, over, lost, dropped>>

-----------------------------------------------------------------------------
Run  == TakeEvent \/ WalkAdd \/ WalkList \/ TimerFires \/ Emit
WatchNext == (\E p \in Paths : Make(p) \/ Vanish(p)) \/ Run \/ Cancel \/ Receive

WatchSpec == WatchInit /\ [][WatchNext]_watchVars

\* The goroutine of run and the engine's loop go on; nobody need change the tree or
\* cancel the watcher.
WatchFairSpec == WatchSpec /\ WF_watchVars(Run) /\ WF_watchVars(Receive)

-----------------------------------------------------------------------------
Quiet == events = <<>> /\ walk = {} /\ pending = {} /\ batch = NoBatch /\ batches = <<>>

\* Once all is handed over the engine was told of every path that is not excluded what
\* it is now, unless it changed last where no watch could see it and no walk of new
\* directories found it, or resolve could not look it up.
ToldOfChanges ==
  ~over /\ Quiet => \A p \in Paths \ (Excluded \cup blind \cup dropped) : seen[p] = tree[p]

\* Then every directory that is not excluded has its watch, however deep and however fast
\* it was made in one that had none yet, unless the queue was full when it was made or the
\* walk that was to find it was cut short: by a failing call, or by a directory that went.
NewDirsWatched ==
  ~over /\ Quiet => \A d \in Dirs \ (Excluded \cup lost) : Exists(d) => d \in watched

\* Changes are handed over in the end, with the exceptions of ToldOfChanges: no name is
\* left pending with no timer running.
ChangesArrive ==
  \A p \in Paths : []<>(over \/ p \in Excluded \cup blind \cup dropped \/ seen[p] = tree[p])

-----------------------------------------------------------------------------
(***************************************************************************)
(* The inductive invariant behind the two, in parts.                       *)
(***************************************************************************)
\* What there is is in a directory that is there.
TreeInv == \A p \in Paths : tree[p] # 0 => Exists(Parent[p])

\* What the engine will have been told when it has taken the batches on the way.
Coming == Told(IF batches = <<>> THEN seen ELSE Told(seen, Head(batches)), batch)

Queued(p) == \E i \in DOMAIN events : events[i] = p

\* A change that a watch saw is told, on the way, or named in the queue or in pending.
ToldInv ==
  \A p \in Paths \ (Excluded \cup blind \cup dropped) :
    Coming[p] = tree[p] \/ Queued(p) \/ p \in pending

\* A directory is watched, or named in the queue, or next to be watched or found, or it is
\* in a directory of which this holds.
WatchedInv ==
  /\ Root \in watched
  /\ \A d \in Dirs \ (Excluded \cup lost) : Exists(d) =>
       \/ d \in watched \/ Queued(d)
       \/ <<"add", d>> \in walk \/ <<"list", Parent[d]>> \in walk
       \/ Parent[d] \notin watched \cup lost

WatchInv == WatchTypeOK /\ TreeInv /\ ToldInv /\ WatchedInv
=============================================================================
