----------------------------- MODULE SftpBackend -----------------------------
(***************************************************************************)
(* The SFTP backend of one mapping (sftpbackend/backend.go): FullSync      *)
(* scans the local tree, lists the remote one and pushes what Diff         *)
(* (differ.go) finds; PushChanges applies a batch of changes, the uploads  *)
(* by a pool of workers.  The engine makes one call at a time (SyncClaim). *)
(*                                                                         *)
(* The local tree changes meanwhile, every remote operation may fail, as   *)
(* when the connection is lost, and the context may be cancelled.  Nobody  *)
(* else changes the remote tree.  A file is the number of the change that  *)
(* made it (data), or how it came to be no version of the file, and the    *)
(* number of the change whose modification time it has; 0 stands for the   *)
(* server's clock.  Links and reparse points, which the code skips, are    *)
(* not in the local tree.                                                  *)
(***************************************************************************)
EXTENDS Naturals, FiniteSets

CONSTANTS
  Root, Paths, \* the root of either tree, the paths below it
  Parent,      \* the directory of each path
  Excluded,    \* the paths the matcher skips, with all that is below them
  Size,        \* the size of each content of a file
  Time,        \* the modification time of each version, in fractions of a second
  Second,      \* how many of them a second has: to what SFTP sets and Diff compares times
  Workers,     \* uploadWorkers
  OnServer,    \* what may be at each path of the remote tree at first
  AtHome,      \* and at each path of the local one
  MaxChanges,  \* bound: changes of the local tree
  MaxSyncs     \* bound: calls of FullSync and PushChanges

ASSUME BackendAssumption ==
  /\ Root \notin Paths
  /\ Parent \in [Paths -> Paths \cup {Root}]
  /\ Excluded \subseteq Paths
  /\ \A p \in Paths : Parent[p] \in Excluded => p \in Excluded
  /\ IsFiniteSet(Paths) /\ IsFiniteSet(Workers) /\ Workers # {}
  /\ MaxChanges \in Nat \ {0} /\ MaxSyncs \in Nat
  /\ Size \in [0..MaxChanges + 1 -> Nat]
  /\ Time \in [1..MaxChanges -> Nat] /\ Second \in Nat \ {0}
  /\ \A types \in {OnServer, AtHome} : types \in [Paths -> SUBSET {"none", "dir", "file"}]

\* Every path is somewhere below the root: what holds of a path when it holds of its
\* directory holds of all.
ASSUME TreeAssumption ==
  \A S \in SUBSET Paths :
    (\A p \in Paths : Parent[p] \in S \cup {Root} => p \in S) => S = Paths

VARIABLES
  local,    \* the local tree
  changes,  \* changes of it so far
  held,     \* an earlier one, as a batch has it that waited since
  remote,   \* the remote tree
  pc,       \* where FullSync or PushChanges is
  kind,     \* which of them it is; "mirror" is FullSync with DeleteExtra
  canceled, \* workCtx is done: the call was cancelled, or an upload failed
  walk,     \* ScanLocal: directories still to be read
  found,    \* what ScanLocal found, or the batch pushed: a partial function
  deletes, mkdirs, \* changes still to be applied
  uploads,  \* uploads: the modification time of each
  todo,     \* those the feeder still offers
  feeding,  \* the feeder has not closed jobs
  at,       \* where each upload worker is
  job,      \* its change
  opened,   \* the content of the file it opened, 0: it opened a directory
  skipped,  \* history: files of this call that could not be opened and were passed over
  result,   \* what the call returned
  quiet,    \* history: the local tree did not change since the scan began or the batch
            \* was resolved
  syncs     \* calls so far

home == <<local, changes, held>>
plan == <<walk, found, deletes, mkdirs, uploads>>
pool == <<todo, feeding, at, job, opened, skipped>>
call == <<kind, canceled, result, quiet, syncs>>
vars == <<home, remote, pc, plan, pool, call>>

Versions   == 0..MaxChanges
Absent     == [type |-> "none", data |-> 0, time |-> 0]
Dir        == [type |-> "dir", data |-> 0, time |-> 0]
File(d, t) == [type |-> "file", data |-> d, time |-> t]
Part       == 0                \* an upload that was cut short, or someone else's
Mixed      == MaxChanges + 1   \* of what a file was while it changed
Contents   == 0..MaxChanges + 1
Nodes      == {Absent, Dir} \cup {File(d, t) : d \in Contents, t \in Versions}

IsTree(t) ==
  \A p \in {q \in Paths : t[q] # Absent /\ Parent[q] # Root} : t[Parent[p]] = Dir

\* A path and what is below it: what any set has that has the path, and with every
\* path those in it.
HasContents(S) == \A x \in Paths : Parent[x] \in S => x \in S
Below ==
  [p \in Paths |-> {q \in Paths : \A S \in SUBSET Paths : p \in S /\ HasContents(S) => q \in S}]
Above(p) == {q \in Paths : p \in Below[q]}
Depth(p) == Cardinality(Above(p))

TreesOK ==
  /\ local \in [Paths -> Nodes] /\ remote \in [Paths -> Nodes] /\ held \in [Paths -> Nodes]
  /\ changes \in Versions

PlanOK ==
  /\ walk \subseteq Paths \cup {Root}
  /\ DOMAIN found \subseteq Paths \ Excluded /\ \A p \in DOMAIN found : found[p] \in Nodes
  /\ deletes \subseteq Paths \ Excluded /\ mkdirs \subseteq Paths \ Excluded
  /\ DOMAIN uploads \subseteq Paths \ Excluded
  /\ \A p \in DOMAIN uploads : uploads[p] \in 1..MaxChanges

PoolOK ==
  /\ feeding \in BOOLEAN
  /\ todo \subseteq DOMAIN uploads
  /\ at \in [Workers -> {"off", "idle", "create", "copy", "times"}]
  /\ job \in [Workers -> Paths \cup {Root}]
  /\ opened \in [Workers -> Contents]
  /\ skipped \subseteq Paths

CallOK ==
  /\ pc \in {"idle", "scan", "list", "delete", "mkdir", "pool", "wait"}
  /\ kind \in {"full", "mirror", "push"}
  /\ canceled \in BOOLEAN /\ quiet \in BOOLEAN
  /\ result \in {"none", "ok", "failed"}
  /\ syncs \in 0..MaxSyncs

StateOK == TreesOK /\ PlanOK /\ PoolOK /\ CallOK
TypeOK  == StateOK /\ IsTree(local) /\ IsTree(remote)

Trees(types, file) ==
  {t \in [Paths -> {Absent, Dir, file}] : IsTree(t) /\ \A p \in Paths : t[p].type \in types[p]}

\* The remote tree is someone's, or what an earlier sync left.
Init ==
  /\ changes = 1
  /\ local \in Trees(AtHome, File(1, 1)) /\ held = local
  /\ remote \in Trees(OnServer, File(Part, 0))
  /\ pc = "idle" /\ kind = "full" /\ canceled = FALSE
  /\ walk = {} /\ found = <<>> /\ deletes = {} /\ mkdirs = {} /\ uploads = <<>>
  /\ todo = {} /\ feeding = FALSE
  /\ at = [w \in Workers |-> "off"]
  /\ job = [w \in Workers |-> Root]
  /\ opened = [w \in Workers |-> 0]
  /\ skipped = {}
  /\ result = "none" /\ quiet = TRUE /\ syncs = 0

-----------------------------------------------------------------------------
(***************************************************************************)
(* The local tree.                                                         *)
(***************************************************************************)
\* The watcher may have resolved a batch just before.
Edit(p, node) ==
  /\ changes < MaxChanges /\ changes' = changes + 1
  /\ local' = [local EXCEPT ![p] = node]
  /\ IsTree(local')
  /\ held' \in {held, local}
  /\ quiet' = FALSE
  /\ UNCHANGED <<remote, pc, plan, pool, kind, canceled, result, syncs>>

EditLocal ==
  \E p \in Paths :
    \/ local[p] # Dir /\ Edit(p, File(changes + 1, changes + 1))
    \/ local[p] = Absent /\ Edit(p, Dir)
    \/ local[p] # Absent /\ Edit(p, Absent)

-----------------------------------------------------------------------------
(***************************************************************************)
(* How a call begins and ends.                                             *)
(***************************************************************************)
Returns(r) == pc' = "idle" /\ result' = r
GoesOn(to) == pc' = to /\ UNCHANGED result

\* A feeder left by an earlier call shares nothing with this one: it is over by now.
Begin(k) ==
  /\ pc = "idle" /\ ~feeding /\ syncs < MaxSyncs
  /\ syncs' = syncs + 1
  /\ kind' = k
  /\ canceled' = FALSE
  /\ result' = "none"
  /\ skipped' = {}
  /\ UNCHANGED <<home, remote, todo, feeding, at, job, opened>>

FullSync ==
  /\ Begin("full") \/ Begin("mirror")
  /\ pc' = "scan" /\ quiet' = TRUE
  /\ walk' = {Root} /\ found' = <<>>
  /\ deletes' = {} /\ mkdirs' = {} /\ uploads' = <<>>

\* The files among the paths b of a tree.
Written(t, b) == {p \in b : t[p].type = "file"}

\* A batch the watcher resolved just now, or earlier: it may have waited for another call.
PushChanges ==
  /\ Begin("push")
  /\ \E t \in {local, held}, b \in SUBSET (Paths \ Excluded) \ {{}} :
       /\ found' = [p \in b |-> t[p]]
       /\ deletes' = {p \in b : t[p] = Absent}
       /\ mkdirs' = {p \in b : t[p] = Dir}
       /\ uploads' = [p \in Written(t, b) |-> t[p].time]
       /\ quiet' = (t = local)
  /\ pc' = "delete"
  /\ UNCHANGED walk

\* The context is cancelled, as by StopMapping.
Cancel ==
  /\ pc # "idle" /\ ~canceled
  /\ canceled' = TRUE
  /\ UNCHANGED <<home, remote, pc, plan, pool, kind, result, quiet, syncs>>

-----------------------------------------------------------------------------
(***************************************************************************)
(* FullSync: scan, list, compare.                                          *)
(***************************************************************************)
\* ScanLocal reads a directory.  The scan fails when it is there no more, or something
\* in it cannot be read.
ScanLocal ==
  /\ pc = "scan"
  /\ \/ Returns("failed") /\ UNCHANGED <<found, walk>>
     \/ \E d \in walk :
          LET listing == {p \in Paths \ Excluded : Parent[p] = d /\ local[p] # Absent}
          IN  /\ d # Root => local[d] = Dir
              /\ found' = [p \in DOMAIN found \cup listing |->
                             IF p \in listing THEN local[p] ELSE found[p]]
              /\ walk' = (walk \ {d}) \cup {p \in listing : local[p] = Dir}
              /\ GoesOn(IF walk' = {} THEN "list" ELSE "scan")
  /\ UNCHANGED <<home, remote, deletes, mkdirs, uploads, pool,
                 kind, canceled, quiet, syncs>>

\* A time that was set by SFTP has no fraction, and Diff takes times a second apart for
\* the same.
Stamped(t) == t - (t % Second)
Near(u, v) == /\ Time[u] <= Stamped(Time[v]) + Second
              /\ Stamped(Time[v]) <= Time[u] + Second

\* A local and a remote file that Diff may take for the same, by their size and time: what
\* the server's clock set may be near any time.  The compare mode "checksum", which nothing
\* in the program sets, is left out.
Same(l, r) ==
  /\ l.type = "file" /\ r.type = "file" /\ Size[l.data] = Size[r.data]
  /\ r.time = 0 \/ Near(l.time, r.time)

\* Diff, with l the entries found locally, r those found remotely, and off the remote files
\* with a time of the server's clock far from the local one.
DiffMkdir(l, r)  == {p \in DOMAIN l : l[p] = Dir /\ (p \in DOMAIN r => r[p] # Dir)}
DiffUpload(l, r, off) ==
  {p \in DOMAIN l : /\ l[p].type = "file"
                    /\ p \in DOMAIN r => ~Same(l[p], r[p]) \/ p \in off}
DiffDelete(l, r) ==
  {p \in DOMAIN r : p \in DOMAIN l => l[p].type # r[p].type}

\* Mutation of SelectedDeletes: the setting is not looked at.
SelectedDeletesAll(l, r, off) == DiffDelete(l, r)

\* Without DeleteExtra only what is in the way is deleted.
SelectedDeletes(l, r, off) ==
  IF kind = "mirror" THEN DiffDelete(l, r)
  ELSE DiffDelete(l, r) \cap (DiffMkdir(l, r) \cup DiffUpload(l, r, off))

ListRemote ==
  /\ pc = "list"
  /\ \/ Returns("failed") /\ UNCHANGED <<deletes, mkdirs, uploads>>
     \/ /\ \E off \in SUBSET {q \in Paths : remote[q].type = "file" /\ remote[q].time = 0} :
             LET r == [p \in {q \in Paths \ Excluded : remote[q] # Absent} |-> remote[p]]
             IN  /\ deletes' = SelectedDeletes(found, r, off)
                 /\ mkdirs' = DiffMkdir(found, r)
                 /\ uploads' = [p \in DiffUpload(found, r, off) |-> found[p].time]
        /\ GoesOn("delete")
  /\ UNCHANGED <<home, remote, walk, found, pool, kind, canceled, quiet, syncs>>

-----------------------------------------------------------------------------
(***************************************************************************)
(* PushChanges: deletes, the deepest first, then directories, the deepest  *)
(* last, then the uploads.                                                 *)
(***************************************************************************)
\* RemoveAll of p, all of it or what an error left.
RemoveAll(p, gone) ==
  /\ remote' = [q \in Paths |-> IF q \in gone THEN Absent ELSE remote[q]]
  /\ gone \subseteq Below[p] /\ IsTree(remote')

\* The first n directories of MkdirAll of d: a file in the way is an error.
MkdirAll(d, n) ==
  LET made == {q \in Above(d) : Depth(q) <= n}
  IN  /\ \A q \in made : remote[q].type # "file"
      /\ remote' = [q \in Paths |-> IF q \in made THEN Dir ELSE remote[q]]

\* Mutation of DeleteNext: the error is ignored, like that of a missing file.
DeleteNextLax ==
  /\ pc = "delete"
  /\ \/ deletes = {} /\ GoesOn("mkdir") /\ UNCHANGED <<remote, deletes>>
     \/ \E p \in deletes :
          /\ \A q \in deletes : Depth(q) <= Depth(p)
          /\ \E gone \in SUBSET Below[p] : RemoveAll(p, gone)
          /\ deletes' = deletes \ {p}
          /\ GoesOn("delete")
  /\ UNCHANGED <<home, walk, found, mkdirs, uploads, pool, kind, canceled, quiet, syncs>>

DeleteNext ==
  /\ pc = "delete"
  /\ \/ deletes = {} /\ GoesOn("mkdir") /\ UNCHANGED <<remote, deletes>>
     \/ canceled /\ deletes # {} /\ Returns("failed") /\ UNCHANGED <<remote, deletes>>
     \/ /\ ~canceled
        /\ \E p \in deletes :
             /\ \A q \in deletes : Depth(q) <= Depth(p)
             /\ deletes' = deletes \ {p}
             /\ \/ RemoveAll(p, Below[p]) /\ GoesOn("delete")
                \/ \E gone \in SUBSET Below[p] : RemoveAll(p, gone) /\ Returns("failed")
  /\ UNCHANGED <<home, walk, found, mkdirs, uploads, pool, kind, canceled, quiet, syncs>>

MkdirNext ==
  /\ pc = "mkdir"
  /\ \/ mkdirs = {} /\ GoesOn("pool") /\ UNCHANGED <<remote, mkdirs>>
     \/ canceled /\ mkdirs # {} /\ Returns("failed") /\ UNCHANGED <<remote, mkdirs>>
     \/ /\ ~canceled
        /\ \E p \in mkdirs :
             /\ \A q \in mkdirs : Depth(p) <= Depth(q)
             /\ mkdirs' = mkdirs \ {p}
             /\ \/ MkdirAll(p, Depth(p)) /\ GoesOn("mkdir")
                \/ \E n \in 0..Depth(p) : MkdirAll(p, n) /\ Returns("failed")
  /\ UNCHANGED <<home, walk, found, deletes, uploads, pool, kind, canceled, quiet, syncs>>

-----------------------------------------------------------------------------
(***************************************************************************)
(* uploadAll: a feeder offers the uploads over a channel without capacity, *)
(* and every worker takes them until the channel is closed or one fails.   *)
(***************************************************************************)
outOfPool == <<home, plan, kind, quiet, syncs>>

StartPool ==
  /\ pc = "pool"
  /\ IF DOMAIN uploads = {}
     THEN Returns("ok") /\ UNCHANGED <<todo, feeding, at>>
     ELSE /\ GoesOn("wait")
          /\ todo' = DOMAIN uploads /\ feeding' = TRUE
          /\ \E started \in SUBSET Workers :
               /\ Cardinality(started) = IF Cardinality(todo') < Cardinality(Workers)
                                         THEN Cardinality(todo') ELSE Cardinality(Workers)
               /\ at' = [w \in Workers |-> IF w \in started THEN "idle" ELSE "off"]
  /\ UNCHANGED <<remote, job, opened, canceled, skipped, outOfPool>>

\* Mutation of FeederEnds: the channel is only closed when all was offered.
FeederEndsOpen ==
  /\ feeding
  /\ IF canceled THEN UNCHANGED feeding ELSE todo = {} /\ feeding' = FALSE
  /\ todo' = {}
  /\ UNCHANGED <<remote, pc, at, job, opened, canceled, result, skipped, outOfPool>>

FeederEnds ==
  /\ feeding /\ (todo = {} \/ canceled)
  /\ feeding' = FALSE /\ todo' = {}
  /\ UNCHANGED <<remote, pc, at, job, opened, canceled, result, skipped, outOfPool>>

WorkerEnds(w) ==
  /\ at[w] = "idle" /\ ~feeding
  /\ at' = [at EXCEPT ![w] = "off"]
  /\ UNCHANGED <<remote, pc, todo, feeding, job, opened, canceled, result, skipped, outOfPool>>

Proceed(w, to) == at' = [at EXCEPT ![w] = to] /\ UNCHANGED <<job, canceled>>
Leave(w, to) ==
  /\ at' = [at EXCEPT ![w] = to]
  /\ job' = [job EXCEPT ![w] = Root] /\ opened' = [opened EXCEPT ![w] = 0]

\* Any error ends its worker and cancels workCtx; the first one is returned.
Fail(w) == Leave(w, "off") /\ canceled' = TRUE

\* A change goes from the feeder to a worker, also when workCtx is done by now; the
\* worker opens the local file, whatever it is by now.  A file that cannot be accessed, or
\* has become a link, is passed over with success.
Take(w) ==
  /\ at[w] = "idle" /\ feeding
  /\ \E p \in todo :
       /\ todo' = todo \ {p}
       /\ \/ Fail(w) /\ UNCHANGED skipped
          \/ skipped' = skipped \cup {p} /\ UNCHANGED <<at, job, opened, canceled>>
          \/ /\ local[p] # Absent /\ ~canceled
             /\ job' = [job EXCEPT ![w] = p]
             /\ opened' = [opened EXCEPT ![w] = local[p].data]
             /\ at' = [at EXCEPT ![w] = "create"] /\ UNCHANGED <<canceled, skipped>>
  /\ UNCHANGED <<remote, pc, feeding, result, outOfPool>>

\* Its parent and the remote file, which Create truncates.
UploadCreate(w) ==
  /\ at[w] = "create"
  /\ LET p == job[w]
         d == Parent[p]
     IN  \/ /\ \E n \in 0..Depth(d) : MkdirAll(d, n)
            /\ Fail(w)
         \/ /\ remote[p] # Dir
            /\ \A q \in Above(d) : remote[q].type # "file"
            /\ remote' = [q \in Paths |-> IF q = p THEN File(Part, 0)
                                           ELSE IF q \in Above(d) THEN Dir ELSE remote[q]]
            /\ Proceed(w, "copy") /\ UNCHANGED opened
  /\ UNCHANGED <<pc, todo, feeding, result, skipped, outOfPool>>

\* What can be read from the file: what it held when it was opened, what it holds now
\* when it was written in place, or when it changed some of both.
Readable(w) ==
  LET now == local[job[w]]
  IN  IF now.data = opened[w] THEN {opened[w]}
      ELSE {opened[w], Mixed} \cup (IF now.type = "file" THEN {now.data} ELSE {})

\* copyWithContext.  A directory cannot be read.
UploadCopy(w) ==
  /\ at[w] = "copy"
  /\ \/ Fail(w) /\ UNCHANGED remote
     \/ /\ opened[w] # 0 /\ ~canceled
        /\ \E d \in Readable(w) : remote' = [remote EXCEPT ![job[w]] = File(d, 0)]
        /\ Proceed(w, "times") /\ UNCHANGED opened
  /\ UNCHANGED <<pc, todo, feeding, result, skipped, outOfPool>>

\* Mutation of UploadTimes: the time is the one the file has by now.
UploadTimesNow(w) ==
  /\ at[w] = "times"
  /\ \/ Fail(w) /\ UNCHANGED remote
     \/ /\ remote' = [remote EXCEPT ![job[w]].time = local[job[w]].time]
        /\ Leave(w, "idle") /\ UNCHANGED canceled
  /\ UNCHANGED <<pc, todo, feeding, result, skipped, outOfPool>>

\* Chmod and Chtimes, with the time of the change.
UploadTimes(w) ==
  /\ at[w] = "times"
  /\ \/ Fail(w) /\ UNCHANGED remote
     \/ /\ remote' = [remote EXCEPT ![job[w]].time = uploads[job[w]]]
        /\ Leave(w, "idle") /\ UNCHANGED canceled
  /\ UNCHANGED <<pc, todo, feeding, result, skipped, outOfPool>>

\* wg.Wait, then the error if there is one.
PoolReturns ==
  /\ pc = "wait" /\ \A w \in Workers : at[w] = "off"
  /\ Returns(IF canceled THEN "failed" ELSE "ok")
  /\ canceled' = TRUE
  /\ UNCHANGED <<remote, todo, feeding, at, job, opened, skipped, outOfPool>>

-----------------------------------------------------------------------------
Upload(w) == \/ Take(w) \/ WorkerEnds(w) \/ UploadCreate(w)
             \/ UploadCopy(w) \/ UploadTimes(w)
Sync == \/ ScanLocal \/ ListRemote \/ DeleteNext \/ MkdirNext \/ StartPool
        \/ PoolReturns

Run == Sync \/ FeederEnds \/ \E w \in Workers : Upload(w)

Next == EditLocal \/ FullSync \/ PushChanges \/ Cancel \/ Run

Spec == Init /\ [][Next]_vars

\* Some goroutine of a call goes on as long as one can, remote operations returning.
FairSpec == Spec /\ WF_vars(Run)

-----------------------------------------------------------------------------
\* What a call is to bring about at a path: the remote tree has what the local one
\* has, but for what is only on the server unless DeleteExtra is set, and for the files
\* a full sync takes for the same.
InSync(p) ==
  IF local[p] = Absent THEN remote[p] = Absent \/ kind = "full"
  ELSE remote[p] = local[p] \/ (kind # "push" /\ Same(local[p], remote[p]))

\* The paths a call is about.
Targets == IF kind = "push" THEN DOMAIN found ELSE Paths \ Excluded

\* A call that returns no error has done all of it, but for the files it passed over, if the
\* local tree did not change meanwhile, whatever failed, or was interrupted, in the calls
\* before it.
SuccessIsComplete ==
  pc = "idle" /\ result = "ok" /\ quiet =>
    \A p \in Targets \ skipped : InSync(p)

\* Versions that the times do not tell apart: v from before u or from within a second after,
\* by a second more when the fraction of u was cut off.
Hasty(u, v) == u # v /\ Time[v] <= Time[u] + Second /\ Time[u] < Time[v] + 2 * Second

\* A remote file that Diff may take for the local one has its content, also when the file
\* changed while it was uploaded, with two exceptions: the local file and the version that was
\* to be uploaded last are of times too close together, or that upload was not finished (or
\* is not of this program), and has the server's time and yet the size of the local file.
SameIsEqual ==
  \A p \in Paths : Same(local[p], remote[p]) =>
    \/ remote[p].data = local[p].data
    \/ remote[p].time = 0 \/ Hasty(remote[p].time, local[p].time)

\* A full sync without DeleteExtra removes nothing but what is in the way of a local
\* file or directory, with what is below it.
ExtrasAreKept ==
  [][\A p \in Paths :
       remote[p] # Absent /\ remote'[p] = Absent /\ kind = "full"
         => \E q \in Above(p) : q \in DOMAIN found /\ found[q].type # remote[q].type]_vars

\* A call returns, and its feeder ends, whichever workers fail and whenever the
\* context is cancelled.
SyncEnds == pc # "idle" \/ feeding ~> pc = "idle" /\ ~feeding

-----------------------------------------------------------------------------
(***************************************************************************)
(* The inductive invariant behind the properties, in parts.                *)
(***************************************************************************)
Busy(w) == at[w] \in {"create", "copy", "times"}

\* A local file has the number of a change that happened, and a plan knows no other.
ClockInv ==
  /\ \A p \in Paths : local[p].type = "file" =>
       local[p].data = local[p].time /\ local[p].time \in 1..changes
  /\ \A p \in Paths : held[p].type = "file" => held[p].time \in 1..changes
  /\ \A p \in DOMAIN found : found[p].type = "file" => found[p].time \in 1..changes
  /\ \A p \in DOMAIN uploads : uploads[p] \in 1..changes

\* Workers work, and the feeder feeds, on the plan of the call that waits for them, and
\* no two on one path.
PoolInv ==
  /\ pc # "wait" => \A w \in Workers : at[w] = "off"
  /\ pc \notin {"idle", "wait"} => ~feeding
  /\ ~feeding => todo = {}
  /\ \A w \in Workers : Busy(w) => job[w] \in DOMAIN uploads \ todo
  /\ \A v, w \in Workers : Busy(v) /\ Busy(w) /\ v # w => job[v] # job[w]
  /\ \A w \in Workers : at[w] \in {"copy", "times"} =>
       remote[job[w]].type = "file" /\ remote[job[w]].time = 0

\* A worker whose file is still the one the plan saw has that one's content in hand.
UploadInv ==
  \A w \in Workers :
    Busy(w) /\ local[job[w]].type = "file" /\ local[job[w]].time = uploads[job[w]] =>
      /\ opened[w] = local[job[w]].data
      /\ at[w] = "times" => remote[job[w]].data = local[job[w]].data

\* A time on the server, other than its own clock's, is that of a change that happened,
\* and as long as the local file has it the contents agree.
StampInv ==
  \A p \in Paths : remote[p].type = "file" /\ remote[p].time # 0 =>
    /\ remote[p].time <= changes
    /\ local[p].type = "file" /\ local[p].time = remote[p].time => remote[p].data = local[p].data

\* What a full sync without DeleteExtra deletes is in the way of what it found.
InTheWay ==
  pc = "delete" /\ kind = "full" =>
    \A q \in deletes : q \in DOMAIN found /\ found[q].type \notin {"none", remote[q].type}

\* A call that still goes on found what is there, and plans accordingly.
FoundInv ==
  quiet =>
    /\ \A p \in DOMAIN found : found[p] = local[p]
    /\ \A p \in mkdirs : local[p] = Dir
    /\ \A p \in DOMAIN uploads : local[p].type = "file" /\ local[p].time = uploads[p]

\* The scan finds what is in a directory when it reads it, and so finds everything.
ScanInv ==
  quiet /\ kind # "push" =>
    \A p \in Paths \ Excluded : local[p] # Absent =>
      /\ pc = "scan" => \/ p \in DOMAIN found \/ Parent[p] \in walk
                        \/ Parent[p] # Root /\ Parent[p] \notin DOMAIN found
      /\ pc \notin {"idle", "scan"} => p \in DOMAIN found

\* Each part of the plan is applied before the next, and the workers do not leave the
\* feeder alone unless one failed.
PhaseInv ==
  /\ pc \in {"scan", "list"} => kind # "push"
  /\ pc \in {"mkdir", "pool", "wait"} => deletes = {}
  /\ pc \in {"pool", "wait"} => mkdirs = {}
  /\ pc = "wait" /\ feeding /\ ~canceled => \E w \in Workers : at[w] # "off"

\* What the plan is to bring about at a path it has brought about and will not undo, or
\* it is still to do.
Done(p) == InSync(p) /\ (local[p] # Absent => \A q \in deletes : p \notin Below[q])
Due(p) ==
  \/ local[p] = Absent /\ p \in deletes
  \/ local[p] = Dir /\ p \in mkdirs
  \/ /\ p \in DOMAIN uploads
     /\ pc = "wait" => canceled \/ p \in todo \/ \E w \in Workers : Busy(w) /\ job[w] = p

TargetInv ==
  quiet /\ pc \in {"delete", "mkdir", "pool", "wait"} =>
    \A p \in Targets \ skipped : Done(p) \/ Due(p)

Inv == /\ StateOK /\ IsTree(local) /\ IsTree(remote)
       /\ ClockInv /\ PoolInv /\ UploadInv /\ StampInv /\ InTheWay
       /\ FoundInv /\ ScanInv /\ PhaseInv /\ TargetInv /\ SuccessIsComplete
=============================================================================
