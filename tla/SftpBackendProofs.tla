-------------------------- MODULE SftpBackendProofs --------------------------
(***************************************************************************)
(* What a call that succeeds has done, what Diff takes for the same, and   *)
(* what a full sync keeps, for any tree and number of workers.             *)
(***************************************************************************)
EXTENDS SftpBackend, FiniteSetTheorems, TLAPS

USE DEF home

\* A node is absent, a directory or a file with its content and its time.
LEMMA NodeCases ==
  ASSUME BackendAssumption, NEW n \in Nodes
  PROVE  /\ n.type \in {"none", "dir", "file"}
         /\ n.data \in Contents /\ n.time \in Versions
         /\ n.type = "none" <=> n = Absent
         /\ n.type = "dir" <=> n = Dir
         /\ n.type = "file" <=> n = File(n.data, n.time)
<1>1. CASE n = Absent BY <1>1 DEF BackendAssumption, Absent, Dir, File, Versions, Contents
<1>2. CASE n = Dir BY <1>2 DEF BackendAssumption, Absent, Dir, File, Versions, Contents
<1>3. CASE \E d \in Contents, t \in Versions : n = File(d, t)
  BY <1>3 DEF BackendAssumption, Absent, Dir, File, Versions
<1>4. QED BY <1>1, <1>2, <1>3 DEF Nodes

\* Versions are contents, and so are a part of a file and a mix of versions.
LEMMA ContentCases ==
  ASSUME BackendAssumption
  PROVE  Versions \subseteq Contents /\ Part \in Contents /\ Mixed \in Contents
BY DEF BackendAssumption, Versions, Contents, Part, Mixed

\* A file with a content and the time of a version is a node.
LEMMA FileNode ==
  ASSUME NEW d \in Contents, NEW t \in Versions
  PROVE  /\ File(d, t) \in Nodes
         /\ File(d, t).type = "file" /\ File(d, t).data = d /\ File(d, t).time = t
BY DEF Nodes, File

\* The parts of a file.
LEMMA FileParts ==
  \A d, t : File(d, t).type = "file" /\ File(d, t).data = d /\ File(d, t).time = t
BY DEF File

\* So are no node and a directory.
LEMMA OtherNodes ==
  /\ Absent \in Nodes /\ Absent.type = "none"
  /\ Dir \in Nodes /\ Dir.type = "dir"
BY DEF Nodes, Absent, Dir

-----------------------------------------------------------------------------
\* What Below is: reflexive, closed under contents, the least such set.
LEMMA BelowLeast ==
  ASSUME NEW p \in Paths
  PROVE  /\ Below[p] \subseteq Paths /\ p \in Below[p]
         /\ HasContents(Below[p])
         /\ \A S \in SUBSET Paths : p \in S /\ HasContents(S) => Below[p] \subseteq S
<1>1. Below[p] = {q \in Paths : \A S \in SUBSET Paths : p \in S /\ HasContents(S) => q \in S}
  BY DEF Below
<1>2. ASSUME NEW x \in Paths, Parent[x] \in Below[p]
      PROVE  x \in Below[p]
  BY <1>1, <1>2 DEF HasContents
<1>3. HasContents(Below[p])
  BY <1>2 DEF HasContents
<1>4. QED BY <1>1, <1>3

\* What is below a path below p is below p.
LEMMA BelowTransitive ==
  ASSUME NEW p \in Paths, NEW q \in Below[p]
  PROVE  q \in Paths /\ Below[q] \subseteq Below[p]
BY BelowLeast

\* What is below p is p or in a directory below p.
LEMMA BelowParent ==
  ASSUME NEW p \in Paths, NEW q \in Below[p], q # p
  PROVE  Parent[q] \in Below[p]
<1> DEFINE S == {x \in Paths : x = p \/ Parent[x] \in Below[p]}
<1>1. HasContents(S)
  <2>1. ASSUME NEW x \in S PROVE x \in Below[p]
    BY <2>1, BelowLeast DEF HasContents
  <2>2. QED BY <2>1 DEF HasContents
<1>2. q \in S
  BY <1>1, BelowLeast
<1>3. QED BY <1>2

\* No path is below itself.
LEMMA NoCycle ==
  ASSUME BackendAssumption, TreeAssumption, NEW p \in Paths
  PROVE  Parent[p] \notin Below[p]
<1> DEFINE S == {x \in Paths : Parent[x] \notin Below[x]}
<1>1. ASSUME NEW x \in Paths, Parent[x] \in S \cup {Root}
      PROVE  x \in S
  <2>1. CASE Parent[x] = Root
    BY <2>1, BelowLeast DEF BackendAssumption
  <2>2. CASE Parent[x] \in S
    <3> DEFINE y == Parent[x]
    <3>1. y \in Paths /\ Parent[y] \notin Below[y]
      BY <2>2
    <3>2. x \in Below[y]
      BY <3>1, BelowLeast DEF HasContents
    <3>3. ASSUME y \in Below[x] PROVE FALSE
      <4>1. Below[x] \subseteq Below[y]
        BY <3>1, <3>2, BelowTransitive
      <4>2. y # x
        BY <3>1, <3>2
      <4>3. Parent[y] \in Below[x]
        BY <3>3, <4>2, BelowParent
      <4>4. QED BY <3>1, <4>1, <4>3
    <3>4. QED BY <3>3
  <2>3. QED BY <1>1, <2>1, <2>2
<1>2. S \subseteq Paths
  OBVIOUS
<1> HIDE DEF S
<1>3. S = Paths
  BY <1>1, <1>2 DEF TreeAssumption
<1>4. QED BY <1>3 DEF S

\* In a tree what is above something is a directory.
LEMMA AboveIsDir ==
  ASSUME BackendAssumption, NEW t, IsTree(t), NEW p \in Paths, NEW q \in Below[p], q # p, t[q] # Absent
  PROVE  t[p] = Dir
<1> DEFINE S == {x \in Paths : x = p \/ t[x] = Absent \/ t[p] = Dir}
<1>1. Dir # Absent
  BY DEF Dir, Absent
<1>2. ASSUME NEW x \in Paths, Parent[x] \in S PROVE x \in S
  <2>1. Parent[x] # Root
    BY <1>2 DEF BackendAssumption
  <2>2. CASE t[x] = Absent
    BY <2>2
  <2>3. CASE t[x] # Absent
    <3>1. t[Parent[x]] = Dir
      BY <2>1, <2>3 DEF IsTree
    <3>2. QED BY <1>1, <1>2, <3>1
  <2>4. QED BY <2>2, <2>3
<1>3. HasContents(S)
  BY <1>2 DEF HasContents
<1>4. q \in S
  BY <1>3, BelowLeast
<1>5. QED BY <1>4

\* Below an excluded path all is excluded.
LEMMA BelowExcluded ==
  ASSUME BackendAssumption, NEW p \in Excluded, NEW q \in Below[p]
  PROVE  q \in Excluded
BY BelowLeast DEF HasContents, BackendAssumption

\* The directories above a path, with it, and how deep they are.
LEMMA AboveDepth ==
  ASSUME BackendAssumption, NEW d, NEW q \in Above(d)
  PROVE  /\ Depth(q) <= Depth(d)
         /\ Parent[q] # Root => Parent[q] \in Above(d) /\ Depth(Parent[q]) <= Depth(q)
<1>1. q \in Paths /\ d \in Below[q] /\ Parent[q] \in Paths \cup {Root}
  BY DEF Above, BackendAssumption
<1>2. Parent[q] # Root => q \in Below[Parent[q]]
  BY <1>1, BelowLeast DEF HasContents
<1>3. ASSUME NEW x, NEW y \in Paths, x \in Below[y]
      PROVE  Depth(y) <= Depth(x)
  <2>1. Above(y) \subseteq Above(x)
    BY <1>3, BelowTransitive DEF Above
  <2>2. IsFiniteSet(Above(x))
    BY FS_Subset DEF Above, BackendAssumption
  <2>3. QED BY <2>1, <2>2, FS_Subset, FS_CardinalityType DEF Depth
<1>4. Parent[q] # Root => Parent[q] \in Above(d)
  BY <1>1, <1>2, BelowTransitive DEF Above
<1>5. QED BY <1>1, <1>2, <1>3, <1>4

\* A depth is a number, for what is above a path is finite.
LEMMA DepthType ==
  ASSUME BackendAssumption, NEW p
  PROVE  Depth(p) \in Nat
<1>1. IsFiniteSet(Above(p))
  BY FS_Subset DEF Above, BackendAssumption
<1>2. QED BY <1>1, FS_CardinalityType DEF Depth

\* MkdirAll makes no directory without the one it is in.
LEMMA MkdirAllTree ==
  ASSUME BackendAssumption, StateOK, IsTree(remote), NEW d, NEW n \in Int, MkdirAll(d, n)
  PROVE  IsTree(remote')
<1> DEFINE made == {q \in Above(d) : Depth(q) <= n}
<1>1. remote' = [q \in Paths |-> IF q \in made THEN Dir ELSE remote[q]]
  BY DEF MkdirAll
<1>2. ASSUME NEW q \in Paths, remote'[q] # Absent, Parent[q] # Root
      PROVE  remote'[Parent[q]] = Dir
  <2>1. Parent[q] \in Paths
    BY <1>2 DEF BackendAssumption
  <2>2. CASE q \in made
    <3>1. \A x \in Above(d) : Depth(x) \in Nat
      BY DepthType
    <3>2. q \in Above(d) /\ Depth(q) <= n
      BY <2>2
    <3>3. Parent[q] \in Above(d) /\ Depth(Parent[q]) <= Depth(q)
      BY <1>2, <3>2, AboveDepth
    <3>4. Parent[q] \in made
      BY <3>1, <3>2, <3>3
    <3>5. QED BY <1>1, <2>1, <3>4
  <2>3. CASE q \notin made
    <3>1. remote[Parent[q]] = Dir
      BY <1>1, <1>2, <2>3 DEF IsTree
    <3>2. QED BY <1>1, <2>1, <3>1
  <2>4. QED BY <2>2, <2>3
<1>3. QED BY <1>2 DEF IsTree

\* Neither does Create, and it truncates no directory.
LEMMA CreateTree ==
  ASSUME BackendAssumption, TreeAssumption, StateOK, IsTree(remote),
         NEW w \in Workers, UploadCreate(w), job[w] \in Paths
  PROVE  IsTree(remote')
<1> DEFINE p == job[w]
           d == Parent[p]
<1>1. CASE \E n \in 0..Depth(d) : MkdirAll(d, n)
  BY <1>1, MkdirAllTree, SMTT(30)
<1>2. CASE /\ remote[p] # Dir
           /\ remote' = [q \in Paths |-> IF q = p THEN File(Part, 0)
                                          ELSE IF q \in Above(d) THEN Dir ELSE remote[q]]
  <2>1. p \notin Above(d)
    BY NoCycle DEF Above
  <2>2. d # Root => d \in Above(d)
    BY BelowLeast DEF Above, BackendAssumption
  <2>3. \A q \in Paths : (q = p \/ q \in Above(d)) /\ Parent[q] # Root => Parent[q] \in Above(d)
    BY <2>2, AboveDepth
  <2>4. ASSUME NEW q \in Paths, remote'[q] # Absent, Parent[q] # Root
        PROVE  remote'[Parent[q]] = Dir
    <3>1. Parent[q] \in Paths
      BY <2>4 DEF BackendAssumption
    <3>2. CASE Parent[q] \in Above(d)
      BY <1>2, <2>1, <3>1, <3>2
    <3>3. CASE Parent[q] \notin Above(d)
      <4>1. remote[q] # Absent
        BY <1>2, <2>3, <2>4, <3>3
      <4>2. remote[Parent[q]] = Dir
        BY <2>4, <4>1 DEF IsTree
      <4>3. QED BY <1>2, <3>1, <3>3, <4>2
    <3>4. QED BY <3>2, <3>3
  <2>5. QED BY <2>4 DEF IsTree
<1>3. QED BY <1>1, <1>2 DEF UploadCreate

\* Nothing is in a file, so what it turns into does not matter.
LEMMA FileTree ==
  ASSUME BackendAssumption, IsTree(remote), NEW p \in Paths, remote[p].type = "file",
         \A q \in Paths : q # p => remote'[q] = remote[q]
  PROVE  IsTree(remote')
<1>1. remote[p] # Absent /\ remote[p] # Dir
  BY OtherNodes
<1>2. QED BY <1>1 DEF IsTree, BackendAssumption

-----------------------------------------------------------------------------
\* What an action does to a tree, path by path.

\* A change makes one file with the number of the change, or none.
LEMMA EditEffect ==
  ASSUME BackendAssumption, StateOK, EditLocal
  PROVE  /\ local' \in [Paths -> Nodes]
         /\ changes' = changes + 1 /\ changes' \in Versions
         /\ \A q \in Paths : \/ local'[q] = local[q]
                             \/ local'[q].type # "file"
                             \/ local'[q] = File(changes + 1, changes + 1)
         /\ held' \in {held, local} /\ quiet' = FALSE
         /\ UNCHANGED <<remote, pc, plan, pool, kind, canceled, result, syncs>>
<1>1. PICK p \in Paths, n \in {Absent, Dir, File(changes + 1, changes + 1)} : Edit(p, n)
  BY DEF EditLocal
<1>2. changes' = changes + 1 /\ changes' \in Versions
  BY <1>1 DEF Edit, StateOK, TreesOK, Versions, BackendAssumption
<1>3. n \in Nodes
  BY <1>2, FileNode, OtherNodes, ContentCases, SMTT(30)
<1>4. local' = [local EXCEPT ![p] = n]
  BY <1>1 DEF Edit
<1>5. local' \in [Paths -> Nodes]
  BY <1>3, <1>4 DEF StateOK, TreesOK
<1>6. Absent.type # "file" /\ Dir.type # "file"
  BY OtherNodes
<1>7. \A q \in Paths : local'[q] = IF q = p THEN n ELSE local[q]
  BY <1>4 DEF StateOK, TreesOK
<1>8. held' \in {held, local} /\ quiet' = FALSE /\ UNCHANGED <<remote, pc, plan, pool, kind, canceled, result, syncs>>
  BY <1>1 DEF Edit
<1>9. QED BY <1>2, <1>5, <1>6, <1>7, <1>8

\* RemoveAll takes away, and makes nothing.
LEMMA DeleteEffect ==
  ASSUME BackendAssumption, StateOK, DeleteNext
  PROVE  /\ remote' \in [Paths -> Nodes]
         /\ \A q \in Paths : remote'[q] \in {remote[q], Absent}
<1>1. CASE UNCHANGED remote
  BY <1>1 DEF StateOK, TreesOK
<1>2. CASE \E p \in deletes : \E gone : RemoveAll(p, gone)
  BY <1>2, OtherNodes DEF StateOK, TreesOK, RemoveAll
<1>3. QED BY <1>1, <1>2 DEF DeleteNext

\* MkdirAll makes directories where there is no file.
LEMMA MkdirAllEffect ==
  ASSUME StateOK, NEW d, NEW n, MkdirAll(d, n)
  PROVE  /\ remote' \in [Paths -> Nodes]
         /\ \A q \in Paths : \/ remote'[q] = remote[q]
                             \/ q \in Above(d) /\ remote[q].type # "file" /\ remote'[q] = Dir
BY OtherNodes DEF StateOK, TreesOK, MkdirAll

\* So does the step of FullSync that makes one of them.
LEMMA MkdirEffect ==
  ASSUME StateOK, MkdirNext
  PROVE  /\ remote' \in [Paths -> Nodes]
         /\ \A q \in Paths : remote'[q] = remote[q] \/ (remote[q].type # "file" /\ remote'[q] = Dir)
<1>1. CASE UNCHANGED remote
  BY <1>1 DEF StateOK, TreesOK
<1>2. CASE \E d, n : MkdirAll(d, n)
  BY <1>2, MkdirAllEffect
<1>3. QED BY <1>1, <1>2 DEF MkdirNext

\* Create truncates the worker's file, or fails after some directories.
LEMMA CreateEffect ==
  ASSUME BackendAssumption, StateOK, NEW w \in Workers, UploadCreate(w)
  PROVE  /\ remote' \in [Paths -> Nodes]
         /\ \A q \in Paths :
              \/ remote'[q] = remote[q]
              \/ q \in Above(Parent[job[w]]) /\ remote[q].type # "file" /\ remote'[q] = Dir
              \/ q = job[w] /\ at'[w] = "copy" /\ remote'[q] = File(Part, 0)
         /\ at'[w] = "copy" /\ job[w] \in Paths => remote'[job[w]] = File(Part, 0)
<1>1. File(Part, 0) \in Nodes
  BY FileNode, ContentCases, SMTT(30) DEF Versions, BackendAssumption
<1>2. CASE Fail(w) /\ \E n : MkdirAll(Parent[job[w]], n)
  <2>1. at'[w] = "off"
    BY <1>2 DEF Fail, Leave, StateOK, PoolOK
  <2>2. QED BY <1>2, <2>1, MkdirAllEffect
<1>3. CASE /\ Proceed(w, "copy")
           /\ \A q \in Above(Parent[job[w]]) : remote[q].type # "file"
           /\ remote' = [q \in Paths |-> IF q = job[w] THEN File(Part, 0)
                                          ELSE IF q \in Above(Parent[job[w]]) THEN Dir ELSE remote[q]]
  <2>1. at'[w] = "copy"
    BY <1>3 DEF Proceed, StateOK, PoolOK
  <2>2. QED BY <1>1, <1>3, <2>1, OtherNodes DEF StateOK, TreesOK
<1>4. QED BY <1>2, <1>3 DEF UploadCreate

\* The copy leaves what the worker read, with the server's time.
LEMMA CopyEffect ==
  ASSUME BackendAssumption, StateOK, NEW w \in Workers, UploadCopy(w), job[w] \in Paths
  PROVE  /\ remote' \in [Paths -> Nodes]
         /\ \A q \in Paths : q # job[w] => remote'[q] = remote[q]
         /\ \/ at'[w] = "off" /\ remote' = remote
            \/ at'[w] = "times" /\ \E d \in Readable(w) : d \in Contents /\ remote'[job[w]] = File(d, 0)
<1>1. 0 \in Versions
  BY DEF Versions, BackendAssumption
<1>2. CASE Fail(w) /\ UNCHANGED remote
  BY <1>2 DEF Fail, Leave, StateOK, TreesOK, PoolOK
<1>3. CASE Proceed(w, "times") /\ \E d \in Readable(w) : remote' = [remote EXCEPT ![job[w]] = File(d, 0)]
  <2>1. Readable(w) \subseteq Contents
    <3>1. local[job[w]] \in Nodes /\ opened[w] \in Contents
      BY DEF StateOK, TreesOK, PoolOK
    <3>2. local[job[w]].data \in Contents
      BY <3>1, NodeCases
    <3>3. QED BY <3>1, <3>2, ContentCases DEF Readable
  <2>2. PICK d \in Readable(w) : remote' = [remote EXCEPT ![job[w]] = File(d, 0)]
    BY <1>3
  <2>3. d \in Contents /\ File(d, 0) \in Nodes
    BY <1>1, <2>1, FileNode
  <2>4. at'[w] = "times"
    BY <1>3 DEF Proceed, StateOK, PoolOK
  <2>5. QED BY <2>2, <2>3, <2>4 DEF StateOK, TreesOK
<1>4. QED BY <1>2, <1>3 DEF UploadCopy

\* Chtimes gives it the time of the plan.
LEMMA TimesEffect ==
  ASSUME BackendAssumption, StateOK, NEW w \in Workers, UploadTimes(w), job[w] \in DOMAIN uploads,
         remote[job[w]].type = "file"
  PROVE  /\ remote' \in [Paths -> Nodes]
         /\ \A q \in Paths : q # job[w] => remote'[q] = remote[q]
         /\ \/ at'[w] = "off" /\ remote' = remote
            \/ at'[w] = "idle" /\ remote'[job[w]] = File(remote[job[w]].data, uploads[job[w]])
<1> DEFINE p == job[w]
<1>1. CASE Fail(w) /\ UNCHANGED remote
  BY <1>1 DEF Fail, Leave, StateOK, TreesOK, PoolOK
<1>2. CASE Leave(w, "idle") /\ remote' = [remote EXCEPT ![p].time = uploads[p]]
  <2>1. p \in Paths /\ uploads[p] \in Versions
    BY DEF StateOK, PlanOK, Versions, BackendAssumption
  <2>2. remote[p] \in Nodes
    BY <2>1 DEF StateOK, TreesOK
  <2>3. remote[p].data \in Contents /\ remote[p] = File(remote[p].data, remote[p].time)
    BY <2>2, NodeCases
  <2>4. [remote[p] EXCEPT !.time = uploads[p]] = File(remote[p].data, uploads[p])
    BY <2>3, SMTT(30) DEF File
  <2>5. remote' = [remote EXCEPT ![p] = File(remote[p].data, uploads[p])]
    BY <1>2, <2>4
  <2>6. at'[w] = "idle"
    BY <1>2 DEF Leave, StateOK, PoolOK
  <2>7. QED BY <2>1, <2>3, <2>5, <2>6, FileNode DEF StateOK, TreesOK
<1>3. QED BY <1>1, <1>2 DEF UploadTimes

\* How the three steps of an upload move its worker.
LEMMA MoveEffect ==
  ASSUME NEW w \in Workers, UploadCreate(w) \/ UploadCopy(w) \/ UploadTimes(w)
  PROVE  /\ Busy(w)
         /\ \E l \in {"off", "idle", "copy", "times"} :
              /\ at' = [at EXCEPT ![w] = l]
              /\ l \in {"off", "idle"} => /\ job' = [job EXCEPT ![w] = Root]
                                          /\ opened' = [opened EXCEPT ![w] = 0]
              /\ l = "off" => canceled'
              /\ l = "idle" => at[w] = "times"
              /\ l = "copy" => at[w] = "create" /\ UNCHANGED <<job, opened>>
              /\ l = "times" => at[w] = "copy" /\ UNCHANGED <<job, opened>>
         /\ canceled' \in {canceled, TRUE}
         /\ UNCHANGED <<home, pc, plan, todo, feeding, skipped, kind, result, quiet, syncs>>
<1> USE DEF Busy, Fail, Leave, Proceed, outOfPool
<1>1. CASE UploadCreate(w)
  <2>1. CASE Fail(w) BY <1>1, <2>1 DEF UploadCreate
  <2>2. CASE Proceed(w, "copy") /\ UNCHANGED opened BY <1>1, <2>2 DEF UploadCreate
  <2>3. QED BY <1>1, <2>1, <2>2 DEF UploadCreate
<1>2. CASE UploadCopy(w)
  <2>1. CASE Fail(w) BY <1>2, <2>1 DEF UploadCopy
  <2>2. CASE Proceed(w, "times") /\ UNCHANGED opened BY <1>2, <2>2 DEF UploadCopy
  <2>3. QED BY <1>2, <2>1, <2>2 DEF UploadCopy
<1>3. CASE UploadTimes(w)
  <2>1. CASE Fail(w) BY <1>3, <2>1 DEF UploadTimes
  <2>2. CASE Leave(w, "idle") /\ UNCHANGED canceled BY <1>3, <2>2 DEF UploadTimes
  <2>3. QED BY <1>3, <2>1, <2>2 DEF UploadTimes
<1>4. QED BY <1>1, <1>2, <1>3

\* A busy worker has one of the uploads of the plan.
LEMMA JobInPlan ==
  ASSUME Inv, NEW w \in Workers, Busy(w)
  PROVE  job[w] \in DOMAIN uploads /\ job[w] \in Paths /\ job[w] \notin todo
BY DEF Inv, StateOK, PlanOK, PoolInv

-----------------------------------------------------------------------------
\* The types, part by part.
LEMMA TreesType ==
  ASSUME BackendAssumption, Inv, [Next]_vars
  PROVE  TreesOK'
<1> USE BackendAssumption DEF BackendAssumption, Inv, Versions, GoesOn, Returns, Begin,
   Proceed, Leave, Fail, plan, pool, call, outOfPool
<1>1. CASE EditLocal
  BY <1>1, EditEffect DEF TreesOK, StateOK
<1>2. CASE \/ FullSync \/ PushChanges \/ Cancel \/ ScanLocal \/ ListRemote \/ StartPool
           \/ PoolReturns \/ FeederEnds \/ UNCHANGED vars
           \/ \E w \in Workers : Take(w) \/ WorkerEnds(w)
  <2>1. UNCHANGED <<home, remote>>
    BY <1>2 DEF FullSync, PushChanges, Cancel, ScanLocal, ListRemote, StartPool,
       PoolReturns, FeederEnds, Take, WorkerEnds, vars
  <2>2. QED BY <2>1 DEF TreesOK, StateOK
<1>3. CASE DeleteNext
  BY <1>3, DeleteEffect DEF DeleteNext, TreesOK, StateOK
<1>4. CASE MkdirNext
  BY <1>4, MkdirEffect DEF MkdirNext, TreesOK, StateOK
<1>5. ASSUME NEW w \in Workers, UploadCreate(w)
      PROVE  TreesOK'
  BY <1>5, CreateEffect DEF UploadCreate, TreesOK, StateOK
<1>6. ASSUME NEW w \in Workers, UploadCopy(w)
      PROVE  TreesOK'
  <2>1. job[w] \in Paths
    BY <1>6, JobInPlan DEF UploadCopy, Busy
  <2>2. QED BY <1>6, <2>1, CopyEffect DEF UploadCopy, TreesOK, StateOK
<1>7. ASSUME NEW w \in Workers, UploadTimes(w)
      PROVE  TreesOK'
  <2>1. job[w] \in DOMAIN uploads /\ remote[job[w]].type = "file"
    BY <1>7, JobInPlan DEF UploadTimes, Busy, PoolInv
  <2>2. QED BY <1>7, <2>1, TimesEffect DEF UploadTimes, TreesOK, StateOK
<1>8. QED
  BY <1>1, <1>2, <1>3, <1>4, <1>5, <1>6, <1>7 DEF Next, Run, Sync, Upload

\* The plan: deletes, directories and uploads.
LEMMA PlanType ==
  ASSUME BackendAssumption, Inv, [Next]_vars
  PROVE  PlanOK'
<1> USE BackendAssumption DEF BackendAssumption, Inv, Versions, GoesOn, Returns, Begin,
   Proceed, Leave, Fail, plan, pool, call, outOfPool
<1>1. CASE EditLocal
  BY <1>1, EditEffect DEF PlanOK, StateOK
<1>2. CASE FullSync
  BY <1>2 DEF FullSync, PlanOK, StateOK
<1>3. CASE PushChanges
  <2>1. PICK t \in {local, held}, b \in SUBSET (Paths \ Excluded) \ {{}} :
           /\ found' = [p \in b |-> t[p]]
           /\ deletes' = {p \in b : t[p] = Absent}
           /\ mkdirs' = {p \in b : t[p] = Dir}
           /\ uploads' = [p \in Written(t, b) |-> t[p].time]
    BY <1>3 DEF PushChanges
  <2>2. \A p \in Written(t, b) : t[p].time \in 1..MaxChanges
    BY DEF Written, ClockInv, StateOK, TreesOK
  <2>3. walk' \subseteq Paths \cup {Root}
    BY <1>3 DEF PushChanges, StateOK, PlanOK
  <2>4. QED BY <2>1, <2>2, <2>3 DEF Written, StateOK, TreesOK, PlanOK
<1>4. CASE \/ Cancel \/ StartPool \/ PoolReturns \/ FeederEnds \/ UNCHANGED vars
           \/ \E w \in Workers : Take(w) \/ WorkerEnds(w)
  <2>1. UNCHANGED <<plan>>
    BY <1>4 DEF Cancel, StartPool, PoolReturns, FeederEnds, Take, WorkerEnds, vars
  <2>2. QED BY <2>1 DEF PlanOK, StateOK
<1>5. CASE ScanLocal
  <2>1. deletes' = deletes /\ mkdirs' = mkdirs /\ uploads' = uploads
    BY <1>5 DEF ScanLocal
  <2>2. CASE UNCHANGED <<found, walk>>
    BY <2>1, <2>2 DEF StateOK, PlanOK
  <2>3. CASE \E d \in walk, listing \in SUBSET (Paths \ Excluded) :
                /\ found' = [p \in DOMAIN found \cup listing |->
                               IF p \in listing THEN local[p] ELSE found[p]]
                /\ walk' = (walk \ {d}) \cup {p \in listing : local[p] = Dir}
    BY <2>1, <2>3 DEF StateOK, TreesOK, PlanOK
  <2>4. QED BY <1>5, <2>2, <2>3 DEF ScanLocal
<1>6. CASE ListRemote
  <2> DEFINE r == [p \in {q \in Paths \ Excluded : remote[q] # Absent} |-> remote[p]]
  <2>1. walk' = walk /\ found' = found
    BY <1>6 DEF ListRemote
  <2>2. CASE UNCHANGED <<deletes, mkdirs, uploads>>
    BY <2>1, <2>2 DEF StateOK, PlanOK
  <2>3. ASSUME NEW off, deletes' = SelectedDeletes(found, r, off), mkdirs' = DiffMkdir(found, r),
               uploads' = [p \in DiffUpload(found, r, off) |-> found[p].time]
        PROVE  PlanOK'
    <3>1. SelectedDeletes(found, r, off) \subseteq DOMAIN r
      BY DEF SelectedDeletes, DiffDelete
    <3>2. DiffMkdir(found, r) \subseteq DOMAIN found
      BY DEF DiffMkdir
    <3>3. DiffUpload(found, r, off) \subseteq DOMAIN found
      BY DEF DiffUpload
    <3>4. \A p \in DiffUpload(found, r, off) : found[p].time \in 1..MaxChanges
      BY DEF DiffUpload, ClockInv, StateOK, TreesOK
    <3> HIDE DEF r
    <3>5. DOMAIN r \subseteq Paths \ Excluded
      BY DEF r
    <3>6. QED BY <2>1, <2>3, <3>1, <3>2, <3>3, <3>4, <3>5 DEF StateOK, PlanOK
  <2>4. QED BY <1>6, <2>2, <2>3 DEF ListRemote
<1>7. CASE DeleteNext
  BY <1>7 DEF DeleteNext, PlanOK, StateOK
<1>8. CASE MkdirNext
  BY <1>8 DEF MkdirNext, PlanOK, StateOK
<1>9. ASSUME NEW w \in Workers, UploadCreate(w) \/ UploadCopy(w) \/ UploadTimes(w)
      PROVE  PlanOK'
  BY <1>9, MoveEffect DEF PlanOK, StateOK
<1>10. QED
  BY <1>1, <1>2, <1>3, <1>4, <1>5, <1>6, <1>7, <1>8, <1>9 DEF Next, Run, Sync, Upload

\* The pool of workers.
LEMMA PoolType ==
  ASSUME BackendAssumption, Inv, [Next]_vars
  PROVE  PoolOK'
<1> USE BackendAssumption DEF BackendAssumption, Inv, Versions, GoesOn, Returns, Begin,
   Proceed, Leave, Fail, plan, pool, call, outOfPool
<1>1. CASE EditLocal
  BY <1>1, EditEffect DEF PoolOK, StateOK
<1>2. CASE FullSync
  <2>1. PICK k \in {"full", "mirror"} : Begin(k)
    BY <1>2 DEF FullSync
  <2>2. todo' = {}
    BY <2>1 DEF PoolInv
  <2>3. QED BY <1>2, <2>1, <2>2 DEF FullSync, PoolOK, StateOK
<1>3. CASE PushChanges
  <2>1. todo' = {} /\ Begin("push")
    BY <1>3 DEF PushChanges, PoolInv
  <2>2. QED BY <2>1 DEF PoolOK, StateOK
<1>4. CASE Cancel \/ ScanLocal \/ DeleteNext \/ MkdirNext \/ PoolReturns \/ UNCHANGED vars
  <2>1. UNCHANGED <<uploads, pool>>
    BY <1>4 DEF Cancel, ScanLocal, DeleteNext, MkdirNext, PoolReturns, vars
  <2>2. QED BY <2>1 DEF PoolOK, StateOK
<1>5. CASE ListRemote
  <2>1. todo' = {}
    BY <1>5 DEF ListRemote, PoolInv
  <2>2. QED BY <1>5, <2>1 DEF ListRemote, PoolOK, StateOK
<1>6. CASE StartPool
  BY <1>6 DEF StartPool, PoolOK, StateOK
<1>7. CASE FeederEnds
  BY <1>7 DEF FeederEnds, PoolOK, StateOK
<1>8. ASSUME NEW w \in Workers, Take(w)
      PROVE  PoolOK'
  <2>1. PICK p \in todo :
           /\ skipped' \in {skipped, skipped \cup {p}}
           /\ \/ Fail(w)
              \/ UNCHANGED <<at, job, opened>>
              \/ /\ job' = [job EXCEPT ![w] = p]
                 /\ opened' = [opened EXCEPT ![w] = local[p].data]
                 /\ at' = [at EXCEPT ![w] = "create"]
    BY <1>8 DEF Take
  <2>2. p \in Paths /\ local[p] \in Nodes /\ 0 \in Contents
    BY ContentCases DEF StateOK, TreesOK, PlanOK, PoolOK, Part
  <2>3. local[p].data \in Contents
    BY <2>2, NodeCases
  <2>4. todo' \subseteq DOMAIN uploads' /\ feeding' \in BOOLEAN
    BY <1>8 DEF Take, StateOK, PoolOK
  <2>5. skipped' \subseteq Paths
    BY <2>1, <2>2 DEF StateOK, PoolOK
  <2>6. CASE Fail(w)
    BY <2>2, <2>4, <2>5, <2>6 DEF StateOK, PoolOK
  <2>7. CASE UNCHANGED <<at, job, opened>>
    BY <2>4, <2>5, <2>7 DEF StateOK, PoolOK
  <2>8. CASE /\ job' = [job EXCEPT ![w] = p]
             /\ opened' = [opened EXCEPT ![w] = local[p].data]
             /\ at' = [at EXCEPT ![w] = "create"]
    BY <2>2, <2>3, <2>4, <2>5, <2>8 DEF StateOK, PoolOK
  <2>9. QED BY <2>1, <2>6, <2>7, <2>8
<1>9. ASSUME NEW w \in Workers, WorkerEnds(w)
      PROVE  PoolOK'
  BY <1>9 DEF WorkerEnds, PoolOK, StateOK
<1>10. ASSUME NEW w \in Workers, UploadCreate(w) \/ UploadCopy(w) \/ UploadTimes(w)
      PROVE  PoolOK'
  <2>1. 0 \in Contents
    BY ContentCases DEF Part
  <2>2. PICK l \in {"off", "idle", "copy", "times"} :
           /\ at' = [at EXCEPT ![w] = l]
           /\ job' = job \/ job' = [job EXCEPT ![w] = Root]
           /\ opened' = opened \/ opened' = [opened EXCEPT ![w] = 0]
    BY <1>10, MoveEffect
  <2>3. feeding' = feeding /\ todo' = todo /\ uploads' = uploads /\ skipped' = skipped
    BY <1>10, MoveEffect
  <2>4. at' \in [Workers -> {"off", "idle", "create", "copy", "times"}]
    BY <2>2 DEF PoolOK, StateOK
  <2>5. job' \in [Workers -> Paths \cup {Root}]
    BY <2>2 DEF PoolOK, StateOK
  <2>6. opened' \in [Workers -> Contents]
    BY <2>1, <2>2, SMTT(40) DEF PoolOK, StateOK
  <2>7. QED BY <2>3, <2>4, <2>5, <2>6 DEF PoolOK, StateOK
<1>11. QED
  BY <1>1, <1>2, <1>3, <1>4, <1>5, <1>6, <1>7, <1>8, <1>9, <1>10 DEF Next, Run, Sync, Upload

\* The call under way.
LEMMA CallType ==
  ASSUME BackendAssumption, Inv, [Next]_vars
  PROVE  CallOK'
<1> USE BackendAssumption DEF BackendAssumption, Inv, Versions, GoesOn, Returns, Begin,
   Proceed, Leave, Fail, plan, pool, call, outOfPool
<1>1. CASE EditLocal
  BY <1>1, EditEffect DEF CallOK, StateOK
<1>2. CASE FullSync
  <2>1. PICK k \in {"full", "mirror"} : Begin(k)
    BY <1>2 DEF FullSync
  <2>2. pc' = "scan"
    BY <1>2 DEF FullSync
  <2>3. canceled' \in BOOLEAN /\ quiet' \in BOOLEAN
    BY <1>2, <2>1 DEF FullSync
  <2>4. syncs' \in 0..MaxSyncs
    BY <2>1 DEF CallOK, StateOK
  <2>5. QED BY <2>1, <2>2, <2>3, <2>4 DEF CallOK, StateOK
<1>3. CASE PushChanges
  <2>1. Begin("push") /\ pc' = "delete"
    BY <1>3 DEF PushChanges
  <2>2. canceled' \in BOOLEAN /\ quiet' \in BOOLEAN
    BY <1>3, <2>1 DEF PushChanges
  <2>3. syncs' \in 0..MaxSyncs
    BY <2>1 DEF CallOK, StateOK
  <2>4. QED BY <2>1, <2>2, <2>3 DEF CallOK, StateOK
<1>4. CASE Cancel
  BY <1>4 DEF Cancel, CallOK, StateOK
<1>5. CASE ScanLocal
  BY <1>5 DEF ScanLocal, CallOK, StateOK
<1>6. CASE ListRemote
  BY <1>6 DEF ListRemote, CallOK, StateOK
<1>7. CASE DeleteNext
  BY <1>7 DEF DeleteNext, CallOK, StateOK
<1>8. CASE MkdirNext
  BY <1>8 DEF MkdirNext, CallOK, StateOK
<1>9. CASE StartPool
  BY <1>9 DEF StartPool, CallOK, StateOK
<1>10. CASE PoolReturns
  BY <1>10 DEF PoolReturns, CallOK, StateOK
<1>11. CASE \/ FeederEnds \/ UNCHANGED vars
            \/ \E w \in Workers : WorkerEnds(w)
  <2>1. UNCHANGED <<pc, call>>
    BY <1>11 DEF FeederEnds, WorkerEnds, vars
  <2>2. QED BY <2>1 DEF CallOK, StateOK
<1>12. ASSUME NEW w \in Workers, Take(w)
      PROVE  CallOK'
  BY <1>12 DEF Take, CallOK, StateOK
<1>13. ASSUME NEW w \in Workers, UploadCreate(w) \/ UploadCopy(w) \/ UploadTimes(w)
      PROVE  CallOK'
  BY <1>13, MoveEffect DEF CallOK, StateOK
<1>14. QED
  BY <1>1, <1>2, <1>3, <1>4, <1>5, <1>6, <1>7, <1>8, <1>9, <1>10, <1>11, <1>12,
     <1>13 DEF Next, Run, Sync, Upload

\* Workers, the feeder and their plan.
LEMMA PoolStep ==
  ASSUME BackendAssumption, Inv, [Next]_vars
  PROVE  PoolInv'
<1> USE BackendAssumption DEF BackendAssumption, Inv, Versions, GoesOn, Returns, Begin,
   Proceed, Leave, Fail, plan, pool, call, outOfPool
<1>1. CASE EditLocal
  <2>1. UNCHANGED <<remote, pc, todo, feeding, at, job, uploads>>
    BY <1>1, EditEffect
  <2>2. QED BY <2>1 DEF PoolInv, Busy
<1>2. CASE FullSync
  BY <1>2 DEF FullSync, StateOK, PoolOK, PlanOK, PoolInv, Busy
<1>3. CASE PushChanges
  BY <1>3 DEF PushChanges, StateOK, PoolOK, PlanOK, PoolInv, Busy
<1>4. CASE Cancel
  BY <1>4 DEF Cancel, StateOK, PoolOK, PlanOK, PoolInv, Busy
<1>5. CASE ScanLocal
  BY <1>5 DEF ScanLocal, StateOK, PoolOK, PlanOK, PoolInv, Busy
<1>6. CASE ListRemote
  BY <1>6 DEF ListRemote, StateOK, PoolOK, PlanOK, PoolInv, Busy
<1>7. CASE DeleteNext
  BY <1>7 DEF DeleteNext, StateOK, PoolOK, PlanOK, PoolInv, Busy
<1>8. CASE MkdirNext
  BY <1>8 DEF MkdirNext, StateOK, PoolOK, PlanOK, PoolInv, Busy
<1>9. CASE StartPool
  <2>1. \A v \in Workers : at[v] = "off"
    BY <1>9 DEF StartPool, PoolInv
  <2>2. CASE uploads = <<>>
    BY <1>9, <2>1, <2>2 DEF StartPool, PoolInv, Busy, StateOK, PoolOK
  <2>3. CASE uploads # <<>>
    <3>1. \A v \in Workers : at'[v] \in {"idle", "off"}
      BY <1>9, <2>3 DEF StartPool
    <3>2. pc' = "wait" /\ feeding' = TRUE
      BY <1>9, <2>3 DEF StartPool
    <3>3. QED BY <3>1, <3>2 DEF PoolInv, Busy
  <2>4. QED BY <2>2, <2>3
<1>10. CASE PoolReturns
  BY <1>10 DEF PoolReturns, StateOK, PoolOK, PlanOK, PoolInv, Busy
<1>11. CASE FeederEnds
  BY <1>11 DEF FeederEnds, StateOK, PoolOK, PlanOK, PoolInv, Busy
<1>12. ASSUME NEW w \in Workers, Take(w)
      PROVE  PoolInv'
  <2>1. PICK p \in todo : /\ todo' = todo \ {p}
                          /\ \/ Fail(w)
                             \/ UNCHANGED <<at, job>>
                             \/ /\ job' = [job EXCEPT ![w] = p]
                                /\ at' = [at EXCEPT ![w] = "create"]
    BY <1>12 DEF Take
  <2>2. p \in DOMAIN uploads
    BY <2>1 DEF StateOK, PoolOK
  <2>3. at[w] = "idle" /\ UNCHANGED <<remote, pc, feeding, uploads>>
    BY <1>12 DEF Take
  <2>4. CASE Fail(w)
    BY <2>1, <2>3, <2>4 DEF PoolInv, Busy, StateOK, PoolOK
  <2>5. CASE job' = [job EXCEPT ![w] = p] /\ at' = [at EXCEPT ![w] = "create"]
    <3>1. job'[w] = p /\ at'[w] = "create"
      BY <2>5 DEF StateOK, PoolOK
    <3>2. \A v \in Workers \ {w} : job'[v] = job[v] /\ at'[v] = at[v]
      BY <2>5 DEF StateOK, PoolOK
    <3>3. \A v \in Workers : Busy(v)' => job'[v] \in DOMAIN uploads' \ todo'
      BY <2>1, <2>2, <2>3, <3>1, <3>2 DEF PoolInv, Busy
    <3>4. \A u, v \in Workers : Busy(u)' /\ Busy(v)' /\ u # v => job'[u] # job'[v]
      BY <2>1, <2>3, <3>1, <3>2, SMTT(30) DEF PoolInv, Busy
    <3>5. \A v \in Workers : at'[v] \in {"copy", "times"} =>
             remote'[job'[v]].type = "file" /\ remote'[job'[v]].time = 0
      BY <2>3, <3>1, <3>2 DEF PoolInv
    <3>6. QED BY <1>12, <2>1, <2>3, <3>1, <3>2, <3>3, <3>4, <3>5 DEF Take, PoolInv
  <2>6. CASE UNCHANGED <<at, job>>
    BY <1>12, <2>1, <2>3, <2>6 DEF Take, PoolInv, Busy
  <2>7. QED BY <2>1, <2>4, <2>5, <2>6
<1>13. ASSUME NEW w \in Workers, WorkerEnds(w)
      PROVE  PoolInv'
  BY <1>13 DEF WorkerEnds, StateOK, PoolOK, PlanOK, PoolInv, Busy
<1>14. ASSUME NEW w \in Workers, UploadCreate(w) \/ UploadCopy(w) \/ UploadTimes(w)
      PROVE  PoolInv'
  <2>1. PICK l \in {"off", "idle", "copy", "times"} :
           /\ at' = [at EXCEPT ![w] = l]
           /\ l \in {"off", "idle"} => job' = [job EXCEPT ![w] = Root]
           /\ l \in {"copy", "times"} => UNCHANGED job
    BY <1>14, MoveEffect
  <2>2. Busy(w) /\ UNCHANGED <<pc, todo, feeding, uploads>>
    BY <1>14, MoveEffect
  <2>3. \A v \in Workers \ {w} : at'[v] = at[v] /\ job'[v] = job[v]
    BY <2>1 DEF StateOK, PoolOK
  <2>4. /\ at'[w] = l
        /\ Busy(w)' => job'[w] = job[w]
    BY <2>1 DEF Busy, StateOK, PoolOK
  <2>5. pc = "wait"
    BY <2>2 DEF Busy, PoolInv
  <2>6. \A v \in Workers : Busy(v)' => Busy(v) /\ job'[v] = job[v]
    BY <2>2, <2>3, <2>4 DEF Busy
  <2>7. \A v \in Workers : at'[v] \in {"copy", "times"} =>
           remote'[job'[v]].type = "file" /\ remote'[job'[v]].time = 0
    <3>1. CASE UploadCreate(w)
      <4> SUFFICES ASSUME NEW v \in Workers, at'[v] \in {"copy", "times"}
                   PROVE  remote'[job'[v]].type = "file" /\ remote'[job'[v]].time = 0
        OBVIOUS
      <4>1. job'[v] = job[v] /\ job[v] \in Paths /\ job[w] \in Paths
        BY <2>2, <2>6, JobInPlan DEF Busy
      <4>2. File(Part, 0).type = "file" /\ File(Part, 0).time = 0
        BY ONLY FileParts
      <4>3. CASE v = w
        <5>1. at[w] = "create"
          BY <3>1 DEF UploadCreate
        <5>2. at'[w] = "copy"
          BY <3>1, <4>3, <5>1, MoveEffect DEF StateOK, PoolOK
        <5>3. QED BY <3>1, <4>1, <4>2, <4>3, <5>2, CreateEffect
      <4>4. CASE v # w
        <5>1. remote[job[v]].type = "file" /\ remote[job[v]].time = 0 /\ job[v] # job[w]
          BY <2>2, <2>3, <4>4 DEF PoolInv, Busy
        <5>2. remote'[job[v]] = remote[job[v]]
          BY <3>1, <4>1, <5>1, CreateEffect, SMTT(30)
        <5>3. QED BY <4>1, <5>1, <5>2
      <4>5. QED BY <4>3, <4>4
    <3>2. CASE UploadCopy(w)
      <4> SUFFICES ASSUME NEW v \in Workers, at'[v] \in {"copy", "times"}
                   PROVE  remote'[job'[v]].type = "file" /\ remote'[job'[v]].time = 0
        OBVIOUS
      <4>1. job'[v] = job[v] /\ job[v] \in Paths /\ job[w] \in Paths
        BY <2>2, <2>6, JobInPlan DEF Busy
      <4>2. \A d \in Contents : File(d, 0).type = "file" /\ File(d, 0).time = 0
        BY ONLY FileParts
      <4>3. CASE v = w
        <5>1. \E d \in Contents : remote'[job[w]] = File(d, 0)
          BY <3>2, <4>1, <4>3, CopyEffect
        <5>2. QED BY <4>1, <4>2, <4>3, <5>1
      <4>4. CASE v # w
        <5>1. remote[job[v]].type = "file" /\ remote[job[v]].time = 0 /\ job[v] # job[w]
          BY <2>2, <2>3, <4>4 DEF PoolInv, Busy
        <5>2. remote'[job[v]] = remote[job[v]]
          BY <3>2, <4>1, <5>1, CopyEffect, SMTT(30)
        <5>3. QED BY <4>1, <5>1, <5>2
      <4>5. QED BY <4>3, <4>4
    <3>3. CASE UploadTimes(w)
      <4>1. remote[job[w]].type = "file" /\ job[w] \in DOMAIN uploads
        BY <3>3, <2>2, JobInPlan DEF UploadTimes, PoolInv
      <4>2. at'[w] \in {"off", "idle"} /\ \A q \in Paths : q # job[w] => remote'[q] = remote[q]
        BY <3>3, <4>1, TimesEffect
      <4> SUFFICES ASSUME NEW v \in Workers \ {w}, at'[v] \in {"copy", "times"}
                     PROVE  remote'[job'[v]].type = "file" /\ remote'[job'[v]].time = 0
        BY <4>2
      <4>4. job'[v] = job[v] /\ job[v] \in Paths
        BY <2>6, JobInPlan DEF Busy
      <4>5. remote[job[v]].type = "file" /\ remote[job[v]].time = 0 /\ job[v] # job[w]
        BY <2>2, <2>3 DEF PoolInv, Busy
      <4>6. QED BY <4>2, <4>4, <4>5
    <3>4. QED BY <1>14, <3>1, <3>2, <3>3
  <2>8. QED BY <2>2, <2>5, <2>6, <2>7, SMTT(30) DEF PoolInv
<1>15. CASE UNCHANGED vars
  BY <1>15 DEF vars, StateOK, PoolOK, PlanOK, PoolInv, Busy
<1>16. QED
  BY <1>1, <1>2, <1>3, <1>4, <1>5, <1>6, <1>7, <1>8, <1>9, <1>10, <1>11, <1>12, <1>13,
     <1>14, <1>15 DEF Next, Run, Sync, Upload

\* What is deleted.
LEMMA InTheWayStep ==
  ASSUME BackendAssumption, Inv, [Next]_vars
  PROVE  InTheWay'
<1> USE BackendAssumption DEF BackendAssumption, Inv, Versions, GoesOn, Returns, Begin,
   Proceed, Leave, Fail, plan, pool, call, outOfPool
<1>1. CASE EditLocal
  BY <1>1, EditEffect DEF InTheWay
<1>2. CASE FullSync
  BY <1>2 DEF FullSync, InTheWay
<1>3. CASE PushChanges
  BY <1>3 DEF PushChanges, InTheWay
<1>4. CASE Cancel
  BY <1>4 DEF Cancel, InTheWay
<1>5. CASE ScanLocal
  BY <1>5 DEF ScanLocal, InTheWay
<1>6. CASE ListRemote
  <2> DEFINE r == [p \in {q \in Paths \ Excluded : remote[q] # Absent} |-> remote[p]]
  <2>1. UNCHANGED <<found, remote, kind>>
    BY <1>6 DEF ListRemote
  <2>2. CASE pc' = "idle"
    BY <2>2 DEF InTheWay
  <2>3. ASSUME NEW off, deletes' = SelectedDeletes(found, r, off) PROVE InTheWay'
    <3> SUFFICES ASSUME kind = "full", NEW q \in SelectedDeletes(found, r, off)
                 PROVE  q \in DOMAIN found /\ found[q].type \notin {"none", remote[q].type}
      BY <2>1, <2>3 DEF InTheWay
    <3>1. q \in DiffDelete(found, r) /\ q \in DiffMkdir(found, r) \cup DiffUpload(found, r, off)
      BY DEF SelectedDeletes
    <3>2. q \in DOMAIN found /\ (found[q] = Dir \/ found[q].type = "file")
      BY <3>1 DEF DiffMkdir, DiffUpload
    <3>3. found[q].type # remote[q].type
      BY <3>1, <3>2 DEF DiffDelete
    <3>4. QED BY <3>2, <3>3, OtherNodes
  <2>4. QED BY <1>6, <2>2, <2>3 DEF ListRemote
<1>7. CASE DeleteNext
  <2> SUFFICES ASSUME pc' = "delete", kind' = "full", NEW q \in deletes'
               PROVE  q \in DOMAIN found' /\ found'[q].type \notin {"none", remote'[q].type}
    BY DEF InTheWay
  <2>1. q \in deletes /\ UNCHANGED <<found, kind>> /\ pc = "delete"
    BY <1>7 DEF DeleteNext
  <2>2. q \in DOMAIN found /\ found[q].type \notin {"none", remote[q].type}
    BY <2>1 DEF InTheWay
  <2>3. q \in Paths
    BY <2>1 DEF StateOK, PlanOK
  <2>4. remote'[q] = remote[q] \/ remote'[q].type = "none"
    BY <1>7, <2>3, DeleteEffect, OtherNodes
  <2>5. QED BY <2>1, <2>2, <2>4
<1>8. CASE MkdirNext
  BY <1>8 DEF MkdirNext, InTheWay
<1>9. CASE StartPool
  BY <1>9 DEF StartPool, InTheWay
<1>10. CASE PoolReturns
  BY <1>10 DEF PoolReturns, InTheWay
<1>11. CASE FeederEnds
  BY <1>11 DEF FeederEnds, InTheWay
<1>12. ASSUME NEW w \in Workers, Take(w)
      PROVE  InTheWay'
  BY <1>12 DEF Take, InTheWay
<1>13. ASSUME NEW w \in Workers, WorkerEnds(w)
      PROVE  InTheWay'
  BY <1>13 DEF WorkerEnds, InTheWay
<1>14. ASSUME NEW w \in Workers, UploadCreate(w) \/ UploadCopy(w) \/ UploadTimes(w)
      PROVE  InTheWay'
  <2>1. pc = "wait" /\ UNCHANGED pc
    BY <1>14, MoveEffect DEF Busy, PoolInv
  <2>2. QED BY <2>1 DEF InTheWay
<1>15. CASE UNCHANGED vars
  BY <1>15 DEF vars, InTheWay
<1>16. QED
  BY <1>1, <1>2, <1>3, <1>4, <1>5, <1>6, <1>7, <1>8, <1>9, <1>10, <1>11, <1>12, <1>13,
     <1>14, <1>15 DEF Next, Run, Sync, Upload

\* Local files and plans.
LEMMA ClockStep ==
  ASSUME BackendAssumption, Inv, [Next]_vars
  PROVE  ClockInv'
<1> USE BackendAssumption DEF BackendAssumption, Inv, Versions, GoesOn, Returns, Begin,
   Proceed, Leave, Fail, plan, pool, call, outOfPool
<1>1. CASE EditLocal
  <2>1. File(changes + 1, changes + 1).data = changes + 1 /\ File(changes + 1, changes + 1).time = changes + 1
    BY DEF File
  <2>2. changes' = changes + 1 /\ UNCHANGED <<found, uploads>>
    BY <1>1, EditEffect
  <2>3. \A q \in Paths : \/ local'[q] = local[q]
                         \/ local'[q].type # "file"
                         \/ local'[q] = File(changes + 1, changes + 1)
    BY <1>1, EditEffect
  <2>4. changes \in Nat
    BY DEF StateOK, TreesOK
  <2>5. \A n \in 1..changes : n \in 1..changes'
    BY <2>2, <2>4
  <2>6. changes + 1 \in 1..changes'
    BY <2>2, <2>4
  <2>7. \A q \in Paths : local'[q].type = "file" =>
           local'[q].data = local'[q].time /\ local'[q].time \in 1..changes'
    BY <2>1, <2>3, <2>5, <2>6 DEF ClockInv
  <2>8. held' \in {held, local}
    BY <1>1, EditEffect
  <2>9. \A q \in Paths : held'[q].type = "file" => held'[q].time \in 1..changes'
    BY <2>5, <2>8 DEF ClockInv
  <2>10. QED BY <2>2, <2>5, <2>7, <2>9 DEF ClockInv
<1>2. CASE FullSync
  BY <1>2 DEF FullSync, StateOK, TreesOK, PlanOK, ClockInv, Written
<1>3. CASE PushChanges
  BY <1>3 DEF PushChanges, StateOK, TreesOK, PlanOK, ClockInv, Written
<1>4. CASE Cancel
  BY <1>4 DEF Cancel, StateOK, TreesOK, PlanOK, ClockInv, Written
<1>5. CASE ScanLocal
  <2>1. UNCHANGED <<home, uploads>>
    BY <1>5 DEF ScanLocal
  <2>2. \A p \in DOMAIN found' : \/ p \in DOMAIN found /\ found'[p] = found[p]
                                 \/ p \in Paths /\ found'[p] = local[p]
    <3>1. CASE UNCHANGED found
      BY <3>1
    <3>2. CASE \E listing \in SUBSET Paths :
                  found' = [p \in DOMAIN found \cup listing |->
                              IF p \in listing THEN local[p] ELSE found[p]]
      BY <3>2
    <3>3. QED BY <1>5, <3>1, <3>2 DEF ScanLocal
  <2>3. QED BY <2>1, <2>2 DEF ClockInv
<1>6. CASE ListRemote
  <2>1. UNCHANGED <<home, found>>
    BY <1>6 DEF ListRemote
  <2>2. CASE UNCHANGED uploads
    BY <2>1, <2>2 DEF ClockInv
  <2>3. CASE \E r, off : uploads' = [p \in DiffUpload(found, r, off) |-> found[p].time]
    <3>1. PICK r, off : uploads' = [p \in DiffUpload(found, r, off) |-> found[p].time]
      BY <2>3
    <3>2. \A p \in DiffUpload(found, r, off) : p \in DOMAIN found /\ found[p].type = "file"
      BY DEF DiffUpload
    <3>3. QED BY <2>1, <3>1, <3>2 DEF ClockInv
  <2>4. QED BY <1>6, <2>2, <2>3 DEF ListRemote
<1>7. CASE DeleteNext
  BY <1>7 DEF DeleteNext, StateOK, TreesOK, PlanOK, ClockInv, Written
<1>8. CASE MkdirNext
  BY <1>8 DEF MkdirNext, StateOK, TreesOK, PlanOK, ClockInv, Written
<1>9. CASE StartPool
  BY <1>9 DEF StartPool, StateOK, TreesOK, PlanOK, ClockInv, Written
<1>10. CASE PoolReturns
  BY <1>10 DEF PoolReturns, StateOK, TreesOK, PlanOK, ClockInv, Written
<1>11. CASE FeederEnds
  BY <1>11 DEF FeederEnds, StateOK, TreesOK, PlanOK, ClockInv, Written
<1>12. ASSUME NEW w \in Workers, Take(w)
      PROVE  ClockInv'
  BY <1>12 DEF Take, StateOK, TreesOK, PlanOK, ClockInv, Written
<1>13. ASSUME NEW w \in Workers, WorkerEnds(w)
      PROVE  ClockInv'
  BY <1>13 DEF WorkerEnds, StateOK, TreesOK, PlanOK, ClockInv, Written
<1>14. ASSUME NEW w \in Workers, UploadCreate(w) \/ UploadCopy(w) \/ UploadTimes(w)
      PROVE  ClockInv'
  BY <1>14, MoveEffect DEF ClockInv
<1>15. CASE UNCHANGED vars
  BY <1>15 DEF vars, StateOK, TreesOK, PlanOK, ClockInv, Written
<1>16. QED
  BY <1>1, <1>2, <1>3, <1>4, <1>5, <1>6, <1>7, <1>8, <1>9, <1>10, <1>11, <1>12, <1>13,
     <1>14, <1>15 DEF Next, Run, Sync, Upload

\* Times on the server.
LEMMA StampStep ==
  ASSUME BackendAssumption, Inv, [Next]_vars
  PROVE  StampInv'
<1> USE BackendAssumption DEF BackendAssumption, Inv, Versions, GoesOn, Returns, Begin,
   Proceed, Leave, Fail, plan, pool, call, outOfPool
<1>1. CASE EditLocal
  <2> SUFFICES ASSUME NEW p \in Paths, remote[p].type = "file", remote[p].time # 0
               PROVE  /\ remote[p].time <= changes'
                      /\ local'[p].type = "file" /\ local'[p].time = remote[p].time
                           => remote[p].data = local'[p].data
    <3>1. remote' = remote
      BY <1>1, EditEffect
    <3>2. QED BY <3>1 DEF StampInv
  <2>1. changes' = changes + 1 /\ changes \in Nat /\ remote[p].time <= changes /\ remote[p].time \in Nat
    <3>1. changes' = changes + 1
      BY <1>1, EditEffect
    <3>2. changes \in Nat
      BY DEF StateOK, TreesOK
    <3>3. remote[p].time <= changes
      BY DEF StampInv
    <3>4. remote[p] \in Nodes
      BY DEF StateOK, TreesOK
    <3>5. remote[p].time \in Nat
      BY <3>4, NodeCases, SMTT(30)
    <3>6. QED BY <3>1, <3>2, <3>3, <3>5
  <2>2. CASE local'[p] = local[p]
    BY <2>1, <2>2 DEF StampInv
  <2>3. CASE local'[p].type # "file"
    BY <2>1, <2>3
  <2>4. CASE local'[p] = File(changes + 1, changes + 1)
    <3>1. local'[p].time = changes + 1
      BY <2>4 DEF File
    <3>2. QED BY <2>1, <3>1
  <2>5. QED BY <1>1, <2>2, <2>3, <2>4, EditEffect
<1>2. CASE \/ FullSync \/ PushChanges \/ Cancel \/ ScanLocal \/ ListRemote \/ StartPool
           \/ PoolReturns \/ FeederEnds \/ UNCHANGED vars
           \/ \E w \in Workers : Take(w) \/ WorkerEnds(w)
  <2>1. UNCHANGED <<home, remote>>
    BY <1>2 DEF FullSync, PushChanges, Cancel, ScanLocal, ListRemote, StartPool,
       PoolReturns, FeederEnds, Take, WorkerEnds, vars
  <2>2. QED BY <2>1 DEF StampInv
<1>3. CASE DeleteNext
  <2>1. UNCHANGED <<local, changes>>
    BY <1>3 DEF DeleteNext
  <2>2. \A p \in Paths : remote'[p] = remote[p] \/ remote'[p].type # "file"
    BY <1>3, DeleteEffect, OtherNodes
  <2>3. QED BY <2>1, <2>2 DEF StampInv
<1>4. CASE MkdirNext
  <2>1. UNCHANGED <<local, changes>>
    BY <1>4 DEF MkdirNext
  <2>2. \A p \in Paths : remote'[p] = remote[p] \/ remote'[p].type # "file"
    BY <1>4, MkdirEffect, OtherNodes
  <2>3. QED BY <2>1, <2>2 DEF StampInv
<1>5. ASSUME NEW w \in Workers, UploadCreate(w)
      PROVE  StampInv'
  <2>1. UNCHANGED <<local, changes>>
    BY <1>5, MoveEffect
  <2>2. File(Part, 0).time = 0
    BY DEF File
  <2>3. \A p \in Paths : remote'[p] = remote[p] \/ remote'[p].type # "file" \/ remote'[p].time = 0
    BY <1>5, <2>2, CreateEffect, OtherNodes
  <2>4. QED BY <2>1, <2>3 DEF StampInv
<1>6. ASSUME NEW w \in Workers, UploadCopy(w)
      PROVE  StampInv'
  <2>1. UNCHANGED <<local, changes>> /\ job[w] \in Paths
    BY <1>6, MoveEffect, JobInPlan
  <2>2. \A d : File(d, 0).time = 0
    BY DEF File
  <2>3. \A p \in Paths : p # job[w] => remote'[p] = remote[p]
    BY <1>6, <2>1, CopyEffect
  <2>4. CASE remote' = remote
    BY <2>1, <2>4 DEF StampInv
  <2>5. CASE \E d \in Contents : remote'[job[w]] = File(d, 0)
    <3>1. remote'[job[w]].time = 0
      BY <2>2, <2>5
    <3>2. QED BY <2>1, <2>3, <3>1 DEF StampInv
  <2>6. QED BY <1>6, <2>1, <2>4, <2>5, CopyEffect
<1>7. ASSUME NEW w \in Workers, UploadTimes(w)
      PROVE  StampInv'
  <2> DEFINE p == job[w]
  <2>1. UNCHANGED <<local, changes>> /\ p \in Paths /\ p \in DOMAIN uploads /\ Busy(w)
    BY <1>7, MoveEffect, JobInPlan
  <2>2. remote[p].type = "file" /\ at[w] = "times"
    BY <1>7 DEF UploadTimes, PoolInv
  <2>3. \A q \in Paths : q # p => remote'[q] = remote[q]
    BY <1>7, <2>1, <2>2, TimesEffect
  <2>4. CASE remote' = remote
    BY <2>1, <2>4 DEF StampInv
  <2>5. CASE remote'[p] = File(remote[p].data, uploads[p])
    <3>1. remote'[p].data = remote[p].data /\ remote'[p].time = uploads[p]
      BY <2>5 DEF File
    <3>2. uploads[p] <= changes
      BY <2>1 DEF ClockInv, StateOK, TreesOK
    <3>3. local[p].type = "file" /\ local[p].time = uploads[p] => remote[p].data = local[p].data
      BY <2>1, <2>2 DEF UploadInv
    <3>4. QED BY <2>1, <2>3, <3>1, <3>2, <3>3 DEF StampInv
  <2>6. QED BY <1>7, <2>1, <2>2, <2>4, <2>5, TimesEffect
<1>8. QED
  BY <1>1, <1>2, <1>3, <1>4, <1>5, <1>6, <1>7 DEF Next, Run, Sync, Upload

\* A step that leaves alone what workers carry, and lets none begin, keeps UploadInv.
LEMMA KeptUploads ==
  ASSUME UploadInv, UNCHANGED <<local, remote, uploads>>,
         \A v \in Workers : Busy(v)' =>
           Busy(v) /\ at'[v] = at[v] /\ job'[v] = job[v] /\ opened'[v] = opened[v]
  PROVE  UploadInv'
BY DEF UploadInv

\* What the workers carry.
LEMMA UploadStep ==
  ASSUME BackendAssumption, Inv, [Next]_vars
  PROVE  UploadInv'
<1> USE BackendAssumption DEF BackendAssumption, Inv, Versions, GoesOn, Returns, Begin,
   Proceed, Leave, Fail, plan, pool, call, outOfPool
<1>1. CASE EditLocal
  <2> SUFFICES ASSUME NEW w \in Workers, Busy(w), local'[job[w]].type = "file",
                      local'[job[w]].time = uploads[job[w]]
               PROVE  /\ opened[w] = local'[job[w]].data
                      /\ at[w] = "times" => remote[job[w]].data = local'[job[w]].data
    <3>1. UNCHANGED <<remote, at, job, opened, uploads>>
      BY <1>1, EditEffect
    <3>2. QED BY <3>1 DEF UploadInv, Busy
  <2> DEFINE p == job[w]
  <2>1. p \in Paths /\ p \in DOMAIN uploads
    BY JobInPlan
  <2>2. uploads[p] \in 1..changes /\ changes \in Nat
    BY <2>1 DEF ClockInv, StateOK, TreesOK
  <2>3. local'[p] # File(changes + 1, changes + 1)
    <3>1. File(changes + 1, changes + 1).time = changes + 1
      BY DEF File
    <3>2. QED BY <2>2, <3>1
  <2>4. local'[p] = local[p]
    BY <1>1, <2>1, <2>3, EditEffect
  <2>5. QED BY <2>4 DEF UploadInv
<1>2. CASE FullSync \/ PushChanges \/ ListRemote \/ DeleteNext \/ MkdirNext
  <2>1. \A v \in Workers : at[v] = "off"
    BY <1>2 DEF FullSync, PushChanges, ListRemote, DeleteNext, MkdirNext, PoolInv
  <2>2. at' = at
    BY <1>2 DEF FullSync, PushChanges, ListRemote, DeleteNext, MkdirNext
  <2>3. QED BY <2>1, <2>2 DEF UploadInv, Busy
<1>3. CASE Cancel \/ ScanLocal \/ PoolReturns \/ FeederEnds \/ UNCHANGED vars
  <2>1. UNCHANGED <<local, remote, at, job, opened, uploads>>
    BY <1>3 DEF Cancel, ScanLocal, PoolReturns, FeederEnds, vars
  <2>2. QED BY <2>1 DEF UploadInv, Busy
<1>4. CASE StartPool
  <2>1. \A v \in Workers : at[v] = "off"
    BY <1>4 DEF StartPool, PoolInv
  <2>2. \A v \in Workers : at'[v] \in {"idle", "off"}
    BY <1>4, <2>1 DEF StartPool
  <2>3. QED BY <2>2 DEF UploadInv, Busy
<1>5. ASSUME NEW w \in Workers, Take(w)
      PROVE  UploadInv'
  <2>1. PICK p \in todo : \/ Fail(w)
                          \/ UNCHANGED <<at, job, opened>>
                          \/ /\ job' = [job EXCEPT ![w] = p]
                             /\ opened' = [opened EXCEPT ![w] = local[p].data]
                             /\ at' = [at EXCEPT ![w] = "create"]
    BY <1>5 DEF Take
  <2>2. UNCHANGED <<local, remote, uploads>>
    BY <1>5 DEF Take
  <2>3. CASE Fail(w)
    <3>1. at'[w] = "off"
      BY <2>3 DEF StateOK, PoolOK
    <3>2. \A v \in Workers \ {w} : at'[v] = at[v] /\ job'[v] = job[v] /\ opened'[v] = opened[v]
      BY <2>3 DEF StateOK, PoolOK
    <3>3. \A v \in Workers : Busy(v)' => v # w /\ Busy(v)
      BY <3>1, <3>2 DEF Busy
    <3>4. QED BY <2>2, <3>2, <3>3, KeptUploads
  <2>4. CASE /\ job' = [job EXCEPT ![w] = p]
             /\ opened' = [opened EXCEPT ![w] = local[p].data]
             /\ at' = [at EXCEPT ![w] = "create"]
    <3>1. at'[w] = "create" /\ job'[w] = p /\ opened'[w] = local[p].data
      BY <2>4 DEF StateOK, PoolOK
    <3>2. \A v \in Workers \ {w} : at'[v] = at[v] /\ job'[v] = job[v] /\ opened'[v] = opened[v]
      BY <2>4 DEF StateOK, PoolOK
    <3> SUFFICES ASSUME NEW v \in Workers, Busy(v)', local[job'[v]].type = "file",
                        local[job'[v]].time = uploads[job'[v]]
                 PROVE  /\ opened'[v] = local[job'[v]].data
                        /\ at'[v] = "times" => remote[job'[v]].data = local[job'[v]].data
      BY <2>2 DEF UploadInv
    <3>3. CASE v = w
      BY <3>1, <3>3
    <3>4. CASE v # w
      BY <3>2, <3>4 DEF UploadInv, Busy
    <3>5. QED BY <3>3, <3>4
  <2>5. CASE UNCHANGED <<at, job, opened>>
    BY <2>2, <2>5 DEF UploadInv, Busy
  <2>6. QED BY <2>1, <2>3, <2>4, <2>5
<1>6. ASSUME NEW w \in Workers, WorkerEnds(w)
      PROVE  UploadInv'
  <2>1. \A v \in Workers : Busy(v)' => Busy(v) /\ at'[v] = at[v]
    BY <1>6 DEF WorkerEnds, Busy, StateOK, PoolOK
  <2>2. UNCHANGED <<local, remote, job, opened, uploads>>
    BY <1>6 DEF WorkerEnds
  <2>3. QED BY <2>1, <2>2, KeptUploads
<1>7. ASSUME NEW w \in Workers, UploadCreate(w) \/ UploadCopy(w) \/ UploadTimes(w)
      PROVE  UploadInv'
  <2>1. PICK l \in {"off", "idle", "copy", "times"} :
           /\ at' = [at EXCEPT ![w] = l]
           /\ l \in {"off", "idle"} => job' = [job EXCEPT ![w] = Root] /\ opened' = [opened EXCEPT ![w] = 0]
           /\ l \in {"copy", "times"} => UNCHANGED <<job, opened>>
           /\ l = "times" => at[w] = "copy"
    BY <1>7, MoveEffect
  <2>2. Busy(w) /\ UNCHANGED <<local, uploads>>
    BY <1>7, MoveEffect
  <2>3. \A v \in Workers \ {w} : at'[v] = at[v] /\ job'[v] = job[v] /\ opened'[v] = opened[v]
    BY <2>1 DEF StateOK, PoolOK
  <2>4. /\ at'[w] = l
        /\ Busy(w)' => job'[w] = job[w] /\ opened'[w] = opened[w]
    BY <2>1 DEF Busy, StateOK, PoolOK
  <2>5. job[w] \in Paths /\ \A v \in Workers : Busy(v) => job[v] \in Paths
    BY <2>2, JobInPlan
  <2>6. \A v \in Workers \ {w} : at[v] = "times" => job[v] # job[w] /\ remote[job[v]].type = "file"
    BY <2>2 DEF PoolInv, Busy
  <2>7. \A v \in Workers \ {w} : at[v] = "times" => remote'[job[v]].data = remote[job[v]].data
    <3> SUFFICES ASSUME NEW v \in Workers \ {w}, at[v] = "times"
                 PROVE  remote'[job[v]] = remote[job[v]]
      OBVIOUS
    <3>0. job[v] # job[w] /\ remote[job[v]].type = "file" /\ job[v] \in Paths
      BY <2>5, <2>6 DEF Busy
    <3>1. CASE UploadCreate(w)
      BY <3>1, <2>2, <2>5, <3>0, CreateEffect
    <3>2. CASE UploadCopy(w)
      BY <3>2, <2>2, <2>5, <3>0, CopyEffect
    <3>3. CASE UploadTimes(w)
      BY <3>3, <2>2, <2>5, <3>0, TimesEffect, JobInPlan DEF UploadTimes, PoolInv
    <3>4. QED BY <1>7, <3>1, <3>2, <3>3
  <2>8. at'[w] = "times" /\ local[job[w]].type = "file" /\ local[job[w]].time = uploads[job[w]]
          => remote'[job[w]].data = local[job[w]].data
    <3> SUFFICES ASSUME at'[w] = "times", local[job[w]].type = "file",
                        local[job[w]].time = uploads[job[w]]
                 PROVE  remote'[job[w]].data = local[job[w]].data
      OBVIOUS
    <3>1. UploadCopy(w)
      BY <1>7, <2>1, <2>4 DEF UploadCreate, UploadTimes
    <3>2. opened[w] = local[job[w]].data
      BY <2>2 DEF UploadInv
    <3>3. PICK d \in Readable(w) : remote'[job[w]] = File(d, 0)
      BY <2>5, <3>1, CopyEffect, SMTT(30)
    <3>4. d = opened[w]
      BY <3>2 DEF Readable
    <3>5. QED BY <3>2, <3>3, <3>4 DEF File
  <2>9. QED BY <2>2, <2>3, <2>4, <2>7, <2>8, SMTT(30) DEF UploadInv, Busy
<1>8. QED
  BY <1>1, <1>2, <1>3, <1>4, <1>5, <1>6, <1>7 DEF Next, Run, Sync, Upload

\* Both trees are trees.
LEMMA TreeStep ==
  ASSUME BackendAssumption, TreeAssumption, Inv, [Next]_vars
  PROVE  IsTree(local') /\ IsTree(remote')
<1> USE BackendAssumption DEF Inv, GoesOn, Returns, Begin, Proceed, Leave, Fail, plan,
   pool, call, outOfPool
<1>1. CASE EditLocal
  <2>1. PICK p, n : Edit(p, n)
    BY <1>1 DEF EditLocal
  <2>2. QED BY <2>1 DEF Edit
<1>2. CASE \/ FullSync \/ PushChanges \/ Cancel \/ ScanLocal \/ ListRemote \/ StartPool
           \/ PoolReturns \/ FeederEnds \/ UNCHANGED vars
           \/ \E w \in Workers : Take(w) \/ WorkerEnds(w)
  <2>1. UNCHANGED <<local, remote>>
    BY <1>2 DEF FullSync, PushChanges, Cancel, ScanLocal, ListRemote, StartPool,
       PoolReturns, FeederEnds, Take, WorkerEnds, vars
  <2>2. QED BY <2>1
<1>3. CASE DeleteNext
  <2>1. UNCHANGED local
    BY <1>3 DEF DeleteNext
  <2>2. UNCHANGED remote \/ \E p, gone : RemoveAll(p, gone)
    BY <1>3 DEF DeleteNext
  <2>3. QED BY <2>1, <2>2 DEF RemoveAll
<1>4. CASE MkdirNext
  <2>1. UNCHANGED local
    BY <1>4 DEF MkdirNext
  <2>2. CASE UNCHANGED remote
    BY <2>1, <2>2
  <2>3. CASE \E p \in mkdirs, n \in Nat : MkdirAll(p, n)
    BY <2>1, <2>3, MkdirAllTree
  <2>4. QED BY <1>4, <2>2, <2>3, DepthType, SMTT(30) DEF MkdirNext
<1>5. ASSUME NEW w \in Workers, UploadCreate(w)
      PROVE  IsTree(local') /\ IsTree(remote')
  <2>1. UNCHANGED local /\ job[w] \in Paths
    BY <1>5, MoveEffect, JobInPlan
  <2>2. QED BY <1>5, <2>1, CreateTree
<1>6. ASSUME NEW w \in Workers, UploadCopy(w)
      PROVE  IsTree(local') /\ IsTree(remote')
  <2>1. UNCHANGED local /\ job[w] \in Paths
    BY <1>6, MoveEffect, JobInPlan
  <2>2. remote[job[w]].type = "file"
    BY <1>6 DEF UploadCopy, PoolInv
  <2>3. \A q \in Paths : q # job[w] => remote'[q] = remote[q]
    BY <1>6, <2>1, CopyEffect
  <2>4. QED BY <2>1, <2>2, <2>3, FileTree
<1>7. ASSUME NEW w \in Workers, UploadTimes(w)
      PROVE  IsTree(local') /\ IsTree(remote')
  <2>1. UNCHANGED local /\ job[w] \in Paths /\ job[w] \in DOMAIN uploads
    BY <1>7, MoveEffect, JobInPlan
  <2>2. remote[job[w]].type = "file"
    BY <1>7 DEF UploadTimes, PoolInv
  <2>3. \A q \in Paths : q # job[w] => remote'[q] = remote[q]
    BY <1>7, <2>1, <2>2, TimesEffect
  <2>4. QED BY <2>1, <2>2, <2>3, FileTree
<1>8. QED
  BY <1>1, <1>2, <1>3, <1>4, <1>5, <1>6, <1>7 DEF Next, Run, Sync, Upload

\* What was found is there, and planned for.
LEMMA FoundStep ==
  ASSUME BackendAssumption, TreeAssumption, Inv, [Next]_vars
  PROVE  FoundInv'
<1> USE BackendAssumption DEF Inv, GoesOn, Returns, Begin, Proceed, Leave, Fail, plan,
   pool, call, outOfPool
<1>1. CASE EditLocal
  BY <1>1, EditEffect DEF FoundInv
<1>2. CASE FullSync
  <2>1. found' = <<>> /\ mkdirs' = {} /\ uploads' = <<>>
    BY <1>2 DEF FullSync
  <2>2. QED BY <2>1 DEF FoundInv
<1>3. CASE PushChanges
  <2>1. PICK t \in {local, held}, b \in SUBSET (Paths \ Excluded) \ {{}} :
           /\ found' = [p \in b |-> t[p]]
           /\ mkdirs' = {p \in b : t[p] = Dir}
           /\ uploads' = [p \in Written(t, b) |-> t[p].time]
           /\ quiet' = (t = local)
    BY <1>3 DEF PushChanges
  <2>2. UNCHANGED local
    BY <1>3 DEF PushChanges
  <2>3. QED BY <2>1, <2>2 DEF FoundInv, Written
<1>4. CASE \/ Cancel \/ DeleteNext \/ StartPool \/ PoolReturns \/ FeederEnds
           \/ UNCHANGED vars
           \/ \E w \in Workers : Take(w) \/ WorkerEnds(w)
  <2>1. UNCHANGED <<local, found, mkdirs, uploads, quiet>>
    BY <1>4 DEF Cancel, DeleteNext, StartPool, PoolReturns, FeederEnds, Take, WorkerEnds,
       vars
  <2>2. QED BY <2>1 DEF FoundInv
<1>5. CASE ScanLocal
  <2>1. UNCHANGED <<local, mkdirs, uploads, quiet>>
    BY <1>5 DEF ScanLocal
  <2>2. \A p \in DOMAIN found' : \/ p \in DOMAIN found /\ found'[p] = found[p]
                                 \/ found'[p] = local[p]
    <3>1. CASE UNCHANGED found
      BY <3>1
    <3>2. CASE \E listing : found' = [p \in DOMAIN found \cup listing |->
                                         IF p \in listing THEN local[p] ELSE found[p]]
      BY <3>2
    <3>3. UNCHANGED found \/ \E listing : found' = [p \in DOMAIN found \cup listing |->
                                         IF p \in listing THEN local[p] ELSE found[p]]
      BY ONLY <1>5 DEF ScanLocal
    <3>4. QED BY <3>1, <3>2, <3>3
  <2>3. QED BY <2>1, <2>2 DEF FoundInv
<1>6. CASE ListRemote
  <2>1. UNCHANGED <<local, found, quiet>>
    BY <1>6 DEF ListRemote
  <2>2. CASE UNCHANGED <<mkdirs, uploads>>
    BY <2>1, <2>2 DEF FoundInv
  <2>3. CASE \E r, off : /\ mkdirs' = DiffMkdir(found, r)
                         /\ uploads' = [p \in DiffUpload(found, r, off) |-> found[p].time]
    BY <2>1, <2>3 DEF FoundInv, DiffMkdir, DiffUpload
  <2>4. QED BY <1>6, <2>2, <2>3 DEF ListRemote
<1>7. CASE MkdirNext
  <2>1. UNCHANGED <<local, found, uploads, quiet>> /\ mkdirs' \subseteq mkdirs
    BY <1>7 DEF MkdirNext
  <2>2. QED BY <2>1 DEF FoundInv
<1>8. ASSUME NEW w \in Workers, UploadCreate(w) \/ UploadCopy(w) \/ UploadTimes(w)
      PROVE  FoundInv'
  <2>1. UNCHANGED <<local, found, mkdirs, uploads, quiet>>
    BY <1>8, MoveEffect
  <2>2. QED BY <2>1 DEF FoundInv
<1>9. QED
  BY <1>1, <1>2, <1>3, <1>4, <1>5, <1>6, <1>7, <1>8 DEF Next, Run, Sync, Upload

\* The scan finds everything.
LEMMA ScanStep ==
  ASSUME BackendAssumption, TreeAssumption, Inv, [Next]_vars
  PROVE  ScanInv'
<1> USE BackendAssumption DEF Inv, GoesOn, Returns, Begin, Proceed, Leave, Fail, plan,
   pool, call, outOfPool
<1>1. CASE EditLocal
  BY <1>1, EditEffect DEF ScanInv
<1>2. CASE FullSync
  <2>1. pc' = "scan" /\ walk' = {Root} /\ found' = <<>>
    BY <1>2 DEF FullSync
  <2>2. QED BY <2>1 DEF ScanInv
<1>3. CASE PushChanges
  <2>1. kind' = "push"
    BY <1>3 DEF PushChanges
  <2>2. QED BY <2>1 DEF ScanInv
<1>4. CASE \/ Cancel \/ FeederEnds \/ UNCHANGED vars
           \/ \E w \in Workers : Take(w) \/ WorkerEnds(w)
  <2>1. UNCHANGED <<local, found, walk, kind, pc, quiet>>
    BY <1>4 DEF Cancel, FeederEnds, Take, WorkerEnds, vars
  <2>2. QED BY <2>1 DEF ScanInv
<1>5. CASE ScanLocal
  <2>1. UNCHANGED <<local, kind, quiet>> /\ pc = "scan"
    BY <1>5 DEF ScanLocal
  <2>2. CASE pc' = "idle"
    BY <2>2 DEF ScanInv
  <2>3. CASE pc' # "idle"
    <3>1. PICK d \in walk :
             LET listing == {p \in Paths \ Excluded : Parent[p] = d /\ local[p] # Absent}
             IN  /\ found' = [p \in DOMAIN found \cup listing |->
                                IF p \in listing THEN local[p] ELSE found[p]]
                 /\ walk' = (walk \ {d}) \cup {p \in listing : local[p] = Dir}
                 /\ pc' = IF walk' = {} THEN "list" ELSE "scan"
      BY <1>5, <2>3 DEF ScanLocal
    <3> DEFINE listing == {p \in Paths \ Excluded : Parent[p] = d /\ local[p] # Absent}
    <3>2. DOMAIN found' = DOMAIN found \cup listing
      BY <3>1
    <3>3. walk' = (walk \ {d}) \cup {p \in listing : local[p] = Dir}
      BY <3>1
    <3>4. SUFFICES ASSUME quiet, kind # "push"
                    PROVE  \A p \in Paths \ Excluded : local[p] # Absent =>
                             /\ pc' = "scan" => \/ p \in DOMAIN found' \/ Parent[p] \in walk'
                                                \/ Parent[p] # Root /\ Parent[p] \notin DOMAIN found'
                             /\ pc' \notin {"idle", "scan"} => p \in DOMAIN found'
      BY <2>1 DEF ScanInv
    <3>5. ASSUME NEW p \in Paths \ Excluded, local[p] # Absent
           PROVE  \/ p \in DOMAIN found' \/ Parent[p] \in walk'
                  \/ Parent[p] # Root /\ Parent[p] \notin DOMAIN found'
      <4>1. CASE p \in DOMAIN found
        BY <3>2, <4>1
      <4>2. CASE Parent[p] = d
        BY <3>2, <3>5, <4>2
      <4>3. CASE Parent[p] \in walk /\ Parent[p] # d
        BY <3>3, <4>3
      <4>4. CASE Parent[p] # Root /\ Parent[p] \in listing
        <5>1. local[Parent[p]] = Dir
          BY <3>5, <4>4 DEF IsTree
        <5>2. QED BY <3>3, <4>4, <5>1
      <4>5. CASE Parent[p] # Root /\ Parent[p] \notin DOMAIN found /\ Parent[p] \notin listing
        BY <3>2, <4>5
      <4>6. QED BY <2>1, <3>4, <3>5, <4>1, <4>2, <4>3, <4>4, <4>5 DEF ScanInv
    <3> HIDE DEF listing
    <3>6. ASSUME walk' = {}
           PROVE  \A p \in Paths \ Excluded : local[p] # Absent => p \in DOMAIN found'
      <4> DEFINE S == {p \in Paths : p \in Excluded \/ local[p] = Absent \/ p \in DOMAIN found'}
      <4>1. ASSUME NEW p \in Paths, Parent[p] \in S \cup {Root}
             PROVE  p \in S
        <5> SUFFICES ASSUME p \notin Excluded, local[p] # Absent, p \notin DOMAIN found'
                      PROVE  FALSE
          OBVIOUS
        <5>1. Parent[p] # Root /\ Parent[p] \notin DOMAIN found'
          BY <3>5, <3>6
        <5>2. Parent[p] \notin Excluded
          BY DEF BackendAssumption
        <5>3. local[Parent[p]] = Dir
          BY <5>1 DEF IsTree
        <5>4. Dir # Absent
          BY OtherNodes
        <5>5. QED BY <4>1, <5>1, <5>2, <5>3, <5>4
      <4>2. S \subseteq Paths
        OBVIOUS
      <4> HIDE DEF S
      <4>3. S = Paths
        BY <4>1, <4>2 DEF TreeAssumption
      <4>4. QED BY <4>3 DEF S
    <3>7. pc' = IF walk' = {} THEN "list" ELSE "scan"
      BY <3>1
    <3>8. QED BY <3>5, <3>6, <3>7
  <2>4. QED BY <2>2, <2>3
<1>6. CASE ListRemote \/ DeleteNext \/ MkdirNext \/ StartPool \/ PoolReturns
  <2>1. UNCHANGED <<local, found, kind, quiet>>
    BY <1>6 DEF ListRemote, DeleteNext, MkdirNext, StartPool, PoolReturns
  <2>2. pc \notin {"idle", "scan"} /\ pc' # "scan"
    BY <1>6 DEF ListRemote, DeleteNext, MkdirNext, StartPool, PoolReturns
  <2>3. QED BY <2>1, <2>2 DEF ScanInv
<1>7. ASSUME NEW w \in Workers, UploadCreate(w) \/ UploadCopy(w) \/ UploadTimes(w)
      PROVE  ScanInv'
  <2>1. UNCHANGED <<local, found, walk, kind, pc, quiet>>
    BY <1>7, MoveEffect
  <2>2. QED BY <2>1 DEF ScanInv
<1>8. QED
  BY <1>1, <1>2, <1>3, <1>4, <1>5, <1>6, <1>7 DEF Next, Run, Sync, Upload

\* One part of the plan after the other.
LEMMA PhaseStep ==
  ASSUME BackendAssumption, TreeAssumption, Inv, [Next]_vars
  PROVE  PhaseInv'
<1> USE BackendAssumption DEF Inv, GoesOn, Returns, Begin, Proceed, Leave, Fail, plan,
   pool, call, outOfPool
<1>1. CASE EditLocal
  <2>1. UNCHANGED <<pc, kind, deletes, mkdirs, feeding, canceled, at>>
    BY <1>1, EditEffect
  <2>2. QED BY <2>1 DEF PhaseInv
<1>2. CASE FullSync
  <2>1. pc' = "scan" /\ kind' \in {"full", "mirror"}
    BY <1>2 DEF FullSync
  <2>2. QED BY <2>1 DEF PhaseInv
<1>3. CASE PushChanges
  <2>1. pc' = "delete"
    BY <1>3 DEF PushChanges
  <2>2. QED BY <2>1 DEF PhaseInv
<1>4. CASE Cancel
  <2>1. UNCHANGED <<pc, kind, deletes, mkdirs>> /\ canceled'
    BY <1>4 DEF Cancel
  <2>2. QED BY <2>1 DEF PhaseInv
<1>5. CASE ScanLocal
  <2>1. pc' \in {"idle", "scan", "list"} /\ pc = "scan" /\ UNCHANGED kind
    BY <1>5 DEF ScanLocal
  <2>2. QED BY <2>1 DEF PhaseInv
<1>6. CASE ListRemote
  <2>1. pc' \in {"idle", "delete"}
    BY <1>6 DEF ListRemote
  <2>2. QED BY <2>1 DEF PhaseInv
<1>7. CASE DeleteNext
  <2>1. pc' \in {"idle", "delete"} \/ (pc' = "mkdir" /\ deletes' = {})
    BY <1>7 DEF DeleteNext
  <2>2. QED BY <2>1 DEF PhaseInv
<1>8. CASE MkdirNext
  <2>1. pc' \in {"idle", "mkdir"} \/ (pc' = "pool" /\ mkdirs' = {})
    BY <1>8 DEF MkdirNext
  <2>2. pc = "mkdir" /\ UNCHANGED deletes
    BY <1>8 DEF MkdirNext
  <2>3. QED BY <2>1, <2>2 DEF PhaseInv
<1>9. CASE StartPool
  <2>1. pc = "pool" /\ UNCHANGED <<deletes, mkdirs>>
    BY <1>9 DEF StartPool
  <2>2. CASE pc' = "idle"
    BY <2>2 DEF PhaseInv
  <2>3. CASE pc' # "idle"
    <3>1. /\ pc' = "wait"
          /\ todo' = DOMAIN uploads /\ DOMAIN uploads # {}
          /\ \E started \in SUBSET Workers :
               /\ Cardinality(started) = IF Cardinality(todo') < Cardinality(Workers)
                                         THEN Cardinality(todo') ELSE Cardinality(Workers)
               /\ at' = [w \in Workers |-> IF w \in started THEN "idle" ELSE "off"]
      BY <1>9, <2>3 DEF StartPool
    <3>2. PICK started \in SUBSET Workers :
             /\ Cardinality(started) = IF Cardinality(todo') < Cardinality(Workers)
                                       THEN Cardinality(todo') ELSE Cardinality(Workers)
             /\ at' = [w \in Workers |-> IF w \in started THEN "idle" ELSE "off"]
      BY <3>1
    <3>3. DOMAIN uploads \subseteq Paths
      BY DEF StateOK, PlanOK
    <3>4. IsFiniteSet(todo')
      BY <3>1, <3>3, FS_Subset DEF BackendAssumption
    <3>5. Cardinality(todo') # 0
      BY <3>1, <3>4, FS_EmptySet
    <3>6. Cardinality(Workers) # 0
      BY FS_EmptySet DEF BackendAssumption
    <3>7. started # {}
      BY <3>2, <3>5, <3>6, FS_EmptySet
    <3>8. \E w \in Workers : at'[w] # "off"
      BY <3>2, <3>7
    <3>9. QED BY <2>1, <3>1, <3>8 DEF PhaseInv
  <2>4. QED BY <2>2, <2>3
<1>10. CASE PoolReturns
  <2>1. pc' = "idle"
    BY <1>10 DEF PoolReturns
  <2>2. QED BY <2>1 DEF PhaseInv
<1>11. CASE FeederEnds
  <2>1. UNCHANGED <<pc, kind, deletes, mkdirs>> /\ ~feeding'
    BY <1>11 DEF FeederEnds
  <2>2. QED BY <2>1 DEF PhaseInv
<1>12. ASSUME NEW w \in Workers, Take(w)
      PROVE  PhaseInv'
  <2>1. UNCHANGED <<pc, kind, deletes, mkdirs>>
    BY <1>12 DEF Take
  <2>2. canceled' \/ at' = [at EXCEPT ![w] = "create"] \/ (at' = at /\ at[w] = "idle")
    BY <1>12 DEF Take
  <2>3. canceled' \/ at'[w] # "off"
    BY <2>2 DEF StateOK, PoolOK
  <2>4. QED BY <2>1, <2>3 DEF PhaseInv
<1>13. ASSUME NEW w \in Workers, WorkerEnds(w)
      PROVE  PhaseInv'
  <2>1. UNCHANGED <<pc, kind, deletes, mkdirs>> /\ ~feeding'
    BY <1>13 DEF WorkerEnds
  <2>2. QED BY <2>1 DEF PhaseInv
<1>14. ASSUME NEW w \in Workers, UploadCreate(w) \/ UploadCopy(w) \/ UploadTimes(w)
      PROVE  PhaseInv'
  <2>1. UNCHANGED <<pc, kind, deletes, mkdirs>>
    BY <1>14, MoveEffect
  <2>2. PICK l \in {"off", "idle", "copy", "times"} : at' = [at EXCEPT ![w] = l] /\ (l = "off" => canceled')
    BY <1>14, MoveEffect
  <2>3. canceled' \/ at'[w] # "off"
    BY <2>2 DEF StateOK, PoolOK
  <2>4. QED BY <2>1, <2>3 DEF PhaseInv
<1>15. CASE UNCHANGED vars
  <2>1. UNCHANGED <<pc, kind, deletes, mkdirs, feeding, canceled, at>>
    BY <1>15 DEF vars
  <2>2. QED BY <2>1 DEF PhaseInv
<1>16. QED
  BY <1>1, <1>2, <1>3, <1>4, <1>5, <1>6, <1>7, <1>8, <1>9, <1>10, <1>11, <1>12, <1>13,
     <1>14, <1>15 DEF Next, Run, Sync, Upload

\* What a call is to bring about is done or due.
LEMMA TargetStep ==
  ASSUME BackendAssumption, TreeAssumption, Inv, [Next]_vars
  PROVE  TargetInv'
<1> USE BackendAssumption DEF Inv, GoesOn, Returns, Begin, Proceed, Leave, Fail, plan,
   pool, call, outOfPool
<1>1. CASE EditLocal
  BY <1>1, EditEffect DEF TargetInv
<1>2. CASE FullSync \/ ScanLocal \/ PoolReturns
  <2>1. pc' \in {"idle", "scan", "list"}
    BY <1>2 DEF FullSync, ScanLocal, PoolReturns
  <2>2. QED BY <2>1 DEF TargetInv
<1>3. CASE PushChanges
  <2>1. PICK t \in {local, held}, b \in SUBSET (Paths \ Excluded) \ {{}} :
           /\ found' = [p \in b |-> t[p]]
           /\ deletes' = {p \in b : t[p] = Absent}
           /\ mkdirs' = {p \in b : t[p] = Dir}
           /\ uploads' = [p \in Written(t, b) |-> t[p].time]
           /\ quiet' = (t = local)
    BY <1>3 DEF PushChanges
  <2>2. UNCHANGED local /\ kind' = "push" /\ pc' = "delete"
    BY <1>3 DEF PushChanges
  <2>3. \A p \in b : t[p] = Absent \/ t[p] = Dir \/ p \in Written(t, b)
    BY NodeCases DEF Written, StateOK, TreesOK
  <2>4. QED BY <2>1, <2>2, <2>3 DEF TargetInv, Targets, Due
<1>4. CASE Cancel \/ UNCHANGED vars
  <2>1. UNCHANGED <<local, remote, pc, kind, found, deletes, mkdirs, uploads, todo, at, job, quiet, skipped>>
          /\ (canceled => canceled')
    BY <1>4 DEF Cancel, vars
  <2>2. QED BY <2>1 DEF TargetInv, Targets, Done, Due, InSync, Busy
<1>5. CASE ListRemote
  <2> DEFINE r == [p \in {q \in Paths \ Excluded : remote[q] # Absent} |-> remote[p]]
  <2>1. UNCHANGED <<local, remote, found, kind, quiet, skipped>> /\ kind # "push" /\ pc = "list"
    BY <1>5 DEF ListRemote, PhaseInv
  <2>2. CASE pc' = "idle"
    BY <2>2 DEF TargetInv
  <2>3. CASE pc' # "idle"
    <3>1. PICK off :
            /\ pc' = "delete"
            /\ deletes' = SelectedDeletes(found, r, off)
            /\ mkdirs' = DiffMkdir(found, r)
            /\ uploads' = [p \in DiffUpload(found, r, off) |-> found[p].time]
      BY <1>5, <2>3 DEF ListRemote
    <3> SUFFICES ASSUME quiet, NEW p \in Paths \ Excluded PROVE Done(p)' \/ Due(p)'
      BY <2>1 DEF TargetInv, Targets
    <3>2. \A q \in DOMAIN found : found[q] = local[q]
      BY DEF FoundInv
    <3>3. \A q \in Paths \ Excluded : local[q] # Absent => q \in DOMAIN found
      BY <2>1 DEF ScanInv
    <3>4. deletes' \subseteq DiffDelete(found, r) /\ (kind # "full" => deletes' = DiffDelete(found, r))
      BY <2>1, <3>1 DEF SelectedDeletes, StateOK, CallOK
    <3>5. ASSUME local[p] # Absent, remote[p].type = local[p].type, InSync(p) PROVE Done(p)'
      <4>1. SUFFICES ASSUME NEW q \in deletes', p \in Below[q] PROVE FALSE
        BY <2>1, <3>5 DEF Done, InSync
      <4>2. q \in Paths \ Excluded /\ (q \in DOMAIN found => found[q].type # remote[q].type)
        BY <3>4 DEF DiffDelete
      <4>3. CASE q = p
        BY <3>2, <3>3, <3>5, <4>2, <4>3
      <4>4. CASE q # p
        <5>1. local[q] = Dir /\ remote[q] = Dir
          <6>1. remote[p] # Absent
            BY <3>5, OtherNodes, NodeCases DEF StateOK, TreesOK
          <6>2. QED BY <3>5, <4>1, <4>2, <4>4, <6>1, AboveIsDir, SMTT(30)
        <5>2. QED BY <3>2, <3>3, <4>2, <5>1, OtherNodes
      <4>5. QED BY <4>3, <4>4
    <3>6. CASE local[p] = Absent
      <4>1. CASE remote[p] = Absent \/ kind = "full"
        BY <2>1, <3>6, <4>1 DEF Done, InSync
      <4>2. CASE remote[p] # Absent /\ kind # "full"
        <5>1. p \in DOMAIN r /\ r[p] = remote[p] /\ remote[p].type # "none"
          BY <4>2, NodeCases DEF StateOK, TreesOK
        <5>2. p \in DOMAIN found => found[p].type = "none"
          BY <3>2, <3>6, OtherNodes
        <5>3. p \in deletes'
          <6>1. deletes' = DiffDelete(found, r)
            BY <3>4, <4>2
          <6>2. QED BY <5>1, <5>2, <6>1, Zenon DEF DiffDelete
        <5>4. QED BY <2>1, <3>6, <5>3 DEF Due
      <4>3. QED BY <4>1, <4>2
    <3>7. CASE local[p] = Dir
      <4>1. p \in DOMAIN found /\ found[p] = Dir
        BY <3>2, <3>3, <3>7, OtherNodes
      <4>2. CASE remote[p] = Dir
        BY <3>5, <3>7, <4>2, OtherNodes DEF InSync
      <4>3. CASE remote[p] # Dir
        <5>1. p \in mkdirs'
          BY <3>1, <4>1, <4>3 DEF DiffMkdir
        <5>2. QED BY <2>1, <3>7, <5>1 DEF Due
      <4>4. QED BY <4>2, <4>3
    <3>8. CASE local[p].type = "file"
      <4>1. p \in DOMAIN found /\ found[p] = local[p]
        BY <3>2, <3>3, <3>8, OtherNodes
      <4>2. CASE p \in DiffUpload(found, r, off)
        BY <3>1, <4>2 DEF Due
      <4>3. CASE p \notin DiffUpload(found, r, off)
        <5>1. p \in DOMAIN r /\ Same(found[p], r[p])
          BY <3>8, <4>1, <4>3 DEF DiffUpload
        <5>2. Same(local[p], remote[p]) /\ remote[p].type = "file"
          BY <4>1, <5>1 DEF Same
        <5>3. QED BY <2>1, <3>5, <3>8, <5>2, OtherNodes DEF InSync
      <4>4. QED BY <4>2, <4>3
    <3>9. QED BY <3>6, <3>7, <3>8, NodeCases DEF StateOK, TreesOK
  <2>4. QED BY <2>2, <2>3
<1>6. CASE DeleteNext
  <2>1. UNCHANGED <<local, found, kind, mkdirs, uploads, quiet, skipped>> /\ pc = "delete"
    BY <1>6 DEF DeleteNext
  <2>2. CASE pc' = "idle"
    BY <2>2 DEF TargetInv
  <2>3. CASE pc' = "mkdir"
    <3>1. UNCHANGED <<remote, deletes>>
      BY <1>6, <2>3 DEF DeleteNext
    <3>2. QED BY <2>1, <2>3, <3>1 DEF TargetInv, Targets, Done, Due, InSync
  <2>4. CASE pc' \notin {"idle", "mkdir"}
    <3>1. pc' = "delete" /\ \E d \in deletes : deletes' = deletes \ {d} /\ RemoveAll(d, Below[d])
      BY <1>6, <2>4 DEF DeleteNext
    <3>2. PICK d \in deletes : deletes' = deletes \ {d} /\ RemoveAll(d, Below[d])
      BY <3>1
    <3>3. remote' = [q \in Paths |-> IF q \in Below[d] THEN Absent ELSE remote[q]]
      BY <3>2 DEF RemoveAll
    <3> SUFFICES ASSUME quiet, NEW p \in Targets \ skipped PROVE Done(p)' \/ Due(p)'
      BY <2>1 DEF TargetInv, Targets
    <3>4. p \in Paths /\ d \in Paths
      BY DEF Targets, StateOK, PlanOK
    <3>5. CASE Done(p)
      <4>1. CASE p \in Below[d]
        BY <2>1, <3>2, <3>3, <3>4, <3>5, <4>1 DEF Done, InSync
      <4>2. CASE p \notin Below[d]
        BY <2>1, <3>2, <3>3, <3>4, <3>5, <4>2 DEF Done, InSync
      <4>3. QED BY <4>1, <4>2
    <3>6. CASE local[p] = Absent /\ p \in deletes
      <4>1. CASE p = d
        BY <2>1, <3>3, <3>4, <3>6, <4>1, BelowLeast DEF Done, InSync
      <4>2. CASE p # d
        BY <2>1, <3>2, <3>6, <4>2 DEF Due
      <4>3. QED BY <4>1, <4>2
    <3>7. CASE local[p] = Dir /\ p \in mkdirs
      BY <2>1, <3>7 DEF Due
    <3>8. CASE p \in DOMAIN uploads
      BY <2>1, <3>1, <3>8 DEF Due
    <3>9. QED BY <2>1, <3>5, <3>6, <3>7, <3>8 DEF TargetInv, Due
  <2>5. QED BY <2>2, <2>3, <2>4
<1>7. CASE MkdirNext
  <2>1. UNCHANGED <<local, found, kind, deletes, uploads, quiet, skipped>> /\ pc = "mkdir" /\ deletes = {}
    BY <1>7 DEF MkdirNext, PhaseInv
  <2>2. CASE pc' = "idle"
    BY <2>2 DEF TargetInv
  <2>3. CASE pc' = "pool"
    <3>1. UNCHANGED <<remote, mkdirs>>
      BY <1>7, <2>3 DEF MkdirNext
    <3>2. QED BY <2>1, <2>3, <3>1 DEF TargetInv, Targets, Done, Due, InSync
  <2>4. CASE pc' \notin {"idle", "pool"}
    <3>1. pc' = "mkdir" /\ \E d \in mkdirs : mkdirs' = mkdirs \ {d} /\ MkdirAll(d, Depth(d))
      BY <1>7, <2>4 DEF MkdirNext
    <3>2. PICK d \in mkdirs : mkdirs' = mkdirs \ {d} /\ MkdirAll(d, Depth(d))
      BY <3>1
    <3> SUFFICES ASSUME quiet, NEW p \in Targets \ skipped PROVE Done(p)' \/ Due(p)'
      BY <2>1 DEF TargetInv, Targets
    <3>3. p \in Paths /\ d \in Paths /\ local[d] = Dir
      BY DEF Targets, StateOK, PlanOK, FoundInv
    <3>4. remote'[p] = IF p \in Above(d) THEN Dir ELSE remote[p]
      <4>1. remote' = [q \in Paths |-> IF q \in {x \in Above(d) : Depth(x) <= Depth(d)} THEN Dir ELSE remote[q]]
        BY <3>2 DEF MkdirAll
      <4>2. QED BY <3>3, <4>1, AboveDepth
    <3>5. p \in Above(d) => local[p] = Dir
      BY <3>3, AboveIsDir, OtherNodes DEF Above
    <3>6. CASE Done(p)
      <4>1. CASE p \in Above(d)
        BY <2>1, <3>4, <3>5, <4>1, OtherNodes DEF Done, InSync
      <4>2. CASE p \notin Above(d)
        BY <2>1, <3>4, <3>6, <4>2 DEF Done, InSync
      <4>3. QED BY <4>1, <4>2
    <3>7. CASE local[p] = Dir /\ p \in mkdirs
      <4>1. CASE p = d
        <5>1. p \in Above(d)
          BY <3>3, <4>1, BelowLeast DEF Above
        <5>2. QED BY <2>1, <3>4, <3>7, <5>1, OtherNodes DEF Done, InSync
      <4>2. CASE p # d
        BY <2>1, <3>2, <3>7, <4>2 DEF Due
      <4>3. QED BY <4>1, <4>2
    <3>8. CASE p \in DOMAIN uploads
      BY <2>1, <3>1, <3>8 DEF Due
    <3>9. QED BY <2>1, <3>6, <3>7, <3>8 DEF TargetInv, Due
  <2>5. QED BY <2>2, <2>3, <2>4
<1>8. CASE StartPool
  <2>1. UNCHANGED <<local, remote, found, kind, deletes, mkdirs, uploads, quiet, skipped>> /\ pc = "pool"
    BY <1>8 DEF StartPool
  <2>2. CASE pc' = "idle"
    BY <2>2 DEF TargetInv
  <2>3. CASE pc' # "idle"
    <3>1. todo' = DOMAIN uploads
      BY <1>8, <2>3 DEF StartPool
    <3>2. QED BY <2>1, <3>1 DEF TargetInv, Targets, Done, Due, InSync
  <2>4. QED BY <2>2, <2>3
<1>9. CASE FeederEnds
  <2>1. UNCHANGED <<local, remote, pc, kind, found, deletes, mkdirs, uploads, at, job, quiet, canceled, skipped>>
    BY <1>9 DEF FeederEnds
  <2>2. todo = {} \/ canceled
    BY <1>9 DEF FeederEnds
  <2>3. QED BY <2>1, <2>2 DEF TargetInv, Targets, Done, Due, InSync, Busy
<1>10. ASSUME NEW w \in Workers, Take(w)
      PROVE  TargetInv'
  <2>1. UNCHANGED <<local, remote, pc, kind, found, deletes, mkdirs, uploads, quiet>> /\ at[w] = "idle"
    BY <1>10 DEF Take
  <2>2. PICK d \in todo :
           /\ todo' = todo \ {d}
           /\ \/ canceled' /\ UNCHANGED skipped
              \/ skipped' = skipped \cup {d} /\ UNCHANGED <<at, job, canceled>>
              \/ /\ job' = [job EXCEPT ![w] = d]
                 /\ at' = [at EXCEPT ![w] = "create"] /\ UNCHANGED <<canceled, skipped>>
    BY <1>10 DEF Take
  <2>3. CASE canceled' /\ UNCHANGED skipped
    BY <2>1, <2>3 DEF TargetInv, Targets, Done, Due, InSync
  <2>4. CASE /\ job' = [job EXCEPT ![w] = d]
             /\ at' = [at EXCEPT ![w] = "create"] /\ UNCHANGED <<canceled, skipped>>
    <3>1. Busy(w)' /\ job'[w] = d
      BY <2>4 DEF Busy, StateOK, PoolOK
    <3>2. \A v \in Workers : Busy(v) => Busy(v)' /\ job'[v] = job[v]
      BY <2>1, <2>4 DEF Busy, StateOK, PoolOK
    <3> SUFFICES ASSUME quiet, pc \in {"delete", "mkdir", "pool", "wait"}, NEW p \in Targets \ skipped
                 PROVE  Done(p)' \/ Due(p)'
      BY <2>1, <2>4 DEF TargetInv, Targets
    <3>3. CASE Done(p)
      BY <2>1, <3>3 DEF Done, InSync
    <3>4. CASE Due(p)
      BY <2>1, <2>2, <2>4, <3>1, <3>2, <3>4 DEF Due
    <3>5. QED BY <3>3, <3>4 DEF TargetInv
  <2>5. CASE skipped' = skipped \cup {d} /\ UNCHANGED <<at, job, canceled>>
    BY <2>1, <2>2, <2>5 DEF TargetInv, Targets, Done, Due, InSync, Busy
  <2>6. QED BY <2>2, <2>3, <2>4, <2>5
<1>11. ASSUME NEW w \in Workers, WorkerEnds(w)
      PROVE  TargetInv'
  <2>1. UNCHANGED <<local, remote, pc, kind, found, deletes, mkdirs, uploads, todo, job, quiet, canceled, skipped>>
    BY <1>11 DEF WorkerEnds
  <2>2. \A v \in Workers : Busy(v) => Busy(v)'
    BY <1>11 DEF WorkerEnds, Busy, StateOK, PoolOK
  <2>3. QED BY <2>1, <2>2 DEF TargetInv, Targets, Done, Due, InSync
<1>12. ASSUME NEW w \in Workers, UploadCreate(w) \/ UploadCopy(w) \/ UploadTimes(w)
      PROVE  TargetInv'
  <2>1. UNCHANGED <<local, pc, kind, found, deletes, mkdirs, uploads, todo, skipped, quiet>> /\ Busy(w)
    BY <1>12, MoveEffect
  <2>2. PICK l \in {"off", "idle", "copy", "times"} :
           /\ at' = [at EXCEPT ![w] = l]
           /\ l = "off" => canceled'
           /\ l = "idle" => at[w] = "times"
           /\ l \in {"off", "idle"} => job' = [job EXCEPT ![w] = Root]
           /\ l \in {"copy", "times"} => UNCHANGED job
    BY <1>12, MoveEffect
  <2>3. canceled => canceled'
    BY <1>12, MoveEffect
  <2>4. \A v \in Workers \ {w} : at'[v] = at[v] /\ job'[v] = job[v]
    BY <2>2 DEF StateOK, PoolOK
  <2>5. at'[w] = l /\ (l \in {"copy", "times"} => Busy(w)' /\ job'[w] = job[w])
    BY <2>2 DEF Busy, StateOK, PoolOK
  <2>6. pc = "wait" /\ deletes = {} /\ mkdirs = {} /\ job[w] \in Paths /\ job[w] \in DOMAIN uploads
    BY <2>1, JobInPlan DEF Busy, PoolInv, PhaseInv
  <2> SUFFICES ASSUME quiet, NEW p \in Targets \ skipped PROVE Done(p)' \/ Due(p)'
    BY <2>1 DEF TargetInv, Targets
  <2>7. p \in Paths
    BY DEF Targets, StateOK, PlanOK
  <2>8. CASE p # job[w]
    <3>1. Done(p) \/ /\ p \in DOMAIN uploads
                     /\ canceled \/ p \in todo \/ \E v \in Workers \ {w} : Busy(v) /\ job[v] = p
      BY <2>6, <2>8 DEF TargetInv, Due
    <3>2. CASE Done(p)
      <4>1. CASE UploadCreate(w)
        <5>1. CASE remote'[p] = remote[p]
          BY <2>1, <2>6, <3>2, <5>1 DEF Done, InSync
        <5>2. CASE p \in Above(Parent[job[w]]) /\ remote'[p] = Dir
          <6>1. job[w] \in Below[p]
            BY <2>6, <5>2, BelowLeast DEF Above, HasContents
          <6>2. local[job[w]] # Absent
            BY <2>6, OtherNodes DEF FoundInv
          <6>3. local[p] = Dir
            BY <2>7, <2>8, <6>1, <6>2, AboveIsDir
          <6>4. QED BY <2>1, <2>6, <5>2, <6>3, OtherNodes DEF Done, InSync
        <5>3. QED BY <4>1, <2>7, <2>8, <5>1, <5>2, CreateEffect
      <4>2. CASE UploadCopy(w)
        <5>1. remote'[p] = remote[p]
          BY <4>2, <2>1, <2>6, <2>7, <2>8, CopyEffect
        <5>2. QED BY <2>1, <2>6, <3>2, <5>1 DEF Done, InSync
      <4>3. CASE UploadTimes(w)
        <5>1. remote[job[w]].type = "file"
          BY <4>3 DEF UploadTimes, PoolInv
        <5>2. remote'[p] = remote[p]
          BY <4>3, <2>6, <2>7, <2>8, <5>1, TimesEffect, SMTT(30)
        <5>3. QED BY <2>1, <2>6, <3>2, <5>2 DEF Done, InSync
      <4>4. QED BY <1>12, <4>1, <4>2, <4>3
    <3>3. CASE /\ p \in DOMAIN uploads
               /\ canceled \/ p \in todo \/ \E v \in Workers \ {w} : Busy(v) /\ job[v] = p
      BY <2>1, <2>3, <2>4, <3>3 DEF Due, Busy
    <3>4. QED BY <3>1, <3>2, <3>3
  <2>9. CASE p = job[w]
    <3>1. CASE l # "idle"
      BY <2>1, <2>2, <2>5, <2>6, <2>9, <3>1 DEF Due
    <3>2. CASE l = "idle"
      <4>1. UploadTimes(w) /\ at[w] = "times"
        BY <1>12, <2>2, <3>2 DEF UploadCreate, UploadCopy
      <4>2. remote[p].type = "file"
        BY <2>9, <4>1 DEF PoolInv
      <4>3. remote'[p] = File(remote[p].data, uploads[p])
        BY <2>5, <2>6, <2>9, <3>2, <4>1, <4>2, TimesEffect
      <4>4. local[p].type = "file" /\ local[p].time = uploads[p]
        BY <2>6, <2>9 DEF FoundInv
      <4>5. remote[p].data = local[p].data
        BY <2>1, <2>9, <4>1, <4>4 DEF UploadInv
      <4>6. local[p] = File(local[p].data, local[p].time)
        BY <2>7, <4>4, NodeCases DEF StateOK, TreesOK
      <4>7. local[p] # Absent
        BY <4>4, OtherNodes
      <4>8. QED BY <2>1, <2>6, <4>3, <4>4, <4>5, <4>6, <4>7 DEF Done, InSync
    <3>3. QED BY <3>1, <3>2
  <2>10. QED BY <2>8, <2>9
<1>13. QED
  BY <1>1, <1>2, <1>3, <1>4, <1>5, <1>6, <1>7, <1>8, <1>9, <1>10, <1>11, <1>12 DEF Next,
     Run, Sync, Upload

\* A call that returns no error has done all.
LEMMA SuccessStep ==
  ASSUME BackendAssumption, TreeAssumption, Inv, [Next]_vars
  PROVE  SuccessIsComplete'
<1> USE BackendAssumption DEF Inv, GoesOn, Returns, Begin, Proceed, Leave, Fail, plan,
   pool, call, outOfPool
<1>1. CASE EditLocal
  BY <1>1, EditEffect DEF SuccessIsComplete
<1>2. CASE FullSync \/ PushChanges \/ Cancel \/ ScanLocal \/ ListRemote \/ DeleteNext
           \/ MkdirNext
  <2>1. pc' # "idle" \/ result' # "ok"
    BY <1>2 DEF FullSync, PushChanges, Cancel, ScanLocal, ListRemote, DeleteNext, MkdirNext
  <2>2. QED BY <2>1 DEF SuccessIsComplete
<1>3. CASE StartPool
  <2>1. UNCHANGED <<local, remote, found, kind, deletes, mkdirs, quiet, skipped>> /\ pc = "pool"
    BY <1>3 DEF StartPool
  <2>2. CASE pc' # "idle"
    BY <2>2 DEF SuccessIsComplete
  <2>3. CASE pc' = "idle"
    <3>1. DOMAIN uploads = {} /\ deletes = {} /\ mkdirs = {}
      BY <1>3, <2>1, <2>3 DEF StartPool, PhaseInv
    <3>2. quiet => \A p \in Targets \ skipped : InSync(p)
      BY <2>1, <3>1 DEF TargetInv, Due, Done
    <3>3. QED BY <2>1, <3>2 DEF SuccessIsComplete, Targets, InSync
  <2>4. QED BY <2>2, <2>3
<1>4. CASE PoolReturns
  <2>1. UNCHANGED <<local, remote, found, kind, deletes, mkdirs, quiet, skipped>> /\ pc = "wait"
    BY <1>4 DEF PoolReturns
  <2>2. CASE canceled
    BY <1>4, <2>2 DEF PoolReturns, SuccessIsComplete
  <2>3. CASE ~canceled
    <3>1. \A w \in Workers : at[w] = "off"
      BY <1>4 DEF PoolReturns
    <3>2. todo = {} /\ deletes = {} /\ mkdirs = {}
      BY <2>1, <2>3, <3>1 DEF PhaseInv, PoolInv
    <3>3. quiet => \A p \in Targets \ skipped : InSync(p)
      BY <2>1, <2>3, <3>1, <3>2 DEF TargetInv, Due, Done, Busy
    <3>4. QED BY <2>1, <3>3 DEF SuccessIsComplete, Targets, InSync
  <2>4. QED BY <2>2, <2>3
<1>5. CASE \/ FeederEnds \/ UNCHANGED vars
           \/ \E w \in Workers : Take(w) \/ WorkerEnds(w)
  <2>1. UNCHANGED <<pc, result, quiet, local, remote, kind, found>> /\ skipped \subseteq skipped'
    BY <1>5 DEF FeederEnds, Take, WorkerEnds, vars
  <2>2. QED BY <2>1 DEF SuccessIsComplete, Targets, InSync
<1>6. ASSUME NEW w \in Workers, UploadCreate(w) \/ UploadCopy(w) \/ UploadTimes(w)
      PROVE  SuccessIsComplete'
  <2>1. pc' # "idle"
    BY <1>6, MoveEffect DEF Busy, PoolInv
  <2>2. QED BY <2>1 DEF SuccessIsComplete
<1>7. QED
  BY <1>1, <1>2, <1>3, <1>4, <1>5, <1>6 DEF Next, Run, Sync, Upload

\* Only what is in the way goes.
LEMMA ExtrasStep ==
  ASSUME BackendAssumption, TreeAssumption, Inv, [Next]_vars
  PROVE  \A p \in Paths :
           remote[p] # Absent /\ remote'[p] = Absent /\ kind = "full"
             => \E q \in Above(p) : q \in DOMAIN found /\ found[q].type # remote[q].type
<1> USE BackendAssumption DEF Inv, GoesOn, Returns, Begin, Proceed, Leave, Fail, plan,
   pool, call, outOfPool
<1>1. CASE EditLocal
  BY <1>1, EditEffect
<1>2. CASE \/ FullSync \/ PushChanges \/ Cancel \/ ScanLocal \/ ListRemote \/ StartPool
           \/ PoolReturns \/ FeederEnds \/ UNCHANGED vars
           \/ \E w \in Workers : Take(w) \/ WorkerEnds(w)
  <2>1. UNCHANGED remote
    BY <1>2 DEF FullSync, PushChanges, Cancel, ScanLocal, ListRemote, StartPool,
       PoolReturns, FeederEnds, Take, WorkerEnds, vars
  <2>2. QED BY <2>1
<1>3. CASE DeleteNext
  <2>1. CASE UNCHANGED remote
    BY <2>1
  <2>2. CASE \E d \in deletes, gone \in SUBSET Paths : RemoveAll(d, gone)
    <3>1. PICK d \in deletes, gone \in SUBSET Paths : RemoveAll(d, gone)
      BY <2>2
    <3>2. pc = "delete"
      BY <1>3 DEF DeleteNext
    <3> SUFFICES ASSUME NEW p \in Paths, remote[p] # Absent, remote'[p] = Absent, kind = "full"
                 PROVE  d \in Above(p) /\ d \in DOMAIN found /\ found[d].type # remote[d].type
      OBVIOUS
    <3>3. d \in Paths /\ p \in Below[d]
      BY <3>1 DEF RemoveAll, StateOK, PlanOK
    <3>4. QED BY <3>2, <3>3 DEF InTheWay, Above
  <2>3. \A d \in deletes : Below[d] \subseteq Paths
    BY BelowLeast DEF StateOK, PlanOK
  <2>4. QED BY <1>3, <2>1, <2>2, <2>3 DEF DeleteNext
<1>4. CASE MkdirNext
  BY <1>4, MkdirEffect, OtherNodes
<1>5. ASSUME NEW w \in Workers, UploadCreate(w)
      PROVE  \A p \in Paths :
           remote[p] # Absent /\ remote'[p] = Absent /\ kind = "full"
             => \E q \in Above(p) : q \in DOMAIN found /\ found[q].type # remote[q].type
  <2>1. File(Part, 0) # Absent /\ Dir # Absent
    BY DEF File, Dir, Absent
  <2>2. QED BY <1>5, <2>1, CreateEffect
<1>6. ASSUME NEW w \in Workers, UploadCopy(w)
      PROVE  \A p \in Paths :
           remote[p] # Absent /\ remote'[p] = Absent /\ kind = "full"
             => \E q \in Above(p) : q \in DOMAIN found /\ found[q].type # remote[q].type
  <2>1. \A d : File(d, 0) # Absent
    BY DEF File, Absent
  <2>2. job[w] \in Paths
    BY <1>6, MoveEffect, JobInPlan
  <2>3. QED BY <1>6, <2>1, <2>2, CopyEffect
<1>7. ASSUME NEW w \in Workers, UploadTimes(w)
      PROVE  \A p \in Paths :
           remote[p] # Absent /\ remote'[p] = Absent /\ kind = "full"
             => \E q \in Above(p) : q \in DOMAIN found /\ found[q].type # remote[q].type
  <2>1. \A d, t : File(d, t) # Absent
    BY DEF File, Absent
  <2>2. job[w] \in Paths /\ job[w] \in DOMAIN uploads
    BY <1>7, MoveEffect, JobInPlan
  <2>3. remote[job[w]].type = "file"
    BY <1>7 DEF UploadTimes, PoolInv
  <2>4. \/ remote' = remote
        \/ remote'[job[w]] = File(remote[job[w]].data, uploads[job[w]])
    BY <1>7, <2>2, <2>3, TimesEffect
  <2>5. \A q \in Paths : q # job[w] => remote'[q] = remote[q]
    BY <1>7, <2>2, <2>3, TimesEffect
  <2>6. remote'[job[w]] \in {remote[job[w]], File(remote[job[w]].data, uploads[job[w]])}
    BY <2>4
  <2>7. \A q \in Paths : remote'[q] = remote[q] \/ remote'[q] # Absent
    BY ONLY <2>1, <2>5, <2>6
  <2>8. QED BY ONLY <2>7
<1>8. QED
  BY <1>1, <1>2, <1>3, <1>4, <1>5, <1>6, <1>7 DEF Next, Run, Sync, Upload

-----------------------------------------------------------------------------
\* backend.go FullSync and PushChanges: Inv is inductive, so it holds of every behaviour.
THEOREM InvCorrect == Spec => []Inv
<1>1. Init => Inv
  <2> SUFFICES ASSUME Init PROVE Inv
    OBVIOUS
  <2>1. /\ local \in [Paths -> {Absent, Dir, File(1, 1)}] /\ IsTree(local)
        /\ remote \in [Paths -> {Absent, Dir, File(Part, 0)}] /\ IsTree(remote)
    BY DEF Init, Trees
  <2>2. 0 \in Versions /\ 1 \in Versions /\ 1 \in Contents /\ Part \in Contents /\ 0 \in Contents
    <3>1. MaxChanges \in Nat \ {0}
      BY BackendAssumption DEF BackendAssumption
    <3>2. QED BY <3>1 DEF Versions, Contents, Part
  <2>3. {Absent, Dir, File(1, 1), File(Part, 0)} \subseteq Nodes
    BY <2>2, FileNode, OtherNodes
  <2>4. TreesOK
    BY <2>1, <2>2, <2>3 DEF Init, TreesOK
  <2>5. PlanOK /\ PoolOK /\ CallOK
    <3>1. PlanOK
      BY DEF Init, PlanOK
    <3>2. PoolOK
      BY <2>2 DEF Init, PoolOK
    <3>3. CallOK
      <4>1. MaxSyncs \in Nat
        BY BackendAssumption DEF BackendAssumption
      <4>2. 0 \in 0..MaxSyncs
        BY <4>1
      <4>3. QED BY <4>2 DEF Init, CallOK
    <3>4. QED BY <3>1, <3>2, <3>3
  <2>6. ClockInv
    <3>1. Absent.type # "file" /\ Dir.type # "file" /\ File(1, 1).data = 1 /\ File(1, 1).time = 1
      BY <2>2, FileNode, OtherNodes
    <3>2. QED BY <2>1, <3>1 DEF Init, ClockInv
  <2>7. StampInv
    <3>1. Absent.type # "file" /\ Dir.type # "file" /\ File(Part, 0).time = 0
      BY <2>2, FileNode, OtherNodes
    <3>2. QED BY <2>1, <3>1 DEF Init, StampInv
  <2>8. PoolInv /\ UploadInv /\ InTheWay
    BY DEF Init, PoolInv, UploadInv, InTheWay, Busy
  <2>9. FoundInv /\ ScanInv /\ PhaseInv /\ TargetInv /\ SuccessIsComplete
    BY DEF Init, FoundInv, ScanInv, PhaseInv, TargetInv, SuccessIsComplete
  <2>10. QED BY <2>1, <2>4, <2>5, <2>6, <2>7, <2>8, <2>9 DEF Inv, StateOK
<1>2. Inv /\ [Next]_vars => Inv'
  <2> SUFFICES ASSUME Inv, [Next]_vars PROVE Inv'
    OBVIOUS
  <2> USE BackendAssumption, TreeAssumption
  <2>1. StateOK'
    BY TreesType, PlanType, PoolType, CallType DEF StateOK
  <2>2. ClockInv' /\ PoolInv' /\ UploadInv' /\ StampInv' /\ InTheWay'
    BY ClockStep, PoolStep, UploadStep, StampStep, InTheWayStep
  <2>3. IsTree(local)' /\ IsTree(remote)'
    BY TreeStep DEF IsTree
  <2>4. FoundInv' /\ ScanInv' /\ PhaseInv' /\ TargetInv' /\ SuccessIsComplete'
    BY FoundStep, ScanStep, PhaseStep, TargetStep, SuccessStep
  <2>5. QED BY <2>1, <2>2, <2>3, <2>4 DEF Inv
<1>3. QED
  BY <1>1, <1>2, PTL DEF Spec

\* backend.go FullSync and PushChanges: a call that returns no error has done all it is
\* to do, whatever failed before it and in whatever order the workers went on.
THEOREM SuccessesAreComplete == Spec => []SuccessIsComplete
<1>1. Inv => SuccessIsComplete
  BY DEF Inv
<1>2. QED
  BY <1>1, InvCorrect, PTL

\* What is set by SFTP is at most the time, and less than a second before it.
LEMMA StampedTime ==
  ASSUME BackendAssumption, NEW t \in Nat
  PROVE  Stamped(t) \in Int /\ Stamped(t) <= t /\ t < Stamped(t) + Second
<1>1. t % Second \in 0..Second - 1
  BY DEF BackendAssumption
<1>2. QED BY <1>1 DEF BackendAssumption, Stamped

\* differ.go Diff: what Diff may take for the local file has its content, but for versions
\* within the skew, and uploads that did not end.
THEOREM SameFilesAreEqual == Spec => []SameIsEqual
<1>1. Inv => SameIsEqual
  <2> SUFFICES ASSUME Inv, NEW p \in Paths, Same(local[p], remote[p]), remote[p].time # 0
               PROVE  remote[p].data = local[p].data \/ Hasty(remote[p].time, local[p].time)
    BY DEF SameIsEqual
  <2> DEFINE u == remote[p].time
             v == local[p].time
  <2>1. local[p].type = "file" /\ remote[p].type = "file" /\ Near(v, u)
    BY DEF Same
  <2>2. CASE u = v
    BY <2>1, <2>2 DEF Inv, StampInv
  <2>3. CASE u # v
    <3>1. MaxChanges \in Nat /\ Second \in Nat /\ Time \in [1..MaxChanges -> Nat]
      BY BackendAssumption DEF BackendAssumption
    <3>2. remote[p] \in Nodes /\ changes \in 0..MaxChanges
      BY DEF Inv, StateOK, TreesOK, Versions
    <3>3. u \in 1..MaxChanges
      BY <3>1, <3>2, BackendAssumption, NodeCases, SMTT(30) DEF Versions
    <3>4. v \in 1..MaxChanges
      BY <2>1, <3>1, <3>2 DEF Inv, ClockInv
    <3> HIDE DEF u, v
    <3>5. Time[u] \in Nat /\ Time[v] \in Nat
      BY <3>1, <3>3, <3>4
    <3>6. /\ Stamped(Time[u]) \in Int /\ Stamped(Time[u]) <= Time[u]
          /\ Time[u] < Stamped(Time[u]) + Second
      BY <3>5, BackendAssumption, StampedTime
    <3>7. Time[v] <= Stamped(Time[u]) + Second /\ Stamped(Time[u]) <= Time[v] + Second
      BY <2>1 DEF Near
    <3>8. Time[v] <= Time[u] + Second /\ Time[u] < Time[v] + 2 * Second
      <4>1. \A a, b, c, d \in Int : a <= c + d /\ c <= a + d /\ c <= b /\ b < c + d
                                     => a <= b + d /\ b < a + 2 * d
        OBVIOUS
      <4>2. Time[u] \in Int /\ Time[v] \in Int /\ Second \in Int
        BY <3>1, <3>5
      <4>3. QED BY <3>6, <3>7, <4>1, <4>2
    <3>9. Hasty(u, v)
      BY ONLY <2>3, <3>8 DEF Hasty
    <3>10. QED BY <3>9 DEF u, v
  <2>4. QED BY <2>2, <2>3
<1>2. QED
  BY <1>1, InvCorrect, PTL

\* backend.go selectedDeletes: a full sync without DeleteExtra removes nothing but what is
\* in the way.
THEOREM ExtrasStay == Spec => ExtrasAreKept
<1>1. Inv /\ [Next]_vars =>
        [\A p \in Paths :
           remote[p] # Absent /\ remote'[p] = Absent /\ kind = "full"
             => \E q \in Above(p) : q \in DOMAIN found /\ found[q].type # remote[q].type]_vars
  BY ExtrasStep, BackendAssumption, TreeAssumption
<1>2. QED
  BY <1>1, InvCorrect, PTL DEF Spec, ExtrasAreKept
=============================================================================
