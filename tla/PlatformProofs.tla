---------------------------- MODULE PlatformProofs ----------------------------
(***************************************************************************)
(* The two components that live on what the operating system hands them:   *)
(* the watcher, for any tree, and one primary instance, for any number of  *)
(* processes.                                                              *)
(***************************************************************************)
EXTENDS Watcher, SingleInstance, TLAPS

-----------------------------------------------------------------------------
(***************************************************************************)
(* The watcher.                                                            *)
(***************************************************************************)
\* Below[p] is the least set that has p and what is in what it has.
LEMMA BelowLeast ==
  ASSUME NEW p \in Paths
  PROVE  /\ Below[p] \subseteq Paths
         /\ \A S \in SUBSET Paths : p \in S /\ HasContents(S) => Below[p] \subseteq S
BY DEF Below

\* A path is below itself, and with it what is in it.
LEMMA InBelow ==
  ASSUME NEW p \in Paths
  PROVE  /\ p \in Below[p]
         /\ \A x \in Below[p], y \in Paths : Parent[y] = x => y \in Below[p]
<1>1. p \in Below[p]
  BY DEF Below
<1>2. ASSUME NEW x \in Below[p], NEW y \in Paths, Parent[y] = x PROVE y \in Below[p]
  <2>1. ASSUME NEW S \in SUBSET Paths, p \in S, HasContents(S) PROVE y \in S
    <3>1. x \in S
      BY <2>1 DEF Below
    <3>2. QED BY <1>2, <2>1, <3>1 DEF HasContents
  <2>2. QED BY <2>1 DEF Below
<1>3. QED BY <1>1, <1>2

\* Below what is not there there is nothing.
LEMMA NothingBelow ==
  ASSUME TreeAssumption, TreeInv, NEW p \in Paths, tree[p] = 0, NEW q \in Below[p]
  PROVE  tree[q] = 0
<1> DEFINE S == {x \in Paths : tree[x] = 0}
<1>1. HasContents(S)
  <2> SUFFICES ASSUME NEW x \in Paths, Parent[x] \in S PROVE tree[x] = 0
    BY DEF HasContents
  <2>1. Parent[x] # Root
    BY DEF TreeAssumption
  <2>2. ~Exists(Parent[x])
    BY <2>1 DEF Exists
  <2>3. QED BY <2>2 DEF TreeInv
<1>2. QED
  BY <1>1, BelowLeast

\* What the engine knows after a batch is well-typed.
LEMMA ToldType ==
  ASSUME WatchTypeOK, TreeAssumption, NEW s \in [Paths -> Versions], NEW b \in Batches
  PROVE  Told(s, b) \in [Paths -> Versions]
<1>1. 0 \in Versions
  BY DEF Versions, TreeAssumption
<1>2. \A p \in DOMAIN b : b[p] \in Versions
  BY DEF Batches
<1>3. QED BY <1>1, <1>2 DEF Told

\* No batch is a batch of nothing.
LEMMA NoBatchType == NoBatch \in Batches
<1>1. NoBatch \in [{} -> Versions]
  BY DEF NoBatch
<1>2. QED BY <1>1 DEF Batches

\* No batch tells nothing.
LEMMA ToldNothing ==
  ASSUME NEW s \in [Paths -> Versions]
  PROVE  Told(s, NoBatch) = s
<1>1. DOMAIN NoBatch = {}
  BY DEF NoBatch
<1>2. QED BY <1>1 DEF Told

\* Appending keeps what is queued, taking the head keeps all but that.
LEMMA QueueChanges ==
  ASSUME WatchTypeOK, NEW p \in Paths, Queued(p)
  PROVE  /\ \A q \in Paths : events' = Append(events, q) => Queued(p)'
         /\ events # <<>> /\ events' = Tail(events) => Queued(p)' \/ p = Head(events)
<1>1. events \in Seq(Paths)
  BY DEF WatchTypeOK
<1>2. PICK i \in 1..Len(events) : events[i] = p
  BY <1>1 DEF Queued
<1>3. ASSUME NEW q \in Paths, events' = Append(events, q) PROVE Queued(p)'
  BY <1>1, <1>2, <1>3 DEF Queued
<1>4. ASSUME events # <<>>, events' = Tail(events) PROVE Queued(p)' \/ p = Head(events)
  <2>1. CASE i = 1
    BY <1>1, <1>2, <2>1
  <2>2. CASE i # 1
    <3>1. i - 1 \in DOMAIN events' /\ events'[i - 1] = p
      BY <1>1, <1>2, <1>4, <2>2
    <3>2. QED BY <3>1 DEF Queued
  <2>3. QED BY <2>1, <2>2
<1>5. QED BY <1>3, <1>4

\* What was appended is queued.
LEMMA QueueAppend ==
  ASSUME WatchTypeOK, NEW p \in Paths, events' = Append(events, p)
  PROVE  Queued(p)'
<1>1. events \in Seq(Paths)
  BY DEF WatchTypeOK
<1>2. Len(events) + 1 \in DOMAIN events' /\ events'[Len(events) + 1] = p
  BY <1>1
<1>3. QED BY <1>2 DEF Queued

\* What a change does, made or vanished.
LEMMA ChangeEffect ==
  ASSUME TreeAssumption, WatchTypeOK, NEW p \in Paths, Make(p) \/ Vanish(p)
  PROVE  \E v \in Versions :
           /\ tree' = [tree EXCEPT ![p] = v] /\ changes' \in Versions
           /\ \/ Make(p) /\ v # 0 /\ watched' = watched
              \/ Vanish(p) /\ v = 0 /\ watched' = watched \ {p}
           /\ \/ /\ events' = Append(events, p) /\ blind' = blind \ {p} /\ Len(events) < MaxQueue
                 /\ lost' = lost \ {p}
              \/ /\ events' = events /\ blind' = blind \cup {p}
                 /\ \/ lost' = lost \ {p} /\ Parent[p] \notin watched \cup lost
                    \/ lost' = lost \cup {p}
           /\ UNCHANGED <<walk, pending, timer, batch, batches, over, seen, dropped>>
<1>1. changes' = changes + 1 /\ changes' \in Versions /\ changes' # 0 /\ 0 \in Versions
  BY DEF Make, Vanish, Change, WatchTypeOK, Versions, TreeAssumption
<1>2. CASE Make(p)
  BY <1>1, <1>2 DEF Make, Change, out
<1>3. CASE Vanish(p)
  BY <1>1, <1>3 DEF Vanish, Change, out
<1>4. QED BY <1>2, <1>3

\* The types.
LEMMA WatchTypeStep ==
  ASSUME TreeAssumption, WatchTypeOK, [WatchNext]_watchVars
  PROVE  WatchTypeOK'
<1> USE TreeAssumption DEF TreeAssumption, WatchTypeOK, disk, out
<1>1. ASSUME NEW p \in Paths, Make(p) \/ Vanish(p) PROVE WatchTypeOK'
  <2>1. PICK v \in Versions :
          /\ tree' = [tree EXCEPT ![p] = v] /\ changes' \in Versions
          /\ watched' = watched \/ watched' = watched \ {p}
          /\ \/ events' = Append(events, p) /\ blind' = blind \ {p} /\ Len(events) < MaxQueue
             \/ events' = events /\ blind' = blind \cup {p}
          /\ lost' \subseteq lost \cup {p}
          /\ UNCHANGED <<walk, pending, timer, batch, batches, over, seen, dropped>>
    BY ONLY <1>1, ChangeEffect, TreeAssumption, WatchTypeOK
  <2>2. events \in Seq(Paths) /\ Len(events) \in Nat /\ MaxQueue \in Nat
    OBVIOUS
  <2>3. Append(events, p) \in Seq(Paths) /\ Len(Append(events, p)) = Len(events) + 1
    BY <2>2
  <2>4. events' \in Seq(Paths) /\ Len(events') <= MaxQueue
    <3>1. CASE events' = Append(events, p) /\ Len(events) < MaxQueue
      <4>1. Len(events) + 1 <= MaxQueue
        BY <2>2, <3>1
      <4>2. QED BY <2>3, <3>1, <4>1
    <3>2. CASE events' = events
      BY <3>2
    <3>3. QED BY <2>1, <3>1, <3>2
  <2>5. tree' \in [Paths -> Versions] /\ watched' \subseteq Dirs \cup {Root} /\ blind' \subseteq Paths
        /\ lost' \subseteq Paths
    BY <2>1
  <2>6. QED BY <2>1, <2>4, <2>5
<1>2. CASE TakeEvent
  <2>1. Head(events) \in Paths /\ events' \in Seq(Paths) /\ Len(events') <= MaxQueue
    <3>1. events \in Seq(Paths) /\ events # <<>> /\ events' = Tail(events) /\ MaxQueue \in Nat
      BY <1>2 DEF TakeEvent
    <3> HIDE DEF TreeAssumption, WatchTypeOK
    <3>2. Head(events) \in Paths /\ Tail(events) \in Seq(Paths)
      BY <3>1
    <3>3. Len(Tail(events)) = Len(events) - 1 /\ Len(events) \in Nat
      BY <3>1
    <3>4. Len(events) <= MaxQueue
      BY DEF WatchTypeOK
    <3>5. QED BY <3>1, <3>2, <3>3, <3>4
  <2>2. /\ walk' \subseteq {"add", "list"} \X (Dirs \ Excluded)
        /\ pending' \subseteq Paths \ Excluded /\ timer' \in BOOLEAN /\ lost' \subseteq Paths
    <3> DEFINE p == Head(events)
    <3>1. \/ UNCHANGED <<walk, pending, timer, lost>>
          \/ /\ p \notin Excluded /\ pending' = pending \cup {p} /\ timer' = TRUE
             /\ walk' = {} \/ (p \in Dirs /\ walk' = {<<"add", p>>})
             /\ lost' \subseteq lost \cup Dirs
      <4>2. CASE p \notin Excluded
        <5>1. \/ walk' = (IF p \in Dirs /\ Exists(p) THEN {<<"add", p>>} ELSE {}) /\ UNCHANGED lost
              \/ walk' = {} /\ lost' = lost \cup Unwatched({p})
          BY <1>2, <4>2 DEF TakeEvent
        <5>2. pending' = pending \cup {p}
          BY <1>2, <4>2 DEF TakeEvent
        <5>3. timer' = TRUE
          BY <1>2, <4>2 DEF TakeEvent
        <5>4. /\ walk' = {} \/ (p \in Dirs /\ walk' = {<<"add", p>>})
              /\ lost' \subseteq lost \cup Dirs
          BY <5>1 DEF Unwatched
        <5>5. QED BY <4>2, <5>2, <5>3, <5>4
      <4>3. CASE p \in Excluded
        BY <1>2, <4>3 DEF TakeEvent
      <4>4. QED BY <4>2, <4>3
    <3>2. p \in Paths
      BY <2>1
    <3> HIDE DEF p
    <3>3. CASE UNCHANGED <<walk, pending, timer, lost>>
      BY <3>3
    <3>4. CASE p \notin Excluded /\ pending' = pending \cup {p} /\ timer' = TRUE
               /\ (walk' = {} \/ (p \in Dirs /\ walk' = {<<"add", p>>}))
               /\ lost' \subseteq lost \cup Dirs
      BY <3>2, <3>4 DEF Paths
    <3>5. QED BY <3>1, <3>3, <3>4
  <2>3. QED BY <1>2, <2>1, <2>2 DEF TakeEvent
<1>3. CASE WalkAdd
  <2>1. PICK d \in Dirs :
          /\ <<"add", d>> \in walk
          /\ \/ /\ watched' = watched \cup {d} /\ pending' = pending \cup {d} /\ blind' = blind \ {d}
                /\ walk' = (walk \ {<<"add", d>>}) \cup {<<"list", d>>} /\ lost' = lost \ {d}
             \/ walk' = {} /\ lost' \subseteq lost \cup Dirs /\ UNCHANGED <<watched, pending, blind>>
    BY <1>3 DEF WalkAdd, WalkEnds, Unwatched
  <2>2. d \in Paths \ Excluded
    BY <2>1 DEF Paths
  <2>3. UNCHANGED <<tree, changes, events, timer, batch, batches, over, seen, dropped>>
    BY <1>3 DEF WalkAdd
  <2>4. walk' \subseteq {"add", "list"} \X (Dirs \ Excluded)
    BY <2>1, <2>2
  <2>5. watched' \subseteq Dirs \cup {Root} /\ pending' \subseteq Paths \ Excluded /\ blind' \subseteq Paths
        /\ lost' \subseteq Paths
    BY <2>1, <2>2 DEF Paths
  <2>6. QED BY <2>3, <2>4, <2>5
<1>4. CASE WalkList
  <2>1. walk' \subseteq {"add", "list"} \X (Dirs \ Excluded) /\ lost' \subseteq lost \cup Dirs
    BY <1>4 DEF WalkList, WalkEnds, Unwatched
  <2>2. UNCHANGED <<tree, changes, watched, events, blind, pending, timer, batch, batches, over, seen, dropped>>
    BY <1>4 DEF WalkList
  <2>3. QED BY <2>1, <2>2 DEF Paths
<1>5. CASE TimerFires
  <2>1. PICK failed \in SUBSET pending :
          batch' = [p \in pending \ failed |-> tree[p]] /\ dropped' = (dropped \ pending) \cup failed
    BY <1>5 DEF TimerFires
  <2>2. pending \ failed \in SUBSET Paths /\ batch' \in [pending \ failed -> Versions]
    BY <2>1
  <2> DEFINE B == pending \ failed
  <2>3. B \in SUBSET Paths /\ batch' \in [B -> Versions]
    BY <2>2
  <2> HIDE DEF B
  <2>4. batch' \in Batches
    BY ONLY <2>3 DEF Batches
  <2>5. dropped' \subseteq Paths
    BY <2>1
  <2>6. QED BY <1>5, <2>4, <2>5 DEF TimerFires
<1>6. CASE Emit
  BY <1>6, NoBatchType DEF Emit
<1>7. CASE Cancel
  BY <1>7 DEF Cancel
<1>8. CASE Receive
  <2>1. Head(batches) \in Batches
    BY <1>8 DEF Receive
  <2>2. seen' \in [Paths -> Versions]
    BY <1>8, <2>1, ToldType DEF Receive
  <2>3. QED BY <1>8, <2>2 DEF Receive
<1>9. CASE UNCHANGED watchVars
  BY <1>9 DEF watchVars
<1>10. QED
  BY <1>1, <1>2, <1>3, <1>4, <1>5, <1>6, <1>7, <1>8, <1>9 DEF WatchNext, Run

\* The tree.
LEMMA WatchTreeStep ==
  ASSUME TreeAssumption, WatchTypeOK, TreeInv, [WatchNext]_watchVars
  PROVE  TreeInv'
<1>1. ASSUME NEW p \in Paths, Make(p) PROVE TreeInv'
  BY <1>1, ChangeEffect DEF TreeInv, WatchTypeOK, Exists, Make
<1>2. ASSUME NEW p \in Paths, Vanish(p) PROVE TreeInv'
  <2>1. tree' = [tree EXCEPT ![p] = 0]
    BY <1>2 DEF Vanish, Change
  <2>2. \A q \in Paths : Parent[q] = p => tree[q] = 0
    BY <1>2 DEF Vanish, Under, Exists
  <2>3. ASSUME NEW q \in Paths, tree'[q] # 0 PROVE Exists(Parent[q])'
    <3>1. tree[q] # 0
      BY <2>1, <2>3 DEF WatchTypeOK
    <3>2. Parent[q] # p /\ Exists(Parent[q])
      BY <2>2, <3>1 DEF TreeInv
    <3>3. QED BY <2>1, <3>2 DEF WatchTypeOK, Exists
  <2>4. QED BY <2>3 DEF TreeInv
<1>3. CASE UNCHANGED tree
  BY <1>3 DEF TreeInv, Exists
<1>4. Run \/ Cancel \/ Receive \/ UNCHANGED watchVars => UNCHANGED tree
  BY DEF Run, TakeEvent, WalkAdd, WalkList, TimerFires, Emit, Cancel, Receive, disk, watchVars
<1>5. QED
  BY <1>1, <1>2, <1>3, <1>4 DEF WatchNext

\* A path is told of, or a name for it is somewhere.
LEMMA ToldStep ==
  ASSUME TreeAssumption, WatchTypeOK, TreeInv, ToldInv, [WatchNext]_watchVars
  PROVE  ToldInv'
<1> USE DEF disk, out
<1>1. ASSUME NEW p \in Paths, Make(p) \/ Vanish(p) PROVE ToldInv'
  <2> SUFFICES ASSUME NEW q \in Paths \ (Excluded \cup blind' \cup dropped')
               PROVE  Coming'[q] = tree'[q] \/ Queued(q)' \/ q \in pending'
    BY DEF ToldInv
  <2>1. Coming' = Coming /\ pending' = pending
    BY <1>1, ChangeEffect DEF Coming
  <2>2. CASE q = p
    BY <1>1, <2>2, ChangeEffect, QueueAppend
  <2>3. CASE q # p
    <3>1. tree'[q] = tree[q] /\ q \notin blind \cup dropped
      BY <1>1, <2>3, ChangeEffect DEF WatchTypeOK
    <3>2. Queued(q) => Queued(q)'
      <4>1. CASE events' = events
        BY <4>1 DEF Queued
      <4>2. QED BY <1>1, <4>1, ChangeEffect, QueueChanges
    <3>3. QED BY <2>1, <3>1, <3>2 DEF ToldInv
  <2>4. QED BY <2>2, <2>3
<1>2. CASE TakeEvent
  <2>1. Coming' = Coming /\ tree' = tree /\ blind' = blind /\ dropped' = dropped
    BY <1>2 DEF TakeEvent, Coming
  <2>2. \A q \in Paths : Queued(q) => Queued(q)' \/ q = Head(events)
    BY <1>2, QueueChanges DEF TakeEvent
  <2>3. pending \subseteq pending' /\ (Head(events) \notin Excluded => Head(events) \in pending')
    BY <1>2 DEF TakeEvent
  <2>4. QED BY <2>1, <2>2, <2>3 DEF ToldInv
<1>3. CASE WalkAdd
  <2>1. Coming' = Coming /\ tree' = tree /\ events' = events /\ dropped' = dropped
    BY <1>3 DEF WalkAdd, Coming
  <2>2. pending \subseteq pending' /\ \A q \in blind : q \in blind' \/ q \in pending'
    BY <1>3 DEF WalkAdd
  <2>3. QED BY <2>1, <2>2 DEF ToldInv, Queued
<1>4. CASE WalkList \/ Cancel \/ UNCHANGED watchVars
  <2>1. UNCHANGED <<tree, events, blind, pending, seen, batch, batches, dropped>>
    BY <1>4 DEF WalkList, Cancel, watchVars
  <2>2. QED BY <2>1 DEF ToldInv, Coming, Queued
<1>5. CASE TimerFires
  <2> DEFINE s == IF batches = <<>> THEN seen ELSE Told(seen, Head(batches))
  <2>1. s \in [Paths -> Versions]
    BY ToldType DEF WatchTypeOK
  <2>2. PICK failed \in SUBSET pending :
          batch' = [p \in pending \ failed |-> tree[p]] /\ dropped' = (dropped \ pending) \cup failed
    BY <1>5 DEF TimerFires
  <2>3. batch = NoBatch /\ UNCHANGED <<tree, events, blind, seen, batches>>
    BY <1>5 DEF TimerFires, Free
  <2> HIDE DEF s
  <2>4. Coming = s /\ Coming' = Told(s, batch')
    BY <2>1, <2>3, ToldNothing DEF Coming, s
  <2>5. ASSUME NEW q \in Paths \ (Excluded \cup blind \cup dropped')
        PROVE  Coming'[q] = tree[q] \/ Queued(q)
    <3>1. CASE q \in pending
      <4>1. q \in DOMAIN batch' /\ batch'[q] = tree[q]
        BY <2>2, <2>5, <3>1
      <4>2. QED BY <2>4, <4>1 DEF Told
    <3>2. CASE q \notin pending /\ s[q] = tree[q]
      <4>1. \A p \in pending : tree[p] = 0 /\ q \in Below[p] => tree[q] = 0
        BY NothingBelow DEF WatchTypeOK
      <4>2. /\ q \notin DOMAIN batch'
            /\ \A p \in DOMAIN batch' : p \in pending /\ batch'[p] = tree[p]
        BY <2>2, <3>2
      <4>3. /\ Coming'[q] \in {0, s[q]}
            /\ Coming'[q] # s[q] => \E p \in pending : tree[p] = 0 /\ q \in Below[p]
        BY <2>4, <4>2 DEF Told
      <4>4. QED BY <3>2, <4>1, <4>3
    <3>3. q \notin pending => q \notin dropped
      BY <2>2, <2>5
    <3>4. QED BY <2>4, <3>1, <3>2, <3>3 DEF ToldInv
  <2>6. QED BY <2>3, <2>5 DEF ToldInv, Queued
<1>6. CASE Emit
  <2>1. batches = <<>> /\ batches' = <<batch>> /\ batch' = NoBatch
        /\ UNCHANGED <<tree, events, blind, pending, seen, dropped>>
    BY <1>6 DEF Emit
  <2>2. Told(seen, batch) \in [Paths -> Versions]
    BY ToldType DEF WatchTypeOK
  <2>3. Coming' = Coming
    BY <2>1, <2>2, ToldNothing DEF Coming
  <2>4. QED BY <2>1, <2>3 DEF ToldInv, Queued
<1>7. CASE Receive
  <2>1. batches # <<>> /\ batches' = <<>> /\ seen' = Told(seen, Head(batches))
        /\ UNCHANGED <<tree, events, blind, pending, batch, dropped>>
    BY <1>7 DEF Receive
  <2>2. Coming' = Coming
    BY <2>1 DEF Coming
  <2>3. QED BY <2>1, <2>2 DEF ToldInv, Queued
<1>8. QED
  BY <1>1, <1>2, <1>3, <1>4, <1>5, <1>6, <1>7 DEF WatchNext, Run

\* A walk that ends leaves no directory with a name in it that is not lost.
LEMMA CutStep ==
  ASSUME TreeAssumption, WatchTypeOK, WatchedInv, NEW S \in SUBSET Paths,
         \A t \in walk : t[2] \in S, lost' = lost \cup Unwatched(S), UNCHANGED <<tree, watched>>,
         \A d \in Paths : Queued(d) => Queued(d)' \/ d \in S
  PROVE  WatchedInv'
<1> SUFFICES ASSUME NEW d \in Dirs \ (Excluded \cup lost'), Exists(d)', d \notin watched'
             PROVE  Queued(d)' \/ Parent[d] \notin watched' \cup lost'
  BY DEF WatchedInv
<1>1. d \in Paths /\ d \notin lost /\ Exists(d) /\ d \notin watched
  BY DEF Paths, Exists
<1>2. \A x \in S : d \notin Below[x]
  BY <1>1 DEF Unwatched
<1>3. d \notin S /\ Parent[d] \notin S
  BY <1>1, <1>2, InBelow
<1>4. <<"add", d>> \notin walk /\ <<"list", Parent[d]>> \notin walk
  BY <1>3
<1>5. CASE Queued(d)
  BY <1>1, <1>3, <1>5
<1>6. CASE Parent[d] \notin watched \cup lost
  <2>1. Parent[d] \notin Unwatched(S)
    BY <1>1, <1>2, InBelow DEF Unwatched
  <2>2. QED BY <1>6, <2>1
<1>7. QED BY <1>1, <1>4, <1>5, <1>6 DEF WatchedInv

\* A directory is watched, or will be.
LEMMA WatchedStep ==
  ASSUME TreeAssumption, WatchTypeOK, TreeInv, WatchedInv, [WatchNext]_watchVars
  PROVE  WatchedInv'
<1> DEFINE Found(d) == \/ d \in watched \/ Queued(d)
                       \/ <<"add", d>> \in walk \/ <<"list", Parent[d]>> \in walk
                       \/ Parent[d] \notin watched \cup lost
<1>0. /\ Root \in watched /\ Root \notin Dirs
      /\ \A d \in Dirs \ (Excluded \cup lost) : Exists(d) => Found(d)
  BY DEF WatchedInv, TreeAssumption, Paths
<1>1. ASSUME NEW p \in Paths, Make(p) \/ Vanish(p) PROVE WatchedInv'
  <2>1. Root \in watched'
    BY <1>0, <1>1, ChangeEffect DEF TreeAssumption
  <2>2. ASSUME NEW d \in Dirs \ (Excluded \cup lost'), Exists(d)' PROVE Found(d)'
    <3>1. d \in Paths
      BY DEF Paths
    <3>2. CASE d = p
      <4>1. Make(p)
        BY <1>1, <2>2, <3>2, ChangeEffect DEF Exists, TreeAssumption, WatchTypeOK
      <4>2. watched' = watched
        BY <4>1 DEF Make
      <4>3. \/ events' = Append(events, p)
            \/ lost' = lost \ {p} /\ Parent[p] \notin watched \cup lost
        BY <1>1, <2>2, <3>2, ChangeEffect
      <4>4. QED BY <3>2, <4>2, <4>3, QueueAppend
    <3>3. CASE d # p
      <4>1. Exists(d) /\ d \notin lost /\ (d \in watched => d \in watched') /\ walk' = walk
        BY <1>1, <2>2, <3>1, <3>3, ChangeEffect DEF WatchTypeOK, Exists
      <4>2. Queued(d) => Queued(d)'
        <5>1. CASE events' = events
          BY <5>1 DEF Queued
        <5>2. QED BY <1>1, <3>1, <5>1, ChangeEffect, QueueChanges
      <4>3. Parent[d] # p
        <5>1. Exists(Parent[d]) /\ (Parent[d] = p => p \in Dirs)
          BY <3>1, <4>1 DEF TreeInv, TreeAssumption, Exists
        <5>2. QED BY <1>1, <3>1, <4>1, <5>1 DEF Make, Vanish, Under
      <4>4. Parent[d] \notin watched \cup lost => Parent[d] \notin watched' \cup lost'
        BY <1>1, <4>3, ChangeEffect
      <4>5. Found(d)
        BY <1>0, <4>1
      <4>6. QED BY <4>1, <4>2, <4>4, <4>5
    <3>4. QED BY <3>2, <3>3
  <2>3. QED BY <2>1, <2>2 DEF WatchedInv
<1>2. CASE TakeEvent
  <2>1. UNCHANGED <<tree, watched>> /\ walk = {} /\ Head(events) \in Paths
    BY <1>2 DEF TakeEvent, Free, WatchTypeOK
  <2>2. \A d \in Paths : Queued(d) => Queued(d)' \/ d = Head(events)
    BY <1>2, QueueChanges DEF TakeEvent
  <2>3. CASE walk' = {} /\ lost' = lost \cup Unwatched({Head(events)})
    BY <2>1, <2>2, <2>3, CutStep
  <2>4. CASE UNCHANGED lost /\ (Head(events) \in Dirs \ Excluded /\ Exists(Head(events))
                                => walk' = {<<"add", Head(events)>>})
    <3> SUFFICES ASSUME NEW d \in Dirs \ (Excluded \cup lost), Exists(d) PROVE Found(d)'
      BY <1>0, <2>1, <2>4 DEF WatchedInv, Exists
    <3>1. d \in Paths
      BY DEF Paths
    <3>2. CASE Queued(d)
      BY <2>2, <2>4, <3>1, <3>2
    <3>3. QED BY <1>0, <2>1, <2>4, <3>2
  <2>5. QED BY <1>2, <2>3, <2>4 DEF TakeEvent
<1>3. ASSUME WalkEnds, UNCHANGED <<tree, watched, events>> PROVE WatchedInv'
  <2>1. {t[2] : t \in walk} \in SUBSET Paths
    BY DEF WatchTypeOK, Paths
  <2>2. \A d \in Paths : Queued(d) => Queued(d)'
    BY <1>3 DEF Queued
  <2>3. \A t \in walk : t[2] \in {u[2] : u \in walk}
    OBVIOUS
  <2>4. lost' = lost \cup Unwatched({t[2] : t \in walk})
    BY <1>3 DEF WalkEnds
  <2>5. QED BY <1>3, <2>1, <2>2, <2>3, <2>4, CutStep
<1>4. CASE WalkAdd
  <2>1. PICK e \in Dirs :
          \/ /\ watched' = watched \cup {e} /\ lost' = lost \ {e}
             /\ walk' = (walk \ {<<"add", e>>}) \cup {<<"list", e>>}
          \/ WalkEnds /\ UNCHANGED watched
    BY <1>4 DEF WalkAdd
  <2>2. UNCHANGED <<tree, events>>
    BY <1>4 DEF WalkAdd
  <2>3. CASE watched' = watched \cup {e} /\ lost' = lost \ {e}
             /\ walk' = (walk \ {<<"add", e>>}) \cup {<<"list", e>>}
    <3>1. ASSUME NEW d \in Dirs \ (Excluded \cup lost'), Exists(d)' PROVE Found(d)'
      <4>1. CASE d = e
        BY <2>3, <4>1
      <4>2. CASE d # e
        <5>1. Found(d)
          BY <1>0, <2>2, <2>3, <3>1, <4>2 DEF Exists
        <5>2. QED BY <2>2, <2>3, <4>2, <5>1 DEF Queued
      <4>3. QED BY <4>1, <4>2
    <3>2. QED BY <1>0, <2>3, <3>1 DEF WatchedInv
  <2>4. QED BY <1>3, <2>1, <2>2, <2>3
<1>5. CASE WalkList
  <2>1. PICK e \in Dirs :
          \/ /\ UNCHANGED lost
             /\ walk' = (walk \ {<<"list", e>>})
                          \cup {<<"add", x>> : x \in {y \in Under(e) \cap Dirs : Exists(y) /\ y \notin Excluded}}
          \/ WalkEnds
    BY <1>5 DEF WalkList
  <2>2. UNCHANGED <<tree, events, watched>>
    BY <1>5 DEF WalkList, disk
  <2>3. CASE /\ UNCHANGED lost
             /\ walk' = (walk \ {<<"list", e>>})
                          \cup {<<"add", x>> : x \in {y \in Under(e) \cap Dirs : Exists(y) /\ y \notin Excluded}}
    <3>1. ASSUME NEW d \in Dirs \ (Excluded \cup lost), Exists(d) PROVE Found(d)'
      <4>1. CASE Parent[d] = e
        <5>1. d \in Under(e) \cap Dirs
          BY <4>1 DEF Under, Paths
        <5>2. <<"add", d>> \in walk'
          BY <2>3, <3>1, <5>1
        <5>3. QED BY <5>2
      <4>2. CASE Parent[d] # e
        <5>1. Found(d)
          BY <1>0, <3>1
        <5>2. /\ <<"add", d>> \in walk => <<"add", d>> \in walk'
              /\ <<"list", Parent[d]>> \in walk => <<"list", Parent[d]>> \in walk'
          BY <2>3, <4>2
        <5>3. QED BY <2>2, <2>3, <5>1, <5>2 DEF Queued
      <4>3. QED BY <4>1, <4>2
    <3>2. QED BY <1>0, <2>2, <2>3, <3>1 DEF WatchedInv, Exists
  <2>4. QED BY <1>3, <2>1, <2>2, <2>3
<1>6. CASE TimerFires \/ Emit \/ Cancel \/ Receive \/ UNCHANGED watchVars
  <2>1. UNCHANGED <<tree, events, watched, walk, lost>>
    BY <1>6 DEF TimerFires, Emit, Cancel, Receive, watchVars, disk
  <2>2. QED BY <2>1 DEF WatchedInv, Exists, Queued
<1>7. QED
  BY <1>1, <1>2, <1>4, <1>5, <1>6 DEF WatchNext, Run

-----------------------------------------------------------------------------
\* watcher.go run: the invariant of the watcher is inductive.
THEOREM WatchInvCorrect == WatchSpec => []WatchInv
<1>1. WatchInit => WatchInv
  <2> SUFFICES ASSUME WatchInit PROVE WatchInv
    OBVIOUS
  <2>1. 0 \in Versions /\ 1 \in Versions /\ NoBatch \in Batches
    BY TreeAssumption, NoBatchType DEF TreeAssumption, Versions
  <2>2. tree \in [Paths -> {0, 1}] /\ \A p \in Paths : tree[p] = 1 /\ Parent[p] # Root => tree[Parent[p]] = 1
    BY DEF WatchInit
  <2>3. WatchTypeOK
    <3>1. tree \in [Paths -> Versions] /\ changes \in Versions /\ seen = tree
      BY <2>1, <2>2 DEF WatchInit
    <3>2. watched \subseteq Dirs \cup {Root} /\ walk = {} /\ pending = {} /\ blind = {} /\ lost = {} /\ dropped = {}
          /\ timer = FALSE /\ over = FALSE /\ batch = NoBatch /\ batches = <<>> /\ events = <<>>
      BY DEF WatchInit
    <3>3. <<>> \in Seq(Paths) /\ Len(<<>>) <= MaxQueue
      BY TreeAssumption DEF TreeAssumption
    <3>4. QED BY <2>1, <3>1, <3>2, <3>3 DEF WatchTypeOK
  <2>4. TreeInv
    BY <2>2, TreeAssumption DEF TreeInv, Exists, Paths, TreeAssumption
  <2>5. ToldInv
    <3>1. Coming = seen
      BY <2>3, ToldNothing DEF Coming, WatchInit, WatchTypeOK
    <3>2. QED BY <3>1 DEF ToldInv, WatchInit
  <2>6. WatchedInv
    BY <2>2, TreeAssumption DEF WatchedInv, WatchInit, Exists, Paths, TreeAssumption
  <2>7. QED BY <2>3, <2>4, <2>5, <2>6 DEF WatchInv
<1>2. WatchInv /\ [WatchNext]_watchVars => WatchInv'
  BY TreeAssumption, WatchTypeStep, WatchTreeStep, ToldStep, WatchedStep DEF WatchInv
<1>3. QED
  BY <1>1, <1>2, PTL DEF WatchSpec

\* watcher.go run, addRecursive and resolve: once all is handed over the engine was told of
\* every change that a watch could see, but for those that resolve could not look up.
THEOREM ChangesAreTold == WatchSpec => []ToldOfChanges
<1>1. WatchInv => ToldOfChanges
  <2> SUFFICES ASSUME WatchInv, Quiet, NEW p \in Paths \ (Excluded \cup blind \cup dropped)
               PROVE  seen[p] = tree[p]
    BY DEF ToldOfChanges
  <2>1. Coming = seen
    BY ToldNothing DEF Quiet, Coming, WatchInv, WatchTypeOK
  <2>2. ~Queued(p) /\ p \notin pending
    BY DEF Quiet, Queued
  <2>3. QED BY <2>1, <2>2 DEF WatchInv, ToldInv
<1>2. QED
  BY <1>1, WatchInvCorrect, PTL

\* watcher.go addRecursive: then every directory has its watch, but for those made when the
\* queue was full and those a walk that was cut short passed over.  The directories without
\* one would each be in another, which is not how a tree is.
THEOREM NewDirsAreWatched == WatchSpec => []NewDirsWatched
<1>1. WatchInv => NewDirsWatched
  <2> SUFFICES ASSUME WatchInv, Quiet PROVE NewDirsWatched
    BY DEF NewDirsWatched
  <2> DEFINE S == {d \in Dirs \ (Excluded \cup lost) : Exists(d) /\ d \notin watched}
  <2>1. ASSUME NEW d \in S PROVE Parent[d] \in S
    <3>1. d \in Paths /\ Parent[d] \in Dirs \cup {Root}
      BY TreeAssumption DEF TreeAssumption, Paths
    <3>2. ~Queued(d) /\ walk = {}
      BY DEF Quiet, Queued
    <3>3. Root \in watched /\ Parent[d] \notin watched \cup lost
      BY <3>2 DEF WatchInv, WatchedInv
    <3>4. Exists(Parent[d])
      BY <3>1, TreeAssumption DEF WatchInv, TreeInv, Exists, TreeAssumption
    <3>5. Parent[d] \notin Excluded
      BY <3>1, TreeAssumption DEF TreeAssumption
    <3>6. QED BY <3>1, <3>3, <3>4, <3>5
  <2>2. S \in SUBSET Paths
    BY DEF Paths
  <2> HIDE DEF S
  <2>3. S = {}
    BY <2>1, <2>2, TreeAssumption DEF TreeAssumption
  <2>4. QED BY <2>3 DEF S, NewDirsWatched
<1>2. QED
  BY <1>1, WatchInvCorrect, PTL

-----------------------------------------------------------------------------
(***************************************************************************)
(* One primary instance.                                                   *)
(***************************************************************************)
\* Every step keeps the state well-typed.
LEMMA InstanceTypeStep ==
  ASSUME TypeOK, [Next]_vars
  PROVE  TypeOK'
<1> USE InstanceAssumption DEF InstanceAssumption, TypeOK, Live, Primary, GoTo, Hold, Release, FreePort
<1>1. ASSUME NEW p \in Procs, Launch(p) PROVE TypeOK'
  BY <1>1 DEF Launch
<1>2. ASSUME NEW p \in Procs, Acquire(p) PROVE TypeOK'
  <2>1. CASE CreateMutex(p) BY <2>1 DEF CreateMutex
  <2>2. CASE CloseHandle(p) BY <2>2 DEF CloseHandle
  <2>3. CASE OpenFile(p)    BY <2>3 DEF OpenFile
  <2>4. CASE Flock(p)       BY <2>4 DEF Flock
  <2>5. QED BY <1>2, <2>1, <2>2, <2>3, <2>4 DEF Acquire
<1>3. ASSUME NEW p \in Procs, ListenActivate(p) PROVE TypeOK'
  BY <1>3 DEF ListenActivate
<1>4. ASSUME NEW p \in Procs, NotifyActivate(p) PROVE TypeOK'
  <2>1. asks' \subseteq Procs \X Procs
    <3>1. CASE port = None BY <1>4, <3>1 DEF NotifyActivate
    <3>2. CASE port # None BY <1>4, <3>2 DEF NotifyActivate
    <3>3. QED BY <3>1, <3>2
  <2>2. QED BY <1>4, <2>1 DEF NotifyActivate
<1>5. ASSUME NEW p \in Procs, Serve(p) PROVE TypeOK'
  <2>1. PICK a \in asks : a[2] = p /\ asks' = asks \ {a} /\ shown' = shown \cup {a[1]}
    BY <1>5 DEF Serve
  <2>2. a[1] \in Procs
    BY <2>1
  <2>3. QED BY <1>5, <2>1, <2>2 DEF Serve
<1>6. ASSUME NEW p \in Procs, Exit(p) PROVE TypeOK'
  <2>1. CASE CloseServer(p) BY <2>1 DEF CloseServer
  <2>2. CASE Unlock(p)      BY <2>2 DEF Unlock
  <2>3. CASE CloseFile(p)   BY <2>3 DEF CloseFile
  <2>4. CASE Remove(p)      BY <2>4 DEF Remove
  <2>5. CASE Crash(p)       BY <2>5 DEF Crash
  <2>6. QED BY <1>6, <2>1, <2>2, <2>3, <2>4, <2>5 DEF Exit
<1>7. CASE UNCHANGED vars
  BY <1>7 DEF vars
<1>8. QED
  BY <1>1, <1>2, <1>3, <1>4, <1>5, <1>6, <1>7 DEF Next

\* A step keeps what is said of the mutex ...
LEMMA MutexStep ==
  ASSUME TypeOK, MutexInv, [Next]_vars
  PROVE  MutexInv'
<1> USE InstanceAssumption DEF InstanceAssumption, TypeOK, MutexInv, IsPrimary, Primary, GoTo, Hold
<1>1. ASSUME NEW p \in Procs, Launch(p) PROVE MutexInv'
  BY <1>1 DEF Launch
<1>2. ASSUME NEW p \in Procs, Acquire(p) PROVE MutexInv'
  <2>1. CASE CreateMutex(p) BY <2>1 DEF CreateMutex
  <2>2. CASE CloseHandle(p) BY <2>2 DEF CloseHandle
  <2>3. CASE OpenFile(p)    BY <2>3 DEF OpenFile
  <2>4. CASE Flock(p)       BY <2>4 DEF Flock
  <2>5. QED BY <1>2, <2>1, <2>2, <2>3, <2>4 DEF Acquire
<1>3. ASSUME NEW p \in Procs, ListenActivate(p) PROVE MutexInv'
  BY <1>3 DEF ListenActivate
<1>4. ASSUME NEW p \in Procs, NotifyActivate(p) PROVE MutexInv'
  BY <1>4 DEF NotifyActivate
<1>5. ASSUME NEW p \in Procs, Serve(p) PROVE MutexInv'
  BY <1>5 DEF Serve
<1>6. ASSUME NEW p \in Procs, Exit(p) PROVE MutexInv'
  <2>1. CASE CloseServer(p) BY <2>1 DEF CloseServer
  <2>2. CASE Unlock(p)      BY <2>2 DEF Unlock
  <2>3. CASE CloseFile(p)   BY <2>3 DEF CloseFile
  <2>4. CASE Remove(p)      BY <2>4 DEF Remove
  <2>5. CASE Crash(p)       BY <2>5 DEF Crash
  <2>6. QED BY <1>6, <2>1, <2>2, <2>3, <2>4, <2>5 DEF Exit
<1>7. CASE UNCHANGED vars
  BY <1>7 DEF vars
<1>8. QED
  BY <1>1, <1>2, <1>3, <1>4, <1>5, <1>6, <1>7 DEF Next

\* ... and of the lock file.
LEMMA FileStep ==
  ASSUME TypeOK, FileInv, [Next]_vars
  PROVE  FileInv'
<1> USE InstanceAssumption DEF InstanceAssumption, TypeOK, FileInv, IsPrimary, Primary, GoTo, Hold
<1>1. ASSUME NEW p \in Procs, Launch(p) PROVE FileInv'
  BY <1>1 DEF Launch
<1>2. ASSUME NEW p \in Procs, Acquire(p) PROVE FileInv'
  <2>1. CASE CreateMutex(p) BY <2>1 DEF CreateMutex
  <2>2. CASE CloseHandle(p) BY <2>2 DEF CloseHandle
  <2>3. CASE OpenFile(p)    BY <2>3 DEF OpenFile
  <2>4. CASE Flock(p)       BY <2>4 DEF Flock
  <2>5. QED BY <1>2, <2>1, <2>2, <2>3, <2>4 DEF Acquire
<1>3. ASSUME NEW p \in Procs, ListenActivate(p) PROVE FileInv'
  BY <1>3 DEF ListenActivate
<1>4. ASSUME NEW p \in Procs, NotifyActivate(p) PROVE FileInv'
  BY <1>4 DEF NotifyActivate
<1>5. ASSUME NEW p \in Procs, Serve(p) PROVE FileInv'
  BY <1>5 DEF Serve
<1>6. ASSUME NEW p \in Procs, Exit(p) PROVE FileInv'
  <2>1. CASE CloseServer(p) BY <2>1 DEF CloseServer
  <2>2. CASE Unlock(p)      BY <2>2 DEF Unlock, Release
  <2>3. CASE CloseFile(p)   BY <2>3 DEF CloseFile
  <2>4. CASE Remove(p)      BY <2>4 DEF Remove
  <2>5. CASE Crash(p)       BY <2>5 DEF Crash, Release
  <2>6. QED BY <1>6, <2>1, <2>2, <2>3, <2>4, <2>5 DEF Exit
<1>7. CASE UNCHANGED vars
  BY <1>7 DEF vars
<1>8. QED
  BY <1>1, <1>2, <1>3, <1>4, <1>5, <1>6, <1>7 DEF Next

-----------------------------------------------------------------------------
\* The inductive invariant: the mutex, or the lock on the file, belongs to the primary.
THEOREM InstanceInvCorrect == Spec => []Inv
<1>1. Init => Inv
  BY InstanceAssumption DEF InstanceAssumption, Init, Inv, TypeOK, MutexInv, FileInv,
                            IsPrimary, Primary, Live
<1>2. Inv /\ [Next]_vars => Inv'
  BY InstanceTypeStep, MutexStep, FileStep DEF Inv
<1>3. QED
  BY <1>1, <1>2, PTL DEF Spec

\* singleinstance.go Acquire: two processes that are primary at a time are one, but for
\* one whose lock file was removed, whatever is launched, closed or killed when.
THEOREM PrimaryIsUnique == Spec => []OnePrimaryOfAFile
<1>1. Inv => OnePrimaryOfAFile
  <2> SUFFICES ASSUME Inv, NEW p \in Procs, NEW q \in Procs,
                      IsPrimary(p), IsPrimary(q), {p, q} \cap orphaned = {}
               PROVE  p = q
    BY DEF OnePrimaryOfAFile
  <2>1. CASE os = "windows"
    BY <2>1 DEF Inv, MutexInv
  <2>2. CASE os = "other"
    <3>1. fd[p] = path /\ fd[q] = path
      BY <2>2 DEF Inv, FileInv
    <3>2. QED BY <2>2, <3>1 DEF Inv, FileInv
  <2>3. QED BY <2>1, <2>2 DEF Inv, TypeOK
<1>2. QED
  BY <1>1, InstanceInvCorrect, PTL
=============================================================================
