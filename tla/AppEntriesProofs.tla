--------------------------- MODULE AppEntriesProofs ---------------------------
(***************************************************************************)
(* What runs follows what is stored, a server in use stays, and a mask is  *)
(* never a secret, for any number of calls, servers and entries.           *)
(***************************************************************************)
EXTENDS AppEntries, TLAPS

\* An entry that is saved or imported is one.
LEMMA EntryIsMade ==
  ASSUME OpsAssumption, NEW n \in 1..MaxMade, NEW from \in SUBSET (Servers \cup {None}),
         NEW modes \in SUBSET Modes
  PROVE  Entries(n, from, modes) \subseteq Made
BY DEF Entries, Made

\* What a document brings is well-typed, and an unknown server is recorded.
LEMMA ImportIsTyped ==
  ASSUME OpsAssumption, TypeOK, ImportEntry
  PROVE  /\ stored' \in Made /\ made' \in 0..MaxMade /\ deleted' = FALSE
         /\ raced' \subseteq {"apart", "undone", "stale", "foreign", "remade"}
<1>1. made + 1 \in 1..MaxMade /\ made' \in 0..MaxMade /\ deleted' = FALSE
  BY DEF ImportEntry, TypeOK, OpsAssumption
<1>2. Entries(made + 1, Servers, Modes) \subseteq Made
  BY <1>1, EntryIsMade DEF Modes
<1>3. raced' \subseteq {"apart", "undone", "stale", "foreign", "remade"}
  BY DEF ImportEntry, TypeOK
<1>4. QED BY <1>1, <1>2, <1>3 DEF ImportEntry, Upsert

\* Every step keeps the state well-typed.
LEMMA TypeStep ==
  ASSUME OpsAssumption, TypeOK, [Next]_vars
  PROVE  TypeOK'
<1> USE DEF OpsAssumption, TypeOK, Idle, Overlaps, GoTo, Hold
<1>1. CASE RunningEnds
  BY <1>1 DEF RunningEnds
<1>2. ASSUME NEW c \in Calls, Run(c) PROVE TypeOK'
  <2>1. CASE Start(c) BY <2>1 DEF Start
  <2>2. CASE StartRegister(c)
    <3>1. running' \in {running, held[c]}
      BY ONLY <2>2 DEF StartRegister
    <3>2. failed' \in BOOLEAN
      BY ONLY <2>2 DEF StartRegister
    <3>3. pc' = [pc EXCEPT ![c] = "idle"]
          /\ UNCHANGED <<kind, stored, servers, shown, held, made, deleted, raced>>
      BY <2>2 DEF StartRegister
    <3>4. QED BY <3>1, <3>2, <3>3
  <2>3. CASE Launch(c) BY <2>3 DEF Launch
  <2>4. CASE List(c)
    <3>1. Automatic(stored) => stored # None
      BY DEF Automatic
    <3>2. QED BY <2>4, <3>1 DEF List
  <2>5. CASE StartRead(c) BY <2>5 DEF StartRead, Begin
  <2>6. CASE StopCall(c) BY <2>6 DEF StopCall, Begin, StopRunning
  <2>7. QED BY <1>2, <2>1, <2>2, <2>3, <2>4, <2>5, <2>6 DEF Run
<1>3. ASSUME NEW c \in Calls, Change(c) PROVE TypeOK'
  <2>1. CASE SaveStore(c)
    <3>1. PICK e \in Entries(made + 1, Servers, Modes), written \in BOOLEAN :
            /\ Upsert(e) /\ Hold(c, e)
            /\ raced' = raced \cup Overlaps
                          \cup (IF e.server \in Known \cup {None} THEN {} ELSE {"stale"})
                          \cup (IF kind = "mapping" /\ ~written THEN {"apart"} ELSE {})
            /\ GoTo(c, IF kind = "mapping" /\ written THEN "stop" ELSE "idle")
      BY <2>1 DEF SaveStore
    <3>2. made + 1 \in 1..MaxMade
      BY <2>1 DEF SaveStore
    <3>3. e \in Made
      BY <3>2, EntryIsMade
    <3>4. e # None
      BY <3>3
    <3>5. raced' \subseteq {"apart", "undone", "stale", "foreign", "remade"}
      BY <3>1
    <3>6. made' = made + 1 /\ deleted' = FALSE /\ UNCHANGED <<kind, servers, shown, running, failed>>
      BY <2>1 DEF SaveStore
    <3>7. pc' \in [Calls -> {"idle", "list", "stop", "start", "dial", "full", "delete", "import"}]
      BY <3>1
    <3>8. held' \in [Calls -> Made \cup {None}] /\ stored' \in Made
      BY <3>1, <3>3 DEF Upsert
    <3>9. \A d \in Calls : pc'[d] \in {"stop", "start", "dial", "full"} => held'[d] # None
      BY <3>1, <3>4
    <3>10. made' \in 0..MaxMade
      <4>1. made + 1 \in 0..MaxMade
        BY <3>2
      <4>2. QED BY <3>6, <4>1
    <3>11. QED BY <3>5, <3>6, <3>7, <3>8, <3>9, <3>10
  <2>2. CASE SaveStop(c) BY <2>2 DEF SaveStop
  <2>3. CASE DeleteStop(c) BY <2>3 DEF DeleteStop, StopRunning, Stuck
  <2>4. CASE DeleteStore(c) BY <2>4 DEF DeleteStore
  <2>5. QED BY <1>3, <2>1, <2>2, <2>3, <2>4 DEF Change
<1>4. ASSUME NEW c \in Calls, Full(c) PROVE TypeOK'
  <2>1. CASE FullRead(c) BY <2>1 DEF FullRead, Begin
  <2>2. CASE FullStore(c) BY <2>2 DEF FullStore, Upsert
  <2>3. QED BY <1>4, <2>1, <2>2 DEF Full
<1>5. ASSUME NEW c \in Calls, Import(c) PROVE TypeOK'
  <2>1. CASE ImportStop(c) BY <2>1 DEF ImportStop, StopRunning, Stuck
  <2>2. CASE ImportReplace(c)
    <3>1. PICK doc \in Documents :
            servers' = doc /\ (ImportEntry \/ (stored' = None /\ UNCHANGED <<made, deleted, raced>>))
      BY <2>2 DEF ImportReplace
    <3>2. /\ stored' \in Made \cup {None} /\ made' \in 0..MaxMade /\ deleted' \in BOOLEAN
          /\ raced' \subseteq {"apart", "undone", "stale", "foreign", "remade"}
      BY <3>1, ImportIsTyped
    <3>3. servers' \in [Servers -> {"absent", "bare", "secret", "mask"}]
      BY <3>1 DEF Documents
    <3>4. QED BY <2>2, <3>2, <3>3 DEF ImportReplace
  <2>3. CASE ImportMerge(c)
    <3>1. PICK doc \in Documents :
            /\ servers' = [s \in Servers |-> IF s \in In(doc) THEN doc[s] ELSE servers[s]]
            /\ ImportEntry \/ UNCHANGED <<stored, made, deleted, raced>>
      BY <2>3 DEF ImportMerge
    <3>2. /\ stored' \in Made \cup {None} /\ made' \in 0..MaxMade /\ deleted' \in BOOLEAN
          /\ raced' \subseteq {"apart", "undone", "stale", "foreign", "remade"}
      BY <3>1, ImportIsTyped
    <3>3. servers' \in [Servers -> {"absent", "bare", "secret", "mask"}]
      BY <3>1 DEF Documents
    <3>4. QED BY <2>3, <3>2, <3>3 DEF ImportMerge
  <2>4. CASE ImportFails(c) BY <2>4 DEF ImportFails
  <2>5. QED BY <1>5, <2>1, <2>2, <2>3, <2>4 DEF Import
<1>6. ASSUME NEW c \in Calls, Server(c) PROVE TypeOK'
  <2>1. CASE ListServers(c) BY <2>1 DEF ListServers, Begin
  <2>2. CASE UpsertServer(c) BY <2>2 DEF UpsertServer
  <2>3. CASE DeleteServer(c) BY <2>3 DEF DeleteServer, Begin
  <2>4. QED BY <1>6, <2>1, <2>2, <2>3 DEF Server
<1>7. CASE UNCHANGED vars
  BY <1>7 DEF vars
<1>8. QED
  BY <1>1, <1>2, <1>3, <1>4, <1>5, <1>6, <1>7 DEF Next

\* What was recorded of the calls that overlapped stays recorded.
LEMMA RacedGrows ==
  ASSUME [Next]_vars
  PROVE  raced \subseteq raced'
<1> USE DEF Begin, Overlaps
<1>1. CASE RunningEnds
  BY <1>1 DEF RunningEnds
<1>2. ASSUME NEW c \in Calls, Run(c) PROVE raced \subseteq raced'
  <2>1. CASE Start(c) BY <2>1 DEF Start
  <2>2. CASE StartRegister(c) BY <2>2 DEF StartRegister
  <2>3. CASE Launch(c) BY <2>3 DEF Launch
  <2>4. CASE List(c) BY <2>4 DEF List
  <2>5. CASE StartRead(c) BY <2>5 DEF StartRead, Begin
  <2>6. CASE StopCall(c) BY <2>6 DEF StopCall, Begin, StopRunning
  <2>7. QED BY <1>2, <2>1, <2>2, <2>3, <2>4, <2>5, <2>6 DEF Run
<1>3. ASSUME NEW c \in Calls, Change(c) PROVE raced \subseteq raced'
  <2>1. CASE SaveStore(c) BY <2>1 DEF SaveStore, Upsert
  <2>2. CASE SaveStop(c) BY <2>2 DEF SaveStop
  <2>3. CASE DeleteStop(c) BY <2>3 DEF DeleteStop, StopRunning, Stuck
  <2>4. CASE DeleteStore(c) BY <2>4 DEF DeleteStore
  <2>5. QED BY <1>3, <2>1, <2>2, <2>3, <2>4 DEF Change
<1>4. ASSUME NEW c \in Calls, Full(c) PROVE raced \subseteq raced'
  <2>1. CASE FullRead(c) BY <2>1 DEF FullRead, Begin
  <2>2. CASE FullStore(c) BY <2>2 DEF FullStore, Upsert
  <2>3. QED BY <1>4, <2>1, <2>2 DEF Full
<1>5. ASSUME NEW c \in Calls, Import(c) PROVE raced \subseteq raced'
  <2>1. CASE ImportStop(c) BY <2>1 DEF ImportStop, StopRunning, Stuck
  <2>2. CASE ImportReplace(c) BY <2>2 DEF ImportReplace, ImportEntry
  <2>3. CASE ImportMerge(c) BY <2>3 DEF ImportMerge, ImportEntry
  <2>4. CASE ImportFails(c) BY <2>4 DEF ImportFails
  <2>5. QED BY <1>5, <2>1, <2>2, <2>3, <2>4 DEF Import
<1>6. ASSUME NEW c \in Calls, Server(c) PROVE raced \subseteq raced'
  <2>1. CASE ListServers(c) BY <2>1 DEF ListServers, Begin
  <2>2. CASE UpsertServer(c) BY <2>2 DEF UpsertServer
  <2>3. CASE DeleteServer(c) BY <2>3 DEF DeleteServer, Begin
  <2>4. QED BY <1>6, <2>1, <2>2, <2>3 DEF Server
<1>7. CASE UNCHANGED vars
  BY <1>7 DEF vars
<1>8. QED
  BY <1>1, <1>2, <1>3, <1>4, <1>5, <1>6, <1>7 DEF Next

\* A step that leaves the stored entry without its server is recorded.
LEMMA ServerStep ==
  ASSUME OpsAssumption, TypeOK, ServerInUseStays, [Next]_vars
  PROVE  ServerInUseStays'
<1> USE RacedGrows DEF OpsAssumption, TypeOK, ServerInUseStays, Dangling, Known
<1>1. CASE RunningEnds
  BY <1>1 DEF RunningEnds
<1>2. ASSUME NEW c \in Calls, Run(c) PROVE ServerInUseStays'
  <2>1. CASE Start(c) BY <2>1 DEF Start
  <2>2. CASE StartRegister(c) BY <2>2 DEF StartRegister
  <2>3. CASE Launch(c) BY <2>3 DEF Launch
  <2>4. CASE List(c) BY <2>4 DEF List
  <2>5. CASE StartRead(c) BY <2>5 DEF StartRead, Begin
  <2>6. CASE StopCall(c) BY <2>6 DEF StopCall, Begin, StopRunning
  <2>7. QED BY <1>2, <2>1, <2>2, <2>3, <2>4, <2>5, <2>6 DEF Run
<1>3. ASSUME NEW c \in Calls, Change(c) PROVE ServerInUseStays'
  <2>1. CASE SaveStore(c) BY <2>1 DEF SaveStore, Upsert
  <2>2. CASE SaveStop(c) BY <2>2 DEF SaveStop
  <2>3. CASE DeleteStop(c) BY <2>3 DEF DeleteStop, StopRunning, Stuck
  <2>4. CASE DeleteStore(c) BY <2>4 DEF DeleteStore
  <2>5. QED BY <1>3, <2>1, <2>2, <2>3, <2>4 DEF Change
<1>4. ASSUME NEW c \in Calls, Full(c) PROVE ServerInUseStays'
  <2>1. CASE FullRead(c) BY <2>1 DEF FullRead, Begin
  <2>2. CASE FullStore(c) BY <2>2 DEF FullStore, Upsert
  <2>3. QED BY <1>4, <2>1, <2>2 DEF Full
<1>5. ASSUME NEW c \in Calls, Import(c) PROVE ServerInUseStays'
  <2>1. CASE ImportStop(c) BY <2>1 DEF ImportStop, StopRunning, Stuck
  <2>2. CASE ImportReplace(c)
    <3>1. PICK doc \in Documents :
            servers' = doc /\ (ImportEntry \/ (stored' = None /\ UNCHANGED <<made, deleted, raced>>))
      BY <2>2 DEF ImportReplace
    <3>2. CASE ImportEntry
      BY <3>2 DEF ImportEntry
    <3>3. CASE stored' = None
      BY <3>3
    <3>4. QED BY <3>1, <3>2, <3>3
  <2>3. CASE ImportMerge(c)
    <3>1. PICK doc \in Documents :
            /\ servers' = [s \in Servers |-> IF s \in In(doc) THEN doc[s] ELSE servers[s]]
            /\ ImportEntry \/ UNCHANGED <<stored, made, deleted, raced>>
      BY <2>3 DEF ImportMerge
    <3>2. Known \cup In(doc) \subseteq Known'
      BY <3>1 DEF In
    <3>3. CASE ImportEntry
      BY <3>3 DEF ImportEntry
    <3>4. CASE UNCHANGED <<stored, raced>>
      BY <3>2, <3>4
    <3>5. QED BY <3>1, <3>3, <3>4
  <2>4. CASE ImportFails(c) BY <2>4 DEF ImportFails
  <2>5. QED BY <1>5, <2>1, <2>2, <2>3, <2>4 DEF Import
<1>6. ASSUME NEW c \in Calls, Server(c) PROVE ServerInUseStays'
  <2>1. CASE ListServers(c) BY <2>1 DEF ListServers, Begin
  <2>2. CASE UpsertServer(c) BY <2>2 DEF UpsertServer
  <2>3. CASE DeleteServer(c) BY <2>3 DEF DeleteServer, Begin
  <2>4. QED BY <1>6, <2>1, <2>2, <2>3 DEF Server
<1>7. CASE UNCHANGED vars
  BY <1>7 DEF vars
<1>8. QED
  BY <1>1, <1>2, <1>3, <1>4, <1>5, <1>6, <1>7 DEF Next

\* Nor does a step store a mask that is not recorded.
LEMMA MaskStep ==
  ASSUME OpsAssumption, TypeOK, MaskIsNoSecret, [Next]_vars
  PROVE  MaskIsNoSecret'
<1> USE RacedGrows DEF OpsAssumption, TypeOK, MaskIsNoSecret, Known
<1>1. CASE RunningEnds
  BY <1>1 DEF RunningEnds
<1>2. ASSUME NEW c \in Calls, Run(c) PROVE MaskIsNoSecret'
  <2>1. CASE Start(c) BY <2>1 DEF Start
  <2>2. CASE StartRegister(c) BY <2>2 DEF StartRegister
  <2>3. CASE Launch(c) BY <2>3 DEF Launch
  <2>4. CASE List(c) BY <2>4 DEF List
  <2>5. CASE StartRead(c) BY <2>5 DEF StartRead, Begin
  <2>6. CASE StopCall(c) BY <2>6 DEF StopCall, Begin, StopRunning
  <2>7. QED BY <1>2, <2>1, <2>2, <2>3, <2>4, <2>5, <2>6 DEF Run
<1>3. ASSUME NEW c \in Calls, Change(c) PROVE MaskIsNoSecret'
  <2>1. CASE SaveStore(c) BY <2>1 DEF SaveStore, Upsert
  <2>2. CASE SaveStop(c) BY <2>2 DEF SaveStop
  <2>3. CASE DeleteStop(c) BY <2>3 DEF DeleteStop, StopRunning, Stuck
  <2>4. CASE DeleteStore(c) BY <2>4 DEF DeleteStore
  <2>5. QED BY <1>3, <2>1, <2>2, <2>3, <2>4 DEF Change
<1>4. ASSUME NEW c \in Calls, Full(c) PROVE MaskIsNoSecret'
  <2>1. CASE FullRead(c) BY <2>1 DEF FullRead, Begin
  <2>2. CASE FullStore(c) BY <2>2 DEF FullStore, Upsert
  <2>3. QED BY <1>4, <2>1, <2>2 DEF Full
<1>5. ASSUME NEW c \in Calls, Import(c) PROVE MaskIsNoSecret'
  <2>1. CASE ImportStop(c) BY <2>1 DEF ImportStop, StopRunning, Stuck
  <2>2. CASE ImportReplace(c)
    <3>1. PICK doc \in Documents : servers' = doc
      BY <2>2 DEF ImportReplace
    <3>2. QED BY <3>1 DEF Documents
  <2>3. CASE ImportMerge(c)
    <3>1. PICK doc \in Documents :
            servers' = [s \in Servers |-> IF s \in In(doc) THEN doc[s] ELSE servers[s]]
      BY <2>3 DEF ImportMerge
    <3>2. \A s \in In(doc) : doc[s] # "mask"
      BY DEF Documents, In
    <3>3. QED BY <3>1, <3>2
  <2>4. CASE ImportFails(c) BY <2>4 DEF ImportFails
  <2>5. QED BY <1>5, <2>1, <2>2, <2>3, <2>4 DEF Import
<1>6. ASSUME NEW c \in Calls, Server(c) PROVE MaskIsNoSecret'
  <2>1. CASE ListServers(c) BY <2>1 DEF ListServers, Begin
  <2>2. CASE UpsertServer(c) BY <2>2 DEF UpsertServer
  <2>3. CASE DeleteServer(c) BY <2>3 DEF DeleteServer, Begin
  <2>4. QED BY <1>6, <2>1, <2>2, <2>3 DEF Server
<1>7. CASE UNCHANGED vars
  BY <1>7 DEF vars
<1>8. QED
  BY <1>1, <1>2, <1>3, <1>4, <1>5, <1>6, <1>7 DEF Next

-----------------------------------------------------------------------------
\* One call is under way at most: what is said of it, or of the state at rest, is all.
LEMMA Focus ==
  ASSUME NEW c \in Calls, \A d \in Calls \ {c} : pc'[d] = "idle",
         UnderWay(c)', Idle(c)' => Settled'
  PROVE  RestInv'
BY DEF RestInv, Solo, AtRest, Idle, UnderWay

\* Every step of the one call keeps what is said of it.
LEMMA RestStep ==
  ASSUME OpsAssumption, TypeOK, RestInv, [Next]_vars
  PROVE  RestInv'
<1> SUFFICES ASSUME "apart" \notin raced' PROVE RestInv'
  BY DEF RestInv
<1> USE DEF TypeOK, Idle
<1>1. "apart" \notin raced
  BY RacedGrows
<1>2. Solo /\ (AtRest => Settled) /\ \A c \in Calls : UnderWay(c)
  BY <1>1 DEF RestInv
<1>3. CASE RunningEnds
  BY <1>1, <1>2, <1>3 DEF RunningEnds, RestInv, Solo, AtRest, Settled, UnderWay
<1>4. ASSUME NEW c \in Calls, Run(c) PROVE RestInv'
  <2>1. CASE Start(c)
    <3>1. \A d \in Calls \ {c} : Idle(d) /\ pc'[d] = "idle"
      BY <1>2, <2>1 DEF Start, Overlaps, GoTo, Solo
    <3>2. AtRest \/ ~Idle(c)
      BY <3>1 DEF AtRest
    <3>3. UnderWay(c)' /\ (Idle(c)' => Settled')
      BY <1>2, <2>1, <3>2 DEF Start, GoTo, Hold, UnderWay, Settled, Automatic
    <3>4. QED BY <3>1, <3>3, Focus
  <2>2. CASE StartRegister(c)
    <3>1. \A d \in Calls \ {c} : Idle(d) /\ pc'[d] = "idle"
      BY <1>2, <2>2 DEF StartRegister, Overlaps, GoTo, Solo
    <3>2. AtRest \/ ~Idle(c)
      BY <3>1 DEF AtRest
    <3>3. UnderWay(c)' /\ (Idle(c)' => Settled')
      BY <1>2, <2>2, <3>2 DEF StartRegister, GoTo, Hold, UnderWay, Settled, Automatic
    <3>4. QED BY <3>1, <3>3, Focus
  <2>3. CASE Launch(c)
    <3>1. \A d \in Calls \ {c} : Idle(d) /\ pc'[d] = "idle"
      BY <1>2, <2>3 DEF Launch, Overlaps, GoTo, Solo
    <3>2. AtRest \/ ~Idle(c)
      BY <3>1 DEF AtRest
    <3>3. UnderWay(c)' /\ (Idle(c)' => Settled')
      BY <1>2, <2>3, <3>2 DEF Launch, GoTo, Hold, UnderWay, Settled, Automatic
    <3>4. QED BY <3>1, <3>3, Focus
  <2>4. CASE List(c)
    <3>1. \A d \in Calls \ {c} : Idle(d) /\ pc'[d] = "idle"
      BY <1>2, <2>4 DEF List, Overlaps, GoTo, Solo
    <3>2. AtRest \/ ~Idle(c)
      BY <3>1 DEF AtRest
    <3>3. UnderWay(c)' /\ (Idle(c)' => Settled')
      BY <1>2, <2>4, <3>2 DEF List, GoTo, Hold, UnderWay, Settled, Automatic
    <3>4. QED BY <3>1, <3>3, Focus
  <2>5. CASE StartRead(c)
    <3>1. \A d \in Calls \ {c} : Idle(d) /\ pc'[d] = "idle"
      BY <1>2, <2>5 DEF StartRead, Begin, Overlaps, GoTo, Solo
    <3>2. AtRest \/ ~Idle(c)
      BY <3>1 DEF AtRest
    <3>3. UnderWay(c)' /\ (Idle(c)' => Settled')
      BY <1>2, <2>5, <3>2 DEF StartRead, Begin, GoTo, Hold, UnderWay, Settled, Automatic
    <3>4. QED BY <3>1, <3>3, Focus
  <2>6. CASE StopCall(c)
    <3>1. \A d \in Calls \ {c} : Idle(d) /\ pc'[d] = "idle"
      BY <1>2, <2>6 DEF StopCall, Begin, StopRunning, Overlaps, GoTo, Solo
    <3>2. AtRest \/ ~Idle(c)
      BY <3>1 DEF AtRest
    <3>3. UnderWay(c)' /\ (Idle(c)' => Settled')
      BY <1>2, <2>6, <3>2 DEF StopCall, Begin, StopRunning, GoTo, Hold, UnderWay, Settled, Automatic
    <3>4. QED BY <3>1, <3>3, Focus
  <2>7. QED BY <1>4, <2>1, <2>2, <2>3, <2>4, <2>5, <2>6 DEF Run
<1>5. ASSUME NEW c \in Calls, Change(c) PROVE RestInv'
  <2>1. CASE SaveStore(c)
    <3>1. \A d \in Calls \ {c} : Idle(d) /\ pc'[d] = "idle"
      BY <1>2, <2>1 DEF SaveStore, Upsert, Overlaps, GoTo, Solo
    <3>2. AtRest \/ ~Idle(c)
      BY <3>1 DEF AtRest
    <3>3. UnderWay(c)' /\ (Idle(c)' => Settled')
      <4>1. PICK e \in Entries(made + 1, Servers, Modes), written \in BOOLEAN :
              /\ Upsert(e) /\ Hold(c, e)
              /\ kind = "mapping" /\ ~written => "apart" \in raced'
              /\ GoTo(c, IF kind = "mapping" /\ written THEN "stop" ELSE "idle")
        BY <2>1 DEF SaveStore
      <4>2. stored' = e /\ held'[c] = e /\ kind' = kind
        BY <2>1, <4>1 DEF Upsert, Hold, SaveStore
      <4>3. e # None
        <5>1. made + 1 \in 1..MaxMade
          BY <2>1 DEF SaveStore, OpsAssumption
        <5>2. e \in Made
          BY <5>1, EntryIsMade
        <5>3. QED BY <5>2 DEF OpsAssumption
      <4>4. CASE kind = "mapping"
        BY <4>1, <4>2, <4>4 DEF GoTo, UnderWay
      <4>5. CASE kind # "mapping"
        BY <4>1, <4>2, <4>3, <4>5 DEF GoTo, UnderWay, Settled
      <4>6. QED BY <4>4, <4>5
    <3>4. QED BY <3>1, <3>3, Focus
  <2>2. CASE SaveStop(c)
    <3>1. \A d \in Calls \ {c} : Idle(d) /\ pc'[d] = "idle"
      BY <1>2, <2>2 DEF SaveStop, Overlaps, GoTo, Solo
    <3>2. AtRest \/ ~Idle(c)
      BY <3>1 DEF AtRest
    <3>3. UnderWay(c)' /\ (Idle(c)' => Settled')
      BY <1>2, <2>2, <3>2 DEF SaveStop, GoTo, Hold, UnderWay, Settled, Automatic
    <3>4. QED BY <3>1, <3>3, Focus
  <2>3. CASE DeleteStop(c)
    <3>1. \A d \in Calls \ {c} : Idle(d) /\ pc'[d] = "idle"
      BY <1>2, <2>3 DEF DeleteStop, StopRunning, Stuck, Overlaps, GoTo, Solo
    <3>2. AtRest \/ ~Idle(c)
      BY <3>1 DEF AtRest
    <3>3. UnderWay(c)' /\ (Idle(c)' => Settled')
      BY <1>2, <2>3, <3>2 DEF DeleteStop, StopRunning, Stuck, GoTo, Hold, UnderWay, Settled, Automatic
    <3>4. QED BY <3>1, <3>3, Focus
  <2>4. CASE DeleteStore(c)
    <3>1. \A d \in Calls \ {c} : Idle(d) /\ pc'[d] = "idle"
      BY <1>2, <2>4 DEF DeleteStore, Overlaps, GoTo, Solo
    <3>2. AtRest \/ ~Idle(c)
      BY <3>1 DEF AtRest
    <3>3. UnderWay(c)' /\ (Idle(c)' => Settled')
      BY <1>2, <2>4, <3>2 DEF DeleteStore, GoTo, Hold, UnderWay, Settled, Automatic
    <3>4. QED BY <3>1, <3>3, Focus
  <2>5. QED BY <1>5, <2>1, <2>2, <2>3, <2>4 DEF Change
<1>6. ASSUME NEW c \in Calls, Full(c) PROVE RestInv'
  <2>1. CASE FullRead(c)
    <3>1. \A d \in Calls \ {c} : Idle(d) /\ pc'[d] = "idle"
      BY <1>2, <2>1 DEF FullRead, Begin, Overlaps, GoTo, Solo
    <3>2. AtRest \/ ~Idle(c)
      BY <3>1 DEF AtRest
    <3>3. UnderWay(c)' /\ (Idle(c)' => Settled')
      BY <1>2, <2>1, <3>2 DEF FullRead, Begin, GoTo, Hold, UnderWay, Settled, Automatic
    <3>4. QED BY <3>1, <3>3, Focus
  <2>2. CASE FullStore(c)
    <3>1. \A d \in Calls \ {c} : Idle(d) /\ pc'[d] = "idle"
      BY <1>2, <2>2 DEF FullStore, Upsert, Overlaps, GoTo, Solo
    <3>2. AtRest \/ ~Idle(c)
      BY <3>1 DEF AtRest
    <3>3. UnderWay(c)' /\ (Idle(c)' => Settled')
      BY <1>2, <2>2, <3>2 DEF FullStore, Upsert, GoTo, Hold, UnderWay, Settled, Automatic
    <3>4. QED BY <3>1, <3>3, Focus
  <2>3. QED BY <1>6, <2>1, <2>2 DEF Full
<1>7. ASSUME NEW c \in Calls, Import(c) PROVE RestInv'
  <2>1. CASE ImportStop(c)
    <3>1. \A d \in Calls \ {c} : Idle(d) /\ pc'[d] = "idle"
      BY <1>2, <2>1 DEF ImportStop, StopRunning, Stuck, Overlaps, GoTo, Solo
    <3>2. AtRest \/ ~Idle(c)
      BY <3>1 DEF AtRest
    <3>3. UnderWay(c)' /\ (Idle(c)' => Settled')
      BY <1>2, <2>1, <3>2 DEF ImportStop, StopRunning, Stuck, GoTo, Hold, UnderWay, Settled, Automatic
    <3>4. QED BY <3>1, <3>3, Focus
  <2>2. CASE ImportReplace(c)
    <3>1. \A d \in Calls \ {c} : Idle(d) /\ pc'[d] = "idle"
      BY <1>2, <2>2 DEF ImportReplace, ImportEntry, Overlaps, GoTo, Solo
    <3>2. AtRest \/ ~Idle(c)
      BY <3>1 DEF AtRest
    <3>3. UnderWay(c)' /\ (Idle(c)' => Settled')
      BY <1>2, <2>2, <3>2 DEF ImportReplace, ImportEntry, GoTo, Hold, UnderWay, Settled, Automatic
    <3>4. QED BY <3>1, <3>3, Focus
  <2>3. CASE ImportMerge(c)
    <3>1. \A d \in Calls \ {c} : Idle(d) /\ pc'[d] = "idle"
      BY <1>2, <2>3 DEF ImportMerge, ImportEntry, Overlaps, GoTo, Solo
    <3>2. AtRest \/ ~Idle(c)
      BY <3>1 DEF AtRest
    <3>3. UnderWay(c)' /\ (Idle(c)' => Settled')
      BY <1>2, <2>3, <3>2 DEF ImportMerge, ImportEntry, GoTo, Hold, UnderWay, Settled, Automatic
    <3>4. QED BY <3>1, <3>3, Focus
  <2>4. CASE ImportFails(c)
    <3>1. \A d \in Calls \ {c} : Idle(d) /\ pc'[d] = "idle"
      BY <1>2, <2>4 DEF ImportFails, Overlaps, GoTo, Solo
    <3>2. AtRest \/ ~Idle(c)
      BY <3>1 DEF AtRest
    <3>3. UnderWay(c)' /\ (Idle(c)' => Settled')
      BY <1>2, <2>4, <3>2 DEF ImportFails, GoTo, Hold, UnderWay, Settled, Automatic
    <3>4. QED BY <3>1, <3>3, Focus
  <2>5. QED BY <1>7, <2>1, <2>2, <2>3, <2>4 DEF Import
<1>8. ASSUME NEW c \in Calls, Server(c) PROVE RestInv'
  <2>1. CASE ListServers(c)
    <3>1. \A d \in Calls \ {c} : Idle(d) /\ pc'[d] = "idle"
      BY <1>2, <2>1 DEF ListServers, Begin, Overlaps, GoTo, Solo
    <3>2. AtRest \/ ~Idle(c)
      BY <3>1 DEF AtRest
    <3>3. UnderWay(c)' /\ (Idle(c)' => Settled')
      BY <1>2, <2>1, <3>2 DEF ListServers, Begin, GoTo, Hold, UnderWay, Settled, Automatic
    <3>4. QED BY <3>1, <3>3, Focus
  <2>2. CASE UpsertServer(c)
    <3>1. \A d \in Calls \ {c} : Idle(d) /\ pc'[d] = "idle"
      BY <1>2, <2>2 DEF UpsertServer, Overlaps, GoTo, Solo
    <3>2. AtRest \/ ~Idle(c)
      BY <3>1 DEF AtRest
    <3>3. UnderWay(c)' /\ (Idle(c)' => Settled')
      BY <1>2, <2>2, <3>2 DEF UpsertServer, GoTo, Hold, UnderWay, Settled, Automatic
    <3>4. QED BY <3>1, <3>3, Focus
  <2>3. CASE DeleteServer(c)
    <3>1. \A d \in Calls \ {c} : Idle(d) /\ pc'[d] = "idle"
      BY <1>2, <2>3 DEF DeleteServer, Begin, Overlaps, GoTo, Solo
    <3>2. AtRest \/ ~Idle(c)
      BY <3>1 DEF AtRest
    <3>3. UnderWay(c)' /\ (Idle(c)' => Settled')
      BY <1>2, <2>3, <3>2 DEF DeleteServer, Begin, GoTo, Hold, UnderWay, Settled, Automatic
    <3>4. QED BY <3>1, <3>3, Focus
  <2>4. QED BY <1>8, <2>1, <2>2, <2>3 DEF Server
<1>9. CASE UNCHANGED vars
  BY <1>9 DEF vars, RestInv, Solo, AtRest, Settled, UnderWay
<1>10. QED
  BY <1>3, <1>4, <1>5, <1>6, <1>7, <1>8, <1>9 DEF Next

-----------------------------------------------------------------------------
LEMMA InitCorrect ==
  ASSUME OpsAssumption, Init
  PROVE  Inv /\ ServerInUseStays /\ MaskIsNoSecret
<1>1. PICK c \in Calls : pc = [d \in Calls |-> IF d = c THEN "list" ELSE "idle"]
  BY DEF Init
<1>2. raced \subseteq {"foreign"} /\ (Dangling => "foreign" \in raced)
  BY DEF Init
<1>3. stored \in Made \cup {None}
  <2>1. 1 \in 1..MaxMade
    BY DEF OpsAssumption
  <2>2. Entries(1, Servers, Modes) \subseteq Made
    BY <2>1, EntryIsMade
  <2>3. QED BY <2>2 DEF Init
<1>4. made \in 0..MaxMade
  BY DEF Init, OpsAssumption
<1>5. TypeOK
  <2>1. servers \in [Servers -> {"absent", "bare", "secret", "mask"}]
    BY DEF Init
  <2>2. /\ kind \in Kinds /\ running = None /\ shown = {}
        /\ deleted = FALSE /\ failed = FALSE
        /\ held = [d \in Calls |-> None]
    BY DEF Init
  <2>3. QED BY <1>1, <1>2, <1>3, <1>4, <2>1, <2>2 DEF TypeOK
<1>6. RestInv
  BY <1>1 DEF Init, RestInv, Solo, AtRest, Idle, UnderWay
<1>7. ServerInUseStays
  BY <1>2 DEF ServerInUseStays
<1>8. MaskIsNoSecret
  BY DEF Init, MaskIsNoSecret
<1>9. QED BY <1>5, <1>6, <1>7, <1>8 DEF Inv

\* The inductive invariant: the one call that is under way, and what it holds.
THEOREM InvCorrect == Spec => []Inv
<1>1. Inv /\ [Next]_vars => Inv'
  BY OpsAssumption, TypeStep, RestStep DEF Inv
<1>2. QED
  BY <1>1, OpsAssumption, InitCorrect, PTL DEF Spec

\* store.go:13: what runs follows the configuration in memory when the calls of the
\* window are made one after the other, whatever the calls are.
THEOREM RuntimeFollows == Spec => []RuntimeFollowsConfig
<1>1. Inv => RuntimeFollowsConfig
  BY DEF Inv, RestInv, RuntimeFollowsConfig, Settled
<1>2. QED
  BY <1>1, InvCorrect, PTL

\* store.go DeleteServer and Import: calls that overlap leave no entry without its
\* server, but for an entry that was stored when its server was not there.
THEOREM ServerStays == Spec => []ServerInUseStays
<1>1. Inv /\ ServerInUseStays /\ [Next]_vars => ServerInUseStays'
  BY OpsAssumption, ServerStep DEF Inv
<1>2. QED
  BY <1>1, OpsAssumption, InitCorrect, InvCorrect, PTL DEF Spec

\* store.go UpsertServer: the mask the window sends back is never stored as a secret,
\* but for the form of a server that is gone.
THEOREM MaskNotStored == Spec => []MaskIsNoSecret
<1>1. Inv /\ MaskIsNoSecret /\ [Next]_vars => MaskIsNoSecret'
  BY OpsAssumption, MaskStep DEF Inv
<1>2. QED
  BY <1>1, OpsAssumption, InitCorrect, InvCorrect, PTL DEF Spec
=============================================================================
