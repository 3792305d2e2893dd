------------------------------ MODULE AppEntries ------------------------------
(***************************************************************************)
(* The calls of the window (app.go) on one entry of the configuration, a   *)
(* sync mapping, a port forward or a managed process, and on the servers   *)
(* it may refer to, with what internal/config makes of them.  Wails runs   *)
(* every call in a goroutine of its own, and none of the handlers holds a  *)
(* lock from one step to the next.  Here the store, the engine and the two *)
(* managers are what a single step of theirs makes of them; ConfigStore,   *)
(* SyncEngine, ForwardManager and ProcManager have the steps within.       *)
(***************************************************************************)
EXTENDS Naturals

CONSTANTS
  Calls,   \* goroutines of the window's calls, and of the autostart
  Servers,
  Kinds,   \* what the entry may be: "mapping", "forward", "process"
  Ops,     \* the calls that are made: see OpsAssumption
  MaxMade, \* bound: entries ever saved or imported
  None     \* no entry, no server

Modes == {"auto", "manual", "disabled"} \* AutoSync or AutoStart, and Enabled
Made  == [gen : 1..MaxMade, server : Servers \cup {None}, mode : Modes]

ASSUME OpsAssumption ==
  /\ Kinds \subseteq {"mapping", "forward", "process"}
  /\ Ops \subseteq {"save", "delete", "full", "start", "stop", "import", "server"}
  /\ MaxMade \in Nat \ {0}
  /\ None \notin Servers \cup Made

VARIABLES
  kind,    \* what the entry is
  stored,  \* the entry in Store.file
  servers, \* the secret of each server in Store.file, "absent" when it is not there
  shown,   \* the servers a form may show a mask for
  running, \* the entry that the registered worker, forward or process was started with
  pc,      \* what each call does next, "idle" when there is none
  held,    \* the copy of the entry each call works with
  made,    \* entries ever saved or imported, each has its number
  deleted, \* history: the last change of the entry that returned was a delete
  failed,  \* history: the last StartMapping failed
  raced    \* history: "apart" when what runs was left to differ from what is stored, as
           \* a call began during another, a process could not be killed or a changed
           \* mapping not be written; "undone" when a full sync stored a copy that was
           \* no longer the stored mapping, "stale" when a form was saved with a server
           \* deleted since it was filled in, "foreign" when an entry was loaded or
           \* imported whose server is in no list, "remade" when the form of a deleted
           \* server was saved
vars == <<kind, stored, servers, shown, running, pc, held, made, deleted, failed, raced>>

TypeOK ==
  /\ kind \in Kinds
  /\ stored \in Made \cup {None} /\ running \in Made \cup {None}
  /\ servers \in [Servers -> {"absent", "bare", "secret", "mask"}]
  /\ shown \subseteq Servers
  /\ pc \in [Calls -> {"idle", "list", "stop", "start", "dial", "full", "delete", "import"}]
  /\ held \in [Calls -> Made \cup {None}]
  /\ \A c \in Calls : pc[c] \in {"stop", "start", "dial", "full"} => held[c] # None
  /\ made \in 0..MaxMade
  /\ deleted \in BOOLEAN /\ failed \in BOOLEAN
  /\ raced \subseteq {"apart", "undone", "stale", "foreign", "remade"}

Known == {s \in Servers : servers[s] # "absent"}
Automatic(e) == e # None /\ e.mode = "auto"

\* Entries with a number: a process has no server, a forward cannot be disabled.
Entries(n, from, modes) ==
  [gen : {n}, server : IF kind = "process" THEN {None} ELSE from,
   mode : IF kind = "forward" THEN modes \ {"disabled"} ELSE modes]

\* The server of the entry is in no list.
Dangling == stored # None /\ stored.server \notin Known \cup {None}

\* The application starts with what Open loaded, whose references nobody checked, and
\* starts the automatic entries.
Init ==
  /\ kind \in Kinds
  /\ servers \in [Servers -> {"absent", "bare", "secret"}]
  /\ stored \in {None} \cup Entries(1, Servers, Modes)
  /\ made = IF stored = None THEN 0 ELSE 1
  /\ shown = {} /\ running = None
  /\ \E c \in Calls : pc = [d \in Calls |-> IF d = c THEN "list" ELSE "idle"]
  /\ held = [c \in Calls |-> None]
  /\ deleted = FALSE /\ failed = FALSE
  /\ raced = IF Dangling THEN {"foreign"} ELSE {}

Idle(c)    == pc[c] = "idle"
Overlaps   == IF \A d \in Calls : Idle(d) THEN {} ELSE {"apart"}
Begin(c, op) == Idle(c) /\ op \in Ops /\ raced' = raced \cup Overlaps
GoTo(c, l) == pc' = [pc EXCEPT ![c] = l]
Hold(c, e) == held' = [held EXCEPT ![c] = e]

\* The entry of this ID is replaced, or there is one now.
Upsert(e) == stored' = e

-----------------------------------------------------------------------------
(***************************************************************************)
(* UpsertSyncMapping: store it, stop the worker, start a new one.          *)
(* UpsertPortForward and UpsertManagedProcess only store: what runs goes   *)
(* on as it was started.                                                   *)
(***************************************************************************)
\* The form offered the servers there were, and the store does not ask whether the
\* one that was chosen is still there.  When the file cannot be written the call ends
\* with an error, and the entry in memory has changed all the same.
SaveStore(c) ==
  /\ Idle(c) /\ "save" \in Ops /\ made < MaxMade
  /\ \E e \in Entries(made + 1, Servers, Modes), written \in BOOLEAN :
       /\ Upsert(e) /\ Hold(c, e)
       /\ raced' = raced \cup Overlaps
                     \cup (IF e.server \in Known \cup {None} THEN {} ELSE {"stale"})
                     \cup (IF kind = "mapping" /\ ~written THEN {"apart"} ELSE {})
       /\ GoTo(c, IF kind = "mapping" /\ written THEN "stop" ELSE "idle")
  /\ made' = made + 1
  /\ deleted' = FALSE
  /\ UNCHANGED <<kind, servers, shown, running, failed>>

\* Mutation of SaveStop: the old worker goes on.
SaveKeep(c) ==
  /\ pc[c] = "stop"
  /\ GoTo(c, IF Automatic(held[c]) THEN "start" ELSE "idle")
  /\ UNCHANGED <<kind, stored, servers, shown, running, held, made, deleted, failed, raced>>

SaveStop(c) ==
  /\ pc[c] = "stop"
  /\ running' = None
  /\ GoTo(c, IF Automatic(held[c]) THEN "start" ELSE "idle")
  /\ UNCHANGED <<kind, stored, servers, shown, held, made, deleted, failed, raced>>

-----------------------------------------------------------------------------
(***************************************************************************)
(* Starting and stopping.                                                  *)
(***************************************************************************)
\* Engine.StartMapping: a mapping that runs is left alone, then its server is looked
\* up and dialled, and if the mapping runs by now it is left alone again.
Start(c) ==
  /\ pc[c] = "start" /\ kind = "mapping"
  /\ LET fails == running = None /\ held[c].server \notin Known
     IN  /\ GoTo(c, IF running # None \/ fails THEN "idle" ELSE "dial")
         /\ failed' = (failed \/ fails)
  /\ UNCHANGED <<kind, stored, servers, shown, running, held, made, deleted, raced>>

StartRegister(c) ==
  /\ pc[c] = "dial"
  /\ \/ running' = (IF running = None THEN held[c] ELSE running) /\ failed' = FALSE
     \/ failed' = TRUE /\ UNCHANGED running
  /\ GoTo(c, "idle")
  /\ UNCHANGED <<kind, stored, servers, shown, held, made, deleted, raced>>

\* Start of a manager, in one critical section: it fails when the entry runs, and may
\* fail otherwise.
Launch(c) ==
  /\ pc[c] = "start" /\ kind # "mapping"
  /\ \/ running = None /\ running' = held[c]
     \/ UNCHANGED running
  /\ GoTo(c, "idle")
  /\ UNCHANGED <<kind, stored, servers, shown, held, made, deleted, failed, raced>>

\* autostartSyncMappings, -PortForwards and -ManagedProcesses read the list once; a
\* forward whose server is missing is passed over.
List(c) ==
  /\ pc[c] = "list"
  /\ Hold(c, stored)
  /\ GoTo(c, IF Automatic(stored) /\ (kind = "forward" => stored.server \in Known)
             THEN "start" ELSE "idle")
  /\ UNCHANGED <<kind, stored, servers, shown, running, made, deleted, failed, raced>>

\* StartPortForward and StartManagedProcess read the entry, the first its server too.
StartRead(c) ==
  /\ Begin(c, "start") /\ kind # "mapping"
  /\ stored # None /\ stored.server \in Known \cup {None}
  /\ Hold(c, stored)
  /\ GoTo(c, "start")
  /\ UNCHANGED <<kind, stored, servers, shown, running, made, deleted, failed>>

\* Stop, of whatever runs; killing a process may fail.
StopRunning == running' = None \/ (kind = "process" /\ UNCHANGED running)
Stuck == IF running' = None THEN {} ELSE {"apart"}

\* StopPortForward and StopManagedProcess.
StopCall(c) ==
  /\ Begin(c, "stop") /\ kind # "mapping"
  /\ StopRunning
  /\ UNCHANGED <<kind, stored, servers, shown, pc, held, made, deleted, failed>>

\* A process ends by itself, or a forward's accept loop does.
RunningEnds ==
  /\ kind # "mapping" /\ running # None
  /\ running' = None
  /\ UNCHANGED <<kind, stored, servers, shown, pc, held, made, deleted, failed, raced>>

-----------------------------------------------------------------------------
(***************************************************************************)
(* DeleteSyncMapping, DeletePortForward, DeleteManagedProcess, RunFullSync.*)
(***************************************************************************)
\* What Stop returns is ignored.
DeleteStop(c) ==
  /\ Idle(c) /\ "delete" \in Ops /\ stored # None
  /\ StopRunning
  /\ raced' = raced \cup Overlaps \cup Stuck
  /\ GoTo(c, "delete")
  /\ UNCHANGED <<kind, stored, servers, shown, held, made, deleted, failed>>

DeleteStore(c) ==
  /\ pc[c] = "delete"
  /\ stored' = None /\ deleted' = TRUE
  /\ GoTo(c, "idle")
  /\ UNCHANGED <<kind, servers, shown, running, held, made, failed, raced>>

FullRead(c) ==
  /\ Begin(c, "full") /\ kind = "mapping"
  /\ stored # None /\ stored.mode # "disabled"
  /\ Hold(c, stored)
  /\ GoTo(c, "full")
  /\ UNCHANGED <<kind, stored, servers, shown, running, made, deleted, failed>>

\* The sync ran, failed or was refused; the whole mapping is stored to keep its time.
FullStore(c) ==
  /\ pc[c] = "full"
  /\ Upsert(held[c])
  /\ raced' = IF stored = held[c] THEN raced ELSE raced \cup {"undone"}
  /\ GoTo(c, "idle")
  /\ UNCHANGED <<kind, servers, shown, running, held, made, deleted, failed>>

-----------------------------------------------------------------------------
(***************************************************************************)
(* ImportConfig.                                                           *)
(***************************************************************************)
\* stopAllRuntime stops the mappings and forwards in the store and every process.
ImportStop(c) ==
  /\ Idle(c) /\ "import" \in Ops
  /\ IF stored # None \/ kind = "process" THEN StopRunning ELSE UNCHANGED running
  /\ raced' = raced \cup Overlaps \cup (IF kind = "process" THEN Stuck ELSE {})
  /\ GoTo(c, "import")
  /\ UNCHANGED <<kind, stored, servers, shown, held, made, deleted, failed>>

\* Export leaves out the secrets or, with a passphrase, seals them; ParseExport restores
\* them with the same passphrase and fails with another.
Documents == [Servers -> {"absent", "bare"}] \cup [Servers -> {"absent", "bare", "secret"}]

In(doc) == {s \in Servers : doc[s] # "absent"}

\* The entry in the document may refer to any server: what is missing afterwards is
\* reported by missingServerRefs, and stored.  Export clears AutoSync and AutoStart,
\* but a file can be edited.
ImportEntry ==
  /\ made < MaxMade /\ made' = made + 1 /\ deleted' = FALSE
  /\ \E e \in Entries(made + 1, Servers, Modes) : Upsert(e)
  /\ raced' = raced \cup (IF Dangling' THEN {"foreign"} ELSE {})

\* The call returns, and the goroutine it leaves behind starts the entries.
ImportReplace(c) ==
  /\ pc[c] = "import"
  /\ \E doc \in Documents :
       /\ servers' = doc
       /\ ImportEntry \/ (stored' = None /\ UNCHANGED <<made, deleted, raced>>)
  /\ GoTo(c, "list")
  /\ UNCHANGED <<kind, shown, running, held, failed>>

\* What is in the document replaces what has its ID, secrets left out included.
ImportMerge(c) ==
  /\ pc[c] = "import"
  /\ \E doc \in Documents :
       /\ servers' = [s \in Servers |-> IF s \in In(doc) THEN doc[s] ELSE servers[s]]
       /\ ImportEntry \/ UNCHANGED <<stored, made, deleted, raced>>
  /\ GoTo(c, "list")
  /\ UNCHANGED <<kind, shown, running, held, failed>>

\* An unknown mode: nothing is imported.
ImportFails(c) ==
  /\ pc[c] = "import"
  /\ GoTo(c, "list")
  /\ UNCHANGED <<kind, stored, servers, shown, running, held, made, deleted, failed, raced>>

-----------------------------------------------------------------------------
(***************************************************************************)
(* The calls on servers.                                                   *)
(***************************************************************************)
\* ListServersForUI gives a mask for a secret, and the form sends it back.
ListServers(c) ==
  /\ Begin(c, "server")
  /\ shown' = shown \cup {s \in Servers : servers[s] \in {"secret", "mask"}}
  /\ UNCHANGED <<kind, stored, servers, running, pc, held, made, deleted, failed>>

\* Mutation of UpsertServer: an empty field stands for an unchanged secret, the mask
\* does not.
UpsertServerMasked(c) ==
  /\ Idle(c) /\ "server" \in Ops
  /\ \E s \in Servers, sent \in {"bare", "secret", "mask"} :
       /\ sent = "mask" => s \in shown
       /\ servers' = [servers EXCEPT ![s] =
                        IF s \in Known /\ sent = "bare" THEN @ ELSE sent]
       /\ raced' = raced \cup Overlaps
                     \cup (IF sent = "mask" /\ s \notin Known THEN {"remade"} ELSE {})
  /\ UNCHANGED <<kind, stored, shown, running, pc, held, made, deleted, failed>>

\* An empty secret, or the mask, keeps the stored one; the server may be new, or gone
\* since its form was filled in.
UpsertServer(c) ==
  /\ Idle(c) /\ "server" \in Ops
  /\ \E s \in Servers, sent \in {"bare", "secret", "mask"} :
       /\ sent = "mask" => s \in shown
       /\ servers' = [servers EXCEPT ![s] =
                        IF s \in Known /\ sent # "secret" THEN @ ELSE sent]
       /\ raced' = raced \cup Overlaps
                     \cup (IF sent = "mask" /\ s \notin Known THEN {"remade"} ELSE {})
  /\ UNCHANGED <<kind, stored, shown, running, pc, held, made, deleted, failed>>

\* Mutation of DeleteServer: the references are not looked at.
DeleteServerAny(c) ==
  /\ Begin(c, "server")
  /\ \E s \in Known : servers' = [servers EXCEPT ![s] = "absent"]
  /\ UNCHANGED <<kind, stored, shown, running, pc, held, made, deleted, failed>>

\* A server that is referred to is not deleted.
DeleteServer(c) ==
  /\ Begin(c, "server")
  /\ \E s \in Known :
       /\ stored # None => stored.server # s
       /\ servers' = [servers EXCEPT ![s] = "absent"]
  /\ UNCHANGED <<kind, stored, shown, running, pc, held, made, deleted, failed>>

-----------------------------------------------------------------------------
Run(c)    == Start(c) \/ StartRegister(c) \/ Launch(c) \/ List(c) \/ StartRead(c) \/ StopCall(c)
Change(c) == SaveStore(c) \/ SaveStop(c) \/ DeleteStop(c) \/ DeleteStore(c)
Full(c)   == FullRead(c) \/ FullStore(c)
Import(c) == ImportStop(c) \/ ImportReplace(c) \/ ImportMerge(c) \/ ImportFails(c)
Server(c) == ListServers(c) \/ UpsertServer(c) \/ DeleteServer(c)

Next ==
  RunningEnds \/ \E c \in Calls : Run(c) \/ Change(c) \/ Full(c) \/ Import(c) \/ Server(c)

Spec == Init /\ [][Next]_vars

-----------------------------------------------------------------------------
AtRest == \A c \in Calls : Idle(c)

\* store.go:13, "the in-memory authority for configuration": once the calls are over
\* the engine runs the mapping as it is stored, if it is automatic, and unless it
\* could not be started, and no forward or process runs whose entry is gone.  So it is
\* when the calls were made one after the other, the autostart and what an import
\* leaves behind among them, every process that was to be killed was, and every save
\* was written.
RuntimeFollowsConfig ==
  AtRest /\ "apart" \notin raced =>
    /\ kind = "mapping" => running = IF Automatic(stored) /\ ~failed THEN stored ELSE None
    /\ stored = None => running = None

\* store.go:231, a server in use is not deleted: however deletes, saves, full syncs and
\* imports overlap, the server of the stored entry is there, unless the reference
\* itself was brought in when its server was not: by a full sync that stored its old
\* copy over a change, by a form with an old choice, or by a file that was loaded or
\* imported.  None of these is checked against the servers.
ServerInUseStays == Dangling => {"undone", "stale", "foreign"} \cap raced # {}

\* The mask that stands for a secret in the window never becomes the secret, although
\* forms are filled in and saved at any time, unless the form's server was gone.
MaskIsNoSecret ==
  "remade" \notin raced => \A s \in Servers : servers[s] # "mask"

\* A mapping the window reported as deleted stays deleted until it is saved or
\* imported again.
DeletedStaysDeleted == deleted /\ AtRest => stored = None

-----------------------------------------------------------------------------
(***************************************************************************)
(* The inductive invariant behind RuntimeFollowsConfig: as long as nothing *)
(* was "apart", one call is under way at most, and where it is says what   *)
(* runs and what it holds.                                                 *)
(***************************************************************************)
Settled ==
  /\ kind = "mapping" => running = IF Automatic(stored) /\ ~failed THEN stored ELSE None
  /\ stored = None => running = None

Solo == \A c, d \in Calls : Idle(c) \/ Idle(d) \/ c = d

UnderWay(c) ==
  /\ pc[c] \in {"list", "import", "delete"} => running = None
  /\ pc[c] \in {"stop", "start", "dial", "full"} => held[c] = stored
  /\ pc[c] \in {"stop", "dial", "full"} => kind = "mapping"
  /\ pc[c] \in {"start", "dial"} /\ kind = "mapping" => Automatic(stored) /\ running = None
  /\ pc[c] = "full" => Settled

RestInv ==
  "apart" \notin raced => Solo /\ (AtRest => Settled) /\ \A c \in Calls : UnderWay(c)

Inv == TypeOK /\ RestInv
=============================================================================
