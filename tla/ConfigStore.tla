----------------------------- MODULE ConfigStore -----------------------------
(***************************************************************************)
(* How internal/config/store.go keeps the configuration on disk: the       *)
(* authority is in memory, every mutator ends in saveLocked, and Open      *)
(* loads config.toml or falls back to config.toml.bak.  A configuration is *)
(* the number of the save that made it, 0 is the empty one.  A file of no  *)
(* bytes decodes, as the empty configuration, so its content is 0 too.     *)
(*                                                                         *)
(* All mutators hold Store.mu from the change in memory to the end of      *)
(* saveLocked, so one pc is enough.  os.WriteFile truncates and then       *)
(* fills, which are two steps here; os.Rename is one.                      *)
(***************************************************************************)
EXTENDS Naturals

CONSTANTS
  MaxVersion, \* bound: configurations ever made
  MaxFaults,  \* bound: faults between two saves without a fault
  Kinds,      \* what may go wrong: "write" a file operation fails, "crash" the
              \* program is killed, "power" the machine stops and data not yet
              \* flushed are gone, "loss" the same when they are config.toml's,
              \* "spoil" config.toml becomes undecodable
  None,       \* no such file
  Torn,       \* a file that does not decode
  Part        \* a file cut at the end of a line: it decodes, as a part of what it held

ASSUME StoreAssumption ==
  /\ MaxVersion \in Nat /\ MaxFaults \in Nat
  /\ Kinds \subseteq {"write", "crash", "power", "loss", "spoil"}
  /\ {None, Torn, Part} \cap Nat = {} /\ None # Torn /\ None # Part /\ Torn # Part

VARIABLES
  up,      \* the program runs and Open returned
  pc,      \* where Open or saveLocked is
  mem,     \* Store.file
  main,    \* config.toml
  bak,     \* config.toml.bak
  tmp,     \* config.toml.tmp
  dirty,   \* files whose data the system has not flushed
  made,    \* configurations made so far
  acked,   \* history: the last configuration saved without an error, or loaded
  before,  \* history: what acked was before that
  faults,  \* faults since the last save without one
  clean,   \* no fault yet in the save under way
  happened \* history: the kinds of what went wrong so far, and "again" when two faults
           \* were not separated by a save without one

files == <<main, bak, tmp, dirty>>
past  == <<made, acked, before, faults, clean, happened>>
vars  == <<up, pc, mem, files, past>>

Versions == 0..MaxVersion
Configs  == Versions \cup {Part}
Contents == Configs \cup {None, Torn}

TypeOK ==
  /\ up \in BOOLEAN
  /\ pc \in {"down", "idle", "stat", "bak", "tmp", "fill", "rename", "repair", "refill"}
  /\ mem \in Configs
  /\ main \in Contents /\ bak \in Contents /\ tmp \in Contents
  /\ dirty \subseteq {"main", "bak", "tmp"}
  /\ made \in Versions /\ acked \in Configs /\ before \in Configs
  /\ faults \in 0..MaxFaults /\ clean \in BOOLEAN
  /\ happened \subseteq Kinds \cup {"again"}

Init ==
  /\ up = FALSE /\ pc = "down"
  /\ mem = 0
  /\ main = None /\ bak = None /\ tmp = None /\ dirty = {}
  /\ made = 0 /\ acked = 0 /\ before = 0 /\ faults = 0 /\ clean = TRUE /\ happened = {}

\* What is left of a file whose writing was cut short.
Stubs == {0, Part, Torn}

Readable(file) == file \in Configs
Fault(kind) ==
  /\ kind \in Kinds /\ faults < MaxFaults
  /\ faults' = faults + 1 /\ clean' = FALSE
  /\ happened' = happened \cup {kind} \cup (IF faults > 0 THEN {"again"} ELSE {})

-----------------------------------------------------------------------------
(***************************************************************************)
(* Open.                                                                   *)
(***************************************************************************)
OpenLoads ==
  IF Readable(main) THEN main
  ELSE IF main = Torn /\ Readable(bak) THEN bak ELSE 0

Loaded(v) ==
  /\ mem' = v /\ acked' = v
  /\ before' = IF v = acked THEN before ELSE v

\* config.toml if it decodes; when it does not, the backup, which is then written
\* over it, or else the file is set aside (an error of that is ignored) and the
\* configuration is empty.
Load ==
  /\ pc = "down"
  /\ Loaded(OpenLoads)
  /\ \/ /\ main # Torn
        /\ pc' = "idle" /\ up' = TRUE
        /\ UNCHANGED <<main, faults, clean, happened>>
     \/ /\ main = Torn /\ Readable(bak)
        /\ pc' = "repair"
        /\ UNCHANGED <<up, main, faults, clean, happened>>
     \/ /\ main = Torn /\ ~Readable(bak)
        /\ pc' = "idle" /\ up' = TRUE
        /\ \/ main' = None /\ UNCHANGED <<faults, clean, happened>>
           \/ Fault("write") /\ UNCHANGED main
  /\ UNCHANGED <<bak, tmp, dirty, made>>

\* os.WriteFile(s.path, bakData), whose error is ignored.
Repair ==
  /\ pc = "repair"
  /\ \/ /\ pc' = "refill" /\ main' = 0 /\ dirty' = dirty \cup {"main"}
        /\ UNCHANGED <<up, faults, clean, happened>>
     \/ /\ pc' = "idle" /\ up' = TRUE /\ Fault("write")
        /\ UNCHANGED <<main, dirty>>
  /\ UNCHANGED <<mem, bak, tmp, made, acked, before>>

Refill ==
  /\ pc = "refill"
  /\ up' = TRUE /\ pc' = "idle"
  /\ \/ main' = bak /\ UNCHANGED <<faults, clean, happened>>
     \/ main' \in Stubs /\ Fault("write")
  /\ UNCHANGED <<mem, bak, tmp, dirty, made, acked, before>>

-----------------------------------------------------------------------------
(***************************************************************************)
(* A mutator: change the file in memory, then saveLocked.                  *)
(***************************************************************************)
Mutate ==
  /\ pc = "idle" /\ made < MaxVersion
  /\ made' = made + 1
  /\ mem' = made + 1
  /\ pc' = "stat"
  /\ clean' = TRUE
  /\ UNCHANGED <<up, files, acked, before, faults, happened>>

\* Mutation of Truncate: there is no temporary file.
TruncateMain ==
  /\ pc = "tmp"
  /\ pc' = "fill"
  /\ main' = 0 /\ tmp' = 0
  /\ dirty' = dirty \cup {"main", "tmp"}
  /\ UNCHANGED <<up, mem, bak, past>>

\* Mutation of Stat: the backup is never renewed.
StatOnly ==
  /\ pc = "stat"
  /\ pc' = "tmp"
  /\ UNCHANGED <<up, mem, files, past>>

\* The directory and the secrets, whose errors end the save.  Then copyFile reads
\* config.toml if there is one, and truncates the backup; an error on either is
\* ignored.
Stat ==
  /\ pc = "stat"
  /\ \/ /\ main # None
        /\ pc' = "bak" /\ bak' = 0 /\ dirty' = dirty \cup {"bak"}
        /\ UNCHANGED <<faults, clean, happened>>
     \/ /\ main = None
        /\ pc' = "tmp" /\ UNCHANGED <<bak, dirty, faults, clean, happened>>
     \/ /\ main # None
        /\ pc' = "tmp" /\ Fault("write") /\ UNCHANGED <<bak, dirty>>
     \/ pc' = "idle" /\ Fault("write") /\ UNCHANGED <<bak, dirty>>
  /\ UNCHANGED <<up, mem, main, tmp, made, acked, before>>

\* The rest of copyFile: whatever config.toml holds.
CopyBak ==
  /\ pc = "bak"
  /\ pc' = "tmp"
  /\ \/ bak' = main /\ UNCHANGED <<faults, clean, happened>>
     \/ bak' \in Stubs /\ Fault("write")
  /\ UNCHANGED <<up, mem, main, tmp, dirty, made, acked, before>>

Truncate ==
  /\ pc = "tmp"
  /\ \/ pc' = "fill" /\ tmp' = 0 /\ dirty' = dirty \cup {"tmp"} /\ UNCHANGED <<faults, clean, happened>>
     \/ pc' = "idle" /\ Fault("write") /\ UNCHANGED <<tmp, dirty>>
  /\ UNCHANGED <<up, mem, main, bak, made, acked, before>>

Fill ==
  /\ pc = "fill"
  /\ \/ pc' = "rename" /\ tmp' = mem /\ UNCHANGED <<faults, clean, happened>>
     \/ pc' = "idle" /\ tmp' \in Stubs /\ Fault("write")
  /\ UNCHANGED <<up, mem, main, bak, dirty, made, acked, before>>

\* Mutation of Rename: an error is not returned.
RenameIgnored ==
  /\ pc = "rename"
  /\ pc' = "idle"
  /\ acked' = mem /\ before' = acked /\ faults' = 0 /\ UNCHANGED <<clean, happened>>
  /\ \/ main' = tmp /\ tmp' = None
     \/ UNCHANGED <<main, tmp>>
  /\ UNCHANGED <<up, mem, bak, dirty, made>>

Rename ==
  /\ pc = "rename"
  /\ pc' = "idle"
  /\ \/ /\ main' = tmp /\ tmp' = None
        /\ dirty' = (dirty \ {"tmp"}) \cup {"main"}
        /\ acked' = mem /\ before' = acked
        /\ faults' = IF clean THEN 0 ELSE faults
        /\ UNCHANGED <<clean, happened>>
     \/ Fault("write") /\ UNCHANGED <<main, tmp, dirty, acked, before>>
  /\ UNCHANGED <<up, mem, bak, made>>

-----------------------------------------------------------------------------
\* The program is killed, at any point; a file it is just filling is cut short.
Crash ==
  /\ pc # "down" /\ Fault("crash")
  /\ up' = FALSE /\ pc' = "down"
  /\ main' \in {main} \cup (IF pc = "refill" THEN Stubs ELSE {})
  /\ bak' \in {bak} \cup (IF pc = "bak" THEN Stubs ELSE {})
  /\ tmp' \in {tmp} \cup (IF pc = "fill" THEN Stubs ELSE {})
  /\ UNCHANGED <<mem, dirty, made, acked, before>>

\* The program ends in peace.
Quit ==
  /\ pc = "idle"
  /\ up' = FALSE /\ pc' = "down"
  /\ UNCHANGED <<mem, files, past>>

\* The system flushes a file in its own time; saveLocked never asks it to.
Flush ==
  /\ dirty # {}
  /\ \E f \in dirty : dirty' = dirty \ {f}
  /\ UNCHANGED <<up, pc, mem, main, bak, tmp, past>>

\* A file that was not flushed may be cut short, or be as it was at any time before;
\* a rename that was not flushed is undone.
PowerCut ==
  /\ up' = FALSE /\ pc' = "down"
  /\ \E lost \in SUBSET dirty :
       /\ Fault(IF "main" \in lost THEN "loss" ELSE "power")
       /\ main' \in (IF "main" \in lost THEN 0..made \cup Stubs \cup {None} ELSE {main})
       /\ bak'  \in (IF "bak"  \in lost THEN 0..made \cup Stubs \cup {None} ELSE {bak})
       /\ tmp'  \in (IF "tmp"  \in lost THEN 0..made \cup Stubs \cup {None} ELSE {tmp})
  /\ dirty' = {}
  /\ UNCHANGED <<mem, made, acked, before>>

\* While the program is down config.toml becomes undecodable, as by a slip of the
\* editor.
Spoil ==
  /\ pc = "down" /\ main # None /\ Fault("spoil")
  /\ main' = Torn
  /\ UNCHANGED <<up, pc, mem, bak, tmp, dirty, made, acked, before>>

-----------------------------------------------------------------------------
Open == Load \/ Repair \/ Refill
Save == Mutate \/ Stat \/ CopyBak \/ Truncate \/ Fill \/ Rename

Next == Open \/ Save \/ Crash \/ Quit \/ Flush \/ PowerCut \/ Spoil

Spec == Init /\ [][Next]_vars

-----------------------------------------------------------------------------
\* store.go:13, "atomic TOML persistence": whenever the program is down, and however
\* often it was killed, its file operations failed or the machine stopped at a time
\* when config.toml itself was flushed (the backup and the temporary file need not
\* be), Open would load the last configuration whose save succeeded, or the one last
\* made.
AtomicPersistence ==
  pc = "down" /\ happened \subseteq {"write", "crash", "power", "again"}
    => OpenLoads \in {acked, mem}

\* One fault between two saves without one, an undecodable config.toml included, costs
\* at most the latest configuration: Open would find it, or its predecessor, and would
\* not start empty over it.
OneFaultCostsOneSave ==
  pc = "down" /\ happened \subseteq {"write", "crash", "power", "spoil"}
    => OpenLoads \in {acked, before, mem}

\* Between saves the disk holds the last configuration whose save returned no
\* error, also after saves that failed half-way.
AckedIsOnDisk ==
  up /\ pc = "idle" /\ happened \subseteq {"write", "crash", "power", "again"}
    => main = acked \/ (main = None /\ acked = 0)

-----------------------------------------------------------------------------
(***************************************************************************)
(* The inductive invariant behind the three, in parts.                     *)
(***************************************************************************)
\* The file that is renamed is complete, and is the newest configuration.
CompleteInv == pc = "rename" => tmp = mem

\* A fault leaves its count, and a second one before a clean save leaves "again".
FaultInv ==
  /\ ~clean => faults > 0
  /\ faults > 1 => "again" \in happened

\* While writes fail, processes die and the machine stops with config.toml flushed,
\* config.toml is whole and is what was last acknowledged.
WholeInv ==
  happened \subseteq {"write", "crash", "power", "again"} =>
    /\ main = acked \/ (main = None /\ acked = 0)
    /\ pc \notin {"repair", "refill"}

Holds(file, v) == file = v \/ (file = None /\ v = 0)

\* With one fault between clean saves, config.toml is damaged only while the backup
\* holds the configuration before it, until Open has repaired it; a save renews the
\* backup before it touches config.toml.
BackupInv ==
  happened \subseteq {"write", "crash", "power", "spoil"} =>
    /\ \/ main = acked
       \/ main = None /\ acked = 0 /\ bak = None
       \/ main = Torn /\ faults > 0 /\ pc \in {"down", "repair"}
       \/ pc = "refill"
    /\ main = Torn /\ pc = "down" => Holds(bak, before)
    /\ pc \in {"repair", "refill"} => bak = acked /\ faults > 0
    /\ faults = 0 /\ pc \in {"down", "idle", "stat"} => Holds(bak, before)
    /\ pc = "bak" => main = acked
    /\ bak = None => "bak" \notin dirty
    /\ pc \in {"tmp", "fill", "rename"} /\ clean => Holds(bak, acked)

Inv == TypeOK /\ CompleteInv /\ FaultInv /\ WholeInv /\ BackupInv
=============================================================================
