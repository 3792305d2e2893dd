-------------------------- MODULE ConfigStoreProofs --------------------------
(***************************************************************************)
(* What is acknowledged is on disk, and what one fault can cost, for any   *)
(* number of saves and faults.                                             *)
(***************************************************************************)
EXTENDS ConfigStore, TLAPS

\* The temporary file when it is renamed.
LEMMA CompleteStep ==
  ASSUME StoreAssumption, Inv, [Next]_vars
  PROVE  CompleteInv'
<1> USE DEF StoreAssumption, Inv, TypeOK, files, past, Fault, Readable, Versions, Configs, Contents, Stubs,
      CompleteInv
<1>1. CASE Open
  <2>1. CASE Load BY <2>1 DEF Load
  <2>2. CASE Repair BY <2>2 DEF Repair
  <2>3. CASE Refill BY <2>3 DEF Refill
  <2>4. QED BY <1>1, <2>1, <2>2, <2>3 DEF Open
<1>2. CASE Save
  <2>1. CASE Mutate BY <2>1 DEF Mutate
  <2>2. CASE Stat BY <2>2 DEF Stat
  <2>3. CASE CopyBak BY <2>3 DEF CopyBak
  <2>4. CASE Truncate BY <2>4 DEF Truncate
  <2>5. CASE Fill BY <2>5 DEF Fill
  <2>6. CASE Rename BY <2>6 DEF Rename
  <2>7. QED BY <1>2, <2>1, <2>2, <2>3, <2>4, <2>5, <2>6 DEF Save
<1>3. CASE Crash
  BY <1>3 DEF Crash
<1>4. CASE Quit
  BY <1>4 DEF Quit
<1>5. CASE Flush
  BY <1>5 DEF Flush
<1>6. CASE PowerCut
  BY <1>6 DEF PowerCut
<1>7. CASE Spoil
  BY <1>7 DEF Spoil
<1>8. CASE UNCHANGED vars
  BY <1>8 DEF vars
<1>9. QED
  BY <1>1, <1>2, <1>3, <1>4, <1>5, <1>6, <1>7, <1>8 DEF Next, Open, Save

\* The count of faults, and what it leaves behind.
LEMMA FaultStep ==
  ASSUME StoreAssumption, Inv, [Next]_vars
  PROVE  FaultInv'
<1> USE DEF StoreAssumption, Inv, TypeOK, files, past, Fault, Readable, Versions, Configs, Contents, Stubs,
      FaultInv
<1>1. CASE Open
  <2>1. CASE Load BY <2>1 DEF Load
  <2>2. CASE Repair BY <2>2 DEF Repair
  <2>3. CASE Refill BY <2>3 DEF Refill
  <2>4. QED BY <1>1, <2>1, <2>2, <2>3 DEF Open
<1>2. CASE Save
  <2>1. CASE Mutate BY <2>1 DEF Mutate
  <2>2. CASE Stat BY <2>2 DEF Stat
  <2>3. CASE CopyBak BY <2>3 DEF CopyBak
  <2>4. CASE Truncate BY <2>4 DEF Truncate
  <2>5. CASE Fill BY <2>5 DEF Fill
  <2>6. CASE Rename BY <2>6 DEF Rename
  <2>7. QED BY <1>2, <2>1, <2>2, <2>3, <2>4, <2>5, <2>6 DEF Save
<1>3. CASE Crash
  BY <1>3 DEF Crash
<1>4. CASE Quit
  BY <1>4 DEF Quit
<1>5. CASE Flush
  BY <1>5 DEF Flush
<1>6. CASE PowerCut
  BY <1>6 DEF PowerCut
<1>7. CASE Spoil
  BY <1>7 DEF Spoil
<1>8. CASE UNCHANGED vars
  BY <1>8 DEF vars
<1>9. QED
  BY <1>1, <1>2, <1>3, <1>4, <1>5, <1>6, <1>7, <1>8 DEF Next, Open, Save

\* config.toml under failing writes and kills.
LEMMA WholeStep ==
  ASSUME StoreAssumption, Inv, [Next]_vars
  PROVE  WholeInv'
<1> USE DEF StoreAssumption, Inv, TypeOK, files, past, Fault, Readable, Versions, Configs, Contents, Stubs,
      CompleteInv, WholeInv, OpenLoads, Loaded
<1>1. CASE Open
  <2>1. CASE Load BY <2>1 DEF Load
  <2>2. CASE Repair BY <2>2 DEF Repair
  <2>3. CASE Refill BY <2>3 DEF Refill
  <2>4. QED BY <1>1, <2>1, <2>2, <2>3 DEF Open
<1>2. CASE Save
  <2>1. CASE Mutate BY <2>1 DEF Mutate
  <2>2. CASE Stat BY <2>2 DEF Stat
  <2>3. CASE CopyBak BY <2>3 DEF CopyBak
  <2>4. CASE Truncate BY <2>4 DEF Truncate
  <2>5. CASE Fill BY <2>5 DEF Fill
  <2>6. CASE Rename BY <2>6 DEF Rename
  <2>7. QED BY <1>2, <2>1, <2>2, <2>3, <2>4, <2>5, <2>6 DEF Save
<1>3. CASE Crash
  BY <1>3 DEF Crash
<1>4. CASE Quit
  BY <1>4 DEF Quit
<1>5. CASE Flush
  BY <1>5 DEF Flush
<1>6. CASE PowerCut
  BY <1>6 DEF PowerCut
<1>7. CASE Spoil
  BY <1>7 DEF Spoil
<1>8. CASE UNCHANGED vars
  BY <1>8 DEF vars
<1>9. QED
  BY <1>1, <1>2, <1>3, <1>4, <1>5, <1>6, <1>7, <1>8 DEF Next, Open, Save

\* The backup beside it, with one fault at a time.
LEMMA BackupStep ==
  ASSUME StoreAssumption, Inv, [Next]_vars
  PROVE  BackupInv'
<1> USE DEF StoreAssumption, Inv, TypeOK, files, past, Fault, Readable, Versions, Configs, Contents, Stubs,
      CompleteInv, FaultInv, BackupInv, Holds, OpenLoads, Loaded
<1>1. CASE Open
  <2>1. CASE Load BY <2>1 DEF Load
  <2>2. CASE Repair
    <3>1. CASE Fault("write") BY <2>2, <3>1 DEF Repair
    <3>2. CASE pc' = "refill" /\ UNCHANGED <<faults, clean, happened>> BY <2>2, <3>2 DEF Repair
    <3>3. QED BY <2>2, <3>1, <3>2 DEF Repair
  <2>3. CASE Refill
    <3>1. CASE Fault("write") BY <2>3, <3>1 DEF Refill
    <3>2. CASE main' = bak /\ UNCHANGED <<faults, clean, happened>> BY <2>3, <3>2 DEF Refill
    <3>3. QED BY <2>3, <3>1, <3>2 DEF Refill
  <2>4. QED BY <1>1, <2>1, <2>2, <2>3 DEF Open
<1>2. CASE Save
  <2>1. CASE Mutate BY <2>1 DEF Mutate
  <2>2. CASE Stat
    <3>1. CASE Fault("write") BY <2>2, <3>1 DEF Stat
    <3>2. CASE main # None /\ pc' = "bak" /\ UNCHANGED <<faults, clean, happened>> BY <2>2, <3>2 DEF Stat
    <3>3. CASE main = None /\ UNCHANGED <<bak, faults, clean, happened>> BY <2>2, <3>3 DEF Stat
    <3>4. QED BY <2>2, <3>1, <3>2, <3>3 DEF Stat
  <2>3. CASE CopyBak
    <3>1. CASE bak' = main /\ UNCHANGED <<faults, clean, happened>> BY <2>3, <3>1 DEF CopyBak
    <3>2. CASE bak' \in Stubs /\ Fault("write")
      <4>1. bak' # None
        BY <3>2
      <4>2. QED BY <2>3, <3>2, <4>1 DEF CopyBak
    <3>3. QED BY <2>3, <3>1, <3>2 DEF CopyBak
  <2>4. CASE Truncate BY <2>4 DEF Truncate
  <2>5. CASE Fill BY <2>5 DEF Fill
  <2>6. CASE Rename BY <2>6 DEF Rename
  <2>7. QED BY <1>2, <2>1, <2>2, <2>3, <2>4, <2>5, <2>6 DEF Save
<1>3. CASE Crash
  <2>1. CASE pc = "refill" BY <1>3, <2>1 DEF Crash
  <2>2. CASE pc = "bak" BY <1>3, <2>2 DEF Crash
  <2>3. CASE pc \notin {"refill", "bak"}
    <3>1. main' = main /\ bak' = bak /\ pc' = "down" /\ pc # "down" /\ Fault("crash")
      BY <1>3, <2>3 DEF Crash
    <3>2. UNCHANGED <<dirty, acked, before>>
      BY <1>3 DEF Crash
    <3>3. QED BY ONLY <2>3, <3>1, <3>2, Inv, StoreAssumption
            DEF StoreAssumption, Configs, Versions, Inv, TypeOK, BackupInv, FaultInv, Holds, Fault
  <2>4. QED BY <2>1, <2>2, <2>3
<1>4. CASE Quit
  BY <1>4 DEF Quit
<1>5. CASE Flush
  BY <1>5 DEF Flush
<1>6. CASE PowerCut
  <2>1. PICK lost \in SUBSET dirty :
          /\ Fault(IF "main" \in lost THEN "loss" ELSE "power")
          /\ "main" \notin lost => main' = main
          /\ "bak" \notin lost => bak' = bak
    BY <1>6 DEF PowerCut
  <2>2. pc' = "down" /\ dirty' = {} /\ UNCHANGED <<mem, made, acked, before>>
    BY <1>6 DEF PowerCut
  <2>3. CASE "main" \in lost
    <3>1. "loss" \in happened'
      BY <2>1, <2>3
    <3>2. QED BY <3>1 DEF BackupInv
  <2>4. CASE "main" \notin lost
    <3>1. Fault("power") /\ main' = main
      BY <2>1, <2>4
    <3>2. SUFFICES ASSUME happened' \subseteq {"write", "crash", "power", "spoil"}
                   PROVE  BackupInv'
      BY DEF BackupInv
    <3>3. bak = None => bak' = None
      BY <2>1, <3>1, <3>2 DEF BackupInv
    <3>4. QED BY ONLY <2>2, <3>1, <3>2, <3>3, Inv, StoreAssumption
            DEF StoreAssumption, Configs, Versions, Inv, TypeOK, BackupInv, FaultInv, Holds, Fault
  <2>5. QED BY <2>3, <2>4
<1>7. CASE Spoil
  BY <1>7 DEF Spoil
<1>8. CASE UNCHANGED vars
  BY <1>8 DEF vars
<1>9. QED
  BY <1>1, <1>2, <1>3, <1>4, <1>5, <1>6, <1>7, <1>8 DEF Next, Open, Save

-----------------------------------------------------------------------------
\* The types, in three parts: the record of faults, the files, and the rest.
FaultType ==
  faults' \in 0..MaxFaults /\ clean' \in BOOLEAN /\ happened' \subseteq Kinds \cup {"again"}

ContentType ==
  /\ main' \in Contents /\ bak' \in Contents /\ tmp' \in Contents
  /\ dirty' \subseteq {"main", "bak", "tmp"}

ControlType ==
  /\ up' \in BOOLEAN
  /\ pc' \in {"down", "idle", "stat", "bak", "tmp", "fill", "rename", "repair", "refill"}
  /\ mem' \in Configs /\ made' \in Versions /\ acked' \in Configs /\ before' \in Configs

LEMMA TypeParts ==
  ASSUME FaultType, ContentType, ControlType
  PROVE  TypeOK'
BY DEF FaultType, ContentType, ControlType, TypeOK, Contents, Configs, Versions

LEMMA FaultTyped ==
  ASSUME StoreAssumption, TypeOK,
         UNCHANGED <<faults, clean, happened>> \/ \E kind \in Kinds : Fault(kind)
  PROVE  FaultType
<1>1. CASE UNCHANGED <<faults, clean, happened>>
  BY <1>1 DEF TypeOK, FaultType
<1>2. CASE \E kind \in Kinds : Fault(kind)
  <2>1. PICK kind \in Kinds : Fault(kind)
    BY <1>2
  <2>2. faults' \in 0..MaxFaults
    BY <2>1 DEF Fault, TypeOK, StoreAssumption
  <2>3. happened' \subseteq Kinds \cup {"again"}
    BY <2>1 DEF Fault, TypeOK
  <2>4. QED BY <2>1, <2>2, <2>3 DEF Fault, FaultType
<1>3. QED BY <1>1, <1>2

LEMMA TypeStep ==
  ASSUME StoreAssumption, Inv, [Next]_vars
  PROVE  TypeOK'
<1> USE StoreAssumption DEF Inv, StoreAssumption, Versions, Configs, Contents, Stubs, Readable, Fault
<1>1. CASE Open
  <2>1. CASE Load
    <3>1. FaultType
      BY <2>1, FaultTyped DEF Load
    <3>2. ContentType
      BY <2>1 DEF Load, ContentType, TypeOK, files, past, OpenLoads, Loaded
    <3>3. ControlType
      <4>1. OpenLoads \in Configs
        BY DEF OpenLoads, TypeOK
      <4>2. up' \in BOOLEAN /\ pc' \in {"repair", "idle"} /\ made' \in Versions
        BY <2>1 DEF Load, TypeOK
      <4>3. mem' \in Configs /\ acked' \in Configs /\ before' \in Configs
        BY <2>1, <4>1 DEF Load, Loaded, TypeOK
      <4>4. QED BY <4>2, <4>3 DEF ControlType
    <3>4. QED BY <3>1, <3>2, <3>3, TypeParts
  <2>2. CASE Repair
    <3>1. FaultType
      BY <2>2, FaultTyped DEF Repair
    <3>2. ContentType
      <4>1. main' \in Contents /\ bak' \in Contents /\ tmp' \in Contents
        BY <2>2 DEF Repair, TypeOK
      <4>2. dirty' \subseteq {"main", "bak", "tmp"}
        BY <2>2 DEF Repair, TypeOK
      <4>3. QED BY <4>1, <4>2 DEF ContentType
    <3>3. ControlType
      BY <2>2 DEF Repair, ControlType, TypeOK, files, past
    <3>4. QED BY <3>1, <3>2, <3>3, TypeParts
  <2>3. CASE Refill
    <3>1. FaultType
      BY <2>3, FaultTyped DEF Refill
    <3>2. ContentType
      BY <2>3 DEF Refill, ContentType, TypeOK, files, past
    <3>3. ControlType
      BY <2>3 DEF Refill, ControlType, TypeOK, files, past
    <3>4. QED BY <3>1, <3>2, <3>3, TypeParts
  <2>4. QED BY <1>1, <2>1, <2>2, <2>3 DEF Open
<1>2. CASE Save
  <2>1. CASE Mutate
    <3>1. FaultType
      BY <2>1 DEF Mutate, TypeOK, FaultType
    <3>2. ContentType
      BY <2>1 DEF Mutate, ContentType, TypeOK, files, past
    <3>3. ControlType
      BY <2>1 DEF Mutate, ControlType, TypeOK, files, past
    <3>4. QED BY <3>1, <3>2, <3>3, TypeParts
  <2>2. CASE Stat
    <3>1. FaultType
      BY <2>2, FaultTyped DEF Stat
    <3>2. ContentType
      <4>1. main' \in Contents /\ bak' \in Contents /\ tmp' \in Contents
        BY <2>2 DEF Stat, TypeOK
      <4>2. dirty' \subseteq {"main", "bak", "tmp"}
        BY <2>2 DEF Stat, TypeOK
      <4>3. QED BY <4>1, <4>2 DEF ContentType
    <3>3. ControlType
      BY <2>2 DEF Stat, ControlType, TypeOK, files, past
    <3>4. QED BY <3>1, <3>2, <3>3, TypeParts
  <2>3. CASE CopyBak
    <3>1. FaultType
      BY <2>3, FaultTyped DEF CopyBak
    <3>2. ContentType
      BY <2>3 DEF CopyBak, ContentType, TypeOK, files, past
    <3>3. ControlType
      BY <2>3 DEF CopyBak, ControlType, TypeOK, files, past
    <3>4. QED BY <3>1, <3>2, <3>3, TypeParts
  <2>4. CASE Truncate
    <3>1. FaultType
      BY <2>4, FaultTyped DEF Truncate
    <3>2. ContentType
      <4>1. main' \in Contents /\ bak' \in Contents /\ tmp' \in Contents
        BY <2>4 DEF Truncate, TypeOK
      <4>2. dirty' \subseteq {"main", "bak", "tmp"}
        BY <2>4 DEF Truncate, TypeOK
      <4>3. QED BY <4>1, <4>2 DEF ContentType
    <3>3. ControlType
      BY <2>4 DEF Truncate, ControlType, TypeOK, files, past
    <3>4. QED BY <3>1, <3>2, <3>3, TypeParts
  <2>5. CASE Fill
    <3>1. FaultType
      BY <2>5, FaultTyped DEF Fill
    <3>2. ContentType
      BY <2>5 DEF Fill, ContentType, TypeOK, files, past
    <3>3. ControlType
      BY <2>5 DEF Fill, ControlType, TypeOK, files, past
    <3>4. QED BY <3>1, <3>2, <3>3, TypeParts
  <2>6. CASE Rename
    <3>1. FaultType
      <4>1. CASE Fault("write") BY <4>1, FaultTyped
      <4>2. CASE /\ faults' = IF clean THEN 0 ELSE faults
                 /\ UNCHANGED <<clean, happened>>
        BY <4>2 DEF TypeOK, FaultType
      <4>3. QED BY <2>6, <4>1, <4>2 DEF Rename
    <3>2. ContentType
      BY <2>6 DEF Rename, ContentType, TypeOK, files, past
    <3>3. ControlType
      BY <2>6 DEF Rename, ControlType, TypeOK, files, past
    <3>4. QED BY <3>1, <3>2, <3>3, TypeParts
  <2>7. QED BY <1>2, <2>1, <2>2, <2>3, <2>4, <2>5, <2>6 DEF Save
<1>3. CASE Crash
  <2>1. FaultType
    BY <1>3, FaultTyped DEF Crash
  <2>2. ContentType
    BY <1>3 DEF Crash, ContentType, TypeOK, files, past
  <2>3. ControlType
    BY <1>3 DEF Crash, ControlType, TypeOK, files, past
  <2>4. QED BY <2>1, <2>2, <2>3, TypeParts
<1>4. CASE Quit
  <2>1. FaultType
    BY <1>4 DEF Quit, TypeOK, FaultType, past
  <2>2. ContentType
    BY <1>4 DEF Quit, ContentType, TypeOK, files, past
  <2>3. ControlType
    BY <1>4 DEF Quit, ControlType, TypeOK, files, past
  <2>4. QED BY <2>1, <2>2, <2>3, TypeParts
<1>5. CASE Flush
  <2>1. FaultType
    BY <1>5 DEF Flush, TypeOK, FaultType, past
  <2>2. ContentType
    BY <1>5 DEF Flush, ContentType, TypeOK, files, past
  <2>3. ControlType
    BY <1>5 DEF Flush, ControlType, TypeOK, files, past
  <2>4. QED BY <2>1, <2>2, <2>3, TypeParts
<1>6. CASE PowerCut
  <2>1. FaultType
    BY <1>6, FaultTyped DEF PowerCut
  <2>2. ContentType
    BY <1>6 DEF PowerCut, ContentType, TypeOK, files, past
  <2>3. ControlType
    BY <1>6 DEF PowerCut, ControlType, TypeOK, files, past
  <2>4. QED BY <2>1, <2>2, <2>3, TypeParts
<1>7. CASE Spoil
  <2>1. FaultType
    BY <1>7, FaultTyped DEF Spoil
  <2>2. ContentType
    BY <1>7 DEF Spoil, ContentType, TypeOK, files, past
  <2>3. ControlType
    BY <1>7 DEF Spoil, ControlType, TypeOK, files, past
  <2>4. QED BY <2>1, <2>2, <2>3, TypeParts
<1>8. CASE UNCHANGED vars
  BY <1>8 DEF vars, files, past, TypeOK
<1>9. QED
  BY <1>1, <1>2, <1>3, <1>4, <1>5, <1>6, <1>7, <1>8 DEF Next

-----------------------------------------------------------------------------
\* store.go saveLocked and Open: Inv is inductive, so it holds of every behaviour.
THEOREM InvCorrect == Spec => []Inv
<1>1. Init => Inv
  <2> SUFFICES ASSUME Init PROVE Inv
    OBVIOUS
  <2> USE StoreAssumption DEF StoreAssumption, Init, Versions, Configs, Contents, Stubs, Readable
  <2>1. TypeOK
    <3>1. mem \in Configs /\ made \in Versions /\ acked \in Configs /\ before \in Configs
      OBVIOUS
    <3>2. faults \in 0..MaxFaults /\ clean \in BOOLEAN /\ up \in BOOLEAN
      <4>1. faults \in 0..MaxFaults
        OBVIOUS
      <4>2. clean \in BOOLEAN
        OBVIOUS
      <4>3. up \in BOOLEAN
        OBVIOUS
      <4>4. QED BY <4>1, <4>2, <4>3
    <3>3. main \in Contents /\ bak \in Contents /\ tmp \in Contents
      OBVIOUS
    <3>4. dirty \subseteq {"main", "bak", "tmp"} /\ happened \subseteq Kinds \cup {"again"}
      OBVIOUS
    <3>5. QED BY <3>1, <3>2, <3>3, <3>4 DEF TypeOK
  <2>2. CompleteInv
    BY DEF CompleteInv
  <2>3. FaultInv /\ WholeInv /\ BackupInv
    BY DEF FaultInv, WholeInv, BackupInv, Holds
  <2>4. QED BY <2>1, <2>2, <2>3 DEF Inv
<1>2. Inv /\ [Next]_vars => Inv'
  BY StoreAssumption, TypeStep, CompleteStep, FaultStep, WholeStep, BackupStep DEF Inv
<1>3. QED
  BY <1>1, <1>2, PTL DEF Spec

\* store.go:13, "atomic TOML persistence": under failing writes, kills and power cuts that
\* find config.toml flushed, in any number and at any step of a save, Open loads what
\* was last acknowledged or last made.
THEOREM PersistenceIsAtomic == Spec => []AtomicPersistence
<1>1. Inv => AtomicPersistence
  BY StoreAssumption
     DEF StoreAssumption, Inv, TypeOK, WholeInv, AtomicPersistence, OpenLoads, Readable,
           Configs, Versions
<1>2. QED
  BY <1>1, InvCorrect, PTL

\* store.go saveLocked: between two mutators config.toml is what was last acknowledged,
\* also after a save that returned an error.
THEOREM AckedStaysOnDisk == Spec => []AckedIsOnDisk
<1>1. Inv => AckedIsOnDisk
  BY DEF Inv, WholeInv, AckedIsOnDisk
<1>2. QED
  BY <1>1, InvCorrect, PTL

\* store.go Open and copyFile: one failing operation, kill, such power cut or undecodable
\* config.toml between two clean saves costs the latest configuration at most.
THEOREM OneFaultIsCheap == Spec => []OneFaultCostsOneSave
<1>1. Inv => OneFaultCostsOneSave
  BY StoreAssumption
     DEF StoreAssumption, Inv, TypeOK, BackupInv, Holds, OneFaultCostsOneSave, OpenLoads,
         Readable, Configs, Versions
<1>2. QED
  BY <1>1, InvCorrect, PTL
=============================================================================
