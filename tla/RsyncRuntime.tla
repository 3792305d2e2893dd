----------------------------- MODULE RsyncRuntime -----------------------------
(***************************************************************************)
(* Extract of internal/rsyncbin: the bundled rsync is unpacked into a      *)
(* directory and a marker written when all is there.  Every mapping that   *)
(* starts, and every full sync, calls it, with no lock; a call that finds  *)
(* the marker has nothing to do.  Entry 0 of the directory is the marker,  *)
(* the others are the files in the order of the copy, bin before etc.      *)
(***************************************************************************)
EXTENDS Naturals

CONSTANTS
  Calls,  \* goroutines that sync with rsync
  Copies, \* the number of files of the runtime
  Heads,  \* the first file of bin and the first of etc
  Faults  \* of: a marker that cannot be read, a crash

ASSUME RuntimeAssumption ==
  /\ Copies \in Nat \ {0} /\ Heads \subseteq 1..Copies /\ 1 \in Heads
  /\ Faults \subseteq {"misread", "crash"}

Files == 1..Copies
Marker == 0
Entries == Files \cup {Marker}

VARIABLES
  disk,   \* each entry: absent, torn or whole
  dir,    \* the directories are there
  xpc,    \* where each call of Extract is
  at,     \* the file it copies
  todo,   \* the entries its RemoveAll has listed
  spoilt  \* history: two calls unpacked together, or a good marker was not readable
rtVars == <<disk, dir, xpc, at, todo, spoilt>>

Unpacking == {"list", "remove", "mkdir", "open", "fill", "mark", "marking", "cleanup"}

RuntimeInit ==
  /\ disk = [e \in Entries |-> "absent"] /\ dir = FALSE
  /\ xpc = [c \in Calls |-> "idle"] /\ at = [c \in Calls |-> 1]
  /\ todo = [c \in Calls |-> {}]
  /\ spoilt = FALSE

Go(c, l)  == xpc' = [xpc EXCEPT ![c] = l]
Put(e, s) == disk' = [disk EXCEPT ![e] = s]
Present   == {e \in Entries : disk[e] # "absent"}
Whole     == \A f \in Files : disk[f] = "whole"
Others(c) == {d \in Calls \ {c} : xpc[d] \in Unpacking}
\* What follows file f: the directory of the next tree, its next file, the marker.
After(f) == IF f = Copies THEN "mark" ELSE IF f + 1 \in Heads THEN "mkdir" ELSE "open"

\* os.RemoveAll, before the copy or after a failure, lists the entries first.
StartRemoval(c, l) ==
  /\ Go(c, l)
  /\ todo' = [todo EXCEPT ![c] = Present]

Begin(c) ==
  /\ xpc[c] = "idle"
  /\ Go(c, "check")
  /\ UNCHANGED <<disk, dir, at, todo, spoilt>>

\* A marker that cannot be read is taken for none.
Check(c) ==
  /\ xpc[c] = "check"
  /\ \/ disk[Marker] = "whole" /\ Go(c, "ready") /\ UNCHANGED <<todo, spoilt>>
     \/ /\ disk[Marker] # "whole" \/ "misread" \in Faults
        /\ Go(c, "list") /\ UNCHANGED todo
        /\ spoilt' = (spoilt \/ Others(c) # {} \/ disk[Marker] = "whole")
  /\ UNCHANGED <<disk, dir, at>>

ListOld(c) ==
  /\ xpc[c] = "list"
  /\ StartRemoval(c, "remove")
  /\ UNCHANGED <<disk, dir, at, spoilt>>

\* One of the entries listed is removed, or cannot be, since something has it open.
RemoveOne(c) ==
  /\ xpc[c] \in {"remove", "cleanup"}
  /\ \E e \in todo[c] :
       /\ todo' = [todo EXCEPT ![c] = @ \ {e}]
       /\ Put(e, "absent") \/ UNCHANGED disk
  /\ UNCHANGED <<dir, xpc, at, spoilt>>

\* Then the directories; that fails when an entry is left or was added meanwhile.
RemoveDir(c) ==
  /\ xpc[c] \in {"remove", "cleanup"} /\ todo[c] = {}
  /\ \/ Present = {} /\ dir' = FALSE
        /\ Go(c, IF xpc[c] = "remove" THEN "mkdir" ELSE "failed")
     \/ Present # {} /\ Go(c, "failed") /\ UNCHANGED dir
  /\ at' = [at EXCEPT ![c] = 1]
  /\ UNCHANGED <<disk, todo, spoilt>>

Mkdir(c) ==
  /\ xpc[c] = "mkdir"
  /\ dir' = TRUE
  /\ Go(c, "open")
  /\ UNCHANGED <<disk, at, todo, spoilt>>

\* OpenFile makes or truncates the file, if there is a directory for it.
OpenFile(c) ==
  /\ xpc[c] = "open" /\ dir
  /\ Put(at[c], "torn")
  /\ Go(c, "fill")
  /\ UNCHANGED <<dir, at, todo, spoilt>>

\* Mutation of Fill: io.Copy's error and the error of Close are ignored.
FillIgnored(c) ==
  LET f == at[c] IN
  /\ xpc[c] = "fill"
  /\ Put(f, "whole") \/ UNCHANGED disk
  /\ Go(c, After(f)) /\ at' = [at EXCEPT ![c] = f + 1]
  /\ UNCHANGED <<dir, todo, spoilt>>

\* The content is the same whoever writes it: the file is whole unless it was removed,
\* or truncated by another call that still fills it.
Fill(c) ==
  LET f == at[c] IN
  /\ xpc[c] = "fill"
  /\ \/ disk[f] # "absent" /\ Put(f, "whole")
     \/ disk[f] = "absent" /\ UNCHANGED disk
     \/ (\E d \in Others(c) : xpc[d] = "fill" /\ at[d] = f) /\ UNCHANGED disk
  /\ Go(c, After(f)) /\ at' = [at EXCEPT ![c] = f + 1]
  /\ UNCHANGED <<dir, todo, spoilt>>

\* os.WriteFile of the marker.
Mark(c) ==
  /\ xpc[c] = "mark" /\ dir
  /\ Put(Marker, "torn")
  /\ Go(c, "marking")
  /\ UNCHANGED <<dir, at, todo, spoilt>>

Marked(c) ==
  /\ xpc[c] = "marking"
  /\ IF disk[Marker] = "absent" THEN UNCHANGED disk ELSE Put(Marker, "whole")
  /\ Go(c, "ready")
  /\ UNCHANGED <<dir, at, todo, spoilt>>

\* No directory (another call removed it), no space, no right to write.  The first
\* MkdirAll has nothing to clean up.
UnpackFails(c) ==
  /\ xpc[c] \in {"mkdir", "open", "fill", "mark", "marking"}
  /\ IF xpc[c] = "mkdir" /\ at[c] = 1 THEN Go(c, "failed") /\ UNCHANGED todo
                                       ELSE StartRemoval(c, "cleanup")
  /\ UNCHANGED <<disk, dir, at, spoilt>>

\* The program dies: the calls that are in Extract are over.
RuntimeCrash ==
  /\ "crash" \in Faults
  /\ xpc' = [c \in Calls |-> IF xpc[c] = "idle" THEN "idle" ELSE "failed"]
  /\ UNCHANGED <<disk, dir, at, todo, spoilt>>

Extract(c) ==
  \/ Begin(c) \/ Check(c) \/ ListOld(c) \/ RemoveOne(c) \/ RemoveDir(c) \/ Mkdir(c) \/ OpenFile(c)
  \/ Fill(c) \/ Mark(c) \/ Marked(c) \/ UnpackFails(c)

-----------------------------------------------------------------------------
\* A good marker stands for a whole runtime, although the program may die, or any step
\* fail, while it unpacks or cleans up; unless two calls unpack at the same time or
\* a good marker could not be read.
MarkerMeansWhole == disk[Marker] = "whole" /\ ~spoilt => Whole

\* rsyncbin.go:16, "Extract installs the embedded cwRsync bin and etc directories":
\* they are there when a good marker is and nobody unpacks.
Installed ==
  disk[Marker] = "whole" => Whole \/ \E c \in Calls : xpc[c] \in Unpacking

-----------------------------------------------------------------------------
(***************************************************************************)
(* The inductive invariant behind MarkerMeansWhole: as long as nothing was *)
(* spoilt, one call unpacks at most, with no good marker beside it, and    *)
(* has made all the files before the one it is at.                         *)
(***************************************************************************)
Copying == {"mkdir", "open", "fill"}
AtInv ==
  \A c \in Calls :
    /\ xpc[c] \in Copying => at[c] \in Files
    /\ xpc[c] \in {"mark", "marking"} => at[c] = Copies + 1

UnpackInv ==
  ~spoilt =>
    /\ \A c, d \in Calls : xpc[c] \in Unpacking /\ xpc[d] \in Unpacking => c = d
    /\ \A c \in Calls :
         /\ xpc[c] \in Unpacking => disk[Marker] # "whole"
         /\ xpc[c] \in Copying \cup {"mark", "marking"}
              => \A f \in Files : f < at[c] => disk[f] = "whole"
         /\ xpc[c] = "fill" => disk[at[c]] # "absent"
    /\ MarkerMeansWhole
=============================================================================
