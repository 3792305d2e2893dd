------------------------------ MODULE RsyncSync -------------------------------
(***************************************************************************)
(* One sync with rsync, from FullSync of internal/syncengine/rsyncbackend: *)
(* the goroutine that starts rsync and waits for it, the rsync process,    *)
(* the program run again as its remote shell (internal/rshbridge) with an  *)
(* SSH connection of its own, and the rsync on the server.  Every call     *)
(* extracts the runtime first, as app.go's backend factory does.           *)
(***************************************************************************)
EXTENDS RsyncRuntime, FiniteSets

CONSTANTS
  Exe,    \* the file that is rsync
  MaxHung \* bound: connections that hang, neither answering nor lost

ASSUME SyncAssumption == Exe \in Files /\ MaxHung \in Nat

VARIABLES
  pc,        \* where each call is
  cancelled, \* its context
  rsync,     \* its local rsync process
  bridge,    \* the remote shell of that process
  link,      \* the bridge's connection
  remote     \* the rsync on the server
syncVars == <<pc, cancelled, rsync, bridge, link, remote>>
rsyncVars == <<rtVars, syncVars>>

RsyncTypeOK ==
  /\ disk \in [Entries -> {"absent", "torn", "whole"}]
  /\ dir \in BOOLEAN
  /\ xpc \in [Calls -> {"idle", "check", "ready", "failed"} \cup Unpacking]
  /\ at \in [Calls -> 1..(Copies + 1)]
  /\ todo \in [Calls -> SUBSET Entries]
  /\ spoilt \in BOOLEAN
  /\ pc \in [Calls -> {"extract", "built", "running", "returned", "cut"}]
  /\ cancelled \in [Calls -> BOOLEAN]
  /\ rsync \in [Calls -> {"none", "running", "ended", "killed"}]
  /\ bridge \in [Calls -> {"none", "dial", "session", "copy", "gone"}]
  /\ link \in [Calls -> {"none", "up", "lost", "hung"}]
  /\ remote \in [Calls -> {"none", "running", "ended"}]

All(x) == [c \in Calls |-> x]

RsyncInit ==
  /\ RuntimeInit
  /\ pc = All("extract") /\ cancelled = All(FALSE)
  /\ rsync = All("none") /\ bridge = All("none") /\ link = All("none")
  /\ remote = All("none")

-----------------------------------------------------------------------------
(***************************************************************************)
(* The goroutine that syncs.                                               *)
(***************************************************************************)
ReturnFrom(c) == pc' = [pc EXCEPT ![c] = "returned"]

ExtractStep(c) == pc[c] = "extract" /\ Extract(c) /\ UNCHANGED syncVars

\* FullSync: the context, then BuildCommand, which may fail.  The temporary file of exclude
\* rules, which the call removes if it can, is left out.
Build(c) ==
  /\ pc[c] = "extract" /\ xpc[c] \in {"ready", "failed"}
  /\ \/ ReturnFrom(c)
     \/ /\ xpc[c] = "ready" /\ ~cancelled[c]
        /\ pc' = [pc EXCEPT ![c] = "built"]
  /\ UNCHANGED <<rtVars, cancelled, rsync, bridge, link, remote>>

\* Run starts rsync, if it is there and the context is not done.
Start(c) ==
  /\ pc[c] = "built"
  /\ \/ ReturnFrom(c) /\ UNCHANGED rsync
     \/ /\ disk[Exe] = "whole" /\ ~cancelled[c]
        /\ pc' = [pc EXCEPT ![c] = "running"]
        /\ rsync' = [rsync EXCEPT ![c] = "running"]
  /\ UNCHANGED <<rtVars, cancelled, bridge, link, remote>>

Cancel(c) ==
  /\ pc[c] \in {"extract", "built", "running"} /\ ~cancelled[c]
  /\ cancelled' = [cancelled EXCEPT ![c] = TRUE]
  /\ UNCHANGED <<rtVars, pc, rsync, bridge, link, remote>>

\* Mutation of Kill: the command does not carry the context.
KillNothing(c) == pc[c] = "cut" /\ UNCHANGED rsyncVars

\* CommandContext kills rsync, and rsync alone.
Kill(c) ==
  /\ pc[c] = "running" /\ cancelled[c] /\ rsync[c] = "running"
  /\ rsync' = [rsync EXCEPT ![c] = "killed"]
  /\ UNCHANGED <<rtVars, pc, cancelled, bridge, link, remote>>

\* Mutation of Return: only rsync is waited for (WaitDelay, or output to a file).
ReturnSoon(c) ==
  /\ pc[c] = "running" /\ rsync[c] # "running"
  /\ ReturnFrom(c)
  /\ UNCHANGED <<rtVars, cancelled, rsync, bridge, link, remote>>

\* CombinedOutput waits for rsync and for the end of the pipe the bridge inherited as
\* its standard error.
Return(c) ==
  /\ pc[c] = "running" /\ rsync[c] # "running" /\ bridge[c] \in {"none", "gone"}
  /\ ReturnFrom(c)
  /\ UNCHANGED <<rtVars, cancelled, rsync, bridge, link, remote>>

-----------------------------------------------------------------------------
(***************************************************************************)
(* The local rsync (external) and the bridge.                              *)
(***************************************************************************)
BridgeTo(c, l) ==
  /\ bridge' = [bridge EXCEPT ![c] = l]
  /\ UNCHANGED <<rtVars, pc, cancelled>>

RsyncForks(c) ==
  /\ rsync[c] = "running" /\ bridge[c] = "none"
  /\ BridgeTo(c, "dial")
  /\ UNCHANGED <<rsync, link, remote>>

\* It ends when its remote shell has, or before, when it fails.
RsyncEnds(c) ==
  /\ rsync[c] = "running"
  /\ rsync' = [rsync EXCEPT ![c] = "ended"]
  /\ UNCHANGED <<rtVars, pc, cancelled, bridge, link, remote>>

\* Parse and Dial: errors end the bridge; the handshake has no time limit.
Dial(c) ==
  /\ bridge[c] = "dial" /\ link[c] # "hung"
  /\ \/ BridgeTo(c, "session") /\ link' = [link EXCEPT ![c] = "up"]
     \/ BridgeTo(c, "gone") /\ UNCHANGED link
  /\ UNCHANGED <<rsync, remote>>

\* NewSession, the pipes and Start of the remote command; deferred closes on errors.
StartRemote(c) ==
  /\ bridge[c] = "session" /\ link[c] # "hung"
  /\ \/ /\ link[c] = "up"
        /\ BridgeTo(c, "copy") /\ remote' = [remote EXCEPT ![c] = "running"]
     \/ BridgeTo(c, "gone") /\ UNCHANGED remote
  /\ UNCHANGED <<rsync, link>>

\* session.Wait, then the copies of the outputs: the remote command ended and the
\* connection says so, or the connection is lost.
BridgeEnds(c) ==
  /\ bridge[c] = "copy"
  /\ link[c] = "lost" \/ (link[c] = "up" /\ remote[c] = "ended")
  /\ BridgeTo(c, "gone")
  /\ UNCHANGED <<rsync, link, remote>>

-----------------------------------------------------------------------------
(***************************************************************************)
(* The server and the network.                                             *)
(***************************************************************************)
\* The remote rsync ends when its work is done or fails.
RemoteEnds(c) ==
  /\ remote[c] = "running"
  /\ remote' = [remote EXCEPT ![c] = "ended"]
  /\ UNCHANGED <<rtVars, pc, cancelled, rsync, bridge, link>>

\* The bridge closes the remote input when rsync's end of the pipe is closed.
InputEnds(c) == remote[c] = "running" /\ rsync[c] # "running" /\ link[c] # "hung"

Break(c, l) ==
  /\ link' = [link EXCEPT ![c] = l]
  /\ UNCHANGED <<rtVars, pc, cancelled, rsync, bridge, remote>>

Lose(c) == link[c] = "up" /\ bridge[c] # "gone" /\ Break(c, "lost")

Hang(c) ==
  /\ bridge[c] \in {"dial", "session", "copy"} /\ link[c] \in {"none", "up"}
  /\ Cardinality({d \in Calls : link[d] = "hung"}) < MaxHung
  /\ Break(c, "hung")

\* The program dies; rsync and the bridge live on.
Crash ==
  /\ RuntimeCrash
  /\ pc' = [c \in Calls |-> IF pc[c] = "returned" \/ xpc[c] = "idle" THEN pc[c] ELSE "cut"]
  /\ UNCHANGED <<cancelled, rsync, bridge, link, remote>>

-----------------------------------------------------------------------------
Call(c)     == ExtractStep(c) \/ Build(c) \/ Start(c) \/ Kill(c) \/ Return(c)
Bridge(c)   == Dial(c) \/ StartRemote(c) \/ BridgeEnds(c)
External(c) == RsyncForks(c) \/ RsyncEnds(c) \/ RemoteEnds(c) \/ Lose(c) \/ Hang(c)

RsyncNext == Crash \/ \E c \in Calls : Call(c) \/ Cancel(c) \/ Bridge(c) \/ External(c)

RsyncSpec == RsyncInit /\ [][RsyncNext]_rsyncVars

\* Goroutines and processes go on, rsync does not outlive its remote shell, and the
\* remote rsync ends when its input does; the data may take for ever.
RsyncFairSpec ==
  /\ RsyncSpec
  /\ \A c \in Calls :
       /\ WF_rsyncVars(Call(c)) /\ WF_rsyncVars(Bridge(c))
       /\ WF_rsyncVars(bridge[c] = "gone" /\ RsyncEnds(c))
       /\ WF_rsyncVars(InputEnds(c) /\ RemoteEnds(c))

-----------------------------------------------------------------------------
\* A sync that returned, also one that was cancelled when only rsync was killed, has no
\* rsync on the server that goes on writing the remote tree beside the next sync of the
\* mapping, unless its connection was lost: the call waits for the remote shell, which
\* it does not know, by the pipe, and that one for the remote command.
RemoteIsOver ==
  \A c \in Calls : pc[c] = "returned" /\ remote[c] = "running" => link[c] = "lost"

\* A sync that is cancelled returns, although only rsync is killed and the bridge is
\* told by the end of its input alone, unless the bridge's connection hangs.
CancelReturns ==
  \A c \in Calls :
    cancelled[c] ~> pc[c] \in {"returned", "cut"} \/ link[c] = "hung"

-----------------------------------------------------------------------------
(***************************************************************************)
(* The inductive invariant behind RemoteIsOver: each process is there only *)
(* after the one that starts it, and over before the one that waits for it *)
(* is, but for a lost connection.                                          *)
(***************************************************************************)
CallInv ==
  \A c \in Calls :
    /\ pc[c] \in {"extract", "built"} => rsync[c] = "none" /\ bridge[c] = "none"
    /\ pc[c] = "returned" => rsync[c] # "running" /\ bridge[c] \in {"none", "gone"}
    /\ bridge[c] \in {"none", "dial", "session"} => remote[c] = "none"
    /\ bridge[c] = "gone" /\ remote[c] = "running" => link[c] = "lost"

RsyncInv == RsyncTypeOK /\ AtInv /\ UnpackInv /\ CallInv
=============================================================================
