--------------------------- MODULE ForwardManager ---------------------------
(***************************************************************************)
(* The port-forward manager of internal/forward/manager.go, for one        *)
(* forward ID (the map m.forwards is keyed by ID).  A member of Gens is    *)
(* one call of Start with the runningForward, the listener and the accept  *)
(* loop it creates; a member of Conns is one client connection with its    *)
(* connectionPair and handler goroutine; a member of Stops one call of     *)
(* Stop.  conns stands for both running.conns and running.active, which    *)
(* the code changes together; the text of Status.Err is left out.          *)
(***************************************************************************)
EXTENDS Naturals, FiniteSets

CONSTANTS
  Gens,          \* calls of Start
  Conns,         \* client connections
  Stops,         \* calls of Stop
  Dynamic,       \* whether the forward is a SOCKS5 one (a handshake first)
  AcceptMayFail, \* whether Accept may fail on an open listener
  None

ASSUME ForwardAssumption ==
  /\ None \notin Gens \cup Conns
  /\ IsFiniteSet(Conns)
  /\ Dynamic \in BOOLEAN /\ AcceptMayFail \in BOOLEAN

VARIABLES
  mu,         \* the Start call that holds Manager.mu while it dials and listens
  current,    \* m.forwards[id]
  start,      \* how far each Start call is
  running,    \* running.running
  listener,   \* running.listener
  loop,       \* where acceptLoop is
  hand,       \* the connection it just accepted
  conns,      \* running.conns
  wg,         \* running.wg
  conn,       \* where each connection and its handler are
  owner,      \* the generation a connection came to
  pairClosed, \* pair.closed, and with it the local connection
  remote,     \* the remote connection
  stop,       \* how far each Stop call is
  stopGen,    \* the generation it found
  snapshot    \* the pairs it still has to close

genVars  == <<current, start, running, listener, loop, hand, conns, wg>>
connVars == <<conn, owner, pairClosed, remote>>
stopVars == <<stop, stopGen, snapshot>>
vars     == <<mu, genVars, connVars, stopVars>>

TypeOK ==
  /\ mu \in Gens \cup {None}
  /\ current \in Gens \cup {None}
  /\ start \in [Gens -> {"idle", "locked", "refused", "started"}]
  /\ running \in [Gens -> BOOLEAN]
  /\ listener \in [Gens -> {"none", "open", "closed"}]
  /\ loop \in [Gens -> {"off", "accept", "admit", "spawn", "failed", "exited"}]
  /\ hand \in [Gens -> Conns \cup {None}]
  /\ conns \in [Gens -> SUBSET Conns]
  /\ wg \in [Gens -> Nat]
  /\ conn \in [Conns -> {"idle", "queued", "hand", "registered", "handshake", "dial",
                         "dialed", "copy", "closing", "unregister", "done"}]
  /\ owner \in [Conns -> Gens \cup {None}]
  /\ pairClosed \in [Conns -> BOOLEAN]
  /\ remote \in [Conns -> {"none", "open", "closed"}]
  /\ stop \in [Stops -> {"idle", "listener", "pairs", "wait", "done", "noop"}]
  /\ stopGen \in [Stops -> Gens \cup {None}]
  /\ snapshot \in [Stops -> SUBSET Conns]

Init ==
  /\ mu = None /\ current = None
  /\ start = [g \in Gens |-> "idle"]
  /\ running = [g \in Gens |-> FALSE]
  /\ listener = [g \in Gens |-> "none"]
  /\ loop = [g \in Gens |-> "off"]
  /\ hand = [g \in Gens |-> None]
  /\ conns = [g \in Gens |-> {}]
  /\ wg = [g \in Gens |-> 0]
  /\ conn = [c \in Conns |-> "idle"]
  /\ owner = [c \in Conns |-> None]
  /\ pairClosed = [c \in Conns |-> FALSE]
  /\ remote = [c \in Conns |-> "none"]
  /\ stop = [s \in Stops |-> "idle"]
  /\ stopGen = [s \in Stops |-> None]
  /\ snapshot = [s \in Stops |-> {}]

-----------------------------------------------------------------------------
IsRunning == current # None /\ running[current]

\* Start takes the lock, and keeps it over pool.Get and Listen.
StartLock(g) ==
  /\ mu = None /\ start[g] = "idle"
  /\ \/ IsRunning  /\ start' = [start EXCEPT ![g] = "refused"] /\ UNCHANGED mu
     \/ ~IsRunning /\ start' = [start EXCEPT ![g] = "locked"] /\ mu' = g
  /\ UNCHANGED <<current, running, listener, loop, hand, conns, wg, connVars, stopVars>>

\* Dialling or listening may fail.  An open listener of an earlier call does not keep
\* this one from listening: the forward may have been given another port.
StartListen(g) ==
  /\ mu = g
  /\ mu' = None
  /\ \/ /\ start' = [start EXCEPT ![g] = "refused"]
        /\ UNCHANGED <<current, running, listener, loop, wg>>
     \/ /\ start' = [start EXCEPT ![g] = "started"]
        /\ current' = g
        /\ running' = [running EXCEPT ![g] = TRUE]
        /\ listener' = [listener EXCEPT ![g] = "open"]
        /\ loop' = [loop EXCEPT ![g] = "accept"]
        /\ wg' = [wg EXCEPT ![g] = 1]
  /\ UNCHANGED <<hand, conns, connVars, stopVars>>

-----------------------------------------------------------------------------
\* A client connects to an open port.
Arrive(c, g) ==
  /\ conn[c] = "idle" /\ listener[g] = "open"
  /\ conn' = [conn EXCEPT ![c] = "queued"]
  /\ owner' = [owner EXCEPT ![c] = g]
  /\ UNCHANGED <<mu, genVars, pairClosed, remote, stopVars>>

Accept(g) ==
  /\ loop[g] = "accept" /\ listener[g] = "open"
  /\ \E c \in Conns :
       /\ conn[c] = "queued" /\ owner[c] = g
       /\ conn' = [conn EXCEPT ![c] = "hand"]
       /\ hand' = [hand EXCEPT ![g] = c]
  /\ loop' = [loop EXCEPT ![g] = "admit"]
  /\ UNCHANGED <<mu, current, start, running, listener, conns, wg,
                 owner, pairClosed, remote, stopVars>>

AcceptFails(g) ==
  /\ loop[g] = "accept"
  /\ listener[g] = "closed" \/ AcceptMayFail
  /\ loop' = [loop EXCEPT ![g] = "failed"]
  /\ UNCHANGED <<mu, current, start, running, listener, hand, conns, wg,
                 connVars, stopVars>>

\* Mutation of LoopFails: the flag is left as it was.
LoopFailsQuietly(g) ==
  /\ mu = None /\ loop[g] = "failed"
  /\ loop' = [loop EXCEPT ![g] = "exited"]
  /\ wg' = [wg EXCEPT ![g] = @ - 1]
  /\ UNCHANGED <<mu, current, start, running, listener, hand, conns, connVars, stopVars>>

\* The error branch: the forward is no longer running and the loop returns.
LoopFails(g) ==
  /\ mu = None /\ loop[g] = "failed"
  /\ running' = [running EXCEPT ![g] = FALSE]
  /\ loop' = [loop EXCEPT ![g] = "exited"]
  /\ wg' = [wg EXCEPT ![g] = @ - 1]
  /\ UNCHANGED <<mu, current, start, listener, hand, conns, connVars, stopVars>>

\* connectionPair.close, once: the local side, and the remote one if attached.
Attached(c) == conn[c] \in {"copy", "closing", "unregister"} /\ remote[c] = "open"

PairClose(c) ==
  /\ pairClosed' = [pairClosed EXCEPT ![c] = TRUE]
  /\ remote' = [remote EXCEPT ![c] = IF Attached(c) THEN "closed" ELSE @]

\* Mutation of Admit: the forward is not looked at again after Accept.
AdmitAlways(g) ==
  /\ mu = None /\ loop[g] = "admit"
  /\ conns' = [conns EXCEPT ![g] = @ \cup {hand[g]}]
  /\ conn' = [conn EXCEPT ![hand[g]] = "registered"]
  /\ loop' = [loop EXCEPT ![g] = "spawn"]
  /\ UNCHANGED <<mu, current, start, running, listener, hand, wg,
                 owner, pairClosed, remote, stopVars>>

\* A connection accepted while Stop ran is closed; any other is registered.
Admit(g) ==
  /\ mu = None /\ loop[g] = "admit"
  /\ \/ /\ ~running[g]
        /\ PairClose(hand[g])
        /\ conn' = [conn EXCEPT ![hand[g]] = "done"]
        /\ loop' = [loop EXCEPT ![g] = "exited"]
        /\ wg' = [wg EXCEPT ![g] = @ - 1]
        /\ UNCHANGED conns
     \/ /\ running[g]
        /\ conns' = [conns EXCEPT ![g] = @ \cup {hand[g]}]
        /\ conn' = [conn EXCEPT ![hand[g]] = "registered"]
        /\ loop' = [loop EXCEPT ![g] = "spawn"]
        /\ UNCHANGED <<wg, pairClosed, remote>>
  /\ UNCHANGED <<mu, current, start, running, listener, hand, owner, stopVars>>

\* Mutation of Spawn: the handler is not counted.
SpawnUncounted(g) ==
  /\ loop[g] = "spawn"
  /\ conn' = [conn EXCEPT ![hand[g]] = IF Dynamic THEN "handshake" ELSE "dial"]
  /\ loop' = [loop EXCEPT ![g] = "accept"]
  /\ hand' = [hand EXCEPT ![g] = None]
  /\ UNCHANGED <<mu, current, start, running, listener, conns, wg,
                 owner, pairClosed, remote, stopVars>>

\* wg.Add(1) and the handler goroutine, outside the lock.
Spawn(g) ==
  /\ loop[g] = "spawn"
  /\ wg' = [wg EXCEPT ![g] = @ + 1]
  /\ conn' = [conn EXCEPT ![hand[g]] = IF Dynamic THEN "handshake" ELSE "dial"]
  /\ loop' = [loop EXCEPT ![g] = "accept"]
  /\ hand' = [hand EXCEPT ![g] = None]
  /\ UNCHANGED <<mu, current, start, running, listener, conns,
                 owner, pairClosed, remote, stopVars>>

-----------------------------------------------------------------------------
ConnGoes(c, to) == conn' = [conn EXCEPT ![c] = to]

\* SOCKS5: the client's bytes, or an error; only an error once it is closed.
Handshake(c) ==
  /\ conn[c] = "handshake"
  /\ \/ ConnGoes(c, "closing")
     \/ ~pairClosed[c] /\ ConnGoes(c, "dial")
  /\ UNCHANGED <<mu, genVars, owner, pairClosed, remote, stopVars>>

\* client.Dial or net.Dial: neither has a context.
DialReturns(c) ==
  /\ conn[c] = "dial"
  /\ \/ ConnGoes(c, "closing") /\ UNCHANGED remote
     \/ ConnGoes(c, "dialed") /\ remote' = [remote EXCEPT ![c] = "open"]
  /\ UNCHANGED <<mu, genVars, owner, pairClosed, stopVars>>

\* Mutation of SetRemote: it does not look whether the pair was closed.
SetRemoteAlways(c) ==
  /\ conn[c] = "dialed"
  /\ ConnGoes(c, "copy")
  /\ UNCHANGED <<mu, genVars, owner, pairClosed, remote, stopVars>>

\* setRemote, under the pair's own lock.
SetRemote(c) ==
  /\ conn[c] = "dialed"
  /\ \/ /\ pairClosed[c]
        /\ remote' = [remote EXCEPT ![c] = "closed"]
        /\ ConnGoes(c, "closing")
     \/ /\ ~pairClosed[c]
        /\ ConnGoes(c, "copy")
        /\ UNCHANGED remote
  /\ UNCHANGED <<mu, genVars, owner, pairClosed, stopVars>>

\* bidirectionalCopy: the first direction to end closes the pair, which ends
\* the other.
CopyEnds(c) ==
  /\ conn[c] = "copy"
  /\ PairClose(c)
  /\ ConnGoes(c, "closing")
  /\ UNCHANGED <<mu, genVars, owner, stopVars>>

\* The handler's deferred calls.
HandlerCloses(c) ==
  /\ conn[c] = "closing"
  /\ PairClose(c)
  /\ ConnGoes(c, "unregister")
  /\ UNCHANGED <<mu, genVars, owner, stopVars>>

HandlerEnds(c) ==
  /\ mu = None /\ conn[c] = "unregister"
  /\ conns' = [conns EXCEPT ![owner[c]] = @ \ {c}]
  /\ wg' = [wg EXCEPT ![owner[c]] = @ - 1]
  /\ ConnGoes(c, "done")
  /\ UNCHANGED <<mu, current, start, running, listener, loop, hand,
                 owner, pairClosed, remote, stopVars>>

-----------------------------------------------------------------------------
\* Stop: a forward that is not running is a no-op.
StopMark(s) ==
  /\ mu = None /\ stop[s] = "idle"
  /\ stopGen' = [stopGen EXCEPT ![s] = current]
  /\ \/ /\ ~IsRunning
        /\ stop' = [stop EXCEPT ![s] = "noop"]
        /\ UNCHANGED <<running, snapshot>>
     \/ /\ IsRunning
        /\ stop' = [stop EXCEPT ![s] = "listener"]
        /\ running' = [running EXCEPT ![current] = FALSE]
        /\ snapshot' = [snapshot EXCEPT ![s] = conns[current]]
  /\ UNCHANGED <<mu, current, start, listener, loop, hand, conns, wg, connVars>>

\* Connections the loop did not accept yet go with the listener.
StopListener(s) ==
  /\ stop[s] = "listener"
  /\ listener' = [listener EXCEPT ![stopGen[s]] = "closed"]
  /\ conn' = [c \in Conns |-> IF conn[c] = "queued" /\ owner[c] = stopGen[s]
                              THEN "done" ELSE conn[c]]
  /\ stop' = [stop EXCEPT ![s] = "pairs"]
  /\ UNCHANGED <<mu, current, start, running, loop, hand, conns, wg,
                 owner, pairClosed, remote, stopGen, snapshot>>

StopPairs(s) ==
  /\ stop[s] = "pairs"
  /\ \/ \E c \in snapshot[s] :
          /\ PairClose(c)
          /\ snapshot' = [snapshot EXCEPT ![s] = @ \ {c}]
          /\ UNCHANGED stop
     \/ /\ snapshot[s] = {}
        /\ stop' = [stop EXCEPT ![s] = "wait"]
        /\ UNCHANGED <<pairClosed, remote, snapshot>>
  /\ UNCHANGED <<mu, genVars, conn, owner, stopGen>>

StopWait(s) ==
  /\ stop[s] = "wait" /\ wg[stopGen[s]] = 0
  /\ stop' = [stop EXCEPT ![s] = "done"]
  /\ UNCHANGED <<mu, genVars, connVars, stopGen, snapshot>>

-----------------------------------------------------------------------------
Loop(g) == Accept(g) \/ AcceptFails(g) \/ LoopFails(g) \/ Admit(g) \/ Spawn(g)

Handler(c) == \/ DialReturns(c) \/ SetRemote(c) \/ HandlerCloses(c) \/ HandlerEnds(c)

StopCall(s) == StopMark(s) \/ StopListener(s) \/ StopPairs(s) \/ StopWait(s)

Next ==
  \/ \E g \in Gens : StartLock(g) \/ StartListen(g) \/ Loop(g)
  \/ \E c \in Conns : \/ \E g \in Gens : Arrive(c, g)
                      \/ Handshake(c) \/ CopyEnds(c) \/ Handler(c)
  \/ \E s \in Stops : StopCall(s)

Spec == Init /\ [][Next]_vars

(***************************************************************************)
(* Goroutines run, dials return, reads and copies end on a closed          *)
(* connection.  Clients and servers need not do anything: a handshake or a *)
(* copy on an open pair may last for ever.                                 *)
(***************************************************************************)
Fairness ==
  /\ \A g \in Gens : WF_vars(StartListen(g)) /\ WF_vars(Loop(g))
  /\ \A c \in Conns : /\ WF_vars(Handler(c))
                      /\ WF_vars(pairClosed[c] /\ (Handshake(c) \/ CopyEnds(c)))
  /\ \A s \in Stops : WF_vars(stop[s] # "idle" /\ StopCall(s))

FairSpec == Spec /\ Fairness

-----------------------------------------------------------------------------
\* When the Stop that stopped a forward returns, nothing of that forward is
\* left: the listener is closed, the accept loop over, and every connection
\* it accepted is closed on both sides.
StopIsComplete ==
  \A s \in Stops :
    stop[s] = "done" =>
      /\ listener[stopGen[s]] = "closed"
      /\ loop[stopGen[s]] = "exited"
      /\ \A c \in Conns : owner[c] = stopGen[s] => conn[c] = "done" /\ remote[c] # "open"

\* A remote connection is not leaked, even when the pair was closed while it
\* was being dialled.
NoRemoteLeak ==
  \A c \in Conns :
    conn[c] = "done" \/ (conn[c] = "copy" /\ pairClosed[c]) => remote[c] # "open"

\* Status says Running only while an accept loop serves the listener.
RunningIsServed == \A g \in Gens : running[g] => listener[g] = "open" /\ loop[g] # "exited"

\* Stop returns: closing the pairs unblocks every handler it waits for.
StopReturns == \A s \in Stops : stop[s] = "listener" ~> stop[s] = "done"

-----------------------------------------------------------------------------
(***************************************************************************)
(* The inductive invariant behind StopIsComplete, RunningIsServed and      *)
(* NoRemoteLeak, in parts.                                                 *)
(***************************************************************************)

\* A generation has nothing before its Start has listened, and the call that holds the
\* lock is the one that has not.
StartInv ==
  /\ \A g \in Gens : mu = g <=> start[g] = "locked"
  /\ \A g \in Gens :
       IF start[g] = "started"
       THEN listener[g] # "none" /\ loop[g] # "off"
       ELSE listener[g] = "none" /\ loop[g] = "off" /\ ~running[g]
  /\ current # None => start[current] = "started"

\* At most one generation runs, and that is the one m.forwards has: none does while a
\* Start holds the lock.
RunInv ==
  /\ \A g \in Gens : running[g] => current = g
  /\ mu # None => ~IsRunning
  /\ RunningIsServed

\* A connection that waits to be accepted waits at an open listener; the loop and the
\* connection it has in hand agree.
LoopInv ==
  /\ \A c \in Conns : IF conn[c] = "idle" THEN owner[c] = None
                      ELSE owner[c] \in Gens /\ start[owner[c]] = "started"
  /\ \A c \in Conns : conn[c] = "queued" => listener[owner[c]] = "open"
  /\ \A c \in Conns : conn[c] = "hand" => loop[owner[c]] = "admit" /\ hand[owner[c]] = c
  /\ \A c \in Conns : conn[c] = "registered" => loop[owner[c]] = "spawn" /\ hand[owner[c]] = c
  /\ \A g \in Gens : loop[g] = "admit" =>
       hand[g] \in Conns /\ conn[hand[g]] = "hand" /\ owner[hand[g]] = g
  /\ \A g \in Gens : loop[g] = "spawn" =>
       hand[g] \in Conns /\ conn[hand[g]] = "registered" /\ owner[hand[g]] = g

\* The wait group counts the accept loop and the handlers.
Handling(g) ==
  {c \in Conns : owner[c] = g /\ conn[c] \in {"handshake", "dial", "dialed", "copy",
                                              "closing", "unregister"}}
LoopLives(g) == loop[g] \in {"accept", "admit", "spawn", "failed"}
CountInv ==
  \A g \in Gens : wg[g] = Cardinality(Handling(g)) + IF LoopLives(g) THEN 1 ELSE 0

\* A remote connection is open from the dial to the close of its pair.
RemoteInv ==
  /\ \A c \in Conns : remote[c] = "open" => conn[c] \in {"dialed", "copy", "closing"}
  /\ NoRemoteLeak

\* What a Stop has done to the generation it found stays done.
StopInv ==
  /\ \A s \in Stops :
       stop[s] \in {"listener", "pairs", "wait", "done"} =>
         stopGen[s] \in Gens /\ start[stopGen[s]] = "started" /\ ~running[stopGen[s]]
  /\ \A s \in Stops : stop[s] \in {"pairs", "wait", "done"} => listener[stopGen[s]] = "closed"
  /\ StopIsComplete

Inv ==
  TypeOK /\ StartInv /\ RunInv /\ LoopInv /\ CountInv /\ RemoteInv /\ StopInv
=============================================================================
