------------------------------- MODULE SshPool -------------------------------
(***************************************************************************)
(* The pool of SSH clients (internal/sshclient/client.go) and its users:   *)
(* SFTP backends, which hold a session of the client they got and now and  *)
(* then a second one, and port forwards, which open channels on it.  Get   *)
(* holds the pool's lock while it probes the pooled client and while it    *)
(* dials.  A server admits so many sessions on one connection and no more  *)
(* (MaxSessions of sshd, which may be 0); it may refuse one all the same,  *)
(* lose a connection, or stop answering without losing it.                 *)
(***************************************************************************)
EXTENDS Naturals, FiniteSets

CONSTANTS
  Users,       \* mapping workers, full syncs and forwards
  Servers,
  ServerOf,    \* the server each user is configured for
  MaxDials,    \* bound: the connections ever made
  MaxHung,     \* bound: the servers that hang
  MaxSessions, \* sessions a server admits on a connection
  None

ASSUME PoolAssumption ==
  /\ None \notin Users \cup Nat
  /\ IsFiniteSet(Users)
  /\ ServerOf \in [Users -> Servers]
  /\ MaxDials \in Nat /\ MaxHung \in Nat /\ MaxSessions \in Nat

Clients == 1..MaxDials

VARIABLES
  mu,       \* the call of Get that holds Pool.mu
  pooled,   \* Pool.clients
  link,     \* the connection of each client
  sessions, \* the sessions the server counts on it
  pc,       \* where each user is
  got,      \* the client Get gave it
  listing,  \* the users with a second session, for a command
  hung,     \* the servers that answer no more
  quit,     \* where the shutdown is
  leaving,  \* the users stopAllRuntime has still to stop
  spoilt    \* history: clients that are lost, have all their sessions in use, or had
            \* when they were closed, or were closed as the server refused a session
vars == <<mu, pooled, link, sessions, pc, got, listing, hung, quit, leaving, spoilt>>

Active == {"session", "forward"}

TypeOK ==
  /\ mu \in Users \cup {None}
  /\ pooled \in [Servers -> Clients \cup {None}]
  /\ link \in [Clients -> {"none", "open", "lost", "closed"}]
  /\ sessions \in [Clients -> Nat]
  /\ pc \in [Users -> {"idle", "wait", "probe", "dial", "got"} \cup Active]
  /\ got \in [Users -> Clients \cup {None}]
  /\ listing \subseteq Users /\ hung \subseteq Servers
  /\ quit \in {"no", "stopping", "closed"}
  /\ leaving \subseteq Users
  /\ spoilt \subseteq Clients

Init ==
  /\ mu = None
  /\ pooled = [s \in Servers |-> None]
  /\ link = [c \in Clients |-> "none"]
  /\ sessions = [c \in Clients |-> 0]
  /\ pc = [u \in Users |-> "idle"]
  /\ got = [u \in Users |-> None]
  /\ listing = {} /\ hung = {}
  /\ quit = "no" /\ leaving = {}
  /\ spoilt = {}

GoTo(u, l) == pc' = [pc EXCEPT ![u] = l]
HasRoom(c) == link[c] = "open" /\ sessions[c] < MaxSessions
\* The server counts n sessions on a connection that is open.
Counts(c, n) ==
  /\ sessions' = [sessions EXCEPT ![c] = n]
  /\ spoilt' = IF n >= MaxSessions THEN spoilt \cup {c} ELSE spoilt \ {c}
\* ssh.Client.Close: the connection ends, and with it every session and channel on it.
CloseAll(C) ==
  /\ link' = [c \in Clients |-> IF c \in C THEN "closed" ELSE link[c]]
  /\ sessions' = [c \in Clients |-> IF c \in C THEN 0 ELSE sessions[c]]

-----------------------------------------------------------------------------
(***************************************************************************)
(* Pool.Get.                                                               *)
(***************************************************************************)
\* The resolver of a mapping, or the start of a forward, asks for a client.
Call(u) ==
  /\ pc[u] = "idle"
  /\ GoTo(u, "wait")
  /\ UNCHANGED <<mu, pooled, link, sessions, got, listing, hung, quit, leaving, spoilt>>

\* Mutation of Lock: the map is looked at under the lock, which is then given up.
LockBriefly(u) ==
  /\ pc[u] = "wait" /\ mu = None
  /\ GoTo(u, IF pooled[ServerOf[u]] = None THEN "dial" ELSE "probe")
  /\ UNCHANGED <<mu, pooled, link, sessions, got, listing, hung, quit, leaving, spoilt>>

Lock(u) ==
  /\ pc[u] = "wait" /\ mu = None
  /\ mu' = u
  /\ GoTo(u, IF pooled[ServerOf[u]] = None THEN "dial" ELSE "probe")
  /\ UNCHANGED <<pooled, link, sessions, got, listing, hung, quit, leaving, spoilt>>

Return(u, c) ==
  /\ mu' = None
  /\ got' = [got EXCEPT ![u] = c]
  /\ GoTo(u, "got")

\* Mutation of ProbeSucceeds: the session of the probe is left open.
ProbeLeaks(u) ==
  LET c == pooled[ServerOf[u]] IN
  /\ pc[u] = "probe" /\ ServerOf[u] \notin hung /\ HasRoom(c)
  /\ Return(u, c)
  /\ sessions' = [sessions EXCEPT ![c] = @ + 1]
  /\ UNCHANGED <<pooled, link, listing, hung, quit, leaving, spoilt>>

\* The probe opens a session and closes it.
ProbeSucceeds(u) ==
  LET c == pooled[ServerOf[u]] IN
  /\ pc[u] = "probe" /\ ServerOf[u] \notin hung /\ HasRoom(c)
  /\ Return(u, c)
  /\ UNCHANGED <<pooled, link, sessions, listing, hung, quit, leaving, spoilt>>

\* It fails on a lost connection, and just so on one whose sessions are all in use or
\* whose server refuses this one: the client is closed, whoever uses it.
ProbeFails(u) ==
  LET c == pooled[ServerOf[u]] IN
  /\ pc[u] = "probe"
  /\ link[c] = "open" => ServerOf[u] \notin hung
  /\ CloseAll({c})
  /\ spoilt' = IF HasRoom(c) THEN spoilt \cup {c} ELSE spoilt
  /\ pooled' = [pooled EXCEPT ![ServerOf[u]] = None]
  /\ GoTo(u, "dial")
  /\ UNCHANGED <<mu, got, listing, hung, quit, leaving>>

Dial(u) ==
  /\ pc[u] = "dial" /\ ServerOf[u] \notin hung
  /\ \E c \in Clients :
       /\ link[c] = "none" /\ \A d \in 1..(c - 1) : link[d] # "none"
       /\ link' = [link EXCEPT ![c] = "open"]
       /\ pooled' = [pooled EXCEPT ![ServerOf[u]] = c]
       /\ Return(u, c)
       /\ Counts(c, 0)
  /\ UNCHANGED <<listing, hung, quit, leaving>>

\* Mutation of DialFails: the error is returned with the lock held.
DialFailsLocked(u) ==
  /\ pc[u] = "dial" /\ ServerOf[u] \notin hung
  /\ GoTo(u, "idle")
  /\ UNCHANGED <<mu, pooled, link, sessions, got, listing, hung, quit, leaving, spoilt>>

\* Refused, timed out, or the key or the password is wrong.  The timeout is on the
\* connection only: a server that accepts it and says nothing more is waited for.
DialFails(u) ==
  /\ pc[u] = "dial" /\ ServerOf[u] \notin hung
  /\ mu' = None
  /\ GoTo(u, "idle")
  /\ UNCHANGED <<pooled, link, sessions, got, listing, hung, quit, leaving, spoilt>>

-----------------------------------------------------------------------------
(***************************************************************************)
(* What its users do with a client.                                        *)
(***************************************************************************)
\* sftpbackend.New opens a session that stays until the backend is closed.
OpenSession(u) ==
  LET c == got[u] IN
  /\ pc[u] = "got" /\ HasRoom(c)
  /\ Counts(c, sessions[c] + 1)
  /\ GoTo(u, "session")
  /\ UNCHANGED <<mu, pooled, link, got, listing, hung, quit, leaving>>

\* listRemote of a full sync runs find in a session of its own; without one it walks
\* the tree in the session it has.
Exec(u) ==
  LET c == got[u] IN
  /\ pc[u] = "session" /\ u \notin listing /\ HasRoom(c)
  /\ Counts(c, sessions[c] + 1)
  /\ listing' = listing \cup {u}
  /\ UNCHANGED <<mu, pooled, link, pc, got, hung, quit, leaving>>

ExecEnds(u) ==
  LET c == got[u] IN
  /\ u \in listing
  /\ IF link[c] = "open" THEN Counts(c, sessions[c] - 1) ELSE UNCHANGED <<sessions, spoilt>>
  /\ listing' = listing \ {u}
  /\ UNCHANGED <<mu, pooled, link, pc, got, hung, quit, leaving>>

\* A forward listens, and keeps the client for the connections to come.
OpenForward(u) ==
  /\ pc[u] = "got"
  /\ GoTo(u, "forward")
  /\ UNCHANGED <<mu, pooled, link, sessions, got, listing, hung, quit, leaving, spoilt>>

\* No session, no SFTP on the server, the port is taken.  The client stays pooled, and
\* so may a session that had been opened: NewSFTP returns the error without it.
OpenFails(u) ==
  LET c == got[u] IN
  /\ pc[u] = "got"
  /\ \/ UNCHANGED <<sessions, spoilt>>
     \/ HasRoom(c) /\ Counts(c, sessions[c] + 1)
  /\ GoTo(u, "idle") /\ got' = [got EXCEPT ![u] = None]
  /\ UNCHANGED <<mu, pooled, link, listing, hung, quit, leaving>>

\* The mapping or the forward is stopped: its session is closed, not the client.
Leave(u) ==
  LET c == got[u] IN
  /\ pc[u] \in Active /\ u \notin listing
  /\ IF pc[u] = "session" /\ link[c] = "open"
     THEN Counts(c, sessions[c] - 1) ELSE UNCHANGED <<sessions, spoilt>>
  /\ GoTo(u, "idle") /\ got' = [got EXCEPT ![u] = None]
  /\ leaving' = leaving \ {u}
  /\ UNCHANGED <<mu, pooled, link, listing, hung, quit>>

\* stopAllRuntime stops what runs, one after the other; what is only being started
\* is not found.
Quit ==
  /\ quit = "no" /\ quit' = "stopping"
  /\ leaving' = {u \in Users : pc[u] \in Active}
  /\ UNCHANGED <<mu, pooled, link, sessions, pc, got, listing, hung, spoilt>>

\* Pool.Close.
Close ==
  /\ quit = "stopping" /\ leaving = {} /\ mu = None
  /\ CloseAll({c \in Clients : \E s \in Servers : pooled[s] = c})
  /\ pooled' = [s \in Servers |-> None]
  /\ quit' = "closed"
  /\ UNCHANGED <<mu, pc, got, listing, hung, leaving, spoilt>>

\* A connection breaks down, and its client knows.
Lose(c) ==
  /\ link[c] = "open"
  /\ link' = [link EXCEPT ![c] = "lost"]
  /\ sessions' = [sessions EXCEPT ![c] = 0]
  /\ spoilt' = spoilt \cup {c}
  /\ UNCHANGED <<mu, pooled, pc, got, listing, hung, quit, leaving>>

\* A server keeps its connections and answers no more.
Hang(s) ==
  /\ Cardinality(hung) < MaxHung
  /\ hung' = hung \cup {s} /\ s \notin hung
  /\ UNCHANGED <<mu, pooled, link, sessions, pc, got, listing, quit, leaving, spoilt>>

-----------------------------------------------------------------------------
Get(u)  == Lock(u) \/ ProbeSucceeds(u) \/ ProbeFails(u) \/ Dial(u) \/ DialFails(u)
Use(u)  ==
  OpenSession(u) \/ Exec(u) \/ ExecEnds(u) \/ OpenForward(u) \/ OpenFails(u) \/ Leave(u)
Next ==
  \/ \E u \in Users : Call(u) \/ Get(u) \/ Use(u)
  \/ Quit \/ Close
  \/ \E c \in Clients : Lose(c)
  \/ \E s \in Servers : Hang(s)

Spec == Init /\ [][Next]_vars

\* A goroutine in Get goes on when it can; sync.Mutex hands the lock to the one that
\* waits longest before it starves, so a waiter that the lock is free for again and
\* again gets it.
FairSpec == Spec /\ \A u \in Users : WF_vars(Get(u)) /\ SF_vars(Lock(u))

-----------------------------------------------------------------------------
\* Every connection that is not closed is in the pool, where the next probe or Close
\* finds it: none is overwritten by a second dial or dropped on an error path.
NoClientLeak ==
  \A c \in Clients : link[c] \in {"open", "lost"} => \E s \in Servers : pooled[s] = c

\* A user finds its client closed under it only if the connection was lost, if at the
\* time of the probe others had taken all its sessions, if the server refused the probe
\* though it had room, or if the program ends.  Calls of Get do not themselves bring it
\* about, how many there may be: a probe leaves no session behind, and closes no client
\* but the one that failed it.
NobodyIsCutOff ==
  \A u \in Users :
    pc[u] \in {"got"} \cup Active /\ link[got[u]] = "closed"
      => got[u] \in spoilt \/ quit = "closed"

\* Every call of Get returns, or one of them waits for a server that hangs: then all
\* do, for whatever server, since the lock is held over the probe and the dial.
Blocked == \E v \in Users : pc[v] \in {"probe", "dial"} /\ ServerOf[v] \in hung
GetReturns ==
  \A u \in Users : pc[u] = "wait" ~> pc[u] \in {"got", "idle"} \/ Blocked

-----------------------------------------------------------------------------
(***************************************************************************)
(* The inductive invariant behind NoClientLeak and NobodyIsCutOff, in      *)
(* parts.                                                                  *)
(***************************************************************************)

\* Who probes or dials holds the lock, and the pool is as the call found it.
LockInv ==
  \A u \in Users :
    /\ pc[u] \in {"probe", "dial"} => mu = u
    /\ pc[u] = "probe" => pooled[ServerOf[u]] # None
    /\ pc[u] = "dial" => pooled[ServerOf[u]] = None

\* The pool has just the clients that are not closed, each for one server.
PoolInv ==
  /\ \A s \in Servers : pooled[s] # None => link[pooled[s]] \in {"open", "lost"}
  /\ \A s, t \in Servers : pooled[s] # None /\ pooled[s] = pooled[t] => s = t
  /\ NoClientLeak

\* The server counts at least the sessions of those who have one, or two.
InSession(c) == {u \in Users : pc[u] = "session" /\ got[u] = c}
Listing(c)   == InSession(c) \cap listing
SessionsInv ==
  /\ \A u \in listing : pc[u] = "session"
  /\ \A c \in Clients :
       /\ link[c] = "open"
            => sessions[c] >= Cardinality(InSession(c)) + Cardinality(Listing(c))
       /\ link[c] = "none" => sessions[c] = 0

\* A client that somebody got was dialled, and one that a probe must fail on is spoilt.
UseInv ==
  /\ \A u \in Users : pc[u] \in {"got"} \cup Active => got[u] # None /\ link[got[u]] # "none"
  /\ \A c \in Clients :
       link[c] = "lost" \/ (link[c] = "open" /\ sessions[c] >= MaxSessions) => c \in spoilt
  /\ NobodyIsCutOff

Inv == TypeOK /\ LockInv /\ PoolInv /\ SessionsInv /\ UseInv
=============================================================================
