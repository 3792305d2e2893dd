---------------------------- MODULE SshPoolProofs ----------------------------
(***************************************************************************)
(* No client leaks and no call of Get brings about that a user is cut off, *)
(* for any number of users, servers, connections and sessions.             *)
(***************************************************************************)
EXTENDS SshPool, Integers, FiniteSetTheorems, TLAPS

Labels == {"idle", "wait", "probe", "dial", "got"} \cup Active

\* The sessions of users are finitely many.
LEMMA FinitelyMany ==
  ASSUME PoolAssumption, NEW c \in Clients
  PROVE  /\ IsFiniteSet(InSession(c)) /\ IsFiniteSet(Listing(c))
         /\ Cardinality(InSession(c)) \in Nat /\ Cardinality(Listing(c)) \in Nat
<1>1. IsFiniteSet(InSession(c)) /\ IsFiniteSet(Listing(c))
  BY FS_Subset DEF InSession, Listing, PoolAssumption
<1>2. QED BY <1>1, FS_CardinalityType

\* A session is counted when it is opened ...
LEMMA SessionOpened ==
  ASSUME PoolAssumption, TypeOK, NEW u \in Users, NEW c \in Clients, u \notin listing,
         pc[u] # "session", got[u] = c, pc' = [pc EXCEPT ![u] = "session"],
         UNCHANGED <<got, listing>>
  PROVE  /\ Cardinality(InSession(c)') = Cardinality(InSession(c)) + 1
         /\ \A d \in Clients \ {c} : InSession(d)' = InSession(d)
         /\ \A d \in Clients : Listing(d)' = Listing(d)
<1>1. InSession(c)' = InSession(c) \cup {u} /\ u \notin InSession(c)
  BY DEF InSession, TypeOK, Active
<1>2. Cardinality(InSession(c)') = Cardinality(InSession(c)) + 1
  BY <1>1, FinitelyMany, FS_AddElement
<1>3. \A d \in Clients \ {c} : InSession(d)' = InSession(d)
  BY DEF InSession, TypeOK, Active
<1>4. \A d \in Clients : Listing(d)' = Listing(d)
  BY <1>1, <1>3 DEF Listing
<1>5. QED BY <1>2, <1>3, <1>4

\* ... and no longer when it is closed.
LEMMA SessionClosed ==
  ASSUME PoolAssumption, TypeOK, NEW u \in Users, u \notin listing,
         pc' = [pc EXCEPT ![u] = "idle"], got' = [got EXCEPT ![u] = None], listing' = listing
  PROVE  \A c \in Clients :
           /\ IF pc[u] = "session" /\ got[u] = c
              THEN /\ Cardinality(InSession(c)') = Cardinality(InSession(c)) - 1
                   /\ Cardinality(InSession(c)) \in Nat \ {0}
              ELSE InSession(c)' = InSession(c)
           /\ Listing(c)' = Listing(c)
<1> TAKE c \in Clients
<1>1. CASE pc[u] = "session" /\ got[u] = c
  <2>1. IsFiniteSet(InSession(c))
    BY FinitelyMany
  <2>2. InSession(c)' = InSession(c) \ {u} /\ u \in InSession(c)
    BY <1>1 DEF InSession, TypeOK, Active, PoolAssumption
  <2>3. Cardinality(InSession(c)) \in Nat /\ Cardinality(InSession(c)) # 0
    BY <2>1, <2>2, FS_CardinalityType, FS_EmptySet
  <2>4. Cardinality(InSession(c)') = Cardinality(InSession(c)) - 1
    BY ONLY <2>1, <2>2, FS_RemoveElement
  <2>5. Listing(c)' = Listing(c)
    BY <2>2 DEF Listing
  <2>6. QED BY <1>1, <2>3, <2>4, <2>5
<1>2. CASE ~(pc[u] = "session" /\ got[u] = c)
  <2>1. InSession(c)' = InSession(c)
    BY <1>2 DEF InSession, TypeOK, Active, PoolAssumption
  <2>2. QED BY <1>2, <2>1 DEF Listing
<1>3. QED BY <1>1, <1>2

\* The session of a command is counted while the command runs.
LEMMA ExecCounted ==
  ASSUME PoolAssumption, TypeOK, NEW u \in Users, NEW c \in Clients,
         u \in InSession(c), u \notin listing,
         listing' = listing \cup {u}, UNCHANGED <<pc, got>>
  PROVE  /\ Cardinality(Listing(c)') = Cardinality(Listing(c)) + 1
         /\ \A d \in Clients \ {c} : Listing(d)' = Listing(d)
         /\ \A d \in Clients : InSession(d)' = InSession(d)
<1>1. \A d \in Clients : InSession(d)' = InSession(d)
  BY DEF InSession
<1>2. Listing(c)' = Listing(c) \cup {u} /\ u \notin Listing(c)
  BY <1>1 DEF Listing
<1>3. Cardinality(Listing(c)') = Cardinality(Listing(c)) + 1
  BY <1>2, FinitelyMany, FS_AddElement
<1>4. \A d \in Clients \ {c} : u \notin InSession(d)
  BY DEF InSession
<1>5. \A d \in Clients \ {c} : Listing(d)' = Listing(d)
  BY <1>1, <1>4 DEF Listing
<1>6. QED BY <1>1, <1>3, <1>5

LEMMA ExecUncounted ==
  ASSUME PoolAssumption, TypeOK, NEW u \in Users, NEW c \in Clients,
         u \in InSession(c), u \in listing,
         listing' = listing \ {u}, UNCHANGED <<pc, got>>
  PROVE  /\ Cardinality(Listing(c)') = Cardinality(Listing(c)) - 1
         /\ Cardinality(Listing(c)) \in Nat \ {0}
         /\ \A d \in Clients \ {c} : Listing(d)' = Listing(d)
         /\ \A d \in Clients : InSession(d)' = InSession(d)
<1>1. \A d \in Clients : InSession(d)' = InSession(d)
  BY DEF InSession
<1>2. Listing(c)' = Listing(c) \ {u} /\ u \in Listing(c)
  BY <1>1 DEF Listing
<1>3. IsFiniteSet(Listing(c))
  BY FinitelyMany
<1>4. Cardinality(Listing(c)') = Cardinality(Listing(c)) - 1
  BY ONLY <1>2, <1>3, FS_RemoveElement
<1>5. Cardinality(Listing(c)) \in Nat \ {0}
  BY <1>2, <1>3, FS_CardinalityType, FS_EmptySet
<1>6. \A d \in Clients \ {c} : u \notin InSession(d)
  BY DEF InSession
<1>7. \A d \in Clients \ {c} : Listing(d)' = Listing(d)
  BY <1>1, <1>6 DEF Listing
<1>8. QED BY <1>1, <1>4, <1>5, <1>7

\* The other steps of a user leave everybody's session as it is.
LEMMA SessionsKept ==
  ASSUME TypeOK, NEW u \in Users, NEW l \in Labels \ {"session"}, pc[u] # "session",
         pc' = [pc EXCEPT ![u] = l], \A v \in Users \ {u} : got'[v] = got[v],
         listing' = listing
  PROVE  \A c \in Clients : InSession(c)' = InSession(c) /\ Listing(c)' = Listing(c)
BY DEF InSession, Listing, TypeOK, Active, Labels

\* The client of a user at work.
LEMMA GotClient ==
  ASSUME TypeOK, UseInv, NEW u \in Users, pc[u] \in {"got"} \cup Active
  PROVE  got[u] \in Clients /\ link[got[u]] # "none"
BY DEF TypeOK, UseInv

-----------------------------------------------------------------------------
\* Who holds the lock, and the pool it found.
LEMMA LockStep ==
  ASSUME PoolAssumption, Inv, [Next]_vars
  PROVE  LockInv'
<1> USE DEF PoolAssumption, Inv, TypeOK, LockInv, GoTo, Active, CloseAll
<1>1. ASSUME NEW u \in Users, Call(u) PROVE LockInv'
  BY <1>1 DEF Call
<1>2. ASSUME NEW u \in Users, Get(u) PROVE LockInv'
  <2>1. CASE Lock(u)          BY <2>1 DEF Lock
  <2>2. CASE ProbeSucceeds(u) BY <2>2 DEF ProbeSucceeds, Return
  <2>3. CASE ProbeFails(u)    BY <2>3 DEF ProbeFails
  <2>4. CASE Dial(u)          BY <2>4 DEF Dial, Return, Clients
  <2>5. CASE DialFails(u)     BY <2>5 DEF DialFails
  <2>6. QED BY <1>2, <2>1, <2>2, <2>3, <2>4, <2>5 DEF Get
<1>3. ASSUME NEW u \in Users, Use(u) PROVE LockInv'
  <2>1. CASE OpenSession(u) BY <2>1 DEF OpenSession
  <2>2. CASE OpenForward(u) BY <2>2 DEF OpenForward
  <2>3. CASE OpenFails(u)   BY <2>3 DEF OpenFails
  <2>4. CASE Leave(u)       BY <2>4 DEF Leave
  <2>5. CASE Exec(u)        BY <2>5 DEF Exec
  <2>6. CASE ExecEnds(u)    BY <2>6 DEF ExecEnds
  <2>7. QED BY <1>3, <2>1, <2>2, <2>3, <2>4, <2>5, <2>6 DEF Use
<1>4. CASE Quit  BY <1>4 DEF Quit
<1>5. CASE Close BY <1>5 DEF Close
<1>6. ASSUME NEW c \in Clients, Lose(c) PROVE LockInv'
  BY <1>6 DEF Lose
<1>7. ASSUME NEW s \in Servers, Hang(s) PROVE LockInv'
  BY <1>7 DEF Hang
<1>8. CASE UNCHANGED vars BY <1>8 DEF vars
<1>9. QED
  BY <1>1, <1>2, <1>3, <1>4, <1>5, <1>6, <1>7, <1>8 DEF Next

\* What is pooled is what is open.
LEMMA PoolStep ==
  ASSUME PoolAssumption, Inv, [Next]_vars
  PROVE  PoolInv'
<1> USE DEF PoolAssumption, Inv, TypeOK, LockInv, PoolInv, NoClientLeak, GoTo, Active, CloseAll
<1>1. ASSUME NEW u \in Users, Call(u) PROVE PoolInv'
  BY <1>1 DEF Call
<1>2. ASSUME NEW u \in Users, Get(u) PROVE PoolInv'
  <2>1. CASE Lock(u)          BY <2>1 DEF Lock
  <2>2. CASE ProbeSucceeds(u) BY <2>2 DEF ProbeSucceeds, Return
  <2>3. CASE ProbeFails(u)    BY <2>3 DEF ProbeFails
  <2>4. CASE Dial(u)
    <3>1. PICK c \in Clients : /\ link[c] = "none"
                               /\ link' = [link EXCEPT ![c] = "open"]
                               /\ pooled' = [pooled EXCEPT ![ServerOf[u]] = c]
      BY <2>4 DEF Dial
    <3>2. pooled[ServerOf[u]] = None
      BY <2>4 DEF Dial
    <3>3. c # None /\ \A s \in Servers : pooled[s] # c
      BY <3>1, SMTT(40) DEF Clients
    <3>4. \A s \in Servers : pooled'[s] = IF s = ServerOf[u] THEN c ELSE pooled[s]
      BY <3>1
    <3>5. \A d \in Clients : link'[d] = IF d = c THEN "open" ELSE link[d]
      BY <3>1
    <3>6. NoClientLeak'
      <4> SUFFICES ASSUME NEW d \in Clients, link'[d] \in {"open", "lost"}
                   PROVE  \E s \in Servers : pooled'[s] = d
        OBVIOUS
      <4>1. CASE d = c
        BY <3>4, <4>1
      <4>2. CASE d # c
        <5>1. PICK s \in Servers : pooled[s] = d
          BY <3>5, <4>2
        <5>2. d # None
          BY DEF Clients
        <5>3. QED BY <3>2, <3>4, <5>1, <5>2
      <4>3. QED BY <4>1, <4>2
    <3>7. \A s \in Servers : pooled'[s] # None => link'[pooled'[s]] \in {"open", "lost"}
      BY <3>3, <3>4, <3>5
    <3>8. \A s, t \in Servers : pooled'[s] # None /\ pooled'[s] = pooled'[t] => s = t
      BY <3>3, <3>4
    <3>9. QED BY <3>6, <3>7, <3>8
  <2>5. CASE DialFails(u)     BY <2>5 DEF DialFails
  <2>6. QED BY <1>2, <2>1, <2>2, <2>3, <2>4, <2>5 DEF Get
<1>3. ASSUME NEW u \in Users, Use(u) PROVE PoolInv'
  BY <1>3 DEF Use, OpenSession, OpenForward, OpenFails, Leave, Exec, ExecEnds
<1>4. CASE Quit  BY <1>4 DEF Quit
<1>5. CASE Close BY <1>5 DEF Close
<1>6. ASSUME NEW c \in Clients, Lose(c) PROVE PoolInv'
  BY <1>6 DEF Lose
<1>7. ASSUME NEW s \in Servers, Hang(s) PROVE PoolInv'
  BY <1>7 DEF Hang
<1>8. CASE UNCHANGED vars BY <1>8 DEF vars
<1>9. QED
  BY <1>1, <1>2, <1>3, <1>4, <1>5, <1>6, <1>7, <1>8 DEF Next

\* The sessions the server counts.
LEMMA SessionsStep ==
  ASSUME PoolAssumption, Inv, [Next]_vars
  PROVE  SessionsInv'
<1> DEFINE Same == \A c \in Clients : InSession(c)' = InSession(c) /\ Listing(c)' = Listing(c)
<1> USE DEF PoolAssumption, Inv, SessionsInv
<1>1. ASSUME NEW u \in Users, Call(u) PROVE SessionsInv'
  <2>1. Same
    BY <1>1, SessionsKept DEF Call, GoTo, Labels, Active
  <2>2. \A v \in listing' : pc'[v] = "session"
    BY <1>1 DEF Call, GoTo, TypeOK
  <2>3. QED BY <1>1, <2>1, <2>2 DEF Call
<1>2. ASSUME NEW u \in Users, Get(u) PROVE SessionsInv'
  <2>1. Same
    <3>1. CASE Lock(u)
      <4>1. PICK l \in {"dial", "probe"} : GoTo(u, l)
        BY <3>1 DEF Lock
      <4>2. QED BY <3>1, <4>1, SessionsKept DEF Lock, GoTo, Labels
    <3>2. CASE ProbeSucceeds(u)
      BY <3>2, SessionsKept DEF ProbeSucceeds, Return, GoTo, Labels, TypeOK
    <3>3. CASE ProbeFails(u)
      BY <3>3, SessionsKept DEF ProbeFails, GoTo, Labels
    <3>4. CASE Dial(u)
      <4>1. PICK c \in Clients : Return(u, c)
        BY <3>4 DEF Dial
      <4>2. pc[u] = "dial" /\ listing' = listing
        BY <3>4 DEF Dial
      <4>3. QED BY <4>1, <4>2, SessionsKept DEF Return, GoTo, Labels, TypeOK
    <3>5. CASE DialFails(u)
      BY <3>5, SessionsKept DEF DialFails, GoTo, Labels
    <3>6. QED BY <1>2, <3>1, <3>2, <3>3, <3>4, <3>5 DEF Get
  <2>2. \A v \in listing' : pc'[v] = "session"
    <3>1. listing' = listing /\ pc[u] # "session" /\ \A v \in Users \ {u} : pc'[v] = pc[v]
      BY <1>2 DEF Get, Lock, ProbeSucceeds, ProbeFails, Dial, DialFails, Return, GoTo, TypeOK
    <3>2. QED BY <3>1 DEF TypeOK
  <2>3. CASE Lock(u) \/ ProbeSucceeds(u) \/ DialFails(u)
    <3>1. UNCHANGED <<link, sessions>>
      BY <2>3 DEF Lock, ProbeSucceeds, DialFails
    <3>2. QED BY <2>1, <2>2, <3>1
  <2>4. CASE ProbeFails(u)
    <3>1. \A c \in Clients : \/ link'[c] = "closed"
                            \/ (link'[c] = link[c] /\ sessions'[c] = sessions[c])
      BY <2>4 DEF ProbeFails, CloseAll, TypeOK
    <3>2. QED BY <2>1, <2>2, <3>1
  <2>5. CASE Dial(u)
    <3>1. PICK c \in Clients : /\ link[c] = "none" /\ link' = [link EXCEPT ![c] = "open"]
                               /\ Counts(c, 0)
      BY <2>5 DEF Dial
    <3>2. InSession(c) = {} /\ Listing(c) = {}
      BY <3>1 DEF InSession, Listing, UseInv, Active
    <3>3. Cardinality(InSession(c)') = 0 /\ Cardinality(Listing(c)') = 0
      BY <2>1, <3>2, FS_EmptySet
    <3>4. sessions'[c] = 0 /\ \A d \in Clients \ {c} : sessions'[d] = sessions[d] /\ link'[d] = link[d]
      BY <3>1 DEF Counts, TypeOK
    <3>5. link'[c] = "open"
      BY <3>1 DEF TypeOK
    <3>6. QED BY <2>1, <2>2, <3>3, <3>4, <3>5
  <2>6. QED BY <1>2, <2>3, <2>4, <2>5 DEF Get
<1>3. ASSUME NEW u \in Users, Use(u) PROVE SessionsInv'
  <2>1. CASE OpenSession(u)
    <3>0. PICK c \in Clients : c = got[u]
      BY <2>1, GotClient DEF OpenSession, Active, SessionsInv
    <3>1. c \in Clients /\ u \notin listing /\ pc[u] = "got"
      BY <3>0, <2>1, GotClient DEF OpenSession
    <3>2. /\ Cardinality(InSession(c)') = Cardinality(InSession(c)) + 1
          /\ \A d \in Clients \ {c} : InSession(d)' = InSession(d)
          /\ \A d \in Clients : Listing(d)' = Listing(d)
      BY <3>0, <2>1, <3>1, SessionOpened DEF OpenSession, GoTo
    <3>3. \A v \in listing' : pc'[v] = "session"
      BY <3>0, <2>1 DEF OpenSession, GoTo, TypeOK
    <3>4. /\ sessions'[c] = sessions[c] + 1 /\ link' = link /\ link[c] = "open"
          /\ \A d \in Clients \ {c} : sessions'[d] = sessions[d]
      BY <3>0, <2>1, <3>1 DEF OpenSession, HasRoom, Counts, TypeOK
    <3>5. sessions[c] \in Nat
      BY <3>0, <3>1 DEF TypeOK
    <3>6. QED
      <4>1. SUFFICES ASSUME NEW d \in Clients
                     PROVE  /\ link'[d] = "open" => sessions'[d] >= Cardinality(InSession(d)')
                                                                    + Cardinality(Listing(d)')
                            /\ link'[d] = "none" => sessions'[d] = 0
        BY <3>3
      <4>2. CASE d = c
        <5>1. Cardinality(InSession(c)) \in Nat /\ Cardinality(Listing(c)) \in Nat
          BY <3>0, <3>1, FinitelyMany
        <5>2. link[c] = "open"
                => sessions[c] >= Cardinality(InSession(c)) + Cardinality(Listing(c))
          BY <3>0, <3>1 DEF SessionsInv
        <5>3. /\ Cardinality(InSession(c)') = Cardinality(InSession(c)) + 1
              /\ Cardinality(Listing(c)') = Cardinality(Listing(c))
          BY <3>0, <3>1, <3>2
        <5>4. QED BY ONLY <3>1, <3>4, <3>5, <5>1, <5>2, <5>3, <4>2
      <4>3. CASE d # c
        BY ONLY SessionsInv, <3>2, <3>4, <4>1, <4>3 DEF SessionsInv
      <4>4. QED BY <4>2, <4>3
  <2>2. CASE OpenForward(u)
    <3>1. Same
      BY <2>2, SessionsKept DEF OpenForward, GoTo, Labels, Active
    <3>2. (\A v \in listing' : pc'[v] = "session") /\ UNCHANGED <<link, sessions>>
      BY <2>2 DEF OpenForward, GoTo, TypeOK
    <3>3. QED BY <3>1, <3>2
  <2>3. CASE OpenFails(u)
    <3> DEFINE c == got[u]
    <3>1. Same
      BY <2>3, SessionsKept DEF OpenFails, GoTo, Labels, Active, TypeOK
    <3>2. (\A v \in listing' : pc'[v] = "session") /\ UNCHANGED link
      BY <2>3 DEF OpenFails, GoTo, TypeOK
    <3>3. c \in Clients /\ link[c] # "none"
      BY <2>3, GotClient DEF OpenFails
    <3>4. CASE UNCHANGED sessions
      BY <3>1, <3>2, <3>4
    <3>5. CASE Counts(c, sessions[c] + 1)
      <4>1. sessions'[c] = sessions[c] + 1 /\ \A d \in Clients \ {c} : sessions'[d] = sessions[d]
        BY <3>3, <3>5 DEF Counts, TypeOK
      <4>2. sessions[c] \in Nat
        BY <3>3 DEF TypeOK
      <4>3. QED BY <3>1, <3>2, <3>3, <4>1, <4>2, FinitelyMany
    <3>6. QED BY <2>3, <3>4, <3>5 DEF OpenFails
  <2>4. CASE Leave(u)
    <3>1. (\A v \in listing' : pc'[v] = "session") /\ UNCHANGED link
      BY <2>4 DEF Leave, GoTo, TypeOK
    <3>2. got[u] \in Clients /\ link[got[u]] # "none"
      BY <2>4, GotClient DEF Leave
    <3> SUFFICES ASSUME NEW c \in Clients
                 PROVE  /\ link'[c] = "open" => sessions'[c] >= Cardinality(InSession(c)')
                                                                + Cardinality(Listing(c)')
                        /\ link'[c] = "none" => sessions'[c] = 0
      BY <3>1
    <3>3. /\ IF pc[u] = "session" /\ got[u] = c
             THEN /\ Cardinality(InSession(c)') = Cardinality(InSession(c)) - 1
                  /\ Cardinality(InSession(c)) \in Nat \ {0}
             ELSE InSession(c)' = InSession(c)
          /\ Listing(c)' = Listing(c)
      BY <2>4, SessionClosed DEF Leave, GoTo
    <3>4. CASE pc[u] = "session" /\ got[u] = c /\ link[c] = "open"
      <4>1. sessions'[c] = sessions[c] - 1 /\ sessions[c] \in Nat
        BY <2>4, <3>4 DEF Leave, Counts, TypeOK
      <4>2. QED BY <3>1, <3>3, <3>4, <4>1, FinitelyMany
    <3>5. CASE ~(pc[u] = "session" /\ got[u] = c /\ link[c] = "open")
      <4>1. sessions'[c] = sessions[c]
        BY <2>4, <3>2, <3>5 DEF Leave, Counts, TypeOK
      <4>2. QED BY <3>1, <3>2, <3>3, <3>5, <4>1
    <3>6. QED BY <3>4, <3>5
  <2>5. CASE Exec(u)
    <3>0. PICK c \in Clients : c = got[u]
      BY <2>5, GotClient DEF Exec, Active, SessionsInv
    <3>1. c \in Clients /\ u \notin listing /\ u \in InSession(c)
      BY <3>0, <2>5, GotClient DEF Exec, Active, InSession
    <3>2. /\ Cardinality(Listing(c)') = Cardinality(Listing(c)) + 1
          /\ \A d \in Clients \ {c} : Listing(d)' = Listing(d)
          /\ \A d \in Clients : InSession(d)' = InSession(d)
      BY <3>0, <2>5, <3>1, ExecCounted DEF Exec
    <3>3. \A v \in listing' : pc'[v] = "session"
      BY <3>0, <2>5 DEF Exec
    <3>4. /\ sessions'[c] = sessions[c] + 1 /\ link' = link /\ link[c] = "open"
          /\ \A d \in Clients \ {c} : sessions'[d] = sessions[d]
      BY <3>0, <2>5, <3>1 DEF Exec, HasRoom, Counts, TypeOK
    <3>5. sessions[c] \in Nat
      BY <3>0, <3>1 DEF TypeOK
    <3>6. QED
      <4>1. SUFFICES ASSUME NEW d \in Clients
                     PROVE  /\ link'[d] = "open" => sessions'[d] >= Cardinality(InSession(d)')
                                                                    + Cardinality(Listing(d)')
                            /\ link'[d] = "none" => sessions'[d] = 0
        BY <3>3
      <4>2. CASE d = c
        <5>1. Cardinality(InSession(c)) \in Nat /\ Cardinality(Listing(c)) \in Nat
          BY <3>0, <3>1, FinitelyMany
        <5>2. link[c] = "open"
                => sessions[c] >= Cardinality(InSession(c)) + Cardinality(Listing(c))
          BY <3>0, <3>1 DEF SessionsInv
        <5>3. /\ Cardinality(InSession(c)') = Cardinality(InSession(c))
              /\ Cardinality(Listing(c)') = Cardinality(Listing(c)) + 1
          BY <3>0, <3>1, <3>2
        <5>4. QED BY ONLY <3>1, <3>4, <3>5, <5>1, <5>2, <5>3, <4>2
      <4>3. CASE d # c
        BY ONLY SessionsInv, <3>2, <3>4, <4>1, <4>3 DEF SessionsInv
      <4>4. QED BY <4>2, <4>3
  <2>6. CASE ExecEnds(u)
    <3>0. PICK c \in Clients : c = got[u]
      BY <2>6, GotClient DEF ExecEnds, Active, SessionsInv
    <3>1. c \in Clients /\ u \in listing /\ u \in InSession(c) /\ link[c] # "none"
      BY <3>0, <2>6, GotClient DEF ExecEnds, Active, InSession
    <3>2. /\ Cardinality(Listing(c)') = Cardinality(Listing(c)) - 1
          /\ Cardinality(Listing(c)) \in Nat \ {0}
          /\ \A d \in Clients \ {c} : Listing(d)' = Listing(d)
          /\ \A d \in Clients : InSession(d)' = InSession(d)
      BY <3>0, <2>6, <3>1, ExecUncounted DEF ExecEnds
    <3>3. (\A v \in listing' : pc'[v] = "session") /\ link' = link
      BY <3>0, <2>6 DEF ExecEnds
    <3>4. \A d \in Clients \ {c} : sessions'[d] = sessions[d]
      BY <3>0, <2>6, <3>1 DEF ExecEnds, Counts, TypeOK
    <3>5. link[c] = "open" => sessions'[c] = sessions[c] - 1
      BY <3>0, <2>6, <3>1 DEF ExecEnds, Counts, TypeOK
    <3>6. sessions[c] \in Nat
      BY <3>0, <3>1 DEF TypeOK
    <3>7. QED
      <4>1. SUFFICES ASSUME NEW d \in Clients
                     PROVE  /\ link'[d] = "open" => sessions'[d] >= Cardinality(InSession(d)')
                                                                    + Cardinality(Listing(d)')
                            /\ link'[d] = "none" => sessions'[d] = 0
        BY <3>3
      <4>2. CASE d = c
        <5>1. Cardinality(InSession(c)) \in Nat /\ Cardinality(Listing(c)) \in Nat
          BY <3>0, <3>1, FinitelyMany
        <5>2. link[c] = "open"
                => sessions[c] >= Cardinality(InSession(c)) + Cardinality(Listing(c))
          BY <3>0, <3>1 DEF SessionsInv
        <5>3. /\ Cardinality(InSession(c)') = Cardinality(InSession(c))
              /\ Cardinality(Listing(c)') = Cardinality(Listing(c)) - 1
          BY <3>0, <3>1, <3>2
        <5>4. QED BY ONLY <3>1, <3>3, <3>5, <3>6, <5>1, <5>2, <5>3, <4>2
      <4>3. CASE d # c
        BY ONLY SessionsInv, <3>2, <3>3, <3>4, <4>1, <4>3 DEF SessionsInv
      <4>4. QED BY <4>2, <4>3
  <2>7. QED BY <1>3, <2>1, <2>2, <2>3, <2>4, <2>5, <2>6 DEF Use
<1>4. ASSUME UNCHANGED <<pc, got, listing>> PROVE Same
  BY <1>4 DEF InSession, Listing
<1>5. CASE Quit  BY <1>4, <1>5 DEF Quit
<1>6. CASE Close
  <2>1. \A c \in Clients : \/ link'[c] = "closed"
                          \/ (link'[c] = link[c] /\ sessions'[c] = sessions[c])
    BY <1>6 DEF Close, CloseAll, TypeOK
  <2>2. UNCHANGED <<pc, got, listing>>
    BY <1>6 DEF Close
  <2>3. QED BY <1>4, <2>1, <2>2
<1>7. ASSUME NEW c \in Clients, Lose(c) PROVE SessionsInv'
  BY <1>4, <1>7 DEF Lose, TypeOK
<1>8. ASSUME NEW s \in Servers, Hang(s) PROVE SessionsInv'
  BY <1>4, <1>8 DEF Hang
<1>9. CASE UNCHANGED vars BY <1>4, <1>9 DEF vars
<1>10. QED
  BY <1>1, <1>2, <1>3, <1>5, <1>6, <1>7, <1>8, <1>9 DEF Next

\* What the users got, and which clients are spoilt.
LEMMA UseStep ==
  ASSUME PoolAssumption, Inv, [Next]_vars
  PROVE  UseInv'
<1> USE DEF PoolAssumption, Inv, TypeOK, LockInv, PoolInv, SessionsInv, UseInv, NobodyIsCutOff,
            GoTo, Active, CloseAll
<1>1. ASSUME NEW u \in Users, Call(u) PROVE UseInv'
  BY <1>1 DEF Call
<1>2. ASSUME NEW u \in Users, Get(u) PROVE UseInv'
  <2>1. CASE Lock(u)          BY <2>1 DEF Lock
  <2>2. CASE ProbeSucceeds(u)
    <3> DEFINE c == pooled[ServerOf[u]]
    <3>1. c \in Clients /\ link[c] = "open"
      BY <2>2 DEF ProbeSucceeds, HasRoom
    <3>2. QED BY <2>2, <3>1 DEF ProbeSucceeds, Return
  <2>3. CASE ProbeFails(u)
    <3> DEFINE c == pooled[ServerOf[u]]
    <3>1. c \in Clients /\ (HasRoom(c) \/ c \in spoilt)
      BY <2>3 DEF ProbeFails, HasRoom
    <3>2. spoilt' = spoilt \cup {c}
      BY <2>3, <3>1 DEF ProbeFails
    <3>3. QED BY <2>3, <3>1, <3>2 DEF ProbeFails
  <2>4. CASE Dial(u)
    <3>1. PICK c \in Clients : /\ link[c] = "none"
                               /\ link' = [link EXCEPT ![c] = "open"]
                               /\ Return(u, c) /\ Counts(c, 0)
      BY <2>4 DEF Dial
    <3>2. quit' = quit /\ c # None
      BY <2>4 DEF Dial, Clients
    <3>3. \A v \in Users \ {u} : pc[v] \in {"got"} \cup Active => got[v] # c
      BY <3>1
    <3>4. \A d \in Clients \ {c} :
            sessions'[d] = sessions[d] /\ link'[d] = link[d] /\ (d \in spoilt' <=> d \in spoilt)
      BY <3>1 DEF Counts
    <3>5. link'[c] = "open" /\ (sessions'[c] >= MaxSessions => c \in spoilt')
      BY <3>1 DEF Counts
    <3>6. QED BY <3>1, <3>2, <3>3, <3>4, <3>5 DEF Return
  <2>5. CASE DialFails(u)     BY <2>5 DEF DialFails
  <2>6. QED BY <1>2, <2>1, <2>2, <2>3, <2>4, <2>5 DEF Get
<1>3. ASSUME NEW u \in Users, Use(u) PROVE UseInv'
  <2>1. CASE OpenSession(u)
    <3> DEFINE c == got[u]
    <3>1. c \in Clients
      BY <2>1, GotClient DEF OpenSession, InSession
    <3>2. UNCHANGED <<link, quit>>
      BY <2>1 DEF OpenSession
    <3>3. CASE UNCHANGED <<sessions, spoilt>>
      BY <2>1, <3>2, <3>3 DEF OpenSession
    <3>4. CASE link[c] = "open" /\ \E n \in Int : Counts(c, n)
      <4>1. PICK n \in Int : Counts(c, n)
        BY <3>4
      <4>2. \A d \in Clients \ {c} : sessions'[d] = sessions[d] /\ (d \in spoilt' <=> d \in spoilt)
        BY <4>1 DEF Counts
      <4>3. sessions'[c] >= MaxSessions => c \in spoilt'
        BY <3>1, <4>1 DEF Counts
      <4>4. QED BY <2>1, <3>1, <3>2, <3>4, <4>2, <4>3 DEF OpenSession
    <3>5. QED BY <2>1, <3>1, <3>3, <3>4 DEF OpenSession, HasRoom
  <2>2. CASE OpenForward(u) BY <2>2 DEF OpenForward
  <2>3. CASE OpenFails(u)
    <3> DEFINE c == got[u]
    <3>1. c \in Clients
      BY <2>3, GotClient DEF OpenFails, InSession
    <3>2. UNCHANGED <<link, quit>>
      BY <2>3 DEF OpenFails
    <3>3. CASE UNCHANGED <<sessions, spoilt>>
      BY <2>3, <3>2, <3>3 DEF OpenFails
    <3>4. CASE link[c] = "open" /\ \E n \in Int : Counts(c, n)
      <4>1. PICK n \in Int : Counts(c, n)
        BY <3>4
      <4>2. \A d \in Clients \ {c} : sessions'[d] = sessions[d] /\ (d \in spoilt' <=> d \in spoilt)
        BY <4>1 DEF Counts
      <4>3. sessions'[c] >= MaxSessions => c \in spoilt'
        BY <3>1, <4>1 DEF Counts
      <4>4. QED BY <2>3, <3>1, <3>2, <3>4, <4>2, <4>3 DEF OpenFails
    <3>5. QED BY <2>3, <3>1, <3>3, <3>4 DEF OpenFails, HasRoom
  <2>4. CASE Leave(u)
    <3> DEFINE c == got[u]
    <3>1. c \in Clients
      BY <2>4, GotClient DEF Leave, InSession
    <3>2. UNCHANGED <<link, quit>>
      BY <2>4 DEF Leave
    <3>3. CASE UNCHANGED <<sessions, spoilt>>
      BY <2>4, <3>2, <3>3 DEF Leave
    <3>4. CASE link[c] = "open" /\ \E n \in Int : Counts(c, n)
      <4>1. PICK n \in Int : Counts(c, n)
        BY <3>4
      <4>2. \A d \in Clients \ {c} : sessions'[d] = sessions[d] /\ (d \in spoilt' <=> d \in spoilt)
        BY <4>1 DEF Counts
      <4>3. sessions'[c] >= MaxSessions => c \in spoilt'
        BY <3>1, <4>1 DEF Counts
      <4>4. QED BY <2>4, <3>1, <3>2, <3>4, <4>2, <4>3 DEF Leave
    <3>5. QED BY <2>4, <3>1, <3>3, <3>4 DEF Leave, HasRoom
  <2>5. CASE Exec(u)
    <3> DEFINE c == got[u]
    <3>1. c \in Clients
      BY <2>5, GotClient DEF Exec, InSession
    <3>2. UNCHANGED <<link, quit>>
      BY <2>5 DEF Exec
    <3>3. CASE UNCHANGED <<sessions, spoilt>>
      BY <2>5, <3>2, <3>3 DEF Exec
    <3>4. CASE link[c] = "open" /\ \E n \in Int : Counts(c, n)
      <4>1. PICK n \in Int : Counts(c, n)
        BY <3>4
      <4>2. \A d \in Clients \ {c} : sessions'[d] = sessions[d] /\ (d \in spoilt' <=> d \in spoilt)
        BY <4>1 DEF Counts
      <4>3. sessions'[c] >= MaxSessions => c \in spoilt'
        BY <3>1, <4>1 DEF Counts
      <4>4. QED BY <2>5, <3>1, <3>2, <3>4, <4>2, <4>3 DEF Exec
    <3>5. QED BY <2>5, <3>1, <3>3, <3>4 DEF Exec, HasRoom
  <2>6. CASE ExecEnds(u)
    <3> DEFINE c == got[u]
    <3>1. c \in Clients
      BY <2>6, GotClient DEF ExecEnds, InSession
    <3>2. UNCHANGED <<link, quit>>
      BY <2>6 DEF ExecEnds
    <3>3. CASE UNCHANGED <<sessions, spoilt>>
      BY <2>6, <3>2, <3>3 DEF ExecEnds
    <3>4. CASE link[c] = "open" /\ \E n \in Int : Counts(c, n)
      <4>1. PICK n \in Int : Counts(c, n)
        BY <3>4
      <4>2. \A d \in Clients \ {c} : sessions'[d] = sessions[d] /\ (d \in spoilt' <=> d \in spoilt)
        BY <4>1 DEF Counts
      <4>3. sessions'[c] >= MaxSessions => c \in spoilt'
        BY <3>1, <4>1 DEF Counts
      <4>4. QED BY <2>6, <3>1, <3>2, <3>4, <4>2, <4>3 DEF ExecEnds
    <3>5. QED BY <2>6, <3>1, <3>3, <3>4 DEF ExecEnds, HasRoom
  <2>7. QED BY <1>3, <2>1, <2>2, <2>3, <2>4, <2>5, <2>6 DEF Use
<1>4. CASE Quit  BY <1>4 DEF Quit
<1>5. CASE Close BY <1>5 DEF Close
<1>6. ASSUME NEW c \in Clients, Lose(c) PROVE UseInv'
  BY <1>6 DEF Lose
<1>7. ASSUME NEW s \in Servers, Hang(s) PROVE UseInv'
  BY <1>7 DEF Hang
<1>8. CASE UNCHANGED vars BY <1>8 DEF vars
<1>9. QED
  BY <1>1, <1>2, <1>3, <1>4, <1>5, <1>6, <1>7, <1>8 DEF Next

\* The types; that no session is closed twice is why their number is a natural one.
LEMMA TypeStep ==
  ASSUME PoolAssumption, Inv, [Next]_vars
  PROVE  TypeOK'
<1> USE DEF PoolAssumption, Inv, TypeOK, GoTo, Active, CloseAll
<1>1. ASSUME NEW u \in Users, Call(u) PROVE TypeOK'
  BY <1>1 DEF Call
<1>2. ASSUME NEW u \in Users, Get(u) PROVE TypeOK'
  <2>1. CASE Lock(u)          BY <2>1 DEF Lock
  <2>2. CASE ProbeSucceeds(u) BY <2>2 DEF ProbeSucceeds, Return, LockInv
  <2>3. CASE ProbeFails(u)    BY <2>3 DEF ProbeFails, LockInv
  <2>4. CASE Dial(u)
    <3>1. PICK c \in Clients : /\ link' = [link EXCEPT ![c] = "open"]
                               /\ pooled' = [pooled EXCEPT ![ServerOf[u]] = c]
                               /\ Return(u, c) /\ Counts(c, 0)
      BY <2>4 DEF Dial
    <3>2. UNCHANGED <<listing, hung, quit, leaving>>
      BY <2>4 DEF Dial
    <3>3. QED BY <3>1, <3>2 DEF Return, Counts
  <2>5. CASE DialFails(u)     BY <2>5 DEF DialFails
  <2>6. QED BY <1>2, <2>1, <2>2, <2>3, <2>4, <2>5 DEF Get
<1>3. ASSUME NEW u \in Users, Use(u) PROVE TypeOK'
  <2>1. CASE OpenSession(u) BY <2>1, GotClient DEF OpenSession, Counts
  <2>2. CASE OpenForward(u) BY <2>2 DEF OpenForward
  <2>3. CASE OpenFails(u)
    <3>1. got[u] \in Clients
      BY <2>3, GotClient DEF OpenFails
    <3>2. CASE UNCHANGED <<sessions, spoilt>>
      BY <2>3, <3>2 DEF OpenFails
    <3>3. CASE Counts(got[u], sessions[got[u]] + 1)
      BY <2>3, <3>1, <3>3 DEF OpenFails, Counts
    <3>4. QED BY <2>3, <3>2, <3>3 DEF OpenFails
  <2>4. CASE Leave(u)
    <3>1. CASE pc[u] = "session" /\ link[got[u]] = "open"
      <4>1. got[u] \in Clients
        BY <3>1, GotClient
      <4>2. u \in InSession(got[u])
        BY <3>1 DEF InSession
      <4>3. Cardinality(InSession(got[u])) \in Nat \ {0} /\ Cardinality(Listing(got[u])) \in Nat
        BY <4>1, <4>2, FinitelyMany, FS_CardinalityType, FS_EmptySet
      <4>4. sessions[got[u]] - 1 \in Nat
        BY <3>1, <4>1, <4>3 DEF SessionsInv
      <4>5. QED BY <2>4, <3>1, <4>1, <4>4, SMTT(40) DEF Leave, Counts
    <3>2. CASE ~(pc[u] = "session" /\ link[got[u]] = "open")
      BY <2>4, <3>2 DEF Leave
    <3>3. QED BY <3>1, <3>2
  <2>5. CASE Exec(u) BY <2>5, GotClient DEF Exec, Counts
  <2>6. CASE ExecEnds(u)
    <3>1. CASE link[got[u]] = "open"
      <4>1. got[u] \in Clients /\ u \in Listing(got[u])
        BY <2>6, GotClient DEF ExecEnds, SessionsInv, Listing, InSession
      <4>2. Cardinality(Listing(got[u])) \in Nat \ {0} /\ Cardinality(InSession(got[u])) \in Nat
        BY <4>1, FinitelyMany, FS_CardinalityType, FS_EmptySet
      <4>3. sessions[got[u]] - 1 \in Nat
        BY <3>1, <4>1, <4>2 DEF SessionsInv
      <4>4. QED BY <2>6, <3>1, <4>1, <4>3, SMTT(40) DEF ExecEnds, Counts
    <3>2. CASE link[got[u]] # "open"
      BY <2>6, <3>2 DEF ExecEnds
    <3>3. QED BY <3>1, <3>2
  <2>7. QED BY <1>3, <2>1, <2>2, <2>3, <2>4, <2>5, <2>6 DEF Use
<1>4. CASE Quit  BY <1>4 DEF Quit
<1>5. CASE Close BY <1>5 DEF Close
<1>6. ASSUME NEW c \in Clients, Lose(c) PROVE TypeOK'
  BY <1>6 DEF Lose
<1>7. ASSUME NEW s \in Servers, Hang(s) PROVE TypeOK'
  BY <1>7 DEF Hang
<1>8. CASE UNCHANGED vars BY <1>8 DEF vars
<1>9. QED
  BY <1>1, <1>2, <1>3, <1>4, <1>5, <1>6, <1>7, <1>8 DEF Next

-----------------------------------------------------------------------------
\* The inductive invariant: the lock, the pool, the sessions and the users agree.
THEOREM InvCorrect == Spec => []Inv
<1>1. Init => Inv
  <2> SUFFICES ASSUME Init PROVE Inv
    OBVIOUS
  <2>1. TypeOK /\ LockInv /\ PoolInv
    BY PoolAssumption DEF PoolAssumption, Init, TypeOK, LockInv, PoolInv, NoClientLeak
  <2>2. SessionsInv /\ UseInv
    BY PoolAssumption DEF PoolAssumption, Init, SessionsInv, UseInv, NobodyIsCutOff, Active
  <2>3. QED BY <2>1, <2>2 DEF Inv
<1>2. Inv /\ [Next]_vars => Inv'
  BY PoolAssumption, TypeStep, LockStep, PoolStep, SessionsStep, UseStep DEF Inv
<1>3. QED
  BY <1>1, <1>2, PTL DEF Spec

\* client.go Pool: no connection is dropped without being closed, whichever calls of Get
\* overlap and whatever fails.
THEOREM NoLeak == Spec => []NoClientLeak
<1>1. Inv => NoClientLeak
  BY DEF Inv, PoolInv
<1>2. QED
  BY <1>1, InvCorrect, PTL

\* client.go Get: the client of a user is closed under it for the four reasons named
\* with the property; the probes of other calls are none of them.
THEOREM CutOffForAReason == Spec => []NobodyIsCutOff
<1>1. Inv => NobodyIsCutOff
  BY DEF Inv, UseInv
<1>2. QED
  BY <1>1, InvCorrect, PTL
=============================================================================
