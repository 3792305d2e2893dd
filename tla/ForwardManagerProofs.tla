------------------------- MODULE ForwardManagerProofs -------------------------
(***************************************************************************)
(* Stop is complete, nothing remote leaks, and what runs is served, for    *)
(* any number of calls and connections.                                    *)
(***************************************************************************)
EXTENDS ForwardManager, Integers, FiniteSetTheorems, TLAPS

\* A generation that has not started stays bare.
LEMMA StartStep ==
  ASSUME ForwardAssumption, Inv, [Next]_vars
  PROVE  StartInv'
<1> USE DEF ForwardAssumption, Inv, TypeOK, genVars, connVars, stopVars, ConnGoes, PairClose,
      Attached, StartInv, RunInv, LoopInv, StopInv, RunningIsServed
<1>1. ASSUME NEW g \in Gens, StartLock(g) PROVE StartInv'
  BY <1>1 DEF StartLock
<1>2. ASSUME NEW g \in Gens, StartListen(g) PROVE StartInv'
  BY <1>2, SMTT(40) DEF StartListen
<1>3. ASSUME NEW g \in Gens, Loop(g) PROVE StartInv'
  <2>1. CASE Accept(g) BY <2>1 DEF Accept
  <2>2. CASE AcceptFails(g) BY <2>2 DEF AcceptFails
  <2>3. CASE LoopFails(g) BY <2>3 DEF LoopFails
  <2>4. CASE Admit(g) BY <2>4 DEF Admit
  <2>5. CASE Spawn(g) BY <2>5 DEF Spawn
  <2>6. QED BY <1>3, <2>1, <2>2, <2>3, <2>4, <2>5 DEF Loop
<1>4. ASSUME NEW c \in Conns, NEW g \in Gens, Arrive(c, g) PROVE StartInv'
  BY <1>4 DEF Arrive
<1>5. ASSUME NEW c \in Conns, Handshake(c) PROVE StartInv'
  BY <1>5 DEF Handshake
<1>6. ASSUME NEW c \in Conns, CopyEnds(c) PROVE StartInv'
  BY <1>6 DEF CopyEnds
<1>7. ASSUME NEW c \in Conns, Handler(c) PROVE StartInv'
  <2>1. CASE DialReturns(c) BY <2>1 DEF DialReturns
  <2>2. CASE SetRemote(c) BY <2>2 DEF SetRemote
  <2>3. CASE HandlerCloses(c) BY <2>3 DEF HandlerCloses
  <2>4. CASE HandlerEnds(c) BY <2>4 DEF HandlerEnds
  <2>5. QED BY <1>7, <2>1, <2>2, <2>3, <2>4 DEF Handler
<1>8. ASSUME NEW s \in Stops, StopCall(s) PROVE StartInv'
  <2>1. CASE StopMark(s) BY <2>1 DEF StopMark
  <2>2. CASE StopListener(s) BY <2>2 DEF StopListener
  <2>3. CASE StopPairs(s) BY <2>3 DEF StopPairs
  <2>4. CASE StopWait(s) BY <2>4 DEF StopWait
  <2>5. QED BY <1>8, <2>1, <2>2, <2>3, <2>4 DEF StopCall
<1>9. CASE UNCHANGED vars
  BY <1>9 DEF vars
<1>10. QED
  BY <1>1, <1>2, <1>3, <1>4, <1>5, <1>6, <1>7, <1>8, <1>9 DEF Next, Loop, Handler, StopCall

\* Only the registered generation runs.
LEMMA RunStep ==
  ASSUME ForwardAssumption, Inv, [Next]_vars
  PROVE  RunInv'
<1> USE DEF ForwardAssumption, Inv, TypeOK, genVars, connVars, stopVars, ConnGoes, PairClose,
      Attached, StartInv, RunInv, StopInv, RunningIsServed, IsRunning
<1>1. ASSUME NEW g \in Gens, StartLock(g) PROVE RunInv'
  BY <1>1 DEF StartLock
<1>2. ASSUME NEW g \in Gens, StartListen(g) PROVE RunInv'
  BY <1>2 DEF StartListen
<1>3. ASSUME NEW g \in Gens, Loop(g) PROVE RunInv'
  <2>1. CASE Accept(g) BY <2>1 DEF Accept
  <2>2. CASE AcceptFails(g) BY <2>2 DEF AcceptFails
  <2>3. CASE LoopFails(g) BY <2>3 DEF LoopFails
  <2>4. CASE Admit(g) BY <2>4 DEF Admit
  <2>5. CASE Spawn(g) BY <2>5 DEF Spawn
  <2>6. QED BY <1>3, <2>1, <2>2, <2>3, <2>4, <2>5 DEF Loop
<1>4. ASSUME NEW c \in Conns, NEW g \in Gens, Arrive(c, g) PROVE RunInv'
  BY <1>4 DEF Arrive
<1>5. ASSUME NEW c \in Conns, Handshake(c) PROVE RunInv'
  BY <1>5 DEF Handshake
<1>6. ASSUME NEW c \in Conns, CopyEnds(c) PROVE RunInv'
  BY <1>6 DEF CopyEnds
<1>7. ASSUME NEW c \in Conns, Handler(c) PROVE RunInv'
  <2>1. CASE DialReturns(c) BY <2>1 DEF DialReturns
  <2>2. CASE SetRemote(c) BY <2>2 DEF SetRemote
  <2>3. CASE HandlerCloses(c) BY <2>3 DEF HandlerCloses
  <2>4. CASE HandlerEnds(c) BY <2>4 DEF HandlerEnds
  <2>5. QED BY <1>7, <2>1, <2>2, <2>3, <2>4 DEF Handler
<1>8. ASSUME NEW s \in Stops, StopCall(s) PROVE RunInv'
  <2>1. CASE StopMark(s) BY <2>1 DEF StopMark
  <2>2. CASE StopListener(s) BY <2>2 DEF StopListener
  <2>3. CASE StopPairs(s) BY <2>3 DEF StopPairs
  <2>4. CASE StopWait(s) BY <2>4 DEF StopWait
  <2>5. QED BY <1>8, <2>1, <2>2, <2>3, <2>4 DEF StopCall
<1>9. CASE UNCHANGED vars
  BY <1>9 DEF vars
<1>10. QED
  BY <1>1, <1>2, <1>3, <1>4, <1>5, <1>6, <1>7, <1>8, <1>9 DEF Next, Loop, Handler, StopCall

\* The loop and the connection in its hand.
LEMMA LoopStep ==
  ASSUME ForwardAssumption, Inv, [Next]_vars
  PROVE  LoopInv'
<1> USE DEF ForwardAssumption, Inv, TypeOK, genVars, connVars, stopVars, ConnGoes, PairClose,
      Attached, StartInv, LoopInv, StopInv
<1>1. ASSUME NEW g \in Gens, StartLock(g) PROVE LoopInv'
  BY <1>1 DEF StartLock
<1>2. ASSUME NEW g \in Gens, StartListen(g) PROVE LoopInv'
  BY <1>2 DEF StartListen
<1>3. ASSUME NEW g \in Gens, Loop(g) PROVE LoopInv'
  <2>1. CASE Accept(g) BY <2>1 DEF Accept
  <2>2. CASE AcceptFails(g) BY <2>2 DEF AcceptFails
  <2>3. CASE LoopFails(g) BY <2>3 DEF LoopFails
  <2>4. CASE Admit(g) BY <2>4 DEF Admit
  <2>5. CASE Spawn(g) BY <2>5 DEF Spawn
  <2>6. QED BY <1>3, <2>1, <2>2, <2>3, <2>4, <2>5 DEF Loop
<1>4. ASSUME NEW c \in Conns, NEW g \in Gens, Arrive(c, g) PROVE LoopInv'
  BY <1>4 DEF Arrive
<1>5. ASSUME NEW c \in Conns, Handshake(c) PROVE LoopInv'
  BY <1>5 DEF Handshake
<1>6. ASSUME NEW c \in Conns, CopyEnds(c) PROVE LoopInv'
  BY <1>6 DEF CopyEnds
<1>7. ASSUME NEW c \in Conns, Handler(c) PROVE LoopInv'
  <2>1. CASE DialReturns(c) BY <2>1 DEF DialReturns
  <2>2. CASE SetRemote(c) BY <2>2 DEF SetRemote
  <2>3. CASE HandlerCloses(c) BY <2>3 DEF HandlerCloses
  <2>4. CASE HandlerEnds(c) BY <2>4 DEF HandlerEnds
  <2>5. QED BY <1>7, <2>1, <2>2, <2>3, <2>4 DEF Handler
<1>8. ASSUME NEW s \in Stops, StopCall(s) PROVE LoopInv'
  <2>1. CASE StopMark(s) BY <2>1 DEF StopMark
  <2>2. CASE StopListener(s) BY <2>2 DEF StopListener
  <2>3. CASE StopPairs(s) BY <2>3 DEF StopPairs
  <2>4. CASE StopWait(s) BY <2>4 DEF StopWait
  <2>5. QED BY <1>8, <2>1, <2>2, <2>3, <2>4 DEF StopCall
<1>9. CASE UNCHANGED vars
  BY <1>9 DEF vars
<1>10. QED
  BY <1>1, <1>2, <1>3, <1>4, <1>5, <1>6, <1>7, <1>8, <1>9 DEF Next, Loop, Handler, StopCall

\* The remote connections.
LEMMA RemoteStep ==
  ASSUME ForwardAssumption, Inv, [Next]_vars
  PROVE  RemoteInv'
<1> USE DEF ForwardAssumption, Inv, TypeOK, genVars, connVars, stopVars, ConnGoes, PairClose,
      Attached, LoopInv, RemoteInv, NoRemoteLeak
<1>1. ASSUME NEW g \in Gens, StartLock(g) PROVE RemoteInv'
  BY <1>1 DEF StartLock
<1>2. ASSUME NEW g \in Gens, StartListen(g) PROVE RemoteInv'
  BY <1>2 DEF StartListen
<1>3. ASSUME NEW g \in Gens, Loop(g) PROVE RemoteInv'
  <2>1. CASE Accept(g) BY <2>1 DEF Accept
  <2>2. CASE AcceptFails(g) BY <2>2 DEF AcceptFails
  <2>3. CASE LoopFails(g) BY <2>3 DEF LoopFails
  <2>4. CASE Admit(g) BY <2>4 DEF Admit
  <2>5. CASE Spawn(g) BY <2>5 DEF Spawn
  <2>6. QED BY <1>3, <2>1, <2>2, <2>3, <2>4, <2>5 DEF Loop
<1>4. ASSUME NEW c \in Conns, NEW g \in Gens, Arrive(c, g) PROVE RemoteInv'
  BY <1>4 DEF Arrive
<1>5. ASSUME NEW c \in Conns, Handshake(c) PROVE RemoteInv'
  BY <1>5 DEF Handshake
<1>6. ASSUME NEW c \in Conns, CopyEnds(c) PROVE RemoteInv'
  BY <1>6 DEF CopyEnds
<1>7. ASSUME NEW c \in Conns, Handler(c) PROVE RemoteInv'
  <2>1. CASE DialReturns(c) BY <2>1 DEF DialReturns
  <2>2. CASE SetRemote(c) BY <2>2 DEF SetRemote
  <2>3. CASE HandlerCloses(c) BY <2>3 DEF HandlerCloses
  <2>4. CASE HandlerEnds(c) BY <2>4 DEF HandlerEnds
  <2>5. QED BY <1>7, <2>1, <2>2, <2>3, <2>4 DEF Handler
<1>8. ASSUME NEW s \in Stops, StopCall(s) PROVE RemoteInv'
  <2>1. CASE StopMark(s) BY <2>1 DEF StopMark
  <2>2. CASE StopListener(s) BY <2>2 DEF StopListener
  <2>3. CASE StopPairs(s) BY <2>3 DEF StopPairs
  <2>4. CASE StopWait(s) BY <2>4 DEF StopWait
  <2>5. QED BY <1>8, <2>1, <2>2, <2>3, <2>4 DEF StopCall
<1>9. CASE UNCHANGED vars
  BY <1>9 DEF vars
<1>10. QED
  BY <1>1, <1>2, <1>3, <1>4, <1>5, <1>6, <1>7, <1>8, <1>9 DEF Next, Loop, Handler, StopCall

-----------------------------------------------------------------------------
\* A handler is counted as one more when it starts, as one less when it ends ...
Counted == {"handshake", "dial", "dialed", "copy", "closing", "unregister"}

LEMMA HandlingIsFinite ==
  ASSUME ForwardAssumption, NEW g \in Gens
  PROVE  IsFiniteSet(Handling(g)) /\ Cardinality(Handling(g)) \in Nat
<1>1. IsFiniteSet(Handling(g))
  BY FS_Subset DEF Handling, ForwardAssumption
<1>2. QED BY <1>1, FS_CardinalityType

LEMMA OneMore ==
  ASSUME ForwardAssumption, TypeOK, NEW c \in Conns, NEW l \in Counted, conn[c] \notin Counted,
         owner[c] \in Gens, conn' = [conn EXCEPT ![c] = l], owner' = owner
  PROVE  /\ Cardinality(Handling(owner[c])') = Cardinality(Handling(owner[c])) + 1
         /\ \A g \in Gens \ {owner[c]} : Handling(g)' = Handling(g)
<1>1. Handling(owner[c])' = Handling(owner[c]) \cup {c} /\ c \notin Handling(owner[c])
  BY DEF Handling, Counted, TypeOK
<1>2. Cardinality(Handling(owner[c])') = Cardinality(Handling(owner[c])) + 1
  BY <1>1, HandlingIsFinite, FS_AddElement
<1>3. \A g \in Gens \ {owner[c]} : Handling(g)' = Handling(g)
  BY DEF Handling, Counted, TypeOK
<1>4. QED BY <1>2, <1>3

LEMMA OneLess ==
  ASSUME ForwardAssumption, TypeOK, NEW c \in Conns, conn[c] \in Counted,
         owner[c] \in Gens, conn' = [conn EXCEPT ![c] = "done"], owner' = owner
  PROVE  /\ Cardinality(Handling(owner[c])') = Cardinality(Handling(owner[c])) - 1
         /\ Cardinality(Handling(owner[c])) >= 1
         /\ \A g \in Gens \ {owner[c]} : Handling(g)' = Handling(g)
<1>1. Handling(owner[c])' = Handling(owner[c]) \ {c} /\ c \in Handling(owner[c])
  BY DEF Handling, Counted, TypeOK
<1>2. Cardinality(Handling(owner[c])') = Cardinality(Handling(owner[c])) - 1
  <2>1. IsFiniteSet(Handling(owner[c]))
    BY HandlingIsFinite
  <2>2. QED BY ONLY <1>1, <2>1, FS_RemoveElement
<1>3. Cardinality(Handling(owner[c])) >= 1
  BY <1>1, HandlingIsFinite, FS_EmptySet
<1>4. \A g \in Gens \ {owner[c]} : Handling(g)' = Handling(g)
  BY DEF Handling, Counted, TypeOK
<1>5. QED BY <1>2, <1>3, <1>4

\* ... and every other step leaves the handlers of each generation.
LEMMA SameHandlers ==
  ASSUME \A c \in Conns : IF conn[c] \in Counted
                          THEN conn'[c] \in Counted /\ owner'[c] = owner[c]
                          ELSE conn'[c] \notin Counted
  PROVE  \A g \in Gens : Handling(g)' = Handling(g)
BY DEF Handling, Counted

\* The wait group counts what it should.
LEMMA CountStep ==
  ASSUME ForwardAssumption, Inv, [Next]_vars
  PROVE  CountInv'
<1> USE DEF ForwardAssumption, Inv, TypeOK, genVars, connVars, stopVars, ConnGoes, PairClose,
      Attached, CountInv, LoopLives
<1>1. ASSUME NEW g \in Gens, StartLock(g) PROVE CountInv'
  <2>1. \A h \in Gens : Handling(h)' = Handling(h)
    BY <1>1, SameHandlers DEF StartLock, Counted
  <2>2. QED BY <1>1, <2>1 DEF StartLock
<1>2. ASSUME NEW g \in Gens, StartListen(g) PROVE CountInv'
  <2>1. \A h \in Gens : Handling(h)' = Handling(h)
    BY <1>2, SameHandlers DEF StartListen, Counted
  <2>2. CASE UNCHANGED <<wg, loop>>
    BY <2>1, <2>2
  <2>3. CASE loop' = [loop EXCEPT ![g] = "accept"] /\ wg' = [wg EXCEPT ![g] = 1]
    <3>1. Handling(g) = {}
      BY <1>2 DEF StartListen, Handling, StartInv, LoopInv
    <3>2. Cardinality(Handling(g)') = 0
      BY <2>1, <3>1, FS_EmptySet
    <3>3. QED BY <2>1, <2>3, <3>2
  <2>4. QED BY <1>2, <2>2, <2>3 DEF StartListen
<1>3. ASSUME NEW g \in Gens, Loop(g) PROVE CountInv'
  <2>1. CASE Accept(g)
    <3>1. \A h \in Gens : Handling(h)' = Handling(h)
      <4>1. PICK c \in Conns : conn[c] = "queued" /\ conn' = [conn EXCEPT ![c] = "hand"]
        BY <2>1 DEF Accept
      <4>2. owner' = owner
        BY <2>1 DEF Accept
      <4>3. QED BY <4>1, <4>2, SameHandlers DEF Counted
    <3>2. QED BY <2>1, <3>1 DEF Accept
  <2>2. CASE AcceptFails(g)
    <3>1. \A h \in Gens : Handling(h)' = Handling(h)
      BY <2>2, SameHandlers DEF AcceptFails, Counted
    <3>2. QED BY <2>2, <3>1 DEF AcceptFails
  <2>3. CASE LoopFails(g)
    <3>1. \A h \in Gens : Handling(h)' = Handling(h)
      BY <2>3, SameHandlers DEF LoopFails, Counted
    <3>2. QED BY <2>3, <3>1, HandlingIsFinite DEF LoopFails
  <2>4. CASE Admit(g)
    <3>1. \A h \in Gens : Handling(h)' = Handling(h)
      <4>1. hand[g] \in Conns /\ conn[hand[g]] = "hand"
        BY <2>4 DEF Admit, LoopInv
      <4>2. PICK l \in {"done",
            "registered"} : conn' = [conn EXCEPT ![hand[g]] = l] /\ owner' = owner
        BY <2>4 DEF Admit
      <4>3. QED BY <4>1, <4>2, SameHandlers DEF Counted
    <3>2. CASE ~running[g]
      BY <2>4, <3>1, <3>2, HandlingIsFinite DEF Admit
    <3>3. CASE running[g]
      BY <2>4, <3>1, <3>3 DEF Admit
    <3>4. QED BY <3>2, <3>3
  <2>5. CASE Spawn(g)
    <3> DEFINE c == hand[g]
    <3>1. c \in Conns /\ conn[c] = "registered" /\ owner[c] = g
      BY <2>5 DEF Spawn, LoopInv
    <3>2. PICK l \in {"handshake", "dial"} : conn' = [conn EXCEPT ![c] = l] /\ owner' = owner
      BY <2>5 DEF Spawn
    <3>3. /\ Cardinality(Handling(g)') = Cardinality(Handling(g)) + 1
          /\ \A h \in Gens \ {g} : Handling(h)' = Handling(h)
      <4>1. l \in Counted /\ conn[c] \notin Counted /\ owner[c] \in Gens
        BY <3>1 DEF Counted
      <4> HIDE DEF c
      <4>2. QED BY <3>1, <3>2, <4>1, OneMore
    <3>4. QED BY <2>5, <3>3, HandlingIsFinite DEF Spawn
  <2>6. QED BY <1>3, <2>1, <2>2, <2>3, <2>4, <2>5 DEF Loop
<1>4. ASSUME NEW c \in Conns, NEW g \in Gens, Arrive(c, g) PROVE CountInv'
  <2>1. \A h \in Gens : Handling(h)' = Handling(h)
    BY <1>4, SameHandlers DEF Arrive, Counted
  <2>2. QED BY <1>4, <2>1 DEF Arrive
<1>5. ASSUME NEW c \in Conns, Handshake(c) PROVE CountInv'
  <2>1. \A h \in Gens : Handling(h)' = Handling(h)
    BY <1>5, SameHandlers DEF Handshake, Counted
  <2>2. QED BY <1>5, <2>1 DEF Handshake
<1>6. ASSUME NEW c \in Conns, CopyEnds(c) PROVE CountInv'
  <2>1. \A h \in Gens : Handling(h)' = Handling(h)
    BY <1>6, SameHandlers DEF CopyEnds, Counted
  <2>2. QED BY <1>6, <2>1 DEF CopyEnds
<1>7. ASSUME NEW c \in Conns, Handler(c) PROVE CountInv'
  <2>1. CASE DialReturns(c)
    <3>1. \A h \in Gens : Handling(h)' = Handling(h)
      BY <2>1, SameHandlers DEF DialReturns, Counted
    <3>2. QED BY <2>1, <3>1 DEF DialReturns
  <2>2. CASE SetRemote(c)
    <3>1. \A h \in Gens : Handling(h)' = Handling(h)
      BY <2>2, SameHandlers DEF SetRemote, Counted
    <3>2. QED BY <2>2, <3>1 DEF SetRemote
  <2>3. CASE HandlerCloses(c)
    <3>1. \A h \in Gens : Handling(h)' = Handling(h)
      BY <2>3, SameHandlers DEF HandlerCloses, Counted
    <3>2. QED BY <2>3, <3>1 DEF HandlerCloses
  <2>4. CASE HandlerEnds(c)
    <3> DEFINE g == owner[c]
    <3>1. g \in Gens /\ conn[c] \in Counted
      BY <2>4 DEF HandlerEnds, LoopInv, Counted
    <3>2. /\ Cardinality(Handling(g)') = Cardinality(Handling(g)) - 1
          /\ Cardinality(Handling(g)) >= 1
          /\ \A h \in Gens \ {g} : Handling(h)' = Handling(h)
      BY <2>4, <3>1, OneLess DEF HandlerEnds
    <3>3. QED BY <2>4, <3>1, <3>2, HandlingIsFinite DEF HandlerEnds
  <2>5. QED BY <1>7, <2>1, <2>2, <2>3, <2>4 DEF Handler
<1>8. ASSUME NEW s \in Stops, StopCall(s) PROVE CountInv'
  <2>1. CASE StopMark(s)
    <3>1. \A h \in Gens : Handling(h)' = Handling(h)
      BY <2>1, SameHandlers DEF StopMark, Counted
    <3>2. QED BY <2>1, <3>1 DEF StopMark
  <2>2. CASE StopListener(s)
    <3>1. \A h \in Gens : Handling(h)' = Handling(h)
      BY <2>2, SameHandlers DEF StopListener, Counted
    <3>2. QED BY <2>2, <3>1 DEF StopListener
  <2>3. CASE StopPairs(s)
    <3>1. \A h \in Gens : Handling(h)' = Handling(h)
      BY <2>3, SameHandlers DEF StopPairs, Counted
    <3>2. QED BY <2>3, <3>1 DEF StopPairs
  <2>4. CASE StopWait(s)
    <3>1. \A h \in Gens : Handling(h)' = Handling(h)
      BY <2>4, SameHandlers DEF StopWait, Counted
    <3>2. QED BY <2>4, <3>1 DEF StopWait
  <2>5. QED BY <1>8, <2>1, <2>2, <2>3, <2>4 DEF StopCall
<1>9. CASE UNCHANGED vars
  BY <1>9 DEF vars, Handling
<1>10. QED
  BY <1>1, <1>2, <1>3, <1>4, <1>5, <1>6, <1>7, <1>8, <1>9 DEF Next, Loop, Handler, StopCall

\* Closing a pair keeps the types of what it changes.
LEMMA PairCloseType ==
  ASSUME TypeOK, NEW c \in Conns, PairClose(c)
  PROVE  pairClosed' \in [Conns -> BOOLEAN] /\ remote' \in [Conns -> {"none", "open", "closed"}]
<1>1. pairClosed' \in [Conns -> BOOLEAN]
  BY DEF TypeOK, PairClose
<1>2. remote' \in [Conns -> {"none", "open", "closed"}]
  <2>1. PICK r \in {"none", "open", "closed"} : remote' = [remote EXCEPT ![c] = r]
    BY DEF TypeOK, PairClose
  <2>2. QED BY <2>1 DEF TypeOK
<1>3. QED BY <1>1, <1>2

\* The types; the wait group never goes below zero, as it counts what there is.
LEMMA TypeStep ==
  ASSUME ForwardAssumption, Inv, [Next]_vars
  PROVE  TypeOK'
<1> USE DEF ForwardAssumption, Inv, TypeOK, genVars, connVars, stopVars, ConnGoes, PairClose,
      Attached
<1>1. ASSUME NEW g \in Gens, StartLock(g) PROVE TypeOK'
  BY <1>1 DEF StartLock
<1>2. ASSUME NEW g \in Gens, StartListen(g) PROVE TypeOK'
  <2>1. PICK l \in {"refused", "started"} : start' = [start EXCEPT ![g] = l]
    BY <1>2 DEF StartListen
  <2>2. CASE UNCHANGED <<current, running, listener, loop, wg>>
    BY <1>2, <2>1, <2>2 DEF StartListen
  <2>3. CASE /\ current' = g
             /\ running' = [running EXCEPT ![g] = TRUE]
             /\ listener' = [listener EXCEPT ![g] = "open"]
             /\ loop' = [loop EXCEPT ![g] = "accept"]
             /\ wg' = [wg EXCEPT ![g] = 1]
    <3>1. mu' = None /\ UNCHANGED <<hand, conns, connVars, stopVars>>
      BY <1>2 DEF StartListen
    <3>2. QED BY <2>1, <2>3, <3>1
  <2>4. QED BY <1>2, <2>2, <2>3 DEF StartListen
<1>3. ASSUME NEW g \in Gens, Loop(g) PROVE TypeOK'
  <2>1. CASE Accept(g) BY <2>1 DEF Accept
  <2>2. CASE AcceptFails(g) BY <2>2 DEF AcceptFails
  <2>3. CASE LoopFails(g)
    <3>1. wg[g] - 1 \in Nat
      BY <2>3, HandlingIsFinite DEF LoopFails, CountInv, LoopLives
    <3>2. QED BY <2>3, <3>1 DEF LoopFails
  <2>4. CASE Admit(g)
    <3>1. wg' \in [Gens -> Nat]
      <4>1. wg[g] - 1 \in Nat
        BY <2>4, HandlingIsFinite DEF Admit, CountInv, LoopLives
      <4>2. QED BY <2>4, <4>1 DEF Admit
    <3>2. conns' \in [Gens -> SUBSET Conns]
      <4>1. hand[g] \in Conns
        BY <2>4 DEF Admit, LoopInv
      <4>2. conns' = [conns EXCEPT ![g] = @ \cup {hand[g]}] \/ conns' = conns
        BY <2>4 DEF Admit
      <4>3. conns \in [Gens -> SUBSET Conns]
        OBVIOUS
      <4>4. QED BY ONLY <4>1, <4>2, <4>3
    <3>3. pairClosed' \in [Conns -> BOOLEAN] /\ remote' \in [Conns -> {"none", "open",
          "closed"}]
      <4>1. CASE running[g] BY <2>4, <4>1 DEF Admit
      <4>2. CASE ~running[g]
        <5>1. hand[g] \in Conns
          BY <2>4 DEF Admit, LoopInv
        <5>2. PairClose(hand[g])
          BY <2>4, <4>2 DEF Admit
        <5>3. QED BY ONLY TypeOK, <5>1, <5>2, PairCloseType
      <4>3. QED BY <4>1, <4>2
    <3>4. PICK l \in {"exited", "spawn"} : loop' = [loop EXCEPT ![g] = l]
      BY <2>4 DEF Admit
    <3>5. PICK k \in {"done", "registered"} : conn' = [conn EXCEPT ![hand[g]] = k]
      BY <2>4 DEF Admit
    <3>6. UNCHANGED <<mu, current, start, running, listener, hand, owner, stopVars>>
      BY <2>4 DEF Admit
    <3>7. QED BY <3>1, <3>2, <3>3, <3>4, <3>5, <3>6
  <2>5. CASE Spawn(g) BY <2>5 DEF Spawn, LoopInv
  <2>6. QED BY <1>3, <2>1, <2>2, <2>3, <2>4, <2>5 DEF Loop
<1>4. ASSUME NEW c \in Conns, NEW g \in Gens, Arrive(c, g) PROVE TypeOK'
  BY <1>4 DEF Arrive
<1>5. ASSUME NEW c \in Conns, Handshake(c) PROVE TypeOK'
  BY <1>5 DEF Handshake
<1>6. ASSUME NEW c \in Conns, CopyEnds(c) PROVE TypeOK'
  BY <1>6 DEF CopyEnds
<1>7. ASSUME NEW c \in Conns, Handler(c) PROVE TypeOK'
  <2>1. CASE DialReturns(c) BY <2>1 DEF DialReturns
  <2>2. CASE SetRemote(c) BY <2>2 DEF SetRemote
  <2>3. CASE HandlerCloses(c) BY <2>3 DEF HandlerCloses
  <2>4. CASE HandlerEnds(c)
    <3>1. owner[c] \in Gens /\ c \in Handling(owner[c])
      BY <2>4 DEF HandlerEnds, LoopInv, Handling
    <3>2. wg[owner[c]] - 1 \in Nat
      <4>1. Cardinality(Handling(owner[c])) \in Nat /\ Cardinality(Handling(owner[c])) # 0
        BY <3>1, HandlingIsFinite, FS_EmptySet
      <4>2. wg[owner[c]] >= Cardinality(Handling(owner[c]))
        BY <3>1, <4>1 DEF CountInv
      <4>3. QED BY <3>1, <4>1, <4>2
    <3>3. QED BY <2>4, <3>1, <3>2 DEF HandlerEnds
  <2>5. QED BY <1>7, <2>1, <2>2, <2>3, <2>4 DEF Handler
<1>8. ASSUME NEW s \in Stops, StopCall(s) PROVE TypeOK'
  <2>1. CASE StopMark(s)
    <3>1. PICK l \in {"noop", "listener"} : stop' = [stop EXCEPT ![s] = l]
      BY <2>1 DEF StopMark
    <3>2. stopGen' \in [Stops -> Gens \cup {None}] /\ snapshot' \in [Stops -> SUBSET Conns]
      BY <2>1 DEF StopMark, IsRunning
    <3>3. running' \in [Gens -> BOOLEAN]
      BY <2>1 DEF StopMark
    <3>4. UNCHANGED <<mu, current, start, listener, loop, hand, conns, wg, connVars>>
      BY <2>1 DEF StopMark
    <3>5. QED BY <3>1, <3>2, <3>3, <3>4
  <2>2. CASE StopListener(s) BY <2>2 DEF StopListener, StopInv
  <2>3. CASE StopPairs(s)
    <3>1. PICK l \in {"pairs", "wait"} : stop' = [stop EXCEPT ![s] = l]
      BY <2>3 DEF StopPairs
    <3>2. pairClosed' \in [Conns -> BOOLEAN] /\ remote' \in [Conns -> {"none", "open",
          "closed"}]
      <4>1. CASE UNCHANGED <<pairClosed, remote>> BY <4>1
      <4>2. CASE \E c \in snapshot[s] : PairClose(c)
        <5>1. PICK c \in Conns : PairClose(c)
          BY <4>2
        <5>2. QED BY ONLY TypeOK, <5>1, PairCloseType
      <4>3. QED BY <2>3, <4>1, <4>2 DEF StopPairs
    <3>3. snapshot' \in [Stops -> SUBSET Conns]
      BY <2>3 DEF StopPairs
    <3>4. UNCHANGED <<mu, genVars, conn, owner, stopGen>>
      BY <2>3 DEF StopPairs
    <3>5. QED BY <3>1, <3>2, <3>3, <3>4
  <2>4. CASE StopWait(s) BY <2>4 DEF StopWait
  <2>5. QED BY <1>8, <2>1, <2>2, <2>3, <2>4 DEF StopCall
<1>9. CASE UNCHANGED vars
  BY <1>9 DEF vars
<1>10. QED
  BY <1>1, <1>2, <1>3, <1>4, <1>5, <1>6, <1>7, <1>8, <1>9 DEF Next, Loop, Handler, StopCall

\* What a Stop has done; it returns when the group counts nothing.
LEMMA StopStep ==
  ASSUME ForwardAssumption, Inv, [Next]_vars
  PROVE  StopInv'
<1> USE DEF ForwardAssumption, Inv, TypeOK, genVars, connVars, stopVars, ConnGoes, PairClose,
      Attached, StartInv, RunInv, LoopInv, RemoteInv, StopInv, StopIsComplete, IsRunning
<1>1. ASSUME NEW g \in Gens, StartLock(g) PROVE StopInv'
  BY <1>1 DEF StartLock
<1>2. ASSUME NEW g \in Gens, StartListen(g) PROVE StopInv'
  BY <1>2 DEF StartListen
<1>3. ASSUME NEW g \in Gens, Loop(g) PROVE StopInv'
  <2>1. CASE Accept(g) BY <2>1 DEF Accept
  <2>2. CASE AcceptFails(g) BY <2>2 DEF AcceptFails
  <2>3. CASE LoopFails(g) BY <2>3 DEF LoopFails
  <2>4. CASE Admit(g) BY <2>4 DEF Admit
  <2>5. CASE Spawn(g) BY <2>5 DEF Spawn
  <2>6. QED BY <1>3, <2>1, <2>2, <2>3, <2>4, <2>5 DEF Loop
<1>4. ASSUME NEW c \in Conns, NEW g \in Gens, Arrive(c, g) PROVE StopInv'
  BY <1>4 DEF Arrive
<1>5. ASSUME NEW c \in Conns, Handshake(c) PROVE StopInv'
  BY <1>5 DEF Handshake
<1>6. ASSUME NEW c \in Conns, CopyEnds(c) PROVE StopInv'
  BY <1>6 DEF CopyEnds
<1>7. ASSUME NEW c \in Conns, Handler(c) PROVE StopInv'
  <2>1. CASE DialReturns(c) BY <2>1 DEF DialReturns
  <2>2. CASE SetRemote(c) BY <2>2 DEF SetRemote
  <2>3. CASE HandlerCloses(c) BY <2>3 DEF HandlerCloses
  <2>4. CASE HandlerEnds(c) BY <2>4 DEF HandlerEnds
  <2>5. QED BY <1>7, <2>1, <2>2, <2>3, <2>4 DEF Handler
<1>8. ASSUME NEW s \in Stops, StopCall(s) PROVE StopInv'
  <2>1. CASE StopMark(s) BY <2>1 DEF StopMark
  <2>2. CASE StopListener(s) BY <2>2 DEF StopListener
  <2>3. CASE StopPairs(s) BY <2>3 DEF StopPairs
  <2>4. CASE StopWait(s)
    <3> DEFINE g == stopGen[s]
    <3>1. /\ g \in Gens /\ start[g] = "started" /\ ~running[g] /\ listener[g] = "closed"
          /\ wg[g] = 0 /\ stop' = [stop EXCEPT ![s] = "done"]
          /\ UNCHANGED <<genVars, connVars, stopGen>>
      BY <2>4 DEF StopWait, StopInv
    <3>2. Cardinality(Handling(g)) = 0 /\ ~LoopLives(g)
      BY <3>1, HandlingIsFinite DEF CountInv
    <3>3. Handling(g) = {}
      BY <3>1, <3>2, HandlingIsFinite, FS_EmptySet
    <3>4. loop[g] = "exited"
      BY <3>1, <3>2 DEF StartInv, LoopLives
    <3>5. \A c \in Conns : owner[c] = g => conn[c] = "done" /\ remote[c] # "open"
      <4> SUFFICES ASSUME NEW c \in Conns, owner[c] = g PROVE conn[c] = "done"
        BY DEF RemoteInv
      <4>1. conn[c] # "idle"
        BY <3>1 DEF LoopInv
      <4>2. conn[c] \notin {"queued", "hand", "registered"}
        BY <3>1, <3>4 DEF LoopInv
      <4>3. QED BY <3>3, <4>1, <4>2 DEF Handling
    <3>6. QED BY <3>1, <3>4, <3>5 DEF StopInv, StopIsComplete
  <2>5. QED BY <1>8, <2>1, <2>2, <2>3, <2>4 DEF StopCall
<1>9. CASE UNCHANGED vars
  BY <1>9 DEF vars
<1>10. QED
  BY <1>1, <1>2, <1>3, <1>4, <1>5, <1>6, <1>7, <1>8, <1>9 DEF Next, Loop, Handler, StopCall

-----------------------------------------------------------------------------
\* The inductive invariant: a generation owns its listener, its loop, and the handlers
\* that its wait group counts.
THEOREM InvCorrect == Spec => []Inv
<1>1. Init => Inv
  <2> SUFFICES ASSUME Init PROVE Inv
    OBVIOUS
  <2> USE ForwardAssumption DEF ForwardAssumption, Init
  <2>1. TypeOK
    BY DEF TypeOK
  <2>2. StartInv /\ RunInv /\ LoopInv
    BY DEF StartInv, RunInv, RunningIsServed, LoopInv
  <2>3. CountInv
    <3>1. \A g \in Gens : Handling(g) = {}
      BY DEF Handling
    <3>2. \A g \in Gens : Cardinality(Handling(g)) = 0
      BY <3>1, FS_EmptySet
    <3>3. QED BY <3>2 DEF CountInv, LoopLives
  <2>4. RemoteInv /\ StopInv
    BY DEF RemoteInv, NoRemoteLeak, StopInv, StopIsComplete
  <2>5. QED BY <2>1, <2>2, <2>3, <2>4 DEF Inv
<1>2. Inv /\ [Next]_vars => Inv'
  BY ForwardAssumption, TypeStep, StartStep, RunStep, LoopStep, CountStep, RemoteStep, StopStep
     DEF Inv
<1>3. QED
  BY <1>1, <1>2, PTL DEF Spec

\* manager.go Stop: when it returns, the listener is closed, the accept loop over, and
\* every connection of the forward closed on both sides, whatever arrived, was accepted
\* or dialled while it ran.
THEOREM StopsAreComplete == Spec => []StopIsComplete
<1>1. Inv => StopIsComplete
  BY DEF Inv, StopInv
<1>2. QED
  BY <1>1, InvCorrect, PTL

\* manager.go setRemote and connectionPair.close: no remote connection outlives its pair.
THEOREM RemotesAreClosed == Spec => []NoRemoteLeak
<1>1. Inv => NoRemoteLeak
  BY DEF Inv, RemoteInv
<1>2. QED
  BY <1>1, InvCorrect, PTL

\* manager.go Status: a forward reported as running has an open listener and a loop.
THEOREM RunningMeansServed == Spec => []RunningIsServed
<1>1. Inv => RunningIsServed
  BY DEF Inv, RunInv
<1>2. QED
  BY <1>1, InvCorrect, PTL
=============================================================================
