-------------------------- MODULE ProcManagerProofs --------------------------
(***************************************************************************)
(* No child of the session is lost, none runs twice, and what was persisted *)
(* is found again, for any number of calls, crashes and recoveries.        *)
(***************************************************************************)
EXTENDS ProcManager, TLAPS

\* Runs, their PIDs and the lock.
LEMMA RunStep ==
  ASSUME ProcAssumption, Inv, [Next]_vars
  PROVE  RunInv'
<1> USE DEF ProcAssumption, Inv, TypeOK, memory, system, runs, stops, recov, Child,
      Dead, Alive, Write, Available, Running, Kill, StopOpen, RecoverOpen, RunInv,
      SavedRisk
<1>1. ASSUME NEW r \in Runs, StartRead(r) PROVE RunInv'
  BY <1>1 DEF StartRead
<1>2. ASSUME NEW r \in Runs, StartSpawn(r) PROVE RunInv'
  BY <1>2 DEF StartSpawn
<1>3. ASSUME NEW r \in Runs, StartSave(r) PROVE RunInv'
  BY <1>3 DEF StartSave
<1>4. ASSUME NEW r \in Runs, ProcessExits(r) PROVE RunInv'
  BY <1>4 DEF ProcessExits
<1>5. ASSUME NEW r \in Runs, WaitReaps(r) PROVE RunInv'
  BY <1>5 DEF WaitReaps
<1>6. ASSUME NEW r \in Runs, WaitCleans(r) PROVE RunInv'
  BY <1>6 DEF WaitCleans
<1>7. ASSUME NEW p \in Pids, PidTaken(p) PROVE RunInv'
  BY <1>7 DEF PidTaken
<1>8. ASSUME NEW p \in Pids, StrangerExits(p) PROVE RunInv'
  BY <1>8 DEF StrangerExits
<1>9. ASSUME NEW s \in Stops, StopRead(s) PROVE RunInv'
  BY <1>9 DEF StopRead
<1>10. ASSUME NEW s \in Stops, StopKill(s) PROVE RunInv'
  BY <1>10 DEF StopKill
<1>11. ASSUME NEW s \in Stops, StopUntrack(s) PROVE RunInv'
  BY <1>11 DEF StopUntrack
<1>12. ASSUME NEW s \in Stops, StopRemove(s) PROVE RunInv'
  BY <1>12 DEF StopRemove
<1>13. ASSUME NEW s \in Stops, DeleteProcess(s) PROVE RunInv'
  BY <1>13 DEF DeleteProcess
<1>14. ASSUME NEW s \in Stops, ImportConfig(s) PROVE RunInv'
  BY <1>14 DEF ImportConfig
<1>15. ASSUME NEW c \in Recoveries, RecoverLoad(c) PROVE RunInv'
  BY <1>15 DEF RecoverLoad
<1>16. ASSUME NEW c \in Recoveries, RecoverCheck(c) PROVE RunInv'
  BY <1>16 DEF RecoverCheck
<1>17. ASSUME NEW c \in Recoveries, RecoverRemove(c) PROVE RunInv'
  BY <1>17 DEF RecoverRemove
<1>18. ASSUME NEW c \in Recoveries, RecoverAdopt(c) PROVE RunInv'
  BY <1>18 DEF RecoverAdopt
<1>19. CASE Crash
  BY <1>19 DEF Crash
<1>20. CASE Restart
  BY <1>20 DEF Restart
<1>21. CASE UNCHANGED vars
  BY <1>21 DEF vars
<1>22. QED
  BY ONLY <1>1, <1>2, <1>3, <1>4, <1>5, <1>6, <1>7, <1>8, <1>9, <1>10, <1>11, <1>12,
     <1>13, <1>14, <1>15, <1>16, <1>17, <1>18, <1>19, <1>20, <1>21,
     [Next]_vars DEF Next, Waiter, StopCall, Recover

\* The record, and what Stop and recovery hold.
LEMMA TrackStep ==
  ASSUME ProcAssumption, Inv, [Next]_vars
  PROVE  TrackInv'
<1> USE DEF ProcAssumption, Inv, TypeOK, memory, system, runs, stops, recov, Child,
      Dead, Alive, Write, Available, Running, Kill, StopOpen, RecoverOpen, RunInv,
      TrackInv
<1>1. ASSUME NEW r \in Runs, StartRead(r) PROVE TrackInv'
  BY <1>1 DEF StartRead
<1>2. ASSUME NEW r \in Runs, StartSpawn(r) PROVE TrackInv'
  BY <1>2 DEF StartSpawn
<1>3. ASSUME NEW r \in Runs, StartSave(r) PROVE TrackInv'
  BY <1>3 DEF StartSave
<1>4. ASSUME NEW r \in Runs, ProcessExits(r) PROVE TrackInv'
  BY <1>4 DEF ProcessExits
<1>5. ASSUME NEW r \in Runs, WaitReaps(r) PROVE TrackInv'
  BY <1>5 DEF WaitReaps
<1>6. ASSUME NEW r \in Runs, WaitCleans(r) PROVE TrackInv'
  BY <1>6 DEF WaitCleans
<1>7. ASSUME NEW p \in Pids, PidTaken(p) PROVE TrackInv'
  BY <1>7 DEF PidTaken
<1>8. ASSUME NEW p \in Pids, StrangerExits(p) PROVE TrackInv'
  BY <1>8 DEF StrangerExits
<1>9. ASSUME NEW s \in Stops, StopRead(s) PROVE TrackInv'
  BY <1>9 DEF StopRead
<1>10. ASSUME NEW s \in Stops, StopKill(s) PROVE TrackInv'
  BY <1>10 DEF StopKill
<1>11. ASSUME NEW s \in Stops, StopUntrack(s) PROVE TrackInv'
  BY <1>11 DEF StopUntrack
<1>12. ASSUME NEW s \in Stops, StopRemove(s) PROVE TrackInv'
  BY <1>12 DEF StopRemove
<1>13. ASSUME NEW s \in Stops, DeleteProcess(s) PROVE TrackInv'
  BY <1>13 DEF DeleteProcess
<1>14. ASSUME NEW s \in Stops, ImportConfig(s) PROVE TrackInv'
  BY <1>14 DEF ImportConfig
<1>15. ASSUME NEW c \in Recoveries, RecoverLoad(c) PROVE TrackInv'
  BY <1>15 DEF RecoverLoad
<1>16. ASSUME NEW c \in Recoveries, RecoverCheck(c) PROVE TrackInv'
  BY <1>16 DEF RecoverCheck
<1>17. ASSUME NEW c \in Recoveries, RecoverRemove(c) PROVE TrackInv'
  BY <1>17 DEF RecoverRemove
<1>18. ASSUME NEW c \in Recoveries, RecoverAdopt(c) PROVE TrackInv'
  BY <1>18 DEF RecoverAdopt
<1>19. CASE Crash
  BY <1>19 DEF Crash
<1>20. CASE Restart
  BY <1>20 DEF Restart
<1>21. CASE UNCHANGED vars
  BY <1>21 DEF vars
<1>22. QED
  BY ONLY <1>1, <1>2, <1>3, <1>4, <1>5, <1>6, <1>7, <1>8, <1>9, <1>10, <1>11, <1>12,
     <1>13, <1>14, <1>15, <1>16, <1>17, <1>18, <1>19, <1>20, <1>21,
     [Next]_vars DEF Next, Waiter, StopCall, Recover

\* What a Stop is about to untrack is not a later process.
LEMMA UntrackStep ==
  ASSUME ProcAssumption, Inv, [Next]_vars
  PROVE  UntrackInv'
<1> USE DEF ProcAssumption, Inv, TypeOK, memory, system, runs, stops, recov, Child,
      Dead, Alive, Write, Available, Running, Kill, StopOpen, RecoverOpen, RunInv,
      TrackInv, UntrackInv, SavedRisk
<1>1. ASSUME NEW r \in Runs, StartRead(r) PROVE UntrackInv'
  BY <1>1 DEF StartRead
<1>2. ASSUME NEW r \in Runs, StartSpawn(r) PROVE UntrackInv'
  BY <1>2 DEF StartSpawn
<1>3. ASSUME NEW r \in Runs, StartSave(r) PROVE UntrackInv'
  BY <1>3 DEF StartSave
<1>4. ASSUME NEW r \in Runs, ProcessExits(r) PROVE UntrackInv'
  BY <1>4 DEF ProcessExits
<1>5. ASSUME NEW r \in Runs, WaitReaps(r) PROVE UntrackInv'
  BY <1>5 DEF WaitReaps
<1>6. ASSUME NEW r \in Runs, WaitCleans(r) PROVE UntrackInv'
  BY <1>6 DEF WaitCleans
<1>7. ASSUME NEW p \in Pids, PidTaken(p) PROVE UntrackInv'
  BY <1>7 DEF PidTaken
<1>8. ASSUME NEW p \in Pids, StrangerExits(p) PROVE UntrackInv'
  BY <1>8 DEF StrangerExits
<1>9. ASSUME NEW s \in Stops, StopRead(s) PROVE UntrackInv'
  BY <1>9 DEF StopRead
<1>10. ASSUME NEW s \in Stops, StopKill(s) PROVE UntrackInv'
  BY <1>10 DEF StopKill
<1>11. ASSUME NEW s \in Stops, StopUntrack(s) PROVE UntrackInv'
  BY <1>11 DEF StopUntrack
<1>12. ASSUME NEW s \in Stops, StopRemove(s) PROVE UntrackInv'
  BY <1>12 DEF StopRemove
<1>13. ASSUME NEW s \in Stops, DeleteProcess(s) PROVE UntrackInv'
  BY <1>13 DEF DeleteProcess
<1>14. ASSUME NEW s \in Stops, ImportConfig(s) PROVE UntrackInv'
  BY <1>14 DEF ImportConfig
<1>15. ASSUME NEW c \in Recoveries, RecoverLoad(c) PROVE UntrackInv'
  BY <1>15 DEF RecoverLoad
<1>16. ASSUME NEW c \in Recoveries, RecoverCheck(c) PROVE UntrackInv'
  BY <1>16 DEF RecoverCheck
<1>17. ASSUME NEW c \in Recoveries, RecoverRemove(c) PROVE UntrackInv'
  BY <1>17 DEF RecoverRemove
<1>18. ASSUME NEW c \in Recoveries, RecoverAdopt(c) PROVE UntrackInv'
  BY <1>18 DEF RecoverAdopt
<1>19. CASE Crash
  BY <1>19 DEF Crash
<1>20. CASE Restart
  BY <1>20 DEF Restart
<1>21. CASE UNCHANGED vars
  BY <1>21 DEF vars
<1>22. QED
  BY ONLY <1>1, <1>2, <1>3, <1>4, <1>5, <1>6, <1>7, <1>8, <1>9, <1>10, <1>11, <1>12,
     <1>13, <1>14, <1>15, <1>16, <1>17, <1>18, <1>19, <1>20, <1>21,
     [Next]_vars DEF Next, Waiter, StopCall, Recover

\* The saved child.
LEMMA ChildStep ==
  ASSUME ProcAssumption, Inv, [Next]_vars
  PROVE  ChildInv'
<1> USE DEF ProcAssumption, Inv, TypeOK, memory, system, runs, stops, recov, Child,
      Dead, Alive, Write, Available, Running, Kill, StopOpen, RecoverOpen, RunInv,
      TrackInv, UntrackInv, ChildInv, SavedRisk
<1>1. ASSUME NEW r \in Runs, StartRead(r) PROVE ChildInv'
  BY <1>1 DEF StartRead
<1>2. ASSUME NEW r \in Runs, StartSpawn(r) PROVE ChildInv'
  BY <1>2 DEF StartSpawn
<1>3. ASSUME NEW r \in Runs, StartSave(r) PROVE ChildInv'
  <2> SUFFICES ASSUME NEW q \in Runs, Child(q)', Running(q)',
                      ({"unsaved", "recovery", "pid"} \cap risk[q] = {})'
               PROVE  /\ trackedPid' = pid'[q] /\ trackedRun' \in {None, q}
                      /\ file' \in {None, pid'[q]}
                      /\ \A c \in Recoveries : RecoverOpen(c)' => snap'[c] = pid'[q]
    BY DEF ChildInv
  <2>0. /\ UNCHANGED <<trackedPid, trackedRun, os, killed, pid, rec, snap>>
        /\ trackedRun = r /\ trackedPid = pid[r] /\ run[r] = "saving"
        /\ file' \in {pid[r], file}
    BY <1>3 DEF StartSave
  <2>1. CASE q = r
    <3>1. risk'[r] = SavedRisk \cup
                       (IF file' = pid[r] THEN risk[r] \ {"unsaved"} ELSE risk[r])
      BY <1>3 DEF StartSave
    <3>2. file' = pid[r]
      <4>1. "unsaved" \in risk[r]
        BY <2>0, <2>1
      <4>2. QED BY <2>1, <3>1, <4>1
    <3>3. \A c \in Recoveries : ~RecoverOpen(c)
      <4>1. "recovery" \notin SavedRisk
        BY <2>1, <3>1
      <4>2. QED BY ONLY <4>1 DEF SavedRisk
    <3>4. \A c \in Recoveries : ~RecoverOpen(c)'
      BY <2>0, <3>3
    <3>5. QED BY <2>0, <2>1, <3>2, <3>4
  <2>2. CASE q # r
    <3>1. run'[q] = run[q] /\ risk'[q] = risk[q]
      BY <1>3, <2>2 DEF StartSave
    <3>2. trackedRun \in {None, q}
      BY <2>0, <3>1
    <3>3. QED BY <2>0, <2>2, <3>2
  <2>3. QED BY <2>1, <2>2
<1>4. ASSUME NEW r \in Runs, ProcessExits(r) PROVE ChildInv'
  BY <1>4 DEF ProcessExits
<1>5. ASSUME NEW r \in Runs, WaitReaps(r) PROVE ChildInv'
  BY <1>5 DEF WaitReaps
<1>6. ASSUME NEW r \in Runs, WaitCleans(r) PROVE ChildInv'
  BY <1>6 DEF WaitCleans
<1>7. ASSUME NEW p \in Pids, PidTaken(p) PROVE ChildInv'
  BY <1>7 DEF PidTaken
<1>8. ASSUME NEW p \in Pids, StrangerExits(p) PROVE ChildInv'
  BY <1>8 DEF StrangerExits
<1>9. ASSUME NEW s \in Stops, StopRead(s) PROVE ChildInv'
  BY <1>9 DEF StopRead
<1>10. ASSUME NEW s \in Stops, StopKill(s) PROVE ChildInv'
  BY <1>10 DEF StopKill
<1>11. ASSUME NEW s \in Stops, StopUntrack(s) PROVE ChildInv'
  BY <1>11 DEF StopUntrack
<1>12. ASSUME NEW s \in Stops, StopRemove(s) PROVE ChildInv'
  BY <1>12 DEF StopRemove
<1>13. ASSUME NEW s \in Stops, DeleteProcess(s) PROVE ChildInv'
  BY <1>13 DEF DeleteProcess
<1>14. ASSUME NEW s \in Stops, ImportConfig(s) PROVE ChildInv'
  BY <1>14 DEF ImportConfig
<1>15. ASSUME NEW c \in Recoveries, RecoverLoad(c) PROVE ChildInv'
  BY <1>15 DEF RecoverLoad
<1>16. ASSUME NEW c \in Recoveries, RecoverCheck(c) PROVE ChildInv'
  BY <1>16 DEF RecoverCheck
<1>17. ASSUME NEW c \in Recoveries, RecoverRemove(c) PROVE ChildInv'
  BY <1>17 DEF RecoverRemove
<1>18. ASSUME NEW c \in Recoveries, RecoverAdopt(c) PROVE ChildInv'
  BY <1>18 DEF RecoverAdopt
<1>19. CASE Crash
  BY <1>19 DEF Crash
<1>20. CASE Restart
  BY <1>20 DEF Restart
<1>21. CASE UNCHANGED vars
  BY <1>21 DEF vars
<1>22. QED
  BY ONLY <1>1, <1>2, <1>3, <1>4, <1>5, <1>6, <1>7, <1>8, <1>9, <1>10, <1>11, <1>12,
     <1>13, <1>14, <1>15, <1>16, <1>17, <1>18, <1>19, <1>20, <1>21,
     [Next]_vars DEF Next, Waiter, StopCall, Recover

\* The entry of a process at no risk.
LEMMA PersistStep ==
  ASSUME ProcAssumption, Inv, [Next]_vars
  PROVE  PersistInv'
<1> USE DEF ProcAssumption, Inv, TypeOK, memory, system, runs, stops, recov, Child,
      Dead, Alive, Write, Available, Running, Kill, StopOpen, RecoverOpen, RunInv,
      TrackInv, PersistInv, SavedRisk
<1>1. ASSUME NEW r \in Runs, StartRead(r) PROVE PersistInv'
  BY <1>1 DEF StartRead
<1>2. ASSUME NEW r \in Runs, StartSpawn(r) PROVE PersistInv'
  <2>1. CASE run' = [run EXCEPT ![r] = "refused"] /\ UNCHANGED <<memory, os, pid, risk>>
    BY <1>2, <2>1 DEF StartSpawn
  <2>2. CASE trackedPid = None /\ run' = [run EXCEPT ![r] = "saving"]
    <3> SUFFICES ASSUME NEW q \in Runs, Running(q)', risk'[q] = {} PROVE FALSE
      BY DEF PersistInv
    <3> PICK p \in Pids : /\ os' = [os EXCEPT ![p] = r] /\ pid' = [pid EXCEPT ![r] = p]
           /\ Available(p)
           /\ risk' = [x \in Runs |->
                IF x = r /\ \E s \in Stops : StopOpen(s) /\ stopPid[s] = p
                THEN risk[x] \cup {"pid"}
                ELSE IF Running(x) /\ pid[x] = file THEN risk[x] \cup {"replaced"}
                ELSE risk[x]]
      BY <1>2, <2>2 DEF StartSpawn
    <3>1. pid[r] = None /\ "unsaved" \in risk[r] /\ ~Running(r)
      BY <1>2 DEF StartSpawn
    <3>2. q # r
      <4>1. "unsaved" \in risk'[r]
        BY <3>1
      <4>2. QED BY <4>1
    <3>3. killed' = killed /\ pid'[q] = pid[q]
      BY <1>2, <3>2 DEF StartSpawn
    <3>4. Running(q)
      BY <3>2, <3>3
    <3>5. risk[q] = {} /\ ~(pid[q] = file)
      BY <3>2, <3>4
    <3>6. QED BY <3>4, <3>5
  <2>3. QED BY <1>2, <2>1, <2>2 DEF StartSpawn
<1>3. ASSUME NEW r \in Runs, StartSave(r) PROVE PersistInv'
  <2>0. /\ UNCHANGED <<trackedPid, trackedRun, os, killed, pid, rec, snap, known>>
        /\ UNCHANGED <<stop, stopPid, configured>>
        /\ trackedRun = r /\ trackedPid = pid[r] /\ run[r] = "saving" /\ pid[r] # None
        /\ run' = [run EXCEPT ![r] = "running"]
    BY <1>3 DEF StartSave
  <2> SUFFICES ASSUME NEW q \in Runs, Running(q)', risk'[q] = {}
               PROVE  /\ configured' /\ file' = pid'[q]
                      /\ trackedPid' \in {None, pid'[q]} /\ trackedRun' \in {None, q}
                      /\ Child(q)' \/ (\E c \in Recoveries : rec'[c] = "done")
                           => trackedPid' = pid'[q]
                      /\ \A c \in Recoveries : RecoverOpen(c)' =>
                           snap'[c] = pid'[q] /\ known'[c] /\ rec'[c] # "remove"
                      /\ \A s \in Stops : StopOpen(s)' =>
                           stop'[s] = "kill" /\ stopPid'[s] = pid'[q]
    BY DEF PersistInv
  <2>1. Running(q)
    BY <2>0
  <2>2. CASE q = r
    <3>1. risk'[r] = SavedRisk \cup
                       (IF file' = pid[r] THEN risk[r] \ {"unsaved"} ELSE risk[r])
      BY <1>3 DEF StartSave
    <3>2. file' = pid[r]
      <4>1. "unsaved" \in risk[r]
        BY <2>0, <2>1, <2>2
      <4>2. QED BY <2>2, <3>1, <4>1
    <3>3. SavedRisk = {}
      BY <2>2, <3>1
    <3>4. /\ \A c \in Recoveries : ~RecoverOpen(c)
          /\ \A s \in Stops : ~StopOpen(s)
          /\ configured
      <4>1. \A c \in Recoveries : ~RecoverOpen(c)
        BY ONLY <3>3 DEF SavedRisk
      <4>2. \A s \in Stops : ~StopOpen(s)
        BY ONLY <3>3 DEF SavedRisk
      <4>3. configured
        BY ONLY <3>3 DEF SavedRisk
      <4>4. QED BY <4>1, <4>2, <4>3
    <3>5. QED BY <2>0, <2>2, <3>2, <3>4
  <2>3. CASE q # r
    <3>1. risk[q] = {}
      BY <1>3, <2>3 DEF StartSave
    <3>2. trackedRun \in {None, q}
      BY <2>1, <3>1
    <3>3. QED BY <2>0, <2>3, <3>2
  <2>4. QED BY <2>2, <2>3
<1>4. ASSUME NEW r \in Runs, ProcessExits(r) PROVE PersistInv'
  BY <1>4 DEF ProcessExits
<1>5. ASSUME NEW r \in Runs, WaitReaps(r) PROVE PersistInv'
  BY <1>5 DEF WaitReaps
<1>6. ASSUME NEW r \in Runs, WaitCleans(r) PROVE PersistInv'
  BY <1>6 DEF WaitCleans
<1>7. ASSUME NEW p \in Pids, PidTaken(p) PROVE PersistInv'
  BY <1>7 DEF PidTaken
<1>8. ASSUME NEW p \in Pids, StrangerExits(p) PROVE PersistInv'
  BY <1>8 DEF StrangerExits
<1>9. ASSUME NEW s \in Stops, StopRead(s) PROVE PersistInv'
  BY <1>9 DEF StopRead
<1>10. ASSUME NEW s \in Stops, StopKill(s) PROVE PersistInv'
  BY <1>10 DEF StopKill
<1>11. ASSUME NEW s \in Stops, StopUntrack(s) PROVE PersistInv'
  BY <1>11 DEF StopUntrack
<1>12. ASSUME NEW s \in Stops, StopRemove(s) PROVE PersistInv'
  BY <1>12 DEF StopRemove
<1>13. ASSUME NEW s \in Stops, DeleteProcess(s) PROVE PersistInv'
  BY <1>13 DEF DeleteProcess
<1>14. ASSUME NEW s \in Stops, ImportConfig(s) PROVE PersistInv'
  <2> SUFFICES ASSUME NEW q \in Runs, Running(q)', risk'[q] = {}
               PROVE  /\ configured' /\ file' = pid'[q]
                      /\ trackedPid' \in {None, pid'[q]} /\ trackedRun' \in {None, q}
                      /\ Child(q)' \/ (\E c \in Recoveries : rec'[c] = "done")
                           => trackedPid' = pid'[q]
                      /\ \A c \in Recoveries : RecoverOpen(c)' =>
                           snap'[c] = pid'[q] /\ known'[c] /\ rec'[c] # "remove"
                      /\ \A x \in Stops : StopOpen(x)' =>
                           stop'[x] = "kill" /\ stopPid'[x] = pid'[q]
    BY DEF PersistInv
  <2>1. /\ UNCHANGED <<memory, file, system, run, pid, stopPid, rec, snap, known>>
        /\ stop' = [stop EXCEPT ![s] = "over"]
        /\ risk' = [r \in Runs |-> IF Running(r) /\ ~configured'
                                   THEN risk[r] \cup {"deleted"} ELSE risk[r]]
    BY <1>14 DEF ImportConfig
  <2>2. Running(q) /\ risk[q] = {} /\ configured'
    BY <2>1
  <2>3. QED BY <2>1, <2>2
<1>15. ASSUME NEW c \in Recoveries, RecoverLoad(c) PROVE PersistInv'
  BY <1>15 DEF RecoverLoad
<1>16. ASSUME NEW c \in Recoveries, RecoverCheck(c) PROVE PersistInv'
  BY <1>16 DEF RecoverCheck
<1>17. ASSUME NEW c \in Recoveries, RecoverRemove(c) PROVE PersistInv'
  BY <1>17 DEF RecoverRemove
<1>18. ASSUME NEW c \in Recoveries, RecoverAdopt(c) PROVE PersistInv'
  BY <1>18 DEF RecoverAdopt
<1>19. CASE Crash
  BY <1>19 DEF Crash
<1>20. CASE Restart
  BY <1>20 DEF Restart
<1>21. CASE UNCHANGED vars
  BY <1>21 DEF vars
<1>22. QED
  BY ONLY <1>1, <1>2, <1>3, <1>4, <1>5, <1>6, <1>7, <1>8, <1>9, <1>10, <1>11, <1>12,
     <1>13, <1>14, <1>15, <1>16, <1>17, <1>18, <1>19, <1>20, <1>21,
     [Next]_vars DEF Next, Waiter, StopCall, Recover

\* The types.
LEMMA TypeStep ==
  ASSUME ProcAssumption, Inv, [Next]_vars
  PROVE  TypeOK'
<1> USE DEF ProcAssumption, Inv, TypeOK, memory, system, runs, stops, recov, Child,
      Dead, Alive, Write, Available, Running, Kill, StopOpen, RecoverOpen, RunInv,
      TrackInv, Risks, SavedRisk
<1>1. ASSUME NEW r \in Runs, StartRead(r) PROVE TypeOK'
  BY <1>1 DEF StartRead
<1>2. ASSUME NEW r \in Runs, StartSpawn(r) PROVE TypeOK'
  BY <1>2 DEF StartSpawn
<1>3. ASSUME NEW r \in Runs, StartSave(r) PROVE TypeOK'
  BY <1>3 DEF StartSave
<1>4. ASSUME NEW r \in Runs, ProcessExits(r) PROVE TypeOK'
  BY <1>4 DEF ProcessExits
<1>5. ASSUME NEW r \in Runs, WaitReaps(r) PROVE TypeOK'
  BY <1>5 DEF WaitReaps
<1>6. ASSUME NEW r \in Runs, WaitCleans(r) PROVE TypeOK'
  BY <1>6 DEF WaitCleans
<1>7. ASSUME NEW p \in Pids, PidTaken(p) PROVE TypeOK'
  BY <1>7 DEF PidTaken
<1>8. ASSUME NEW p \in Pids, StrangerExits(p) PROVE TypeOK'
  BY <1>8 DEF StrangerExits
<1>9. ASSUME NEW s \in Stops, StopRead(s) PROVE TypeOK'
  BY <1>9 DEF StopRead
<1>10. ASSUME NEW s \in Stops, StopKill(s) PROVE TypeOK'
  BY <1>10 DEF StopKill
<1>11. ASSUME NEW s \in Stops, StopUntrack(s) PROVE TypeOK'
  BY <1>11 DEF StopUntrack
<1>12. ASSUME NEW s \in Stops, StopRemove(s) PROVE TypeOK'
  BY <1>12 DEF StopRemove
<1>13. ASSUME NEW s \in Stops, DeleteProcess(s) PROVE TypeOK'
  <2>1. risk' \in [Runs -> SUBSET Risks]
    BY <1>13 DEF DeleteProcess
  <2>2. stop' \in [Stops -> {"idle", "kill", "untrack", "remove", "failed", "done", "cut",
                             "over"}]
    BY <1>13 DEF DeleteProcess
  <2>3. QED BY <1>13, <2>1, <2>2 DEF DeleteProcess
<1>14. ASSUME NEW s \in Stops, ImportConfig(s) PROVE TypeOK'
  BY <1>14 DEF ImportConfig
<1>15. ASSUME NEW c \in Recoveries, RecoverLoad(c) PROVE TypeOK'
  BY <1>15 DEF RecoverLoad
<1>16. ASSUME NEW c \in Recoveries, RecoverCheck(c) PROVE TypeOK'
  BY <1>16 DEF RecoverCheck
<1>17. ASSUME NEW c \in Recoveries, RecoverRemove(c) PROVE TypeOK'
  BY <1>17 DEF RecoverRemove
<1>18. ASSUME NEW c \in Recoveries, RecoverAdopt(c) PROVE TypeOK'
  BY <1>18 DEF RecoverAdopt
<1>19. CASE Crash
  <2>1. os' \in [Pids -> Runs \cup {"free", "zombie", "stranger"}]
    BY <1>19 DEF Crash
  <2>2. run' \in [Runs -> {"new", "read", "refused", "saving", "running", "reaped",
                           "left", "gone"}]
    BY <1>19 DEF Crash
  <2>3. stop' \in [Stops -> {"idle", "kill", "untrack", "remove", "failed", "done", "cut",
                             "over"}]
    BY <1>19 DEF Crash
  <2>4. rec' \in [Recoveries -> {"new", "loaded", "remove", "adopt", "done", "over"}]
    BY <1>19 DEF Crash
  <2>5. QED BY <1>19, <2>1, <2>2, <2>3, <2>4 DEF Crash
<1>20. CASE Restart
  BY <1>20 DEF Restart
<1>21. CASE UNCHANGED vars
  BY <1>21 DEF vars
<1>22. QED
  BY ONLY <1>1, <1>2, <1>3, <1>4, <1>5, <1>6, <1>7, <1>8, <1>9, <1>10, <1>11, <1>12,
     <1>13, <1>14, <1>15, <1>16, <1>17, <1>18, <1>19, <1>20, <1>21,
     [Next]_vars DEF Next, Waiter, StopCall, Recover

-----------------------------------------------------------------------------
\* manager.go Start, Stop, wait and RecoverOnStartup: Inv is inductive, so it holds of
\* every behaviour, over any number of crashes, restarts, recoveries and imports.
THEOREM InvCorrect == Spec => []Inv
<1>1. Init => Inv
  <2> SUFFICES ASSUME Init PROVE Inv
    OBVIOUS
  <2> USE ProcAssumption DEF ProcAssumption, Init, Running, Child, StopOpen, RecoverOpen
  <2>1. TypeOK
    BY DEF TypeOK, Risks
  <2>2. RunInv /\ TrackInv
    BY DEF RunInv, TrackInv
  <2>3. UntrackInv /\ ChildInv /\ PersistInv
    BY DEF UntrackInv, ChildInv, PersistInv
  <2>4. QED BY <2>1, <2>2, <2>3 DEF Inv
<1>2. Inv /\ [Next]_vars => Inv'
  BY ProcAssumption, TypeStep, RunStep, TrackStep, UntrackStep, ChildStep, PersistStep
     DEF Inv
<1>3. QED
  BY <1>1, <1>2, PTL DEF Spec

\* manager.go Start, Stop, wait and RecoverOnStartup: a live child that nobody killed is
\* the tracked one, over deletes, imports, restarts and recoveries, unless a recovery
\* overlapped its Start, its entry was not written, or a Stop had its PID before it.
THEOREM ChildrenAreTracked == Spec => []NoUntrackedChild
<1>1. Inv => NoUntrackedChild
  BY DEF Inv, ChildInv, NoUntrackedChild
<1>2. QED
  BY <1>1, InvCorrect, PTL

\* manager.go Start and RecoverOnStartup: two processes that nobody killed live together
\* only if the entry of one of them was not written, or was lost in an overlap.
THEOREM OneAtATime == Spec => []RunsOnce
<1>1. Inv => RunsOnce
  <2> SUFFICES ASSUME Inv, NEW q \in Runs, NEW r \in Runs, q # r, Running(q), Running(r),
                      risk[q] \cup risk[r] = {}
               PROVE  FALSE
    BY DEF RunsOnce
  <2>1. risk[q] = {} /\ risk[r] = {}
    OBVIOUS
  <2>2. file = pid[q] /\ file = pid[r]
    BY <2>1 DEF Inv, PersistInv
  <2>3. QED BY <2>2 DEF Running
<1>2. QED
  BY <1>1, InvCorrect, PTL

\* manager.go RecoverOnStartup and state.go: a process at no risk that outlived the
\* application is on record as soon as a recovery is through, whatever is started,
\* stopped, recovered and imported meanwhile, and over any number of crashes.
THEOREM PersistedAreFound == Spec => []PersistedIsFound
<1>1. Inv => PersistedIsFound
  BY DEF Inv, PersistInv, PersistedIsFound
<1>2. QED
  BY <1>1, InvCorrect, PTL
=============================================================================
