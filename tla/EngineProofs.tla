---------------------------- MODULE EngineProofs ----------------------------
(* Theorems about Engine, for every set of jobs and every bound.            *)
EXTENDS Engine, TLAPS

USE EraAssumption, BoundAssumption, ConcAssumption
-----------------------------------------------------------------------------
(* Type correctness.  It needs one more fact, RetryBudget: the attempts     *)
(* counter of a worker is bounded by the check made before it backs off.    *)

\* A worker that is about to be retried has an attempt left.
RetryBudget == \A j \in Jobs : stage[j] = "retry" => w[j].try < MaxAttempts

Typed == TypeOK /\ RetryBudget

LEMMA CommitTyped ==
  ASSUME TypeInner, TypeWorker, NEW j \in Jobs, NEW k \in Ids, Commit(j, k)
  PROVE  /\ id' \in [Jobs -> Ids] /\ idEra' \in [Jobs -> Eras]
         /\ saving' \subseteq Jobs
<1>1. w[j].era \in Eras
  BY DEF TypeWorker, WorkerLocals
<1>2. id \in [Jobs -> Ids] /\ idEra \in [Jobs -> Eras]
  BY DEF TypeInner
<1>3. saving \subseteq Jobs
  BY DEF TypeWorker
<1> QED
  BY <1>1, <1>2, <1>3 DEF Commit

LEMMA SnapshotTyped ==
  ASSUME TypeInner PROVE Snapshot \in [Jobs -> Rows \cup {NoRow}]
  BY DEF TypeInner, Snapshot, Rows, Present, Gone

\* What the locals of a worker may be, told apart from the rest of the types.
LEMMA LocalsTyped ==
  ASSUME TypeWorker, NEW j \in Jobs
  PROVE  /\ w[j].id \in Ids /\ w[j].era \in Eras /\ w[j].res \in Results
         /\ w[j].try \in 0 .. MaxAttempts
  BY DEF TypeWorker, WorkerLocals

LEMMA InnerStep ==
  ASSUME TypeInner, TypeWorker, TypeFiles, [Next]_vars
  PROVE  TypeInner'
<1> USE DEF Ids, Maps, JobState
<1>1. ASSUME UNCHANGED inner PROVE TypeInner'
  BY <1>1 DEF TypeInner, inner
<1>2. ASSUME NEW j \in Jobs, Add(j) PROVE TypeInner'
  BY <1>2 DEF TypeInner, Add, Begin, ident
<1>3. ASSUME NEW j \in Jobs, Pause(j) PROVE TypeInner'
  BY <1>3 DEF TypeInner, Pause, BeginOn, Begin, Tell, Controls, ident
<1>4. ASSUME NEW j \in Jobs, Resume(j) PROVE TypeInner'
  BY <1>4 DEF TypeInner, Resume, BeginOn, Begin, Requeued, Tell, Controls, ident
<1>5. ASSUME NEW j \in Jobs, Retry(j) PROVE TypeInner'
  BY <1>5 DEF TypeInner, Retry, BeginOn, Begin, Requeued, ident
<1>6. ASSUME NEW j \in Jobs, Restart(j) PROVE TypeInner'
  BY <1>6 DEF TypeInner, Restart, BeginOn, Begin, Tell, Controls, Wipe, Eras, ident
<1>7. ASSUME NEW j \in Jobs, NEW d \in BOOLEAN, Cancel(j, d) PROVE TypeInner'
  <2>1. UNCHANGED <<active, requeue, pendingFinal, maxc, produced>>
    BY <1>7 DEF Cancel, BeginOn, Begin
  <2>2. st' \in [Jobs -> JobState \cup Gone] /\ control' \in [Jobs -> Controls]
    BY <1>7 DEF TypeInner, Cancel, Tell, Controls
  <2>3. pendingPart' \subseteq Jobs /\ auth' \subseteq Jobs
    <3>1. pendingPart \subseteq Jobs /\ auth \subseteq Jobs
      BY DEF TypeInner
    <3>2. pendingPart' \in {pendingPart, pendingPart \cup {j}} /\ auth' \in {auth, auth \ {j}}
      BY <1>7 DEF Cancel
    <3> QED
      BY <3>1, <3>2
  <2>4. Wipe(j) \/ UNCHANGED ident
    BY <1>7 DEF Cancel
  <2>5. id' \in [Jobs -> Ids] /\ idEra' \in [Jobs -> Eras] /\ era' \in [Jobs -> Eras]
    BY <2>4 DEF TypeInner, Wipe, Eras, ident
  <2> QED
    BY <2>1, <2>2, <2>3, <2>5 DEF TypeInner
<1>8. ASSUME NEW j \in Jobs, NEW p \in BOOLEAN, NEW f \in BOOLEAN, Remove(j, p, f)
      PROVE  TypeInner'
  BY <1>8 DEF TypeInner, Remove, BeginOn, Begin, Tell, Controls, Gone, ident
<1>9. ASSUME PauseAll \/ Drain PROVE TypeInner'
  BY <1>9 DEF TypeInner, PauseAll, Drain, Begin, Tell, Unqueue, Controls, ident
<1>10. ASSUME ResumeAll \/ RetryAll PROVE TypeInner'
  BY <1>10 DEF TypeInner, ResumeAll, RetryAll, Revive, Begin, Requeued, ident
<1>11. ASSUME NEW n \in 1 .. MaxConc, UpdateSettings(n) PROVE TypeInner'
  BY <1>11 DEF TypeInner, UpdateSettings, Begin, ident
<1>12. ASSUME CmdUnblock PROVE TypeInner'
  BY <1>12 DEF TypeInner, CmdUnblock, ident
<1>13. ASSUME SchedScan PROVE TypeInner'
  BY <1>13 DEF TypeInner, SchedScan, Startable, ident, flags
<1>14. ASSUME NEW j \in Jobs, Stat(j) \/ RetryLater(j) PROVE TypeInner'
  BY <1>14 DEF TypeInner, Stat, RetryLater, ident, flags
<1>15. ASSUME NEW j \in Jobs, KickStore(j) PROVE TypeInner'
  BY <1>15 DEF TypeInner, KickStore, Controls, ident, flags
<1>16. ASSUME NEW j \in Jobs, NEW k \in Ids, Commit(j, k), CommitFrame PROVE TypeInner'
  BY <1>16, CommitTyped DEF TypeInner, CommitFrame, flags
<1>17. ASSUME NEW j \in Jobs,
              Plan(j) \/ StartFails(j) \/ Fallback(j) \/ XferStop(j) \/ XferFails(j)
                \/ CommitFinal(j)
       PROVE  TypeInner'
  <2>1. CommitFrame /\ (UNCHANGED <<id, idEra>> \/ \E k \in Ids : Commit(j, k))
    BY <1>17, LocalsTyped DEF Plan, StartFails, Fallback, XferStop, XferFails, CommitFinal
  <2> QED
    BY <2>1, <1>16 DEF TypeInner, CommitFrame, flags
<1>18. ASSUME NEW j \in Jobs, Rename(j) \/ Unlink(j) PROVE TypeInner'
  BY <1>18, LocalsTyped DEF TypeInner, Rename, Unlink, ident
<1>19. ASSUME NEW j \in Jobs, Finalize(j) PROVE TypeInner'
  BY <1>19, LocalsTyped DEF TypeInner, Finalize, Outcome, Result, Results, Controls
<1>20. ASSUME NEW j \in Jobs, NEW r \in trail[j], TrailUnblock(j, r) PROVE TypeInner'
  BY <1>20 DEF TypeInner, TrailUnblock, ident
<1>21. ASSUME Crash PROVE TypeInner'
  BY <1>21 DEF TypeInner, TypeFiles, Rows, NoRow, Crash, Reload, Gone, Controls, Eras
<1>22. ASSUME CommandTail, ~CmdUnblock PROVE UNCHANGED inner
  BY <1>22 DEF CommandTail, CmdSaved, CmdDelete, DrainWait, DrainAck, DrainFails
<1>23. ASSUME Scheduler, ~SchedScan PROVE UNCHANGED inner
  BY <1>23 DEF Scheduler, SchedCheck, SchedPark, SchedNotified, SchedTimeout
<1>24. ASSUME NEW j \in Jobs,
              Spawned(j) \/ Reconcile(j) \/ Kick(j) \/ Open(j) \/ XferDone(j) \/ Move(j)
                \/ Recheck(j) \/ Recheck2(j) \/ Error(j) \/ Backoff(j) \/ WorkerSaved(j)
                \/ WorkerSaveFails(j)
       PROVE  UNCHANGED inner
  BY <1>24 DEF Spawned, Reconcile, Kick, Open, XferDone, Move, Recheck, Recheck2, Error,
               Backoff, WorkerSaved, WorkerSaveFails
<1>25. ASSUME NEW j \in Jobs, NEW r \in trail[j], TrailSaved(j, r) \/ TrailDelete(j, r)
       PROVE  UNCHANGED inner
  BY <1>25 DEF TrailSaved, TrailDelete
<1>26. ASSUME PersistWrite \/ UNCHANGED vars PROVE UNCHANGED inner
  BY <1>26 DEF PersistWrite, vars
<1>27. CASE Command
  BY <1>2, <1>3, <1>4, <1>5, <1>6, <1>7, <1>8, <1>9, <1>10, <1>11, <1>27 DEF Command
<1>28. ASSUME NEW j \in Jobs, Steps(j) \/ Server(j) PROVE TypeInner'
  BY <1>1, <1>14, <1>15, <1>17, <1>18, <1>19, <1>24, <1>28 DEF Steps, Server
<1>29. ASSUME NEW j \in Jobs, Trail(j) PROVE TypeInner'
  BY <1>1, <1>20, <1>25, <1>29 DEF Trail
<1> QED
  BY <1>1, <1>12, <1>13, <1>21, <1>22, <1>23, <1>26, <1>27, <1>28, <1>29 DEF Next

LEMMA FilesStep ==
  ASSUME TypeInner, TypeWorker, TypeFiles, [Next]_vars
  PROVE  TypeFiles'
<1> DEFINE Kept == UNCHANGED <<files, disk, finished>>
<1>1. ASSUME Kept PROVE TypeFiles'
  BY <1>1 DEF TypeFiles, files
<1>2. ASSUME disk' \in {disk, Snapshot}, UNCHANGED <<files, finished>> PROVE TypeFiles'
  BY <1>2, SnapshotTyped DEF TypeFiles, files
<1>3. ASSUME CmdDelete PROVE TypeFiles'
  BY <1>3 DEF TypeFiles, CmdDelete
<1>4. ASSUME NEW j \in Jobs, NEW r \in trail[j], TrailDelete(j, r) PROVE TypeFiles'
  BY <1>4 DEF TypeFiles, TrailDelete
<1>5. ASSUME NEW j \in Jobs, Plan(j) \/ Open(j) \/ Fallback(j) PROVE TypeFiles'
  BY <1>5, LocalsTyped DEF TypeFiles, Plan, Open, Fallback, CommitFrame, files
<1>6. ASSUME NEW j \in Jobs, Rename(j) PROVE TypeFiles'
  <2>1. outs' \in {outs, [outs EXCEPT ![j] = @ \cup {w[j].era}]}
    BY <1>6 DEF Rename, files
  <2>2. part' \in {part, [part EXCEPT ![j] = NoPart]} /\ UNCHANGED <<disk, finished>>
    BY <1>6 DEF Rename, files
  <2> QED
    BY <2>1, <2>2, LocalsTyped DEF TypeFiles
<1>7. ASSUME NEW j \in Jobs, Unlink(j) PROVE TypeFiles'
  BY <1>7 DEF TypeFiles, Unlink
<1>8. ASSUME NEW j \in Jobs, Finalize(j) PROVE TypeFiles'
  <2>1. finished' \in {finished, [finished EXCEPT ![j] = @ \cup {w[j].era}]}
    BY <1>8 DEF Finalize
  <2>2. UNCHANGED <<files, disk>>
    BY <1>8 DEF Finalize
  <2> QED
    BY <2>1, <2>2, LocalsTyped DEF TypeFiles, files
<1>9. ASSUME Crash PROVE TypeFiles'
  BY <1>9 DEF TypeFiles, Crash, files
<1>10. ASSUME Command PROVE Kept
  BY ZenonT(60), <1>10 DEF Command, Add, Pause, Resume, Retry, Restart, Cancel, Remove, PauseAll, Drain,
               ResumeAll, RetryAll, Revive, UpdateSettings, BeginOn, Begin
<1>11. ASSUME CommandTail, ~CmdDelete PROVE TypeFiles'
  BY <1>1, <1>2, <1>11 DEF CommandTail, CmdSaved, CmdUnblock, DrainWait, DrainAck, DrainFails
<1>12. ASSUME Scheduler PROVE Kept
  BY <1>12 DEF Scheduler, SchedScan, SchedCheck, SchedPark, SchedNotified, SchedTimeout
<1>13. ASSUME NEW j \in Jobs,
              Spawned(j) \/ Reconcile(j) \/ Stat(j) \/ Kick(j) \/ KickStore(j) \/ XferDone(j)
                \/ Move(j) \/ Recheck(j) \/ Recheck2(j) \/ Error(j) \/ RetryLater(j)
                \/ Backoff(j) \/ WorkerSaveFails(j)
       PROVE  Kept
  BY <1>13 DEF Spawned, Reconcile, Stat, Kick, KickStore, XferDone, Move, Recheck, Recheck2,
               Error, RetryLater, Backoff, WorkerSaveFails, WorkerOnly
<1>14. ASSUME NEW j \in Jobs, StartFails(j) \/ XferStop(j) \/ XferFails(j) \/ CommitFinal(j)
       PROVE  Kept
  BY <1>14 DEF StartFails, XferStop, XferFails, CommitFinal, CommitFrame
<1>15. ASSUME NEW j \in Jobs, WorkerSaved(j) PROVE TypeFiles'
  BY <1>2, <1>15 DEF WorkerSaved
<1>16. ASSUME NEW j \in Jobs, NEW r \in trail[j], TrailSaved(j, r) \/ TrailUnblock(j, r)
       PROVE  TypeFiles'
  BY <1>2, <1>16 DEF TrailSaved, TrailUnblock
<1>17. ASSUME PersistWrite \/ UNCHANGED vars PROVE TypeFiles'
  BY <1>2, <1>17 DEF PersistWrite, vars
<1>18. ASSUME NEW j \in Jobs, Steps(j) \/ Server(j) PROVE TypeFiles'
  BY <1>1, <1>5, <1>6, <1>7, <1>8, <1>13, <1>14, <1>15, <1>18 DEF Steps, Server
<1>19. ASSUME NEW j \in Jobs, Trail(j) PROVE TypeFiles'
  BY <1>4, <1>16, <1>19 DEF Trail
<1> QED
  BY <1>1, <1>3, <1>9, <1>10, <1>11, <1>12, <1>17, <1>18, <1>19 DEF Next

LEMMA LocalsStep ==
  ASSUME TypeInner, TypeWorker, RetryBudget, [Next]_vars
  PROVE  w' \in [Jobs -> WorkerLocals]
<1>0. w \in [Jobs -> WorkerLocals]
  BY DEF TypeWorker
<1>1. ASSUME NEW j \in Jobs
      PROVE  id[j] \in Ids /\ era[j] \in Eras /\ (Told(j) => control[j] \in Results)
  BY DEF TypeInner, Told, Controls, Results
<1>2. NoLocals \in WorkerLocals
  BY DEF WorkerLocals, NoLocals, Ids, Eras, Results
<1>3. ASSUME NEW j \in Jobs, Spawned(j) PROVE w' \in [Jobs -> WorkerLocals]
  <2>1. ASSUME NEW l \in WorkerLocals
        PROVE  [l EXCEPT !.id = id[j], !.era = era[j]] \in WorkerLocals
    BY <1>1 DEF WorkerLocals
  <2> QED
    BY <2>1, <1>0, <1>2, <1>3 DEF Spawned
<1>4. ASSUME NEW j \in Jobs, Reconcile(j) PROVE w' \in [Jobs -> WorkerLocals]
  BY ZenonT(60), <1>0, <1>4 DEF Reconcile, WorkerLocals
<1>5. ASSUME NEW j \in Jobs, Stat(j) PROVE w' \in [Jobs -> WorkerLocals]
  BY <1>0, <1>1, <1>5 DEF Stat, WorkerLocals
<1>6. ASSUME NEW j \in Jobs, NEW r \in Results, w' = [w EXCEPT ![j].res = r]
      PROVE  w' \in [Jobs -> WorkerLocals]
  BY <1>0, <1>6 DEF WorkerLocals
<1>7. ASSUME NEW j \in Jobs, NEW b \in BOOLEAN, w' = [w EXCEPT ![j].soft = b]
      PROVE  w' \in [Jobs -> WorkerLocals]
  BY <1>0, <1>7 DEF WorkerLocals
<1>8. ASSUME NEW j \in Jobs, Plan(j) PROVE w' \in [Jobs -> WorkerLocals]
  <2>1. ASSUME w' = [w EXCEPT ![j].id = "mapped", ![j].fresh = TRUE]
        PROVE  w' \in [Jobs -> WorkerLocals]
    BY ZenonT(60), <1>0, <2>1 DEF WorkerLocals, Ids, Maps
  <2> QED
    BY <2>1, <1>0, <1>1, <1>6, <1>7, <1>8 DEF Plan, End
<1>9. ASSUME NEW j \in Jobs, Fallback(j) PROVE w' \in [Jobs -> WorkerLocals]
  BY ZenonT(60), <1>0, <1>9 DEF Fallback, WorkerLocals, Ids
<1>10. ASSUME NEW j \in Jobs,
              XferStop(j) \/ Move(j) \/ Recheck2(j) \/ Unlink(j)
       PROVE  w' \in [Jobs -> WorkerLocals]
  BY <1>0, <1>1, <1>6, <1>10 DEF XferStop, Move, Recheck2, Unlink, End, Results
<1>23. ASSUME NEW j \in Jobs, Error(j) PROVE w' \in [Jobs -> WorkerLocals]
  <2>1. ASSUME NEW n \in 0 .. MaxAttempts, w' = [w EXCEPT ![j].try = n]
        PROVE  w' \in [Jobs -> WorkerLocals]
    BY <1>0, <2>1 DEF WorkerLocals
  <2>2. 0 \in 0 .. MaxAttempts /\ w[j].try \in 0 .. MaxAttempts
    BY <1>0, BoundAssumption DEF WorkerLocals
  <2>3. \/ \E r \in Results : w' = [w EXCEPT ![j].res = r]
        \/ \E n \in {0, w[j].try} : w' = [w EXCEPT ![j].try = n]
    BY <1>23 DEF Error, End, Results
  <2> QED
    BY <2>1, <2>2, <2>3, <1>6
<1>11. ASSUME NEW j \in Jobs,
              StartFails(j) \/ XferFails(j) \/ Rename(j) \/ WorkerSaveFails(j)
       PROVE  w' \in [Jobs -> WorkerLocals]
  BY <1>0, <1>7, <1>11 DEF StartFails, XferFails, Rename, WorkerSaveFails
<1>12. ASSUME NEW j \in Jobs, RetryLater(j) PROVE w' \in [Jobs -> WorkerLocals]
  <2>1. w[j].try \in 0 .. MaxAttempts /\ w[j].try < MaxAttempts
    BY <1>12, LocalsTyped DEF RetryLater, At, RetryBudget
  <2>2. w[j].try + 1 \in 0 .. MaxAttempts
    BY <2>1
  <2> QED
    BY <2>2, <1>0, <1>12 DEF RetryLater, WorkerLocals
<1>13. ASSUME NEW j \in Jobs, Backoff(j) PROVE w' \in [Jobs -> WorkerLocals]
  <2>1. ASSUME w' = [w EXCEPT ![j].id = id[j], ![j].era = era[j]]
        PROVE  w' \in [Jobs -> WorkerLocals]
    BY ZenonT(60), <1>0, <1>1, <2>1 DEF WorkerLocals
  <2> QED
    BY <2>1, <1>0, <1>1, <1>6, <1>13 DEF Backoff, End
<1>14. ASSUME NEW j \in Jobs, Finalize(j) PROVE w' \in [Jobs -> WorkerLocals]
  BY <1>0, <1>2, <1>14 DEF Finalize
<1>15. ASSUME Crash PROVE w' \in [Jobs -> WorkerLocals]
  BY <1>2, <1>15 DEF Crash
<1>16. ASSUME NEW j \in Jobs,
              Kick(j) \/ KickStore(j) \/ Open(j) \/ XferDone(j) \/ Recheck(j)
                \/ CommitFinal(j) \/ WorkerSaved(j)
       PROVE  UNCHANGED w
  BY <1>16 DEF Kick, KickStore, Open, XferDone, Recheck, CommitFinal, WorkerSaved
<1>17. ASSUME NEW j \in Jobs, Steps(j) \/ Server(j) PROVE w' \in [Jobs -> WorkerLocals]
  BY <1>0, <1>3, <1>4, <1>5, <1>8, <1>9, <1>10, <1>11, <1>12, <1>13, <1>14, <1>16, <1>17, <1>23
     DEF Steps, Server
<1>18. ASSUME Command PROVE UNCHANGED worker
  BY ZenonT(60), <1>18 DEF Command, Add, Pause, Resume, Retry, Restart, Cancel, Remove, PauseAll, Drain,
               ResumeAll, RetryAll, Revive, UpdateSettings, BeginOn, Begin
<1>19. ASSUME CommandTail PROVE UNCHANGED worker
  BY <1>19 DEF CommandTail, CmdSaved, CmdDelete, CmdUnblock, DrainWait, DrainAck, DrainFails
<1>20. ASSUME Scheduler PROVE UNCHANGED w
  BY <1>20 DEF Scheduler, SchedScan, SchedCheck, SchedPark, SchedNotified, SchedTimeout, worker
<1>21. ASSUME NEW j \in Jobs, Trail(j) PROVE UNCHANGED worker
  BY <1>21 DEF Trail, TrailSaved, TrailDelete, TrailUnblock
<1>22. ASSUME PersistWrite \/ UNCHANGED vars PROVE UNCHANGED worker
  BY <1>22 DEF PersistWrite, vars
<1> QED
  BY <1>0, <1>15, <1>17, <1>18, <1>19, <1>20, <1>21, <1>22 DEF Next, worker

LEMMA StageStep ==
  ASSUME TypeInner, TypeWorker, RetryBudget, [Next]_vars
  PROVE  stage' \in [Jobs -> Stages] /\ saving' \subseteq Jobs /\ RetryBudget'
<1> DEFINE Goal == stage' \in [Jobs -> Stages] /\ saving' \subseteq Jobs /\ RetryBudget'
<1>0. /\ stage \in [Jobs -> Stages] /\ saving \subseteq Jobs
      /\ w \in [Jobs -> WorkerLocals] /\ RetryBudget
  BY DEF TypeWorker
\* Only the job that moves has its locals changed.
<1>1. ASSUME NEW j \in Jobs, Steps(j) \/ Server(j)
      PROVE  \A i \in Jobs \ {j} : w'[i] = w[i]
  <2>1. UNCHANGED w \/ \E l : w' = [w EXCEPT ![j] = l]
    BY <1>1 DEF Steps, Server, Spawned, Reconcile, Stat, Kick, KickStore, Plan, Open, StartFails,
                Fallback, XferDone, XferStop, XferFails, Move, Rename, Recheck, CommitFinal,
                Recheck2, Unlink, Error, RetryLater, Backoff, WorkerSaved, WorkerSaveFails,
                Finalize, End
  <2> QED
    BY <2>1, <1>0
<1>2. ASSUME NEW j \in Jobs, NEW s \in Stages \ {"retry"}, Goto(j, s),
             \A i \in Jobs \ {j} : w'[i] = w[i]
      PROVE  stage' \in [Jobs -> Stages] /\ RetryBudget'
  BY <1>0, <1>2 DEF Goto, RetryBudget
<1>3. ASSUME NEW j \in Jobs,
             Spawned(j) \/ Reconcile(j) \/ Stat(j) \/ Kick(j) \/ KickStore(j) \/ Plan(j)
               \/ Open(j) \/ StartFails(j) \/ Fallback(j) \/ XferDone(j) \/ XferStop(j)
               \/ XferFails(j) \/ Move(j) \/ Rename(j) \/ Recheck(j) \/ CommitFinal(j)
               \/ Recheck2(j) \/ Unlink(j) \/ RetryLater(j) \/ Backoff(j) \/ Finalize(j)
      PROVE  \E s \in Stages \ {"retry"} : Goto(j, s)
  BY <1>3 DEF Spawned, Reconcile, Stat, Kick, KickStore, Plan, Open, StartFails, Fallback,
              XferDone, XferStop, XferFails, Move, Rename, Recheck, CommitFinal, Recheck2,
              Unlink, RetryLater, Backoff, Finalize, End, Stages
<1>4. ASSUME NEW j \in Jobs, Steps(j) \/ Server(j)
      PROVE  saving' \in {saving, saving \cup {j}, saving \ {j}}
  BY <1>4 DEF Steps, Server, Spawned, Reconcile, Stat, Kick, KickStore, Plan, Open, StartFails,
              Fallback, XferDone, XferStop, XferFails, Move, Rename, Recheck, CommitFinal,
              Recheck2, Unlink, Error, RetryLater, Backoff, WorkerSaved, WorkerSaveFails,
              Finalize, Commit
<1>5. ASSUME NEW j \in Jobs, Error(j) PROVE stage' \in [Jobs -> Stages] /\ RetryBudget'
  <2>1. \/ Goto(j, "ended")
        \/ /\ Goto(j, "retry")
           /\ \E n \in {0, w[j].try} : n < MaxAttempts /\ w' = [w EXCEPT ![j].try = n]
    BY <1>5 DEF Error, End
  <2>2. CASE Goto(j, "ended")
    BY <2>2, <1>2, <1>1, <1>5 DEF Steps, Stages
  <2>3. ASSUME NEW n \in {0, w[j].try}, n < MaxAttempts, Goto(j, "retry"),
               w' = [w EXCEPT ![j].try = n]
        PROVE  stage' \in [Jobs -> Stages] /\ RetryBudget'
    BY <2>3, <1>0 DEF Goto, RetryBudget, Stages, WorkerLocals
  <2> QED
    BY <2>1, <2>2, <2>3
<1>6. ASSUME NEW j \in Jobs, WorkerSaved(j) \/ WorkerSaveFails(j)
      PROVE  stage' \in [Jobs -> Stages] /\ RetryBudget'
  <2>1. \/ UNCHANGED <<stage, w>>
        \/ Goto(j, "nostart") /\ UNCHANGED w
        \/ Goto(j, "error") /\ w' = [w EXCEPT ![j].soft = FALSE]
    BY <1>6 DEF WorkerSaved, WorkerSaveFails
  <2> QED
    BY <2>1, <1>0 DEF Goto, RetryBudget, Stages
<1>7. ASSUME NEW j \in Jobs, Steps(j) \/ Server(j) PROVE Goal
  <2>1. stage' \in [Jobs -> Stages] /\ RetryBudget'
    BY <1>1, <1>2, <1>3, <1>5, <1>6, <1>7 DEF Steps, Server
  <2> QED
    BY <2>1, <1>0, <1>4, <1>7
<1>8. ASSUME SchedScan PROVE Goal
  BY <1>0, <1>8 DEF SchedScan, RetryBudget, Stages
<1>9. ASSUME Crash PROVE Goal
  BY <1>9 DEF Crash, RetryBudget, Stages
<1>10. ASSUME Command PROVE UNCHANGED worker
  BY <1>10 DEF Command, Add, Pause, Resume, Retry, Restart, Cancel, Remove, PauseAll, Drain,
               ResumeAll, RetryAll, Revive, UpdateSettings, BeginOn, Begin
<1>11. ASSUME CommandTail PROVE UNCHANGED worker
  BY <1>11 DEF CommandTail, CmdSaved, CmdDelete, CmdUnblock, DrainWait, DrainAck, DrainFails
<1>12. ASSUME Scheduler, ~SchedScan PROVE UNCHANGED worker
  BY <1>12 DEF Scheduler, SchedCheck, SchedPark, SchedNotified, SchedTimeout
<1>13. ASSUME NEW j \in Jobs, Trail(j) PROVE UNCHANGED worker
  BY <1>13 DEF Trail, TrailSaved, TrailDelete, TrailUnblock
<1>14. ASSUME PersistWrite \/ UNCHANGED vars PROVE UNCHANGED worker
  BY <1>14 DEF PersistWrite, vars
<1>15. ASSUME UNCHANGED worker PROVE Goal
  BY <1>0, <1>15 DEF worker, RetryBudget
<1> QED
  BY <1>7, <1>8, <1>9, <1>10, <1>11, <1>12, <1>13, <1>14, <1>15 DEF Next

LEMMA TrailStep ==
  ASSUME TypeInner, TypeWorker, [Next]_vars
  PROVE  trail' \in [Jobs -> SUBSET Trails]
<1>0. trail \in [Jobs -> SUBSET Trails]
  BY DEF TypeWorker
<1>1. ASSUME NEW j \in Jobs, Finalize(j) PROVE trail' \in [Jobs -> SUBSET Trails]
  <2> DEFINE out == IF Discards(j) THEN produced[j] ELSE NoEra
             rec == [stage |-> "save", part |-> j \in pendingPart, out |-> out,
                     defer |-> j \in requeue /\ j \in pendingPart, era |-> era[j]]
  <2>1. out \in Eras \cup {NoEra} /\ era[j] \in Eras
    BY DEF TypeInner
  <2>2. rec \in Trails
    BY <2>1 DEF Trails
  <2>3. trail' = [trail EXCEPT ![j] = @ \cup {rec}]
    BY <1>1 DEF Finalize
  <2> QED
    BY <2>2, <2>3, <1>0
<1>2. ASSUME NEW j \in Jobs, Trail(j) PROVE trail' \in [Jobs -> SUBSET Trails]
  <2>1. PICK r \in trail[j] : TrailSaved(j, r) \/ TrailDelete(j, r) \/ TrailUnblock(j, r)
    BY <1>2 DEF Trail
  <2>2. [r EXCEPT !.stage = "delete"] \in Trails /\ [r EXCEPT !.stage = "unblock"] \in Trails
    BY <1>0 DEF Trails
  <2> QED
    BY <2>1, <2>2, <1>0 DEF TrailSaved, TrailDelete, TrailUnblock, Advance
<1>3. ASSUME Crash PROVE trail' \in [Jobs -> SUBSET Trails]
  BY <1>3 DEF Crash
<1>4. ASSUME Command PROVE UNCHANGED trail
  BY ZenonT(60), <1>4 DEF Command, Add, Pause, Resume, Retry, Restart, Cancel, Remove, PauseAll, Drain,
              ResumeAll, RetryAll, Revive, UpdateSettings, BeginOn, Begin
<1>5. ASSUME CommandTail \/ Scheduler \/ PersistWrite \/ UNCHANGED vars PROVE UNCHANGED trail
  BY <1>5 DEF CommandTail, CmdSaved, CmdDelete, CmdUnblock, DrainWait, DrainAck, DrainFails,
              Scheduler, SchedScan, SchedCheck, SchedPark, SchedNotified, SchedTimeout,
              PersistWrite, vars, tasks
<1>6. ASSUME NEW j \in Jobs, Steps(j) \/ Server(j), ~Finalize(j) PROVE UNCHANGED trail
  BY <1>6 DEF Steps, Server, Spawned, Reconcile, Stat, Kick, KickStore, Plan, Open, StartFails,
              Fallback, XferDone, XferStop, XferFails, Move, Rename, Recheck, CommitFinal,
              Recheck2, Unlink, Error, RetryLater, Backoff, WorkerSaved, WorkerSaveFails,
              WorkerOnly, CommitFrame, tasks
<1> QED
  BY <1>0, <1>1, <1>2, <1>3, <1>4, <1>5, <1>6 DEF Next, Steps

LEMMA ControlStep ==
  ASSUME TypeControl, [Next]_vars
  PROVE  TypeControl'
<1> DEFINE Cmd == cmd' \in CmdRecords
           Rest == /\ sched' \in {"scan", "check", "timed", "parking", "parked"}
                   /\ wake' \in {wake, TRUE, FALSE}
                   /\ ncmd' \in 0 .. MaxCmds /\ ncrash' \in 0 .. MaxCrashes
<1>0. /\ cmd \in CmdRecords /\ wake \in BOOLEAN
      /\ sched \in {"scan", "check", "timed", "parking", "parked"}
      /\ ncmd \in 0 .. MaxCmds /\ ncrash \in 0 .. MaxCrashes
  BY DEF TypeControl
<1>1. Idle \in CmdRecords
  BY DEF Idle, CmdRecords
<1>2. ASSUME NEW op \in AllOps, NEW j \in Jobs \cup {"none"}, NEW p \in BOOLEAN,
             NEW o \in BOOLEAN, NEW u \in BOOLEAN, Tail(op, j, p, o, u)
      PROVE  Cmd
  BY <1>2 DEF Tail, CmdRecords
<1>3. ASSUME NEW j \in Jobs \cup {"none"}, NEW op \in AllOps, Save(op, j) PROVE Cmd
  BY <1>2, <1>3 DEF Save
<1>4. ASSUME Done PROVE Cmd
  BY <1>1, <1>4 DEF Done
<1>5. ASSUME NEW s \in {"delete", "unblock", "wait", "finalsave"},
             cmd' = [cmd EXCEPT !.stage = s]
      PROVE  Cmd
  BY <1>0, <1>5 DEF CmdRecords
<1>6. ASSUME NEW j \in Jobs, Add(j) \/ Pause(j) \/ Resume(j) \/ Retry(j) PROVE Cmd
  BY <1>3, <1>4, <1>6 DEF Add, Pause, Resume, Retry, AllOps
<1>7. ASSUME NEW j \in Jobs, Restart(j) PROVE Cmd
  BY <1>2, <1>7 DEF Restart, AllOps
<1>8. ASSUME NEW j \in Jobs, NEW d \in BOOLEAN, Cancel(j, d) PROVE Cmd
  BY <1>2, <1>4, <1>8 DEF Cancel, AllOps
<1>9. ASSUME NEW j \in Jobs, NEW p \in BOOLEAN, NEW f \in BOOLEAN, Remove(j, p, f) PROVE Cmd
  BY <1>2, <1>9 DEF Remove, AllOps
<1>10. ASSUME Drain PROVE Cmd
  BY <1>10 DEF Drain, Idle, CmdRecords, AllOps
<1>11. ASSUME PauseAll \/ ResumeAll \/ RetryAll PROVE Cmd
  BY <1>3, <1>4, <1>11 DEF PauseAll, ResumeAll, RetryAll, Revive, AllOps
<1>12. ASSUME NEW n \in 1 .. MaxConc, UpdateSettings(n) PROVE Cmd
  BY <1>4, <1>12 DEF UpdateSettings
<1>13. ASSUME CommandTail PROVE Cmd
  BY <1>0, <1>4, <1>5, <1>13
     DEF CommandTail, CmdSaved, CmdDelete, CmdUnblock, DrainWait, DrainAck, DrainFails
<1>14. ASSUME Command PROVE Cmd
  BY <1>6, <1>7, <1>8, <1>9, <1>10, <1>11, <1>12, <1>14 DEF Command
<1>15. ASSUME Command PROVE Rest
  <2>1. UNCHANGED <<ncrash, sched>> /\ ncmd < MaxCmds /\ ncmd' = ncmd + 1
    BY ZenonT(60), <1>15 DEF Command, Add, Pause, Resume, Retry, Restart, Cancel, Remove, PauseAll, Drain,
                 ResumeAll, RetryAll, Revive, UpdateSettings, BeginOn, Begin
  <2>2. wake' \in {wake, TRUE}
    BY ZenonT(60), <1>15 DEF Command, Add, Pause, Resume, Retry, Restart, Cancel, Remove, PauseAll, Drain,
                 ResumeAll, RetryAll, Revive, UpdateSettings, Done, Notify
  <2>3. ncmd' \in 0 .. MaxCmds
    BY <2>1, <1>0
  <2> QED
    BY <2>1, <2>2, <2>3, <1>0
<1>16. ASSUME CommandTail PROVE Rest
  BY <1>0, <1>16 DEF CommandTail, CmdSaved, CmdDelete, CmdUnblock, DrainWait, DrainAck,
                     DrainFails, Done, Notify, bounds
<1>17. ASSUME Scheduler PROVE Rest /\ UNCHANGED cmd
  BY <1>0, <1>17 DEF Scheduler, SchedScan, SchedCheck, SchedPark, SchedNotified, SchedTimeout,
                     bounds
<1>18. ASSUME NEW j \in Jobs, Steps(j) \/ Server(j)
       PROVE  UNCHANGED <<cmd, sched, bounds>> /\ wake' \in {wake, TRUE}
  BY <1>18 DEF Steps, Server, Spawned, Reconcile, Stat, Kick, KickStore, Plan, Open, StartFails,
               Fallback, XferDone, XferStop, XferFails, Move, Rename, Recheck, CommitFinal,
               Recheck2, Unlink, Error, RetryLater, Backoff, WorkerSaved, WorkerSaveFails,
               Finalize, WorkerOnly, CommitFrame, tasks, Notify
<1>19. ASSUME NEW j \in Jobs, Trail(j)
       PROVE  UNCHANGED <<cmd, sched, bounds>> /\ wake' \in {wake, TRUE}
  BY <1>19 DEF Trail, TrailSaved, TrailDelete, TrailUnblock, Notify
<1>20. ASSUME Crash PROVE Cmd /\ Rest
  <2>1. Cmd /\ sched' = "scan" /\ wake' = FALSE /\ UNCHANGED ncmd
    BY <1>1, <1>20 DEF Crash
  <2>2. ncrash' \in 0 .. MaxCrashes
    BY <1>0, <1>20 DEF Crash
  <2> QED
    BY <2>1, <2>2, <1>0
<1>21. ASSUME PersistWrite \/ UNCHANGED vars PROVE UNCHANGED <<cmd, sched, wake, bounds>>
  BY <1>21 DEF PersistWrite, vars, tasks
<1>22. Cmd /\ Rest
  BY <1>0, <1>13, <1>14, <1>15, <1>16, <1>17, <1>18, <1>19, <1>20, <1>21 DEF Next, bounds
<1> QED
  BY <1>22, <1>0 DEF TypeControl

\* The initial rows come from Loaded, none of them running.
LEMMA InitTyped == ASSUME Init PROVE Typed
<1> USE LoadedAssumption
<1>1. PICK row \in [Jobs -> Loaded \cup {NoRow}] :
        /\ st = [j \in Jobs |-> IF row[j] = NoRow THEN "unborn" ELSE Reload(row[j].st)]
        /\ id = [j \in Jobs |-> IF row[j] = NoRow THEN "none" ELSE row[j].id]
        /\ part = [j \in Jobs |-> IF row[j] # NoRow /\ row[j].id = "written"
                                  THEN 0 ELSE NoPart]
        /\ disk = [j \in Jobs |->
                     IF row[j] = NoRow THEN NoRow
                     ELSE [st |-> row[j].st, id |-> row[j].id, idEra |-> 0, era |-> 0]]
  BY DEF Init
<1>2. \A j \in Jobs : row[j] # NoRow => row[j].st \in JobState /\ row[j].id \in Ids
  BY <1>1
<1>3. 0 \in Eras /\ 0 \in 0 .. MaxAttempts
  BY DEF Eras
<1>4. TypeInner
  <2>1. st \in [Jobs -> JobState \cup Gone] /\ id \in [Jobs -> Ids]
    BY <1>1, <1>2 DEF Reload, Gone, JobState, Ids
  <2> QED
    BY <2>1, <1>3 DEF Init, TypeInner, Controls, NoEra
<1>5. TypeFiles
  <2>1. part \in [Jobs -> Eras \cup {NoPart, Hole}] /\ disk \in [Jobs -> Rows \cup {NoRow}]
    BY <1>1, <1>2, <1>3 DEF Rows
  <2>2. outs \in [Jobs -> SUBSET Eras] /\ finished = outs
    BY <1>3 DEF Init
  <2> QED
    BY <2>1, <2>2 DEF TypeFiles
<1>6. TypeWorker /\ RetryBudget
  <2>1. NoLocals \in WorkerLocals
    BY <1>3 DEF WorkerLocals, NoLocals, Ids, Results
  <2>2. w = [j \in Jobs |-> NoLocals] /\ stage = [j \in Jobs |-> "none"]
    BY DEF Init
  <2>3. saving = {} /\ trail = [j \in Jobs |-> {}]
    BY DEF Init
  <2> QED
    BY <2>1, <2>2, <2>3 DEF TypeWorker, RetryBudget, Stages
<1>7. TypeControl
  <2>1. Idle \in CmdRecords
    BY DEF Idle, CmdRecords
  <2>2. cmd = Idle /\ sched = "scan" /\ wake = FALSE /\ ncmd = 0 /\ ncrash = 0
    BY DEF Init
  <2>3. wake \in BOOLEAN
    BY <2>2
  <2>4. ncmd \in 0 .. MaxCmds /\ ncrash \in 0 .. MaxCrashes
    BY <2>2
  <2>5. cmd \in CmdRecords /\ sched \in {"scan", "check", "timed", "parking", "parked"}
    BY <2>1, <2>2
  <2> QED
    BY <2>3, <2>4, <2>5 DEF TypeControl
<1> QED
  BY <1>4, <1>5, <1>6, <1>7 DEF Typed, TypeOK

LEMMA TypedStep == ASSUME Typed, [Next]_vars PROVE Typed'
<1>1. TypeInner /\ TypeFiles /\ TypeWorker /\ TypeControl /\ RetryBudget
  BY DEF Typed, TypeOK
<1>2. TypeWorker' /\ RetryBudget'
  BY <1>1, LocalsStep, StageStep, TrailStep DEF TypeWorker
<1> QED
  BY <1>1, <1>2, InnerStep, FilesStep, ControlStep DEF Typed, TypeOK

LEMMA TypedAlways == Spec => []Typed
<1>1. Init => Typed
  BY InitTyped
<1>2. Typed /\ [Next]_vars => Typed'
  BY TypedStep
<1> QED
  BY <1>1, <1>2, PTL DEF Spec

\* Every variable keeps its type, whatever the interleaving and the bounds.
THEOREM TypeCorrect == Spec => []TypeOK
<1>1. Typed => TypeOK
  BY DEF Typed
<1> QED
  BY <1>1, TypedAlways, PTL
-----------------------------------------------------------------------------
(* Slots.  That a slot of active and a worker come and go together needs    *)
(* what the restart flags mean: while the finalizer of a restarted job has  *)
(* its deferred tail to run, the job has no worker and stays flagged.       *)

Deferred ==
  \A j \in Jobs : \A r \in trail[j] :
    Present(j) /\ r.defer =>
      /\ j \notin active /\ j \in requeue
      /\ \A q \in trail[j] : q.defer => q = r

\* Only a deferred tail gets as far as taking the flags back.
Unblocks == \A j \in Jobs : \A r \in trail[j] : r.stage = "unblock" => r.defer

\* An id that was never added has left no trace.
Untouched ==
  \A j \in Jobs : st[j] = "unborn" =>
    j \notin active /\ trail[j] = {} /\ id[j] = "none" /\ w[j].id = "none"

\* Only a worker that has read its row waits for a persist.
Savers == \A j \in saving : j \in Jobs /\ stage[j] \notin {"none", "spawned"}

Slots == SlotOwned /\ Deferred /\ Unblocks /\ Untouched /\ Savers

slotVars == <<st, id, active, requeue, stage, w, trail, saving>>

\* What a command may do to a job without disturbing Slots.
Calm(j) ==
  /\ st'[j] = "unborn" => st[j] = "unborn" /\ id'[j] = id[j]
  /\ st'[j] \in Running => st[j] \in Running
  /\ Present(j)' => /\ st[j] # "removed"
                    /\ j \in requeue => j \in requeue'
                    /\ st[j] \in Running => st'[j] \in Running \/ j \in requeue'

LEMMA CalmSlots ==
  ASSUME Slots, UNCHANGED <<active, stage, w, trail, saving>>, \A j \in Jobs : Calm(j)
  PROVE  Slots'
<1>1. SlotOwned'
  BY DEF Slots, SlotOwned, Untouched, Calm, Present, Gone
<1>2. Deferred'
  BY DEF Slots, Deferred, Untouched, Calm, Present, Gone
<1>3. Untouched'
  BY DEF Slots, Untouched, Calm
<1> QED
  BY <1>1, <1>2, <1>3 DEF Slots, Unblocks, Savers

LEMMA CommandSlots == ASSUME Typed, Slots, Command PROVE Slots'
<1>0. /\ st \in [Jobs -> JobState \cup Gone] /\ id \in [Jobs -> Ids]
      /\ Slots
  BY DEF Typed, TypeOK, TypeInner
<1>1. UNCHANGED <<active, stage, w, trail, saving>>
  BY ZenonT(60) DEF Command, Add, Pause, Resume, Retry, Restart, Cancel, Remove, PauseAll, Drain,
         ResumeAll, RetryAll, Revive, UpdateSettings, BeginOn, Begin, worker
<1> USE DEF Running, Gone, Present
<1>2. ASSUME NEW j \in Jobs, Add(j) \/ Pause(j) PROVE \A i \in Jobs : Calm(i)
  BY <1>0, <1>2 DEF Add, Pause, Calm, ident
<1>3. ASSUME NEW j \in Jobs, Resume(j) \/ Retry(j) PROVE \A i \in Jobs : Calm(i)
  BY <1>0, <1>3 DEF Resume, Retry, Requeued, Calm, ident
<1>4. ASSUME NEW j \in Jobs, Restart(j) PROVE \A i \in Jobs : Calm(i)
  <2>1. st[j] # "unborn" /\ (Present(j) => st' = [st EXCEPT ![j] = "Queued"])
    BY <1>4 DEF Restart, BeginOn
  <2>2. ~Present(j) => UNCHANGED <<st, id>>
    BY <1>4 DEF Restart, ident
  <2>3. \A i \in Jobs \ {j} : id'[i] = id[i]
    BY <1>0, <1>4 DEF Restart, Wipe, ident
  <2>4. requeue' = IF j \in active THEN requeue \cup {j} ELSE requeue
    BY <1>4 DEF Restart
  <2>5. st[j] \in Running => j \in active
    BY <1>0 DEF Slots, SlotOwned
  <2> QED
    BY <1>0, <2>1, <2>2, <2>3, <2>4, <2>5 DEF Calm
<1>5. ASSUME NEW j \in Jobs, NEW d \in BOOLEAN, Cancel(j, d) PROVE \A i \in Jobs : Calm(i)
  <2>1. st[j] # "unborn" /\ UNCHANGED requeue
    BY <1>5 DEF Cancel, BeginOn
  <2>2. st' = st \/ (st' = [st EXCEPT ![j] = "Canceled"] /\ st[j] \notin Running \cup Gone)
    BY <1>5 DEF Cancel
  <2>3. \A i \in Jobs \ {j} : id'[i] = id[i]
    BY <1>0, <1>5 DEF Cancel, Wipe, ident
  <2> QED
    BY <1>0, <2>1, <2>2, <2>3 DEF Calm
<1>6. ASSUME NEW j \in Jobs, NEW p \in BOOLEAN, NEW f \in BOOLEAN, Remove(j, p, f)
      PROVE  \A i \in Jobs : Calm(i)
  BY <1>0, <1>6 DEF Remove, BeginOn, Calm, ident
<1>7. ASSUME PauseAll \/ Drain PROVE \A i \in Jobs : Calm(i)
  BY <1>0, <1>7 DEF PauseAll, Drain, Unqueue, Calm, ident
<1>8. ASSUME ResumeAll \/ RetryAll PROVE \A i \in Jobs : Calm(i)
  BY <1>0, <1>8 DEF ResumeAll, RetryAll, Revive, Requeued, Calm, ident
<1>9. ASSUME NEW n \in 1 .. MaxConc, UpdateSettings(n) PROVE \A i \in Jobs : Calm(i)
  BY <1>0, <1>9 DEF UpdateSettings, Calm, ident
<1> QED
  BY <1>0, <1>1, <1>2, <1>3, <1>4, <1>5, <1>6, <1>7, <1>8, <1>9, CalmSlots DEF Command

\* A worker's own steps move it from one stage to another, and show its row
\* as running at most.
LEMMA WorkerSlots ==
  ASSUME Typed, Slots, NEW j \in Jobs, Steps(j) \/ Server(j), ~Finalize(j)
  PROVE  Slots'
<1>0. /\ st \in [Jobs -> JobState \cup Gone] /\ id \in [Jobs -> Ids]
      /\ stage \in [Jobs -> Stages] /\ w \in [Jobs -> WorkerLocals] /\ Slots
  BY DEF Typed, TypeOK, TypeInner, TypeWorker
<1>1. UNCHANGED <<active, requeue, trail>>
  BY DEF Steps, Server, Spawned, Reconcile, Stat, Kick, KickStore, Plan, Open, StartFails,
         Fallback, XferDone, XferStop, XferFails, Move, Rename, Recheck, CommitFinal,
         Recheck2, Unlink, Error, RetryLater, Backoff, WorkerSaved, WorkerSaveFails,
         WorkerOnly, CommitFrame, tasks, inner, flags
<1>2. stage[j] # "none"
  <2>1. j \in saving => stage[j] # "none"
    BY <1>0 DEF Slots, Savers
  <2> QED
    BY <2>1 DEF Steps, Server, Spawned, Reconcile, Stat, Kick, KickStore, Plan, Open, StartFails,
         Fallback, XferDone, XferStop, XferFails, Move, Rename, Recheck, CommitFinal,
         Recheck2, Unlink, Error, RetryLater, Backoff, WorkerSaved, WorkerSaveFails, At
<1>3. UNCHANGED stage \/ \E s \in Stages \ {"none", "spawned"} : stage' = [stage EXCEPT ![j] = s]
  BY DEF Steps, Server, Spawned, Reconcile, Stat, Kick, KickStore, Plan, Open, StartFails,
         Fallback, XferDone, XferStop, XferFails, Move, Rename, Recheck, CommitFinal,
         Recheck2, Unlink, Error, RetryLater, Backoff, WorkerSaved, WorkerSaveFails, End, Goto,
         Stages
<1>4. UNCHANGED w \/ \E l : w' = [w EXCEPT ![j] = l]
  BY DEF Steps, Server, Spawned, Reconcile, Stat, Kick, KickStore, Plan, Open, StartFails,
         Fallback, XferDone, XferStop, XferFails, Move, Rename, Recheck, CommitFinal,
         Recheck2, Unlink, Error, RetryLater, Backoff, WorkerSaved, WorkerSaveFails, End
<1>5. UNCHANGED id \/ \E k : id' = [id EXCEPT ![j] = k]
  BY DEF Steps, Server, Spawned, Reconcile, Stat, Kick, KickStore, Plan, Open, StartFails,
         Fallback, XferDone, XferStop, XferFails, Move, Rename, Recheck, CommitFinal,
         Recheck2, Unlink, Error, RetryLater, Backoff, WorkerSaved, WorkerSaveFails, Commit,
         inner, ident
<1>6. UNCHANGED st \/ (Present(j) /\ \E s \in Running : st' = [st EXCEPT ![j] = s])
  BY DEF Steps, Server, Spawned, Reconcile, Stat, Kick, KickStore, Plan, Open, StartFails,
         Fallback, XferDone, XferStop, XferFails, Move, Rename, Recheck, CommitFinal,
         Recheck2, Unlink, Error, RetryLater, Backoff, WorkerSaved, WorkerSaveFails, inner,
         CommitFrame, Running
<1>7. saving' \in {saving, saving \cup {j}, saving \ {j}}
  BY DEF Steps, Server, Spawned, Reconcile, Stat, Kick, KickStore, Plan, Open, StartFails,
         Fallback, XferDone, XferStop, XferFails, Move, Rename, Recheck, CommitFinal,
         Recheck2, Unlink, Error, RetryLater, Backoff, WorkerSaved, WorkerSaveFails, Commit
<1>8. j \in active /\ st[j] # "unborn"
  BY <1>0, <1>2 DEF Slots, SlotOwned, Untouched
<1>12. Savers'
  <2>1. saving' \subseteq saving \/ stage'[j] \notin {"none", "spawned"}
    BY <1>0, <1>2, <1>3 DEF Steps, Server, Spawned, Reconcile, Stat, Kick, KickStore, Plan, Open,
         StartFails, Fallback, XferDone, XferStop, XferFails, Move, Rename, Recheck, CommitFinal,
         Recheck2, Unlink, Error, RetryLater, Backoff, WorkerSaved, WorkerSaveFails, Goto, End
  <2> QED
    BY <1>0, <1>3, <1>7, <2>1 DEF Slots, Savers
<1>9. SlotOwned'
  BY <1>0, <1>1, <1>2, <1>3, <1>6, <1>8 DEF Slots, SlotOwned, Present, Gone, Running
<1>10. Deferred' /\ Unblocks'
  BY <1>0, <1>1, <1>6 DEF Slots, Deferred, Unblocks, Present, Gone, Running
<1>11. Untouched'
  BY <1>0, <1>1, <1>4, <1>5, <1>6, <1>8 DEF Slots, Untouched, Running
<1> QED
  BY <1>0, <1>9, <1>10, <1>11, <1>12 DEF Slots

LEMMA FinalizeSlots == ASSUME Typed, Slots, NEW j \in Jobs, Finalize(j) PROVE Slots'
<1>0. /\ st \in [Jobs -> JobState \cup Gone] /\ id \in [Jobs -> Ids]
      /\ stage \in [Jobs -> Stages] /\ w \in [Jobs -> WorkerLocals]
      /\ trail \in [Jobs -> SUBSET Trails] /\ Slots
  BY DEF Typed, TypeOK, TypeInner, TypeWorker
<1>1. /\ stage[j] = "ended" /\ j \notin saving
      /\ stage' = [stage EXCEPT ![j] = "none"] /\ active' = active \ {j}
      /\ w' = [w EXCEPT ![j] = NoLocals] /\ UNCHANGED saving
  BY DEF Finalize, At, Goto
<1>2. j \in active /\ st[j] # "unborn"
  BY <1>0, <1>1 DEF Slots, SlotOwned, Untouched
<1>3. Outcome(j) \in JobState \ Running
  BY LocalsTyped DEF Typed, TypeOK, TypeInner, Outcome, Result, Results, Controls, JobState,
                     Running
<1>4. st' = IF Present(j) THEN [st EXCEPT ![j] = Outcome(j)] ELSE st
  BY DEF Finalize
<1>5. \A i \in Jobs \ {j} : id'[i] = id[i]
  BY <1>0 DEF Finalize
<1>6. PICK r : /\ trail' = [trail EXCEPT ![j] = @ \cup {r}]
               /\ r.stage = "save" /\ r.defer = (j \in requeue /\ j \in pendingPart)
  <2> DEFINE rec == [stage |-> "save", part |-> j \in pendingPart,
                     out |-> IF Discards(j) THEN produced[j] ELSE NoEra,
                     defer |-> j \in requeue /\ j \in pendingPart, era |-> era[j]]
  <2>1. trail' = [trail EXCEPT ![j] = @ \cup {rec}]
    BY DEF Finalize
  <2>2. rec.stage = "save" /\ rec.defer = (j \in requeue /\ j \in pendingPart)
    OBVIOUS
  <2> HIDE DEF rec
  <2> QED
    BY <2>1, <2>2
<1>7. requeue' = IF r.defer THEN requeue ELSE requeue \ {j}
  BY <1>6 DEF Finalize
<1>8. SlotOwned'
  BY <1>0, <1>1, <1>3, <1>4, <1>7 DEF Slots, SlotOwned, Present, Gone, Running, JobState, Stages
<1>9. Deferred'
  <2> SUFFICES ASSUME NEW i \in Jobs, NEW q \in trail'[i], Present(i)', q.defer
               PROVE  i \notin active' /\ i \in requeue' /\ \A p \in trail'[i] : p.defer => p = q
    BY DEF Deferred
  <2>1. Present(i)
    BY <1>0, <1>4 DEF Present
  <2>2. CASE i # j
    BY <2>1, <2>2, <1>0, <1>1, <1>6, <1>7 DEF Slots, Deferred
  <2>3. CASE i = j
    <3>1. \A p \in trail[j] : ~p.defer
      BY <2>1, <2>3, <1>0, <1>2 DEF Slots, Deferred
    <3> QED
      BY <3>1, <2>3, <1>0, <1>1, <1>6, <1>7
  <2> QED
    BY <2>2, <2>3
<1>10. Unblocks'
  BY <1>0, <1>6 DEF Slots, Unblocks
<1>11. Untouched'
  <2> SUFFICES ASSUME NEW i \in Jobs, st'[i] = "unborn"
               PROVE  i \notin active' /\ trail'[i] = {} /\ id'[i] = "none" /\ w'[i].id = "none"
    BY DEF Untouched
  <2>1. i # j /\ st[i] = "unborn"
    BY <1>0, <1>2, <1>3, <1>4 DEF JobState
  <2> QED
    BY <2>1, <1>0, <1>1, <1>5, <1>6 DEF Slots, Untouched
<1> QED
  BY <1>0, <1>1, <1>8, <1>9, <1>10, <1>11 DEF Slots, Savers

LEMMA TrailSlots ==
  ASSUME Typed, Slots, NEW j \in Jobs, NEW r \in trail[j],
         TrailSaved(j, r) \/ TrailDelete(j, r) \/ TrailUnblock(j, r)
  PROVE  Slots'
<1>0. trail \in [Jobs -> SUBSET Trails] /\ Slots
  BY DEF Typed, TypeOK, TypeWorker
<1>1. UNCHANGED <<st, id, active, stage, w, saving>>
  BY DEF TrailSaved, TrailDelete, TrailUnblock, inner, ident, worker
<1>2. trail[j] # {} /\ st[j] # "unborn"
  BY <1>0 DEF Slots, Untouched
<1>3. CASE TrailUnblock(j, r)
  <2>1. trail' = [trail EXCEPT ![j] = @ \ {r}] /\ requeue' = requeue \ {j} /\ r.defer
    BY <1>0, <1>3 DEF TrailUnblock, Advance, Slots, Unblocks
  <2>2. Present(j) => j \notin active /\ \A q \in trail[j] : q.defer => q = r
    BY <1>0, <2>1 DEF Slots, Deferred
  <2>3. SlotOwned'
    BY <1>0, <1>1, <2>1, <2>2 DEF Slots, SlotOwned, Present
  <2>4. Deferred' /\ Unblocks' /\ Untouched'
    BY <1>0, <1>1, <1>2, <2>1, <2>2 DEF Slots, Deferred, Unblocks, Untouched, Present
  <2> QED
    BY <1>0, <1>1, <2>3, <2>4 DEF Slots, Savers
<1>4. CASE TrailSaved(j, r) \/ TrailDelete(j, r)
  <2>1. UNCHANGED requeue
    BY <1>4 DEF TrailSaved, TrailDelete, inner
  <2>2. \/ trail' = [trail EXCEPT ![j] = @ \ {r}]
        \/ \E q : /\ trail' = [trail EXCEPT ![j] = (@ \ {r}) \cup {q}]
                  /\ q.defer = r.defer /\ (q.stage = "unblock" => r.defer)
    <3> DEFINE d == [r EXCEPT !.stage = "delete"]
               u == [r EXCEPT !.stage = "unblock"]
    <3>1. d.defer = r.defer /\ d.stage = "delete" /\ u.defer = r.defer /\ u.stage = "unblock"
      BY <1>0 DEF Trails
    <3>2. \/ trail' = [trail EXCEPT ![j] = (@ \ {r}) \cup {}]
          \/ trail' = [trail EXCEPT ![j] = (@ \ {r}) \cup {d}]
          \/ trail' = [trail EXCEPT ![j] = (@ \ {r}) \cup {u}] /\ r.defer
      BY <1>4 DEF TrailSaved, TrailDelete, Advance
    <3> HIDE DEF d, u
    <3> QED
      BY <3>1, <3>2
  <2>3. SlotOwned'
    BY <1>0, <1>1, <2>1 DEF Slots, SlotOwned, Present
  <2>4. Deferred'
    BY <1>0, <1>1, <2>1, <2>2 DEF Slots, Deferred, Present
  <2>5. Unblocks' /\ Untouched'
    BY <1>0, <1>1, <1>2, <2>2 DEF Slots, Unblocks, Untouched
  <2> QED
    BY <1>0, <1>1, <2>3, <2>4, <2>5 DEF Slots, Savers
<1> QED
  BY <1>3, <1>4

LEMMA SlotsStep == ASSUME Typed, Slots, [Next]_vars PROVE Slots'
<1>0. /\ st \in [Jobs -> JobState \cup Gone] /\ stage \in [Jobs -> Stages]
      /\ disk \in [Jobs -> Rows \cup {NoRow}] /\ Slots
  BY DEF Typed, TypeOK, TypeInner, TypeWorker, TypeFiles
<1>1. ASSUME UNCHANGED slotVars PROVE Slots'
  BY <1>0, <1>1
     DEF slotVars, Slots, SlotOwned, Deferred, Unblocks, Untouched, Savers, Present, Gone
<1>2. ASSUME SchedScan PROVE Slots'
  <2>1. PICK S \in SUBSET {j \in Jobs : Startable(j)} :
          /\ st' = [j \in Jobs |-> IF j \in S THEN "Starting" ELSE st[j]]
          /\ active' = active \cup S
          /\ stage' = [j \in Jobs |-> IF j \in S THEN "spawned" ELSE stage[j]]
    BY <1>2 DEF SchedScan
  <2>2. UNCHANGED <<id, requeue, trail, w, saving>>
    BY <1>2 DEF SchedScan, ident, flags
  <2>3. \A j \in S : st[j] = "Queued" /\ j \notin requeue
    BY <2>1 DEF Startable, Wiped
  <2>4. SlotOwned'
    BY <1>0, <2>1, <2>2, <2>3 DEF Slots, SlotOwned, Present, Gone, Running
  <2>5. Deferred' /\ Unblocks'
    BY <1>0, <2>1, <2>2, <2>3 DEF Slots, Deferred, Unblocks, Present, Gone
  <2>6. Untouched'
    BY <1>0, <2>1, <2>2, <2>3 DEF Slots, Untouched
  <2>7. Savers'
    BY <1>0, <2>1, <2>2 DEF Slots, SlotOwned, Savers, Startable
  <2> QED
    BY <1>0, <2>1, <2>2, <2>4, <2>5, <2>6, <2>7 DEF Slots
<1>3. ASSUME Crash PROVE Slots'
  <2>1. \A j \in Jobs : st'[j] \notin Running
    BY <1>0, <1>3 DEF Crash, Reload, Rows, Running, JobState
  <2>2. \A j \in Jobs : st'[j] = "unborn" => disk[j] = NoRow
    BY <1>0, <1>3 DEF Crash, Reload, Rows, JobState
  <2>3. /\ active' = {} /\ requeue' = {} /\ saving' = {}
        /\ stage' = [j \in Jobs |-> "none"] /\ trail' = [j \in Jobs |-> {}]
        /\ id' = [j \in Jobs |-> IF disk[j] # NoRow THEN disk[j].id ELSE "none"]
        /\ \A j \in Jobs : w'[j].id = "none"
    BY <1>3 DEF Crash, NoLocals
  <2> QED
    BY <2>1, <2>2, <2>3 DEF Slots, SlotOwned, Deferred, Unblocks, Untouched, Savers
<1>4. ASSUME CommandTail \/ PersistWrite \/ UNCHANGED vars PROVE UNCHANGED slotVars
  BY <1>4 DEF CommandTail, CmdSaved, CmdDelete, CmdUnblock, DrainWait, DrainAck, DrainFails,
              PersistWrite, vars, tasks, worker, inner, ident, slotVars
<1>5. ASSUME Scheduler, ~SchedScan PROVE UNCHANGED slotVars
  BY <1>5 DEF Scheduler, SchedCheck, SchedPark, SchedNotified, SchedTimeout, worker, inner,
              slotVars
<1>6. ASSUME NEW j \in Jobs, Steps(j) \/ Server(j) PROVE Slots'
  BY <1>0, <1>6, WorkerSlots, FinalizeSlots
<1>7. ASSUME NEW j \in Jobs, Trail(j) PROVE Slots'
  BY <1>0, <1>7, TrailSlots DEF Trail
<1> QED
  BY <1>0, <1>1, <1>2, <1>3, <1>4, <1>5, <1>6, <1>7, CommandSlots DEF Next

LEMMA InitSlots == ASSUME Init PROVE Slots
<1>1. Typed
  BY InitTyped
<1>2. /\ active = {} /\ saving = {} /\ trail = [j \in Jobs |-> {}]
      /\ stage = [j \in Jobs |-> "none"] /\ w = [j \in Jobs |-> NoLocals]
  BY DEF Init
<1>3. \A j \in Jobs : st[j] \notin Running
  BY LoadedAssumption DEF Init, Reload, Running, JobState
<1>4. \A j \in Jobs : st[j] = "unborn" => id[j] = "none"
  BY LoadedAssumption DEF Init, Reload, JobState, Running
<1> QED
  BY <1>2, <1>3, <1>4 DEF Slots, SlotOwned, Deferred, Unblocks, Untouched, Savers, NoLocals

LEMMA SlotsAlways == Spec => [](Typed /\ Slots)
<1>1. Init => Typed /\ Slots
  BY InitTyped, InitSlots
<1>2. Typed /\ Slots /\ [Next]_vars => (Typed /\ Slots)'
  BY TypedStep, SlotsStep
<1> QED
  BY <1>1, <1>2, PTL DEF Spec

\* A slot of the scheduler and a worker come and go together, and a job that
\* is shown as running has one: no slot leaks and no job runs twice.
THEOREM SlotsOwned == Spec => []SlotOwned
<1>1. Slots => SlotOwned
  BY DEF Slots
<1> QED
  BY <1>1, SlotsAlways, PTL

\* Restart of a running job: no new worker starts before the finalizer of the
\* old one has deleted the .part and taken the flags back.
THEOREM RestartIsDeferred == Spec => []RestartDefers
<1>1. Slots => RestartDefers
  BY DEF Slots, Deferred, RestartDefers
<1> QED
  BY <1>1, SlotsAlways, PTL
-----------------------------------------------------------------------------
(* Eras.  A commit that goes through carries the era of the row, because a  *)
(* wipe leaves a flag that outlives every worker that started before it.    *)

\* The copy a worker runs on is of the row's era, unless the job is flagged.
CopyCurrent ==
  \A j \in Jobs :
    Present(j) /\ stage[j] \notin {"none", "spawned"} /\ ~Wiped(j) => w[j].era = era[j]

\* A Restart about to take pendingPart back finds no worker it would expose.
RestartTail ==
  /\ cmd.stage = "unblock" => cmd.unblock
  /\ cmd.unblock /\ cmd.job \in active /\ Present(cmd.job) => cmd.job \notin pendingPart

Identity == NoResurrect /\ CopyCurrent /\ RestartTail

IdentityTypes == /\ Typed /\ Slots /\ Identity
                 /\ st \in [Jobs -> JobState \cup Gone] /\ id \in [Jobs -> Ids]
                 /\ idEra \in [Jobs -> Eras] /\ era \in [Jobs -> Eras]
                 /\ stage \in [Jobs -> Stages] /\ w \in [Jobs -> WorkerLocals]
                 /\ disk \in [Jobs -> Rows \cup {NoRow}] /\ cmd \in CmdRecords

LEMMA IdentityFacts == ASSUME Typed, Slots, Identity PROVE IdentityTypes
  BY DEF IdentityTypes, Typed, TypeOK, TypeInner, TypeWorker, TypeFiles, TypeControl

\* A commit that goes through writes the era of the row.
LEMMA CommitCurrent ==
  ASSUME IdentityTypes, NEW j \in Jobs, NEW k \in Ids, Commit(j, k), UNCHANGED <<st, era>>,
         stage[j] \notin {"none", "spawned"}
  PROVE  \A i \in Jobs : Present(i)' /\ id'[i] \in Maps => idEra'[i] = era'[i]
<1>1. Present(j) /\ ~Wiped(j) => w[j].era = era[j]
  BY DEF IdentityTypes, Identity, CopyCurrent
<1> QED
  BY <1>1 DEF IdentityTypes, Identity, NoResurrect, Commit, Present

LEMMA SnapshotCurrent ==
  ASSUME IdentityTypes, disk' \in {disk, Snapshot}
  PROVE  \A i \in Jobs : disk'[i] # NoRow =>
           (disk'[i].id \in Maps => disk'[i].idEra = disk'[i].era)
<1>1. CASE disk' = disk
  BY <1>1 DEF IdentityTypes, Identity, NoResurrect
<1>2. CASE disk' = Snapshot
  <2> SUFFICES ASSUME NEW i \in Jobs, disk'[i] # NoRow, disk'[i].id \in Maps
               PROVE  disk'[i].idEra = disk'[i].era
    OBVIOUS
  <2>1. Present(i) /\ disk'[i] = [st |-> st[i], id |-> id[i], idEra |-> idEra[i], era |-> era[i]]
    BY <1>2 DEF Snapshot
  <2> QED
    BY <2>1 DEF IdentityTypes, Identity, NoResurrect
<1> QED
  BY <1>1, <1>2

\* The rows and state.json: what each kind of step does to NoResurrect.
LEMMA ResurrectStep ==
  ASSUME IdentityTypes, [Next]_vars
  PROVE  NoResurrect'
<1> DEFINE Memory == \A i \in Jobs : Present(i)' /\ id'[i] \in Maps => idEra'[i] = era'[i]
           Stored == disk' \in {disk, Snapshot}
<1>0. \A j \in Jobs : st[j] = "unborn" => id[j] = "none"
  BY DEF IdentityTypes, Slots, Untouched
<1>1. ASSUME UNCHANGED <<id, idEra, era>>,
             \A j \in Jobs : Present(j)' => Present(j) \/ st[j] = "unborn"
      PROVE  Memory
  BY <1>0, <1>1 DEF IdentityTypes, Identity, NoResurrect, Maps
<1>2. ASSUME NEW j \in Jobs, Wipe(j),
             \A i \in Jobs \ {j} : Present(i)' => Present(i)
      PROVE  Memory
  BY <1>2 DEF Wipe, IdentityTypes, Identity, NoResurrect, Maps
<1>3. ASSUME Command PROVE Memory
  <2>1. ASSUME NEW j \in Jobs, Add(j) PROVE Memory
    BY <1>1, <2>1 DEF Add, ident, Present, IdentityTypes
  <2>2. ASSUME NEW j \in Jobs, Pause(j) \/ Resume(j) \/ Retry(j) PROVE Memory
    BY <1>1, <2>2 DEF Pause, Resume, Retry, ident, Present, IdentityTypes, Gone
  <2>3. ASSUME NEW j \in Jobs, Restart(j) PROVE Memory
    BY <1>1, <1>2, <2>3 DEF Restart, ident, Present, IdentityTypes
  <2>4. ASSUME NEW j \in Jobs, NEW d \in BOOLEAN, Cancel(j, d) PROVE Memory
    <3>1. Wipe(j) \/ UNCHANGED ident
      BY <2>4 DEF Cancel
    <3>2. \A i \in Jobs : Present(i)' => Present(i)
      BY <2>4 DEF Cancel, Present, IdentityTypes
    <3> QED
      BY <1>1, <1>2, <3>1, <3>2 DEF ident
  <2>5. ASSUME NEW j \in Jobs, NEW p \in BOOLEAN, NEW f \in BOOLEAN, Remove(j, p, f)
        PROVE  Memory
    BY <1>1, <2>5 DEF Remove, ident, Present, IdentityTypes, Gone
  <2>6. ASSUME PauseAll \/ Drain PROVE Memory
    BY <1>1, <2>6 DEF PauseAll, Drain, Unqueue, ident, Present, IdentityTypes, Gone
  <2>7. ASSUME ResumeAll \/ RetryAll PROVE Memory
    BY <1>1, <2>7 DEF ResumeAll, RetryAll, Revive, ident, Present, IdentityTypes, Gone
  <2>8. ASSUME NEW n \in 1 .. MaxConc, UpdateSettings(n) PROVE Memory
    BY <1>1, <2>8 DEF UpdateSettings, ident, Present
  <2> QED
    BY <1>3, <2>1, <2>2, <2>3, <2>4, <2>5, <2>6, <2>7, <2>8 DEF Command
<1>4. ASSUME SchedScan PROVE Memory
  BY <1>1, <1>4 DEF SchedScan, Startable, ident, Present, IdentityTypes, Gone
<1>5. ASSUME CommandTail \/ (Scheduler /\ ~SchedScan) \/ PersistWrite \/ UNCHANGED vars
      PROVE  Memory /\ Stored
  <2>1. UNCHANGED <<id, idEra, era, st>>
    BY <1>5 DEF CommandTail, CmdSaved, CmdDelete, CmdUnblock, DrainWait, DrainAck, DrainFails,
                Scheduler, SchedCheck, SchedPark, SchedNotified, SchedTimeout, PersistWrite,
                vars, inner, ident
  <2>2. Stored
    BY <1>5 DEF CommandTail, CmdSaved, CmdDelete, CmdUnblock, DrainWait, DrainAck, DrainFails,
                Scheduler, SchedCheck, SchedPark, SchedNotified, SchedTimeout, PersistWrite,
                vars
  <2> QED
    BY <1>1, <2>1, <2>2 DEF Present
<1>6. ASSUME NEW j \in Jobs, Steps(j) \/ Server(j), ~Finalize(j) PROVE Memory
  <2>1. \A i \in Jobs : Present(i)' => Present(i)
    BY <1>6 DEF Steps, Server, Spawned, Reconcile, Stat, Kick, KickStore, Plan, Open,
                StartFails, Fallback, XferDone, XferStop, XferFails, Move, Rename, Recheck,
                CommitFinal, Recheck2, Unlink, Error, RetryLater, Backoff, WorkerSaved,
                WorkerSaveFails, inner, CommitFrame, Present, IdentityTypes
  <2>2. ASSUME Plan(j) \/ StartFails(j) \/ Fallback(j) \/ XferStop(j) \/ XferFails(j)
                 \/ CommitFinal(j)
        PROVE  Memory
    <3>1. UNCHANGED <<st, era>> /\ stage[j] \notin {"none", "spawned"}
      BY <2>2 DEF Plan, StartFails, Fallback, XferStop, XferFails, CommitFinal, CommitFrame, At
    <3>2. UNCHANGED <<id, idEra>> \/ \E k \in Ids : Commit(j, k)
      BY <2>2, LocalsTyped DEF Plan, StartFails, Fallback, XferStop, XferFails, CommitFinal,
                               IdentityTypes, Typed, TypeOK, Ids, Maps
    <3> QED
      BY <1>1, <2>1, <3>1, <3>2, CommitCurrent
  <2>3. ASSUME ~(Plan(j) \/ StartFails(j) \/ Fallback(j) \/ XferStop(j) \/ XferFails(j)
                   \/ CommitFinal(j))
        PROVE  UNCHANGED <<id, idEra, era>>
    BY <1>6, <2>3 DEF Steps, Server, Spawned, Reconcile, Stat, Kick, KickStore, Open, XferDone,
                      Move, Rename, Recheck, Recheck2, Unlink, Error, RetryLater, Backoff,
                      WorkerSaved, WorkerSaveFails, inner, ident
  <2> QED
    BY <1>1, <2>1, <2>2, <2>3
<1>7. ASSUME NEW j \in Jobs, Finalize(j) PROVE Memory
  <2>1. UNCHANGED <<idEra, era>> /\ id' \in {id, [id EXCEPT ![j] = "none"]}
    BY <1>7 DEF Finalize
  <2>2. \A i \in Jobs : Present(i)' => Present(i)
    BY <1>7 DEF Finalize, Present, IdentityTypes
  <2> QED
    BY <2>1, <2>2 DEF IdentityTypes, Identity, NoResurrect, Maps
<1>8. ASSUME NEW j \in Jobs, Trail(j) PROVE Memory /\ Stored
  <2>1. UNCHANGED <<id, idEra, era, st>> /\ Stored
    BY <1>8 DEF Trail, TrailSaved, TrailDelete, TrailUnblock, inner, ident
  <2> QED
    BY <1>1, <2>1 DEF Present
<1>9. ASSUME Crash PROVE Memory /\ Stored
  <2>1. \A i \in Jobs : disk[i] # NoRow /\ disk[i].id \in Maps => disk[i].idEra = disk[i].era
    BY DEF IdentityTypes, Identity, NoResurrect
  <2>2. /\ id' = [i \in Jobs |-> IF disk[i] # NoRow THEN disk[i].id ELSE "none"]
        /\ idEra' = [i \in Jobs |-> IF disk[i] # NoRow THEN disk[i].idEra ELSE 0]
        /\ era' = [i \in Jobs |-> IF disk[i] # NoRow THEN disk[i].era ELSE 0]
        /\ disk' = disk
    BY <1>9 DEF Crash
  <2> QED
    BY <2>1, <2>2
<1>10. ASSUME Command \/ SchedScan PROVE Stored
  BY ZenonT(60), <1>10 DEF Command, Add, Pause, Resume, Retry, Restart, Cancel, Remove, PauseAll, Drain,
               ResumeAll, RetryAll, Revive, UpdateSettings, BeginOn, Begin, SchedScan
<1>11. ASSUME NEW j \in Jobs, Steps(j) \/ Server(j) PROVE Stored
  BY <1>11 DEF Steps, Server, Spawned, Reconcile, Stat, Kick, KickStore, Plan, Open,
               StartFails, Fallback, XferDone, XferStop, XferFails, Move, Rename, Recheck,
               CommitFinal, Recheck2, Unlink, Error, RetryLater, Backoff, WorkerSaved,
               WorkerSaveFails, Finalize, WorkerOnly, CommitFrame
<1>12. Memory /\ Stored
  BY <1>3, <1>4, <1>5, <1>6, <1>7, <1>8, <1>9, <1>10, <1>11 DEF Next
<1> QED
  BY <1>12, SnapshotCurrent DEF NoResurrect

LEMMA CopyStep == ASSUME IdentityTypes, [Next]_vars PROVE CopyCurrent'
<1>0. /\ \A j \in Jobs : st[j] = "unborn" => stage[j] = "none"
      /\ \A j \in Jobs : j \in active <=> stage[j] # "none"
      /\ \A j \in Jobs : j \in active \ requeue /\ Present(j) => st[j] \in Running
  BY DEF IdentityTypes, Slots, SlotOwned, Untouched
\* Rows, workers and flags in place: only a job that was never added appears.
<1>1. ASSUME UNCHANGED <<era, stage, w>>,
             \A j \in Jobs : Present(j)' => \/ st[j] = "unborn"
                                            \/ Present(j) /\ (Wiped(j) => Wiped(j)')
      PROVE  CopyCurrent'
  BY <1>0, <1>1 DEF IdentityTypes, Identity, CopyCurrent
<1>2. ASSUME NEW j \in Jobs, Wipe(j), UNCHANGED <<stage, w>>,
             stage[j] # "none" => Wiped(j)',
             \A i \in Jobs \ {j} : Present(i)' => Present(i) /\ (Wiped(i) => Wiped(i)')
      PROVE  CopyCurrent'
  BY <1>2 DEF Wipe, IdentityTypes, Identity, CopyCurrent
<1>3. ASSUME Command PROVE CopyCurrent'
  <2>0. UNCHANGED <<stage, w>>
    BY ZenonT(60), <1>3 DEF Command, Add, Pause, Resume, Retry, Restart, Cancel, Remove, PauseAll, Drain,
                ResumeAll, RetryAll, Revive, UpdateSettings, BeginOn, Begin, worker
  <2>1. ASSUME NEW j \in Jobs, Add(j) \/ Pause(j) \/ Resume(j) \/ Retry(j)
        PROVE  CopyCurrent'
    BY <1>1, <2>0, <2>1 DEF Add, Pause, Resume, Retry, ident, Present, Wiped, IdentityTypes, Gone
  <2>2. ASSUME NEW j \in Jobs, Restart(j) PROVE CopyCurrent'
    <3>1. requeue \subseteq requeue' /\ pendingPart \subseteq pendingPart'
          /\ (j \in active => j \in requeue')
      BY <2>2 DEF Restart
    <3>2. \A i \in Jobs : Present(i)' => Present(i)
      BY <2>2 DEF Restart, Present, IdentityTypes
    <3>3. Wipe(j) \/ UNCHANGED era
      BY <2>2 DEF Restart, ident
    <3> QED
      BY <1>0, <1>1, <1>2, <2>0, <3>1, <3>2, <3>3 DEF Wiped
  <2>3. ASSUME NEW j \in Jobs, NEW d \in BOOLEAN, Cancel(j, d) PROVE CopyCurrent'
    <3>1. requeue' = requeue /\ pendingPart \subseteq pendingPart'
      BY <2>3 DEF Cancel
    <3>2. \A i \in Jobs : Present(i)' => Present(i)
      BY <2>3 DEF Cancel, Present, IdentityTypes
    <3>3. UNCHANGED era \/ (Wipe(j) /\ Present(j) /\ d)
      BY <2>3 DEF Cancel, ident
    <3>4. Present(j) /\ d /\ j \in active /\ st[j] \notin Terminal => j \in pendingPart'
      BY <2>3 DEF Cancel
    <3>5. Present(j) /\ j \in active => j \in requeue \/ st[j] \notin Terminal
      BY <1>0 DEF Running, Terminal
    <3> QED
      BY <1>0, <1>1, <1>2, <2>0, <3>1, <3>2, <3>3, <3>4, <3>5 DEF Wiped
  <2>4. ASSUME NEW j \in Jobs, NEW p \in BOOLEAN, NEW f \in BOOLEAN, Remove(j, p, f)
        PROVE  CopyCurrent'
    <3>1. ~Present(j)' /\ UNCHANGED era
      BY <2>4 DEF Remove, Present, Gone, IdentityTypes, ident
    <3>2. \A i \in Jobs \ {j} : Present(i)' => Present(i)
      BY <2>4 DEF Remove, Present, IdentityTypes
    <3>3. \A i \in Jobs \ {j} : Wiped(i) => Wiped(i)'
      BY <2>4 DEF Remove, Wiped
    <3> QED
      BY <1>1, <2>0, <3>1, <3>2, <3>3
  <2>5. ASSUME PauseAll \/ Drain PROVE CopyCurrent'
    BY <1>1, <2>0, <2>5 DEF PauseAll, Drain, Unqueue, ident, Present, Wiped, IdentityTypes, Gone
  <2>6. ASSUME ResumeAll \/ RetryAll PROVE CopyCurrent'
    BY <1>1, <2>0, <2>6
       DEF ResumeAll, RetryAll, Revive, ident, Present, Wiped, IdentityTypes, Gone
  <2>7. ASSUME NEW n \in 1 .. MaxConc, UpdateSettings(n) PROVE CopyCurrent'
    BY <1>1, <2>0, <2>7 DEF UpdateSettings, ident, Present, Wiped
  <2> QED
    BY <1>3, <2>1, <2>2, <2>3, <2>4, <2>5, <2>6, <2>7 DEF Command
<1>4. ASSUME SchedScan PROVE CopyCurrent'
  BY <1>4 DEF SchedScan, Startable, ident, flags, Present, Wiped, IdentityTypes, Identity,
              CopyCurrent, Gone
<1>5. ASSUME CmdUnblock PROVE CopyCurrent'
  <2>1. /\ UNCHANGED <<st, era, stage, w, requeue>> /\ pendingPart' = pendingPart \ {cmd.job}
        /\ cmd.unblock
    BY <1>5 DEF CmdUnblock, ident, worker, IdentityTypes, Identity, RestartTail
  <2>2. cmd.job \in active /\ Present(cmd.job) => pendingPart' = pendingPart
    BY <2>1 DEF IdentityTypes, Identity, RestartTail
  <2> QED
    BY <1>0, <2>1, <2>2 DEF IdentityTypes, Identity, CopyCurrent, Present, Wiped
<1>6. ASSUME (CommandTail /\ ~CmdUnblock) \/ (Scheduler /\ ~SchedScan) \/ PersistWrite
               \/ UNCHANGED vars
      PROVE  CopyCurrent'
  <2>1. UNCHANGED <<st, era, stage, w, requeue, pendingPart>>
    BY <1>6 DEF CommandTail, CmdSaved, CmdDelete, DrainWait, DrainAck, DrainFails, Scheduler,
                SchedCheck, SchedPark, SchedNotified, SchedTimeout, PersistWrite, vars, inner,
                ident, worker
  <2> QED
    BY <1>1, <2>1 DEF Present, Wiped
<1>7. ASSUME NEW j \in Jobs, Steps(j) \/ Server(j), ~Finalize(j) PROVE CopyCurrent'
  <2>1. UNCHANGED <<era, requeue, pendingPart>>
    BY <1>7 DEF Steps, Server, Spawned, Reconcile, Stat, Kick, KickStore, Plan, Open, StartFails,
                Fallback, XferDone, XferStop, XferFails, Move, Rename, Recheck, CommitFinal,
                Recheck2, Unlink, Error, RetryLater, Backoff, WorkerSaved, WorkerSaveFails,
                CommitFrame, inner, ident, flags
  <2>2. \A i \in Jobs : Present(i)' => Present(i)
    BY <1>7 DEF Steps, Server, Spawned, Reconcile, Stat, Kick, KickStore, Plan, Open,
                StartFails, Fallback, XferDone, XferStop, XferFails, Move, Rename, Recheck,
                CommitFinal, Recheck2, Unlink, Error, RetryLater, Backoff, WorkerSaved,
                WorkerSaveFails, inner, CommitFrame, Present, IdentityTypes
  <2>3. \A i \in Jobs \ {j} : w'[i] = w[i] /\ stage'[i] = stage[i]
    <3>1. UNCHANGED w \/ \E l : w' = [w EXCEPT ![j] = l]
      BY <1>7 DEF Steps, Server, Spawned, Reconcile, Stat, Kick, KickStore, Plan, Open,
                  StartFails, Fallback, XferDone, XferStop, XferFails, Move, Rename, Recheck,
                  CommitFinal, Recheck2, Unlink, Error, RetryLater, Backoff, WorkerSaved,
                  WorkerSaveFails, End
    <3>2. UNCHANGED stage \/ \E s : stage' = [stage EXCEPT ![j] = s]
      BY <1>7 DEF Steps, Server, Spawned, Reconcile, Stat, Kick, KickStore, Plan, Open,
                  StartFails, Fallback, XferDone, XferStop, XferFails, Move, Rename, Recheck,
                  CommitFinal, Recheck2, Unlink, Error, RetryLater, Backoff, WorkerSaved,
                  WorkerSaveFails, End, Goto
    <3> QED
      BY <3>1, <3>2 DEF IdentityTypes
  <2>4. \/ w'[j].era = era[j]
        \/ stage[j] \notin {"none", "spawned"} /\ w'[j].era = w[j].era
        \/ stage'[j] \in {"none", "spawned"} \/ ~Present(j)
    <3>1. ASSUME Spawned(j) PROVE w'[j].era = era[j] \/ ~Present(j)
      <4>1. CASE Present(j)
        <5>1. w' = [w EXCEPT ![j] = [NoLocals EXCEPT !.id = id[j], !.era = era[j]]]
          BY <3>1, <4>1 DEF Spawned
        <5> QED
          BY <5>1 DEF IdentityTypes, NoLocals
      <4> QED
        BY <4>1
    <3>2. ASSUME Stat(j) \/ Backoff(j)
          PROVE  w'[j].era = era[j] \/ (stage[j] # "none" /\ stage[j] # "spawned"
                                          /\ w'[j].era = w[j].era)
      BY <3>2 DEF Stat, Backoff, At, End, IdentityTypes, WorkerLocals
    <3>3. ASSUME Reconcile(j) \/ Kick(j) \/ KickStore(j) \/ Plan(j) \/ Open(j) \/ StartFails(j)
                   \/ Fallback(j) \/ XferDone(j) \/ XferStop(j) \/ XferFails(j) \/ Move(j)
                   \/ Rename(j) \/ Recheck(j) \/ CommitFinal(j) \/ Recheck2(j) \/ Unlink(j)
                   \/ Error(j) \/ RetryLater(j)
          PROVE  stage[j] \notin {"none", "spawned"}
      BY <3>3 DEF Reconcile, Kick, KickStore, Plan, Open, StartFails, Fallback, XferDone,
                  XferStop, XferFails, Move, Rename, Recheck, CommitFinal, Recheck2, Unlink,
                  Error, RetryLater, At
    <3>4. ASSUME ~Spawned(j), ~Stat(j), ~Backoff(j) PROVE w'[j].era = w[j].era
      BY <1>7, <3>4
         DEF Steps, Server, Reconcile, Kick, KickStore, Plan, Open, StartFails, Fallback,
             XferDone, XferStop, XferFails, Move, Rename, Recheck, CommitFinal, Recheck2, Unlink,
             Error, RetryLater, WorkerSaved, WorkerSaveFails, End, IdentityTypes, WorkerLocals
    <3>5. ASSUME WorkerSaved(j) \/ WorkerSaveFails(j)
          PROVE  stage[j] \notin {"none", "spawned"}
      BY <3>5 DEF WorkerSaved, WorkerSaveFails, IdentityTypes, Slots, Savers
    <3> QED
      BY <1>7, <3>1, <3>2, <3>3, <3>4, <3>5 DEF Steps, Server
  <2> QED
    BY <2>1, <2>2, <2>3, <2>4 DEF IdentityTypes, Identity, CopyCurrent, Wiped
<1>8. ASSUME NEW j \in Jobs, Finalize(j) PROVE CopyCurrent'
  <2>1. /\ stage' = [stage EXCEPT ![j] = "none"] /\ w' = [w EXCEPT ![j] = NoLocals]
        /\ UNCHANGED era /\ requeue \ {j} \subseteq requeue' /\ pendingPart \ {j} \subseteq pendingPart'
    BY <1>8 DEF Finalize, Goto
  <2>2. \A i \in Jobs : Present(i)' => Present(i)
    BY <1>8 DEF Finalize, Present, IdentityTypes
  <2> QED
    BY <2>1, <2>2 DEF IdentityTypes, Identity, CopyCurrent, Wiped
<1>9. ASSUME NEW j \in Jobs, NEW r \in trail[j], TrailUnblock(j, r) PROVE CopyCurrent'
  <2>1. /\ UNCHANGED <<st, era, stage, w>>
        /\ requeue' = requeue \ {j} /\ pendingPart' = pendingPart \ {j}
    BY <1>9 DEF TrailUnblock, ident, worker
  <2>2. Present(j) => stage[j] = "none"
    BY <1>0, <1>9 DEF TrailUnblock, IdentityTypes, Slots, Unblocks, Deferred
  <2> QED
    BY <2>1, <2>2 DEF IdentityTypes, Identity, CopyCurrent, Wiped, Present
<1>10. ASSUME NEW j \in Jobs, NEW r \in trail[j], TrailSaved(j, r) \/ TrailDelete(j, r)
       PROVE  CopyCurrent'
  <2>1. UNCHANGED <<st, era, stage, w, requeue, pendingPart>>
    BY <1>10 DEF TrailSaved, TrailDelete, inner, ident, worker
  <2> QED
    BY <1>1, <2>1 DEF Present, Wiped
<1>11. ASSUME Crash PROVE CopyCurrent'
  BY <1>11 DEF Crash, CopyCurrent
<1> QED
  BY <1>3, <1>4, <1>5, <1>6, <1>7, <1>8, <1>9, <1>10, <1>11 DEF Next, Trail

LEMMA RestartTailStep == ASSUME IdentityTypes, [Next]_vars PROVE RestartTail'
<1>0. /\ cmd \in CmdRecords
      /\ cmd.stage = "unblock" => cmd.unblock
      /\ cmd.unblock /\ cmd.job \in active /\ Present(cmd.job) => cmd.job \notin pendingPart
  BY DEF IdentityTypes, Identity, RestartTail
\* The same command goes on, with no new worker, no new flag and no new row.
<1>1. ASSUME cmd' = cmd \/ (\E s : cmd' = [cmd EXCEPT !.stage = s] /\ (s = "unblock" => cmd.unblock)),
             active' \subseteq active, pendingPart' \subseteq pendingPart,
             \A j \in Jobs : Present(j)' => Present(j)
      PROVE  RestartTail'
  <2>1. cmd'.job = cmd.job /\ cmd'.unblock = cmd.unblock
        /\ (cmd'.stage = "unblock" => cmd.unblock)
    BY <1>0, <1>1 DEF CmdRecords
  <2> QED
    BY <1>0, <1>1, <2>1 DEF RestartTail, IdentityTypes, Typed, TypeOK, TypeInner
<1>2. ASSUME cmd' = Idle PROVE RestartTail'
  BY <1>2 DEF RestartTail, Idle
<1>3. ASSUME NEW op, NEW j, NEW p, NEW o, Tail(op, j, p, o, FALSE) PROVE RestartTail'
  BY <1>3 DEF Tail, RestartTail
<1>4. ASSUME Command PROVE RestartTail'
  <2>1. ASSUME NEW j \in Jobs, Add(j) \/ Pause(j) \/ Resume(j) \/ Retry(j) PROVE RestartTail'
    BY <1>2, <1>3, <2>1 DEF Add, Pause, Resume, Retry, Save, Done
  <2>2. ASSUME NEW j \in Jobs, Restart(j) PROVE RestartTail'
    <3>1. cmd'.stage = "save" /\ cmd'.job = j /\ cmd'.unblock = (j \notin active)
          /\ active' = active
      BY <2>2 DEF Restart, Tail
    <3> QED
      BY <3>1 DEF RestartTail
  <2>3. ASSUME NEW j \in Jobs, NEW d \in BOOLEAN, Cancel(j, d) PROVE RestartTail'
    BY <1>2, <1>3, <2>3 DEF Cancel, Done
  <2>4. ASSUME NEW j \in Jobs, NEW p \in BOOLEAN, NEW f \in BOOLEAN, Remove(j, p, f)
        PROVE  RestartTail'
    BY <1>3, <2>4 DEF Remove
  <2>5. ASSUME Drain PROVE RestartTail'
    BY <2>5 DEF Drain, Idle, RestartTail
  <2>6. ASSUME PauseAll \/ ResumeAll \/ RetryAll PROVE RestartTail'
    BY <1>2, <1>3, <2>6 DEF PauseAll, ResumeAll, RetryAll, Revive, Save, Done
  <2>7. ASSUME NEW n \in 1 .. MaxConc, UpdateSettings(n) PROVE RestartTail'
    BY <1>2, <2>7 DEF UpdateSettings, Done
  <2> QED
    BY <1>4, <2>1, <2>2, <2>3, <2>4, <2>5, <2>6, <2>7 DEF Command
<1>5. ASSUME CommandTail PROVE RestartTail'
  <2>1. /\ active' \subseteq active /\ pendingPart' \subseteq pendingPart
        /\ \A j \in Jobs : Present(j)' => Present(j)
    BY <1>5 DEF CommandTail, CmdSaved, CmdDelete, CmdUnblock, DrainWait, DrainAck, DrainFails,
                inner, Present
  <2>2. \/ cmd' = cmd \/ cmd' = Idle
        \/ \E s : cmd' = [cmd EXCEPT !.stage = s] /\ (s = "unblock" => cmd.unblock)
    BY <1>5 DEF CommandTail, CmdSaved, CmdDelete, CmdUnblock, DrainWait, DrainAck, DrainFails,
                Done
  <2> QED
    BY <1>1, <1>2, <2>1, <2>2
<1>6. ASSUME SchedScan PROVE RestartTail'
  <2>1. PICK S \in SUBSET {j \in Jobs : Startable(j)} :
          /\ active' = active \cup S
          /\ st' = [j \in Jobs |-> IF j \in S THEN "Starting" ELSE st[j]]
    BY <1>6 DEF SchedScan
  <2>2. UNCHANGED <<cmd, pendingPart>>
    BY <1>6 DEF SchedScan, flags
  <2>3. \A j \in S : j \notin pendingPart
    BY <2>1 DEF Startable, Wiped
  <2>4. active \subseteq Jobs
    BY DEF IdentityTypes, Typed, TypeOK, TypeInner
  <2> QED
    BY <1>0, <2>1, <2>2, <2>3, <2>4 DEF RestartTail, Present, IdentityTypes, Gone
<1>7. ASSUME (Scheduler /\ ~SchedScan) \/ PersistWrite \/ UNCHANGED vars PROVE RestartTail'
  <2>1. UNCHANGED <<cmd, active, pendingPart, st>>
    BY <1>7 DEF Scheduler, SchedCheck, SchedPark, SchedNotified, SchedTimeout, PersistWrite,
                vars, inner, tasks
  <2> QED
    BY <1>1, <2>1 DEF Present
<1>8. ASSUME NEW j \in Jobs, Steps(j) \/ Server(j) PROVE RestartTail'
  <2>1. UNCHANGED cmd /\ active' \subseteq active /\ pendingPart' \subseteq pendingPart
    BY <1>8 DEF Steps, Server, Spawned, Reconcile, Stat, Kick, KickStore, Plan, Open,
                StartFails, Fallback, XferDone, XferStop, XferFails, Move, Rename, Recheck,
                CommitFinal, Recheck2, Unlink, Error, RetryLater, Backoff, WorkerSaved,
                WorkerSaveFails, Finalize, WorkerOnly, CommitFrame, inner, flags, tasks
  <2>2. \A i \in Jobs : Present(i)' => Present(i)
    BY <1>8 DEF Steps, Server, Spawned, Reconcile, Stat, Kick, KickStore, Plan, Open,
                StartFails, Fallback, XferDone, XferStop, XferFails, Move, Rename, Recheck,
                CommitFinal, Recheck2, Unlink, Error, RetryLater, Backoff, WorkerSaved,
                WorkerSaveFails, Finalize, inner, CommitFrame, Present, IdentityTypes
  <2> QED
    BY <1>1, <2>1, <2>2
<1>9. ASSUME NEW j \in Jobs, Trail(j) PROVE RestartTail'
  <2>1. UNCHANGED <<cmd, active, st>> /\ pendingPart' \subseteq pendingPart
    BY <1>9 DEF Trail, TrailSaved, TrailDelete, TrailUnblock, inner
  <2> QED
    BY <1>1, <2>1 DEF Present
<1>10. ASSUME Crash PROVE RestartTail'
  BY <1>2, <1>10 DEF Crash
<1> QED
  BY <1>4, <1>5, <1>6, <1>7, <1>8, <1>9, <1>10 DEF Next

LEMMA IdentityStep == ASSUME Typed, Slots, Identity, [Next]_vars PROVE Identity'
<1>1. IdentityTypes
  BY IdentityFacts
<1> QED
  BY <1>1, ResurrectStep, CopyStep, RestartTailStep DEF Identity

LEMMA InitIdentity == ASSUME Init PROVE Identity
<1>1. /\ idEra = [j \in Jobs |-> 0] /\ era = [j \in Jobs |-> 0] /\ cmd = Idle
      /\ stage = [j \in Jobs |-> "none"]
  BY DEF Init
<1>2. \A j \in Jobs : disk[j] # NoRow => disk[j].idEra = disk[j].era
  BY DEF Init
<1> QED
  BY <1>1, <1>2 DEF Identity, NoResurrect, CopyCurrent, RestartTail, Idle

LEMMA IdentityAlways == Spec => [](Typed /\ Slots /\ Identity)
<1>1. Init => Typed /\ Slots /\ Identity
  BY InitTyped, InitSlots, InitIdentity
<1>2. Typed /\ Slots /\ Identity /\ [Next]_vars => (Typed /\ Slots /\ Identity)'
  BY TypedStep, SlotsStep, IdentityStep
<1> QED
  BY <1>1, <1>2, PTL DEF Spec

\* No segment map that a Restart or a cancel-with-delete wiped comes back, in
\* memory or in state.json, however late the commit of the old worker is.
THEOREM WipedStaysWiped == Spec => []NoResurrect
<1>1. Identity => NoResurrect
  BY DEF Identity
<1> QED
  BY <1>1, IdentityAlways, PTL
-----------------------------------------------------------------------------
(* Credentials.  A row that fails without a worker had a broken map, and    *)
(* such a row was loaded, so it never had credentials.                      *)

BrokenLoaded == \A j \in Jobs : id[j] = "broken" \/ w[j].id = "broken" => j \notin auth

Credentials == CredentialsDropped /\ BrokenLoaded

LEMMA CredentialsStep == ASSUME Typed, Slots, Credentials, [Next]_vars PROVE Credentials'
<1>0. /\ st \in [Jobs -> JobState \cup Gone] /\ id \in [Jobs -> Ids] /\ auth \subseteq Jobs
      /\ w \in [Jobs -> WorkerLocals] /\ Slots /\ Credentials
  BY DEF Typed, TypeOK, TypeInner, TypeWorker
<1> DEFINE Broken(j) == id[j] = "broken" \/ w[j].id = "broken"
           Terminated(j) == st[j] \in Terminal
\* No credentials appear, no slot goes, no row of theirs ends or breaks.
<1>1. ASSUME auth' \subseteq auth, active \subseteq active',
             \A j \in auth' : /\ Present(j)'
                              /\ Terminated(j)' => Terminated(j)
                              /\ Broken(j)' => Broken(j)
      PROVE  Credentials'
  BY <1>0, <1>1 DEF Credentials, CredentialsDropped, BrokenLoaded
<1>2. \A j \in auth : Present(j) /\ st[j] # "unborn" /\ st[j] # "removed"
  BY <1>0 DEF Credentials, CredentialsDropped, Present, Gone
<1>3. ASSUME Command PROVE Credentials'
  <2>0. UNCHANGED <<active, w>>
    BY ZenonT(60), <1>3 DEF Command, Add, Pause, Resume, Retry, Restart, Cancel, Remove, PauseAll, Drain,
                ResumeAll, RetryAll, Revive, UpdateSettings, BeginOn, Begin, worker
  <2>1. ASSUME NEW j \in Jobs, Add(j) PROVE Credentials'
    <3>1. /\ st[j] = "unborn" /\ st' = [st EXCEPT ![j] = "Queued"] /\ UNCHANGED id
          /\ auth' \in {auth, auth \cup {j}}
      BY <2>1 DEF Add, ident
    <3>2. id[j] = "none" /\ w[j].id = "none"
      BY <1>0, <3>1 DEF Slots, Untouched
    <3> QED
      BY <1>0, <1>2, <2>0, <3>1, <3>2
         DEF Credentials, CredentialsDropped, BrokenLoaded, Present, Gone, Terminal
  <2>2. ASSUME NEW j \in Jobs, Pause(j) PROVE Credentials'
    <3>1. UNCHANGED <<auth, id>> /\ st' \in {st, [st EXCEPT ![j] = "Paused"]}
      BY <2>2 DEF Pause, ident
    <3> QED
      BY <1>0, <1>1, <1>2, <2>0, <3>1 DEF Present, Gone, Terminal
  <2>3. ASSUME NEW j \in Jobs, Resume(j) \/ Retry(j) PROVE Credentials'
    <3>1. UNCHANGED <<auth, id>>
      BY <2>3 DEF Resume, Retry, ident
    <3>2. st' = st \/ st' = [st EXCEPT ![j] = Requeued(j)]
      BY <2>3 DEF Resume, Retry
    <3>3. j \in auth => Requeued(j) = "Queued"
      BY <1>0 DEF Credentials, BrokenLoaded, Requeued
    <3> QED
      BY <1>0, <1>1, <1>2, <2>0, <3>1, <3>2, <3>3 DEF Present, Gone, Terminal
  <2>4. ASSUME NEW j \in Jobs, Restart(j) PROVE Credentials'
    <3>1. UNCHANGED auth /\ st' \in {st, [st EXCEPT ![j] = "Queued"]}
      BY <2>4 DEF Restart
    <3>2. id' \in {id, [id EXCEPT ![j] = "none"]}
      BY <2>4 DEF Restart, Wipe, ident
    <3> QED
      BY <1>0, <1>1, <1>2, <2>0, <3>1, <3>2 DEF Present, Gone, Terminal
  <2>5. ASSUME NEW j \in Jobs, NEW d \in BOOLEAN, Cancel(j, d) PROVE Credentials'
    <3>1. \/ UNCHANGED <<st, auth>>
          \/ st[j] \in Terminal /\ UNCHANGED <<st, auth>>
          \/ j \in active /\ st' \in {st, [st EXCEPT ![j] = "Canceled"]} /\ UNCHANGED auth
          \/ auth' = auth \ {j} /\ st' \in {st, [st EXCEPT ![j] = "Canceled"]}
      BY <2>5 DEF Cancel
    <3>2. id' \in {id, [id EXCEPT ![j] = "none"]}
      <4>1. Wipe(j) \/ UNCHANGED ident
        BY <2>5 DEF Cancel
      <4> QED
        BY <4>1 DEF Wipe, ident
    <3> QED
      BY <1>0, <2>0, <3>1, <3>2
         DEF Credentials, CredentialsDropped, BrokenLoaded, Present, Gone, Terminal
  <2>6. ASSUME NEW j \in Jobs, NEW p \in BOOLEAN, NEW f \in BOOLEAN, Remove(j, p, f)
        PROVE  Credentials'
    <3>1. /\ auth' = auth \ {j} /\ UNCHANGED id
          /\ \A i \in Jobs \ {j} : st'[i] = st[i]
      BY <1>0, <2>6 DEF Remove, ident
    <3> QED
      BY <1>0, <1>1, <1>2, <2>0, <3>1 DEF Present, Gone
  <2>7. ASSUME PauseAll \/ Drain PROVE Credentials'
    BY <1>0, <1>1, <1>2, <2>0, <2>7
       DEF PauseAll, Drain, Unqueue, ident, Present, Gone, Terminal
  <2>8. ASSUME NEW op, NEW from, Revive(op, from) PROVE Credentials'
    <3>1. UNCHANGED <<auth, id>>
          /\ st' = [j \in Jobs |-> IF st[j] \in from THEN Requeued(j) ELSE st[j]]
      BY <2>8 DEF Revive, ident
    <3>2. \A j \in auth : Requeued(j) = "Queued"
      BY <1>0 DEF Credentials, BrokenLoaded, Requeued
    <3> QED
      BY <1>0, <1>1, <1>2, <2>0, <3>1, <3>2 DEF Present, Gone, Terminal
  <2>9. ASSUME NEW n \in 1 .. MaxConc, UpdateSettings(n) PROVE Credentials'
    BY <1>1, <1>2, <2>0, <2>9 DEF UpdateSettings, ident, Present
  <2> QED
    BY <1>3, <2>1, <2>2, <2>3, <2>4, <2>5, <2>6, <2>7, <2>8, <2>9 DEF Command, ResumeAll, RetryAll
<1>4. ASSUME SchedScan PROVE Credentials'
  <2>1. PICK S \in SUBSET Jobs :
          /\ st' = [j \in Jobs |-> IF j \in S THEN "Starting" ELSE st[j]]
          /\ active' = active \cup S
    BY <1>4 DEF SchedScan
  <2>2. UNCHANGED <<auth, id>> /\ UNCHANGED w
    BY <1>4 DEF SchedScan, ident
  <2> QED
    BY <1>0, <1>1, <1>2, <2>1, <2>2 DEF Present, Gone, Terminal
<1>5. ASSUME CommandTail \/ (Scheduler /\ ~SchedScan) \/ PersistWrite \/ UNCHANGED vars
      PROVE  UNCHANGED <<st, id, auth, active, w>>
  BY <1>5 DEF CommandTail, CmdSaved, CmdDelete, CmdUnblock, DrainWait, DrainAck, DrainFails,
              Scheduler, SchedCheck, SchedPark, SchedNotified, SchedTimeout, PersistWrite, vars,
              inner, ident, worker
<1>6. ASSUME NEW j \in Jobs, Trail(j) PROVE UNCHANGED <<st, id, auth, active, w>>
  BY <1>6 DEF Trail, TrailSaved, TrailDelete, TrailUnblock, inner, ident, worker
<1>7. ASSUME UNCHANGED <<st, id, auth, active, w>> PROVE Credentials'
  BY <1>1, <1>2, <1>7 DEF Present
<1>8. ASSUME NEW j \in Jobs, Steps(j) \/ Server(j), ~Finalize(j) PROVE Credentials'
  <2>1. UNCHANGED <<auth, active>>
    BY <1>8 DEF Steps, Server, Spawned, Reconcile, Stat, Kick, KickStore, Plan, Open, StartFails,
                Fallback, XferDone, XferStop, XferFails, Move, Rename, Recheck, CommitFinal,
                Recheck2, Unlink, Error, RetryLater, Backoff, WorkerSaved, WorkerSaveFails,
                CommitFrame, inner, flags
  <2>2. UNCHANGED st \/ (Present(j) /\ \E s \in Running : st' = [st EXCEPT ![j] = s])
    BY <1>8 DEF Steps, Server, Spawned, Reconcile, Stat, Kick, KickStore, Plan, Open, StartFails,
                Fallback, XferDone, XferStop, XferFails, Move, Rename, Recheck, CommitFinal,
                Recheck2, Unlink, Error, RetryLater, Backoff, WorkerSaved, WorkerSaveFails,
                CommitFrame, inner, Running
  <2>3. \/ UNCHANGED id
        \/ \E k \in {w[j].id, "none", "mapped", "written", "broken"} :
             id' = [id EXCEPT ![j] = k] /\ (k = "broken" => Broken(j))
    BY <1>8 DEF Steps, Server, Spawned, Reconcile, Stat, Kick, KickStore, Plan, Open, StartFails,
                Fallback, XferDone, XferStop, XferFails, Move, Rename, Recheck, CommitFinal,
                Recheck2, Unlink, Error, RetryLater, Backoff, WorkerSaved, WorkerSaveFails,
                Commit, inner, ident
  <2>4. \A i \in Jobs : w'[i].id = "broken" => Broken(i)
    <3>1. UNCHANGED w \/ \E l : w' = [w EXCEPT ![j] = l]
      BY <1>8 DEF Steps, Server, Spawned, Reconcile, Stat, Kick, KickStore, Plan, Open,
                  StartFails, Fallback, XferDone, XferStop, XferFails, Move, Rename, Recheck,
                  CommitFinal, Recheck2, Unlink, Error, RetryLater, Backoff, WorkerSaved,
                  WorkerSaveFails, End
    <3>2. ASSUME Spawned(j) \/ Stat(j) \/ Plan(j) \/ Fallback(j) \/ Backoff(j)
          PROVE  w'[j].id = "broken" => Broken(j)
      <4>1. ASSUME Spawned(j) PROVE w'[j].id = "broken" => Broken(j)
        <5>1. w' = [w EXCEPT ![j] = IF Present(j) THEN [NoLocals EXCEPT !.id = id[j], !.era = era[j]]
                                    ELSE NoLocals]
          BY <4>1 DEF Spawned
        <5>2. CASE Present(j)
          BY <1>0, <5>1, <5>2 DEF NoLocals
        <5>3. CASE ~Present(j)
          BY <1>0, <5>1, <5>3 DEF NoLocals
        <5> QED
          BY <5>2, <5>3
      <4>2. ASSUME Stat(j) \/ Backoff(j) PROVE w'[j].id = "broken" => Broken(j)
        BY <1>0, <4>2 DEF Stat, Backoff, End, WorkerLocals
      <4>3. ASSUME Plan(j) \/ Fallback(j) PROVE w'[j].id = "broken" => Broken(j)
        BY <1>0, <4>3 DEF Plan, Fallback, End, WorkerLocals
      <4> QED
        BY <3>2, <4>1, <4>2, <4>3
    <3>3. ASSUME ~(Spawned(j) \/ Stat(j) \/ Plan(j) \/ Fallback(j) \/ Backoff(j))
          PROVE  w'[j].id = w[j].id
      BY <1>0, <1>8, <3>3
         DEF Steps, Server, Reconcile, Kick, KickStore, Open, StartFails, XferDone, XferStop,
             XferFails, Move, Rename, Recheck, CommitFinal, Recheck2, Unlink, Error, RetryLater,
             WorkerSaved, WorkerSaveFails, End, WorkerLocals
    <3> QED
      BY <1>0, <3>1, <3>2, <3>3
  <2>5. \A i \in Jobs : id'[i] = "broken" => Broken(i)
    BY <1>0, <2>3
  <2>6. \A i \in auth : Present(i)' /\ (Terminated(i)' => Terminated(i))
    BY <1>0, <1>2, <2>2 DEF Present, Gone, Running, Terminal
  <2> QED
    BY <1>0, <1>1, <2>1, <2>4, <2>5, <2>6
<1>9. ASSUME NEW j \in Jobs, Finalize(j) PROVE Credentials'
  <2>1. /\ active' = active \ {j} /\ w' = [w EXCEPT ![j] = NoLocals]
        /\ id' \in {id, [id EXCEPT ![j] = "none"]}
        /\ st' = IF Present(j) THEN [st EXCEPT ![j] = Outcome(j)] ELSE st
        /\ auth' = IF Outcome(j) \in {"Queued", "Paused"} THEN auth ELSE auth \ {j}
    BY <1>9 DEF Finalize, KeepsAuth
  <2> QED
    BY <1>0, <2>1 DEF Credentials, CredentialsDropped, BrokenLoaded, Present, Gone, Terminal,
                      NoLocals
<1>10. ASSUME Crash PROVE Credentials'
  BY <1>10 DEF Crash, Credentials, CredentialsDropped, BrokenLoaded
<1> QED
  BY <1>3, <1>4, <1>5, <1>6, <1>7, <1>8, <1>9, <1>10 DEF Next

\* Handoff credentials are dropped with the job: none is kept for a job that
\* left the list, or that ended and has no worker.
THEOREM CredentialsAreDropped == Spec => []CredentialsDropped
<1>1. Init => Typed /\ Slots /\ Credentials
  <2>1. Init => auth = {}
    BY DEF Init
  <2> QED
    BY <2>1, InitTyped, InitSlots DEF Credentials, CredentialsDropped, BrokenLoaded
<1>2. Typed /\ Slots /\ Credentials /\ [Next]_vars => (Typed /\ Slots /\ Credentials)'
  BY TypedStep, SlotsStep, CredentialsStep
<1>3. Credentials => CredentialsDropped
  BY DEF Credentials
<1> QED
  BY <1>1, <1>2, <1>3, PTL DEF Spec
-----------------------------------------------------------------------------
(* Stops.  By the time a worker may store Continue into its control, its    *)
(* row is no longer Starting, unless the row is being restarted.            *)

KickedLater ==
  \A j \in Jobs : stage[j] \in {"kick", "kickstore"} /\ st[j] = "Starting" => j \in requeue

LEMMA KickedCommand == ASSUME Typed, KickedLater, Command PROVE KickedLater'
<1>0. st \in [Jobs -> JobState \cup Gone] /\ KickedLater
  BY DEF Typed, TypeOK, TypeInner
<1>1. UNCHANGED stage
  BY ZenonT(60) DEF Command, Add, Pause, Resume, Retry, Restart, Cancel, Remove, PauseAll, Drain,
         ResumeAll, RetryAll, Revive, UpdateSettings, BeginOn, Begin, worker
<1> DEFINE Kept(i) == st'[i] = "Starting" => st[i] = "Starting" /\ (i \in requeue => i \in requeue')
<1>2. ASSUME NEW j \in Jobs,
             Add(j) \/ Pause(j) \/ Resume(j) \/ Retry(j) \/ \E delete \in BOOLEAN : Cancel(j, delete)
      PROVE  \A i \in Jobs : Kept(i)
  BY <1>0, <1>2 DEF Add, Pause, Resume, Retry, Requeued, Cancel
<1>3. ASSUME NEW j \in Jobs, Restart(j) PROVE \A i \in Jobs : Kept(i)
  BY <1>0, <1>3 DEF Restart
<1>4. ASSUME NEW j \in Jobs, \E p, f \in BOOLEAN : Remove(j, p, f)
      PROVE  \A i \in Jobs : Kept(i)
  BY <1>0, <1>4 DEF Remove, Present, Gone
<1>5. ASSUME PauseAll \/ Drain \/ ResumeAll \/ RetryAll
                \/ \E n \in 1 .. MaxConc : UpdateSettings(n)
      PROVE  \A i \in Jobs : Kept(i)
  BY <1>0, <1>5 DEF PauseAll, Drain, Unqueue, ResumeAll, RetryAll, Revive, Requeued, UpdateSettings
<1>6. \A i \in Jobs : Kept(i)
  BY <1>2, <1>3, <1>4, <1>5 DEF Command
<1> QED
  BY <1>0, <1>1, <1>6 DEF KickedLater

LEMMA KickedWorker ==
  ASSUME Typed, KickedLater, NEW j \in Jobs, Steps(j) \/ Server(j)
  PROVE  KickedLater'
<1>0. st \in [Jobs -> JobState \cup Gone] /\ stage \in [Jobs -> Stages] /\ KickedLater
  BY DEF Typed, TypeOK, TypeInner, TypeWorker
<1>1. CASE Stat(j)
  BY <1>0, <1>1 DEF Stat, Goto, flags, KickedLater, Present, Gone
<1>2. CASE Kick(j)
  BY <1>0, <1>2 DEF Kick, Goto, At, inner, KickedLater
<1>3. CASE RetryLater(j)
  BY <1>0, <1>3 DEF RetryLater, Goto, flags, KickedLater
<1>4. CASE Finalize(j)
  BY <1>0, <1>4 DEF Finalize, Goto, KickedLater
<1>5. CASE ~Stat(j) /\ ~Kick(j) /\ ~RetryLater(j) /\ ~Finalize(j)
  <2>1. UNCHANGED <<st, requeue>>
    BY <1>5 DEF Steps, Server, Spawned, Reconcile, KickStore, Plan, Open, StartFails, Fallback,
                XferDone, XferStop, XferFails, Move, Rename, Recheck, CommitFinal, Recheck2,
                Unlink, Error, Backoff, WorkerSaved, WorkerSaveFails, CommitFrame, inner, flags
  <2>2. \/ UNCHANGED stage
        \/ \E s \in Stages \ {"kick", "kickstore"} : stage' = [stage EXCEPT ![j] = s]
    BY <1>5 DEF Steps, Server, Spawned, Reconcile, KickStore, Plan, Open, StartFails, Fallback,
                XferDone, XferStop, XferFails, Move, Rename, Recheck, CommitFinal, Recheck2,
                Unlink, Error, Backoff, WorkerSaved, WorkerSaveFails, Goto, End, Stages
  <2> QED
    BY <1>0, <2>1, <2>2 DEF KickedLater
<1> QED
  BY <1>1, <1>2, <1>3, <1>4, <1>5

LEMMA KickedStep == ASSUME Typed, Slots, KickedLater, [Next]_vars PROVE KickedLater'
<1>0. /\ st \in [Jobs -> JobState \cup Gone] /\ stage \in [Jobs -> Stages] /\ KickedLater /\ Slots
  BY DEF Typed, TypeOK, TypeInner, TypeWorker
<1>1. ASSUME UNCHANGED <<st, stage, requeue>> PROVE KickedLater'
  BY <1>0, <1>1 DEF KickedLater
<1>2. CASE CommandTail \/ PersistWrite \/ UNCHANGED vars
  BY <1>1, <1>2 DEF CommandTail, CmdSaved, CmdDelete, CmdUnblock, DrainWait, DrainAck, DrainFails,
                    PersistWrite, vars, inner, worker
<1>3. CASE Scheduler
  <2>1. CASE SchedScan
    BY <1>0, <2>1 DEF SchedScan, flags, KickedLater
  <2>2. CASE ~SchedScan
    BY <1>1, <1>3, <2>2 DEF Scheduler, SchedCheck, SchedPark, SchedNotified, SchedTimeout,
                            inner, worker
  <2> QED
    BY <2>1, <2>2
<1>4. ASSUME NEW j \in Jobs, NEW r \in trail[j], TrailUnblock(j, r) PROVE KickedLater'
  <2>1. r.defer
    BY <1>0, <1>4 DEF TrailUnblock, Slots, Unblocks
  <2>2. Present(j) => stage[j] = "none"
    BY <1>0, <2>1 DEF Slots, Deferred, SlotOwned
  <2>3. UNCHANGED <<st, stage>> /\ requeue' = requeue \ {j}
    BY <1>4 DEF TrailUnblock, worker
  <2> QED
    BY <1>0, <2>2, <2>3 DEF KickedLater, Present, Gone
<1>5. ASSUME NEW j \in Jobs, NEW r \in trail[j], TrailSaved(j, r) \/ TrailDelete(j, r)
      PROVE  KickedLater'
  BY <1>1, <1>5 DEF TrailSaved, TrailDelete, inner, worker
<1>6. CASE Crash
  BY <1>6 DEF Crash, KickedLater
<1> QED
  BY <1>2, <1>3, <1>4, <1>5, <1>6, KickedCommand, KickedWorker DEF Next, Trail

\* A control is set back to Continue only by a user's resume, by the store of
\* an attempt that starts, and with the worker itself.
LEMMA StopKept ==
  ASSUME Typed, Slots, KickedLater, [Next]_vars,
         NEW j \in (active \cap active') \ requeue,
         st[j] = "Starting", control[j] # "Continue"
  PROVE  control'[j] # "Continue"
<1>0. /\ control \in [Jobs -> Controls] /\ active \subseteq Jobs /\ KickedLater /\ Slots
  BY DEF Typed, TypeOK, TypeInner
<1>1. j \in Jobs
  BY <1>0
<1>2. ASSUME NEW S, NEW c \in {"Paused", "Canceled"}, Tell(S, c) PROVE control'[j] # "Continue"
  BY <1>0, <1>1, <1>2 DEF Tell
<1>3. CASE Command
  <2>1. ASSUME NEW i \in Jobs, Resume(i) PROVE control'[j] # "Continue"
    BY <1>0, <1>1, <2>1 DEF Resume, Tell
  <2>2. ASSUME ~\E i \in Jobs : Resume(i)
        PROVE  UNCHANGED control \/ \E S : \E c \in {"Paused", "Canceled"} : Tell(S, c)
    BY <1>3, <2>2 DEF Command, Add, Pause, Retry, Restart, Cancel, Remove, PauseAll, Drain,
                      ResumeAll, RetryAll, Revive, UpdateSettings
  <2> QED
    BY <1>2, <2>1, <2>2
<1>4. ASSUME NEW i \in Jobs, KickStore(i) PROVE control'[j] # "Continue"
  BY <1>0, <1>1, <1>4 DEF KickStore, At, KickedLater
<1>5. ASSUME NEW i \in Jobs, Finalize(i) PROVE control'[j] # "Continue"
  BY <1>0, <1>1, <1>5 DEF Finalize
<1>6. ASSUME NEW i \in Jobs, Steps(i) \/ Server(i), ~KickStore(i), ~Finalize(i)
      PROVE  UNCHANGED control
  BY <1>6 DEF Steps, Server, Spawned, Reconcile, Stat, Kick, Plan, Open, StartFails, Fallback,
              XferDone, XferStop, XferFails, Move, Rename, Recheck, CommitFinal, Recheck2,
              Unlink, Error, RetryLater, Backoff, WorkerSaved, WorkerSaveFails, CommitFrame, inner
<1>7. ASSUME CommandTail \/ Scheduler \/ PersistWrite \/ UNCHANGED vars PROVE UNCHANGED control
  BY <1>7 DEF CommandTail, CmdSaved, CmdDelete, CmdUnblock, DrainWait, DrainAck, DrainFails,
              Scheduler, SchedScan, SchedCheck, SchedPark, SchedNotified, SchedTimeout,
              PersistWrite, vars, inner
<1>8. ASSUME NEW i \in Jobs, Trail(i) PROVE UNCHANGED control
  BY <1>8 DEF Trail, TrailSaved, TrailDelete, TrailUnblock, inner
<1>9. CASE Crash
  BY <1>9 DEF Crash
<1> QED
  BY <1>3, <1>4, <1>5, <1>6, <1>7, <1>8, <1>9 DEF Next

\* A pause or cancel sent to a job that is still Starting reaches its worker.
THEOREM StartingStopsKept == Spec => StartingStopKept
<1>1. Init => Typed /\ Slots /\ KickedLater
  <2>1. Init => KickedLater
    BY DEF Init, KickedLater
  <2> QED
    BY <2>1, InitTyped, InitSlots
<1>2. Typed /\ Slots /\ KickedLater /\ [Next]_vars => (Typed /\ Slots /\ KickedLater)'
  BY TypedStep, SlotsStep, KickedStep
<1>3. Typed /\ Slots /\ KickedLater /\ [Next]_vars =>
        [\A j \in (active \cap active') \ requeue :
           st[j] = "Starting" /\ control[j] # "Continue" => control'[j] # "Continue"]_vars
  BY StopKept
<1> QED
  BY <1>1, <1>2, <1>3, PTL DEF Spec, StartingStopKept
-----------------------------------------------------------------------------
(* Wake-ups.  A job becomes startable only together with a permit, or while *)
(* a command is still to return, which then sends one.                      *)

\* Neither the permit nor the command in flight is lost, and no job but those
\* that were startable before is.
Quiet ==
  /\ UNCHANGED <<wake, cmd>>
  /\ sched' = sched \/ (sched = "parking" /\ sched' = "parked")
  /\ \A j \in Jobs : Startable(j)' => Startable(j)

LEMMA WorkerQuiet ==
  ASSUME Typed, NEW j \in Jobs, Steps(j) \/ Server(j), ~Finalize(j)
  PROVE  Quiet
<1>0. st \in [Jobs -> JobState \cup Gone]
  BY DEF Typed, TypeOK, TypeInner
<1>1. UNCHANGED <<wake, cmd, sched, active, requeue, pendingPart>>
  BY DEF Steps, Server, Spawned, Reconcile, Stat, Kick, KickStore, Plan, Open, StartFails,
         Fallback, XferDone, XferStop, XferFails, Move, Rename, Recheck, CommitFinal,
         Recheck2, Unlink, Error, RetryLater, Backoff, WorkerSaved, WorkerSaveFails,
         WorkerOnly, CommitFrame, tasks, inner, flags
<1>2. UNCHANGED st \/ \E s \in Running : st' = [st EXCEPT ![j] = s]
  BY DEF Steps, Server, Spawned, Reconcile, Stat, Kick, KickStore, Plan, Open, StartFails,
         Fallback, XferDone, XferStop, XferFails, Move, Rename, Recheck, CommitFinal,
         Recheck2, Unlink, Error, RetryLater, Backoff, WorkerSaved, WorkerSaveFails, inner,
         CommitFrame, Running
<1> QED
  BY <1>0, <1>1, <1>2 DEF Quiet, Startable, Wiped, Running

\* A command sends the permit before it returns, or when it does.
LEMMA CommandWakes == ASSUME Typed, Command \/ CommandTail PROVE wake' \/ cmd' # Idle
<1>0. cmd \in CmdRecords /\ Idle.stage = "idle"
  BY DEF Typed, TypeOK, TypeControl, Idle
<1>1. ASSUME NEW op, NEW j, NEW p, NEW o, NEW u, Tail(op, j, p, o, u) PROVE cmd' # Idle
  BY <1>0, <1>1 DEF Tail
<1>2. ASSUME NEW s \in {"delete", "unblock", "wait", "finalsave"}, cmd' = [cmd EXCEPT !.stage = s]
      PROVE  cmd' # Idle
  BY <1>0, <1>2 DEF CmdRecords
<1>3. CASE CommandTail
  <2>1. cmd' = cmd => cmd.stage # "idle"
    BY <1>3 DEF CommandTail, CmdSaved, CmdDelete, CmdUnblock, DrainWait, DrainAck, DrainFails
  <2>2. \/ wake' \/ cmd' = cmd
        \/ \E s \in {"delete", "unblock", "wait", "finalsave"} : cmd' = [cmd EXCEPT !.stage = s]
    BY <1>3 DEF CommandTail, CmdSaved, CmdDelete, CmdUnblock, DrainWait, DrainAck, DrainFails,
                Done, Notify
  <2> QED
    BY <1>0, <1>2, <2>1, <2>2
<1>4. ASSUME NEW j \in Jobs, Add(j) \/ Pause(j) \/ Resume(j) \/ Retry(j) \/ Restart(j)
      PROVE  wake' \/ cmd' # Idle
  BY <1>1, <1>4 DEF Add, Pause, Resume, Retry, Restart, Save, Done, Notify
<1>5. ASSUME NEW j \in Jobs, \/ \E delete \in BOOLEAN : Cancel(j, delete)
                             \/ \E p, f \in BOOLEAN : Remove(j, p, f)
      PROVE  wake' \/ cmd' # Idle
  BY <1>1, <1>5 DEF Cancel, Remove, Done, Notify
<1>6. ASSUME Drain PROVE cmd' # Idle
  BY <1>0, <1>6 DEF Drain, Idle
<1>7. ASSUME PauseAll \/ ResumeAll \/ RetryAll \/ \E n \in 1 .. MaxConc : UpdateSettings(n)
      PROVE  wake' \/ cmd' # Idle
  BY <1>1, <1>7 DEF PauseAll, ResumeAll, RetryAll, Revive, UpdateSettings, Save, Done, Notify
<1> QED
  BY <1>3, <1>4, <1>5, <1>6, <1>7 DEF Command

LEMMA FinalizeWakes ==
  ASSUME Typed, NoLostWakeup, NEW j \in Jobs, Finalize(j) PROVE NoLostWakeup'
<1>0. st \in [Jobs -> JobState \cup Gone] /\ active \subseteq Jobs
  BY DEF Typed, TypeOK, TypeInner
<1>1. CASE j \in requeue /\ j \in pendingPart
  <2>1. /\ UNCHANGED <<requeue, pendingPart, wake, cmd, sched>> /\ active' = active \ {j}
        /\ \A i \in Jobs \ {j} : st'[i] = st[i]
    BY <1>0, <1>1 DEF Finalize
  <2>2. \A i \in Jobs : Startable(i)' => Startable(i)
    BY <1>1, <2>1 DEF Startable, Wiped
  <2> QED
    BY <2>1, <2>2 DEF NoLostWakeup
<1>2. CASE ~(j \in requeue /\ j \in pendingPart)
  BY <1>2 DEF Finalize, Notify, NoLostWakeup
<1> QED
  BY <1>1, <1>2

LEMMA WakeupStep == ASSUME Typed, NoLostWakeup, [Next]_vars PROVE NoLostWakeup'
<1>1. ASSUME Quiet PROVE NoLostWakeup'
  BY <1>1 DEF Quiet, NoLostWakeup
<1>2. CASE Command \/ CommandTail
  BY <1>2, CommandWakes DEF NoLostWakeup
<1>3. CASE Scheduler
  <2>1. CASE SchedCheck
    BY <2>1 DEF SchedCheck, ShouldPark, NoLostWakeup, Startable, inner
  <2>2. CASE SchedPark
    BY <1>1, <2>2 DEF SchedPark, Quiet, Startable, Wiped, inner
  <2>3. CASE SchedScan \/ SchedNotified \/ SchedTimeout
    BY <2>3 DEF SchedScan, SchedNotified, SchedTimeout, NoLostWakeup
  <2> QED
    BY <1>3, <2>1, <2>2, <2>3 DEF Scheduler
<1>4. ASSUME NEW j \in Jobs, Steps(j) \/ Server(j) PROVE NoLostWakeup'
  BY <1>1, <1>4, WorkerQuiet, FinalizeWakes
<1>5. ASSUME NEW j \in Jobs, NEW r \in trail[j], TrailUnblock(j, r) PROVE NoLostWakeup'
  BY <1>5 DEF TrailUnblock, Notify, NoLostWakeup
<1>6. ASSUME NEW j \in Jobs, NEW r \in trail[j], TrailSaved(j, r) \/ TrailDelete(j, r)
      PROVE  NoLostWakeup'
  BY <1>1, <1>6 DEF TrailSaved, TrailDelete, Quiet, Startable, Wiped, inner
<1>7. CASE PersistWrite \/ UNCHANGED vars
  BY <1>1, <1>7 DEF PersistWrite, vars, tasks, Quiet, Startable, Wiped, inner
<1>8. CASE Crash
  BY <1>8 DEF Crash, NoLostWakeup
<1> QED
  BY <1>2, <1>3, <1>4, <1>5, <1>6, <1>7, <1>8 DEF Next, Trail

\* The scheduler never sleeps through work: a job it could start while it is
\* parked, or about to, comes with a permit or with a command that sends one.
THEOREM WakeupsArrive == Spec => []NoLostWakeup
<1>1. Init => Typed /\ NoLostWakeup
  <2>1. Init => NoLostWakeup
    BY DEF Init, NoLostWakeup
  <2> QED
    BY <2>1, InitTyped
<1>2. Typed /\ NoLostWakeup /\ [Next]_vars => (Typed /\ NoLostWakeup)'
  BY TypedStep, WakeupStep
<1> QED
  BY <1>1, <1>2, PTL DEF Spec
-----------------------------------------------------------------------------
(* Drain.  A restart is the one thing that queues a job by itself, when its *)
(* worker ends, and a restart has wiped the job first.                      *)

Restarted(j) == era[j] > 0 /\ id[j] = "none"

\* A job that will be queued again was wiped, and stays so.
Requeueing == \A j \in requeue : st[j] # "unborn" /\ (Present(j) => Restarted(j))
\* A drain leaves no other job in the queue.
DrainQueue == cmd.op = "Drain" => \A j \in Jobs : st[j] = "Queued" => Restarted(j)

Draining == Requeueing /\ DrainQueue

\* What keeps a drain in flight quiet: a job is queued, or marked for it, only
\* if it was, and the wiped ones stay wiped.
Settled(j) ==
  /\ j \in requeue' => j \in requeue
  /\ st'[j] = "unborn" => st[j] = "unborn"
  /\ Present(j)' => Present(j)
  /\ st'[j] = "Queued" => st[j] = "Queued" \/ (j \in requeue /\ Present(j))
  /\ j \in requeue \/ st'[j] = "Queued" => (Restarted(j) => Restarted(j)')

LEMMA SettledDraining ==
  ASSUME Typed, Draining, requeue' \subseteq Jobs, \A j \in Jobs : Settled(j),
         cmd'.op = "Drain" => cmd.op = "Drain"
  PROVE  Draining'
<1>1. Requeueing'
  BY DEF Draining, Requeueing, Settled
<1>2. DrainQueue'
  BY DEF Draining, Requeueing, DrainQueue, Settled
<1> QED
  BY <1>1, <1>2 DEF Draining

LEMMA CommandRequeueing == ASSUME Typed, Slots, Requeueing, Command PROVE Requeueing'
<1>0. /\ st \in [Jobs -> JobState \cup Gone] /\ id \in [Jobs -> Ids] /\ era \in [Jobs -> Eras]
      /\ active \subseteq Jobs /\ requeue \subseteq Jobs
  BY DEF Typed, TypeOK, TypeInner
<1>1. ASSUME UNCHANGED ident, requeue' \subseteq requeue,
             \A i \in requeue : /\ Present(i)' => Present(i)
                                /\ st'[i] = "unborn" => st[i] = "unborn"
      PROVE  Requeueing'
  BY <1>1 DEF Requeueing, Restarted, ident
<1>2. ASSUME NEW j \in Jobs, Wipe(j)
      PROVE  Restarted(j)' /\ \A i \in Jobs : Restarted(i) => Restarted(i)'
  BY <1>0, <1>2, EraAssumption DEF Wipe, Restarted, Eras
<1> USE DEF Gone, Present
<1>3. ASSUME NEW j \in Jobs, Add(j) \/ Pause(j) \/ Resume(j) \/ Retry(j) PROVE Requeueing'
  BY <1>0, <1>1, <1>3 DEF Add, Pause, Resume, Retry, Requeued, Requeueing
<1>4. ASSUME NEW j \in Jobs, Restart(j) PROVE Requeueing'
  <2>1. st[j] # "unborn" /\ requeue' \in {requeue, requeue \cup {j}}
    BY <1>4 DEF Restart, BeginOn
  <2>2. CASE Present(j)
    <3>1. Wipe(j) /\ st' = [st EXCEPT ![j] = "Queued"]
      BY <1>4, <2>2 DEF Restart
    <3> QED
      BY <1>0, <1>2, <2>1, <2>2, <3>1 DEF Requeueing
  <2>3. CASE ~Present(j)
    <3>1. UNCHANGED <<st, id, era>>
      BY <1>4, <2>3 DEF Restart, ident
    <3> QED
      BY <1>0, <2>1, <2>3, <3>1 DEF Requeueing, Restarted
  <2> QED
    BY <2>2, <2>3
<1>5. ASSUME NEW j \in Jobs, NEW d \in BOOLEAN, Cancel(j, d) PROVE Requeueing'
  <2>1. UNCHANGED requeue
    BY <1>5 DEF Cancel
  <2>2. \A i \in Jobs : /\ Present(i)' => Present(i)
                        /\ st'[i] = "unborn" => st[i] = "unborn"
    BY <1>0, <1>5 DEF Cancel
  <2>3. Wipe(j) \/ UNCHANGED ident
    BY <1>5 DEF Cancel
  <2> QED
    BY <1>0, <1>1, <1>2, <2>1, <2>2, <2>3 DEF Requeueing
<1>6. ASSUME NEW j \in Jobs, NEW p \in BOOLEAN, NEW f \in BOOLEAN, Remove(j, p, f)
      PROVE  Requeueing'
  <2>1. UNCHANGED ident /\ requeue' = requeue \ {j}
    BY <1>6 DEF Remove
  <2>2. st' = IF Present(j) THEN [st EXCEPT ![j] = "removed"] ELSE st
    BY <1>6 DEF Remove
  <2> QED
    BY <1>0, <1>1, <2>1, <2>2
<1>7. ASSUME PauseAll \/ Drain PROVE Requeueing'
  BY <1>0, <1>1, <1>7 DEF PauseAll, Drain, Unqueue
<1>8. ASSUME ResumeAll \/ RetryAll PROVE Requeueing'
  BY <1>0, <1>1, <1>8 DEF ResumeAll, RetryAll, Revive, Requeued
<1>9. ASSUME NEW n \in 1 .. MaxConc, UpdateSettings(n) PROVE Requeueing'
  BY <1>1, <1>9 DEF UpdateSettings
<1> QED
  BY <1>3, <1>4, <1>5, <1>6, <1>7, <1>8, <1>9 DEF Command

LEMMA CommandDrainQueue == ASSUME Typed, Command PROVE DrainQueue'
<1>0. st \in [Jobs -> JobState \cup Gone] /\ Idle.op = "none"
  BY DEF Typed, TypeOK, TypeInner, Idle
<1>1. ASSUME Drain PROVE \A j \in Jobs : st'[j] # "Queued"
  BY <1>0, <1>1 DEF Drain, Unqueue
<1>2. ASSUME NEW op \in AllOps \ {"Drain"}, NEW j, NEW p, NEW o, NEW u, Tail(op, j, p, o, u)
      PROVE  DrainQueue'
  BY <1>2 DEF Tail, DrainQueue
<1>3. ASSUME cmd' = Idle PROVE DrainQueue'
  BY <1>0, <1>3 DEF DrainQueue
<1> USE DEF AllOps
<1>4. ASSUME NEW j \in Jobs, Add(j) \/ Pause(j) \/ Resume(j) \/ Retry(j) PROVE DrainQueue'
  BY <1>2, <1>3, <1>4 DEF Add, Pause, Resume, Retry, Save, Done
<1>5. ASSUME NEW j \in Jobs, \/ Restart(j)
                             \/ \E delete \in BOOLEAN : Cancel(j, delete)
                             \/ \E p, f \in BOOLEAN : Remove(j, p, f)
      PROVE  DrainQueue'
  BY <1>2, <1>3, <1>5 DEF Restart, Cancel, Remove, Done
<1>6. ASSUME PauseAll \/ ResumeAll \/ RetryAll \/ \E n \in 1 .. MaxConc : UpdateSettings(n)
      PROVE  DrainQueue'
  BY <1>2, <1>3, <1>6 DEF PauseAll, ResumeAll, RetryAll, Revive, UpdateSettings, Save, Done
<1> QED
  BY <1>1, <1>4, <1>5, <1>6 DEF Command, DrainQueue

\* A worker that runs while its job is queued is one that a restart ends: what
\* it commits is dropped.
LEMMA WorkerSettled ==
  ASSUME Typed, Slots, NEW j \in Jobs, Steps(j) \/ Server(j)
  PROVE  /\ \A i \in Jobs : Settled(i)
         /\ requeue' \subseteq Jobs /\ UNCHANGED cmd
<1>0. /\ st \in [Jobs -> JobState \cup Gone] /\ id \in [Jobs -> Ids] /\ requeue \subseteq Jobs
      /\ Slots
  BY DEF Typed, TypeOK, TypeInner
<1> USE DEF Gone, Present
<1>1. CASE Finalize(j)
  <2>1. Outcome(j) = "Queued" => j \in requeue
    BY LocalsTyped DEF Typed, TypeOK, TypeInner, Outcome, Result, Results, Controls
  <2>2. /\ requeue' \subseteq requeue /\ UNCHANGED <<era, cmd>>
        /\ id' \in {id, [id EXCEPT ![j] = "none"]}
        /\ Present(j) => st' = [st EXCEPT ![j] = Outcome(j)]
        /\ ~Present(j) => UNCHANGED st
    BY <1>1 DEF Finalize
  <2>3. Outcome(j) \in JobState
    BY LocalsTyped DEF Typed, TypeOK, TypeInner, Outcome, Result, Results, Controls, JobState
  <2> QED
    BY <1>0, <2>1, <2>2, <2>3 DEF Settled, Restarted, JobState
<1>2. CASE ~Finalize(j)
  <2>1. UNCHANGED <<requeue, era, cmd>>
    BY <1>2 DEF Steps, Server, Spawned, Reconcile, Stat, Kick, KickStore, Plan, Open, StartFails,
         Fallback, XferDone, XferStop, XferFails, Move, Rename, Recheck, CommitFinal,
         Recheck2, Unlink, Error, RetryLater, Backoff, WorkerSaved, WorkerSaveFails,
         WorkerOnly, CommitFrame, tasks, inner, flags, ident
  <2>2. UNCHANGED st \/ (Present(j) /\ \E s \in Running : st' = [st EXCEPT ![j] = s])
    BY <1>2 DEF Steps, Server, Spawned, Reconcile, Stat, Kick, KickStore, Plan, Open, StartFails,
         Fallback, XferDone, XferStop, XferFails, Move, Rename, Recheck, CommitFinal,
         Recheck2, Unlink, Error, RetryLater, Backoff, WorkerSaved, WorkerSaveFails, inner,
         CommitFrame, Running
  <2>3. UNCHANGED id \/ \E k : Commit(j, k)
    BY <1>2 DEF Steps, Server, Spawned, Reconcile, Stat, Kick, KickStore, Plan, Open, StartFails,
         Fallback, XferDone, XferStop, XferFails, Move, Rename, Recheck, CommitFinal,
         Recheck2, Unlink, Error, RetryLater, Backoff, WorkerSaved, WorkerSaveFails, inner, ident
  <2>4. UNCHANGED id \/ (Present(j) /\ j \notin requeue /\ \E k : id' = [id EXCEPT ![j] = k])
    BY <2>3 DEF Commit, Wiped
  <2>5. stage[j] # "none"
    <3>1. j \in saving => stage[j] # "none"
      BY <1>0 DEF Slots, Savers
    <3> QED
      BY <1>2, <3>1 DEF Steps, Server, Spawned, Reconcile, Stat, Kick, KickStore, Plan, Open,
         StartFails, Fallback, XferDone, XferStop, XferFails, Move, Rename, Recheck, CommitFinal,
         Recheck2, Unlink, Error, RetryLater, Backoff, WorkerSaved, WorkerSaveFails, At
  <2>6. st'[j] = "Queued" => st[j] = "Queued" /\ (Present(j) => j \in requeue)
    BY <1>0, <2>2, <2>5 DEF Slots, SlotOwned, Running
  <2> QED
    BY <1>0, <2>1, <2>2, <2>4, <2>6 DEF Settled, Restarted, Running
<1> QED
  BY <1>1, <1>2

LEMMA DrainingStep ==
  ASSUME Typed, Slots, Draining, [Next]_vars PROVE Draining'
<1>0. /\ cmd \in CmdRecords /\ Idle.op = "none" /\ requeue \subseteq Jobs
      /\ st \in [Jobs -> JobState \cup Gone]
  BY DEF Typed, TypeOK, TypeInner, TypeControl, Idle
<1>1. ASSUME UNCHANGED <<st, id, era>>, requeue' \subseteq requeue,
             cmd'.op = "Drain" => cmd.op = "Drain"
      PROVE  Draining'
  <2>1. \A j \in Jobs : Settled(j)
    BY <1>1 DEF Settled, Restarted, Present
  <2> QED
    BY <1>0, <1>1, <2>1, SettledDraining
<1>2. CASE CommandTail
  <2>1. UNCHANGED <<st, id, era, requeue>>
    BY <1>2 DEF CommandTail, CmdSaved, CmdDelete, CmdUnblock, DrainWait, DrainAck, DrainFails,
                inner, ident
  <2>2. cmd' \in {cmd, Idle} \/ \E s : cmd' = [cmd EXCEPT !.stage = s]
    BY <1>2 DEF CommandTail, CmdSaved, CmdDelete, CmdUnblock, DrainWait, DrainAck, DrainFails,
                Done
  <2>3. cmd'.op = "Drain" => cmd.op = "Drain"
    BY <1>0, <2>2 DEF CmdRecords
  <2> QED
    BY <1>1, <2>1, <2>3
<1>3. CASE Scheduler
  <2>1. CASE SchedScan
    <3>1. PICK S \in SUBSET {j \in Jobs : Startable(j)} :
            st' = [j \in Jobs |-> IF j \in S THEN "Starting" ELSE st[j]]
      BY <2>1 DEF SchedScan
    <3>2. UNCHANGED <<requeue, cmd, id, era>>
      BY <2>1 DEF SchedScan, flags, ident
    <3>3. \A j \in Jobs : Settled(j)
      BY <1>0, <3>1, <3>2 DEF Settled, Restarted, Startable, Present, Gone
    <3> QED
      BY <1>0, <3>2, <3>3, SettledDraining
  <2>2. CASE ~SchedScan
    BY <1>1, <1>3, <2>2 DEF Scheduler, SchedCheck, SchedPark, SchedNotified, SchedTimeout,
                            inner, ident
  <2> QED
    BY <2>1, <2>2
<1>4. ASSUME NEW j \in Jobs, Trail(j) PROVE Draining'
  <2>1. UNCHANGED <<st, id, era, cmd>> /\ requeue' \subseteq requeue
    BY <1>4 DEF Trail, TrailSaved, TrailDelete, TrailUnblock, inner, ident
  <2> QED
    BY <1>1, <2>1
<1>5. CASE PersistWrite \/ UNCHANGED vars
  BY <1>1, <1>5 DEF PersistWrite, vars, inner, ident, tasks
<1>6. CASE Crash
  BY <1>0, <1>6 DEF Crash, Draining, Requeueing, DrainQueue
<1>7. CASE Command
  BY <1>7, CommandRequeueing, CommandDrainQueue DEF Draining
<1>8. ASSUME NEW j \in Jobs, Steps(j) \/ Server(j) PROVE Draining'
  BY <1>8, WorkerSettled, SettledDraining
<1> QED
  BY <1>1, <1>2, <1>3, <1>4, <1>5, <1>6, <1>7, <1>8 DEF Next

\* Only the scheduler hands out slots.
LEMMA NewSlots == ASSUME [Next]_vars, ~(active' \subseteq active) PROVE SchedScan
<1>1. ASSUME Command PROVE UNCHANGED active
  BY <1>1, ZenonT(60) DEF Command, Add, Pause, Resume, Retry, Restart, Cancel, Remove, PauseAll,
         Drain, ResumeAll, RetryAll, Revive, UpdateSettings, BeginOn, Begin
<1>2. ASSUME NEW j \in Jobs, Steps(j) \/ Server(j), ~Finalize(j) PROVE UNCHANGED active
  BY <1>2 DEF Steps, Server, Spawned, Reconcile, Stat, Kick, KickStore, Plan, Open, StartFails,
         Fallback, XferDone, XferStop, XferFails, Move, Rename, Recheck, CommitFinal,
         Recheck2, Unlink, Error, RetryLater, Backoff, WorkerSaved, WorkerSaveFails,
         CommitFrame, inner
<1>3. ASSUME NEW j \in Jobs, Finalize(j) PROVE active' \subseteq active
  BY <1>3 DEF Finalize
<1>4. ASSUME NEW j \in Jobs, Trail(j) PROVE UNCHANGED active
  BY <1>4 DEF Trail, TrailSaved, TrailDelete, TrailUnblock, inner
<1>5. ASSUME CommandTail \/ PersistWrite \/ UNCHANGED vars PROVE UNCHANGED active
  BY <1>5 DEF CommandTail, CmdSaved, CmdDelete, CmdUnblock, DrainWait, DrainAck, DrainFails,
              PersistWrite, vars, inner
<1>6. ASSUME Scheduler, ~SchedScan PROVE UNCHANGED active
  BY <1>6 DEF Scheduler, SchedCheck, SchedPark, SchedNotified, SchedTimeout, inner
<1>7. ASSUME Crash PROVE active' = {}
  BY <1>7 DEF Crash
<1> QED
  BY <1>1, <1>2, <1>3, <1>4, <1>5, <1>6, <1>7 DEF Next

\* While a Drain is under way the scheduler starts only what a restart put
\* into the queue: whatever the user paused or left waiting stays where it is.
THEOREM DrainsStartOnlyRestarts == Spec => OnlyRestartsStart
<1>1. Init => Typed /\ Slots /\ Draining
  <2>1. Init => Draining
    BY DEF Init, Draining, Requeueing, DrainQueue, Idle
  <2> QED
    BY <2>1, InitTyped, InitSlots
<1>2. Typed /\ Slots /\ Draining /\ [Next]_vars => (Typed /\ Slots /\ Draining)'
  BY TypedStep, SlotsStep, DrainingStep
<1>3. Typed /\ Slots /\ Draining /\ [Next]_vars =>
        [cmd.op = "Drain" => \A j \in active' \ active : era[j] > 0 /\ id[j] = "none"]_vars
  <2> SUFFICES ASSUME Typed, Slots, Draining, [Next]_vars, cmd.op = "Drain",
                      NEW j \in active' \ active
               PROVE  era[j] > 0 /\ id[j] = "none"
    OBVIOUS
  <2>1. SchedScan
    BY NewSlots
  <2>2. j \in Jobs /\ st[j] = "Queued"
    BY <2>1 DEF SchedScan, Startable
  <2> QED
    BY <2>2 DEF Draining, DrainQueue, Restarted
<1> QED
  BY <1>1, <1>2, <1>3, PTL DEF Spec, OnlyRestartsStart
=============================================================================
