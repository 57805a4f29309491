---- MODULE EngineFileProofs ----
(* Theorems about the files of the download engine: what state.json claims  *)
(* when a .part is deleted, and which final files are left in the end.      *)
EXTENDS EngineProofs

USE EraAssumption, BoundAssumption, ConcAssumption
-----------------------------------------------------------------------------
(* Frames.  What each kind of step leaves alone, for the proofs below.      *)

FileTypes == /\ IdentityTypes
             /\ active \subseteq Jobs /\ requeue \subseteq Jobs
             /\ pendingPart \subseteq Jobs /\ pendingFinal \subseteq Jobs
             /\ produced \in [Jobs -> Eras \cup {NoEra}]
             /\ part \in [Jobs -> Eras \cup {NoPart, Hole}]
             /\ outs \in [Jobs -> SUBSET Eras] /\ finished \in [Jobs -> SUBSET Eras]
             /\ trail \in [Jobs -> SUBSET Trails]

LEMMA FileFacts == ASSUME Typed, Slots, Identity PROVE FileTypes
  BY IdentityFacts DEF FileTypes, Typed, TypeOK, TypeInner, TypeFiles, TypeWorker

\* What a command may do to the row and the flags of a job: it comes into the
\* list once, leaves it for good, and a flag or a new start of a job that was
\* Completed comes with a wipe.
RowMoved(j) ==
  /\ Present(j)' => Present(j) \/ (st[j] = "unborn" /\ st'[j] = "Queued")
  /\ st'[j] = "unborn" => st[j] = "unborn"
  /\ Present(j) /\ ~Present(j)' => st'[j] = "removed"
  /\ st[j] = "removed" => st'[j] = "removed"
  /\ era'[j] \in {era[j], era[j] + 1}
  /\ Wiped(j)' /\ Present(j)' /\ ~Wiped(j) => era'[j] = era[j] + 1
  /\ st'[j] = "Completed" => st[j] = "Completed"
  /\ st[j] = "Completed" /\ st'[j] # "Completed" => ~Present(j)' \/ era'[j] = era[j] + 1
  /\ j \in requeue' => j \in requeue \/ st'[j] = "Queued" \/ ~Present(j)
  /\ j \in pendingFinal' => j \in pendingFinal \/ st'[j] = "removed"

LEMMA CommandFrame ==
  ASSUME Command
  PROVE  /\ cmd = Idle
         /\ UNCHANGED <<part, outs, disk, stage, w, saving, trail, finished, produced, active>>
  BY ZenonT(60) DEF Command, Add, Pause, Resume, Retry, Restart, Cancel, Remove, PauseAll, Drain,
         ResumeAll, RetryAll, Revive, UpdateSettings, BeginOn, Begin, files, worker

\* A command that goes on persists first, or waits for the workers.
LEMMA CommandStage == ASSUME Command PROVE cmd'.stage \in {"idle", "save", "wait"}
<1>1. ASSUME NEW op, NEW j, NEW p, NEW o, NEW u, Tail(op, j, p, o, u) PROVE cmd'.stage = "save"
  BY <1>1 DEF Tail
<1>2. ASSUME Done PROVE cmd'.stage = "idle"
  BY <1>2 DEF Done, Idle
<1>3. ASSUME Drain PROVE cmd'.stage \in {"save", "wait"}
  BY <1>3 DEF Drain, Idle
<1>4. ASSUME NEW j \in Jobs, Add(j) \/ Pause(j) \/ Resume(j) \/ Retry(j) \/ Restart(j)
      PROVE  cmd'.stage \in {"idle", "save"}
  BY <1>1, <1>2, <1>4 DEF Add, Pause, Resume, Retry, Restart, Save
<1>5. ASSUME NEW j \in Jobs, \/ \E delete \in BOOLEAN : Cancel(j, delete)
                             \/ \E p, f \in BOOLEAN : Remove(j, p, f)
      PROVE  cmd'.stage \in {"idle", "save"}
  BY <1>1, <1>2, <1>5 DEF Cancel, Remove
<1>6. ASSUME PauseAll \/ ResumeAll \/ RetryAll \/ \E n \in 1 .. MaxConc : UpdateSettings(n)
      PROVE  cmd'.stage \in {"idle", "save"}
  BY <1>1, <1>2, <1>6 DEF PauseAll, ResumeAll, RetryAll, Revive, UpdateSettings, Save
<1> QED
  BY <1>3, <1>4, <1>5, <1>6 DEF Command

LEMMA CommandRows == ASSUME FileTypes, Command, NEW i \in Jobs PROVE RowMoved(i)
<1>0. /\ st \in [Jobs -> JobState \cup Gone] /\ era \in [Jobs -> Eras]
      /\ requeue \subseteq Jobs /\ pendingPart \subseteq Jobs /\ pendingFinal \subseteq Jobs
  BY DEF FileTypes, IdentityTypes
<1> USE DEF Running, Gone, Present, Wiped, Terminal, JobState
<1>1. ASSUME NEW j \in Jobs, Add(j) \/ Pause(j) \/ Resume(j) \/ Retry(j) PROVE RowMoved(i)
  BY <1>0, <1>1 DEF Add, Pause, Resume, Retry, Requeued, RowMoved, ident
<1>2. ASSUME NEW j \in Jobs, Restart(j) PROVE RowMoved(i)
  <2>1. /\ st[j] # "unborn" /\ UNCHANGED pendingFinal
        /\ requeue' = IF j \in active THEN requeue \cup {j} ELSE requeue
    BY <1>2 DEF Restart, BeginOn
  <2>2. CASE Present(j)
    <3>1. st' = [st EXCEPT ![j] = "Queued"] /\ era' = [era EXCEPT ![j] = @ + 1]
          /\ pendingPart' = pendingPart \cup {j}
      BY <1>2, <2>2 DEF Restart, Wipe
    <3> QED
      BY <1>0, <2>1, <2>2, <3>1 DEF RowMoved
  <2>3. CASE ~Present(j)
    <3>1. UNCHANGED <<st, era, pendingPart>>
      BY <1>2, <2>3 DEF Restart, ident
    <3> QED
      BY <1>0, <2>1, <2>3, <3>1 DEF RowMoved
  <2> QED
    BY <2>2, <2>3
<1>3. ASSUME NEW j \in Jobs, NEW d \in BOOLEAN, Cancel(j, d) PROVE RowMoved(i)
  <2>1. st[j] # "unborn" /\ UNCHANGED <<requeue, pendingFinal>>
    BY <1>3 DEF Cancel, BeginOn
  <2>2. st' = st \/ (st' = [st EXCEPT ![j] = "Canceled"] /\ st[j] \notin Terminal \cup Gone)
    BY <1>3 DEF Cancel
  <2>3. \/ UNCHANGED <<era, pendingPart>>
        \/ /\ era' = [era EXCEPT ![j] = @ + 1]
           /\ pendingPart' \in {pendingPart, pendingPart \cup {j}}
    BY <1>3 DEF Cancel, Wipe, ident
  <2> QED
    BY <1>0, <2>1, <2>2, <2>3 DEF RowMoved
<1>4. ASSUME NEW j \in Jobs, NEW p \in BOOLEAN, NEW f \in BOOLEAN, Remove(j, p, f)
      PROVE  RowMoved(i)
  <2>1. /\ st[j] # "unborn" /\ UNCHANGED era /\ requeue' = requeue \ {j}
        /\ st' = [st EXCEPT ![j] = "removed"]
    BY <1>0, <1>4 DEF Remove, BeginOn, ident
  <2>2. /\ \A k \in Jobs \ {j} : k \in pendingPart' => k \in pendingPart
        /\ \A k \in Jobs \ {j} : k \in pendingFinal' => k \in pendingFinal
    BY <1>4 DEF Remove
  <2> QED
    BY <1>0, <2>1, <2>2 DEF RowMoved
<1>5. ASSUME PauseAll \/ Drain \/ ResumeAll \/ RetryAll
               \/ \E n \in 1 .. MaxConc : UpdateSettings(n)
      PROVE  RowMoved(i)
  BY <1>0, <1>5 DEF PauseAll, Drain, Unqueue, ResumeAll, RetryAll, Revive, Requeued,
                    UpdateSettings, RowMoved, ident
<1> QED
  BY <1>1, <1>2, <1>3, <1>4, <1>5 DEF Command

\* The steps of the one worker of a job, its end apart.
LEMMA WorkerFrame ==
  ASSUME FileTypes, NEW j \in Jobs, Steps(j) \/ Server(j), ~Finalize(j)
  PROVE  /\ UNCHANGED <<era, active, requeue, pendingPart, pendingFinal, trail, cmd, finished>>
         /\ disk' \in {disk, Snapshot}
         /\ UNCHANGED st \/ (Present(j) /\ \E s \in Running : st' = [st EXCEPT ![j] = s])
<1>1. /\ UNCHANGED <<era, active, requeue, pendingPart, pendingFinal, trail, cmd, finished>>
      /\ disk' \in {disk, Snapshot}
  BY DEF Steps, Server, Spawned, Reconcile, Stat, Kick, KickStore, Plan, Open, StartFails,
         Fallback, XferDone, XferStop, XferFails, Move, Rename, Recheck, CommitFinal,
         Recheck2, Unlink, Error, RetryLater, Backoff, WorkerSaved, WorkerSaveFails,
         WorkerOnly, CommitFrame, tasks, inner, ident, flags
<1>2. UNCHANGED st \/ (Present(j) /\ \E s \in Running : st' = [st EXCEPT ![j] = s])
  BY DEF Steps, Server, Spawned, Reconcile, Stat, Kick, KickStore, Plan, Open, StartFails,
         Fallback, XferDone, XferStop, XferFails, Move, Rename, Recheck, CommitFinal,
         Recheck2, Unlink, Error, RetryLater, Backoff, WorkerSaved, WorkerSaveFails, inner,
         CommitFrame, Running
<1> QED
  BY <1>1, <1>2

\* The worker of one job touches no file and no local of another.
LEMMA WorkerOwn ==
  ASSUME FileTypes, NEW j \in Jobs, Steps(j) \/ Server(j)
  PROVE  \A i \in Jobs \ {j} : /\ st'[i] = st[i] /\ stage'[i] = stage[i] /\ w'[i] = w[i]
                               /\ outs'[i] = outs[i] /\ produced'[i] = produced[i]
<1>1. UNCHANGED stage \/ \E s : stage' = [stage EXCEPT ![j] = s]
  BY DEF Steps, Server, Spawned, Reconcile, Stat, Kick, KickStore, Plan, Open, StartFails,
         Fallback, XferDone, XferStop, XferFails, Move, Rename, Recheck, CommitFinal,
         Recheck2, Unlink, Error, RetryLater, Backoff, WorkerSaved, WorkerSaveFails, Finalize,
         End, Goto
<1>2. UNCHANGED w \/ \E l : w' = [w EXCEPT ![j] = l]
  BY DEF Steps, Server, Spawned, Reconcile, Stat, Kick, KickStore, Plan, Open, StartFails,
         Fallback, XferDone, XferStop, XferFails, Move, Rename, Recheck, CommitFinal,
         Recheck2, Unlink, Error, RetryLater, Backoff, WorkerSaved, WorkerSaveFails, Finalize,
         End
<1>3. /\ UNCHANGED outs \/ \E o : outs' = [outs EXCEPT ![j] = o]
      /\ UNCHANGED produced \/ \E o : produced' = [produced EXCEPT ![j] = o]
  BY DEF Steps, Server, Spawned, Reconcile, Stat, Kick, KickStore, Plan, Open, StartFails,
         Fallback, XferDone, XferStop, XferFails, Move, Rename, Recheck, CommitFinal,
         Recheck2, Unlink, Error, RetryLater, Backoff, WorkerSaved, WorkerSaveFails, Finalize,
         WorkerOnly, CommitFrame, inner, flags, files
<1>4. UNCHANGED st \/ \E s : st' = [st EXCEPT ![j] = s]
  BY DEF Steps, Server, Spawned, Reconcile, Stat, Kick, KickStore, Plan, Open, StartFails,
         Fallback, XferDone, XferStop, XferFails, Move, Rename, Recheck, CommitFinal,
         Recheck2, Unlink, Error, RetryLater, Backoff, WorkerSaved, WorkerSaveFails, Finalize,
         CommitFrame, inner
<1> QED
  BY <1>1, <1>2, <1>3, <1>4 DEF FileTypes, IdentityTypes

\* The actions that touch no row: the scheduler's program point and the
\* writes of the persist actor.
LEMMA IdleFrame ==
  ASSUME (Scheduler /\ ~SchedScan) \/ PersistWrite \/ UNCHANGED vars
  PROVE  /\ UNCHANGED <<inner, files, stage, w, trail, cmd, finished>>
         /\ disk' \in {disk, Snapshot}
  BY DEF Scheduler, SchedCheck, SchedPark, SchedNotified, SchedTimeout, PersistWrite, vars,
         tasks, worker

LEMMA TailFrame ==
  ASSUME CommandTail
  PROVE  /\ UNCHANGED <<st, id, idEra, era, active, requeue, pendingFinal, produced>>
         /\ UNCHANGED <<stage, w, trail, finished>>
         /\ pendingPart' \subseteq pendingPart
         /\ disk' \in {disk, Snapshot}
         /\ ~CmdDelete => UNCHANGED files
  BY DEF CommandTail, CmdSaved, CmdDelete, CmdUnblock, DrainWait, DrainAck, DrainFails, inner,
         ident, worker

LEMMA ScanFrame ==
  ASSUME FileTypes, SchedScan
  PROVE  /\ UNCHANGED <<era, requeue, pendingPart, pendingFinal, produced>>
         /\ UNCHANGED <<files, disk, w, trail, cmd, finished>>
         /\ \A j \in Jobs : \/ st'[j] = st[j] /\ stage'[j] = stage[j] /\ (j \in active' <=> j \in active)
                            \/ Startable(j) /\ st'[j] = "Starting" /\ stage'[j] = "spawned"
<1>1. PICK S \in SUBSET {j \in Jobs : Startable(j)} :
        /\ st' = [j \in Jobs |-> IF j \in S THEN "Starting" ELSE st[j]]
        /\ active' = active \cup S
        /\ stage' = [j \in Jobs |-> IF j \in S THEN "spawned" ELSE stage[j]]
  BY DEF SchedScan
<1>2. UNCHANGED <<era, requeue, pendingPart, pendingFinal, produced, files, disk, w, trail, cmd,
                  finished>>
  BY DEF SchedScan, ident, flags
<1> QED
  BY <1>1, <1>2
-----------------------------------------------------------------------------
(* Deletes.  When a store that does not fail has written the rows, nothing  *)
(* older than what was written then is claimed any more: eras only grow.    *)

\* state.json says of a job what memory does, or does not have it.
Stored(j) == disk[j] = NoRow \/ (Present(j) /\ disk[j].era = era[j])

CmdStored == cmd.stage = "delete" /\ cmd.job \in Jobs => Stored(cmd.job)

TrailStored ==
  \A j \in Jobs : \A r \in trail[j] :
    /\ r.era <= era[j]
    /\ r.stage = "delete" => disk[j] = NoRow \/ disk[j].era >= r.era

Written == CmdStored /\ TrailStored

LEMMA SnapshotStored ==
  ASSUME disk' \in {disk, Snapshot}, UNCHANGED <<st, era>>, NEW j \in Jobs, Stored(j)
  PROVE  Stored(j)'
  BY DEF Stored, Snapshot, Present

\* A finalizer's record stays right while eras grow and the rows are written.
LEMMA TrailKept ==
  ASSUME FileTypes, TrailStored, UNCHANGED trail, disk' \in {disk, Snapshot},
         disk' = Snapshot => UNCHANGED era,
         \A j \in Jobs : era'[j] \in {era[j], era[j] + 1}
  PROVE  TrailStored'
<1>1. \A j \in Jobs : era[j] \in Int
  BY DEF FileTypes, IdentityTypes, Eras
<1>2. SUFFICES ASSUME NEW j \in Jobs, NEW r \in trail[j]
               PROVE  /\ r.era <= era'[j]
                      /\ r.stage = "delete" => disk'[j] = NoRow \/ disk'[j].era >= r.era
  BY DEF TrailStored
<1>3. r.era \in Int /\ r.era <= era[j]
  BY DEF FileTypes, Trails, Eras, TrailStored
<1>4. r.era <= era'[j]
  BY <1>1, <1>3
<1>5. CASE disk' = disk
  BY <1>4, <1>5 DEF TrailStored
<1>6. CASE disk' = Snapshot
  BY <1>1, <1>3, <1>4, <1>6 DEF Snapshot
<1> QED
  BY <1>5, <1>6

LEMMA TrailMoves ==
  ASSUME FileTypes, TrailStored, StoreFails = FALSE, NEW j \in Jobs, Trail(j)
  PROVE  TrailStored'
<1>0. PICK r \in trail[j] : TrailSaved(j, r) \/ TrailDelete(j, r) \/ TrailUnblock(j, r)
  BY DEF Trail
<1>1. r \in Trails /\ era[j] \in Int /\ r.era \in Int /\ r.era <= era[j]
  BY DEF FileTypes, IdentityTypes, Trails, Eras, TrailStored
<1>2. CASE TrailSaved(j, r)
  <2>1. disk' = Snapshot /\ UNCHANGED era
    BY <1>2 DEF TrailSaved, inner, ident
  <2>2. \A i \in Jobs : \A q \in trail'[i] :
          (i = j /\ q = [r EXCEPT !.stage = "delete"]) \/ q \in trail[i]
    BY <1>2 DEF TrailSaved, Advance, FileTypes
  <2>3. [r EXCEPT !.stage = "delete"].era = r.era
    BY <1>1 DEF Trails
  <2>4. \A i \in Jobs : \A q \in trail'[i] : q.era \in Int /\ q.era <= era[i]
    BY <1>1, <2>2, <2>3 DEF TrailStored, FileTypes, Trails, Eras
  <2>5. \A i \in Jobs : disk'[i] = NoRow \/ disk'[i].era = era[i]
    BY <2>1 DEF Snapshot
  <2>6. \A i \in Jobs : era[i] \in Int
    BY DEF FileTypes, IdentityTypes, Eras
  <2>7. \A i \in Jobs : \A q \in trail'[i] : disk'[i] = NoRow \/ disk'[i].era >= q.era
    BY <2>4, <2>5, <2>6
  <2> QED
    BY <2>1, <2>4, <2>7 DEF TrailStored
<1>3. CASE TrailDelete(j, r) \/ TrailUnblock(j, r)
  <2>1. UNCHANGED <<disk, era>>
    BY <1>3 DEF TrailDelete, TrailUnblock, inner, ident
  <2>2. \A i \in Jobs : \A q \in trail'[i] :
          (i = j /\ q = [r EXCEPT !.stage = "unblock"]) \/ q \in trail[i]
    BY <1>3 DEF TrailDelete, TrailUnblock, Advance, FileTypes
  <2>3. /\ [r EXCEPT !.stage = "unblock"].era = r.era
        /\ [r EXCEPT !.stage = "unblock"].stage = "unblock"
    BY <1>1 DEF Trails
  <2> QED
    BY <1>1, <2>1, <2>2, <2>3 DEF TrailStored
<1> QED
  BY <1>0, <1>2, <1>3

LEMMA CmdStoredStep ==
  ASSUME FileTypes, CmdStored, StoreFails = FALSE, CommandTail PROVE CmdStored'
<1>0. cmd \in CmdRecords /\ Idle.stage = "idle"
  BY DEF FileTypes, IdentityTypes, Idle
<1>1. CASE CmdSaved
  <2>1. disk' = Snapshot /\ UNCHANGED <<st, era>>
    BY <1>1 DEF CmdSaved, inner, ident
  <2>2. CASE cmd'.stage = "delete"
    <3>1. cmd.op # "Drain" /\ cmd' = [cmd EXCEPT !.stage = "delete"]
      BY <1>0, <1>1, <2>2 DEF CmdSaved, Done, CmdRecords
    <3>2. cmd'.job = cmd.job
      BY <1>0, <3>1 DEF CmdRecords
    <3>3. \A i \in Jobs : Stored(i)'
      BY <2>1 DEF Stored, Snapshot, Present
    <3> QED
      BY <3>2, <3>3 DEF CmdStored
  <2> QED
    BY <2>2 DEF CmdStored
<1>2. CASE ~CmdSaved
  <2>1. cmd'.stage # "delete"
    BY <1>0, <1>2 DEF CommandTail, CmdDelete, CmdUnblock, DrainWait, DrainAck, DrainFails, Done,
                      CmdRecords
  <2> QED
    BY <2>1 DEF CmdStored
<1> QED
  BY <1>1, <1>2

LEMMA WrittenStep ==
  ASSUME FileTypes, Written, StoreFails = FALSE, [Next]_vars PROVE Written'
<1>0. CmdStored /\ TrailStored /\ \A j \in Jobs : era[j] \in Int
  BY DEF Written, FileTypes, IdentityTypes, Eras
\* The command stays where it is and so do the rows.
<1>1. ASSUME UNCHANGED <<cmd, era>>, disk' \in {disk, Snapshot}, disk' = Snapshot => UNCHANGED st,
             \A j \in Jobs : Present(j) => Present(j)'
      PROVE  CmdStored'
  <2>1. \A j \in Jobs : Stored(j) => Stored(j)'
    BY <1>1 DEF Stored, Snapshot, Present
  <2> QED
    BY <1>0, <1>1, <2>1 DEF CmdStored
<1>2. CASE Command
  <2>1. /\ UNCHANGED <<trail, disk>>
        /\ \A j \in Jobs : era'[j] \in {era[j], era[j] + 1}
    BY <1>2, CommandFrame, CommandRows DEF RowMoved
  <2>2. TrailStored'
    <3>1. SUFFICES ASSUME NEW j \in Jobs, NEW r \in trail[j]
                   PROVE  /\ r.era <= era'[j]
                          /\ r.stage = "delete" => disk[j] = NoRow \/ disk[j].era >= r.era
      BY <2>1 DEF TrailStored
    <3>2. r.era \in Int /\ r.era <= era[j] /\ era'[j] \in {era[j], era[j] + 1}
      BY <1>0, <2>1 DEF TrailStored, FileTypes, Trails, Eras
    <3> QED
      BY <1>0, <3>2 DEF TrailStored
  <2>3. cmd'.stage \in {"idle", "save", "wait"}
    BY <1>2, CommandStage
  <2> QED
    BY <2>2, <2>3 DEF Written, CmdStored
<1>3. CASE CommandTail
  <2>1. TrailStored'
    BY <1>0, <1>3, TailFrame, TrailKept DEF inner, ident
  <2> QED
    BY <1>0, <1>3, <2>1, CmdStoredStep DEF Written
<1>4. CASE SchedScan
  <2>1. UNCHANGED <<era, trail, cmd, disk>> /\ \A j \in Jobs : Present(j) => Present(j)'
    BY <1>4, ScanFrame DEF Startable, Present, Gone
  <2>2. disk' = Snapshot => UNCHANGED era
    BY <2>1
  <2>3. TrailStored'
    BY <1>0, <2>1, <2>2, TrailKept
  <2>4. CmdStored'
    BY <1>0, <2>1 DEF CmdStored, Stored
  <2> QED
    BY <2>3, <2>4 DEF Written
<1>5. CASE (Scheduler /\ ~SchedScan) \/ PersistWrite \/ UNCHANGED vars
  <2>1. UNCHANGED <<st, era, trail, cmd>> /\ disk' \in {disk, Snapshot}
    BY <1>5, IdleFrame DEF inner, ident
  <2> QED
    BY <1>0, <1>1, <2>1, TrailKept DEF Written, Present
<1>6. ASSUME NEW j \in Jobs, Steps(j) \/ Server(j), ~Finalize(j) PROVE Written'
  <2>1. UNCHANGED <<era, trail, cmd>> /\ disk' \in {disk, Snapshot}
    BY <1>6, WorkerFrame
  <2>2. disk' = disk \/ UNCHANGED st
    BY <1>6 DEF Steps, Server, Spawned, Reconcile, Stat, Kick, KickStore, Plan, Open, StartFails,
         Fallback, XferDone, XferStop, XferFails, Move, Rename, Recheck, CommitFinal,
         Recheck2, Unlink, Error, RetryLater, Backoff, WorkerSaved, WorkerSaveFails,
         WorkerOnly, CommitFrame, inner
  <2>3. \A i \in Jobs : Present(i) => Present(i)'
    BY <1>6, WorkerFrame DEF FileTypes, IdentityTypes, Present, Gone, Running
  <2>4. TrailStored'
    BY <1>0, <2>1, TrailKept
  <2>5. \A i \in Jobs : Stored(i) => Stored(i)'
    BY <2>1, <2>2, <2>3 DEF Stored, Snapshot, Present
  <2> QED
    BY <1>0, <2>1, <2>4, <2>5 DEF Written, CmdStored
<1>7. ASSUME NEW j \in Jobs, Finalize(j) PROVE Written'
  <2>1. /\ UNCHANGED <<era, cmd, disk>>
        /\ \A i \in Jobs : Present(i) => Present(i)'
    BY <1>7 DEF Finalize, Present, Gone, Outcome, Result, FileTypes, IdentityTypes, WorkerLocals,
                Results, Typed, TypeOK, TypeInner, Controls
  <2>2. \A i \in Jobs : \A r \in trail'[i] : r \in trail[i] \/ (r.era = era[i] /\ r.stage = "save")
    <3> DEFINE rec == [stage |-> "save", part |-> j \in pendingPart,
                       out |-> IF Discards(j) THEN produced[j] ELSE NoEra,
                       defer |-> j \in requeue /\ j \in pendingPart, era |-> era[j]]
    <3>1. trail' = [trail EXCEPT ![j] = @ \cup {rec}]
      BY <1>7 DEF Finalize
    <3>2. rec.era = era[j] /\ rec.stage = "save"
      OBVIOUS
    <3> HIDE DEF rec
    <3> QED
      BY <3>1, <3>2 DEF FileTypes
  <2>3. TrailStored'
    BY <1>0, <2>1, <2>2 DEF TrailStored
  <2>4. CmdStored'
    BY <1>0, <2>1 DEF CmdStored, Stored
  <2> QED
    BY <2>3, <2>4 DEF Written
<1>8. ASSUME NEW j \in Jobs, Trail(j) PROVE Written'
  <2>1. UNCHANGED <<cmd, st, era>> /\ disk' \in {disk, Snapshot}
    BY <1>8 DEF Trail, TrailSaved, TrailDelete, TrailUnblock, inner, ident
  <2> QED
    BY <1>0, <1>1, <1>8, <2>1, TrailMoves DEF Written, Present
<1>9. CASE Crash
  BY <1>9 DEF Crash, Written, CmdStored, TrailStored, Idle
<1> QED
  BY <1>2, <1>3, <1>4, <1>5, <1>6, <1>7, <1>8, <1>9 DEF Next

LEMMA InitWritten == ASSUME Init PROVE Written
  BY DEF Init, Written, CmdStored, TrailStored, Idle

\* Bytes of a wiped identity, or of a removed row, are deleted only after
\* state.json stopped claiming them, as long as the store does not fail: no
\* crash leaves a map of bytes that are gone.  The handlers go on after a
\* persist that failed, so the condition cannot be dropped.
THEOREM DeletesArePersisted == ASSUME StoreFails = FALSE PROVE Spec => PersistBeforeDelete
<1>1. Init => Typed /\ Slots /\ Identity /\ Written
  BY InitTyped, InitSlots, InitIdentity, InitWritten
<1>2. Typed /\ Slots /\ Identity /\ Written /\ [Next]_vars
        => (Typed /\ Slots /\ Identity /\ Written)'
  BY FileFacts, TypedStep, SlotsStep, IdentityStep, WrittenStep
<1> DEFINE Kept ==
      \A j \in Jobs :
        /\ CmdDelete /\ cmd.part /\ cmd.job = j =>
             (part[j] < era[j] \/ ~Present(j) => ~Claimed(j))
        /\ \A r \in trail[j] : TrailDelete(j, r) /\ r.part =>
             (part[j] < r.era => ~Claimed(j))
<1>3. Typed /\ Slots /\ Identity /\ Written => Kept
  <2> SUFFICES ASSUME Typed, Slots, Identity, Written, NEW j \in Jobs, Claimed(j)
               PROVE  /\ CmdDelete /\ cmd.job = j => ~(part[j] < era[j] \/ ~Present(j))
                      /\ \A r \in trail[j] : TrailDelete(j, r) => ~(part[j] < r.era)
    OBVIOUS
  <2>0. FileTypes
    BY FileFacts
  <2>1. /\ disk[j] # NoRow /\ disk[j].idEra = part[j] /\ disk[j].era = part[j]
        /\ part[j] \in Int /\ era[j] \in Int
    <3>1. disk[j] \in Rows /\ disk[j].idEra = part[j] /\ disk[j].id = "written"
      BY <2>0 DEF Claimed, FileTypes, IdentityTypes
    <3>2. disk[j].era = disk[j].idEra
      BY <3>1 DEF Identity, NoResurrect, Maps, Claimed
    <3>3. disk[j].era \in Int /\ era[j] \in Int
      BY <2>0, <3>1 DEF Rows, Eras, FileTypes, IdentityTypes
    <3> QED
      BY <3>1, <3>2, <3>3 DEF Claimed
  <2>2. ASSUME CmdDelete, cmd.job = j PROVE ~(part[j] < era[j] \/ ~Present(j))
    BY <2>1, <2>2 DEF Written, CmdStored, Stored, CmdDelete
  <2>3. ASSUME NEW r \in trail[j], TrailDelete(j, r) PROVE ~(part[j] < r.era)
    <3>1. r.era \in Int /\ disk[j].era >= r.era
      BY <2>0, <2>1, <2>3 DEF Written, TrailStored, TrailDelete, FileTypes, Trails, Eras
    <3> QED
      BY <2>1, <3>1
  <2> QED
    BY <2>2, <2>3
<1> QED
  BY <1>1, <1>2, <1>3, PTL DEF Spec, PersistBeforeDelete
-----------------------------------------------------------------------------
(* Final files.  Every one is accounted for by the worker that noted it as  *)
(* produced, by a finalizer on its way to delete it, or by its completion.  *)

Holding == {"recheck", "commitfin", "recheck2", "unlink"}
Aware   == Stages \ {"none", "spawned"}

\* produced_files says what the worker put there, from the rename until the
\* worker takes it back or its finalizer takes it over.
ProducedHeld(j) ==
  /\ produced[j] # NoEra => /\ stage[j] \in Holding \cup {"ended"}
                            /\ w[j].era = produced[j]
                            /\ stage[j] = "ended" => w[j].res = "Completed"
                            /\ Present(j) => produced[j] \in outs[j]
  /\ stage[j] \in Holding => produced[j] # NoEra
  /\ stage[j] = "ended" /\ w[j].res = "Completed" => produced[j] # NoEra

OutsKnown(j) ==
  \A e \in outs[j] : \/ e \in finished[j]
                     \/ produced[j] = e
                     \/ \E r \in trail[j] : r.out = e /\ r.stage \in {"save", "delete"}

\* Neither a worker nor state.json is ahead of the row.
EraOrder(j) ==
  /\ stage[j] \in Aware => w[j].era <= era[j]
  /\ disk[j] # NoRow => disk[j].era <= era[j]
  /\ st[j] = "unborn" => disk[j] = NoRow
  /\ st[j] = "Completed" => j \notin active \cup requeue
  /\ j \in pendingFinal => st[j] = "removed"

\* A flag that was set since the worker looked came with a wipe.
WipedSince(j) ==
  (stage[j] = "rename" \/ produced[j] # NoEra) /\ Present(j) /\ Wiped(j) => w[j].era < era[j]

\* What a finalizer is about to delete is older than what is being made.
TrailOld(j) ==
  \A r \in trail[j] : Present(j) /\ r.out # NoEra =>
    /\ r.out < era[j]
    /\ stage[j] \in Aware => r.out < w[j].era

\* A final file that nobody is going to delete.
Safe(j, e) ==
  /\ e \in outs[j]
  /\ produced[j] # e
  /\ \A r \in trail[j] : r.out # e
  /\ stage[j] \in Aware \ {"ended"} => w[j].era # e

CompletedKept(j) == st[j] = "Completed" => \E e \in Eras : Safe(j, e) /\ e <= era[j]

\* A crash brings the Completed row of state.json back, with its file.
StoredKept(j) ==
  disk[j] # NoRow /\ disk[j].st = "Completed" =>
    \E e \in Eras : /\ Safe(j, e) /\ e <= disk[j].era
                    /\ Present(j) /\ st[j] # "Completed" => e < era[j]

Account(j) == /\ ProducedHeld(j) /\ OutsKnown(j) /\ EraOrder(j) /\ WipedSince(j)
              /\ TrailOld(j) /\ CompletedKept(j) /\ StoredKept(j)

\* A handler deletes final files of a job it took out of the list.
CmdFinal == cmd.out => cmd.job \in Jobs /\ st[cmd.job] = "removed"

Accounts == CmdFinal /\ \A j \in Jobs : Account(j)

LEMMA EraFacts ==
  ASSUME FileTypes, NEW j \in Jobs
  PROVE  /\ era[j] \in Int /\ w[j].era \in Int /\ produced[j] \in Int
         /\ w[j].era \in Eras /\ era[j] \in Eras /\ outs[j] \subseteq Eras
         /\ disk[j] # NoRow => disk[j].era \in Int /\ disk[j].st \in JobState
         /\ \A r \in trail[j] : r \in Trails /\ r.out \in Int
         /\ \A e \in Eras : e \in Int /\ e # NoEra /\ 0 <= e
  BY DEF FileTypes, IdentityTypes, WorkerLocals, Eras, NoEra, Rows, Trails

\* Nothing of the job moves, but its finalizers may get on with what they
\* have, and its row may be written.
Same(j) ==
  /\ st'[j] = st[j] /\ era'[j] = era[j] /\ stage'[j] = stage[j] /\ w'[j] = w[j]
  /\ outs'[j] = outs[j] /\ produced'[j] = produced[j] /\ finished'[j] = finished[j]
  /\ j \in active' <=> j \in active
  /\ j \in requeue' => j \in requeue
  /\ j \in pendingPart' => j \in pendingPart
  /\ j \in pendingFinal' => j \in pendingFinal

LEMMA SameKept ==
  ASSUME FileTypes, NEW j \in Jobs, Account(j), Same(j), disk' \in {disk, Snapshot},
         \A q \in trail'[j] : \E r \in trail[j] : q.out = r.out, OutsKnown(j)'
  PROVE  Account(j)'
<1> USE DEF Account
<1>1. ProducedHeld(j)' /\ WipedSince(j)'
  BY DEF ProducedHeld, WipedSince, Same, Present, Wiped
<1>2. disk'[j] = disk[j] \/ disk'[j] = IF Present(j) THEN [st |-> st[j], id |-> id[j], idEra |-> idEra[j], era |-> era[j]]
                                  ELSE NoRow
  BY DEF Snapshot
<1>3. EraOrder(j)'
  BY <1>2, EraFacts DEF EraOrder, Same, Present, Gone
<1>4. TrailOld(j)'
  BY DEF TrailOld, Same, Present
<1>5. \A e : Safe(j, e) => Safe(j, e)'
  BY DEF Safe, Same
<1>6. CompletedKept(j)'
  BY <1>5 DEF CompletedKept, Same
<1>7. StoredKept(j)'
  <2>1. CASE disk'[j] = disk[j]
    BY <1>5, <2>1 DEF StoredKept, Same, Present
  <2>2. CASE disk'[j] # disk[j] /\ disk'[j] # NoRow
    <3>1. disk'[j].st = st[j] /\ disk'[j].era = era[j]
      BY <1>2, <2>2
    <3> QED
      BY <1>5, <3>1 DEF StoredKept, CompletedKept, Same
  <2> QED
    BY <2>1, <2>2 DEF StoredKept
<1> QED
  BY <1>1, <1>3, <1>4, <1>6, <1>7

LEMMA CommandAccount ==
  ASSUME FileTypes, Command, NEW j \in Jobs, Account(j) PROVE Account(j)'
<1> USE DEF Account
<1>0. /\ RowMoved(j)
      /\ UNCHANGED <<outs, disk, stage, w, trail, finished, produced, active>>
  BY CommandFrame, CommandRows
<1>1. st[j] = "unborn" => stage[j] = "none" /\ trail[j] = {} /\ disk[j] = NoRow
  BY DEF FileTypes, IdentityTypes, Slots, SlotOwned, Untouched, EraOrder
<1>2. ProducedHeld(j)' /\ OutsKnown(j)'
  BY <1>0, <1>1 DEF ProducedHeld, OutsKnown, RowMoved, Holding
<1>3. EraOrder(j)'
  BY <1>0, EraFacts DEF EraOrder, RowMoved, Present, Gone
<1>4. WipedSince(j)'
  BY <1>0, <1>1, EraFacts
     DEF WipedSince, ProducedHeld, EraOrder, RowMoved, Holding, Aware, Stages
<1>5. TrailOld(j)'
  BY <1>0, <1>1, EraFacts DEF TrailOld, RowMoved
<1>6. \A e : Safe(j, e)' <=> Safe(j, e)
  BY <1>0 DEF Safe
<1>7. CompletedKept(j)'
  BY <1>0, <1>6, EraFacts DEF CompletedKept, RowMoved
<1>8. StoredKept(j)'
  <2>1. SUFFICES ASSUME disk[j] # NoRow, disk[j].st = "Completed"
                 PROVE  \E e \in Eras : /\ Safe(j, e) /\ e <= disk[j].era
                                        /\ Present(j)' /\ st'[j] # "Completed" => e < era'[j]
    BY <1>0, <1>6 DEF StoredKept
  <2>2. PICK e \in Eras : /\ Safe(j, e) /\ e <= disk[j].era
                          /\ Present(j) /\ st[j] # "Completed" => e < era[j]
    BY <2>1 DEF StoredKept
  <2>3. disk[j].era <= era[j]
    BY <2>1 DEF EraOrder
  <2>4. Present(j)' /\ st'[j] # "Completed" => e < era'[j]
    BY <1>0, <1>1, <2>1, <2>2, <2>3, EraFacts DEF RowMoved
  <2> QED
    BY <2>2, <2>4
<1> QED
  BY <1>2, <1>3, <1>4, <1>5, <1>7, <1>8

LEMMA CommandFinal == ASSUME FileTypes, Command PROVE CmdFinal'
<1>1. ASSUME NEW op, NEW j, NEW p, NEW u, Tail(op, j, p, FALSE, u) PROVE cmd'.out = FALSE
  BY <1>1 DEF Tail
<1>2. ASSUME Done PROVE cmd'.out = FALSE
  BY <1>2 DEF Done, Idle
<1>3. ASSUME Drain PROVE cmd'.out = FALSE
  BY <1>3 DEF Drain, Idle
<1>4. ASSUME NEW j \in Jobs, \/ Add(j) \/ Pause(j) \/ Resume(j) \/ Retry(j) \/ Restart(j)
                             \/ \E delete \in BOOLEAN : Cancel(j, delete)
      PROVE  cmd'.out = FALSE
  BY <1>1, <1>2, <1>4 DEF Add, Pause, Resume, Retry, Restart, Cancel, Save
<1>5. ASSUME PauseAll \/ ResumeAll \/ RetryAll \/ \E n \in 1 .. MaxConc : UpdateSettings(n)
      PROVE  cmd'.out = FALSE
  BY <1>1, <1>2, <1>5 DEF PauseAll, ResumeAll, RetryAll, Revive, UpdateSettings, Save
<1>6. ASSUME NEW j \in Jobs, NEW p \in BOOLEAN, NEW f \in BOOLEAN, Remove(j, p, f)
      PROVE  cmd'.out => cmd'.job \in Jobs /\ st'[cmd'.job] = "removed"
  <2>1. /\ cmd'.job = j /\ (cmd'.out => Present(j))
        /\ st' = IF Present(j) THEN [st EXCEPT ![j] = "removed"] ELSE st
    BY <1>6 DEF Remove, Tail
  <2> QED
    BY <2>1 DEF FileTypes, IdentityTypes
<1> QED
  BY <1>3, <1>4, <1>5, <1>6 DEF Command, CmdFinal

\* Steps of an attempt before its body is in place: nothing is produced yet.
Early == Aware \ (Holding \cup {"ended", "rename"})

LEMMA AttemptAccount ==
  ASSUME FileTypes, NEW j \in Jobs, Account(j),
         UNCHANGED <<era, outs, produced, finished, trail, active, requeue, pendingPart,
                     pendingFinal, disk>>,
         st'[j] = st[j] \/ (Present(j) /\ st'[j] \in Running),
         stage[j] \in Early \cup {"spawned"},
         \/ stage'[j] \in Early \cup {"ended"} /\ w'[j].era = w[j].era /\ stage[j] \in Early
         \/ stage'[j] \in Early /\ w'[j].era = era[j] /\ Present(j)
         \/ stage'[j] = "ended" /\ w'[j].era = 0 /\ ~Present(j)',
         stage'[j] = "ended" => w'[j].res # "Completed"
  PROVE  Account(j)'
<1> USE DEF Account
<1>0. produced[j] = NoEra /\ j \in active /\ st[j] # "Completed" /\ st[j] # "unborn"
  BY DEF ProducedHeld, Early, Aware, Holding, EraOrder, FileTypes, IdentityTypes, Slots, SlotOwned,
         Untouched
<1>1. Present(j)' <=> Present(j)
  BY DEF Present, Gone, Running
<1>2. st'[j] # "Completed" /\ st'[j] # "unborn" /\ (j \in pendingFinal => st'[j] = "removed")
  BY <1>0 DEF Running, EraOrder, Present, Gone
<1>3. ProducedHeld(j)' /\ OutsKnown(j)' /\ WipedSince(j)'
  BY <1>0 DEF ProducedHeld, OutsKnown, WipedSince, Early, Holding
<1>4. EraOrder(j)'
  BY <1>0, <1>2, EraFacts DEF EraOrder, Early, Aware
<1>5. TrailOld(j)'
  BY <1>1, EraFacts DEF TrailOld, Early, Aware
<1>6. CompletedKept(j)'
  BY <1>2 DEF CompletedKept
<1>7. StoredKept(j)'
  <2>1. SUFFICES ASSUME disk[j] # NoRow, disk[j].st = "Completed"
                 PROVE  \E e \in Eras : /\ Safe(j, e)' /\ e <= disk[j].era
                                        /\ Present(j) => e < era[j]
    BY <1>1 DEF StoredKept
  <2>2. PICK e \in Eras : Safe(j, e) /\ e <= disk[j].era /\ (Present(j) => e < era[j])
    BY <1>0, <2>1 DEF StoredKept
  <2>3. Safe(j, e)'
    BY <1>0, <2>2, EraFacts DEF Safe, Early, Aware
  <2> QED
    BY <2>2, <2>3
<1> QED
  BY <1>3, <1>4, <1>5, <1>6, <1>7

\* Which steps those are.
LEMMA AttemptSteps ==
  ASSUME FileTypes, NEW j \in Jobs, Account(j),
         \/ Spawned(j) \/ Reconcile(j) \/ Stat(j) \/ Kick(j) \/ KickStore(j) \/ Plan(j)
         \/ Open(j) \/ StartFails(j) \/ Fallback(j) \/ XferDone(j) \/ XferStop(j) \/ XferFails(j)
         \/ Error(j) \/ RetryLater(j) \/ Backoff(j)
  PROVE  Account(j)'
<1> USE DEF FileTypes, IdentityTypes
<1>1. /\ UNCHANGED <<era, outs, produced, finished, trail, active, requeue, pendingPart,
                     pendingFinal, disk>>
      /\ st'[j] = st[j] \/ (Present(j) /\ st'[j] \in Running)
  BY DEF Spawned, Reconcile, Stat, Kick, KickStore, Plan, Open, StartFails, Fallback, XferDone,
         XferStop, XferFails, Error, RetryLater, Backoff, WorkerOnly, CommitFrame, tasks, inner,
         ident, flags, files, Running
<1>2. stage[j] \in Early \cup {"spawned"}
  BY DEF Spawned, Reconcile, Stat, Kick, KickStore, Plan, Open, StartFails, Fallback, XferDone,
         XferStop, XferFails, Error, RetryLater, Backoff, At, Early, Aware, Stages, Holding
<1>3. ASSUME Spawned(j)
      PROVE  \/ stage'[j] \in Early /\ w'[j].era = era[j] /\ Present(j)
             \/ stage'[j] = "ended" /\ w'[j].era = 0 /\ ~Present(j)' /\ w'[j].res # "Completed"
  <2>1. CASE Present(j)
    <3>1. w' = [w EXCEPT ![j] = [NoLocals EXCEPT !.id = id[j], !.era = era[j]]]
          /\ stage' = [stage EXCEPT ![j] = "reconcile"]
      BY <1>3, <2>1 DEF Spawned, Goto
    <3> QED
      BY <2>1, <3>1 DEF NoLocals, Early, Aware, Stages, Holding
  <2>2. CASE ~Present(j)
    <3>1. w' = [w EXCEPT ![j] = NoLocals] /\ stage' = [stage EXCEPT ![j] = "ended"] /\ UNCHANGED st
      BY <1>3, <2>2 DEF Spawned, Goto, inner
    <3> QED
      BY <2>2, <3>1 DEF NoLocals, Present
  <2> QED
    BY <2>1, <2>2
<1>4. ASSUME NEW r \in Results \ {"Completed"}, End(j, r), stage[j] \in Early
      PROVE  /\ stage'[j] = "ended" /\ w'[j].era = w[j].era
             /\ w'[j].res # "Completed"
  BY <1>4 DEF End, Goto, WorkerLocals
<1>5. Told(j) => control[j] \in Results \ {"Completed"}
  BY DEF Told, Typed, TypeOK, TypeInner, Controls, Results
<1>6. ASSUME Reconcile(j) \/ Kick(j) \/ KickStore(j) \/ Open(j) \/ StartFails(j) \/ Fallback(j)
                \/ XferDone(j) \/ XferFails(j) \/ RetryLater(j)
      PROVE  stage'[j] \in Early /\ w'[j].era = w[j].era /\ stage[j] \in Early
  BY <1>2, <1>6 DEF Reconcile, Kick, KickStore, Open, StartFails, Fallback, XferDone, XferFails,
                    RetryLater, At, Goto, Early, Aware, Stages, Holding, WorkerLocals
<1>7. ASSUME Stat(j)
      PROVE  /\ stage'[j] \in Early /\ stage[j] \in Early
             /\ w'[j].era = w[j].era \/ (w'[j].era = era[j] /\ Present(j))
  BY <1>2, <1>7 DEF Stat, At, Goto, Early, Aware, Stages, Holding, WorkerLocals
<1>8. ASSUME Plan(j) \/ XferStop(j)
      PROVE  /\ stage[j] \in Early /\ w'[j].era = w[j].era
             /\ stage'[j] \in Early \/ (stage'[j] = "ended" /\ w'[j].res # "Completed")
  <2>1. stage[j] \in Early
    BY <1>8 DEF Plan, XferStop, At, Early, Aware, Stages, Holding
  <2>2. CASE \E r \in Results \ {"Completed"} : End(j, r)
    BY <1>4, <2>1, <2>2
  <2>3. CASE Plan(j) /\ ~Told(j)
    BY <2>1, <2>3 DEF Plan, Goto, Early, Aware, Stages, Holding, WorkerLocals
  <2> QED
    BY <1>5, <1>8, <2>2, <2>3 DEF Plan, XferStop
<1>9. ASSUME Error(j) \/ Backoff(j)
      PROVE  /\ stage[j] \in Early
             /\ \/ stage'[j] \in Early \cup {"ended"} /\ w'[j].era = w[j].era
                \/ stage'[j] \in Early /\ w'[j].era = era[j] /\ Present(j)
             /\ stage'[j] = "ended" => w'[j].res # "Completed"
  <2>1. stage[j] \in Early
    BY <1>9 DEF Error, Backoff, At, Early, Aware, Stages, Holding
  <2>2. CASE \E r \in Results \ {"Completed"} : End(j, r)
    BY <1>4, <2>1, <2>2
  <2>3. CASE Error(j) /\ \E n : Goto(j, "retry") /\ w' = [w EXCEPT ![j].try = n]
    BY <2>1, <2>3 DEF Goto, Early, Aware, Stages, Holding, WorkerLocals
  <2>4. CASE Backoff(j) /\ ~Told(j)
    BY <2>1, <2>4 DEF Backoff, Goto, Early, Aware, Stages, Holding, WorkerLocals
  <2> QED
    BY <1>5, <1>9, <2>2, <2>3, <2>4 DEF Error, Backoff, Results
<1>10. stage'[j] = "ended" => w'[j].res # "Completed"
  BY <1>3, <1>6, <1>7, <1>8, <1>9 DEF Early
<1>11. \/ stage'[j] \in Early \cup {"ended"} /\ w'[j].era = w[j].era /\ stage[j] \in Early
       \/ stage'[j] \in Early /\ w'[j].era = era[j] /\ Present(j)
       \/ stage'[j] = "ended" /\ w'[j].era = 0 /\ ~Present(j)'
  BY <1>3, <1>6, <1>7, <1>8, <1>9
<1> HIDE DEF FileTypes, IdentityTypes
<1> QED
  BY <1>1, <1>2, <1>10, <1>11, AttemptAccount

\* The last steps of a worker whose body is complete.
LEMMA FinishAccount ==
  ASSUME FileTypes, NEW j \in Jobs, Account(j),
         Move(j) \/ Recheck(j) \/ CommitFinal(j) \/ Recheck2(j)
  PROVE  Account(j)'
<1> USE DEF Account
<1>1. UNCHANGED <<st, era, outs, produced, finished, trail, active, requeue, pendingPart,
                  pendingFinal, disk>>
  BY DEF Move, Recheck, CommitFinal, Recheck2, WorkerOnly, CommitFrame, tasks, inner, ident,
         flags, files
<1>2. /\ stage[j] \in Aware \ {"ended", "rename"} /\ stage'[j] \in Aware /\ w'[j].era = w[j].era
      /\ stage'[j] = "rename" => stage[j] = "move" /\ (Present(j) => ~Wiped(j))
      /\ stage'[j] \in Holding => stage[j] \in Holding
      /\ stage[j] \in Holding => \/ stage'[j] \in Holding
                                 \/ stage'[j] = "ended" /\ w'[j].res = "Completed"
      /\ stage[j] \notin Holding => stage'[j] = "rename" \/ (stage'[j] = "ended" /\ w'[j].res # "Completed")
  BY DEF Move, Recheck, CommitFinal, Recheck2, At, Goto, End, Aware, Stages, Holding, OutputDiscarded,
         Wiped, FileTypes, IdentityTypes, WorkerLocals
<1>3. ProducedHeld(j)'
  BY <1>1, <1>2 DEF ProducedHeld, Holding, Aware, Present
<1>4. OutsKnown(j)' /\ EraOrder(j)' /\ TrailOld(j)'
  BY <1>1, <1>2 DEF OutsKnown, EraOrder, TrailOld, Present
<1>5. WipedSince(j)'
  BY <1>1, <1>2 DEF WipedSince, Wiped, Present
<1>6. \A e : Safe(j, e) => Safe(j, e)'
  BY <1>1, <1>2 DEF Safe
<1>7. CompletedKept(j)' /\ StoredKept(j)'
  BY <1>1, <1>6 DEF CompletedKept, StoredKept, Present
<1> QED
  BY <1>3, <1>4, <1>5, <1>7

LEMMA RenameAccount ==
  ASSUME FileTypes, NEW j \in Jobs, Account(j), Rename(j) PROVE Account(j)'
<1> USE DEF Account
<1>1. /\ UNCHANGED <<st, era, finished, trail, active, requeue, pendingPart, pendingFinal, disk>>
      /\ stage[j] = "rename" /\ w'[j].era = w[j].era
  BY DEF Rename, At, tasks, ident, FileTypes, IdentityTypes, WorkerLocals
<1>2. \/ stage'[j] = "error" /\ UNCHANGED <<outs, produced>>
      \/ /\ stage'[j] = "recheck" /\ outs'[j] = outs[j] \cup {w[j].era}
         /\ produced'[j] = w[j].era
  BY DEF Rename, Goto, files, FileTypes, IdentityTypes
<1>3. produced[j] = NoEra
  BY <1>1 DEF ProducedHeld, Holding
<1>4. ProducedHeld(j)' /\ OutsKnown(j)'
  BY <1>1, <1>2, <1>3, EraFacts DEF ProducedHeld, OutsKnown, Holding
<1>5. EraOrder(j)' /\ TrailOld(j)' /\ WipedSince(j)'
  BY <1>1, <1>2, <1>3 DEF EraOrder, TrailOld, WipedSince, Present, Wiped, Aware, Stages
<1>6. \A e : Safe(j, e) => Safe(j, e)'
  BY <1>1, <1>2 DEF Safe, Aware, Stages
<1>7. CompletedKept(j)' /\ StoredKept(j)'
  BY <1>1, <1>6 DEF CompletedKept, StoredKept, Present
<1> QED
  BY <1>4, <1>5, <1>7

LEMMA UnlinkAccount ==
  ASSUME FileTypes, NEW j \in Jobs, Account(j), Unlink(j) PROVE Account(j)'
<1> USE DEF Account
<1>1. /\ UNCHANGED <<st, era, finished, trail, active, requeue, pendingPart, pendingFinal, disk>>
      /\ stage[j] = "unlink" /\ w'[j].era = w[j].era /\ stage'[j] = "ended"
      /\ w'[j].res = "Canceled" /\ produced'[j] = NoEra /\ outs'[j] = outs[j] \ {w[j].era}
  BY DEF Unlink, At, End, Goto, tasks, ident, FileTypes, IdentityTypes, WorkerLocals
<1>2. produced[j] = w[j].era
  BY <1>1 DEF ProducedHeld, Holding
<1>3. ProducedHeld(j)' /\ OutsKnown(j)'
  BY <1>1, <1>2, EraFacts DEF ProducedHeld, OutsKnown, Holding
<1>4. EraOrder(j)' /\ TrailOld(j)' /\ WipedSince(j)'
  BY <1>1 DEF EraOrder, TrailOld, WipedSince, Present, Aware, Stages
<1>5. \A e \in Eras : Safe(j, e) => Safe(j, e)'
  BY <1>1, <1>2, EraFacts DEF Safe
<1>6. CompletedKept(j)' /\ StoredKept(j)'
  BY <1>1, <1>5 DEF CompletedKept, StoredKept, Present
<1> QED
  BY <1>3, <1>4, <1>6

LEMMA WorkerAccount ==
  ASSUME FileTypes, StoreFails = FALSE, NEW j \in Jobs, Account(j), Steps(j) \/ Server(j),
         ~Finalize(j)
  PROVE  Account(j)'
<1>1. CASE WorkerSaved(j)
  <2>1. Same(j) /\ disk' = Snapshot /\ UNCHANGED <<trail, outs, produced, finished>>
    BY <1>1 DEF WorkerSaved, Same, inner, ident, files, tasks
  <2> QED
    BY <2>1, SameKept DEF Account, OutsKnown
<1>2. CASE ~WorkerSaved(j)
  BY <1>2, AttemptSteps, FinishAccount, RenameAccount, UnlinkAccount
     DEF Steps, Server, WorkerSaveFails
<1> QED
  BY <1>1, <1>2

LEMMA FinalizeAccount ==
  ASSUME FileTypes, NEW j \in Jobs, Account(j), Finalize(j) PROVE Account(j)'
<1> USE DEF Account
<1> DEFINE out == IF Discards(j) THEN produced[j] ELSE NoEra
           rec == [stage |-> "save", part |-> j \in pendingPart, out |-> out,
                   defer |-> j \in requeue /\ j \in pendingPart, era |-> era[j]]
<1>0. /\ UNCHANGED <<era, outs, disk>> /\ stage[j] = "ended" /\ stage'[j] = "none"
      /\ produced'[j] = NoEra /\ active' = active \ {j} /\ pendingFinal' = pendingFinal \ {j}
      /\ requeue' \subseteq requeue
      /\ st'[j] = IF Present(j) THEN Outcome(j) ELSE st[j]
      /\ trail'[j] = trail[j] \cup {rec}
      /\ finished'[j] = IF Accepted(j) THEN finished[j] \cup {w[j].era} ELSE finished[j]
  BY DEF Finalize, At, Goto, files, FileTypes, IdentityTypes
<1>1. rec.out = out /\ rec.stage = "save"
  OBVIOUS
<1> HIDE DEF rec
<1>2. j \in active /\ st[j] # "Completed" /\ st[j] # "unborn"
  BY <1>0 DEF EraOrder, FileTypes, IdentityTypes, Slots, SlotOwned, Untouched
<1>3. Outcome(j) \in JobState
  BY LocalsTyped DEF FileTypes, IdentityTypes, Typed, TypeOK, TypeInner, Outcome, Result, Results,
                     Controls, JobState
<1>4. /\ Present(j)' <=> Present(j)
      /\ j \in pendingFinal => ~Present(j)
  BY <1>0, <1>3 DEF Present, Gone, JobState, EraOrder
\* A completion is noted, and one that is not discarded is accepted.
<1>5. /\ w[j].res = "Completed" <=> produced[j] # NoEra
      /\ produced[j] # NoEra => produced[j] = w[j].era
  BY <1>0 DEF ProducedHeld
<1>6. produced[j] # NoEra /\ ~Discards(j) => Accepted(j)
  BY <1>4, <1>5 DEF Discards, Accepted, Outcome, Result
<1>7. ProducedHeld(j)' /\ WipedSince(j)'
  BY <1>0 DEF ProducedHeld, WipedSince, Holding
<1>8. OutsKnown(j)'
  <2> SUFFICES ASSUME NEW e \in outs[j]
               PROVE  \/ e \in finished'[j]
                      \/ \E r \in trail'[j] : r.out = e /\ r.stage \in {"save", "delete"}
    BY <1>0 DEF OutsKnown
  <2>1. CASE produced[j] = e
    BY <1>0, <1>1, <1>5, <1>6, <2>1, EraFacts
  <2>2. CASE produced[j] # e
    BY <1>0, <2>2 DEF OutsKnown
  <2> QED
    BY <2>1, <2>2
<1>9. Present(j) /\ Outcome(j) = "Completed" => ~Discards(j) /\ w[j].res = "Completed" /\ j \notin requeue
  BY <1>4 DEF Outcome, Result, Discards, FileTypes, IdentityTypes, Typed, TypeOK, TypeInner,
              Controls
<1>10. EraOrder(j)'
  BY <1>0, <1>2, <1>3, <1>4, <1>9 DEF EraOrder, Aware, JobState
<1>11. TrailOld(j)'
  <2>1. Present(j) /\ out # NoEra => out < era[j]
    BY <1>4, <1>5 DEF Discards, WipedSince, Wiped
  <2> QED
    BY <1>0, <1>1, <1>4, <2>1 DEF TrailOld, Aware
<1>12. \A e \in Eras : Safe(j, e) => Safe(j, e)'
  BY <1>0, <1>1, EraFacts DEF Safe, Aware
<1>13. CompletedKept(j)'
  <2> SUFFICES ASSUME st'[j] = "Completed"
               PROVE  \E e \in Eras : Safe(j, e)' /\ e <= era[j]
    BY <1>0 DEF CompletedKept
  <2>1. Present(j) /\ Outcome(j) = "Completed"
    BY <1>0, <1>2
  <2>2. produced[j] = w[j].era /\ w[j].era \in outs[j] /\ out = NoEra
    BY <1>5, <1>9, <2>1 DEF ProducedHeld
  <2>3. \A r \in trail[j] : r.out # w[j].era
    BY <1>0, <2>1, EraFacts DEF TrailOld, Aware, Stages
  <2>4. w[j].era <= era[j]
    BY <1>0 DEF EraOrder, Aware, Stages
  <2>5. \E e \in Eras : e = w[j].era
    BY EraFacts
  <2>6. PICK e \in Eras : e = w[j].era
    BY <2>5
  <2>7. Safe(j, e)'
    BY <1>0, <1>1, <2>2, <2>3, <2>6, EraFacts DEF Safe, Aware
  <2> QED
    BY <2>4, <2>6, <2>7
<1>14. StoredKept(j)'
  BY <1>0, <1>2, <1>4, <1>12 DEF StoredKept
<1> QED
  BY <1>7, <1>8, <1>10, <1>11, <1>13, <1>14

LEMMA TrailAccount ==
  ASSUME FileTypes, StoreFails = FALSE, NEW j \in Jobs, Account(j), Trail(j)
  PROVE  Account(j)'
<1>0. PICK r \in trail[j] : TrailSaved(j, r) \/ TrailDelete(j, r) \/ TrailUnblock(j, r)
  BY DEF Trail
<1>1. r \in Trails
  BY DEF FileTypes
<1>2. CASE TrailSaved(j, r)
  <2> DEFINE next == [r EXCEPT !.stage = "delete"]
  <2>1. next.out = r.out /\ next.stage = "delete"
    BY <1>1 DEF Trails
  <2>2. /\ Same(j) /\ disk' = Snapshot /\ UNCHANGED <<outs, produced, finished>>
        /\ trail'[j] = (trail[j] \ {r}) \cup (IF r.part \/ r.out # NoEra THEN {next} ELSE {})
    BY <1>2 DEF TrailSaved, Advance, Same, inner, ident, flags, files, worker, FileTypes
  <2> HIDE DEF next
  <2>3. OutsKnown(j)'
    BY <2>1, <2>2, EraFacts DEF OutsKnown, Account
  <2>4. \A q \in trail'[j] : \E p \in trail[j] : q.out = p.out
    BY <2>1, <2>2
  <2> QED
    BY <2>2, <2>3, <2>4, SameKept
<1>3. CASE TrailUnblock(j, r)
  <2>1. /\ Same(j) /\ disk' = disk /\ UNCHANGED <<outs, produced, finished>>
        /\ trail'[j] = trail[j] \ {r} /\ r.stage = "unblock"
    BY <1>3 DEF TrailUnblock, Advance, Same, ident, files, worker, FileTypes
  <2> QED
    BY <2>1, SameKept DEF OutsKnown, Account
<1>4. CASE TrailDelete(j, r)
  <2> USE DEF Account
  <2> DEFINE next == [r EXCEPT !.stage = "unblock"]
  <2>1. next.out = r.out
    BY <1>1 DEF Trails
  <2>2. /\ UNCHANGED <<st, era, stage, w, produced, finished, active, requeue, pendingPart,
                       pendingFinal, disk>>
        /\ outs'[j] = outs[j] \ {r.out}
        /\ trail'[j] = (trail[j] \ {r}) \cup (IF r.defer THEN {next} ELSE {})
    BY <1>4 DEF TrailDelete, Advance, inner, ident, worker, FileTypes, IdentityTypes
  <2> HIDE DEF next
  <2>3. \A q \in trail'[j] : \E p \in trail[j] : q.out = p.out
    BY <2>1, <2>2
  <2>4. ProducedHeld(j)'
    <3>1. produced[j] # NoEra /\ Present(j) => r.out # produced[j]
      <4>1. produced[j] # NoEra => stage[j] \in Aware /\ produced[j] = w[j].era
        BY DEF ProducedHeld, Holding, Aware, Stages
      <4> QED
        BY <4>1, EraFacts DEF TrailOld
    <3> QED
      BY <2>2, <3>1 DEF ProducedHeld, Present
  <2>5. OutsKnown(j)'
    BY <2>2 DEF OutsKnown
  <2>6. EraOrder(j)' /\ WipedSince(j)' /\ TrailOld(j)'
    BY <2>2, <2>3 DEF EraOrder, WipedSince, TrailOld, Present, Wiped
  <2>7. \A e : Safe(j, e) => Safe(j, e)'
    BY <2>2, <2>3 DEF Safe
  <2>8. CompletedKept(j)' /\ StoredKept(j)'
    BY <2>2, <2>7 DEF CompletedKept, StoredKept, Present
  <2> QED
    BY <2>4, <2>5, <2>6, <2>8
<1> QED
  BY <1>0, <1>2, <1>3, <1>4

\* Final files go with their job: the row is out of memory and of state.json.
LEMMA DeleteAccount ==
  ASSUME FileTypes, Written, CmdFinal, CmdDelete, NEW j \in Jobs, Account(j)
  PROVE  Account(j)'
<1> USE DEF Account
<1>1. /\ UNCHANGED <<st, era, stage, w, produced, finished, active, requeue, pendingPart,
                     pendingFinal, disk, trail>>
      /\ outs'[j] \subseteq outs[j]
      /\ outs'[j] = outs[j] \/ (cmd.out /\ cmd.job = j)
  BY DEF CmdDelete, inner, ident, worker, FileTypes, IdentityTypes
<1>2. CASE outs'[j] = outs[j]
  <2>1. Same(j) /\ OutsKnown(j)'
    BY <1>1, <1>2 DEF Same, OutsKnown
  <2> QED
    BY <1>1, <2>1, SameKept
<1>3. CASE cmd.out /\ cmd.job = j
  <2>1. st[j] = "removed" /\ disk[j] = NoRow /\ ~Present(j)
    BY <1>3 DEF CmdFinal, Written, CmdStored, Stored, CmdDelete, Present, Gone
  <2>2. ProducedHeld(j)' /\ OutsKnown(j)' /\ EraOrder(j)' /\ WipedSince(j)' /\ TrailOld(j)'
    BY <1>1, <2>1
       DEF ProducedHeld, OutsKnown, EraOrder, WipedSince, TrailOld, Present, Wiped
  <2>3. CompletedKept(j)' /\ StoredKept(j)'
    BY <1>1, <2>1 DEF CompletedKept, StoredKept
  <2> QED
    BY <2>2, <2>3
<1> QED
  BY <1>1, <1>2, <1>3

LEMMA ScanAccount ==
  ASSUME FileTypes, SchedScan, NEW j \in Jobs, Account(j) PROVE Account(j)'
<1> USE DEF Account
<1>0. UNCHANGED <<era, requeue, pendingPart, pendingFinal, produced, outs, disk, w, trail,
                  finished>>
  BY ScanFrame DEF files
<1>1. CASE st'[j] = st[j] /\ stage'[j] = stage[j] /\ (j \in active' <=> j \in active)
  BY <1>0, <1>1, SameKept DEF Same, OutsKnown
<1>2. CASE Startable(j) /\ st'[j] = "Starting" /\ stage'[j] = "spawned"
  <2>1. st[j] = "Queued" /\ produced[j] = NoEra /\ Present(j)
    BY <1>2 DEF Startable, Present, Gone, ProducedHeld, Holding, FileTypes, IdentityTypes, Slots,
                SlotOwned
  <2>2. Present(j)' /\ st'[j] # "Completed" /\ stage'[j] \notin Aware
    BY <1>2 DEF Present, Gone, Aware
  <2>3. ProducedHeld(j)' /\ OutsKnown(j)' /\ WipedSince(j)' /\ TrailOld(j)'
    BY <1>0, <1>2, <2>1, <2>2 DEF ProducedHeld, OutsKnown, WipedSince, TrailOld, Holding
  <2>4. EraOrder(j)'
    BY <1>0, <1>2, <2>1, <2>2 DEF EraOrder
  <2>5. \A e : Safe(j, e) => Safe(j, e)'
    BY <1>0, <2>2 DEF Safe
  <2>6. CompletedKept(j)' /\ StoredKept(j)'
    BY <1>0, <2>1, <2>2, <2>5 DEF CompletedKept, StoredKept
  <2> QED
    BY <2>3, <2>4, <2>6
<1> QED
  BY <1>1, <1>2, ScanFrame

\* What is known of a file, as the property says it.
LEMMA OutsHeld ==
  ASSUME NEW j \in Jobs PROVE OutsKnown(j) <=> outs[j] \subseteq finished[j] \cup Held(j)
<1>1. \A e : e \in Held(j) <=> \/ produced[j] = e
                               \/ \E r \in trail[j] : r.out = e /\ r.stage \in {"save", "delete"}
  BY DEF Held
<1> QED
  BY <1>1 DEF OutsKnown

LEMMA CrashAccount ==
  ASSUME FileTypes, Crash, NEW j \in Jobs, Account(j) PROVE Account(j)'
<1> USE DEF Account
<1>0. /\ UNCHANGED <<outs, disk>> /\ produced'[j] = NoEra /\ stage'[j] = "none"
      /\ trail'[j] = {} /\ active' = {} /\ requeue' = {} /\ pendingFinal' = {}
      /\ finished'[j] = finished[j] \cup (Held(j) \cap outs[j])
      /\ era'[j] = IF disk[j] # NoRow THEN disk[j].era ELSE 0
      /\ st'[j] = IF disk[j] # NoRow THEN Reload(disk[j].st)
                  ELSE IF st[j] = "unborn" THEN "unborn" ELSE "removed"
  BY DEF Crash, files
<1>1. /\ st'[j] = "Completed" => disk[j] # NoRow /\ disk[j].st = "Completed"
      /\ disk[j] # NoRow /\ disk[j].st = "Completed" => st'[j] = "Completed"
      /\ st'[j] = "unborn" => disk[j] = NoRow
  BY <1>0, EraFacts DEF Reload, Running, JobState
<1>2. ProducedHeld(j)' /\ WipedSince(j)' /\ TrailOld(j)'
  BY <1>0 DEF ProducedHeld, WipedSince, TrailOld, Holding
<1>6. OutsKnown(j)'
  BY <1>0, OutsHeld DEF OutsKnown
<1>3. EraOrder(j)'
  BY <1>0, <1>1, EraFacts DEF EraOrder, Aware
<1>4. \A e \in Eras : Safe(j, e) => Safe(j, e)'
  BY <1>0, EraFacts DEF Safe, Aware
<1>5. CompletedKept(j)' /\ StoredKept(j)'
  BY <1>0, <1>1, <1>4 DEF CompletedKept, StoredKept
<1> QED
  BY <1>2, <1>3, <1>5, <1>6

LEMMA AccountsStep ==
  ASSUME FileTypes, Written, Accounts, StoreFails = FALSE, [Next]_vars PROVE Accounts'
<1> DEFINE All == \A i \in Jobs : Account(i)'
<1>0. CmdFinal /\ \A i \in Jobs : Account(i)
  BY DEF Accounts
\* A job that does not move.
<1>1. ASSUME NEW i \in Jobs, Same(i), disk' \in {disk, Snapshot}, trail'[i] = trail[i]
      PROVE  Account(i)'
  <2>1. OutsKnown(i)'
    BY <1>0, <1>1 DEF Account, OutsKnown, Same
  <2> QED
    BY <1>0, <1>1, <2>1, SameKept
<1>2. CASE Command
  BY <1>0, <1>2, CommandAccount, CommandFinal DEF Accounts
<1>3. CASE CommandTail
  <2>1. CmdFinal'
    <3>1. UNCHANGED st
      BY <1>3, TailFrame
    <3>2. cmd'.out => cmd.out /\ cmd'.job = cmd.job
      BY <1>3 DEF CommandTail, CmdSaved, CmdDelete, CmdUnblock, DrainWait, DrainAck, DrainFails,
                  Done, Idle, FileTypes, IdentityTypes, CmdRecords
    <3> QED
      BY <1>0, <3>1, <3>2 DEF CmdFinal
  <2>2. CASE CmdDelete
    BY <1>0, <2>1, <2>2, DeleteAccount DEF Accounts
  <2>3. CASE ~CmdDelete
    BY <1>1, <1>3, <2>1, <2>3, TailFrame DEF Same, files, Accounts
  <2> QED
    BY <2>2, <2>3
<1>4. CASE SchedScan
  <2>1. UNCHANGED cmd /\ \A j \in Jobs : st[j] = "removed" => st'[j] = "removed"
    BY <1>4, ScanFrame DEF Startable
  <2> QED
    BY <1>0, <1>4, <2>1, ScanAccount DEF Accounts, CmdFinal
<1>5. CASE (Scheduler /\ ~SchedScan) \/ PersistWrite \/ UNCHANGED vars
  BY <1>0, <1>1, <1>5, IdleFrame DEF Accounts, CmdFinal, Same, inner, ident, files
<1>6. ASSUME NEW j \in Jobs, Steps(j) \/ Server(j) PROVE Accounts'
  <2>1. ASSUME NEW i \in Jobs \ {j} PROVE Account(i)'
    <3>1. CASE Finalize(j)
      BY <1>1, <1>6, <2>1, <3>1, WorkerOwn DEF Finalize, Same, FileTypes, files
    <3>2. CASE ~Finalize(j)
      BY <1>1, <1>6, <2>1, <3>2, WorkerOwn, WorkerFrame DEF Same
    <3> QED
      BY <3>1, <3>2
  <2>2. Account(j)'
    BY <1>0, <1>6, WorkerAccount, FinalizeAccount
  <2>3. UNCHANGED cmd /\ \A i \in Jobs : st[i] = "removed" => st'[i] = "removed"
    <3>1. CASE Finalize(j)
      BY <3>1 DEF Finalize, FileTypes, IdentityTypes, Present, Gone
    <3>2. CASE ~Finalize(j)
      BY <1>6, <3>2, WorkerFrame DEF FileTypes, IdentityTypes, Present, Gone
    <3> QED
      BY <3>1, <3>2
  <2> QED
    BY <1>0, <2>1, <2>2, <2>3 DEF Accounts, CmdFinal
<1>7. ASSUME NEW j \in Jobs, Trail(j) PROVE Accounts'
  <2>1. ASSUME NEW i \in Jobs \ {j} PROVE Account(i)'
    BY <1>1, <1>7, <2>1
       DEF Trail, TrailSaved, TrailDelete, TrailUnblock, Advance, Same, inner, ident, flags, files,
           worker, FileTypes
  <2>2. UNCHANGED <<cmd, st>>
    BY <1>7 DEF Trail, TrailSaved, TrailDelete, TrailUnblock, inner
  <2> QED
    BY <1>0, <1>7, <2>1, <2>2, TrailAccount DEF Accounts, CmdFinal
<1>8. CASE Crash
  BY <1>0, <1>8, CrashAccount DEF Accounts, CmdFinal, Crash, Idle
<1> QED
  BY <1>2, <1>3, <1>4, <1>5, <1>6, <1>7, <1>8 DEF Next

LEMMA InitAccounts == ASSUME Init PROVE Accounts
<1>1. Typed /\ FileTypes
  BY InitTyped, InitSlots, InitIdentity, FileFacts
<1>2. PICK row \in [Jobs -> Loaded \cup {NoRow}] :
        /\ st = [j \in Jobs |-> IF row[j] = NoRow THEN "unborn" ELSE Reload(row[j].st)]
        /\ disk = [j \in Jobs |->
                     IF row[j] = NoRow THEN NoRow
                     ELSE [st |-> row[j].st, id |-> row[j].id, idEra |-> 0, era |-> 0]]
  BY DEF Init
<1>3. SUFFICES ASSUME NEW j \in Jobs PROVE Account(j)
  BY DEF Init, Accounts, CmdFinal, Idle
<1>4. /\ era[j] = 0 /\ stage[j] = "none" /\ produced[j] = NoEra /\ trail[j] = {}
      /\ outs[j] = (IF st[j] = "Completed" THEN {0} ELSE {}) /\ finished = outs
      /\ active = {} /\ requeue = {} /\ pendingPart = {} /\ pendingFinal = {}
  BY DEF Init
<1>5. /\ disk[j] # NoRow => disk[j].era = 0
      /\ disk[j] # NoRow /\ disk[j].st = "Completed" => st[j] = "Completed"
      /\ st[j] = "unborn" => disk[j] = NoRow
  <2>1. CASE row[j] = NoRow
    BY <1>2, <2>1
  <2>2. CASE row[j] # NoRow
    <3>1. row[j].st \in JobState
      BY <2>2, LoadedAssumption
    <3> QED
      BY <1>2, <2>2, <3>1 DEF Reload, Running, JobState
  <2> QED
    BY <2>1, <2>2
<1>6. 0 \in Eras
  BY DEF Eras
<1>7. ProducedHeld(j) /\ OutsKnown(j) /\ EraOrder(j) /\ WipedSince(j) /\ TrailOld(j)
  BY <1>4, <1>5 DEF ProducedHeld, OutsKnown, EraOrder, WipedSince, TrailOld, Holding, Aware
<1>8. st[j] = "Completed" => Safe(j, 0)
  BY <1>4 DEF Safe, Aware, NoEra
<1>9. CompletedKept(j) /\ StoredKept(j)
  BY <1>4, <1>5, <1>6, <1>8 DEF CompletedKept, StoredKept
<1> QED
  BY <1>7, <1>9 DEF Account

\* With a store that does not fail, and whatever the process goes through: a
\* final file is either an accepted one or in the hands of the worker or the
\* finalizer that answers for it, or was when the process died; and a Completed
\* row, in memory or in state.json, has its file.  A commit that cannot be saved
\* ends a worker that already renamed its file, hence the condition.
THEOREM OutputsAreAccounted == ASSUME StoreFails = FALSE PROVE Spec => []OutputsAccounted
<1>1. Init => Typed /\ Slots /\ Identity /\ Written /\ Accounts
  BY InitTyped, InitSlots, InitIdentity, InitWritten, InitAccounts
<1>2. Typed /\ Slots /\ Identity /\ Written /\ Accounts /\ [Next]_vars
        => (Typed /\ Slots /\ Identity /\ Written /\ Accounts)'
  BY FileFacts, TypedStep, SlotsStep, IdentityStep, WrittenStep, AccountsStep
<1>3. Accounts => OutputsAccounted
  <2> SUFFICES ASSUME Accounts, NEW j \in Jobs
               PROVE  /\ outs[j] \subseteq finished[j] \cup Held(j)
                      /\ "Completed" \in {st[j], disk[j].st} => outs[j] # {}
    BY DEF OutputsAccounted
  <2>1. OutsKnown(j) /\ CompletedKept(j) /\ StoredKept(j)
    BY DEF Accounts, Account
  <2>2. outs[j] \subseteq finished[j] \cup Held(j)
    BY <2>1, OutsHeld
  <2>3. st[j] = "Completed" => outs[j] # {}
    BY <2>1 DEF CompletedKept, Safe
  <2>4. disk[j].st = "Completed" => outs[j] # {}
    <3>1. disk[j].st = "Completed" => disk[j] # NoRow
      BY DEF NoRow
    <3> QED
      BY <2>1, <3>1 DEF StoredKept, Safe
  <2> QED
    BY <2>2, <2>3, <2>4
<1> QED
  BY <1>1, <1>2, <1>3, PTL DEF Spec
=============================================================================
