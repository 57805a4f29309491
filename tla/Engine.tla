------------------------------- MODULE Engine -------------------------------
(***************************************************************************)
(* The download engine of RusticDL: the queue of jobs behind one tokio     *)
(* Mutex (EngineInner), the serial command loop, the scheduler, one worker *)
(* task per running job with its finalizer, the persisted queue            *)
(* (state.json) and the files a job owns on disk.                          *)
(*                                                                         *)
(* Each section of the code that holds the mutex is one action.  What the  *)
(* code does between two sections (await a persist, delete a file, read a  *)
(* length, load or store the worker's atomic control) is an action of its  *)
(* own, so every interleaving of the tasks at those points is a behaviour. *)
(*                                                                         *)
(* Ghosts: era counts how often a job's transfer identity was wiped, and   *)
(* idEra, w.era and part carry the era the identity, the worker's copy and *)
(* the .part file come from; finished holds the eras a finalizer accepted  *)
(* as Completed, and those a crash took out of a task's hands.             *)
(***************************************************************************)
EXTENDS Integers, FiniteSets

CONSTANTS
  Jobs,          \* the ids a run may use; an id never comes back
  Loaded,        \* rows [st, id] the first start may find in state.json
  Events,        \* bound: <<command or "Crash", jobs so far, commands so far>>
  MaxConc,       \* upper bound of config.max_concurrent
  MaxCmds,       \* bound: commands sent in one behaviour
  MaxEra,        \* bound: identity wipes per job
  MaxAttempts,   \* bound: auto_retry
  MaxCrashes,    \* bound: process crashes
  StoreFails     \* whether JobStore::persist_jobs may return an error

JobState == {"Queued", "Starting", "Downloading", "Paused",
             "Completed", "Failed", "Canceled"}
Terminal == {"Completed", "Failed", "Canceled"}
Running  == {"Starting", "Downloading"}
Gone     == {"unborn", "removed"}

\* What resume_oracle sees: no map, a map without and with confirmed bytes,
\* a version >= 1 row whose map is missing or inconsistent.
Maps == {"mapped", "written"}
Ids  == {"none", "broken"} \cup Maps

AllOps == {"Add", "Pause", "Resume", "Cancel", "Retry", "Restart", "Remove",
           "PauseAll", "Drain", "ResumeAll", "RetryAll", "UpdateSettings"}

NoPart == -1     \* no file at temp_path
Hole   == -2     \* a fresh sparse file under a map that claims bytes
NoEra  == -1
Eras   == 0 .. MaxEra

ASSUME ConcAssumption     == MaxConc \in Nat \ {0}
ASSUME EraAssumption      == MaxEra \in Nat
ASSUME BoundAssumption    == MaxCmds \in Nat /\ MaxAttempts \in Nat /\ MaxCrashes \in Nat
ASSUME EventAssumption    == Events \subseteq (AllOps \cup {"Crash"}) \X Nat \X Nat
ASSUME StoreAssumption    == StoreFails \in BOOLEAN
ASSUME LoadedAssumption   == Loaded \subseteq [st : JobState, id : Ids]
ASSUME FiniteJobs         == IsFiniteSet(Jobs)

VARIABLES
  \* EngineInner, under the mutex
  st,            \* job.state, or a member of Gone
  id, idEra,     \* the job's transfer identity and the era it was set in
  era,           \* ghost: wipes of the identity so far
  control,       \* controls[id]; meaningful while the job is active
  active,        \* keys of active
  requeue,       \* keys of requeue_on_cancel
  pendingPart,   \* keys of pending_partial_deletes
  pendingFinal,  \* keys of pending_final_deletes
  produced,      \* produced_files: the era of the noted file, or NoEra
  auth,          \* keys of handoff_auth
  maxc,          \* config.max_concurrent
  \* files
  part, outs,    \* era of temp_path's content; eras whose final file exists
  disk,          \* the rows of state.json
  \* tasks
  stage, w,      \* a worker's program point and its locals
  saving,        \* workers waiting for persist_live_jobs
  trail,         \* finalizers past their lock section
  cmd,           \* the command in flight
  sched, wake,   \* the scheduler's program point; the Notify's permit
  \* bounds and ghosts
  ncmd, ncrash, finished

inner  == <<st, id, idEra, era, control, active, requeue, pendingPart,
            pendingFinal, produced, auth, maxc>>
files  == <<part, outs>>
worker == <<stage, w, saving>>
bounds == <<ncmd, ncrash>>
vars   == <<inner, files, disk, worker, trail, cmd, sched, wake, bounds, finished>>

\* Groups an action leaves alone together.
flags  == <<requeue, pendingPart, pendingFinal, produced>>
ident  == <<id, idEra, era>>
tasks  == <<trail, cmd, sched>>

Stages == {"none", "spawned", "reconcile", "stat", "kick", "kickstore", "plan",
           "open", "nostart", "xfer", "error", "retry", "backoff", "move", "rename",
           "recheck", "commitfin", "recheck2", "unlink", "ended", "panicked"}
Controls == {"Continue", "Paused", "Canceled"}
Results  == {"Completed", "Paused", "Canceled", "Error"}

WorkerLocals == [id : Ids, era : Eras, need : BOOLEAN, fresh : BOOLEAN,
                 soft : BOOLEAN, try : 0 .. MaxAttempts, res : Results]
NoLocals == [id |-> "none", era |-> 0, need |-> FALSE, fresh |-> FALSE,
             soft |-> FALSE, try |-> 0, res |-> "Canceled"]
Rows   == [st : JobState, id : Ids, idEra : Eras, era : Eras]
NoRow  == [st |-> "none"]
Trails == [stage : {"save", "delete", "unblock"}, part : BOOLEAN,
           out : Eras \cup {NoEra}, defer : BOOLEAN, era : Eras]
Idle   == [op |-> "none", job |-> "none", stage |-> "idle",
           part |-> FALSE, out |-> FALSE, unblock |-> FALSE]
-----------------------------------------------------------------------------
Present(j) == st[j] \notin Gone
Wiped(j)   == j \in requeue \cup pendingPart
OutputDiscarded(j) == \/ j \in requeue \cup pendingFinal
                      \/ j \in pendingPart /\ Present(j)

\* Notify::notify_one keeps a permit when nobody waits.  The mutation is
\* notify_waiters, which keeps none.
NotifyWaiters == wake' = (wake \/ sched \in {"parked", "timed"})
Notify == wake' = TRUE

\* Mutation: the flags of a restart are not looked at.
StartableFlagless(j) == st[j] = "Queued" /\ j \notin active
Startable(j) == st[j] = "Queued" /\ j \notin active /\ ~Wiped(j)

ShouldPark == /\ active = {} /\ requeue = {} /\ pendingPart = {}
              /\ \A j \in Jobs : st[j] \notin {"Queued"} \cup Running

\* What the persist actor writes: the rows as they are under the mutex.
Snapshot == [j \in Jobs |->
               IF Present(j)
               THEN [st |-> st[j], id |-> id[j], idEra |-> idEra[j], era |-> era[j]]
               ELSE NoRow]

\* spawn_engine: a row that was running when the process died is queued again.
Reload(s) == IF s \in Running THEN "Queued" ELSE s

Init ==
  /\ \E row \in [Jobs -> Loaded \cup {NoRow}] :
       /\ st = [j \in Jobs |-> IF row[j] = NoRow THEN "unborn" ELSE Reload(row[j].st)]
       /\ id = [j \in Jobs |-> IF row[j] = NoRow THEN "none" ELSE row[j].id]
       /\ part = [j \in Jobs |-> IF row[j] # NoRow /\ row[j].id = "written"
                                 THEN 0 ELSE NoPart]
       /\ disk = [j \in Jobs |->
                    IF row[j] = NoRow THEN NoRow
                    ELSE [st |-> row[j].st, id |-> row[j].id, idEra |-> 0, era |-> 0]]
  /\ idEra = [j \in Jobs |-> 0]
  /\ era = [j \in Jobs |-> 0]
  /\ control = [j \in Jobs |-> "Continue"]
  /\ active = {} /\ requeue = {} /\ pendingPart = {} /\ pendingFinal = {}
  /\ produced = [j \in Jobs |-> NoEra]
  /\ auth = {}
  /\ maxc \in 1 .. MaxConc
  /\ outs = [j \in Jobs |-> IF st[j] = "Completed" THEN {0} ELSE {}]
  /\ stage = [j \in Jobs |-> "none"]
  /\ w = [j \in Jobs |-> NoLocals]
  /\ saving = {}
  /\ trail = [j \in Jobs |-> {}]
  /\ cmd = Idle
  /\ sched = "scan" /\ wake = FALSE
  /\ ncmd = 0 /\ ncrash = 0
  /\ finished = outs
\* What the user does, and whether the process dies, as far as the run goes.
Occurs(what) ==
  <<what, Cardinality({j \in Jobs : st[j] # "unborn"}), ncmd>> \in Events
-----------------------------------------------------------------------------
(* Commands: each handler's lock section, then its tail in CmdSaved,        *)
(* CmdDelete, CmdUnblock and the Drain loop.                                *)

Begin(op) == /\ cmd = Idle
             /\ ncmd < MaxCmds /\ Occurs(op)
             /\ ncmd' = ncmd + 1
             /\ UNCHANGED <<ncrash, files, disk, worker, trail, sched, finished, produced>>

\* An id is known to the user once its row was added.
BeginOn(op, j) == Begin(op) /\ st[j] # "unborn"

\* The handler returned: command_loop calls notify_one.
Done == cmd' = Idle /\ Notify

\* Mutation: the files are deleted before the rows are persisted.
TailDeletes(op, j, p, o, u) ==
  cmd' = [op |-> op, job |-> j, stage |-> IF p \/ o THEN "delete" ELSE "save",
          part |-> p, out |-> o, unblock |-> u]
\* The handler goes on with persist_live_jobs and then the tail given.
Tail(op, j, p, o, u) == cmd' = [op |-> op, job |-> j, stage |-> "save",
                                part |-> p, out |-> o, unblock |-> u]
Save(op, j) == Tail(op, j, FALSE, FALSE, FALSE)

\* The controls entry exists exactly while the job is in active.
Tell(S, c) == control' = [j \in Jobs |-> IF j \in S \cap active THEN c ELSE control[j]]

\* clear_partial_and_identity, clear_transfer_identity
Wipe(j) == /\ era[j] < MaxEra
           /\ era' = [era EXCEPT ![j] = @ + 1]
           /\ id' = [id EXCEPT ![j] = "none"]
           /\ idEra' = [idEra EXCEPT ![j] = era[j] + 1]

\* fail_if_resume_map_unusable decides between Queued and Failed.
Requeued(j) == IF id[j] = "broken" THEN "Failed" ELSE "Queued"

Add(j) ==
  /\ Begin("Add")
  /\ st[j] = "unborn"
  /\ st' = [st EXCEPT ![j] = "Queued"]
  /\ \E handoff \in BOOLEAN : auth' = IF handoff THEN auth \cup {j} ELSE auth
  /\ Notify
  /\ Save("Add", j)
  /\ UNCHANGED <<ident, control, active, requeue, pendingPart, pendingFinal, maxc>>

Pause(j) ==
  /\ BeginOn("Pause", j)
  /\ Tell({j}, "Paused")
  /\ IF st[j] = "Queued"
     THEN st' = [st EXCEPT ![j] = "Paused"] /\ Save("Pause", j) /\ UNCHANGED wake
     ELSE Done /\ UNCHANGED st
  /\ UNCHANGED <<ident, active, requeue, pendingPart, pendingFinal, auth, maxc>>

Resume(j) ==
  /\ BeginOn("Resume", j)
  /\ IF st[j] \in {"Paused", "Canceled"}
     THEN /\ st' = [st EXCEPT ![j] = Requeued(j)]
          /\ IF Requeued(j) = "Queued"
             THEN Tell({j}, "Continue") /\ Notify
             ELSE UNCHANGED <<control, wake>>
          /\ Save("Resume", j)
     ELSE Done /\ UNCHANGED <<st, control>>
  /\ UNCHANGED <<ident, active, requeue, pendingPart, pendingFinal, auth, maxc>>

Retry(j) ==
  /\ BeginOn("Retry", j)
  /\ IF st[j] \in {"Failed", "Canceled"}
     THEN /\ st' = [st EXCEPT ![j] = Requeued(j)]
          /\ IF Requeued(j) = "Queued" THEN Notify ELSE UNCHANGED wake
          /\ Save("Retry", j)
     ELSE Done /\ UNCHANGED st
  /\ UNCHANGED <<ident, control, active, requeue, pendingPart, pendingFinal, auth, maxc>>

Cancel(j, delete) ==
  /\ BeginOn("Cancel", j)
  /\ Tell({j}, "Canceled")
  /\ IF ~Present(j)
     THEN Done /\ UNCHANGED <<st, ident, pendingPart, auth>>
     ELSE /\ st' = IF st[j] \in Terminal \cup Running THEN st
                   ELSE [st EXCEPT ![j] = "Canceled"]
          /\ IF delete THEN Wipe(j) ELSE UNCHANGED ident
          /\ auth' = IF st[j] \in Terminal \/ j \in active THEN auth ELSE auth \ {j}
          /\ pendingPart' = IF delete /\ j \in active /\ st[j] \notin Terminal
                            THEN pendingPart \cup {j} ELSE pendingPart
          /\ Tail("Cancel", j, delete /\ j \notin active, FALSE, FALSE)
          /\ UNCHANGED wake
  /\ UNCHANGED <<active, requeue, pendingFinal, maxc>>

Restart(j) ==
  /\ BeginOn("Restart", j)
  /\ Tell({j}, "Canceled")
  /\ IF Present(j)
     THEN st' = [st EXCEPT ![j] = "Queued"] /\ Wipe(j) /\ pendingPart' = pendingPart \cup {j}
     ELSE UNCHANGED <<st, ident, pendingPart>>
  /\ IF j \in active
     THEN requeue' = requeue \cup {j} /\ Notify
     ELSE UNCHANGED <<requeue, wake>>
  /\ Tail("Restart", j, Present(j) /\ j \notin active, FALSE, j \notin active)
  /\ UNCHANGED <<active, pendingFinal, auth, maxc>>

Remove(j, delPart, delFile) ==
  /\ BeginOn("Remove", j)
  /\ Tell({j}, "Canceled")
  /\ st' = IF Present(j) THEN [st EXCEPT ![j] = "removed"] ELSE st
  /\ auth' = auth \ {j}
  /\ requeue' = requeue \ {j}
  /\ IF j \in active
     THEN /\ pendingPart' = IF delPart /\ Present(j) THEN pendingPart \cup {j} ELSE pendingPart
          /\ pendingFinal' = IF delFile THEN pendingFinal \cup {j} ELSE pendingFinal
     ELSE pendingPart' = pendingPart \ {j} /\ pendingFinal' = pendingFinal \ {j}
  /\ LET mine == Present(j) /\ j \notin active
     IN  Tail("Remove", j, mine /\ delPart, mine /\ delFile, FALSE)
  /\ UNCHANGED <<ident, active, maxc, wake>>

\* PauseAll, and the first half of Drain.
Stopping == {j \in Jobs : st[j] \in {"Queued"} \cup Running}
\* Mutation: no job is.
UnqueueNone == UNCHANGED st
Unqueue  == st' = [j \in Jobs |-> IF st[j] = "Queued" THEN "Paused" ELSE st[j]]
AnyQueued == \E j \in Jobs : st[j] = "Queued"

PauseAll ==
  /\ Begin("PauseAll")
  /\ Tell(Stopping, "Paused")
  /\ Unqueue
  /\ IF AnyQueued THEN Save("PauseAll", "none") /\ UNCHANGED wake ELSE Done
  /\ UNCHANGED <<ident, active, requeue, pendingPart, pendingFinal, auth, maxc>>

Drain ==
  /\ Begin("Drain")
  /\ Tell(Stopping, "Paused")
  /\ Unqueue
  /\ cmd' = [Idle EXCEPT !.op = "Drain", !.stage = IF AnyQueued THEN "save" ELSE "wait"]
  /\ UNCHANGED <<ident, active, requeue, pendingPart, pendingFinal, auth, maxc, wake>>

\* ResumeAll and RetryAll: back to the queue from the states given; unlike
\* Resume they leave the workers' controls alone.
Revive(op, from) ==
  /\ Begin(op)
  /\ st' = [j \in Jobs |-> IF st[j] \in from THEN Requeued(j) ELSE st[j]]
  /\ IF \E j \in Jobs : st[j] \in from
     THEN Save(op, "none") /\ Notify
     ELSE Done
  /\ UNCHANGED <<ident, control, active, requeue, pendingPart, pendingFinal, auth, maxc>>
ResumeAll == Revive("ResumeAll", {"Paused"})
RetryAll  == Revive("RetryAll", {"Failed", "Canceled"})

UpdateSettings(n) ==
  /\ Begin("UpdateSettings")
  /\ maxc' = n
  /\ Done
  /\ UNCHANGED <<st, ident, control, active, requeue, pendingPart, pendingFinal, auth>>

\* persist_live_jobs returned to the handler, with or without an error (every
\* handler but Drain ignores it).
CmdSaved ==
  /\ cmd.stage = "save"
  /\ disk' = Snapshot \/ (StoreFails /\ UNCHANGED disk)
  /\ IF cmd.op = "Drain" THEN cmd' = [cmd EXCEPT !.stage = "wait"] /\ UNCHANGED wake
     ELSE IF cmd.part \/ cmd.out THEN cmd' = [cmd EXCEPT !.stage = "delete"] /\ UNCHANGED wake
     ELSE IF cmd.unblock THEN cmd' = [cmd EXCEPT !.stage = "unblock"] /\ UNCHANGED wake
     ELSE Done
  /\ UNCHANGED <<inner, files, worker, trail, sched, bounds, finished>>

CmdDelete ==
  /\ cmd.stage = "delete"
  /\ part' = IF cmd.part THEN [part EXCEPT ![cmd.job] = NoPart] ELSE part
  /\ outs' = IF cmd.out THEN [outs EXCEPT ![cmd.job] = {}] ELSE outs
  /\ IF cmd.unblock THEN cmd' = [cmd EXCEPT !.stage = "unblock"] /\ UNCHANGED wake ELSE Done
  /\ UNCHANGED <<inner, disk, worker, trail, sched, bounds, finished>>

\* Restart of a job that had no worker: the last lock section.
CmdUnblock ==
  /\ cmd.stage = "unblock"
  /\ pendingPart' = pendingPart \ {cmd.job}
  /\ Done
  /\ UNCHANGED <<st, ident, control, active, requeue, pendingFinal, produced, auth, maxc,
                 files, disk, worker, trail, sched, bounds, finished>>

\* Drain: wait for active to empty (its waiter may consume the permit), then
\* persist once more and acknowledge.
DrainWait ==
  /\ cmd.stage = "wait"
  /\ \/ active = {} /\ cmd' = [cmd EXCEPT !.stage = "finalsave"] /\ UNCHANGED wake
     \/ active # {} /\ wake /\ wake' = FALSE /\ UNCHANGED cmd
  /\ UNCHANGED <<inner, files, disk, worker, trail, sched, bounds, finished>>

DrainAck ==
  /\ cmd.stage = "finalsave"
  /\ disk' = Snapshot
  /\ Done
  /\ UNCHANGED <<inner, files, worker, trail, sched, bounds, finished>>

DrainFails ==
  /\ StoreFails /\ cmd.stage = "finalsave"
  /\ Done
  /\ UNCHANGED <<inner, files, disk, worker, trail, sched, bounds, finished>>
-----------------------------------------------------------------------------
(* The scheduler.                                                          *)

\* reserve_startable_jobs and the start_worker calls that follow it.  The
\* code takes the first startable rows; which come first is left open.
SchedScan ==
  /\ sched = "scan"
  /\ \E S \in SUBSET {j \in Jobs : Startable(j)} :
       /\ Cardinality(active) + Cardinality(S) <= maxc \/ S = {}
       /\ \/ S = {j \in Jobs : Startable(j)}
          \/ Cardinality(active) + Cardinality(S) >= maxc
       /\ st' = [j \in Jobs |-> IF j \in S THEN "Starting" ELSE st[j]]
       /\ active' = active \cup S
       /\ stage' = [j \in Jobs |-> IF j \in S THEN "spawned" ELSE stage[j]]
  /\ sched' = "check"
  /\ UNCHANGED <<ident, control, flags, auth, maxc, files, disk, w, saving,
                 trail, cmd, wake, bounds, finished>>

SchedCheck ==
  /\ sched = "check"
  /\ sched' = IF ShouldPark THEN "parking" ELSE "timed"
  /\ UNCHANGED <<inner, files, disk, worker, trail, cmd, wake, bounds, finished>>

\* The mutex is dropped before wake.notified() is awaited.
SchedPark ==
  /\ sched = "parking"
  /\ sched' = "parked"
  /\ UNCHANGED <<inner, files, disk, worker, trail, cmd, wake, bounds, finished>>

SchedNotified ==
  /\ sched \in {"parked", "timed"} /\ wake
  /\ wake' = FALSE /\ sched' = "scan"
  /\ UNCHANGED <<inner, files, disk, worker, trail, cmd, bounds, finished>>

SchedTimeout ==
  /\ sched = "timed"
  /\ sched' = "scan"
  /\ UNCHANGED <<inner, files, disk, worker, trail, cmd, wake, bounds, finished>>
-----------------------------------------------------------------------------
(* A worker: start_worker, run_attempts and, abstractly, run_transfer.     *)

At(j, s) == stage[j] = s /\ j \notin saving
Goto(j, s) == stage' = [stage EXCEPT ![j] = s]
End(j, r)  == Goto(j, "ended") /\ w' = [w EXCEPT ![j].res = r]

\* control_outcome.  Mutation: only Paused is looked for.
ToldPaused(j) == control[j] = "Paused"
Told(j) == control[j] # "Continue"

\* Nothing outside the worker's own state changes in these actions.
WorkerOnly == UNCHANGED <<files, disk, tasks, bounds, finished>>

\* Mutation: the worker starts with a control of its own.
SpawnedFresh(j) ==
  /\ At(j, "spawned")
  /\ w' = [w EXCEPT ![j] = [NoLocals EXCEPT !.id = id[j], !.era = era[j]]]
  /\ Goto(j, IF Present(j) THEN "reconcile" ELSE "ended")
  /\ control' = [control EXCEPT ![j] = "Continue"]
  /\ WorkerOnly
  /\ UNCHANGED <<st, ident, active, flags, auth, maxc, saving, wake>>
\* start_worker's lock section: the job is cloned, or it is gone already.
Spawned(j) ==
  /\ At(j, "spawned")
  /\ IF Present(j)
     THEN /\ w' = [w EXCEPT ![j] = [NoLocals EXCEPT !.id = id[j], !.era = era[j]]]
          /\ Goto(j, "reconcile")
     ELSE /\ w' = [w EXCEPT ![j] = NoLocals]
          /\ Goto(j, "ended")
  /\ WorkerOnly /\ UNCHANGED <<inner, saving, wake>>

\* reconcile_for_attempt, first section: does the oracle need the length?
Reconcile(j) ==
  /\ At(j, "reconcile")
  /\ w' = [w EXCEPT ![j].need = Present(j) /\ id[j] = "none"]
  /\ Goto(j, "stat")
  /\ WorkerOnly /\ UNCHANGED <<inner, saving, wake>>

\* reconcile_for_attempt, second section.  reconcile_from_oracle expects a
\* length whenever the job has no map by now, and panics without one.
Stat(j) ==
  /\ At(j, "stat")
  /\ IF j \in requeue \/ ~Present(j)
     THEN Goto(j, "kick") /\ UNCHANGED <<st, w>>
     ELSE IF id[j] = "none" /\ ~w[j].need
     THEN Goto(j, "panicked") /\ UNCHANGED <<st, w>>
     ELSE /\ Goto(j, "kick")
          /\ st' = [st EXCEPT ![j] = "Downloading"]
          /\ w' = [w EXCEPT ![j].id = id[j], ![j].era = era[j], ![j].fresh = FALSE]
  /\ WorkerOnly
  /\ UNCHANGED <<ident, control, active, flags, auth, maxc, saving, wake>>

\* "if control.load() == 0 { store Continue }": two atomic accesses.
Kick(j) ==
  /\ At(j, "kick")
  /\ Goto(j, IF control[j] = "Continue" THEN "kickstore" ELSE "plan")
  /\ WorkerOnly /\ UNCHANGED <<inner, w, saving, wake>>

KickStore(j) ==
  /\ At(j, "kickstore")
  /\ control' = [control EXCEPT ![j] = "Continue"]
  /\ Goto(j, "plan")
  /\ WorkerOnly
  /\ UNCHANGED <<st, ident, active, flags, auth, maxc, w, saving, wake>>

\* Mutation: a commit is applied to any row that is there.
CommitAlways(j, k) ==
  IF Present(j)
  THEN /\ id' = [id EXCEPT ![j] = k]
       /\ idEra' = [idEra EXCEPT ![j] = w[j].era]
       /\ saving' = saving \cup {j}
  ELSE UNCHANGED <<id, idEra, saving>>

\* EngineIdentity::commit: dropped while the identity is being wiped, else
\* applied to the row and persisted before the transfer goes on.
Commit(j, k) ==
  IF Present(j) /\ ~Wiped(j)
  THEN /\ id' = [id EXCEPT ![j] = k]
       /\ idEra' = [idEra EXCEPT ![j] = w[j].era]
       /\ saving' = saving \cup {j}
  ELSE UNCHANGED <<id, idEra, saving>>

CommitFrame == UNCHANGED <<st, era, control, active, flags, auth, maxc,
                           disk, tasks, wake, bounds, finished>>

\* run_transfer up to its plan commit; a broken map is a hard error.
Plan(j) ==
  /\ At(j, "plan")
  /\ IF Told(j)
     THEN End(j, control[j]) /\ UNCHANGED <<id, idEra, saving, files>>
     ELSE IF w[j].id = "broken"
     THEN /\ Commit(j, "broken")
          /\ Goto(j, "error") /\ w' = [w EXCEPT ![j].soft = FALSE]
          /\ UNCHANGED files
     ELSE /\ Goto(j, "open")
          /\ \/ /\ Commit(j, w[j].id)      \* one stream, or the map it has
                /\ UNCHANGED <<w, files>>
             \/ /\ w[j].id = "none"        \* a fresh map; a leftover hole goes
                /\ Commit(j, "mapped")
                /\ w' = [w EXCEPT ![j].id = "mapped", ![j].fresh = TRUE]
                /\ part' = [part EXCEPT ![j] = NoPart]
                /\ UNCHANGED outs
  /\ CommitFrame

\* Preallocate and open temp_path.  A map that claims bytes over a file that
\* is not there gets a fresh sparse one.
Open(j) ==
  /\ At(j, "open")
  /\ part' = [part EXCEPT ![j] =
                IF w[j].id = "written" THEN (IF @ = NoPart THEN Hole ELSE @) ELSE w[j].era]
  /\ Goto(j, "xfer")
  /\ UNCHANGED <<inner, outs, disk, w, saving, tasks, wake, bounds, finished>>

\* Setting the map up failed: a fresh one is rolled back, a reused one stays.
StartFails(j) ==
  /\ At(j, "open") \/ At(j, "nostart")
  /\ w[j].id \in Maps
  /\ IF w[j].fresh THEN Commit(j, "none") ELSE UNCHANGED <<id, idEra, saving>>
  /\ Goto(j, "error")
  /\ w' = [w EXCEPT ![j].soft = FALSE]
  /\ UNCHANGED files /\ CommitFrame

\* Every segment failed before a byte was confirmed: the file and the map go
\* and one stream starts over.
Fallback(j) ==
  /\ At(j, "xfer") /\ w[j].id = "mapped"
  /\ Commit(j, "none")
  /\ Goto(j, "open")
  /\ w' = [w EXCEPT ![j].id = "none", ![j].fresh = TRUE]
  /\ part' = [part EXCEPT ![j] = NoPart]
  /\ UNCHANGED outs /\ CommitFrame

\* The body is complete and verified.
XferDone(j) ==
  /\ At(j, "xfer")
  /\ Goto(j, "move")
  /\ WorkerOnly /\ UNCHANGED <<inner, w, saving, wake>>

\* The transfer sees Paused or Canceled: it syncs, commits the map with the
\* bytes confirmed by now and returns the outcome.
XferStop(j) ==
  /\ At(j, "xfer") /\ Told(j)
  /\ \E k \in {w[j].id} \cup (IF w[j].id = "mapped" THEN {"written"} ELSE {}) : Commit(j, k)
  /\ End(j, control[j])
  /\ UNCHANGED files /\ CommitFrame

\* The transfer gives up, on a retryable (soft) error or a hard one.
XferFails(j) ==
  /\ At(j, "xfer")
  /\ Commit(j, IF w[j].id = "mapped" THEN "written" ELSE w[j].id)
  /\ Goto(j, "error")
  /\ \E soft \in BOOLEAN : w' = [w EXCEPT ![j].soft = soft]
  /\ UNCHANGED files /\ CommitFrame

\* move_to_final_path_unless_discarded: check, rename and note, check again.
Move(j) ==
  /\ At(j, "move")
  /\ IF OutputDiscarded(j) THEN End(j, "Canceled") ELSE Goto(j, "rename") /\ UNCHANGED w
  /\ WorkerOnly /\ UNCHANGED <<inner, saving, wake>>

Rename(j) ==
  /\ At(j, "rename")
  /\ IF part[j] = NoPart
     THEN /\ Goto(j, "error") /\ w' = [w EXCEPT ![j].soft = FALSE]
          /\ UNCHANGED <<files, produced>>
     ELSE /\ Goto(j, "recheck")
          /\ part' = [part EXCEPT ![j] = NoPart]
          /\ outs' = [outs EXCEPT ![j] = @ \cup {w[j].era}]
          /\ produced' = [produced EXCEPT ![j] = w[j].era]
          /\ UNCHANGED w
  /\ UNCHANGED <<st, ident, control, active, requeue, pendingPart, pendingFinal, auth, maxc,
                 disk, saving, tasks, wake, bounds, finished>>

Recheck(j) ==
  /\ At(j, "recheck")
  /\ Goto(j, IF OutputDiscarded(j) THEN "unlink" ELSE "commitfin")
  /\ WorkerOnly /\ UNCHANGED <<inner, w, saving, wake>>

\* The final paths and sizes are committed; the map stays until finalize.
CommitFinal(j) ==
  /\ At(j, "commitfin")
  /\ Commit(j, w[j].id)
  /\ Goto(j, "recheck2")
  /\ UNCHANGED <<w, files>> /\ CommitFrame

Recheck2(j) ==
  /\ At(j, "recheck2")
  /\ IF OutputDiscarded(j) THEN Goto(j, "unlink") /\ UNCHANGED w ELSE End(j, "Completed")
  /\ WorkerOnly /\ UNCHANGED <<inner, saving, wake>>

\* remove_and_forget_produced
Unlink(j) ==
  /\ At(j, "unlink")
  /\ outs' = [outs EXCEPT ![j] = @ \ {w[j].era}]
  /\ produced' = [produced EXCEPT ![j] = NoEra]
  /\ End(j, "Canceled")
  /\ UNCHANGED <<st, ident, control, active, requeue, pendingPart, pendingFinal, auth, maxc,
                 part, disk, saving, tasks, wake, bounds, finished>>

\* run_attempts after an error: a restart ends the worker, a retryable error
\* within the budget backs off, any other error ends it.  An attempt that got
\* durable bytes gives the whole budget back.
Error(j) ==
  /\ At(j, "error")
  /\ \E progressed \in BOOLEAN :
       LET spent == IF progressed THEN 0 ELSE w[j].try
       IN  IF j \in requeue THEN End(j, "Canceled")
           ELSE IF w[j].soft /\ spent < MaxAttempts
           THEN Goto(j, "retry") /\ w' = [w EXCEPT ![j].try = spent]
           ELSE End(j, "Error")
  /\ WorkerOnly /\ UNCHANGED <<inner, saving, wake>>

RetryLater(j) ==
  /\ At(j, "retry")
  /\ st' = IF Present(j) THEN [st EXCEPT ![j] = "Starting"] ELSE st
  /\ saving' = saving \cup {j}
  /\ w' = [w EXCEPT ![j].try = @ + 1]
  /\ Goto(j, "backoff")
  /\ WorkerOnly
  /\ UNCHANGED <<ident, control, active, flags, auth, maxc, wake>>

Backoff(j) ==
  /\ At(j, "backoff")
  /\ IF Told(j)
     THEN End(j, control[j])
     ELSE /\ Goto(j, "reconcile")
          /\ w' = IF Present(j) THEN [w EXCEPT ![j].id = id[j], ![j].era = era[j]] ELSE w
  /\ WorkerOnly /\ UNCHANGED <<inner, saving, wake>>

\* The persist a worker waits for is acknowledged: state.json holds the rows.
WorkerSaved(j) ==
  /\ j \in saving
  /\ disk' = Snapshot
  /\ saving' = saving \ {j}
  /\ UNCHANGED <<inner, files, stage, w, tasks, wake, bounds, finished>>

\* It failed.  run_attempts and a rollback ignore that; a fresh map that could
\* not be saved is rolled back; else the transfer turns it into an error.
RolledBack(j) == stage[j] = "error" \/ (stage[j] = "open" /\ w[j].fresh /\ w[j].id = "none")
WorkerSaveFails(j) ==
  /\ StoreFails /\ j \in saving
  /\ saving' = saving \ {j}
  /\ IF stage[j] = "backoff" \/ RolledBack(j) THEN UNCHANGED <<stage, w>>
     ELSE IF stage[j] = "open" /\ w[j].fresh THEN Goto(j, "nostart") /\ UNCHANGED w
     ELSE Goto(j, "error") /\ w' = [w EXCEPT ![j].soft = FALSE]
  /\ UNCHANGED <<inner, files, disk, tasks, wake, bounds, finished>>
-----------------------------------------------------------------------------
(* finalize_worker: the lock section, then the tail of the same task.      *)

Result(j) == IF w[j].res # "Error" THEN w[j].res
             ELSE IF control[j] = "Continue" THEN "Failed" ELSE control[j]

\* The state the job gets from the outcome of its worker.  Mutation: a
\* restarted job keeps the state it was left in.
OutcomeKept(j) == IF j \in requeue THEN st[j] ELSE Result(j)
Outcome(j) ==
  LET r == Result(j)
  IN  IF j \in requeue THEN "Queued"
      ELSE IF j \in pendingPart /\ r = "Completed" THEN "Canceled"
      ELSE r

\* Whether the file the worker produced goes.  Mutation: a cancel-with-delete
\* that came after the worker's last look is forgotten.
DiscardsFinal(j) == j \in requeue \cup pendingFinal
Discards(j) == \/ j \in requeue \cup pendingFinal
               \/ j \in pendingPart /\ Present(j)

\* Ghost: the completion counts.  Without a row, unless its file is unwanted.
Accepted(j) == IF Present(j) THEN Outcome(j) = "Completed"
               ELSE w[j].res = "Completed" /\ j \notin requeue \cup pendingFinal

\* Whether handoff credentials survive.  Mutation: a failed job keeps them.
KeepsAuthFailed(o) == o \in {"Queued", "Paused", "Failed"}
KeepsAuth(o) == o \in {"Queued", "Paused"}

Finalize(j) ==
  LET partial == j \in pendingPart
      defer   == j \in requeue /\ partial
      o       == Outcome(j)
  IN
  /\ At(j, "ended")
  /\ Goto(j, "none")
  /\ w' = [w EXCEPT ![j] = NoLocals]
  /\ active' = active \ {j}
  /\ control' = [control EXCEPT ![j] = "Continue"]
  /\ pendingFinal' = pendingFinal \ {j}
  /\ produced' = [produced EXCEPT ![j] = NoEra]
  /\ IF defer THEN UNCHANGED <<requeue, pendingPart>>
     ELSE requeue' = requeue \ {j} /\ pendingPart' = pendingPart \ {j}
  /\ IF Present(j)
     THEN /\ st' = [st EXCEPT ![j] = o]
          /\ id' = IF o = "Completed" \/ (partial /\ o = "Canceled")
                   THEN [id EXCEPT ![j] = "none"] ELSE id
     ELSE UNCHANGED <<st, id>>
  /\ auth' = IF KeepsAuth(o) THEN auth ELSE auth \ {j}
  /\ trail' = [trail EXCEPT ![j] = @ \cup
                 {[stage |-> "save", part |-> partial,
                   out |-> IF Discards(j) THEN produced[j] ELSE NoEra,
                   defer |-> defer, era |-> era[j]]}]
  /\ finished' = IF Accepted(j)
                 THEN [finished EXCEPT ![j] = @ \cup {w[j].era}] ELSE finished
  /\ IF defer THEN UNCHANGED wake ELSE Notify
  /\ UNCHANGED <<idEra, era, maxc, files, disk, saving, cmd, sched, bounds>>

Advance(j, r, rest) == trail' = [trail EXCEPT ![j] = (@ \ {r}) \cup rest]

TrailSaved(j, r) ==
  /\ r.stage = "save"
  /\ disk' = Snapshot \/ (StoreFails /\ UNCHANGED disk)
  /\ Advance(j, r, IF r.part \/ r.out # NoEra THEN {[r EXCEPT !.stage = "delete"]} ELSE {})
  /\ UNCHANGED <<inner, files, worker, cmd, sched, wake, bounds, finished>>

TrailDelete(j, r) ==
  /\ r.stage = "delete"
  /\ part' = IF r.part THEN [part EXCEPT ![j] = NoPart] ELSE part
  /\ outs' = [outs EXCEPT ![j] = @ \ {r.out}]
  /\ Advance(j, r, IF r.defer THEN {[r EXCEPT !.stage = "unblock"]} ELSE {})
  /\ UNCHANGED <<inner, disk, worker, cmd, sched, wake, bounds, finished>>

\* Mutation: the requeue flag is not taken back.
TrailUnblockHalf(j, r) ==
  /\ r.stage = "unblock"
  /\ pendingPart' = pendingPart \ {j}
  /\ Notify
  /\ Advance(j, r, {})
  /\ UNCHANGED <<st, ident, control, active, requeue, pendingFinal, produced, auth, maxc,
                 files, disk, worker, cmd, sched, bounds, finished>>
TrailUnblock(j, r) ==
  /\ r.stage = "unblock"
  /\ pendingPart' = pendingPart \ {j}
  /\ requeue' = requeue \ {j}
  /\ Notify
  /\ Advance(j, r, {})
  /\ UNCHANGED <<st, ident, control, active, pendingFinal, produced, auth, maxc,
                 files, disk, worker, cmd, sched, bounds, finished>>
-----------------------------------------------------------------------------
(* The persist actor on its own, and the process dying.                    *)

\* A write of the generation loop that is not yet the one acknowledged.
PersistWrite ==
  /\ \/ saving # {}
     \/ cmd.stage \in {"save", "finalsave"}
     \/ \E j \in Jobs : \E r \in trail[j] : r.stage = "save"
  /\ disk' = Snapshot
  /\ UNCHANGED <<inner, files, worker, tasks, wake, bounds, finished>>

\* Ghost: the final files that a worker or its finalizer answers for.
Held(j) == {produced[j]} \cup {r.out : r \in {q \in trail[j] : q.stage \in {"save", "delete"}}}

\* Everything in memory is lost; spawn_engine starts from state.json.
Crash ==
  /\ ncrash < MaxCrashes /\ Occurs("Crash")
  /\ ncrash' = ncrash + 1
  /\ st' = [j \in Jobs |-> IF disk[j] # NoRow THEN Reload(disk[j].st)
                           ELSE IF st[j] = "unborn" THEN "unborn" ELSE "removed"]
  /\ id' = [j \in Jobs |-> IF disk[j] # NoRow THEN disk[j].id ELSE "none"]
  /\ idEra' = [j \in Jobs |-> IF disk[j] # NoRow THEN disk[j].idEra ELSE 0]
  /\ era' = [j \in Jobs |-> IF disk[j] # NoRow THEN disk[j].era ELSE 0]
  /\ control' = [j \in Jobs |-> "Continue"]
  /\ active' = {} /\ requeue' = {} /\ pendingPart' = {} /\ pendingFinal' = {}
  /\ produced' = [j \in Jobs |-> NoEra]
  /\ auth' = {}
  /\ stage' = [j \in Jobs |-> "none"]
  /\ w' = [j \in Jobs |-> NoLocals]
  /\ saving' = {}
  /\ trail' = [j \in Jobs |-> {}]
  /\ cmd' = Idle
  /\ sched' = "scan" /\ wake' = FALSE
  /\ finished' = [j \in Jobs |-> finished[j] \cup (Held(j) \cap outs[j])]
  /\ UNCHANGED <<maxc, files, disk, ncmd>>
-----------------------------------------------------------------------------
Command ==
  \/ \E j \in Jobs :
       \/ Add(j) \/ Pause(j) \/ Resume(j) \/ Retry(j) \/ Restart(j)
       \/ \E delete \in BOOLEAN : Cancel(j, delete)
       \/ \E p, f \in BOOLEAN : Remove(j, p, f)
  \/ PauseAll \/ Drain \/ ResumeAll \/ RetryAll
  \/ \E n \in 1 .. MaxConc : UpdateSettings(n)

CommandTail == CmdSaved \/ CmdDelete \/ CmdUnblock \/ DrainWait \/ DrainAck \/ DrainFails

Scheduler == SchedScan \/ SchedCheck \/ SchedPark \/ SchedNotified \/ SchedTimeout

\* What a worker does by itself, and what the server decides for it.
Steps(j) == \/ Spawned(j) \/ Reconcile(j) \/ Stat(j) \/ Kick(j) \/ KickStore(j)
            \/ Plan(j) \/ Open(j) \/ XferStop(j) \/ Move(j) \/ Rename(j)
            \/ Recheck(j) \/ CommitFinal(j) \/ Recheck2(j) \/ Unlink(j)
            \/ Error(j) \/ RetryLater(j) \/ Backoff(j)
            \/ WorkerSaved(j) \/ WorkerSaveFails(j) \/ Finalize(j)
            \/ (stage[j] = "nostart" /\ StartFails(j))
Server(j) == StartFails(j) \/ Fallback(j) \/ XferDone(j) \/ XferFails(j)

Trail(j) == \E r \in trail[j] : TrailSaved(j, r) \/ TrailDelete(j, r) \/ TrailUnblock(j, r)

Next == \/ Command \/ CommandTail \/ Scheduler
        \/ \E j \in Jobs : Steps(j) \/ Server(j) \/ Trail(j)
        \/ PersistWrite \/ Crash

Spec == Init /\ [][Next]_vars

\* tokio runs every task that can go on; the user and the server may not.
Fairness == /\ WF_vars(CommandTail)
            /\ WF_vars(Scheduler)
            /\ \A j \in Jobs : WF_vars(Steps(j)) /\ WF_vars(Trail(j))
FairSpec == Spec /\ Fairness
-----------------------------------------------------------------------------
CmdRecords == [op : AllOps \cup {"none"}, job : Jobs \cup {"none"},
               stage : {"idle", "save", "delete", "unblock", "wait", "finalsave"},
               part : BOOLEAN, out : BOOLEAN, unblock : BOOLEAN]

TypeInner ==
  /\ st \in [Jobs -> JobState \cup Gone]
  /\ id \in [Jobs -> Ids] /\ idEra \in [Jobs -> Eras] /\ era \in [Jobs -> Eras]
  /\ control \in [Jobs -> Controls]
  /\ active \subseteq Jobs /\ requeue \subseteq Jobs
  /\ pendingPart \subseteq Jobs /\ pendingFinal \subseteq Jobs
  /\ produced \in [Jobs -> Eras \cup {NoEra}]
  /\ auth \subseteq Jobs
  /\ maxc \in 1 .. MaxConc
TypeFiles ==
  /\ part \in [Jobs -> Eras \cup {NoPart, Hole}]
  /\ outs \in [Jobs -> SUBSET Eras]
  /\ finished \in [Jobs -> SUBSET Eras]
  /\ disk \in [Jobs -> Rows \cup {NoRow}]
TypeWorker ==
  /\ stage \in [Jobs -> Stages]
  /\ w \in [Jobs -> WorkerLocals]
  /\ saving \subseteq Jobs
  /\ trail \in [Jobs -> SUBSET Trails]
TypeControl ==
  /\ cmd \in CmdRecords
  /\ sched \in {"scan", "check", "timed", "parking", "parked"}
  /\ wake \in BOOLEAN
  /\ ncmd \in 0 .. MaxCmds /\ ncrash \in 0 .. MaxCrashes
TypeOK == TypeInner /\ TypeFiles /\ TypeWorker /\ TypeControl

\* A slot of active belongs to exactly the jobs that have a worker; a job
\* shown as running has one, and a slot is held by a job shown as running
\* unless that job is being restarted or was removed under its worker.
SlotOwned ==
  \A j \in Jobs :
    /\ j \in active <=> stage[j] # "none"
    /\ st[j] \in Running => j \in active
    /\ j \in active \ requeue /\ Present(j) => st[j] \in Running

\* Restart and cancel-with-delete wipe a job's segment map; no commit of a
\* worker that started before brings a map back, in memory or on disk.
NoResurrect ==
  \A j \in Jobs :
    /\ Present(j) /\ id[j] \in Maps => idEra[j] = era[j]
    /\ disk[j] # NoRow => (disk[j].id \in Maps => disk[j].idEra = disk[j].era)

\* Handoff credentials are kept only for a job that is still in the list and
\* may still run.
CredentialsDropped ==
  \A j \in auth : Present(j) /\ (st[j] \in Terminal => j \in active)

\* No final file is forgotten: it is one whose completion was accepted, or the
\* worker that renamed it or the finalizer that will delete it still has it in
\* hand.  A crash excuses the file that was in hand, and no other.  A row that is
\* Completed, in memory or in state.json, has its file.
OutputsAccounted ==
  \A j \in Jobs :
    /\ outs[j] \subseteq finished[j] \cup Held(j)
    /\ "Completed" \in {st[j], disk[j].st} => outs[j] # {}

\* A deferred restart: the finalizer that still has to delete the .part and
\* the next worker of the same job never exist together.
RestartDefers ==
  \A j \in Jobs : \A r \in trail[j] : r.defer /\ Present(j) => j \notin active

\* The bytes of an identity that was wiped (or of a removed row) are deleted
\* only after state.json stopped claiming them, so a crash in between never
\* leaves a map without its file.  A delete that hits newer bytes than it was
\* meant for is what DeletesExclusive is about.
Claimed(j) == disk[j] # NoRow /\ disk[j].id = "written" /\ disk[j].idEra = part[j]
PersistBeforeDelete ==
  [][\A j \in Jobs :
       /\ CmdDelete /\ cmd.part /\ cmd.job = j =>
            (part[j] < era[j] \/ ~Present(j) => ~Claimed(j))
       /\ \A r \in trail[j] : TrailDelete(j, r) /\ r.part =>
            (part[j] < r.era => ~Claimed(j))]_vars

\* A worker never opens a fresh sparse file under a map that claims bytes.
NoHoleResume == \A j \in Jobs : part[j] # Hole

\* The parked scheduler is not needed, or a wake-up is on its way.
NoLostWakeup ==
  sched \in {"parking", "parked"} /\ (\E j \in Jobs : Startable(j)) => wake \/ cmd # Idle

\* Drain promises that no worker is left when it acknowledges, and that the
\* rows it writes say so.
DrainQuiet ==
  [][DrainAck => active = {} /\ \A j \in Jobs : disk'[j].st \notin Running]_vars

\* While a Drain is under way no download starts but one that the user
\* restarted: its map was wiped, so what a quit cuts off had not begun.
OnlyRestartsStart ==
  [][cmd.op = "Drain" => \A j \in active' \ active : era[j] > 0 /\ id[j] = "none"]_vars

\* A stop sent to a job that is still Starting (slot reserved, worker not yet
\* spawned, or backing off between attempts) is never withdrawn: the worker
\* that comes up finds it in the control it shares with the handlers.  A job
\* that is being restarted is queued again whatever its control says.
StartingStopKept ==
  [][\A j \in (active \cap active') \ requeue :
       st[j] = "Starting" /\ control[j] # "Continue" => control'[j] # "Continue"]_vars

\* Nobody deletes a .part while a worker of that job may be writing it.
DeletesExclusive ==
  [][\A j \in Jobs : CmdDelete \/ Trail(j) =>
       (part[j] # NoPart /\ part'[j] = NoPart => j \notin active)]_vars

\* No worker task dies in a panic.
WorkersSurvive == \A j \in Jobs : stage[j] # "panicked"

\* A worker told to stop leaves its slot, however the server behaves.
StopTakesEffect ==
  \A j \in Jobs :
    j \in active /\ control[j] # "Continue"
      ~> j \notin active \/ control[j] = "Continue" \/ stage[j] = "panicked"

\* A queued job gets a worker as soon as a slot is free.
QueuedServed ==
  \A j \in Jobs :
    st[j] = "Queued"
      ~> st[j] # "Queued" \/ j \in active \/ Cardinality(active) >= maxc
=============================================================================
