# RusticDL: verification of the download manager

TLA+ models of RusticDL, a desktop download manager written in Rust, with the
browser extension that hands downloads to it. TLC checks small instances of
them; TLAPS proves the theorems in the eight modules `*Proofs.tla` for every value
of the constants (section 9). Paths in this document are
relative to the repository; `engine/` stands for `src/download/engine/`, `download/` for
`src/download/`.

    tlc -workers 2 -config MCEngine_one.cfg MCEngine      # a run
    tlapm EngineProofs.tla                                # the proofs

## 1. Inventory of the system

| component | state it keeps | operations | interacts with | what makes it correct |
|---|---|---|---|---|
| **download engine** `engine/mod.rs`, `worker.rs`, `commands/*` | `EngineInner` behind one tokio `Mutex`: jobs, controls, `active`, `requeue_on_cancel`, `pending_partial_deletes`, `pending_final_deletes`, `produced_files`, `handoff_auth`, config; one `Notify` | 12 commands run one at a time by `command_loop`; `scheduler_loop`; one worker task per running job; `finalize_worker` and its tail | UI and IPC (commands in, events out), persist actor, transfer code, file system | a slot of `active` has exactly one worker; a wiped identity stays wiped; files and rows agree; nobody deletes a file a worker writes; stops take effect; queued jobs are served |
| **persist actor** `engine/persist.rs`, `src/persistence.rs` | queue of 64 requests, `jobs_generation`, `state.json` | snapshot, write, look at the generation again, acknowledge | every task that awaits `persist_live_jobs` | an acknowledged request means that what was in memory at the request is on disk; an old snapshot is never the last one written |
| **identity commits** `EngineIdentity`, `download/progress.rs` | the transfer identity of a job (map, validators, paths, sizes) | `commit`, `output_discarded`, `note_produced_file`, `clear_produced_file` | worker → engine | dropped while the identity is being wiped; durable before the transfer goes on |
| **job model, resume oracle** `download/job.rs`, `resume.rs` | one `Job` | lifecycle helpers, the oracle's four answers | all of the above | a v1 row without a usable map is never resumed by file length |
| **transfer plan, single stream, segments** `download/transfer.rs`, `http.rs`, `body.rs`, `fetch.rs`, `multi.rs`, `segment.rs`, `segment_io.rs`, `preflight.rs` | locals of one attempt, `SegmentMap`, the `.part` file | plan, preallocate, fetch with reconnect, fall back, verify, rename | connection budget, bandwidth limiter, identity commits, server | bytes that the map confirms are on disk; a changed entity is never joined to old bytes; an attempt ends |
| **connection budget** `download/conn_budget.rs` | a global and one semaphore per host, two limits | acquire (interruptible), release, resize | every connection of every worker, settings | no more permits than the limit once a resize has settled; no permit lost; a wait ends on a stop |
| **bandwidth limiter** `download/bandwidth.rs` | rate, tokens, time of the last refill | acquire in quanta of 64 KiB, change of limit | body readers, settings | what passes is what the limits allow, whatever changes in between; a tiny limit still lets bytes through; a stop ends a wait |
| **paths** `download/filesystem.rs` | the file system, names in use | allocate, uniquify, move to the final path, remove | Add, worker | two jobs never share a path; an existing file is never overwritten unless asked |
| **extension** `apps/extension/src/background/*` | one session per capture family (in memory and in session storage), early events waiting for it | decide on a request or a download, pause, erase, send, restore | browser, native host | a download opens one dialog; it becomes a job, is dismissed, or goes back to the browser |
| **native host** `apps/native-host/src/*` | one message | connect, start the application, retry, time out | extension, IPC server | every message is answered |
| **IPC bridge and server** `src/ipc/*` | prompts, claimed prompts, owned and pending jobs, watched jobs, wake-up flags, one mutex | one handler per connection; the bridge's methods | native host, engine (commands and snapshot), UI | one job per URL; a prompt is resolved once; the UI is woken |
| **capture windows, shell** `src/prompt_window/*`, `src/app/{jobs_ui,browser_capture,tray_lifecycle}.rs` | windows with the job or prompt they show, job snapshots, hidden and parked | open, bind, accept, close, hide to the tray, park | bridge, engine | one window per job; no prompt without a window; no sleep over work |
| **single instance** `src/single_instance.rs`, `linux_restore.rs` | a lock | claim, show the first instance's window | server | – |
| **settings, notifications, startup, views** | the configuration, views of the engine's events | send commands; quit through Drain | engine | quit waits for Drain's acknowledgement or two seconds |
| **updater** `src/updater/*`, `src/app/update_flow`, `apps/updater` | the release found, pending notes; a program of its own | check, launch, wait for the old process, install, relaunch | application, GitHub | after a failure the old version runs again |

The behaviours that are hard, and why tests hardly reach them:

* *Sections.* The mutex is dropped at every await. A command, a commit, the
  scheduler or a second finalizer may run between the two halves of anything:
  the two sections of `reconcile_for_attempt`, the check–rename–check of
  `move_to_final_path_unless_discarded`, the lock section of `finalize_worker`
  and its tail (persist, delete, unblock).
* *Late workers.* Restart, Cancel and Remove return at once; the worker notices
  at its next look at the control, and until then goes on committing.
* *Two deleters.* A `.part` is deleted by whoever is not racing a worker: the
  handler if the job has none, the finalizer otherwise. Both then take flags
  back that hold the scheduler off.
* *One `Notify`* serves the scheduler and Drain, and keeps a single permit.
* *Crashes.* Memory is lost; the rows of the last snapshot and the files remain.
* *Failures.* Persisting, syncing and removing may fail; most callers ignore that.
* *A server that changes its mind.* The file is replaced between two requests,
  ranges are honoured at one time and not at another, bodies end early.
* *Five processes.* Browser, background script, native host, application and
  engine each have time limits of their own, and the first to give up decides
  alone what happens to the download.
* *Windows that are claimed before they exist.* Prompts and jobs are reserved in
  the bridge by code that then asks the platform for a window.

`PROJECT.json` lists each hazard at its line.

## 2. Plan and modules

| stage | modules | state |
|---|---|---|
| engine, its files and `state.json` | `Engine`, `MCEngine`, `EngineProofs`, `EngineFileProofs` | checked; every safety property of its passing runs proved |
| durable store | `StateStore` (abstract), `PersistActor`, `PersistProofs` | checked; refinement proved |
| limits | `ConnectionBudget`, `BandwidthLimiter`, `TokenBucket` (abstract), composed in `Limits`; `MCLimits`, `LimitsProofs` | checked; permits and the refinement proved |
| one job's transfer | `TransferBase`, `SingleStream`, `MultiTransfer`, composed in `Transfer`; `MCTransfer`, `TransferProofs` | checked; every safety property proved, those about versions under two hypotheses (section 9) |
| names of files, several jobs | `Names`, `MCNames`, `NamesProofs` | checked; both properties proved |
| browser handoff, updates | `HandoffBase`, `IpcBridge`, `Capture`, `Relay`, `CaptureHud`, `UpdateFlow`, `Updater`, composed in `Handoff`; `MCHandoff`, `HandoffProofs`, `HudProofs` | checked; every invariant proved |

Not done: Engine composed with `PersistActor`, so that `disk` becomes its file; the Windows side of
a delete (a file that is open is not removed there).

How the models fit together: Engine sees an attempt from the outside (`Open` …
`XferFails`), Transfer from the inside, with one worker and without the commands
that race with it; Engine's wiped identities are Transfer's `Restart`. Names keeps of
both what opens, renames or deletes a file, for several jobs. Where a
transfer waits for a permit or for bandwidth, Transfer has one step that may take
any time, and Limits says that it ends. Engine's `Add` is reached from Relay's
handlers; Relay keeps of the engine that commands come in order, that an Add
inserts, saves and replies, and that jobs end. An update ends and starts the process
that Relay talks to, while Relay starts it too.

Runs (`PROJECT.json` has the whole list): `queue`, `live`, `drain`, `panic`, `delete`,
`hole` (section 3), `persist` (4), `budget` (5), `transfer` (6), `names`, `adopt` (7),
`handoff` (8).

## 3. Engine

### State

| variables | code |
|---|---|
| `st`, `id` | `job.state` and what `resume_oracle` sees of its identity: no map (`none`), a map without and with confirmed bytes (`mapped`, `written`), a version ≥ 1 row with a missing or inconsistent map (`broken`). `unborn` and `removed` are rows that are not in `jobs` |
| `control`, `active`, `requeue`, `pendingPart`, `pendingFinal`, `produced`, `auth`, `maxc` | the fields of `EngineInner` of the same purpose |
| `part`, `outs` | the job's `.part` file and its final files |
| `disk` | `state.json` |
| `stage`, `w`, `saving` | a worker's program point, its locals (the job it cloned, `need_disk`, the error, the attempt, the outcome), and whether it awaits `persist_live_jobs` |
| `trail` | finalizers past their lock section: what each still has to persist, delete and unblock |
| `cmd` | the command in flight and the tail of its handler |
| `sched`, `wake` | the scheduler's program point and the permit of the `Notify` |
| `era`, `idEra`, `w.era`, the values of `part` and `outs` | ghosts: the era is the number of wipes of the job's identity, and each file, map and copy carries the era it comes from |
| `finished` | ghost: eras whose completion a finalizer accepted |

### Actions

* **Commands.** `Add` … `UpdateSettings` are the handlers' lock sections.
  `command_loop` runs one command at a time, so a handler's tail (`CmdSaved`,
  `CmdDelete`, `CmdUnblock`; for Drain `DrainWait`, `DrainAck`, `DrainFails`)
  ends before the next command begins; everything else runs meanwhile.
* **Scheduler.** `SchedScan` reserves slots, `SchedCheck` decides to park,
  `SchedPark` begins to wait, `SchedNotified` and `SchedTimeout` end the wait.
* **Worker.** `Spawned`, the two sections `Reconcile` and `Stat`, the two
  accesses `Kick` and `KickStore`, then the attempt: `Plan`, `Open`, and either
  `XferDone`, `XferStop`, `XferFails`, `StartFails` or `Fallback`; after a
  complete body `Move`, `Rename`, `Recheck`, `CommitFinal`, `Recheck2`,
  `Unlink`; after an error `Error`, `RetryLater`, `Backoff`. Every commit goes
  through `Commit`, and the worker goes on when its persist is acknowledged
  (`WorkerSaved`) or failed (`WorkerSaveFails`).
* **Finalizer.** `Finalize` is the lock section, `TrailSaved`, `TrailDelete` and
  `TrailUnblock` its tail, which belongs to no slot any more: the next worker of
  the job, or a second finalizer, may run beside it.
* **Persist actor.** `PersistWrite` writes the rows at any time somebody waits;
  an acknowledgement implies a write of the rows as they are then. That a write
  takes a snapshot earlier and repeats is in PersistActor, which shows that this
  is a sound view of it (section 4).
* **Crash.** Memory goes, `state.json` and the files stay, `spawn_engine` queues
  rows that were running.

What is abstracted: progress numbers, speed and texts (live ticks change
`job.state` only between Starting and Downloading); the reasons for a plan and
for an error; which of the startable rows come first; one job per Add (a paste
of several URLs is several rows in one section); paths, so two jobs never share
one here (section 7 has them); `rejected_partial`. Progress of a single stream is the
length of its file. A user knows an id after its row was added; ids (UUIDs) never return.

### Properties

Invariants and action properties, each with the code it is about in its comment:
`TypeOK` (proved); `SlotOwned` (slots and workers); `NoResurrect` (wiped maps);
`CredentialsDropped`; `OutputsAccounted` (final files against what finalizers
accepted and what worker and tails still answer for); `RestartDefers`;
`PersistBeforeDelete`; `StartingStopKept`; `NoLostWakeup`; `OnlyRestartsStart`
(what a quit may start); `DrainQuiet`; `DeletesExclusive`;
`NoHoleResume`; `WorkersSurvive`. Liveness: `StopTakesEffect`, `QueuedServed`.

### Runs

| run | instance | checks | result |
|---|---|---|---|
| `queue` | 1 job with 3 commands, or 2 interchangeable jobs with 2, or 1 and a crash; 2 wipes; 1 retry; rows with a broken or a written map in the first `state.json`; `max_concurrent` 1 or 2 | SlotOwned, NoResurrect, CredentialsDropped, OutputsAccounted, RestartDefers, NoLostWakeup, PersistBeforeDelete, StartingStopKept, OnlyRestartsStart | holds, about 1.8 million states |
| `live` | 1 job, 2 commands out of Pause, Resume, Cancel, Restart, Drain; 1 retry; failing persists | StopTakesEffect, QueuedServed | holds |
| `drain` | 1 job, a Restart and a Drain | DrainQuiet | **violated** |
| `panic` | 1 Cancel | WorkersSurvive | **violated** |
| `delete` | 2 Restarts | DeletesExclusive | **violated** |
| `hole` | a crash, no command | NoHoleResume | **violated** |

*Bounds.* The hazards are races of a worker, its successor, and the tails of one
or two finalizers, with commands in between; three commands reach two
generations of tails beside a live worker (a restart, what the user does during
its tail, and what he does after it). `MaxEra` bounds wipes, so two restarts and
a cancel with delete are all inside it. Unbounded in the code and bounded here:
commands (`MaxCmds`), wipes (`MaxEra`), `auto_retry` (`MaxAttempts`; an attempt
that made progress gets its budget back), crashes (`MaxCrashes`). The engine may
really stop (nothing queued, scheduler parked), so deadlock is not checked; that
it does not stop when it should not is `NoLostWakeup` and `QueuedServed`.

`Events` bounds which commands and crashes come when, by the number of jobs and
of commands so far; the proofs put no condition on it. In `queue` the engine starts
with no row, one or two, and an Add brings one more. A job alone gets as its first
two commands any of the twelve, and as its third Cancel,
Restart or Remove. Once there are two jobs there are two commands at most, the Add
included, or one and a crash; what comes then is PauseAll, Drain, ResumeAll, RetryAll or
UpdateSettings, at any moment of both jobs' lives. So
limits change while two workers run, and a restarted job meets a second one. The
constraint `QueueBounds` cuts what would only multiply: a job alone has one
slot, and repeats an attempt before its second command only; of two jobs one at a
time is inside its attempt (the other one is queued, starting, ending or in its
finalizer's tail), none repeats one, and none has a broken map.

*What `queue` leaves to others.* It has no failing persists; they are in `live`.
With a failing persist `PersistBeforeDelete` and `OutputsAccounted` do not hold:
the handlers ignore the error before they delete, and a commit that cannot be
saved ends a worker whose file has its final name. The repository promises
nothing there. `OutputsAccounted` speaks of final files; a `.part` may stay
behind (a crash before its delete, an ignored error) and is not counted. A crash
excuses the final file that a worker or tail had in hand, because the
code keeps no record of it across a start; a file whose completion was accepted
or a row that is Completed in `state.json` is not excused.

*Fairness.* `FairSpec` has weak fairness of the command tails, the scheduler,
each worker's own steps and each job's finalizer tails: tokio polls every ready
task, its mutex is first-come first-served, a persist is answered, and each wait
has a timer. There is no fairness for commands (the user), for `Server` (a
transfer need not end by itself), for `PersistWrite` or for `Crash`. A stop is
fair because every wait of the transfer looks at the control every 50–200 ms.
`StopTakesEffect` excepts a worker that panicked, which is the finding `panic`,
and a stop that was withdrawn, by Resume or by `KickStore`.

### Where code and documents disagree

The four violated runs of this section; `PROJECT.json` quotes the lines.

* `panic`: Cancel with delete between the two sections of
  `reconcile_for_attempt` kills the worker task; its slot is never given back.
* `delete`: a second Restart during the first one's deferred tail deletes the
  `.part` under the worker that the tail let start.
* `hole`: a crash after the rename and before the durable Completed leaves a map
  without its file, and the next start resumes it over a sparse one.
* `drain`: Restart of a running job, then Drain. The finalizer sets the row that Drain
  paused back to Queued (`worker.rs:313`). The scheduler knows nothing of a drain:
  once the deferred tail is over it starts the job, while Drain has already seen
  `active` empty (`bulk.rs:62`) and writes the rows. `docs/download-engine.md:26` says that
  Drain pauses in-flight jobs and waits for them to leave `active`; here it acknowledges
  with a worker running. What does hold is `OnlyRestartsStart`: nothing else starts under
  a drain, and what starts has a wiped map, so no confirmed progress is at stake.

One more, without a statement to contradict: `if control.load() == 0 { store 0 }`
(`worker.rs:87`) can drop a stop stored between its two accesses. What the
comment at `worker.rs:39` promises, that a stop stored while the job is Starting
is not dropped, is `StartingStopKept`, which holds unless the job is also being
restarted.

## 4. The store: PersistActor and StateStore

The content of the queue is a number that each durable mutation increments; a
crash takes it back to what the file has.

| variables | code |
|---|---|
| `rows`, `gen` | `EngineInner.jobs`, `jobs_generation`: both change in one lock section (`bump_jobs`) |
| `queue`, `client`, `req` | the channel, the tasks inside `persist_live_jobs`, the request the actor took |
| `actor`, `snap`, `snapGen`, `ok` | program point and locals of `persist_until_generation_stable`, `save_jobs` and `atomic_write` |
| `file`, `readable`, `tmp` | `state.json`, whether it can be read and parsed, and `.state.json.tmp` |
| `loaded` | the path is not in `unread_state_paths` |
| `up` | the process runs |

`Ask` and `Send` are `persist_live_jobs`; `Recv`, `TakeSnapshot`, `Compare` and
`Reply` the actor; `Guard`, `OpenTemp`, `WriteTemp` and `Rename` the write, each
of which may fail; `Crash` and `Start` the life of the process; `Damage` and
`Repair` let anybody break or mend the file (a sharing violation that clears is
both). Left out: the cap on completed history, at a save and at a load; changes
that do not bump the generation (progress ticks and the like), which a write
takes along if it comes later; `settings.json`, which shares the lock but not
the file. A rename is atomic and a synced file survives a crash.

`StateStore` is what Engine takes for granted: what is stored never goes back to
an older queue, a file that was not loaded is not replaced, and between a
request and a good answer there is a moment at which all of memory is stored.
Engine's `PersistWrite` is its `Land` (with the current rows: a write of older
ones is one that came earlier), `WorkerSaved`, `CmdSaved` and `TrailSaved` its
`Save` and `Confirm` in one.

Run `persist` (`PersistActor_persist.cfg`): two clients, a channel of one
request, three mutations in a life of the process, a first file with zero or one
row, one crash, two failures. That is enough for a mutation in each step of a
write, a second round of the loop, a request that waits for room, a crash at
each step, and a start from a file nobody can read that is mended later. It
checks `Implements` (`StateStore!Spec` under the mapping `rows`,
`file`, `up /\ loaded`, `Asks`), `ReadableKept` (only outsiders leave the file
unreadable), and `Answered`.

*Fairness.* Weak fairness of the actor (a spawned task; its file operations end),
strong fairness of each sender (tokio's channel gives room to senders in the
order they came). None for mutations, crashes, start and damage. `Answered`
holds because mutations are bounded: the generation loop has no bound of its
own, so a stream of mutations faster than the writes would keep it going.

## 5. Limits: permits and bandwidth

### ConnectionBudget

| variables | code |
|---|---|
| `total`, `perHost` | `max_total`, `max_per_host` |
| `created`, `free` | the keys of `hosts`; the permits nobody has, of each semaphore |
| `debt` | what the tasks spawned by `resize_semaphore` have to take yet |
| `due`, `updater`, `asked` | the update in progress: what it still has to take or add, its phase (in `hosts` it has the lock of the map), the limits it sets |
| `pc`, `host`, `stopped` | each connection: its point in `acquire_interruptible`, its host, its control |

A connection takes the host's permit, then the global one; each wait alternates
between a look at the control (`Check`) and up to 50 ms of waiting (`Poll`,
`Granted`). `Close` drops both permits in one step, `Abort` is `abort_all` of
the `JoinSet`. `Update` … `Updated` are the steps of `update_limits`, `Reclaim` a
spawned task. A semaphore has no queue here: a wait that is dropped and begun
again loses its place, and a task just spawned has none, so who gets a permit is
left open. That only adds behaviours.

### BandwidthLimiter and TokenBucket

| variables | code |
|---|---|
| `rate`, `tokens` | `LimiterState`; rate 0 is `None`; `capacity` is `CapacityOf(rate)` |
| `lag` | ticks since `last_refill` |
| `need`, `asleep` | what each reader has yet to acquire for its chunk, and who is in the `select!` of `acquire_quantum` |

`Take` and `Wait` are the two results of `try_take` under the mutex (the look at
the control before it is their guard), `Wake` the end of the `select!`, by time or
by the notification; `GiveUp` and `Drop` the ends by a stop and by `abort_all`;
`SetLimit` is `set_limit`. Tokens are whole units, so a rate is units a tick and
the burst is two ticks or one quantum. `MaxLag` ticks fill the bucket at any rate
there is, so counting no further changes nothing. A wait may end at any moment:
the code ends it after the time in which the deficit comes in, at most 50 ms.

`TokenBucket` is what the limit promises: a bucket that fills with every tick, up
to the burst ("Brief bursts up to ~2× the rate (min 64 KiB) are normal after
idle", `src/app/settings_panel/engine.rs:125`), and out of which bytes are paid.
`BandwidthLimiter` fills its bucket only when somebody looks; `LimiterImplements`
says that with `Level`, what it would hold if it were looked at, this is the same
bucket. What it hangs on is that `set_limit` refills at the old rate first. Time
without a limit counts as time to fill: after the limit is set again, the first
burst is there at once, and `TokenBucket` allows that.

### Limits

`Limits` puts a limiter behind the permits: `Chunk` is a chunk that arrives at an
open connection, `Ends` the end of its body, `AbortReader` an abort while it waits
for bandwidth. `UpdateSettings` and `SetLimit` are the two halves of
`update_settings`, with all of `update_limits` between them. Each connection has
one chunk (`fed`): the second is like the first.

Run `budget` (`MCLimits_budget.cfg`), four scenarios:

* two connections without bandwidth, three updates between the limits two and one
  and a pair that has to be clamped;
* one reader with a chunk of two quanta, two updates among no limit, a limit of
  which two ticks are less than a quantum, and one of which they are more;
* two readers with chunks of two quanta at the lowest limit;
* two readers at that limit, and an update that lowers the limit per host while
  they have their permits.

It checks `Conserved` (free and held permits of each semaphore are its
limit and what is still owed), `Settles` (debts are paid), `LimiterImplements`,
`Served` (while somebody waits for bandwidth, somebody gets some: a capacity of two
seconds alone would be below one quantum for limits under 32 KiB/s), and
`StopEndsEveryWait`. More connections and hosts only add semaphores that do not
share a permit; the theorems below cover them.

*Fairness.* Weak fairness of the update, of each connection's polls, of its look at
the bucket and of its end, and of time; strong fairness of the reclaiming tasks and
of *somebody* getting a permit that is free again and again. No particular waiter
is promised one, since a poll loses its place; therefore there is no such property.
The limiter has no queue either, and there `Served` is all that can be said: a
reader that needs a whole quantum can be passed for ever by readers with smaller
chunks, who take the tokens as they come.

What the model shows beside the run: permits added by a raise (`conn_budget.rs:163`) are
not set off against what an earlier reduction still owes, so for a while more connections
are open than any limit allowed: with the limits two, one and two, and both permits out
all the time, a third connection opens. `settings/model.rs:76` says "Process-wide cap on
concurrent download body connections"; the theorem `CapHoldsOnceSettled` says when it is
one. Waiting in tokio's queue does not prevent it: the spawned task may
not have been polled yet, and it queues for one permit at a time.

## 6. Transfer: one job, many attempts

### Modules and state

`TransferBase` has the files, the row and the operations on both that the two
engines share; `SingleStream` is `http.rs` with `body.rs` and `fetch.rs`;
`MultiTransfer` is `multi.rs` with the segment files; `Transfer` is the worker's view:
reconcile, preflight, plan, one of the two, and what happens around an attempt.

| variables | code |
|---|---|
| `sc`, `cur` | the server: which version of the file it has, whether it honours ranges and If-Range, advertises ranges, answers HEAD with a length, how its bodies end |
| `part`, `disk`, `final` | the `.part` file as readers see it and as it is on stable storage, the finished file: a function from chunks to the version whose bytes lie there, `Hole` for what nobody wrote, `Nil` beyond the end |
| `row`, `saved` | of the job `downloaded`, `total`, the ETag, `expected_size`, resume support, `rejected_partial`, the version of the row and its segment map, in memory and in `state.json` |
| `off`, `lp`, `resp` | the sink's offset; the counters of the reconnect loop; the response being read |
| `live`, `floor`, `seg`, `err`, `fresh` | the live map, what an earlier sync covered, each segment worker's point, the first error, a fallback |
| `old` | where the file is that had the target's name before: at it, moved aside (`.replaced`), or removed |
| `ctl`, `stage`, `outcome` | the job's control, the program point of the attempt, how it ended |

One step is what the code does up to its next await that something else can be seen
across: a request is answered (`206`, `200`, `416`, an error), a chunk is written, a
commit is durable, a sync is done. The segment workers run one beside the other;
the first error, a stop or a finished map ends them, and `abort_all` may leave a
write that still reaches the file and is not counted. A whole file gets its name in
`MoveFinal`; with Overwrite the file that has the name is moved aside before
(`StepAside`), and removed or moved back after, each of which may fail.

Left out: the wait for permits and bandwidth (section 5), HTTP/3, cookies, content
codings, redirects, names from headers (section 7), the checksum, progress and
speed. A version has one strong ETag; weak ones are dropped by the code before they
get here. A download whose old and new version coincide in every byte is not told
apart, and need not be (`Coincides`).

### Faults

A process that dies loses the unflushed tail of its writer, a machine without power
also what was not synced, for a single stream a suffix and for segments any subset;
a sync, a commit, the discard of a rejected file, replacing the final file, and the
preallocation may fail, and so may the renames at the end. Connections end early. Each instance has one fault
(`MaxFaults`), one replacement of the remote file (`MaxChanges`), one early end, one
Restart, two attempts.

### Run `transfer`

Six servers: with ranges and If-Range; with ranges that ignore If-Range; one that
advertises ranges and has none; one that ends bodies by closing; one without either
whose file grows; and one for two segments, whose file of three chunks becomes one of
two. The versions have different lengths where a length is all that could give a
replacement away. `TypeOK` includes the counters' limits; `WholeEntity` (a completed
file is one version, whole), `MapSynced` (a map confirms only what is on stable
storage, in memory and in `state.json`), `PartialMatches` (what the next attempt
builds on is of the version that the validators name), `OldKept` (a file that
had the target's name stays, or is replaced by a whole one when the user asked for it,
wherever the process dies), `ConfirmedKept` (no exit takes back what an earlier sync
covered), `AttemptEnds`. About 340,000 states. The process may die at every step but the one
between the persisted wipe and the removal of the `.part` in Restart, where the code does splice
(below).

*Why these bounds.* A splice takes one replacement between two requests; it makes no
difference whether they belong to one attempt or to two, and both are inside. The
reconnect counters are kept small (two reconnects, one rejected range, one restart
from zero) so that every one of them is reached and left. A third segment or a fourth
chunk adds a worker that does what the second does.

*Fairness.* Weak fairness of the attempt as a whole: each of its waits has a time
limit (`STALL_TIMEOUT` for headers and bodies, eight seconds for a back-off).
`Begin`, stops, replacements, Restart and crashes have none.

### What the model shows beside the run

* *Restart can splice.* Restart saves the wiped row and then removes the `.part`, and
  ignores a failure (`job_control.rs:253`, `filesystem.rs:497`); a crash between them
  does the same. The next attempt finds a row without a validator and a file with a
  length, takes the length for progress, sends the new version's ETag in If-Range and
  appends the new bytes to the old. With `"restart"`, which stands for
  both, among the `Faults` of `MCTransfer_transfer.cfg`, TLC finds `WholeEntity` violated. `transfer.rs:1252` says
  "Retry must not splice the rejected prefix onto the real file".
* *Segments trust If-Range.* Segment requests carry If-Range only from an offset above
  zero, and `classify_segment_status` never compares the ETag of a 206. A replacement of
  the same length, between a first segment at offset zero and the next, joins two
  versions. The scenario with segments has versions of different lengths, which
  Content-Range gives away.
* *A replacement that fails twice.* When a full body comes where a range was asked for,
  the old `.part` is removed and a failure of that ignored (`http.rs:545`); the new
  version's validators are committed (`http.rs:705`), and then the open that truncates
  may fail too (`http.rs:764`). The row then names the new version, the file has bytes
  of the old one, and nothing says so: `rejected_partial` is not set on this way. The
  next attempt sends the new ETag in If-Range and appends. With two faults and
  `"replace"` among the `Faults`, TLC finds `WholeEntity` violated; `filesystem.rs:513`
  and `transfer.rs:1252` promise otherwise for bytes that were refused.
* *There and back.* A file that becomes another version and then the first again
  (`MaxChanges` two) is prepared with the size that HEAD gives while
  `validators.expected_size` stays that of the first (`multi.rs:60`).
* *A discard that fails twice.* A body that has to be refused is removed, or else cut
  to zero; only if both fail does its length count as progress later.
* *A pause right after the last byte* leaves a whole `.part`. The next attempt asks for
  a range behind its end, gets a 416, discards the file and starts again.
* `http.rs:1527` says "Do not merge preflight ETag/LM onto the transfer-local job", but
  the commit in the next line does (`persist.rs:100`, `apply_commit_identity(job, &c)`),
  if the row has none. `PartialMatches` holds with what the code does.
* *From-zero restarts* are counted, but a 206 in between sets the count back; the other
  counters then end the attempt.
* A connection that is cut exactly at the length an older version had looks like a whole
  body of that version to everything but the confirmation request. A body that ends with
  its connection and is cut twice at the same place passes the confirmation too: with a
  server that advertises ranges, sends none, and closes, and `MaxShort` two, TLC finds a
  completed file that is cut (`WholeEntity`).
* *What was moved aside may stay behind.* After a crash between the two renames the
  next attempt that ends finds nothing at the target and leaves `.replaced` where it
  is. "The original file was kept." (`filesystem.rs:461`) is also said when moving it
  back failed (`let _ =`); the file is then there under that name.
* A sync that failed is tried again later. A kernel that drops dirty pages on a failed
  fsync would report success then; the model's failed sync leaves the pages dirty.

## 7. Names: several jobs in one directory

### State and actions

`Names` has the paths. A path is a name, the numbers that were added to it (`f (1)`) and
the suffixes `.part` it ends with, so that a file called `f.part` and the partial file of
`f` are one path. A file is the set of those whose bytes are in it.

| variables | code |
|---|---|
| `files` | the download directory |
| `rows` | of each job its state (`ended` is Failed and Canceled), `target_path`, `temp_path`, `replace_existing` |
| `part`, `final`, `requeue` | `pending_partial_deletes`, `pending_final_deletes`, `requeue_on_cancel` |
| `w` | a worker: its program point, its copies of the row's paths and of all others' (`occupied_paths`), whether it resumes, has its file open, was told to stop, took a name from a header, and the file it produced (`produced_files`) |
| `cmd`, `tails` | what the handler in progress, and finalizers past their lock section, still delete |
| `crossed` | ghost, see below |

`Add` is the allocation with both policies (`Allocated` is `allocate_download_paths`) and
the removal of a leftover `.part` for Overwrite; `Pause` … `Remove` are the lock sections
of the handlers, `CmdDelete` their end. A worker starts (`Start`, also for another
attempt), adopts a name from a header in two steps (`AdoptCheck`, `AdoptMove`), commits
it, opens its `.part`, and at the end looks for a free name (`PickName`), renames
(`Move`), commits and looks twice whether its output is wanted; it may fail or stop in
between. `Finalize` and `TailDelete` are the finalizer. `Saves` is another program that
creates a file: at a path that somebody may download to, never a `.part`, and not between
a worker's look at a path and its rename there, nor where a delete is on its way. What
goes wrong in these two gaps is below.

Left out: how a URL or header becomes a name, case folding, symbolic links, the fallback
to a UUID after 10,000 numbers, crashes, operations on files that fail (both are in
section 6), and the sidecar of a replacement (6).

### Runs

`names` (`MCNames_names.cfg`): two jobs, four commands (a second program's file counts as
one), numbers up to four, four scenarios: the user has a file of the name, and may
overwrite it; a leftover `f.part` lies there, and he may overwrite `f`; two files, of which
one has the name that a header gives the other; a `g.part` of his own in the way of a header. About 2.3
million states. `PartOwned`: what a download writes or resumes holds no bytes of
another. `FilesKept`: the file of a completed download, and a file of the user's, stay
until the user removes them or lets a download replace them; a file that Overwrite finds at
`<name>.replaced` and one saved between the look for a free number and the rename are outside
the model, and lost in the code (below).

`adopt` is a finding: two workers started together adopt one name from their headers and
write into one `.part`. `context.rs:26` says that adoption must not do that.

*Why these bounds.* Most collisions take two jobs, and four commands are two Adds and two
of what the user does to either of them, with the delete of the first still to come. A
third job adds what a completed row hides (below). For every number of jobs, commands and
names there are the proofs of section 9, whose invariant TLC checked with three jobs
as well.

*`crossed`.* The code takes a path at five moments without a look at everybody who has it:
a name from a header (against an old copy of the rows), a number found at the final rename
(against the directory), a start while a delete of that path is on its way, and two blind
spots of Add (`Overlooked`): workers at a path that is not in their row, and the pending
delete behind a completed row. Jobs that come to a
path of another one in one of these ways, and those they come to, are marked, from that
step on; `PartOwned` and the half of `FilesKept` about completed downloads leave them
out. Where the user's files are concerned nobody is left out.

### What the model shows beside the runs

* *A completed row hides a pending delete.* Add treats a `.part` that is still to be
  deleted as taken (`add.rs:52`), but `pending_temp_blocks_overwrite`
  (`filesystem.rs:763`) does so only until some row has that temporary path, and a
  completed row, which blocks nobody, keeps its own. A download is done; a second one
  overwrites its file and is removed while it runs; a third one overwrites it too, and
  the second and third have one `.part`, which tests say must not be
  (`filesystem.rs:1821`, `:1869`). The second one's finalizer then deletes it. TLC finds
  it with `Jobs = {1, 2, 3}`, the scenario `S({}, {f}, <<>>, {"overwrite", "remove"})` and
  the invariant `HeldApart`, in 22 states.
* *A completed row does not block Overwrite* (`filesystem.rs:746`) and keeps its paths.
  Removing it later with its leftovers ("Any leftover .part file is deleted",
  `confirm_dialogs.rs:64`) deletes the `.part` under the download that overwrites it.
* *Remove with its file of a job that never completed* deletes whatever lies at
  `target_path` (`job_control.rs:310`), also a file that came there since.
* *The number at the end* is found by a look at the directory and used by a rename that
  replaces what is there (`filesystem.rs:428`); two downloads that end together, or a
  program that saves a file in between, can lose one. It may also be the target of a row
  that has not started.
* *Late deletes.* A finalizer or handler that still has to delete a `.part` of a removed
  job, whose entry in `pending_partial_deletes` is gone, may meet a new job's.
* *Restart during an adoption* deletes the old `.part`; the renamed one stays behind.
* `replace_final_path` removes a file of the user's that is called `<name>.replaced`
  (`filesystem.rs:449`).

## 8. Handoff: from the browser to a window and a job

### Modules and state

| module | code | state |
|---|---|---|
| `IpcBridge` | `ipc/bridge.rs`: one record, every method a function from bridge to bridge, because one mutex makes each of them atomic | prompts, claimed prompts and what was said to them, owned, pending, watched and shown jobs, URLs with a window that waits, wake-up flags |
| `Capture` | `captureCoordinator.ts`, `captureSession.ts`, `nativeMessaging.ts` | `ext`: the session's phase in memory and in session storage, whether it is loaded, what waits for it; `items`: the browser's downloads |
| `Relay` | native host, `ipc/server.rs`, `ipc/handlers.rs`, `single_instance.rs`, and of the engine Add | `reqs`: one native message with its host process and its handler; `app`: whether it runs, its jobs, the queue of Adds, `state.json` |
| `CaptureHud` | `prompt_window/*`, `jobs_ui.rs`, `browser_capture.rs`, `tray_lifecycle.rs` | `ui`: the snapshots of the jobs, the windows, watched jobs, hidden, parked |
| `UpdateFlow` | `app/update_flow`, `updater/version.rs`, `github.rs`, `pending_whats_new.json`: functions of one record | `upd`: the channel, whether a check or a launch is under way, the offer, the checks on their way, the notes in the file and to be shown |
| `Updater` | `apps/updater/src/*`, `updater/launch.rs`, the silent installer, quitting through Drain | the rest of `upd`: the helper's program point, the version it installs, whether the process that runs launched it, the installed version |
| `Handoff` | – | their composition, and the properties |

One page's downloads are one capture family, followed from the request or
`downloads.onCreated` to the erase of the browser's download, the native message, its
answer, and a restore. JavaScript runs to completion, so a handler is one action up
to an await that lets something else in; the UI thread's tick is one action; a
handler of the server and the engine's Add are two each, before and after what they
wait for.

Left out: which URLs make a family, sizes, names and types (a choice among the
outcomes of `downloadCreatedAction`); cookies and headers; a restore that fails in
`browser.downloads.download`; an Add that fails; extension settings and the status
request; pausing a job; the security descriptor of the pipe; drawing; the helper's
progress window, an install that stops half-way, the channel in the saved settings.

### Run `handoff`

Fourteen scenarios (`MCHandoff`), about 340,000 states. Ten have two native messages, three jobs, two to four
downloads of the browser, and one fault: Chromium (only `onCreated`) and Firefox
(requests are held), straight to the queue or through a dialog, the application up,
down, dying, or slow to answer; a background script that is stopped; a window that
does not open; one or two links from the context menu with windows, hiding to the
tray and coming back; with and without a second free pipe instance
(`PIPE_MAX_INSTANCES`, four in the code on Windows; each dialog holds one for
minutes, although twenty prompts may wait, so a fifth handoff fails; modelled as one
or two). Four are updates, on Windows and on Linux: with a handoff in the middle of
one, and two of what the user may do about updates (check, change the channel, apply);
and without a handoff and five or four of them, which lets him change the channel
while the application drains and apply a second time.

`OneCapture` (one download, one dialog), `NotBoth` (never a job and a restored
download, unless the answer was lost), `OneJob` (one unfinished job per URL),
`PromptShown`, `HudOwned`, `WaitingHasWindow` (what the bridge reserves has a window,
and the other way round), `NoLostWake` (the parked shell loop is woken for work),
`OfferCurrent` (what is offered is of the channel the user is on and for the version
that runs, however checks and changes overtake each other); `NothingLost`,
`RequestsEnd`, `ProgressShown`, and `AppReturns` (after an update the application runs
again) under fairness.

*Why these bounds.* Two messages and two URLs or one are what a race between captures,
prompts or windows takes; a third download of a page is the one the extension starts
itself to restore. Limits of queues are two, so that they are reached.

*Fairness.* One weak fairness of all `Steps`: event loops, timers, processes. No
cycle of them is without effect, so none of them is put off for ever. The user
(accepting, closing, hiding, starting downloads, updating, closing the helper's
message), the end of jobs and faults have none. Downloads and messages are never used twice, so `[]<>` of a statement about
all of them speaks about each.

*Exceptions written into properties.* `NothingLost` leaves out a background script
that the browser stopped (`Killed`); `NotBoth` answers that nobody heard (`unheard`);
`WaitingHasWindow` and `ProgressShown` URLs whose window was closed by hiding the
main window before it was bound (`orphans`); `AppReturns` a helper that waits for the
user, a helper that ended without starting anything, and an application started while
an older one is about to quit (`overtaken`). Each is a defect or a limit below.

### What the model shows beside the run

* *Hide after Accept.* Hiding the main window closes the capture windows from the
  outside; `request_close_capture_windows` (`bridge.rs:464`) gives back prompts and
  owned jobs but not `progress_hud_waiting_urls`. A Confirm window that was accepted
  and not bound yet leaves its URL there for good: no progress window for that URL
  opens again and the shell loop never parks.
* *Accept after the time limit.* `resolve_accept` does not look whether the prompt was
  still there (`confirm.rs:173`): the browser was told "dismissed", and the window shows
  "Starting…" for a job that never comes.
* *A job that is over before its window binds it* is not found by
  `newest_active_job_for_url`; the window stays at "Starting…".
* *A watched job whose completion was shown by its progress window* stays in
  `browser_watch_complete_ids`: an application hidden in the tray ticks on.
* *A pending progress window of a job that was removed* is kept for ever.
* *Two Confirm windows of one URL* share its entry in `progress_hud_waiting_urls`; the
  first to bind clears it for both.
* *Lost answers.* When the engine answers after the handler's or the host's limit, or
  the application dies between the Add and its reply, the extension restores the
  download and the job runs as well.
* *A background script stopped in mid-handoff* loses a download that was erased, or
  leaves the session in handoff until it expires; until then later downloads of the
  family are erased as ghosts.
* *An application that dies while the host retries* is not started a second time; the
  start belongs to the first failure.
* *Stale snapshot.* `note_jobs_changed` returns a newer snapshot for direct use and
  leaves an older one in `pending_jobs`; the next tick applies it over the newer one
  (`jobs_ui.rs:222`), and the bridge's duplicates check sees it.
* *Two old and new processes.* A process that is started while an older one waits for
  Drain's answer finds it, asks it to show its window and exits; the older one then
  quits, and none runs. After a download that failed at once the helper does exactly
  that when the user closes its message; without `overtaken` in `AppReturns`, TLC
  shows it.
* *A failed update on Linux* leaves no application: `main.rs:60` starts the old version
  again only on Windows.
* *A second launch.* A change of the channel while the application drains clears
  `update_busy`. A launch that follows copies the helper over the one that runs
  (`launch.rs:37`), fails, and deletes the notes of the first, so the new version shows
  none.
* *The old version, started by the native host during an install*, deletes the notes as
  stale. On Windows it makes the installer fail or is killed by it, depending on when it
  starts. On Linux it survives, since only the process that launched the helper is
  waited for, and the new version's start shows the old one's window.

## 9. Proofs

`EngineProofs.tla`, for any `Jobs`, `Loaded`, `Events` and bounds that satisfy the
named assumptions of `Engine` (`EraAssumption`, `BoundAssumption`,
`EventAssumption`, `ConcAssumption`, `LoadedAssumption`; that `Jobs` be finite is
not used):

| theorem | property | inductive invariant |
|---|---|---|
| `TypeCorrect` | `TypeOK` of Engine | `Typed` = TypeOK and *RetryBudget*: a worker about to be retried has an attempt left, which the check in `run_attempts` made sure of one step earlier |
| `SlotsOwned` | `SlotOwned` | `Slots` = SlotOwned, *Deferred* (while a deferred tail lives its job has no worker, stays flagged, and there is one such tail), *Unblocks* (only deferred tails take flags back), *Untouched* (an id never added has left no trace), *Savers*. Without Deferred a tail could take the flag of a job whose worker is running |
| `RestartIsDeferred` | `RestartDefers` | the same |
| `WipedStaysWiped` | `NoResurrect` | `Identity` = NoResurrect, *CopyCurrent* (a worker's copy of an older era implies that the commit is blocked), *RestartTail* (the immediate delete of a Restart keeps its flag while no worker runs) |
| `CredentialsAreDropped` | `CredentialsDropped` | `Credentials` = CredentialsDropped and *BrokenLoaded*: a row with a broken map was loaded, so it never had credentials – the one way a row fails without a finalizer |
| `StartingStopsKept` | `StartingStopKept` | *KickedLater*: between the two accesses of the control the row is not Starting, unless it is being restarted |
| `WakeupsArrive` | `NoLostWakeup` | inductive with the types: whoever makes a job startable is a command, a finalizer or a tail that still owes a wake-up, or has stored the permit |
| `DrainsStartOnlyRestarts` | `OnlyRestartsStart` | *Draining* = *Requeueing* (a row in the list that is in `requeue_on_cancel` was wiped and has no map) and *DrainQueue* (what is queued under a drain is such a row). `Settled` says what each step of a worker, a tail or the scheduler must leave of them: a worker whose job is marked commits nothing, so the map stays wiped |

Each strengthening was first checked by TLC as an invariant. The step lemmas
have one step per action; `Spec => []Inv` follows by PTL.

`EngineFileProofs.tla`, on top of these. Both theorems assume `StoreFails = FALSE`: the
handlers and the worker go on after a persist that failed, and TLC refutes both
properties otherwise.

| theorem | property | inductive invariant |
|---|---|---|
| `DeletesArePersisted` | `PersistBeforeDelete` | `Written`: a handler (*CmdStored*) or finalizer (*TrailStored*) that is about to delete has the wiped row in `state.json`, or the row has a later era by now |
| `OutputsAreAccounted` | `OutputsAccounted` | `Accounts`, for each job: a file the worker says it produced is one its stage can have (*ProducedHeld*), a final file is accepted or in hand (*OutsKnown*, which is the first half of the property, *OutsHeld*), none is from the future (*EraOrder*), that a wipe is known to the worker or to a tail (*WipedSince*, *TrailOld*), and that a completed row, in memory (*CompletedKept*) and in `state.json` (*StoredKept*), has its file through a crash at any step |

`PersistProofs.tla`, from `QueueAssumption` and `StoreBounds`:

| theorem | property | argument |
|---|---|---|
| `TypesKept` | `TypeOK` of PersistActor | with *Landed* below: what is renamed over the file is a whole snapshot |
| `StoreImplemented` | `Implements` | `IInv`: *Queued*, *Served* and *Halted* (each request in the channel and at the actor has one client who waits, and nothing of a dead process goes on); *Aligned* (rows and generation have moved equally far since the snapshot, so an equal generation means equal rows); *Behind* (the file is no newer than memory or than a snapshot on its way, so a rename never goes back); *Allowed* (past the guard the file is loaded); *Landed*. `StepRefined` maps each action to a step of StateStore or to none: `Compare` with equal generations to `Save`, `Rename` to `Land`, `Reply` to `Confirm` or `Refuse`, `Crash` to `Die`, `Start` to `Load` |
| `ReadableStays` | `ReadableKept` | each action by itself |

`LimitsProofs.tla`, for any connections, hosts, limits, rates, quanta and number of readers,
from `SemsAssumption` (finitely many connections), `LimitsAssumption`, `RatesAssumption`,
`MaxLagAssumption` (the lag counts until any bucket is full) and `ScenariosAssumption`:

| theorem | property | argument |
|---|---|---|
| `BudgetTyped` | `TypeOK` of ConnectionBudget | inductive as it is |
| `PermitsConserved` | `Conserved` of the budget alone | with *DueInPhase* (outside its phases the update owes nothing) and *Untouched* (a host that is not in the map has no debt and no connection, so a new semaphore starts balanced); `HeldMore` and `HeldLess` count the holders |
| `CapHoldsOnceSettled` | – | follows from Conserved: with no update and no debt, no more connections than the limit |
| `BucketImplemented` | `LimiterImplements` | `LimiterTyped` (tokens within the capacity of the rate). `Level`, what the bucket would hold, changes by exactly what each action pays or what a tick brings; `set_limit` refills at the old rate, so it is a step of the bucket too |
| `SharedPermitsConserved` | `Conserved` | every step of the composition is a step of the budget or leaves it alone |

`HandoffProofs.tla` and `HudProofs.tla`, for any set of scenarios, numbers of messages,
jobs and items, caps and bounds, from `HandoffAssumption` (at
least one retry; scenarios are well formed), `CapsAssumption`,
`MaxJobsAssumption` and `PublishedAssumption`:

| theorem | property | inductive invariant |
|---|---|---|
| `OfferIsCurrent` | `OfferCurrent` | *Current*: an answer that is still fresh is of the channel the user is on |
| `JobsAreAlone` | `OneJob` | `AppInv`: no two unfinished rows of one URL, in memory and in `state.json`, which a crash brings back |
| `NeverBoth` | `NotBoth` | `OwedInv`: once the engine has heard of a request (*Known*: queued, being added, or a row's) its host will say so, has said so, or is not listening (*Due*); *Sound* is what requests look like at each point |
| `OneAtATime` | `OneCapture` | `Family`: for each phase of the session, what of its items may be on its way (erasing, waiting, out). A background script that is stopped loads the stored phase, so the phases have to agree as well |
| `PromptsAreShown` | `PromptShown` | *Asked*, in `HudInv`: every prompt in the queue has a handler that waits, every claimed one a window, and a Confirm window without one a handler that is done |
| `JobsAreOwned` | `HudOwned` | *Owns* and *Plain*: the windows and `owned_progress_jobs` agree, and a Confirm window has no job yet |
| `WaitersHaveWindows` | `WaitingHasWindow` | *Notes*: a URL that is noted has the window that noted it, or is one of the `orphans` of section 8 |
| `WorkWakes` | `NoLostWake` | *Awake*, with *Watched*: a pending job that is owned already is no work to be woken for, since somebody watches it |

Both UI handlers with loops (a tick opens windows for all prompts and jobs) are folds over
sequences; the theorems about them go by the least place at which something would be
wrong. For this `Dropping` of `IpcBridge` is written with places instead of `SelectSeq`,
whose recursive definition the provers cannot unfold, and a tick yields the set with its
one result.

`TransferProofs.tla`, for any versions and sizes of the file, servers, limits, kinds of
fault and bounds, from the assumptions of `TransferBase`: `ScenariosAssumption`;
`LengthsAssumption` (there is a longest version); `CountersAssumption` (`RECONNECT_MAX` and
"Max segments" are at least one, the other limits numbers); `ValuesAssumption` (the model
values are different from what they stand beside).

| theorem | property | inductive invariant |
|---|---|---|
| `TransferTyped` | `TypeOK` of Transfer | *Typed* with sets of maps whose counts fit their segments; *Answered* (an answer in hand is of some version), *Sleeping* (a back-off is one that the limit allows, so that `Wake` may count it) |
| `MapsAreSynced` | `MapSynced` | `IInv`: *Mapless* (a single stream works on a row without a map, in memory and in `state.json`); *Safe* (what either row confirms is in the `.part` and on stable storage; a rejected row has no map); *Starting* (the row is saved before the file is made long); *Working*, for all workers at once: the live counts are the row's or more and their bytes are in the file; the floor is the row's or more and its bytes are on stable storage; a worker's sink follows bytes that are in the file; the counts a pausing worker read before its sync are of bytes that were there, so when its sync ends they may become the floor, whatever other workers and failed syncs did in between; *Joined* (after the last sync the live counts are on stable storage, or clamped to the floor) |
| `ConfirmedStays` | `ConfirmedKept` | the same: counts only grow over the row's, and the clamp stops at the floor |

| `OneVersionWhole` | `WholeEntity` | `WInv`, under `Steady` and `Telling` (below) |
| `OldFileStays` | `OldKept` | the same: a file is moved aside only in *Finishing*, where the `.part` is whole |
| `PartialsMatch` | `PartialMatches` | the same: from *Matching*, and with a map from `IInv` too (what is confirmed is there) |

That bytes of two versions never meet is not true for all constants, for the reasons of
section 6. The last three theorems have these hypotheses, each of which shuts out one of
them; none speaks of a state.

| hypothesis | what it shuts out |
|---|---|
| `Steady`: no `"discard"`, `"replace"`, `"restart"` among the `Faults` | a `.part` that should go and stays, and a death between the two steps of Restart, which counts as that (*Restart can splice*, *A replacement that fails twice*, *A discard that fails twice*). Crashes, losses of power, failing syncs, commits, renames and full disks stay |
| `Telling`: no body ends by closing the connection | the body that is cut twice at the same place |
| `Telling`, for several connections: answers have lengths, and no two versions have the same one | *Segments trust If-Range*: the first segment's request has no If-Range (`fetch.rs:415`), so only Content-Range tells |
| `Telling`, for several connections: `MaxChanges` at most one | *There and back*: the size of one version beside the validator of another |

With one connection the number of replacements is not limited, versions may have one size,
and a server may ignore ranges or If-Range. `WInv` adds to `IInv`:

| part | what it says, and why it is needed |
|---|---|
| *Matching* | the `.part` and what of it is on stable storage, for the row in memory and the one in `state.json`, because a crash may pair each with each: without a map a prefix of the row's version (*Solid*), with a map its bytes and holes within the length (*Inside*). The two rows agree on having a map, its length and its version |
| *Knowing* | with several connections: the sizes in a row are those of its version, or the version is gone, and while they are not, a map of that length has no bytes under it. The answers to segments then give a replacement away |
| *Named* | both rows name one version once the preflight is over, so a crash in the transfer brings back no older validator |
| *AtEnd*, *Reply* | one stream: the `.part` ends where the sink is; an answer that is written is of the row's version, goes no further than its size, and starts where the file ends |
| *Segmented* | workers: a body in hand is of the row's version, whose size is the map's; the fresh map's file is empty; after the join all segments are written |
| *Finishing* | when the file is to get its name it is the version of the row, whole, and the old file is moved aside for Overwrite only |

*Settles* and *Flows* are the two lemmas that most steps go through: what a step must leave of
the rows, the files and the stage for `WInv` to hold after it. Before the proof TLC checked
`WInv` on a wider instance than that of `transfer`: eight servers, five with one connection
and three with two, three attempts, two faults of the kinds `Steady` allows, 3,650,000 states.

That the segments of `partition` lie in the file, one after the other, is the lemma
*Geometry*; that a file that loses what was not synced keeps what was is *LostKeeps*.

`NamesProofs.tla`, for any jobs, names, files of the user's, headers and bounds, from
`NamesAssumption` (jobs are numbers above 0, which stands for the user; what is asked for
or sent has a name). With `NamesInvHolds`, `NamesInv` is:

| part | what it says, and why it is needed |
|---|---|
| *Typed*, *JobsOk* | rows and workers go together: a completed row has no worker, a `.part` is a `.part`, a pending delete is that of the row's path, a job that replaces a file stays at that path |
| *Apart* | where a job that is not `crossed` writes, and where its file is to be or is, no other job is, by its row, its worker or a pending delete; only a file that is replaced has two rows. Nothing that is done at one job's paths then changes another's |
| *Owned* | what lies where such a job writes holds its bytes at most, and its own if it has the file open. PartOwned is true of a job that starts only if it was true of its `.part` while nobody had it open |
| *Clean* | no bytes of the user's lie where anybody writes or will delete without another look, crossed or not |
| *Dues* | nobody who has left the lock has to delete the `.part` or the file of a job that runs or is done, but a file that one of the two replaced |

| theorem | property | argument |
|---|---|---|
| `PartsAreOwned` | `PartOwned` | from Owned |
| `FilesStay` | `FilesKept` | each action, with Apart and Dues for completed downloads, Clean for the user's files |

A step of a job is first described by what it does to its paths (*Added*, *Adopts*,
*Renames*, *Opens*, …, `NextKinds`); each part of the invariant is then shown for
these few kinds of steps. TLC had refuted earlier forms of Apart and Dues: what a completed
row hides from Add (section 7), and with it two of the marks of `crossed`, came to light there.

Only model-checked:

* `WholeEntity`, `PartialMatches` and `OldKept` outside `Steady` and `Telling`: the run
  `transfer` has discards and replacements that fail (one of them), and bodies that end by
  closing (one early end), and they hold there.
* `StopTakesEffect`, `QueuedServed`, `Answered`, `Settles`, `Served`, `StopEndsEveryWait`,
  `AttemptEnds`, `NothingLost`, `RequestsEnd`, `ProgressShown` and `AppReturns`, because
  liveness under fairness and ENABLED are out of the prover's reach.

## 10. Not modelled

* **Paths as text** (`filesystem.rs`): sanitizing, case folding, extended Windows paths,
  the collision that dialogs show. What names do once they are chosen is in Names.
* **Preflight headers, duplicates of names, verification, file types, handoff headers,
  ETA, URLs**: pure conversions with unit tests. The two searches for a duplicate job
  are in Relay.
* **Settings, notifications, startup, views, platform glue** (`tray.rs`, `hyprland.rs`,
  `window_placement.rs`): no state of their own beyond what the models have, or calls
  of the platform.
* **Extension popup, options and badges; framing of native messages**: input and output.

`PROJECT.json` has the reason for every component that is left out or partly modelled.
