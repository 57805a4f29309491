------------------------------ MODULE Handoff ------------------------------
(***************************************************************************)
(* A browser's download on its way to a window and a job, and back when    *)
(* that fails, also in the middle of an update: Capture, Relay, CaptureHud *)
(* and Updater composed.                                                   *)
(***************************************************************************)
EXTENDS CaptureHud, Updater

Init ==
  /\ sc \in Scenarios
  /\ ext = NewExt
  /\ items = [k \in Items |-> NoItem]
  /\ reqs = [r \in Reqs |-> NewReq]
  /\ app = [up |-> sc.up, starting |-> 0, jobs |-> [j \in Jobs |-> NoJob],
            disk |-> [j \in Jobs |-> NoJob], adds |-> <<>>, adding |-> 0, job |-> 0]
  /\ br = NewBridge(Reqs)
  /\ ui = NewUi([j \in Jobs |-> NoJob])
  /\ upd = IF sc.up THEN Updating(NewUpdate(sc.version)) ELSE NewUpdate(sc.version)
  /\ orphans = {}
  /\ nfault = 0 /\ nhide = 0 /\ npopup = 0

Steps == CaptureSteps \/ RelaySteps \/ HudSteps \/ UpdaterSteps
Next  == Steps \/ CaptureOthers \/ RelayOthers \/ HudOthers \/ UpdaterOthers
Spec  == Init /\ [][Next]_vars

\* Event loops, timers and processes go on; the user, the network and faults may not.  No cycle
\* of Steps changes anything, so fairness to all of them together is fairness to each.
FairSpec == Spec /\ WF_vars(Steps)

-----------------------------------------------------------------------------
\* While the native message for one download of a family has no answer, no other download of
\* that family is handed off, whatever the page retries and however often the background
\* script is stopped (captureSession.ts, claimOrCreate), and a request that was cancelled to be
\* replayed is not deferred as a download too: one download, one dialog.
OneCapture ==
  /\ Cardinality({r \in Reqs : reqs[r].from = "capture" /\ reqs[r].host # "done"}) <= 1
  /\ ToSet(ext.queue) \cap ext.deferred = {}

\* A download goes back to the browser only when the application has no job from it, unless
\* the application's answer was lost: its engine was slower than the handler's or the host's
\* time limit, or it died between the Add and the reply (classifyHandoffResponse).
NotBoth ==
  \A j \in Jobs : app.jobs[j].by # 0 /\ reqs[app.jobs[j].by].restored => reqs[app.jobs[j].by].unheard

\* Two unfinished jobs never have one URL, although the handlers check an older snapshot and
\* the native host sends a request again after the application died with it.
OneJob == \A u \in Urls : Cardinality(Duplicates(app.jobs, u)) <= 1

\* A prompt is claimed exactly while a Confirm window shows it: none waits for a window that
\* failed to open, or was closed with the main window.  A window outlives its prompt only when
\* the handler stopped waiting.
PromptShown ==
  /\ br.active \subseteq ToSet(br.prompts)
  /\ \A r \in br.active : Confirm(r) \in ui.windows
  /\ \A w \in ui.windows : w.phase = "confirm" =>
       w.prompt \in br.active \/ reqs[w.prompt].handler = "none"

\* A job is owned exactly while one window is bound to it (try_own_progress_job,
\* release_progress_job), so it never has two and is never without one for good.
HudOwned ==
  \A j \in Jobs : Cardinality({w \in ui.windows : w.job = j}) = IF j \in br.owned THEN 1 ELSE 0

\* A URL keeps the progress windows of its jobs from opening only for a window that still waits
\* to bind one, unless hiding the main window closed it before it did.
WaitingHasWindow ==
  \A u \in br.waiting : u \in orphans \/ \E w \in ui.windows : w.noted /\ w.url = u

\* The shell loop does not sleep over work: when it is parked and there is a prompt, a job or a
\* request to show the main window, a wake permit is stored.
NoLostWake == ui.parked /\ HasPendingWork(br) => br.wake

Killed == nfault > 0 /\ "kill" \in sc.faults

\* A download that was taken from the browser becomes a job, is dismissed in the dialog, or goes
\* back to the browser, as long as the browser does not stop the background script.  Items and
\* requests are never used twice, so this is said of all of them at once.
NothingLost ==
  []<>(Killed \/ /\ \A k \in Items : items[k].st # "erasing"
                 /\ \A r \in Reqs : reqs[r].from = "capture" =>
                      /\ reqs[r].host = "done"
                      /\ reqs[r].answer \in {"queued", "duplicate", "dismissed"} \/ reqs[r].restored)

\* Every native message gets an answer: connecting, the dialog and the engine have time limits.
RequestsEnd == []<>(\A r \in Reqs : reqs[r].host \in {"none", "done"})

\* The update that the user is offered is the one of the channel he is on, for the version that
\* runs, however he changes the channel while checks are on their way (update_check_gen).
OfferCurrent == upd.offer # NoVersion => upd.offer = Offered(upd.channel, upd.ver)

\* Once an update is over, the application runs again: the helper starts it after the last of
\* the old processes has gone (run_update), whoever else started one in between, and after a
\* failure too (main), unless it waits for the user to read what went wrong, or has ended
\* without a message to close.  On Linux a failure starts nothing; and a process that finds
\* another one about to quit exits.
AppReturns ==
  []<>("update" \in sc.may =>
         \/ upd.helper = "none" /\ app.up
         \/ upd.helper \in {"message", "told", "failed"}
         \/ upd.overtaken)

\* A job that waits for its progress window gets it, or a Confirm window is about to bind it,
\* also while the main window is hidden and the shell loop parks.
ProgressShown ==
  []<>(\A j \in Jobs :
         Contains(br.pending, j) /\ j \in KnownJobs(ui.jobs) => ui.jobs[j].url \in br.waiting)
=============================================================================
