----------------------------- MODULE CaptureHud -----------------------------
(***************************************************************************)
(* The UI thread: the jobs as the UI and the bridge show them, the shell   *)
(* loop with the windows it opens (Confirm, Progress, Complete), what the  *)
(* user does with them, and the tray.                                      *)
(*                                                                         *)
(* A window is a record: the prompt it was opened for (0 for a job's), the *)
(* job it is bound to (0 while it waits for one), and whether it noted its *)
(* URL as waiting.  The conflict page of the Confirm window is part of     *)
(* Confirm.                                                                *)
(***************************************************************************)
EXTENDS Relay

outside == <<sc, ext, items, reqs, app, upd>>

Confirm(r)      == [phase |-> "confirm", prompt |-> r, job |-> 0, url |-> sc.url[r], noted |-> FALSE]
JobWindow(p, j) == [phase |-> p, prompt |-> 0, job |-> j, url |-> ui.jobs[j].url, noted |-> FALSE]

Opened(u, w) == [u EXCEPT !.windows = @ \cup {w}]
Replaced(u, w, v) == [u EXCEPT !.windows = (@ \ {w}) \cup {v}]
Closed(u, w) == [u EXCEPT !.windows = @ \ {w}]

-----------------------------------------------------------------------------
\* Jobs

Idle(u) == u.hidden /\ ~u.held /\ ActiveJobs(u.jobs) = {} /\ ActiveJobs(u.latest) = {}

\* on_jobs_changed: applied at once, or held for the next tick when the last one is recent.  A
\* snapshot that is held stays held when a later one is applied.
JobsEvent ==
  /\ app.up /\ ui.latest # app.jobs
  /\ \/ ui' = [ui EXCEPT !.latest = app.jobs, !.jobs = app.jobs]
     \/ /\ "burst" \in sc.may
        /\ ui' = [ui EXCEPT !.latest = app.jobs, !.held = TRUE, !.later = app.jobs]
  /\ br' = WakeUi(br)
  /\ UNCHANGED <<outside, orphans, nfault, nhide, npopup>>

ApplyHeld(u) == IF u.held /\ ~Idle(u) THEN [u EXCEPT !.jobs = u.later, !.held = FALSE] ELSE u

-----------------------------------------------------------------------------
\* The shell loop.  Every step of a tick maps a bridge and a UI to the next; ok says whether
\* the system opens the windows that are asked for.

\* Mutation: the prompt of a window that failed to open is left to its time limit.
PollPromptForgets(s, ok) ==
  IF Unclaimed(s.b) = <<>> THEN s
  ELSE LET r == Head(Unclaimed(s.b))
           b == Claim(s.b)
       IN IF ok THEN [s EXCEPT !.b = b, !.u = Opened(@, Confirm(r)), !.opened = TRUE]
          ELSE [s EXCEPT !.b = b]

\* open_next_browser_prompt; open_capture_window dismisses the prompt of a window that failed.
PollPrompt(s, ok) ==
  IF Unclaimed(s.b) = <<>> THEN s
  ELSE LET r == Head(Unclaimed(s.b))
           b == Claim(s.b)
       IN IF ok THEN [s EXCEPT !.b = b, !.u = Opened(@, Confirm(r)), !.opened = TRUE]
          ELSE [s EXCEPT !.b = Resolve(b, r, "dismiss")]

\* open_next_browser_progress with new_progress, which is a Complete window when the job is over.
PollProgress(s, ok) ==
  IF s.opened THEN s
  ELSE LET u == [s.u EXCEPT !.watching = @ \cup ToSet(s.b.watch)]
           b == [s.b EXCEPT !.watch = <<>>]
           ready == Openable(b, KnownJobs(u.jobs), JobUrls(u.jobs))
           b1 == TakePending(b, KnownJobs(u.jobs), JobUrls(u.jobs))
       IN IF ready = <<>> \/ ~ok THEN [s EXCEPT !.b = b1, !.u = u]
          ELSE LET j == Head(ready)
                   over == u.jobs[j].st = "done"
               IN [s EXCEPT !.b = IF over THEN ClaimComplete(Own(b1, j), j) ELSE Own(b1, j),
                            !.u = Opened(u, [JobWindow(IF over THEN "complete" ELSE "progress", j)
                                             EXCEPT !.url = u.jobs[j].url]),
                            !.opened = TRUE]

\* open_next_browser_complete: at most one window; watched jobs that failed or are gone are forgotten.
PollComplete(s, ok) ==
  IF s.opened \/ ~sc.progress THEN s
  ELSE LET watched == {j \in s.u.watching : s.u.jobs[j].st \in {"active", "done"}}
           can == {j \in watched : s.u.jobs[j].st = "done" /\ j \notin s.b.owned /\ j \notin s.b.shown}
       IN IF can = {} \/ ~ok THEN [s EXCEPT !.u.watching = watched]
          ELSE LET j == CHOOSE n \in can : \A m \in can : n <= m
               IN [s EXCEPT !.b = Own(ClaimComplete(@, j), j),
                            !.u = Opened([@ EXCEPT !.watching = watched \ {j}],
                                         [JobWindow("complete", j) EXCEPT !.url = s.u.jobs[j].url])]

\* poll_hidden_window_actions.  Where the window can be shown from here it is (Windows, Hyprland).
PollShow(s) == IF s.b.show THEN [s EXCEPT !.b = TakeShow(@), !.u.hidden = FALSE] ELSE s

ShouldPark(s) == Idle(s.u) /\ s.u.watching = {} /\ ~HasPendingWork(s.b)

\* A set of one, which TLC evaluates once.
TickResult(ok) ==
  LET start == [b |-> br, u |-> ApplyHeld(ui), opened |-> FALSE]
  IN {PollShow(s) : s \in {PollComplete(s, ok) : s \in {PollProgress(s, ok) : s \in {PollPrompt(start, ok)}}}}

\* run_shell_tick, and whether the loop then parks.
Tick ==
  /\ app.up /\ ~ui.parked
  /\ \E ok \in BOOLEAN : \E s \in TickResult(ok) :
       /\ IF ok THEN NoFault ELSE Fault("open") /\ s \notin TickResult(TRUE)
       /\ br' = s.b /\ ui' = [s.u EXCEPT !.parked = ShouldPark(s)]
  /\ UNCHANGED <<outside, orphans, nhide, npopup>>

Wake ==
  /\ ui.parked /\ br.wake
  /\ ui' = [ui EXCEPT !.parked = FALSE] /\ br' = [br EXCEPT !.wake = FALSE]
  /\ UNCHANGED <<outside, orphans, nfault, nhide, npopup>>

-----------------------------------------------------------------------------
\* Windows

\* newest_active_job_for_url, unless another window has it.
Bindable(w) ==
  LET active == Duplicates(ui.jobs, w.url)
      newest == CHOOSE n \in active : \A m \in active : m <= n
  IN IF w.job # 0 \/ active = {} \/ newest \in br.owned THEN w.job ELSE newest

\* sync_from_bridge, every 100 ms: bind the job of the accepted prompt, or see it complete.
Sync(w) ==
  /\ w \in ui.windows /\ w.phase = "progress"
  /\ LET j == Bindable(w)
         bound == IF j # w.job THEN Own(br, j) ELSE br
         cleared == IF j # w.job /\ w.noted THEN ClearWaiting(bound, w.url) ELSE bound
         over == j # 0 /\ ui.jobs[j].st = "done"
     IN /\ br' = IF over THEN ClaimComplete(cleared, j) ELSE cleared
        /\ ui' = Replaced(ui, w, [w EXCEPT !.job = j, !.noted = w.noted /\ j = w.job,
                                           !.phase = IF over THEN "complete" ELSE @])
  /\ UNCHANGED <<outside, orphans, nfault, nhide, npopup>>

\* resolve_accept.  Whether the prompt was still there is not looked at.
AcceptPrompt(w) ==
  /\ w \in ui.windows /\ w.phase = "confirm"
  /\ LET b == Resolve(br, w.prompt, "accept")
     IN IF sc.progress
        THEN /\ br' = NoteWaiting(b, w.url)
             /\ ui' = Replaced(ui, w, [w EXCEPT !.phase = "progress", !.noted = TRUE])
        ELSE br' = b /\ ui' = Closed(ui, w)
  /\ UNCHANGED <<outside, orphans, nfault, nhide, npopup>>

\* Mutation: a window that is closed before it is bound leaves its URL waiting.
ReleasedJobOnly(b, w) == IF w.job # 0 THEN Release(b, w.job) ELSE b

\* release_ownership.
ReleasedBy(b, w) ==
  LET c == IF w.job # 0 THEN Release(b, w.job) ELSE b
  IN IF w.noted THEN ClearWaiting(c, w.url) ELSE c

\* close_hud and close_hud_on_native_close.
CloseHud(w) ==
  /\ w \in ui.windows
  /\ br' = IF w.phase = "confirm" THEN Resolve(br, w.prompt, "dismiss") ELSE ReleasedBy(br, w)
  /\ ui' = Closed(ui, w)
  /\ UNCHANGED <<outside, orphans, nfault, nhide, npopup>>

\* open_job_progress_popup.
OpenPopup == \E j \in ActiveJobs(ui.jobs) :
  /\ app.up /\ "popup" \in sc.may /\ npopup < MaxPopups /\ npopup' = npopup + 1
  /\ j \notin br.owned
  /\ br' = Own(br, j) /\ ui' = Opened(ui, JobWindow("progress", j))
  /\ UNCHANGED <<outside, orphans, nfault, nhide>>

-----------------------------------------------------------------------------
\* The main window

\* handle_window_should_close with a tray, and close_capture_huds.
Hide ==
  /\ app.up /\ "hide" \in sc.may /\ ~ui.hidden /\ nhide < MaxHides /\ nhide' = nhide + 1
  /\ br' = RequestCloseWindows(br)
  /\ ui' = [ui EXCEPT !.hidden = TRUE, !.watching = {}, !.windows = {}]
  /\ orphans' = orphans \cup {w.url : w \in {v \in ui.windows : v.noted}}
  /\ UNCHANGED <<outside, nfault, npopup>>

\* The tray icon.
ShowFromTray ==
  /\ app.up /\ ui.hidden
  /\ ui' = [ui EXCEPT !.hidden = FALSE] /\ br' = WakeUi(br)
  /\ UNCHANGED <<outside, orphans, nfault, nhide, npopup>>

HudSteps == JobsEvent \/ Tick \/ Wake \/ \E w \in ui.windows : Sync(w)
HudOthers == OpenPopup \/ Hide \/ ShowFromTray \/ \E w \in ui.windows : AcceptPrompt(w) \/ CloseHud(w)
=============================================================================
