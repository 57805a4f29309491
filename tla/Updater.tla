------------------------------ MODULE Updater ------------------------------
(***************************************************************************)
(* An update of the application under way: what the user asks for, the     *)
(* quit through Drain, and the helper program that downloads the setup,    *)
(* closes the application, installs, and starts it again.  Meanwhile the   *)
(* native host may start the application at any time (Relay).              *)
(*                                                                         *)
(* The fields of upd: helper is the point of the helper program, to the    *)
(* version it installs, mine that the process that runs is the one that    *)
(* launched it, disk the version installed.                                *)
(***************************************************************************)
EXTENDS Relay

elsewhere == <<sc, ext, items, reqs, br, ui, orphans, nhide, npopup>>

Asks == "update" \in sc.may /\ app.up /\ upd.asked < sc.asks
Counted(u) == [u EXCEPT !.asked = @ + 1]

-----------------------------------------------------------------------------
\* The application

\* begin_update_action without an offer.
CheckAgain ==
  /\ Asks /\ ~upd.busy /\ upd.offer = NoVersion
  /\ upd' = Counted(BeginCheck(upd))
  /\ UNCHANGED <<app, nfault, elsewhere>>

CheckEnds == \E c \in upd.checks, ok \in BOOLEAN :
  /\ upd' = CheckFinished(upd, c, ok)
  /\ UNCHANGED <<app, nfault, elsewhere>>

SwitchChannel == \E channel \in Channels \ {upd.channel} :
  /\ Asks
  /\ upd' = Counted(Switched(upd, channel))
  /\ UNCHANGED <<app, nfault, elsewhere>>

\* apply_pending_whats_new.
ShowNotes ==
  /\ app.up /\ upd.unread # NoVersion
  /\ upd' = Acknowledged(upd)
  /\ UNCHANGED <<app, nfault, elsewhere>>

\* launch_updater copies the helper over the one that may be running, which fails; the helper
\* itself would exit beside another one (try_acquire_single_instance).
CanLaunch == upd.helper \in {"none", "failed"}
Launched(u) == [u EXCEPT !.helper = "download", !.to = u.offer, !.mine = TRUE]

\* begin_apply_update_inner, with launch_updater and force_quit_app.  The Drain waits in the
\* engine's queue as a 0.  The first one's answer ends the process.
ApplyUpdate ==
  /\ Asks /\ ~upd.busy /\ upd.offer # NoVersion
  /\ \/ /\ IF CanLaunch THEN Fault("launch") ELSE NoFault
        /\ upd' = Counted(NotLaunched(upd))
        /\ UNCHANGED app
     \/ /\ CanLaunch /\ NoFault
        /\ upd' = Counted([Launched(Applying(upd)) EXCEPT !.quit = IF @ = "no" THEN "asked" ELSE @])
        /\ app' = IF upd.quit = "no" THEN [app EXCEPT !.adds = Append(@, 0)] ELSE app
  /\ UNCHANGED elsewhere

\* The engine acknowledges; the commands behind it go on until the process has ended.
Drained ==
  /\ app.adding = 0 /\ app.adds # <<>> /\ Head(app.adds) = 0
  /\ app' = [app EXCEPT !.adds = Tail(@)]
  /\ upd' = [upd EXCEPT !.quit = "acked"]
  /\ UNCHANGED <<nfault, elsewhere>>

Quits ==
  /\ app.up /\ upd.quit = "acked"
  /\ ProcessEnds /\ upd' = Ended(upd)
  /\ UNCHANGED nfault

-----------------------------------------------------------------------------
\* The helper program

At(point) == upd.helper = point
Goes(u, point) == [u EXCEPT !.helper = point]

\* main: on Windows a message, and the application again when it is closed; on Linux nothing.
Failing == IF sc.linux THEN "failed" ELSE "message"

\* download_installer, with verify_sha256.
DownloadSetup ==
  /\ At("download")
  /\ \/ Fault("download") /\ upd' = Goes(upd, Failing)
     \/ NoFault /\ upd' = Goes(upd, "close")
  /\ UNCHANGED <<app, elsewhere>>

\* Who has to be gone before files are replaced: on Windows every process of the application,
\* on Linux the one that launched the helper.
InTheWay == app.up /\ (sc.linux => upd.mine)

\* Mutation: the helper does not wait.
CloseAtOnce ==
  /\ At("close")
  /\ upd' = Goes(upd, "install")
  /\ UNCHANGED <<app, nfault, elsewhere>>

\* close_app_for_replace.
AppGone ==
  /\ At("close") /\ ~InTheWay
  /\ upd' = Goes(upd, "install")
  /\ UNCHANGED <<app, nfault, elsewhere>>

\* The request to close, the time limit, and the kill.
Kills ==
  /\ At("close") /\ InTheWay
  /\ ProcessEnds /\ upd' = Ended(upd)
  /\ UNCHANGED nfault

\* WaitTimeout: the user is told, nothing is started.
CannotKill ==
  /\ At("close") /\ InTheWay /\ Fault("stuck")
  /\ upd' = Goes(upd, IF sc.linux THEN "failed" ELSE "told")
  /\ UNCHANGED <<app, elsewhere>>

\* NSIS, in silent mode, first kills an application that runs again; tar does not look.
InstallBegins ==
  /\ At("install")
  /\ IF app.up /\ ~sc.linux
     THEN ProcessEnds /\ upd' = Goes(Ended(upd), "writing")
     ELSE upd' = Goes(upd, "writing") /\ UNCHANGED <<app, elsewhere>>
  /\ UNCHANGED nfault

\* Windows does not replace the files of a process that was started meanwhile.
InstallEnds ==
  /\ At("writing")
  /\ IF app.up /\ ~sc.linux
     THEN NoFault /\ upd' = Goes(upd, Failing)
     ELSE \/ Fault("install") /\ upd' = Goes(upd, Failing)
          \/ NoFault /\ upd' = [Goes(upd, "relaunch") EXCEPT !.disk = upd.to]
  /\ UNCHANGED <<app, elsewhere>>

\* The new process will find one that is about to quit, and exit for it.
Overtaken(u) == [u EXCEPT !.overtaken = @ \/ (app.up /\ u.quit # "no")]
StartsAgain == app' = [app EXCEPT !.starting = @ + 1]

Relaunch ==
  /\ At("relaunch")
  /\ \/ Fault("spawn") /\ upd' = Goes(upd, Failing) /\ UNCHANGED app
     \/ NoFault /\ StartsAgain /\ upd' = Goes(IF upd.mine THEN upd ELSE Overtaken(upd), "none")
  /\ UNCHANGED elsewhere

\* The user closes the message.
Dismiss ==
  /\ \/ At("message") /\ StartsAgain /\ upd' = Goes(Overtaken(upd), "none")
     \/ At("told") /\ upd' = Goes(upd, "failed") /\ UNCHANGED app
  /\ UNCHANGED <<nfault, elsewhere>>

UpdaterSteps ==
  \/ CheckEnds \/ Drained \/ Quits \/ DownloadSetup \/ AppGone \/ Kills \/ InstallBegins
  \/ InstallEnds \/ Relaunch
UpdaterOthers == CheckAgain \/ SwitchChannel \/ ShowNotes \/ ApplyUpdate \/ CannotKill \/ Dismiss
=============================================================================
