------------------------------ MODULE Capture ------------------------------
(***************************************************************************)
(* The background script of the extension: what it does with a download    *)
(* of the browser, with the answer to the native message it sent for it,   *)
(* and with its own death.  JavaScript runs to completion, so a handler is *)
(* one action up to its first await that lets something else in.           *)
(*                                                                         *)
(* Only one family of sessions is followed.  Which URLs belong to one      *)
(* family, what a file is called and how large it is decide a captured     *)
(* download's fate as a choice among the outcomes of downloadCreatedAction.*)
(***************************************************************************)
EXTENDS HandoffBase

NewExt == [phase |-> "none", stored |-> "none", ready |-> FALSE, queue |-> <<>>, deferred |-> {}]
NoItem == [st |-> "none", by |-> "user", wait |-> FALSE]
NewReq == [host |-> "none", from |-> "none", item |-> 0, tries |-> 0, handler |-> "none",
           out |-> 0, answer |-> "none", restored |-> FALSE, unheard |-> FALSE]

others == <<sc, app, br, ui, upd, orphans, nhide, npopup>>

\* Sessions and settings are loaded, and what came before has been replayed.
Settled == ext.ready /\ ext.queue = <<>> /\ ext.deferred = {}

\* A new download: Firefox asks the extension before it fetches anything.
Started(its, k, by) ==
  [its EXCEPT ![k] = [NoItem EXCEPT !.st = IF sc.firefox THEN "request" ELSE "fetched", !.by = by]]
\* restoreBrowserDownload: the session is restoring before the download exists.
Restored(its) == IF FreeItem(its) = {} THEN its
                 ELSE Started(its, CHOOSE k \in FreeItem(its) : TRUE, "ext")

UserStarts == \E k \in FreeItem(items) :
  /\ Cardinality({l \in Items : items[l].st # "none" /\ items[l].by = "user"}) < sc.items
  /\ items' = Started(items, k, "user")
  /\ UNCHANGED <<ext, reqs, nfault, others>>

-----------------------------------------------------------------------------
\* A worker that was woken: events come before its sessions are there.

Hydrate ==
  /\ ~ext.ready
  /\ ext' = [ext EXCEPT !.ready = TRUE, !.phase = ext.stored]
  /\ UNCHANGED <<items, reqs, nfault, others>>

\* A request that looks like a download is cancelled at once and replayed later.
EarlyRequest(k) ==
  /\ ~ext.ready /\ items[k].st = "request"
  /\ \/ /\ items' = [items EXCEPT ![k].st = "gone"]
        /\ ext' = [ext EXCEPT !.queue = Append(@, k)]
     \/ /\ items' = [items EXCEPT ![k].st = "fetched"]
        /\ UNCHANGED ext
  /\ UNCHANGED <<reqs, nfault, others>>

EarlyCreated(k) ==
  /\ ~ext.ready /\ items[k].st = "fetched"
  /\ \E st \in {"paused", "running"} :
       /\ items[k].by = "ext" => st = "running"
       /\ items' = [items EXCEPT ![k].st = st]
  /\ ext' = [ext EXCEPT !.deferred = @ \cup {k}]
  /\ UNCHANGED <<reqs, nfault, others>>

\* firefoxQueuedReplayAction.  The settings may no longer want the download.
ReplayActions(phase) ==
  CASE phase \in {"none", "pending"} -> {"handoff", "restore"}
    [] phase = "restoring" -> {"restore"}
    [] OTHER -> {"ignore"}

\* replayQueuedFirefoxHandoff.
Replay ==
  /\ ext.ready /\ ext.queue # <<>>
  /\ \E action \in ReplayActions(ext.phase) :
       LET k == Head(ext.queue)
           phase == CASE action = "handoff" -> "handoff"
                      [] action = "restore" -> "restoring"
                      [] OTHER -> ext.phase
       IN /\ ext' = [ext EXCEPT !.queue = Tail(@), !.phase = phase]
          /\ items' = CASE action = "handoff" -> [items EXCEPT ![k].st = "erasing"]
                        [] action = "restore" -> Restored(items)
                        [] OTHER -> items
  /\ UNCHANGED <<reqs, nfault, others>>

-----------------------------------------------------------------------------
\* Downloads

\* decideFirefoxRequest.  A request that is no candidate is let through.
FirefoxActions(phase) ==
  CASE phase = "none" -> {"allow", "handoff"}
    [] phase = "restoring" -> {"allow"}
    [] OTHER -> {"allow", "cancel-ghost"}

\* applyFirefoxAction: a cancelled request never reaches the server.
FirefoxRequest(k) ==
  /\ Settled /\ items[k].st = "request"
  /\ \E action \in FirefoxActions(ext.phase) :
       /\ ext' = IF action = "handoff" THEN [ext EXCEPT !.phase = "handoff"] ELSE ext
       /\ items' = [items EXCEPT ![k].st = CASE action = "handoff" -> "erasing"
                                            [] action = "cancel-ghost" -> "gone"
                                            [] OTHER -> "fetched"]
  /\ UNCHANGED <<reqs, nfault, others>>

\* Mutation: a family that is being handed off does not stop a second download of it.
CreatedActionsAnyway(phase, by) ==
  CASE by = "ext" \/ phase = "restoring" -> {"skip-restore"}
    [] phase \in {"none", "handoff"} -> {"ignore", "wait", "handoff"}
    [] OTHER -> {"erase-ghost"}

\* peekCreatedAction and decideCreatedAction.
CreatedActions(phase, by) ==
  CASE by = "ext" \/ phase = "restoring" -> {"skip-restore"}
    [] phase = "none" -> {"ignore", "wait", "handoff"}
    [] OTHER -> {"erase-ghost"}

\* onDownloadCreated, with pauseIfLikelyCapture before it.
Created(k) ==
  /\ ext.ready /\ ext.queue = <<>>
  /\ k \in ext.deferred \/ (items[k].st = "fetched" /\ ext.deferred = {})
  /\ \E action \in CreatedActions(ext.phase, items[k].by) :
       LET phase == CASE action = "wait" -> "pending" [] action = "handoff" -> "handoff" [] OTHER -> ext.phase
           st == CASE action = "wait" -> "paused" [] action = "handoff" -> "erasing"
                   [] action = "erase-ghost" -> "gone" [] OTHER -> "running"
       IN /\ ext' = [ext EXCEPT !.deferred = @ \ {k}, !.phase = phase]
          /\ items' = [items EXCEPT ![k].st = st, ![k].wait = action = "wait"]
  /\ UNCHANGED <<reqs, nfault, others>>

\* finalizePendingCapture, from the timer or from an event that brought the missing size or name.
Finalize(k) ==
  /\ Settled /\ items[k].wait
  /\ \E keep \in BOOLEAN :  \* too small, ignored, or capture is off
       LET st == CASE ext.phase = "restoring" -> items[k].st
                   [] ext.phase \in {"handoff", "accepted", "canceled"} -> "gone"
                   [] OTHER -> IF keep THEN "running" ELSE "erasing"
       IN /\ items' = [items EXCEPT ![k].wait = FALSE, ![k].st = st]
          /\ ext' = IF ext.phase = "pending" /\ keep THEN [ext EXCEPT !.phase = "none"] ELSE ext
  /\ UNCHANGED <<reqs, nfault, others>>

\* handOffUrl, once the item has been erased and the cookies collected.  If the session were over
\* by then, nobody would ever ask for the item (already_claimed).
HandOff(k) ==
  /\ ext.ready /\ items[k].st = "erasing" /\ ext.phase \in {"pending", "handoff"}
  /\ items' = [items EXCEPT ![k].st = "gone"]
  /\ ext' = [ext EXCEPT !.phase = "handoff"]
  /\ \E r \in FreeReq :
       reqs' = [reqs EXCEPT ![r] = [NewReq EXCEPT !.host = "open", !.from = "capture", !.item = k]]
  /\ UNCHANGED <<nfault, others>>

-----------------------------------------------------------------------------
\* Answers

\* Mutation: the status of a new job is not among the accepted ones.
OutcomeOfOld(a) == CASE a = "duplicate" -> "accepted" [] a = "dismissed" -> "canceled" [] OTHER -> "restoring"

\* Mutation: an error counts as a dismissal.
OutcomeOfFailed(a) == IF a \in {"queued", "duplicate"} THEN "accepted" ELSE "canceled"

\* classifyHandoffResponse with finishHandoff.
OutcomeOf(a) ==
  CASE a \in {"queued", "duplicate"} -> "accepted" [] a = "dismissed" -> "canceled" [] OTHER -> "restoring"

Answered(r) ==
  /\ reqs[r].host = "answered"
  /\ LET p == OutcomeOf(reqs[r].answer)
         mine == reqs[r].from = "capture"
     IN /\ ext' = IF mine THEN [ext EXCEPT !.phase = p] ELSE ext
        /\ items' = IF mine /\ p = "restoring" THEN Restored(items) ELSE items
        /\ reqs' = [reqs EXCEPT ![r].host = "done", ![r].restored = mine /\ p = "restoring"]
  /\ UNCHANGED <<nfault, others>>

\* The chain of storage writes; the last one counts.  Only a woken worker reads what is stored.
Persist ==
  /\ ext.ready /\ "kill" \in sc.faults
  /\ ext' = [ext EXCEPT !.stored = ext.phase]
  /\ UNCHANGED <<items, reqs, nfault, others>>

\* CAPTURE_SESSION_TTL_MS is longer than any answer takes.
Expire ==
  /\ ext.phase # "none" \/ ext.stored # "none"
  /\ ext.queue = <<>> /\ ext.deferred = {}
  /\ \A k \in Items : items[k].st \notin {"request", "fetched", "erasing"} /\ ~items[k].wait
  /\ \A r \in Reqs : reqs[r].from = "capture" => reqs[r].host = "done"
  /\ ext' = [ext EXCEPT !.phase = "none", !.stored = "none"]
  /\ UNCHANGED <<items, reqs, nfault, others>>

\* The browser stops the background script: timers, queues and who waits for which answer are
\* lost.  A native message is on its way all the same.
Kill ==
  /\ Fault("kill")
  /\ ext' = [NewExt EXCEPT !.stored = ext.stored]
  /\ items' = [k \in Items |-> [items[k] EXCEPT !.wait = FALSE, !.st = IF @ = "erasing" THEN "gone" ELSE @]]
  /\ reqs' = [r \in Reqs |-> IF reqs[r].from = "capture" THEN [reqs[r] EXCEPT !.from = "forgotten"] ELSE reqs[r]]
  /\ UNCHANGED others

CaptureSteps ==
  \/ Hydrate \/ Replay \/ Persist
  \/ \E k \in Items : EarlyRequest(k) \/ EarlyCreated(k) \/ FirefoxRequest(k) \/ Created(k)
                      \/ Finalize(k) \/ HandOff(k)
  \/ \E r \in Reqs : Answered(r)
CaptureOthers == UserStarts \/ Expire \/ Kill
=============================================================================
