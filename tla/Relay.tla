------------------------------- MODULE Relay -------------------------------
(***************************************************************************)
(* The way of a native message: the native host, which starts the          *)
(* application when nobody answers and tries again, the IPC server with    *)
(* one handler per connection, and the engine as the handlers see it: its  *)
(* commands in order, an Add that inserts the job, saves it and replies.   *)
(* What else happens to a job is that it ends and may be removed (the      *)
(* scheduler, pauses and restarts are Engine's).                           *)
(*                                                                         *)
(* Cancelled and failed jobs are one state, and so are Queued, Starting,   *)
(* Downloading and Paused (but a paused job does not keep the shell loop   *)
(* from parking).                                                          *)
(***************************************************************************)
EXTENDS Capture

CONSTANT MaxJobs

Jobs  == 1..MaxJobs
NoJob == [st |-> "none", url |-> "none", by |-> 0]

ASSUME MaxJobsAssumption == MaxJobs \in Nat

rest == <<sc, ext, items, upd, orphans, nhide, npopup>>

JobUrls(jobs) == [j \in Jobs |-> jobs[j].url]
KnownJobs(jobs) == {j \in Jobs : jobs[j].st \notin {"none", "gone"}}
ActiveJobs(jobs) == {j \in Jobs : jobs[j].st = "active"}
\* find_active_duplicate.
Duplicates(jobs, u) == {j \in ActiveJobs(jobs) : jobs[j].url = u}

NewUi(jobs) ==
  [jobs |-> jobs, latest |-> jobs, held |-> FALSE, later |-> jobs, windows |-> {},
   watching |-> {}, hidden |-> FALSE, parked |-> FALSE]

\* The answer goes to the host, unless that has stopped waiting.
Told(rs, r, a) ==
  [rs EXCEPT ![r].handler = "none", ![r].out = 0, ![r].host = IF @ = "sent" THEN "answered" ELSE @,
             ![r].answer = IF rs[r].host = "sent" THEN a ELSE @]
GivesUp(rs, r) == [rs EXCEPT ![r].host = "answered", ![r].answer = "error"]

-----------------------------------------------------------------------------
\* The native host

\* A link from the context menu.
Click == \E r \in FreeReq :
  /\ Cardinality({q \in Reqs : reqs[q].from = "click"}) < sc.clicks
  /\ reqs' = [reqs EXCEPT ![r] = [NewReq EXCEPT !.host = "open", !.from = "click"]]
  /\ UNCHANGED <<app, br, ui, nfault, rest>>

\* Pipe instances in use: a handler keeps its own also when the host has gone.
Busy == Cardinality({r \in Reqs : reqs[r].handler # "none"}) >= sc.pipes
Unreachable(r) == reqs[r].host = "open" /\ ~app.up
Broken(r)      == reqs[r].host = "sent" /\ reqs[r].handler = "none"

\* Mutation: the tries are not counted.
RetryAlways(r) ==
  /\ Unreachable(r) \/ Broken(r) \/ (reqs[r].host = "open" /\ Busy /\ reqs[r].tries > 0)
  /\ reqs' = [reqs EXCEPT ![r].host = "open", ![r].tries = 1]
  /\ app' = [app EXCEPT !.starting = IF reqs[r].tries = 0 THEN @ + 1 ELSE @]
  /\ UNCHANGED <<br, ui, nfault, rest>>

\* send: the first failure starts the application, a later one uses up a try.
Retry(r) ==
  /\ Unreachable(r) \/ Broken(r) \/ (reqs[r].host = "open" /\ Busy /\ reqs[r].tries > 0)
  /\ LET again == [reqs EXCEPT ![r].host = "open", ![r].tries = @ + 1]
     IN CASE reqs[r].tries = 0 -> reqs' = again /\ app' = [app EXCEPT !.starting = @ + 1]
          [] reqs[r].tries \in 1..(RetryMax - 1) -> reqs' = again /\ UNCHANGED app
          [] OTHER -> reqs' = GivesUp(reqs, r) /\ UNCHANGED app
  /\ UNCHANGED <<br, ui, nfault, rest>>

\* A transport error of the first try: every pipe instance busy, or the connection reset.
Refused(r) ==
  /\ reqs[r].tries = 0 /\ ((reqs[r].host = "open" /\ app.up /\ Busy) \/ Broken(r))
  /\ reqs' = GivesUp(reqs, r)
  /\ UNCHANGED <<app, br, ui, nfault, rest>>

\* APP_FORWARD_TIMEOUT and APP_PROMPT_FORWARD_TIMEOUT count from the first try, the limits of
\* the handler from when it got the request.
ForwardTimeout(r) ==
  /\ Fault("late") /\ reqs[r].host = "sent" /\ reqs[r].tries > 0 /\ reqs[r].handler # "none"
  /\ reqs' = [GivesUp(reqs, r) EXCEPT ![r].unheard = TRUE]
  /\ UNCHANGED <<app, br, ui, rest>>

-----------------------------------------------------------------------------
\* The IPC server

Accepted(r) == reqs[r].host = "open" /\ app.up /\ ~Busy
Answers(r, a) == reqs' = Told([reqs EXCEPT ![r].host = "sent"], r, a)
Waits(r, h) == reqs' = [reqs EXCEPT ![r].host = "sent", ![r].handler = h]

\* An error before anything is done: the rate limit, no directory, a request that does not parse.
Refuse(r) ==
  /\ Accepted(r) /\ Fault("refuse")
  /\ Answers(r, "error")
  /\ UNCHANGED <<app, br, ui, rest>>

\* The bridge's snapshot of the jobs is the UI's.
EnqueueDownload(r) ==
  /\ Accepted(r) /\ ~sc.ask
  /\ IF Duplicates(ui.jobs, sc.url[r]) # {}
     THEN Answers(r, "duplicate") /\ UNCHANGED app
     ELSE Waits(r, "add") /\ app' = [app EXCEPT !.adds = Append(@, r)]
  /\ UNCHANGED <<br, ui, nfault, rest>>

\* prompt_download until it waits.
PromptDownload(r) ==
  /\ Accepted(r) /\ sc.ask
  /\ CASE Duplicates(ui.jobs, sc.url[r]) # {} -> Answers(r, "duplicate") /\ UNCHANGED br
       [] Len(br.prompts) >= PromptMax -> Answers(r, "error") /\ UNCHANGED br
       [] OTHER -> Waits(r, "prompt") /\ br' = EnqueuePrompt(br, r)
  /\ UNCHANGED <<app, ui, nfault, rest>>

\* The user has decided, or a window closed.
Decided(r) ==
  /\ reqs[r].handler = "prompt" /\ br.said[r] # "none"
  /\ IF br.said[r] = "accept"
     THEN reqs' = [reqs EXCEPT ![r].handler = "add"] /\ app' = [app EXCEPT !.adds = Append(@, r)]
     ELSE reqs' = Told(reqs, r, "dismissed") /\ UNCHANGED app
  /\ br' = [br EXCEPT !.said[r] = "none"]
  /\ UNCHANGED <<ui, nfault, rest>>

PromptTimeout(r) ==
  /\ reqs[r].handler = "prompt" /\ br.said[r] = "none"
  /\ br' = [Resolve(br, r, "dismiss") EXCEPT !.said[r] = "none"]
  /\ reqs' = Told(reqs, r, "dismissed")
  /\ UNCHANGED <<app, ui, nfault, rest>>

\* engine_enqueue after the reply.
Enqueued(r) ==
  /\ reqs[r].handler = "add" /\ reqs[r].out # 0
  /\ LET new == reqs[r].out > 0
     IN /\ reqs' = Told(reqs, r, IF new THEN "queued" ELSE "duplicate")
        /\ br' = IF new /\ sc.progress THEN EnqueueProgress(br, reqs[r].out) ELSE br
  /\ UNCHANGED <<app, ui, nfault, rest>>

\* ENQUEUE_REPLY_TIMEOUT: the command stays in the engine's queue.
AddTimeout(r) ==
  /\ Fault("slow") /\ reqs[r].handler = "add" /\ reqs[r].out = 0
  /\ reqs' = [Told(reqs, r, "error") EXCEPT ![r].unheard = TRUE]
  /\ UNCHANGED <<app, br, ui, rest>>

-----------------------------------------------------------------------------
\* The engine

FreeJob == {j \in Jobs : app.jobs[j] = NoJob /\ \A i \in Jobs : i < j => app.jobs[i] # NoJob}
Inserted(r, j) ==
  [app EXCEPT !.adds = Tail(@), !.adding = r, !.job = j,
              !.jobs[j] = [st |-> "active", url |-> sc.url[r], by |-> r]]

\* Mutation: only what the handler saw counts as a duplicate.
AddUnchecked ==
  /\ app.adding = 0 /\ app.adds # <<>> /\ Head(app.adds) # 0
  /\ \E j \in FreeJob : app' = Inserted(Head(app.adds), j)
  /\ UNCHANGED <<reqs, br, ui, nfault, rest>>

\* add.rs: the check for duplicates, the insertion and the event are one critical section.  The
\* outcome of a duplicate is written -1, a new job's its name.
Add ==
  /\ app.adding = 0 /\ app.adds # <<>> /\ Head(app.adds) # 0
  /\ LET r == Head(app.adds)
     IN IF Duplicates(app.jobs, sc.url[r]) # {}
        THEN /\ app' = [app EXCEPT !.adds = Tail(@)]
             /\ reqs' = [reqs EXCEPT ![r].out = IF reqs[r].handler = "add" THEN -1 ELSE @]
        ELSE /\ \E j \in FreeJob : app' = Inserted(r, j)
             /\ UNCHANGED reqs
  /\ UNCHANGED <<br, ui, nfault, rest>>

\* persist_live_jobs, then the reply.
AddSaved ==
  /\ app.adding # 0
  /\ app' = [app EXCEPT !.adding = 0, !.job = 0, !.disk = app.jobs]
  /\ reqs' = [reqs EXCEPT ![app.adding].out = IF reqs[app.adding].handler = "add" THEN app.job ELSE @]
  /\ UNCHANGED <<br, ui, nfault, rest>>

Endings == (IF "end" \in sc.may THEN {"done"} ELSE {}) \cup (IF "fail" \in sc.may THEN {"failed"} ELSE {})

JobEnds == \E j \in Jobs, st \in Endings :
  /\ app.up /\ app.jobs[j].st = "active"
  /\ app' = [app EXCEPT !.jobs[j].st = st, !.disk = [app.jobs EXCEPT ![j].st = st]]
  /\ UNCHANGED <<reqs, br, ui, nfault, rest>>

\* The user removes a job that is over.
RemoveJob == \E j \in Jobs :
  /\ app.up /\ "remove" \in sc.may /\ app.jobs[j].st \in {"done", "failed"}
  /\ app' = [app EXCEPT !.jobs[j].st = "gone", !.disk = [app.jobs EXCEPT ![j].st = "gone"]]
  /\ UNCHANGED <<reqs, br, ui, nfault, rest>>

-----------------------------------------------------------------------------
\* The process

\* Memory is lost, and nobody who waits for an answer gets one.
ProcessEnds ==
  /\ app' = [app EXCEPT !.up = FALSE, !.jobs = app.disk, !.adds = <<>>, !.adding = 0, !.job = 0]
  /\ reqs' = [r \in Reqs |-> [reqs[r] EXCEPT !.handler = "none", !.out = 0,
                                             !.unheard = @ \/ reqs[r].handler = "add"]]
  /\ br' = NewBridge(Reqs) /\ ui' = NewUi(app.disk) /\ orphans' = {}
  /\ UNCHANGED <<sc, ext, items, nhide, npopup>>

AppDies ==
  /\ Fault("death") /\ app.up
  /\ ProcessEnds /\ upd' = Ended(upd)

\* Where no update is looked at, no check is made.
Updating(u) == IF "update" \in sc.may THEN NewProcess(u) ELSE u

\* main: the bridge has the saved jobs before the server listens.
AppStarts ==
  /\ ~app.up /\ app.starting > 0
  /\ app' = [app EXCEPT !.up = TRUE, !.starting = @ - 1]
  /\ br' = NewBridge(Reqs) /\ ui' = NewUi(app.jobs) /\ upd' = Updating(upd)
  /\ UNCHANGED <<sc, ext, items, reqs, orphans, nfault, nhide, npopup>>

\* claim_instance: a second process asks the first one to show its window and exits.  It gives
\* up when it finds no pipe instance.
SecondInstance ==
  /\ app.up /\ app.starting > 0
  /\ app' = [app EXCEPT !.starting = @ - 1]
  /\ br' = IF Busy THEN br ELSE RequestShow(br)
  /\ UNCHANGED <<reqs, ui, nfault, rest>>

RelaySteps ==
  \/ \E r \in Reqs : Retry(r) \/ Refused(r) \/ EnqueueDownload(r) \/ PromptDownload(r)
                     \/ Decided(r) \/ PromptTimeout(r) \/ Enqueued(r)
  \/ Add \/ AddSaved \/ AppStarts \/ SecondInstance
RelayOthers ==
  \/ Click \/ JobEnds \/ RemoveJob \/ AppDies
  \/ \E r \in Reqs : Refuse(r) \/ ForwardTimeout(r) \/ AddTimeout(r)
=============================================================================
