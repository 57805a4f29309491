---------------------------- MODULE HandoffProofs ----------------------------
(***************************************************************************)
(* Theorems about Handoff, for every set of scenarios and every bound.     *)
(***************************************************************************)
EXTENDS Handoff, WellFoundedInduction, FiniteSetTheorems, TLAPS

-----------------------------------------------------------------------------
(* What the variables hold.                                                *)

Phases == {"none", "pending", "handoff", "accepted", "canceled", "restoring"}

ExtRecs  == [phase : Phases, stored : Phases, ready : BOOLEAN, queue : Seq(Items), deferred : SUBSET Items]
ItemRecs == [st : {"none", "request", "fetched", "paused", "running", "erasing", "gone"},
             by : {"user", "ext"}, wait : BOOLEAN]
Outs     == Jobs \cup {0, -1}
ReqRecs  == [host : {"none", "open", "sent", "answered", "done"},
             from : {"none", "capture", "click", "forgotten"}, item : Items \cup {0}, tries : Nat,
             handler : {"none", "prompt", "add"}, out : Outs,
             answer : {"none", "queued", "duplicate", "dismissed", "error"},
             restored : BOOLEAN, unheard : BOOLEAN]
JobRecs  == [st : {"none", "active", "done", "failed", "gone"}, url : Urls, by : Reqs]
JobMaps  == [Jobs -> JobRecs \cup {NoJob}]
AppRecs  == [up : BOOLEAN, starting : Nat, jobs : JobMaps, disk : JobMaps,
             adds : Seq(Reqs \cup {0}), adding : Reqs \cup {0}, job : Jobs \cup {0}]
Checks   == [channel : Channels, fresh : BOOLEAN]

ScTyped  == sc \in Scenarios
ReqTyped == reqs \in [Reqs -> ReqRecs]
AppTyped == app \in AppRecs
Offers   == Versions \cup {NoVersion}
UpdRecs  == [channel : Channels, busy : BOOLEAN, offer : Offers, checks : SUBSET Checks,
             quit : {"no", "asked", "acked"}, ver : Offers, notes : Offers, unread : Offers,
             asked : Nat, helper : {"none", "download", "close", "install", "writing", "relaunch",
                                    "message", "told", "failed"},
             to : Offers, mine : BOOLEAN, disk : Offers, overtaken : BOOLEAN]

-----------------------------------------------------------------------------
(* Invariants                                                              *)

\* Of any two unfinished jobs with one URL; and so in memory and in the file.
Alone(jobs) == \A i, j \in Jobs :
  jobs[i].st = "active" /\ jobs[j].st = "active" /\ jobs[i].url = jobs[j].url => i = j
JobsAlone == Alone(app.jobs) /\ Alone(app.disk)

\* The engine has the Add of r, or a job from it, or a later process will have one.
Known(r) ==
  \/ r \in ToSet(app.adds) \/ app.adding = r
  \/ \E j \in Jobs : app.jobs[j].by = r \/ app.disk[j].by = r
\* What a request looks like; and one that the engine has heard of: its host will be told so, or
\* has been, or does not listen any more.
Sound(q) ==
  /\ q.host = "none" => ~q.unheard
  /\ q.host \in {"none", "open"} => q.handler = "none"
  /\ q.restored => q.host = "done"
  /\ q.handler # "none" => q.unheard \/ q.host = "sent"
Due(q) ==
  \/ q.unheard
  \/ q.handler = "add" /\ q.host = "sent"
  \/ q.host \in {"answered", "done"} /\ q.answer \in {"queued", "duplicate"} /\ ~q.restored
AllOwed == \A r \in Reqs : Sound(reqs[r]) /\ (Known(r) => Due(reqs[r]))

\* At most one item of the family is on its way to the application, and its phase says so.
Erasing == {k \in Items : items[k].st = "erasing"}
Waiting == {k \in Items : items[k].wait}
Out     == {r \in Reqs : reqs[r].from = "capture" /\ reqs[r].host # "done"}
One(S)  == \A a, b \in S : a = b
Family ==
  /\ ext.phase = "none" => Erasing = {} /\ Waiting = {} /\ Out = {}
  /\ ext.phase = "pending" =>
       Out = {} /\ One(Erasing \cup Waiting) /\ (ext.queue # <<>> => Erasing \cup Waiting = {})
  /\ ext.phase = "handoff" => One(Erasing) /\ One(Out) /\ (Erasing = {} \/ Out = {})
  /\ ext.phase \in {"accepted", "canceled", "restoring"} => Erasing = {} /\ Out = {}
  /\ ~ext.ready => ext.phase = "none"
  /\ ext.queue # <<>> => Waiting = {}
  /\ \A k \in ToSet(ext.queue) \cup ext.deferred : items[k].st \notin {"none", "request", "fetched"}
  /\ ToSet(ext.queue) \cap ext.deferred = {}

-----------------------------------------------------------------------------
(* Updates *)

\* What OfferCurrent needs of the record of updates.
Current(u) ==
  /\ u \in UpdRecs
  /\ \A c \in u.checks : c.fresh => c.channel = u.channel
  /\ u.offer # NoVersion => u.offer = Offered(u.channel, u.ver)

LEMMA OfferedTyped ==
  ASSUME NEW c \in Channels, NEW v PROVE Offered(c, v) \in Offers
BY PublishedAssumption DEF Offered, Offers

\* The check, the channel, and what ends with the process.
LEMMA OutdatedCurrent ==
  ASSUME NEW u, Current(u) PROVE Current(Outdated(u)) /\ \A c \in Outdated(u).checks : ~c.fresh
<1>1. u \in UpdRecs
  BY DEF Current
<1> DEFINE stale == {[c EXCEPT !.fresh = FALSE] : c \in u.checks}
<1>2. u.checks \subseteq Checks
  BY <1>1 DEF UpdRecs
<1>3. stale \subseteq Checks /\ \A c \in stale : ~c.fresh
  BY <1>2 DEF Checks
<1>4. Outdated(u) = [u EXCEPT !.checks = stale]
  BY DEF Outdated
<1> HIDE DEF stale
<1> QED
  BY <1>1, <1>3, <1>4 DEF Current, UpdRecs

LEMMA BeginCheckCurrent ==
  ASSUME NEW u, Current(u) PROVE Current(BeginCheck(u))
<1>1. Current(Outdated(u)) /\ (\A c \in Outdated(u).checks : ~c.fresh) /\ Outdated(u).channel = u.channel
  BY OutdatedCurrent DEF Outdated, Current, UpdRecs
<1> DEFINE new == [channel |-> u.channel, fresh |-> TRUE]
<1>2. u.channel \in Channels
  BY DEF Current, UpdRecs
<1>3. new \in Checks /\ new.channel = u.channel
  BY <1>2 DEF Checks
<1>4. BeginCheck(u) = IF u.busy THEN u
        ELSE [Outdated(u) EXCEPT !.busy = TRUE, !.checks = @ \cup {new}]
  BY DEF BeginCheck
<1> DEFINE v == [Outdated(u) EXCEPT !.busy = TRUE, !.checks = @ \cup {new}]
<1>5. Current(v)
  <2> HIDE DEF new
  <2>1. v \in UpdRecs
    BY <1>1, <1>3 DEF Current, UpdRecs
  <2>2. v.checks = Outdated(u).checks \cup {new} /\ v.channel = u.channel /\ v.offer = Outdated(u).offer
        /\ v.ver = Outdated(u).ver
    BY <1>1 DEF Current, UpdRecs
  <2> QED
    BY <1>1, <1>3, <2>1, <2>2 DEF Current
<1> QED
  BY <1>4, <1>5

LEMMA CheckFinishedCurrent ==
  ASSUME NEW u, Current(u), NEW c \in u.checks, NEW ok \in BOOLEAN PROVE Current(CheckFinished(u, c, ok))
<1>1. c \in Checks
  BY DEF Current, UpdRecs
<1>2. Offered(c.channel, u.ver) \in Offers
  BY <1>1, OfferedTyped DEF Checks
<1> QED
  BY <1>1, <1>2 DEF Current, UpdRecs, CheckFinished, Checks

LEMMA SwitchedCurrent ==
  ASSUME NEW u, Current(u), NEW channel \in Channels PROVE Current(Switched(u, channel))
<1>1. Current(Outdated(u)) /\ \A c \in Outdated(u).checks : ~c.fresh
  BY OutdatedCurrent
<1>2. NoVersion \in Offers
  BY DEF Offers
<1> QED
  BY <1>1, <1>2 DEF Current, UpdRecs, Switched

LEMMA EndedCurrent ==
  ASSUME NEW u, Current(u) PROVE Current(Ended(u))
BY DEF Current, UpdRecs, Ended, Offers

LEMMA NewProcessCurrent ==
  ASSUME NEW u, Current(u) PROVE Current(NewProcess(u))
<1> DEFINE kept == IF u.notes = u.disk THEN u.notes ELSE NoVersion
           v == [Ended(u) EXCEPT !.ver = u.disk, !.notes = kept, !.unread = kept]
<1>1. kept \in Offers
  BY DEF Current, UpdRecs, Offers
<1>2. Current(Ended(u)) /\ Ended(u).offer = NoVersion /\ Ended(u).checks = {} /\ u.disk \in Offers
  BY EndedCurrent DEF Ended, Current, UpdRecs
<1>3. NewProcess(u) = BeginCheck(v)
  BY DEF NewProcess
<1>4. Current(v)
  <2> HIDE DEF kept
  <2> QED BY <1>1, <1>2 DEF Current, UpdRecs
<1> QED
  BY <1>3, <1>4, BeginCheckCurrent

\* Everything else leaves the channel, the checks, the offer and the version alone.
Elsewhere(u, v) ==
  v \in UpdRecs /\ v.channel = u.channel /\ v.checks = u.checks /\ v.offer = u.offer /\ v.ver = u.ver
LEMMA ElsewhereCurrent ==
  ASSUME NEW u, Current(u), NEW v, Elsewhere(u, v) PROVE Current(v)
BY DEF Current, Elsewhere

LEMMA UpdaterCurrent ==
  ASSUME Current(upd), UpdaterSteps \/ UpdaterOthers PROVE Current(upd)'
<1>0. upd \in UpdRecs /\ NoVersion \in Offers
  BY DEF Current, Offers
<1>1. CASE CheckEnds
  BY <1>1, CheckFinishedCurrent DEF CheckEnds
<1>2. CASE Drained
  BY <1>0, <1>2, ElsewhereCurrent DEF Drained, Elsewhere, UpdRecs
<1>3. CASE Quits \/ Kills
  BY <1>3, EndedCurrent DEF Quits, Kills
<1>4. CASE DownloadSetup \/ AppGone \/ CannotKill
  BY <1>0, <1>4, ElsewhereCurrent DEF DownloadSetup, AppGone, CannotKill, Goes, Failing, Elsewhere, UpdRecs
<1>5. CASE InstallBegins
  <2>1. Current(Ended(upd)) /\ Ended(upd) \in UpdRecs
    BY EndedCurrent DEF Current
  <2>2. \A v \in UpdRecs : Elsewhere(v, Goes(v, "writing"))
    BY DEF Elsewhere, Goes, UpdRecs
  <2> QED
    BY <1>0, <1>5, <2>1, <2>2, ElsewhereCurrent DEF InstallBegins
<1>6. CASE InstallEnds
  BY ZenonT(60), <1>0, <1>6, ElsewhereCurrent DEF InstallEnds, Goes, Failing, Elsewhere, UpdRecs
<1>7. CASE Relaunch
  BY ZenonT(60), <1>0, <1>7, ElsewhereCurrent DEF Relaunch, Goes, Overtaken, Failing, Elsewhere, UpdRecs
<1>8. CASE Dismiss
  BY ZenonT(60), <1>0, <1>8, ElsewhereCurrent DEF Dismiss, Goes, Overtaken, Elsewhere, UpdRecs
<1>9. \A v \in UpdRecs : Elsewhere(v, Counted(v))
  BY DEF Elsewhere, Counted, UpdRecs
<1>10. CASE CheckAgain
  <2>1. Current(BeginCheck(upd)) /\ BeginCheck(upd) \in UpdRecs
    BY BeginCheckCurrent DEF Current
  <2> QED
    BY <1>9, <1>10, <2>1, ElsewhereCurrent DEF CheckAgain
<1>11. CASE SwitchChannel
  <2>1. PICK channel \in Channels : upd' = Counted(Switched(upd, channel))
    BY <1>11 DEF SwitchChannel
  <2>2. Current(Switched(upd, channel)) /\ Switched(upd, channel) \in UpdRecs
    BY SwitchedCurrent DEF Current
  <2> QED
    BY <1>9, <2>1, <2>2, ElsewhereCurrent
<1>12. CASE ShowNotes
  BY <1>0, <1>12, ElsewhereCurrent DEF ShowNotes, Acknowledged, Elsewhere, UpdRecs
<1>13. CASE ApplyUpdate
  <2>1. Current(Outdated(upd)) /\ Outdated(upd) \in UpdRecs /\ upd.offer \in Offers
    BY OutdatedCurrent DEF Current, UpdRecs
  <2>2. Elsewhere(Outdated(upd), Applying(upd)) /\ Elsewhere(Outdated(upd), NotLaunched(upd))
    BY <1>0, <2>1 DEF Elsewhere, Applying, NotLaunched, UpdRecs
  <2>3. Current(Applying(upd)) /\ Current(NotLaunched(upd)) /\ Applying(upd) \in UpdRecs /\ NotLaunched(upd) \in UpdRecs
    BY <2>1, <2>2, ElsewhereCurrent DEF Elsewhere
  <2> DEFINE launched == [Launched(Applying(upd)) EXCEPT !.quit = IF @ = "no" THEN "asked" ELSE @]
  <2>4. Elsewhere(Applying(upd), launched)
    BY <2>3 DEF Elsewhere, Launched, UpdRecs
  <2>5. Current(launched) /\ launched \in UpdRecs
    BY <2>3, <2>4, ElsewhereCurrent DEF Elsewhere
  <2>6. upd' = Counted(NotLaunched(upd)) \/ upd' = Counted(launched)
    BY SMTT(60), <1>13 DEF ApplyUpdate
  <2> HIDE DEF launched
  <2> QED
    BY <1>9, <2>3, <2>5, <2>6, ElsewhereCurrent
<1> QED
  BY <1>1, <1>2, <1>3, <1>4, <1>5, <1>6, <1>7, <1>8, <1>10, <1>11, <1>12, <1>13 DEF UpdaterSteps, UpdaterOthers

-----------------------------------------------------------------------------
(* Which variables the parts of Next change.                               *)

LEMMA CaptureFrame ==
  ASSUME CaptureSteps \/ CaptureOthers PROVE UNCHANGED <<sc, app, br, ui, upd, orphans>>
BY ZenonT(60) DEF CaptureSteps, CaptureOthers, Hydrate, Replay, Persist, EarlyRequest, EarlyCreated, FirefoxRequest,
       Created, Finalize, HandOff, Answered, UserStarts, Expire, Kill, others

LEMMA HudFrame ==
  ASSUME HudSteps \/ HudOthers PROVE UNCHANGED <<sc, ext, items, reqs, app, upd>>
BY ZenonT(60) DEF HudSteps, HudOthers, JobsEvent, Tick, Wake, Sync, OpenPopup, Hide, ShowFromTray, AcceptPrompt,
       CloseHud, outside

\* A process that ends, a new one, and everything else.
Running == UNCHANGED <<sc, ext, items, upd, orphans>>
LEMMA RelayFrame ==
  ASSUME RelaySteps \/ RelayOthers
  PROVE  \/ Running
         \/ ProcessEnds /\ upd' = Ended(upd)
         \/ AppStarts
<1>1. CASE RelaySteps
  BY ZenonT(60), <1>1 DEF RelaySteps, Retry, Refused, EnqueueDownload, PromptDownload, Decided, PromptTimeout, Enqueued,
       Add, AddSaved, SecondInstance, rest, Running
<1>2. CASE RelayOthers
  BY <1>2 DEF RelayOthers, Click, JobEnds, RemoveJob, AppDies, Refuse, ForwardTimeout, AddTimeout, rest, Running
<1> QED
  BY <1>1, <1>2

\* What an update asks of the rest.
Drains   == app' = [app EXCEPT !.adds = Append(@, 0)]
DrainAnswered == app.adds # <<>> /\ Head(app.adds) = 0 /\ app' = [app EXCEPT !.adds = Tail(@)]
LEMMA UpdaterFrame ==
  ASSUME UpdaterSteps \/ UpdaterOthers
  PROVE  \/ ProcessEnds
         \/ /\ UNCHANGED <<sc, ext, items, reqs, br, ui, orphans>>
            /\ UNCHANGED app \/ Drains \/ DrainAnswered \/ StartsAgain
<1>1. CASE UpdaterSteps
  BY <1>1 DEF UpdaterSteps, CheckEnds, Drained, Quits, DownloadSetup, AppGone, Kills, InstallBegins,
       InstallEnds, Relaunch, elsewhere, DrainAnswered
<1>2. CASE UpdaterOthers
  BY <1>2 DEF UpdaterOthers, CheckAgain, SwitchChannel, ShowNotes, ApplyUpdate, CannotKill, Dismiss,
       elsewhere, Drains
<1> QED
  BY <1>1, <1>2

LEMMA Cases ==
  ASSUME [Next]_vars
  PROVE  \/ CaptureSteps \/ CaptureOthers \/ RelaySteps \/ RelayOthers
         \/ HudSteps \/ HudOthers \/ UpdaterSteps \/ UpdaterOthers
         \/ UNCHANGED vars
BY DEF Next, Steps

LEMMA ScNext == ASSUME [Next]_vars PROVE sc' = sc
BY Cases, CaptureFrame, HudFrame, RelayFrame, UpdaterFrame DEF Running, ProcessEnds, AppStarts, vars

-----------------------------------------------------------------------------
(* The offer of an update.                                                 *)

LEMMA CurrentNext == ASSUME Current(upd), [Next]_vars PROVE Current(upd)'
<1>1. CASE CaptureSteps \/ CaptureOthers
  BY <1>1, CaptureFrame DEF Current
<1>2. CASE RelaySteps \/ RelayOthers
  BY <1>2, RelayFrame, EndedCurrent, NewProcessCurrent DEF Running, Current, AppStarts, Updating
<1>3. CASE HudSteps \/ HudOthers
  BY <1>3, HudFrame DEF Current
<1>4. CASE UpdaterSteps \/ UpdaterOthers
  BY <1>4, UpdaterCurrent
<1>5. CASE UNCHANGED vars
  BY <1>5 DEF Current, vars
<1> QED
  BY <1>1, <1>2, <1>3, <1>4, <1>5, Cases

LEMMA CurrentInit == ASSUME Init PROVE Current(upd)
<1>1. sc.version \in Versions
  BY HandoffAssumption DEF Init
<1>2. Current(NewUpdate(sc.version))
  <2>1. sc.version \in Offers /\ NoVersion \in Offers
    BY <1>1 DEF Offers
  <2> QED
    BY <2>1 DEF NewUpdate, Current, UpdRecs, Channels
<1> QED
  BY <1>2, NewProcessCurrent DEF Init, Updating

\* The update offered is the one of the channel the user is on, for the version that runs: a
\* check that was begun before he changed the channel cannot bring back its own.
THEOREM OfferIsCurrent == Spec => []OfferCurrent
<1>1. Init => Current(upd)
  BY CurrentInit
<1>2. Current(upd) /\ [Next]_vars => Current(upd)'
  BY CurrentNext
<1>3. Current(upd) => OfferCurrent
  BY DEF Current, OfferCurrent
<1> QED
  BY <1>1, <1>2, <1>3, PTL DEF Spec

-----------------------------------------------------------------------------
(* The engine's jobs.                                                      *)

AppInv == ScTyped /\ AppTyped /\ JobsAlone

\* An ended job makes nothing twice.
LEMMA EndedAlone ==
  ASSUME NEW jobs \in JobMaps, Alone(jobs), NEW j \in Jobs, NEW st \in {"done", "failed", "gone"},
         jobs[j].st # "none"
  PROVE  [jobs EXCEPT ![j].st = st] \in JobMaps /\ Alone([jobs EXCEPT ![j].st = st])
<1> DEFINE after == [jobs EXCEPT ![j].st = st]
<1>1. jobs[j] \in JobRecs
  BY DEF JobMaps, NoJob
<1>2. [jobs[j] EXCEPT !.st = st] \in JobRecs /\ [jobs[j] EXCEPT !.st = st].st # "active"
  BY <1>1 DEF JobRecs
<1>3. after \in JobMaps /\ after[j].st # "active" /\ \A i \in Jobs : i # j => after[i] = jobs[i]
  BY <1>2 DEF JobMaps
<1>4. Alone(after)
  <2> HIDE DEF after
  <2> QED BY <1>3 DEF Alone
<1> QED
  BY <1>3, <1>4

\* Nor does a new one, if no other unfinished job has its URL.
LEMMA AddedAlone ==
  ASSUME NEW jobs \in JobMaps, Alone(jobs), NEW j \in Jobs, NEW u \in Urls, NEW r \in Reqs,
         Duplicates(jobs, u) = {}
  PROVE  /\ [jobs EXCEPT ![j] = [st |-> "active", url |-> u, by |-> r]] \in JobMaps
         /\ Alone([jobs EXCEPT ![j] = [st |-> "active", url |-> u, by |-> r]])
<1> DEFINE new   == [st |-> "active", url |-> u, by |-> r]
           after == [jobs EXCEPT ![j] = new]
<1>1. new \in JobRecs /\ new.url = u
  BY DEF JobRecs
<1>2. after \in JobMaps /\ after[j].url = u /\ \A i \in Jobs : i # j => after[i] = jobs[i]
  BY <1>1 DEF JobMaps
<1>3. \A i \in Jobs : jobs[i].st = "active" => jobs[i].url # u
  BY DEF Duplicates, ActiveJobs
<1>4. Alone(after)
  <2> HIDE DEF after
  <2> QED BY <1>2, <1>3 DEF Alone
<1> QED
  BY <1>2, <1>4

LEMMA AppFields ==
  ASSUME AppInv
  PROVE  /\ app.jobs \in JobMaps /\ app.disk \in JobMaps /\ Alone(app.jobs) /\ Alone(app.disk)
         /\ app.adds \in Seq(Reqs \cup {0}) /\ \A r \in Reqs : sc.url[r] \in Urls
BY HandoffAssumption DEF AppInv, AppTyped, AppRecs, JobsAlone, ScTyped

\* The memory of the process is lost, the file of its jobs is not.
LEMMA LostMemory ==
  ASSUME ProcessEnds
  PROVE  app' = [app EXCEPT !.up = FALSE, !.jobs = app.disk, !.adds = <<>>, !.adding = 0, !.job = 0]
BY Zenon DEF ProcessEnds

LEMMA RelayApp ==
  ASSUME AppInv, RelaySteps \/ RelayOthers PROVE (AppTyped /\ JobsAlone)'
<1>0. /\ app \in AppRecs /\ app.jobs \in JobMaps /\ app.disk \in JobMaps /\ Alone(app.jobs) /\ Alone(app.disk)
      /\ app.adds \in Seq(Reqs \cup {0}) /\ \A r \in Reqs : sc.url[r] \in Urls
  BY AppFields DEF AppInv, AppTyped
<1> DEFINE Quiet == app' \in AppRecs /\ app'.jobs = app.jobs /\ app'.disk = app.disk
<1>q. Quiet => (AppTyped /\ JobsAlone)'
  BY <1>0 DEF AppTyped, JobsAlone
<1>1. ASSUME NEW r \in Reqs, Retry(r) PROVE Quiet
  BY <1>0, <1>1 DEF Retry, AppRecs
<1>2. ASSUME NEW r \in Reqs, Refused(r) \/ PromptDownload(r) \/ PromptTimeout(r) \/ Enqueued(r) \/ Refuse(r)
                             \/ ForwardTimeout(r) \/ AddTimeout(r)
      PROVE  Quiet
  BY <1>0, <1>2 DEF Refused, PromptDownload, PromptTimeout, Enqueued, Refuse, ForwardTimeout, AddTimeout
<1>3. ASSUME NEW r \in Reqs, EnqueueDownload(r) \/ Decided(r) PROVE Quiet
  <2>1. Append(app.adds, r) \in Seq(Reqs \cup {0})
    BY <1>0
  <2>2. app' = app \/ app' = [app EXCEPT !.adds = Append(@, r)]
    BY <1>3 DEF EnqueueDownload, Decided
  <2> QED
    BY <1>0, <2>1, <2>2 DEF AppRecs
<1>4. CASE Add
  <2> DEFINE r == Head(app.adds)
  <2>1. app.adds # <<>> /\ r # 0
    BY <1>4 DEF Add
  <2>2. r \in Reqs /\ Tail(app.adds) \in Seq(Reqs \cup {0})
    BY <1>0, <2>1
  <2>3. CASE Duplicates(app.jobs, sc.url[r]) # {}
    <3>1. app' = [app EXCEPT !.adds = Tail(@)]
      BY <1>4, <2>3 DEF Add
    <3> QED
      BY <1>0, <1>q, <2>2, <3>1 DEF AppRecs
  <2>4. CASE Duplicates(app.jobs, sc.url[r]) = {}
    <3>1. PICK j \in Jobs : app' = Inserted(r, j)
      BY <1>4, <2>4 DEF Add, FreeJob
    <3> DEFINE after == [app.jobs EXCEPT ![j] = [st |-> "active", url |-> sc.url[r], by |-> r]]
    <3>2. after \in JobMaps /\ Alone(after)
      BY <1>0, <2>2, <2>4, AddedAlone
    <3>3. app' = [app EXCEPT !.adds = Tail(@), !.adding = r, !.job = j, !.jobs = after]
      BY <1>0, <3>1 DEF Inserted, AppRecs
    <3>4. app' \in AppRecs /\ app'.jobs = after /\ app'.disk = app.disk
      <4> HIDE DEF after, r
      <4> QED BY <1>0, <2>2, <3>2, <3>3 DEF AppRecs
    <3> QED
      BY <1>0, <3>2, <3>4 DEF AppTyped, JobsAlone
  <2> QED
    BY <2>3, <2>4
<1>5. CASE AddSaved
  <2>1. app' \in AppRecs /\ app'.jobs = app.jobs /\ app'.disk = app.jobs
    BY <1>0, <1>5 DEF AddSaved, AppRecs
  <2> QED
    BY <1>0, <2>1 DEF AppTyped, JobsAlone
<1>6. CASE JobEnds \/ RemoveJob
  <2>1. PICK j \in Jobs, st \in {"done", "failed", "gone"} :
          /\ app.jobs[j].st # "none"
          /\ app' = [app EXCEPT !.jobs[j].st = st, !.disk = [app.jobs EXCEPT ![j].st = st]]
    BY <1>6 DEF JobEnds, RemoveJob, Endings
  <2> DEFINE after == [app.jobs EXCEPT ![j].st = st]
  <2>2. after \in JobMaps /\ Alone(after)
    BY <1>0, <2>1, EndedAlone
  <2>3. app' = [app EXCEPT !.jobs = after, !.disk = after]
    BY <1>0, <2>1 DEF AppRecs
  <2>4. app' \in AppRecs /\ app'.jobs = after /\ app'.disk = after
    <3> HIDE DEF after
    <3> QED BY <1>0, <2>2, <2>3 DEF AppRecs
  <2> QED
    BY <2>2, <2>4 DEF AppTyped, JobsAlone
<1>7. CASE AppDies
  <2>1. <<>> \in Seq(Reqs \cup {0})
    OBVIOUS
  <2>2. app' = [app EXCEPT !.up = FALSE, !.jobs = app.disk, !.adds = <<>>, !.adding = 0, !.job = 0]
    BY <1>7, LostMemory DEF AppDies
  <2>3. app' \in AppRecs /\ app'.jobs = app.disk /\ app'.disk = app.disk
    BY <1>0, <2>1, <2>2 DEF AppRecs
  <2> QED
    BY <1>0, <2>3 DEF AppTyped, JobsAlone
<1>8. CASE AppStarts \/ SecondInstance
  <2>1. app.starting \in Nat /\ app.starting > 0
    BY <1>0, <1>8 DEF AppStarts, SecondInstance, AppRecs
  <2>2. app.starting - 1 \in Nat
    BY <2>1
  <2>3. \/ app' = [app EXCEPT !.up = TRUE, !.starting = @ - 1]
        \/ app' = [app EXCEPT !.starting = @ - 1]
    BY <1>8 DEF AppStarts, SecondInstance
  <2>4. Quiet
    BY <1>0, <2>2, <2>3 DEF AppRecs
  <2> QED
    BY <2>4, <1>q
<1>9. CASE Click
  BY <1>0, <1>9, <1>q DEF Click
<1> QED
  BY <1>q, <1>1, <1>2, <1>3, <1>4, <1>5, <1>6, <1>7, <1>8, <1>9 DEF RelaySteps, RelayOthers

LEMMA UpdaterApp ==
  ASSUME AppInv, UpdaterSteps \/ UpdaterOthers PROVE (AppTyped /\ JobsAlone)'
<1>0. /\ app \in AppRecs /\ app.jobs \in JobMaps /\ app.disk \in JobMaps /\ Alone(app.jobs) /\ Alone(app.disk)
      /\ app.adds \in Seq(Reqs \cup {0})
  BY AppFields DEF AppInv, AppTyped
<1>1. CASE ProcessEnds
  <2>1. <<>> \in Seq(Reqs \cup {0})
    OBVIOUS
  <2>2. app' = [app EXCEPT !.up = FALSE, !.jobs = app.disk, !.adds = <<>>, !.adding = 0, !.job = 0]
    BY <1>1, LostMemory
  <2>3. app' \in AppRecs /\ app'.jobs = app.disk /\ app'.disk = app.disk
    BY <1>0, <2>1, <2>2 DEF AppRecs
  <2> QED
    BY <1>0, <2>3 DEF AppTyped, JobsAlone
<1>2. CASE UNCHANGED app \/ Drains \/ DrainAnswered \/ StartsAgain
  <2>1. Append(app.adds, 0) \in Seq(Reqs \cup {0}) /\ (app.adds # <<>> => Tail(app.adds) \in Seq(Reqs \cup {0}))
    BY <1>0
  <2>2. app' \in AppRecs /\ app'.jobs = app.jobs /\ app'.disk = app.disk
    BY SMTT(60), <1>0, <1>2, <2>1 DEF Drains, DrainAnswered, StartsAgain, AppRecs
  <2> QED
    BY <1>0, <2>2 DEF AppTyped, JobsAlone
<1> QED
  BY <1>1, <1>2, UpdaterFrame

LEMMA AppNext == ASSUME AppInv, [Next]_vars PROVE AppInv'
<1>1. ScTyped'
  BY ScNext DEF AppInv, ScTyped
<1>2. (AppTyped /\ JobsAlone)'
  <2>1. CASE UNCHANGED app
    BY <2>1 DEF AppInv, AppTyped, JobsAlone
  <2>2. CASE RelaySteps \/ RelayOthers
    BY <2>2, RelayApp
  <2>3. CASE UpdaterSteps \/ UpdaterOthers
    BY <2>3, UpdaterApp
  <2> QED
    BY <2>1, <2>2, <2>3, Cases, CaptureFrame, HudFrame DEF vars
<1> QED
  BY <1>1, <1>2 DEF AppInv

LEMMA AppInit == ASSUME Init PROVE AppInv
<1>1. sc.up \in BOOLEAN
  BY HandoffAssumption DEF Init
<1> DEFINE none == [j \in Jobs |-> NoJob]
<1>2. none \in JobMaps /\ Alone(none)
  BY DEF JobMaps, Alone, NoJob
<1>3. app = [up |-> sc.up, starting |-> 0, jobs |-> none, disk |-> none, adds |-> <<>>, adding |-> 0, job |-> 0]
  BY DEF Init
<1>4. <<>> \in Seq(Reqs \cup {0})
  OBVIOUS
<1> HIDE DEF none
<1> QED
  BY <1>1, <1>2, <1>3, <1>4 DEF Init, AppInv, ScTyped, AppTyped, AppRecs, JobsAlone

\* A set whose members are all equal has at most one.
LEMMA AtMostOne ==
  ASSUME NEW S, One(S) PROVE IsFiniteSet(S) /\ Cardinality(S) <= 1
<1>1. CASE S = {}
  BY <1>1, FS_EmptySet
<1>2. CASE S # {}
  <2>1. PICK x : S = {x}
    BY <1>2 DEF One
  <2>2. IsFiniteSet({x}) /\ Cardinality({x}) = 1
    BY FS_Singleton
  <2> QED
    BY <2>1, <2>2
<1> QED
  BY <1>1, <1>2

\* The engine never has two unfinished jobs of one URL, in whichever order the handlers' Adds
\* reach it, also when the host sends a request again that an earlier process had saved.
THEOREM JobsAreAlone == Spec => []OneJob
<1>1. Init => AppInv
  BY AppInit
<1>2. AppInv /\ [Next]_vars => AppInv'
  BY AppNext
<1>3. AppInv => OneJob
  <2> SUFFICES ASSUME AppInv, NEW u \in Urls PROVE Cardinality(Duplicates(app.jobs, u)) <= 1
    BY DEF OneJob
  <2>1. One(Duplicates(app.jobs, u))
    BY AppFields DEF Alone, One, Duplicates, ActiveJobs
  <2> QED
    BY <2>1, AtMostOne
<1> QED
  BY <1>1, <1>2, <1>3, PTL DEF Spec

-----------------------------------------------------------------------------
(* The requests and what the engine has heard of them.                     *)

\* One request changes.
LEMMA OneReq ==
  ASSUME ReqTyped, AllOwed, NEW r \in Reqs, NEW new \in ReqRecs, reqs' = [reqs EXCEPT ![r] = new],
         \A q \in Reqs : Known(q)' => Known(q) \/ q = r,
         Sound(new), Known(r)' => Due(new)
  PROVE  (ReqTyped /\ AllOwed)'
<1>1. reqs' \in [Reqs -> ReqRecs] /\ reqs'[r] = new /\ \A q \in Reqs : q # r => reqs'[q] = reqs[q]
  BY DEF ReqTyped
<1>2. ReqTyped'
  BY <1>1 DEF ReqTyped
<1>3. ASSUME NEW q \in Reqs PROVE Sound(reqs'[q]) /\ (Known(q)' => Due(reqs'[q]))
  BY <1>1 DEF AllOwed
<1> QED
  BY <1>2, <1>3 DEF AllOwed

\* A captured download's message that waits for its answer.
Shrinks(q, p) == p.from = "capture" /\ p.host # "done" => q.from = "capture" /\ q.host # "done"
Kept == (ReqTyped /\ AllOwed)' /\ Out' \subseteq Out

LEMMA OneKept ==
  ASSUME ReqTyped, AllOwed, NEW r \in Reqs, NEW new \in ReqRecs, reqs' = [reqs EXCEPT ![r] = new],
         \A q \in Reqs : Known(q)' => Known(q) \/ q = r,
         Sound(new), Known(r)' => Due(new), Shrinks(reqs[r], new)
  PROVE  Kept
<1>1. reqs'[r] = new /\ \A q \in Reqs : q # r => reqs'[q] = reqs[q]
  BY DEF ReqTyped
<1>2. Out' \subseteq Out
  BY <1>1 DEF Out, Shrinks
<1> QED
  BY <1>2, OneReq DEF Kept

LEMMA NoReq ==
  ASSUME ReqTyped, AllOwed, UNCHANGED reqs, \A q \in Reqs : Known(q)' => Known(q) PROVE Kept
BY DEF Kept, ReqTyped, AllOwed, Out

\* What an answer, giving up and a new try do to a request.
ToldTo(q, a) ==
  [q EXCEPT !.handler = "none", !.out = 0, !.host = IF @ = "sent" THEN "answered" ELSE @,
            !.answer = IF q.host = "sent" THEN a ELSE @]
GivenUp(q) == [q EXCEPT !.host = "answered", !.answer = "error"]
Tried(q)   == [q EXCEPT !.host = "open", !.tries = @ + 1]
Sent(q)    == [q EXCEPT !.host = "sent"]
AnswerKinds   == {"queued", "duplicate", "dismissed", "error"}

LEMMA Shapes ==
  ASSUME ReqTyped, NEW r \in Reqs
  PROVE  /\ \A a : Told(reqs, r, a) = [reqs EXCEPT ![r] = ToldTo(reqs[r], a)]
         /\ GivesUp(reqs, r) = [reqs EXCEPT ![r] = GivenUp(reqs[r])]
         /\ [reqs EXCEPT ![r].host = "open", ![r].tries = @ + 1] = [reqs EXCEPT ![r] = Tried(reqs[r])]
         /\ \A a : Told([reqs EXCEPT ![r].host = "sent"], r, a) = [reqs EXCEPT ![r] = ToldTo(Sent(reqs[r]), a)]
         /\ \A h : [reqs EXCEPT ![r].host = "sent", ![r].handler = h]
                     = [reqs EXCEPT ![r] = [Sent(reqs[r]) EXCEPT !.handler = h]]
         /\ [GivesUp(reqs, r) EXCEPT ![r].unheard = TRUE]
              = [reqs EXCEPT ![r] = [GivenUp(reqs[r]) EXCEPT !.unheard = TRUE]]
         /\ [Told(reqs, r, "error") EXCEPT ![r].unheard = TRUE]
              = [reqs EXCEPT ![r] = [ToldTo(reqs[r], "error") EXCEPT !.unheard = TRUE]]
<1>1. reqs \in [Reqs -> ReqRecs]
  BY DEF ReqTyped
<1>2. \A a : Told(reqs, r, a) = [reqs EXCEPT ![r] = ToldTo(reqs[r], a)]
  BY <1>1 DEF Told, ToldTo
<1>3. GivesUp(reqs, r) = [reqs EXCEPT ![r] = GivenUp(reqs[r])]
  BY <1>1 DEF GivesUp, GivenUp
<1>4. [reqs EXCEPT ![r].host = "open", ![r].tries = @ + 1] = [reqs EXCEPT ![r] = Tried(reqs[r])]
  BY <1>1 DEF Tried
<1>5. \A a : Told([reqs EXCEPT ![r].host = "sent"], r, a) = [reqs EXCEPT ![r] = ToldTo(Sent(reqs[r]), a)]
  <2> DEFINE q  == Sent(reqs[r])
             rs == [reqs EXCEPT ![r] = q]
  <2>1. [reqs EXCEPT ![r].host = "sent"] = rs
    BY <1>1 DEF Sent
  <2>2. rs[r] = q /\ \A p : [rs EXCEPT ![r] = p] = [reqs EXCEPT ![r] = p]
    BY <1>1
  <2>3. \A a : Told(rs, r, a) = [rs EXCEPT ![r] = ToldTo(rs[r], a)]
    <3>1. rs = [p \in Reqs |-> rs[p]]
      BY <1>1
    <3> HIDE DEF rs
    <3> QED
      BY <3>1 DEF Told, ToldTo
  <2> HIDE DEF q, rs
  <2>4. \A a : Told(rs, r, a) = [reqs EXCEPT ![r] = ToldTo(q, a)]
    BY <2>2, <2>3
  <2> QED
    BY <2>1, <2>4 DEF q
<1>6. \A h : [reqs EXCEPT ![r].host = "sent", ![r].handler = h]
                     = [reqs EXCEPT ![r] = [Sent(reqs[r]) EXCEPT !.handler = h]]
  BY <1>1 DEF Sent
<1>7. [GivesUp(reqs, r) EXCEPT ![r].unheard = TRUE]
              = [reqs EXCEPT ![r] = [GivenUp(reqs[r]) EXCEPT !.unheard = TRUE]]
  BY <1>1, <1>3
<1>8. [Told(reqs, r, "error") EXCEPT ![r].unheard = TRUE]
              = [reqs EXCEPT ![r] = [ToldTo(reqs[r], "error") EXCEPT !.unheard = TRUE]]
  BY <1>1, <1>2
<1> QED
  BY <1>2, <1>3, <1>4, <1>5, <1>6, <1>7, <1>8

\* q became p, and only what is named changed.
Became(q, p, host, handler, answer) ==
  /\ p \in ReqRecs /\ p.host = host /\ p.handler = handler /\ p.answer = answer
  /\ (p.unheard <=> q.unheard) /\ (p.restored <=> q.restored)
  /\ p.from = q.from

Hosts == {"none", "open", "sent", "answered", "done"}
LEMMA ToldFields ==
  ASSUME NEW q \in ReqRecs, NEW host \in Hosts, NEW answer \in AnswerKinds \cup {"none"}, NEW out \in Outs
  PROVE  Became(q, [q EXCEPT !.handler = "none", !.out = out, !.host = host, !.answer = answer], host, "none", answer)
<1> DEFINE p == [q EXCEPT !.handler = "none", !.out = out, !.host = host, !.answer = answer]
<1>1. p \in ReqRecs
  BY DEF ReqRecs, AnswerKinds, Hosts
<1>2. p.host = host /\ p.handler = "none" /\ p.answer = answer /\ p.from = q.from
      /\ p.unheard = q.unheard /\ p.restored = q.restored
  BY DEF ReqRecs
<1>3. Became(q, p, host, "none", answer)
  <2> HIDE DEF p
  <2> QED BY <1>1, <1>2 DEF Became
<1> QED
  BY <1>3

LEMMA TriedFields ==
  ASSUME NEW q \in ReqRecs, NEW n \in Nat
  PROVE  Became(q, [q EXCEPT !.host = "open", !.tries = n], "open", q.handler, q.answer)
<1> DEFINE p == [q EXCEPT !.host = "open", !.tries = n]
<1>1. p \in ReqRecs
  BY DEF ReqRecs
<1>2. p.host = "open" /\ p.handler = q.handler /\ p.answer = q.answer /\ p.from = q.from
      /\ p.unheard = q.unheard /\ p.restored = q.restored
  BY DEF ReqRecs
<1>3. Became(q, p, "open", q.handler, q.answer)
  <2> HIDE DEF p
  <2> QED BY <1>1, <1>2 DEF Became
<1> QED
  BY <1>3

LEMMA OutFields ==
  ASSUME NEW q \in ReqRecs, NEW out \in Outs
  PROVE  Became(q, [q EXCEPT !.out = out], q.host, q.handler, q.answer)
<1> DEFINE p == [q EXCEPT !.out = out]
<1>1. p \in ReqRecs
  BY DEF ReqRecs
<1>2. p.host = q.host /\ p.handler = q.handler /\ p.answer = q.answer /\ p.from = q.from
      /\ p.unheard = q.unheard /\ p.restored = q.restored
  BY DEF ReqRecs
<1>3. Became(q, p, q.host, q.handler, q.answer)
  <2> HIDE DEF p
  <2> QED BY <1>1, <1>2 DEF Became
<1> QED
  BY <1>3

LEMMA Records ==
  ASSUME NEW q \in ReqRecs
  PROVE  /\ Became(q, Tried(q), "open", q.handler, q.answer)
         /\ Became(q, GivenUp(q), "answered", q.handler, "error")
         /\ \A a \in AnswerKinds : Became(q, ToldTo(q, a), IF q.host = "sent" THEN "answered" ELSE q.host, "none",
                                        IF q.host = "sent" THEN a ELSE q.answer)
         /\ Became(q, Sent(q), "sent", q.handler, q.answer)
         /\ \A h \in {"none", "prompt", "add"} : Became(q, [q EXCEPT !.handler = h], q.host, h, q.answer)
         /\ LET p == [q EXCEPT !.unheard = TRUE]
            IN p \in ReqRecs /\ p.host = q.host /\ p.handler = q.handler /\ p.answer = q.answer /\ p.unheard
               /\ (p.restored <=> q.restored) /\ p.from = q.from
<1>1. Became(q, Tried(q), "open", q.handler, q.answer)
  <2>1. PICK n \in Nat : n = q.tries + 1
    BY DEF ReqRecs
  <2>2. Became(q, [q EXCEPT !.host = "open", !.tries = n], "open", q.handler, q.answer)
    BY Zenon, TriedFields
  <2>3. Tried(q) = [q EXCEPT !.host = "open", !.tries = n]
    BY <2>1 DEF Tried
  <2> QED
    BY Zenon, <2>2, <2>3
<1>2. Became(q, GivenUp(q), "answered", q.handler, "error")
  BY DEF ReqRecs, GivenUp, Became
<1>3. ASSUME NEW a \in AnswerKinds
      PROVE  Became(q, ToldTo(q, a), IF q.host = "sent" THEN "answered" ELSE q.host, "none",
                    IF q.host = "sent" THEN a ELSE q.answer)
  <2>1. CASE q.host = "sent"
    <3>0. PICK out \in Outs : out = 0
      BY DEF Outs
    <3>1. ToldTo(q, a) = [q EXCEPT !.handler = "none", !.out = out, !.host = "answered", !.answer = a]
      BY <2>1, <3>0 DEF ToldTo
    <3>2. "answered" \in Hosts /\ a \in AnswerKinds \cup {"none"}
      BY DEF Hosts
    <3>3. Became(q, [q EXCEPT !.handler = "none", !.out = out, !.host = "answered", !.answer = a],
                 "answered", "none", a)
      BY Zenon, <3>2, ToldFields
    <3>4. Became(q, ToldTo(q, a), "answered", "none", a)
      BY Zenon, <3>1, <3>3
    <3> QED
      BY <2>1, <3>4
  <2>2. CASE q.host # "sent"
    <3>0. PICK out \in Outs : out = 0
      BY DEF Outs
    <3>1. ToldTo(q, a) = [q EXCEPT !.handler = "none", !.out = out, !.host = q.host, !.answer = q.answer]
      BY <2>2, <3>0 DEF ToldTo
    <3>2. q.host \in Hosts /\ q.answer \in AnswerKinds \cup {"none"}
      BY DEF ReqRecs, Hosts, AnswerKinds
    <3>3. Became(q, [q EXCEPT !.handler = "none", !.out = out, !.host = q.host, !.answer = q.answer],
                 q.host, "none", q.answer)
      BY Zenon, <3>2, ToldFields
    <3>4. Became(q, ToldTo(q, a), q.host, "none", q.answer)
      BY Zenon, <3>1, <3>3
    <3> QED
      BY <2>2, <3>4
  <2> QED
    BY <2>1, <2>2
<1>4. Became(q, Sent(q), "sent", q.handler, q.answer)
  BY DEF ReqRecs, Sent, Became
<1>5. ASSUME NEW h \in {"none", "prompt", "add"} PROVE Became(q, [q EXCEPT !.handler = h], q.host, h, q.answer)
  BY DEF ReqRecs, Became
<1>6. LET p == [q EXCEPT !.unheard = TRUE]
      IN p \in ReqRecs /\ p.host = q.host /\ p.handler = q.handler /\ p.answer = q.answer /\ p.unheard
         /\ (p.restored <=> q.restored) /\ p.from = q.from
  BY DEF ReqRecs
<1> QED
  BY <1>1, <1>2, <1>3, <1>4, <1>5, <1>6

LEMMA TriedSound ==
  ASSUME NEW q \in ReqRecs, Sound(q), q.host = "open" \/ (q.host = "sent" /\ q.handler = "none")
  PROVE  /\ Tried(q) \in ReqRecs /\ Sound(Tried(q)) /\ (Due(q) => Due(Tried(q))) /\ Shrinks(q, Tried(q))
         /\ GivenUp(q) \in ReqRecs /\ Sound(GivenUp(q)) /\ (Due(q) => Due(GivenUp(q))) /\ Shrinks(q, GivenUp(q))
BY ZenonT(60), Records DEF Became, Sound, Due, Shrinks

LEMMA ToldSound ==
  ASSUME NEW q \in ReqRecs, Sound(q), NEW a \in AnswerKinds
  PROVE  /\ ToldTo(q, a) \in ReqRecs /\ Sound(ToldTo(q, a)) /\ Shrinks(q, ToldTo(q, a))
         /\ q.handler # "add" \/ a \in {"queued", "duplicate"} => (Due(q) => Due(ToldTo(q, a)))
<1>1. Became(q, ToldTo(q, a), IF q.host = "sent" THEN "answered" ELSE q.host, "none",
             IF q.host = "sent" THEN a ELSE q.answer)
  BY Records
<1> QED
  BY <1>1 DEF Became, Sound, Due, Shrinks

\* The answer of one that nobody hears any more.
LEMMA UnheardSound ==
  ASSUME NEW q \in ReqRecs, Sound(q), q.host = "sent" \/ q.handler # "none"
  PROVE  /\ q.host = "sent" =>
              LET p == [GivenUp(q) EXCEPT !.unheard = TRUE] IN p \in ReqRecs /\ Sound(p) /\ Due(p) /\ Shrinks(q, p)
         /\ LET p == [ToldTo(q, "error") EXCEPT !.unheard = TRUE] IN p \in ReqRecs /\ Sound(p) /\ Due(p) /\ Shrinks(q, p)
<1>1. Became(q, GivenUp(q), "answered", q.handler, "error")
  BY Records
<1>2. Became(q, ToldTo(q, "error"), IF q.host = "sent" THEN "answered" ELSE q.host, "none",
             IF q.host = "sent" THEN "error" ELSE q.answer)
  BY Records DEF AnswerKinds
<1>3. ASSUME q.host = "sent"
      PROVE  LET p == [GivenUp(q) EXCEPT !.unheard = TRUE] IN p \in ReqRecs /\ Sound(p) /\ Due(p) /\ Shrinks(q, p)
  <2> DEFINE g == GivenUp(q)
             p == [g EXCEPT !.unheard = TRUE]
  <2>1. p \in ReqRecs /\ p.host = g.host /\ p.handler = g.handler /\ p.unheard /\ (p.restored <=> g.restored)
        /\ p.from = g.from
    BY <1>1, Records DEF Became
  <2> HIDE DEF p
  <2>2. p \in ReqRecs /\ Sound(p) /\ Due(p) /\ Shrinks(q, p)
    BY <1>1, <1>3, <2>1 DEF Became, Sound, Due, Shrinks
  <2> QED
    BY <2>2 DEF p
<1>4. LET p == [ToldTo(q, "error") EXCEPT !.unheard = TRUE] IN p \in ReqRecs /\ Sound(p) /\ Due(p) /\ Shrinks(q, p)
  <2> DEFINE g == ToldTo(q, "error")
             p == [g EXCEPT !.unheard = TRUE]
  <2>1. p \in ReqRecs /\ p.host = g.host /\ p.handler = g.handler /\ p.unheard /\ (p.restored <=> g.restored)
        /\ p.from = g.from
    BY <1>2, Records DEF Became
  <2> HIDE DEF p
  <2>2. p \in ReqRecs /\ Sound(p) /\ Due(p) /\ Shrinks(q, p)
    BY <1>2, <2>1 DEF Became, Sound, Due, Shrinks
  <2> QED
    BY <2>2 DEF p
<1> QED
  BY <1>3, <1>4

\* The server's first answer, or its waiting handler.
LEMMA SentSound ==
  ASSUME NEW q \in ReqRecs, Sound(q), q.host = "open"
  PROVE  /\ \A a \in AnswerKinds : ToldTo(Sent(q), a) \in ReqRecs /\ Sound(ToldTo(Sent(q), a))
                                /\ (Due(q) => Due(ToldTo(Sent(q), a))) /\ Shrinks(q, ToldTo(Sent(q), a))
         /\ \A h \in {"prompt", "add"} :
              /\ [Sent(q) EXCEPT !.handler = h] \in ReqRecs /\ Sound([Sent(q) EXCEPT !.handler = h])
              /\ (h = "add" \/ Due(q) => Due([Sent(q) EXCEPT !.handler = h]))
              /\ Shrinks(q, [Sent(q) EXCEPT !.handler = h])
<1>1. Became(q, Sent(q), "sent", q.handler, q.answer)
  BY Records
<1>2. \A a \in AnswerKinds : Became(Sent(q), ToldTo(Sent(q), a), "answered", "none", a)
  <2> DEFINE p == Sent(q)
  <2>1. p \in ReqRecs /\ p.host = "sent"
    BY <1>1 DEF Became
  <2> HIDE DEF p
  <2>2. \A a \in AnswerKinds : Became(p, ToldTo(p, a), IF p.host = "sent" THEN "answered" ELSE p.host, "none",
                                  IF p.host = "sent" THEN a ELSE p.answer)
    BY <2>1, Records
  <2>3. \A a \in AnswerKinds : Became(p, ToldTo(p, a), "answered", "none", a)
    BY <2>1, <2>2
  <2> QED
    BY <2>3 DEF p
<1>3. \A h \in {"prompt", "add"} : Became(Sent(q), [Sent(q) EXCEPT !.handler = h], "sent", h, q.answer)
  <2> DEFINE p == Sent(q)
  <2>1. p \in ReqRecs /\ p.host = "sent" /\ p.answer = q.answer
    BY <1>1 DEF Became
  <2> HIDE DEF p
  <2>2. \A h \in {"none", "prompt", "add"} : Became(p, [p EXCEPT !.handler = h], p.host, h, p.answer)
    BY <2>1, Records
  <2>3. \A h \in {"prompt", "add"} : Became(p, [p EXCEPT !.handler = h], "sent", h, q.answer)
    BY <2>1, <2>2
  <2> QED
    BY <2>3 DEF p
<1>4. ASSUME NEW a \in AnswerKinds
      PROVE  ToldTo(Sent(q), a) \in ReqRecs /\ Sound(ToldTo(Sent(q), a)) /\ (Due(q) => Due(ToldTo(Sent(q), a))) /\ Shrinks(q, ToldTo(Sent(q), a))
  BY <1>1, <1>2 DEF Became, Sound, Due, Shrinks
<1>5. ASSUME NEW h \in {"prompt", "add"}
      PROVE  /\ [Sent(q) EXCEPT !.handler = h] \in ReqRecs /\ Sound([Sent(q) EXCEPT !.handler = h])
             /\ (h = "add" \/ Due(q) => Due([Sent(q) EXCEPT !.handler = h]))
              /\ Shrinks(q, [Sent(q) EXCEPT !.handler = h])
  <2> DEFINE p == [Sent(q) EXCEPT !.handler = h]
  <2>1. Became(Sent(q), p, "sent", h, q.answer)
    BY <1>3
  <2> HIDE DEF p
  <2>2. p \in ReqRecs /\ Sound(p) /\ (h = "add" \/ Due(q) => Due(p)) /\ Shrinks(q, p)
    BY <1>1, <2>1 DEF Became, Sound, Due, Shrinks
  <2> QED
    BY <2>2 DEF p
<1> QED
  BY <1>4, <1>5

\* What Known looks at.
SameKnown == app'.adds = app.adds /\ app'.adding = app.adding /\ app'.jobs = app.jobs /\ app'.disk = app.disk
LEMMA KnownSame == ASSUME SameKnown, NEW q \in Reqs PROVE Known(q)' => Known(q)
BY DEF SameKnown, Known

LEMMA SetOfAppended ==
  ASSUME NEW X, NEW s \in Seq(X), NEW x \in X PROVE ToSet(Append(s, x)) = ToSet(s) \cup {x}
<1>1. DOMAIN Append(s, x) = 1..(Len(s) + 1) /\ DOMAIN s = 1..Len(s) /\ Len(s) \in Nat
  OBVIOUS
<1>2. Append(s, x)[Len(s) + 1] = x /\ \A i \in 1..Len(s) : Append(s, x)[i] = s[i]
  OBVIOUS
<1> DEFINE t == Append(s, x)
<1>3. ToSet(t) = {t[i] : i \in DOMAIN t} /\ ToSet(s) = {s[i] : i \in DOMAIN s}
  BY DEF ToSet
<1>4. Len(s) + 1 \in DOMAIN t /\ \A i \in DOMAIN t : i \in DOMAIN s \/ i = Len(s) + 1
  BY <1>1
<1> HIDE DEF t
<1> QED
  BY <1>1, <1>2, <1>3, <1>4 DEF t

\* r, and nobody else, is added to the engine's queue.
LEMMA KnownAppended ==
  ASSUME AppTyped, NEW r \in Reqs \cup {0}, app' = [app EXCEPT !.adds = Append(@, r)], NEW q \in Reqs
  PROVE  Known(q)' => Known(q) \/ q = r
<1>1. /\ app'.adds = Append(app.adds, r) /\ app'.adding = app.adding /\ app'.jobs = app.jobs /\ app'.disk = app.disk
      /\ app.adds \in Seq(Reqs \cup {0})
  BY DEF AppTyped, AppRecs
<1>2. ToSet(Append(app.adds, r)) \subseteq ToSet(app.adds) \cup {r}
  BY <1>1, SetOfAppended
<1>3. q \in ToSet(app'.adds) => q \in ToSet(app.adds) \/ q = r
  BY <1>1, <1>2
<1> QED
  BY <1>1, <1>3 DEF Known

\* The first of the queue is taken.
LEMMA HeadKnown ==
  ASSUME AppTyped, app.adds # <<>>
  PROVE  /\ Head(app.adds) \in ToSet(app.adds) /\ Tail(app.adds) \in Seq(Reqs \cup {0})
         /\ ToSet(Tail(app.adds)) \subseteq ToSet(app.adds)
BY DEF AppTyped, AppRecs, ToSet

LEMMA ProcessOwed ==
  ASSUME AppTyped, ReqTyped, AllOwed, ProcessEnds PROVE Kept
<1>1. app' = [app EXCEPT !.up = FALSE, !.jobs = app.disk, !.adds = <<>>, !.adding = 0, !.job = 0]
  BY LostMemory
<1>2. app'.jobs = app.disk /\ app'.disk = app.disk /\ app'.adds = <<>> /\ app'.adding = 0
  BY <1>1 DEF AppTyped, AppRecs
<1>3. ASSUME NEW q \in Reqs, Known(q)' PROVE Known(q)
  <2>1. ToSet(<<>>) = {}
    BY DEF ToSet
  <2> QED
    BY <1>2, <1>3, <2>1 DEF Known, Reqs
<1>4. ASSUME NEW r \in Reqs
      PROVE  reqs'[r] \in ReqRecs /\ Sound(reqs'[r]) /\ (Due(reqs[r]) => Due(reqs'[r]))
             /\ Shrinks(reqs[r], reqs'[r])
  <2> DEFINE un == reqs[r].unheard \/ reqs[r].handler = "add"
  <2>1. reqs'[r] = [reqs[r] EXCEPT !.handler = "none", !.out = 0, !.unheard = un]
    BY Zenon DEF ProcessEnds
  <2>2. reqs[r] \in ReqRecs /\ Sound(reqs[r]) /\ un \in BOOLEAN /\ (un => reqs[r].unheard \/ reqs[r].handler = "add")
        /\ (reqs[r].unheard \/ reqs[r].handler = "add" => un)
    BY DEF ReqTyped, AllOwed, ReqRecs
  <2> HIDE DEF un
  <2>3. PICK out \in Outs : out = 0
    BY DEF Outs
  <2> DEFINE p == [reqs[r] EXCEPT !.handler = "none", !.out = out, !.unheard = un]
  <2>4. reqs'[r] = p
    BY <2>1, <2>3
  <2>5. p \in ReqRecs
    BY <2>2 DEF ReqRecs
  <2>6. p.host = reqs[r].host /\ p.handler = "none" /\ p.answer = reqs[r].answer
        /\ p.unheard = un /\ p.restored = reqs[r].restored /\ p.from = reqs[r].from
    BY <2>2 DEF ReqRecs
  <2> HIDE DEF p
  <2>7. Sound(p) /\ (Due(reqs[r]) => Due(p)) /\ Shrinks(reqs[r], p)
    BY <2>2, <2>6 DEF Sound, Due, Shrinks
  <2> QED
    BY <2>4, <2>5, <2>7
<1>5. reqs' = [r \in Reqs |-> reqs'[r]]
  BY Zenon DEF ProcessEnds
<1>6. ReqTyped'
  BY <1>4, <1>5 DEF ReqTyped
<1>7. AllOwed'
  BY <1>3, <1>4 DEF AllOwed
<1>8. Out' \subseteq Out
  BY <1>4 DEF Out, Shrinks
<1> QED
  BY <1>6, <1>7, <1>8 DEF Kept

LEMMA NewReqTyped ==
  /\ NewReq \in ReqRecs /\ NewReq.host = "none" /\ NewReq.handler = "none" /\ ~NewReq.unheard /\ ~NewReq.restored
  /\ NewReq.from = "none"
BY DEF NewReq, ReqRecs, Outs

LEMMA RelayOwed ==
  ASSUME AppInv, ReqTyped, AllOwed, RelaySteps \/ RelayOthers PROVE Kept
<1>0. AppTyped /\ app \in AppRecs /\ reqs \in [Reqs -> ReqRecs]
  BY DEF AppInv, AppTyped, ReqTyped
<1>k. UNCHANGED app => SameKnown
  BY DEF SameKnown
<1>s. \A r \in Reqs : reqs[r] \in ReqRecs /\ Sound(reqs[r]) /\ (Known(r) => Due(reqs[r]))
  BY <1>0 DEF AllOwed
<1>1. ASSUME NEW r \in Reqs, Retry(r) PROVE Kept
  <2>1. reqs[r].host = "open" \/ (reqs[r].host = "sent" /\ reqs[r].handler = "none")
    BY <1>1 DEF Retry, Unreachable, Broken
  <2>2. SameKnown
    BY <1>0, <1>1 DEF Retry, SameKnown, AppRecs
  <2>3. reqs' = [reqs EXCEPT ![r] = Tried(reqs[r])] \/ reqs' = [reqs EXCEPT ![r] = GivenUp(reqs[r])]
    <3>1. reqs' = [reqs EXCEPT ![r].host = "open", ![r].tries = @ + 1] \/ reqs' = GivesUp(reqs, r)
      BY Zenon, <1>1 DEF Retry
    <3> QED
      BY <3>1, Shapes
  <2>4. Known(r)' => Due(reqs[r])
    BY <1>s, <2>2, KnownSame
  <2> QED
    BY <1>s, <2>1, <2>2, <2>3, <2>4, KnownSame, TriedSound, OneKept
<1>2. ASSUME NEW r \in Reqs, Refused(r) PROVE Kept
  <2>1. reqs[r].host = "open" \/ (reqs[r].host = "sent" /\ reqs[r].handler = "none")
    BY <1>2 DEF Refused, Broken
  <2>2. SameKnown /\ reqs' = [reqs EXCEPT ![r] = GivenUp(reqs[r])]
    BY <1>2, <1>k, Shapes DEF Refused
  <2> QED
    BY <1>s, <2>1, <2>2, KnownSame, TriedSound, OneKept
<1>3. ASSUME NEW r \in Reqs, ForwardTimeout(r) \/ AddTimeout(r) PROVE Kept
  <2> DEFINE p == [GivenUp(reqs[r]) EXCEPT !.unheard = TRUE]
             q == [ToldTo(reqs[r], "error") EXCEPT !.unheard = TRUE]
  <2>1. CASE ForwardTimeout(r)
    <3>1. SameKnown /\ reqs' = [reqs EXCEPT ![r] = p]
      BY <2>1, <1>k, Shapes DEF ForwardTimeout
    <3>2. p \in ReqRecs /\ Sound(p) /\ Due(p) /\ Shrinks(reqs[r], p)
      BY <1>s, <2>1, UnheardSound DEF ForwardTimeout
    <3> HIDE DEF p
    <3> QED
      BY <3>1, <3>2, KnownSame, OneKept
  <2>2. CASE AddTimeout(r)
    <3>1. SameKnown /\ reqs' = [reqs EXCEPT ![r] = q]
      BY <2>2, <1>k, Shapes DEF AddTimeout
    <3>2. q \in ReqRecs /\ Sound(q) /\ Due(q) /\ Shrinks(reqs[r], q)
      BY <1>s, <2>2, UnheardSound DEF AddTimeout
    <3> HIDE DEF q
    <3> QED
      BY <3>1, <3>2, KnownSame, OneKept
  <2> QED
    BY <1>3, <2>1, <2>2
<1>4. ASSUME NEW r \in Reqs, NEW a \in AnswerKinds, Accepted(r), Answers(r, a), UNCHANGED app
      PROVE  Kept
  <2>1. reqs' = [reqs EXCEPT ![r] = ToldTo(Sent(reqs[r]), a)] /\ SameKnown
    BY <1>4, <1>k, Shapes DEF Answers
  <2>2. reqs[r].host = "open"
    BY <1>4 DEF Accepted
  <2>3. ToldTo(Sent(reqs[r]), a) \in ReqRecs /\ Sound(ToldTo(Sent(reqs[r]), a))
        /\ (Due(reqs[r]) => Due(ToldTo(Sent(reqs[r]), a))) /\ Shrinks(reqs[r], ToldTo(Sent(reqs[r]), a))
    BY <1>s, <2>2, SentSound
  <2> QED
    BY <1>s, <2>1, <2>3, KnownSame, OneKept
<1>5. ASSUME NEW r \in Reqs, NEW h \in {"prompt", "add"}, Accepted(r), Waits(r, h),
             \/ UNCHANGED app
             \/ h = "add" /\ app' = [app EXCEPT !.adds = Append(@, r)]
      PROVE  Kept
  <2> DEFINE p == [Sent(reqs[r]) EXCEPT !.handler = h]
  <2>1. reqs' = [reqs EXCEPT ![r] = p]
    BY <1>5, Shapes DEF Waits
  <2>2. reqs[r].host = "open"
    BY <1>5 DEF Accepted
  <2>3. p \in ReqRecs /\ Sound(p) /\ (h = "add" \/ Due(reqs[r]) => Due(p)) /\ Shrinks(reqs[r], p)
    BY <1>s, <2>2, SentSound
  <2>4. \A q \in Reqs : Known(q)' => Known(q) \/ (q = r /\ h = "add")
    BY <1>0, <1>k, <1>5, KnownSame, KnownAppended
  <2> HIDE DEF p
  <2> QED
    BY <1>s, <2>1, <2>3, <2>4, OneKept
<1>6. ASSUME NEW r \in Reqs, EnqueueDownload(r) PROVE Kept
  <2>1. CASE Answers(r, "duplicate") /\ UNCHANGED app
    BY <1>4, <1>6, <2>1 DEF EnqueueDownload, AnswerKinds
  <2>2. CASE Waits(r, "add") /\ app' = [app EXCEPT !.adds = Append(@, r)]
    BY <1>5, <1>6, <2>2 DEF EnqueueDownload
  <2> QED
    BY <1>6, <2>1, <2>2 DEF EnqueueDownload
<1>7. ASSUME NEW r \in Reqs, PromptDownload(r) PROVE Kept
  <2>1. Accepted(r) /\ UNCHANGED app
        /\ (Answers(r, "duplicate") \/ Answers(r, "error") \/ Waits(r, "prompt"))
    BY Zenon, <1>7 DEF PromptDownload
  <2> QED
    BY <1>4, <1>5, <2>1 DEF AnswerKinds
<1>8. ASSUME NEW r \in Reqs, Refuse(r) PROVE Kept
  BY <1>4, <1>8 DEF Refuse, AnswerKinds
<1>9. ASSUME NEW r \in Reqs, NEW a \in AnswerKinds, reqs[r].handler # "none", UNCHANGED app,
             reqs[r].handler # "add" \/ a \in {"queued", "duplicate"}, reqs' = Told(reqs, r, a)
      PROVE  Kept
  <2>1. reqs' = [reqs EXCEPT ![r] = ToldTo(reqs[r], a)] /\ SameKnown
    BY <1>9, <1>k, Shapes
  <2> QED
    BY <1>s, <1>9, <2>1, KnownSame, ToldSound, OneKept
<1>10. ASSUME NEW r \in Reqs, Decided(r) PROVE Kept
  <2>1. CASE reqs' = [reqs EXCEPT ![r].handler = "add"] /\ app' = [app EXCEPT !.adds = Append(@, r)]
    <3> DEFINE p == [reqs[r] EXCEPT !.handler = "add"]
    <3>1. reqs' = [reqs EXCEPT ![r] = p]
      BY <1>0, <2>1
    <3>2. Became(reqs[r], p, reqs[r].host, "add", reqs[r].answer)
      BY <1>s, Records
    <3>3. reqs[r].handler = "prompt"
      BY <1>10 DEF Decided
    <3> HIDE DEF p
    <3>4. p \in ReqRecs /\ Sound(p) /\ Due(p) /\ Shrinks(reqs[r], p)
      BY <1>s, <3>2, <3>3 DEF Became, Sound, Due, Shrinks
    <3> QED
      BY <1>0, <2>1, <3>1, <3>4, KnownAppended, OneKept
  <2>2. CASE reqs' = Told(reqs, r, "dismissed") /\ UNCHANGED app
    BY <1>9, <1>10, <2>2 DEF Decided, AnswerKinds
  <2> QED
    BY Zenon, <1>10, <2>1, <2>2 DEF Decided
<1>11. ASSUME NEW r \in Reqs, PromptTimeout(r) PROVE Kept
  BY <1>9, <1>11 DEF PromptTimeout, AnswerKinds
<1>12. ASSUME NEW r \in Reqs, Enqueued(r) PROVE Kept
  <2>1. PICK a \in {"queued", "duplicate"} : reqs' = Told(reqs, r, a)
    BY <1>12 DEF Enqueued
  <2> QED
    BY <1>9, <1>12, <2>1 DEF Enqueued, AnswerKinds
<1>13. CASE Click
  <2>1. PICK r \in FreeReq : reqs' = [reqs EXCEPT ![r] = [NewReq EXCEPT !.host = "open", !.from = "click"]] /\ UNCHANGED app
    BY <1>13 DEF Click
  <2> DEFINE p == [NewReq EXCEPT !.host = "open", !.from = "click"]
  <2>2. r \in Reqs /\ reqs[r].host = "none"
    BY <2>1 DEF FreeReq
  <2>3. p \in ReqRecs /\ p.host = "open" /\ p.from = "click" /\ p.handler = "none" /\ ~p.unheard /\ ~p.restored
    <3>1. NewReq \in ReqRecs /\ NewReq.handler = "none" /\ ~NewReq.unheard /\ ~NewReq.restored
      BY NewReqTyped
    <3> QED
      BY <3>1 DEF ReqRecs
  <2>4. ~Known(r)
    BY <1>s, <2>2 DEF Sound, Due
  <2> HIDE DEF p
  <2>5. Sound(p) /\ SameKnown /\ Shrinks(reqs[r], p)
    BY <2>1, <2>3, <1>k DEF Sound, Shrinks
  <2> QED
    BY <2>1, <2>2, <2>3, <2>4, <2>5, KnownSame, OneKept DEF p
<1>14. CASE Add
  <2> DEFINE r == Head(app.adds)
  <2>1. app.adds # <<>> /\ r # 0
    BY <1>14 DEF Add
  <2>a. r \in Reqs
    BY <1>0, <2>1 DEF AppRecs
  <2>2. r \in ToSet(app.adds) /\ r \in Reqs /\ ToSet(Tail(app.adds)) \subseteq ToSet(app.adds)
    BY <1>0, <2>1, <2>a, HeadKnown
  <2>3. CASE Duplicates(app.jobs, sc.url[r]) # {}
    <3>1. app' = [app EXCEPT !.adds = Tail(@)]
          /\ reqs' = [reqs EXCEPT ![r].out = IF reqs[r].handler = "add" THEN -1 ELSE @]
      BY <1>14, <2>3 DEF Add
    <3>2. PICK out \in Outs : out = IF reqs[r].handler = "add" THEN -1 ELSE reqs[r].out
      BY <1>s, <2>2 DEF ReqRecs, Outs
    <3>3. reqs' = [reqs EXCEPT ![r] = [reqs[r] EXCEPT !.out = out]]
      BY <3>1, <3>2
    <3>4. Became(reqs[r], [reqs[r] EXCEPT !.out = out], reqs[r].host, reqs[r].handler, reqs[r].answer)
      BY <1>s, <2>2, Zenon, OutFields
    <3> DEFINE p == [reqs[r] EXCEPT !.out = out]
    <3>5. p \in ReqRecs /\ Sound(p) /\ (Due(reqs[r]) => Due(p)) /\ Shrinks(reqs[r], p)
      <4> HIDE DEF p
      <4> QED BY <1>s, <2>2, <3>4 DEF p, Became, Sound, Due, Shrinks
    <3>6. app'.adds = Tail(app.adds) /\ app'.adding = app.adding /\ app'.jobs = app.jobs /\ app'.disk = app.disk
      BY <1>0, <3>1 DEF AppRecs
    <3>7. \A q \in Reqs : Known(q)' => Known(q)
      BY <2>2, <3>6 DEF Known
    <3> HIDE DEF p
    <3> QED
      BY <1>s, <2>2, <3>3, <3>5, <3>7, OneKept DEF p
  <2>4. CASE Duplicates(app.jobs, sc.url[r]) = {}
    <3>1. UNCHANGED reqs /\ \E j \in Jobs : app' = Inserted(r, j)
      BY <1>14, <2>4 DEF Add, FreeJob
    <3>2. PICK j \in Jobs : app' = Inserted(r, j)
      BY <3>1
    <3>3. app'.adds = Tail(app.adds) /\ app'.adding = r /\ app'.disk = app.disk
          /\ app'.jobs = [app.jobs EXCEPT ![j] = [st |-> "active", url |-> sc.url[r], by |-> r]]
      BY <1>0, <3>2 DEF Inserted, AppRecs
    <3>4. \A i \in Jobs : app'.jobs[i] = app.jobs[i] \/ app'.jobs[i].by = r
      BY <1>0, <3>3 DEF AppRecs, JobMaps
    <3>5. \A q \in Reqs : Known(q)' => Known(q)
      BY <2>2, <3>3, <3>4 DEF Known
    <3> QED
      BY <3>1, <3>5, NoReq
  <2> QED
    BY <2>3, <2>4
<1>15. CASE AddSaved
  <2> DEFINE r == app.adding
  <2>1. r \in Reqs /\ app' = [app EXCEPT !.adding = 0, !.job = 0, !.disk = app.jobs]
        /\ reqs' = [reqs EXCEPT ![r].out = IF reqs[r].handler = "add" THEN app.job ELSE @]
    BY <1>0, <1>15 DEF AddSaved, AppRecs
  <2>2. PICK out \in Outs : out = IF reqs[r].handler = "add" THEN app.job ELSE reqs[r].out
    <3>1. app.job \in Outs /\ reqs[r].out \in Outs
      BY <1>0, <1>s, <2>1 DEF AppRecs, ReqRecs, Outs
    <3> QED
      BY <3>1
  <2>3. reqs' = [reqs EXCEPT ![r] = [reqs[r] EXCEPT !.out = out]]
    BY <2>1, <2>2
  <2>4. Became(reqs[r], [reqs[r] EXCEPT !.out = out], reqs[r].host, reqs[r].handler, reqs[r].answer)
    BY <1>s, <2>1, Zenon, OutFields
  <2> DEFINE p == [reqs[r] EXCEPT !.out = out]
  <2>5. p \in ReqRecs /\ Sound(p) /\ (Due(reqs[r]) => Due(p)) /\ Shrinks(reqs[r], p)
    <3> HIDE DEF p
    <3> QED BY <1>s, <2>1, <2>4 DEF p, Became, Sound, Due, Shrinks
  <2>6. app'.adds = app.adds /\ app'.adding = 0 /\ app'.jobs = app.jobs /\ app'.disk = app.jobs
    BY <1>0, <2>1 DEF AppRecs
  <2>7. \A q \in Reqs : Known(q)' => Known(q)
    BY <2>6 DEF Known, Reqs
  <2> HIDE DEF p
  <2> QED
    BY <1>s, <2>1, <2>3, <2>5, <2>7, OneKept DEF p
<1>16. CASE JobEnds \/ RemoveJob
  <2>1. PICK j \in Jobs, st \in {"done", "failed", "gone"} :
          app' = [app EXCEPT !.jobs[j].st = st, !.disk = [app.jobs EXCEPT ![j].st = st]]
    BY <1>16 DEF JobEnds, RemoveJob, Endings
  <2> DEFINE after == [app.jobs EXCEPT ![j].st = st]
  <2>2. app'.adds = app.adds /\ app'.adding = app.adding /\ app'.jobs = after /\ app'.disk = after
    BY <1>0, <2>1 DEF AppRecs
  <2>3. \A i \in Jobs : after[i].by = app.jobs[i].by
    BY <1>0 DEF AppRecs, JobMaps, JobRecs, NoJob
  <2> HIDE DEF after
  <2>4. \A q \in Reqs : Known(q)' => Known(q)
    BY <2>2, <2>3 DEF Known
  <2>5. UNCHANGED reqs
    BY <1>16 DEF JobEnds, RemoveJob
  <2> QED
    BY SMTT(60), <2>4, <2>5, NoReq
<1>17. CASE AppDies
  BY <1>0, <1>17, ProcessOwed DEF AppDies
<1>18. CASE AppStarts \/ SecondInstance
  <2>1. SameKnown /\ UNCHANGED reqs
    BY <1>0, <1>18 DEF AppStarts, SecondInstance, SameKnown, AppRecs
  <2> QED
    BY <1>0, <2>1, KnownSame, NoReq
<1> QED
  BY <1>1, <1>2, <1>3, <1>6, <1>7, <1>8, <1>10, <1>11, <1>12, <1>13, <1>14, <1>15, <1>16, <1>17, <1>18
     DEF RelaySteps, RelayOthers

LEMMA CaptureOwed ==
  ASSUME ReqTyped, AllOwed, CaptureSteps \/ CaptureOthers PROVE (ReqTyped /\ AllOwed)'
<1>0. reqs \in [Reqs -> ReqRecs] /\ SameKnown
  BY CaptureFrame DEF ReqTyped, SameKnown
<1>1. \A r \in Reqs : reqs[r] \in ReqRecs /\ Sound(reqs[r]) /\ (Known(r) => Due(reqs[r])) /\ (Known(r)' => Known(r))
  BY <1>0, KnownSame DEF AllOwed
<1>2. CASE UNCHANGED reqs
  BY <1>1, <1>2 DEF ReqTyped, AllOwed
<1>3. ASSUME NEW k \in Items, HandOff(k) PROVE (ReqTyped /\ AllOwed)'
  <2>1. PICK r \in FreeReq :
          reqs' = [reqs EXCEPT ![r] = [NewReq EXCEPT !.host = "open", !.from = "capture", !.item = k]]
    BY <1>3 DEF HandOff
  <2> DEFINE p == [NewReq EXCEPT !.host = "open", !.from = "capture", !.item = k]
  <2>2. r \in Reqs /\ reqs[r].host = "none"
    BY <2>1 DEF FreeReq
  <2>3. p \in ReqRecs /\ p.host = "open" /\ p.handler = "none" /\ ~p.unheard /\ ~p.restored
    <3>1. NewReq \in ReqRecs /\ NewReq.handler = "none" /\ ~NewReq.unheard /\ ~NewReq.restored
      BY NewReqTyped
    <3> QED
      BY <3>1 DEF ReqRecs
  <2>4. ~Known(r)
    BY <1>1, <2>2 DEF Sound, Due
  <2> HIDE DEF p
  <2>5. Sound(p)
    BY <2>3 DEF Sound
  <2> QED
    BY <1>1, <2>1, <2>2, <2>3, <2>4, <2>5, OneReq DEF p
<1>4. ASSUME NEW r \in Reqs, Answered(r) PROVE (ReqTyped /\ AllOwed)'
  <2> DEFINE back == reqs[r].from = "capture" /\ OutcomeOf(reqs[r].answer) = "restoring"
             p    == [reqs[r] EXCEPT !.host = "done", !.restored = back]
  <2>1. reqs' = [reqs EXCEPT ![r].host = "done", ![r].restored = back]
    BY Zenon, <1>4 DEF Answered
  <2>2. back \in BOOLEAN /\ (back => OutcomeOf(reqs[r].answer) = "restoring") /\ reqs[r].host = "answered"
    BY <1>4 DEF Answered
  <2> HIDE DEF back
  <2>3. reqs' = [reqs EXCEPT ![r] = p]
    BY <1>0, <2>1
  <2>4. /\ p \in ReqRecs /\ p.host = "done" /\ p.restored = back /\ p.handler = reqs[r].handler
        /\ p.answer = reqs[r].answer /\ p.unheard = reqs[r].unheard
    BY <1>1, <2>2 DEF ReqRecs
  <2> HIDE DEF p
  <2>5. Sound(p) /\ (Due(reqs[r]) => Due(p))
    BY <1>1, <2>2, <2>4 DEF Sound, Due, OutcomeOf
  <2> QED
    BY <1>1, <2>3, <2>4, <2>5, OneReq
<1>5. CASE Kill
  <2>1. reqs' = [r \in Reqs |-> IF reqs[r].from = "capture" THEN [reqs[r] EXCEPT !.from = "forgotten"] ELSE reqs[r]]
    BY <1>5 DEF Kill
  <2>2. ASSUME NEW r \in Reqs
        PROVE  reqs'[r] \in ReqRecs /\ Sound(reqs'[r]) /\ (Due(reqs[r]) => Due(reqs'[r]))
    <3> DEFINE p == [reqs[r] EXCEPT !.from = "forgotten"]
    <3>1. /\ p \in ReqRecs /\ p.host = reqs[r].host /\ p.restored = reqs[r].restored
          /\ p.handler = reqs[r].handler /\ p.answer = reqs[r].answer /\ p.unheard = reqs[r].unheard
      BY <1>1 DEF ReqRecs
    <3>2. reqs'[r] = p \/ reqs'[r] = reqs[r]
      BY <2>1
    <3> HIDE DEF p
    <3> QED
      BY <1>1, <3>1, <3>2 DEF Sound, Due
  <2> QED
    BY <1>1, <2>1, <2>2 DEF ReqTyped, AllOwed
<1> QED
  BY <1>2, <1>3, <1>4, <1>5
     DEF CaptureSteps, CaptureOthers, Hydrate, Replay, Persist, EarlyRequest, EarlyCreated, FirefoxRequest,
         Created, Finalize, UserStarts, Expire

LEMMA UpdaterOwed ==
  ASSUME AppTyped, ReqTyped, AllOwed, UpdaterSteps \/ UpdaterOthers PROVE Kept
<1>1. CASE ProcessEnds
  BY <1>1, ProcessOwed
<1>2. CASE UNCHANGED reqs /\ (UNCHANGED app \/ Drains \/ DrainAnswered \/ StartsAgain)
  <2>0. 0 \notin Reqs
    BY DEF Reqs
  <2>1. ASSUME NEW q \in Reqs, Known(q)' PROVE Known(q)
    <3>1. CASE UNCHANGED app
      BY <2>1, <3>1, KnownSame DEF SameKnown
    <3>2. CASE Drains
      BY <2>0, <2>1, <3>2, KnownAppended DEF Drains
    <3>3. CASE DrainAnswered
      <4>1. app'.adds = Tail(app.adds) /\ app'.adding = app.adding /\ app'.jobs = app.jobs /\ app'.disk = app.disk
        BY <3>3 DEF DrainAnswered, AppTyped, AppRecs
      <4>2. ToSet(Tail(app.adds)) \subseteq ToSet(app.adds)
        BY <3>3, HeadKnown DEF DrainAnswered
      <4> QED
        BY <2>1, <4>1, <4>2 DEF Known
    <3>4. CASE StartsAgain
      BY <2>1, <3>4, KnownSame DEF StartsAgain, SameKnown, AppTyped, AppRecs
    <3> QED
      BY <1>2, <3>1, <3>2, <3>3, <3>4
  <2> QED
    BY <1>2, <2>1, NoReq
<1> QED
  BY <1>1, <1>2, UpdaterFrame

OwedInv == AppInv /\ ReqTyped /\ AllOwed

LEMMA OwedNext == ASSUME OwedInv, [Next]_vars PROVE OwedInv'
<1>0. AppInv /\ AppTyped /\ ReqTyped /\ AllOwed
  BY DEF OwedInv, AppInv
<1>1. AppInv'
  BY <1>0, AppNext
<1>2. CASE UNCHANGED <<reqs, app>>
  <2>1. \A q \in Reqs : Known(q)' => Known(q)
    BY <1>2, KnownSame DEF SameKnown
  <2> QED
    BY <1>0, <1>1, <1>2, <2>1 DEF OwedInv, ReqTyped, AllOwed
<1> QED
  BY <1>0, <1>1, <1>2, Cases, CaptureOwed, RelayOwed, HudFrame, UpdaterOwed DEF OwedInv, Kept, vars

LEMMA OwedInit == ASSUME Init PROVE OwedInv
<1>1. reqs = [r \in Reqs |-> NewReq] /\ app.adds = <<>> /\ app.adding = 0
      /\ app.jobs = [j \in Jobs |-> NoJob] /\ app.disk = [j \in Jobs |-> NoJob]
  BY DEF Init
<1>2. \A r \in Reqs : ~Known(r)
  <2>1. ToSet(<<>>) = {} /\ NoJob.by = 0 /\ 0 \notin Reqs
    BY DEF ToSet, NoJob, Reqs
  <2> QED
    BY <1>1, <2>1 DEF Known
<1>3. Sound(NewReq)
  BY NewReqTyped DEF Sound
<1>4. ReqTyped /\ AllOwed
  BY <1>1, <1>2, <1>3, NewReqTyped DEF ReqTyped, AllOwed
<1> QED
  BY <1>4, AppInit DEF OwedInv

\* A download goes back to the browser only when the application has no job from it, or its
\* answer was lost on the way: whatever the native host sends again, however the engine and the
\* handler race, and wherever the process ends (classifyHandoffResponse).
THEOREM NeverBoth == Spec => []NotBoth
<1>1. Init => OwedInv
  BY OwedInit
<1>2. OwedInv /\ [Next]_vars => OwedInv'
  BY OwedNext
<1>3. OwedInv => NotBoth
  <2> SUFFICES ASSUME OwedInv, NEW j \in Jobs, app.jobs[j].by # 0, reqs[app.jobs[j].by].restored
               PROVE  reqs[app.jobs[j].by].unheard
    BY DEF NotBoth
  <2>1. app.jobs[j].by \in Reqs
    BY AppFields DEF OwedInv, JobMaps, JobRecs, NoJob
  <2>2. Known(app.jobs[j].by)
    BY <2>1 DEF Known
  <2>3. Sound(reqs[app.jobs[j].by]) /\ Due(reqs[app.jobs[j].by])
    BY <2>1, <2>2 DEF OwedInv, AllOwed
  <2> QED
    BY <2>3 DEF Sound, Due
<1> QED
  BY <1>1, <1>2, <1>3, PTL DEF Spec

-----------------------------------------------------------------------------
(* The sessions.                                                           *)

ItemsTyped == items \in [Items -> ItemRecs]

\* One download of the browser changes.
LEMMA OneItem ==
  ASSUME ItemsTyped, NEW k \in Items, NEW p \in ItemRecs, items' = [items EXCEPT ![k] = p]
  PROVE  /\ ItemsTyped' /\ items'[k] = p /\ \A l \in Items : l # k => items'[l] = items[l]
         /\ Erasing' = (IF p.st = "erasing" THEN Erasing \cup {k} ELSE Erasing \ {k})
         /\ Waiting' = (IF p.wait THEN Waiting \cup {k} ELSE Waiting \ {k})
<1>1. ItemsTyped' /\ items'[k] = p /\ \A l \in Items : l # k => items'[l] = items[l]
  BY DEF ItemsTyped
<1>2. Erasing' = (IF p.st = "erasing" THEN Erasing \cup {k} ELSE Erasing \ {k})
  BY <1>1 DEF Erasing
<1>3. Waiting' = (IF p.wait THEN Waiting \cup {k} ELSE Waiting \ {k})
  <2>1. CASE p.wait
    BY <1>1, <2>1 DEF Waiting
  <2>2. CASE ~p.wait
    BY <1>1, <2>2 DEF Waiting
  <2> QED
    BY <2>1, <2>2
<1> QED
  BY <1>1, <1>2, <1>3

Stages == {"none", "request", "fetched", "paused", "running", "erasing", "gone"}

\* Only the state of one changes, or what it waits for with it.
LEMMA StChanges ==
  ASSUME ItemsTyped, NEW k \in Items, NEW st \in Stages, items' = [items EXCEPT ![k].st = st]
  PROVE  /\ ItemsTyped' /\ items'[k].st = st /\ \A l \in Items : l # k => items'[l] = items[l]
         /\ Erasing' = (IF st = "erasing" THEN Erasing \cup {k} ELSE Erasing \ {k})
         /\ Waiting' = Waiting
<1> DEFINE p == [items[k] EXCEPT !.st = st]
<1>1. p \in ItemRecs /\ p.st = st /\ p.wait = items[k].wait
  BY DEF ItemsTyped, ItemRecs, Stages
<1>2. items' = [items EXCEPT ![k] = p]
  BY DEF ItemsTyped
<1> HIDE DEF p
<1>3. Waiting' = (IF p.wait THEN Waiting \cup {k} ELSE Waiting \ {k})
  BY <1>1, <1>2, OneItem
<1>4. Waiting' = Waiting
  BY <1>1, <1>3 DEF Waiting
<1> QED
  BY <1>1, <1>2, <1>4, OneItem

LEMMA WaitChanges ==
  ASSUME ItemsTyped, NEW k \in Items, NEW st \in Stages, NEW w \in BOOLEAN,
         items' = [items EXCEPT ![k].st = st, ![k].wait = w]
  PROVE  /\ ItemsTyped' /\ items'[k].st = st /\ \A l \in Items : l # k => items'[l] = items[l]
         /\ Erasing' = (IF st = "erasing" THEN Erasing \cup {k} ELSE Erasing \ {k})
         /\ Waiting' = (IF w THEN Waiting \cup {k} ELSE Waiting \ {k})
<1> DEFINE p == [items[k] EXCEPT !.st = st, !.wait = w]
<1>1. p \in ItemRecs /\ p.st = st /\ p.wait = w
  BY DEF ItemsTyped, ItemRecs, Stages
<1>2. items' = [items EXCEPT ![k] = p]
  BY DEF ItemsTyped
<1> HIDE DEF p
<1> QED
  BY <1>1, <1>2, OneItem

\* A new one disturbs nothing.
ItemsGrow ==
  /\ ItemsTyped' /\ Erasing' = Erasing /\ Waiting' \subseteq Waiting
  /\ \A l \in Items : items[l].st # "none" => items'[l] = items[l]

LEMMA StartedGrow ==
  ASSUME ItemsTyped, NEW k \in FreeItem(items), NEW by \in {"user", "ext"}, items' = Started(items, k, by)
  PROVE  ItemsGrow
<1> DEFINE p == [NoItem EXCEPT !.st = IF sc.firefox THEN "request" ELSE "fetched", !.by = by]
<1>1. items' = [items EXCEPT ![k] = p] /\ k \in Items /\ items[k].st = "none"
  BY DEF Started, FreeItem
<1>2. PICK st \in {"request", "fetched"} : st = IF sc.firefox THEN "request" ELSE "fetched"
  OBVIOUS
<1>3. p = [NoItem EXCEPT !.st = st, !.by = by]
  BY <1>2
<1>4. p \in ItemRecs /\ p.st # "erasing" /\ ~p.wait
  BY <1>3 DEF NoItem, ItemRecs
<1> HIDE DEF p
<1>5. /\ ItemsTyped' /\ \A l \in Items : l # k => items'[l] = items[l]
      /\ Erasing' = Erasing \ {k} /\ Waiting' = Waiting \ {k}
  BY <1>1, <1>4, OneItem
<1>6. k \notin Erasing
  BY <1>1 DEF Erasing
<1> QED
  BY <1>1, <1>5, <1>6 DEF ItemsGrow

LEMMA RestoredGrow == ASSUME ItemsTyped, items' = Restored(items) PROVE ItemsGrow
<1>1. CASE FreeItem(items) = {}
  BY <1>1 DEF Restored, ItemsGrow, ItemsTyped, Erasing, Waiting
<1>2. CASE FreeItem(items) # {}
  <2>1. PICK k \in FreeItem(items) : items' = Started(items, k, "ext")
    BY <1>2 DEF Restored
  <2> QED
    BY <2>1, StartedGrow
<1> QED
  BY <1>1, <1>2

\* A download that waits in a queue of the background script has been stopped already.

FamilyTyped == ext \in ExtRecs /\ ItemsTyped
FamilyInv == FamilyTyped /\ ReqTyped /\ Family

LEMMA SameOut == ASSUME UNCHANGED reqs PROVE Out' = Out
BY DEF Out

LEMMA QueueMembers ==
  ASSUME FamilyTyped
  PROVE  /\ ToSet(ext.queue) \subseteq Items /\ ext.deferred \subseteq Items
         /\ \A k \in Items : ToSet(Append(ext.queue, k)) = ToSet(ext.queue) \cup {k}
         /\ ext.queue # <<>> => Head(ext.queue) \in ToSet(ext.queue) /\ Head(ext.queue) \in Items
                                /\ Tail(ext.queue) \in Seq(Items) /\ ToSet(Tail(ext.queue)) \subseteq ToSet(ext.queue)
         /\ ToSet(<<>>) = {}
<1>1. ext.queue \in Seq(Items) /\ ext.deferred \subseteq Items
  BY DEF FamilyTyped, ExtRecs
<1>2. ToSet(ext.queue) \subseteq Items /\ ToSet(<<>>) = {}
  BY <1>1 DEF ToSet
<1>3. \A k \in Items : ToSet(Append(ext.queue, k)) = ToSet(ext.queue) \cup {k}
  BY <1>1, SetOfAppended
<1>4. ext.queue # <<>> => Head(ext.queue) \in ToSet(ext.queue) /\ Head(ext.queue) \in Items
                                /\ Tail(ext.queue) \in Seq(Items) /\ ToSet(Tail(ext.queue)) \subseteq ToSet(ext.queue)
  BY <1>1 DEF ToSet
<1> QED
  BY <1>1, <1>2, <1>3, <1>4

LEMMA EarlySteps ==
  ASSUME FamilyInv, \/ Hydrate
                    \/ \E k \in Items : EarlyRequest(k) \/ EarlyCreated(k)
  PROVE  (FamilyTyped /\ Family)'
<1>0. FamilyTyped /\ ItemsTyped /\ ext \in ExtRecs /\ Family
  BY DEF FamilyInv, FamilyTyped
<1>1. ~ext.ready /\ ext.phase = "none" /\ Erasing = {} /\ Waiting = {} /\ Out = {} /\ Out' = {}
  BY <1>0, SameOut DEF Hydrate, EarlyRequest, EarlyCreated, Family
<1>2. CASE Hydrate
  <2>1. /\ ext' \in ExtRecs /\ ext'.ready /\ ext'.phase \in Phases /\ ext'.queue = ext.queue
        /\ ext'.deferred = ext.deferred /\ items' = items
    BY <1>0, <1>2 DEF Hydrate, ExtRecs
  <2>2. Erasing' = {} /\ Waiting' = {}
    BY <1>1, <2>1 DEF Erasing, Waiting
  <2> QED
    BY <1>0, <1>1, <2>1, <2>2 DEF FamilyTyped, ItemsTyped, Family, One
<1>3. ASSUME NEW k \in Items, EarlyRequest(k) PROVE (FamilyTyped /\ Family)'
  <2>1. PICK st \in {"gone", "fetched"} :
          /\ items[k].st = "request" /\ items' = [items EXCEPT ![k].st = st]
          /\ IF st = "gone" THEN ext' = [ext EXCEPT !.queue = Append(@, k)] ELSE ext' = ext
    BY <1>3 DEF EarlyRequest
  <2>2. /\ ItemsTyped' /\ items'[k].st = st /\ \A l \in Items : l # k => items'[l] = items[l]
        /\ Erasing' = {} /\ Waiting' = {}
    BY <1>0, <1>1, <2>1, StChanges DEF Stages
  <2>3. k \notin ToSet(ext.queue) \cup ext.deferred
    BY <1>0, <2>1 DEF Family
  <2>4. /\ ext' \in ExtRecs /\ ext'.phase = "none" /\ ext'.ready = ext.ready /\ ext'.deferred = ext.deferred
        /\ ToSet(ext'.queue) = IF st = "gone" THEN ToSet(ext.queue) \cup {k} ELSE ToSet(ext.queue)
    <3>1. Append(ext.queue, k) \in Seq(Items)
      BY <1>0 DEF ExtRecs
    <3>2. CASE st = "gone"
      <4>1. ext' \in ExtRecs /\ ext'.phase = "none" /\ ext'.ready = ext.ready /\ ext'.deferred = ext.deferred
            /\ ext'.queue = Append(ext.queue, k)
        BY <1>0, <1>1, <2>1, <3>1, <3>2 DEF ExtRecs
      <4> QED
        BY <1>0, <3>2, <4>1, QueueMembers
    <3>3. CASE st # "gone"
      BY <1>0, <1>1, <2>1, <3>3
    <3> QED
      BY <3>2, <3>3
  <2>5. \A l \in ToSet(ext'.queue) \cup ext'.deferred : items'[l].st \notin {"none", "request", "fetched"}
    BY <1>0, <2>1, <2>2, <2>3, <2>4, QueueMembers DEF Family
  <2> QED
    BY <1>0, <1>1, <2>2, <2>3, <2>4, <2>5 DEF FamilyTyped, Family, One
<1>4. ASSUME NEW k \in Items, EarlyCreated(k) PROVE (FamilyTyped /\ Family)'
  <2>1. PICK st \in {"paused", "running"} :
          /\ items[k].st = "fetched" /\ items' = [items EXCEPT ![k].st = st]
          /\ ext' = [ext EXCEPT !.deferred = @ \cup {k}]
    BY <1>4 DEF EarlyCreated
  <2>2. /\ ItemsTyped' /\ items'[k].st = st /\ \A l \in Items : l # k => items'[l] = items[l]
        /\ Erasing' = {} /\ Waiting' = {}
    BY <1>0, <1>1, <2>1, StChanges DEF Stages
  <2>3. k \notin ToSet(ext.queue)
    BY <1>0, <2>1 DEF Family
  <2>4. /\ ext' \in ExtRecs /\ ext'.phase = "none" /\ ext'.ready = ext.ready
        /\ ext'.deferred = ext.deferred \cup {k} /\ ext'.queue = ext.queue
    BY <1>0, <1>1, <2>1 DEF ExtRecs
  <2>5. \A l \in ToSet(ext'.queue) \cup ext'.deferred : items'[l].st \notin {"none", "request", "fetched"}
    BY <1>0, <2>1, <2>2, <2>4, QueueMembers DEF Family
  <2> QED
    BY <1>0, <1>1, <2>2, <2>3, <2>4, <2>5 DEF FamilyTyped, Family, One
<1> QED
  BY <1>2, <1>3, <1>4

LEMMA ReplaySteps ==
  ASSUME FamilyInv, Replay PROVE (FamilyTyped /\ Family)'
<1>0. FamilyTyped /\ ItemsTyped /\ ext \in ExtRecs /\ Family /\ Out' = Out
  BY SameOut DEF FamilyInv, FamilyTyped, Replay
<1> DEFINE k == Head(ext.queue)
<1>1. PICK action \in ReplayActions(ext.phase) :
        /\ ext' = [ext EXCEPT !.queue = Tail(@),
                              !.phase = CASE action = "handoff" -> "handoff"
                                          [] action = "restore" -> "restoring"
                                          [] OTHER -> ext.phase]
        /\ items' = CASE action = "handoff" -> [items EXCEPT ![k].st = "erasing"]
                      [] action = "restore" -> Restored(items)
                      [] OTHER -> items
  BY DEF Replay
<1>2. PICK phase \in Phases : phase = CASE action = "handoff" -> "handoff"
                                          [] action = "restore" -> "restoring"
                                          [] OTHER -> ext.phase
  BY <1>0 DEF Phases, ExtRecs
<1>3. ext.ready /\ ext.queue # <<>> /\ Waiting = {}
  BY <1>0 DEF Replay, Family
<1>4. k \in ToSet(ext.queue) /\ k \in Items /\ Tail(ext.queue) \in Seq(Items)
      /\ ToSet(Tail(ext.queue)) \subseteq ToSet(ext.queue)
      /\ ToSet(ext.queue) \subseteq Items /\ ext.deferred \subseteq Items
  BY <1>0, <1>3, QueueMembers
<1>5. /\ ext' \in ExtRecs /\ ext'.queue = Tail(ext.queue) /\ ext'.phase = phase
      /\ ext'.deferred = ext.deferred /\ ext'.ready
  BY <1>0, <1>1, <1>2, <1>3, <1>4 DEF ExtRecs
<1>6. CASE action = "handoff"
  <2>1. ext.phase \in {"none", "pending"} /\ phase = "handoff"
    BY <1>1, <1>2, <1>6 DEF ReplayActions
  <2>2. Erasing = {} /\ Out = {}
    BY <1>0, <1>3, <2>1 DEF Family
  <2>3. ItemsTyped' /\ items'[k].st = "erasing" /\ (\A l \in Items : l # k => items'[l] = items[l])
        /\ Erasing' = {k} /\ Waiting' = {}
    <3>1. items' = [items EXCEPT ![k].st = "erasing"]
      BY <1>1, <1>6
    <3> HIDE DEF k
    <3> QED
      BY <1>0, <1>3, <1>4, <2>2, <3>1, StChanges DEF Stages
  <2>4. \A l \in ToSet(ext'.queue) \cup ext'.deferred : items'[l].st \notin {"none", "request", "fetched"}
    BY <1>0, <1>4, <1>5, <2>3 DEF Family
  <2> QED
    BY <1>0, <1>4, <1>5, <2>1, <2>2, <2>3, <2>4 DEF FamilyTyped, Family, One
<1>7. CASE action = "restore"
  <2>1. ext.phase \in {"none", "pending", "restoring"} /\ phase = "restoring"
    BY <1>1, <1>2, <1>7 DEF ReplayActions
  <2>2. Erasing = {} /\ Out = {}
    BY <1>0, <1>3, <2>1 DEF Family
  <2>3. ItemsGrow
    BY <1>0, <1>1, <1>7, RestoredGrow
  <2>4. \A l \in ToSet(ext'.queue) \cup ext'.deferred : items'[l].st \notin {"none", "request", "fetched"}
    BY <1>0, <1>4, <1>5, <2>3 DEF Family, ItemsGrow
  <2> QED
    BY <1>0, <1>3, <1>4, <1>5, <2>1, <2>2, <2>3, <2>4 DEF FamilyTyped, Family, One, ItemsGrow
<1>8. CASE action \notin {"handoff", "restore"}
  <2>1. phase = ext.phase /\ items' = items
    BY <1>1, <1>2, <1>8
  <2>2. ext.phase \notin {"none", "pending", "restoring"}
    BY <1>1, <1>8 DEF ReplayActions
  <2>3. Erasing' = Erasing /\ Waiting' = Waiting /\ ItemsTyped'
    BY <1>0, <2>1 DEF Erasing, Waiting, ItemsTyped
  <2>4. \A l \in ToSet(ext'.queue) \cup ext'.deferred : items'[l].st \notin {"none", "request", "fetched"}
    BY <1>0, <1>4, <1>5, <2>1 DEF Family
  <2> QED
    BY <1>0, <1>3, <1>4, <1>5, <2>1, <2>2, <2>3, <2>4 DEF FamilyTyped, Family, One
<1> QED
  BY <1>6, <1>7, <1>8

\* Nothing waits in the queues: the rest is about the sets.
Calm == ext'.queue = <<>> /\ ext'.deferred = {}
LEMMA CalmFamily ==
  ASSUME FamilyTyped', Calm, ext'.ready,
         CASE ext'.phase = "none" -> Erasing' = {} /\ Waiting' = {} /\ Out' = {}
           [] ext'.phase = "pending" -> Out' = {} /\ One(Erasing' \cup Waiting')
           [] ext'.phase = "handoff" -> One(Erasing') /\ One(Out') /\ (Erasing' = {} \/ Out' = {})
           [] OTHER -> Erasing' = {} /\ Out' = {}
  PROVE  Family'
<1>1. ToSet(<<>>) = {}
  BY DEF ToSet
<1> QED
  BY <1>1 DEF Calm, Family, One

LEMMA RequestSteps ==
  ASSUME FamilyInv, NEW k \in Items, FirefoxRequest(k) PROVE (FamilyTyped /\ Family)'
<1>0. FamilyTyped /\ ItemsTyped /\ ext \in ExtRecs /\ Family /\ Out' = Out
  BY SameOut DEF FamilyInv, FamilyTyped, FirefoxRequest
<1>1. PICK action \in FirefoxActions(ext.phase) :
        /\ ext' = IF action = "handoff" THEN [ext EXCEPT !.phase = "handoff"] ELSE ext
        /\ items' = [items EXCEPT ![k].st = CASE action = "handoff" -> "erasing"
                                             [] action = "cancel-ghost" -> "gone"
                                             [] OTHER -> "fetched"]
  BY DEF FirefoxRequest
<1>2. PICK st \in {"erasing", "gone", "fetched"} : st = CASE action = "handoff" -> "erasing"
                                             [] action = "cancel-ghost" -> "gone"
                                             [] OTHER -> "fetched"
  OBVIOUS
<1>3. ext.ready /\ ext.queue = <<>> /\ ext.deferred = {}
  BY DEF FirefoxRequest, Settled
<1>4. /\ ext' \in ExtRecs /\ Calm /\ ext'.ready
      /\ ext'.phase = IF action = "handoff" THEN "handoff" ELSE ext.phase
  BY <1>0, <1>1, <1>3 DEF ExtRecs, Calm, Phases
<1>5. ItemsTyped' /\ Erasing' = (IF st = "erasing" THEN Erasing \cup {k} ELSE Erasing \ {k}) /\ Waiting' = Waiting
  BY <1>0, <1>1, <1>2, StChanges DEF Stages
<1>6. CASE action = "handoff"
  <2>1. ext.phase = "none" /\ st = "erasing"
    BY <1>1, <1>2, <1>6 DEF FirefoxActions
  <2>2. Erasing' = {k} /\ Out' = {} /\ ext'.phase = "handoff"
    BY <1>0, <1>4, <1>5, <1>6, <2>1 DEF Family
  <2> QED
    BY <1>4, <1>5, <2>2, CalmFamily DEF FamilyTyped, One
<1>7. CASE action # "handoff"
  <2>1. Erasing' \subseteq Erasing /\ ext'.phase = ext.phase
    BY <1>2, <1>4, <1>5, <1>7
  <2>2. /\ ext.phase = "none" => Erasing' = {} /\ Waiting' = {} /\ Out' = {}
        /\ ext.phase = "pending" => Out' = {} /\ One(Erasing' \cup Waiting')
        /\ ext.phase = "handoff" => One(Erasing') /\ One(Out') /\ (Erasing' = {} \/ Out' = {})
        /\ ext.phase \in {"accepted", "canceled", "restoring"} => Erasing' = {} /\ Out' = {}
    BY <1>0, <1>5, <2>1 DEF Family, One
  <2>3. ext.phase \in Phases /\ FamilyTyped'
    BY <1>0, <1>4, <1>5 DEF ExtRecs, FamilyTyped
  <2> QED
    BY <1>4, <2>1, <2>2, <2>3, CalmFamily DEF Phases
<1> QED
  BY <1>6, <1>7

LEMMA CreatedSteps ==
  ASSUME FamilyInv, NEW k \in Items, Created(k) PROVE (FamilyTyped /\ Family)'
<1>0. FamilyTyped /\ ItemsTyped /\ ext \in ExtRecs /\ Family /\ Out' = Out
  BY SameOut DEF FamilyInv, FamilyTyped, Created
<1>1. PICK action \in CreatedActions(ext.phase, items[k].by) :
        /\ ext' = [ext EXCEPT !.deferred = @ \ {k},
                     !.phase = CASE action = "wait" -> "pending" [] action = "handoff" -> "handoff" [] OTHER -> ext.phase]
        /\ items' = [items EXCEPT ![k].st = CASE action = "wait" -> "paused" [] action = "handoff" -> "erasing"
                   [] action = "erase-ghost" -> "gone" [] OTHER -> "running", ![k].wait = action = "wait"]
  BY Zenon DEF Created
<1>2. PICK st \in {"paused", "erasing", "gone", "running"} :
        st = CASE action = "wait" -> "paused" [] action = "handoff" -> "erasing"
                   [] action = "erase-ghost" -> "gone" [] OTHER -> "running"
  OBVIOUS
<1>3. PICK phase \in Phases :
        phase = CASE action = "wait" -> "pending" [] action = "handoff" -> "handoff" [] OTHER -> ext.phase
  BY <1>0 DEF Phases, ExtRecs
<1>4. PICK w \in BOOLEAN : w = (action = "wait")
  OBVIOUS
<1>5. ext.ready /\ ext.queue = <<>>
  BY DEF Created
<1>6. /\ ext' \in ExtRecs /\ ext'.ready /\ ext'.phase = phase /\ ext'.queue = <<>>
      /\ ext'.deferred = ext.deferred \ {k}
  BY <1>0, <1>1, <1>3, <1>5 DEF ExtRecs
<1>7. items' = [items EXCEPT ![k].st = st, ![k].wait = w]
  BY Zenon, <1>1, <1>2, <1>4
<1>8. /\ ItemsTyped' /\ items'[k].st = st /\ \A l \in Items : l # k => items'[l] = items[l]
      /\ Erasing' = (IF st = "erasing" THEN Erasing \cup {k} ELSE Erasing \ {k})
      /\ Waiting' = (IF w THEN Waiting \cup {k} ELSE Waiting \ {k})
  BY <1>0, <1>7, WaitChanges DEF Stages
<1>9. /\ \A l \in ToSet(ext'.queue) \cup ext'.deferred : items'[l].st \notin {"none", "request", "fetched"}
      /\ ToSet(ext'.queue) \cap ext'.deferred = {}
  <2>1. ToSet(<<>>) = {} /\ ext.deferred \subseteq Items
    BY <1>0, QueueMembers
  <2> QED
    BY <1>0, <1>5, <1>6, <1>8, <2>1 DEF Family
<1>10. CASE action \in {"wait", "handoff"}
  <2>1. ext.phase = "none"
    BY <1>1, <1>10 DEF CreatedActions
  <2>2. Erasing = {} /\ Waiting = {} /\ Out = {}
    BY <1>0, <2>1 DEF Family
  <2>3. CASE action = "wait"
    <3>1. phase = "pending" /\ st = "paused" /\ w
      BY <1>2, <1>3, <1>4, <2>3
    <3> QED
      BY <1>0, <1>6, <1>8, <1>9, <2>2, <3>1 DEF FamilyTyped, Family, One
  <2>4. CASE action = "handoff"
    <3>1. phase = "handoff" /\ st = "erasing" /\ ~w
      BY <1>2, <1>3, <1>4, <2>4
    <3> QED
      BY <1>0, <1>6, <1>8, <1>9, <2>2, <3>1 DEF FamilyTyped, Family, One
  <2> QED
    BY <1>10, <2>3, <2>4
<1>11. CASE action \notin {"wait", "handoff"}
  <2>1. phase = ext.phase /\ st \in {"gone", "running"} /\ ~w
    BY <1>2, <1>3, <1>4, <1>11
  <2>2. Erasing' \subseteq Erasing /\ Waiting' \subseteq Waiting
    BY <1>8, <2>1
  <2> QED
    BY <1>0, <1>6, <1>8, <1>9, <2>1, <2>2 DEF FamilyTyped, Family, One
<1> QED
  BY <1>10, <1>11

LEMMA FinalizeSteps ==
  ASSUME FamilyInv, NEW k \in Items, Finalize(k) PROVE (FamilyTyped /\ Family)'
<1>0. FamilyTyped /\ ItemsTyped /\ ext \in ExtRecs /\ Family /\ Out' = Out
  BY SameOut DEF FamilyInv, FamilyTyped, Finalize
<1>1. PICK keep \in BOOLEAN :
        /\ items' = [items EXCEPT ![k].wait = FALSE,
                       ![k].st = CASE ext.phase = "restoring" -> items[k].st
                                   [] ext.phase \in {"handoff", "accepted", "canceled"} -> "gone"
                                   [] OTHER -> IF keep THEN "running" ELSE "erasing"]
        /\ ext' = IF ext.phase = "pending" /\ keep THEN [ext EXCEPT !.phase = "none"] ELSE ext
  BY DEF Finalize
<1>2. PICK st \in Stages : st = CASE ext.phase = "restoring" -> items[k].st
                                   [] ext.phase \in {"handoff", "accepted", "canceled"} -> "gone"
                                   [] OTHER -> IF keep THEN "running" ELSE "erasing"
  BY <1>0 DEF Stages, ItemsTyped, ItemRecs
<1>3. ext.ready /\ ext.queue = <<>> /\ ext.deferred = {} /\ k \in Waiting /\ ext.phase \in Phases
  BY <1>0 DEF Finalize, Settled, Waiting, ExtRecs
<1>4. items' = [items EXCEPT ![k].st = st, ![k].wait = FALSE]
  BY <1>0, <1>1, <1>2 DEF ItemsTyped
<1>5. ItemsTyped' /\ Erasing' = (IF st = "erasing" THEN Erasing \cup {k} ELSE Erasing \ {k}) /\ Waiting' = Waiting \ {k}
  BY <1>0, <1>4, WaitChanges
<1>6. /\ ext' \in ExtRecs /\ Calm /\ ext'.ready
      /\ ext'.phase = IF ext.phase = "pending" /\ keep THEN "none" ELSE ext.phase
  BY <1>0, <1>1, <1>3 DEF ExtRecs, Calm, Phases
<1>7. CASE ext.phase = "pending"
  <2>1. Erasing \cup Waiting = {k} /\ Out = {}
    BY <1>0, <1>3, <1>7 DEF Family, One
  <2>2. st = IF keep THEN "running" ELSE "erasing"
    BY <1>2, <1>7
  <2>3. Waiting' = {} /\ Erasing' \subseteq {k} /\ (keep => Erasing' = {})
    BY <1>5, <2>1, <2>2
  <2> QED
    BY <1>0, <1>5, <1>6, <1>7, <2>1, <2>3, CalmFamily DEF FamilyTyped, One
<1>8. CASE ext.phase # "pending"
  <2>1. ext.phase \in {"restoring", "handoff", "accepted", "canceled"}
    BY <1>0, <1>3, <1>8 DEF Phases, Family
  <2>2. Erasing' \subseteq Erasing
    <3>1. CASE ext.phase = "restoring"
      BY <1>2, <1>5, <3>1 DEF Erasing
    <3>2. CASE ext.phase # "restoring"
      BY <1>2, <1>5, <2>1, <3>2
    <3> QED
      BY <3>1, <3>2
  <2> QED
    BY <1>0, <1>5, <1>6, <1>8, <2>1, <2>2, CalmFamily DEF FamilyTyped, Family, One
<1> QED
  BY <1>7, <1>8

LEMMA HandOffSteps ==
  ASSUME FamilyInv, NEW k \in Items, HandOff(k) PROVE (FamilyTyped /\ Family)'
<1>0. FamilyTyped /\ ItemsTyped /\ ext \in ExtRecs /\ Family /\ reqs \in [Reqs -> ReqRecs]
  BY DEF FamilyInv, FamilyTyped, ReqTyped
<1>1. /\ ext.ready /\ items[k].st = "erasing" /\ ext.phase \in {"pending", "handoff"}
      /\ items' = [items EXCEPT ![k].st = "gone"] /\ ext' = [ext EXCEPT !.phase = "handoff"]
  BY DEF HandOff
<1>2. PICK r \in FreeReq :
        reqs' = [reqs EXCEPT ![r] = [NewReq EXCEPT !.host = "open", !.from = "capture", !.item = k]]
  BY DEF HandOff
<1>3. k \in Erasing /\ Erasing \subseteq {k} /\ Out = {} /\ (ext.queue # <<>> => Waiting = {})
  BY <1>0, <1>1 DEF Erasing, Family, One
<1>4. /\ ItemsTyped' /\ items'[k].st = "gone" /\ \A l \in Items : l # k => items'[l] = items[l]
      /\ Erasing' = {} /\ Waiting' = Waiting
  BY <1>0, <1>1, <1>3, StChanges DEF Stages
<1>5. Out' \subseteq {r}
  <2>1. \A q \in Reqs : q # r => reqs'[q] = reqs[q]
    BY <1>0, <1>2
  <2> QED
    BY <1>3, <2>1 DEF Out
<1>6. /\ ext' \in ExtRecs /\ ext'.ready /\ ext'.phase = "handoff" /\ ext'.queue = ext.queue
      /\ ext'.deferred = ext.deferred
  BY <1>0, <1>1 DEF ExtRecs, Phases
<1>7. \A l \in ToSet(ext'.queue) \cup ext'.deferred : items'[l].st \notin {"none", "request", "fetched"}
  BY <1>0, <1>4, <1>6, QueueMembers DEF Family
<1> QED
  BY <1>0, <1>3, <1>4, <1>5, <1>6, <1>7 DEF FamilyTyped, Family, One

LEMMA AnsweredSteps ==
  ASSUME FamilyInv, NEW r \in Reqs, Answered(r) PROVE (FamilyTyped /\ Family)'
<1>0. FamilyTyped /\ ItemsTyped /\ ext \in ExtRecs /\ Family /\ reqs \in [Reqs -> ReqRecs]
  BY DEF FamilyInv, FamilyTyped, ReqTyped
<1> DEFINE mine == reqs[r].from = "capture"
           p    == OutcomeOf(reqs[r].answer)
           back == mine /\ p = "restoring"
<1>1. /\ reqs[r].host = "answered"
      /\ ext' = IF mine THEN [ext EXCEPT !.phase = p] ELSE ext
      /\ items' = IF mine /\ p = "restoring" THEN Restored(items) ELSE items
      /\ reqs' = [reqs EXCEPT ![r].host = "done", ![r].restored = back]
  BY Zenon DEF Answered
<1>2. p \in {"accepted", "canceled", "restoring"}
  BY DEF OutcomeOf
<1>3. reqs'[r].host = "done" /\ \A q \in Reqs : q # r => reqs'[q] = reqs[q]
  <2> HIDE DEF back
  <2>1. reqs[r] \in ReqRecs
    BY <1>0
  <2> QED
    BY <1>0, <1>1, <2>1 DEF ReqRecs
<1>4. Out' = Out \ {r}
  BY <1>3 DEF Out
<1>5. CASE ~mine
  <2>1. ext' = ext /\ items' = items /\ Out' \subseteq Out
    BY <1>1, <1>4, <1>5
  <2>2. Erasing' = Erasing /\ Waiting' = Waiting /\ ItemsTyped'
    BY <1>0, <2>1 DEF Erasing, Waiting, ItemsTyped
  <2> QED
    BY <1>0, <2>1, <2>2 DEF FamilyTyped, Family, One
<1>6. CASE mine
  <2>1. r \in Out
    BY <1>1, <1>6 DEF Out
  <2>2. ext.ready /\ Erasing = {} /\ Out \subseteq {r}
    BY <1>0, <2>1 DEF Family, One, ExtRecs, Phases
  <2> HIDE DEF p
  <2>3. /\ ext' \in ExtRecs /\ ext'.ready /\ ext'.phase = p /\ ext'.queue = ext.queue
        /\ ext'.deferred = ext.deferred
    BY <1>0, <1>1, <1>2, <1>6, <2>2 DEF ExtRecs, Phases
  <2>4. ItemsGrow
    <3>1. CASE p = "restoring"
      BY <1>0, <1>1, <1>6, <3>1, RestoredGrow
    <3>2. CASE p # "restoring"
      BY <1>0, <1>1, <3>2 DEF ItemsGrow, ItemsTyped, Erasing, Waiting
    <3> QED
      BY <3>1, <3>2
  <2>5. \A l \in ToSet(ext'.queue) \cup ext'.deferred : items'[l].st \notin {"none", "request", "fetched"}
    BY <1>0, <2>3, <2>4, QueueMembers DEF Family, ItemsGrow
  <2> QED
    BY <1>0, <1>2, <1>4, <2>2, <2>3, <2>4, <2>5 DEF FamilyTyped, Family, One, ItemsGrow
<1> QED
  BY <1>5, <1>6

LEMMA KillSteps == ASSUME FamilyInv, Kill PROVE (FamilyTyped /\ Family)'
<1>0. ItemsTyped /\ ext \in ExtRecs /\ reqs \in [Reqs -> ReqRecs]
  BY DEF FamilyInv, FamilyTyped, ReqTyped
<1>1. /\ ext' = [NewExt EXCEPT !.stored = ext.stored]
      /\ items' = [k \in Items |-> [items[k] EXCEPT !.wait = FALSE, !.st = IF @ = "erasing" THEN "gone" ELSE @]]
      /\ reqs' = [r \in Reqs |-> IF reqs[r].from = "capture" THEN [reqs[r] EXCEPT !.from = "forgotten"] ELSE reqs[r]]
  BY DEF Kill
<1>2. /\ ext' \in ExtRecs /\ ext'.phase = "none" /\ ~ext'.ready /\ ext'.queue = <<>> /\ ext'.deferred = {}
  <2>1. <<>> \in Seq(Items)
    OBVIOUS
  <2> QED
    BY <1>0, <1>1, <2>1 DEF ExtRecs, NewExt, Phases
<1>3. ASSUME NEW k \in Items PROVE items'[k] \in ItemRecs /\ items'[k].st # "erasing" /\ ~items'[k].wait
  <2>1. PICK st \in Stages \ {"erasing"} : st = IF items[k].st = "erasing" THEN "gone" ELSE items[k].st
    BY <1>0 DEF ItemsTyped, ItemRecs, Stages
  <2>2. items'[k] = [items[k] EXCEPT !.wait = FALSE, !.st = st]
    BY <1>0, <1>1, <2>1 DEF ItemsTyped, ItemRecs
  <2> QED
    BY ZenonT(60), <1>0, <2>1, <2>2 DEF ItemsTyped, ItemRecs, Stages
<1>4. ItemsTyped' /\ Erasing' = {} /\ Waiting' = {}
  BY <1>1, <1>3 DEF ItemsTyped, Erasing, Waiting
<1>5. Out' = {}
  <2>1. \A r \in Reqs : reqs'[r].from # "capture"
    BY <1>0, <1>1 DEF ReqRecs
  <2> QED
    BY <2>1 DEF Out
<1>6. ToSet(<<>>) = {}
  BY DEF ToSet
<1> QED
  BY <1>2, <1>4, <1>5, <1>6 DEF FamilyTyped, Family, One

LEMMA CaptureFamily ==
  ASSUME FamilyInv, CaptureSteps \/ CaptureOthers PROVE (FamilyTyped /\ Family)'
<1>0. FamilyTyped /\ ItemsTyped /\ ext \in ExtRecs /\ Family
  BY DEF FamilyInv, FamilyTyped
<1>1. CASE Persist
  <2>1. /\ ext' \in ExtRecs /\ ext'.ready = ext.ready /\ ext'.phase = ext.phase /\ ext'.queue = ext.queue
        /\ ext'.deferred = ext.deferred
    BY <1>0, <1>1 DEF Persist, ExtRecs
  <2>2. ItemsTyped' /\ Erasing' = Erasing /\ Waiting' = Waiting /\ Out' = Out /\ items' = items
    BY <1>0, <1>1, SameOut DEF Persist, Erasing, Waiting, ItemsTyped
  <2> QED
    BY <1>0, <2>1, <2>2 DEF FamilyTyped, Family
<1>2. CASE Expire
  <2>1. /\ ext' \in ExtRecs /\ ext'.phase = "none" /\ ext'.queue = <<>> /\ ext'.deferred = {}
    BY <1>0, <1>2 DEF Expire, ExtRecs, Phases
  <2>2. ItemsTyped' /\ Erasing' = {} /\ Waiting' = {} /\ Out' = {}
    <3>1. \A k \in Items : items'[k].st # "erasing" /\ ~items'[k].wait
      BY <1>2 DEF Expire
    <3>2. \A r \in Reqs : reqs'[r].from = "capture" => reqs'[r].host = "done"
      BY <1>2 DEF Expire
    <3> QED
      BY <1>0, <1>2, <3>1, <3>2 DEF Expire, Erasing, Waiting, Out, ItemsTyped
  <2>3. ToSet(<<>>) = {}
    BY DEF ToSet
  <2> QED
    BY <2>1, <2>2, <2>3 DEF FamilyTyped, Family, One
<1>3. CASE UserStarts
  <2>1. PICK k \in FreeItem(items) : items' = Started(items, k, "user") /\ ext' = ext
    BY <1>3 DEF UserStarts
  <2>2. ItemsGrow /\ Out' = Out
    BY <1>0, <1>3, <2>1, StartedGrow, SameOut DEF UserStarts
  <2>3. \A l \in ToSet(ext'.queue) \cup ext'.deferred : items'[l].st \notin {"none", "request", "fetched"}
    BY <1>0, <2>1, <2>2, QueueMembers DEF Family, ItemsGrow
  <2> QED
    BY <1>0, <2>1, <2>2, <2>3 DEF FamilyTyped, Family, One, ItemsGrow
<1> QED
  BY <1>1, <1>2, <1>3, EarlySteps, ReplaySteps, RequestSteps, CreatedSteps, FinalizeSteps, HandOffSteps,
     AnsweredSteps, KillSteps DEF CaptureSteps, CaptureOthers

CaptureInv == OwedInv /\ FamilyTyped /\ Family

LEMMA FamilyNext == ASSUME CaptureInv, [Next]_vars PROVE CaptureInv'
<1>0. OwedInv /\ AppInv /\ AppTyped /\ ReqTyped /\ AllOwed /\ FamilyTyped /\ Family /\ FamilyInv
  BY DEF CaptureInv, OwedInv, AppInv, FamilyInv
<1>1. OwedInv'
  BY <1>0, OwedNext
<1>2. ASSUME UNCHANGED <<ext, items>>, Out' \subseteq Out PROVE (FamilyTyped /\ Family)'
  <2>1. FamilyTyped' /\ Erasing' = Erasing /\ Waiting' = Waiting
    BY <1>0, <1>2 DEF FamilyTyped, ItemsTyped, Erasing, Waiting
  <2> QED
    BY <1>0, <1>2, <2>1 DEF Family, One
<1>3. CASE RelaySteps \/ RelayOthers
  <2>1. Out' \subseteq Out
    BY <1>0, <1>3, RelayOwed DEF Kept
  <2> QED
    BY <1>1, <1>2, <1>3, <2>1, RelayFrame DEF Running, ProcessEnds, AppStarts, CaptureInv
<1>4. CASE UpdaterSteps \/ UpdaterOthers
  <2>1. Out' \subseteq Out
    BY <1>0, <1>4, UpdaterOwed DEF Kept
  <2> QED
    BY <1>1, <1>2, <1>4, <2>1, UpdaterFrame DEF ProcessEnds, CaptureInv
<1>5. CASE UNCHANGED <<ext, items, reqs>>
  BY <1>1, <1>2, <1>5, SameOut DEF CaptureInv
<1>6. CASE CaptureSteps \/ CaptureOthers
  BY <1>0, <1>1, <1>6, CaptureFamily DEF CaptureInv
<1> QED
  BY <1>3, <1>4, <1>5, <1>6, Cases, HudFrame DEF vars

LEMMA FamilyInit == ASSUME Init PROVE CaptureInv
<1>1. ext = NewExt /\ items = [k \in Items |-> NoItem] /\ reqs = [r \in Reqs |-> NewReq]
  BY DEF Init
<1>2. FamilyTyped /\ ext.phase = "none" /\ ext.queue = <<>> /\ ext.deferred = {}
  <2>1. <<>> \in Seq(Items)
    OBVIOUS
  <2> QED
    BY <1>1, <2>1 DEF FamilyTyped, ItemsTyped, ExtRecs, ItemRecs, NewExt, NoItem, Phases
<1>3. Erasing = {} /\ Waiting = {}
  BY <1>1 DEF Erasing, Waiting, NoItem
<1>4. Out = {}
  BY <1>1, NewReqTyped DEF Out
<1>5. ToSet(<<>>) = {}
  BY DEF ToSet
<1> QED
  BY <1>2, <1>3, <1>4, <1>5, OwedInit DEF CaptureInv, Family, One

\* While the message for one download of a family has no answer, no other download of it is
\* handed off, and a request that is to be replayed is not deferred as a download as well
\* (claimOrCreate, replayQueuedFirefoxHandoff).
THEOREM OneAtATime == Spec => []OneCapture
<1>1. Init => CaptureInv
  BY FamilyInit
<1>2. CaptureInv /\ [Next]_vars => CaptureInv'
  BY FamilyNext
<1>3. CaptureInv => OneCapture
  <2> SUFFICES ASSUME CaptureInv PROVE OneCapture
    OBVIOUS
  <2>1. One(Out)
    BY DEF CaptureInv, Family, One, FamilyTyped, ExtRecs, Phases
  <2>2. Cardinality(Out) <= 1
    BY <2>1, AtMostOne
  <2> QED
    BY <2>2 DEF CaptureInv, Family, OneCapture, Out
<1> QED
  BY <1>1, <1>2, <1>3, PTL DEF Spec
=============================================================================
