------------------------------ MODULE Transfer ------------------------------
(***************************************************************************)
(* One job's transfer attempts against a server that replaces the file,    *)
(* drops connections and answers ranges or does not, with stops, failing   *)
(* file operations, crashes and losses of power, and Restart: the worker's *)
(* reconcile, the preflight, the plan, and what it chooses (SingleStream,  *)
(* MultiTransfer).  Attempts follow each other as the worker's retries and *)
(* the user's Resume and Retry make them; Engine has the rules for that.   *)
(***************************************************************************)
EXTENDS SingleStream, MultiTransfer

vars == <<world, files, rows, ctl, stage, outcome, bounds, single, multi>>

Init ==
  /\ sc \in Scenarios /\ cur = sc.first /\ nchange = 0
  /\ part = Empty /\ disk = Empty /\ final = Empty
  /\ old = IF sc.existing = "none" THEN "none" ELSE "target"
  /\ row = FreshRow /\ saved = FreshRow
  /\ ctl = "run" /\ stage = "idle" /\ outcome = "none"
  /\ nattempt = 0 /\ nfault = 0 /\ nshort = 0 /\ nrestart = 0
  /\ off = 0 /\ lp = NoLoop /\ resp = NoResp
  /\ live = NoMap /\ floor = NoSegs /\ seg = NoSegs /\ err = FALSE /\ fresh = FALSE

-----------------------------------------------------------------------------
\* The attempt's beginning

\* reconcile_for_attempt, with a fresh control.
Begin ==
  /\ stage = "idle" /\ outcome # "completed" /\ nattempt < MaxAttempts
  /\ nattempt' = nattempt + 1 /\ ctl' = "run" /\ stage' = "preflight" /\ outcome' = "none"
  /\ row' = Reconciled(row, Length(part)) /\ saved' = saved
  /\ UNCHANGED <<world, files, nfault, nshort, nrestart, single, multi>>

\* What run_preflight_planned learns: HEAD, the probes of the first byte and of one behind it.
Probes(r) == Oracle(r) = "FreshSingle" \/ (Oracle(r) # "RestartRequired" /\ ~sc.head)
Info == [total |-> IF sc.head \/ (Probes(row) /\ (sc.ranges \/ sc.framing = "length"))
                   THEN Size(cur) ELSE 0,
         ranges |-> IF Probes(row) THEN {sc.ranges} ELSE IF sc.advert THEN {TRUE} ELSE {},
         tag |-> cur]
NoInfo == [total |-> 0, ranges |-> {}, tag |-> NoEntity]

\* preflight_commit_identity: a validator that is there stays.
\* Mutation: what HEAD says replaces it.
PreflightRowNew(i) ==
  [row EXCEPT !.total = IF i.total > 0 THEN i.total ELSE @,
     !.resume = IF i.ranges = {} THEN @ ELSE TRUE \in i.ranges,
     !.tag = IF i.tag # NoEntity THEN i.tag ELSE @, !.exp = IF i.total > 0 THEN i.total ELSE @]
PreflightRow(i) ==
  LET taken == row.tag = NoEntity /\ i.tag # NoEntity
  IN [row EXCEPT !.total = IF i.total > 0 THEN i.total ELSE @,
        !.resume = IF i.ranges = {} THEN @ ELSE TRUE \in i.ranges,
        !.tag = IF taken THEN i.tag ELSE @,
        !.exp = IF taken /\ i.total > 0 THEN i.total ELSE @]

\* range_support: what the preflight found, else what the job remembers.
RangesSupported(r, i) == IF i.ranges = {} THEN r.resume ELSE TRUE \in i.ranges

\* plan_reason.
Plan(r, i) ==
  IF ~r.rejected /\ Oracle(r) = "RestartRequired" THEN "restart"
  ELSE IF ~r.rejected /\ Oracle(r) = "Multi" THEN "multi"
  ELSE IF /\ sc.multi
          /\ r.rejected \/ Oracle(r) = "FreshSingle"
          /\ r.total > 0 /\ RangesSupported(r, i)
       THEN "multi" ELSE "single"

\* apply_preflight and run_transfer up to the choice.
Prepare ==
  /\ stage = "preflight"
  /\ \/ /\ Running
        /\ \E i \in {Info, NoInfo} :
             LET r == PreflightRow(i)
             IN /\ Commit(r)
                /\ IF Plan(r, i) = "restart" THEN End("failed")
                   ELSE stage' = Plan(r, i) /\ UNCHANGED outcome
     \/ ~Running /\ End(Stopped) /\ UNCHANGED rows
  /\ UNCHANGED <<world, files, ctl, bounds, single, multi>>

-----------------------------------------------------------------------------
\* The end: move_to_final_path, and the commit after it

MoveEnds(o) == /\ End(o) /\ SIdle /\ MIdle
               /\ UNCHANGED <<remote, ctl, nattempt, nshort, nrestart>>
FinishedRow == IF live = NoMap THEN FinishedSingle ELSE FinishedMulti

\* With Overwrite the file that has the name is moved aside first.
\* Mutation: it is removed.
AsideNone == "none"
Aside == "aside"
ReplacesOld == sc.existing = "replace" /\ old = "target"
StepAside ==
  /\ stage = "finish" /\ ReplacesOld
  /\ stage' = "swap" /\ old' = Aside
  /\ UNCHANGED <<remote, files, rows, ctl, outcome, bounds, single, multi>>

\* The .part gets its name: the target's, or a free one beside a file that is to stay.  What was
\* moved aside is removed, unless that fails.
MoveFinal ==
  /\ stage = "swap" \/ (stage = "finish" /\ ~ReplacesOld)
  /\ final' = part /\ Store(Empty) /\ Commit(FinishedRow) /\ NoFault
  /\ old' \in IF stage = "swap" THEN {"none", "aside"} ELSE {old}
  /\ MoveEnds("completed")

\* A rename fails; what was moved aside is moved back, unless that fails as well.
MoveFails ==
  /\ stage \in {"finish", "swap"} /\ Fault("rename") /\ UNCHANGED <<files, saved>>
  /\ old' \in IF stage = "swap" THEN {"target", "aside"} ELSE {old}
  /\ row' = IF live = NoMap THEN [row EXCEPT !.down = off] ELSE row
  /\ MoveEnds("failed")

-----------------------------------------------------------------------------
\* The surroundings

Stop(c) ==
  /\ stage \notin {"idle", "wiped"} /\ Running /\ ctl' = c
  /\ UNCHANGED <<world, files, rows, stage, outcome, bounds, single, multi>>

Change ==
  /\ nchange < MaxChanges /\ nchange' = nchange + 1 /\ outcome # "completed"
  /\ \E e \in Entities \ {cur} : cur' = e
  /\ UNCHANGED <<sc, old, files, rows, ctl, stage, outcome, bounds, single, multi>>

\* Restart of a job without a worker: the wiped row is saved, then the .part removed.
Restart ==
  /\ stage = "idle" /\ outcome \in {"failed", "canceled", "paused"} /\ nrestart < MaxRestarts
  /\ nrestart' = nrestart + 1 /\ Commit(FreshRow) /\ stage' = "wiped"
  /\ UNCHANGED <<world, files, ctl, outcome, nattempt, nfault, nshort, single, multi>>
RestartDeletes ==
  /\ stage = "wiped" /\ stage' = "idle" /\ UNCHANGED final
  /\ \/ Store(Empty) /\ NoFault
     \/ Fault("restart") /\ UNCHANGED <<part, disk>>
  /\ UNCHANGED <<world, rows, ctl, outcome, nattempt, nshort, nrestart, single, multi>>

\* A process that dies loses what its writer still buffered; a machine without power, what was
\* not synced.  One stream writes forward, so its file is a prefix of what was written.  A death
\* between the two steps of Restart leaves what a removal that fails leaves, and counts as one.
Unsynced == {p \in Pos : part[p] # disk[p]}
Filled(f) == SetLen(f, Length(f))
Lost(ps) == Filled([p \in Pos |-> IF p \in ps THEN disk[p] ELSE part[p]])
Forward(ps) == \A p \in ps : \A q \in Unsynced : q > p => q \in ps

OneWriter == row.fmt = 0 /\ stage # "wiped"

Crash ==
  /\ (stage = "wiped" => "restart" \in Faults) /\ outcome # "completed"
  /\ UNCHANGED <<world, final, ctl, nattempt, nshort, nrestart>>
  /\ \E ps \in SUBSET Unsynced :
       /\ OneWriter => Forward(ps)
       /\ part' = Lost(ps)
       /\ \/ Fault("crash") /\ stage # "idle" /\ (OneWriter \/ ps = {}) /\ UNCHANGED disk
          \/ Fault("power") /\ disk' = Lost(ps)
  /\ \E r \in {row, saved} : row' = r /\ saved' = r
  /\ End("failed") /\ SIdle /\ MIdle

Surroundings == \/ \E c \in {"pause", "cancel"} : Stop(c)
                \/ Change \/ Restart \/ Crash

SingleStep == SingleNext /\ UNCHANGED multi
MultiStep  == MultiNext /\ UNCHANGED single

Attempt == Prepare \/ SingleStep \/ MultiStep \/ StepAside \/ MoveFinal \/ MoveFails \/ RestartDeletes
Next == Begin \/ Attempt \/ Surroundings
Spec == Init /\ [][Next]_vars

\* Every wait of an attempt has its time limit: STALL_TIMEOUT for headers and bodies, 8 s for a
\* backoff; permits come free as ConnectionBudget has it.
FairSpec == Spec /\ WF_vars(Attempt)

-----------------------------------------------------------------------------
\* Properties

Stages == {"idle", "wiped", "preflight", "single", "fetch", "respond", "sleep", "confirm",
           "accept", "open", "body", "multi", "long", "workers", "finalize", "finish", "swap", "stopping", "failing"}
Rows == [down : 0..MaxLen, total : 0..MaxLen, tag : Entities \cup {NoEntity}, exp : 0..MaxLen,
         resume : BOOLEAN, rejected : BOOLEAN, fmt : {0, 1},
         map : {NoMap} \cup UNION {[total : {n}, written : [SegsOf(n) -> 0..MaxLen]] : n \in 1..MaxLen}]

\* The variables keep their types; counts stay within the loop's limits and segments within the file.
TypeOK ==
  /\ {part, disk, final} \subseteq [Pos -> Content] /\ {row, saved} \subseteq Rows
  /\ old \in {"none", "target", "aside"} /\ ctl \in {"run", "pause", "cancel"} /\ stage \in Stages
  /\ outcome \in {"none", "completed", "failed", "paused", "canceled"}
  /\ off \in 0..MaxLen /\ resp.limit \in 0..MaxLen
  /\ lp.short \in 0..ReconnectMax /\ lp.fresh \in 0..FreshMax /\ lp.rejects \in 0..RejectMax
  /\ live # NoMap => \A s \in DOMAIN live.written : live.written[s] <= SegLen(live.total, s)

Whole(e) == [p \in Pos |-> IF p <= Size(e) THEN e ELSE Nil]

\* A completed download is one version of the remote file, whole: the ranges it was put together
\* from, over reconnects, attempts, stops and crashes, never mix two (http.rs:561, transfer.rs:1252
\* "Retry must not splice the rejected prefix onto the real file").
WholeEntity == outcome = "completed" => \E e \in Entities : final = Whole(e)

\* A file that had the target's name stays there, unless the user chose Overwrite; then it goes
\* only when the new one is whole and has the name, whatever renames fail and wherever the process
\* dies (filesystem.rs:461 "The original file was kept.").
OldKept ==
  sc.existing # "none" =>
    \/ old = "target"
    \/ sc.existing = "replace" /\ (old = "aside" \/ \E e \in Entities : final = Whole(e))

\* Every byte that the map of a row confirms is on stable storage (progress.rs:222 "That field is
\* the crash-resume oracle and moves only through IdentityCommit after fsync").
MapSynced == \A r \in {row, saved} : \A p \in Confirmed(r.map) : disk[p] \in Entities

\* Between attempts, the bytes that the next one will build on are of the entity that the row's
\* validators name, so If-Range protects them.
PartialMatches ==
  stage = "idle" /\ ~row.rejected /\ row.tag # NoEntity =>
    IF row.fmt = 0 THEN \A p \in Pos : part[p] \in {row.tag, Hole, Nil}
    ELSE \A p \in Confirmed(row.map) : part[p] = row.tag

\* No exit of an attempt makes a map confirm less than before: a failed sync takes back only what
\* was counted since the last good one.
ConfirmedKept ==
  [][row.map # NoMap /\ row'.map # NoMap =>
       Confirmed(row.map) \subseteq Confirmed(row'.map) \/ row' = saved]_vars

\* An attempt ends, whatever the server does: reconnects without progress, rejected ranges and
\* from-zero restarts are counted (fetch.rs FRESH_RESTART_MAX, http.rs RECONNECT_MAX).
AttemptEnds == stage # "idle" ~> stage = "idle"
=============================================================================
