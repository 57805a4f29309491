------------------------------- MODULE Names -------------------------------
(***************************************************************************)
(* The names of files, with several jobs at once: Add with both policies   *)
(* of a conflict (filesystem.rs, commands/add.rs), a name that a header    *)
(* brings (http.rs), the final name beside a file that is to stay, and     *)
(* everyone who deletes: Cancel, Restart, Remove and the finalizer's tail. *)
(* A file is the set of those whose bytes are in it (0: the user).         *)
(*                                                                         *)
(* What else an attempt does is in Transfer, what else the engine does in  *)
(* Engine; here an attempt opens its .part, fails or stops at any point,   *)
(* or completes.                                                           *)
(***************************************************************************)
EXTENDS Integers, Sequences

CONSTANTS
  Jobs,
  FileNames,
  Scenarios,  \* files: what the user has; wanted: names he may ask for; header: what servers
              \* call their files; may: what he may do, beside Add
  MaxIndex,   \* numbers tried for a free name (10000 in the code)
  MaxCmds     \* commands

\* A path.  Who asks for a name or sends one gives it a first part.
PathNames == FileNames \cup {""}
PathRecs == [name : PathNames, added : Seq(Nat), parts : Nat]
ASSUME NamesAssumption ==
  /\ Jobs \subseteq Nat \ {0} /\ Jobs # {}
  /\ MaxIndex \in Nat /\ "" \notin FileNames
  /\ \A s \in Scenarios :
       /\ s.files \cup s.wanted \subseteq {p \in PathRecs : p.name \in FileNames}
       /\ \A n \in DOMAIN s.header : s.header[n] \in FileNames

VARIABLES
  sc,     \* the scenario
  files,  \* a function from the paths that exist
  rows,   \* the rows: state, paths, replace_existing
  part, final, requeue,  \* pending_partial_deletes, pending_final_deletes, requeue_on_cancel
  w,      \* the workers
  tails,  \* finalizers past their lock section
  cmd,    \* the tail of the handler in progress
  crossed, \* jobs that have come to a path that another one has (see Crosses)
  ncmd    \* commands so far

flags == <<part, final, requeue>>
vars  == <<sc, files, rows, flags, w, tails, cmd, crossed, ncmd>>

-----------------------------------------------------------------------------
\* Paths.  A target is a name, the numbers added to it, and the suffixes ".part" it ends with.

Path(name, parts) == [name |-> name, added |-> <<>>, parts |-> parts]
NoPath == Path("", 0)
Temp(p) == [p EXCEPT !.parts = @ + 1]
Numbered(p, i) == IF i = 0 THEN p ELSE [p EXCEPT !.added = Append(@, i)]
First(p, free) == Numbered(p, CHOOSE i \in free : \A k \in free : i <= k)

Exists(p) == p \in DOMAIN files
Without(p) == [q \in DOMAIN files \ {p} |-> files[q]]
With(p, by) == [q \in DOMAIN files \cup {p} |-> IF q = p THEN by ELSE files[q]]
Renamed(p, q) == [r \in (DOMAIN files \ {p}) \cup {q} |-> IF r = q THEN files[p] ELSE files[r]]

-----------------------------------------------------------------------------
\* Add

Present == {j \in Jobs : rows[j].st \notin {"none", "gone"}}
Paths(js) == {rows[j].target : j \in js} \cup {rows[j].temp : j \in js}
PendingTemps == {part[j] : j \in Jobs} \ {NoPath}
Occupied == Paths(Present) \cup PendingTemps

\* paths_are_taken.
\* Mutation: the deletes that are still to come are forgotten.
TakenSoon(p) == \E q \in {p, Temp(p)} : q \in Paths(Present) \/ Exists(q)
Taken(p) == \E q \in {p, Temp(p)} : q \in Occupied \/ Exists(q)

\* job_blocks_overwrite, pending_temp_blocks_overwrite, and a path that would be a target of one
\* download and a temporary file of another.
Blocked(p) ==
  \/ \E j \in Present : rows[j].st # "done" /\ (rows[j].target = p \/ rows[j].temp = Temp(p))
  \/ Temp(p) \in PendingTemps /\ \A j \in Present : rows[j].temp # Temp(p)
  \/ p \in PendingTemps \cup {rows[j].temp : j \in Present}
  \/ Temp(p) \in {rows[j].target : j \in Present}

\* allocate_download_paths.
Replaces(p, overwrite) == overwrite /\ ~Blocked(p)
Numbers(p) == {i \in 0..MaxIndex : ~Taken(Numbered(p, i))}
Allocated(p, overwrite) == IF Replaces(p, overwrite) THEN p ELSE First(p, Numbers(p))

NoRow == [st |-> "none", target |-> NoPath, temp |-> NoPath, replace |-> FALSE]
NoCmd == [job |-> CHOOSE j \in Jobs : TRUE, part |-> NoPath, file |-> NoPath, flag |-> FALSE]
NoWork == [stage |-> "none", target |-> NoPath, temp |-> NoPath, occ |-> {}, new |-> NoPath,
           resume |-> FALSE, has |-> FALSE, stop |-> "no", made |-> NoPath]

\* One command at a time.
Command(what) == cmd = NoCmd /\ ncmd < MaxCmds /\ ncmd' = ncmd + 1 /\ what \in sc.may \cup {"add"}

Active(j) == w[j].stage # "none"

\* Nobody looks whether the path that a header or a number brings a job to is another one's by
\* now: a row's, a worker's, or one that is about to be deleted.  Add looks at what it has Seen,
\* and not at workers, who may be at paths that are not in their rows; and a completed row hides
\* the pending delete of another one's .part from it.
Due(d) == {d.part, d.file} \ {NoPath}
Ways(j) == (IF Active(j) THEN {w[j].target, w[j].temp, w[j].made} ELSE {}) \ {NoPath}
Seen(j) == (IF j \in Present THEN {rows[j].target, rows[j].temp} ELSE {}) \cup ({part[j]} \ {NoPath})
Overlooked(j, t) ==
  \/ Seen(j) \cap {t, Temp(t)} = {}
  \/ part[j] = Temp(t) /\ \E i \in Present : rows[i].temp = part[j]
Claims(j) == Ways(j) \cup Seen(j) \cup UNION {Due(d) : d \in {e \in tails \cup {cmd} : e.job = j}}
Met(j, others) == IF others = {} THEN {} ELSE {j} \cup others
Crosses(j, p, if) ==
  crossed' = crossed \cup IF if THEN Met(j, {k \in Jobs \ {j} : Claims(k) \cap {p, Temp(p)} # {}}) ELSE {}

\* Whoever has a file open keeps it when its name is gone.
Unlinked(ws, p) == [j \in Jobs |-> IF ws[j].temp = p THEN [ws[j] EXCEPT !.has = FALSE] ELSE ws[j]]

Add(j) == \E p \in sc.wanted, overwrite \in {FALSE} \cup (IF "overwrite" \in sc.may THEN {TRUE} ELSE {}) :
  /\ Command("add") /\ rows[j].st = "none"
  /\ \A k \in Jobs : k < j => rows[k].st # "none"
  /\ Replaces(p, overwrite) \/ Numbers(p) # {}
  /\ LET t == Allocated(p, overwrite)
         replace == Replaces(p, overwrite)
     IN /\ crossed' = crossed \cup Met(j, {k \in Jobs \ {j} : Overlooked(k, t) /\ Ways(k) \cap {t, Temp(t)} # {}})
        /\ rows' = [rows EXCEPT ![j] = [st |-> "queued", target |-> t, temp |-> Temp(t), replace |-> replace]]
        /\ files' = IF replace THEN Without(Temp(t)) ELSE files
        /\ w' = IF replace THEN Unlinked(w, Temp(t)) ELSE w
  /\ UNCHANGED <<sc, flags, tails, cmd>>

-----------------------------------------------------------------------------
\* Other commands.  What they delete themselves they delete when the rows are saved.

\* The user, or a program of his, puts a file where a download is to go; not between the look
\* at a path and the rename onto it or a delete there, which the code does not keep together; and
\* not a .part.
Saves(p) ==
  /\ Command("save") /\ p \in sc.wanted /\ p.parts = 0 /\ ~Exists(p)
  /\ \A j \in Jobs : w[j].stage # "move" /\ w[j].made # p
  /\ \A d \in tails \cup {cmd} : p \notin Due(d)
  /\ files' = With(p, {0})
  /\ UNCHANGED <<sc, rows, flags, w, tails, cmd, crossed>>

Told(j, stop) == w' = IF Active(j) THEN [w EXCEPT ![j].stop = stop] ELSE w

Pause(j) ==
  /\ Command("pause") /\ rows[j].st \in {"queued", "running"} /\ Told(j, "pause")
  /\ rows' = [rows EXCEPT ![j].st = IF @ = "queued" THEN "paused" ELSE @]
  /\ UNCHANGED <<sc, files, flags, tails, cmd, crossed>>

\* resume, or retry of a job that ended without a file.
Resume(j) ==
  /\ Command("pause") /\ rows[j].st \in {"paused", "ended"} /\ Told(j, "no")
  /\ rows' = [rows EXCEPT ![j].st = "queued"]
  /\ UNCHANGED <<sc, files, flags, tails, cmd, crossed>>

\* cancel with delete_partial.
Cancel(j) ==
  /\ Command("cancel") /\ rows[j].st \in {"queued", "running", "paused", "ended"} /\ Told(j, "cancel")
  /\ IF Active(j)
     THEN part' = [part EXCEPT ![j] = IF rows[j].st = "ended" THEN @ ELSE rows[j].temp] /\ cmd' = cmd
     ELSE cmd' = [NoCmd EXCEPT !.job = j, !.part = rows[j].temp] /\ UNCHANGED part
  /\ rows' = [rows EXCEPT ![j].st = IF @ = "running" THEN @ ELSE "ended"]
  /\ UNCHANGED <<sc, files, final, requeue, tails, crossed>>

\* restart, which the window does not offer for a completed row.
Restart(j) ==
  /\ Command("restart") /\ j \in Present /\ rows[j].st # "done" /\ Told(j, "cancel")
  /\ rows' = [rows EXCEPT ![j].st = "queued"]
  /\ part' = [part EXCEPT ![j] = rows[j].temp]
  /\ requeue' = IF Active(j) THEN requeue \cup {j} ELSE requeue
  /\ cmd' = IF Active(j) THEN cmd ELSE [NoCmd EXCEPT !.job = j, !.part = rows[j].temp, !.flag = TRUE]
  /\ UNCHANGED <<sc, files, final, tails, crossed>>

\* remove: from the queue, or with the file; the windows keep a .part only when they clear
\* finished rows.
Remove(j) == \E leftover, file \in BOOLEAN :
  /\ Command("remove") /\ j \in Present /\ (~leftover => ~file /\ rows[j].st = "done")
  /\ rows' = [rows EXCEPT ![j].st = "gone"] /\ Told(j, "cancel")
  /\ requeue' = requeue \ {j}
  /\ IF Active(j)
     THEN /\ part' = [part EXCEPT ![j] = IF leftover THEN rows[j].temp ELSE @]
          /\ final' = IF file THEN final \cup {j} ELSE final
          /\ cmd' = cmd
     ELSE /\ part' = [part EXCEPT ![j] = NoPath]
          /\ final' = final \ {j}
          /\ cmd' = [NoCmd EXCEPT !.job = j, !.part = IF leftover THEN rows[j].temp ELSE NoPath,
                                  !.file = IF file THEN rows[j].target ELSE NoPath]
  /\ UNCHANGED <<sc, files, tails, crossed>>

\* The end of a handler that deletes.
CmdDelete ==
  /\ cmd # NoCmd /\ cmd' = NoCmd
  /\ files' = [q \in DOMAIN files \ {cmd.part, cmd.file} |-> files[q]]
  /\ w' = Unlinked(Unlinked(w, cmd.part), cmd.file)
  /\ part' = IF cmd.flag THEN [part EXCEPT ![cmd.job] = NoPath] ELSE part
  /\ UNCHANGED <<sc, rows, final, requeue, tails, crossed, ncmd>>

-----------------------------------------------------------------------------
\* A worker

unchanged == <<sc, tails, cmd, ncmd>>
Goes(j, stage) == w' = [w EXCEPT ![j].stage = stage]
Stops(j, how) == w' = [w EXCEPT ![j].stage = how, ![j].has = FALSE]

\* job_is_startable, or another attempt of a worker; and the attempt's copies: of the row, and of
\* the paths of all other rows.
Start(j) ==
  /\ \/ rows[j].st = "queued" /\ ~Active(j) /\ j \notin requeue /\ part[j] = NoPath
     \/ w[j].stage = "failed" /\ w[j].stop = "no" /\ j \notin requeue
  /\ rows' = [rows EXCEPT ![j].st = "running"]
  /\ w' = [w EXCEPT ![j] = [NoWork EXCEPT !.stage = "answered", !.target = rows[j].target,
                              !.temp = rows[j].temp, !.occ = Paths(Present \ {j}),
                              !.resume = Exists(rows[j].temp)]]
  /\ crossed' = IF \E d \in tails \cup {cmd} : Due(d) \cap {rows[j].target, rows[j].temp} # {}
                THEN crossed \cup {j} ELSE crossed
  /\ UNCHANGED <<files, flags, unchanged>>

\* adopt_renamed_partial, while the name is the one that the URL gave: path_is_free_for_us for
\* both paths.
Header(j) ==
  IF w[j].target.added = <<>> /\ w[j].target.parts = 0 /\ ~rows[j].replace
     /\ w[j].target.name \in DOMAIN sc.header
  THEN Path(sc.header[w[j].target.name], 0) ELSE w[j].target
\* Mutation: a file that exists is not looked for.
FreeForUsOnPaper(j, p, ours) == p = ours \/ p \notin w[j].occ
FreeForUs(j, p, ours) == p = ours \/ (p \notin w[j].occ /\ ~Exists(p))
AdoptCheck(j) ==
  /\ w[j].stage = "answered"
  /\ LET new == Header(j)
         free == FreeForUs(j, Temp(new), w[j].temp) /\ FreeForUs(j, new, w[j].target)
     IN w' = [w EXCEPT ![j].stage = IF new # w[j].target /\ free THEN "adopting" ELSE "named", ![j].new = new]
  /\ UNCHANGED <<files, rows, flags, crossed, unchanged>>

\* The rename, or disposition_switch_allowed without one.
AdoptMove(j) ==
  /\ w[j].stage = "adopting"
  /\ LET new == Temp(w[j].new)
         moves == Exists(w[j].temp)
         adopts == moves \/ (~w[j].resume /\ ~Exists(new))
     IN /\ files' = IF moves THEN Renamed(w[j].temp, new) ELSE files
        /\ w' = IF adopts
                THEN [(IF moves THEN Unlinked(w, new) ELSE w) EXCEPT
                        ![j].stage = "named", ![j].target = w[j].new, ![j].temp = new]
                ELSE [w EXCEPT ![j].stage = "named"]
        /\ Crosses(j, w[j].new, adopts)
  /\ UNCHANGED <<rows, flags, unchanged>>

\* EngineIdentity.commit.
Wiped(j) == j \in requeue \/ part[j] # NoPath
Commit(j, target) ==
  rows' = IF j \in Present /\ ~Wiped(j)
          THEN [rows EXCEPT ![j].target = target, ![j].temp = w[j].temp] ELSE rows
CommitName(j) ==
  /\ w[j].stage = "named" /\ Commit(j, w[j].target) /\ Goes(j, "open")
  /\ UNCHANGED <<files, flags, crossed, unchanged>>

\* AppendSink::open: an offset of zero truncates.
Holders(p) == {k \in Jobs : w[k].has /\ w[k].temp = p}
Open(j) ==
  /\ w[j].stage = "open"
  /\ LET p == w[j].temp
         kept == IF ~Exists(p) THEN {} ELSE IF w[j].resume THEN files[p] ELSE Holders(p)
     IN files' = With(p, {j} \cup kept)
  /\ w' = [w EXCEPT ![j].stage = "body", ![j].has = TRUE]
  /\ UNCHANGED <<rows, flags, crossed, unchanged>>

\* output_discarded.
Discarded(j) == j \in requeue \/ j \in final \/ (part[j] # NoPath /\ j \in Present)

\* move_to_final_path: the look for a free name, then the rename.
PickName(j) ==
  /\ w[j].stage = "body" /\ ~Discarded(j)
  /\ LET p == w[j].target
         free == {i \in 0..MaxIndex : ~Exists(Numbered(p, i))}
     IN IF rows[j].replace \/ free # {}
        THEN w' = [w EXCEPT ![j].stage = "move", ![j].new = IF rows[j].replace THEN p ELSE First(p, free)]
        ELSE Stops(j, "failed")
  /\ UNCHANGED <<files, rows, flags, crossed, unchanged>>
\* Left out: replace_final_path first removes a file that is called <name>.replaced, and a
\* program may save a file at the number that was found free.
Move(j) ==
  /\ w[j].stage = "move"
  /\ IF Exists(w[j].temp)
     THEN /\ files' = Renamed(w[j].temp, w[j].new)
          /\ w' = [Unlinked(Unlinked(w, w[j].temp), w[j].new) EXCEPT
                     ![j].stage = "moved", ![j].made = w[j].new]
          /\ Crosses(j, w[j].new, w[j].new # w[j].target)
     ELSE Stops(j, "failed") /\ UNCHANGED <<files, crossed>>
  /\ UNCHANGED <<rows, flags, unchanged>>

\* The looks at what is to be discarded after it, before and after the commit of the name.
Forget(j) ==
  /\ files' = Without(w[j].made)
  /\ w' = [w EXCEPT ![j].stage = "cancel", ![j].made = NoPath]
CommitFinal(j) ==
  /\ w[j].stage = "moved"
  /\ IF Discarded(j) THEN Forget(j) /\ UNCHANGED rows
     ELSE Commit(j, w[j].made) /\ Goes(j, "final") /\ UNCHANGED files
  /\ UNCHANGED <<flags, crossed, unchanged>>
LastLook(j) ==
  /\ w[j].stage = "final"
  /\ IF Discarded(j) THEN Forget(j) ELSE Goes(j, "done") /\ UNCHANGED files
  /\ UNCHANGED <<rows, flags, crossed, unchanged>>

\* An error, a stop or a discard ends the attempt.
Ends(j) == \E how \in {"failed", w[j].stop} \ {"no"} :
  /\ w[j].stage \in {"answered", "named", "open", "body"} /\ Stops(j, how)
  /\ UNCHANGED <<files, rows, flags, crossed, unchanged>>

\* finalize_worker: its lock section.
Finalize(j) ==
  /\ w[j].stage \in {"failed", "pause", "cancel", "done"}
  /\ LET again == j \in requeue
         deletes == part[j] # NoPath
         defer == again /\ deletes
         st == CASE again -> "queued"
                 [] ~again /\ w[j].stage = "done" /\ ~deletes -> "done"
                 [] ~again /\ (w[j].stage = "pause" \/ (w[j].stage = "failed" /\ w[j].stop = "pause")) -> "paused"
                 [] OTHER -> "ended"
     IN /\ rows' = IF j \in Present THEN [rows EXCEPT ![j].st = st] ELSE rows
        /\ tails' = tails \cup {[job |-> j, part |-> part[j], flag |-> defer,
                                 file |-> IF Discarded(j) THEN w[j].made ELSE NoPath]}
        /\ part' = IF defer THEN part ELSE [part EXCEPT ![j] = NoPath]
        /\ requeue' = IF defer THEN requeue ELSE requeue \ {j}
        /\ final' = final \ {j}
  /\ w' = [w EXCEPT ![j] = NoWork]
  /\ UNCHANGED <<sc, files, cmd, crossed, ncmd>>

\* What it deletes when the rows are saved, and unblocks.
TailDelete == \E t \in tails :
  /\ tails' = tails \ {t}
  /\ files' = [q \in DOMAIN files \ {t.part, t.file} |-> files[q]]
  /\ w' = Unlinked(Unlinked(w, t.part), t.file)
  /\ part' = IF t.flag THEN [part EXCEPT ![t.job] = NoPath] ELSE part
  /\ requeue' = IF t.flag THEN requeue \ {t.job} ELSE requeue
  /\ UNCHANGED <<sc, rows, final, cmd, crossed, ncmd>>

-----------------------------------------------------------------------------
Init ==
  /\ sc \in Scenarios
  /\ files = [p \in sc.files |-> {0}]
  /\ rows = [j \in Jobs |-> NoRow]
  /\ part = [j \in Jobs |-> NoPath] /\ final = {} /\ requeue = {}
  /\ w = [j \in Jobs |-> NoWork] /\ tails = {} /\ cmd = NoCmd /\ crossed = {} /\ ncmd = 0

Commands ==
  \/ \E p \in sc.wanted : Saves(p)
  \/ \E j \in Jobs : Add(j) \/ Pause(j) \/ Resume(j) \/ Cancel(j) \/ Restart(j) \/ Remove(j)
Worker(j) ==
  \/ Start(j) \/ AdoptCheck(j) \/ AdoptMove(j) \/ CommitName(j) \/ Open(j) \/ PickName(j)
  \/ Move(j) \/ CommitFinal(j) \/ LastLook(j) \/ Ends(j) \/ Finalize(j)
Next == Commands \/ CmdDelete \/ TailDelete \/ \E j \in Jobs : Worker(j)
Spec == Init /\ [][Next]_vars

-----------------------------------------------------------------------------
\* Properties

\* A download writes, or goes on with, a .part in which there are only its own bytes: no other
\* one's that runs, was removed, or left it behind.
PartOwned ==
  \A j \in Jobs : w[j].has /\ j \notin crossed => Exists(w[j].temp) /\ files[w[j].temp] = {j}

\* The file of a completed download stays until the user removes it, lets another one replace it,
\* or has the file deleted of a row whose file it replaced.
FinishedKept ==
  [][\A j \in Jobs : \A p \in {rows[j].target} \cap DOMAIN files :
       j \notin crossed' /\ rows[j].st = "done" /\ rows'[j].st = "done" /\ files[p] = {j}
         => \/ p \in DOMAIN files' /\ files'[p] = {j}
            \/ \E k \in Jobs \ {j} : rows[k].replace /\ rows[k].target = p
            \/ rows[j].replace /\ p = cmd.file]_vars

\* A file of the user's stays, unless he lets a download replace it, or has the file of a row
\* deleted at whose path it lies.
UserKept ==
  [][\A p \in DOMAIN files :
       files[p] = {0} /\ ~(p \in DOMAIN files' /\ files'[p] = {0})
         => \/ \E j \in Jobs : rows'[j].replace /\ p \in {rows'[j].target, rows'[j].temp}
            \/ p = cmd.file]_vars

\* Nothing else that a job does takes a file away that somebody wants, as far as the model goes:
\* not the <name>.replaced that Overwrite removes, nor a file saved between the look and the
\* rename of Move; the code loses both.
FilesKept == FinishedKept /\ UserKept

\* Two workers never have one .part open.
HeldApart == \A j, k \in Jobs : w[j].has /\ w[k].has /\ w[j].temp = w[k].temp => j = k
=============================================================================
