---------------------------- MODULE NamesProofs ----------------------------
(***************************************************************************)
(* Theorems about Names: for all jobs, paths, files of the user's and      *)
(* names that servers send, a download that has come to no path of another *)
(* one's writes into a .part of its own.                                   *)
(***************************************************************************)
EXTENDS Names, NaturalsInduction, WellFoundedInduction, TLAPS

-----------------------------------------------------------------------------
(* What the variables hold.                                                *)

Stages   == {"none", "answered", "adopting", "named", "open", "body", "move", "moved", "final",
             "done", "failed", "pause", "cancel"}
RowRecs  == [st : {"none", "queued", "running", "paused", "ended", "done", "gone"},
             target : PathRecs, temp : PathRecs, replace : BOOLEAN]
WorkRecs == [stage : Stages, target : PathRecs, temp : PathRecs, occ : SUBSET PathRecs, new : PathRecs,
             resume : BOOLEAN, has : BOOLEAN, stop : {"no", "pause", "cancel"}, made : PathRecs]
DueRecs  == [job : Jobs, part : PathRecs, file : PathRecs, flag : BOOLEAN]

Typed ==
  /\ sc \in Scenarios
  /\ rows \in [Jobs -> RowRecs] /\ w \in [Jobs -> WorkRecs]
  /\ part \in [Jobs -> PathRecs] /\ final \subseteq Jobs /\ requeue \subseteq Jobs
  /\ tails \subseteq DueRecs /\ cmd \in DueRecs /\ crossed \subseteq Jobs

-----------------------------------------------------------------------------
(* Numbers, paths and files.                                               *)

LEMMA Least ==
  ASSUME NEW T, T \subseteq Nat, T # {}
  PROVE  \E n \in T : \A m \in T : n <= m
<1> DEFINE Less == {ss \in Nat \X Nat : ss[1] < ss[2]}
<1>1. IsWellFoundedOn(Less, Nat)
  BY NatLessThanWellFounded DEF OpToRel
<1>2. \E x \in T : \A y \in T : ~(<<y, x>> \in Less)
  <2> HIDE DEF Less
  <2> QED BY <1>1, WFMin
<1>3. PICK n \in T : \A m \in T : ~(<<m, n>> \in Less)
  BY <1>2
<1>4. ASSUME NEW m \in T PROVE n <= m
  <2>1. <<m, n>> \in Nat \X Nat /\ <<m, n>>[1] = m /\ <<m, n>>[2] = n
    OBVIOUS
  <2>2. ~(m < n)
    BY <1>3, <2>1
  <2> QED
    BY <2>2
<1> QED
  BY <1>4

LEMMA PathTyped ==
  /\ NoPath \in PathRecs /\ NoPath.parts = 0 /\ NoPath.name = ""
  /\ \A s \in PathNames, n \in Nat : /\ Path(s, n) \in PathRecs /\ Path(s, n).name = s
                                  /\ Path(s, n).parts = n
<1>1. <<>> \in Seq(Nat)
  OBVIOUS
<1>2. ASSUME NEW s \in PathNames, NEW n \in Nat
      PROVE  Path(s, n) \in PathRecs /\ Path(s, n).name = s /\ Path(s, n).parts = n
  BY <1>1 DEF Path, PathRecs
<1> QED
  BY <1>2 DEF NoPath, PathNames

LEMMA TempTyped ==
  ASSUME NEW p \in PathRecs
  PROVE  /\ Temp(p) \in PathRecs /\ Temp(p).parts # 0 /\ Temp(p).parts = p.parts + 1
         /\ Temp(p).name = p.name /\ Temp(p) # p /\ Temp(p) # NoPath
<1>1. /\ Temp(p) \in PathRecs /\ Temp(p).parts = p.parts + 1 /\ Temp(p).name = p.name
  BY DEF Temp, PathRecs
<1>2. p.parts \in Nat
  BY DEF PathRecs
<1>3. p.parts + 1 # p.parts /\ p.parts + 1 # 0
  BY <1>2
<1> QED
  BY <1>1, <1>3, PathTyped

LEMMA NumberedTyped ==
  ASSUME NEW p \in PathRecs, NEW i \in Nat
  PROVE  Numbered(p, i) \in PathRecs /\ Numbered(p, i).name = p.name /\ Numbered(p, i).parts = p.parts
<1>1. Append(p.added, i) \in Seq(Nat)
  BY DEF PathRecs
<1> QED
  BY <1>1 DEF Numbered, PathRecs

\* The first free number is one of the free numbers.
LEMMA FirstFree ==
  ASSUME NEW p \in PathRecs, NEW free, free \subseteq Nat, free # {}
  PROVE  \E i \in free : First(p, free) = Numbered(p, i)
<1>1. (CHOOSE i \in free : \A k \in free : i <= k) \in free
  BY Least
<1> QED
  BY <1>1 DEF First

LEMMA WithHas ==
  ASSUME NEW p, NEW by, files' = With(p, by)
  PROVE  /\ DOMAIN files' = DOMAIN files \cup {p} /\ files'[p] = by
         /\ \A q \in DOMAIN files \ {p} : files'[q] = files[q]
BY DEF With

LEMMA WithoutHas ==
  ASSUME NEW p, files' = Without(p)
  PROVE  /\ DOMAIN files' = DOMAIN files \ {p}
         /\ \A q \in DOMAIN files \ {p} : files'[q] = files[q]
BY DEF Without

LEMMA RenamedHas ==
  ASSUME NEW p \in DOMAIN files, NEW q, files' = Renamed(p, q)
  PROVE  /\ DOMAIN files' = (DOMAIN files \ {p}) \cup {q} /\ files'[q] = files[p]
         /\ \A r \in DOMAIN files \ {p, q} : files'[r] = files[r]
BY DEF Renamed

\* A worker as it was, but perhaps with a stop for it or without its file's name.
Same(v, u) ==
  /\ v.stage = u.stage /\ v.target = u.target /\ v.temp = u.temp /\ v.new = u.new /\ v.made = u.made
  /\ v.has => u.has

LEMMA UnlinkedHas ==
  ASSUME NEW ws \in [Jobs -> WorkRecs], NEW p
  PROVE  /\ Unlinked(ws, p) \in [Jobs -> WorkRecs]
         /\ \A k \in Jobs : /\ Same(Unlinked(ws, p)[k], ws[k]) /\ Unlinked(ws, p)[k].stop = ws[k].stop
                            /\ Unlinked(ws, p)[k].has => ws[k].temp # p
<1>1. ASSUME NEW k \in Jobs
      PROVE  /\ Unlinked(ws, p)[k] \in WorkRecs
             /\ Same(Unlinked(ws, p)[k], ws[k]) /\ Unlinked(ws, p)[k].stop = ws[k].stop
             /\ Unlinked(ws, p)[k].has => ws[k].temp # p
  <2>1. ws[k] \in WorkRecs
    OBVIOUS
  <2> QED
    BY <2>1 DEF Unlinked, WorkRecs, Same
<1> QED
  BY <1>1 DEF Unlinked

-----------------------------------------------------------------------------
(* Every variable keeps its type.                                          *)

LEMMA Scenario ==
  ASSUME Typed
  PROVE  /\ \A p \in sc.wanted : p \in PathRecs /\ p.name \in FileNames
         /\ \A n \in DOMAIN sc.header : sc.header[n] \in FileNames
BY NamesAssumption DEF Typed

LEMMA RowTyped ==
  ASSUME Typed, NEW j \in Jobs
  PROVE  /\ rows[j] \in RowRecs /\ rows[j].target \in PathRecs /\ rows[j].temp \in PathRecs
         /\ rows[j].replace \in BOOLEAN
         /\ w[j] \in WorkRecs /\ w[j].stage \in Stages /\ w[j].target \in PathRecs /\ w[j].temp \in PathRecs
         /\ w[j].new \in PathRecs /\ w[j].made \in PathRecs /\ w[j].occ \subseteq PathRecs
         /\ w[j].stop \in {"no", "pause", "cancel"} /\ w[j].resume \in BOOLEAN /\ w[j].has \in BOOLEAN
BY DEF Typed, RowRecs, WorkRecs

LEMMA NoneTyped ==
  /\ NoCmd \in DueRecs /\ NoWork \in WorkRecs /\ NoRow \in RowRecs
  /\ NoCmd.part = NoPath /\ NoCmd.file = NoPath
<1>1. NoCmd.job \in Jobs
  BY NamesAssumption DEF NoCmd
<1> QED
  BY <1>1, PathTyped DEF NoCmd, DueRecs, NoWork, WorkRecs, NoRow, RowRecs, Stages

LEMMA PathsTyped ==
  ASSUME Typed, NEW js \in SUBSET Jobs
  PROVE  Paths(js) \subseteq PathRecs
BY RowTyped DEF Paths

\* The path that Add finds: the one that was asked for, if it is to be replaced, else a free one.
LEMMA AllocatedTyped ==
  ASSUME NEW p \in PathRecs, NEW o \in BOOLEAN, Replaces(p, o) \/ Numbers(p) # {}
  PROVE  /\ Allocated(p, o) \in PathRecs /\ Allocated(p, o).name = p.name
         /\ Replaces(p, o) => Allocated(p, o) = p
         /\ ~Replaces(p, o) => ~Taken(Allocated(p, o))
<1>1. CASE Replaces(p, o)
  BY <1>1 DEF Allocated
<1>2. CASE ~Replaces(p, o)
  <2>1. Numbers(p) # {} /\ Numbers(p) \subseteq Nat
    <3>1. Numbers(p) \subseteq 0..MaxIndex /\ MaxIndex \in Nat
      BY NamesAssumption DEF Numbers
    <3> QED
      BY <1>2, <3>1
  <2>2. PICK i \in Numbers(p) : First(p, Numbers(p)) = Numbered(p, i)
    BY <2>1, FirstFree
  <2>3. i \in Nat /\ ~Taken(Numbered(p, i))
    BY <2>1, <2>2 DEF Numbers
  <2> QED
    BY <1>2, <2>2, <2>3, NumberedTyped DEF Allocated
<1> QED
  BY <1>1, <1>2

LEMMA ToldHas ==
  ASSUME Typed, NEW j \in Jobs, NEW s \in {"no", "pause", "cancel"}, Told(j, s)
  PROVE  /\ w' \in [Jobs -> WorkRecs]
         /\ \A k \in Jobs : Same(w'[k], w[k]) /\ (k # j => w'[k] = w[k])
         /\ w'[j].stop = IF Active(j) THEN s ELSE w[j].stop
<1>1. w[j] \in WorkRecs /\ w \in [Jobs -> WorkRecs]
  BY RowTyped DEF Typed
<1>2. [w[j] EXCEPT !.stop = s] \in WorkRecs /\ Same([w[j] EXCEPT !.stop = s], w[j])
  BY <1>1 DEF WorkRecs, Same
<1>3. w' = IF Active(j) THEN [w EXCEPT ![j] = [w[j] EXCEPT !.stop = s]] ELSE w
  BY DEF Told
<1>4. \A k \in Jobs : Same(w[k], w[k])
  BY DEF Same
<1> QED
  BY <1>1, <1>2, <1>3, <1>4 DEF WorkRecs

-----------------------------------------------------------------------------
(* What a job's row and its worker have to do with each other.             *)

Live(j)    == j \in Present /\ rows[j].st # "done"
Over(j, p) == rows[j].replace /\ rows[j].target = p

\* The paths of a job that goes on: where it writes, where its file is to be or is, and where it
\* may have written.
Temps(j) == (IF Live(j) THEN {rows[j].temp} ELSE {}) \cup (IF Active(j) THEN {w[j].temp} ELSE {})
Goals(j) == (IF j \in Present THEN {rows[j].target} ELSE {})
            \cup (IF Active(j) THEN {w[j].target, w[j].made} \ {NoPath} ELSE {})
Olds(j)  == (IF j \in Present THEN {rows[j].temp} ELSE {}) \cup ({part[j]} \ {NoPath})
            \cup (IF Active(j) THEN {w[j].temp} ELSE {})

RowOk(j) ==
  /\ rows[j].st = "none" => rows[j].temp = NoPath /\ ~rows[j].replace
  /\ rows[j].st # "none" => rows[j].temp.parts # 0 /\ rows[j].target.name \in FileNames
  /\ part[j] \in {NoPath, rows[j].temp}
  /\ j \in final => rows[j].st = "gone"

WorkOk(j) ==
  /\ Active(j) => w[j].temp.parts # 0 /\ w[j].target.name \in FileNames
  /\ w[j].stage \in {"adopting", "move"} => w[j].new.name \in FileNames
  /\ w[j].has => w[j].stage \in {"body", "move"}
  /\ Active(j) => rows[j].st \notin {"none", "done"} /\ (w[j].stop = "no" => rows[j].st # "gone")
  /\ w[j].made # NoPath => w[j].made.name \in FileNames
  /\ w[j].made # NoPath <=> w[j].stage \in {"moved", "final", "done"}
  /\ w[j].stage \in {"final", "done"} /\ j \in Present => rows[j].target = w[j].made

\* A job that replaces a file stays where that file is.
ReplaceOk(j) ==
  rows[j].replace /\ Active(j) =>
    /\ w[j].target = rows[j].target /\ w[j].made \in {NoPath, rows[j].target}
    /\ w[j].stage = "move" => w[j].new = rows[j].target
    /\ w[j].stage # "adopting"

JobOk(j) == RowOk(j) /\ WorkOk(j) /\ ReplaceOk(j)
JobsOk   == \A j \in Jobs : JobOk(j)

\* What a step leaves of a job that it is not about.
Still(k) ==
  /\ rows'[k] = rows[k] /\ Same(w'[k], w[k]) /\ w'[k].stop = w[k].stop
  /\ part'[k] \in {NoPath, part[k]} /\ (k \in final' => k \in final)

\* A step of a job that brings it to no path where it was not.
Quiet(j) ==
  /\ Temps(j)' \subseteq Temps(j) /\ Goals(j)' \subseteq Goals(j) /\ Olds(j)' \subseteq Olds(j)
  /\ rows[j].replace => rows'[j].replace /\ rows'[j].target = rows[j].target
  /\ rows[j].st = "done" => rows'[j].st = "done" \/ Goals(j)' = {}

\* A step that opens no file for a job.
Holds(j) == w'[j].has => w[j].has /\ w'[j].temp = w[j].temp

Others(j) == \A k \in Jobs \ {j} : Still(k)
Moved(j)  == Typed' /\ Others(j) /\ JobOk(j)'

LEMMA StillOk ==
  ASSUME JobsOk, NEW k \in Jobs, Still(k)
  PROVE  JobOk(k)' /\ Quiet(k) /\ Temps(k)' = Temps(k) /\ Goals(k)' = Goals(k)
<1>1. /\ JobOk(k) /\ rows'[k] = rows[k] /\ Same(w'[k], w[k]) /\ w'[k].stop = w[k].stop
      /\ part'[k] \in {NoPath, part[k]} /\ (k \in final' => k \in final)
  BY DEF JobsOk, Still
<1>2. /\ (k \in Present)' <=> k \in Present
      /\ Active(k)' <=> Active(k)
      /\ Live(k)' <=> Live(k)
  BY <1>1 DEF Present, Active, Live, Same
<1>3. RowOk(k)'
  BY <1>1, <1>2 DEF JobOk, RowOk
<1>4. WorkOk(k)'
  BY <1>1, <1>2 DEF JobOk, WorkOk, Same
<1>5. ReplaceOk(k)'
  BY <1>1, <1>2 DEF JobOk, ReplaceOk, Same
<1>6. Temps(k)' = Temps(k) /\ Goals(k)' = Goals(k)
  BY <1>1, <1>2 DEF Temps, Goals, Same
<1>7. Olds(k)' \subseteq Olds(k)
  BY <1>1, <1>2 DEF Olds, Same
<1> QED
  BY <1>1, <1>3, <1>4, <1>5, <1>6, <1>7 DEF JobOk, Quiet

LEMMA SameStays ==
  /\ \A k \in Jobs : Same(w[k], w[k])
  /\ \A k \in Jobs : w'[k] = w[k] /\ rows'[k] = rows[k] /\ part'[k] = part[k] /\ final' \subseteq final => Still(k)
BY DEF Same, Still

-----------------------------------------------------------------------------
(* The user's commands.                                                    *)

\* What all of them do: a stop for the worker, a state for the row, and what is to be deleted
\* remembered.
LEMMA ToldStep ==
  ASSUME Typed, JobsOk, NEW j \in Jobs, j \in Present,
         NEW s \in {"no", "pause", "cancel"}, Told(j, s),
         NEW st \in {"queued", "running", "paused", "ended", "gone"},
         rows' = [rows EXCEPT ![j].st = st],
         s = "no" => st # "gone", rows[j].st = "done" => st = "gone",
         part' \in [Jobs -> PathRecs], part'[j] \in {NoPath, part[j], rows[j].temp},
         \A k \in Jobs \ {j} : part'[k] = part[k],
         final' \subseteq Jobs, \A k \in final' : k \in final \/ (k = j /\ st = "gone"),
         requeue' \subseteq Jobs, cmd' \in DueRecs, UNCHANGED <<sc, tails, crossed>>
  PROVE  Moved(j) /\ Quiet(j) /\ Holds(j)
<1>1. JobOk(j) /\ RowOk(j) /\ WorkOk(j) /\ ReplaceOk(j)
  BY DEF JobsOk, JobOk
<1>3. /\ w' \in [Jobs -> WorkRecs]
      /\ \A k \in Jobs : Same(w'[k], w[k]) /\ (k # j => w'[k] = w[k])
      /\ w'[j].stop = IF Active(j) THEN s ELSE w[j].stop
  BY ToldHas
<1>5. rows[j] \in RowRecs /\ rows \in [Jobs -> RowRecs]
  BY DEF Typed
<1>6. /\ rows' \in [Jobs -> RowRecs] /\ rows'[j].st = st /\ rows'[j].target = rows[j].target
      /\ rows'[j].temp = rows[j].temp /\ rows'[j].replace = rows[j].replace
      /\ \A k \in Jobs \ {j} : rows'[k] = rows[k]
  BY <1>5 DEF RowRecs
<1>8. Typed'
  BY <1>3, <1>6 DEF Typed
<1>9. Others(j)
  <2> SUFFICES ASSUME NEW k \in Jobs \ {j} PROVE Still(k)
    BY DEF Others
  <2> QED
    BY <1>3, <1>6, SameStays DEF Still
<1>10. /\ (j \in Present)' => st # "gone"
       /\ rows[j].st \notin {"none", "gone"} /\ (Active(j)' <=> Active(j)) /\ (Live(j)' => Live(j))
       /\ rows[j].st = "done" => ~Active(j)
  BY <1>1, <1>3, <1>6 DEF Present, Live, Active, Same, WorkOk
<1>11. RowOk(j)'
  BY <1>1, <1>6, <1>10 DEF RowOk
<1>12. WorkOk(j)'
  BY <1>1, <1>3, <1>6, <1>10 DEF WorkOk, Same, Active
<1>13. ReplaceOk(j)'
  BY <1>1, <1>3, <1>6, <1>10 DEF ReplaceOk, Same
<1>14. Quiet(j)
  <2>1. Temps(j)' \subseteq Temps(j) /\ Goals(j)' \subseteq Goals(j)
    BY <1>3, <1>6, <1>10 DEF Temps, Goals, Same
  <2>2. Olds(j)' \subseteq Olds(j)
    BY <1>3, <1>6, <1>10 DEF Olds, Same
  <2>3. rows[j].st = "done" => Goals(j)' = {}
    BY <1>6, <1>10 DEF Goals, Present
  <2> QED
    BY <1>6, <2>1, <2>2, <2>3 DEF Quiet
<1>15. Holds(j)
  BY <1>3 DEF Holds, Same
<1> QED
  BY <1>15, <1>8, <1>9, <1>11, <1>12, <1>13, <1>14 DEF Moved, JobOk

LEMMA PauseStep ==
  ASSUME Typed, JobsOk, NEW j \in Jobs, Pause(j)
  PROVE  Moved(j) /\ Quiet(j) /\ Holds(j)
<1>1. PICK st \in {"paused", "running"} : rows' = [rows EXCEPT ![j].st = st]
  BY DEF Pause
<1>2. j \in Present /\ rows[j].st # "done" /\ Told(j, "pause")
  BY DEF Pause, Present
<1>3. UNCHANGED <<sc, part, final, requeue, tails, cmd, crossed>>
  BY DEF Pause, flags
<1> QED
  BY <1>1, <1>2, <1>3, ToldStep DEF Typed

LEMMA ResumeStep ==
  ASSUME Typed, JobsOk, NEW j \in Jobs, Resume(j)
  PROVE  Moved(j) /\ Quiet(j) /\ Holds(j)
<1>2. j \in Present /\ rows[j].st # "done" /\ Told(j, "no") /\ rows' = [rows EXCEPT ![j].st = "queued"]
  BY DEF Resume, Present
<1>3. UNCHANGED <<sc, part, final, requeue, tails, cmd, crossed>>
  BY DEF Resume, flags
<1> QED
  BY <1>2, <1>3, ToldStep DEF Typed

LEMMA CommandTyped ==
  ASSUME NEW j \in Jobs, NEW p \in PathRecs, NEW q \in PathRecs, NEW b \in BOOLEAN
  PROVE  /\ [NoCmd EXCEPT !.job = j, !.part = p] \in DueRecs
         /\ [NoCmd EXCEPT !.job = j, !.part = p, !.flag = b] \in DueRecs
         /\ [NoCmd EXCEPT !.job = j, !.part = p, !.file = q] \in DueRecs
BY NoneTyped DEF DueRecs

LEMMA CancelStep ==
  ASSUME Typed, JobsOk, NEW j \in Jobs, Cancel(j)
  PROVE  Moved(j) /\ Quiet(j) /\ Holds(j)
<1>1. PICK st \in {"ended", "running"} : rows' = [rows EXCEPT ![j].st = st]
  BY DEF Cancel
<1>2. j \in Present /\ rows[j].st # "done" /\ Told(j, "cancel")
  BY DEF Cancel, Present
<1>3. UNCHANGED <<sc, final, requeue, tails, crossed>>
  BY DEF Cancel
<1>4. /\ \E p \in {rows[j].temp, part[j]} : part' = part \/ part' = [part EXCEPT ![j] = p]
      /\ cmd' = cmd \/ cmd' = [NoCmd EXCEPT !.job = j, !.part = rows[j].temp]
  BY DEF Cancel
<1>5. /\ part' \in [Jobs -> PathRecs] /\ part'[j] \in {part[j], rows[j].temp}
      /\ \A k \in Jobs \ {j} : part'[k] = part[k]
  BY <1>4, RowTyped DEF Typed
<1>6. cmd' \in DueRecs
  <2>1. [NoCmd EXCEPT !.job = j, !.part = rows[j].temp] \in DueRecs /\ cmd \in DueRecs
    BY RowTyped, CommandTyped DEF Typed
  <2> QED
    BY <1>4, <2>1
<1> QED
  BY <1>1, <1>2, <1>3, <1>5, <1>6, ToldStep DEF Typed

LEMMA RestartStep ==
  ASSUME Typed, JobsOk, NEW j \in Jobs, Restart(j)
  PROVE  Moved(j) /\ Quiet(j) /\ Holds(j)
<1>2. j \in Present /\ rows[j].st # "done" /\ Told(j, "cancel") /\ rows' = [rows EXCEPT ![j].st = "queued"]
  BY DEF Restart
<1>3. UNCHANGED <<sc, final, tails, crossed>> /\ requeue' \subseteq requeue \cup {j}
  BY DEF Restart
<1>4. /\ part' = [part EXCEPT ![j] = rows[j].temp]
      /\ cmd' = cmd \/ cmd' = [NoCmd EXCEPT !.job = j, !.part = rows[j].temp, !.flag = TRUE]
  BY DEF Restart
<1>5. /\ part' \in [Jobs -> PathRecs] /\ part'[j] = rows[j].temp
      /\ \A k \in Jobs \ {j} : part'[k] = part[k]
  BY <1>4, RowTyped DEF Typed
<1>6. cmd' \in DueRecs
  <2>1. [NoCmd EXCEPT !.job = j, !.part = rows[j].temp, !.flag = TRUE] \in DueRecs /\ cmd \in DueRecs
    BY RowTyped, CommandTyped DEF Typed
  <2> QED
    BY <1>4, <2>1
<1>7. requeue' \subseteq Jobs /\ final' \subseteq Jobs
  BY <1>3 DEF Typed
<1> QED
  BY <1>2, <1>3, <1>5, <1>6, <1>7, ToldStep

LEMMA RemoveStep ==
  ASSUME Typed, JobsOk, NEW j \in Jobs, Remove(j)
  PROVE  Moved(j) /\ Quiet(j) /\ Holds(j)
<1>2. j \in Present /\ Told(j, "cancel") /\ rows' = [rows EXCEPT ![j].st = "gone"]
  BY DEF Remove
<1>3. UNCHANGED <<sc, tails, crossed>> /\ requeue' = requeue \ {j} /\ final' \subseteq final \cup {j}
  BY DEF Remove
<1>0. {NoPath, rows[j].temp, rows[j].target, part[j]} \subseteq PathRecs
  <2>1. NoPath \in PathRecs /\ rows[j].temp \in PathRecs /\ rows[j].target \in PathRecs
    BY RowTyped, PathTyped
  <2>2. part[j] \in PathRecs
    BY DEF Typed
  <2> QED
    BY <2>1, <2>2
<1>4. /\ \E p \in {rows[j].temp, part[j], NoPath} : part' = [part EXCEPT ![j] = p]
      /\ \/ cmd' = cmd
         \/ \E p, q \in {NoPath, rows[j].temp, rows[j].target} :
               cmd' = [NoCmd EXCEPT !.job = j, !.part = p, !.file = q]
  BY DEF Remove
<1>5. /\ part' \in [Jobs -> PathRecs] /\ part'[j] \in {NoPath, part[j], rows[j].temp}
      /\ \A k \in Jobs \ {j} : part'[k] = part[k]
  <2>1. PICK p \in {rows[j].temp, part[j], NoPath} : part' = [part EXCEPT ![j] = p]
    BY <1>4
  <2>2. p \in PathRecs /\ part \in [Jobs -> PathRecs]
    BY <1>0 DEF Typed
  <2> QED
    BY <2>1, <2>2
<1>6. cmd' \in DueRecs
  <2>1. cmd \in DueRecs
    BY DEF Typed
  <2>2. \A p, q \in {NoPath, rows[j].temp, rows[j].target} : [NoCmd EXCEPT !.job = j, !.part = p, !.file = q] \in DueRecs
    BY <1>0, CommandTyped
  <2> QED
    BY <1>4, <2>1, <2>2
<1>7. requeue' \subseteq Jobs /\ final' \subseteq Jobs
  BY <1>3 DEF Typed
<1> QED
  BY <1>2, <1>3, <1>5, <1>6, <1>7, ToldStep

-----------------------------------------------------------------------------
(* A worker's steps.                                                       *)

LEMMA WorkStep ==
  ASSUME Typed, NEW j \in Jobs, NEW u \in WorkRecs, w' = [w EXCEPT ![j] = u],
         NEW r \in RowRecs, rows' = [rows EXCEPT ![j] = r],
         part' \in [Jobs -> PathRecs], \A k \in Jobs \ {j} : part'[k] = part[k],
         final' \subseteq final, requeue' \subseteq Jobs, tails' \subseteq DueRecs,
         crossed' \subseteq Jobs, UNCHANGED <<sc, cmd>>
  PROVE  Typed' /\ Others(j) /\ w'[j] = u /\ rows'[j] = r
<1>1. /\ w' \in [Jobs -> WorkRecs] /\ w'[j] = u /\ rows' \in [Jobs -> RowRecs] /\ rows'[j] = r
      /\ \A k \in Jobs \ {j} : w'[k] = w[k] /\ rows'[k] = rows[k]
  BY DEF Typed
<1>2. Typed'
  BY <1>1 DEF Typed
<1>3. Others(j)
  BY <1>1, SameStays DEF Others
<1> QED
  BY <1>1, <1>2, <1>3

\* A step that only changes the worker.
LEMMA OwnStep ==
  ASSUME Typed, NEW j \in Jobs, NEW u \in WorkRecs, w' = [w EXCEPT ![j] = u],
         UNCHANGED <<rows, flags, unchanged>>, crossed' \subseteq Jobs
  PROVE  Typed' /\ Others(j) /\ w'[j] = u /\ rows'[j] = rows[j] /\ part'[j] = part[j] /\ final' = final
<1>1. rows[j] \in RowRecs /\ rows' = [rows EXCEPT ![j] = rows[j]]
  BY DEF Typed
<1>2. /\ part' \in [Jobs -> PathRecs] /\ part' = part /\ final' = final /\ requeue' \subseteq Jobs
      /\ tails' \subseteq DueRecs /\ UNCHANGED <<sc, cmd>>
  BY DEF Typed, flags, unchanged
<1> QED
  BY <1>1, <1>2, WorkStep

LEMMA StartStep ==
  ASSUME Typed, JobsOk, NEW j \in Jobs, Start(j)
  PROVE  Moved(j) /\ Quiet(j) /\ Holds(j) /\ j \in Present /\ crossed \subseteq crossed'
<1> DEFINE u == [NoWork EXCEPT !.stage = "answered", !.target = rows[j].target, !.temp = rows[j].temp,
                             !.occ = Paths(Present \ {j}), !.resume = Exists(rows[j].temp)]
           r == [rows[j] EXCEPT !.st = "running"]
<1>1. JobOk(j) /\ RowOk(j) /\ WorkOk(j) /\ ReplaceOk(j)
  BY DEF JobsOk, JobOk
<1>2. Paths(Present \ {j}) \subseteq PathRecs /\ Exists(rows[j].temp) \in BOOLEAN
  <2>1. Present \ {j} \in SUBSET Jobs /\ Exists(rows[j].temp) \in BOOLEAN
    BY DEF Present, Exists
  <2> QED
    BY <2>1, PathsTyped
<1>3. rows[j].target \in PathRecs /\ rows[j].temp \in PathRecs /\ NoWork \in WorkRecs
  BY RowTyped, NoneTyped
<1>4. /\ u \in WorkRecs /\ u.stage = "answered" /\ u.target = rows[j].target /\ u.temp = rows[j].temp
      /\ u.has = FALSE /\ u.stop = "no" /\ u.made = NoPath
  BY <1>2, <1>3 DEF NoWork, WorkRecs, Stages
<1>5. /\ r \in RowRecs /\ r.st = "running" /\ r.target = rows[j].target /\ r.temp = rows[j].temp
      /\ r.replace = rows[j].replace
  BY RowTyped DEF RowRecs
<1>6. rows[j].st \notin {"none", "gone", "done"}
  <2>1. CASE rows[j].st = "queued"
    BY <2>1
  <2>2. CASE w[j].stage = "failed" /\ w[j].stop = "no"
    BY <1>1, <2>2 DEF WorkOk, Active
  <2> QED
    BY <2>1, <2>2 DEF Start
<1>7. w' = [w EXCEPT ![j] = u] /\ rows' = [rows EXCEPT ![j] = r]
  BY DEF Start
<1>8. UNCHANGED <<sc, part, final, requeue, tails, cmd>> /\ crossed \subseteq crossed' /\ crossed' \subseteq Jobs
  BY DEF Start, flags, unchanged, Typed
<1> HIDE DEF u, r
<1>9. Typed' /\ Others(j) /\ w'[j] = u /\ rows'[j] = r
  BY <1>4, <1>5, <1>7, <1>8, WorkStep DEF Typed
<1>10. Live(j) /\ Live(j)' /\ j \in Present /\ (j \in Present)' /\ Active(j)'
  BY <1>4, <1>5, <1>6, <1>9 DEF Live, Present, Active
<1>11. RowOk(j)'
  BY <1>1, <1>5, <1>6, <1>8, <1>9, <1>10 DEF RowOk
<1>12. WorkOk(j)'
  BY <1>1, <1>4, <1>5, <1>6, <1>9 DEF WorkOk, RowOk
<1>13. ReplaceOk(j)'
  BY <1>4, <1>5, <1>9 DEF ReplaceOk
<1>14. Quiet(j)
  BY <1>4, <1>5, <1>6, <1>8, <1>9, <1>10 DEF Quiet, Temps, Goals, Olds
<1>16. Holds(j)
  BY <1>4, <1>9 DEF Holds
<1> QED
  BY <1>16, <1>8, <1>9, <1>10, <1>11, <1>12, <1>13, <1>14 DEF Moved, JobOk

\* Whatever brings a worker on, ends its attempt or keeps its paths.

LEMMA GoesStep ==
  ASSUME Typed, JobsOk, NEW j \in Jobs, NEW u \in WorkRecs, w' = [w EXCEPT ![j] = u],
         UNCHANGED <<rows, flags, unchanged>>, crossed' = crossed, Active(j), u.stage # "none",
         u.target = w[j].target, u.temp = w[j].temp, u.stop = w[j].stop,
         u.stage \in {"adopting", "move"} => u.new.name \in FileNames,
         u.has => u.stage \in {"body", "move"},
         \/ u.made = NoPath /\ u.stage \notin {"moved", "final", "done"}
         \/ /\ u.made = w[j].made
            /\ u.stage \in {"moved", "final", "done"} <=> w[j].stage \in {"moved", "final", "done"},
         u.stage \in {"final", "done"} /\ j \in Present => rows[j].target = w[j].made,
         rows[j].replace => (u.stage = "move" => u.new = rows[j].target) /\ u.stage # "adopting"
  PROVE  Moved(j) /\ Quiet(j) /\ w'[j] = u /\ ((u.has => w[j].has) => Holds(j))
<1>1. JobOk(j) /\ RowOk(j) /\ WorkOk(j) /\ ReplaceOk(j)
  BY DEF JobsOk, JobOk
<1>2. crossed' \subseteq Jobs
  BY DEF Typed
<1>3. Typed' /\ Others(j) /\ w'[j] = u /\ rows'[j] = rows[j] /\ part'[j] = part[j] /\ final' = final
  BY <1>2, OwnStep
<1>4. Active(j)' /\ ((j \in Present)' <=> j \in Present) /\ (Live(j)' <=> Live(j))
  BY <1>3 DEF Active, Present, Live
<1>5. RowOk(j)'
  BY <1>1, <1>3, <1>4 DEF RowOk
<1>6. WorkOk(j)'
  BY <1>1, <1>3, <1>4 DEF WorkOk
<1>7. ReplaceOk(j)'
  BY <1>1, <1>3, <1>4 DEF ReplaceOk
<1>8. Quiet(j)
  BY <1>3, <1>4 DEF Quiet, Temps, Goals, Olds
<1> QED
  BY <1>3, <1>5, <1>6, <1>7, <1>8 DEF Moved, JobOk, Holds

LEMMA AdoptCheckStep ==
  ASSUME Typed, JobsOk, NEW j \in Jobs, AdoptCheck(j)
  PROVE  Moved(j) /\ Quiet(j) /\ Holds(j) /\ UNCHANGED files
<1>1. WorkOk(j) /\ ReplaceOk(j) /\ Active(j) /\ w[j].stage = "answered"
  BY DEF JobsOk, JobOk, AdoptCheck, Active
<1>2. /\ Header(j) \in PathRecs
      /\ Header(j) # w[j].target => Header(j).name \in FileNames /\ Header(j).parts = 0 /\ ~rows[j].replace
  <2>1. w[j].target.name \in DOMAIN sc.header => sc.header[w[j].target.name] \in FileNames
    BY Scenario
  <2>2. CASE Header(j) = w[j].target
    BY <2>2, RowTyped
  <2>3. CASE Header(j) # w[j].target
    <3>1. /\ w[j].target.name \in DOMAIN sc.header /\ ~rows[j].replace
          /\ Header(j) = Path(sc.header[w[j].target.name], 0)
      <4>1. w[j].target.name \in DOMAIN sc.header /\ ~rows[j].replace
        BY <2>3, Zenon DEF Header
      <4>2. Header(j) = Path(sc.header[w[j].target.name], 0)
        BY <2>3, Zenon DEF Header
      <4> QED
        BY <4>1, <4>2
    <3> QED
      <4>1. PICK s \in FileNames : Header(j) = Path(s, 0)
        BY <2>1, <3>1
      <4>2. s \in PathNames /\ 0 \in Nat
        BY DEF PathNames
      <4>3. Path(s, 0) \in PathRecs /\ Path(s, 0).name = s /\ Path(s, 0).parts = 0
        BY <4>2, PathTyped
      <4> QED
        BY <3>1, <4>1, <4>3
  <2> QED
    BY <2>2, <2>3
<1>3. PICK stage \in {"adopting", "named"} :
        /\ w' = [w EXCEPT ![j] = [w[j] EXCEPT !.stage = stage, !.new = Header(j)]]
        /\ stage = "adopting" => Header(j) # w[j].target
  BY RowTyped DEF AdoptCheck, Typed
<1> DEFINE u == [w[j] EXCEPT !.stage = stage, !.new = Header(j)]
<1>4. /\ u \in WorkRecs /\ u.stage = stage /\ u.new = Header(j) /\ u.target = w[j].target /\ u.temp = w[j].temp
      /\ u.has = w[j].has /\ u.stop = w[j].stop /\ u.made = w[j].made
  BY <1>2, RowTyped DEF WorkRecs, Stages
<1>5. UNCHANGED <<files, rows, flags, crossed, unchanged>>
  BY DEF AdoptCheck
<1>6. w' = [w EXCEPT ![j] = u]
  BY <1>3
<1> HIDE DEF u
<1>7. ~u.has
  BY <1>1, <1>4 DEF WorkOk
<1> QED
  BY <1>1, <1>2, <1>3, <1>4, <1>5, <1>6, <1>7, GoesStep

LEMMA OpenStep ==
  ASSUME Typed, JobsOk, NEW j \in Jobs, Open(j)
  PROVE  Moved(j) /\ Quiet(j)
<1> DEFINE u == [w[j] EXCEPT !.stage = "body", !.has = TRUE]
<1>1. WorkOk(j) /\ ReplaceOk(j) /\ Active(j) /\ w[j].stage = "open"
  BY DEF JobsOk, JobOk, Open, Active
<1>2. /\ u \in WorkRecs /\ u.stage = "body" /\ u.target = w[j].target /\ u.temp = w[j].temp
      /\ u.stop = w[j].stop /\ u.made = w[j].made
  BY RowTyped DEF WorkRecs, Stages
<1>3. w' = [w EXCEPT ![j] = u]
  BY RowTyped DEF Open, Typed
<1>4. UNCHANGED <<rows, flags, crossed, unchanged>>
  BY DEF Open
<1> HIDE DEF u
<1> QED
  BY <1>1, <1>2, <1>3, <1>4, GoesStep

\* An attempt that ends has closed its file.
LEMMA StopsStep ==
  ASSUME Typed, JobsOk, NEW j \in Jobs, NEW how \in {"failed", "pause", "cancel"}, Stops(j, how),
         w[j].stage \in {"answered", "named", "open", "body", "move"},
         UNCHANGED <<rows, flags, crossed, unchanged>>
  PROVE  Moved(j) /\ Quiet(j) /\ Holds(j)
<1> DEFINE u == [w[j] EXCEPT !.stage = how, !.has = FALSE]
<1>1. WorkOk(j) /\ ReplaceOk(j) /\ Active(j)
  BY DEF JobsOk, JobOk, Active
<1>2. /\ u \in WorkRecs /\ u.stage = how /\ u.target = w[j].target /\ u.temp = w[j].temp
      /\ u.stop = w[j].stop /\ u.made = w[j].made /\ ~u.has
  BY RowTyped DEF WorkRecs, Stages
<1>3. w' = [w EXCEPT ![j] = u]
  BY RowTyped DEF Stops, Typed
<1> HIDE DEF u
<1> QED
  BY <1>1, <1>2, <1>3, GoesStep

LEMMA EndsStep ==
  ASSUME Typed, JobsOk, NEW j \in Jobs, Ends(j)
  PROVE  Moved(j) /\ Quiet(j) /\ Holds(j) /\ UNCHANGED files
<1>1. PICK how \in {"failed", "pause", "cancel"} :
        Stops(j, how) /\ w[j].stage \in {"answered", "named", "open", "body"}
  BY RowTyped DEF Ends
<1>2. UNCHANGED <<files, rows, flags, crossed, unchanged>>
  BY DEF Ends
<1> QED
  BY <1>1, <1>2, StopsStep

LEMMA PickNameStep ==
  ASSUME Typed, JobsOk, NEW j \in Jobs, PickName(j)
  PROVE  Moved(j) /\ Quiet(j) /\ Holds(j) /\ UNCHANGED files
<1>1. WorkOk(j) /\ ReplaceOk(j) /\ Active(j) /\ w[j].stage = "body"
  BY DEF JobsOk, JobOk, PickName, Active
<1>2. UNCHANGED <<files, rows, flags, crossed, unchanged>>
  BY DEF PickName
<1> DEFINE free == {i \in 0..MaxIndex : ~Exists(Numbered(w[j].target, i))}
           new == IF rows[j].replace THEN w[j].target ELSE First(w[j].target, free)
           u == [w[j] EXCEPT !.stage = "move", !.new = new]
<1>3. CASE ~rows[j].replace /\ free = {}
  <2>1. Stops(j, "failed")
    BY <1>3 DEF PickName
  <2> QED
    BY <1>1, <1>2, <2>1, StopsStep
<1>4. CASE rows[j].replace \/ free # {}
  <2>1. new \in PathRecs /\ new.name \in FileNames
    <3>1. CASE rows[j].replace
      BY <1>1, <3>1, RowTyped DEF WorkOk
    <3>2. CASE ~rows[j].replace
      <4>1. free \subseteq Nat /\ free # {}
        <5>1. free \subseteq 0..MaxIndex /\ MaxIndex \in Nat
          BY NamesAssumption
        <5> QED
          BY <1>4, <3>2, <5>1
      <4>2. PICK i \in free : First(w[j].target, free) = Numbered(w[j].target, i)
        BY <4>1, FirstFree, RowTyped
      <4> QED
        <5>1. i \in Nat /\ new = Numbered(w[j].target, i)
          BY <3>2, <4>1, <4>2
        <5>2. w[j].target \in PathRecs /\ w[j].target.name \in FileNames
          BY <1>1, RowTyped DEF WorkOk
        <5> QED
          BY <5>1, <5>2, NumberedTyped
    <3> QED
      BY <3>1, <3>2
  <2>2. w' = [w EXCEPT ![j].stage = "move", ![j].new = new]
    BY <1>4 DEF PickName
  <2> HIDE DEF free, new
  <2>3. /\ u \in WorkRecs /\ u.stage = "move" /\ u.target = w[j].target /\ u.temp = w[j].temp
        /\ u.stop = w[j].stop /\ u.made = w[j].made /\ u.new = new /\ u.has = w[j].has
    BY <2>1, RowTyped DEF WorkRecs, Stages
  <2>4. w' = [w EXCEPT ![j] = u]
    BY <2>2, RowTyped DEF Typed
  <2>5. rows[j].replace => new = rows[j].target
    BY <1>1 DEF new, ReplaceOk
  <2> HIDE DEF u
  <2> QED
    BY <1>1, <1>2, <2>1, <2>3, <2>4, <2>5, GoesStep
<1> QED
  BY <1>3, <1>4

LEMMA CommitStep ==
  ASSUME Typed, JobsOk, NEW j \in Jobs, NEW target \in {w[j].target, w[j].made} \ {NoPath}, Commit(j, target),
         Active(j), target.name \in FileNames, rows[j].replace => target = rows[j].target,
         NEW s \in {"open", "final"}, Goes(j, s),
         \/ s = "open" /\ w[j].stage = "named"
         \/ s = "final" /\ w[j].stage = "moved" /\ target = w[j].made /\ ~Discarded(j),
         UNCHANGED <<flags, crossed, unchanged>>
  PROVE  Moved(j) /\ Quiet(j) /\ Holds(j)
<1> DEFINE u == [w[j] EXCEPT !.stage = s]
           c == [rows[j] EXCEPT !.target = target, !.temp = w[j].temp]
           r == IF j \in Present /\ ~Wiped(j) THEN c ELSE rows[j]
<1>1. JobOk(j) /\ RowOk(j) /\ WorkOk(j) /\ ReplaceOk(j)
  BY DEF JobsOk, JobOk
<1>2. target \in PathRecs
  BY RowTyped
<1>3. /\ u \in WorkRecs /\ u.stage = s /\ u.target = w[j].target /\ u.temp = w[j].temp
      /\ u.stop = w[j].stop /\ u.made = w[j].made /\ u.has = w[j].has
  BY RowTyped DEF WorkRecs, Stages
<1>4. /\ c \in RowRecs /\ c.st = rows[j].st /\ c.target = target /\ c.temp = w[j].temp /\ c.replace = rows[j].replace
  BY <1>2, RowTyped DEF RowRecs
<1>5. w' = [w EXCEPT ![j] = u]
  BY RowTyped DEF Goes, Typed
<1>6. rows' = [rows EXCEPT ![j] = r]
  BY RowTyped DEF Commit, Typed
<1>7. r \in RowRecs /\ r.st = rows[j].st /\ r.replace = rows[j].replace /\ (r.target = target \/ r.target = rows[j].target)
  BY <1>4, RowTyped
<1>8. /\ UNCHANGED <<sc, part, final, requeue, tails, cmd, crossed>>
      /\ part' \in [Jobs -> PathRecs] /\ final' \subseteq final /\ requeue' \subseteq Jobs /\ tails' \subseteq DueRecs
      /\ crossed' \subseteq Jobs
  BY DEF flags, unchanged, Typed
<1>9. \/ j \in Present /\ r.target = target /\ r.temp = w[j].temp /\ part[j] = NoPath
      \/ r = rows[j] /\ ~(s = "final" /\ j \in Present)
  <2>1. CASE j \in Present /\ ~Wiped(j)
    BY <1>4, <2>1 DEF Wiped
  <2>2. CASE ~(j \in Present /\ ~Wiped(j))
    BY <2>2 DEF Wiped, Discarded
  <2> QED
    BY <2>1, <2>2
<1> HIDE DEF u, c, r
<1>10. Typed' /\ Others(j) /\ w'[j] = u /\ rows'[j] = r
  BY <1>3, <1>5, <1>6, <1>7, <1>8, WorkStep
<1>11. Active(j)' /\ ((j \in Present)' <=> j \in Present) /\ (Live(j)' <=> Live(j))
  BY <1>3, <1>7, <1>10 DEF Active, Present, Live
<1>12. RowOk(j)'
  BY <1>1, <1>7, <1>8, <1>9, <1>10, <1>11 DEF RowOk, WorkOk
<1>13. WorkOk(j)'
  BY <1>1, <1>3, <1>7, <1>9, <1>10, <1>11 DEF WorkOk
<1>14. ReplaceOk(j)'
  BY <1>1, <1>3, <1>7, <1>9, <1>10, <1>11 DEF ReplaceOk
<1>15. Quiet(j)
  <2>1. Temps(j)' \subseteq Temps(j)
    BY <1>3, <1>9, <1>10, <1>11 DEF Temps
  <2>2. Goals(j)' \subseteq Goals(j)
    BY <1>3, <1>7, <1>10, <1>11 DEF Goals
  <2>3. Olds(j)' \subseteq Olds(j)
    BY <1>3, <1>8, <1>9, <1>10, <1>11 DEF Olds
  <2> QED
    BY <1>7, <1>10, <2>1, <2>2, <2>3 DEF Quiet
<1>16. Holds(j)
  BY <1>3, <1>10 DEF Holds
<1> QED
  BY <1>16, <1>10, <1>12, <1>13, <1>14, <1>15 DEF Moved, JobOk

LEMMA CommitNameStep ==
  ASSUME Typed, JobsOk, NEW j \in Jobs, CommitName(j)
  PROVE  Moved(j) /\ Quiet(j) /\ Holds(j) /\ UNCHANGED files
<1>1. WorkOk(j) /\ ReplaceOk(j) /\ Active(j) /\ w[j].stage = "named"
  BY DEF JobsOk, JobOk, CommitName, Active
<1>2. w[j].target.name \in FileNames /\ w[j].target # NoPath /\ (rows[j].replace => w[j].target = rows[j].target)
  BY <1>1, PathTyped, NamesAssumption DEF WorkOk, ReplaceOk
<1>3. /\ UNCHANGED <<flags, crossed, unchanged>> /\ UNCHANGED files
      /\ Commit(j, w[j].target) /\ Goes(j, "open")
  BY DEF CommitName
<1> QED
  BY <1>1, <1>2, <1>3, CommitStep

LEMMA ForgetStep ==
  ASSUME Typed, JobsOk, NEW j \in Jobs, w[j].stage \in {"moved", "final"}, Forget(j),
         UNCHANGED <<rows, flags, crossed, unchanged>>
  PROVE  Moved(j) /\ Quiet(j) /\ Holds(j)
<1> DEFINE u == [w[j] EXCEPT !.stage = "cancel", !.made = NoPath]
<1>1. WorkOk(j) /\ ReplaceOk(j) /\ Active(j)
  BY DEF JobsOk, JobOk, Active
<1>2. /\ u \in WorkRecs /\ u.stage = "cancel" /\ u.target = w[j].target /\ u.temp = w[j].temp
      /\ u.stop = w[j].stop /\ u.made = NoPath /\ u.has = w[j].has
  <2>1. NoPath \in PathRecs /\ w[j] \in WorkRecs
    BY RowTyped, PathTyped
  <2> QED
    BY <2>1 DEF WorkRecs, Stages
<1>3. w' = [w EXCEPT ![j] = u]
  BY RowTyped DEF Forget, Typed
<1>4. ~u.has
  BY <1>1, <1>2 DEF WorkOk
<1> HIDE DEF u
<1>5. /\ u.stage # "none" /\ u.stage \notin {"adopting", "move", "moved", "final", "done"}
      /\ crossed' = crossed /\ UNCHANGED <<rows, flags, unchanged>>
  BY <1>2
<1> QED
  BY <1>1, <1>2, <1>3, <1>4, <1>5, GoesStep

LEMMA CommitFinalStep ==
  ASSUME Typed, JobsOk, NEW j \in Jobs, CommitFinal(j)
  PROVE  Moved(j) /\ Quiet(j) /\ Holds(j)
<1>1. WorkOk(j) /\ ReplaceOk(j) /\ Active(j) /\ w[j].stage = "moved"
  BY DEF JobsOk, JobOk, CommitFinal, Active
<1>2. UNCHANGED <<flags, crossed, unchanged>>
  BY DEF CommitFinal
<1>3. CASE Discarded(j)
  <2>1. Forget(j) /\ UNCHANGED rows
    BY <1>3 DEF CommitFinal
  <2> QED
    BY <1>1, <1>2, <2>1, ForgetStep
<1>4. CASE ~Discarded(j)
  <2>1. Commit(j, w[j].made) /\ Goes(j, "final")
    BY <1>4 DEF CommitFinal
  <2>2. /\ w[j].made # NoPath /\ w[j].made.name \in FileNames
        /\ rows[j].replace => w[j].made = rows[j].target
    BY <1>1 DEF WorkOk, ReplaceOk
  <2> QED
    BY <1>1, <1>2, <1>4, <2>1, <2>2, CommitStep
<1> QED
  BY <1>3, <1>4

LEMMA LastLookStep ==
  ASSUME Typed, JobsOk, NEW j \in Jobs, LastLook(j)
  PROVE  Moved(j) /\ Quiet(j) /\ Holds(j)
<1>1. WorkOk(j) /\ ReplaceOk(j) /\ Active(j) /\ w[j].stage = "final"
  BY DEF JobsOk, JobOk, LastLook, Active
<1>2. UNCHANGED <<rows, flags, crossed, unchanged>>
  BY DEF LastLook
<1>3. CASE Discarded(j)
  <2>1. Forget(j)
    BY <1>3 DEF LastLook
  <2> QED
    BY <1>1, <1>2, <2>1, ForgetStep
<1>4. CASE ~Discarded(j)
  <2> DEFINE u == [w[j] EXCEPT !.stage = "done"]
  <2>1. /\ u \in WorkRecs /\ u.stage = "done" /\ u.target = w[j].target /\ u.temp = w[j].temp
        /\ u.stop = w[j].stop /\ u.made = w[j].made /\ u.has = w[j].has
    BY RowTyped DEF WorkRecs, Stages
  <2>2. w' = [w EXCEPT ![j] = u]
    BY <1>4, RowTyped DEF LastLook, Goes, Typed
  <2>3. ~u.has
    BY <1>1, <2>1 DEF WorkOk
  <2>4. j \in Present => rows[j].target = w[j].made
    BY <1>1 DEF WorkOk
  <2> HIDE DEF u
  <2> QED
    BY <1>1, <1>2, <2>1, <2>2, <2>3, <2>4, GoesStep
<1> QED
  BY <1>3, <1>4

LEMMA FinalizeStep ==
  ASSUME Typed, JobsOk, NEW j \in Jobs, Finalize(j)
  PROVE  Moved(j) /\ Quiet(j) /\ Holds(j)
<1>1. JobOk(j) /\ RowOk(j) /\ WorkOk(j) /\ ReplaceOk(j) /\ Active(j)
  BY DEF JobsOk, JobOk, Finalize, Active
<1>2. PICK st \in {"queued", "done", "paused", "ended"}, file \in {w[j].made, NoPath}, defer \in BOOLEAN :
        /\ rows' = IF j \in Present THEN [rows EXCEPT ![j].st = st] ELSE rows
        /\ tails' = tails \cup {[job |-> j, part |-> part[j], flag |-> defer, file |-> file]}
  BY DEF Finalize
<1> DEFINE c == [rows[j] EXCEPT !.st = st]
           r == IF j \in Present THEN c ELSE rows[j]
<1>3. /\ NoWork \in WorkRecs /\ NoWork.stage = "none" /\ NoWork.has = FALSE /\ NoWork.made = NoPath
      /\ w' = [w EXCEPT ![j] = NoWork]
  BY NoneTyped DEF Finalize, NoWork
<1>4. c \in RowRecs /\ c.st = st /\ c.target = rows[j].target /\ c.temp = rows[j].temp /\ c.replace = rows[j].replace
  BY RowTyped DEF RowRecs
<1>5. /\ r \in RowRecs /\ r.target = rows[j].target /\ r.temp = rows[j].temp /\ r.replace = rows[j].replace
      /\ r.st = IF j \in Present THEN st ELSE rows[j].st
  BY <1>4, RowTyped
<1>6. rows' = [rows EXCEPT ![j] = r]
  BY <1>2, RowTyped DEF Typed
<1>7. tails' \subseteq DueRecs
  <2>1. file \in PathRecs /\ part[j] \in PathRecs /\ tails \subseteq DueRecs
    BY RowTyped, PathTyped DEF Typed
  <2>2. [job |-> j, part |-> part[j], flag |-> defer, file |-> file] \in DueRecs
    BY <2>1 DEF DueRecs
  <2> QED
    BY <1>2, <2>1, <2>2
<1>8. /\ UNCHANGED <<sc, cmd, crossed>> /\ final' = final \ {j} /\ requeue' \subseteq requeue
      /\ part' = part \/ part' = [part EXCEPT ![j] = NoPath]
  BY DEF Finalize
<1>9. /\ part' \in [Jobs -> PathRecs] /\ part'[j] \in {NoPath, part[j]} /\ \A k \in Jobs \ {j} : part'[k] = part[k]
      /\ final' \subseteq final /\ requeue' \subseteq Jobs /\ crossed' \subseteq Jobs
  <2>1. part \in [Jobs -> PathRecs]
    BY DEF Typed
  <2>2. part' \in [Jobs -> PathRecs] /\ part'[j] \in {NoPath, part[j]} /\ \A k \in Jobs \ {j} : part'[k] = part[k]
    BY <1>8, <2>1, PathTyped, ZenonT(60)
  <2>3. final' \subseteq final /\ requeue' \subseteq Jobs /\ crossed' \subseteq Jobs
    BY <1>8 DEF Typed
  <2> QED
    BY <2>2, <2>3
<1> HIDE DEF c, r
<1>10. Typed' /\ Others(j) /\ w'[j] = NoWork /\ rows'[j] = r
  BY <1>3, <1>5, <1>6, <1>7, <1>8, <1>9, WorkStep
<1>11. ~Active(j)' /\ ((j \in Present)' <=> j \in Present) /\ (Live(j)' => Live(j)) /\ rows[j].st # "done" /\ rows[j].st # "none"
  BY <1>1, <1>3, <1>5, <1>10 DEF Active, Present, Live, WorkOk
<1>12. RowOk(j)'
  BY <1>1, <1>5, <1>8, <1>9, <1>10, <1>11 DEF RowOk, Present
<1>13. WorkOk(j)' /\ ReplaceOk(j)'
  BY <1>3, <1>10, <1>11 DEF WorkOk, ReplaceOk
<1>14. Quiet(j)
  <2>1. Temps(j)' \subseteq Temps(j) /\ Goals(j)' \subseteq Goals(j)
    BY <1>5, <1>10, <1>11 DEF Temps, Goals
  <2>2. Olds(j)' \subseteq Olds(j)
    BY <1>5, <1>9, <1>10, <1>11 DEF Olds
  <2> QED
    BY <1>5, <1>10, <1>11, <2>1, <2>2 DEF Quiet
<1>15. Holds(j)
  BY <1>3, <1>10 DEF Holds
<1> QED
  BY <1>15, <1>10, <1>12, <1>13, <1>14 DEF Moved, JobOk

\* Whoever deletes takes the names from those who have the files open, and unblocks the job.
LEMMA DeleteStep ==
  ASSUME Typed, NEW d \in DueRecs, w' = Unlinked(Unlinked(w, d.part), d.file),
         part' = IF d.flag THEN [part EXCEPT ![d.job] = NoPath] ELSE part,
         tails' \subseteq tails, cmd' \in DueRecs, requeue' \subseteq requeue,
         UNCHANGED <<sc, rows, final, crossed>>
  PROVE  /\ Typed' /\ \A k \in Jobs : Still(k)
         /\ \A k \in Jobs : w'[k].has => w[k].temp \notin {d.part, d.file}
<1>1. d.job \in Jobs
  BY DEF DueRecs
<1>2. /\ Unlinked(w, d.part) \in [Jobs -> WorkRecs]
      /\ \A k \in Jobs : /\ Same(Unlinked(w, d.part)[k], w[k]) /\ Unlinked(w, d.part)[k].stop = w[k].stop
                         /\ Unlinked(w, d.part)[k].has => w[k].temp # d.part
  BY UnlinkedHas DEF Typed
<1>3. /\ w' \in [Jobs -> WorkRecs]
      /\ \A k \in Jobs : /\ Same(w'[k], Unlinked(w, d.part)[k]) /\ w'[k].stop = Unlinked(w, d.part)[k].stop
                         /\ w'[k].has => Unlinked(w, d.part)[k].temp # d.file
  BY <1>2, UnlinkedHas
<1>4. \A k \in Jobs : /\ Same(w'[k], w[k]) /\ w'[k].stop = w[k].stop
                      /\ w'[k].has => w[k].temp \notin {d.part, d.file}
  BY <1>2, <1>3 DEF Same
<1>5. part' \in [Jobs -> PathRecs] /\ \A k \in Jobs : part'[k] \in {NoPath, part[k]}
  BY <1>1, PathTyped DEF Typed
<1>6. Typed'
  BY <1>3, <1>5 DEF Typed
<1>7. \A k \in Jobs : Still(k)
  BY <1>4, <1>5 DEF Still
<1> QED
  BY <1>4, <1>6, <1>7

\* Who deletes: the handler that has come to its end, or a finalizer.
Deletes(d) ==
  /\ files' = [q \in DOMAIN files \ {d.part, d.file} |-> files[q]]
  /\ w' = Unlinked(Unlinked(w, d.part), d.file)
  /\ \A k \in Jobs : w'[k].has => w[k].temp \notin {d.part, d.file}

LEMMA CmdDeleteStep ==
  ASSUME Typed, CmdDelete
  PROVE  Typed' /\ (\A k \in Jobs : Still(k)) /\ Deletes(cmd) /\ crossed' = crossed
<1>1. /\ w' = Unlinked(Unlinked(w, cmd.part), cmd.file)
      /\ part' = IF cmd.flag THEN [part EXCEPT ![cmd.job] = NoPath] ELSE part
      /\ cmd' = NoCmd /\ UNCHANGED <<sc, rows, final, requeue, tails, crossed>>
      /\ files' = [q \in DOMAIN files \ {cmd.part, cmd.file} |-> files[q]]
  BY DEF CmdDelete
<1>2. cmd \in DueRecs /\ cmd' \in DueRecs /\ tails' \subseteq tails /\ requeue' \subseteq requeue
  BY <1>1, NoneTyped DEF Typed
<1> QED
  BY <1>1, <1>2, DeleteStep DEF Deletes

LEMMA TailDeleteStep ==
  ASSUME Typed, TailDelete
  PROVE  /\ Typed' /\ (\A k \in Jobs : Still(k)) /\ crossed' = crossed /\ cmd' = cmd
         /\ \E d \in tails : Deletes(d) /\ tails' = tails \ {d}
<1>1. PICK t \in tails :
        /\ tails' = tails \ {t}
        /\ files' = [q \in DOMAIN files \ {t.part, t.file} |-> files[q]]
        /\ w' = Unlinked(Unlinked(w, t.part), t.file)
        /\ part' = IF t.flag THEN [part EXCEPT ![t.job] = NoPath] ELSE part
        /\ requeue' = IF t.flag THEN requeue \ {t.job} ELSE requeue
        /\ UNCHANGED <<sc, rows, final, cmd, crossed>>
  BY DEF TailDelete
<1>2. t \in DueRecs /\ cmd' \in DueRecs /\ tails' \subseteq tails /\ requeue' \subseteq requeue
  BY <1>1 DEF Typed
<1> QED
  BY <1>1, <1>2, DeleteStep DEF Deletes

LEMMA SavesStep ==
  ASSUME Typed, NEW p \in sc.wanted, Saves(p)
  PROVE  /\ Typed' /\ (\A k \in Jobs : Still(k)) /\ crossed' = crossed /\ w' = w
         /\ p \in PathRecs /\ p.parts = 0 /\ ~Exists(p) /\ files' = With(p, {0})
<1>1. /\ UNCHANGED <<sc, rows, flags, w, tails, cmd, crossed>> /\ p.parts = 0 /\ ~Exists(p)
      /\ files' = With(p, {0})
  BY DEF Saves
<1>2. Typed'
  BY <1>1 DEF Typed, flags
<1>3. \A k \in Jobs : Still(k)
  BY <1>1, SameStays DEF flags
<1> QED
  BY <1>1, <1>2, <1>3, Scenario

\* A step that brings a job to the paths of N, where it may meet others.
Comes(j, N) ==
  /\ crossed \subseteq crossed'
  /\ \A k \in Jobs \ {j} : Claims(k) \cap N # {} => j \in crossed' /\ k \in crossed'
  /\ Temps(j)' \subseteq Temps(j) \cup N /\ Goals(j)' \subseteq Goals(j) \cup N /\ Olds(j)' \subseteq Olds(j) \cup N
  /\ rows[j].replace => rows'[j].replace /\ rows'[j].target = rows[j].target
  /\ rows[j].st = "done" => rows'[j].st = "done" \/ Goals(j)' = {}

LEMMA QuietComes ==
  ASSUME NEW j \in Jobs, Quiet(j), crossed \subseteq crossed'
  PROVE  Comes(j, {})
BY DEF Quiet, Comes

LEMMA CrossesComes ==
  ASSUME Typed, NEW j \in Jobs, NEW p, Crosses(j, p, TRUE)
  PROVE  /\ crossed \subseteq crossed' /\ crossed' \subseteq Jobs
         /\ \A k \in Jobs \ {j} : Claims(k) \cap {p, Temp(p)} # {} => j \in crossed' /\ k \in crossed'
<1> DEFINE M == {k \in Jobs \ {j} : Claims(k) \cap {p, Temp(p)} # {}}
<1>1. crossed' = crossed \cup Met(j, M)
  BY DEF Crosses
<1>2. Met(j, M) \subseteq Jobs /\ \A k \in M : j \in Met(j, M) /\ k \in Met(j, M)
  BY DEF Met
<1> QED
  BY <1>1, <1>2 DEF Typed

\* The rename of a .part to the name that a header gives, or the switch to that name.
Adopts(j) ==
  /\ Comes(j, {w[j].new, Temp(w[j].new)})
  /\ w'[j].temp = Temp(w[j].new) /\ ~w'[j].has /\ w'[j].stage = "named"
  /\ Temps(j)' \subseteq Temps(j) \cup {Temp(w[j].new)}
  /\ \/ /\ Exists(w[j].temp) /\ files' = Renamed(w[j].temp, Temp(w[j].new))
        /\ \A k \in Jobs : w'[k].has => w[k].temp # Temp(w[j].new)
     \/ ~Exists(Temp(w[j].new)) /\ files' = files

LEMMA AdoptMoveStep ==
  ASSUME Typed, JobsOk, NEW j \in Jobs, AdoptMove(j)
  PROVE  /\ Moved(j) /\ rows' = rows /\ crossed \subseteq crossed' /\ ~rows[j].replace /\ w[j].stage = "adopting"
         /\ part' = part /\ UNCHANGED <<tails, cmd>>
         /\ w'[j].stage = "named" /\ w'[j].temp \in {w[j].temp, Temp(w[j].new)}
         /\ Adopts(j) \/ (Quiet(j) /\ Holds(j) /\ UNCHANGED <<files, crossed>>)
<1> DEFINE new == w[j].new
           base == IF Exists(w[j].temp) THEN Unlinked(w, Temp(new)) ELSE w
           u == [base[j] EXCEPT !.stage = "named", !.target = new, !.temp = Temp(new)]
<1>1. /\ JobOk(j) /\ RowOk(j) /\ WorkOk(j) /\ ReplaceOk(j) /\ Active(j) /\ w[j].stage = "adopting"
      /\ ~w[j].has /\ w[j].made = NoPath /\ rows[j].replace \in BOOLEAN
  BY RowTyped DEF JobsOk, JobOk, AdoptMove, Active, WorkOk
<1>2. ~rows[j].replace
  BY <1>1 DEF ReplaceOk
<1>3. UNCHANGED <<rows, flags, unchanged>> /\ UNCHANGED <<rows, sc, part, final, requeue, tails, cmd>>
  BY DEF AdoptMove, unchanged, flags
<1>4. /\ base \in [Jobs -> WorkRecs]
      /\ \A k \in Jobs : /\ Same(base[k], w[k]) /\ base[k].stop = w[k].stop
                         /\ Exists(w[j].temp) /\ base[k].has => w[k].temp # Temp(new)
  <2>1. /\ Unlinked(w, Temp(new)) \in [Jobs -> WorkRecs]
        /\ \A k \in Jobs : /\ Same(Unlinked(w, Temp(new))[k], w[k]) /\ Unlinked(w, Temp(new))[k].stop = w[k].stop
                           /\ Unlinked(w, Temp(new))[k].has => w[k].temp # Temp(new)
    BY UnlinkedHas DEF Typed
  <2>2. w \in [Jobs -> WorkRecs]
    BY DEF Typed
  <2> QED
    BY <2>1, <2>2, SameStays
<1>5. CASE Exists(w[j].temp) \/ (~w[j].resume /\ ~Exists(Temp(new)))
  <2>1. /\ w' = [base EXCEPT ![j].stage = "named", ![j].target = new, ![j].temp = Temp(new)]
        /\ files' = IF Exists(w[j].temp) THEN Renamed(w[j].temp, Temp(new)) ELSE files
        /\ Crosses(j, new, TRUE)
    BY <1>5 DEF AdoptMove
  <2>2. /\ crossed \subseteq crossed' /\ crossed' \subseteq Jobs
        /\ \A k \in Jobs \ {j} : Claims(k) \cap {new, Temp(new)} # {} => j \in crossed' /\ k \in crossed'
    BY <2>1, CrossesComes
  <2>3. new \in PathRecs /\ new.name \in FileNames /\ Temp(new) \in PathRecs /\ Temp(new).parts # 0
    BY <1>1, RowTyped, TempTyped DEF WorkOk
  <2> HIDE DEF base, new
  <2>4. /\ u \in WorkRecs /\ u.stage = "named" /\ u.target = new /\ u.temp = Temp(new) /\ u.has = base[j].has
        /\ u.stop = base[j].stop /\ u.made = base[j].made
    BY <1>4, <2>3 DEF WorkRecs, Stages
  <2>5. w' = [base EXCEPT ![j] = u]
    BY <1>4, <2>1
  <2> HIDE DEF u
  <2>6. /\ w' \in [Jobs -> WorkRecs] /\ w'[j] = u /\ \A k \in Jobs \ {j} : w'[k] = base[k]
    BY <1>4, <2>4, <2>5
  <2>7. u.stop = w[j].stop /\ u.made = NoPath /\ ~u.has
    BY <1>1, <1>4, <2>4 DEF Same
  <2>8. Typed'
    BY <1>3, <2>2, <2>6 DEF Typed
  <2>9. Others(j)
    BY <1>3, <1>4, <2>6 DEF Others, Still
  <2>10. Active(j)' /\ ((j \in Present)' <=> j \in Present) /\ (Live(j)' <=> Live(j))
    BY <1>3, <2>4, <2>6 DEF Active, Present, Live
  <2>11. RowOk(j)'
    BY <1>1, <1>3, <2>10 DEF RowOk
  <2>12. WorkOk(j)'
    BY <1>1, <1>3, <2>3, <2>4, <2>6, <2>7, <2>10 DEF WorkOk
  <2>13. ReplaceOk(j)'
    BY <1>2, <1>3 DEF ReplaceOk
  <2>14. Comes(j, {new, Temp(new)})
    <3>1. Temps(j)' \subseteq Temps(j) \cup {new, Temp(new)} /\ Goals(j)' \subseteq Goals(j) \cup {new, Temp(new)}
      BY <1>3, <2>4, <2>6, <2>7, <2>10 DEF Temps, Goals
    <3>2. Olds(j)' \subseteq Olds(j) \cup {new, Temp(new)}
      BY <1>3, <2>4, <2>6, <2>10 DEF Olds
    <3> QED
      BY <1>2, <1>3, <2>2, <3>1, <3>2 DEF Comes
  <2>15. \A k \in Jobs : Exists(w[j].temp) /\ w'[k].has => w[k].temp # Temp(new)
    BY <1>4, <2>6, <2>7
  <2>16. Temps(j)' \subseteq Temps(j) \cup {Temp(new)}
    BY <1>3, <2>4, <2>6, <2>10 DEF Temps
  <2>17. Adopts(j)
    BY <1>5, <2>1, <2>4, <2>6, <2>7, <2>14, <2>15, <2>16 DEF Adopts, new
  <2> QED
    BY <1>1, <1>2, <1>3, <2>2, <2>4, <2>6, <2>8, <2>9, <2>11, <2>12, <2>13, <2>17, SMTT(60) DEF Moved, JobOk, new
<1>6. CASE ~(Exists(w[j].temp) \/ (~w[j].resume /\ ~Exists(Temp(new))))
  <2> DEFINE v == [w[j] EXCEPT !.stage = "named"]
  <2>1. w' = [w EXCEPT ![j] = v]
    BY <1>6, RowTyped DEF AdoptMove, Typed
  <2>2. files' = files
    BY <1>6 DEF AdoptMove
  <2>3. crossed' = crossed
    BY <1>6 DEF AdoptMove, Crosses
  <2>4. /\ v \in WorkRecs /\ v.stage = "named" /\ v.target = w[j].target /\ v.temp = w[j].temp /\ v.has = w[j].has
        /\ v.stop = w[j].stop /\ v.made = w[j].made
    BY RowTyped DEF WorkRecs, Stages
  <2> HIDE DEF v
  <2>5. Moved(j) /\ Quiet(j) /\ Holds(j) /\ w'[j] = v
    BY <1>1, <1>2, <1>3, <2>1, <2>3, <2>4, GoesStep
  <2> QED
    BY <1>1, <1>2, <1>3, <2>2, <2>3, <2>4, <2>5
<1> QED
  BY <1>5, <1>6

\* The rename of a .part that is complete.
Renames(j) ==
  /\ Comes(j, IF w[j].new = w[j].target THEN {} ELSE {w[j].new, Temp(w[j].new)})
  /\ Exists(w[j].temp) /\ files' = Renamed(w[j].temp, w[j].new)
  /\ \A k \in Jobs : w'[k].has => w[k].temp \notin {w[j].temp, w[j].new}
  /\ w'[j].temp = w[j].temp /\ w'[j].stage = "moved" /\ w'[j].made = w[j].new
  /\ Temps(j)' \subseteq Temps(j)

LEMMA MoveStep ==
  ASSUME Typed, JobsOk, NEW j \in Jobs, Move(j)
  PROVE  /\ Moved(j) /\ rows' = rows /\ crossed \subseteq crossed' /\ w[j].stage = "move"
         /\ part' = part /\ UNCHANGED <<tails, cmd>>
         /\ \/ Renames(j)
            \/ Stops(j, "failed") /\ Quiet(j) /\ Holds(j) /\ UNCHANGED <<files, crossed>>
<1> DEFINE new == w[j].new
           half == Unlinked(w, w[j].temp)
           base == Unlinked(half, new)
           u == [base[j] EXCEPT !.stage = "moved", !.made = new]
<1>1. /\ JobOk(j) /\ RowOk(j) /\ WorkOk(j) /\ ReplaceOk(j) /\ Active(j) /\ w[j].stage = "move"
      /\ w[j].made = NoPath
  BY DEF JobsOk, JobOk, Move, Active, WorkOk
<1>2. new \in PathRecs /\ new.name \in FileNames /\ new # NoPath /\ w[j].target # NoPath
  BY <1>1, RowTyped, PathTyped, NamesAssumption DEF WorkOk
<1>3. UNCHANGED <<rows, flags, unchanged>> /\ UNCHANGED <<rows, sc, part, final, requeue, tails, cmd>>
  BY DEF Move, unchanged, flags
<1>4. /\ base \in [Jobs -> WorkRecs]
      /\ \A k \in Jobs : /\ Same(base[k], w[k]) /\ base[k].stop = w[k].stop
                         /\ base[k].has => w[k].temp \notin {w[j].temp, new}
  <2>1. /\ half \in [Jobs -> WorkRecs]
        /\ \A k \in Jobs : /\ Same(half[k], w[k]) /\ half[k].stop = w[k].stop
                           /\ half[k].has => w[k].temp # w[j].temp
    BY UnlinkedHas DEF Typed
  <2> HIDE DEF half
  <2>2. /\ base \in [Jobs -> WorkRecs]
        /\ \A k \in Jobs : /\ Same(base[k], half[k]) /\ base[k].stop = half[k].stop
                           /\ base[k].has => half[k].temp # new
    BY <2>1, UnlinkedHas
  <2> HIDE DEF base
  <2> QED
    BY <2>1, <2>2 DEF Same
<1>5. CASE Exists(w[j].temp)
  <2>1. /\ w' = [base EXCEPT ![j].stage = "moved", ![j].made = new]
        /\ files' = Renamed(w[j].temp, new)
        /\ Crosses(j, new, new # w[j].target)
    BY <1>5 DEF Move
  <2> DEFINE N == IF new = w[j].target THEN {} ELSE {new, Temp(new)}
  <2>2. /\ crossed \subseteq crossed' /\ crossed' \subseteq Jobs
        /\ \A k \in Jobs \ {j} : Claims(k) \cap N # {} => j \in crossed' /\ k \in crossed'
    <3>1. CASE new = w[j].target
      BY <2>1, <3>1 DEF Crosses, Typed
    <3>2. CASE new # w[j].target
      BY <2>1, <3>2, CrossesComes
    <3> QED
      BY <3>1, <3>2
  <2> HIDE DEF base
  <2>4. /\ u \in WorkRecs /\ u.stage = "moved" /\ u.target = base[j].target /\ u.temp = base[j].temp /\ u.has = base[j].has
        /\ u.stop = base[j].stop /\ u.made = new
    BY <1>2, <1>4 DEF WorkRecs, Stages
  <2>5. w' = [base EXCEPT ![j] = u]
    BY <1>4, <2>1
  <2> HIDE DEF u
  <2>6. /\ w' \in [Jobs -> WorkRecs] /\ w'[j] = u /\ \A k \in Jobs \ {j} : w'[k] = base[k]
    BY <1>4, <2>4, <2>5
  <2>7. u.stop = w[j].stop /\ u.target = w[j].target /\ u.temp = w[j].temp /\ ~u.has
    BY <1>1, <1>4, <2>4 DEF Same
  <2>8. Typed'
    BY <1>3, <2>2, <2>6 DEF Typed
  <2>9. Others(j)
    BY <1>3, <1>4, <2>6 DEF Others, Still
  <2>10. Active(j)' /\ ((j \in Present)' <=> j \in Present) /\ (Live(j)' <=> Live(j))
    BY <1>3, <2>4, <2>6 DEF Active, Present, Live
  <2>11. RowOk(j)'
    BY <1>1, <1>3, <2>10 DEF RowOk
  <2>12. WorkOk(j)'
    BY <1>1, <1>2, <1>3, <2>4, <2>6, <2>7, <2>10 DEF WorkOk
  <2>13. ReplaceOk(j)'
    BY <1>1, <1>3, <2>4, <2>6, <2>7 DEF ReplaceOk
  <2>14. Comes(j, N)
    <3>1. Temps(j)' \subseteq Temps(j)
      BY <1>1, <1>3, <2>6, <2>7, <2>10 DEF Temps
    <3>2. Goals(j)' \subseteq Goals(j) \cup N
      <4>1. Goals(j)' \subseteq Goals(j) \cup {new}
        BY <1>1, <1>3, <2>4, <2>6, <2>7, <2>10 DEF Goals
      <4>2. w[j].target \in Goals(j)
        BY <1>1, <1>2 DEF Goals
      <4> QED
        BY <4>1, <4>2
    <3>3. Olds(j)' \subseteq Olds(j)
      BY <1>1, <1>3, <2>6, <2>7, <2>10 DEF Olds
    <3>4. rows[j].st # "done" /\ rows' = rows
      BY <1>1, <1>3 DEF WorkOk
    <3> QED
      BY <2>2, <3>1, <3>2, <3>3, <3>4 DEF Comes
  <2>15. \A k \in Jobs : w'[k].has => w[k].temp \notin {w[j].temp, new}
    BY <1>4, <2>6, <2>7
  <2>16. Temps(j)' \subseteq Temps(j)
    BY <1>1, <1>3, <2>6, <2>7, <2>10 DEF Temps
  <2>17. Renames(j)
    BY <1>5, <2>1, <2>4, <2>6, <2>7, <2>14, <2>15, <2>16 DEF Renames, new, N
  <2> QED
    BY <1>1, <1>3, <2>2, <2>8, <2>9, <2>11, <2>12, <2>13, <2>17 DEF Moved, JobOk
<1>6. CASE ~Exists(w[j].temp)
  <2>1. Stops(j, "failed") /\ UNCHANGED <<files, crossed>>
    BY <1>6 DEF Move
  <2>2. Moved(j) /\ Quiet(j) /\ Holds(j)
    BY <1>1, <1>3, <2>1, StopsStep
  <2> QED
    BY <1>1, <1>3, <2>1, <2>2
<1> QED
  BY <1>5, <1>6

-----------------------------------------------------------------------------
(* Add                                                                     *)

\* A new job's paths are nobody's, but that a completed row may have them which it is to replace, and
\* but for whom Add does not see.
Added(j, t, replace) ==
  /\ Typed' /\ Others(j) /\ JobOk(j)' /\ rows[j].st = "none" /\ ~Active(j)'
  /\ rows'[j] = [st |-> "queued", target |-> t, temp |-> Temp(t), replace |-> replace]
  /\ part'[j] = NoPath /\ part' = part /\ UNCHANGED <<tails, cmd, final>>
  /\ crossed \subseteq crossed'
  /\ \A k \in Jobs \ {j} : Ways(k) \cap {t, Temp(t)} # {} => j \in crossed' /\ k \in crossed'
  /\ files' = IF replace THEN Without(Temp(t)) ELSE files
  /\ \A k \in Jobs : replace /\ w'[k].has => w[k].temp # Temp(t)
  /\ IF replace THEN ~Blocked(t) ELSE ~Taken(t)

\* Whoever has a worker at a path that Add chooses was overlooked.
LEMMA AddLooks ==
  ASSUME Typed, JobsOk, NEW k \in Jobs, NEW t \in PathRecs, t.name \in FileNames,
         NEW replace \in BOOLEAN, IF replace THEN ~Blocked(t) ELSE ~Taken(t),
         Ways(k) \cap {t, Temp(t)} # {}
  PROVE  Overlooked(k, t)
<1>1. Active(k)
  BY DEF Ways
<1>2. part[k] = NoPath \/ part[k] \in PendingTemps
  BY DEF PendingTemps
<1>3. k \in Present => {rows[k].target, rows[k].temp} \subseteq Paths(Present)
  BY DEF Paths
<1>4. CASE ~replace
  <2>1. t \notin Occupied /\ Temp(t) \notin Occupied
    BY <1>4 DEF Taken
  <2> QED
    BY <1>2, <1>3, <2>1 DEF Overlooked, Seen, Occupied
<1>5. CASE replace
  <2>1. k \in Present => rows[k].st # "done"
    BY <1>1 DEF JobsOk, JobOk, WorkOk, RowOk, Active
  <2>2. k \in Present => {rows[k].target, rows[k].temp} \cap {t, Temp(t)} = {}
    BY <1>5, <2>1 DEF Blocked
  <2>3. part[k] # NoPath => part[k] # t
    BY <1>2, <1>5 DEF Blocked
  <2>4. part[k] # NoPath /\ part[k] = Temp(t) => \E i \in Present : rows[i].temp = part[k]
    BY <1>2, <1>5 DEF Blocked
  <2> QED
    BY <2>2, <2>3, <2>4 DEF Overlooked, Seen
<1> QED
  BY <1>4, <1>5

LEMMA AddStep ==
  ASSUME Typed, JobsOk, NEW j \in Jobs, Add(j)
  PROVE  \E t \in PathRecs, replace \in BOOLEAN : Added(j, t, replace)
<1>1. PICK p \in sc.wanted, o \in BOOLEAN :
        /\ rows[j].st = "none" /\ (Replaces(p, o) \/ Numbers(p) # {})
        /\ crossed' = crossed \cup Met(j, {k \in Jobs \ {j} :
              Overlooked(k, Allocated(p, o)) /\ Ways(k) \cap {Allocated(p, o), Temp(Allocated(p, o))} # {}})
        /\ rows' = [rows EXCEPT ![j] = [st |-> "queued", target |-> Allocated(p, o), temp |-> Temp(Allocated(p, o)),
                                        replace |-> Replaces(p, o)]]
        /\ files' = IF Replaces(p, o) THEN Without(Temp(Allocated(p, o))) ELSE files
        /\ w' = IF Replaces(p, o) THEN Unlinked(w, Temp(Allocated(p, o))) ELSE w
        /\ UNCHANGED <<sc, flags, tails, cmd>>
  BY DEF Add
<1> DEFINE t == Allocated(p, o)
           replace == Replaces(p, o)
           M == {k \in Jobs \ {j} : Overlooked(k, t) /\ Ways(k) \cap {t, Temp(t)} # {}}
           r == [st |-> "queued", target |-> t, temp |-> Temp(t), replace |-> replace]
<1>2. p \in PathRecs /\ p.name \in FileNames
  BY Scenario
<1>3. /\ t \in PathRecs /\ t.name \in FileNames /\ replace \in BOOLEAN
      /\ IF replace THEN ~Blocked(t) ELSE ~Taken(t)
  BY <1>1, <1>2, AllocatedTyped DEF Replaces
<1>4. Temp(t) \in PathRecs /\ Temp(t).parts # 0
  BY <1>3, TempTyped
<1> HIDE DEF t, replace
<1>5. r \in RowRecs
  BY <1>3, <1>4 DEF RowRecs
<1>6. /\ w' \in [Jobs -> WorkRecs]
      /\ \A k \in Jobs : /\ Same(w'[k], w[k]) /\ w'[k].stop = w[k].stop
                         /\ replace /\ w'[k].has => w[k].temp # Temp(t)
  <2>1. CASE replace
    <3>1. w' = Unlinked(w, Temp(t))
      BY <1>1, <2>1 DEF t, replace
    <3> QED
      BY <3>1, UnlinkedHas DEF Typed
  <2>2. CASE ~replace
    <3>1. w' = w
      BY <1>1, <2>2 DEF t, replace
    <3> QED
      BY <2>2, <3>1, SameStays DEF Typed
  <2> QED
    BY <2>1, <2>2
<1>7. UNCHANGED <<sc, part, final, requeue, tails, cmd>>
  BY <1>1 DEF flags
<1>8. rows' \in [Jobs -> RowRecs] /\ rows'[j] = r /\ \A k \in Jobs \ {j} : rows'[k] = rows[k]
  BY <1>1, <1>5 DEF Typed, t, replace
<1>9. /\ crossed \subseteq crossed' /\ crossed' \subseteq Jobs
      /\ \A k \in Jobs \ {j} : Ways(k) \cap {t, Temp(t)} # {} => j \in crossed' /\ k \in crossed'
  <2>1. crossed' = crossed \cup Met(j, M)
    BY <1>1 DEF t
  <2>2. Met(j, M) \subseteq Jobs /\ \A k \in M : j \in Met(j, M) /\ k \in Met(j, M)
    BY DEF Met
  <2>3. ASSUME NEW k \in Jobs \ {j}, Ways(k) \cap {t, Temp(t)} # {}
        PROVE  k \in M
    BY <1>3, <2>3, AddLooks
  <2> QED
    BY <2>1, <2>2, <2>3 DEF Typed
<1>10. Typed'
  BY <1>6, <1>7, <1>8, <1>9 DEF Typed
<1>11. Others(j)
  BY <1>6, <1>7, <1>8 DEF Others, Still
<1>12. part[j] = NoPath /\ ~Active(j) /\ ~Active(j)' /\ j \notin final /\ ~w[j].has /\ w[j].made = NoPath
  <2>1. RowOk(j) /\ WorkOk(j)
    BY DEF JobsOk, JobOk
  <2>2. rows[j].st = "none"
    BY <1>1
  <2>3. part[j] = NoPath /\ j \notin final
    BY <2>1, <2>2 DEF RowOk, Present
  <2>4. w[j].stage = "none"
    BY <2>1, <2>2 DEF WorkOk, Active
  <2>5. ~w[j].has /\ w[j].made = NoPath
    BY <2>1, <2>4 DEF WorkOk
  <2>6. w'[j].stage = "none"
    BY <1>6, <2>4 DEF Same
  <2> QED
    BY <2>3, <2>4, <2>5, <2>6 DEF Active
<1>13. JobOk(j)'
  <2>1. RowOk(j)'
    BY <1>3, <1>4, <1>7, <1>8, <1>12 DEF RowOk
  <2>2. WorkOk(j)' /\ ReplaceOk(j)'
    BY <1>6, <1>12 DEF WorkOk, ReplaceOk, Same, Active
  <2> QED
    BY <2>1, <2>2 DEF JobOk
<1>14. files' = IF replace THEN Without(Temp(t)) ELSE files
  BY <1>1 DEF t, replace
<1>15. part'[j] = NoPath /\ part' = part /\ UNCHANGED <<tails, cmd, final>> /\ rows[j].st = "none"
  BY <1>1, <1>7, <1>12
<1>16. Added(j, t, replace)
  BY <1>3, <1>6, <1>8, <1>9, <1>10, <1>11, <1>12, <1>13, <1>14, <1>15 DEF Added
<1> QED
  BY <1>3, <1>16

-----------------------------------------------------------------------------
(* Who is where.                                                           *)

\* No other job's paths are where a job writes, or where it has or is to have its file; but one
\* that replaces a file has the target of a completed row.
ApartFrom(j, k) ==
  /\ Temps(j) \cap (Temps(k) \cup Goals(k)) = {}
  /\ Goals(j) \cap Olds(k) = {}
  /\ \A p \in Goals(j) \cap Goals(k) : (Over(j, p) /\ rows[k].st = "done") \/ Over(k, p)

Apart == \A j \in Jobs \ crossed : \A k \in Jobs \ {j} : ApartFrom(j, k)

LEMMA InClaims ==
  ASSUME Typed, JobsOk, NEW k \in Jobs
  PROVE  Temps(k) \subseteq Claims(k) /\ Goals(k) \subseteq Claims(k) /\ Olds(k) \subseteq Claims(k)
<1>1. WorkOk(k)
  BY DEF JobsOk, JobOk
<1>2. Active(k) => w[k].temp # NoPath /\ w[k].temp \in Claims(k)
  BY <1>1, PathTyped DEF WorkOk, Claims, Seen, Ways
<1>3. k \in Present => rows[k].target \in Claims(k) /\ rows[k].temp \in Claims(k)
  BY DEF Claims, Seen
<1>4. Active(k) => {w[k].target, w[k].made} \ {NoPath} \subseteq Claims(k)
  BY DEF Claims, Seen, Ways
<1>5. {part[k]} \ {NoPath} \subseteq Claims(k)
  BY DEF Claims, Seen
<1> HIDE DEF Claims
<1> QED
  BY <1>2, <1>3, <1>4, <1>5 DEF Temps, Goals, Olds, Live

LEMMA ApartComes ==
  ASSUME Typed, JobsOk, Apart, NEW j \in Jobs, Others(j), NEW N, Comes(j, N)
  PROVE  Apart'
<1> SUFFICES ASSUME NEW a \in Jobs, a \notin crossed', NEW b \in Jobs \ {a} PROVE ApartFrom(a, b)'
  BY DEF Apart
<1>1. a \notin crossed /\ ApartFrom(a, b)
  BY DEF Apart, Comes
<1>2. \A k \in Jobs \ {j} : Temps(k)' = Temps(k) /\ Goals(k)' = Goals(k) /\ Olds(k)' \subseteq Olds(k) /\ rows'[k] = rows[k]
  BY StillOk DEF Others, Still, Quiet
<1>3. \A k \in Jobs \ {j} : Claims(k) \cap N # {} => j \in crossed' /\ k \in crossed'
  BY DEF Comes
<1>4. /\ Temps(j)' \subseteq Temps(j) \cup N /\ Goals(j)' \subseteq Goals(j) \cup N /\ Olds(j)' \subseteq Olds(j) \cup N
      /\ \A p : Over(j, p) => Over(j, p)'
      /\ rows[j].st = "done" => rows'[j].st = "done" \/ Goals(j)' = {}
  BY DEF Comes, Over
<1>5. \A k \in Jobs \ {j} : \A p : Over(k, p)' <=> Over(k, p)
  BY <1>2 DEF Over
<1>6. CASE a = j
  <2>1. Claims(b) \cap N = {} /\ b # j
    BY <1>3, <1>6
  <2>2. (Temps(b) \cup Goals(b) \cup Olds(b)) \cap N = {}
    BY <2>1, InClaims
  <2> QED
    BY <1>1, <1>2, <1>4, <1>5, <1>6, <2>1, <2>2 DEF ApartFrom
<1>7. CASE b = j
  <2>1. Claims(a) \cap N = {} /\ a # j
    BY <1>3, <1>7
  <2>2. (Temps(a) \cup Goals(a) \cup Olds(a)) \cap N = {}
    BY <2>1, InClaims
  <2> QED
    BY <1>1, <1>2, <1>4, <1>5, <1>7, <2>1, <2>2 DEF ApartFrom
<1>8. CASE a # j /\ b # j
  BY <1>1, <1>2, <1>5, <1>8 DEF ApartFrom
<1> QED
  BY <1>6, <1>7, <1>8

\* What Add sees of another job, and what it does not.
LEMMA AddedMeets ==
  ASSUME Typed, JobsOk, NEW j \in Jobs, NEW t \in PathRecs, NEW replace \in BOOLEAN, Added(j, t, replace),
         NEW k \in Jobs \ {j}, k \notin crossed' \/ j \notin crossed'
  PROVE  /\ Temps(k) \cap {t, Temp(t)} = {} /\ t \notin Olds(k) /\ Temp(t) \notin Goals(k)
         /\ t \in Goals(k) => replace /\ rows[k].st = "done"
<1>1. Ways(k) \cap {t, Temp(t)} = {}
  BY DEF Added
<1>2. Active(k) => w[k].temp # NoPath
  BY PathTyped DEF JobsOk, JobOk, WorkOk
<1>3. /\ Active(k) => w[k].temp \notin {t, Temp(t)}
      /\ Active(k) => ({w[k].target, w[k].made} \ {NoPath}) \cap {t, Temp(t)} = {}
  BY <1>1, <1>2 DEF Ways
<1>4. /\ k \in Present => rows[k].temp # t /\ rows[k].target # Temp(t)
      /\ Live(k) => rows[k].temp # Temp(t)
      /\ k \in Present /\ rows[k].target = t => replace /\ rows[k].st = "done"
      /\ part[k] # NoPath => part[k] # t
  <2>1. CASE replace
    <3>1. ~Blocked(t)
      BY <2>1 DEF Added
    <3> QED
      BY <2>1, <3>1 DEF Blocked, PendingTemps, Live
  <2>2. CASE ~replace
    <3>1. ~Taken(t)
      BY <2>2 DEF Added
    <3>2. {t, Temp(t)} \cap (Paths(Present) \cup PendingTemps) = {}
      BY <3>1 DEF Taken, Occupied
    <3> QED
      BY <3>2 DEF Paths, PendingTemps, Live
  <2> QED
    BY <2>1, <2>2
<1> QED
  BY <1>3, <1>4 DEF Temps, Goals, Olds, Live

LEMMA ApartAdded ==
  ASSUME Typed, JobsOk, Apart, NEW j \in Jobs, NEW t \in PathRecs, NEW replace \in BOOLEAN, Added(j, t, replace)
  PROVE  Apart'
<1> SUFFICES ASSUME NEW a \in Jobs, a \notin crossed', NEW b \in Jobs \ {a} PROVE ApartFrom(a, b)'
  BY DEF Apart
<1>1. a \notin crossed /\ ApartFrom(a, b)
  BY DEF Apart, Added
<1>2. \A k \in Jobs \ {j} : Temps(k)' = Temps(k) /\ Goals(k)' = Goals(k) /\ Olds(k)' \subseteq Olds(k) /\ rows'[k] = rows[k]
  BY StillOk DEF Added, Others, Still, Quiet
<1>3. \A k \in Jobs \ {j} : \A p : Over(k, p)' <=> Over(k, p)
  BY <1>2 DEF Over
<1>4. /\ Temps(j)' = {Temp(t)} /\ Goals(j)' = {t} /\ Olds(j)' = {Temp(t)} /\ rows'[j].st = "queued"
      /\ replace => Over(j, t)'
  BY DEF Added, Temps, Goals, Olds, Live, Present, Over
<1>5. ASSUME NEW k \in Jobs \ {j}, k \notin crossed' \/ j \notin crossed'
      PROVE  /\ Temps(k) \cap {t, Temp(t)} = {} /\ t \notin Olds(k) /\ Temp(t) \notin Goals(k)
             /\ t \in Goals(k) => replace /\ rows[k].st = "done"
  BY <1>5, AddedMeets
<1>6. CASE a = j
  BY <1>2, <1>3, <1>4, <1>5, <1>6 DEF ApartFrom
<1>7. CASE b = j
  BY <1>2, <1>3, <1>4, <1>5, <1>7 DEF ApartFrom
<1>8. CASE a # j /\ b # j
  BY <1>1, <1>2, <1>3, <1>8 DEF ApartFrom
<1> QED
  BY <1>6, <1>7, <1>8

-----------------------------------------------------------------------------
(* What a step does to the files.                                          *)

Leaves(j)   == Moved(j) /\ Quiet(j) /\ Holds(j) /\ crossed \subseteq crossed' /\ files' = files
Opens(j)    == Moved(j) /\ Quiet(j) /\ crossed' = crossed /\ Open(j)
Discards(j) == /\ Moved(j) /\ Quiet(j) /\ Holds(j) /\ crossed' = crossed
               /\ w[j].stage \in {"moved", "final"} /\ files' = Without(w[j].made)
Erases      == Typed' /\ (\A k \in Jobs : Still(k)) /\ crossed' = crossed /\ \E d \in tails \cup {cmd} : Deletes(d)
Puts        == /\ Typed' /\ (\A k \in Jobs : Still(k)) /\ crossed' = crossed /\ w' = w
               /\ \E p \in sc.wanted : p \in PathRecs /\ p.parts = 0 /\ ~Exists(p) /\ files' = With(p, {0})
Comings(j)  == Moved(j) /\ Active(j) /\ (Adopts(j) \/ Renames(j))

LEMMA NextKinds ==
  ASSUME Typed, JobsOk, Next
  PROVE  \/ \E j \in Jobs : Leaves(j) \/ Opens(j) \/ Discards(j) \/ Comings(j)
         \/ \E j \in Jobs : \E t \in PathRecs, replace \in BOOLEAN : Added(j, t, replace)
         \/ Erases \/ Puts
<1>1. CASE \E p \in sc.wanted : Saves(p)
  BY <1>1, SavesStep DEF Puts
<1>2. CASE CmdDelete
  BY <1>2, CmdDeleteStep DEF Erases
<1>3. CASE TailDelete
  BY <1>3, TailDeleteStep DEF Erases
<1>4. ASSUME NEW j \in Jobs,
             Add(j) \/ Pause(j) \/ Resume(j) \/ Cancel(j) \/ Restart(j) \/ Remove(j) \/ Worker(j)
      PROVE  \/ Leaves(j) \/ Opens(j) \/ Discards(j) \/ Comings(j)
             \/ \E t \in PathRecs, replace \in BOOLEAN : Added(j, t, replace)
  <2>1. CASE Add(j)
    BY <2>1, AddStep
  <2>2. CASE Pause(j)
    BY <2>2, PauseStep DEF Pause, Leaves
  <2>3. CASE Resume(j)
    BY <2>3, ResumeStep DEF Resume, Leaves
  <2>4. CASE Cancel(j)
    BY <2>4, CancelStep DEF Cancel, Leaves
  <2>5. CASE Restart(j)
    BY <2>5, RestartStep DEF Restart, Leaves
  <2>6. CASE Remove(j)
    BY <2>6, RemoveStep DEF Remove, Leaves
  <2>7. CASE Start(j)
    BY <2>7, StartStep DEF Start, Leaves
  <2>8. CASE AdoptCheck(j)
    BY <2>8, AdoptCheckStep DEF AdoptCheck, Leaves
  <2>9. CASE AdoptMove(j)
    BY <2>9, AdoptMoveStep DEF Leaves, Comings, Active
  <2>10. CASE CommitName(j)
    BY <2>10, CommitNameStep DEF CommitName, Leaves
  <2>11. CASE Open(j)
    BY <2>11, OpenStep DEF Open, Opens
  <2>12. CASE PickName(j)
    BY <2>12, PickNameStep DEF PickName, Leaves
  <2>13. CASE Move(j)
    BY <2>13, MoveStep DEF Leaves, Comings, Active
  <2>14. CASE CommitFinal(j)
    <3>1. /\ Moved(j) /\ Quiet(j) /\ Holds(j) /\ crossed' = crossed /\ w[j].stage = "moved"
          /\ files' = files \/ files' = Without(w[j].made)
      BY <2>14, CommitFinalStep DEF CommitFinal, Forget
    <3> QED
      BY <3>1 DEF Leaves, Discards
  <2>15. CASE LastLook(j)
    <3>1. /\ Moved(j) /\ Quiet(j) /\ Holds(j) /\ crossed' = crossed /\ w[j].stage = "final"
          /\ files' = files \/ files' = Without(w[j].made)
      BY <2>15, LastLookStep DEF LastLook, Forget
    <3> QED
      BY <3>1 DEF Leaves, Discards
  <2>16. CASE Ends(j)
    BY <2>16, EndsStep DEF Ends, Leaves
  <2>17. CASE Finalize(j)
    BY <2>17, FinalizeStep DEF Finalize, Leaves
  <2> QED
    BY <1>4, <2>1, <2>2, <2>3, <2>4, <2>5, <2>6, <2>7, <2>8, <2>9, <2>10, <2>11, <2>12, <2>13, <2>14,
       <2>15, <2>16, <2>17 DEF Worker
<1> QED
  BY <1>1, <1>2, <1>3, <1>4 DEF Next, Commands

LEMMA MovedJobs ==
  ASSUME JobsOk, NEW j \in Jobs, Others(j), JobOk(j)'
  PROVE  JobsOk'
BY StillOk DEF JobsOk, Others

LEMMA StillJobs ==
  ASSUME JobsOk, \A k \in Jobs : Still(k), crossed' = crossed
  PROVE  JobsOk' /\ \E j \in Jobs : Others(j) /\ Comes(j, {})
<1>1. PICK j \in Jobs : TRUE
  BY NamesAssumption
<1> QED
  BY <1>1, StillOk, QuietComes DEF JobsOk, Others

\* Types, and the jobs one by one, are kept.
LEMMA JobsStep ==
  ASSUME Typed, JobsOk, [Next]_vars
  PROVE  Typed' /\ JobsOk'
<1>1. CASE UNCHANGED vars
  <2>1. UNCHANGED <<sc, files, rows, part, final, requeue, w, tails, cmd, crossed, ncmd>>
    BY <1>1 DEF vars, flags
  <2>2. \A k \in Jobs : Still(k)
    BY <2>1, SameStays
  <2> QED
    BY <2>1, <2>2, StillJobs DEF Typed
<1>2. CASE Next
  <2>1. ASSUME NEW j \in Jobs, Leaves(j) \/ Opens(j) \/ Discards(j) \/ Comings(j)
        PROVE  Typed' /\ JobsOk'
    BY <2>1, MovedJobs DEF Leaves, Opens, Discards, Comings, Moved
  <2>2. ASSUME NEW j \in Jobs, NEW t \in PathRecs, NEW replace \in BOOLEAN, Added(j, t, replace)
        PROVE  Typed' /\ JobsOk'
    BY <2>2, MovedJobs DEF Added
  <2>3. CASE Erases \/ Puts
    BY <2>3, StillJobs DEF Erases, Puts
  <2> QED
    BY <1>2, <2>1, <2>2, <2>3, NextKinds
<1> QED
  BY <1>1, <1>2

LEMMA ApartStep ==
  ASSUME Typed, JobsOk, Apart, Next
  PROVE  Apart'
<1>1. ASSUME NEW j \in Jobs, Leaves(j) \/ Opens(j) \/ Discards(j)
      PROVE  Apart'
  BY <1>1, QuietComes, ApartComes DEF Leaves, Opens, Discards, Moved
<1>2. ASSUME NEW j \in Jobs, Comings(j)
      PROVE  Apart'
  BY <1>2, ApartComes DEF Comings, Adopts, Renames, Moved
<1>3. ASSUME NEW j \in Jobs, NEW t \in PathRecs, NEW replace \in BOOLEAN, Added(j, t, replace)
      PROVE  Apart'
  BY <1>3, ApartAdded
<1>4. CASE Erases \/ Puts
  BY <1>4, StillJobs, ApartComes DEF Erases, Puts
<1> QED
  BY <1>1, <1>2, <1>3, <1>4, NextKinds

-----------------------------------------------------------------------------
(* Whose bytes are in a .part.                                             *)

OwnedBy(k)  == \A p \in Temps(k) \cap DOMAIN files : files[p] \subseteq {k}
HasFile(k)  == w[k].has => w[k].temp \in DOMAIN files /\ k \in files[w[k].temp]
Owned       == \A k \in Jobs \ crossed : OwnedBy(k) /\ HasFile(k)

LEMMA OwnKept ==
  ASSUME NEW k \in Jobs, OwnedBy(k), HasFile(k), Temps(k)' \subseteq Temps(k), Holds(k),
         \A p \in Temps(k) \cap DOMAIN files' : p \in DOMAIN files /\ files'[p] = files[p],
         w'[k].has => w[k].temp \in Temps(k) /\ (w[k].temp \in DOMAIN files => w[k].temp \in DOMAIN files')
  PROVE  OwnedBy(k)' /\ HasFile(k)'
<1>1. OwnedBy(k)'
  BY DEF OwnedBy
<1>2. HasFile(k)'
  BY DEF HasFile, Holds
<1> QED
  BY <1>1, <1>2

LEMMA StillHolds ==
  ASSUME JobsOk, NEW k \in Jobs, Still(k)
  PROVE  /\ Holds(k) /\ Temps(k)' = Temps(k) /\ (w'[k].has => w[k].temp \in Temps(k))
         /\ w'[k].temp = w[k].temp
<1>1. Same(w'[k], w[k]) /\ WorkOk(k)
  BY DEF Still, JobsOk, JobOk
<1> QED
  BY <1>1, StillOk DEF Holds, Same, WorkOk, Temps, Active

\* A path where a worker writes or has renamed to is no other one's to write at.
LEMMA NotAnother ==
  ASSUME JobsOk, Apart, NEW j \in Jobs, Active(j), NEW k \in Jobs \ crossed, k # j
  PROVE  /\ w[j].temp \notin Temps(k)
         /\ w[j].target # NoPath => w[j].target \notin Temps(k)
         /\ w[j].made # NoPath => w[j].made \notin Temps(k)
BY DEF Apart, ApartFrom, Temps, Goals

LEMMA TempParts ==
  ASSUME Typed, JobsOk, NEW k \in Jobs
  PROVE  \A p \in Temps(k) : p.parts # 0
BY DEF JobsOk, JobOk, RowOk, WorkOk, Temps, Live, Present

LEMMA OwnedOpens ==
  ASSUME Typed, JobsOk, Apart, Owned, NEW j \in Jobs, Opens(j), NEW k \in Jobs, k \notin crossed'
  PROVE  OwnedBy(k)' /\ HasFile(k)'
<1>1. k \notin crossed /\ OwnedBy(k) /\ HasFile(k) /\ Active(j)
  BY DEF Opens, Owned, Open, Active
<1> DEFINE p == w[j].temp
           kept == IF ~Exists(p) THEN {} ELSE IF w[j].resume THEN files[p] ELSE Holders(p)
<1>2. files' = With(p, {j} \cup kept) /\ w' = [w EXCEPT ![j].stage = "body", ![j].has = TRUE]
  BY DEF Opens, Open
<1>3. /\ DOMAIN files' = DOMAIN files \cup {p} /\ files'[p] = {j} \cup kept
      /\ \A q \in DOMAIN files \ {p} : files'[q] = files[q]
  BY <1>2, WithHas
<1>4. CASE k = j
  <2>1. p \in Temps(j)
    BY <1>1 DEF Temps
  <2>2. kept \subseteq {j}
    <3>1. CASE Exists(p) /\ w[j].resume
      BY <1>1, <1>4, <2>1, <3>1 DEF OwnedBy, Exists
    <3>2. CASE Exists(p) /\ ~w[j].resume
      <4>1. ASSUME NEW i \in Jobs, i # j, w[i].has, w[i].temp = p
            PROVE  FALSE
        <5>1. Active(i)
          BY <4>1 DEF JobsOk, JobOk, WorkOk, Active
        <5> QED
          BY <1>1, <1>4, <2>1, <4>1, <5>1, NotAnother
      <4> QED
        BY <3>2, <4>1 DEF Holders
    <3>3. CASE ~Exists(p)
      BY <3>3
    <3> QED
      BY <3>1, <3>2, <3>3
  <2>3. Temps(j)' \subseteq Temps(j)
    BY DEF Opens, Quiet
  <2>4. w'[j].temp = p
    BY <1>2, RowTyped DEF Typed, WorkRecs
  <2> HIDE DEF kept, p
  <2>5. OwnedBy(j)'
    <3> SUFFICES ASSUME NEW q \in Temps(j)' \cap DOMAIN files' PROVE files'[q] \subseteq {j}
      BY DEF OwnedBy
    <3> QED
      BY <1>1, <1>3, <1>4, <2>2, <2>3 DEF OwnedBy
  <2>6. HasFile(j)'
    BY <1>3, <2>4 DEF HasFile
  <2> QED
    BY <1>4, <2>5, <2>6
<1>5. CASE k # j
  <2>1. p \notin Temps(k)
    BY <1>1, <1>5, NotAnother
  <2>2. Still(k)
    BY <1>5 DEF Opens, Moved, Others
  <2>3. Holds(k) /\ Temps(k)' = Temps(k) /\ (w'[k].has => w[k].temp \in Temps(k))
    BY <2>2, StillHolds
  <2> HIDE DEF kept, p
  <2> QED
    BY <1>1, <1>3, <2>1, <2>3, OwnKept
<1> QED
  BY <1>4, <1>5

LEMMA OwnedDiscards ==
  ASSUME Typed, JobsOk, Apart, Owned, NEW j \in Jobs, Discards(j), NEW k \in Jobs, k \notin crossed'
  PROVE  OwnedBy(k)' /\ HasFile(k)'
<1>1. k \notin crossed /\ OwnedBy(k) /\ HasFile(k) /\ Active(j)
  BY DEF Discards, Owned, Active
<1>2. ~w[j].has /\ w[j].made # NoPath
  BY DEF Discards, JobsOk, JobOk, WorkOk
<1>3. /\ DOMAIN files' = DOMAIN files \ {w[j].made}
      /\ \A q \in DOMAIN files \ {w[j].made} : files'[q] = files[q]
  BY WithoutHas DEF Discards
<1>4. CASE k = j
  <2>1. ~w'[j].has /\ Temps(j)' \subseteq Temps(j) /\ Holds(j)
    BY <1>2 DEF Discards, Holds, Quiet
  <2> QED
    BY <1>1, <1>3, <1>4, <2>1, OwnKept
<1>5. CASE k # j
  <2>1. w[j].made \notin Temps(k)
    BY <1>1, <1>2, <1>5, NotAnother
  <2>2. Still(k)
    BY <1>5 DEF Discards, Moved, Others
  <2>3. Holds(k) /\ Temps(k)' = Temps(k) /\ (w'[k].has => w[k].temp \in Temps(k))
    BY <2>2, StillHolds
  <2> QED
    BY <1>1, <1>3, <2>1, <2>3, OwnKept
<1> QED
  BY <1>4, <1>5

LEMMA OwnedErases ==
  ASSUME Typed, JobsOk, Owned, Erases \/ Puts, NEW k \in Jobs, k \notin crossed'
  PROVE  OwnedBy(k)' /\ HasFile(k)'
<1>1. k \notin crossed /\ OwnedBy(k) /\ HasFile(k) /\ Still(k)
  BY DEF Erases, Puts, Owned
<1>2. Holds(k) /\ Temps(k)' = Temps(k) /\ (w'[k].has => w[k].temp \in Temps(k))
  BY <1>1, StillHolds
<1>3. CASE Erases
  <2>1. PICK d \in tails \cup {cmd} : Deletes(d)
    BY <1>3 DEF Erases
  <2>2. /\ DOMAIN files' = DOMAIN files \ {d.part, d.file} /\ \A q \in DOMAIN files' : files'[q] = files[q]
        /\ w'[k].has => w[k].temp \notin {d.part, d.file}
    BY <2>1 DEF Deletes
  <2> QED
    BY <1>1, <1>2, <2>2, OwnKept
<1>4. CASE Puts
  <2>1. PICK p \in sc.wanted : p.parts = 0 /\ ~Exists(p) /\ files' = With(p, {0})
    BY <1>4 DEF Puts
  <2>2. /\ DOMAIN files' = DOMAIN files \cup {p}
        /\ \A q \in DOMAIN files \ {p} : files'[q] = files[q]
    BY <2>1, WithHas
  <2>3. p \notin Temps(k)
    BY <2>1, TempParts
  <2> QED
    BY <1>1, <1>2, <2>2, <2>3, OwnKept
<1> QED
  BY <1>3, <1>4

LEMMA OwnedAdopts ==
  ASSUME Typed, JobsOk, Apart, Owned, NEW j \in Jobs, Active(j), Others(j), Adopts(j), NEW k \in Jobs, k \notin crossed'
  PROVE  OwnedBy(k)' /\ HasFile(k)'
<1> DEFINE p == w[j].temp
           q == Temp(w[j].new)
<1>1. k \notin crossed /\ OwnedBy(k) /\ HasFile(k)
  BY DEF Adopts, Comes, Owned
<1>2. /\ ~w'[j].has /\ Temps(j)' \subseteq Temps(j) \cup {q} /\ p \in Temps(j)
      /\ \/ p \in DOMAIN files /\ files' = Renamed(p, q) /\ (w'[k].has => w[k].temp # q)
         \/ q \notin DOMAIN files /\ files' = files
  BY DEF Adopts, Exists, Temps
<1>3. k # j => q \notin Temps(k) /\ p \notin Temps(k)
  <2>1. k # j => Claims(k) \cap {w[j].new, q} = {}
    BY DEF Adopts, Comes
  <2> QED
    BY <1>1, <2>1, InClaims, NotAnother
<1>4. k # j => Holds(k) /\ Temps(k)' = Temps(k) /\ (w'[k].has => w[k].temp \in Temps(k))
  BY StillHolds DEF Others
<1> HIDE DEF p, q
<1>5. CASE p \in DOMAIN files /\ files' = Renamed(p, q) /\ (w'[k].has => w[k].temp # q)
  <2>1. /\ DOMAIN files' = (DOMAIN files \ {p}) \cup {q} /\ files'[q] = files[p]
        /\ \A r \in DOMAIN files \ {p, q} : files'[r] = files[r]
    BY <1>5, RenamedHas
  <2>2. CASE k = j
    <3>1. OwnedBy(j)'
      <4> SUFFICES ASSUME NEW r \in Temps(j)' \cap DOMAIN files' PROVE files'[r] \subseteq {j}
        BY DEF OwnedBy
      <4>1. CASE r = q
        BY <1>1, <1>2, <1>5, <2>1, <2>2, <4>1 DEF OwnedBy
      <4>2. CASE r # q
        BY <1>1, <1>2, <2>1, <2>2, <4>2 DEF OwnedBy
      <4> QED
        BY <4>1, <4>2
    <3> QED
      BY <1>2, <2>2, <3>1 DEF HasFile
  <2>3. CASE k # j
    BY <1>1, <1>3, <1>4, <2>1, <2>3, OwnKept
  <2> QED
    BY <2>2, <2>3
<1>6. CASE q \notin DOMAIN files /\ files' = files
  <2>1. CASE k = j
    <3>1. OwnedBy(j)'
      BY <1>1, <1>2, <1>6, <2>1 DEF OwnedBy
    <3> QED
      BY <1>2, <2>1, <3>1 DEF HasFile
  <2>2. CASE k # j
    BY <1>1, <1>4, <1>6, <2>2, OwnKept
  <2> QED
    BY <2>1, <2>2
<1> QED
  BY <1>2, <1>5, <1>6

LEMMA OwnedRenames ==
  ASSUME Typed, JobsOk, Apart, Owned, NEW j \in Jobs, Active(j), Others(j), Renames(j), NEW k \in Jobs, k \notin crossed'
  PROVE  OwnedBy(k)' /\ HasFile(k)'
<1> DEFINE p == w[j].temp
           q == w[j].new
<1>1. k \notin crossed /\ OwnedBy(k) /\ HasFile(k)
  BY DEF Renames, Comes, Owned
<1>2. /\ Temps(j)' \subseteq Temps(j) /\ p \in Temps(j) /\ p \in DOMAIN files /\ files' = Renamed(p, q)
      /\ w'[k].has => w[k].temp \notin {p, q}
      /\ ~w'[j].has
  BY DEF Renames, Exists, Temps
<1>3. k # j => q \notin Temps(k) /\ p \notin Temps(k)
  <2>1. CASE q = w[j].target
    <3>1. w[j].target.name \in FileNames
      BY DEF JobsOk, JobOk, WorkOk
    <3>2. w[j].target # NoPath
      BY <3>1, PathTyped, NamesAssumption
    <3> QED
      BY <1>1, <2>1, <3>2, NotAnother
  <2>2. CASE q # w[j].target
    <3>1. k # j => Claims(k) \cap {q, Temp(q)} = {}
      BY <2>2 DEF Renames, Comes
    <3> QED
      BY <1>1, <3>1, InClaims, NotAnother
  <2> QED
    BY <2>1, <2>2
<1>4. k # j => Holds(k) /\ Temps(k)' = Temps(k) /\ (w'[k].has => w[k].temp \in Temps(k))
  BY StillHolds DEF Others
<1> HIDE DEF p, q
<1>5. /\ DOMAIN files' = (DOMAIN files \ {p}) \cup {q} /\ files'[q] = files[p]
      /\ \A r \in DOMAIN files \ {p, q} : files'[r] = files[r]
  BY <1>2, RenamedHas
<1>6. CASE k = j
  <2>1. OwnedBy(j)'
    <3> SUFFICES ASSUME NEW r \in Temps(j)' \cap DOMAIN files' PROVE files'[r] \subseteq {j}
      BY DEF OwnedBy
    <3>1. CASE r = q
      BY <1>1, <1>2, <1>5, <1>6, <3>1 DEF OwnedBy
    <3>2. CASE r # q
      BY <1>1, <1>2, <1>5, <1>6, <3>2 DEF OwnedBy
    <3> QED
      BY <3>1, <3>2
  <2> QED
    BY <1>2, <1>6, <2>1 DEF HasFile
<1>7. CASE k # j
  BY <1>1, <1>3, <1>4, <1>5, <1>7, OwnKept
<1> QED
  BY <1>6, <1>7

LEMMA OwnedAdded ==
  ASSUME Typed, JobsOk, Owned, NEW j \in Jobs, NEW t \in PathRecs, NEW replace \in BOOLEAN, Added(j, t, replace),
         NEW k \in Jobs, k \notin crossed'
  PROVE  OwnedBy(k)' /\ HasFile(k)'
<1>1. k \notin crossed /\ OwnedBy(k) /\ HasFile(k)
  BY DEF Added, Owned
<1>2. /\ \A p \in DOMAIN files' : p \in DOMAIN files /\ files'[p] = files[p]
      /\ Temp(t) \notin DOMAIN files'
      /\ \A p \in DOMAIN files \ {Temp(t)} : p \in DOMAIN files'
  <2>1. CASE replace
    <3>1. files' = Without(Temp(t))
      BY <2>1 DEF Added
    <3> QED
      BY <3>1, WithoutHas
  <2>2. CASE ~replace
    BY <2>2 DEF Added, Taken, Exists
  <2> QED
    BY <2>1, <2>2
<1>3. CASE k = j
  <2>1. Temps(j)' = {Temp(t)}
    BY DEF Added, Temps, Live, Present
  <2>2. ~w'[j].has
    BY DEF Added, JobOk, WorkOk, Active
  <2> QED
    BY <1>2, <1>3, <2>1, <2>2 DEF OwnedBy, HasFile
<1>4. CASE k # j
  <2>1. Holds(k) /\ Temps(k)' = Temps(k) /\ (w'[k].has => w[k].temp \in Temps(k))
    BY <1>4, StillHolds DEF Added, Others
  <2>2. w'[k].has /\ w[k].temp \in DOMAIN files => w[k].temp \in DOMAIN files'
    <3>1. CASE replace
      BY <1>2, <3>1 DEF Added
    <3>2. CASE ~replace
      BY <3>2 DEF Added
    <3> QED
      BY <3>1, <3>2
  <2> QED
    BY <1>1, <1>2, <2>1, <2>2, OwnKept
<1> QED
  BY <1>3, <1>4

LEMMA OwnedStep ==
  ASSUME Typed, JobsOk, Apart, Owned, Next
  PROVE  Owned'
<1> SUFFICES ASSUME NEW k \in Jobs, k \notin crossed' PROVE OwnedBy(k)' /\ HasFile(k)'
  BY DEF Owned
<1>1. ASSUME NEW j \in Jobs, Leaves(j)
      PROVE  OwnedBy(k)' /\ HasFile(k)'
  <2>1. k \notin crossed /\ OwnedBy(k) /\ HasFile(k) /\ files' = files
    BY <1>1 DEF Leaves, Owned
  <2>2. Temps(k)' \subseteq Temps(k) /\ Holds(k) /\ (w'[k].has => w[k].temp \in Temps(k))
    <3>1. CASE k = j
      <4>1. w'[j].has => w[j].has
        BY <1>1 DEF Leaves, Holds
      <4>2. w[j].has => w[j].temp \in Temps(j)
        BY DEF JobsOk, JobOk, WorkOk, Active, Temps
      <4> QED
        BY <1>1, <3>1, <4>1, <4>2 DEF Leaves, Quiet
    <3>2. CASE k # j
      BY <1>1, <3>2, StillHolds DEF Leaves, Moved, Others
    <3> QED
      BY <3>1, <3>2
  <2> QED
    BY <2>1, <2>2, OwnKept
<1>2. ASSUME NEW j \in Jobs, Opens(j) PROVE OwnedBy(k)' /\ HasFile(k)'
  BY <1>2, OwnedOpens
<1>3. ASSUME NEW j \in Jobs, Discards(j) PROVE OwnedBy(k)' /\ HasFile(k)'
  BY <1>3, OwnedDiscards
<1>4. ASSUME NEW j \in Jobs, Comings(j) PROVE OwnedBy(k)' /\ HasFile(k)'
  BY <1>4, OwnedAdopts, OwnedRenames DEF Comings, Moved
<1>5. ASSUME NEW j \in Jobs, NEW t \in PathRecs, NEW replace \in BOOLEAN, Added(j, t, replace)
      PROVE  OwnedBy(k)' /\ HasFile(k)'
  BY <1>5, OwnedAdded
<1>6. CASE Erases \/ Puts
  BY <1>6, OwnedErases
<1> QED
  BY <1>1, <1>2, <1>3, <1>4, <1>5, <1>6, NextKinds
-----------------------------------------------------------------------------
(* Where no bytes of the user's are.                                       *)

\* Where a job writes or deletes without another look, and what those have to delete who have left
\* the lock; but for the file of a row that the user removes with its file.
Own(j) ==
  {rows[j].temp} \cup (IF Active(j) THEN {w[j].temp, w[j].made} ELSE {})
  \cup (IF w[j].stage = "adopting" THEN {Temp(w[j].new)} ELSE {})
  \cup (IF w[j].stage = "move" /\ ~rows[j].replace THEN {w[j].new} ELSE {})
DueOwn == {d.part : d \in tails \cup {cmd}} \cup {d.file : d \in tails}

NotUsers(p) == p \in DOMAIN files => 0 \notin files[p]

Clean ==
  /\ NoPath \notin DOMAIN files
  /\ \A j \in Jobs : \A p \in Own(j) : NotUsers(p)
  /\ \A p \in DueOwn : NotUsers(p)

\* A step puts no bytes of the user's where there were none, ...
NoNew == \A p \in DOMAIN files' : 0 \in files'[p] => p \in DOMAIN files /\ 0 \in files[p]
\* ... and takes a file of his away only where he lets it.
Wanted(p) == \/ \E k \in Jobs : rows'[k].replace /\ p \in {rows'[k].target, rows'[k].temp}
             \/ p = cmd.file
Spares == \A p \in DOMAIN files : files[p] = {0} /\ ~(p \in DOMAIN files' /\ files'[p] = {0}) => Wanted(p)

\* What a step may do to the files.
Effect == NoNew /\ Spares /\ NoPath \notin DOMAIN files'

LEMMA EffectNone ==
  ASSUME Clean, files' = files
  PROVE  Effect
BY DEF Clean, Effect, NoNew, Spares

LEMMA EffectWith ==
  ASSUME Clean, NEW p, NEW by, files' = With(p, by), NotUsers(p), 0 \notin by, p # NoPath
  PROVE  Effect
<1>1. DOMAIN files' = DOMAIN files \cup {p} /\ files'[p] = by /\ \A q \in DOMAIN files \ {p} : files'[q] = files[q]
  BY WithHas
<1>2. NoNew /\ Spares
  BY <1>1 DEF NoNew, Spares, NotUsers
<1> QED
  BY <1>1, <1>2 DEF Effect, Clean

LEMMA EffectWithout ==
  ASSUME Clean, NEW p, files' = Without(p), NotUsers(p) \/ Wanted(p)
  PROVE  Effect
<1>1. DOMAIN files' = DOMAIN files \ {p} /\ \A q \in DOMAIN files \ {p} : files'[q] = files[q]
  BY WithoutHas
<1>2. NoNew
  BY <1>1 DEF NoNew
<1>3. Spares
  BY <1>1 DEF Spares, NotUsers
<1> QED
  BY <1>1, <1>2, <1>3 DEF Effect, Clean

LEMMA EffectRenamed ==
  ASSUME Clean, NEW p \in DOMAIN files, NEW q, files' = Renamed(p, q), NotUsers(p), NotUsers(q) \/ Wanted(q),
         q # NoPath
  PROVE  Effect /\ NotUsers(q)'
<1>1. /\ DOMAIN files' = (DOMAIN files \ {p}) \cup {q} /\ files'[q] = files[p]
      /\ \A r \in DOMAIN files \ {p, q} : files'[r] = files[r]
  BY RenamedHas
<1>2. NoNew /\ NotUsers(q)'
  BY <1>1 DEF NoNew, NotUsers
<1>3. Spares
  BY <1>1 DEF Spares, NotUsers
<1> QED
  BY <1>1, <1>2, <1>3 DEF Effect, Clean

LEMMA EffectDeletes ==
  ASSUME Clean, NEW a, NEW b, files' = [q \in DOMAIN files \ {a, b} |-> files[q]],
         NotUsers(a), NotUsers(b) \/ Wanted(b)
  PROVE  Effect
<1>1. DOMAIN files' = DOMAIN files \ {a, b} /\ \A q \in DOMAIN files \ {a, b} : files'[q] = files[q]
  OBVIOUS
<1>2. NoNew
  BY <1>1 DEF NoNew
<1>3. Spares
  BY <1>1 DEF Spares, NotUsers
<1> QED
  BY <1>1, <1>2, <1>3 DEF Effect, Clean

LEMMA StillOwn ==
  ASSUME NEW k \in Jobs, Still(k)
  PROVE  Own(k)' = Own(k)
<1>1. rows'[k] = rows[k] /\ Same(w'[k], w[k])
  BY DEF Still
<1>2. Temp(w[k].new)' = Temp(w[k].new)
  BY <1>1 DEF Same, Temp
<1> QED
  BY <1>1, <1>2 DEF Own, Active, Same

LEMMA CleanKept ==
  ASSUME Clean, Effect, NEW j \in Jobs, Others(j),
         \A p \in Own(j)' : p \in Own(j) \/ NotUsers(p)',
         \A p \in DueOwn' : p \in DueOwn \cup Own(j) \cup {NoPath}
  PROVE  Clean'
<1>1. \A p : NotUsers(p) => NotUsers(p)'
  BY DEF Effect, NoNew, NotUsers
<1>2. \A p \in Own(j)' : NotUsers(p)'
  BY <1>1 DEF Clean
<1>3. \A k \in Jobs \ {j} : \A p \in Own(k)' : NotUsers(p)'
  BY <1>1, StillOwn DEF Clean, Others
<1>4. NotUsers(NoPath)
  BY DEF Clean, NotUsers
<1>5. \A p \in DueOwn' : NotUsers(p)'
  BY <1>1, <1>4 DEF Clean
<1> QED
  BY <1>2, <1>3, <1>5 DEF Clean, Effect

\* The user's commands: the worker is as it was, and only a row's .part, or its file by the handler
\* itself, is to be deleted.
LEMMA CleanTold ==
  ASSUME Typed, Clean, NEW j \in Jobs, Others(j), NEW s \in {"no", "pause", "cancel"}, Told(j, s),
         rows'[j].temp = rows[j].temp, rows'[j].replace = rows[j].replace, files' = files,
         tails' = tails, cmd' = cmd \/ cmd'.part \in {NoPath, rows[j].temp}
  PROVE  Clean' /\ Effect
<1>1. Effect
  BY EffectNone
<1>2. Same(w'[j], w[j])
  BY ToldHas
<1>3. Temp(w[j].new)' = Temp(w[j].new)
  BY <1>2 DEF Same, Temp
<1>4. Own(j)' = Own(j)
  BY <1>2, <1>3 DEF Own, Same, Active
<1>5. rows[j].temp \in Own(j)
  BY DEF Own
<1>6. \A p \in DueOwn' : p \in DueOwn \cup Own(j) \cup {NoPath}
  BY <1>5 DEF DueOwn
<1>7. \A p \in Own(j)' : p \in Own(j) \/ NotUsers(p)'
  BY <1>4
<1> QED
  BY <1>1, <1>6, <1>7, CleanKept

\* What a command changes of a row, and what it leaves to delete.
LEMMA CommandHas ==
  ASSUME Typed, JobsOk, NEW j \in Jobs,
         Pause(j) \/ Resume(j) \/ Cancel(j) \/ Restart(j) \/ Remove(j)
  PROVE  /\ Others(j) /\ UNCHANGED <<files, tails, crossed>> /\ j \in Present
         /\ \E s \in {"no", "pause", "cancel"} : Told(j, s)
         /\ rows'[j].temp = rows[j].temp /\ rows'[j].target = rows[j].target /\ rows'[j].replace = rows[j].replace
         /\ rows'[j].st \notin {"none", "done"}
         /\ \/ cmd' = cmd
            \/ ~Active(j) /\ cmd'.job = j /\ cmd'.part \in {NoPath, rows[j].temp} /\ cmd'.file \in {NoPath, rows[j].target}
<1>1. /\ Others(j) /\ UNCHANGED <<files, tails, crossed>> /\ j \in Present
      /\ \E s \in {"no", "pause", "cancel"} : Told(j, s)
  BY PauseStep, ResumeStep, CancelStep, RestartStep, RemoveStep
     DEF Moved, Pause, Resume, Cancel, Restart, Remove, Present
<1>2. \E st \in {"paused", "queued", "running", "ended", "gone"} : rows' = [rows EXCEPT ![j].st = st]
  BY DEF Pause, Resume, Cancel, Restart, Remove
<1>3. /\ rows'[j].temp = rows[j].temp /\ rows'[j].target = rows[j].target /\ rows'[j].replace = rows[j].replace
      /\ rows'[j].st \notin {"none", "done"}
  <2>1. PICK st \in {"paused", "queued", "running", "ended", "gone"} : rows' = [rows EXCEPT ![j].st = st]
    BY <1>2
  <2>2. rows'[j] = [rows[j] EXCEPT !.st = st] /\ rows[j] \in RowRecs
    BY <2>1, RowTyped DEF Typed
  <2> QED
    BY <2>2 DEF RowRecs
<1> DEFINE Mine(c) == c.job = j /\ c.part \in {NoPath, rows[j].temp} /\ c.file \in {NoPath, rows[j].target}
           Cmd == cmd' = cmd \/ (~Active(j) /\ Mine(cmd'))
<1>4. \A p \in {NoPath, rows[j].temp}, q \in {NoPath, rows[j].target} : \A b :
         /\ Mine([NoCmd EXCEPT !.job = j, !.part = p])
         /\ Mine([NoCmd EXCEPT !.job = j, !.part = p, !.flag = b])
         /\ Mine([NoCmd EXCEPT !.job = j, !.part = p, !.file = q])
  BY DEF NoCmd
<1> HIDE DEF Mine
<1>5. Pause(j) \/ Resume(j) => Cmd
  BY DEF Pause, Resume
<1>6. Cancel(j) => Cmd
  <2>1. Cancel(j) => cmd' = cmd \/ (~Active(j) /\ cmd' = [NoCmd EXCEPT !.job = j, !.part = rows[j].temp])
    BY DEF Cancel
  <2>2. Mine([NoCmd EXCEPT !.job = j, !.part = rows[j].temp])
    BY <1>4
  <2> QED
    BY <2>1, <2>2
<1>7. Restart(j) => Cmd
  <2>1. Restart(j) => cmd' = cmd \/ (~Active(j) /\ cmd' = [NoCmd EXCEPT !.job = j, !.part = rows[j].temp, !.flag = TRUE])
    BY DEF Restart
  <2>2. Mine([NoCmd EXCEPT !.job = j, !.part = rows[j].temp, !.flag = TRUE])
    BY <1>4
  <2> QED
    BY <2>1, <2>2
<1>8. ASSUME Remove(j), cmd' # cmd PROVE Cmd
  <2>1. ~Active(j)
    BY <1>8 DEF Remove
  <2>2. PICK p \in {NoPath, rows[j].temp}, q \in {NoPath, rows[j].target} :
          cmd' = [NoCmd EXCEPT !.job = j, !.part = p, !.file = q]
    BY <1>8 DEF Remove
  <2>3. Mine(cmd')
    BY <1>4, <2>2
  <2> QED
    BY <2>1, <2>3
<1>9. cmd' = cmd => Cmd
  OBVIOUS
<1> HIDE DEF Cmd
<1>10. Cmd
  BY <1>5, <1>6, <1>7, <1>8, <1>9
<1>11. \/ cmd' = cmd
       \/ ~Active(j) /\ cmd'.job = j /\ cmd'.part \in {NoPath, rows[j].temp} /\ cmd'.file \in {NoPath, rows[j].target}
  BY <1>10 DEF Cmd, Mine
<1> QED
  BY <1>1, <1>3, <1>11, ZenonT(60)

LEMMA CleanCommands ==
  ASSUME Typed, JobsOk, Clean, NEW j \in Jobs,
         Pause(j) \/ Resume(j) \/ Cancel(j) \/ Restart(j) \/ Remove(j)
  PROVE  Clean' /\ Effect
<1>1. /\ Others(j) /\ files' = files /\ tails' = tails
      /\ rows'[j].temp = rows[j].temp /\ rows'[j].replace = rows[j].replace
      /\ cmd' = cmd \/ cmd'.part \in {NoPath, rows[j].temp}
  BY CommandHas
<1>2. PICK s \in {"no", "pause", "cancel"} : Told(j, s)
  BY CommandHas
<1> QED
  BY <1>1, <1>2, CleanTold

\* A worker's steps that look nowhere new.
LEMMA CleanWork ==
  ASSUME Clean, NEW j \in Jobs, Others(j), Effect, UNCHANGED <<tails, cmd>>,
         rows'[j].temp \in Own(j), rows'[j].replace = rows[j].replace,
         Active(j)' => w'[j].temp \in Own(j) /\ w'[j].made \in Own(j) \cup {NoPath},
         w'[j].stage = "adopting" => NotUsers(Temp(w[j].new)'),
         w'[j].stage = "move" /\ ~rows[j].replace => NotUsers(w'[j].new)
  PROVE  Clean'
<1>1. \A p : NotUsers(p) => NotUsers(p)'
  BY DEF Effect, NoNew, NotUsers
<1>2. NotUsers(NoPath)
  BY DEF Clean, NotUsers
<1>3. \A p \in Own(j)' : p \in Own(j) \/ NotUsers(p)'
  <2> SUFFICES ASSUME NEW p \in Own(j)', p \notin Own(j) PROVE NotUsers(p)'
    OBVIOUS
  <2>1. p = NoPath \/ (w'[j].stage = "adopting" /\ p = Temp(w[j].new)') \/ (w'[j].stage = "move" /\ ~rows[j].replace /\ p = w'[j].new)
    <3> DEFINE t == Temp(w[j].new)'
    <3>1. p \in {rows'[j].temp} \cup (IF Active(j)' THEN {w'[j].temp, w'[j].made} ELSE {})
               \cup (IF w'[j].stage = "adopting" THEN {t} ELSE {})
               \cup (IF w'[j].stage = "move" /\ ~rows'[j].replace THEN {w'[j].new} ELSE {})
      BY DEF Own
    <3> HIDE DEF t
    <3>2. p = NoPath \/ (w'[j].stage = "adopting" /\ p = t) \/ (w'[j].stage = "move" /\ ~rows[j].replace /\ p = w'[j].new)
      BY <3>1
    <3> QED
      BY <3>2 DEF t
  <2> QED
    BY <1>1, <1>2, <2>1
<1>4. \A p \in DueOwn' : p \in DueOwn
  BY DEF DueOwn
<1> QED
  BY <1>3, <1>4, CleanKept

\* The fields of a worker of which one is changed, and of one that stops.
LEMMA WorkHas ==
  ASSUME Typed, NEW j \in Jobs, NEW st
  PROVE  /\ Goes(j, st) => /\ w'[j].stage = st /\ w'[j].temp = w[j].temp /\ w'[j].made = w[j].made
                           /\ w'[j].new = w[j].new
         /\ Stops(j, st) => /\ w'[j].stage = st /\ w'[j].temp = w[j].temp /\ w'[j].made = w[j].made
                            /\ w'[j].new = w[j].new
<1>1. w \in [Jobs -> WorkRecs] /\ w[j] \in WorkRecs
  BY DEF Typed
<1>2. Goes(j, st) => w'[j] = [w[j] EXCEPT !.stage = st]
  BY <1>1 DEF Goes
<1>3. Stops(j, st) => w'[j] = [w[j] EXCEPT !.stage = st, !.has = FALSE]
  BY <1>1 DEF Stops
<1>4. /\ [w[j] EXCEPT !.stage = st].stage = st /\ [w[j] EXCEPT !.stage = st].temp = w[j].temp
      /\ [w[j] EXCEPT !.stage = st].made = w[j].made /\ [w[j] EXCEPT !.stage = st].new = w[j].new
  BY <1>1 DEF WorkRecs
<1>5. /\ [w[j] EXCEPT !.stage = st, !.has = FALSE].stage = st /\ [w[j] EXCEPT !.stage = st, !.has = FALSE].temp = w[j].temp
      /\ [w[j] EXCEPT !.stage = st, !.has = FALSE].made = w[j].made
      /\ [w[j] EXCEPT !.stage = st, !.has = FALSE].new = w[j].new
  BY <1>1 DEF WorkRecs
<1> QED
  BY <1>2, <1>3, <1>4, <1>5

LEMMA OwnHas ==
  ASSUME NEW j \in Jobs
  PROVE  /\ rows[j].temp \in Own(j) /\ (Active(j) => w[j].temp \in Own(j) /\ w[j].made \in Own(j))
         /\ w[j].stage = "adopting" => Temp(w[j].new) \in Own(j)
         /\ w[j].stage = "move" /\ ~rows[j].replace => w[j].new \in Own(j)
BY DEF Own

LEMMA CleanStart ==
  ASSUME Typed, JobsOk, Clean, NEW j \in Jobs, Start(j)
  PROVE  Clean' /\ Effect
<1>1. Others(j) /\ files' = files /\ UNCHANGED <<tails, cmd>>
  BY StartStep DEF Moved, Start, unchanged
<1>2. Effect
  BY <1>1, EffectNone
<1>3. rows'[j].temp = rows[j].temp /\ rows'[j].replace = rows[j].replace
  <2>1. rows'[j] = [rows[j] EXCEPT !.st = "running"] /\ rows[j] \in RowRecs
    BY RowTyped DEF Start, Typed
  <2> QED
    BY <2>1 DEF RowRecs
<1>4. w'[j].stage = "answered" /\ w'[j].temp = rows[j].temp /\ w'[j].made = NoPath
  <2>1. w'[j] = [NoWork EXCEPT !.stage = "answered", !.target = rows[j].target,
                              !.temp = rows[j].temp, !.occ = Paths(Present \ {j}),
                              !.resume = Exists(rows[j].temp)]
    BY DEF Start, Typed
  <2> QED
    BY <2>1 DEF NoWork
<1> QED
  BY <1>1, <1>2, <1>3, <1>4, OwnHas, CleanWork

LEMMA CleanAdoptCheck ==
  ASSUME Typed, JobsOk, Clean, NEW j \in Jobs, AdoptCheck(j)
  PROVE  Clean' /\ Effect
<1>1. Others(j) /\ files' = files /\ UNCHANGED <<rows, tails, cmd>> /\ Active(j)
  BY AdoptCheckStep DEF Moved, AdoptCheck, unchanged, Active
<1>2. Effect
  BY <1>1, EffectNone
<1> DEFINE new == Header(j)
           st == IF new # w[j].target /\ FreeForUs(j, Temp(new), w[j].temp) /\ FreeForUs(j, new, w[j].target)
                 THEN "adopting" ELSE "named"
<1>3. /\ w'[j].stage = st /\ w'[j].temp = w[j].temp /\ w'[j].made = w[j].made /\ w'[j].new = new
  <2>1. w'[j] = [w[j] EXCEPT !.stage = st, !.new = new] /\ w[j] \in WorkRecs
    BY RowTyped DEF AdoptCheck, Typed
  <2> HIDE DEF st, new
  <2> QED
    BY <2>1 DEF WorkRecs
<1>4. w'[j].stage = "adopting" => NotUsers(Temp(w[j].new)')
  <2>1. Temp(w[j].new)' = Temp(new)
    BY <1>3 DEF Temp
  <2>2. w'[j].stage = "adopting" => Temp(new) = w[j].temp \/ ~Exists(Temp(new))
    BY <1>3 DEF FreeForUs
  <2>3. NotUsers(w[j].temp)
    BY <1>1, OwnHas DEF Clean
  <2> HIDE DEF new
  <2> QED
    BY <2>1, <2>2, <2>3 DEF Exists, NotUsers
<1>5. w'[j].stage # "move"
  BY <1>3
<1> HIDE DEF st, new
<1> QED
  BY <1>1, <1>2, <1>3, <1>4, <1>5, OwnHas, CleanWork

LEMMA CleanAdoptMove ==
  ASSUME Typed, JobsOk, Clean, NEW j \in Jobs, AdoptMove(j)
  PROVE  Clean' /\ Effect
<1>1. /\ Others(j) /\ UNCHANGED <<rows, tails, cmd>> /\ w[j].stage = "adopting"
      /\ w'[j].stage = "named" /\ w'[j].temp \in {w[j].temp, Temp(w[j].new)} /\ JobOk(j)'
      /\ Adopts(j) \/ files' = files
  BY AdoptMoveStep DEF Moved
<1>2. /\ w[j].temp \in Own(j) /\ Temp(w[j].new) \in Own(j) /\ rows[j].temp \in Own(j)
      /\ NotUsers(w[j].temp) /\ NotUsers(Temp(w[j].new))
  BY <1>1, OwnHas DEF Active, Clean
<1>3. w'[j].made = NoPath
  BY <1>1 DEF JobOk, WorkOk
<1>4. Effect
  <2>1. CASE files' = files
    BY <2>1, EffectNone
  <2>2. CASE Exists(w[j].temp) /\ files' = Renamed(w[j].temp, Temp(w[j].new))
    <3>1. Temp(w[j].new) # NoPath
      BY RowTyped, TempTyped
    <3> QED
      BY <1>2, <2>2, <3>1, EffectRenamed DEF Exists
  <2> QED
    BY <1>1, <2>1, <2>2 DEF Adopts
<1> QED
  BY <1>1, <1>2, <1>3, <1>4, CleanWork

LEMMA CommitHas ==
  ASSUME Typed, NEW j \in Jobs, NEW target, Commit(j, target)
  PROVE  rows'[j].temp \in {rows[j].temp, w[j].temp} /\ rows'[j].replace = rows[j].replace
<1>1. \/ rows'[j] = [rows[j] EXCEPT !.target = target, !.temp = w[j].temp]
      \/ rows'[j] = rows[j]
  BY DEF Commit, Typed
<1>2. rows[j] \in RowRecs
  BY RowTyped
<1>3. /\ [rows[j] EXCEPT !.target = target, !.temp = w[j].temp].temp = w[j].temp
      /\ [rows[j] EXCEPT !.target = target, !.temp = w[j].temp].replace = rows[j].replace
  BY <1>2 DEF RowRecs
<1> QED
  BY <1>1, <1>3

LEMMA CleanCommitName ==
  ASSUME Typed, JobsOk, Clean, NEW j \in Jobs, CommitName(j)
  PROVE  Clean' /\ Effect
<1>1. Others(j) /\ files' = files /\ UNCHANGED <<tails, cmd>> /\ Active(j) /\ Goes(j, "open")
  BY CommitNameStep DEF Moved, CommitName, unchanged, Active
<1>2. Effect
  BY <1>1, EffectNone
<1>3. rows'[j].temp \in {rows[j].temp, w[j].temp} /\ rows'[j].replace = rows[j].replace
  BY CommitHas DEF CommitName
<1>4. w'[j].stage = "open" /\ w'[j].temp = w[j].temp /\ w'[j].made = w[j].made
  BY <1>1, WorkHas
<1> QED
  BY <1>1, <1>2, <1>3, <1>4, OwnHas, CleanWork

\* The bytes that are in a .part when a worker opens it are those of downloads.
LEMMA CleanOpen ==
  ASSUME Typed, JobsOk, Clean, NEW j \in Jobs, Open(j)
  PROVE  Clean' /\ Effect
<1> DEFINE p == w[j].temp
           kept == IF ~Exists(p) THEN {} ELSE IF w[j].resume THEN files[p] ELSE Holders(p)
<1>1. Others(j) /\ UNCHANGED <<rows, tails, cmd>> /\ Active(j) /\ files' = With(p, {j} \cup kept)
  BY OpenStep DEF Moved, Open, unchanged, Active
<1>2. p \in Own(j) /\ NotUsers(p)
  BY <1>1, OwnHas DEF Clean
<1>3. 0 \notin {j} \cup kept
  <2>1. 0 \notin Jobs /\ Holders(p) \subseteq Jobs
    BY NamesAssumption DEF Holders
  <2> QED
    BY <1>2, <2>1 DEF NotUsers, Exists
<1>4. p # NoPath
  BY <1>1, PathTyped DEF JobsOk, JobOk, WorkOk
<1>5. /\ w'[j].stage = "body" /\ w'[j].temp = p /\ w'[j].made = w[j].made
  <2>1. w'[j] = [w[j] EXCEPT !.stage = "body", !.has = TRUE] /\ w[j] \in WorkRecs
    BY RowTyped DEF Open, Typed
  <2> QED
    BY <2>1 DEF WorkRecs
<1> HIDE DEF kept
<1>6. Effect
  BY <1>1, <1>2, <1>3, <1>4, EffectWith
<1> QED
  BY <1>1, <1>2, <1>5, <1>6, OwnHas, CleanWork

LEMMA CleanPickName ==
  ASSUME Typed, JobsOk, Clean, NEW j \in Jobs, PickName(j)
  PROVE  Clean' /\ Effect
<1>1. Others(j) /\ files' = files /\ UNCHANGED <<rows, tails, cmd>> /\ Active(j)
  BY PickNameStep DEF Moved, PickName, unchanged, Active
<1>2. Effect
  BY <1>1, EffectNone
<1> DEFINE free == {i \in 0..MaxIndex : ~Exists(Numbered(w[j].target, i))}
           new == IF rows[j].replace THEN w[j].target ELSE First(w[j].target, free)
<1>3. w[j] \in WorkRecs /\ w \in [Jobs -> WorkRecs] /\ w[j].target \in PathRecs
  BY RowTyped DEF Typed
<1>4. CASE rows[j].replace \/ free # {}
  <2>1. w'[j] = [w[j] EXCEPT !.stage = "move", !.new = new]
    BY <1>3, <1>4 DEF PickName
  <2>2. w'[j].stage = "move" /\ w'[j].temp = w[j].temp /\ w'[j].made = w[j].made /\ w'[j].new = new
    <3> HIDE DEF new
    <3> QED
      BY <1>3, <2>1 DEF WorkRecs
  <2>3. ~rows[j].replace => NotUsers(w'[j].new)
    <3> SUFFICES ASSUME ~rows[j].replace PROVE ~Exists(new)
      BY <2>2 DEF NotUsers, Exists
    <3>1. free # {} /\ new = First(w[j].target, free)
      BY <1>4
    <3>3. free \subseteq Nat
      <4>1. free \subseteq 0..MaxIndex
        OBVIOUS
      <4>2. MaxIndex \in Nat
        BY NamesAssumption
      <4> HIDE DEF free
      <4> QED
        BY <4>1, <4>2
    <3>2. PICK i \in free : new = Numbered(w[j].target, i)
      <4> HIDE DEF free, new
      <4> QED
        BY <1>3, <3>1, <3>3, FirstFree
    <3> QED
      BY <3>2
  <2> QED
    BY <1>1, <1>2, <2>2, <2>3, OwnHas, CleanWork
<1>5. CASE ~(rows[j].replace \/ free # {})
  <2>1. Stops(j, "failed")
    BY <1>5 DEF PickName
  <2>2. w'[j].stage = "failed" /\ w'[j].temp = w[j].temp /\ w'[j].made = w[j].made
    BY <2>1, WorkHas
  <2> QED
    BY <1>1, <1>2, <2>2, OwnHas, CleanWork
<1> QED
  BY <1>4, <1>5

LEMMA CleanMove ==
  ASSUME Typed, JobsOk, Clean, NEW j \in Jobs, Move(j)
  PROVE  Clean' /\ Effect
<1>1. /\ Others(j) /\ UNCHANGED <<rows, tails, cmd>> /\ w[j].stage = "move" /\ Active(j)
      /\ Renames(j) \/ (Stops(j, "failed") /\ files' = files)
  BY MoveStep DEF Moved, Active
<1>2. w[j].temp \in Own(j) /\ rows[j].temp \in Own(j) /\ w[j].made \in Own(j)
  BY <1>1, OwnHas
<1>3. CASE Renames(j)
  <2> DEFINE p == w[j].temp
             q == w[j].new
  <2>1. /\ p \in DOMAIN files /\ files' = Renamed(p, q) /\ w'[j].temp = p /\ w'[j].stage = "moved"
        /\ w'[j].made = q
    BY <1>3 DEF Renames, Exists
  <2>2. NotUsers(p) /\ (~rows[j].replace => NotUsers(q))
    BY <1>1, OwnHas DEF Active, Clean
  <2>3. rows[j].replace => Wanted(q)
    BY <1>1 DEF JobsOk, JobOk, ReplaceOk, Wanted
  <2>4. q # NoPath
    <3>1. q.name \in FileNames
      BY <1>1 DEF JobsOk, JobOk, WorkOk
    <3> QED
      BY <3>1, PathTyped, NamesAssumption
  <2> HIDE DEF p, q
  <2>5. Effect /\ (q \in DOMAIN files' => 0 \notin files'[q])
    BY <2>1, <2>2, <2>3, <2>4, EffectRenamed DEF NotUsers
  <2>6. Own(j)' \subseteq {rows'[j].temp, w'[j].temp, w'[j].made}
    BY <2>1 DEF Own
  <2>7. \A r \in Own(j)' : r \in Own(j) \/ NotUsers(r)'
    BY <1>1, <1>2, <2>1, <2>5, <2>6 DEF p, NotUsers
  <2>8. \A r \in DueOwn' : r \in DueOwn
    BY <1>1 DEF DueOwn
  <2> QED
    BY <1>1, <2>5, <2>7, <2>8, CleanKept
<1>4. CASE Stops(j, "failed") /\ files' = files
  <2>1. w'[j].stage = "failed" /\ w'[j].temp = w[j].temp /\ w'[j].made = w[j].made
    BY <1>4, WorkHas
  <2>2. Effect
    BY <1>4, EffectNone
  <2> QED
    BY <1>1, <1>2, <2>1, <2>2, CleanWork
<1> QED
  BY <1>1, <1>3, <1>4

LEMMA CleanForget ==
  ASSUME Typed, Clean, NEW j \in Jobs, Others(j), Active(j), Forget(j), UNCHANGED <<rows, tails, cmd>>
  PROVE  Clean' /\ Effect
<1>1. files' = Without(w[j].made) /\ NotUsers(w[j].made)
  BY OwnHas DEF Forget, Clean
<1>2. Effect
  BY <1>1, EffectWithout
<1>3. w'[j].stage = "cancel" /\ w'[j].temp = w[j].temp /\ w'[j].made = NoPath
  <2>1. w'[j] = [w[j] EXCEPT !.stage = "cancel", !.made = NoPath] /\ w[j] \in WorkRecs
    BY RowTyped DEF Forget, Typed
  <2> QED
    BY <2>1 DEF WorkRecs
<1> QED
  BY <1>2, <1>3, OwnHas, CleanWork

LEMMA CleanCommitFinal ==
  ASSUME Typed, JobsOk, Clean, NEW j \in Jobs, CommitFinal(j)
  PROVE  Clean' /\ Effect
<1>1. Others(j) /\ UNCHANGED <<tails, cmd>> /\ Active(j)
  BY CommitFinalStep DEF Moved, CommitFinal, unchanged, Active
<1>2. CASE Discarded(j)
  BY <1>1, <1>2, CleanForget DEF CommitFinal
<1>3. CASE ~Discarded(j)
  <2>1. Commit(j, w[j].made) /\ Goes(j, "final") /\ files' = files
    BY <1>3 DEF CommitFinal
  <2>2. rows'[j].temp \in {rows[j].temp, w[j].temp} /\ rows'[j].replace = rows[j].replace
    BY <2>1, CommitHas
  <2>3. w'[j].stage = "final" /\ w'[j].temp = w[j].temp /\ w'[j].made = w[j].made
    BY <2>1, WorkHas
  <2> QED
    BY <1>1, <2>1, <2>2, <2>3, EffectNone, OwnHas, CleanWork
<1> QED
  BY <1>2, <1>3

LEMMA CleanLastLook ==
  ASSUME Typed, JobsOk, Clean, NEW j \in Jobs, LastLook(j)
  PROVE  Clean' /\ Effect
<1>1. Others(j) /\ UNCHANGED <<rows, tails, cmd>> /\ Active(j)
  BY LastLookStep DEF Moved, LastLook, unchanged, Active
<1>2. CASE Discarded(j)
  BY <1>1, <1>2, CleanForget DEF LastLook
<1>3. CASE ~Discarded(j)
  <2>1. Goes(j, "done") /\ files' = files
    BY <1>3 DEF LastLook
  <2>2. w'[j].stage = "done" /\ w'[j].temp = w[j].temp /\ w'[j].made = w[j].made
    BY <2>1, WorkHas
  <2> QED
    BY <1>1, <2>1, <2>2, EffectNone, OwnHas, CleanWork
<1> QED
  BY <1>2, <1>3

LEMMA CleanEnds ==
  ASSUME Typed, JobsOk, Clean, NEW j \in Jobs, Ends(j)
  PROVE  Clean' /\ Effect
<1>1. Others(j) /\ UNCHANGED <<rows, tails, cmd, files>> /\ Active(j)
  BY EndsStep DEF Moved, Ends, unchanged, Active
<1>2. PICK how \in {"failed", "pause", "cancel"} : Stops(j, how)
  BY RowTyped DEF Ends
<1>3. w'[j].stage = how /\ w'[j].temp = w[j].temp /\ w'[j].made = w[j].made
  BY <1>2, WorkHas
<1> QED
  BY <1>1, <1>3, EffectNone, OwnHas, CleanWork

\* What a finalizer still has to delete when it leaves the lock: the row's .part, or the file that
\* the worker made.
LEMMA FinalizeHas ==
  ASSUME Typed, JobsOk, NEW j \in Jobs, Finalize(j)
  PROVE  /\ Active(j) /\ w'[j].stage = "none" /\ UNCHANGED <<files, cmd, crossed>>
         /\ rows'[j].temp = rows[j].temp /\ rows'[j].target = rows[j].target /\ rows'[j].replace = rows[j].replace
         /\ rows'[j].st # "none" /\ (rows'[j].st # "gone" => j \in Present)
         /\ \E d \in DueRecs : /\ tails' = tails \cup {d} /\ d.job = j /\ d.part = part[j]
                               /\ d.file \in {NoPath, w[j].made}
                               /\ j \in Present => d.file \in {NoPath, rows[j].target}
                               /\ rows'[j].st = "done" => d.part = NoPath /\ d.file = NoPath
<1>1. JobOk(j) /\ RowOk(j) /\ WorkOk(j) /\ Active(j) /\ w[j].stage \in {"failed", "pause", "cancel", "done"}
  BY DEF JobsOk, JobOk, Finalize, Active
<1> DEFINE file == IF Discarded(j) THEN w[j].made ELSE NoPath
<1>2. PICK st \in {"queued", "done", "paused", "ended"}, defer \in BOOLEAN :
        /\ rows' = IF j \in Present THEN [rows EXCEPT ![j].st = st] ELSE rows
        /\ tails' = tails \cup {[job |-> j, part |-> part[j], flag |-> defer, file |-> file]}
        /\ st = "done" => j \notin requeue /\ part[j] = NoPath
  BY DEF Finalize
<1>3. rows[j] \in RowRecs /\ (rows'[j] = [rows[j] EXCEPT !.st = st] \/ (j \notin Present /\ rows'[j] = rows[j]))
  BY <1>2, RowTyped DEF Typed
<1>4. /\ rows'[j].temp = rows[j].temp /\ rows'[j].target = rows[j].target /\ rows'[j].replace = rows[j].replace
      /\ rows'[j].st = "done" => st = "done" /\ j \in Present
      /\ rows'[j].st # "none" /\ (rows'[j].st # "gone" => j \in Present)
  <2>1. CASE rows'[j] = [rows[j] EXCEPT !.st = st] /\ j \in Present
    BY <1>3, <2>1 DEF RowRecs
  <2>2. CASE j \notin Present /\ rows'[j] = rows[j]
    BY <1>1, <2>2 DEF WorkOk, Present
  <2>3. j \notin Present => rows'[j] = rows[j]
    BY <1>2
  <2> QED
    BY <1>3, <2>1, <2>2, <2>3
<1>5. rows'[j].st = "done" => file = NoPath
  BY <1>1, <1>2, <1>4 DEF Discarded, RowOk, Present
<1>6. j \in Present => file \in {NoPath, rows[j].target}
  BY <1>1 DEF WorkOk
<1>7. w'[j].stage = "none" /\ UNCHANGED <<files, cmd, crossed>>
  BY DEF Finalize, NoWork, Typed
<1> DEFINE d == [job |-> j, part |-> part[j], flag |-> defer, file |-> file]
<1>8. d \in DueRecs /\ d.job = j /\ d.part = part[j] /\ d.file = file
  <2>1. file \in PathRecs /\ part[j] \in PathRecs
    BY RowTyped, PathTyped DEF Typed
  <2> HIDE DEF file
  <2> QED
    BY <2>1 DEF DueRecs
<1>9. d.file \in {NoPath, w[j].made} /\ tails' = tails \cup {d}
  BY <1>2, <1>8
<1> HIDE DEF d, file
<1> QED
  BY <1>1, <1>2, <1>4, <1>5, <1>6, <1>7, <1>8, <1>9

LEMMA CleanFinalize ==
  ASSUME Typed, JobsOk, Clean, NEW j \in Jobs, Finalize(j)
  PROVE  Clean' /\ Effect
<1>1. Others(j) /\ RowOk(j)
  BY FinalizeStep DEF Moved, JobsOk, JobOk
<1>2. /\ Active(j) /\ w'[j].stage = "none" /\ files' = files /\ cmd' = cmd /\ rows'[j].temp = rows[j].temp
  BY FinalizeHas
<1>3. PICK d \in DueRecs : tails' = tails \cup {d} /\ d.part = part[j] /\ d.file \in {NoPath, w[j].made}
  BY FinalizeHas
<1>4. Effect
  BY <1>2, EffectNone
<1>5. part[j] \in {NoPath, rows[j].temp} /\ rows[j].temp \in Own(j) /\ w[j].made \in Own(j)
  BY <1>1, <1>2, OwnHas DEF RowOk
<1>6. Own(j)' = {rows[j].temp}
  BY <1>2 DEF Own, Active
<1>7. \A p \in DueOwn' : p \in DueOwn \cup Own(j) \cup {NoPath}
  BY <1>2, <1>3, <1>5 DEF DueOwn
<1>8. \A p \in Own(j)' : p \in Own(j) \/ NotUsers(p)'
  BY <1>5, <1>6
<1> QED
  BY <1>1, <1>4, <1>7, <1>8, CleanKept

LEMMA CleanAdd ==
  ASSUME Typed, JobsOk, Clean, NEW j \in Jobs, Add(j)
  PROVE  Clean' /\ Effect
<1>1. PICK t \in PathRecs, replace \in BOOLEAN : Added(j, t, replace)
  BY AddStep
<1>2. Others(j) /\ w'[j].stage = "none" /\ UNCHANGED <<tails, cmd>>
  BY <1>1 DEF Added, Active
<1>3. rows'[j].temp = Temp(t) /\ rows'[j].replace = replace
  BY <1>1 DEF Added
<1>4. Own(j)' = {rows'[j].temp}
  BY <1>2 DEF Own, Active
<1>5. Effect /\ rows'[j].temp \notin DOMAIN files'
  <2>1. CASE replace
    <3>1. files' = Without(rows'[j].temp)
      BY <1>1, <1>3, <2>1 DEF Added
    <3>2. Wanted(rows'[j].temp)
      BY <1>3, <2>1 DEF Wanted
    <3> QED
      BY <3>1, <3>2, EffectWithout, WithoutHas
  <2>2. CASE ~replace
    <3>1. files' = files /\ rows'[j].temp \notin DOMAIN files
      BY <1>1, <1>3, <2>2 DEF Added, Taken, Exists
    <3> QED
      BY <3>1, EffectNone
  <2> QED
    BY <2>1, <2>2
<1>6. \A p \in Own(j)' : NotUsers(p)'
  BY <1>4, <1>5 DEF NotUsers
<1>7. \A p \in DueOwn' : p \in DueOwn
  BY <1>2 DEF DueOwn
<1> QED
  BY <1>2, <1>5, <1>6, <1>7, CleanKept

LEMMA StillClean ==
  ASSUME Clean, Effect, \A k \in Jobs : Still(k), \A p \in DueOwn' : p \in DueOwn \cup {NoPath}
  PROVE  Clean'
<1>1. PICK j \in Jobs : TRUE
  BY NamesAssumption
<1>2. Others(j) /\ Own(j)' = Own(j)
  BY StillOwn DEF Others
<1> QED
  BY <1>2, CleanKept

LEMMA CleanDeletes ==
  ASSUME Typed, Clean, CmdDelete \/ TailDelete
  PROVE  Clean' /\ Effect
<1>1. CASE CmdDelete
  <2>1. (\A k \in Jobs : Still(k)) /\ Deletes(cmd) /\ cmd' = NoCmd /\ tails' = tails
    BY <1>1, CmdDeleteStep DEF CmdDelete
  <2>2. NotUsers(cmd.part) /\ Wanted(cmd.file)
    BY DEF Clean, DueOwn, Wanted
  <2>3. Effect
    BY <2>1, <2>2, EffectDeletes DEF Deletes
  <2>4. \A p \in DueOwn' : p \in DueOwn \cup {NoPath}
    BY <2>1, NoneTyped DEF DueOwn
  <2> QED
    BY <2>1, <2>3, <2>4, StillClean
<1>2. CASE TailDelete
  <2>1. PICK d \in tails : Deletes(d) /\ tails' = tails \ {d}
    BY <1>2, TailDeleteStep
  <2>2. (\A k \in Jobs : Still(k)) /\ cmd' = cmd
    BY <1>2, TailDeleteStep
  <2>3. NotUsers(d.part) /\ NotUsers(d.file)
    BY DEF Clean, DueOwn
  <2>4. Effect
    BY <2>1, <2>3, EffectDeletes DEF Deletes
  <2>5. \A p \in DueOwn' : p \in DueOwn
    BY <2>1, <2>2 DEF DueOwn
  <2> QED
    BY <2>2, <2>4, <2>5, StillClean
<1> QED
  BY <1>1, <1>2

\* A file that the user puts somewhere is where no job writes or deletes without a look.
LEMMA CleanSaves ==
  ASSUME Typed, JobsOk, Clean, NEW p \in sc.wanted, Saves(p)
  PROVE  Clean' /\ Spares
<1>1. /\ \A k \in Jobs : Still(k)
      /\ p \in PathRecs /\ p.parts = 0 /\ ~Exists(p) /\ files' = With(p, {0}) /\ p.name \in FileNames
      /\ \A k \in Jobs : w[k].stage # "move" /\ w[k].made # p
      /\ \A d \in tails \cup {cmd} : p \notin Due(d)
      /\ UNCHANGED <<tails, cmd>>
  BY SavesStep, Scenario DEF Saves
<1>2. p # NoPath
  BY <1>1, PathTyped, NamesAssumption
<1>3. DOMAIN files' = DOMAIN files \cup {p} /\ \A q \in DOMAIN files \ {p} : files'[q] = files[q]
  BY <1>1, WithHas
<1>4. \A q : q # p /\ NotUsers(q) => (q \in DOMAIN files' => 0 \notin files'[q])
  BY <1>3 DEF NotUsers
<1>5. ASSUME NEW k \in Jobs
      PROVE  p \notin Own(k) /\ Own(k)' = Own(k)
  <2>1. rows[k].temp # p
    BY <1>1, <1>2 DEF JobsOk, JobOk, RowOk
  <2>2. Active(k) => w[k].temp # p
    BY <1>1 DEF JobsOk, JobOk, WorkOk
  <2>3. Temp(w[k].new) # p
    BY <1>1, RowTyped, TempTyped
  <2> QED
    BY <1>1, <2>1, <2>2, <2>3, StillOwn DEF Own
<1>6. p \notin DueOwn /\ DueOwn' = DueOwn
  <2>1. \A d \in tails \cup {cmd} : d.part # p /\ d.file # p
    BY <1>1, <1>2 DEF Due
  <2> QED
    BY <1>1, <2>1 DEF DueOwn
<1>7. \A k \in Jobs : \A q \in Own(k)' : NotUsers(q)'
  BY <1>4, <1>5 DEF Clean, NotUsers
<1>8. \A q \in DueOwn' : NotUsers(q)'
  BY <1>4, <1>6 DEF Clean, NotUsers
<1>9. NoPath \notin DOMAIN files'
  BY <1>2, <1>3 DEF Clean
<1>10. Spares
  BY <1>1, <1>3 DEF Spares, Exists
<1> QED
  BY <1>7, <1>8, <1>9, <1>10 DEF Clean

\* No step puts the user's bytes where they could be lost, and none loses them.
LEMMA CleanStep ==
  ASSUME Typed, JobsOk, Clean, Next
  PROVE  Clean' /\ Spares
<1>1. CASE \E p \in sc.wanted : Saves(p)
  BY <1>1, CleanSaves
<1>2. CASE CmdDelete \/ TailDelete
  BY <1>2, CleanDeletes DEF Effect
<1>3. ASSUME NEW j \in Jobs, Add(j) \/ Pause(j) \/ Resume(j) \/ Cancel(j) \/ Restart(j) \/ Remove(j)
      PROVE  Clean' /\ Spares
  BY <1>3, CleanAdd, CleanCommands DEF Effect
<1>4. ASSUME NEW j \in Jobs, Worker(j)
      PROVE  Clean' /\ Spares
  BY <1>4, CleanStart, CleanAdoptCheck, CleanAdoptMove, CleanCommitName, CleanOpen, CleanPickName, CleanMove,
     CleanCommitFinal, CleanLastLook, CleanEnds, CleanFinalize DEF Worker, Effect
<1> QED
  BY <1>1, <1>2, <1>3, <1>4 DEF Next, Commands

-----------------------------------------------------------------------------
(* What is still to be deleted.                                            *)

\* A job that writes, or has its file, has no delete of its own to come ...
OwnDue(j, d) ==
  d.job = j => /\ Active(j) \/ rows[j].st \in {"none", "done"} => Due(d) = {}
               /\ j \in Present => Due(d) \subseteq {rows[j].target, rows[j].temp}
\* ... and one of another job's only of the file that the one replaces for the other.
Minds(j) == Active(j) \/ rows[j].st = "done"
TailDue(j, d) ==
  d.job # j /\ Minds(j) => \A p \in Due(d) \cap Goals(j) : p = d.file /\ Over(d.job, p)
CmdDue(j, d) ==
  d.job # j /\ Minds(j) => \A p \in Due(d) \cap Goals(j) : p = d.file /\ (Over(j, p) \/ Over(d.job, p))

DueOk(j) == (\A d \in tails : OwnDue(j, d) /\ TailDue(j, d)) /\ OwnDue(j, cmd) /\ CmdDue(j, cmd)
Dues     == \A j \in Jobs \ crossed : DueOk(j)

LEMMA DueStill ==
  ASSUME Typed, JobsOk, NEW k \in Jobs, Still(k), NEW d \in DueRecs,
         \A i \in Jobs : \A p : Over(i, p) => Over(i, p)'
  PROVE  /\ OwnDue(k, d) => OwnDue(k, d)'
         /\ TailDue(k, d) => TailDue(k, d)'
         /\ CmdDue(k, d) => CmdDue(k, d)'
<1>1. /\ rows'[k] = rows[k] /\ (Active(k)' <=> Active(k)) /\ ((k \in Present)' <=> k \in Present)
      /\ Goals(k)' = Goals(k) /\ (Minds(k)' <=> Minds(k)) /\ d.job \in Jobs
  BY StillOk DEF Still, Same, Active, Present, Minds, DueRecs
<1>2. OwnDue(k, d) => OwnDue(k, d)'
  BY <1>1 DEF OwnDue
<1>3. TailDue(k, d) => TailDue(k, d)'
  BY <1>1 DEF TailDue
<1>4. CmdDue(k, d) => CmdDue(k, d)'
  BY <1>1 DEF CmdDue
<1> QED
  BY <1>2, <1>3, <1>4

\* A step of a job's, for another one.
LEMMA DueOthers ==
  ASSUME Typed, JobsOk, Dues, NEW k \in Jobs, k \notin crossed, Still(k),
         \A i \in Jobs : \A p : Over(i, p) => Over(i, p)',
         \A d \in tails' : d \in tails \/ (d \in DueRecs /\ OwnDue(k, d) /\ TailDue(k, d)),
         NEW c \in DueRecs, cmd' = c, c = cmd \/ (OwnDue(k, c) /\ CmdDue(k, c))
  PROVE  DueOk(k)'
<1>1. DueOk(k) /\ tails \subseteq DueRecs
  BY DEF Dues, Typed
<1>2. \A d \in tails' : d \in DueRecs /\ OwnDue(k, d) /\ TailDue(k, d)
  BY <1>1 DEF DueOk
<1>3. \A d \in tails' : OwnDue(k, d)' /\ TailDue(k, d)'
  BY <1>2, DueStill
<1>4. OwnDue(k, c) /\ CmdDue(k, c)
  BY <1>1 DEF DueOk
<1>5. OwnDue(k, c)' /\ CmdDue(k, c)'
  BY <1>4, DueStill
<1>6. OwnDue(k, cmd)' /\ CmdDue(k, cmd)'
  BY <1>5 DEF OwnDue, CmdDue, Due
<1> QED
  BY <1>3, <1>6 DEF DueOk

LEMMA OverKept ==
  ASSUME NEW j \in Jobs, Others(j), rows[j].replace => rows'[j].replace /\ rows'[j].target = rows[j].target
  PROVE  \A i \in Jobs : \A p : Over(i, p) => Over(i, p)'
<1>1. \A i \in Jobs \ {j} : rows'[i] = rows[i]
  BY DEF Others, Still
<1> QED
  BY <1>1 DEF Over

\* A worker's step, which may bring it to new paths.
LEMMA DuesComes ==
  ASSUME Typed, JobsOk, Dues, NEW j \in Jobs, Others(j), Active(j), NEW N, Comes(j, N), UNCHANGED <<tails, cmd>>
  PROVE  Dues'
<1>1. \A i \in Jobs : \A p : Over(i, p) => Over(i, p)'
  BY OverKept DEF Comes
<1>2. cmd \in DueRecs /\ tails \subseteq DueRecs
  BY DEF Typed
<1>3. ASSUME NEW k \in Jobs, k \notin crossed', k # j
      PROVE  DueOk(k)'
  BY <1>1, <1>2, <1>3, DueOthers DEF Others, Comes
<1>4. ASSUME j \notin crossed'
      PROVE  DueOk(j)'
  <2>1. DueOk(j)
    BY <1>4 DEF Dues, Comes
  <2>2. ASSUME NEW d \in tails \cup {cmd}
        PROVE  /\ OwnDue(j, d)' /\ (d.job # j => Due(d) \cap N = {})
               /\ TailDue(j, d) => TailDue(j, d)'
               /\ CmdDue(j, d) => CmdDue(j, d)'
    <3>1. OwnDue(j, d) /\ d.job \in Jobs
      BY <1>2, <2>1, <2>2 DEF DueOk, DueRecs
    <3>2. OwnDue(j, d)'
      BY <3>1 DEF OwnDue
    <3>3. d.job # j => Due(d) \cap N = {}
      <4>1. Due(d) \subseteq Claims(d.job)
        BY <2>2 DEF Claims, Seen
      <4>2. d.job # j => Claims(d.job) \cap N = {}
        BY <1>4, <3>1 DEF Comes
      <4> QED
        BY <4>1, <4>2
    <3>4. Goals(j)' \subseteq Goals(j) \cup N /\ Minds(j)
      BY DEF Comes, Minds
    <3>5. TailDue(j, d) => TailDue(j, d)'
      BY <1>1, <3>1, <3>3, <3>4 DEF TailDue
    <3>6. CmdDue(j, d) => CmdDue(j, d)'
      BY <1>1, <3>1, <3>3, <3>4 DEF CmdDue
    <3> QED
      BY <3>2, <3>3, <3>5, <3>6
  <2>3. \A d \in tails : OwnDue(j, d)' /\ TailDue(j, d)'
    BY <2>1, <2>2 DEF DueOk
  <2>4. OwnDue(j, cmd)' /\ CmdDue(j, cmd)'
    <3>1. PICK c \in DueRecs : c = cmd
      BY <1>2
    <3>2. OwnDue(j, c)' /\ CmdDue(j, c)'
      BY <2>1, <2>2, <3>1 DEF DueOk
    <3> QED
      BY <3>1, <3>2 DEF OwnDue, CmdDue, Due
  <2> QED
    BY <2>3, <2>4 DEF DueOk
<1> QED
  BY <1>3, <1>4 DEF Dues

\* What a job leaves to be deleted is where another one has nothing, but for the file that it
\* replaces, or of which it is the row that is removed.
LEMMA DueMeets ==
  ASSUME Apart, NEW j \in Jobs, NEW k \in Jobs \ crossed, k # j, NEW d \in DueRecs, d.job = j,
         d.part \in {NoPath} \cup Olds(j), d.file \in {NoPath} \cup Goals(j)
  PROVE  OwnDue(k, d) /\ CmdDue(k, d) /\ (rows[j].st # "done" => TailDue(k, d))
<1>1. /\ Goals(k) \cap Olds(j) = {}
      /\ \A p \in Goals(k) \cap Goals(j) : (Over(k, p) /\ rows[j].st = "done") \/ Over(j, p)
  BY DEF Apart, ApartFrom
<1>2. ASSUME NEW p \in Due(d) \cap Goals(k)
      PROVE  p = d.file /\ ((Over(k, p) /\ rows[j].st = "done") \/ Over(j, p))
  BY <1>1, <1>2 DEF Due
<1> QED
  BY <1>2 DEF OwnDue, CmdDue, TailDue

LEMMA DuesCommand ==
  ASSUME Typed, Typed', JobsOk, Apart, Dues, NEW j \in Jobs,
         Pause(j) \/ Resume(j) \/ Cancel(j) \/ Restart(j) \/ Remove(j)
  PROVE  Dues'
<1>1. /\ Others(j) /\ UNCHANGED <<files, tails, crossed>> /\ j \in Present
      /\ rows'[j].temp = rows[j].temp /\ rows'[j].target = rows[j].target /\ rows'[j].replace = rows[j].replace
      /\ rows'[j].st \notin {"none", "done"}
  BY CommandHas
<1>2. \/ cmd' = cmd
      \/ ~Active(j) /\ cmd'.job = j /\ cmd'.part \in {NoPath, rows[j].temp} /\ cmd'.file \in {NoPath, rows[j].target}
  BY CommandHas
<1>3. \A i \in Jobs : \A p : Over(i, p) => Over(i, p)'
  BY <1>1, OverKept
<1>4. Active(j)' <=> Active(j)
  <2>1. PICK s \in {"no", "pause", "cancel"} : Told(j, s)
    BY CommandHas
  <2> QED
    BY <2>1, ToldHas DEF Same, Active
<1>5. PICK c \in DueRecs : c = cmd'
  BY DEF Typed
<1>6. c = cmd \/ (~Active(j) /\ c.job = j /\ c.part \in {NoPath} \cup Olds(j) /\ c.file \in {NoPath} \cup Goals(j)
                  /\ Due(c) \subseteq {rows[j].target, rows[j].temp})
  BY <1>1, <1>2, <1>5 DEF Olds, Goals, Due
<1>7. ASSUME NEW k \in Jobs, k \notin crossed', k # j
      PROVE  DueOk(k)'
  <2>1. c = cmd \/ (OwnDue(k, c) /\ CmdDue(k, c))
    BY <1>1, <1>6, <1>7, DueMeets
  <2> QED
    BY <1>1, <1>3, <1>5, <1>7, <2>1, DueOthers DEF Others
<1>8. ASSUME j \notin crossed'
      PROVE  DueOk(j)'
  <2>1. DueOk(j)
    BY <1>1, <1>8 DEF Dues
  <2>2. (j \in Present)' => j \in Present
    BY <1>1
  <2>3. ASSUME NEW d \in DueRecs, OwnDue(j, d) \/ d = c
        PROVE  OwnDue(j, d)'
    <3>1. CASE OwnDue(j, d)
      BY <1>1, <1>4, <3>1 DEF OwnDue
    <3>2. CASE d = c /\ d # cmd
      BY <1>1, <1>4, <1>6, <3>2 DEF OwnDue
    <3>3. CASE d = cmd
      BY <2>1, <3>1, <3>3 DEF DueOk
    <3> QED
      BY <2>3, <3>1, <3>2, <3>3
  <2>4. Goals(j)' \subseteq Goals(j) /\ (Minds(j)' => Active(j))
    <3>1. PICK s \in {"no", "pause", "cancel"} : Told(j, s)
      BY CommandHas
    <3>2. Same(w'[j], w[j])
      BY <3>1, ToldHas
    <3> QED
      BY <1>1, <1>4, <2>2, <3>2 DEF Goals, Minds, Same
  <2>5. \A d \in tails' : OwnDue(j, d)' /\ TailDue(j, d)'
    <3>1. ASSUME NEW d \in tails
          PROVE  OwnDue(j, d)' /\ TailDue(j, d)'
      <4>1. OwnDue(j, d) /\ TailDue(j, d) /\ d \in DueRecs /\ d.job \in Jobs
        BY <2>1, <3>1 DEF DueOk, Typed, DueRecs
      <4>2. OwnDue(j, d)'
        BY <2>3, <4>1
      <4>3. TailDue(j, d)'
        BY <1>3, <2>4, <4>1 DEF TailDue, Minds
      <4> QED
        BY <4>2, <4>3
    <3> QED
      BY <1>1, <3>1
  <2>6. OwnDue(j, c)' /\ CmdDue(j, c)'
    <3>1. OwnDue(j, c)'
      BY <2>3
    <3>2. CASE c = cmd
      <4>1. CmdDue(j, c) /\ c.job \in Jobs
        BY <2>1, <3>2 DEF DueOk, DueRecs
      <4> QED
        BY <1>3, <2>4, <3>1, <4>1 DEF CmdDue, Minds
    <3>3. CASE c # cmd
      <4>1. c.job = j
        BY <1>6, <3>3
      <4> QED
        BY <3>1, <4>1 DEF CmdDue
    <3> QED
      BY <3>2, <3>3
  <2>7. OwnDue(j, cmd)' /\ CmdDue(j, cmd)'
    BY <1>5, <2>6 DEF OwnDue, CmdDue, Due
  <2> QED
    BY <2>5, <2>7 DEF DueOk
<1> QED
  BY <1>7, <1>8 DEF Dues

LEMMA DuesStart ==
  ASSUME Typed, Typed', JobsOk, Dues, NEW j \in Jobs, Start(j)
  PROVE  Dues'
<1>1. Others(j) /\ UNCHANGED <<tails, cmd>> /\ j \in Present /\ crossed \subseteq crossed'
  BY StartStep DEF Moved, Start, unchanged
<1>2. rows'[j].st = "running" /\ rows'[j].target = rows[j].target /\ rows'[j].temp = rows[j].temp /\ rows'[j].replace = rows[j].replace
  <2>1. rows'[j] = [rows[j] EXCEPT !.st = "running"] /\ rows[j] \in RowRecs
    BY RowTyped DEF Start, Typed
  <2> QED
    BY <2>1 DEF RowRecs
<1>3. w'[j].stage = "answered" /\ w'[j].target = rows[j].target /\ w'[j].made = NoPath
  <2>1. w'[j] = [NoWork EXCEPT !.stage = "answered", !.target = rows[j].target,
                              !.temp = rows[j].temp, !.occ = Paths(Present \ {j}),
                              !.resume = Exists(rows[j].temp)]
    BY DEF Start, Typed
  <2> QED
    BY <2>1 DEF NoWork
<1>4. j \notin crossed' => \A d \in tails \cup {cmd} : Due(d) \cap {rows[j].target, rows[j].temp} = {}
  BY DEF Start
<1>5. \A i \in Jobs : \A p : Over(i, p) => Over(i, p)'
  BY <1>1, <1>2, OverKept
<1>6. cmd \in DueRecs /\ tails \subseteq DueRecs
  BY DEF Typed
<1>7. ASSUME NEW k \in Jobs, k \notin crossed', k # j
      PROVE  DueOk(k)'
  BY <1>1, <1>5, <1>6, <1>7, DueOthers DEF Others
<1>8. ASSUME j \notin crossed'
      PROVE  DueOk(j)'
  <2>1. DueOk(j)
    BY <1>1, <1>8 DEF Dues
  <2>2. Goals(j)' = {rows[j].target}
    BY <1>2, <1>3 DEF Goals, Present
  <2>3. ASSUME NEW d \in DueRecs, d \in tails \cup {cmd}
        PROVE  OwnDue(j, d)' /\ TailDue(j, d)' /\ CmdDue(j, d)'
    <3>1. OwnDue(j, d) /\ Due(d) \cap {rows[j].target, rows[j].temp} = {}
      BY <1>4, <1>8, <2>1, <2>3 DEF DueOk
    <3>2. OwnDue(j, d)'
      BY <1>1, <3>1 DEF OwnDue
    <3>3. Due(d) \cap Goals(j)' = {}
      BY <2>2, <3>1
    <3> QED
      BY <3>2, <3>3 DEF TailDue, CmdDue
  <2>4. \A d \in tails' : OwnDue(j, d)' /\ TailDue(j, d)'
    BY <1>1, <1>6, <2>3
  <2>5. PICK c \in DueRecs : c = cmd
    BY <1>6
  <2>6. OwnDue(j, c)' /\ CmdDue(j, c)'
    BY <2>3, <2>5
  <2>7. OwnDue(j, cmd)' /\ CmdDue(j, cmd)'
    BY <1>1, <2>5, <2>6 DEF OwnDue, CmdDue, Due
  <2> QED
    BY <2>4, <2>7 DEF DueOk
<1> QED
  BY <1>7, <1>8 DEF Dues

LEMMA DuesFinalize ==
  ASSUME Typed, JobsOk, Apart, Dues, NEW j \in Jobs, Finalize(j)
  PROVE  Dues'
<1>1. Others(j) /\ Quiet(j) /\ JobOk(j) /\ RowOk(j) /\ WorkOk(j)
  BY FinalizeStep DEF Moved, JobsOk, JobOk
<1>2. /\ Active(j) /\ w'[j].stage = "none" /\ UNCHANGED <<cmd, crossed>>
      /\ rows'[j].temp = rows[j].temp /\ rows'[j].target = rows[j].target /\ rows'[j].replace = rows[j].replace
      /\ rows'[j].st # "none" /\ (rows'[j].st # "gone" => j \in Present)
  BY FinalizeHas
<1>3. PICK d \in DueRecs : /\ tails' = tails \cup {d} /\ d.job = j /\ d.part = part[j]
                           /\ d.file \in {NoPath, w[j].made}
                           /\ j \in Present => d.file \in {NoPath, rows[j].target}
                           /\ rows'[j].st = "done" => d.part = NoPath /\ d.file = NoPath
  BY FinalizeHas
<1>4. \A i \in Jobs : \A p : Over(i, p) => Over(i, p)'
  BY <1>1, <1>2, OverKept
<1>5. cmd \in DueRecs /\ tails \subseteq DueRecs
  BY DEF Typed
<1>6. d.part \in {NoPath} \cup Olds(j) /\ d.file \in {NoPath} \cup Goals(j) /\ rows[j].st # "done"
  BY <1>1, <1>2, <1>3 DEF Olds, Goals, WorkOk
<1>7. ASSUME NEW k \in Jobs, k \notin crossed', k # j
      PROVE  DueOk(k)'
  <2>1. OwnDue(k, d) /\ TailDue(k, d)
    BY <1>2, <1>3, <1>6, <1>7, DueMeets
  <2> QED
    BY <1>1, <1>2, <1>3, <1>4, <1>5, <1>7, <2>1, DueOthers DEF Others
<1>8. ASSUME j \notin crossed'
      PROVE  DueOk(j)'
  <2>1. DueOk(j)
    BY <1>2, <1>8 DEF Dues
  <2>2. Goals(j)' \subseteq Goals(j) /\ ~Active(j)' /\ Minds(j)
    BY <1>1, <1>2 DEF Quiet, Active, Minds
  <2>3. ASSUME NEW e \in DueRecs, OwnDue(j, e)
        PROVE  /\ OwnDue(j, e)' /\ (TailDue(j, e) => TailDue(j, e)') /\ (CmdDue(j, e) => CmdDue(j, e)')
    <3>1. e.job = j => Due(e) = {}
      BY <1>2, <2>3 DEF OwnDue
    <3>2. OwnDue(j, e)'
      BY <3>1 DEF OwnDue
    <3>3. e.job \in Jobs
      BY DEF DueRecs
    <3>4. TailDue(j, e) => TailDue(j, e)'
      BY <1>4, <2>2, <3>3 DEF TailDue
    <3>5. CmdDue(j, e) => CmdDue(j, e)'
      BY <1>4, <2>2, <3>3 DEF CmdDue
    <3> QED
      BY <3>2, <3>4, <3>5
  <2>4. OwnDue(j, d)' /\ TailDue(j, d)'
    <3>1. rows'[j].st = "done" => Due(d) = {}
      BY <1>3 DEF Due
    <3>2. j \in Present => Due(d) \subseteq {rows'[j].target, rows'[j].temp}
      BY <1>1, <1>2, <1>3 DEF Due, RowOk
    <3>3. (j \in Present)' => j \in Present
      BY <1>2 DEF Present
    <3>4. OwnDue(j, d)'
      BY <1>2, <2>2, <3>1, <3>2, <3>3 DEF OwnDue
    <3> QED
      BY <1>3, <3>4 DEF TailDue
  <2>5. \A e \in tails' : OwnDue(j, e)' /\ TailDue(j, e)'
    BY <1>3, <1>5, <2>1, <2>3, <2>4 DEF DueOk
  <2>6. PICK c \in DueRecs : c = cmd
    BY <1>5
  <2>7. OwnDue(j, c)' /\ CmdDue(j, c)'
    BY <2>1, <2>3, <2>6 DEF DueOk
  <2>8. OwnDue(j, cmd)' /\ CmdDue(j, cmd)'
    BY <1>2, <2>6, <2>7 DEF OwnDue, CmdDue, Due
  <2> QED
    BY <2>5, <2>8 DEF DueOk
<1> QED
  BY <1>7, <1>8 DEF Dues

LEMMA DuesAdd ==
  ASSUME Typed, JobsOk, Dues, NEW j \in Jobs, Add(j)
  PROVE  Dues'
<1>1. PICK t \in PathRecs, replace \in BOOLEAN : Added(j, t, replace)
  BY AddStep
<1>2. /\ Others(j) /\ UNCHANGED <<tails, cmd>> /\ rows[j].st = "none" /\ rows'[j].st = "queued"
      /\ ~Active(j)' /\ crossed \subseteq crossed'
  BY <1>1 DEF Added
<1>3. \A i \in Jobs : \A p : Over(i, p) => Over(i, p)'
  BY <1>2, OverKept DEF JobsOk, JobOk, RowOk
<1>4. cmd \in DueRecs /\ tails \subseteq DueRecs
  BY DEF Typed
<1>5. ASSUME NEW k \in Jobs, k \notin crossed', k # j
      PROVE  DueOk(k)'
  BY <1>2, <1>3, <1>4, <1>5, DueOthers DEF Others
<1>6. ASSUME j \notin crossed'
      PROVE  DueOk(j)'
  <2>1. ASSUME NEW d \in DueRecs, d \in tails \cup {cmd}
        PROVE  OwnDue(j, d)' /\ TailDue(j, d)' /\ CmdDue(j, d)'
    <3>1. OwnDue(j, d)
      BY <1>2, <1>6, <2>1 DEF Dues, DueOk
    <3>2. d.job = j => Due(d) = {}
      BY <1>2, <3>1 DEF OwnDue
    <3>3. OwnDue(j, d)'
      BY <3>2 DEF OwnDue
    <3>4. ~Minds(j)'
      BY <1>2 DEF Minds
    <3> QED
      BY <3>3, <3>4 DEF TailDue, CmdDue
  <2>2. \A d \in tails' : OwnDue(j, d)' /\ TailDue(j, d)'
    BY <1>2, <1>4, <2>1
  <2>3. PICK c \in DueRecs : c = cmd
    BY <1>4
  <2>4. OwnDue(j, c)' /\ CmdDue(j, c)'
    BY <2>1, <2>3
  <2>5. OwnDue(j, cmd)' /\ CmdDue(j, cmd)'
    BY <1>2, <2>3, <2>4 DEF OwnDue, CmdDue, Due
  <2> QED
    BY <2>2, <2>5 DEF DueOk
<1> QED
  BY <1>5, <1>6 DEF Dues

LEMMA DuesStill ==
  ASSUME Typed, JobsOk, Dues, \A k \in Jobs : Still(k), crossed' = crossed, tails' \subseteq tails,
         cmd' = cmd \/ cmd' = NoCmd
  PROVE  Dues'
<1> SUFFICES ASSUME NEW k \in Jobs, k \notin crossed PROVE DueOk(k)'
  BY DEF Dues
<1>1. \A i \in Jobs : \A p : Over(i, p) => Over(i, p)'
  BY DEF Still, Over
<1>2. PICK c \in DueRecs : c = cmd'
  BY NoneTyped DEF Typed
<1>3. c = cmd \/ (OwnDue(k, c) /\ CmdDue(k, c))
  <2>1. CASE c = NoCmd
    <3>1. Due(c) = {}
      BY <2>1, NoneTyped DEF Due
    <3> QED
      BY <3>1 DEF OwnDue, CmdDue
  <2> QED
    BY <1>2, <2>1
<1> QED
  BY <1>1, <1>2, <1>3, DueOthers

LEMMA DuesStep ==
  ASSUME Typed, Typed', JobsOk, Apart, Dues, Next
  PROVE  Dues'
<1>1. CASE \E p \in sc.wanted : Saves(p)
  BY <1>1, SavesStep, DuesStill DEF Saves
<1>2. CASE CmdDelete
  BY <1>2, CmdDeleteStep, DuesStill DEF CmdDelete
<1>3. CASE TailDelete
  BY <1>3, TailDeleteStep, DuesStill
<1>4. ASSUME NEW j \in Jobs, Add(j) \/ Pause(j) \/ Resume(j) \/ Cancel(j) \/ Restart(j) \/ Remove(j)
      PROVE  Dues'
  BY <1>4, DuesAdd, DuesCommand
<1>5. ASSUME NEW j \in Jobs, Moved(j), Quiet(j), Active(j), crossed \subseteq crossed', UNCHANGED <<tails, cmd>>
      PROVE  Dues'
  BY <1>5, QuietComes, DuesComes DEF Moved
<1>6. ASSUME NEW j \in Jobs, Worker(j)
      PROVE  Dues'
  <2>1. CASE Start(j)
    BY <2>1, DuesStart
  <2>2. CASE AdoptCheck(j)
    BY <1>5, <2>2, AdoptCheckStep DEF AdoptCheck, unchanged, Active
  <2>3. CASE AdoptMove(j)
    BY <1>5, <2>3, AdoptMoveStep, DuesComes DEF Adopts, Active, Moved
  <2>4. CASE CommitName(j)
    BY <1>5, <2>4, CommitNameStep DEF CommitName, unchanged, Active
  <2>5. CASE Open(j)
    BY <1>5, <2>5, OpenStep DEF Open, unchanged, Active
  <2>6. CASE PickName(j)
    BY <1>5, <2>6, PickNameStep DEF PickName, unchanged, Active
  <2>7. CASE Move(j)
    BY <1>5, <2>7, MoveStep, DuesComes DEF Renames, Active, Moved
  <2>8. CASE CommitFinal(j)
    BY <1>5, <2>8, CommitFinalStep DEF CommitFinal, unchanged, Active
  <2>9. CASE LastLook(j)
    BY <1>5, <2>9, LastLookStep DEF LastLook, unchanged, Active
  <2>10. CASE Ends(j)
    BY <1>5, <2>10, EndsStep DEF Ends, unchanged, Active
  <2>11. CASE Finalize(j)
    BY <2>11, DuesFinalize
  <2> QED
    BY <1>6, <2>1, <2>2, <2>3, <2>4, <2>5, <2>6, <2>7, <2>8, <2>9, <2>10, <2>11 DEF Worker
<1> QED
  BY <1>1, <1>2, <1>3, <1>4, <1>6 DEF Next, Commands

-----------------------------------------------------------------------------
(* The files of completed downloads.                                       *)

\* What FinishedKept says of a completed job, whose file is at p.
Stays(j, p) ==
  \/ p \in DOMAIN files' /\ files'[p] = {j}
  \/ \E k \in Jobs \ {j} : rows[k].replace /\ rows[k].target = p
  \/ rows[j].replace /\ p = cmd.file

LEMMA FinishedStep ==
  ASSUME Typed, JobsOk, Apart, Clean, Dues, Next, NEW j \in Jobs, j \notin crossed', rows[j].st = "done",
         NEW p, p = rows[j].target, p \in DOMAIN files, files[p] = {j}
  PROVE  Stays(j, p)
<1>1. ~Active(j) /\ j \in Present /\ p \in Goals(j) /\ Minds(j) /\ p # NoPath
  BY DEF JobsOk, JobOk, WorkOk, Present, Goals, Minds, Clean
\* The paths of a worker are not those of the file, but that it may replace it.
<1>2. ASSUME NEW i \in Jobs, i # j, Active(i), j \notin crossed
      PROVE  /\ w[i].temp # p
             /\ p \in {w[i].target, w[i].made} => Stays(j, p)
  <2>1. Goals(j) \cap Olds(i) = {} /\ w[i].temp \in Olds(i)
    BY <1>2 DEF Apart, ApartFrom, Olds
  <2>2. rows[i].st # "done"
    BY <1>2 DEF JobsOk, JobOk, WorkOk
  <2>3. p \in {w[i].target, w[i].made} => p \in Goals(i)
    BY <1>1, <1>2 DEF Goals
  <2>4. p \in Goals(i) => Over(i, p)
    BY <1>1, <1>2, <2>2 DEF Apart, ApartFrom
  <2> QED
    BY <1>1, <1>2, <2>1, <2>3, <2>4 DEF Stays, Over
<1> DEFINE Kept == p \in DOMAIN files' /\ files'[p] = files[p]
<1>0. Kept => Stays(j, p)
  BY DEF Stays
<1>3. ASSUME NEW i \in Jobs, Leaves(i)
      PROVE  Stays(j, p)
  BY <1>0, <1>3 DEF Leaves
<1>4. ASSUME NEW i \in Jobs, Opens(i)
      PROVE  Stays(j, p)
  <2>1. i # j /\ Active(i) /\ j \notin crossed
    BY <1>1, <1>4 DEF Opens, Open, Active
  <2>2. PICK by : files' = With(w[i].temp, by)
    BY <1>4 DEF Opens, Open
  <2>3. w[i].temp # p
    BY <1>2, <2>1
  <2>5. DOMAIN files' = DOMAIN files \cup {w[i].temp} /\ \A q \in DOMAIN files \ {w[i].temp} : files'[q] = files[q]
    BY <2>2, WithHas
  <2>4. Kept
    BY <2>3, <2>5
  <2> QED
    BY <1>0, <2>4
<1>5. ASSUME NEW i \in Jobs, Discards(i)
      PROVE  Stays(j, p)
  <2>1. i # j /\ Active(i) /\ j \notin crossed /\ files' = Without(w[i].made)
    BY <1>1, <1>5 DEF Discards, Active
  <2>2. CASE w[i].made = p
    BY <1>2, <2>1, <2>2
  <2>3. CASE w[i].made # p
    <3>1. DOMAIN files' = DOMAIN files \ {w[i].made} /\ \A q \in DOMAIN files \ {w[i].made} : files'[q] = files[q]
      BY <2>1, WithoutHas
    <3>2. Kept
      BY <2>3, <3>1
    <3> QED
      BY <1>0, <3>2
  <2> QED
    BY <2>2, <2>3
<1>6. ASSUME NEW i \in Jobs, Comings(i)
      PROVE  Stays(j, p)
  <2>1. i # j /\ Active(i)
    BY <1>1, <1>6 DEF Comings
  <2>2. p \in Claims(j)
    BY <1>1, InClaims
  <2>3. CASE Adopts(i)
    <3>1. j \notin crossed /\ p # Temp(w[i].new)
      BY <2>1, <2>2, <2>3 DEF Adopts, Comes
    <3>2. w[i].temp # p
      BY <1>2, <2>1, <3>1
    <3>3. CASE files' = files
      BY <1>0, <3>3
    <3>4. CASE w[i].temp \in DOMAIN files /\ files' = Renamed(w[i].temp, Temp(w[i].new))
      <4>1. /\ DOMAIN files' = (DOMAIN files \ {w[i].temp}) \cup {Temp(w[i].new)}
            /\ \A r \in DOMAIN files \ {w[i].temp, Temp(w[i].new)} : files'[r] = files[r]
        BY <3>4, RenamedHas
      <4>2. Kept
        BY <3>1, <3>2, <4>1
      <4> QED
        BY <1>0, <4>2
    <3> QED
      BY <2>3, <3>3, <3>4 DEF Adopts, Exists
  <2>4. CASE Renames(i)
    <3>1. j \notin crossed /\ (w[i].new # w[i].target => p # w[i].new)
      BY <2>1, <2>2, <2>4 DEF Renames, Comes
    <3>2. w[i].temp # p /\ (w[i].target = p => Stays(j, p))
      BY <1>2, <2>1, <3>1
    <3>3. CASE p = w[i].new
      BY <3>1, <3>2, <3>3
    <3>4. CASE p # w[i].new
      <4>1. w[i].temp \in DOMAIN files /\ files' = Renamed(w[i].temp, w[i].new)
        BY <2>4 DEF Renames, Exists
      <4>3. /\ DOMAIN files' = (DOMAIN files \ {w[i].temp}) \cup {w[i].new}
            /\ \A r \in DOMAIN files \ {w[i].temp, w[i].new} : files'[r] = files[r]
        BY <4>1 DEF Renamed
      <4>2. Kept
        BY <3>2, <3>4, <4>3
      <4> QED
        BY <1>0, <4>2
    <3> QED
      BY <3>3, <3>4
  <2> QED
    BY <1>6, <2>3, <2>4 DEF Comings
<1>7. ASSUME NEW i \in Jobs, NEW t \in PathRecs, NEW replace \in BOOLEAN, Added(i, t, replace)
      PROVE  Stays(j, p)
  <2>1. i # j
    BY <1>7 DEF Added
  <2>2. Temp(t) # p
    BY <1>1, <1>7, <2>1, AddedMeets
  <2>3. CASE replace
    <3>1. files' = Without(Temp(t))
      BY <1>7, <2>3 DEF Added
    <3>3. DOMAIN files' = DOMAIN files \ {Temp(t)} /\ \A q \in DOMAIN files \ {Temp(t)} : files'[q] = files[q]
      BY <3>1, WithoutHas
    <3>2. Kept
      BY <2>2, <3>3
    <3> QED
      BY <1>0, <3>2
  <2>4. CASE ~replace
    BY <1>0, <1>7, <2>4 DEF Added
  <2> QED
    BY <2>3, <2>4
<1>8. CASE Erases
  <2>1. DueOk(j)
    BY <1>8 DEF Erases, Dues
  <2>2. PICK d \in tails \cup {cmd} : Deletes(d)
    BY <1>8 DEF Erases
  <2>3. CASE p \notin {d.part, d.file}
    BY <1>0, <2>2, <2>3 DEF Deletes
  <2>4. CASE p \in {d.part, d.file}
    <3>1. p \in Due(d) \cap Goals(j)
      BY <1>1, <2>4 DEF Due
    <3>2. d.job # j
      BY <2>1, <3>1 DEF DueOk, OwnDue
    <3>3. CASE d \in tails
      <4>1. Over(d.job, p) /\ d.job \in Jobs
        BY <1>1, <2>1, <3>1, <3>2, <3>3 DEF DueOk, TailDue, Typed, DueRecs
      <4> QED
        BY <3>2, <4>1 DEF Over, Stays
    <3>4. CASE d = cmd
      <4>1. p = cmd.file /\ (Over(j, p) \/ Over(cmd.job, p)) /\ cmd.job \in Jobs
        BY <1>1, <2>1, <3>1, <3>2, <3>4 DEF DueOk, CmdDue, Typed, DueRecs
      <4> QED
        BY <3>2, <3>4, <4>1 DEF Over, Stays
    <3> QED
      BY <3>3, <3>4
  <2> QED
    BY <2>3, <2>4
<1>9. CASE Puts
  <2>1. PICK q \in sc.wanted : ~Exists(q) /\ files' = With(q, {0})
    BY <1>9 DEF Puts
  <2>2. Kept
    <3>1. q \notin DOMAIN files /\ \A r \in DOMAIN files \ {q} : files'[r] = files[r]
      BY <2>1, WithHas DEF Exists
    <3>2. DOMAIN files' = DOMAIN files \cup {q}
      BY <2>1, WithHas
    <3> QED
      BY <3>1, <3>2
  <2> QED
    BY <1>0, <2>2
<1> QED
  BY <1>3, <1>4, <1>5, <1>6, <1>7, <1>8, <1>9, NextKinds

-----------------------------------------------------------------------------
(* The invariant.                                                          *)

NamesInv == Typed /\ JobsOk /\ Apart /\ Owned /\ Clean /\ Dues

LEMMA InitInv ==
  ASSUME Init
  PROVE  NamesInv
<1>1. /\ sc \in Scenarios /\ rows = [j \in Jobs |-> NoRow] /\ w = [j \in Jobs |-> NoWork]
      /\ part = [j \in Jobs |-> NoPath] /\ final = {} /\ requeue = {} /\ tails = {} /\ cmd = NoCmd
      /\ crossed = {} /\ DOMAIN files = sc.files
  BY DEF Init
<1>2. Typed
  BY <1>1, NoneTyped, PathTyped DEF Typed
<1>3. ASSUME NEW j \in Jobs
      PROVE  /\ rows[j].st = "none" /\ rows[j].temp = NoPath /\ ~rows[j].replace /\ part[j] = NoPath
             /\ w[j].stage = "none" /\ ~w[j].has /\ w[j].made = NoPath
  BY <1>1 DEF NoRow, NoWork
<1>4. JobsOk
  BY <1>1, <1>3 DEF JobsOk, JobOk, RowOk, WorkOk, ReplaceOk, Active
<1>5. \A j \in Jobs : Temps(j) = {} /\ Goals(j) = {} /\ Olds(j) = {} /\ Own(j) = {NoPath}
  BY <1>3 DEF Temps, Goals, Olds, Own, Live, Present, Active
<1>6. Apart
  BY <1>5 DEF Apart, ApartFrom
<1>7. Owned
  BY <1>3, <1>5 DEF Owned, OwnedBy, HasFile
<1>8. NoPath \notin DOMAIN files
  <2>1. \A p \in sc.files : p.name \in FileNames
    BY <1>1, NamesAssumption
  <2>2. NoPath.name \notin FileNames
    BY PathTyped, NamesAssumption
  <2> QED
    BY <1>1, <2>1, <2>2
<1>9. cmd.part = NoPath /\ cmd.file = NoPath
  BY <1>1, NoneTyped
<1>10. Clean
  BY <1>1, <1>5, <1>8, <1>9 DEF Clean, NotUsers, DueOwn
<1>11. Dues
  BY <1>1, <1>9 DEF Dues, DueOk, OwnDue, CmdDue, Due
<1> QED
  BY <1>2, <1>4, <1>6, <1>7, <1>10, <1>11 DEF NamesInv

LEMMA StepInv ==
  ASSUME NamesInv, [Next]_vars
  PROVE  NamesInv'
<1>1. Typed' /\ JobsOk'
  BY JobsStep DEF NamesInv
<1>2. CASE Next
  <2>1. Typed /\ JobsOk /\ Apart /\ Owned /\ Clean /\ Dues
    BY DEF NamesInv
  <2>2. Apart' /\ Owned' /\ Clean' /\ Dues'
    BY <1>1, <1>2, <2>1, ApartStep, OwnedStep, CleanStep, DuesStep
  <2> QED
    BY <1>1, <2>2 DEF NamesInv
<1>3. CASE UNCHANGED vars
  <2>1. UNCHANGED <<sc, files, rows, part, final, requeue, w, tails, cmd, crossed, ncmd>>
    BY <1>3 DEF vars, flags
  <2>2. \A j \in Jobs : Still(j)
    BY <2>1, SameStays
  <2>3. \A j \in Jobs : Temps(j)' = Temps(j) /\ Goals(j)' = Goals(j) /\ Olds(j)' = Olds(j)
    BY <2>1 DEF Temps, Goals, Olds, Live, Present, Active
  <2>4. Apart'
    BY <2>1, <2>3 DEF NamesInv, Apart, ApartFrom, Over
  <2>5. Owned'
    BY <2>1, <2>3 DEF NamesInv, Owned, OwnedBy, HasFile
  <2>6. Clean'
    <3>1. DueOwn' = DueOwn
      BY <2>1 DEF DueOwn
    <3> QED
      BY <2>1, <2>2, <3>1, EffectNone, StillClean DEF NamesInv
  <2>7. Dues'
    BY <2>1, <2>2, DuesStill DEF NamesInv
  <2> QED
    BY <1>1, <2>4, <2>5, <2>6, <2>7 DEF NamesInv
<1> QED
  BY <1>2, <1>3

\* The invariant holds: the paths of jobs that have not met are apart, each one's .part holds its own
\* bytes, no bytes of the user's are where a job writes or deletes, and what is still to be deleted
\* belongs to no file that somebody wants.
THEOREM NamesInvHolds == Spec => []NamesInv
<1>1. Init => NamesInv
  BY InitInv
<1>2. NamesInv /\ [Next]_vars => NamesInv'
  BY StepInv
<1> QED
  BY <1>1, <1>2, PTL DEF Spec

\* A download writes into a .part of its own, whatever names the user asks for and servers send
\* (allocate_download_paths, adopt_renamed_partial, move_to_final_path).
THEOREM PartsAreOwned == Spec => []PartOwned
<1>1. NamesInv => PartOwned
  <2> SUFFICES ASSUME NamesInv, NEW j \in Jobs, w[j].has, j \notin crossed
               PROVE  Exists(w[j].temp) /\ files[w[j].temp] = {j}
    BY DEF PartOwned
  <2>1. OwnedBy(j) /\ HasFile(j) /\ WorkOk(j)
    BY DEF NamesInv, Owned, JobsOk, JobOk
  <2>2. w[j].temp \in Temps(j)
    BY <2>1 DEF WorkOk, Active, Temps
  <2>3. w[j].temp \in DOMAIN files /\ j \in files[w[j].temp]
    BY <2>1 DEF HasFile
  <2>4. files[w[j].temp] \subseteq {j}
    BY <2>1, <2>2, <2>3 DEF OwnedBy
  <2> QED
    BY <2>3, <2>4 DEF Exists
<1> QED
  BY <1>1, NamesInvHolds, PTL

\* The files that somebody wants stay: that of a completed download, until the user removes it or
\* lets another one replace it, and the user's own (the deletes of cancel, restart, remove and
\* finalize_worker; the renames of move_to_final_path and adopt_renamed_partial; Add's overwrite).
\* Not meant are a file called <name>.replaced and one that is saved between the look and the
\* rename at the end, which the module leaves out and the code loses.
THEOREM FilesStay == Spec => FilesKept
<1> DEFINE Done ==
      \A j \in Jobs : \A p \in {rows[j].target} \cap DOMAIN files :
        j \notin crossed' /\ rows[j].st = "done" /\ rows'[j].st = "done" /\ files[p] = {j}
          => \/ p \in DOMAIN files' /\ files'[p] = {j}
             \/ \E k \in Jobs \ {j} : rows[k].replace /\ rows[k].target = p
             \/ rows[j].replace /\ p = cmd.file
           Users ==
      \A p \in DOMAIN files :
        files[p] = {0} /\ ~(p \in DOMAIN files' /\ files'[p] = {0})
          => \/ \E j \in Jobs : rows'[j].replace /\ p \in {rows'[j].target, rows'[j].temp}
             \/ p = cmd.file
<1>1. NamesInv /\ [Next]_vars => [Done]_vars
  <2> SUFFICES ASSUME NamesInv, Next PROVE Done
    OBVIOUS
  <2> QED
    BY FinishedStep DEF NamesInv, Stays
<1>2. NamesInv /\ [Next]_vars => [Users]_vars
  <2> SUFFICES ASSUME NamesInv, Next PROVE Users
    OBVIOUS
  <2> QED
    BY CleanStep DEF NamesInv, Spares, Wanted
<1>3. Spec => [][Done]_vars
  BY <1>1, NamesInvHolds, PTL DEF Spec
<1>4. Spec => [][Users]_vars
  BY <1>2, NamesInvHolds, PTL DEF Spec
<1> QED
  BY <1>3, <1>4 DEF FilesKept, FinishedKept, UserKept
=============================================================================
