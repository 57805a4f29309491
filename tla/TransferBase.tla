---------------------------- MODULE TransferBase ----------------------------
(***************************************************************************)
(* What the two transfer engines share: the remote file, the .part file    *)
(* with what of it is on stable storage, the finished file, and the job's  *)
(* row.  A file is a function from positions to the entity whose byte lies *)
(* there, Hole for bytes nobody wrote, Nil beyond its end; an absent file  *)
(* and an empty one are the same.  One position is one chunk of a body.    *)
(*                                                                         *)
(* The attempt's own copy of the job and the row of the engine are one     *)
(* record: a commit changes both before it waits for the disk, and what    *)
(* happens to the row of a job that is being wiped belongs to Engine.      *)
(***************************************************************************)
EXTENDS Integers, FiniteSets

CONSTANTS
  Entities,      \* versions of the remote file, each with its own strong ETag
  NoEntity, Hole, Nil, NoMap, \* model values
  Scenarios,     \* what the server is like: see ScenariosAssumption
  Faults,        \* kinds of fault an instance lets happen
  ReconnectMax,  \* RECONNECT_MAX (12 in the code)
  RejectMax,     \* RANGE_REJECT_BEFORE_RESTART (2)
  FreshMax,      \* FRESH_RESTART_MAX (6)
  MismatchMax,   \* LENGTHLESS_MISMATCH_BEFORE_GIVEUP (1)
  MaxSegments,   \* the setting "Max segments"
  MaxAttempts, MaxChanges, MaxFaults, MaxShort, MaxRestarts \* bounds

MaxLen == CHOOSE n \in UNION {{s.size[e] : e \in Entities} : s \in Scenarios} :
            \A s \in Scenarios, e \in Entities : s.size[e] <= n
Pos     == 1..MaxLen
Content == Entities \cup {Hole, Nil}
Empty   == [p \in Pos |-> Nil]

ASSUME ScenariosAssumption ==
  \A s \in Scenarios :
    /\ s.size \in [Entities -> Nat \ {0}]
    /\ s.first \in Entities    \* what is there at first
    /\ s.ranges \in BOOLEAN     \* it answers Range with 206
    /\ s.ifRange \in BOOLEAN    \* it honours If-Range
    /\ s.advert \in BOOLEAN     \* it sends Accept-Ranges: bytes
    /\ s.head \in BOOLEAN       \* HEAD has a Content-Length
    /\ s.framing \in {"length", "chunked", "close"}
    /\ s.multi \in BOOLEAN      \* the setting, and the file has the minimal size
    /\ s.hop \in BOOLEAN        \* behind a redirect, with credentials, that answers 401 at times
    /\ s.existing \in {"none", "keep", "replace"} \* a file with the target's name; "replace" is Overwrite
ASSUME LengthsAssumption == \* one version is the longest (lengths are u64)
  MaxLen \in Nat /\ \A s \in Scenarios, e \in Entities : s.size[e] <= MaxLen
ASSUME CountersAssumption ==
  /\ ReconnectMax \in Nat \ {0} /\ MaxSegments \in Nat \ {0}
  /\ RejectMax \in Nat /\ FreshMax \in Nat /\ MismatchMax \in Nat
ASSUME FaultsAssumption ==
  Faults \subseteq {"crash", "power", "sync", "commit", "discard", "replace", "space", "restart",
                      "rename"}

VARIABLES
  sc, cur, nchange,   \* the scenario, the entity that is there now
  part, disk, final,  \* the .part as readers see it, as it is on stable storage, the finished file
  old,                \* where the file is that had the target's name: "target", "aside", "none"
  row, saved,         \* the row in memory (and in the attempt), the row in state.json
  ctl,                \* the job's control: "run", "pause", "cancel"
  stage, outcome,     \* where the attempt is, how the last one ended
  nattempt, nfault, nshort, nrestart

remote  == <<sc, cur, nchange>>
world   == <<remote, old>>
files   == <<part, disk, final>>
rows    == <<row, saved>>
bounds  == <<nattempt, nfault, nshort, nrestart>>

Least(a, b) == IF a <= b THEN a ELSE b
Length(f) == IF f = Empty THEN 0 ELSE CHOOSE p \in Pos : f[p] # Nil /\ \A q \in Pos : q > p => f[q] = Nil
\* A file with the byte of e at p: what lies before p and was beyond the end reads as zeros.
Written(f, p, e) == [q \in Pos |-> IF q = p THEN e ELSE IF q < p /\ f[q] = Nil THEN Hole ELSE f[q]]
SetLen(f, n) == [p \in Pos |-> IF p > n THEN Nil ELSE IF f[p] = Nil THEN Hole ELSE f[p]]
Size(e) == sc.size[e]

-----------------------------------------------------------------------------
\* Segments

\* partition: the first segments take the remainder.
SegCount(n) == Least(MaxSegments, n)
SegsOf(n)   == 1..SegCount(n)
SegFirst(n, s) == LET k == SegCount(n) IN (s - 1) * (n \div k) + Least(s - 1, n % k) + 1
SegLen(n, s)   == LET k == SegCount(n) IN n \div k + IF s <= n % k THEN 1 ELSE 0
FreshMap(n) == [total |-> n, written |-> [s \in SegsOf(n) |-> 0]]

Written_(m, s) == {p \in Pos : SegFirst(m.total, s) <= p /\ p < SegFirst(m.total, s) + m.written[s]}
\* The positions that a map confirms.
Confirmed(m) == IF m = NoMap THEN {} ELSE UNION {Written_(m, s) : s \in DOMAIN m.written}
WrittenSum(m) == Cardinality(Confirmed(m))
AllZero(m) == Confirmed(m) = {}
AllWritten(m) == \A s \in DOMAIN m.written : m.written[s] >= SegLen(m.total, s)

ASSUME ValuesAssumption ==
  /\ {Nil, Hole, NoEntity} \cap Entities = {} /\ Nil # Hole
  /\ \A n \in 1..MaxLen : NoMap \notin [total : {n}, written : [SegsOf(n) -> 0..MaxLen]]

-----------------------------------------------------------------------------
\* The row

FreshRow == [down |-> 0, total |-> 0, tag |-> NoEntity, exp |-> 0, resume |-> FALSE,
             rejected |-> FALSE, fmt |-> 0, map |-> NoMap]

\* resume_oracle.  A map in a row is a partition, so it is consistent.
Oracle(r) == IF r.map # NoMap THEN "Multi"
             ELSE IF r.fmt >= 1 THEN "RestartRequired"
             ELSE IF r.down > 0 THEN "LegacySingle" ELSE "FreshSingle"

\* is_untracked_preallocate_hole: the length of a sparse file is not progress.
UntrackedHole(r, len) ==
  /\ r.down = 0 /\ r.fmt = 0 /\ r.map = NoMap
  /\ len > 0 /\ (r.total = 0 \/ len >= r.total)

\* reconcile_from_oracle.
Reconciled(r, len) ==
  [r EXCEPT !.down = IF r.rejected THEN 0
                     ELSE IF Oracle(r) = "Multi" THEN WrittenSum(r.map)
                     ELSE IF Oracle(r) = "RestartRequired" \/ UntrackedHole(r, len) THEN @
                     ELSE len]

\* known_expected_size.
ExpectedSize(r) == IF r.exp > 0 THEN r.exp ELSE r.total

\* apply_if_range: only for a range that starts after the first byte, and with a validator.
SendsIfRange(first) == first > 1 /\ row.tag # NoEntity
\* What the server makes of it.
Honours(first) == sc.ranges /\ (SendsIfRange(first) => row.tag = cur \/ ~sc.ifRange)

Running == ctl = "run"
Stopped == IF ctl = "pause" THEN "paused" ELSE "canceled"

\* The attempt is over.
End(o) == stage' = "idle" /\ outcome' = o

Fault(kind) == kind \in Faults /\ nfault < MaxFaults /\ nfault' = nfault + 1
NoFault == UNCHANGED nfault

\* A commit changes the row, then waits for state.json; it may report a failure to write it.
Commit(r) == row' = r /\ saved' = r
CommitFails(r) == Fault("commit") /\ row' = r /\ UNCHANGED saved

\* A file that was synced, removed or truncated is on stable storage as it is.
Store(f) == part' = f /\ disk' = f
Sync == disk' = part /\ UNCHANGED part
=============================================================================
