--------------------------- MODULE TransferProofs ---------------------------
(***************************************************************************)
(* Theorems about Transfer, for all sizes and versions of the remote file, *)
(* servers, kinds of fault, limits and bounds.  IInv is their inductive    *)
(* invariant: the types, who may have a map when, and for the segment      *)
(* workers that every count, the live ones, those that the last sync       *)
(* covers and those that a pausing worker read, lies between what the row  *)
(* confirms and what the file holds.                                       *)
(*                                                                         *)
(* The second half is about the versions of the remote file, under two     *)
(* hypotheses on the constants, Steady and Telling; its invariant is WInv. *)
(***************************************************************************)
EXTENDS Transfer, WellFoundedInduction, FiniteSetTheorems, TLAPS

-----------------------------------------------------------------------------
(* Files, segments and maps.                                               *)

FileSet == [Pos -> Content]
Counts(n) == {c \in [SegsOf(n) -> 0..MaxLen] : \A s \in SegsOf(n) : c[s] <= SegLen(n, s)}
MapOf(n, c) == [total |-> n, written |-> c]
MapSet == UNION {{MapOf(n, c) : c \in Counts(n)} : n \in 1..MaxLen}

\* The least element of a set of numbers: the induction that finds the end of a file.
LEMMA Smallest ==
  ASSUME NEW T, T \subseteq Nat, T # {}
  PROVE  \E n \in T : \A m \in T : n <= m
<1> DEFINE Less == {ss \in Nat \X Nat : ss[1] < ss[2]}
<1>1. IsWellFoundedOn(Less, Nat)
  BY NatLessThanWellFounded DEF OpToRel
<1>2. \E x \in T : \A y \in T : ~(<<y, x>> \in Less)
  <2> HIDE DEF Less
  <2> QED BY <1>1, WFMin
<1>3. PICK n \in T : \A m \in T : ~(<<m, n>> \in Less)
  BY <1>2
<1>4. ASSUME NEW m \in T PROVE n <= m
  <2>1. <<m, n>> \in Nat \X Nat /\ <<m, n>>[1] = m /\ <<m, n>>[2] = n
    OBVIOUS
  <2>2. ~(m < n)
    BY <1>3, <2>1
  <2> QED
    BY <2>2
<1> QED
  BY <1>4

LEMMA Greatest ==
  ASSUME NEW n \in Nat, NEW T, T \subseteq 1..n, T # {}
  PROVE  \E t \in T : \A m \in T : m <= t
<1> DEFINE S == {n - t : t \in T}
<1>1. S \subseteq Nat /\ S # {}
  <2>1. \A t \in T : n - t \in Nat
    OBVIOUS
  <2>2. PICK t \in T : TRUE
    OBVIOUS
  <2>3. n - t \in S
    BY <2>2
  <2> QED
    BY <2>1, <2>3
<1>2. PICK s \in S : \A m \in S : s <= m
  <2> HIDE DEF S
  <2> QED BY <1>1, Smallest
<1>3. PICK t \in T : s = n - t
  BY <1>2
<1>4. \A m \in T : n - t <= n - m
  BY <1>2, <1>3
<1> QED
  BY <1>4

\* A file ends behind its last byte.
LEMMA LengthIs ==
  ASSUME NEW f \in FileSet
  PROVE  Length(f) \in 0..MaxLen /\ \A p \in Pos : f[p] # Nil => p <= Length(f)
<1>1. CASE f = Empty
  BY <1>1, LengthsAssumption DEF Length, Empty, Pos
<1>2. CASE f # Empty
  <2> DEFINE T == {p \in Pos : f[p] # Nil}
  <2>1. T # {} /\ T \subseteq 1..MaxLen /\ MaxLen \in Nat
    BY <1>2, LengthsAssumption DEF Empty, FileSet, Pos, Content
  <2>2. \E t \in T : \A m \in T : m <= t
    <3> HIDE DEF T
    <3> QED BY <2>1, Greatest
  <2>3. \E p \in Pos : f[p] # Nil /\ \A q \in Pos : q > p => f[q] = Nil
    BY <2>2 DEF Pos
  <2>4. Length(f) \in Pos /\ f[Length(f)] # Nil /\ \A q \in Pos : q > Length(f) => f[q] = Nil
    BY <1>2, <2>3 DEF Length
  <2> QED
    BY <2>4 DEF Pos
<1> QED
  BY <1>1, <1>2

LEMMA LengthReached ==
  ASSUME NEW f \in FileSet, f # Empty
  PROVE  Length(f) \in Pos /\ f[Length(f)] # Nil
<1> DEFINE T == {p \in Pos : f[p] # Nil}
<1>1. T # {} /\ T \subseteq 1..MaxLen /\ MaxLen \in Nat
  BY LengthsAssumption DEF Empty, FileSet, Pos, Content
<1>2. \E t \in T : \A m \in T : m <= t
  <2> HIDE DEF T
  <2> QED BY <1>1, Greatest
<1>3. \E p \in Pos : f[p] # Nil /\ \A q \in Pos : q > p => f[q] = Nil
  BY <1>2 DEF Pos
<1> QED
  BY <1>3 DEF Length

\* What the operations on a file keep.
LEMMA FilesTyped ==
  ASSUME NEW f \in FileSet
  PROVE  /\ Empty \in FileSet
         /\ \A p \in Pos, e \in Entities :
              /\ Written(f, p, e) \in FileSet
              /\ Written(f, p, e)[p] = e
             /\ \A q \in Pos : q # p /\ f[q] # Nil => Written(f, p, e)[q] = f[q]
         /\ \A n \in Nat :
              /\ SetLen(f, n) \in FileSet
              /\ \A q \in Pos : q <= n /\ f[q] # Nil => SetLen(f, n)[q] = f[q]
<1>1. Empty \in FileSet
  BY DEF FileSet, Empty, Content
<1>2. ASSUME NEW p \in Pos, NEW e \in Entities
      PROVE  /\ Written(f, p, e) \in FileSet
             /\ Written(f, p, e)[p] = e
             /\ \A q \in Pos : q # p /\ f[q] # Nil => Written(f, p, e)[q] = f[q]
  BY DEF FileSet, Content, Written
<1>3. ASSUME NEW n \in Nat
      PROVE  /\ SetLen(f, n) \in FileSet
             /\ \A q \in Pos : q <= n /\ f[q] # Nil => SetLen(f, n)[q] = f[q]
  <2>1. \A p \in Pos : p \in Nat /\ f[p] \in Content
    BY DEF FileSet, Pos
  <2>2. \A p \in Pos : (IF p > n THEN Nil ELSE IF f[p] = Nil THEN Hole ELSE f[p]) \in Content
    BY <2>1 DEF Content
  <2> QED
    BY <2>1, <2>2 DEF FileSet, SetLen
<1> QED
  BY <1>1, <1>2, <1>3

-----------------------------------------------------------------------------
\* The quotient and the remainder of a division.
LEMMA Divides ==
  ASSUME NEW n \in Nat \ {0}, NEW k \in 1..n
  PROVE  /\ n \div k \in Nat \ {0} /\ n % k \in 0..(k - 1)
         /\ n % k = n - k * (n \div k) /\ k * (n \div k) \in Nat
<1>1. n % k = n - k * (n \div k)
  OBVIOUS
<1>2. n \div k \in Nat /\ n % k \in 0..(k - 1) /\ k * (n \div k) \in Nat
  OBVIOUS
<1>3. n \div k # 0
  <2>1. n \div k = 0 => k * (n \div k) = 0
    BY <1>2
  <2> QED
    BY <1>1, <1>2, <2>1
<1> QED
  BY <1>1, <1>2, <1>3

\* partition's segments lie in the file.
LEMMA Geometry ==
  ASSUME NEW n \in 1..MaxLen
  PROVE  /\ SegCount(n) \in 1..n /\ SegsOf(n) = 1..SegCount(n)
         /\ \A s \in SegsOf(n) :
              /\ SegLen(n, s) \in Nat /\ SegFirst(n, s) \in Nat \ {0}
              /\ SegFirst(n, s) + SegLen(n, s) - 1 <= n
              /\ SegLen(n, s) <= MaxLen
<1>1. n \in Nat \ {0} /\ SegCount(n) \in 1..n /\ SegsOf(n) = 1..SegCount(n)
  BY CountersAssumption, LengthsAssumption DEF SegCount, SegsOf, Least
<1>0. PICK k, d, r : k = SegCount(n) /\ d = n \div k /\ r = n % k
  OBVIOUS
<1>2. d \in Nat \ {0} /\ r \in 0..(k - 1) /\ r = n - k * d /\ k * d \in Nat /\ k \in Nat
  <2>1. n \in Nat \ {0} /\ k \in 1..n
    BY <1>0, <1>1
  <2>2. /\ n \div k \in Nat \ {0} /\ n % k \in 0..(k - 1)
        /\ n % k = n - k * (n \div k) /\ k * (n \div k) \in Nat
    BY <2>1, Divides, Zenon
  <2> QED
    BY <1>0, <2>1, <2>2
<1>3. ASSUME NEW s \in 1..k
      PROVE  /\ SegLen(n, s) \in Nat /\ SegFirst(n, s) \in Nat \ {0}
             /\ SegFirst(n, s) + SegLen(n, s) - 1 <= n
  <2>1. SegFirst(n, s) = (s - 1) * d + Least(s - 1, r) + 1 /\ SegLen(n, s) = d + IF s <= r THEN 1 ELSE 0
    BY <1>0 DEF SegFirst, SegLen
  <2>2. /\ (s - 1) * d \in Nat /\ k * d \in Nat /\ (k - s) * d \in Nat
        /\ k * d = (k - s) * d + (s - 1) * d + d
    BY <1>2
  <2> QED
    BY <1>2, <2>1, <2>2 DEF Least
<1> QED
  BY <1>0, <1>1, <1>3, LengthsAssumption

-----------------------------------------------------------------------------
\* A map is its total and its counts.
LEMMA MapParts ==
  ASSUME NEW m \in MapSet
  PROVE  /\ m.total \in 1..MaxLen /\ m.written \in Counts(m.total)
         /\ DOMAIN m.written = SegsOf(m.total) /\ m = MapOf(m.total, m.written)
         /\ m # NoMap
         /\ \A s \in SegsOf(m.total) : m.written[s] \in 0..MaxLen /\ m.written[s] <= SegLen(m.total, s)
<1>0. PICK n \in 1..MaxLen : m \in {MapOf(n, c) : c \in Counts(n)}
  BY DEF MapSet
<1>1. PICK c \in Counts(n) : m = MapOf(n, c)
  BY <1>0
<1>2. m.total = n /\ m.written = c
  BY <1>1 DEF MapOf
<1>3. c \in [SegsOf(n) -> 0..MaxLen] /\ \A s \in SegsOf(n) : c[s] <= SegLen(n, s)
  BY DEF Counts
<1>4. m \in [total : {n}, written : [SegsOf(n) -> 0..MaxLen]]
  BY <1>1, <1>3 DEF MapOf
<1> QED
  BY <1>1, <1>2, <1>3, <1>4, ValuesAssumption

LEMMA MapMade ==
  ASSUME NEW n \in 1..MaxLen, NEW c \in Counts(n)
  PROVE  MapOf(n, c) \in MapSet /\ MapOf(n, c).total = n /\ MapOf(n, c).written = c
  BY DEF MapSet, MapOf

LEMMA ConfirmedIs ==
  ASSUME NEW m \in MapSet
  PROVE  /\ Confirmed(m) \subseteq Pos
         /\ \A p \in Pos : p \in Confirmed(m) <=>
              \E s \in SegsOf(m.total) : SegFirst(m.total, s) <= p /\ p < SegFirst(m.total, s) + m.written[s]
  BY MapParts DEF Confirmed, Written_

LEMMA NothingConfirmed == Confirmed(NoMap) = {}
  BY DEF Confirmed

LEMMA FreshMapMade ==
  ASSUME NEW n \in 1..MaxLen
  PROVE  FreshMap(n) \in MapSet /\ Confirmed(FreshMap(n)) = {}
<1> DEFINE c == [s \in SegsOf(n) |-> 0]
<1>1. c \in Counts(n)
  BY Geometry, LengthsAssumption DEF Counts
<1>2. FreshMap(n) = MapOf(n, c)
  BY DEF FreshMap, MapOf
<1>3. FreshMap(n) \in MapSet /\ FreshMap(n).total = n /\ FreshMap(n).written = c
  BY <1>1, <1>2, MapMade
<1>4. ASSUME NEW p \in Pos, NEW s \in SegsOf(n), SegFirst(n, s) <= p, p < SegFirst(n, s) + c[s] PROVE FALSE
  BY <1>4, Geometry DEF Pos
<1> QED
  BY <1>3, <1>4, ConfirmedIs

\* Higher counts confirm more.
LEMMA MoreConfirmed ==
  ASSUME NEW m \in MapSet, NEW k \in MapSet, k.total = m.total,
         \A s \in SegsOf(m.total) : m.written[s] <= k.written[s]
  PROVE  Confirmed(m) \subseteq Confirmed(k)
<1>1. ASSUME NEW p \in Confirmed(m) PROVE p \in Confirmed(k)
  <2>1. p \in Pos /\ p \in Nat
    BY ConfirmedIs DEF Pos
  <2>2. PICK s \in SegsOf(m.total) : SegFirst(m.total, s) <= p /\ p < SegFirst(m.total, s) + m.written[s]
    BY <2>1, ConfirmedIs
  <2>3. m.written[s] \in Nat /\ k.written[s] \in Nat /\ SegFirst(m.total, s) \in Nat
    BY MapParts, Geometry
  <2>4. p < SegFirst(m.total, s) + k.written[s]
    BY <2>1, <2>2, <2>3
  <2> QED
    BY <2>1, <2>2, <2>4, ConfirmedIs
<1> QED
  BY <1>1

LEMMA ConfirmedInside ==
  ASSUME NEW m \in MapSet, NEW p \in Confirmed(m)
  PROVE  p <= m.total
<1>1. p \in Pos /\ p \in Nat
  BY ConfirmedIs DEF Pos
<1>2. PICK s \in SegsOf(m.total) : SegFirst(m.total, s) <= p /\ p < SegFirst(m.total, s) + m.written[s]
  BY <1>1, ConfirmedIs
<1>3. /\ m.written[s] \in Nat /\ SegFirst(m.total, s) \in Nat /\ SegLen(m.total, s) \in Nat /\ m.total \in Nat
      /\ m.written[s] <= SegLen(m.total, s) /\ SegFirst(m.total, s) + SegLen(m.total, s) - 1 <= m.total
  BY MapParts, Geometry
<1> QED
  BY <1>1, <1>2, <1>3

\* WrittenSum is at most the length of a file.
LEMMA SumTyped ==
  ASSUME NEW m \in MapSet
  PROVE  WrittenSum(m) \in 0..MaxLen
<1>1. IsFiniteSet(1..MaxLen) /\ Cardinality(1..MaxLen) = MaxLen
  BY FS_Interval, LengthsAssumption
<1>2. Confirmed(m) \subseteq 1..MaxLen
  BY ConfirmedIs DEF Pos
<1> QED
  BY <1>1, <1>2, FS_Subset, FS_CardinalityType, LengthsAssumption DEF WrittenSum

-----------------------------------------------------------------------------
(* What the variables hold.                                                *)

Lengths == 0..MaxLen
RowSet == [down : Lengths, total : Lengths, tag : Entities \cup {NoEntity}, exp : Lengths,
           resume : BOOLEAN, rejected : BOOLEAN, fmt : {0, 1}, map : {NoMap} \cup MapSet]
Loops  == [short : 0..ReconnectMax, fresh : 0..FreshMax, rejects : 0..RejectMax, mism : Nat,
           cand : Lengths, retired : BOOLEAN, keep : BOOLEAN, replayed : BOOLEAN]
Resps  == [kind : {"none", "zero", "full", "part", "416"}, ent : Entities \cup {NoEntity},
           sized : BOOLEAN, from : Lengths, expected : Lengths, adopts : BOOLEAN, limit : Lengths]
Outcomes == {"none", "completed", "failed", "paused", "canceled"}

Typed ==
  /\ sc \in Scenarios /\ cur \in Entities
  /\ part \in FileSet /\ disk \in FileSet /\ final \in FileSet
  /\ row \in RowSet /\ saved \in RowSet
  /\ old \in {"none", "target", "aside"} /\ ctl \in {"run", "pause", "cancel"}
  /\ stage \in Stages /\ outcome \in Outcomes
  /\ off \in Lengths /\ lp \in Loops /\ resp \in Resps
  /\ live \in {NoMap} \cup MapSet

\* While an answer is in hand its version is known; a wait before a reconnect is one that is counted.
Replies == {"respond", "confirm", "accept", "open", "body"}
Answered == stage \in Replies => resp.ent \in Entities
Sleeping == stage = "sleep" => lp.short < ReconnectMax

\* One stream has no map, in memory or in state.json.
Alone == {"single", "fetch", "respond", "sleep", "confirm", "accept", "open", "body", "wiped"}
Mapless == stage \in Alone => row.map = NoMap /\ saved.map = NoMap

SingleTyped == Typed /\ Answered /\ Sleeping /\ Mapless

-----------------------------------------------------------------------------
(* One stream.                                                             *)

\* The lengths of files and positions are numbers up to MaxLen.
LEMMA Lengthy ==
  /\ 0 \in Lengths /\ Lengths \subseteq Nat
  /\ Pos \subseteq Lengths /\ \A f \in FileSet : Length(f) \in Lengths
  BY LengthIs, LengthsAssumption DEF Lengths, Pos

LEMMA Sizes ==
  ASSUME Typed
  PROVE  /\ \A e \in Entities : Size(e) \in Lengths /\ Size(e) \in Nat \ {0} /\ Size(e) \in Pos
         /\ sc.ranges \in BOOLEAN /\ sc.ifRange \in BOOLEAN /\ sc.advert \in BOOLEAN /\ sc.head \in BOOLEAN
         /\ sc.existing \in {"none", "keep", "replace"}
<1>1. sc \in Scenarios /\ sc.size \in [Entities -> Nat \ {0}]
  BY ScenariosAssumption DEF Typed
<1>2. \A e \in Entities : sc.size[e] \in Nat \ {0} /\ sc.size[e] <= MaxLen
  BY <1>1, LengthsAssumption
<1> QED
  BY <1>1, <1>2, ScenariosAssumption, LengthsAssumption DEF Size, Lengths, Pos

LEMMA Nothings ==
  /\ NoLoop \in Loops /\ NoResp \in Resps /\ FreshRow \in RowSet
  /\ NoLoop.short < ReconnectMax /\ FreshRow.map = NoMap
<1>1. NoLoop \in Loops /\ NoLoop.short < ReconnectMax
  BY CountersAssumption, Lengthy DEF NoLoop, Loops
<1>2. NoResp \in Resps
  BY Lengthy DEF NoResp, Resps
<1>3. FreshRow \in RowSet /\ FreshRow.map = NoMap
  BY Lengthy DEF FreshRow, RowSet
<1> QED
  BY <1>1, <1>2, <1>3

\* What one stream makes of a row keeps its type and its map.
LEMMA RowFields ==
  ASSUME NEW r \in RowSet
  PROVE  /\ r.down \in Lengths /\ r.total \in Lengths /\ r.exp \in Lengths
         /\ r.tag \in Entities \cup {NoEntity} /\ r.map \in {NoMap} \cup MapSet
         /\ r.resume \in BOOLEAN /\ r.rejected \in BOOLEAN /\ r.fmt \in {0, 1}
  BY DEF RowSet

LEMMA Downed ==
  ASSUME NEW r \in RowSet, NEW n \in Lengths
  PROVE  /\ [r EXCEPT !.down = n] \in RowSet /\ [r EXCEPT !.down = n].map = r.map
         /\ Checkpointed(r, n) \in RowSet /\ Checkpointed(r, n).map = r.map
  BY DEF RowSet, Checkpointed

LEMMA Rejected ==
  ASSUME NEW r \in RowSet, NEW b \in BOOLEAN
  PROVE  [r EXCEPT !.down = 0, !.rejected = b] \in RowSet /\ [r EXCEPT !.down = 0, !.rejected = b].map = r.map
<1>1. PICK n \in Lengths : n = 0
  BY Lengthy
<1>2. [r EXCEPT !.down = n, !.rejected = b] \in RowSet /\ [r EXCEPT !.down = n, !.rejected = b].map = r.map
  BY DEF RowSet
<1> QED
  BY <1>1, <1>2

OneRow(r) == r \in RowSet /\ r.map = NoMap
Framed == UNCHANGED <<sc, cur, old, ctl>>
Filed  == part' \in FileSet /\ disk' \in FileSet /\ final' = final
Rowed  == OneRow(row') /\ OneRow(saved')
Looped ==
  /\ off' \in Lengths /\ lp' \in Loops /\ resp' \in Resps
  /\ stage' \in (Alone \ {"wiped"}) \cup {"idle", "finish"} /\ outcome' \in Outcomes
  /\ stage' \in Replies => resp'.ent \in Entities
  /\ stage' = "sleep" => lp'.short < ReconnectMax
Streamed == Framed /\ Filed /\ Rowed /\ Looped
Streams == SingleTyped /\ stage \in Alone \ {"wiped"}

LEMMA StreamFacts ==
  ASSUME Streams
  PROVE  /\ OneRow(row) /\ OneRow(saved) /\ part \in FileSet /\ disk \in FileSet
         /\ off \in Lengths /\ lp \in Loops /\ resp \in Resps /\ outcome \in Outcomes
         /\ resp.limit \in Lengths /\ resp.expected \in Lengths /\ resp.ent \in Entities \cup {NoEntity}
         /\ resp.sized \in BOOLEAN /\ resp.adopts \in BOOLEAN /\ cur \in Entities
         /\ lp.short \in 0..ReconnectMax /\ lp.fresh \in 0..FreshMax /\ lp.rejects \in 0..RejectMax
         /\ lp.mism \in Nat /\ lp.cand \in Lengths /\ lp.retired \in BOOLEAN /\ lp.keep \in BOOLEAN
         /\ stage \in Replies => resp.ent \in Entities
         /\ stage = "sleep" => lp.short < ReconnectMax
  BY DEF Streams, SingleTyped, Typed, Mapless, Answered, Sleeping, Resps, Loops, OneRow

LEMMA EndTyped ==
  ASSUME Streams, NEW o \in Outcomes, EndSingle(o)
  PROVE  Framed /\ Looped
  BY Lengthy, Nothings DEF EndSingle, SIdle, End, Framed, Looped, Replies, world, remote

LEMMA LoopFields ==
  ASSUME NEW l \in Loops
  PROVE  /\ \A n \in 0..ReconnectMax : [l EXCEPT !.short = n] \in Loops /\ [l EXCEPT !.short = n].short = n
         /\ \A n \in 0..ReconnectMax : [l EXCEPT !.short = n, !.keep = TRUE] \in Loops
  BY DEF Loops

LEMMA ReconnectTyped ==
  ASSUME Streams, NEW l \in Loops, NEW n \in Lengths, NEW r, OneRow(r), NEW b \in BOOLEAN,
         Reconnect(l, n, r, b)
  PROVE  Framed /\ Rowed /\ Looped
<1>1. CASE CanReconnect(l, n, r, b) /\ row' = [r EXCEPT !.down = n] /\ UNCHANGED saved /\ Go("sleep")
           /\ lp' = l /\ off' = n /\ resp' = NoResp
  <2>1. Rowed
    BY <1>1, Downed, StreamFacts DEF Rowed, OneRow
  <2>2. Looped /\ Framed
    BY <1>1, Nothings, StreamFacts DEF CanReconnect, Go, Looped, Framed, Replies, Alone, world, remote
  <2> QED
    BY <2>1, <2>2
<1>2. CASE Fail /\ Commit(Checkpointed(r, n))
  <2>1. Rowed
    BY <1>2, Downed DEF Rowed, OneRow, Commit
  <2> QED
    BY <1>2, <2>1, EndTyped DEF Fail, Outcomes
<1> QED
  BY <1>1, <1>2 DEF Reconnect

LEMMA DiscardTyped ==
  ASSUME Streams, Discard PROVE Streamed
<1>1. Framed /\ Looped
  BY EndTyped DEF Discard, Fail, Outcomes
<1>2. Filed
  BY FilesTyped, StreamFacts DEF Discard, Filed, Store
<1>3. Rowed
  BY Rejected, StreamFacts DEF Discard, Rowed, OneRow, Commit
<1> QED
  BY <1>1, <1>2, <1>3 DEF Streamed

LEMMA FinishTyped ==
  ASSUME Streams, NEW n \in Lengths, Finish(n) PROVE Streamed
  BY StreamFacts DEF Finish, Go, Streamed, Framed, Filed, Rowed, Looped, OneRow, Replies, files, rows, world, remote

LEMMA SetupTyped == ASSUME Streams, SingleSetup PROVE Streamed
<1> DEFINE len == IF row.rejected THEN 0 ELSE Length(part)
           c == Candidate(row, len)
<1>1. len \in Lengths /\ c \in Lengths
  <2>1. len \in Lengths
    BY Lengthy, StreamFacts
  <2> HIDE DEF len
  <2> QED
    BY <2>1, Lengthy DEF Candidate
<1>2. off' = len /\ lp' = [NoLoop EXCEPT !.cand = c, !.retired = c > 0]
  BY DEF SingleSetup
<1>3. Framed /\ Filed /\ Rowed /\ stage' = "fetch" /\ UNCHANGED <<resp, outcome>>
  BY StreamFacts DEF SingleSetup, Go, Framed, Filed, Rowed, OneRow, files, rows, world, remote
<1> HIDE DEF len, c
<1>4. lp' \in Loops
  <2>1. (c > 0) = TRUE \/ (c > 0) = FALSE
    OBVIOUS
  <2>2. lp' = [NoLoop EXCEPT !.cand = c, !.retired = TRUE] \/ lp' = [NoLoop EXCEPT !.cand = c, !.retired = FALSE]
    BY <1>2, <2>1, Zenon
  <2> QED
    BY <1>1, <2>2, Nothings DEF Loops
<1> QED
  BY <1>1, <1>2, <1>3, <1>4, StreamFacts DEF Streamed, Looped, Alone, Replies

LEMMA WakeTyped == ASSUME Streams, Wake PROVE Streamed
<1>1. Framed /\ Rowed /\ stage' = "fetch" /\ UNCHANGED <<resp, outcome>>
  BY StreamFacts DEF Wake, Go, Framed, Rowed, OneRow, rows, world, remote
<1>2. Filed
  BY FilesTyped, StreamFacts DEF Wake, Filed, Store
<1>3. off' \in Lengths
  BY Lengthy, StreamFacts DEF Wake
<1>4. lp' \in Loops
  <2>1. PICK n \in 0..ReconnectMax : n = lp.short + 1
    BY StreamFacts, CountersAssumption DEF Wake
  <2>2. lp' = [lp EXCEPT !.short = n, !.keep = TRUE]
    BY <2>1 DEF Wake
  <2> QED
    BY <2>2, StreamFacts, LoopFields
<1> QED
  BY <1>1, <1>2, <1>3, <1>4, StreamFacts DEF Streamed, Looped, Alone, Replies

LEMMA FetchTyped == ASSUME Streams, Fetch PROVE Streamed
<1>1. Framed /\ Rowed /\ Filed /\ stage' = "respond" /\ UNCHANGED <<off, lp, outcome>>
  BY StreamFacts DEF Fetch, Go, Framed, Filed, Rowed, OneRow, rows, files, world, remote
<1>2. AnswerKind \in {"zero", "full", "part", "416"} /\ ExpectedSize(row) \in Lengths
  BY StreamFacts, RowFields DEF AnswerKind, ExpectedSize, OneRow
<1>3. PICK sized \in BOOLEAN : sized = (AnswerKind = "part" \/ sc.framing = "length")
  BY Zenon
<1>4. resp' = [NoResp EXCEPT !.kind = AnswerKind, !.ent = cur, !.from = off, !.sized = sized, !.expected = ExpectedSize(row)]
  BY <1>3, Zenon DEF Fetch
<1>5. resp' \in Resps /\ resp'.ent = cur
  BY <1>2, <1>4, Nothings, StreamFacts DEF Resps
<1> QED
  BY <1>1, <1>5, StreamFacts DEF Streamed, Looped, Alone, Replies

LEMMA RefusalsTyped ==
  ASSUME Streams, FetchFails \/ Refused \/ Replay \/ InterruptSend \/ InterruptAnswer \/ InterruptSleep
  PROVE  Streamed
<1>1. CASE FetchFails
  BY <1>1, ReconnectTyped, StreamFacts DEF FetchFails, Streamed, Filed, files
<1>2. CASE Refused
  <2>1. Framed /\ Looped
    BY <1>2, EndTyped DEF Refused, Fail, Outcomes
  <2>2. Rowed
    BY ZenonT(60), <1>2, Downed, StreamFacts DEF Refused, Commit, Rowed, OneRow, rows
  <2> QED
    BY <1>2, <2>1, <2>2, StreamFacts DEF Refused, Streamed, Filed, files
<1>3. CASE Replay
  <2>1. lp' \in Loops
    BY <1>3, StreamFacts DEF Replay, Loops
  <2> QED
    BY <1>3, <2>1, StreamFacts
    DEF Replay, Go, Streamed, Framed, Filed, Rowed, Looped, OneRow, rows, files, world, remote, Alone, Replies
<1>4. CASE InterruptSend \/ InterruptAnswer \/ InterruptSleep
  <2>1. EndSingle(Stopped) /\ UNCHANGED <<files, rows>> /\ Stopped \in Outcomes
    BY <1>4 DEF InterruptSend, InterruptAnswer, InterruptSleep, InterruptAt, Stopped, Outcomes
  <2> QED
    BY <2>1, EndTyped, StreamFacts DEF Streamed, Filed, Rowed, OneRow, files, rows
<1> QED
  BY <1>1, <1>2, <1>3, <1>4

LEMMA GiveUpTyped == ASSUME Streams, NEW n \in Lengths, GiveUp(n) PROVE Streamed
<1>1. Framed /\ Looped
  BY EndTyped DEF GiveUp, Fail, Outcomes
<1> QED
  BY <1>1, Downed, StreamFacts DEF GiveUp, Streamed, Filed, Rowed, OneRow, Commit, files

LEMMA Respond416Typed == ASSUME Streams, Respond416 PROVE Streamed
<1> DEFINE kept == lp.rejects < RejectMax
           l == IF kept THEN [lp EXCEPT !.rejects = @ + 1] ELSE [lp EXCEPT !.fresh = @ + 1, !.keep = FALSE]
<1>1. CASE Finish(off)
  BY <1>1, FinishTyped, StreamFacts
<1>2. CASE GiveUp(off)
  BY <1>2, GiveUpTyped, StreamFacts
<1>3. CASE ~(l.fresh > FreshMax) /\ Reconnect(l, off, row, FALSE) /\ UNCHANGED files
  <2>1. PICK n \in Nat, m \in Nat : n = lp.rejects + 1 /\ m = lp.fresh + 1
    BY StreamFacts, CountersAssumption
  <2>2. l = IF kept THEN [lp EXCEPT !.rejects = n] ELSE [lp EXCEPT !.fresh = m, !.keep = FALSE]
    BY <2>1
  <2>3. kept => n \in 0..RejectMax
    BY <2>1, StreamFacts, CountersAssumption
  <2>4. ~kept => l.fresh = m
    BY <2>2, StreamFacts DEF Loops
  <2>5. ~kept => m \in 0..FreshMax
    BY <1>3, <2>4, CountersAssumption
  <2>6. l \in Loops
    <3> HIDE DEF kept
    <3>1. kept => l \in Loops
      BY <2>2, <2>3, StreamFacts DEF Loops
    <3>2. ~kept => l \in Loops
      BY <2>2, <2>5, StreamFacts DEF Loops
    <3> QED BY <3>1, <3>2
  <2> HIDE DEF l
  <2> QED
    BY <1>3, <2>6, ReconnectTyped, StreamFacts DEF Streamed, Filed, files
<1> QED
  BY <1>1, <1>2, <1>3 DEF Respond416

LEMMA AnswersTyped ==
  ASSUME Streams, RespondFull \/ RespondKept \/ RespondPartial \/ RespondZero
  PROVE  Streamed
<1>1. CASE RespondFull
  <2>1. Framed /\ Rowed /\ stage' = "accept" /\ UNCHANGED <<resp, outcome>> /\ off' \in Lengths /\ resp.ent \in Entities
    BY <1>1, StreamFacts, Lengthy DEF RespondFull, Replaced, Go, Framed, Rowed, OneRow, rows, world, remote, Replies
  <2>2. Filed
    BY <1>1, FilesTyped, StreamFacts DEF RespondFull, Replaced, Filed, Store
  <2>3. PICK n \in 0..FreshMax : n = lp.fresh + 1
    BY <1>1, StreamFacts, CountersAssumption DEF RespondFull
  <2>4. lp' = [lp EXCEPT !.fresh = n]
    BY <1>1, <2>3 DEF RespondFull
  <2>5. lp' \in Loops
    BY <2>4, StreamFacts DEF Loops
  <2> QED
    BY <2>1, <2>2, <2>5, StreamFacts DEF Streamed, Looped, Alone, Replies
<1>2. CASE RespondKept
  <2>1. CASE GiveUp(off)
    BY <2>1, GiveUpTyped, StreamFacts
  <2>2. CASE Go("confirm") /\ UNCHANGED <<files, rows, off, lp, resp>>
    BY <1>2, <2>2, StreamFacts
    DEF RespondKept, Go, Streamed, Framed, Filed, Rowed, Looped, OneRow, rows, files, world, remote, Alone, Replies
  <2> QED
    BY <1>2, <2>1, <2>2 DEF RespondKept
<1>3. CASE RespondPartial /\ Mismatch(row, resp.ent)
  BY <1>3, EndTyped, StreamFacts DEF RespondPartial, Fail, Outcomes, Streamed, Filed, Rowed, OneRow, files, rows
<1>4. CASE (RespondPartial /\ ~Mismatch(row, resp.ent)) \/ RespondZero
  <2>1. PICK z \in Nat : z = 0
    OBVIOUS
  <2>2. z \in 0..FreshMax /\ z \in 0..RejectMax
    BY <2>1, CountersAssumption
  <2>3. lp' \in {[lp EXCEPT !.fresh = z, !.rejects = z], [lp EXCEPT !.rejects = z]}
    BY <1>4, <2>1 DEF RespondPartial, RespondZero
  <2>4. lp' \in Loops
    BY <2>2, <2>3, StreamFacts DEF Loops
  <2>5. stage = "respond" /\ Go("accept") /\ UNCHANGED <<off, resp, files, rows>>
    BY <1>4 DEF RespondPartial, RespondZero
  <2> QED
    BY <2>4, <2>5, StreamFacts
    DEF Go, Streamed, Framed, Filed, Rowed, Looped, OneRow, rows, files, world, remote, Alone, Replies
<1> QED
  BY <1>1, <1>2, <1>3, <1>4

LEMMA ConfirmsTyped ==
  ASSUME Streams, ConfirmMatches \/ ConfirmDiffers \/ ConfirmFails
  PROVE  Streamed
<1>1. CASE ConfirmMatches
  BY <1>1, FinishTyped, StreamFacts DEF ConfirmMatches
<1>2. CASE ConfirmDiffers
  <2>1. CASE Fail /\ Commit(Checkpointed(row, off))
    <3>1. Framed /\ Looped
      BY <2>1, EndTyped DEF Fail, Outcomes
    <3> QED
      BY <1>2, <2>1, <3>1, Downed, StreamFacts DEF ConfirmDiffers, Streamed, Filed, Rowed, OneRow, Commit, files
  <2>2. CASE Reconnect([lp EXCEPT !.mism = @ + 1], off, row, FALSE)
    <3>1. PICK n \in Nat : n = lp.mism + 1
      BY StreamFacts
    <3>2. PICK l : l = [lp EXCEPT !.mism = n]
      OBVIOUS
    <3>3. l \in Loops
      BY <3>2, StreamFacts DEF Loops
    <3>4. Reconnect(l, off, row, FALSE)
      BY <2>2, <3>1, <3>2
    <3> QED
      BY <1>2, <3>3, <3>4, ReconnectTyped, StreamFacts DEF ConfirmDiffers, Streamed, Filed, files
  <2> QED
    BY <1>2, <2>1, <2>2 DEF ConfirmDiffers
<1>3. CASE ConfirmFails
  <2>1. CASE Running /\ Reconnect(lp, off, row, FALSE)
    BY <1>3, <2>1, ReconnectTyped, StreamFacts DEF ConfirmFails, Streamed, Filed, files
  <2>2. CASE EndSingle(Stopped) /\ UNCHANGED rows
    <3>1. Framed /\ Looped
      BY <2>2, EndTyped DEF Stopped, Outcomes
    <3> QED
      BY <1>3, <2>2, <3>1, StreamFacts DEF ConfirmFails, Streamed, Filed, Rowed, OneRow, files, rows
  <2> QED
    BY <1>3, <2>1, <2>2 DEF ConfirmFails
<1> QED
  BY <1>1, <1>2, <1>3

LEMMA AcceptTyped == ASSUME Streams, Accept PROVE Streamed
<1>1. CASE Fail /\ UNCHANGED rows
  <2>1. Framed /\ Looped
    BY <1>1, EndTyped DEF Fail, Outcomes
  <2> QED
    BY <1>1, <2>1, StreamFacts DEF Accept, Streamed, Filed, Rowed, OneRow, files, rows
<1>2. OneRow(AcceptedRow) /\ TotalOf \in Lengths
  <2>0. stage = "accept" /\ resp.ent \in Entities
    BY StreamFacts DEF Accept, Replies
  <2>1. TotalOf \in Lengths
    BY <2>0, Sizes, StreamFacts, RowFields, Lengthy
    DEF TotalOf, KnownWithoutLength, Streams, SingleTyped, OneRow
  <2>2. PICK resume \in BOOLEAN : resume = (row.resume \/ resp.kind = "part" \/ sc.advert)
    BY Zenon
  <2>3. PICK t \in Lengths : t = TotalOf
    BY <2>1
  <2>4. PICK x \in Lengths : x = IF TotalOf > 0 \/ resp.kind = "full" THEN TotalOf ELSE row.exp
    BY <2>1, StreamFacts, RowFields DEF OneRow
  <2>5. PICK f \in {0, 1}, m \in {NoMap} :
          f = (IF resp.kind = "full" THEN 0 ELSE row.fmt) /\ m = (IF resp.kind = "full" THEN NoMap ELSE row.map)
    BY StreamFacts, RowFields DEF OneRow
  <2>6. AcceptedRow = [row EXCEPT !.down = off, !.total = t, !.tag = resp.ent, !.exp = x, !.resume = resume,
                         !.fmt = f, !.map = m]
    BY <2>2, <2>3, <2>4, <2>5, Zenon DEF AcceptedRow
  <2> QED
    BY <2>0, <2>1, <2>6, StreamFacts DEF RowSet, OneRow
<1>3. CASE CommitFails(AcceptedRow) /\ Fail
  <2>1. Framed /\ Looped
    BY <1>3, EndTyped DEF Fail, Outcomes
  <2> QED
    BY <1>2, <1>3, <2>1, StreamFacts DEF Accept, Streamed, Filed, Rowed, OneRow, CommitFails, files
<1>4. CASE /\ Commit(AcceptedRow) /\ lp' = [lp EXCEPT !.retired = Retired]
           /\ resp' = [resp EXCEPT !.adopts = Adopts, !.limit = TotalOf] /\ Go("open") /\ UNCHANGED off
  <2>1. PICK b \in BOOLEAN, d \in BOOLEAN : b = Retired /\ d = Adopts
    <3>1. Retired \in BOOLEAN /\ Adopts \in BOOLEAN
      BY Zenon DEF Retired, Adopts
    <3> QED
      BY <3>1, Zenon
  <2>2. lp' = [lp EXCEPT !.retired = b] /\ resp' = [resp EXCEPT !.adopts = d, !.limit = TotalOf]
    BY <1>4, <2>1, Zenon
  <2>3. lp' \in Loops
    BY <2>2, StreamFacts DEF Loops
  <2>4. resp' \in Resps /\ resp'.ent = resp.ent
    BY <1>2, <2>2, StreamFacts DEF Resps
  <2>5. stage = "accept" /\ UNCHANGED files
    BY DEF Accept
  <2> QED
    BY <1>2, <1>4, <2>3, <2>4, <2>5, StreamFacts
    DEF Commit, Go, Streamed, Framed, Filed, Rowed, Looped, OneRow, files, world, remote, Alone, Replies
<1> QED
  BY <1>1, <1>3, <1>4 DEF Accept

LEMMA OpenTyped == ASSUME Streams, Open PROVE Streamed
<1> DEFINE n == IF row.rejected THEN 0 ELSE off
<1>1. n \in Lengths /\ stage = "open" /\ final' = final /\ resp.ent \in Entities
  BY StreamFacts, Lengthy DEF Open, Replies
<1>2. CASE /\ off' = n /\ resp' = [resp EXCEPT !.from = n] /\ OpenSink(n) /\ Go("body") /\ UNCHANGED lp
           /\ IF row.rejected
              THEN Commit([row EXCEPT !.rejected = FALSE, !.map = NoMap, !.fmt = 0, !.down = 0])
              ELSE UNCHANGED rows
  <2>1. Rowed
    <3>1. CASE UNCHANGED rows
      BY <3>1, StreamFacts DEF Rowed, OneRow, rows
    <3>2. CASE Commit([row EXCEPT !.rejected = FALSE, !.map = NoMap, !.fmt = 0, !.down = 0])
      <4>1. PICK z \in {0} : z \in Lengths /\ z \in {0, 1}
        BY Lengthy
      <4>2. row' = [row EXCEPT !.rejected = FALSE, !.map = NoMap, !.fmt = z, !.down = z] /\ saved' = row'
        BY <3>2, <4>1 DEF Commit
      <4> QED
        BY <4>1, <4>2, StreamFacts DEF Rowed, OneRow, RowSet
    <3> QED
      BY <1>2, <3>1, <3>2
  <2>2. Filed
    BY <1>1, <1>2, FilesTyped, StreamFacts DEF OpenSink, Filed, Store
  <2> HIDE DEF n
  <2>3. resp' \in Resps /\ resp'.ent = resp.ent
    BY <1>1, <1>2, StreamFacts DEF Resps
  <2> QED
    BY <1>1, <1>2, <2>1, <2>2, <2>3, StreamFacts
    DEF Go, Streamed, Framed, Looped, world, remote, Alone, Replies
<1>3. CASE Fail /\ UNCHANGED <<part, disk, rows>>
  <2>1. Framed /\ Looped
    BY <1>3, EndTyped DEF Fail, Outcomes
  <2> QED
    BY <1>1, <1>3, <2>1, StreamFacts DEF Streamed, Filed, Rowed, OneRow, rows
<1> QED
  BY <1>2, <1>3 DEF Open

LEMMA ChunkTyped == ASSUME Streams, Chunk PROVE Streamed
<1>0. stage = "body" /\ resp.ent \in Entities /\ off < Size(resp.ent)
  BY StreamFacts DEF Chunk, Replies
<1>1. off + 1 \in Pos /\ off + 1 \in Lengths
  BY <1>0, StreamFacts, Sizes, LengthsAssumption DEF Streams, SingleTyped, Lengths, Pos
<1>2. part' \in FileSet
  BY <1>0, <1>1, FilesTyped, StreamFacts DEF Chunk
<1> QED
  BY <1>0, <1>1, <1>2, StreamFacts
  DEF Chunk, Go, Streamed, Framed, Filed, Rowed, Looped, OneRow, rows, world, remote, Alone, Replies

LEMMA TickedTyped == ASSUME Streams, Ticked(off) PROVE Rowed
  BY Downed, StreamFacts DEF Ticked, Rowed, OneRow

LEMMA StopBodyTyped == ASSUME Streams, StopBody \/ Overlong PROVE Streamed
<1>1. CASE Overlong
  BY <1>1, DiscardTyped DEF Overlong
<1>2. CASE StopBody
  <2>1. Framed /\ Looped
    BY <1>2, EndTyped DEF StopBody, Fail, Outcomes, Stopped
  <2>2. Filed
    BY <1>2, StreamFacts DEF StopBody, Sync, Filed
  <2> QED
    BY <1>2, <2>1, <2>2, TickedTyped DEF StopBody, Streamed
<1> QED
  BY <1>1, <1>2

LEMMA ExhaustedTyped == ASSUME Streams, Exhausted PROVE Streamed
<1>1. CASE Discard
  BY <1>1, DiscardTyped
<1>2. CASE Finish(off)
  BY <1>2, FinishTyped, StreamFacts
<1>3. CASE Fail /\ Ticked(off) /\ UNCHANGED files
  <2>1. Framed /\ Looped
    BY <1>3, EndTyped DEF Fail, Outcomes
  <2> QED
    BY <1>3, <2>1, TickedTyped, StreamFacts DEF Streamed, Filed, files
<1> QED
  BY <1>1, <1>2, <1>3 DEF Exhausted

\* After a body the reconnects are counted anew, if it brought something.
LEMMA BodyReconnects ==
  ASSUME Streams, NEW b \in BOOLEAN,
         Reconnect(IF off > resp.from THEN [lp EXCEPT !.short = 0] ELSE lp, off, row, b), UNCHANGED files
  PROVE  Streamed
<1>1. PICK n \in 0..ReconnectMax : n = 0
  BY CountersAssumption
<1>2. PICK l : l = IF off > resp.from THEN [lp EXCEPT !.short = n] ELSE lp
  OBVIOUS
<1>3. l \in Loops
  BY <1>2, LoopFields, StreamFacts
<1>4. Reconnect(l, off, row, b)
  BY <1>1, <1>2
<1> QED
  BY <1>3, <1>4, ReconnectTyped, StreamFacts DEF Streamed, Filed, files

LEMMA ShortTyped == ASSUME Streams, Short PROVE Streamed
<1> DEFINE l == [lp EXCEPT !.cand = off, !.mism = 0, !.retired = TRUE, !.short = 0]
           r == Checkpointed([row EXCEPT !.total = 0, !.exp = 0], off)
<1>1. CASE /\ Sync /\ UNCHANGED final /\ row' = r /\ saved' = r
           /\ lp' = l /\ resp' = NoResp /\ UNCHANGED off /\ Go("sleep")
  <2>1. PICK n \in Lengths, m \in Nat, z \in 0..ReconnectMax : n = 0 /\ m = 0 /\ z = 0 /\ z < ReconnectMax
    BY Lengthy, CountersAssumption
  <2>2. lp' = [lp EXCEPT !.cand = off, !.mism = m, !.retired = TRUE, !.short = z]
    BY <1>1, <2>1
  <2>3. lp' \in Loops /\ lp'.short < ReconnectMax
    BY <2>1, <2>2, StreamFacts DEF Loops
  <2>4. PICK q : q = [row EXCEPT !.total = n, !.exp = n]
    OBVIOUS
  <2>5. q \in RowSet /\ q.map = NoMap
    BY <2>4, StreamFacts DEF RowSet, OneRow
  <2>6. row' = Checkpointed(q, off) /\ saved' = row'
    BY <1>1, <2>1, <2>4
  <2>7. Rowed
    BY <2>5, <2>6, Downed, StreamFacts DEF Rowed, OneRow
  <2> QED
    BY <1>1, <2>3, <2>7, Nothings, StreamFacts
    DEF Sync, Go, Streamed, Framed, Filed, Looped, world, remote, Alone, Replies
<1>2. CASE Discard
  BY <1>2, DiscardTyped
<1>3. CASE /\ Reconnect(IF off > resp.from THEN [lp EXCEPT !.short = 0] ELSE lp, off, row, resp.limit = 0)
           /\ UNCHANGED files
  <2>1. PICK b \in BOOLEAN : b = (resp.limit = 0)
    BY Zenon
  <2> QED
    BY <1>3, <2>1, BodyReconnects
<1> QED
  BY <1>1, <1>2, <1>3 DEF Short

LEMMA SingleStreams == ASSUME SingleTyped, SingleNext PROVE Streams /\ Streamed
<1>1. Streams
  BY DEF SingleNext, SingleSetup, InterruptSend, InterruptAnswer, InterruptSleep, InterruptAt, Wake,
         Fetch, Replay, FetchFails, Refused, Respond416, RespondFull, RespondKept, RespondPartial,
         RespondZero, ConfirmMatches, ConfirmDiffers, ConfirmFails, Accept, Open, Chunk, Overlong,
         StopBody, BodyEnds, BodyBreaks, Streams, Alone
<1>2. CASE BodyEnds
  BY <1>1, <1>2, ExhaustedTyped, ShortTyped DEF BodyEnds
<1>3. CASE BodyBreaks
  BY <1>1, <1>3, ExhaustedTyped, BodyReconnects DEF BodyBreaks
<1>4. CASE SingleSetup \/ Wake \/ Fetch \/ Respond416 \/ Accept \/ Open \/ Chunk
  BY <1>1, <1>4, SetupTyped, WakeTyped, FetchTyped, Respond416Typed, AcceptTyped, OpenTyped, ChunkTyped
<1> QED
  BY <1>1, <1>2, <1>3, <1>4, RefusalsTyped, AnswersTyped, ConfirmsTyped, StopBodyTyped DEF SingleNext

-----------------------------------------------------------------------------
(* What the maps confirm lies in the files.                                *)

HeldIn(f, m)    == \A p \in Confirmed(m) : f[p] \in Entities
KeptIn(f, d, m) == \A p \in Confirmed(m) : f[p] \in Entities /\ d[p] \in Entities
SafeRow(f, d, r) == KeptIn(f, d, r.map) /\ (r.rejected => r.map = NoMap)
Safe == SafeRow(part, disk, row) /\ SafeRow(part, disk, saved)

\* Where several connections begin, the row is saved.
Starting ==
  /\ stage \in {"multi", "long"} => saved.map = row.map
  /\ stage = "multi" => row.map # NoMap \/ row.total > 0
  /\ stage = "long" => row.map # NoMap

\* The counts of m are at most c: what the row confirms is never taken back.
Above(m, c) == \A s \in SegsOf(m.total) : m.written[s] <= c[s]
OnTop(m, l) == m \in MapSet /\ l \in MapSet /\ l.total = m.total /\ Above(m, l.written)

\* A worker at segment s of a map m in the row: its sink follows bytes that are in the file, and
\* the counts it read before its sync are of bytes that are in the file.
Samples(n) == {<<>>} \cup Counts(n)
WorkerSet(n) == [at : {"end", "fetch", "body", "sync"}, short : Nat, base : Nat,
                 ent : Entities \cup {NoEntity}, upto : Nat, next : Nat, sample : Samples(n)]
BodyOk(f, m, s, v) ==
  v.at = "body" =>
    /\ v.ent \in Entities
    /\ SegFirst(m.total, s) + m.written[s] <= v.next /\ v.next <= v.upto + 1
    /\ v.upto < SegFirst(m.total, s) + SegLen(m.total, s)
    /\ \A p \in Pos : SegFirst(m.total, s) <= p /\ p < v.next => f[p] \in Entities
SyncOk(f, m, v) ==
  v.at = "sync" => v.sample \in Counts(m.total) /\ Above(m, v.sample) /\ HeldIn(f, MapOf(m.total, v.sample))
WorkerOk(f, m, s, v) == v \in WorkerSet(m.total) /\ BodyOk(f, m, s, v) /\ SyncOk(f, m, v)

FloorOk(f, d, m, c) == c \in Counts(m.total) /\ Above(m, c) /\ KeptIn(f, d, MapOf(m.total, c))
Working ==
  stage = "workers" =>
    /\ OnTop(row.map, live) /\ HeldIn(part, live) /\ FloorOk(part, disk, row.map, floor)
    /\ DOMAIN seg = SegsOf(row.map.total) /\ seg = [s \in SegsOf(row.map.total) |-> seg[s]]
    /\ \A s \in SegsOf(row.map.total) : WorkerOk(part, row.map, s, seg[s])
Joined ==
  stage \in {"stopping", "failing", "finalize"} => OnTop(row.map, live) /\ KeptIn(part, disk, live)

IInv == SingleTyped /\ Safe /\ Starting /\ Working /\ Joined

-----------------------------------------------------------------------------
\* Files in which nothing confirmed goes away.
Keeps(f, d, g, h) ==
  \A p \in Pos : /\ f[p] \in Entities => g[p] \in Entities
                 /\ f[p] \in Entities /\ d[p] \in Entities => h[p] \in Entities

Maps == {NoMap} \cup MapSet

LEMMA ConfirmedTyped == ASSUME NEW m \in Maps PROVE Confirmed(m) \subseteq Pos
  BY ConfirmedIs, NothingConfirmed DEF Maps

LEMMA StaysKept ==
  ASSUME NEW f, NEW d, NEW g, NEW h, Keeps(f, d, g, h), NEW m \in Maps
  PROVE  /\ KeptIn(f, d, m) => KeptIn(g, h, m)
         /\ HeldIn(f, m) => HeldIn(g, m)
  BY ConfirmedTyped DEF Keeps, KeptIn, HeldIn

LEMMA KeepsItself ==
  ASSUME NEW f, NEW d
  PROVE  Keeps(f, d, f, d) /\ Keeps(f, d, f, f)
  BY DEF Keeps

\* A map whose counts are lower confirms less.
LEMMA LowerKept ==
  ASSUME NEW m \in MapSet, NEW k \in MapSet, k.total = m.total, Above(m, k.written), NEW f, NEW d
  PROVE  /\ KeptIn(f, d, k) => KeptIn(f, d, m)
         /\ HeldIn(f, k) => HeldIn(f, m)
         /\ Confirmed(m) \subseteq Confirmed(k)
<1>1. Confirmed(m) \subseteq Confirmed(k)
  BY MoreConfirmed DEF Above
<1> QED
  BY <1>1 DEF KeptIn, HeldIn

LEMMA NoMapKept == ASSUME NEW f, NEW d PROVE KeptIn(f, d, NoMap)
  BY NothingConfirmed DEF KeptIn

LEMMA WorkerStays ==
  ASSUME NEW f, NEW d, NEW g, NEW h, Keeps(f, d, g, h), NEW m \in MapSet, NEW s, NEW v, WorkerOk(f, m, s, v)
  PROVE  WorkerOk(g, m, s, v)
<1>1. BodyOk(g, m, s, v)
  BY DEF WorkerOk, BodyOk, Keeps
<1>2. SyncOk(g, m, v)
  <2> SUFFICES ASSUME v.at = "sync" PROVE SyncOk(g, m, v)
    BY DEF SyncOk
  <2>1. v.sample \in Counts(m.total) /\ Above(m, v.sample) /\ HeldIn(f, MapOf(m.total, v.sample))
    BY DEF WorkerOk, SyncOk
  <2>2. MapOf(m.total, v.sample) \in Maps
    BY <2>1, MapParts, MapMade DEF Maps
  <2> QED
    BY <2>1, <2>2, StaysKept DEF SyncOk
<1> QED
  BY <1>1, <1>2 DEF WorkerOk

LEMMA FloorStays ==
  ASSUME NEW f, NEW d, NEW g, NEW h, Keeps(f, d, g, h), NEW m \in MapSet, NEW c, FloorOk(f, d, m, c)
  PROVE  FloorOk(g, h, m, c)
<1>1. MapOf(m.total, c) \in Maps
  BY MapParts, MapMade DEF Maps, FloorOk
<1> QED
  BY <1>1, StaysKept DEF FloorOk

LEMMA RowStays ==
  ASSUME NEW f, NEW d, NEW g, NEW h, Keeps(f, d, g, h), NEW r \in RowSet, SafeRow(f, d, r)
  PROVE  SafeRow(g, h, r)
<1>1. r.map \in Maps
  BY RowFields DEF Maps
<1> QED
  BY <1>1, StaysKept DEF SafeRow

LEMMA OneRowSafe == ASSUME NEW f, NEW d, NEW r, OneRow(r) PROVE SafeRow(f, d, r)
  BY NoMapKept DEF OneRow, SafeRow

LEMMA SingleInv == ASSUME IInv, SingleNext, UNCHANGED multi PROVE IInv'
<1>1. Streamed /\ Streams
  BY SingleStreams DEF IInv
<1>2. SingleTyped'
  BY <1>1 DEF Streamed, Framed, Filed, Rowed, Looped, OneRow, SingleTyped, Typed, Answered, Sleeping,
              Mapless, IInv, multi, Alone, Stages
<1>3. Safe'
  BY <1>1, OneRowSafe DEF Streamed, Rowed, Safe
<1>4. stage' \notin {"multi", "long", "workers", "stopping", "failing", "finalize"}
  BY <1>1 DEF Streamed, Looped, Alone
<1> QED
  BY <1>2, <1>3, <1>4 DEF IInv, Starting, Working, Joined

-----------------------------------------------------------------------------
(* The segment workers.                                                    *)

LEMMA NewWorkers ==
  ASSUME NEW m \in MapSet, NEW f, NEW s
  PROVE  /\ NoWorker \in WorkerSet(m.total) /\ WorkerOk(f, m, s, NoWorker)
         /\ WorkerOk(f, m, s, [NoWorker EXCEPT !.at = "fetch"])
         /\ \A k \in Nat : WorkerOk(f, m, s, [NoWorker EXCEPT !.at = "fetch", !.short = k])
<1>1. NoWorker \in WorkerSet(m.total) /\ NoWorker.at = "end"
  BY DEF NoWorker, WorkerSet, Samples
<1>2. [NoWorker EXCEPT !.at = "fetch"] \in WorkerSet(m.total) /\ [NoWorker EXCEPT !.at = "fetch"].at = "fetch"
  BY <1>1 DEF WorkerSet
<1>3. ASSUME NEW k \in Nat
      PROVE  WorkerOk(f, m, s, [NoWorker EXCEPT !.at = "fetch", !.short = k])
  <2>1. PICK v : v = [NoWorker EXCEPT !.at = "fetch", !.short = k]
    OBVIOUS
  <2>2. v \in WorkerSet(m.total) /\ v.at = "fetch"
    BY <1>1, <2>1 DEF WorkerSet
  <2>3. WorkerOk(f, m, s, v)
    BY <2>2 DEF WorkerOk, BodyOk, SyncOk
  <2> QED
    BY <2>1, <2>3
<1>4. WorkerOk(f, m, s, NoWorker)
  BY <1>1 DEF WorkerOk, BodyOk, SyncOk
<1>5. WorkerOk(f, m, s, [NoWorker EXCEPT !.at = "fetch"])
  <2>1. PICK v : v = [NoWorker EXCEPT !.at = "fetch"]
    OBVIOUS
  <2>2. WorkerOk(f, m, s, v)
    BY <1>2, <2>1 DEF WorkerOk, BodyOk, SyncOk
  <2> QED
    BY <2>1, <2>2
<1> QED
  BY <1>1, <1>3, <1>4, <1>5

WorkingNow == IInv /\ stage = "workers" /\ UNCHANGED single

LEMMA WorkFacts ==
  ASSUME WorkingNow
  PROVE  /\ row.map \in MapSet /\ live \in MapSet /\ live.total = row.map.total /\ OnTop(row.map, live)
         /\ row \in RowSet /\ saved \in RowSet /\ part \in FileSet /\ disk \in FileSet
         /\ HeldIn(part, live) /\ FloorOk(part, disk, row.map, floor)
         /\ Segs = SegsOf(row.map.total) /\ seg = [s \in SegsOf(row.map.total) |-> seg[s]]
         /\ \A s \in Segs : WorkerOk(part, row.map, s, seg[s]) /\ seg[s] \in WorkerSet(row.map.total)
         /\ SafeRow(part, disk, row) /\ SafeRow(part, disk, saved)
         /\ cur \in Entities
  BY DEF WorkingNow, IInv, Working, OnTop, Safe, SingleTyped, Typed, Segs, WorkerOk

LEMMA PutKeeps ==
  ASSUME WorkingNow, MSame, NEW s \in Segs, NEW v, Put(s, v),
         part' \in FileSet, disk' \in FileSet, Keeps(part, disk, part', disk'),
         OnTop(row.map, live'), HeldIn(part', live'), FloorOk(part', disk', row.map, floor'),
         WorkerOk(part', row.map, s, v)
  PROVE  IInv'
<1>1. SingleTyped'
  BY DEF WorkingNow, IInv, SingleTyped, Typed, Answered, Sleeping, Mapless, MSame, OnTop, single,
         world, remote, rows
<1>2. Safe'
  BY WorkFacts, RowStays DEF MSame, rows, Safe
<1>3. stage' = "workers" /\ row' = row
  BY DEF MSame, WorkingNow, rows
<1>4. Starting' /\ Joined'
  BY <1>3 DEF Starting, Joined
<1>5. \A q \in SegsOf(row.map.total) : WorkerOk(part', row.map, q, seg[q])
  BY WorkFacts, WorkerStays
<1>6. /\ seg' = [q \in SegsOf(row.map.total) |-> seg'[q]] /\ DOMAIN seg' = SegsOf(row.map.total)
      /\ \A q \in SegsOf(row.map.total) : seg'[q] = IF q = s THEN v ELSE seg[q]
  BY WorkFacts DEF Put
<1>7. \A q \in SegsOf(row.map.total) : WorkerOk(part', row.map, q, seg'[q])
  BY <1>5, <1>6
<1>8. Working'
  BY <1>3, <1>6, <1>7 DEF Working
<1> QED
  BY <1>1, <1>2, <1>4, <1>8 DEF IInv

LEMMA PutQuiet ==
  ASSUME WorkingNow, MSame, NEW s \in Segs, NEW v, Put(s, v), UNCHANGED <<part, disk, live, floor>>,
         WorkerOk(part, row.map, s, v)
  PROVE  IInv'
  BY PutKeeps, WorkFacts, KeepsItself

LEMMA SegmentFacts ==
  ASSUME WorkingNow, NEW s \in Segs
  PROVE  /\ First(s) = SegFirst(row.map.total, s) /\ First(s) \in Nat \ {0}
         /\ Last(s) = First(s) + SegLen(row.map.total, s) - 1 /\ SegLen(row.map.total, s) \in Nat
         /\ Last(s) \in Nat /\ Last(s) <= MaxLen
         /\ SegLen(row.map.total, s) <= MaxLen
         /\ live.written[s] \in 0..MaxLen /\ row.map.written[s] \in 0..MaxLen
         /\ row.map.written[s] <= live.written[s]
         /\ Next_(s) = First(s) + live.written[s] /\ Next_(s) \in Nat
         /\ seg[s].short \in Nat /\ seg[s].next \in Nat /\ seg[s].upto \in Nat /\ seg[s].base \in Nat
<1>1. s \in SegsOf(row.map.total) /\ row.map.total \in 1..MaxLen /\ row.map.total \in Nat
  BY WorkFacts, MapParts, LengthsAssumption
<1>2. /\ First(s) = SegFirst(row.map.total, s) /\ Next_(s) = First(s) + live.written[s]
      /\ Last(s) = First(s) + SegLen(row.map.total, s) - 1
  BY WorkFacts DEF First, Last, Next_
<1>3. /\ SegLen(row.map.total, s) \in Nat /\ SegFirst(row.map.total, s) \in Nat \ {0}
      /\ SegFirst(row.map.total, s) + SegLen(row.map.total, s) - 1 <= row.map.total
      /\ SegLen(row.map.total, s) <= MaxLen
  BY <1>1, Geometry
<1>4. live.written[s] \in 0..MaxLen /\ row.map.written[s] \in 0..MaxLen
  BY <1>1, WorkFacts, MapParts
<1>5. row.map.written[s] <= live.written[s]
  BY <1>1, WorkFacts DEF OnTop, Above
<1>6. seg[s].short \in Nat /\ seg[s].next \in Nat /\ seg[s].upto \in Nat /\ seg[s].base \in Nat
  BY <1>1, WorkFacts DEF WorkerSet
<1> QED
  BY <1>1, <1>2, <1>3, <1>4, <1>5, <1>6, LengthsAssumption

LEMMA SegErrorKeeps ==
  ASSUME WorkingNow, MSame, NEW s \in Segs, SegError(s) PROVE IInv'
  BY PutQuiet, NewWorkers, WorkFacts DEF SegError, Ended

LEMMA SegRetryKeeps ==
  ASSUME WorkingNow, MSame, NEW s \in Segs, NEW k \in Nat, SegRetry(s, k) PROVE IInv'
<1>1. CASE Put(s, [NoWorker EXCEPT !.at = "fetch", !.short = k + 1]) /\ UNCHANGED <<part, disk, live, floor>>
  <2>1. WorkerOk(part, row.map, s, [NoWorker EXCEPT !.at = "fetch", !.short = k + 1])
    <3>1. PICK j \in Nat : j = k + 1
      OBVIOUS
    <3>2. WorkerOk(part, row.map, s, [NoWorker EXCEPT !.at = "fetch", !.short = j])
      BY NewWorkers, WorkFacts
    <3> QED
      BY <3>1, <3>2
  <2> QED
    BY <1>1, <2>1, PutQuiet
<1>2. CASE SegError(s)
  BY <1>2, SegErrorKeeps
<1> QED
  BY <1>1, <1>2 DEF SegRetry

LEMMA SegFetchKeeps ==
  ASSUME WorkingNow, NEW s \in Segs, SegFetch(s) PROVE IInv'
<1>1. PICK e \in Next_(s)..Least(Last(s), Size(cur)) :
        Put(s, [seg[s] EXCEPT !.at = "body", !.ent = cur, !.upto = e, !.base = live.written[s], !.next = Next_(s)])
  BY DEF SegFetch
<1>2. PICK v : v = [seg[s] EXCEPT !.at = "body", !.ent = cur, !.upto = e, !.base = live.written[s], !.next = Next_(s)]
  OBVIOUS
<1>3. e \in Nat /\ Next_(s) <= e /\ e <= Last(s)
  <2>1. Size(cur) \in Nat
    BY Sizes DEF WorkingNow, IInv, SingleTyped, Typed
  <2> QED
    BY <1>1, <2>1, SegmentFacts DEF Least
<1>4. /\ v \in WorkerSet(row.map.total) /\ v.at = "body" /\ v.ent = cur /\ v.upto = e /\ v.next = Next_(s)
  <2>1. PICK b \in Nat, x \in Nat : b = live.written[s] /\ x = Next_(s)
    BY SegmentFacts
  <2>2. v = [seg[s] EXCEPT !.at = "body", !.ent = cur, !.upto = e, !.base = b, !.next = x]
    BY <1>2, <2>1
  <2>3. seg[s] \in WorkerSet(row.map.total) /\ cur \in Entities
    BY WorkFacts
  <2> QED
    BY <1>3, <2>1, <2>2, <2>3 DEF WorkerSet
<1>5. \A p \in Pos : SegFirst(row.map.total, s) <= p /\ p < Next_(s) => part[p] \in Entities
  <2> TAKE p \in Pos
  <2> HAVE SegFirst(row.map.total, s) <= p /\ p < Next_(s)
  <2>1. s \in SegsOf(live.total) /\ SegFirst(live.total, s) <= p /\ p < SegFirst(live.total, s) + live.written[s]
    BY WorkFacts, SegmentFacts
  <2>2. p \in Confirmed(live)
    BY <2>1, WorkFacts, ConfirmedIs
  <2> QED
    BY <2>2, WorkFacts DEF HeldIn
<1>6. WorkerOk(part, row.map, s, v)
  BY <1>3, <1>4, <1>5, WorkFacts, SegmentFacts DEF WorkerOk, BodyOk, SyncOk
<1> QED
  BY <1>1, <1>2, <1>6, PutQuiet DEF SegFetch

\* A byte at the sink.
LEMMA SinkWrites ==
  ASSUME WorkingNow, NEW s \in Segs, seg[s].at = "body", More(s)
  PROVE  /\ seg[s].next \in Pos
         /\ Written(part, seg[s].next, seg[s].ent) \in FileSet
         /\ Written(part, seg[s].next, seg[s].ent)[seg[s].next] \in Entities
         /\ Keeps(part, disk, Written(part, seg[s].next, seg[s].ent), disk)
<1>1. BodyOk(part, row.map, s, seg[s])
  BY WorkFacts DEF WorkerOk
<1>2. seg[s].ent \in Entities /\ seg[s].next \in Pos
  BY <1>1, SegmentFacts, WorkFacts, LengthsAssumption DEF BodyOk, More, Pos
<1>3. PICK g : g = Written(part, seg[s].next, seg[s].ent)
  OBVIOUS
<1>4. g \in FileSet /\ g[seg[s].next] = seg[s].ent /\ \A q \in Pos : q # seg[s].next /\ part[q] # Nil => g[q] = part[q]
  BY <1>2, <1>3, FilesTyped, WorkFacts
<1>5. Keeps(part, disk, g, disk)
  BY <1>2, <1>4, ValuesAssumption DEF Keeps
<1> QED
  BY <1>2, <1>3, <1>4, <1>5

LEMMA SegChunkKeeps ==
  ASSUME WorkingNow, NEW s \in Segs, SegChunk(s) PROVE IInv'
<1> DEFINE n == row.map.total
           k == seg[s].next - First(s) + 1
           g == Written(part, seg[s].next, seg[s].ent)
           c == [live.written EXCEPT ![s] = k]
           v == [seg[s] EXCEPT !.next = @ + 1]
<1>0. seg[s].at = "body" /\ More(s) /\ MSame /\ Put(s, v) /\ part' = g /\ UNCHANGED <<disk, floor>>
      /\ live' = [live EXCEPT !.written[s] = k]
  BY DEF SegChunk, InWorkers
<1>1. BodyOk(part, row.map, s, seg[s]) /\ s \in SegsOf(n)
  BY WorkFacts DEF WorkerOk
<1>2. /\ k \in 0..MaxLen /\ k <= SegLen(n, s) /\ row.map.written[s] <= k
  BY <1>0, <1>1, SegmentFacts, LengthsAssumption DEF BodyOk, More
<1>3. c \in Counts(n) /\ Above(row.map, c)
  <2> HIDE DEF k
  <2>1. live.written \in Counts(n) /\ \A q \in SegsOf(n) : row.map.written[q] <= live.written[q]
    BY WorkFacts, MapParts DEF OnTop, Above
  <2> QED
    BY <1>1, <1>2, <2>1 DEF Counts, Above
<1>4. live' = MapOf(n, c)
  <2> HIDE DEF k
  <2>1. live = MapOf(n, live.written)
    BY WorkFacts, MapParts
  <2> QED
    BY <1>0, <2>1 DEF MapOf
<1>5. OnTop(row.map, live') /\ live' \in MapSet /\ live'.written = c /\ live'.total = n
  <2> HIDE DEF c
  <2> QED BY <1>3, <1>4, WorkFacts, MapMade, MapParts DEF OnTop
<1>6. /\ seg[s].next \in Pos /\ g \in FileSet /\ g[seg[s].next] \in Entities /\ Keeps(part, disk, g, disk)
  BY <1>0, SinkWrites
<1>7. ASSUME NEW p \in Confirmed(live') PROVE g[p] \in Entities
  <2>0. p \in Pos /\ p \in Nat
    BY <1>5, ConfirmedIs DEF Pos
  <2>1. PICK q \in SegsOf(n) : SegFirst(n, q) <= p /\ p < SegFirst(n, q) + c[q]
    BY <1>5, <1>7, <2>0, ConfirmedIs
  <2>2. CASE q # s
    <3>1. c[q] = live.written[q]
      BY <2>1, <2>2, WorkFacts, MapParts
    <3>2. p \in Confirmed(live)
      BY <2>0, <2>1, <3>1, WorkFacts, ConfirmedIs
    <3> QED
      BY <1>6, <2>0, <3>2, WorkFacts DEF HeldIn, Keeps
  <2>3. CASE q = s
    <3>1. c[s] = k
      BY <1>1, WorkFacts, MapParts
    <3>2. p < seg[s].next \/ p = seg[s].next
      BY <2>0, <2>1, <2>3, <3>1, SegmentFacts
    <3>3. p < seg[s].next => part[p] \in Entities
      BY <1>0, <1>1, <2>0, <2>1, <2>3 DEF BodyOk
    <3> QED
      BY <1>6, <2>0, <3>2, <3>3 DEF Keeps
  <2> QED
    BY <2>2, <2>3
<1>8. HeldIn(part', live')
  BY <1>0, <1>7 DEF HeldIn
<1>9. FloorOk(part', disk', row.map, floor')
  BY <1>0, <1>6, FloorStays, WorkFacts
<1>10. WorkerOk(part', row.map, s, v)
  <2>1. PICK x \in Nat : x = seg[s].next + 1
    BY SegmentFacts
  <2>2. PICK u : u = [seg[s] EXCEPT !.next = x]
    OBVIOUS
  <2>3. /\ u \in WorkerSet(n) /\ u.at = "body" /\ u.ent = seg[s].ent /\ u.upto = seg[s].upto /\ u.next = x
    BY <1>0, <2>2, WorkFacts DEF WorkerSet
  <2>4. \A p \in Pos : SegFirst(n, s) <= p /\ p < x => g[p] \in Entities
    <3> TAKE p \in Pos
    <3> HAVE SegFirst(n, s) <= p /\ p < x
    <3>1. p < seg[s].next \/ p = seg[s].next
      BY <2>1, SegmentFacts DEF Pos
    <3>2. p < seg[s].next => part[p] \in Entities
      BY <1>0, <1>1 DEF BodyOk
    <3> QED
      BY <1>6, <3>1, <3>2 DEF Keeps
  <2>5. /\ SegFirst(n, s) + row.map.written[s] <= x /\ x <= u.upto + 1 /\ seg[s].ent \in Entities
        /\ u.upto < SegFirst(n, s) + SegLen(n, s)
    BY <1>0, <1>1, <2>1, <2>3, SegmentFacts DEF BodyOk, More
  <2>6. WorkerOk(g, row.map, s, u)
    BY <2>3, <2>4, <2>5 DEF WorkerOk, BodyOk, SyncOk
  <2> QED
    BY <1>0, <2>1, <2>2, <2>6
<1> HIDE DEF c, g, k, v
<1> QED
  BY <1>0, <1>5, <1>6, <1>8, <1>9, <1>10, PutKeeps, WorkFacts

LEMMA SegStopKeeps ==
  ASSUME WorkingNow, NEW s \in Segs, SegStop(s) PROVE IInv'
<1>1. CASE Ended(s)
  BY <1>1, PutQuiet, NewWorkers, WorkFacts DEF SegStop, Ended
<1>2. CASE Put(s, [NoWorker EXCEPT !.at = "sync", !.sample = live.written])
  <2>1. live.written \in Counts(row.map.total) /\ live = MapOf(row.map.total, live.written)
    BY WorkFacts, MapParts
  <2>2. PICK v : v = [NoWorker EXCEPT !.at = "sync", !.sample = live.written]
    OBVIOUS
  <2>3. NoWorker \in WorkerSet(row.map.total)
    BY NewWorkers, WorkFacts
  <2>4. v \in WorkerSet(row.map.total) /\ v.at = "sync" /\ v.sample = live.written
    BY <2>1, <2>2, <2>3 DEF WorkerSet, Samples
  <2>5. Above(row.map, live.written) /\ HeldIn(part, MapOf(row.map.total, live.written))
    BY <2>1, WorkFacts DEF OnTop
  <2>6. WorkerOk(part, row.map, s, v)
    BY <2>1, <2>4, <2>5 DEF WorkerOk, BodyOk, SyncOk
  <2> QED
    BY <1>2, <2>2, <2>6, PutQuiet DEF SegStop
<1> QED
  BY <1>1, <1>2 DEF SegStop

\* What a failed sync leaves of the counts was synced before.
LEMMA ClampedKept ==
  ASSUME NEW m \in MapSet, NEW l, OnTop(m, l), NEW c, NEW f, NEW d, FloorOk(f, d, m, c)
  PROVE  OnTop(m, Clamped(l, c)) /\ KeptIn(f, d, Clamped(l, c)) /\ HeldIn(f, Clamped(l, c))
<1> DEFINE n == m.total
           low == [s \in SegsOf(n) |-> Least(l.written[s], c[s])]
<1>1. l \in MapSet /\ l.total = n /\ Above(m, l.written) /\ c \in Counts(n) /\ Above(m, c)
      /\ KeptIn(f, d, MapOf(n, c)) /\ n \in 1..MaxLen
  BY MapParts DEF OnTop, FloorOk
<1>2. \A s \in SegsOf(n) : /\ l.written[s] \in 0..MaxLen /\ c[s] \in 0..MaxLen /\ m.written[s] \in 0..MaxLen
                           /\ l.written[s] <= SegLen(n, s)
                           /\ m.written[s] <= l.written[s] /\ m.written[s] <= c[s]
  BY <1>1, MapParts DEF Above, Counts
<1>3. low \in Counts(n) /\ Above(m, low)
  <2>1. \A s \in SegsOf(n) : /\ low[s] \in 0..MaxLen /\ low[s] <= SegLen(n, s) /\ m.written[s] <= low[s]
    <3> TAKE s \in SegsOf(n)
    <3>1. SegLen(n, s) \in Nat
      BY <1>1, Geometry
    <3> QED
      BY <1>2, <3>1, LengthsAssumption DEF Least
  <2> QED
    BY <2>1 DEF Counts, Above
<1>4. \A s \in SegsOf(n) : low[s] <= c[s]
  BY <1>2, LengthsAssumption DEF Least
<1>5. DOMAIN c = SegsOf(n)
  BY <1>1 DEF Counts
<1>6. l = MapOf(n, l.written)
  BY <1>1, MapParts
<1>7. Clamped(l, c) = MapOf(n, low)
  <2>1. Clamped(l, c) = [l EXCEPT !.written = low]
    BY <1>5 DEF Clamped
  <2> HIDE DEF low
  <2> QED
    BY <1>6, <2>1 DEF MapOf
<1> HIDE DEF low
<1>8. /\ MapOf(n, low) \in MapSet /\ MapOf(n, low).total = n /\ MapOf(n, low).written = low
      /\ MapOf(n, c) \in MapSet /\ MapOf(n, c).total = n /\ MapOf(n, c).written = c
  BY <1>1, <1>3, MapMade
<1>9. KeptIn(f, d, MapOf(n, low))
  BY <1>1, <1>4, <1>8, LowerKept DEF Above
<1>10. HeldIn(f, MapOf(n, low))
  BY <1>9 DEF KeptIn, HeldIn
<1> QED
  BY <1>3, <1>7, <1>8, <1>9, <1>10 DEF OnTop

LEMMA SegSyncKeeps ==
  ASSUME WorkingNow, NEW s \in Segs, SegSync(s) PROVE IInv'
<1>0. seg[s].at = "sync" /\ MSame /\ Put(s, NoWorker) /\ SyncOk(part, row.map, seg[s])
  BY WorkFacts DEF SegSync, InWorkers, Ended, WorkerOk
<1>1. CASE Sync /\ floor' = seg[s].sample /\ UNCHANGED live
  <2>1. FloorOk(part, part, row.map, seg[s].sample)
    BY <1>0 DEF SyncOk, FloorOk, HeldIn, KeptIn
  <2>2. part' = part /\ disk' = part
    BY <1>1 DEF Sync
  <2> QED
    BY <1>0, <1>1, <2>1, <2>2, PutKeeps, WorkFacts, KeepsItself, NewWorkers
<1>2. CASE UNCHANGED <<part, disk, floor>> /\ live' = Clamped(live, floor)
  <2>1. OnTop(row.map, live') /\ HeldIn(part, live')
    BY <1>2, ClampedKept, WorkFacts
  <2> QED
    BY <1>0, <1>2, <2>1, PutKeeps, WorkFacts, KeepsItself, NewWorkers
<1> QED
  BY <1>1, <1>2 DEF SegSync

LEMMA SegAbortedKeeps ==
  ASSUME WorkingNow, NEW s \in Segs, SegAborted(s) PROVE IInv'
<1>0. MSame /\ Put(s, NoWorker) /\ UNCHANGED <<disk, live, floor>>
  BY DEF SegAborted, Ended
<1>1. CASE UNCHANGED part
  BY <1>0, <1>1, PutQuiet, NewWorkers, WorkFacts
<1>2. CASE seg[s].at = "body" /\ More(s) /\ part' = Written(part, seg[s].next, seg[s].ent)
  <2>1. part' \in FileSet /\ Keeps(part, disk, part', disk')
    BY <1>0, <1>2, SinkWrites
  <2>2. HeldIn(part', live')
    <3>1. live \in Maps /\ HeldIn(part, live)
      BY WorkFacts DEF Maps
    <3> QED
      BY <1>0, <2>1, <3>1, StaysKept
  <2>3. FloorOk(part', disk', row.map, floor')
    BY <1>0, <2>1, FloorStays, WorkFacts
  <2> QED
    BY <1>0, <2>1, <2>2, <2>3, PutKeeps, NewWorkers, WorkFacts
<1> QED
  BY <1>1, <1>2 DEF SegAborted

SegmentStep(s) ==
  \/ SegInterrupt(s) \/ SegFetch(s) \/ SegRefused(s) \/ SegFetchFails(s)
  \/ SegChunk(s) \/ SegEnds(s) \/ SegBreaks(s) \/ SegStop(s) \/ SegSync(s) \/ SegAborted(s)

LEMMA SegmentKeeps ==
  ASSUME IInv, UNCHANGED single, NEW s \in Segs, SegmentStep(s) PROVE IInv' /\ UNCHANGED rows
<1>1. WorkingNow /\ MSame
  BY DEF SegmentStep, SegInterrupt, SegFetch, SegRefused, SegFetchFails, SegChunk, SegEnds, SegBreaks,
         SegStop, SegSync, SegAborted, InWorkers, WorkingNow
<1> SUFFICES IInv'
  BY <1>1 DEF MSame
<1>2. CASE SegInterrupt(s)
  BY <1>1, <1>2, PutQuiet, NewWorkers, WorkFacts DEF SegInterrupt, Ended
<1>3. CASE SegRefused(s)
  BY <1>1, <1>3, SegErrorKeeps DEF SegRefused
<1>4. CASE SegFetchFails(s) \/ SegBreaks(s)
  <2>1. PICK k \in Nat : SegRetry(s, k)
    <3>1. CASE SegFetchFails(s)
      BY <1>1, <3>1, SegmentFacts DEF SegFetchFails
    <3>2. CASE SegBreaks(s)
      BY <1>1, <3>2, SegmentFacts DEF SegBreaks
    <3> QED
      BY <1>4, <3>1, <3>2
  <2> QED
    BY <1>1, <2>1, SegRetryKeeps
<1>5. CASE SegEnds(s)
  <2>1. /\ Put(s, [NoWorker EXCEPT !.at = IF Next_(s) > Last(s) THEN "end" ELSE "fetch"])
        /\ UNCHANGED <<part, disk, live, floor>>
    BY <1>5 DEF SegEnds
  <2>2. PICK a \in {"end", "fetch"} : a = IF Next_(s) > Last(s) THEN "end" ELSE "fetch"
    OBVIOUS
  <2>3. PICK v : v = [NoWorker EXCEPT !.at = a]
    OBVIOUS
  <2>4. NoWorker \in WorkerSet(row.map.total)
    BY <1>1, NewWorkers, WorkFacts
  <2>5. v \in WorkerSet(row.map.total) /\ v.at = a
    BY <2>3, <2>4 DEF WorkerSet
  <2>6. WorkerOk(part, row.map, s, v)
    BY <2>2, <2>5 DEF WorkerOk, BodyOk, SyncOk
  <2> QED
    BY <1>1, <2>1, <2>2, <2>3, <2>6, PutQuiet
<1> QED
  BY <1>1, <1>2, <1>3, <1>4, <1>5, SegFetchKeeps, SegChunkKeeps, SegStopKeeps, SegSyncKeeps,
     SegAbortedKeeps DEF SegmentStep

-----------------------------------------------------------------------------
(* The start and the end of several connections.                           *)

\* A step after which nothing is under way: idle, or a stage whose facts are given.
LEMMA Restful ==
  ASSUME IInv, UNCHANGED <<sc, cur>>, part' \in FileSet, disk' \in FileSet, final' \in FileSet,
         row' \in RowSet, saved' \in RowSet, SafeRow(part', disk', row'), SafeRow(part', disk', saved'),
         old' \in {"none", "target", "aside"}, ctl' \in {"run", "pause", "cancel"},
         stage' \in {"idle", "finish", "swap", "preflight"}, outcome' \in Outcomes,
         off' \in Lengths, lp' \in Loops, resp' \in Resps, live' \in Maps
  PROVE  IInv'
  BY DEF IInv, SingleTyped, Typed, Answered, Sleeping, Mapless, Safe, Starting, Working, Joined, Maps,
         Stages, Replies, Alone

LEMMA InvFacts ==
  ASSUME IInv
  PROVE  /\ part \in FileSet /\ disk \in FileSet /\ final \in FileSet /\ row \in RowSet /\ saved \in RowSet
         /\ SafeRow(part, disk, row) /\ SafeRow(part, disk, saved) /\ live \in Maps
         /\ row.map \in Maps /\ saved.map \in Maps /\ row.total \in Lengths /\ row.exp \in Lengths
         /\ row.rejected \in BOOLEAN /\ row.fmt \in {0, 1}
         /\ old \in {"none", "target", "aside"} /\ ctl \in {"run", "pause", "cancel"} /\ outcome \in Outcomes
         /\ off \in Lengths /\ lp \in Loops /\ resp \in Resps /\ cur \in Entities
         /\ (row.rejected => row.map = NoMap) /\ (saved.rejected => saved.map = NoMap)
  BY RowFields DEF IInv, SingleTyped, Typed, Safe, SafeRow, Maps

LEMMA MapRowTyped ==
  ASSUME NEW r \in RowSet, NEW m \in MapSet
  PROVE  MapRow(r, m) \in RowSet /\ MapRow(r, m).map = m /\ MapRow(r, m).rejected = r.rejected
<1>1. PICK n \in Lengths, k \in Lengths, one \in {1} : n = m.total /\ k = WrittenSum(m)
  BY MapParts, SumTyped DEF Lengths
<1>2. PICK q : q = [r EXCEPT !.fmt = one, !.map = m, !.total = n, !.down = k, !.resume = TRUE]
  OBVIOUS
<1>3. q \in RowSet /\ q.map = m /\ q.rejected = r.rejected
  BY <1>2 DEF RowSet
<1>4. MapRow(r, m) = q
  BY <1>1, <1>2, Zenon DEF MapRow
<1> QED
  BY <1>3, <1>4

LEMMA RolledTyped ==
  ASSUME NEW r \in RowSet
  PROVE  OneRow(RolledBack(r)) /\ RolledBack(r).rejected = r.rejected
<1>1. PICK z \in {0} : TRUE
  OBVIOUS
<1>2. RolledBack(r) = [r EXCEPT !.fmt = z, !.map = NoMap]
  BY <1>1 DEF RolledBack
<1> QED
  BY <1>2 DEF OneRow, RowSet

LEMMA EndedMulti ==
  ASSUME IInv, UNCHANGED single, NEW o \in Outcomes, MEnd(o), final' = final,
         part' \in FileSet, disk' \in FileSet, row' \in RowSet, saved' \in RowSet,
         SafeRow(part', disk', row'), SafeRow(part', disk', saved')
  PROVE  IInv'
  BY Restful, InvFacts DEF MEnd, End, MIdle, single, world, remote, Maps

LEMMA DeclinedKeeps ==
  ASSUME IInv, UNCHANGED single, MultiDeclined PROVE IInv'
<1>1. OneRow(row') /\ OneRow(saved')
  <2>1. CASE row.rejected /\ UNCHANGED rows
    BY <2>1, InvFacts DEF MultiDeclined, OneRow, rows, IInv, Starting
  <2>2. CASE Commit(RolledBack(row))
    BY <2>2, RolledTyped, InvFacts DEF Commit
  <2> QED
    BY <2>1, <2>2 DEF MultiDeclined
<1>2. stage' = "single" /\ UNCHANGED <<sc, cur, old, ctl, outcome, part, disk, final, off, lp, resp, live>>
  BY DEF MultiDeclined, MGo, world, remote, files, multi, single
<1>3. SingleTyped'
  BY <1>1, <1>2, InvFacts DEF IInv, SingleTyped, Typed, Answered, Sleeping, Mapless, OneRow, Stages,
                             Replies, Maps
<1> QED
  BY <1>1, <1>2, <1>3, OneRowSafe DEF IInv, Safe, Starting, Working, Joined

\* fail_start leaves a row without a map, or the row as it was.
LEMMA FailStartKeeps ==
  ASSUME IInv, UNCHANGED single, NEW long \in BOOLEAN, NEW r \in RowSet, r.rejected = row.rejected,
         row.map # NoMap => r.map = row.map, FailStart(long, r)
  PROVE  IInv'
<1>1. MEnd("failed") /\ final' = final /\ "failed" \in Outcomes
  BY DEF FailStart, MFail, Outcomes
<1>2. CASE Commit(RolledBack(r)) /\ (IF long THEN Store(Empty) ELSE UNCHANGED <<part, disk>>)
  <2>1. OneRow(row') /\ OneRow(saved')
    BY <1>2, RolledTyped DEF Commit
  <2>2. part' \in FileSet /\ disk' \in FileSet
    BY <1>2, InvFacts, FilesTyped DEF Store
  <2> QED
    BY <1>1, <2>1, <2>2, OneRowSafe, EndedMulti DEF OneRow
<1>3. CASE row.map # NoMap /\ row' = r /\ UNCHANGED <<saved, part, disk>>
  <2>1. SafeRow(part, disk, r)
    BY <1>3, InvFacts DEF SafeRow
  <2> QED
    BY <1>1, <1>3, <2>1, InvFacts, EndedMulti
<1> QED
  BY <1>2, <1>3 DEF FailStart

LEMMA StartKeeps ==
  ASSUME IInv, UNCHANGED single, MultiStart PROVE IInv'
<1> DEFINE n == KnownTotal
           m == PreparedMap(n)
<1>0. stage = "multi" /\ ~row.rejected /\ saved.map = row.map /\ (row.map # NoMap \/ row.total > 0)
  BY DEF MultiStart, IInv, Starting
<1>1. m \in MapSet /\ (row.map # NoMap => m = row.map) /\ (row.map = NoMap => Confirmed(m) = {})
  <2>1. CASE row.map # NoMap
    BY <2>1, InvFacts DEF PreparedMap, Maps
  <2>2. CASE row.map = NoMap
    <3>1. n = row.total /\ n \in 1..MaxLen
      BY <1>0, <2>2, InvFacts DEF KnownTotal, Lengths
    <3> QED
      BY <2>2, <3>1, FreshMapMade DEF PreparedMap
  <2> QED
    BY <2>1, <2>2
<1>6. \/ MFail /\ UNCHANGED <<files, rows>>
      \/ /\ Commit(MapRow(row, m)) /\ MGo("long") /\ UNCHANGED <<final, live>>
         /\ IF row.map = NoMap THEN Store(Empty) ELSE UNCHANGED <<part, disk>>
      \/ FailStart(FALSE, MapRow(row, m))
  <2>1. \/ MFail /\ UNCHANGED <<files, rows>> /\ NoFault
        \/ /\ Commit(MapRow(row, m)) /\ NoFault
           /\ fresh' = (row.map = NoMap)
           /\ IF row.map = NoMap THEN Store(Empty) ELSE UNCHANGED <<part, disk>>
           /\ MGo("long") /\ UNCHANGED <<final, live, floor, seg, err>>
        \/ Fault("commit") /\ FailStart(FALSE, MapRow(row, m))
    BY Zenon DEF MultiStart
  <2> QED
    BY <2>1
<1> HIDE DEF m, n
<1>2. MapRow(row, m) \in RowSet /\ MapRow(row, m).map = m /\ ~MapRow(row, m).rejected
  BY <1>0, <1>1, MapRowTyped, InvFacts
<1>3. CASE MFail /\ UNCHANGED <<files, rows>>
  BY <1>3, InvFacts, EndedMulti DEF MFail, files, rows, Outcomes
<1>4. CASE /\ Commit(MapRow(row, m)) /\ MGo("long") /\ UNCHANGED <<final, live>>
           /\ IF row.map = NoMap THEN Store(Empty) ELSE UNCHANGED <<part, disk>>
  <2>1. part' \in FileSet /\ disk' \in FileSet
    BY <1>4, InvFacts, FilesTyped DEF Store
  <2>2. row' = MapRow(row, m) /\ saved' = row' /\ stage' = "long" /\ m # NoMap
    BY <1>1, <1>4, MapParts DEF Commit, MGo
  <2>3. SafeRow(part', disk', row') /\ SafeRow(part', disk', saved')
    <3>1. CASE row.map = NoMap
      BY <1>1, <1>2, <2>2, <3>1 DEF SafeRow, KeptIn
    <3>2. CASE row.map # NoMap
      BY <1>1, <1>2, <1>4, <2>2, <3>2, InvFacts DEF SafeRow
    <3> QED
      BY <3>1, <3>2
  <2>4. UNCHANGED <<sc, cur, old, ctl, outcome, off, lp, resp, final, live>>
    BY <1>4 DEF MGo, world, remote, single
  <2>5. SingleTyped'
    BY <1>2, <2>1, <2>2, <2>4, InvFacts DEF IInv, SingleTyped, Typed, Answered, Sleeping, Mapless, Stages,
                                       Replies, Alone, Maps
  <2> QED
    BY <1>2, <2>2, <2>3, <2>5 DEF IInv, Safe, Starting, Working, Joined
<1>5. CASE FailStart(FALSE, MapRow(row, m))
  <2>1. PICK long \in BOOLEAN : FailStart(long, MapRow(row, m))
    BY <1>5, Zenon
  <2>2. PICK r : r = MapRow(row, m)
    OBVIOUS
  <2>3. FailStart(long, r)
    BY <2>1, <2>2
  <2>4. r \in RowSet /\ r.rejected = row.rejected /\ (row.map # NoMap => r.map = row.map)
    BY <1>0, <1>1, <1>2, <2>2, InvFacts, MapRowTyped
  <2> QED
    BY <2>3, <2>4, FailStartKeeps
<1> QED
  BY <1>3, <1>4, <1>5, <1>6

\* What a file is made long by keeps what the map confirms.
LEMMA LongKeeps ==
  ASSUME NEW m \in MapSet, NEW f \in FileSet, NEW d \in FileSet, KeptIn(f, d, m)
  PROVE  KeptIn(SetLen(f, m.total), SetLen(d, m.total), m)
<1>1. ASSUME NEW p \in Confirmed(m)
      PROVE  SetLen(f, m.total)[p] \in Entities /\ SetLen(d, m.total)[p] \in Entities
  <2>1. p \in Pos /\ p <= m.total /\ m.total \in Nat /\ f[p] \in Entities /\ d[p] \in Entities
    BY ConfirmedIs, ConfirmedInside, MapParts DEF KeptIn
  <2>2. f[p] # Nil /\ d[p] # Nil
    BY <2>1, ValuesAssumption
  <2> QED
    BY <2>1, <2>2, FilesTyped
<1> QED
  BY <1>1 DEF KeptIn

LEMMA LongerKeeps ==
  ASSUME IInv, UNCHANGED single, MakeLong PROVE IInv'
<1>0. stage = "long" /\ row.map \in MapSet /\ saved.map = row.map /\ ~row.rejected
  BY InvFacts DEF MakeLong, IInv, Starting, Maps
<1>1. CASE \E long \in BOOLEAN : FailStart(long, row)
  BY <1>1, InvFacts, FailStartKeeps
<1>2. CASE /\ StartWorkers /\ UNCHANGED <<final, rows>>
           /\ \/ UNCHANGED <<part, disk>>
              \/ part' = SetLen(part, row.map.total) /\ disk' = SetLen(disk, row.map.total)
  <2> DEFINE m == row.map
             n == m.total
  <2>1. /\ n \in 1..MaxLen /\ m.written \in Counts(n) /\ DOMAIN m.written = SegsOf(n)
        /\ m = MapOf(n, m.written) /\ \A s \in SegsOf(n) : m.written[s] \in 0..MaxLen
    BY <1>0, MapParts
  <2>2. part' \in FileSet /\ disk' \in FileSet
    BY <1>2, <2>1, InvFacts, FilesTyped
  <2>3. KeptIn(part', disk', m)
    BY <1>0, <1>2, InvFacts, LongKeeps DEF SafeRow
  <2>4. row' = row /\ saved' = saved /\ live' = m /\ floor' = m.written /\ stage' \in {"workers", "finalize"}
        /\ UNCHANGED <<sc, cur, old, ctl, outcome, off, lp, resp, final>>
        /\ seg' = [s \in SegsOf(n) |->
                     [NoWorker EXCEPT !.at = IF m.written[s] < SegLen(n, s) THEN "fetch" ELSE "end"]]
    BY <1>2, <2>1 DEF StartWorkers, FloorOf, MGo, rows, world, remote, single
  <2>5. SafeRow(part', disk', row') /\ SafeRow(part', disk', saved')
    BY <1>0, <2>3, <2>4, InvFacts DEF SafeRow
  <2>6. OnTop(m, m) /\ Above(m, m.written)
    BY <1>0, <2>1, LengthsAssumption DEF OnTop, Above
  <2>7. HeldIn(part', m) /\ FloorOk(part', disk', m, m.written)
    BY <2>1, <2>3, <2>6 DEF HeldIn, KeptIn, FloorOk
  <2>8. ASSUME NEW s \in SegsOf(n) PROVE WorkerOk(part', m, s, seg'[s])
    <3>1. PICK a \in {"end", "fetch"} : a = IF m.written[s] < SegLen(n, s) THEN "fetch" ELSE "end"
      OBVIOUS
    <3>2. PICK v : v = [NoWorker EXCEPT !.at = a]
      OBVIOUS
    <3>3. seg'[s] = v
      BY <2>4, <3>1, <3>2
    <3>4. NoWorker \in WorkerSet(n)
      BY <1>0, NewWorkers
    <3>5. v \in WorkerSet(n) /\ v.at = a
      BY <3>2, <3>4 DEF WorkerSet
    <3>6. WorkerOk(part', m, s, v)
      BY <3>5 DEF WorkerOk, BodyOk, SyncOk
    <3> QED
      BY <3>3, <3>6
  <2>9. seg' = [s \in SegsOf(n) |-> seg'[s]] /\ DOMAIN seg' = SegsOf(n)
    BY <2>4
  <2>10. SingleTyped'
    BY <1>0, <2>2, <2>4, InvFacts DEF IInv, SingleTyped, Typed, Answered, Sleeping, Mapless, Stages,
                                     Replies, Alone, Maps
  <2> HIDE DEF m, n
  <2>11. m = row.map /\ n = m.total
    BY DEF m, n
  <2>12. Working'
    BY <2>4, <2>6, <2>7, <2>8, <2>9, <2>11 DEF Working
  <2>13. Joined'
    BY <2>3, <2>4, <2>6, <2>11 DEF Joined
  <2> QED
    BY <2>4, <2>5, <2>10, <2>12, <2>13 DEF IInv, Safe, Starting
<1> QED
  BY <1>1, <1>2 DEF MakeLong

\* All workers have ended: what the last sync covers, or what is left when it failed.
LEMMA JoinKeeps ==
  ASSUME IInv, UNCHANGED single, Join PROVE IInv'
<1>0. WorkingNow
  BY DEF Join, WorkingNow
<1>1. PICK ok \in BOOLEAN :
        /\ live' = JoinedMap(ok)
        /\ IF ok THEN Sync ELSE UNCHANGED <<part, disk>>
        /\ MGo(IF ~Running THEN "stopping" ELSE IF AllWritten(JoinedMap(ok)) THEN "finalize" ELSE "failing")
  BY DEF Join
<1>2. UNCHANGED <<final, rows>>
  BY DEF Join
<1>3. OnTop(row.map, live') /\ KeptIn(part', disk', live') /\ part' = part /\ disk' \in {part, disk}
  <2>1. CASE ok = TRUE
    BY <1>0, <1>1, <2>1, WorkFacts DEF Sync, JoinedMap, HeldIn, KeptIn
  <2>2. CASE ok = FALSE
    BY <1>0, <1>1, <2>2, WorkFacts, ClampedKept DEF JoinedMap
  <2> QED
    BY <2>1, <2>2
<1>4. stage' \in {"stopping", "finalize", "failing"} /\ UNCHANGED <<sc, cur, old, ctl, outcome, off, lp, resp, final, row, saved>>
  BY <1>1, <1>2 DEF MGo, world, remote, rows, single
<1>5. part' \in FileSet /\ disk' \in FileSet /\ Keeps(part, disk, part', disk')
  BY <1>0, <1>3, WorkFacts, KeepsItself
<1>6. Safe'
  BY <1>0, <1>4, <1>5, WorkFacts, RowStays DEF Safe
<1>7. SingleTyped'
  BY <1>3, <1>4, <1>5 DEF IInv, SingleTyped, Typed, Answered, Sleeping, Mapless, Stages, Replies, Alone, OnTop
<1>8. Joined' /\ Starting' /\ Working'
  BY <1>3, <1>4 DEF Joined, Starting, Working
<1> QED
  BY <1>6, <1>7, <1>8 DEF IInv

\* After the workers: the counts are the row's or more, and the files hold what they confirm.
LEMMA JoinedFacts ==
  ASSUME IInv, stage \in {"stopping", "failing", "finalize"}
  PROVE  /\ row.map \in MapSet /\ live \in MapSet /\ ~row.rejected
         /\ Confirmed(row.map) \subseteq Confirmed(live)
         /\ KeptIn(part, disk, live) /\ KeptIn(part, part, live)
         /\ MapRow(row, live) \in RowSet /\ MapRow(row, live).map = live
         /\ SafeRow(part, disk, MapRow(row, live)) /\ SafeRow(part, part, MapRow(row, live))
<1>1. row.map \in MapSet /\ live \in MapSet /\ live.total = row.map.total /\ Above(row.map, live.written)
      /\ KeptIn(part, disk, live)
  BY DEF IInv, Joined, OnTop
<1>2. ~row.rejected
  BY <1>1, MapParts, InvFacts
<1>3. KeptIn(part, part, live)
  BY <1>1 DEF KeptIn
<1>4. MapRow(row, live) \in RowSet /\ MapRow(row, live).map = live /\ ~MapRow(row, live).rejected
  BY <1>1, <1>2, MapRowTyped, InvFacts
<1>5. Confirmed(row.map) \subseteq Confirmed(live)
  BY <1>1, LowerKept
<1> QED
  BY <1>1, <1>2, <1>3, <1>4, <1>5 DEF SafeRow

LEMMA SyncSafe ==
  ASSUME IInv
  PROVE  /\ SafeRow(part, part, row) /\ SafeRow(part, part, saved)
         /\ SafeRow(part, disk, row) /\ SafeRow(part, disk, saved)
  BY InvFacts, KeepsItself, RowStays

LEMMA StoppedKeeps ==
  ASSUME IInv, UNCHANGED single, MultiStopped PROVE IInv'
<1>1. stage = "stopping" /\ final' = final
  BY DEF MultiStopped
<1>2. part' = part /\ disk' \in {part, disk} /\ part \in FileSet /\ disk \in FileSet
  BY InvFacts DEF MultiStopped, Sync
<1>3. row' = MapRow(row, live) /\ saved' \in {MapRow(row, live), saved}
  BY DEF MultiStopped, Commit, CommitFails
<1>4. \E o \in Outcomes : MEnd(o)
  <2>1. Stopped \in Outcomes /\ "failed" \in Outcomes
    BY DEF Stopped, Outcomes
  <2> QED
    BY <2>1 DEF MultiStopped, MFail
<1>5. SafeRow(part', disk', row') /\ SafeRow(part', disk', saved') /\ row' \in RowSet /\ saved' \in RowSet
  BY <1>1, <1>2, <1>3, JoinedFacts, SyncSafe, InvFacts
<1> QED
  BY <1>1, <1>2, <1>4, <1>5, EndedMulti

LEMMA FailedKeeps ==
  ASSUME IInv, UNCHANGED single, MultiFailed PROVE IInv'
<1>0. stage = "failing" /\ final' = final /\ part \in FileSet /\ disk \in FileSet /\ "failed" \in Outcomes
  BY InvFacts DEF MultiFailed, Outcomes
<1>1. CASE /\ MFail /\ row' = MapRow(row, live) /\ saved' \in {MapRow(row, live), saved}
           /\ part' = part /\ disk' \in {part, disk}
  <2>1. SafeRow(part', disk', row') /\ SafeRow(part', disk', saved') /\ row' \in RowSet /\ saved' \in RowSet
    BY <1>0, <1>1, JoinedFacts, SyncSafe, InvFacts
  <2> QED
    BY <1>0, <1>1, <2>1, EndedMulti DEF MFail
<1>2. CASE Store(Empty) /\ Commit(RolledBack(MapRow(row, live))) /\ MGo("single") /\ MIdle
  <2>1. OneRow(row') /\ OneRow(saved') /\ part' \in FileSet /\ disk' \in FileSet
    BY <1>0, <1>2, JoinedFacts, RolledTyped, FilesTyped DEF Commit, Store
  <2>2. UNCHANGED <<sc, cur, old, ctl, outcome, off, lp, resp, final>> /\ stage' = "single" /\ live' = NoMap
    BY <1>0, <1>2 DEF MGo, MIdle, world, remote, single
  <2>3. SingleTyped'
    BY <2>1, <2>2 DEF IInv, SingleTyped, Typed, Answered, Sleeping, Mapless, OneRow, Stages, Replies
  <2> QED
    BY <2>1, <2>2, <2>3, OneRowSafe DEF IInv, Safe, Starting, Working, Joined
<1> QED
  BY <1>1, <1>2 DEF MultiFailed, Commit, CommitFails, Sync

LEMMA FinalizeKeeps ==
  ASSUME IInv, UNCHANGED single, Finalize PROVE IInv'
<1>0. final' = final /\ row' = row /\ saved' = saved /\ part' = part /\ disk' \in {part, disk}
  BY DEF Finalize, rows, Sync
<1>1. part' \in FileSet /\ disk' \in FileSet /\ SafeRow(part', disk', row') /\ SafeRow(part', disk', saved')
      /\ row' \in RowSet /\ saved' \in RowSet /\ "failed" \in Outcomes
  BY <1>0, InvFacts, SyncSafe DEF Outcomes
<1>2. CASE MGo("finish") /\ UNCHANGED multi
  BY <1>0, <1>1, <1>2, InvFacts, Restful DEF MGo, world, remote, single, multi, IInv, SingleTyped, Typed
<1>3. CASE MFail
  BY <1>0, <1>1, <1>3, EndedMulti DEF MFail
<1> QED
  BY <1>2, <1>3 DEF Finalize

LEMMA MultiInv ==
  ASSUME IInv, UNCHANGED single, MultiNext PROVE IInv'
<1>1. CASE \E s \in Segs : SegmentStep(s)
  BY <1>1, SegmentKeeps
<1> QED
  BY <1>1, DeclinedKeeps, StartKeeps, LongerKeeps, JoinKeeps, StoppedKeeps, FailedKeeps, FinalizeKeeps
  DEF MultiNext, SegmentStep

-----------------------------------------------------------------------------
(* The attempt around them, and its surroundings.                          *)

\* Nothing but the server's file, the control or the bounds changes.
LEMMA SameKeeps ==
  ASSUME IInv, cur' \in Entities, ctl' \in {"run", "pause", "cancel"},
         UNCHANGED <<sc, old, files, rows, stage, outcome, single, multi>>
  PROVE  IInv'
<1>1. UNCHANGED <<sc, old, part, disk, final, row, saved, stage, outcome, off, lp, resp, live, floor, seg>>
  BY DEF files, rows, single, multi
<1>2. SingleTyped'
  BY <1>1 DEF IInv, SingleTyped, Typed, Answered, Sleeping, Mapless
<1>3. Safe' /\ Starting' /\ Joined'
  BY <1>1 DEF IInv, Safe, Starting, Joined
<1>4. Working'
  BY <1>1 DEF IInv, Working
<1> QED
  BY <1>2, <1>3, <1>4 DEF IInv

\* The end of everything under way.
LEMMA AllIdle ==
  ASSUME SIdle, MIdle
  PROVE  off' \in Lengths /\ lp' \in Loops /\ resp' \in Resps /\ live' \in Maps
  BY Nothings, Lengthy DEF SIdle, MIdle, Maps

LEMMA BeginKeeps == ASSUME IInv, Begin PROVE IInv' /\ row'.map = row.map
<1>0. part \in FileSet /\ row \in RowSet /\ row.down \in Lengths /\ row.map \in Maps /\ Length(part) \in Lengths
  BY InvFacts, RowFields, Lengthy
<1>1. WrittenSum(row.map) \in Lengths \/ row.map = NoMap
  BY <1>0, SumTyped DEF Maps, Lengths
<1>2. PICK n \in Lengths : n = IF row.rejected THEN 0
                               ELSE IF Oracle(row) = "Multi" THEN WrittenSum(row.map)
                               ELSE IF Oracle(row) = "RestartRequired" \/ UntrackedHole(row, Length(part)) THEN row.down
                               ELSE Length(part)
  BY <1>0, <1>1, Lengthy DEF Oracle
<1>3. row' = [row EXCEPT !.down = n]
  BY <1>2 DEF Begin, Reconciled
<1>4. row' \in RowSet /\ row'.map = row.map /\ row'.rejected = row.rejected
  BY <1>0, <1>3 DEF RowSet
<1>5. /\ UNCHANGED <<sc, cur, old, part, disk, final, saved, off, lp, resp, live>>
      /\ stage' = "preflight" /\ outcome' = "none" /\ ctl' = "run"
  BY DEF Begin, world, remote, files, single, multi
<1>6. SafeRow(part', disk', row') /\ SafeRow(part', disk', saved')
  BY <1>4, <1>5, InvFacts DEF SafeRow
<1> QED
  BY <1>4, <1>5, <1>6, InvFacts, Restful DEF Outcomes

LEMMA PreflightTyped ==
  ASSUME IInv, NEW i \in {Info, NoInfo}
  PROVE  /\ PreflightRow(i) \in RowSet /\ PreflightRow(i).map = row.map
         /\ PreflightRow(i).rejected = row.rejected
<1>0. Typed /\ row \in RowSet /\ cur \in Entities
  BY DEF IInv, SingleTyped, Typed
<1>1. i.total \in Lengths /\ i.tag \in Entities \cup {NoEntity}
  <2>1. Info.total \in Lengths /\ Info.tag = cur
    BY <1>0, Sizes, Lengthy DEF Info
  <2>2. NoInfo.total \in Lengths /\ NoInfo.tag = NoEntity
    BY Lengthy DEF NoInfo
  <2> QED
    BY <1>0, <2>1, <2>2
<1> DEFINE taken == row.tag = NoEntity /\ i.tag # NoEntity
<1>2. PICK n \in Lengths : n = IF i.total > 0 THEN i.total ELSE row.total
  BY <1>0, <1>1, RowFields
<1>3. PICK b \in BOOLEAN : b = IF i.ranges = {} THEN row.resume ELSE TRUE \in i.ranges
  <2>1. row.resume \in BOOLEAN
    BY <1>0, RowFields
  <2>2. CASE i.ranges = {}
    BY <2>1, <2>2, Zenon
  <2>3. CASE i.ranges # {}
    <3>1. (TRUE \in i.ranges) \in BOOLEAN
      OBVIOUS
    <3>2. (IF i.ranges = {} THEN row.resume ELSE TRUE \in i.ranges) = (TRUE \in i.ranges)
      BY <2>3
    <3> QED
      BY <3>1, <3>2, Zenon
  <2> QED
    BY <2>2, <2>3
<1>4. PICK t \in Entities \cup {NoEntity} : t = IF taken THEN i.tag ELSE row.tag
  BY <1>0, <1>1, RowFields
<1>5. PICK e \in Lengths : e = IF taken /\ i.total > 0 THEN i.total ELSE row.exp
  BY <1>0, <1>1, RowFields
<1>6. PICK r : r = [row EXCEPT !.total = n, !.resume = b, !.tag = t, !.exp = e]
  OBVIOUS
<1>7. r \in RowSet /\ r.map = row.map /\ r.rejected = row.rejected
  BY <1>0, <1>6 DEF RowSet
<1>8. PreflightRow(i) = r
  BY <1>2, <1>3, <1>4, <1>5, <1>6, Zenon DEF PreflightRow
<1> QED
  BY <1>7, <1>8

LEMMA PrepareKeeps == ASSUME IInv, Prepare PROVE IInv' /\ row'.map = row.map
<1>0. UNCHANGED <<sc, cur, old, ctl, part, disk, final, off, lp, resp, live>>
  BY DEF Prepare, world, remote, files, single, multi
<1>1. CASE End(Stopped) /\ UNCHANGED rows
  <2>1. Stopped \in Outcomes
    BY DEF Stopped, Outcomes
  <2> QED
    BY <1>0, <1>1, <2>1, InvFacts, Restful DEF End, rows
<1>2. ASSUME NEW i \in {Info, NoInfo}, NEW r, r = PreflightRow(i), Commit(r),
             IF Plan(r, i) = "restart" THEN End("failed") ELSE stage' = Plan(r, i) /\ UNCHANGED outcome
      PROVE  IInv' /\ row'.map = row.map
  <2>1. row' = r /\ saved' = r /\ r \in RowSet /\ r.map = row.map /\ r.rejected = row.rejected
    BY <1>2, PreflightTyped DEF Commit
  <2>2. SafeRow(part', disk', row') /\ SafeRow(part', disk', saved') /\ (r.rejected => r.map = NoMap)
    BY <1>0, <2>1, InvFacts DEF SafeRow
  <2>3. CASE Plan(r, i) = "restart"
    BY <1>0, <1>2, <2>1, <2>2, <2>3, InvFacts, Restful DEF End, Outcomes
  <2>4. CASE Plan(r, i) # "restart"
    <3>1. Plan(r, i) = "single" => r.map = NoMap
      BY <2>2 DEF Plan, Oracle
    <3>2. Plan(r, i) = "multi" => r.map # NoMap \/ r.total > 0
      BY DEF Plan, Oracle
    <3>3. stage' \in {"single", "multi"} /\ outcome' = outcome /\ stage' = Plan(r, i)
      BY <1>2, <2>4 DEF Plan
    <3>4. SingleTyped'
      BY <1>0, <2>1, <3>1, <3>3, InvFacts
      DEF IInv, SingleTyped, Typed, Answered, Sleeping, Mapless, Stages, Replies, Alone
    <3> QED
      BY <2>1, <2>2, <3>2, <3>3, <3>4 DEF IInv, Safe, Starting, Working, Joined
  <2> QED
    BY <2>3, <2>4
<1> QED
  BY <1>1, <1>2 DEF Prepare, rows

LEMMA FinishedTyped == ASSUME IInv PROVE OneRow(FinishedRow)
<1>0. row \in RowSet /\ off \in Lengths /\ live \in Maps
  BY InvFacts
<1>1. OneRow(FinishedSingle)
  <2>1. PICK n \in Lengths, z \in {0} : n = IF row.total = 0 THEN off ELSE row.total
    BY <1>0, RowFields
  <2>2. FinishedSingle = [row EXCEPT !.down = off, !.total = n, !.rejected = FALSE, !.fmt = z, !.map = NoMap]
    BY <2>1 DEF FinishedSingle
  <2> QED
    BY <1>0, <2>2 DEF OneRow, RowSet
<1>2. ASSUME live # NoMap PROVE OneRow(FinishedMulti)
  <2>1. PICK n \in Lengths : n = live.total
    BY <1>0, <1>2, MapParts DEF Maps, Lengths
  <2>2. PICK r : r = [row EXCEPT !.down = n, !.resume = TRUE, !.rejected = FALSE]
    OBVIOUS
  <2>3. r \in RowSet
    BY <1>0, <2>2 DEF RowSet
  <2>4. FinishedMulti = RolledBack(r)
    BY <2>1, <2>2 DEF FinishedMulti
  <2> QED
    BY <2>3, <2>4, RolledTyped
<1> QED
  BY <1>1, <1>2 DEF FinishedRow

LEMMA MovesKeep ==
  ASSUME IInv, StepAside \/ MoveFinal \/ MoveFails
  PROVE  IInv' /\ (row'.map = row.map \/ row'.map = NoMap)
<1>1. CASE StepAside
  BY <1>1, InvFacts, Restful DEF StepAside, Aside, remote, files, rows, single, multi
<1>2. CASE MoveFinal
  <2>1. OneRow(row') /\ OneRow(saved')
    BY <1>2, FinishedTyped DEF MoveFinal, Commit
  <2>2. part' \in FileSet /\ disk' \in FileSet /\ final' \in FileSet
    BY <1>2, InvFacts, FilesTyped DEF MoveFinal, Store
  <2>3. old' \in {"none", "target", "aside"} /\ UNCHANGED <<sc, cur, ctl>> /\ SIdle /\ MIdle
        /\ stage' = "idle" /\ outcome' \in Outcomes
    BY <1>2, InvFacts DEF MoveFinal, MoveEnds, End, remote, Outcomes
  <2> QED
    BY <2>1, <2>2, <2>3, AllIdle, InvFacts, OneRowSafe, Restful DEF OneRow
<1>3. CASE MoveFails
  <2>1. row' \in RowSet /\ row'.map = row.map /\ row'.rejected = row.rejected
    <3>1. row' = [row EXCEPT !.down = off] \/ row' = row
      BY <1>3 DEF MoveFails
    <3> QED
      BY <3>1, InvFacts DEF RowSet
  <2>2. old' \in {"none", "target", "aside"} /\ UNCHANGED <<sc, cur, ctl, part, disk, final, saved>> /\ SIdle /\ MIdle
        /\ stage' = "idle" /\ outcome' \in Outcomes
    BY <1>3, InvFacts DEF MoveFails, MoveEnds, End, remote, files, Outcomes
  <2>3. SafeRow(part', disk', row') /\ SafeRow(part', disk', saved')
    BY <2>1, <2>2, InvFacts DEF SafeRow
  <2> QED
    BY <2>1, <2>2, <2>3, AllIdle, InvFacts, Restful
<1> QED
  BY <1>1, <1>2, <1>3 DEF StepAside, rows

LEMMA RestartsKeep ==
  ASSUME IInv, Restart \/ RestartDeletes
  PROVE  IInv' /\ (row'.map = row.map \/ row'.map = NoMap)
<1>1. CASE Restart
  <2>1. OneRow(row') /\ OneRow(saved')
    BY <1>1, Nothings DEF Restart, Commit, OneRow
  <2>2. stage' = "wiped" /\ UNCHANGED <<sc, cur, old, ctl, part, disk, final, outcome, off, lp, resp, live>>
    BY <1>1 DEF Restart, world, remote, files, single, multi
  <2>3. SingleTyped'
    BY <2>1, <2>2 DEF IInv, SingleTyped, Typed, Answered, Sleeping, Mapless, OneRow, Stages, Replies
  <2> QED
    BY <2>1, <2>2, <2>3, OneRowSafe DEF IInv, Safe, Starting, Working, Joined, OneRow
<1>2. CASE RestartDeletes
  <2>1. OneRow(row) /\ OneRow(saved)
    BY <1>2, InvFacts DEF RestartDeletes, IInv, SingleTyped, Mapless, Alone, OneRow
  <2>2. stage' = "idle" /\ UNCHANGED <<sc, cur, old, ctl, final, row, saved, outcome, off, lp, resp, live>>
    BY <1>2 DEF RestartDeletes, world, remote, rows, single, multi
  <2>3. part' \in FileSet /\ disk' \in FileSet
    BY <1>2, InvFacts, FilesTyped DEF RestartDeletes, Store
  <2> QED
    BY <2>1, <2>2, <2>3, InvFacts, OneRowSafe, Restful DEF OneRow
<1> QED
  BY <1>1, <1>2

\* What is both written and on stable storage survives.
LEMMA LostKeeps ==
  ASSUME IInv, NEW ps \in SUBSET Pos
  PROVE  /\ Lost(ps) \in FileSet
         /\ \A p \in Pos : part[p] \in Entities /\ disk[p] \in Entities => Lost(ps)[p] \in Entities
<1> DEFINE g == [p \in Pos |-> IF p \in ps THEN disk[p] ELSE part[p]]
<1>1. g \in FileSet /\ \A p \in Pos : part[p] \in Entities /\ disk[p] \in Entities => g[p] \in Entities
  BY InvFacts DEF FileSet
<1>2. Lost(ps) = SetLen(g, Length(g))
  BY Zenon DEF Lost, Filled
<1> HIDE DEF g
<1>3. Length(g) \in Nat /\ \A p \in Pos : g[p] # Nil => p <= Length(g)
  BY <1>1, LengthIs, Lengthy
<1>4. /\ SetLen(g, Length(g)) \in FileSet
      /\ \A p \in Pos : p <= Length(g) /\ g[p] # Nil => SetLen(g, Length(g))[p] = g[p]
  BY <1>1, <1>3, FilesTyped
<1>5. ASSUME NEW p \in Pos, g[p] \in Entities PROVE SetLen(g, Length(g))[p] \in Entities
  BY <1>3, <1>4, <1>5, ValuesAssumption
<1> QED
  BY <1>1, <1>2, <1>4, <1>5

LEMMA CrashKeeps == ASSUME IInv, Crash PROVE IInv' /\ row' \in {row, saved}
<1>0. PICK ps \in SUBSET Unsynced : part' = Lost(ps) /\ disk' \in {disk, Lost(ps)}
  BY DEF Crash
<1>1. ps \in SUBSET Pos
  BY DEF Unsynced
<1>2. /\ Lost(ps) \in FileSet
      /\ \A p \in Pos : part[p] \in Entities /\ disk[p] \in Entities => Lost(ps)[p] \in Entities
  BY <1>1, LostKeeps
<1>3. part' \in FileSet /\ disk' \in FileSet
  BY <1>0, <1>2, InvFacts
<1>4. PICK r \in {row, saved} : row' = r /\ saved' = r
  BY DEF Crash
<1>5. r \in RowSet /\ r.map \in Maps /\ SafeRow(part, disk, r)
  BY <1>4, InvFacts
<1>6. SafeRow(part', disk', r)
  BY <1>0, <1>2, <1>5, ConfirmedTyped DEF SafeRow, KeptIn
<1>7. stage' = "idle" /\ outcome' \in Outcomes /\ UNCHANGED <<sc, cur, old, ctl, final>> /\ SIdle /\ MIdle
  BY DEF Crash, End, Outcomes, world, remote
<1> QED
  BY <1>3, <1>4, <1>5, <1>6, <1>7, AllIdle, InvFacts, Restful

\* The first states.
LEMMA Starts == ASSUME Init PROVE IInv
<1>1. FreshRow \in RowSet /\ OneRow(FreshRow) /\ row = FreshRow /\ saved = FreshRow
  BY Nothings DEF Init, OneRow
<1>2. Empty \in FileSet /\ part = Empty /\ disk = Empty /\ final = Empty
  BY DEF Init, FileSet, Empty, Content
<1>3. sc \in Scenarios /\ cur \in Entities /\ old \in {"none", "target", "aside"}
  BY ScenariosAssumption DEF Init
<1>4. Typed
  BY <1>1, <1>2, <1>3, Nothings, Lengthy DEF Init, Typed, Stages, Outcomes
<1>5. stage = "idle"
  BY DEF Init
<1> QED
  BY <1>1, <1>4, <1>5, OneRowSafe
  DEF IInv, SingleTyped, Answered, Sleeping, Mapless, Safe, Starting, Working, Joined, Replies, Alone

\* The inductive step.
LEMMA Steps == ASSUME IInv, [Next]_vars PROVE IInv'
<1>1. CASE SingleStep
  BY <1>1, SingleInv DEF SingleStep
<1>2. CASE MultiStep
  BY <1>2, MultiInv DEF MultiStep
<1>3. CASE Change \/ UNCHANGED vars \/ \E c \in {"pause", "cancel"} : Stop(c)
  <2>1. /\ UNCHANGED <<sc, old, files, rows, stage, outcome, single, multi>>
        /\ cur' \in Entities /\ ctl' \in {"run", "pause", "cancel"}
    BY <1>3, InvFacts DEF Change, Stop, vars, world, remote
  <2> QED
    BY <2>1, SameKeeps
<1> QED
  BY <1>1, <1>2, <1>3, BeginKeeps, PrepareKeeps, MovesKeep, RestartsKeep, CrashKeeps
  DEF Next, Attempt, Surroundings

LEMMA Invariant == Spec => []IInv
  BY Starts, Steps, PTL DEF Spec

-----------------------------------------------------------------------------
(* The theorems.                                                           *)

LEMMA TypeFollows == ASSUME IInv PROVE TypeOK
<1>1. Typed
  BY DEF IInv, SingleTyped
<1>2. {part, disk, final} \subseteq [Pos -> Content]
  BY <1>1 DEF Typed, FileSet
<1>3. ASSUME NEW r \in RowSet PROVE r \in Rows
  <2>1. r.map \in {NoMap} \cup UNION {[total : {n}, written : [SegsOf(n) -> 0..MaxLen]] : n \in 1..MaxLen}
    <3> SUFFICES ASSUME NEW m \in MapSet
                 PROVE  \E n \in 1..MaxLen : m \in [total : {n}, written : [SegsOf(n) -> 0..MaxLen]]
      BY RowFields
    <3>1. m.total \in 1..MaxLen /\ m.written \in Counts(m.total) /\ m = MapOf(m.total, m.written)
      BY MapParts
    <3>2. PICK n, c : n = m.total /\ c = m.written
      OBVIOUS
    <3>3. m = [total |-> n, written |-> c] /\ c \in [SegsOf(n) -> 0..MaxLen]
      BY <3>1, <3>2 DEF MapOf, Counts
    <3> QED
      BY <3>1, <3>2, <3>3
  <2>2. r = [down |-> r.down, total |-> r.total, tag |-> r.tag, exp |-> r.exp, resume |-> r.resume,
             rejected |-> r.rejected, fmt |-> r.fmt, map |-> r.map]
    BY DEF RowSet
  <2> QED
    BY <2>1, <2>2, RowFields DEF Rows, Lengths
<1>4. {row, saved} \subseteq Rows
  BY <1>1, <1>3 DEF Typed
<1>5. live # NoMap => \A s \in DOMAIN live.written : live.written[s] <= SegLen(live.total, s)
  BY <1>1, MapParts DEF Typed
<1>6. /\ resp.limit \in 0..MaxLen /\ off \in 0..MaxLen
      /\ lp.short \in 0..ReconnectMax /\ lp.fresh \in 0..FreshMax /\ lp.rejects \in 0..RejectMax
  BY <1>1 DEF Typed, Loops, Resps, Lengths
<1> QED
  BY <1>1, <1>2, <1>4, <1>5, <1>6 DEF TypeOK, Typed, Outcomes

\* The variables keep their types, whatever the server answers and whatever fails: reconnects,
\* rejected ranges and from-zero restarts stay within RECONNECT_MAX, RANGE_REJECT_BEFORE_RESTART
\* and FRESH_RESTART_MAX (run_http_download_with_ctx), and no segment's count passes its length.
THEOREM TransferTyped == Spec => []TypeOK
  BY Invariant, TypeFollows, PTL

LEMMA SyncedFollows == ASSUME IInv PROVE MapSynced
  BY DEF IInv, Safe, SafeRow, KeptIn, MapSynced

\* Every byte that a map confirms, in memory or in state.json, is on stable storage: the map moves
\* only after the sync that covers it (persist_map_exit), and a sync that fails takes back what it
\* did not cover (sync_writer_or_clamp), with any number of workers that sync on a pause.
THEOREM MapsAreSynced == Spec => []MapSynced
  BY Invariant, SyncedFollows, PTL

\* ConfirmedKept of one step.
Kept == row.map # NoMap /\ row'.map # NoMap =>
          Confirmed(row.map) \subseteq Confirmed(row'.map) \/ row' = saved

LEMMA MultiKept ==
  ASSUME IInv, UNCHANGED single, MultiNext PROVE Kept
<1>1. CASE \E s \in Segs : SegmentStep(s)
  BY <1>1, SegmentKeeps DEF rows, Kept
<1>2. CASE MultiDeclined
  BY <1>2, RolledTyped, InvFacts DEF MultiDeclined, Commit, Kept, OneRow, rows
<1>3. CASE MultiStart
  <2> SUFFICES ASSUME row.map # NoMap PROVE Kept
    BY DEF Kept
  <2>1. PreparedMap(KnownTotal) = row.map /\ row.map \in MapSet
    BY InvFacts DEF PreparedMap, Maps
  <2>2. PICK r : r = MapRow(row, PreparedMap(KnownTotal))
    OBVIOUS
  <2>3. r.map = row.map /\ r \in RowSet
    BY <2>1, <2>2, MapRowTyped, InvFacts
  <2>4. RolledBack(r).map = NoMap
    BY <2>3, RolledTyped DEF OneRow
  <2>5. row' \in {row, r, RolledBack(r)}
    BY <1>3, <2>2, Zenon DEF MultiStart, Commit, FailStart, rows
  <2> QED
    BY <2>3, <2>4, <2>5 DEF Kept
<1>4. CASE MakeLong
  <2>1. OneRow(RolledBack(row))
    BY RolledTyped, InvFacts
  <2>2. row' \in {row, RolledBack(row)}
    BY <1>4 DEF MakeLong, Commit, FailStart, rows
  <2> QED
    BY <2>1, <2>2 DEF Kept, OneRow
<1>5. CASE Join \/ Finalize
  BY <1>5 DEF Join, Finalize, rows, Kept
<1>6. CASE MultiStopped
  BY <1>6, JoinedFacts DEF MultiStopped, Commit, CommitFails, Kept
<1>7. CASE MultiFailed
  <2>1. OneRow(RolledBack(MapRow(row, live)))
    BY <1>7, JoinedFacts, RolledTyped DEF MultiFailed
  <2> QED
    BY <1>7, <2>1, JoinedFacts DEF MultiFailed, Commit, CommitFails, Kept, OneRow
<1> QED
  BY <1>1, <1>2, <1>3, <1>4, <1>5, <1>6, <1>7 DEF MultiNext, SegmentStep

LEMMA StepKept == ASSUME IInv, [Next]_vars PROVE Kept
<1>1. CASE SingleStep
  BY <1>1, SingleStreams, StreamFacts DEF SingleStep, IInv, OneRow, Kept
<1>2. CASE MultiStep
  BY <1>2, MultiKept DEF MultiStep
<1>3. CASE Change \/ UNCHANGED vars \/ \E c \in {"pause", "cancel"} : Stop(c)
  BY <1>3 DEF Change, Stop, vars, rows, Kept
<1> QED
  BY <1>1, <1>2, <1>3, BeginKeeps, PrepareKeeps, MovesKeep, RestartsKeep, CrashKeeps
  DEF Next, Attempt, Surroundings, Kept

\* No step makes a map confirm less, but a crash that brings the saved row back, and the removal
\* of the map: what the clamp takes back is never below what the row had confirmed before.
THEOREM ConfirmedStays == Spec => ConfirmedKept
<1>1. IInv /\ [Next]_vars => [row.map # NoMap /\ row'.map # NoMap =>
         Confirmed(row.map) \subseteq Confirmed(row'.map) \/ row' = saved]_vars
  BY StepKept DEF Kept
<1> QED
  BY <1>1, Invariant, PTL DEF Spec, ConfirmedKept

-----------------------------------------------------------------------------
(* One version, whole.  WInv says of which version the bytes of the .part  *)
(* are, in every stage, and what an attempt knows of the version's size.   *)

\* A .part that has to go goes: no fault in removing it.
Steady == Faults \cap {"discard", "replace", "restart"} = {}
\* The server's answers tell where a body ends; for several connections they have lengths, no two
\* versions have the same one, and the file is replaced once at most.
Telling ==
  \A s \in Scenarios :
    /\ s.framing # "close"
    /\ s.multi => /\ s.framing = "length" /\ MaxChanges \in {0, 1}
                  /\ \A d, e \in Entities : s.size[d] = s.size[e] => d = e

\* What one stream writes: a prefix of one version.  What segments write: pieces of it.
Solid(f, e) ==
  /\ \A p \in Pos : f[p] # Nil => f[p] = e /\ e \in Entities
  /\ \A p, q \in Pos : q < p /\ f[p] # Nil => f[q] # Nil
Inside(f, n, e) == \A p \in Pos : f[p] \in {e, Hole, Nil} /\ (p > n => f[p] = Nil)
Within(d, f)    == \A p \in Pos : d[p] # Nil => f[p] # Nil
OfRow(f, r)     == IF r.map = NoMap THEN Solid(f, r.tag) ELSE Inside(f, r.map.total, r.tag)

RowShape(many, r) == /\ ~r.rejected /\ (r.fmt = 1 <=> r.map # NoMap)
                     /\ r.map # NoMap => many /\ r.tag \in Entities
Pair(r, s) == IF r.map = NoMap THEN s.map = NoMap
              ELSE s.map # NoMap /\ s.map.total = r.map.total /\ s.tag = r.tag
Match(f, d, r, s) == /\ OfRow(f, r) /\ OfRow(f, s) /\ OfRow(d, r) /\ OfRow(d, s)
                     /\ r.map = NoMap => Within(d, f)
Shaped(many, r, s) == RowShape(many, r) /\ RowShape(many, s) /\ Pair(r, s)
Matching == /\ Shaped(sc.multi, row, saved)
            /\ IF stage = "wiped" THEN row = FreshRow /\ saved = FreshRow
               ELSE Match(part, disk, row, saved)

\* The sizes, where there may be several connections: c is the version that is there, after n changes.
NoBytes(f) == \A p \in Pos : f[p] \notin Entities
Known(f, d, c, n, r) ==
  IF r.tag \in Entities
  THEN /\ r.exp = Size(r.tag) /\ (r.tag # c => n > 0)
       /\ r.total # Size(r.tag) => r.tag # c
       /\ r.map # NoMap /\ r.map.total # Size(r.tag) => r.tag # c /\ NoBytes(f) /\ NoBytes(d)
  ELSE r.exp = 0 /\ r.total = 0
Knowing == /\ nchange \in Nat
           /\ sc.multi => Known(part, disk, cur, nchange, row) /\ Known(part, disk, cur, nchange, saved)
Named == stage \notin {"idle", "preflight"} => saved.tag = row.tag

\* The stages of one stream, and the answer in hand.
Streaming == {"fetch", "respond", "sleep", "confirm", "accept", "open", "body"}
Ends(f, n) == \A p \in Pos : f[p] # Nil <=> p <= n
Answer(g, o, t, r) ==
  /\ r.kind = "part" => r.sized
  /\ g = "respond" => (r.kind = "zero" <=> o = 0) /\ (r.kind = "part" => o < Size(r.ent))
  /\ g = "accept" => IF r.kind = "part" THEN t = r.ent /\ o < Size(r.ent)
                     ELSE o = 0 /\ r.kind \in {"zero", "full"}
  /\ g \in {"confirm", "open", "body"} => t = r.ent
  /\ g = "open" => o = 0 \/ (o < Size(r.ent) /\ r.limit = Size(r.ent))
  /\ g = "body" => o <= Size(r.ent) /\ (r.limit = 0 \/ o <= r.limit)
Dated(c, n, r) == sc.multi => r.sized /\ (r.ent # c => n > 0)
AtEnd == stage \in Streaming => Ends(part, off)
Reply == stage \in Replies => Answer(stage, off, row.tag, resp) /\ Dated(cur, nchange, resp)

\* The segments' workers, and the end.
OfVersion(v, r) == v.at = "body" => v.ent = r.tag /\ r.map.total = Size(r.tag)
Segmenting == {"long", "workers", "stopping", "failing", "finalize", "finish", "swap"}
Segmented ==
  /\ stage = "multi" => sc.multi
  /\ fresh => stage \in Segmenting
  /\ stage = "long" /\ fresh => part = Empty /\ disk = Empty
  /\ stage = "workers" => \A s \in SegsOf(row.map.total) : OfVersion(seg[s], row)
  /\ stage = "finalize" => AllWritten(live)
Finishing == /\ stage \in {"finish", "swap"} => row.tag \in Entities /\ part = Whole(row.tag)
             /\ stage = "swap" => sc.existing = "replace"

Promised == WholeEntity /\ OldKept
WInv == Matching /\ Knowing /\ Named /\ AtEnd /\ Reply /\ Segmented /\ Finishing /\ Promised
Given == IInv /\ WInv /\ Steady /\ Telling

-----------------------------------------------------------------------------
(* Rows, files.                                                            *)

\* Rows that differ in nothing that WInv is about.
Like(r, q) == /\ q.map = r.map /\ q.tag = r.tag /\ q.exp = r.exp /\ q.total = r.total
              /\ q.rejected = r.rejected /\ q.fmt = r.fmt

LEMMA LikeShaped ==
  ASSUME NEW many, NEW r, NEW s, Shaped(many, r, s), NEW q, Like(r, q), NEW t, Like(r, t) \/ Like(s, t)
  PROVE  Shaped(many, q, t)
  BY DEF Shaped, RowShape, Pair, Like

LEMMA LikeMatch ==
  ASSUME NEW f, NEW d, NEW r, NEW s, Match(f, d, r, s), NEW q, Like(r, q), NEW t, Like(r, t) \/ Like(s, t)
  PROVE  Match(f, d, q, t)
  BY DEF Match, OfRow, Like

LEMMA LikeKnown ==
  ASSUME NEW f, NEW d, NEW c, NEW n, NEW r, Known(f, d, c, n, r), NEW q, Like(r, q)
  PROVE  Known(f, d, c, n, q)
  BY DEF Known, Like

LEMMA LikeDown ==
  ASSUME NEW r \in RowSet, NEW n
  PROVE  /\ Like(r, r) /\ Like(r, [r EXCEPT !.down = n]) /\ Like(r, Checkpointed(r, n))
         /\ [r EXCEPT !.down = n].tag = r.tag /\ Checkpointed(r, n).tag = r.tag
  BY DEF Like, Checkpointed, RowSet

LEMMA EmptyIs ==
  /\ \A p \in Pos : Empty[p] = Nil
  /\ \A e : Solid(Empty, e)
  /\ \A n, e : Inside(Empty, n, e)
  /\ Within(Empty, Empty) /\ NoBytes(Empty) /\ Ends(Empty, 0)
<1>1. \A p \in Pos : Empty[p] = Nil /\ p \in Nat /\ p > 0
  BY LengthsAssumption DEF Empty, Pos
<1> QED
  BY <1>1, ValuesAssumption DEF Solid, Inside, Within, NoBytes, Ends

LEMMA EmptyMatch ==
  ASSUME NEW r, NEW s PROVE Match(Empty, Empty, r, s)
  BY EmptyIs DEF Match, OfRow

LEMMA NotNil == ASSUME NEW e \in Entities PROVE e # Nil /\ e # Hole /\ e # NoEntity
  BY ValuesAssumption

\* A solid file's length tells where it ends.
LEMMA SolidEnds ==
  ASSUME NEW f \in FileSet, NEW e, Solid(f, e)
  PROVE  Ends(f, Length(f))
<1>1. CASE f = Empty
  BY <1>1, EmptyIs DEF Length
<1>2. CASE f # Empty
  <2>1. Length(f) \in Pos /\ f[Length(f)] # Nil
    BY <1>2, LengthReached
  <2>2. \A p \in Pos : f[p] # Nil => p <= Length(f)
    BY LengthIs
  <2>3. ASSUME NEW p \in Pos, p <= Length(f) PROVE f[p] # Nil
    BY <2>1, <2>3 DEF Solid, Pos
  <2> QED
    BY <2>2, <2>3 DEF Ends
<1> QED
  BY <1>1, <1>2

\* A solid file that ends at a version's size is the version.
LEMMA SolidWhole ==
  ASSUME Typed, NEW f \in FileSet, NEW e \in Entities, Solid(f, e), Ends(f, Size(e))
  PROVE  f = Whole(e)
<1>1. f = [p \in Pos |-> f[p]]
  BY DEF FileSet
<1>2. \A p \in Pos : f[p] = IF p <= Size(e) THEN e ELSE Nil
  BY DEF Solid, Ends
<1> QED
  BY <1>1, <1>2 DEF Whole

LEMMA EndsHere ==
  ASSUME NEW f \in FileSet, NEW n \in Lengths, Ends(f, n), NEW e, Solid(f, e)
  PROVE  n > 0 => e \in Entities
<1> SUFFICES ASSUME n > 0 PROVE e \in Entities
  OBVIOUS
<1>1. n \in Pos
  BY LengthsAssumption DEF Lengths, Pos
<1> QED
  BY <1>1, LengthsAssumption DEF Ends, Solid, Pos

-----------------------------------------------------------------------------
(* One stream: what each of its steps leaves.                              *)

LEMMA PromisedKeeps ==
  ASSUME Promised, UNCHANGED <<sc, final, old>>, outcome' = "completed" => outcome = "completed"
  PROVE  Promised'
  BY DEF Promised, WholeEntity, OldKept, Whole, Size

LEMMA SingleWorld ==
  ASSUME SingleNext
  PROVE  UNCHANGED world /\ outcome' \in {outcome, "failed", "paused", "canceled"}
<1>1. Stopped \in {"paused", "canceled"}
  BY DEF Stopped
<1>2. \A o : EndSingle(o) => UNCHANGED world /\ outcome' = o
  BY DEF EndSingle, End
<1>3. \A g : Go(g) => UNCHANGED world /\ outcome' = outcome
  BY DEF Go
<1>4. Fail => UNCHANGED world /\ outcome' = "failed"
  BY <1>2 DEF Fail
<1>5. \A l, n, r, b : Reconnect(l, n, r, b) => UNCHANGED world /\ outcome' \in {outcome, "failed"}
  BY <1>3, <1>4 DEF Reconnect
<1>6. Discard => UNCHANGED world /\ outcome' = "failed"
  BY <1>4 DEF Discard
<1>7. \A n : Finish(n) => UNCHANGED world /\ outcome' = outcome
  BY <1>3 DEF Finish
<1>8. Exhausted \/ Short => UNCHANGED world /\ outcome' \in {outcome, "failed"}
  BY <1>3, <1>4, <1>5, <1>6, <1>7 DEF Exhausted, Short
<1>9. CASE SingleSetup \/ Wake \/ Fetch \/ Replay \/ FetchFails \/ Refused
  BY <1>9, <1>3, <1>4, <1>5 DEF SingleSetup, Wake, Fetch, Replay, FetchFails, Refused
<1>10. CASE InterruptSend \/ InterruptAnswer \/ InterruptSleep
  BY <1>10, <1>1, <1>2 DEF InterruptSend, InterruptAnswer, InterruptSleep, InterruptAt
<1>11. CASE Respond416 \/ RespondFull \/ RespondKept \/ RespondPartial \/ RespondZero
  BY <1>11, <1>3, <1>4, <1>5, <1>7 DEF Respond416, RespondFull, RespondKept, RespondPartial, RespondZero, GiveUp
<1>12. CASE ConfirmMatches \/ ConfirmDiffers \/ ConfirmFails
  BY <1>12, <1>1, <1>2, <1>4, <1>5, <1>7 DEF ConfirmMatches, ConfirmDiffers, ConfirmFails
<1>13. CASE Accept \/ Open \/ Chunk \/ Overlong \/ StopBody
  BY <1>13, <1>1, <1>2, <1>3, <1>4, <1>6 DEF Accept, Open, Chunk, Overlong, StopBody
<1>14. CASE BodyEnds \/ BodyBreaks
  BY <1>14, <1>5, <1>8 DEF BodyEnds, BodyBreaks
<1> QED
  BY <1>9, <1>10, <1>11, <1>12, <1>13, <1>14 DEF SingleNext

\* What is known where a step of one stream begins.
Flowing == Given /\ SingleNext /\ UNCHANGED multi
LEMMA FlowFacts ==
  ASSUME Flowing
  PROVE  /\ Streams /\ Streamed /\ Typed
         /\ row \in RowSet /\ row.map = NoMap /\ ~row.rejected /\ row.fmt # 1
         /\ saved \in RowSet /\ saved.map = NoMap /\ ~saved.rejected
         /\ Solid(part, row.tag) /\ Solid(disk, row.tag) /\ Within(disk, part)
         /\ Shaped(sc.multi, row, saved) /\ Match(part, disk, row, saved)
         /\ sc.multi => Known(part, disk, cur, nchange, row) /\ Known(part, disk, cur, nchange, saved)
         /\ saved.tag = row.tag /\ row.tag \in Entities \cup {NoEntity}
         /\ part \in FileSet /\ disk \in FileSet /\ off \in Lengths
         /\ stage \in Streaming => Ends(part, off)
         /\ stage \in Replies => resp.ent \in Entities /\ Answer(stage, off, row.tag, resp) /\ Dated(cur, nchange, resp)
<1>1. Streams /\ Streamed /\ SingleTyped /\ Typed
  BY SingleStreams DEF Flowing, Given, IInv, SingleTyped
<1>2. OneRow(row) /\ OneRow(saved) /\ part \in FileSet /\ disk \in FileSet /\ off \in Lengths
      /\ (stage \in Replies => resp.ent \in Entities)
  BY <1>1, StreamFacts
<1>3. stage # "wiped" /\ stage \notin {"idle", "preflight"}
  BY <1>1 DEF Streams, Alone
<1>4. WInv
  BY DEF Flowing, Given
<1>5. Shaped(sc.multi, row, saved) /\ Match(part, disk, row, saved)
  BY <1>3, <1>4 DEF WInv, Matching
<1>6. row \in RowSet /\ row.map = NoMap /\ saved \in RowSet /\ saved.map = NoMap
  BY <1>2 DEF OneRow
<1>7. ~row.rejected /\ row.fmt # 1 /\ ~saved.rejected
  BY <1>5, <1>6 DEF Shaped, RowShape
<1>8. Solid(part, row.tag) /\ Solid(disk, row.tag) /\ Within(disk, part)
  BY <1>5, <1>6 DEF Match, OfRow
<1>9. saved.tag = row.tag
  BY <1>3, <1>4 DEF WInv, Named
<1>10. sc.multi => Known(part, disk, cur, nchange, row) /\ Known(part, disk, cur, nchange, saved)
  BY <1>4 DEF WInv, Knowing
<1>11. (stage \in Streaming => Ends(part, off))
       /\ (stage \in Replies => Answer(stage, off, row.tag, resp) /\ Dated(cur, nchange, resp))
  BY <1>4 DEF WInv, AtEnd, Reply
<1> QED
  BY <1>1, <1>2, <1>5, <1>6, <1>7, <1>8, <1>9, <1>10, <1>11, RowFields

\* What is to be shown where it ends.
Matched == /\ Shaped(sc.multi, row', saved') /\ Match(part', disk', row', saved')
           /\ sc.multi => Known(part', disk', cur, nchange, row') /\ Known(part', disk', cur, nchange, saved')
           /\ stage' # "idle" => saved'.tag = row'.tag
Staged == /\ stage' \in Streaming => Ends(part', off')
          /\ stage' \in Replies => Answer(stage', off', row'.tag, resp') /\ Dated(cur, nchange, resp')
          /\ stage' = "finish" => row'.tag \in Entities /\ part' = Whole(row'.tag)

LEMMA Flows ==
  ASSUME Flowing, Matched, Staged
  PROVE  WInv'
<1>1. Streamed /\ UNCHANGED <<sc, cur, nchange, old, fresh>> /\ outcome' \in {outcome, "failed", "paused", "canceled"}
  BY FlowFacts, SingleWorld DEF Flowing, world, remote, multi
<1>2. stage' \in (Alone \ {"wiped"}) \cup {"idle", "finish"} /\ final' = final
  BY <1>1 DEF Streamed, Looped, Filed
<1>3. Streams /\ WInv
  BY FlowFacts DEF Flowing, Given
<1>4. Matching'
  BY <1>1, <1>2 DEF Matched, Matching, Shaped, RowShape, Pair, Match, OfRow, Alone
<1>5. Knowing'
  BY <1>1, <1>3 DEF Matched, Knowing, Known, Size, WInv
<1>6. Named'
  BY DEF Matched, Named
<1>7. AtEnd' /\ Reply'
  BY <1>1 DEF Staged, AtEnd, Reply, Answer, Dated, Size
<1>8. Segmented'
  <2>1. ~fresh
    BY <1>3 DEF Streams, Alone, WInv, Segmented, Segmenting
  <2> QED
    BY <1>1, <1>2, <2>1 DEF Segmented, Alone
<1>9. Finishing'
  BY <1>1, <1>2 DEF Staged, Finishing, Whole, Size, Alone
<1>10. Promised'
  BY <1>1, <1>2, <1>3, PromisedKeeps DEF WInv
<1> QED
  BY <1>4, <1>5, <1>6, <1>7, <1>8, <1>9, <1>10 DEF WInv

LEMMA SameMatched ==
  ASSUME Flowing, UNCHANGED <<part, disk>>, Like(row, row'), Like(row, saved') \/ Like(saved, saved')
  PROVE  Matched
<1>1. Shaped(sc.multi, row', saved') /\ Match(part, disk, row', saved')
  BY FlowFacts, LikeShaped, LikeMatch
<1>2. sc.multi => Known(part, disk, cur, nchange, row') /\ Known(part, disk, cur, nchange, saved')
  BY FlowFacts, LikeKnown
<1>3. saved'.tag = row'.tag
  BY FlowFacts DEF Like
<1> QED
  BY <1>1, <1>2, <1>3 DEF Matched

\* A row with another offset, a row that is checkpointed.
LEMMA FlowRows ==
  ASSUME Flowing, NEW n
  PROVE  /\ Like(row, row) /\ Like(saved, saved) /\ Like(row, [row EXCEPT !.down = n])
         /\ Like(row, Checkpointed(row, n))
  BY FlowFacts, LikeDown

LEMMA ReconnectFlows ==
  ASSUME Flowing, NEW l, NEW n, NEW b, Reconnect(l, n, row, b), UNCHANGED <<part, disk>>, Ends(part, n)
  PROVE  WInv'
<1>1. CASE row' = [row EXCEPT !.down = n] /\ UNCHANGED saved /\ Go("sleep") /\ off' = n
  <2>1. Matched
    BY <1>1, FlowRows, SameMatched
  <2>2. Staged
    BY <1>1 DEF Staged, Go, Replies
  <2> QED
    BY <2>1, <2>2, Flows
<1>2. CASE Fail /\ Commit(Checkpointed(row, n))
  <2>1. Matched
    BY <1>2, FlowRows, SameMatched DEF Commit
  <2>2. Staged
    BY <1>2 DEF Staged, Fail, EndSingle, End, Replies, Streaming
  <2> QED
    BY <2>1, <2>2, Flows
<1> QED
  BY <1>1, <1>2 DEF Reconnect

\* A step that ends the attempt and touches no file.
LEMMA RestFlows ==
  ASSUME Flowing, NEW o, EndSingle(o), UNCHANGED <<part, disk>>, Like(row, row'), Like(row, saved') \/ Like(saved, saved')
  PROVE  WInv'
<1>1. Staged
  BY DEF Staged, EndSingle, End, Replies, Streaming
<1> QED
  BY <1>1, SameMatched, Flows

LEMMA NoSuchFault ==
  ASSUME Steady PROVE ~Fault("discard") /\ ~Fault("replace") /\ ~Fault("restart")
  BY DEF Steady, Fault

LEMMA SetupFlows == ASSUME Flowing, SingleSetup PROVE WInv'
<1>1. off' = Length(part) /\ UNCHANGED <<part, disk, row, saved>> /\ stage' = "fetch"
  BY FlowFacts DEF SingleSetup, Go, files, rows
<1>2. Staged
  BY <1>1, FlowFacts, SolidEnds DEF Staged, Replies
<1>3. Matched
  BY <1>1, FlowRows, SameMatched
<1> QED
  BY <1>2, <1>3, Flows

LEMMA EmptyMatched ==
  ASSUME Flowing, Store(Empty), Like(row, row'), Like(row, saved') \/ Like(saved, saved')
  PROVE  Matched
<1>1. Shaped(sc.multi, row', saved') /\ Match(part', disk', row', saved')
  BY FlowFacts, LikeShaped, EmptyMatch DEF Store
<1>2. sc.multi => Known(part', disk', cur, nchange, row') /\ Known(part', disk', cur, nchange, saved')
  <2>1. ASSUME NEW r, r.map = NoMap, Known(part, disk, cur, nchange, r) PROVE Known(part', disk', cur, nchange, r)
    BY <2>1 DEF Known
  <2>2. row'.map = NoMap /\ saved'.map = NoMap
    BY FlowFacts DEF Like
  <2> QED
    BY <2>1, <2>2, FlowFacts, LikeKnown
<1>3. saved'.tag = row'.tag
  BY FlowFacts DEF Like
<1> QED
  BY <1>1, <1>2, <1>3 DEF Matched

LEMMA WakeFlows == ASSUME Flowing, Wake PROVE WInv'
<1>0. stage = "sleep" /\ UNCHANGED <<row, saved>> /\ stage' = "fetch"
  BY DEF Wake, Go, rows
<1>1. CASE lp.keep
  <2>1. UNCHANGED <<part, disk>> /\ off' = IF part = Empty THEN off ELSE Length(part)
    BY <1>1, FlowFacts, RowFields DEF Wake
  <2>2. Ends(part, off')
    BY <1>0, <2>1, FlowFacts, SolidEnds DEF Streaming
  <2>3. Staged
    BY <1>0, <2>1, <2>2 DEF Staged, Replies
  <2> QED
    BY <1>0, <2>1, <2>3, FlowRows, SameMatched, Flows
<1>2. CASE ~lp.keep
  <2>1. Store(Empty) /\ off' = 0
    BY <1>2, NoSuchFault DEF Wake, Flowing, Given
  <2>2. Staged
    BY <1>0, <2>1, EmptyIs DEF Staged, Replies, Store
  <2> QED
    BY <1>0, <2>1, <2>2, FlowRows, EmptyMatched, Flows
<1> QED
  BY <1>1, <1>2

LEMMA InterruptFlows == ASSUME Flowing, InterruptSend \/ InterruptAnswer \/ InterruptSleep PROVE WInv'
<1>1. EndSingle(Stopped) /\ UNCHANGED <<part, disk, row, saved>>
  BY DEF InterruptSend, InterruptAnswer, InterruptSleep, InterruptAt, files, rows
<1> QED
  BY <1>1, FlowRows, RestFlows

\* The answer is the server's; where there may be several connections it has a length.
LEMMA FetchFlows == ASSUME Flowing, Fetch PROVE WInv'
<1>0. /\ stage = "fetch" /\ stage' = "respond" /\ UNCHANGED <<part, disk, row, saved, off>>
      /\ resp' = [NoResp EXCEPT !.kind = AnswerKind, !.ent = cur, !.from = off,
                    !.sized = AnswerKind = "part" \/ sc.framing = "length",
                    !.expected = ExpectedSize(row)]
  BY DEF Fetch, Go, files, rows
<1>1. PICK k, b : k = AnswerKind /\ b = (k = "part" \/ sc.framing = "length")
  OBVIOUS
<1>2. resp'.kind = k /\ resp'.ent = cur /\ resp'.sized = b
  BY <1>0, <1>1 DEF NoResp
<1>3. Ends(part, off) /\ off \in Nat
  BY <1>0, FlowFacts, Lengthy DEF Streaming
<1>4. (k = "zero" <=> off = 0) /\ (k = "part" => off < Size(cur))
  BY <1>1 DEF AnswerKind
<1>5. Answer("respond", off, row.tag, resp')
  BY <1>1, <1>2, <1>4 DEF Answer
<1>6. Dated(cur, nchange, resp')
  BY <1>1, <1>2, FlowFacts DEF Dated, Flowing, Given, Telling, Typed
<1>7. Staged
  BY <1>0, <1>3, <1>5, <1>6 DEF Staged
<1> QED
  BY <1>0, <1>7, FlowRows, SameMatched, Flows

LEMMA RefusalsFlow == ASSUME Flowing, Replay \/ FetchFails \/ Refused PROVE WInv'
<1>0. stage = "fetch" /\ UNCHANGED <<part, disk>> /\ Ends(part, off)
  BY FlowFacts DEF Replay, FetchFails, Refused, files, Streaming
<1>1. CASE Replay
  <2>1. stage' = "fetch" /\ UNCHANGED <<row, saved, off>>
    BY <1>1 DEF Replay, Go, rows
  <2>2. Staged
    BY <1>0, <2>1 DEF Staged, Replies
  <2> QED
    BY <1>0, <2>1, <2>2, FlowRows, SameMatched, Flows
<1>2. CASE FetchFails
  BY <1>0, <1>2, ReconnectFlows DEF FetchFails
<1>3. CASE Refused
  BY <1>0, <1>3, FlowRows, RestFlows DEF Refused, Fail, Commit, rows
<1> QED
  BY <1>1, <1>2, <1>3

\* The file is done: what it holds is the version that the row names.
LEMMA FinishFlows ==
  ASSUME Flowing, Finish(off), UNCHANGED <<part, disk>>, row.tag \in Entities, Ends(part, Size(row.tag))
  PROVE  WInv'
<1>1. stage' = "finish" /\ UNCHANGED <<row, saved>>
  BY DEF Finish, Go, rows
<1>2. part = Whole(row.tag)
  BY FlowFacts, SolidWhole
<1>3. Staged
  BY <1>1, <1>2 DEF Staged, Streaming, Replies
<1> QED
  BY <1>1, <1>3, FlowRows, SameMatched, Flows

LEMMA Respond416Flows == ASSUME Flowing, Respond416 PROVE WInv'
<1>0. stage = "respond" /\ resp.ent \in Entities /\ Ends(part, off)
  BY FlowFacts DEF Respond416, Streaming, Replies
<1>1. CASE Confirms(off) /\ off = UnsatisfiedTotal
  <2>1. row.tag = resp.ent /\ off = Size(row.tag) /\ Finish(off) /\ UNCHANGED <<part, disk>>
    BY <1>1 DEF Respond416, Confirms, UnsatisfiedTotal, Finish, files
  <2> QED
    BY <1>0, <2>1, FinishFlows
<1>2. CASE GiveUp(off)
  BY <1>2, FlowRows, RestFlows DEF GiveUp, Fail, Commit, files
<1>3. CASE \E l : Reconnect(l, off, row, FALSE) /\ UNCHANGED files
  BY <1>0, <1>3, ReconnectFlows DEF files
<1>4. \/ Confirms(off) /\ off = UnsatisfiedTotal
      \/ GiveUp(off)
      \/ \E l : Reconnect(l, off, row, FALSE) /\ UNCHANGED files
  BY Zenon DEF Respond416
<1> QED
  BY <1>1, <1>2, <1>3, <1>4

LEMMA AnswersFlow == ASSUME Flowing, RespondKept \/ RespondPartial \/ RespondZero PROVE WInv'
<1>0. /\ stage = "respond" /\ resp.ent \in Entities /\ Ends(part, off) /\ UNCHANGED <<part, disk>>
      /\ Answer("respond", off, row.tag, resp) /\ Dated(cur, nchange, resp)
  BY FlowFacts DEF RespondKept, RespondPartial, RespondZero, Streaming, Replies, GiveUp, files
<1>1. CASE RespondKept /\ Confirmable
  <2>1. stage' = "confirm" /\ UNCHANGED <<row, saved, off, resp>> /\ row.tag = resp.ent
    BY <1>1 DEF RespondKept, Confirmable, Confirms, Go, rows
  <2>2. Answer("confirm", off, row.tag, resp)
    BY <1>0, <2>1 DEF Answer
  <2>3. Staged
    BY <1>0, <2>1, <2>2 DEF Staged
  <2> QED
    BY <1>0, <2>1, <2>3, FlowRows, SameMatched, Flows
<1>2. CASE RespondKept /\ ~Confirmable
  BY <1>0, <1>2, FlowRows, RestFlows DEF RespondKept, GiveUp, Fail, Commit
<1>3. CASE RespondPartial
  <2>1. CASE Mismatch(row, resp.ent)
    BY <1>0, <1>3, <2>1, FlowRows, RestFlows DEF RespondPartial, Fail, rows
  <2>2. CASE ~Mismatch(row, resp.ent)
    <3>1. stage' = "accept" /\ UNCHANGED <<row, saved, off, resp>> /\ resp.kind = "part"
      BY <1>3, <2>2 DEF RespondPartial, Go, rows
    <3>2. row.tag = resp.ent /\ off < Size(resp.ent) /\ resp.sized
      <4>1. off # 0 /\ off \in Nat
        BY <1>0, <3>1, FlowFacts, Lengthy DEF Answer
      <4>2. row.tag \in Entities
        BY <1>0, <4>1, FlowFacts, EndsHere
      <4> QED
        BY <1>0, <2>2, <3>1, <4>2, NotNil DEF Mismatch, Answer
    <3>3. Answer("accept", off, row.tag, resp)
      BY <3>1, <3>2 DEF Answer
    <3>4. Staged
      BY <1>0, <3>1, <3>3 DEF Staged
    <3> QED
      BY <1>0, <3>1, <3>4, FlowRows, SameMatched, Flows
  <2> QED
    BY <2>1, <2>2
<1>4. CASE RespondZero
  <2>1. stage' = "accept" /\ UNCHANGED <<row, saved, off, resp>> /\ resp.kind = "zero" /\ off = 0
    BY <1>0, <1>4 DEF RespondZero, Go, rows, Answer
  <2>2. Answer("accept", off, row.tag, resp)
    BY <2>1 DEF Answer
  <2>3. Staged
    BY <1>0, <2>1, <2>2 DEF Staged
  <2> QED
    BY <1>0, <2>1, <2>3, FlowRows, SameMatched, Flows
<1> QED
  BY <1>1, <1>2, <1>3, <1>4

LEMMA FullFlows == ASSUME Flowing, RespondFull PROVE WInv'
<1>1. /\ stage = "respond" /\ resp.kind = "full" /\ stage' = "accept" /\ UNCHANGED <<row, saved, resp>>
      /\ Store(Empty) /\ off' = 0
  BY NoSuchFault DEF RespondFull, Go, rows, Replaced, Flowing, Given
<1>2. Answer("accept", 0, row.tag, resp) /\ Dated(cur, nchange, resp)
  BY <1>1, FlowFacts DEF Answer, Replies
<1>3. Staged
  BY <1>1, <1>2, EmptyIs DEF Staged, Store
<1> QED
  BY <1>1, <1>3, FlowRows, EmptyMatched, Flows

LEMMA ConfirmsFlow == ASSUME Flowing, ConfirmMatches \/ ConfirmDiffers \/ ConfirmFails PROVE WInv'
<1>0. stage = "confirm" /\ resp.ent \in Entities /\ Ends(part, off) /\ row.tag = resp.ent
  BY FlowFacts DEF ConfirmMatches, ConfirmDiffers, ConfirmFails, Streaming, Replies, Answer
<1>1. CASE ConfirmMatches
  <2>1. sc.framing # "close"
    BY FlowFacts DEF Flowing, Given, Telling, Typed
  <2>2. off = Size(row.tag) /\ Finish(off) /\ UNCHANGED <<part, disk>>
    BY <1>0, <1>1, <2>1 DEF ConfirmMatches, CanEnd, Finish, files
  <2> QED
    BY <1>0, <2>2, FinishFlows
<1>2. CASE ConfirmDiffers
  <2>1. UNCHANGED <<part, disk>>
    BY <1>2 DEF ConfirmDiffers, files
  <2>2. CASE Fail /\ Commit(Checkpointed(row, off))
    BY <2>1, <2>2, FlowRows, RestFlows DEF Fail, Commit
  <2>3. CASE \E l : Reconnect(l, off, row, FALSE)
    BY <1>0, <2>1, <2>3, ReconnectFlows
  <2> QED
    BY <1>2, <2>2, <2>3 DEF ConfirmDiffers
<1>3. CASE ConfirmFails
  <2>1. UNCHANGED <<part, disk>>
    BY <1>3 DEF ConfirmFails, files
  <2>2. CASE Reconnect(lp, off, row, FALSE)
    BY <1>0, <2>1, <2>2, ReconnectFlows
  <2>3. CASE EndSingle(Stopped) /\ UNCHANGED rows
    BY <2>1, <2>3, FlowRows, RestFlows DEF rows
  <2> QED
    BY <1>3, <2>2, <2>3 DEF ConfirmFails
<1> QED
  BY <1>1, <1>2, <1>3

LEMMA AcceptedIs ==
  ASSUME Flowing
  PROVE  /\ AcceptedRow.tag = resp.ent /\ AcceptedRow.map = NoMap /\ AcceptedRow.total = TotalOf
         /\ ~AcceptedRow.rejected /\ AcceptedRow.fmt # 1
         /\ TotalOf > 0 => AcceptedRow.exp = TotalOf
<1>1. PICK e, x, f, m : /\ e = IF TotalOf > 0 \/ resp.kind = "full" THEN TotalOf ELSE row.exp
                        /\ x = (row.resume \/ resp.kind = "part" \/ sc.advert)
                        /\ f = (IF resp.kind = "full" THEN 0 ELSE row.fmt)
                        /\ m = (IF resp.kind = "full" THEN NoMap ELSE row.map)
  OBVIOUS
<1>2. AcceptedRow = [row EXCEPT !.down = off, !.total = TotalOf, !.tag = resp.ent, !.exp = e, !.resume = x,
                       !.fmt = f, !.map = m]
  BY <1>1 DEF AcceptedRow
<1>3. m = NoMap /\ f # 1
  BY <1>1, FlowFacts
<1> QED
  BY <1>1, <1>2, <1>3, FlowFacts DEF RowSet

LEMMA AcceptFlows == ASSUME Flowing, Accept PROVE WInv'
<1>0. /\ stage = "accept" /\ UNCHANGED <<part, disk>> /\ Ends(part, off) /\ resp.ent \in Entities
      /\ Answer("accept", off, row.tag, resp) /\ Dated(cur, nchange, resp)
  BY FlowFacts DEF Accept, Streaming, Replies, files
<1>1. CASE SizeRefused
  BY <1>0, <1>1, FlowRows, RestFlows DEF Accept, Fail, rows
<1> DEFINE q == AcceptedRow
<1>2. q.tag = resp.ent /\ q.map = NoMap /\ q.total = TotalOf /\ ~q.rejected /\ q.fmt # 1
      /\ (TotalOf > 0 => q.exp = TotalOf)
  BY AcceptedIs
<1> HIDE DEF q
<1>3. Solid(part, resp.ent) /\ Solid(disk, resp.ent)
  <2>1. CASE resp.kind = "part"
    BY <1>0, <2>1, FlowFacts DEF Answer
  <2>2. CASE resp.kind # "part"
    <3>1. off = 0
      BY <1>0, <2>2 DEF Answer
    <3>2. \A p \in Pos : part[p] = Nil /\ disk[p] = Nil
      BY <1>0, <3>1, FlowFacts, LengthsAssumption DEF Ends, Within, Pos
    <3> QED
      BY <3>2 DEF Solid
  <2> QED
    BY <2>1, <2>2
<1>4. /\ Shaped(sc.multi, q, q) /\ Match(part, disk, q, q)
      /\ Shaped(sc.multi, q, saved) /\ Match(part, disk, q, saved)
  BY <1>2, <1>3, FlowFacts DEF Shaped, RowShape, Pair, Match, OfRow
<1>5. sc.multi => Known(part, disk, cur, nchange, q)
  <2> SUFFICES ASSUME sc.multi PROVE Known(part, disk, cur, nchange, q)
    OBVIOUS
  <2>1. resp.sized /\ TotalOf = Size(resp.ent) /\ TotalOf > 0 /\ (resp.ent # cur => nchange > 0)
    BY <1>0, FlowFacts, Sizes DEF Dated, TotalOf
  <2> QED
    BY <1>0, <1>2, <2>1 DEF Known
<1>6. CASE /\ Commit(q) /\ stage' = "open" /\ off' = off
           /\ resp' = [resp EXCEPT !.adopts = Adopts, !.limit = TotalOf]
  <2>1. Matched
    BY <1>0, <1>4, <1>5, <1>6 DEF Matched, Commit
  <2>2. resp'.kind = resp.kind /\ resp'.ent = resp.ent /\ resp'.sized = resp.sized /\ resp'.limit = TotalOf
    BY <1>6, FlowFacts DEF Streams, SingleTyped, Typed, Resps
  <2>3. Answer("open", off, q.tag, resp')
    BY <1>0, <1>2, <2>2 DEF Answer, TotalOf
  <2>4. Staged
    BY <1>0, <1>6, <2>2, <2>3 DEF Staged, Dated, Commit
  <2> QED
    BY <2>1, <2>4, Flows
<1>7. CASE CommitFails(q) /\ Fail
  <2>1. Matched
    BY <1>0, <1>4, <1>5, <1>7, FlowFacts DEF Matched, CommitFails, Fail, EndSingle, End
  <2>2. Staged
    BY <1>7 DEF Staged, Fail, EndSingle, End, Streaming, Replies
  <2> QED
    BY <2>1, <2>2, Flows
<1>8. SizeRefused \/ (Commit(q) /\ Go("open") /\ off' = off
                       /\ resp' = [resp EXCEPT !.adopts = Adopts, !.limit = TotalOf])
                  \/ (CommitFails(q) /\ Fail)
  BY DEF Accept, q
<1> QED
  BY <1>1, <1>6, <1>7, <1>8 DEF Go

LEMMA OpenFlows == ASSUME Flowing, Open PROVE WInv'
<1>0. /\ stage = "open" /\ resp.ent \in Entities /\ Ends(part, off)
      /\ Answer("open", off, row.tag, resp) /\ Dated(cur, nchange, resp) /\ ~row.rejected
  BY FlowFacts DEF Open, Streaming, Replies
<1>1. /\ off' = off /\ resp' = [resp EXCEPT !.from = off] /\ UNCHANGED <<row, saved>> /\ stage' = "body"
      /\ OpenSink(off)
  BY <1>0, NoSuchFault DEF Open, Flowing, Given, Go, rows
<1>2. resp'.kind = resp.kind /\ resp'.ent = resp.ent /\ resp'.sized = resp.sized /\ resp'.limit = resp.limit
  BY <1>1, FlowFacts DEF Streams, SingleTyped, Typed, Resps
<1>3. Answer("body", off, row.tag, resp')
  <2>1. off \in Nat /\ Size(resp.ent) \in Nat /\ resp.limit \in Nat
    BY <1>0, FlowFacts, Sizes, Lengthy DEF Streams, SingleTyped, Typed, Resps
  <2>2. off <= Size(resp.ent) /\ (resp.limit = 0 \/ off <= resp.limit)
    BY <1>0, <2>1 DEF Answer
  <2> QED
    BY <1>0, <1>2, <2>2 DEF Answer
<1>4. Dated(cur, nchange, resp')
  BY <1>0, <1>2 DEF Dated
<1>5. CASE off = 0
  <2>1. Store(Empty)
    BY <1>1, <1>5 DEF OpenSink
  <2>2. Staged
    BY <1>1, <1>3, <1>4, <1>5, <2>1, EmptyIs DEF Staged, Store
  <2> QED
    BY <1>1, <2>1, <2>2, FlowRows, EmptyMatched, Flows
<1>6. CASE off # 0
  <2>1. UNCHANGED <<part, disk>>
    BY <1>1, <1>6 DEF OpenSink
  <2>2. Staged
    BY <1>0, <1>1, <1>3, <1>4, <2>1 DEF Staged
  <2> QED
    BY <1>1, <2>1, <2>2, FlowRows, SameMatched, Flows
<1> QED
  BY <1>5, <1>6

\* The next byte of the version that the row names.
LEMMA ChunkFlows == ASSUME Flowing, Chunk PROVE WInv'
<1>0. /\ stage = "body" /\ resp.ent \in Entities /\ Ends(part, off) /\ off \in Nat
      /\ Answer("body", off, row.tag, resp) /\ Dated(cur, nchange, resp)
  BY FlowFacts, Lengthy DEF Chunk, Streaming, Replies
<1>1. /\ off < Size(resp.ent) /\ Room /\ part' = Written(part, off + 1, resp.ent) /\ off' = off + 1
      /\ stage' = "body" /\ UNCHANGED <<disk, row, saved, resp>>
  BY DEF Chunk, Go, rows
<1>2. row.tag = resp.ent /\ Size(resp.ent) \in Nat /\ Size(resp.ent) <= MaxLen /\ resp.limit \in Nat
  BY <1>0, FlowFacts, Sizes, Lengthy DEF Answer, Lengths, Streams, SingleTyped, Typed, Resps
<1>3. \A p \in Pos : p \in Nat /\ (part[p] # Nil <=> p <= off)
  BY <1>0 DEF Ends, Pos
<1>4. \A p \in Pos : part'[p] = IF p <= off + 1 THEN resp.ent ELSE Nil
  <2> TAKE p \in Pos
  <2>1. CASE p = off + 1
    BY <1>0, <1>1, <2>1 DEF Written
  <2>2. CASE p # off + 1
    BY <1>0, <1>1, <1>2, <1>3, <2>2, FlowFacts DEF Written, Solid
  <2> QED
    BY <2>1, <2>2
<1>5. Solid(part', resp.ent) /\ Ends(part', off + 1)
  BY <1>0, <1>3, <1>4, NotNil DEF Solid, Ends
<1>6. Within(disk, part')
  BY <1>0, <1>3, <1>5, FlowFacts DEF Within, Ends
<1>7. Match(part', disk', row', saved')
  BY <1>1, <1>2, <1>5, <1>6, FlowFacts DEF Match, OfRow
<1>8. sc.multi => Known(part', disk', cur, nchange, row') /\ Known(part', disk', cur, nchange, saved')
  BY <1>1, FlowFacts DEF Known
<1>9. Matched
  BY <1>1, <1>7, <1>8, FlowFacts DEF Matched
<1>10. Answer("body", off + 1, row.tag, resp)
  <2>1. off + 1 <= Size(resp.ent) /\ (resp.limit = 0 \/ off + 1 <= resp.limit)
    BY <1>0, <1>1, <1>2 DEF Room
  <2> QED
    BY <1>0, <2>1 DEF Answer
<1>11. Staged
  BY <1>0, <1>1, <1>5, <1>10 DEF Staged
<1> QED
  BY <1>9, <1>11, Flows

\* The refused body's file is removed.
LEMMA DiscardFlows == ASSUME Flowing, Discard PROVE WInv'
<1>1. Store(Empty) /\ row' = [row EXCEPT !.down = 0, !.rejected = FALSE] /\ saved' = row' /\ stage' = "idle"
  BY NoSuchFault DEF Discard, Flowing, Given, Commit, Fail, EndSingle, End
<1>2. Like(row, row') /\ Like(row, saved')
  BY <1>1, FlowFacts DEF Like, RowSet
<1>3. Staged
  BY <1>1 DEF Staged, Streaming, Replies
<1> QED
  BY <1>1, <1>2, <1>3, EmptyMatched, Flows

LEMMA SyncMatched ==
  ASSUME Flowing, Sync, Like(row, row'), Like(row, saved') \/ Like(saved, saved')
  PROVE  Matched
<1>1. Shaped(sc.multi, row', saved') /\ Match(part, disk, row', saved')
  BY FlowFacts, LikeShaped, LikeMatch
<1>2. part' = part /\ disk' = part /\ row'.map = NoMap /\ saved'.map = NoMap
  BY FlowFacts DEF Sync, Like
<1>3. Match(part', disk', row', saved')
  BY <1>1, <1>2 DEF Match, OfRow, Within
<1>4. sc.multi => Known(part', disk', cur, nchange, row') /\ Known(part', disk', cur, nchange, saved')
  <2>1. ASSUME NEW r, r.map = NoMap, Known(part, disk, cur, nchange, r) PROVE Known(part', disk', cur, nchange, r)
    BY <2>1 DEF Known
  <2> QED
    BY <1>2, <2>1, FlowFacts, LikeKnown
<1>5. saved'.tag = row'.tag
  BY FlowFacts DEF Like
<1> QED
  BY <1>1, <1>3, <1>4, <1>5 DEF Matched

LEMMA StopFlows == ASSUME Flowing, StopBody \/ Overlong PROVE WInv'
<1>1. CASE Overlong
  BY <1>1, DiscardFlows DEF Overlong
<1>2. CASE StopBody
  <2>1. row' = [row EXCEPT !.down = off] /\ saved' = saved /\ stage' = "idle"
        /\ (Sync \/ UNCHANGED <<part, disk>>)
    BY <1>2 DEF StopBody, Ticked, Fail, EndSingle, End
  <2>2. Matched
    BY <2>1, FlowRows, SyncMatched, SameMatched
  <2>3. Staged
    BY <2>1 DEF Staged, Streaming, Replies
  <2> QED
    BY <2>2, <2>3, Flows
<1> QED
  BY <1>1, <1>2

LEMMA ExhaustedFlows ==
  ASSUME Flowing, stage = "body", off = Size(resp.ent), Exhausted PROVE WInv'
<1>1. row.tag = resp.ent /\ resp.ent \in Entities /\ Ends(part, off)
  BY FlowFacts DEF Streaming, Replies, Answer
<1>2. CASE Discard
  BY <1>2, DiscardFlows
<1>3. CASE Finish(off)
  BY <1>1, <1>3, FinishFlows DEF Finish, files
<1>4. CASE Fail /\ Ticked(off) /\ UNCHANGED files
  BY <1>4, FlowRows, RestFlows DEF Fail, Ticked, files
<1> QED
  BY <1>2, <1>3, <1>4 DEF Exhausted

LEMMA ShortFlows == ASSUME Flowing, stage = "body", resp.limit > 0 \/ off = Size(resp.ent), Short, ~Complete PROVE WInv'
<1>0. Ends(part, off) /\ sc.framing # "close"
  BY FlowFacts DEF Streaming, Flowing, Given, Telling, Typed
<1>1. resp.limit > 0
  BY <1>0 DEF Complete
<1>2. CASE Discard
  BY <1>2, DiscardFlows
<1>3. CASE \E l, b : Reconnect(l, off, row, b) /\ UNCHANGED files
  BY <1>0, <1>3, ReconnectFlows DEF files
<1>4. Discard \/ \E l, b : Reconnect(l, off, row, b) /\ UNCHANGED files
  BY <1>1 DEF Short
<1> QED
  BY <1>2, <1>3, <1>4

LEMMA EndsFlow == ASSUME Flowing, BodyEnds \/ BodyBreaks PROVE WInv'
<1>0. /\ stage = "body" /\ sc.framing # "close" /\ Ends(part, off) /\ off \in Nat /\ resp.limit \in Nat
      /\ Size(resp.ent) \in Nat /\ Answer("body", off, row.tag, resp)
  BY FlowFacts, Sizes, Lengthy
  DEF BodyEnds, BodyBreaks, Streaming, Replies, Flowing, Given, Telling, Typed, Streams, SingleTyped, Resps
<1>1. CASE BodyEnds
  <2>1. off = Size(resp.ent) /\ (IF Complete THEN Exhausted ELSE Short)
    BY <1>0, <1>1 DEF BodyEnds, CanEnd
  <2> QED
    BY <1>0, <2>1, ExhaustedFlows, ShortFlows
<1>2. CASE BodyBreaks
  <2>1. CASE resp.limit > 0 /\ off >= resp.limit
    <3>1. off = Size(resp.ent)
      BY <1>0, <1>2, <2>1 DEF BodyBreaks, Coincides, Answer
    <3> QED
      BY <1>0, <1>2, <2>1, <3>1, ExhaustedFlows DEF BodyBreaks
  <2>2. CASE ~(resp.limit > 0 /\ off >= resp.limit)
    <3>1. \E l : Reconnect(l, off, row, FALSE) /\ UNCHANGED files
      BY <1>2, <2>2 DEF BodyBreaks
    <3> QED
      BY <1>0, <3>1, ReconnectFlows DEF files
  <2> QED
    BY <2>1, <2>2
<1> QED
  BY <1>1, <1>2

LEMMA SingleFlows == ASSUME Given, SingleNext, UNCHANGED multi PROVE WInv'
<1>1. Flowing
  BY DEF Flowing
<1>2. CASE SingleSetup \/ Wake \/ Fetch \/ Respond416 \/ RespondFull \/ Accept \/ Open \/ Chunk
  BY <1>1, <1>2, SetupFlows, WakeFlows, FetchFlows, Respond416Flows, FullFlows, AcceptFlows, OpenFlows, ChunkFlows
<1> QED
  BY <1>1, <1>2, InterruptFlows, RefusalsFlow, AnswersFlow, ConfirmsFlow, StopFlows, EndsFlow DEF SingleNext

-----------------------------------------------------------------------------
(* Several connections.                                                    *)

\* partition leaves nothing out.
LEMMA Covered ==
  ASSUME NEW n \in 1..MaxLen, NEW p \in 1..n
  PROVE  \E s \in SegsOf(n) : SegFirst(n, s) <= p /\ p < SegFirst(n, s) + SegLen(n, s)
<1>1. n \in Nat \ {0} /\ SegCount(n) \in 1..n /\ SegsOf(n) = 1..SegCount(n)
  BY Geometry, LengthsAssumption
<1>0. PICK k, d, r : k = SegCount(n) /\ d = n \div k /\ r = n % k
  OBVIOUS
<1>2. d \in Nat \ {0} /\ r \in 0..(k - 1) /\ r = n - k * d /\ k * d \in Nat /\ k \in Nat \ {0}
  <2>1. n \in Nat \ {0} /\ k \in 1..n
    BY <1>0, <1>1
  <2>2. /\ n \div k \in Nat \ {0} /\ n % k \in 0..(k - 1)
        /\ n % k = n - k * (n \div k) /\ k * (n \div k) \in Nat
    BY <2>1, Divides, Zenon
  <2> QED
    BY <1>0, <2>1, <2>2
<1>3. \A s \in 1..k : /\ SegFirst(n, s) = (s - 1) * d + Least(s - 1, r) + 1
                      /\ SegLen(n, s) = d + IF s <= r THEN 1 ELSE 0
  BY <1>0 DEF SegFirst, SegLen
<1>4. \A s \in 1..k : SegFirst(n, s) \in Nat /\ SegLen(n, s) \in Nat
  BY <1>0, <1>1, Geometry
<1>5. SegFirst(n, 1) <= p
  BY <1>2, <1>3 DEF Least
<1>6. ASSUME NEW s \in 1..k, s + 1 \in 1..k PROVE SegFirst(n, s + 1) = SegFirst(n, s) + SegLen(n, s)
  <2>1. (s + 1 - 1) * d = (s - 1) * d + d /\ (s - 1) * d \in Nat
    BY <1>2
  <2> QED
    BY <1>2, <1>3, <1>6, <2>1 DEF Least
<1>7. SegFirst(n, k) + SegLen(n, k) - 1 = n
  <2>1. k * d = (k - 1) * d + d /\ (k - 1) * d \in Nat
    BY <1>2
  <2> QED
    BY <1>2, <1>3, <2>1 DEF Least
<1> DEFINE T == {s \in 1..k : SegFirst(n, s) <= p}
<1>8. PICK t \in T : \A s \in T : s <= t
  <2>1. T \subseteq 1..k /\ T # {} /\ k \in Nat
    BY <1>2, <1>5
  <2> HIDE DEF T
  <2> QED BY <2>1, Greatest
<1>9. p < SegFirst(n, t) + SegLen(n, t)
  <2>1. CASE t = k
    BY <1>4, <1>7, <2>1
  <2>2. CASE t # k
    <3>1. t + 1 \in 1..k /\ t \in 1..k
      BY <1>2, <2>2
    <3>2. ~(SegFirst(n, t + 1) <= p)
      BY <1>8, <3>1
    <3> QED
      BY <1>4, <1>6, <3>1, <3>2
  <2> QED
    BY <2>1, <2>2
<1> QED
  BY <1>0, <1>1, <1>8, <1>9

\* A file that holds everything a full map confirms is the version of the map's total.
LEMMA FullWhole ==
  ASSUME Typed, NEW m \in MapSet, AllWritten(m), NEW e \in Entities, m.total = Size(e),
         NEW f \in FileSet, Inside(f, m.total, e), HeldIn(f, m)
  PROVE  f = Whole(e)
<1>1. /\ m.total \in 1..MaxLen /\ DOMAIN m.written = SegsOf(m.total)
      /\ \A s \in SegsOf(m.total) : m.written[s] \in Nat
  BY MapParts
<1>2. ASSUME NEW p \in Pos, p <= Size(e) PROVE f[p] = e
  <2>1. p \in 1..m.total /\ p \in Nat
    BY <1>1, <1>2, LengthsAssumption DEF Pos
  <2>2. PICK s \in SegsOf(m.total) : SegFirst(m.total, s) <= p /\ p < SegFirst(m.total, s) + SegLen(m.total, s)
    BY <1>1, <2>1, Covered
  <2>3. SegLen(m.total, s) \in Nat /\ SegFirst(m.total, s) \in Nat /\ m.written[s] >= SegLen(m.total, s)
    BY <1>1, Geometry DEF AllWritten
  <2>4. p \in Confirmed(m)
    BY <1>1, <2>1, <2>2, <2>3, ConfirmedIs
  <2> QED
    BY <2>4, ValuesAssumption DEF HeldIn, Inside
<1>3. \A p \in Pos : f[p] = IF p <= Size(e) THEN e ELSE Nil
  <2>1. Size(e) \in Nat
    BY Sizes
  <2> QED
    BY <1>2, <2>1 DEF Inside, Pos
<1>4. f = [p \in Pos |-> f[p]]
  BY DEF FileSet
<1> QED
  BY <1>3, <1>4 DEF Whole

\* Outside one stream: what is to be shown where a step ends.
Quiet == /\ UNCHANGED <<sc, cur, nchange, old, final>> /\ (outcome' = "completed" => outcome = "completed")
         /\ stage' \notin Streaming \cup {"wiped", "swap"}
Paired == /\ Shaped(sc.multi, row', saved') /\ Match(part', disk', row', saved')
          /\ sc.multi => Known(part', disk', cur, nchange, row') /\ Known(part', disk', cur, nchange, saved')
          /\ stage' # "idle" /\ stage' # "preflight" => saved'.tag = row'.tag
Segmentary ==
  /\ stage' = "multi" => sc.multi
  /\ fresh' => stage' \in Segmenting
  /\ stage' = "long" /\ fresh' => part' = Empty /\ disk' = Empty
  /\ stage' = "workers" => \A s \in SegsOf(row'.map.total) : OfVersion(seg'[s], row')
  /\ stage' = "finalize" => AllWritten(live')
  /\ stage' = "finish" => row'.tag \in Entities /\ part' = Whole(row'.tag)

LEMMA Settles ==
  ASSUME Given, Quiet, Paired, Segmentary
  PROVE  WInv'
<1>0. WInv
  BY DEF Given
<1>1. Matching'
  BY DEF Quiet, Paired, Matching, Shaped, RowShape, Pair, Match, OfRow
<1>2. Knowing'
  BY <1>0 DEF Quiet, Paired, Knowing, Known, Size, WInv
<1>3. Named'
  BY DEF Paired, Named
<1>4. AtEnd' /\ Reply'
  BY DEF Quiet, AtEnd, Reply, Streaming, Replies
<1>5. Segmented'
  BY DEF Quiet, Segmentary, Segmented, OfVersion, Size, AllWritten
<1>6. Finishing'
  BY DEF Quiet, Segmentary, Finishing, Whole, Size
<1>7. Promised'
  BY <1>0, PromisedKeeps DEF Quiet, WInv
<1> QED
  BY <1>1, <1>2, <1>3, <1>4, <1>5, <1>6, <1>7 DEF WInv

\* What is known of rows and files outside a restart.
LEMMA GivenFacts ==
  ASSUME Given, stage # "wiped"
  PROVE  /\ Typed /\ Shaped(sc.multi, row, saved) /\ Match(part, disk, row, saved)
         /\ sc.multi => Known(part, disk, cur, nchange, row) /\ Known(part, disk, cur, nchange, saved)
         /\ stage \notin {"idle", "preflight"} => saved.tag = row.tag
         /\ ~row.rejected /\ ~saved.rejected /\ row \in RowSet /\ saved \in RowSet
         /\ row.map = NoMap => /\ saved.map = NoMap /\ Within(disk, part)
                               /\ Solid(part, row.tag) /\ Solid(disk, row.tag)
                               /\ Solid(part, saved.tag) /\ Solid(disk, saved.tag)
         /\ row.map # NoMap => /\ saved.map # NoMap /\ saved.map.total = row.map.total /\ saved.tag = row.tag
                               /\ row.tag \in Entities /\ sc.multi
                               /\ Inside(part, row.map.total, row.tag) /\ Inside(disk, row.map.total, row.tag)
         /\ row.map \in Maps /\ saved.map \in Maps /\ part \in FileSet /\ disk \in FileSet
         /\ Segmented /\ Finishing /\ Promised
<1>1. Typed /\ WInv /\ IInv
  BY DEF Given, IInv, SingleTyped
<1>2. Shaped(sc.multi, row, saved) /\ Match(part, disk, row, saved)
  BY <1>1 DEF WInv, Matching
<1>3. ~row.rejected /\ ~saved.rejected
  BY <1>2 DEF Shaped, RowShape
<1>4. row.map = NoMap => /\ saved.map = NoMap /\ Within(disk, part)
                         /\ Solid(part, row.tag) /\ Solid(disk, row.tag)
                         /\ Solid(part, saved.tag) /\ Solid(disk, saved.tag)
  BY <1>2 DEF Shaped, Pair, Match, OfRow
<1>5. row.map # NoMap => /\ saved.map # NoMap /\ saved.map.total = row.map.total /\ saved.tag = row.tag
                         /\ row.tag \in Entities /\ sc.multi
                         /\ Inside(part, row.map.total, row.tag) /\ Inside(disk, row.map.total, row.tag)
  BY <1>2 DEF Shaped, RowShape, Pair, Match, OfRow
<1> QED
  BY <1>1, <1>2, <1>3, <1>4, <1>5, InvFacts DEF WInv, Knowing, Named

LEMMA SamePaired ==
  ASSUME Given, stage # "wiped", stage \notin {"idle", "preflight"} \/ stage' \in {"idle", "preflight"},
         UNCHANGED <<part, disk>>, Like(row, row'), Like(row, saved') \/ Like(saved, saved')
  PROVE  Paired
<1>1. Shaped(sc.multi, row', saved') /\ Match(part, disk, row', saved')
  BY GivenFacts, LikeShaped, LikeMatch
<1>2. sc.multi => Known(part, disk, cur, nchange, row') /\ Known(part, disk, cur, nchange, saved')
  BY GivenFacts, LikeKnown
<1>3. stage' # "idle" /\ stage' # "preflight" => saved'.tag = row'.tag
  BY GivenFacts DEF Like
<1> QED
  BY <1>1, <1>2, <1>3 DEF Paired

\* Rows with a map, and rows that lose it.
LEMMA MapRowIs ==
  ASSUME NEW r \in RowSet, NEW m \in MapSet
  PROVE  /\ MapRow(r, m).map = m /\ MapRow(r, m).total = m.total /\ MapRow(r, m).fmt = 1
         /\ MapRow(r, m).tag = r.tag /\ MapRow(r, m).exp = r.exp /\ MapRow(r, m).rejected = r.rejected
         /\ RolledBack(MapRow(r, m)).map = NoMap /\ RolledBack(MapRow(r, m)).fmt = 0
         /\ RolledBack(MapRow(r, m)).total = m.total
         /\ RolledBack(MapRow(r, m)).tag = r.tag /\ RolledBack(MapRow(r, m)).exp = r.exp
         /\ RolledBack(MapRow(r, m)).rejected = r.rejected
<1>1. PICK n, k, x : n = m.total /\ k = WrittenSum(m) /\ x = 1
  OBVIOUS
<1>2. PICK q : q = [r EXCEPT !.fmt = x, !.map = m, !.total = n, !.down = k, !.resume = TRUE]
  OBVIOUS
<1>3. MapRow(r, m) = q
  BY <1>1, <1>2, Zenon DEF MapRow
<1>4. q.map = m /\ q.total = n /\ q.fmt = x /\ q.tag = r.tag /\ q.exp = r.exp /\ q.rejected = r.rejected
  BY <1>2 DEF RowSet
<1>5. PICK t : t = [q EXCEPT !.fmt = 0, !.map = NoMap]
  OBVIOUS
<1>6. t.map = NoMap /\ t.total = n /\ t.fmt = 0 /\ t.tag = r.tag /\ t.exp = r.exp /\ t.rejected = r.rejected
  BY <1>2, <1>5 DEF RowSet
<1>7. RolledBack(q) = t
  BY <1>5 DEF RolledBack
<1> QED
  BY <1>1, <1>3, <1>4, <1>6, <1>7

LEMMA RolledIs ==
  ASSUME NEW r \in RowSet
  PROVE  /\ RolledBack(r).map = NoMap /\ RolledBack(r).fmt = 0 /\ RolledBack(r).total = r.total
         /\ RolledBack(r).tag = r.tag /\ RolledBack(r).exp = r.exp /\ RolledBack(r).rejected = r.rejected
  BY DEF RolledBack, RowSet

\* What a sync, and a longer map of the same file, leave known.
LEMMA KnownStays ==
  ASSUME NEW c, NEW n, NEW r, Known(part, disk, c, n, r), NEW d, d \in {part, disk}
  PROVE  Known(part, d, c, n, r)
  BY DEF Known

LEMMA MapPaired ==
  ASSUME Given, stage \notin {"idle", "preflight", "wiped"}, row.map \in MapSet,
         NEW m \in MapSet, m.total = row.map.total, part' = part, disk' \in {part, disk},
         row' = MapRow(row, m), saved' \in {MapRow(row, m), saved}
  PROVE  Paired
<1>1. row.map # NoMap /\ m # NoMap /\ row \in RowSet /\ saved \in RowSet
  BY MapParts, GivenFacts
<1>2. PICK q : q = MapRow(row, m)
  OBVIOUS
<1>3. /\ q.map = m /\ q.total = m.total /\ q.fmt = 1 /\ q.tag = row.tag /\ q.exp = row.exp /\ ~q.rejected
  BY <1>1, <1>2, MapRowIs, GivenFacts
<1>4. Shaped(sc.multi, q, q) /\ Shaped(sc.multi, q, saved)
  BY <1>1, <1>3, GivenFacts DEF Shaped, RowShape, Pair
<1>5. Match(part', disk', q, q) /\ Match(part', disk', q, saved)
  BY <1>1, <1>3, GivenFacts DEF Match, OfRow
<1>6. sc.multi => Known(part', disk', cur, nchange, q) /\ Known(part', disk', cur, nchange, saved)
  <2> SUFFICES ASSUME sc.multi
               PROVE  Known(part', disk', cur, nchange, q) /\ Known(part', disk', cur, nchange, saved)
    OBVIOUS
  <2>1. Known(part, disk', cur, nchange, row) /\ Known(part, disk', cur, nchange, saved)
    BY GivenFacts, KnownStays
  <2>2. Known(part, disk', cur, nchange, q)
    BY <1>1, <1>3, <2>1, GivenFacts DEF Known
  <2> QED
    BY <2>1, <2>2
<1>7. saved.tag = row.tag
  BY GivenFacts
<1> QED
  BY <1>2, <1>3, <1>4, <1>5, <1>6, <1>7 DEF Paired

\* A row that has lost its map, and an empty file.
LEMMA EmptyPaired ==
  ASSUME Given, stage # "wiped", Store(Empty), NEW q, row' = q, saved' = q, q.map = NoMap, q.fmt = 0, ~q.rejected,
         q.tag = row.tag, q.exp = row.exp, q.total = row.total \/ (row.map # NoMap /\ q.total = row.map.total)
  PROVE  Paired
<1>1. Shaped(sc.multi, q, q)
  BY DEF Shaped, RowShape, Pair
<1>2. Match(part', disk', q, q)
  BY EmptyMatch DEF Store
<1>3. sc.multi => Known(part', disk', cur, nchange, q)
  BY GivenFacts DEF Known
<1> QED
  BY <1>1, <1>2, <1>3 DEF Paired

LEMMA EndedQuietly ==
  ASSUME NEW o, MEnd(o), o # "completed", final' = final, Paired, Given
  PROVE  WInv'
<1>1. Quiet /\ Segmentary
  BY DEF MEnd, End, MIdle, Quiet, Segmentary, Streaming, world, remote
<1> QED
  BY <1>1, Settles

LEMMA DeclinedWhole == ASSUME Given, UNCHANGED single, MultiDeclined PROVE WInv'
<1>1. stage = "multi" /\ stage' = "single" /\ UNCHANGED <<world, outcome, part, disk, final, fresh>>
  BY DEF MultiDeclined, MGo, files, multi
<1>2. row.map = NoMap /\ row' = RolledBack(row) /\ saved' = row'
  BY <1>1, GivenFacts DEF MultiDeclined, Commit
<1>3. row.fmt # 1 /\ row.fmt \in {0, 1} /\ row \in RowSet
  BY <1>1, <1>2, GivenFacts, RowFields DEF Shaped, RowShape
<1>4. Like(row, row') /\ Like(row, saved')
  BY <1>2, <1>3, RolledIs DEF Like
<1>5. Paired
  BY <1>1, <1>4, SamePaired
<1>6. ~fresh
  BY <1>1, GivenFacts DEF Segmented, Segmenting
<1>7. Quiet /\ Segmentary
  BY <1>1, <1>6 DEF Quiet, Segmentary, Streaming, world, remote
<1> QED
  BY <1>5, <1>7, Settles

\* fail_start with the row as it is, or with the map that the start would commit.
LEMMA FailStartWhole ==
  ASSUME Given, stage \in {"multi", "long"}, NEW long, NEW r,
         FailStart(long, r),
         \/ r = row
         \/ \E m \in MapSet : /\ r = MapRow(row, m) /\ m.total = IF row.map = NoMap THEN row.total ELSE row.map.total
                              /\ stage = "multi" /\ long = FALSE
  PROVE  WInv'
<1>0. row \in RowSet /\ row.map \in Maps /\ ~row.rejected /\ MEnd("failed") /\ final' = final
  BY GivenFacts DEF FailStart, MFail
<1>1. CASE row.map = NoMap \/ fresh
  <2>1. Commit(RolledBack(r)) /\ (IF long THEN Store(Empty) ELSE UNCHANGED <<part, disk>>)
    BY <1>1 DEF FailStart
  <2>2. /\ RolledBack(r).map = NoMap /\ RolledBack(r).fmt = 0 /\ ~RolledBack(r).rejected
        /\ RolledBack(r).tag = row.tag /\ RolledBack(r).exp = row.exp /\ RolledBack(r).rejected = row.rejected
        /\ RolledBack(r).total = row.total \/ (row.map # NoMap /\ RolledBack(r).total = row.map.total)
        /\ row.map = NoMap => RolledBack(r).total = row.total
    BY <1>0, MapRowIs, RolledIs
  <2>3. CASE stage = "multi"
    <3>1. row.map = NoMap /\ row.fmt = 0
      BY <1>0, <1>1, <2>3, GivenFacts, RowFields DEF Segmented, Segmenting, Shaped, RowShape
    <3>2. Like(row, row') /\ Like(row, saved')
      BY <1>0, <2>1, <2>2, <3>1 DEF Like, Commit
    <3>3. CASE long
      <4>1. Paired
        BY <2>1, <2>2, <2>3, <3>3, EmptyPaired DEF Commit
      <4> QED
        BY <1>0, <4>1, EndedQuietly
    <3>4. CASE ~long
      <4>1. Paired
        BY <2>1, <2>3, <3>2, <3>4, SamePaired DEF MEnd, End
      <4> QED
        BY <1>0, <4>1, EndedQuietly
    <3> QED
      BY <3>3, <3>4
  <2>4. CASE stage = "long"
    <3>1. fresh
      BY <1>1, <2>4 DEF Given, IInv, Starting
    <3>2. part = Empty /\ disk = Empty
      BY <2>4, <3>1, GivenFacts DEF Segmented
    <3>3. Store(Empty)
      BY <2>1, <3>2 DEF Store
    <3>4. Paired
      BY <2>1, <2>2, <2>4, <3>3, EmptyPaired DEF Commit
    <3> QED
      BY <1>0, <3>4, EndedQuietly
  <2> QED
    BY <2>3, <2>4
<1>2. CASE ~(row.map = NoMap \/ fresh)
  <2>1. row' = r /\ UNCHANGED <<saved, part, disk>> /\ row.map \in MapSet
    BY <1>0, <1>2 DEF FailStart, Maps
  <2>2. CASE r = row
    <3>1. Like(row, row') /\ Like(saved, saved')
      BY <2>1, <2>2 DEF Like
    <3>2. Paired
      BY <2>1, <3>1, SamePaired
    <3> QED
      BY <1>0, <3>2, EndedQuietly
  <2>3. CASE \E m \in MapSet : r = MapRow(row, m) /\ m.total = row.map.total
    <3>1. Paired
      BY <2>1, <2>3, MapPaired
    <3> QED
      BY <1>0, <3>1, EndedQuietly
  <2> QED
    BY <1>2, <2>2, <2>3
<1> QED
  BY <1>1, <1>2

LEMMA StartWhole == ASSUME Given, UNCHANGED single, MultiStart PROVE WInv'
<1> DEFINE n == KnownTotal
           m == PreparedMap(n)
<1>0. stage = "multi" /\ saved.map = row.map /\ (row.map # NoMap \/ row.total > 0)
  BY DEF MultiStart, Given, IInv, Starting
<1>1. /\ m \in MapSet /\ (row.map # NoMap => m = row.map)
      /\ m.total = IF row.map = NoMap THEN row.total ELSE row.map.total
  <2>1. CASE row.map # NoMap
    BY <1>0, <2>1, GivenFacts DEF PreparedMap, Maps
  <2>2. CASE row.map = NoMap
    <3>1. n = row.total /\ n \in 1..MaxLen
      BY <1>0, <2>2, GivenFacts, InvFacts DEF KnownTotal, Lengths, Given
    <3>2. FreshMap(n).total = n
      BY DEF FreshMap
    <3> QED
      BY <2>2, <3>1, <3>2, FreshMapMade DEF PreparedMap
  <2> QED
    BY <2>1, <2>2
<1>6. \/ MFail /\ UNCHANGED <<files, rows>>
      \/ /\ Commit(MapRow(row, m)) /\ MGo("long") /\ final' = final /\ fresh' = (row.map = NoMap)
         /\ IF row.map = NoMap THEN Store(Empty) ELSE UNCHANGED <<part, disk>>
      \/ FailStart(FALSE, MapRow(row, m))
  <2>1. \/ MFail /\ UNCHANGED <<files, rows>> /\ NoFault
        \/ /\ Commit(MapRow(row, m)) /\ NoFault
           /\ fresh' = (row.map = NoMap)
           /\ IF row.map = NoMap THEN Store(Empty) ELSE UNCHANGED <<part, disk>>
           /\ MGo("long") /\ UNCHANGED <<final, live, floor, seg, err>>
        \/ Fault("commit") /\ FailStart(FALSE, MapRow(row, m))
    BY Zenon DEF MultiStart
  <2> QED
    BY <2>1
<1> HIDE DEF m, n
<1>2. PICK q : q = MapRow(row, m)
  OBVIOUS
<1>3. CASE MFail /\ UNCHANGED <<files, rows>>
  <2>1. Like(row, row') /\ Like(saved, saved') /\ UNCHANGED <<part, disk, final>>
    BY <1>3 DEF Like, rows, files
  <2>2. Paired
    BY <1>0, <2>1, SamePaired
  <2> QED
    BY <1>3, <2>1, <2>2, EndedQuietly DEF MFail
<1>4. CASE /\ Commit(q) /\ MGo("long") /\ final' = final /\ fresh' = (row.map = NoMap)
           /\ IF row.map = NoMap THEN Store(Empty) ELSE UNCHANGED <<part, disk>>
  <2>0. row' = q /\ saved' = q /\ stage' = "long" /\ UNCHANGED <<sc, cur, nchange, old, outcome, final>>
    BY <1>4 DEF Commit, MGo, world, remote
  <2>1. CASE row.map # NoMap
    <3>1. Paired
      BY <1>0, <1>1, <1>2, <1>4, <2>0, <2>1, MapPaired
    <3>2. Segmentary /\ Quiet
      BY <1>4, <2>0, <2>1 DEF Segmentary, Quiet, Streaming
    <3> QED
      BY <3>1, <3>2, Settles
  <2>2. CASE row.map = NoMap
    <3>1. sc.multi /\ row \in RowSet /\ row.total \in Nat /\ ~row.rejected
      BY <1>0, GivenFacts, RowFields, Lengthy DEF Segmented
    <3>2. Known(part, disk, cur, nchange, row)
      BY <1>0, <3>1, GivenFacts
    <3>3. row.tag \in Entities
      BY <1>0, <2>2, <3>1, <3>2 DEF Known
    <3>4. /\ q.map = m /\ q.total = row.total /\ q.fmt = 1 /\ q.tag = row.tag /\ q.exp = row.exp /\ ~q.rejected
          /\ m # NoMap /\ m.total = row.total
      BY <1>1, <1>2, <2>2, <3>1, MapRowIs, MapParts
    <3>5. Shaped(sc.multi, q, q)
      BY <3>1, <3>3, <3>4 DEF Shaped, RowShape, Pair
    <3>6. part' = Empty /\ disk' = Empty
      BY <1>4, <2>2 DEF Store
    <3>7. Match(part', disk', q, q)
      BY <3>6, EmptyMatch
    <3>8. Known(part', disk', cur, nchange, q)
      BY <2>2, <3>2, <3>3, <3>4, <3>6, EmptyIs DEF Known
    <3>9. Paired
      BY <2>0, <3>5, <3>7, <3>8 DEF Paired
    <3>10. Segmentary /\ Quiet
      BY <1>4, <2>0, <2>2, <3>6 DEF Segmentary, Quiet, Streaming, Segmenting
    <3> QED
      BY <3>9, <3>10, Settles
  <2> QED
    BY <2>1, <2>2
<1>5. CASE FailStart(FALSE, q)
  BY <1>0, <1>1, <1>2, <1>5, FailStartWhole
<1> QED
  BY <1>2, <1>3, <1>4, <1>5, <1>6

\* Making the file long leaves the bytes where they are, and adds none.
LEMMA LongInside ==
  ASSUME NEW f \in FileSet, NEW n, NEW e, Inside(f, n, e)
  PROVE  Inside(SetLen(f, n), n, e) /\ (NoBytes(f) => NoBytes(SetLen(f, n)))
<1>1. \A p \in Pos : SetLen(f, n)[p] = IF p > n THEN Nil ELSE IF f[p] = Nil THEN Hole ELSE f[p]
  BY DEF SetLen
<1>2. Nil \notin Entities /\ Hole \notin Entities
  BY ValuesAssumption
<1> QED
  BY <1>1, <1>2 DEF Inside, NoBytes

LEMMA LongWhole == ASSUME Given, UNCHANGED single, MakeLong PROVE WInv'
<1>0. stage = "long" /\ row.map \in MapSet /\ row.map # NoMap
  BY GivenFacts DEF MakeLong, Given, IInv, Starting, Maps
<1>1. CASE \E long \in BOOLEAN : FailStart(long, row)
  BY <1>0, <1>1, FailStartWhole
<1>2. CASE /\ StartWorkers /\ UNCHANGED <<final, rows>>
           /\ \/ UNCHANGED <<part, disk>>
              \/ part' = SetLen(part, row.map.total) /\ disk' = SetLen(disk, row.map.total)
  <2>1. /\ row' = row /\ saved' = saved /\ live' = row.map /\ fresh' = fresh
        /\ stage' = IF AllWritten(row.map) THEN "finalize" ELSE "workers"
        /\ UNCHANGED <<sc, cur, nchange, old, outcome, final>>
        /\ seg' = [s \in DOMAIN row.map.written |->
                    [NoWorker EXCEPT !.at = IF row.map.written[s] < SegLen(row.map.total, s) THEN "fetch" ELSE "end"]]
    BY <1>2 DEF StartWorkers, MGo, rows, world, remote
  <2>2. Paired
    <3>1. CASE UNCHANGED <<part, disk>>
      BY <1>0, <2>1, <3>1, SamePaired DEF Like
    <3>2. CASE part' = SetLen(part, row.map.total) /\ disk' = SetLen(disk, row.map.total)
      <4>1. /\ Inside(part', row.map.total, row.tag) /\ Inside(disk', row.map.total, row.tag)
            /\ NoBytes(part) => NoBytes(part')
            /\ NoBytes(disk) => NoBytes(disk')
        BY <1>0, <3>2, GivenFacts, LongInside
      <4>2. Match(part', disk', row', saved')
        BY <1>0, <2>1, <4>1, GivenFacts DEF Match, OfRow
      <4>3. sc.multi => Known(part', disk', cur, nchange, row') /\ Known(part', disk', cur, nchange, saved')
        BY <1>0, <2>1, <4>1, GivenFacts DEF Known
      <4> QED
        BY <1>0, <2>1, <4>2, <4>3, GivenFacts DEF Paired
    <3> QED
      BY <1>2, <3>1, <3>2
  <2>3. \A s \in SegsOf(row.map.total) : OfVersion(seg'[s], row)
    <3> TAKE s \in SegsOf(row.map.total)
    <3>1. PICK a \in {"end", "fetch"} : a = IF row.map.written[s] < SegLen(row.map.total, s) THEN "fetch" ELSE "end"
      OBVIOUS
    <3>2. seg'[s] = [NoWorker EXCEPT !.at = a]
      BY <1>0, <2>1, <3>1, MapParts
    <3>3. [NoWorker EXCEPT !.at = a].at = a
      BY DEF NoWorker
    <3> QED
      BY <3>1, <3>2, <3>3 DEF OfVersion
  <2>4. Segmentary /\ Quiet
    BY <2>1, <2>3 DEF Segmentary, Quiet, Streaming, Segmenting
  <2> QED
    BY <2>2, <2>4, Settles
<1> QED
  BY <1>1, <1>2 DEF MakeLong

\* A worker's step: the file is as it was, or synced, or has one more byte of the row's version.
LEMMA PutWhole ==
  ASSUME Given, WorkingNow, MSame, NEW s \in Segs, NEW v, Put(s, v), OfVersion(v, row),
         \/ part' = part /\ disk' \in {part, disk}
         \/ /\ part' = Written(part, seg[s].next, seg[s].ent) /\ disk' = disk
            /\ seg[s].at = "body" /\ More(s)
  PROVE  WInv'
<1>0. /\ stage = "workers" /\ stage' = "workers" /\ row' = row /\ saved' = saved /\ fresh' = fresh
      /\ UNCHANGED <<sc, cur, nchange, old, outcome, final>>
      /\ row.map \in MapSet /\ row.map # NoMap /\ Segs = SegsOf(row.map.total)
  BY WorkFacts, MapParts DEF WorkingNow, MSame, rows, world, remote
<1>1. \A q \in SegsOf(row.map.total) : OfVersion(seg[q], row)
  BY <1>0, GivenFacts DEF Segmented
<1>2. \A q \in SegsOf(row.map.total) : OfVersion(seg'[q], row)
  <2>1. \A q \in SegsOf(row.map.total) : seg'[q] = IF q = s THEN v ELSE seg[q]
    BY <1>0, WorkFacts DEF Put
  <2> QED
    BY <1>1, <2>1
<1>3. Segmentary /\ Quiet
  BY <1>0, <1>2 DEF Segmentary, Quiet, Streaming, Segmenting
<1>4. CASE part' = part /\ disk' \in {part, disk}
  <2>1. Match(part', disk', row', saved')
    BY <1>0, <1>4, GivenFacts DEF Match, OfRow
  <2>2. sc.multi => Known(part', disk', cur, nchange, row') /\ Known(part', disk', cur, nchange, saved')
    BY <1>0, <1>4, GivenFacts, KnownStays
  <2>3. Paired
    BY <1>0, <2>1, <2>2, GivenFacts DEF Paired
  <2> QED
    BY <1>3, <2>3, Settles
<1>5. CASE /\ part' = Written(part, seg[s].next, seg[s].ent) /\ disk' = disk
           /\ seg[s].at = "body" /\ More(s)
  <2>1. seg[s].ent = row.tag /\ row.map.total = Size(row.tag) /\ s \in SegsOf(row.map.total)
    BY <1>0, <1>1, <1>5 DEF OfVersion
  <2>2. BodyOk(part, row.map, s, seg[s])
    BY WorkFacts DEF WorkerOk
  <2>3. /\ seg[s].next \in Nat /\ seg[s].upto \in Nat /\ row.map.total \in Nat
        /\ SegFirst(row.map.total, s) \in Nat /\ SegLen(row.map.total, s) \in Nat
        /\ SegFirst(row.map.total, s) + SegLen(row.map.total, s) - 1 <= row.map.total
    BY <1>0, <2>1, SegmentFacts, MapParts, Geometry
  <2>4. seg[s].next <= row.map.total
    BY <1>5, <2>2, <2>3 DEF BodyOk, More
  <2>5. Inside(part, row.map.total, row.tag)
    BY <1>0, GivenFacts
  <2>6. PICK x : x = seg[s].next
    OBVIOUS
  <2>7. \A p \in Pos : part'[p] = IF p = x THEN row.tag ELSE IF p < x /\ part[p] = Nil THEN Hole ELSE part[p]
    BY <1>5, <2>1, <2>6 DEF Written
  <2>8. Inside(part', row.map.total, row.tag)
    BY <2>3, <2>4, <2>5, <2>6, <2>7 DEF Inside, Pos
  <2>9. Match(part', disk', row', saved')
    BY <1>0, <1>5, <2>8, GivenFacts DEF Match, OfRow
  <2>10. sc.multi => Known(part', disk', cur, nchange, row') /\ Known(part', disk', cur, nchange, saved')
    BY <1>0, <2>1, GivenFacts DEF Known
  <2>11. Paired
    BY <1>0, <2>9, <2>10, GivenFacts DEF Paired
  <2> QED
    BY <1>3, <2>11, Settles
<1> QED
  BY <1>4, <1>5

LEMMA RestingWorkers ==
  ASSUME NEW r
  PROVE  /\ OfVersion(NoWorker, r)
         /\ \A a \in {"end", "fetch", "sync"} : \A k, c :
              /\ OfVersion([NoWorker EXCEPT !.at = a], r)
              /\ OfVersion([NoWorker EXCEPT !.at = a, !.short = k], r)
              /\ OfVersion([NoWorker EXCEPT !.at = a, !.sample = c], r)
<1>1. /\ NoWorker.at = "end"
      /\ \A a, k, c : /\ [NoWorker EXCEPT !.at = a].at = a
                      /\ [NoWorker EXCEPT !.at = a, !.short = k].at = a
                      /\ [NoWorker EXCEPT !.at = a, !.sample = c].at = a
  BY DEF NoWorker
<1> QED
  BY <1>1 DEF OfVersion

\* classify_segment_status: a slice of the size that the row expects is one of the row's version.
LEMMA SegFetchWhole ==
  ASSUME Given, WorkingNow, NEW s \in Segs, SegFetch(s) PROVE WInv'
<1>1. PICK e : Put(s, [seg[s] EXCEPT !.at = "body", !.ent = cur, !.upto = e, !.base = live.written[s], !.next = Next_(s)])
               /\ MSame /\ part' = part /\ disk' = disk /\ SliceOf(s)
  BY DEF SegFetch
<1>2. PICK v : v = [seg[s] EXCEPT !.at = "body", !.ent = cur, !.upto = e, !.base = live.written[s], !.next = Next_(s)]
  OBVIOUS
<1>3. v.at = "body" /\ v.ent = cur
  BY <1>2, WorkFacts DEF WorkerSet
<1>4. stage = "workers" /\ row.map \in MapSet /\ row.map # NoMap /\ cur \in Entities /\ sc \in Scenarios
  BY WorkFacts, MapParts, GivenFacts DEF WorkingNow, Typed
<1>5. sc.multi /\ row.tag \in Entities /\ Known(part, disk, cur, nchange, row)
  BY <1>4, GivenFacts
<1>6. Size(row.tag) = Size(cur)
  <2>1. row.exp = Size(row.tag) /\ Size(row.tag) # 0
    BY <1>4, <1>5, Sizes, GivenFacts DEF Known
  <2> QED
    BY <1>1, <2>1 DEF SliceOf
<1>7. row.tag = cur
  BY <1>4, <1>5, <1>6 DEF Given, Telling, Size
<1>8. row.map.total = Size(row.tag)
  BY <1>4, <1>5, <1>7 DEF Known
<1>9. OfVersion(v, row)
  BY <1>3, <1>7, <1>8 DEF OfVersion
<1> QED
  BY <1>1, <1>2, <1>9, PutWhole

LEMMA SegmentWhole ==
  ASSUME Given, UNCHANGED single, NEW s \in Segs, SegmentStep(s) PROVE WInv'
<1>1. WorkingNow /\ MSame
  BY DEF SegmentStep, SegInterrupt, SegFetch, SegRefused, SegFetchFails, SegChunk, SegEnds, SegBreaks,
         SegStop, SegSync, SegAborted, InWorkers, WorkingNow, Given
<1>2. CASE SegInterrupt(s) \/ SegRefused(s)
  BY <1>1, <1>2, PutWhole, RestingWorkers DEF SegInterrupt, SegRefused, SegError, Ended
<1>3. CASE SegFetchFails(s) \/ SegBreaks(s)
  <2>1. PICK k : SegRetry(s, k)
    BY <1>3, Zenon DEF SegFetchFails, SegBreaks
  <2>2. part' = part /\ disk' = disk /\ \/ Put(s, [NoWorker EXCEPT !.at = "fetch", !.short = k + 1])
                                        \/ Put(s, NoWorker)
    BY <2>1 DEF SegRetry, SegError, Ended
  <2> QED
    BY <1>1, <2>2, PutWhole, RestingWorkers
<1>4. CASE SegEnds(s)
  <2>1. /\ Put(s, [NoWorker EXCEPT !.at = IF Next_(s) > Last(s) THEN "end" ELSE "fetch"])
        /\ UNCHANGED <<part, disk>>
    BY <1>4 DEF SegEnds
  <2>2. PICK a \in {"end", "fetch"} : a = IF Next_(s) > Last(s) THEN "end" ELSE "fetch"
    OBVIOUS
  <2>3. Put(s, [NoWorker EXCEPT !.at = a]) /\ OfVersion([NoWorker EXCEPT !.at = a], row)
    BY <2>1, <2>2, RestingWorkers
  <2> QED
    BY <1>1, <2>1, <2>3, PutWhole
<1>5. CASE SegChunk(s)
  <2>1. /\ Put(s, [seg[s] EXCEPT !.next = @ + 1]) /\ part' = Written(part, seg[s].next, seg[s].ent)
        /\ disk' = disk /\ seg[s].at = "body" /\ More(s)
    BY <1>5 DEF SegChunk, InWorkers
  <2>2. PICK v : v = [seg[s] EXCEPT !.next = @ + 1]
    OBVIOUS
  <2>3. v.at = seg[s].at /\ v.ent = seg[s].ent
    BY <1>1, <2>2, WorkFacts DEF WorkerSet
  <2>4. OfVersion(seg[s], row)
    BY <1>1, WorkFacts, GivenFacts DEF Segmented, WorkingNow
  <2>5. OfVersion(v, row)
    BY <2>3, <2>4 DEF OfVersion
  <2> QED
    BY <1>1, <2>1, <2>2, <2>5, PutWhole
<1>6. CASE SegStop(s)
  BY <1>1, <1>6, PutWhole, RestingWorkers DEF SegStop, Ended
<1>7. CASE SegSync(s)
  BY <1>1, <1>7, PutWhole, RestingWorkers DEF SegSync, Ended, Sync
<1>8. CASE SegAborted(s)
  BY <1>1, <1>8, PutWhole, RestingWorkers DEF SegAborted, Ended
<1> QED
  BY <1>1, <1>2, <1>3, <1>4, <1>5, <1>6, <1>7, <1>8, SegFetchWhole DEF SegmentStep

LEMMA JoinWhole == ASSUME Given, UNCHANGED single, Join PROVE WInv'
<1>1. PICK ok \in BOOLEAN :
        /\ live' = JoinedMap(ok)
        /\ IF ok THEN Sync ELSE UNCHANGED <<part, disk>>
        /\ MGo(IF ~Running THEN "stopping" ELSE IF AllWritten(JoinedMap(ok)) THEN "finalize" ELSE "failing")
  BY DEF Join
<1>2. /\ stage = "workers" /\ row' = row /\ saved' = saved /\ fresh' = fresh
      /\ UNCHANGED <<sc, cur, nchange, old, outcome, final>>
      /\ part' = part /\ disk' \in {part, disk}
  BY <1>1 DEF Join, MGo, rows, world, remote, Sync
<1>3. row.map # NoMap
  BY <1>2, MapParts DEF Given, IInv, Working, OnTop
<1>4. stage' \in {"stopping", "finalize", "failing"} /\ (stage' = "finalize" => AllWritten(live'))
  BY <1>1 DEF MGo
<1>5. Match(part', disk', row', saved')
  BY <1>2, <1>3, GivenFacts DEF Match, OfRow
<1>6. sc.multi => Known(part', disk', cur, nchange, row') /\ Known(part', disk', cur, nchange, saved')
  BY <1>2, GivenFacts, KnownStays
<1>7. Paired
  BY <1>2, <1>5, <1>6, GivenFacts DEF Paired
<1>8. Segmentary /\ Quiet
  BY <1>2, <1>4 DEF Segmentary, Quiet, Streaming, Segmenting
<1> QED
  BY <1>7, <1>8, Settles

LEMMA StoppedWhole == ASSUME Given, UNCHANGED single, MultiStopped PROVE WInv'
<1>1. stage = "stopping" /\ row.map \in MapSet /\ live \in MapSet /\ live.total = row.map.total
  BY DEF MultiStopped, Given, IInv, Joined, OnTop
<1>2. /\ part' = part /\ disk' \in {part, disk} /\ final' = final
      /\ row' = MapRow(row, live) /\ saved' \in {MapRow(row, live), saved}
  BY DEF MultiStopped, Sync, Commit, CommitFails
<1>3. \E o : MEnd(o) /\ o # "completed"
  <2>1. Stopped # "completed"
    BY DEF Stopped
  <2> QED
    BY <2>1 DEF MultiStopped, MFail
<1>4. Paired
  BY <1>1, <1>2, MapPaired
<1> QED
  BY <1>2, <1>3, <1>4, EndedQuietly

LEMMA FailedWhole == ASSUME Given, UNCHANGED single, MultiFailed PROVE WInv'
<1>0. stage = "failing" /\ final' = final /\ row.map \in MapSet /\ live \in MapSet /\ live.total = row.map.total
  BY DEF MultiFailed, Given, IInv, Joined, OnTop
<1>1. CASE /\ MFail /\ row' = MapRow(row, live) /\ saved' \in {MapRow(row, live), saved}
           /\ part' = part /\ disk' \in {part, disk}
  <2>1. Paired
    BY <1>0, <1>1, MapPaired
  <2> QED
    BY <1>0, <1>1, <2>1, EndedQuietly DEF MFail
<1>2. CASE Store(Empty) /\ Commit(RolledBack(MapRow(row, live))) /\ MGo("single") /\ MIdle
  <2>1. PICK q : q = RolledBack(MapRow(row, live))
    OBVIOUS
  <2>2. /\ q.map = NoMap /\ q.fmt = 0 /\ ~q.rejected /\ q.tag = row.tag /\ q.exp = row.exp
        /\ q.total = row.map.total /\ row.map # NoMap
    BY <1>0, <2>1, MapRowIs, MapParts, GivenFacts
  <2>3. Paired
    BY <1>0, <1>2, <2>1, <2>2, EmptyPaired DEF Commit
  <2>4. Segmentary /\ Quiet
    BY <1>0, <1>2 DEF Segmentary, Quiet, Streaming, Segmenting, MGo, MIdle, world, remote
  <2> QED
    BY <2>3, <2>4, Settles
<1> QED
  BY <1>1, <1>2, NoSuchFault DEF MultiFailed, Commit, CommitFails, Sync, Given

\* finalize_completed: everything is confirmed, and it is all of the row's version.
LEMMA FinalizeWhole == ASSUME Given, UNCHANGED single, Finalize PROVE WInv'
<1>0. /\ stage = "finalize" /\ row' = row /\ saved' = saved /\ part' = part /\ disk' \in {part, disk}
      /\ final' = final
  BY DEF Finalize, rows, Sync
<1>1. /\ row.map \in MapSet /\ live \in MapSet /\ live.total = row.map.total /\ HeldIn(part, live) /\ row.map # NoMap
  BY <1>0, MapParts DEF Given, IInv, Joined, OnTop, KeptIn, HeldIn
<1>2. AllWritten(live)
  BY <1>0, GivenFacts DEF Segmented
<1>3. /\ row.tag \in Entities /\ Known(part, disk, cur, nchange, row) /\ Inside(part, row.map.total, row.tag)
      /\ Typed /\ part \in FileSet
  BY <1>0, <1>1, GivenFacts
<1>4. row.map.total = Size(row.tag)
  <2>1. PICK s \in SegsOf(live.total) : SegFirst(live.total, s) <= 1 /\ 1 < SegFirst(live.total, s) + SegLen(live.total, s)
    <3>1. live.total \in 1..MaxLen /\ 1 \in 1..live.total
      BY <1>1, MapParts, LengthsAssumption
    <3> QED
      BY <3>1, Covered
  <2>2. 1 \in Confirmed(live)
    <3>1. /\ 1 \in Pos /\ live.total \in 1..MaxLen /\ live.written[s] \in Nat /\ live.written[s] >= SegLen(live.total, s)
          /\ SegLen(live.total, s) \in Nat /\ SegFirst(live.total, s) \in Nat
      BY <1>1, <1>2, <2>1, MapParts, Geometry, LengthsAssumption DEF AllWritten, Pos
    <3> QED
      BY <1>1, <2>1, <3>1, ConfirmedIs, SMTT(30)
  <2>3. part[1] \in Entities /\ 1 \in Pos
    BY <1>1, <2>2, ConfirmedIs DEF HeldIn
  <2>4. ~NoBytes(part)
    BY <2>3 DEF NoBytes
  <2> QED
    BY <1>1, <1>3, <2>4 DEF Known
<1>5. part = Whole(row.tag)
  BY <1>1, <1>2, <1>3, <1>4, FullWhole
<1>6. Match(part', disk', row', saved')
  BY <1>0, <1>1, GivenFacts DEF Match, OfRow
<1>7. sc.multi => Known(part', disk', cur, nchange, row') /\ Known(part', disk', cur, nchange, saved')
  BY <1>0, GivenFacts, KnownStays
<1>8. Paired
  BY <1>0, <1>6, <1>7, GivenFacts DEF Paired
<1>9. CASE MFail
  BY <1>0, <1>8, <1>9, EndedQuietly DEF MFail
<1>10. CASE MGo("finish") /\ UNCHANGED multi
  <2>1. Segmentary /\ Quiet
    BY <1>0, <1>3, <1>5, <1>10 DEF Segmentary, Quiet, Streaming, Segmenting, MGo, multi, world, remote
  <2> QED
    BY <1>8, <2>1, Settles
<1> QED
  BY <1>9, <1>10 DEF Finalize

LEMMA MultiWhole == ASSUME Given, UNCHANGED single, MultiNext PROVE WInv'
<1>1. CASE \E s \in Segs : SegmentStep(s)
  BY <1>1, SegmentWhole
<1> QED
  BY <1>1, DeclinedWhole, StartWhole, LongWhole, JoinWhole, StoppedWhole, FailedWhole, FinalizeWhole
  DEF MultiNext, SegmentStep

-----------------------------------------------------------------------------
(* The attempt around them, and its surroundings.                          *)

\* A step that is no transfer: files and what the rows say of them stay.
LEMMA BeginWhole == ASSUME Given, Begin PROVE WInv'
<1>1. /\ stage = "idle" /\ stage' = "preflight" /\ outcome' = "none" /\ saved' = saved
      /\ UNCHANGED <<sc, cur, nchange, old, part, disk, final, fresh>>
  BY DEF Begin, world, remote, files, multi
<1>2. Like(row, row')
  <2>1. PICK n : row' = [row EXCEPT !.down = n]
    BY DEF Begin, Reconciled
  <2> QED
    BY <1>1, <2>1, GivenFacts, LikeDown
<1>3. Like(saved, saved')
  BY <1>1 DEF Like
<1>4. Paired
  BY <1>1, <1>2, <1>3, SamePaired
<1>5. Segmentary /\ Quiet
  BY <1>1, GivenFacts DEF Segmentary, Quiet, Streaming, Segmented, Segmenting
<1> QED
  BY <1>4, <1>5, Settles

\* preflight_commit_identity: the version of a row that has one stays.
LEMMA PreflightIs ==
  ASSUME NEW r, r = row, row \in RowSet, NEW i, NEW q, q = PreflightRow(i)
  PROVE  /\ q.map = r.map /\ q.fmt = r.fmt /\ q.rejected = r.rejected
         /\ q.total = IF i.total > 0 THEN i.total ELSE r.total
         /\ IF r.tag = NoEntity /\ i.tag # NoEntity
            THEN q.tag = i.tag /\ (i.total > 0 => q.exp = i.total)
            ELSE q.tag = r.tag /\ q.exp = r.exp
<1>1. PICK t, x, g, e :
        /\ t = (IF i.total > 0 THEN i.total ELSE row.total)
        /\ x = (IF i.ranges = {} THEN row.resume ELSE TRUE \in i.ranges)
        /\ g = (IF row.tag = NoEntity /\ i.tag # NoEntity THEN i.tag ELSE row.tag)
        /\ e = (IF row.tag = NoEntity /\ i.tag # NoEntity /\ i.total > 0 THEN i.total ELSE row.exp)
  OBVIOUS
<1>2. q = [row EXCEPT !.total = t, !.resume = x, !.tag = g, !.exp = e]
  BY <1>1 DEF PreflightRow
<1> QED
  BY <1>1, <1>2 DEF RowSet

LEMMA PreflightKnows ==
  ASSUME Given, stage = "preflight", sc.multi
  PROVE  Info.total = Size(cur) /\ Info.total > 0 /\ Info.tag = cur
<1>1. sc.framing = "length" /\ sc.head \in BOOLEAN /\ Size(cur) \in Nat \ {0}
  BY GivenFacts, Sizes DEF Given, Telling, Typed
<1>2. row.map # NoMap \/ row.fmt = 0
  BY GivenFacts, RowFields DEF Shaped, RowShape
<1>3. Oracle(row) # "RestartRequired"
  BY <1>2 DEF Oracle
<1>4. sc.head \/ Probes(row)
  BY <1>3 DEF Probes
<1> QED
  BY <1>1, <1>4 DEF Info

LEMMA PrepareWhole == ASSUME Given, Prepare PROVE WInv'
<1>0. /\ stage = "preflight" /\ UNCHANGED <<sc, cur, nchange, old, part, disk, final, fresh>>
      /\ row \in RowSet /\ ~fresh
  BY GivenFacts DEF Prepare, world, remote, files, multi, Segmented, Segmenting
<1>1. CASE End(Stopped) /\ UNCHANGED rows
  <2>1. Like(row, row') /\ Like(saved, saved') /\ stage' = "idle" /\ outcome' # "completed"
    BY <1>1 DEF Like, rows, End, Stopped
  <2>2. Paired
    BY <1>0, <2>1, SamePaired
  <2>3. Segmentary /\ Quiet
    BY <1>0, <2>1 DEF Segmentary, Quiet, Streaming
  <2> QED
    BY <2>2, <2>3, Settles
<1>2. ASSUME NEW i \in {Info, NoInfo}, NEW q, q = PreflightRow(i), Commit(q),
             IF Plan(q, i) = "restart" THEN End("failed") ELSE stage' = Plan(q, i) /\ UNCHANGED outcome
      PROVE  WInv'
  <2>1. /\ q.map = row.map /\ q.fmt = row.fmt /\ q.rejected = row.rejected
        /\ q.total = IF i.total > 0 THEN i.total ELSE row.total
        /\ IF row.tag = NoEntity /\ i.tag # NoEntity
           THEN q.tag = i.tag /\ (i.total > 0 => q.exp = i.total)
           ELSE q.tag = row.tag /\ q.exp = row.exp
    BY <1>0, <1>2, PreflightIs
  <2>2. stage' \in {"idle", "multi", "single"} /\ (stage' = "multi" => sc.multi)
        /\ (outcome' = "completed" => outcome = "completed")
    <3>1. q.map # NoMap => sc.multi
      BY <1>0, <2>1, GivenFacts
    <3>2. Plan(q, i) \in {"restart", "multi", "single"} /\ (Plan(q, i) = "multi" => sc.multi)
      BY <3>1 DEF Plan, Oracle
    <3> QED
      BY <1>2, <3>2 DEF End
  <2>3. row.tag = NoEntity => row.map = NoMap /\ \A p \in Pos : part[p] = Nil /\ disk[p] = Nil
    BY <1>0, GivenFacts, ValuesAssumption DEF Solid
  <2>4. Shaped(sc.multi, q, q)
    BY <1>0, <2>1, <2>3, GivenFacts DEF Shaped, RowShape, Pair
  <2>5. Match(part, disk, q, q)
    <3>1. CASE q.tag = row.tag
      BY <1>0, <2>1, <3>1, GivenFacts DEF Match, OfRow
    <3>2. CASE row.tag = NoEntity
      BY <1>0, <2>1, <2>3, <3>2 DEF Match, OfRow, Solid, Within
    <3> QED
      BY <2>1, <3>1, <3>2
  <2>6. sc.multi => Known(part, disk, cur, nchange, q)
    <3> SUFFICES ASSUME sc.multi PROVE Known(part, disk, cur, nchange, q)
      OBVIOUS
    <3>1. Known(part, disk, cur, nchange, row) /\ cur \in Entities /\ row.tag \in Entities \cup {NoEntity}
          /\ Size(cur) \in Nat /\ NoEntity \notin Entities
      BY <1>0, GivenFacts, Sizes, RowFields, ValuesAssumption DEF Typed
    <3>2. CASE i = NoInfo
      <4>1. i.total = 0 /\ i.tag = NoEntity
        BY <3>2 DEF NoInfo
      <4> QED
        BY <2>1, <3>1, <4>1 DEF Known
    <3>3. CASE i = Info
      <4>1. i.total = Size(cur) /\ i.total > 0 /\ i.tag = cur /\ cur # NoEntity
        BY <1>0, <3>1, <3>3, PreflightKnows
      <4>2. CASE row.tag \in Entities
        BY <2>1, <3>1, <4>1, <4>2 DEF Known
      <4>3. CASE row.tag = NoEntity
        <5>1. q.tag = cur /\ q.exp = Size(cur) /\ q.total = Size(cur) /\ q.map = NoMap
          BY <2>1, <2>3, <4>1, <4>3
        <5> QED
          BY <3>1, <5>1 DEF Known
      <4> QED
        BY <3>1, <4>2, <4>3
    <3> QED
      BY <1>2, <3>2, <3>3
  <2>7. Paired
    BY <1>0, <1>2, <2>4, <2>5, <2>6 DEF Paired, Commit
  <2>8. Segmentary /\ Quiet
    BY <1>0, <2>2 DEF Segmentary, Quiet, Streaming
  <2> QED
    BY <2>7, <2>8, Settles
<1>3. \/ End(Stopped) /\ UNCHANGED rows
      \/ \E i \in {Info, NoInfo} :
           /\ Commit(PreflightRow(i))
           /\ IF Plan(PreflightRow(i), i) = "restart" THEN End("failed")
              ELSE stage' = Plan(PreflightRow(i), i) /\ UNCHANGED outcome
  BY Zenon DEF Prepare
<1> QED
  BY <1>1, <1>2, <1>3

\* The move: the file gets its name when it is whole, and only then may the old one go.
LEMMA FinishedIs ==
  ASSUME row \in RowSet, NEW q, q = FinishedRow
  PROVE  /\ q.map = NoMap /\ q.fmt = 0 /\ ~q.rejected /\ q.tag = row.tag /\ q.exp = row.exp
         /\ row.total # 0 => q.total = row.total
<1>1. CASE live = NoMap
  <2>1. PICK n : n = IF row.total = 0 THEN off ELSE row.total
    OBVIOUS
  <2>2. q = [row EXCEPT !.down = off, !.total = n, !.rejected = FALSE, !.fmt = 0, !.map = NoMap]
    BY <1>1, <2>1 DEF FinishedRow, FinishedSingle
  <2> QED
    BY <2>1, <2>2 DEF RowSet
<1>2. CASE live # NoMap
  <2>1. PICK r : r = [row EXCEPT !.down = live.total, !.resume = TRUE, !.rejected = FALSE]
    OBVIOUS
  <2>2. q = [r EXCEPT !.fmt = 0, !.map = NoMap]
    BY <1>2, <2>1 DEF FinishedRow, FinishedMulti, RolledBack
  <2> QED
    BY <2>1, <2>2 DEF RowSet
<1> QED
  BY <1>1, <1>2

LEMMA MoveFinalWhole == ASSUME Given, MoveFinal PROVE WInv'
<1>0. /\ stage \in {"finish", "swap"} /\ final' = part /\ part' = Empty /\ disk' = Empty
      /\ row' = FinishedRow /\ saved' = row' /\ stage' = "idle" /\ outcome' = "completed"
      /\ UNCHANGED <<sc, cur, nchange>> /\ fresh' = FALSE
      /\ (stage = "swap" \/ old' = old)
  BY DEF MoveFinal, MoveEnds, Store, Commit, End, MIdle, remote
<1>1. row \in RowSet /\ row.tag \in Entities /\ part = Whole(row.tag) /\ (stage = "swap" => sc.existing = "replace")
      /\ OldKept /\ nchange \in Nat
  BY <1>0, GivenFacts DEF Finishing, Promised, Given, WInv, Knowing
<1>2. PICK q : q = FinishedRow
  OBVIOUS
<1>3. /\ q.map = NoMap /\ q.fmt = 0 /\ ~q.rejected /\ q.tag = row.tag /\ q.exp = row.exp
      /\ row.total # 0 => q.total = row.total
  BY <1>1, <1>2, FinishedIs
<1>4. Shaped(sc.multi, q, q) /\ Match(part', disk', q, q)
  BY <1>0, <1>3, EmptyMatch DEF Shaped, RowShape, Pair
<1>5. sc.multi => Known(part', disk', cur, nchange, q)
  <2> SUFFICES ASSUME sc.multi PROVE Known(part', disk', cur, nchange, q)
    OBVIOUS
  <2>1. Known(part, disk, cur, nchange, row) /\ Size(row.tag) # 0
    BY <1>0, <1>1, GivenFacts, Sizes
  <2> QED
    BY <1>1, <1>3, <2>1 DEF Known
<1>6. Matching'
  BY <1>0, <1>2, <1>4 DEF Matching, Shaped, RowShape, Pair, Match, OfRow
<1>7. Knowing'
  BY <1>0, <1>1, <1>2, <1>5 DEF Knowing, Known, Size
<1>8. Named' /\ AtEnd' /\ Reply' /\ Segmented' /\ Finishing'
  BY <1>0 DEF Named, AtEnd, Reply, Segmented, Finishing, Streaming, Replies
<1>9. Promised'
  BY <1>0, <1>1 DEF Promised, WholeEntity, OldKept, Whole, Size
<1> QED
  BY <1>6, <1>7, <1>8, <1>9 DEF WInv

LEMMA AsideWhole == ASSUME Given, StepAside \/ MoveFails PROVE WInv'
<1>0. /\ stage \in {"finish", "swap"} /\ UNCHANGED <<sc, cur, nchange, part, disk, final, saved>>
      /\ Like(row, row') /\ Like(saved, saved') /\ row \in RowSet
  <2>1. stage \in {"finish", "swap"} /\ row \in RowSet
    BY GivenFacts DEF StepAside, MoveFails
  <2>2. UNCHANGED <<sc, cur, nchange, part, disk, final, saved>> /\ row' \in {row, [row EXCEPT !.down = off]}
    BY DEF StepAside, MoveFails, MoveEnds, remote, files, rows
  <2>3. Like(row, row) /\ Like(row, [row EXCEPT !.down = off]) /\ Like(saved, saved')
    BY <2>1, <2>2, LikeDown DEF Like, rows
  <2>4. Like(row, row')
    BY <2>2, <2>3
  <2> QED
    BY <2>1, <2>2, <2>3, <2>4
<1>1. row.tag \in Entities /\ part = Whole(row.tag) /\ (stage = "swap" => sc.existing = "replace")
      /\ OldKept /\ WholeEntity /\ nchange \in Nat /\ row.tag = saved.tag
  BY <1>0, GivenFacts DEF Finishing, Promised, Given, WInv, Knowing
<1>2. Shaped(sc.multi, row', saved') /\ Match(part', disk', row', saved')
  BY <1>0, GivenFacts, LikeShaped, LikeMatch
<1>3. sc.multi => Known(part', disk', cur, nchange, row') /\ Known(part', disk', cur, nchange, saved')
  BY <1>0, GivenFacts, LikeKnown
<1>4. Matching' /\ Knowing'
  <2>1. stage' # "wiped"
    BY DEF StepAside, MoveFails, MoveEnds, End
  <2>2. Matching'
    BY <1>0, <1>2, <2>1 DEF Matching, Shaped, RowShape, Pair, Match, OfRow
  <2>3. Knowing'
    BY <1>0, <1>1, <1>3 DEF Knowing, Known, Size
  <2> QED
    BY <2>2, <2>3
<1>5. CASE StepAside
  <2>1. /\ stage' = "swap" /\ old' = "aside" /\ sc.existing = "replace" /\ row' = row /\ outcome' = outcome
        /\ fresh' = fresh
    BY <1>5 DEF StepAside, Aside, ReplacesOld, rows, multi
  <2>2. Promised'
    BY <1>0, <1>1, <2>1 DEF Promised, WholeEntity, OldKept, Whole, Size
  <2>3. Named' /\ AtEnd' /\ Reply' /\ Segmented'
    BY <1>0, <1>1, <2>1 DEF Named, AtEnd, Reply, Segmented, Streaming, Replies, Segmenting
  <2>4. Finishing'
    BY <1>0, <1>1, <2>1 DEF Finishing, Whole, Size
  <2> QED
    BY <1>4, <2>2, <2>3, <2>4 DEF WInv
<1>6. CASE MoveFails
  <2>1. /\ stage' = "idle" /\ outcome' = "failed" /\ fresh' = FALSE
        /\ old' \in IF stage = "swap" THEN {"target", "aside"} ELSE {old}
    BY <1>6 DEF MoveFails, MoveEnds, End, MIdle
  <2>2. Promised'
    BY <1>0, <1>1, <2>1 DEF Promised, WholeEntity, OldKept, Whole, Size
  <2>3. Named' /\ AtEnd' /\ Reply' /\ Segmented' /\ Finishing'
    BY <2>1 DEF Named, AtEnd, Reply, Segmented, Finishing, Streaming, Replies
  <2> QED
    BY <1>4, <2>2, <2>3 DEF WInv
<1> QED
  BY <1>5, <1>6

LEMMA RestartWhole == ASSUME Given, Restart \/ RestartDeletes PROVE WInv'
<1>0. UNCHANGED <<sc, cur, nchange, old, final, outcome, fresh>> /\ WInv /\ stage \in {"idle", "wiped"}
  BY DEF Restart, RestartDeletes, world, remote, files, multi, Given
<1>1. ~fresh /\ nchange \in Nat
  BY <1>0 DEF WInv, Segmented, Segmenting, Knowing
<1>2. /\ FreshRow.map = NoMap /\ FreshRow.fmt = 0 /\ ~FreshRow.rejected /\ FreshRow.tag \notin Entities
      /\ FreshRow.exp = 0 /\ FreshRow.total = 0 /\ FreshRow.tag = NoEntity
  BY ValuesAssumption DEF FreshRow
<1>3. /\ row' = FreshRow /\ saved' = FreshRow /\ stage' \in {"idle", "wiped"}
      /\ stage' = "idle" => part' = Empty /\ disk' = Empty
  <2>1. CASE Restart
    BY <2>1 DEF Restart, Commit
  <2>2. CASE RestartDeletes
    BY <1>0, <2>2, NoSuchFault DEF RestartDeletes, Store, Given, WInv, Matching, rows
  <2> QED
    BY <2>1, <2>2
<1>4. Shaped(sc.multi, FreshRow, FreshRow) /\ Match(Empty, Empty, FreshRow, FreshRow)
  BY <1>2, EmptyMatch DEF Shaped, RowShape, Pair
<1>5. Matching'
  BY <1>0, <1>3, <1>4 DEF Matching, Shaped, RowShape, Pair, Match, OfRow
<1>6. Knowing'
  BY <1>0, <1>1, <1>2, <1>3 DEF Knowing, Known
<1>7. Named' /\ AtEnd' /\ Reply' /\ Segmented' /\ Finishing'
  BY <1>0, <1>1, <1>3 DEF Named, AtEnd, Reply, Segmented, Finishing, Streaming, Replies
<1>8. Promised'
  BY <1>0, PromisedKeeps DEF WInv
<1> QED
  BY <1>5, <1>6, <1>7, <1>8 DEF WInv

\* What a crash leaves of a .part: a prefix where it was written forward, else pieces and holes.
LEMMA LostIs ==
  ASSUME Given, stage # "wiped", NEW ps \in SUBSET Unsynced
  PROVE  /\ \A e : row.map = NoMap /\ Forward(ps) /\ Solid(part, e) /\ Solid(disk, e) =>
                     Solid(Lost(ps), e) /\ Within(disk, Lost(ps))
         /\ \A n \in Nat : \A e : Inside(part, n, e) /\ Inside(disk, n, e) => Inside(Lost(ps), n, e)
         /\ NoBytes(part) /\ NoBytes(disk) => NoBytes(Lost(ps))
<1> DEFINE g == [p \in Pos |-> IF p \in ps THEN disk[p] ELSE part[p]]
           n == Length(g)
<1>1. /\ g \in FileSet /\ \A p \in Pos : p \in Nat /\ p > 0 /\ g[p] = IF p \in ps THEN disk[p] ELSE part[p]
      /\ part \in FileSet /\ disk \in FileSet
  BY GivenFacts, LengthsAssumption DEF FileSet, Pos
<1>2. Lost(ps) = SetLen(g, n)
  BY Zenon DEF Lost, Filled
<1>3. ps \subseteq Pos /\ \A p \in ps : part[p] # disk[p]
  BY DEF Unsynced
<1> HIDE DEF g
<1>4. n \in Nat /\ \A p \in Pos : g[p] # Nil => p <= n
  BY <1>1, LengthIs, Lengthy
<1>5. n = 0 \/ (n \in Pos /\ g[n] # Nil)
  BY <1>1, LengthReached DEF Length
<1> HIDE DEF n
<1>6. \A p \in Pos : Lost(ps)[p] = IF p > n THEN Nil ELSE IF g[p] = Nil THEN Hole ELSE g[p]
  BY <1>2 DEF SetLen
<1>7. ASSUME NEW e, row.map = NoMap, Forward(ps), Solid(part, e), Solid(disk, e)
      PROVE  Solid(Lost(ps), e) /\ Within(disk, Lost(ps))
  <2>1. Within(disk, part)
    BY <1>7, GivenFacts
  <2>2. \A p \in ps : disk[p] = Nil
    BY <1>3, <1>7, <2>1 DEF Solid, Within
  <2>3. ASSUME NEW p \in Pos, NEW q \in Pos, q < p, g[p] # Nil PROVE g[q] # Nil
    <3>1. p \notin ps /\ part[p] # Nil /\ part[q] # Nil
      BY <1>1, <1>7, <2>2, <2>3 DEF Solid
    <3>2. CASE q \in ps
      <4>1. part[p] = disk[p]
        BY <1>7, <2>3, <3>1, <3>2 DEF Forward, Unsynced
      <4> QED
        BY <1>1, <1>7, <2>3, <3>1, <3>2, <4>1 DEF Solid
    <3> QED
      BY <1>1, <3>1, <3>2
  <2>4. \A p \in Pos : g[p] # Nil => g[p] = e /\ e \in Entities
    BY <1>1, <1>7 DEF Solid
  <2>5. ASSUME NEW p \in Pos PROVE Lost(ps)[p] = g[p]
    BY <1>1, <1>4, <1>5, <1>6, <2>3
  <2>6. Solid(Lost(ps), e)
    BY <2>3, <2>4, <2>5 DEF Solid
  <2> QED
    BY <1>1, <2>1, <2>2, <2>5, <2>6 DEF Within
<1>8. ASSUME NEW e, NEW m \in Nat, Inside(part, m, e), Inside(disk, m, e) PROVE Inside(Lost(ps), m, e)
  <2>1. \A p \in Pos : g[p] \in {e, Hole, Nil} /\ (p > m => g[p] = Nil)
    BY <1>1, <1>8 DEF Inside
  <2>2. n <= m
    BY <1>1, <1>5, <2>1
  <2> QED
    BY <1>1, <1>4, <1>6, <2>1, <2>2 DEF Inside
<1>9. NoBytes(part) /\ NoBytes(disk) => NoBytes(Lost(ps))
  BY <1>1, <1>6, ValuesAssumption DEF NoBytes
<1> QED
  BY <1>7, <1>8, <1>9

LEMMA CrashWhole == ASSUME Given, Crash PROVE WInv'
<1>0. PICK ps \in SUBSET Unsynced : /\ row.fmt = 0 => Forward(ps)
                                    /\ part' = Lost(ps) /\ disk' \in {disk, Lost(ps)}
  BY DEF Crash, OneWriter, Given, Steady
<1>1. PICK r \in {row, saved} : row' = r /\ saved' = r
  BY DEF Crash
<1>2. /\ stage # "wiped" /\ stage' = "idle" /\ outcome' = "failed" /\ ~fresh'
      /\ UNCHANGED <<sc, cur, nchange, old, final>>
  BY DEF Crash, End, MIdle, world, remote, Given, Steady
<1>3. Shaped(sc.multi, row', saved')
  BY <1>1, <1>2, GivenFacts DEF Shaped, RowShape, Pair
<1>4. Match(part', disk', row', saved')
  <2>1. CASE row.map = NoMap
    <3>1. Forward(ps) /\ r.map = NoMap /\ Solid(part, r.tag) /\ Solid(disk, r.tag)
      BY <1>0, <1>1, <1>2, <2>1, GivenFacts, RowFields DEF Shaped, RowShape
    <3>2. Solid(part', r.tag) /\ Within(disk, part')
      BY <1>0, <1>2, <2>1, <3>1, LostIs
    <3>3. Solid(disk', r.tag) /\ Within(disk', part')
      BY <1>0, <3>1, <3>2 DEF Within
    <3> QED
      BY <1>1, <3>1, <3>2, <3>3 DEF Match, OfRow
  <2>2. CASE row.map # NoMap
    <3>1. /\ r.map # NoMap /\ r.map.total = row.map.total /\ r.tag = row.tag /\ row.map.total \in Nat
          /\ Inside(part, row.map.total, row.tag) /\ Inside(disk, row.map.total, row.tag)
      <4>1. row.map \in MapSet
        BY <1>2, <2>2, GivenFacts DEF Maps
      <4>2. row.map.total \in Nat
        BY <4>1, MapParts, LengthsAssumption
      <4>3. /\ saved.map # NoMap /\ saved.map.total = row.map.total /\ saved.tag = row.tag
            /\ Inside(part, row.map.total, row.tag) /\ Inside(disk, row.map.total, row.tag)
        BY <1>2, <2>2, GivenFacts
      <4> QED
        BY <1>1, <2>2, <4>2, <4>3
    <3>2. Inside(part', row.map.total, row.tag)
      BY <1>0, <1>2, <3>1, LostIs
    <3>3. Inside(disk', row.map.total, row.tag)
      BY <1>0, <3>1, <3>2
    <3> QED
      BY <1>1, <3>1, <3>2, <3>3 DEF Match, OfRow
  <2> QED
    BY <2>1, <2>2
<1>5. sc.multi => Known(part', disk', cur, nchange, r)
  <2> SUFFICES ASSUME sc.multi PROVE Known(part', disk', cur, nchange, r)
    OBVIOUS
  <2>1. Known(part, disk, cur, nchange, r)
    BY <1>1, <1>2, GivenFacts
  <2>2. NoBytes(part) /\ NoBytes(disk) => NoBytes(part') /\ NoBytes(disk')
    BY <1>0, <1>2, LostIs
  <2> QED
    BY <2>1, <2>2 DEF Known
<1>6. Paired
  BY <1>1, <1>2, <1>3, <1>4, <1>5 DEF Paired
<1>7. Quiet /\ Segmentary
  BY <1>2 DEF Quiet, Segmentary, Streaming
<1> QED
  BY <1>6, <1>7, Settles

\* The user's pause and cancel change nothing that WInv is about.
LEMMA StopWhole == ASSUME Given, \E c \in {"pause", "cancel"} : Stop(c) PROVE WInv'
<1>1. WInv /\ UNCHANGED <<world, files, rows, stage, outcome, single, multi>>
  BY DEF Stop, Given
<1> QED
  BY <1>1 DEF world, remote, files, rows, single, multi, WInv, Matching, Shaped, RowShape, Pair, Match, OfRow,
     Knowing, Known, Size, Named, AtEnd, Reply, Answer, Dated, Segmented, OfVersion, AllWritten, Finishing,
     Whole, Promised, WholeEntity, OldKept

\* The server replaces the file: with several connections, for the first and the last time.
LEMMA ChangeWhole == ASSUME Given, Change PROVE WInv'
<1>1. /\ WInv /\ nchange \in Nat /\ nchange' = nchange + 1 /\ nchange < MaxChanges
      /\ UNCHANGED <<sc, old, files, rows, stage, outcome, single, multi>>
  BY DEF Change, Given, WInv, Knowing
<1>2. sc \in Scenarios
  BY DEF Given, IInv, SingleTyped, Typed
<1>3. sc.multi => nchange = 0 /\ nchange' > 0
  BY <1>1, <1>2 DEF Given, Telling
<1>4. ASSUME NEW r, sc.multi, Known(part, disk, cur, nchange, r) PROVE Known(part, disk, cur', nchange', r)
  BY <1>3, <1>4 DEF Known
<1>5. Knowing'
  <2>1. sc'.multi => Known(part, disk, cur', nchange', row) /\ Known(part, disk, cur', nchange', saved)
    BY <1>1, <1>4 DEF WInv, Knowing
  <2>2. nchange' \in Nat
    BY <1>1
  <2> QED
    BY <1>1, <2>1, <2>2 DEF Knowing, Known, Size, files, rows
<1>6. Reply'
  BY <1>1, <1>3 DEF WInv, Reply, Answer, Dated, Size, rows, single
<1>7. Matching'
  BY <1>1 DEF WInv, Matching, Shaped, RowShape, Pair, Match, OfRow, files, rows
<1>8. Named' /\ AtEnd' /\ Finishing'
  BY <1>1 DEF WInv, Named, AtEnd, Finishing, Whole, Size, files, rows, single
<1>9. Segmented'
  BY <1>1 DEF WInv, Segmented, OfVersion, AllWritten, Size, files, rows, multi
<1>10. Promised'
  BY <1>1, PromisedKeeps DEF WInv, files
<1> QED
  BY <1>5, <1>6, <1>7, <1>8, <1>9, <1>10 DEF WInv

-----------------------------------------------------------------------------
(* Every step, and what follows.                                           *)

LEMMA SameWhole == ASSUME Given, UNCHANGED vars PROVE WInv'
<1>1. WInv /\ UNCHANGED <<world, files, rows, stage, outcome, single, multi>>
  BY DEF vars, Given
<1> QED
  BY <1>1 DEF world, remote, files, rows, single, multi, WInv, Matching, Shaped, RowShape, Pair, Match, OfRow,
     Knowing, Known, Size, Named, AtEnd, Reply, Answer, Dated, Segmented, OfVersion, AllWritten, Finishing,
     Whole, Promised, WholeEntity, OldKept

LEMMA StartsWhole == ASSUME Init PROVE WInv
<1>1. /\ part = Empty /\ disk = Empty /\ row = FreshRow /\ saved = FreshRow /\ stage = "idle" /\ outcome = "none"
      /\ nchange = 0 /\ ~fresh /\ (sc.existing # "none" => old = "target")
  BY DEF Init
<1>2. /\ FreshRow.map = NoMap /\ FreshRow.fmt = 0 /\ ~FreshRow.rejected /\ FreshRow.tag \notin Entities
      /\ FreshRow.exp = 0 /\ FreshRow.total = 0
  BY ValuesAssumption DEF FreshRow
<1>3. Matching
  BY <1>1, <1>2, EmptyMatch DEF Matching, Shaped, RowShape, Pair
<1>4. Knowing
  BY <1>1, <1>2 DEF Knowing, Known
<1>5. Named /\ AtEnd /\ Reply /\ Segmented /\ Finishing
  BY <1>1 DEF Named, AtEnd, Reply, Segmented, Finishing, Streaming, Replies
<1>6. Promised
  BY <1>1 DEF Promised, WholeEntity, OldKept
<1> QED
  BY <1>3, <1>4, <1>5, <1>6 DEF WInv

LEMMA WSteps == ASSUME Given, [Next]_vars PROVE WInv'
<1>1. CASE Begin
  BY <1>1, BeginWhole
<1>2. CASE Prepare
  BY <1>2, PrepareWhole
<1>3. CASE SingleStep
  BY <1>3, SingleFlows DEF SingleStep
<1>4. CASE MultiStep
  BY <1>4, MultiWhole DEF MultiStep
<1>5. CASE StepAside \/ MoveFails
  BY <1>5, AsideWhole
<1>6. CASE MoveFinal
  BY <1>6, MoveFinalWhole
<1>7. CASE Restart \/ RestartDeletes
  BY <1>7, RestartWhole
<1>8. CASE \E c \in {"pause", "cancel"} : Stop(c)
  BY <1>8, StopWhole
<1>9. CASE Change
  BY <1>9, ChangeWhole
<1>10. CASE Crash
  BY <1>10, CrashWhole
<1>11. CASE UNCHANGED vars
  BY <1>11, SameWhole
<1> QED
  BY <1>1, <1>2, <1>3, <1>4, <1>5, <1>6, <1>7, <1>8, <1>9, <1>10, <1>11 DEF Next, Attempt, Surroundings

LEMMA WholeInvariant == ASSUME Steady, Telling PROVE Spec => [](IInv /\ WInv)
<1>1. Init => IInv /\ WInv
  BY Starts, StartsWhole
<1>2. IInv /\ WInv /\ [Next]_vars => (IInv /\ WInv)'
  BY Steps, WSteps DEF Given
<1> QED
  BY <1>1, <1>2, PTL DEF Spec

\* Where every removal of the .part works and the server tells where a body ends (and, for several
\* connections, has versions of different sizes and replaces the file once at most), a completed
\* download is one version of the remote file, whole, whatever reconnects, stops, crashes, losses
\* of power and failing syncs, commits and renames came before (transfer.rs:1252).
THEOREM OneVersionWhole == ASSUME Steady, Telling PROVE Spec => []WholeEntity
<1>1. WInv => WholeEntity
  BY DEF WInv, Promised
<1> QED
  BY <1>1, WholeInvariant, PTL

\* Under the same hypotheses: the file that had the target's name is where it was, or with Overwrite
\* it is moved aside, until a whole version has its name (filesystem.rs:461).
THEOREM OldFileStays == ASSUME Steady, Telling PROVE Spec => []OldKept
<1>1. WInv => OldKept
  BY DEF WInv, Promised
<1> QED
  BY <1>1, WholeInvariant, PTL

\* Between attempts the bytes that the next one builds on are of the version that the row names.
LEMMA MatchFollows == ASSUME IInv, WInv PROVE PartialMatches
<1> SUFFICES ASSUME stage = "idle"
             PROVE  IF row.fmt = 0 THEN \A p \in Pos : part[p] \in {row.tag, Hole, Nil}
                    ELSE \A p \in Confirmed(row.map) : part[p] = row.tag
  BY DEF PartialMatches
<1>1. Shaped(sc.multi, row, saved) /\ OfRow(part, row) /\ row \in RowSet /\ row.fmt \in {0, 1}
  BY RowFields, InvFacts DEF WInv, Matching, Match
<1>2. CASE row.fmt = 0
  BY <1>1, <1>2 DEF Shaped, RowShape, OfRow, Solid
<1>3. CASE row.fmt = 1
  <2>1. ASSUME NEW p \in Confirmed(row.map) PROVE part[p] = row.tag
    <3>1. p \in Pos /\ part[p] \in Entities
      BY <2>1, InvFacts, ConfirmedTyped DEF SafeRow, KeptIn
    <3>2. part[p] \in {row.tag, Hole, Nil}
      BY <1>1, <1>3, <3>1 DEF Shaped, RowShape, OfRow, Inside
    <3> QED
      BY <3>1, <3>2, ValuesAssumption
  <2> QED
    BY <1>3, <2>1
<1> QED
  BY <1>1, <1>2, <1>3

\* Under the same hypotheses: If-Range with the row's validator protects all that a later attempt
\* keeps of the .part, for one stream the whole file and for segments what the map confirms.
THEOREM PartialsMatch == ASSUME Steady, Telling PROVE Spec => []PartialMatches
  BY WholeInvariant, MatchFollows, PTL
=============================================================================
