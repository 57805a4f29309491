------------------------------ MODULE HudProofs ------------------------------
(***************************************************************************)
(* Theorems about the capture windows of Handoff: the bridge between the   *)
(* IPC server and the UI thread, the shell loop's parking, and who owns    *)
(* which window.                                                           *)
(***************************************************************************)
EXTENDS HandoffProofs, SequenceTheorems

-----------------------------------------------------------------------------
(* What the bridge and the UI hold.                                        *)

BrRecs  == [prompts : Seq(Reqs), active : SUBSET Reqs, said : [Reqs -> {"none", "accept", "dismiss"}],
            show : BOOLEAN, pending : Seq(Jobs), watch : Seq(Jobs), owned : SUBSET Jobs,
            waiting : SUBSET (Urls \cup {"none"}), shown : SUBSET Jobs, wake : BOOLEAN]
WinRecs == [phase : {"confirm", "progress", "complete"}, prompt : Reqs \cup {0}, job : Jobs \cup {0},
            url : Urls \cup {"none"}, noted : BOOLEAN]
UiRecs  == [jobs : JobMaps, latest : JobMaps, held : BOOLEAN, later : JobMaps, windows : SUBSET WinRecs,
            watching : SUBSET Jobs, hidden : BOOLEAN, parked : BOOLEAN]

-----------------------------------------------------------------------------
(* Sequences.                                                              *)

LEMMA Least ==
  ASSUME NEW T, T \subseteq Nat, T # {}
  PROVE  \E n \in T : \A m \in T : n <= m
<1> DEFINE Less == {ss \in Nat \X Nat : ss[1] < ss[2]}
<1>1. IsWellFoundedOn(Less, Nat)
  BY NatLessThanWellFounded DEF OpToRel
<1>2. \E x \in T : \A y \in T : ~(<<y, x>> \in Less)
  <2> HIDE DEF Less
  <2> QED BY <1>1, WFMin
<1>3. PICK n \in T : \A m \in T : ~(<<m, n>> \in Less)
  BY <1>2
<1>4. ASSUME NEW m \in T PROVE n <= m
  <2>1. <<m, n>> \in Nat \X Nat /\ <<m, n>>[1] = m /\ <<m, n>>[2] = n
    OBVIOUS
  <2>2. ~(m < n)
    BY <1>3, <2>1
  <2> QED
    BY <2>2
<1> QED
  BY <1>4

\* The n-th place of a finite set of places exists, for every n up to their number.
LEMMA Places ==
  ASSUME NEW kept, kept \subseteq Nat, IsFiniteSet(kept)
  PROVE  /\ \A n \in 1..Cardinality(kept) :
              Place(kept, n) \in kept /\ Cardinality({k \in kept : k <= Place(kept, n)}) = n
         /\ \A i \in kept : \E n \in 1..Cardinality(kept) : Place(kept, n) = i
<1> DEFINE C == Cardinality(kept)
           rank == [i \in kept |-> Cardinality({k \in kept : k <= i})]
<1>0. C \in Nat
  BY FS_CardinalityType
<1>1. \A i \in kept : IsFiniteSet({k \in kept : k <= i}) /\ Cardinality({k \in kept : k <= i}) \in 1..C
  <2> TAKE i \in kept
  <2> DEFINE T == {k \in kept : k <= i}
  <2>1. T \in SUBSET kept /\ i \in T
    OBVIOUS
  <2>2. IsFiniteSet(T) /\ Cardinality(T) <= C
    BY <2>1, FS_Subset
  <2>3. Cardinality(T) \in Nat /\ Cardinality(T) # 0
    BY <2>1, <2>2, FS_CardinalityType, FS_EmptySet
  <2> QED
    BY <1>0, <2>2, <2>3
<1>2. ASSUME NEW i \in kept, NEW l \in kept, i < l PROVE rank[i] < rank[l]
  <2> DEFINE S == {k \in kept : k <= l}
             T == {k \in kept : k <= i}
  <2>a. i \in Nat /\ l \in Nat /\ i < l /\ \A k \in kept : k \in Nat
    BY <1>2
  <2>b. \A k \in kept : k <= i => k <= l
    BY <2>a
  <2>c. T \subseteq S
    BY <2>b
  <2>d. l \in S /\ ~(l <= i)
    BY <2>a
  <2>1. T \in SUBSET S /\ l \in S /\ l \notin T
    BY <2>c, <2>d
  <2>2. Cardinality(T) <= Cardinality(S) /\ Cardinality(T) # Cardinality(S)
    BY <1>1, <2>1, FS_Subset
  <2>3. Cardinality(T) \in Nat /\ Cardinality(S) \in Nat
    BY <1>1
  <2> QED
    BY <2>2, <2>3
<1>3. \A i, l \in kept : rank[i] = rank[l] => i = l
  <2> TAKE i, l \in kept
  <2>1. rank[i] \in Nat /\ rank[l] \in Nat
    BY <1>0, <1>1
  <2>2. i \in Nat /\ l \in Nat
    OBVIOUS
  <2> HIDE DEF rank
  <2> QED
    BY <1>2, <2>1, <2>2
<1>4. rank \in Injection(kept, 1..C)
  <2>1. rank \in [kept -> 1..C]
    BY <1>1
  <2> HIDE DEF rank, C
  <2> QED
    BY <1>3, <2>1 DEF Injection, IsInjective
<1>5. rank \in Surjection(kept, 1..C)
  <2>1. IsFiniteSet(1..C) /\ Cardinality(1..C) = C
    BY <1>0, FS_Interval
  <2> HIDE DEF rank
  <2> QED
    BY <1>4, <2>1, FS_Injection
<1>6. \A n \in 1..C : \E i \in kept : rank[i] = n
  <2> HIDE DEF rank, C
  <2> QED BY <1>5 DEF Surjection
<1>7. \A n \in 1..C : Place(kept, n) \in kept /\ rank[Place(kept, n)] = n
  BY <1>6 DEF Place
<1>8. \A i \in kept : rank[i] \in 1..C /\ Place(kept, rank[i]) = i
  <2> TAKE i \in kept
  <2>1. rank[i] \in 1..C
    BY <1>1
  <2>2. Place(kept, rank[i]) \in kept /\ rank[Place(kept, rank[i])] = rank[i]
    BY <1>7, <2>1
  <2> QED
    BY <1>3, <2>1, <2>2
<1> QED
  BY <1>7, <1>8

LEMMA Dropped ==
  ASSUME NEW X, NEW s \in Seq(X), NEW S
  PROVE  /\ Dropping(s, S) \in Seq(X)
         /\ ToSet(Dropping(s, S)) = ToSet(s) \ S
<1> DEFINE kept == {i \in DOMAIN s : s[i] \notin S}
           C == Cardinality(kept)
<1>1. DOMAIN s = 1..Len(s) /\ Len(s) \in Nat /\ \A i \in DOMAIN s : s[i] \in X
  OBVIOUS
<1>2. kept \subseteq Nat /\ IsFiniteSet(kept)
  <2>1. IsFiniteSet(1..Len(s)) /\ kept \in SUBSET (1..Len(s))
    BY <1>1, FS_Interval
  <2> QED
    BY <1>1, <2>1, FS_Subset
<1>3. C \in Nat
  BY <1>2, FS_CardinalityType
<1>4. Dropping(s, S) = [n \in 1..C |-> s[Place(kept, n)]]
  BY DEF Dropping
<1> DEFINE d == [n \in 1..C |-> s[Place(kept, n)]]
<1>5. \A n \in 1..C : Place(kept, n) \in kept
  BY <1>2, Places
<1>6. \A i \in kept : \E n \in 1..C : Place(kept, n) = i
  BY <1>2, Places
<1>7. d \in Seq(X)
  BY <1>1, <1>3, <1>5, IsASeq
<1>8. ToSet(d) = {s[i] : i \in kept}
  <2>1. DOMAIN d = 1..C /\ ToSet(d) = {d[n] : n \in DOMAIN d}
    BY DEF ToSet
  <2> QED
    BY <1>5, <1>6, <2>1
<1>9. ToSet(s) = {s[i] : i \in DOMAIN s}
  BY DEF ToSet
<1>10. {s[i] : i \in kept} = ToSet(s) \ S
  BY <1>9
<1> QED
  BY <1>4, <1>7, <1>8, <1>10

LEMMA Greatest ==
  ASSUME NEW n \in Nat, NEW T, T \subseteq 1..n, T # {}
  PROVE  \E t \in T : \A m \in T : m <= t
<1> DEFINE S == {n - t : t \in T}
<1>1. S \subseteq Nat /\ S # {}
  OBVIOUS
<1>2. PICK s \in S : \A m \in S : s <= m
  <2> HIDE DEF S
  <2> QED BY <1>1, Least
<1>3. PICK t \in T : s = n - t
  BY <1>2
<1>4. \A m \in T : n - t <= n - m
  BY <1>2, <1>3
<1> QED
  BY <1>4

LEMMA EmptySet ==
  ASSUME NEW X, NEW s \in Seq(X)
  PROVE  /\ ToSet(s) \subseteq X /\ (s = <<>> <=> ToSet(s) = {})
         /\ s # <<>> => Head(s) \in ToSet(s)
         /\ \A e : Contains(s, e) <=> e \in ToSet(s)
<1>1. DOMAIN s = 1..Len(s) /\ Len(s) \in Nat /\ ToSet(s) = {s[i] : i \in DOMAIN s}
  BY DEF ToSet
<1>2. s # <<>> => Head(s) = s[1] /\ 1 \in DOMAIN s
  OBVIOUS
<1>3. \A e : Contains(s, e) <=> e \in ToSet(s)
  BY <1>1 DEF Contains
<1>4. s = <<>> => ToSet(s) = {}
  BY DEF ToSet
<1> QED
  BY <1>1, <1>2, <1>3, <1>4

-----------------------------------------------------------------------------
(* The bridge.                                                             *)

\* The fields of a bridge that no method of one kind changes.
PromptsSame(b, c) == c.prompts = b.prompts /\ c.active = b.active /\ c.said = b.said
WindowsSame(b, c) ==
  c.pending = b.pending /\ c.watch = b.watch /\ c.owned = b.owned /\ c.waiting = b.waiting /\ c.show = b.show

LEMMA EnqueuePromptFields ==
  ASSUME NEW b \in BrRecs, NEW r \in Reqs
  PROVE  LET c == EnqueuePrompt(b, r)
         IN c \in BrRecs /\ ToSet(c.prompts) = ToSet(b.prompts) \cup {r} /\ c.active = b.active
            /\ c.said = b.said /\ WindowsSame(b, c) /\ c.wake
<1>1. Append(b.prompts, r) \in Seq(Reqs) /\ ToSet(Append(b.prompts, r)) = ToSet(b.prompts) \cup {r}
  BY SetOfAppended DEF BrRecs
<1> DEFINE ps == Append(b.prompts, r)
<1> HIDE DEF ps
<1>2. [[b EXCEPT !.prompts = ps] EXCEPT !.wake = TRUE] \in BrRecs
  BY <1>1 DEF BrRecs, ps
<1>3. EnqueuePrompt(b, r) = [[b EXCEPT !.prompts = ps] EXCEPT !.wake = TRUE]
  BY DEF EnqueuePrompt, WakeUi, ps, BrRecs
<1> QED
  BY <1>1, <1>2, <1>3 DEF BrRecs, WindowsSame, ps

LEMMA ClaimFields ==
  ASSUME NEW b \in BrRecs, Unclaimed(b) # <<>>
  PROVE  /\ Head(Unclaimed(b)) \in ToSet(b.prompts) \ b.active /\ Head(Unclaimed(b)) \in Reqs
         /\ LET c == Claim(b)
            IN c \in BrRecs /\ c.prompts = b.prompts /\ c.active = b.active \cup {Head(Unclaimed(b))}
               /\ c.said = b.said /\ WindowsSame(b, c) /\ c.wake = b.wake
<1> DEFINE r == Head(Unclaimed(b))
<1>1. b.prompts \in Seq(Reqs)
  BY DEF BrRecs
<1>2. Unclaimed(b) \in Seq(Reqs) /\ ToSet(Unclaimed(b)) = ToSet(b.prompts) \ b.active
  BY <1>1, Dropped DEF Unclaimed
<1>3. r \in ToSet(b.prompts) \ b.active /\ r \in Reqs
  BY <1>2, EmptySet
<1>4. Claim(b) = [b EXCEPT !.active = @ \cup {r}]
  BY DEF Claim
<1> HIDE DEF r
<1> DEFINE c == [b EXCEPT !.active = @ \cup {r}]
<1>5. c \in BrRecs
  BY <1>3 DEF BrRecs
<1>6. c.prompts = b.prompts /\ c.active = b.active \cup {r} /\ c.said = b.said /\ WindowsSame(b, c) /\ c.wake = b.wake
  BY DEF BrRecs, WindowsSame
<1> HIDE DEF c
<1> QED
  BY <1>3, <1>4, <1>5, <1>6 DEF r, c

Resolved(b, r, d, c) ==
  /\ c \in BrRecs /\ ToSet(c.prompts) = ToSet(b.prompts) \ {r} /\ c.active = b.active \ {r}
  /\ \A q \in Reqs : c.said[q] = IF q = r /\ r \in ToSet(b.prompts) THEN d ELSE b.said[q]
  /\ WindowsSame(b, c) /\ c.wake = b.wake
LEMMA ResolveFields ==
  ASSUME NEW b \in BrRecs, NEW r \in Reqs, NEW d \in {"accept", "dismiss"}, b.active \subseteq ToSet(b.prompts)
  PROVE  Resolved(b, r, d, Resolve(b, r, d))
<1>1. b.prompts \in Seq(Reqs) /\ (Contains(b.prompts, r) <=> r \in ToSet(b.prompts))
  BY EmptySet DEF BrRecs
<1>2. CASE r \in ToSet(b.prompts)
  <2>1. PICK ps \in Seq(Reqs) : ps = Dropping(b.prompts, {r}) /\ ToSet(ps) = ToSet(b.prompts) \ {r}
    BY <1>1, Dropped
  <2>2. Resolve(b, r, d) = [b EXCEPT !.prompts = ps, !.active = b.active \ {r}, !.said = [b.said EXCEPT ![r] = d]]
    BY <1>1, <1>2, <2>1 DEF Resolve, BrRecs
  <2>3. PICK said \in [Reqs -> {"none", "accept", "dismiss"}] : said = [b.said EXCEPT ![r] = d]
    BY DEF BrRecs
  <2>4. \A q \in Reqs : said[q] = IF q = r THEN d ELSE b.said[q]
    BY <2>3 DEF BrRecs
  <2> DEFINE c == [b EXCEPT !.prompts = ps, !.active = b.active \ {r}, !.said = said]
  <2>5. c \in BrRecs
    BY DEF BrRecs
  <2>6. c.prompts = ps /\ c.active = b.active \ {r} /\ c.said = said
    BY DEF BrRecs
  <2>7. WindowsSame(b, c) /\ c.wake = b.wake
    BY DEF BrRecs, WindowsSame
  <2> HIDE DEF c
  <2>8. Resolve(b, r, d) = c
    BY <2>2, <2>3 DEF c
  <2> QED
    BY <1>2, <2>1, <2>4, <2>5, <2>6, <2>7, <2>8 DEF Resolved
<1>3. CASE r \notin ToSet(b.prompts)
  <2>1. Resolve(b, r, d) = b
    BY <1>1, <1>3 DEF Resolve
  <2> QED
    BY <1>3, <2>1 DEF WindowsSame, Resolved
<1> QED
  BY <1>2, <1>3

LEMMA PushedFields ==
  ASSUME NEW s \in Seq(Jobs), NEW j \in Jobs, NEW max \in Nat \ {0}
  PROVE  Pushed(s, j, max) \in Seq(Jobs) /\ Pushed(s, j, max) # <<>>
<1>1. Contains(s, j) => s # <<>>
  BY EmptySet
<1>2. Len(s) >= max => s # <<>> /\ Tail(s) \in Seq(Jobs)
  OBVIOUS
<1>3. \A t \in Seq(Jobs) : Append(t, j) \in Seq(Jobs) /\ Append(t, j) # <<>>
  OBVIOUS
<1> QED
  BY <1>1, <1>2, <1>3 DEF Pushed

LEMMA EnqueueProgressFields ==
  ASSUME NEW b \in BrRecs, NEW j \in Jobs
  PROVE  LET c == EnqueueProgress(b, j)
         IN c \in BrRecs /\ PromptsSame(b, c) /\ c.watch # <<>> /\ c.owned = b.owned /\ c.waiting = b.waiting
            /\ c.wake
<1>1. PICK ws \in Seq(Jobs), ps \in Seq(Jobs) :
        ws = Pushed(b.watch, j, WatchMax) /\ ps = Pushed(b.pending, j, PendingMax) /\ ws # <<>>
  <2>1. b.watch \in Seq(Jobs) /\ b.pending \in Seq(Jobs)
    BY DEF BrRecs
  <2> QED
    BY <2>1, PushedFields, CapsAssumption
<1>2. EnqueueProgress(b, j) = [[b EXCEPT !.watch = ws, !.pending = ps] EXCEPT !.wake = TRUE]
  BY <1>1 DEF EnqueueProgress, WakeUi, BrRecs
<1> DEFINE c == [[b EXCEPT !.watch = ws, !.pending = ps] EXCEPT !.wake = TRUE]
<1>3. c \in BrRecs
  BY DEF BrRecs
<1>4. c.watch = ws /\ c.owned = b.owned /\ c.waiting = b.waiting /\ c.wake
  BY DEF BrRecs
<1>5. PromptsSame(b, c)
  BY DEF BrRecs, PromptsSame
<1> HIDE DEF c
<1> QED
  BY <1>1, <1>2, <1>3, <1>4, <1>5 DEF c

LEMMA OwnFields ==
  ASSUME NEW b \in BrRecs, NEW j \in Jobs
  PROVE  LET c == Own(b, j)
         IN c \in BrRecs /\ PromptsSame(b, c) /\ c.watch = b.watch /\ c.owned = b.owned \cup {j}
            /\ ToSet(c.pending) = ToSet(b.pending) \ {j} /\ c.waiting = b.waiting /\ c.show = b.show /\ c.wake = b.wake
<1>1. PICK ps \in Seq(Jobs) : ps = Dropping(b.pending, {j}) /\ ToSet(ps) = ToSet(b.pending) \ {j}
  <2>1. b.pending \in Seq(Jobs)
    BY DEF BrRecs
  <2> QED
    BY <2>1, Dropped
<1>2. Own(b, j) = [b EXCEPT !.owned = @ \cup {j}, !.pending = ps]
  BY <1>1 DEF Own, BrRecs
<1> DEFINE c == [b EXCEPT !.owned = @ \cup {j}, !.pending = ps]
<1>3. c \in BrRecs
  BY ZenonT(60) DEF BrRecs
<1>4. c.watch = b.watch /\ c.owned = b.owned \cup {j} /\ c.pending = ps
  BY DEF BrRecs
<1>5. c.waiting = b.waiting /\ c.show = b.show /\ c.wake = b.wake
  BY DEF BrRecs
<1>6. PromptsSame(b, c)
  BY DEF BrRecs, PromptsSame
<1> HIDE DEF c
<1> QED
  BY <1>1, <1>2, <1>3, <1>4, <1>5, <1>6 DEF c

LEMMA SmallFields ==
  ASSUME NEW b \in BrRecs
  PROVE  /\ \A j \in Jobs : LET c == ClaimComplete(b, j)
                           IN c \in BrRecs /\ PromptsSame(b, c) /\ WindowsSame(b, c) /\ c.wake = b.wake
         /\ LET c == RequestShow(b)
            IN c \in BrRecs /\ PromptsSame(b, c) /\ c.watch = b.watch /\ c.pending = b.pending
               /\ c.owned = b.owned /\ c.waiting = b.waiting /\ c.wake
         /\ LET c == TakeShow(b)
            IN c \in BrRecs /\ PromptsSame(b, c) /\ c.watch = b.watch /\ c.pending = b.pending
               /\ c.owned = b.owned /\ c.waiting = b.waiting
         /\ LET c == WakeUi(b)
            IN c \in BrRecs /\ PromptsSame(b, c) /\ WindowsSame(b, c) /\ c.wake
<1>1. ASSUME NEW j \in Jobs
      PROVE  LET c == ClaimComplete(b, j)
             IN c \in BrRecs /\ PromptsSame(b, c) /\ WindowsSame(b, c) /\ c.wake = b.wake
  <2> DEFINE c == ClaimComplete(b, j)
  <2>1. c \in BrRecs
    BY DEF BrRecs, ClaimComplete
  <2>2. PromptsSame(b, c)
    BY DEF BrRecs, ClaimComplete, PromptsSame
  <2>3. WindowsSame(b, c) /\ c.wake = b.wake
    BY DEF BrRecs, ClaimComplete, WindowsSame
  <2> QED
    BY Zenon, <2>1, <2>2, <2>3
<1>2. LET c == RequestShow(b)
      IN c \in BrRecs /\ PromptsSame(b, c) /\ c.watch = b.watch /\ c.pending = b.pending
         /\ c.owned = b.owned /\ c.waiting = b.waiting /\ c.wake
  <2> DEFINE c == RequestShow(b)
  <2>1. c \in BrRecs
    BY DEF BrRecs, RequestShow, WakeUi
  <2>2. PromptsSame(b, c) /\ c.wake
    BY DEF BrRecs, RequestShow, WakeUi, PromptsSame
  <2>3. c.watch = b.watch /\ c.pending = b.pending /\ c.owned = b.owned /\ c.waiting = b.waiting
    BY DEF BrRecs, RequestShow, WakeUi
  <2> QED
    BY Zenon, <2>1, <2>2, <2>3
<1>3. LET c == TakeShow(b)
      IN c \in BrRecs /\ PromptsSame(b, c) /\ c.watch = b.watch /\ c.pending = b.pending
         /\ c.owned = b.owned /\ c.waiting = b.waiting
  <2> DEFINE c == TakeShow(b)
  <2>1. c \in BrRecs
    BY DEF BrRecs, TakeShow
  <2>2. PromptsSame(b, c)
    BY DEF BrRecs, TakeShow, PromptsSame
  <2>3. c.watch = b.watch /\ c.pending = b.pending /\ c.owned = b.owned /\ c.waiting = b.waiting
    BY DEF BrRecs, TakeShow
  <2> QED
    BY Zenon, <2>1, <2>2, <2>3
<1>4. LET c == WakeUi(b)
      IN c \in BrRecs /\ PromptsSame(b, c) /\ WindowsSame(b, c) /\ c.wake
  <2> DEFINE c == WakeUi(b)
  <2>1. c \in BrRecs
    BY DEF BrRecs, WakeUi
  <2>2. PromptsSame(b, c) /\ c.wake
    BY DEF BrRecs, WakeUi, PromptsSame
  <2>3. WindowsSame(b, c)
    BY DEF BrRecs, WakeUi, WindowsSame
  <2> QED
    BY Zenon, <2>1, <2>2, <2>3
<1> QED
  BY <1>1, <1>2, <1>3, <1>4

LEMMA WaitingFields ==
  ASSUME NEW b \in BrRecs, NEW u \in Urls \cup {"none"}
  PROVE  /\ LET c == NoteWaiting(b, u)
            IN c \in BrRecs /\ PromptsSame(b, c) /\ c.watch = b.watch /\ c.pending = b.pending
               /\ c.owned = b.owned /\ c.waiting = b.waiting \cup {u} /\ c.show = b.show /\ c.wake = b.wake
         /\ LET c == ClearWaiting(b, u)
            IN c \in BrRecs /\ PromptsSame(b, c) /\ c.watch = b.watch /\ c.pending = b.pending
               /\ c.owned = b.owned /\ c.waiting = b.waiting \ {u} /\ c.show = b.show /\ c.wake = b.wake
<1>1. LET c == NoteWaiting(b, u)
      IN c \in BrRecs /\ PromptsSame(b, c) /\ c.watch = b.watch /\ c.pending = b.pending
         /\ c.owned = b.owned /\ c.waiting = b.waiting \cup {u} /\ c.show = b.show /\ c.wake = b.wake
  <2> DEFINE c == NoteWaiting(b, u)
  <2>1. c \in BrRecs
    BY DEF BrRecs, NoteWaiting
  <2>2. PromptsSame(b, c) /\ c.wake = b.wake /\ c.show = b.show
    BY DEF BrRecs, NoteWaiting, PromptsSame
  <2>3. c.watch = b.watch /\ c.pending = b.pending /\ c.owned = b.owned /\ c.waiting = b.waiting \cup {u}
    BY DEF BrRecs, NoteWaiting
  <2> QED
    BY Zenon, <2>1, <2>2, <2>3
<1>2. LET c == ClearWaiting(b, u)
      IN c \in BrRecs /\ PromptsSame(b, c) /\ c.watch = b.watch /\ c.pending = b.pending
         /\ c.owned = b.owned /\ c.waiting = b.waiting \ {u} /\ c.show = b.show /\ c.wake = b.wake
  <2> DEFINE c == ClearWaiting(b, u)
  <2>1. c \in BrRecs
    BY DEF BrRecs, ClearWaiting
  <2>2. PromptsSame(b, c) /\ c.wake = b.wake /\ c.show = b.show
    BY DEF BrRecs, ClearWaiting, PromptsSame
  <2>3. c.watch = b.watch /\ c.pending = b.pending /\ c.owned = b.owned /\ c.waiting = b.waiting \ {u}
    BY DEF BrRecs, ClearWaiting
  <2> QED
    BY Zenon, <2>1, <2>2, <2>3
<1> QED
  BY <1>1, <1>2

LEMMA ReleaseFields ==
  ASSUME NEW b \in BrRecs, NEW j
  PROVE  LET c == Release(b, j)
         IN c \in BrRecs /\ PromptsSame(b, c) /\ c.watch = b.watch /\ c.pending = b.pending
            /\ c.owned = b.owned \ {j} /\ c.waiting = b.waiting /\ c.show = b.show /\ c.wake = b.wake
<1> DEFINE c == Release(b, j)
<1>1. c \in BrRecs
  BY DEF BrRecs, Release
<1>2. PromptsSame(b, c) /\ c.wake = b.wake /\ c.show = b.show
  BY DEF BrRecs, Release, PromptsSame
<1>3. c.watch = b.watch /\ c.pending = b.pending /\ c.owned = b.owned \ {j} /\ c.waiting = b.waiting
  BY DEF BrRecs, Release
<1> QED
  BY Zenon, <1>1, <1>2, <1>3

LEMMA RequestCloseFields ==
  ASSUME NEW b \in BrRecs, b.active \subseteq ToSet(b.prompts)
  PROVE  LET c == RequestCloseWindows(b)
         IN c \in BrRecs /\ ToSet(c.prompts) = ToSet(b.prompts) \ b.active /\ c.active = {}
            /\ (\A q \in Reqs : c.said[q] = IF q \in b.active THEN "dismiss" ELSE b.said[q])
            /\ c.watch = b.watch /\ c.pending = b.pending
            /\ c.owned = {} /\ c.waiting = b.waiting /\ c.show = b.show /\ c.wake = b.wake
<1>1. PICK ps \in Seq(Reqs) : ps = Dropping(b.prompts, b.active) /\ ToSet(ps) = ToSet(b.prompts) \ b.active
  <2>1. b.prompts \in Seq(Reqs)
    BY DEF BrRecs
  <2> QED
    BY <2>1, Dropped
<1>2. PICK said \in [Reqs -> {"none", "accept", "dismiss"}] :
        said = [q \in DOMAIN b.said |-> IF q \in b.active THEN "dismiss" ELSE b.said[q]]
  BY DEF BrRecs
<1>3. RequestCloseWindows(b) = [b EXCEPT !.prompts = ps, !.active = {}, !.said = said, !.owned = {}]
  BY <1>1, <1>2 DEF RequestCloseWindows, BrRecs
<1>4. \A q \in Reqs : said[q] = IF q \in b.active THEN "dismiss" ELSE b.said[q]
  BY <1>2 DEF BrRecs
<1> QED
  BY <1>1, <1>3, <1>4 DEF BrRecs

LEMMA NewBridgeFields ==
  LET c == NewBridge(Reqs)
  IN c \in BrRecs /\ ToSet(c.prompts) = {} /\ c.active = {} /\ (\A q \in Reqs : c.said[q] = "none")
     /\ c.watch = <<>> /\ ToSet(c.pending) = {} /\ c.owned = {} /\ c.waiting = {}
     /\ c.prompts = <<>> /\ c.pending = <<>> /\ ~c.show
<1>1. <<>> \in Seq(Reqs) /\ <<>> \in Seq(Jobs) /\ ToSet(<<>>) = {}
  BY DEF ToSet
<1> QED
  BY <1>1 DEF NewBridge, BrRecs

\* take_pending_progress_jobs_n(1).
LEMMA TakePendingFields ==
  ASSUME NEW b \in BrRecs, NEW known, NEW url
  PROVE  /\ Openable(b, known, url) \in Seq(Jobs)
         /\ Openable(b, known, url) # <<>> =>
              Head(Openable(b, known, url)) \in Jobs /\ Head(Openable(b, known, url)) \notin b.owned
         /\ LET c == TakePending(b, known, url)
            IN c \in BrRecs /\ PromptsSame(b, c) /\ c.watch = b.watch /\ c.owned = b.owned
               /\ c.waiting = b.waiting /\ c.show = b.show /\ c.wake = b.wake
               /\ ToSet(c.pending) \cap b.owned = {}
<1>0. b.pending \in Seq(Jobs)
  BY DEF BrRecs
<1>1. /\ Openable(b, known, url) \in Seq(Jobs)
      /\ ToSet(Openable(b, known, url)) \subseteq ToSet(b.pending) \ b.owned
  <2> DEFINE S == {j \in ToSet(b.pending) : j \in b.owned \/ j \notin known \/ url[j] \in b.waiting}
  <2>1. Dropping(b.pending, S) \in Seq(Jobs) /\ ToSet(Dropping(b.pending, S)) = ToSet(b.pending) \ S
    BY <1>0, Dropped
  <2> QED
    BY <2>1 DEF Openable
<1>2. Openable(b, known, url) # <<>> =>
        Head(Openable(b, known, url)) \in Jobs /\ Head(Openable(b, known, url)) \notin b.owned
  BY <1>1, EmptySet
<1>3. Unowned(b) \in Seq(Jobs) /\ ToSet(Unowned(b)) = ToSet(b.pending) \ b.owned
  BY <1>0, Dropped DEF Unowned
<1>4. PICK T : TakePending(b, known, url) = [b EXCEPT !.pending = Dropping(Unowned(b), T)]
  BY DEF TakePending
<1>5. PICK ps \in Seq(Jobs) : ps = Dropping(Unowned(b), T) /\ ToSet(ps) = ToSet(Unowned(b)) \ T
  BY <1>3, Dropped
<1>6. TakePending(b, known, url) = [b EXCEPT !.pending = ps]
  BY <1>4, <1>5
<1> QED
  BY <1>1, <1>2, <1>3, <1>5, <1>6 DEF BrRecs, PromptsSame

-----------------------------------------------------------------------------
(* The windows and what the bridge says of them.                           *)

Plain(windows) == \A w \in windows : w.phase = "confirm" => w.prompt \in Reqs /\ w = Confirm(w.prompt)

Owns(owned, windows) ==
  /\ \A w \in windows : w.job # 0 => w.job \in owned
  /\ \A j \in owned : \E w \in windows : w.job = j
  /\ \A w, v \in windows : w.job = v.job /\ w.job # 0 => w = v

Notes(waiting, windows) == \A u \in waiting : u \in orphans \/ \E w \in windows : w.noted /\ w.url = u

Asked(rs, prompts, active, said, windows) ==
  /\ active \subseteq prompts
  /\ \A r \in prompts : rs[r].handler = "prompt"
  /\ \A r \in Reqs : said[r] # "none" => rs[r].handler = "prompt" /\ r \notin prompts
  /\ \A r \in active : Confirm(r) \in windows
  /\ \A w \in windows : w.phase = "confirm" =>
       /\ w.prompt \in active \/ rs[w.prompt].handler = "none"
       /\ rs[w.prompt].handler # "none" \/ rs[w.prompt].host \in {"answered", "done"}

Watched(pending, watch, owned) == pending \cap owned # {} => watch # <<>>

HudOk(b, u) ==
  /\ b \in BrRecs /\ u \in UiRecs
  /\ Plain(u.windows) /\ Owns(b.owned, u.windows) /\ Notes(b.waiting, u.windows)
  /\ Asked(reqs, ToSet(b.prompts), b.active, b.said, u.windows)
  /\ Watched(ToSet(b.pending), b.watch, b.owned)

LEMMA ConfirmFields ==
  ASSUME ScTyped, NEW r \in Reqs
  PROVE  /\ Confirm(r) \in WinRecs /\ Confirm(r).phase = "confirm" /\ Confirm(r).prompt = r
         /\ Confirm(r).job = 0 /\ ~Confirm(r).noted /\ Confirm(r).url = sc.url[r]
<1>1. sc.url[r] \in Urls
  BY HandoffAssumption DEF ScTyped
<1>2. Confirm(r) \in WinRecs
  BY <1>1 DEF Confirm, WinRecs
<1> QED
  BY <1>2 DEF Confirm

LEMMA JobWindowFields ==
  ASSUME NEW p \in {"progress", "complete"}, NEW j \in Jobs, NEW u \in Urls \cup {"none"},
         ui.jobs[j].url \in Urls \cup {"none"}
  PROVE  /\ LET w == [JobWindow(p, j) EXCEPT !.url = u]
            IN w \in WinRecs /\ w.phase = p /\ w.job = j /\ ~w.noted
         /\ LET w == JobWindow(p, j) IN w \in WinRecs /\ w.phase = p /\ w.job = j /\ ~w.noted
<1>1. JobWindow(p, j) \in WinRecs
  BY DEF JobWindow, WinRecs
<1>2. LET w == JobWindow(p, j) IN w.phase = p /\ w.job = j /\ ~w.noted
  BY DEF JobWindow
<1> DEFINE v == JobWindow(p, j)
<1> HIDE DEF v
<1>3. v \in WinRecs /\ v.phase = p /\ v.job = j /\ ~v.noted
  BY <1>1, <1>2 DEF v
<1>4. LET w == [v EXCEPT !.url = u] IN w \in WinRecs /\ w.phase = p /\ w.job = j /\ ~w.noted
  BY <1>3 DEF WinRecs
<1> QED
  BY <1>1, <1>2, <1>4 DEF v

\* What a change of the windows leaves alone.
Shell(u, v) ==
  v.jobs = u.jobs /\ v.latest = u.latest /\ v.held = u.held /\ v.later = u.later /\ v.hidden = u.hidden
  /\ v.parked = u.parked
LEMMA WindowFields ==
  ASSUME NEW u \in UiRecs, NEW w \in WinRecs
  PROVE  /\ Opened(u, w) \in UiRecs /\ Opened(u, w).windows = u.windows \cup {w} /\ Shell(u, Opened(u, w))
         /\ Closed(u, w) \in UiRecs /\ Closed(u, w).windows = u.windows \ {w} /\ Shell(u, Closed(u, w))
         /\ \A v \in WinRecs : /\ Replaced(u, w, v) \in UiRecs /\ Shell(u, Replaced(u, w, v))
                               /\ Replaced(u, w, v).windows = (u.windows \ {w}) \cup {v}
<1>1. Opened(u, w) \in UiRecs /\ Opened(u, w).windows = u.windows \cup {w}
  BY DEF Opened, UiRecs
<1>2. Closed(u, w) \in UiRecs /\ Closed(u, w).windows = u.windows \ {w}
  BY DEF Closed, UiRecs
<1>3. ASSUME NEW v \in WinRecs
      PROVE  Replaced(u, w, v) \in UiRecs /\ Replaced(u, w, v).windows = (u.windows \ {w}) \cup {v}
  BY DEF Replaced, UiRecs
<1>4. Shell(u, Opened(u, w))
  BY DEF Opened, UiRecs, Shell
<1>5. Shell(u, Closed(u, w))
  BY DEF Closed, UiRecs, Shell
<1>6. ASSUME NEW v PROVE Shell(u, Replaced(u, w, v))
  BY DEF Replaced, UiRecs, Shell
<1> QED
  BY <1>1, <1>2, <1>3, <1>4, <1>5, <1>6

-----------------------------------------------------------------------------
(* One change of the windows.                                              *)

\* A window is opened for a job that no window has, or one that waited binds it.
LEMMA OwnsAdded ==
  ASSUME NEW owned, NEW windows, Owns(owned, windows), NEW j, j \notin owned, j # 0, NEW v, v.job = j
  PROVE  Owns(owned \cup {j}, windows \cup {v})
BY DEF Owns

LEMMA OwnsBound ==
  ASSUME NEW owned, NEW windows, Owns(owned, windows), NEW j, j \notin owned, j # 0, NEW v, v.job = j,
         0 \notin owned, NEW w \in windows, w.job = 0
  PROVE  Owns(owned \cup {j}, (windows \ {w}) \cup {v})
<1> DEFINE after == (windows \ {w}) \cup {v}
<1>1. \A x \in after : x = v \/ (x \in windows /\ x # w)
  OBVIOUS
<1>2. \A x \in windows : x = w \/ x \in after
  OBVIOUS
<1>3. v \in after
  OBVIOUS
<1> HIDE DEF after
<1> QED
  BY <1>1, <1>2, <1>3 DEF Owns

LEMMA OwnsOpened ==
  ASSUME NEW owned, NEW windows, Owns(owned, windows), NEW v, v.job = 0
  PROVE  Owns(owned, windows \cup {v})
BY DEF Owns

LEMMA OwnsReplaced ==
  ASSUME NEW owned, NEW windows, Owns(owned, windows), NEW w \in windows, NEW v, v.job = w.job
  PROVE  Owns(owned, (windows \ {w}) \cup {v})
<1> DEFINE after == (windows \ {w}) \cup {v}
<1>1. \A x \in after : x = v \/ (x \in windows /\ x # w)
  OBVIOUS
<1>2. \A x \in windows : x = w \/ x \in after
  OBVIOUS
<1>3. v \in after
  OBVIOUS
<1> HIDE DEF after
<1> QED
  BY <1>1, <1>2, <1>3 DEF Owns

LEMMA OwnsClosed ==
  ASSUME NEW owned, NEW windows, Owns(owned, windows), 0 \notin owned,
         NEW w \in windows
  PROVE  Owns(IF w.job # 0 THEN owned \ {w.job} ELSE owned, windows \ {w})
<1> DEFINE after == windows \ {w}
           kept  == IF w.job # 0 THEN owned \ {w.job} ELSE owned
<1>1. \A x \in after : x \in windows /\ x # w
  OBVIOUS
<1>2. \A x \in windows : x = w \/ x \in after
  OBVIOUS
<1>3. \A i : i \in kept <=> i \in owned /\ (w.job # 0 => i # w.job)
  OBVIOUS
<1> HIDE DEF after, kept
<1>4. \A x \in after : x.job # 0 => x.job \in kept
  BY <1>1, <1>3 DEF Owns
<1>5. \A i \in kept : i # 0 => \E x \in after : x.job = i
  BY <1>2, <1>3 DEF Owns
<1>6. 0 \notin kept
  BY <1>3
<1> QED
  BY <1>1, <1>4, <1>5, <1>6 DEF Owns

LEMMA PlainOther ==
  ASSUME NEW windows, Plain(windows), NEW v, v.phase # "confirm", NEW w
  PROVE  Plain(windows \cup {v}) /\ Plain((windows \ {w}) \cup {v}) /\ Plain(windows \ {w})
<1>1. Plain(windows \cup {v})
  BY DEF Plain
<1>2. Plain((windows \ {w}) \cup {v})
  <2> DEFINE after == (windows \ {w}) \cup {v}
  <2>1. \A x \in after : x = v \/ x \in windows
    OBVIOUS
  <2> HIDE DEF after
  <2> QED
    BY <2>1 DEF Plain
<1>3. Plain(windows \ {w})
  BY DEF Plain
<1> QED
  BY <1>1, <1>2, <1>3

LEMMA AskedClaim ==
  ASSUME ScTyped, NEW prompts, NEW active, NEW said, NEW windows, Asked(reqs, prompts, active, said, windows),
         NEW r \in prompts \ active, r \in Reqs
  PROVE  Asked(reqs, prompts, active \cup {r}, said, windows \cup {Confirm(r)})
BY ConfirmFields DEF Asked

\* The prompt of r is gone, and its window.
Decides(prompts, said, r, d, after) ==
  \A q \in Reqs : after[q] = IF q = r /\ r \in prompts THEN d ELSE said[q]
WithoutPrompt(windows, r, left) ==
  /\ \A w \in windows : w.phase = "confirm" /\ w.prompt # r => w \in left
  /\ \A w \in left : w.phase = "confirm" => w \in windows /\ w.prompt # r

LEMMA AskedDrop ==
  ASSUME ScTyped, NEW prompts, prompts \subseteq Reqs, NEW active, NEW said, NEW windows,
         Asked(reqs, prompts, active, said, windows), NEW r, NEW d, NEW after, NEW left,
         Decides(prompts, said, r, d, after), WithoutPrompt(windows, r, left)
  PROVE  Asked(reqs, prompts \ {r}, active \ {r}, after, left)
<1>1. \A q \in active : q \in Reqs /\ Confirm(q).phase = "confirm" /\ Confirm(q).prompt = q
  BY ConfirmFields DEF Asked
<1> QED
  BY <1>1 DEF Asked, Decides, WithoutPrompt

\* Only windows of jobs come and go.
SamePrompts(windows, left) == \A w : w.phase = "confirm" => (w \in windows <=> w \in left)
LEMMA AskedSame ==
  ASSUME ScTyped, NEW prompts, prompts \subseteq Reqs, NEW active, NEW said, NEW windows,
         Asked(reqs, prompts, active, said, windows), NEW left, SamePrompts(windows, left)
  PROVE  Asked(reqs, prompts, active, said, left)
<1>1. \A q \in active : q \in Reqs /\ Confirm(q).phase = "confirm" /\ Confirm(q).prompt = q
  BY ConfirmFields DEF Asked
<1> QED
  BY <1>1 DEF Asked, SamePrompts

-----------------------------------------------------------------------------
(* The steps of a tick.                                                    *)

States == [b : BrRecs, u : UiRecs, opened : BOOLEAN]

LEMMA PollPromptKeeps ==
  ASSUME ScTyped, NEW s \in States, HudOk(s.b, s.u), NEW ok \in BOOLEAN
  PROVE  PollPrompt(s, ok) \in States /\ HudOk(PollPrompt(s, ok).b, PollPrompt(s, ok).u)
<1> DEFINE r == Head(Unclaimed(s.b))
           c == Claim(s.b)
           P == ToSet(s.b.prompts)
           W == s.u.windows
<1>0. /\ s.b \in BrRecs /\ s.u \in UiRecs /\ Plain(W) /\ Owns(s.b.owned, W) /\ Notes(s.b.waiting, W)
      /\ Asked(reqs, P, s.b.active, s.b.said, W) /\ Watched(ToSet(s.b.pending), s.b.watch, s.b.owned)
      /\ P \in SUBSET Reqs
  <2>1. s.b \in BrRecs /\ s.b.prompts \in Seq(Reqs)
    BY DEF HudOk, BrRecs
  <2> QED
    BY <2>1, EmptySet DEF HudOk
<1>1. CASE Unclaimed(s.b) = <<>>
  BY <1>1 DEF PollPrompt
<1>2. CASE Unclaimed(s.b) # <<>>
  <2>1. /\ r \in P \ s.b.active /\ r \in Reqs /\ c \in BrRecs /\ c.prompts = s.b.prompts
        /\ c.active = s.b.active \cup {r} /\ c.said = s.b.said /\ WindowsSame(s.b, c)
    BY <1>0, <1>2, ClaimFields
  <2>2. Confirm(r) \in WinRecs /\ Confirm(r).job = 0 /\ Confirm(r).prompt = r
    BY <2>1, ConfirmFields
  <2>3. CASE ok
    <3> DEFINE u == Opened(s.u, Confirm(r))
    <3>1. PollPrompt(s, ok) = [s EXCEPT !.b = c, !.u = u, !.opened = TRUE]
      BY <1>2, <2>3 DEF PollPrompt
    <3>2. u \in UiRecs /\ u.windows = W \cup {Confirm(r)}
      BY <1>0, <2>2, WindowFields
    <3>3. Plain(u.windows)
      BY <1>0, <2>1, <2>2, <3>2 DEF Plain
    <3>4. Owns(c.owned, u.windows)
      BY <1>0, <2>1, <2>2, <3>2, OwnsOpened DEF WindowsSame
    <3>5. Notes(c.waiting, u.windows)
      BY <1>0, <2>1, <3>2 DEF Notes, WindowsSame
    <3>6. Asked(reqs, ToSet(c.prompts), c.active, c.said, u.windows)
      BY <1>0, <2>1, <3>2, AskedClaim
    <3>7. Watched(ToSet(c.pending), c.watch, c.owned)
      BY <1>0, <2>1 DEF WindowsSame
    <3> HIDE DEF u, c
    <3>8. HudOk(c, u)
      BY <2>1, <3>2, <3>3, <3>4, <3>5, <3>6, <3>7 DEF HudOk
    <3> QED
      BY <2>1, <3>1, <3>2, <3>8 DEF States
  <2>4. CASE ~ok
    <3> DEFINE d == Resolve(c, r, "dismiss")
    <3>1. PollPrompt(s, ok) = [s EXCEPT !.b = d]
      BY <1>2, <2>4 DEF PollPrompt
    <3>2. /\ d \in BrRecs /\ ToSet(d.prompts) = P \ {r} /\ d.active = s.b.active \ {r}
          /\ \A q \in Reqs : d.said[q] = IF q = r /\ r \in P THEN "dismiss" ELSE s.b.said[q]
          /\ WindowsSame(c, d)
      <4> HIDE DEF c, r
      <4>1. c.active \subseteq ToSet(c.prompts)
        BY <1>0, <2>1 DEF Asked
      <4>2. c.active \ {r} = s.b.active \ {r}
        BY <2>1
      <4>3. Resolved(c, r, "dismiss", Resolve(c, r, "dismiss"))
        BY <2>1, <4>1, ResolveFields
      <4> HIDE DEF d
      <4> QED
        BY <2>1, <4>2, <4>3 DEF d, Resolved
    <3>3. \A w \in W : w.phase = "confirm" => w.prompt # r
      BY <1>0, <2>1 DEF Asked
    <3>4. Asked(reqs, ToSet(d.prompts), d.active, d.said, W)
      <4> HIDE DEF d, c, r, P, W
      <4>1. Decides(P, s.b.said, r, "dismiss", d.said) /\ WithoutPrompt(W, r, W)
        BY <3>2, <3>3 DEF Decides, WithoutPrompt
      <4>2. Asked(reqs, P \ {r}, s.b.active \ {r}, d.said, W)
        BY <1>0, <4>1, AskedDrop
      <4> QED
        BY <3>2, <4>2
    <3> HIDE DEF d, c
    <3>5. HudOk(d, s.u)
      BY <1>0, <2>1, <3>2, <3>4 DEF HudOk, WindowsSame
    <3> QED
      BY <3>1, <3>2, <3>5 DEF States
  <2> QED
    BY <2>3, <2>4
<1> QED
  BY <1>1, <1>2

\* A window is opened for a job that nobody owns.
LEMMA OpenJobKeeps ==
  ASSUME ScTyped, NEW b \in BrRecs, NEW u \in UiRecs, HudOk(b, u), NEW j \in Jobs, j \notin b.owned,
         NEW w \in WinRecs, w.job = j, w.phase # "confirm",
         NEW c \in BrRecs, PromptsSame(b, c), c.waiting = b.waiting, c.owned = b.owned \cup {j},
         Watched(ToSet(c.pending), c.watch, c.owned),
         NEW v \in UiRecs, v.windows = u.windows
  PROVE  Opened(v, w) \in UiRecs /\ HudOk(c, Opened(v, w))
<1>1. Opened(v, w) \in UiRecs /\ Opened(v, w).windows = u.windows \cup {w}
  BY WindowFields
<1>2. j # 0 /\ ToSet(b.prompts) \in SUBSET Reqs
  <2>1. b.prompts \in Seq(Reqs)
    BY DEF BrRecs
  <2> QED
    BY <2>1, EmptySet DEF Jobs
<1>a. Plain(u.windows \cup {w})
  BY PlainOther DEF HudOk
<1>b. Owns(c.owned, u.windows \cup {w})
  BY <1>2, OwnsAdded DEF HudOk
<1>4. Notes(c.waiting, u.windows \cup {w})
  BY DEF HudOk, Notes
<1>5. Asked(reqs, ToSet(c.prompts), c.active, c.said, u.windows \cup {w})
  <2>1. SamePrompts(u.windows, u.windows \cup {w})
    BY DEF SamePrompts
  <2>2. Asked(reqs, ToSet(b.prompts), b.active, b.said, u.windows \cup {w})
    BY <1>2, <2>1, AskedSame DEF HudOk
  <2> QED
    BY <2>2 DEF PromptsSame
<1> QED
  BY <1>1, <1>a, <1>b, <1>4, <1>5 DEF HudOk

\* The bridge and the UI change, but what the invariant looks at does not, or only for the better.
LEMMA QuietKeeps ==
  ASSUME NEW b \in BrRecs, NEW u \in UiRecs, HudOk(b, u),
         NEW c \in BrRecs, PromptsSame(b, c), c.waiting = b.waiting, c.owned = b.owned,
         Watched(ToSet(c.pending), c.watch, c.owned),
         NEW v \in UiRecs, v.windows = u.windows
  PROVE  HudOk(c, v)
BY DEF HudOk, PromptsSame

UrlsTyped == \A j \in Jobs : ui.jobs[j].url \in Urls \cup {"none"}

LEMMA PollProgressKeeps ==
  ASSUME ScTyped, UrlsTyped, NEW s \in States, HudOk(s.b, s.u), NEW ok \in BOOLEAN
  PROVE  PollProgress(s, ok) \in States /\ HudOk(PollProgress(s, ok).b, PollProgress(s, ok).u)
<1>0. s.b \in BrRecs /\ s.u \in UiRecs /\ s.b.watch \in Seq(Jobs) /\ s.u.watching \subseteq Jobs
      /\ s.u.jobs \in JobMaps
  BY DEF HudOk, BrRecs, UiRecs
<1>1. CASE s.opened
  BY <1>1 DEF PollProgress
<1>2. CASE ~s.opened
  <2> DEFINE u  == [s.u EXCEPT !.watching = @ \cup ToSet(s.b.watch)]
             b  == [s.b EXCEPT !.watch = <<>>]
             ready == Openable(b, KnownJobs(u.jobs), JobUrls(u.jobs))
             b1 == TakePending(b, KnownJobs(u.jobs), JobUrls(u.jobs))
             j  == Head(ready)
             over == u.jobs[j].st = "done"
  <2>1. u \in UiRecs /\ u.windows = s.u.windows /\ u.jobs = s.u.jobs
    <3>1. ToSet(s.b.watch) \subseteq Jobs
      BY <1>0, EmptySet
    <3> QED
      BY <1>0, <3>1 DEF UiRecs
  <2>2. b \in BrRecs /\ PromptsSame(s.b, b) /\ b.owned = s.b.owned /\ b.waiting = s.b.waiting
    <3>1. b \in BrRecs
      <4>1. <<>> \in Seq(Jobs)
        OBVIOUS
      <4> QED
        BY <1>0, <4>1 DEF BrRecs
    <3>2. PromptsSame(s.b, b) /\ b.owned = s.b.owned /\ b.waiting = s.b.waiting
      BY <1>0 DEF BrRecs, PromptsSame
    <3> QED
      BY <3>1, <3>2
  <2>3. /\ ready # <<>> => j \in Jobs /\ j \notin b.owned
        /\ b1 \in BrRecs /\ PromptsSame(b, b1) /\ b1.owned = b.owned /\ b1.waiting = b.waiting
        /\ ToSet(b1.pending) \cap b.owned = {}
    <3> HIDE DEF b
    <3> QED
      BY <2>2, TakePendingFields
  <2>4. Watched(ToSet(b1.pending), b1.watch, b1.owned) /\ PromptsSame(s.b, b1)
    <3> HIDE DEF b, b1
    <3> QED
      BY <2>2, <2>3 DEF Watched, PromptsSame
  <2>5. CASE ready = <<>> \/ ~ok
    <3>1. PollProgress(s, ok) = [s EXCEPT !.b = b1, !.u = u]
      BY <1>2, <2>5 DEF PollProgress
    <3> HIDE DEF u, b1, ready, b
    <3>2. HudOk(b1, u)
      BY <1>0, <2>1, <2>2, <2>3, <2>4, QuietKeeps
    <3> QED
      BY <2>1, <2>3, <3>1, <3>2 DEF States
  <2>6. CASE ready # <<>> /\ ok
    <3> DEFINE c == IF over THEN ClaimComplete(Own(b1, j), j) ELSE Own(b1, j)
               w == [JobWindow(IF over THEN "complete" ELSE "progress", j) EXCEPT !.url = u.jobs[j].url]
    <3>1. PollProgress(s, ok) = [s EXCEPT !.b = c, !.u = Opened(u, w), !.opened = TRUE]
      BY Zenon, <1>2, <2>6 DEF PollProgress
    <3> HIDE DEF u, b1, ready, b, j
    <3>2. w \in WinRecs /\ w.job = j /\ w.phase # "confirm"
      <4>1. u.jobs[j].url \in Urls \cup {"none"} /\ j \in Jobs
        BY <1>0, <2>1, <2>3, <2>6 DEF JobMaps, JobRecs, NoJob
      <4> QED
        BY <4>1, JobWindowFields DEF UrlsTyped
    <3>3. /\ c \in BrRecs /\ PromptsSame(b1, c) /\ c.owned = b1.owned \cup {j} /\ c.waiting = b1.waiting
          /\ ToSet(c.pending) = ToSet(b1.pending) \ {j}
      <4>1. LET o == Own(b1, j)
            IN o \in BrRecs /\ PromptsSame(b1, o) /\ o.owned = b1.owned \cup {j} /\ o.waiting = b1.waiting
               /\ ToSet(o.pending) = ToSet(b1.pending) \ {j}
        BY <2>3, <2>6, OwnFields
      <4> DEFINE o == Own(b1, j)
      <4> HIDE DEF o
      <4>2. ClaimComplete(o, j) \in BrRecs /\ PromptsSame(o, ClaimComplete(o, j)) /\ WindowsSame(o, ClaimComplete(o, j))
        BY <2>3, <2>6, <4>1, SmallFields DEF o
      <4>3. CASE over
        BY <4>1, <4>2, <4>3 DEF o, PromptsSame, WindowsSame
      <4>4. CASE ~over
        BY <4>1, <4>4 DEF o
      <4> QED
        BY <4>3, <4>4
    <3> HIDE DEF c, w
    <3>4. Watched(ToSet(c.pending), c.watch, c.owned)
      BY <2>3, <3>3 DEF Watched
    <3>5. PromptsSame(s.b, c)
      BY <2>4, <3>3 DEF PromptsSame
    <3>6. Opened(u, w) \in UiRecs /\ HudOk(c, Opened(u, w))
      <4>1. j \in Jobs /\ j \notin s.b.owned /\ c.owned = s.b.owned \cup {j} /\ c.waiting = s.b.waiting
        BY <2>2, <2>3, <2>6, <3>3
      <4> QED
        BY <1>0, <2>1, <3>2, <3>3, <3>4, <3>5, <4>1, OpenJobKeeps
    <3> QED
      BY <3>1, <3>3, <3>6 DEF States
  <2> QED
    BY <2>5, <2>6
<1> QED
  BY <1>1, <1>2

LEMMA JobsAreNumbers == Jobs \subseteq Nat /\ Jobs = 1..MaxJobs /\ MaxJobs \in Nat
BY MaxJobsAssumption DEF Jobs

LEMMA PollCompleteKeeps ==
  ASSUME ScTyped, UrlsTyped, NEW s \in States, HudOk(s.b, s.u), NEW ok \in BOOLEAN
  PROVE  PollComplete(s, ok) \in States /\ HudOk(PollComplete(s, ok).b, PollComplete(s, ok).u)
<1>0. s.b \in BrRecs /\ s.u \in UiRecs /\ s.u.watching \subseteq Jobs /\ s.u.jobs \in JobMaps
  BY SMTT(60) DEF HudOk, UiRecs
<1>1. CASE s.opened \/ ~sc.progress
  BY <1>1 DEF PollComplete
<1>2. CASE ~s.opened /\ sc.progress
  <2> DEFINE watched == {j \in s.u.watching : s.u.jobs[j].st \in {"active", "done"}}
             can == {j \in watched : s.u.jobs[j].st = "done" /\ j \notin s.b.owned /\ j \notin s.b.shown}
             j   == CHOOSE n \in can : \A m \in can : n <= m
  <2>1. \A left \in SUBSET Jobs :
          [s.u EXCEPT !.watching = left] \in UiRecs /\ [s.u EXCEPT !.watching = left].windows = s.u.windows
    BY <1>0 DEF UiRecs
  <2>2. watched \subseteq Jobs /\ can \subseteq Jobs /\ \A i \in can : i \notin s.b.owned
    BY <1>0
  <2>3. CASE can = {} \/ ~ok
    <3> DEFINE u == [s.u EXCEPT !.watching = watched]
    <3>1. PollComplete(s, ok) = [s EXCEPT !.u = u]
      <4>1. PollComplete(s, ok) = [s EXCEPT !.u.watching = watched]
        BY Zenon, <1>2, <2>3 DEF PollComplete
      <4> QED
        BY <1>0, <4>1 DEF States
    <3>2. u \in UiRecs /\ u.windows = s.u.windows
      BY <2>1, <2>2
    <3> HIDE DEF u
    <3>3. HudOk(s.b, u)
      <4>1. PromptsSame(s.b, s.b) /\ Watched(ToSet(s.b.pending), s.b.watch, s.b.owned)
        BY DEF PromptsSame, HudOk
      <4> QED
        BY <1>0, <3>2, <4>1, QuietKeeps
    <3> QED
      BY <1>0, <3>1, <3>2, <3>3 DEF States
  <2>4. CASE can # {} /\ ok
    <3> DEFINE c == Own(ClaimComplete(s.b, j), j)
               u == [s.u EXCEPT !.watching = watched \ {j}]
               w == [JobWindow("complete", j) EXCEPT !.url = s.u.jobs[j].url]
    <3>1. PollComplete(s, ok) = [s EXCEPT !.b = c, !.u = Opened(u, w)]
      <4>1. PollComplete(s, ok) =
              [s EXCEPT !.b = Own(ClaimComplete(@, j), j),
                        !.u = Opened([@ EXCEPT !.watching = watched \ {j}],
                                     [JobWindow("complete", j) EXCEPT !.url = s.u.jobs[j].url])]
        BY Zenon, <1>2, <2>4 DEF PollComplete
      <4> HIDE DEF watched, j
      <4> QED
        BY <4>1 DEF States
    <3>2. j \in can /\ j \in Jobs /\ j \notin s.b.owned
      <4>1. can \subseteq Nat /\ can # {}
        BY <2>2, <2>4, JobsAreNumbers
      <4> HIDE DEF can
      <4>2. \E n \in can : \A m \in can : n <= m
        BY <4>1, Least
      <4> QED
        BY <2>2, <4>2
    <3> HIDE DEF j
    <3>3. u \in UiRecs /\ u.windows = s.u.windows
      <4>1. watched \ {j} \in SUBSET Jobs
        BY <2>2
      <4> HIDE DEF watched
      <4> QED
        BY <2>1, <4>1
    <3>4. w \in WinRecs /\ w.job = j /\ w.phase # "confirm"
      <4>1. s.u.jobs[j].url \in Urls \cup {"none"}
        BY <1>0, <3>2 DEF JobMaps, JobRecs, NoJob
      <4> QED
        BY <3>2, <4>1, JobWindowFields DEF UrlsTyped
    <3>5. /\ c \in BrRecs /\ PromptsSame(s.b, c) /\ c.owned = s.b.owned \cup {j} /\ c.waiting = s.b.waiting
          /\ ToSet(c.pending) = ToSet(s.b.pending) \ {j} /\ c.watch = s.b.watch
      <4> DEFINE o == ClaimComplete(s.b, j)
      <4>1. o \in BrRecs /\ PromptsSame(s.b, o) /\ WindowsSame(s.b, o)
        BY <1>0, <3>2, SmallFields
      <4> HIDE DEF o
      <4>2. LET e == Own(o, j)
            IN e \in BrRecs /\ PromptsSame(o, e) /\ e.watch = o.watch /\ e.owned = o.owned \cup {j}
               /\ ToSet(e.pending) = ToSet(o.pending) \ {j} /\ e.waiting = o.waiting
        BY <3>2, <4>1, OwnFields
      <4> QED
        BY <4>1, <4>2 DEF o, PromptsSame, WindowsSame
    <3> HIDE DEF c, u, w
    <3>6. Watched(ToSet(c.pending), c.watch, c.owned)
      BY <3>5 DEF Watched, HudOk
    <3>7. Opened(u, w) \in UiRecs /\ HudOk(c, Opened(u, w))
      BY <1>0, <3>2, <3>3, <3>4, <3>5, <3>6, OpenJobKeeps
    <3> QED
      BY <3>1, <3>5, <3>7 DEF States
  <2> QED
    BY <2>3, <2>4
<1> QED
  BY <1>1, <1>2

LEMMA PollShowKeeps ==
  ASSUME NEW s \in States, HudOk(s.b, s.u)
  PROVE  PollShow(s) \in States /\ HudOk(PollShow(s).b, PollShow(s).u)
<1>0. s.b \in BrRecs /\ s.u \in UiRecs
  BY DEF HudOk
<1>1. CASE s.b.show
  <2> DEFINE u == [s.u EXCEPT !.hidden = FALSE]
             c == TakeShow(s.b)
  <2>1. PollShow(s) = [s EXCEPT !.b = c, !.u = u]
    BY <1>0, <1>1 DEF PollShow, States
  <2>2. u \in UiRecs /\ u.windows = s.u.windows
    BY <1>0 DEF UiRecs
  <2>3. c \in BrRecs /\ PromptsSame(s.b, c) /\ c.watch = s.b.watch /\ c.pending = s.b.pending
        /\ c.owned = s.b.owned /\ c.waiting = s.b.waiting
    BY <1>0, SmallFields
  <2> HIDE DEF u, c
  <2>4. HudOk(c, u)
    <3>1. Watched(ToSet(c.pending), c.watch, c.owned)
      BY <2>3 DEF HudOk
    <3> QED
      BY <1>0, <2>2, <2>3, <3>1, QuietKeeps
  <2> QED
    BY <2>1, <2>2, <2>3, <2>4 DEF States
<1>2. CASE ~s.b.show
  BY <1>2 DEF PollShow
<1> QED
  BY <1>1, <1>2

LEMMA SameFrame ==
  ASSUME UNCHANGED <<sc, reqs, orphans>>, NEW b, NEW u, HudOk(b, u), br' = b, ui' = u
  PROVE  HudOk(br, ui)'
BY DEF HudOk, Plain, Owns, Notes, Asked, Watched, Confirm

LEMMA UiFields == ASSUME ui \in UiRecs PROVE UrlsTyped
BY DEF UiRecs, JobMaps, JobRecs, NoJob, UrlsTyped

LEMMA TickKeeps ==
  ASSUME ScTyped, HudOk(br, ui), Tick
  PROVE  HudOk(br, ui)' /\ (ui'.parked => ~HasPendingWork(br'))
<1>0. br \in BrRecs /\ ui \in UiRecs /\ UrlsTyped
  BY UiFields DEF HudOk
<1>a. PICK ok \in BOOLEAN :
        \E s \in TickResult(ok) : br' = s.b /\ ui' = [s.u EXCEPT !.parked = ShouldPark(s)]
  BY DEF Tick
<1>1. PICK s \in TickResult(ok) : br' = s.b /\ ui' = [s.u EXCEPT !.parked = ShouldPark(s)]
  BY <1>a
<1> DEFINE start == [b |-> br, u |-> ApplyHeld(ui), opened |-> FALSE]
           s1 == PollPrompt(start, ok)
           s2 == PollProgress(s1, ok)
           s3 == PollComplete(s2, ok)
<1>2. s = PollShow(s3)
  BY DEF TickResult
<1>3. start \in States /\ HudOk(start.b, start.u)
  <2>1. ApplyHeld(ui) \in UiRecs /\ ApplyHeld(ui).windows = ui.windows
    BY <1>0 DEF ApplyHeld, UiRecs
  <2>2. HudOk(br, ApplyHeld(ui))
    <3>1. PromptsSame(br, br) /\ Watched(ToSet(br.pending), br.watch, br.owned)
      BY DEF PromptsSame, HudOk
    <3> QED
      BY <1>0, <2>1, <3>1, QuietKeeps
  <2> QED
    BY <1>0, <2>1, <2>2 DEF States
<1> HIDE DEF start
<1>4. s1 \in States /\ HudOk(s1.b, s1.u)
  BY <1>3, PollPromptKeeps
<1> HIDE DEF s1
<1>5. s2 \in States /\ HudOk(s2.b, s2.u)
  BY <1>0, <1>4, PollProgressKeeps
<1> HIDE DEF s2
<1>6. s3 \in States /\ HudOk(s3.b, s3.u)
  BY <1>0, <1>5, PollCompleteKeeps
<1> HIDE DEF s3
<1>7. s \in States /\ HudOk(s.b, s.u)
  BY <1>2, <1>6, PollShowKeeps
<1>8. PICK p \in BOOLEAN : p = ShouldPark(s)
  BY DEF ShouldPark
<1>9. ui' = [s.u EXCEPT !.parked = p] /\ s.u \in UiRecs /\ s.b \in BrRecs
  BY <1>1, <1>7, <1>8 DEF States
<1>10. ui' \in UiRecs /\ ui'.windows = s.u.windows /\ ui'.parked = p
  BY <1>9 DEF UiRecs
<1>11. HudOk(br, ui)'
  <2>1. PromptsSame(s.b, s.b) /\ Watched(ToSet(s.b.pending), s.b.watch, s.b.owned)
    BY <1>7 DEF PromptsSame, HudOk
  <2>2. [s.u EXCEPT !.parked = p] \in UiRecs /\ [s.u EXCEPT !.parked = p].windows = s.u.windows
    BY <1>9 DEF UiRecs
  <2> DEFINE u == [s.u EXCEPT !.parked = p]
  <2> HIDE DEF u
  <2>3. HudOk(s.b, u)
    <3>1. u \in UiRecs /\ u.windows = s.u.windows
      BY <2>2 DEF u
    <3> QED
      BY <1>7, <1>9, <2>1, <3>1, QuietKeeps
  <2>4. br' = s.b /\ ui' = u
    BY <1>1, <1>9 DEF u
  <2>5. UNCHANGED <<sc, reqs, orphans>>
    BY DEF Tick, outside
  <2> QED
    BY <2>3, <2>4, <2>5, SameFrame
<1>12. HudOk(br, ui)'
  BY <1>11
<1>13. ui'.parked => ~HasPendingWork(br')
  BY <1>1, <1>8, <1>10 DEF ShouldPark
<1> QED
  BY <1>12, <1>13

-----------------------------------------------------------------------------
(* A parked loop.                                                          *)

Awake(b, u) == u.parked /\ HasPendingWork(b) => b.wake

\* Work that a tick would find.
Work(b) == b.show \/ ~(ToSet(b.prompts) \subseteq b.active) \/ b.watch # <<>> \/ ~(ToSet(b.pending) \subseteq b.owned)

LEMMA PendingWork == ASSUME NEW b \in BrRecs PROVE HasPendingWork(b) <=> Work(b)
<1>0. b.prompts \in Seq(Reqs) /\ b.pending \in Seq(Jobs)
  BY DEF BrRecs
<1>1. Unclaimed(b) \in Seq(Reqs) /\ ToSet(Unclaimed(b)) = ToSet(b.prompts) \ b.active
  BY <1>0, Dropped DEF Unclaimed
<1>2. Unowned(b) \in Seq(Jobs) /\ ToSet(Unowned(b)) = ToSet(b.pending) \ b.owned
  BY <1>0, Dropped DEF Unowned
<1>3. (Unclaimed(b) = <<>> <=> ToSet(b.prompts) \subseteq b.active)
      /\ (Unowned(b) = <<>> <=> ToSet(b.pending) \subseteq b.owned)
  BY <1>1, <1>2, EmptySet
<1> QED
  BY <1>3 DEF HasPendingWork, Work

LEMMA StillAwake ==
  ASSUME NEW b \in BrRecs, NEW u, Awake(b, u), NEW c \in BrRecs, NEW v,
         v.parked = u.parked, c.wake = b.wake, Work(c) => Work(b)
  PROVE  Awake(c, v)
BY PendingWork DEF Awake

HudGood(b, u) == HudOk(b, u) /\ Awake(b, u)

LEMMA HudStep ==
  ASSUME UNCHANGED <<sc, reqs, orphans>>, NEW b, NEW u, HudGood(b, u), br' = b, ui' = u
  PROVE  HudGood(br, ui)'
<1>1. HudOk(br, ui)'
  BY SameFrame DEF HudGood
<1>2. Awake(br, ui)'
  BY DEF HudGood, Awake
<1> QED
  BY <1>1, <1>2 DEF HudGood

\* What a window's job leaves, and what a window leaves that closes.
LEMMA WindowKeeps ==
  ASSUME ScTyped, NEW b, NEW u, HudOk(b, u), NEW w \in u.windows, w.phase # "confirm",
         NEW v \in WinRecs, v.phase # "confirm",
         NEW left, left = (u.windows \ {w}) \cup {v} \/ left = u.windows \ {w},
         NEW c \in BrRecs, PromptsSame(b, c), Owns(c.owned, left), Notes(c.waiting, left),
         Watched(ToSet(c.pending), c.watch, c.owned),
         NEW x \in UiRecs, x.windows = left
  PROVE  HudOk(c, x)
<1>1. Plain(left)
  <2>1. Plain(u.windows)
    BY DEF HudOk
  <2>2. Plain((u.windows \ {w}) \cup {v}) /\ Plain(u.windows \ {w})
    BY <2>1, PlainOther
  <2> QED
    BY <2>2
<1>2. SamePrompts(u.windows, left)
  <2>1. CASE left = (u.windows \ {w}) \cup {v}
    BY <2>1 DEF SamePrompts
  <2>2. CASE left = u.windows \ {w}
    BY <2>2 DEF SamePrompts
  <2> QED
    BY <2>1, <2>2
<1>3. Asked(reqs, ToSet(c.prompts), c.active, c.said, left)
  <2>1. ToSet(b.prompts) \in SUBSET Reqs
    <3>1. b.prompts \in Seq(Reqs)
      BY DEF HudOk, BrRecs
    <3> QED
      BY <3>1, EmptySet
  <2>2. Asked(reqs, ToSet(b.prompts), b.active, b.said, left)
    BY <1>2, <2>1, AskedSame DEF HudOk
  <2> QED
    BY <2>2 DEF PromptsSame
<1> QED
  BY <1>1, <1>3 DEF HudOk

LEMMA ConfirmGone ==
  ASSUME ScTyped, NEW b, NEW u, HudOk(b, u), NEW w \in u.windows, w.phase = "confirm",
         NEW d \in {"accept", "dismiss"}
  PROVE  /\ w.prompt \in Reqs /\ w = Confirm(w.prompt)
         /\ LET c == Resolve(b, w.prompt, d)
            IN /\ c \in BrRecs /\ WindowsSame(b, c) /\ c.wake = b.wake /\ (Work(c) => Work(b))
               /\ \A left : WithoutPrompt(u.windows, w.prompt, left)
                            => Asked(reqs, ToSet(c.prompts), c.active, c.said, left)
<1>1. w.prompt \in Reqs /\ w = Confirm(w.prompt)
  BY DEF HudOk, Plain
<1> DEFINE r == w.prompt
           c == Resolve(b, r, d)
<1>2. b \in BrRecs /\ b.active \subseteq ToSet(b.prompts) /\ ToSet(b.prompts) \in SUBSET Reqs
  <2>1. b.prompts \in Seq(Reqs)
    BY DEF HudOk, BrRecs
  <2> QED
    BY <2>1, EmptySet DEF HudOk, Asked
<1>r. r \in Reqs
  BY <1>1
<1> HIDE DEF r
<1>3. /\ c \in BrRecs /\ ToSet(c.prompts) = ToSet(b.prompts) \ {r} /\ c.active = b.active \ {r}
      /\ (\A q \in Reqs : c.said[q] = IF q = r /\ r \in ToSet(b.prompts) THEN d ELSE b.said[q])
      /\ WindowsSame(b, c) /\ c.wake = b.wake
  <2>1. Resolved(b, r, d, Resolve(b, r, d))
    BY <1>r, <1>2, ResolveFields
  <2> QED
    BY <2>1 DEF Resolved
<1> HIDE DEF c
<1>4. Work(c) => Work(b)
  BY <1>3 DEF Work, WindowsSame
<1>5. ASSUME NEW left, WithoutPrompt(u.windows, r, left)
      PROVE  Asked(reqs, ToSet(c.prompts), c.active, c.said, left)
  <2>1. Decides(ToSet(b.prompts), b.said, r, d, c.said)
    BY <1>3 DEF Decides
  <2>2. Asked(reqs, ToSet(b.prompts) \ {r}, b.active \ {r}, c.said, left)
    BY <1>2, <1>5, <2>1, AskedDrop DEF HudOk
  <2> QED
    BY <1>3, <2>2
<1> QED
  BY <1>1, <1>3, <1>4, <1>5 DEF c, r

-----------------------------------------------------------------------------
(* The UI's own steps.                                                     *)

LEMMA PromptsTyped == ASSUME NEW b \in BrRecs PROVE ToSet(b.prompts) \in SUBSET Reqs /\ 0 \notin b.owned
<1>1. b.prompts \in Seq(Reqs) /\ b.owned \subseteq Jobs /\ 0 \notin Jobs
  BY DEF BrRecs, Jobs
<1> QED
  BY <1>1, EmptySet

LEMMA JobsEventKeeps ==
  ASSUME AppTyped, HudGood(br, ui), JobsEvent PROVE HudGood(br, ui)'
<1>1. br \in BrRecs /\ ui \in UiRecs /\ app.jobs \in JobMaps
  BY DEF HudGood, HudOk, AppTyped, AppRecs
<1>2. PICK u \in UiRecs : u.windows = ui.windows /\ ui' = u
  <2>1. [ui EXCEPT !.latest = app.jobs, !.jobs = app.jobs] \in UiRecs
        /\ [ui EXCEPT !.latest = app.jobs, !.jobs = app.jobs].windows = ui.windows
    BY <1>1 DEF UiRecs
  <2>2. [ui EXCEPT !.latest = app.jobs, !.held = TRUE, !.later = app.jobs] \in UiRecs
        /\ [ui EXCEPT !.latest = app.jobs, !.held = TRUE, !.later = app.jobs].windows = ui.windows
    BY <1>1 DEF UiRecs
  <2> QED
    BY Zenon, <2>1, <2>2 DEF JobsEvent
<1> DEFINE c == WakeUi(br)
<1>3. c \in BrRecs /\ PromptsSame(br, c) /\ WindowsSame(br, c) /\ c.wake
  BY <1>1, SmallFields
<1>4. br' = c /\ UNCHANGED <<sc, reqs, orphans>>
  BY DEF JobsEvent, outside
<1> HIDE DEF c
<1>5. HudOk(c, u)
  <2>1. HudOk(br, ui)
    BY DEF HudGood
  <2>2. Watched(ToSet(c.pending), c.watch, c.owned) /\ c.waiting = br.waiting /\ c.owned = br.owned
    BY <1>3, <2>1 DEF HudOk, WindowsSame
  <2> QED
    BY <1>1, <1>2, <1>3, <2>1, <2>2, QuietKeeps
<1>6. HudGood(c, u)
  BY <1>3, <1>5 DEF HudGood, Awake
<1> QED
  BY <1>2, <1>4, <1>6, HudStep

LEMMA WakeKeeps ==
  ASSUME HudGood(br, ui), Wake PROVE HudGood(br, ui)'
<1>1. br \in BrRecs /\ ui \in UiRecs /\ HudOk(br, ui)
  BY DEF HudGood, HudOk
<1> DEFINE c == [br EXCEPT !.wake = FALSE]
           u == [ui EXCEPT !.parked = FALSE]
<1>2. c \in BrRecs /\ c.pending = br.pending /\ c.watch = br.watch /\ c.owned = br.owned /\ c.waiting = br.waiting
  BY <1>1 DEF BrRecs
<1>3. PromptsSame(br, c)
  BY <1>1 DEF BrRecs, PromptsSame
<1>4. u \in UiRecs /\ u.windows = ui.windows /\ ~u.parked
  BY <1>1 DEF UiRecs
<1>5. br' = c /\ ui' = u /\ UNCHANGED <<sc, reqs, orphans>>
  BY DEF Wake, outside
<1> HIDE DEF c, u
<1>6. HudOk(c, u)
  <2>1. Watched(ToSet(c.pending), c.watch, c.owned)
    BY <1>1, <1>2 DEF HudOk
  <2> QED
    BY <1>1, <1>2, <1>3, <1>4, <2>1, QuietKeeps
<1>7. HudGood(c, u)
  BY <1>4, <1>6 DEF HudGood, Awake
<1> QED
  BY <1>5, <1>7, HudStep

LEMMA ShowKeeps ==
  ASSUME HudGood(br, ui), ShowFromTray PROVE HudGood(br, ui)'
<1>1. br \in BrRecs /\ ui \in UiRecs /\ HudOk(br, ui)
  BY DEF HudGood, HudOk
<1> DEFINE c == WakeUi(br)
           u == [ui EXCEPT !.hidden = FALSE]
<1>2. c \in BrRecs /\ PromptsSame(br, c) /\ WindowsSame(br, c) /\ c.wake
  BY <1>1, SmallFields
<1>3. u \in UiRecs /\ u.windows = ui.windows
  BY <1>1 DEF UiRecs
<1>4. br' = c /\ ui' = u /\ UNCHANGED <<sc, reqs, orphans>>
  BY DEF ShowFromTray, outside
<1> HIDE DEF c, u
<1>5. HudOk(c, u)
  <2>1. Watched(ToSet(c.pending), c.watch, c.owned) /\ c.waiting = br.waiting /\ c.owned = br.owned
    BY <1>1, <1>2 DEF HudOk, WindowsSame
  <2> QED
    BY <1>1, <1>2, <1>3, <2>1, QuietKeeps
<1>6. HudGood(c, u)
  BY <1>2, <1>5 DEF HudGood, Awake
<1> QED
  BY <1>4, <1>6, HudStep

LEMMA PopupKeeps ==
  ASSUME ScTyped, HudGood(br, ui), OpenPopup PROVE HudGood(br, ui)'
<1>1. br \in BrRecs /\ ui \in UiRecs /\ HudOk(br, ui)
  BY DEF HudGood, HudOk
<1>2. PICK j \in ActiveJobs(ui.jobs) :
        j \notin br.owned /\ br' = Own(br, j) /\ ui' = Opened(ui, JobWindow("progress", j))
        /\ UNCHANGED <<sc, reqs, orphans>>
  BY DEF OpenPopup, outside
<1>3. j \in Jobs
  BY <1>2 DEF ActiveJobs
<1> DEFINE w == JobWindow("progress", j)
           c == Own(br, j)
           u == Opened(ui, w)
<1>4. w \in WinRecs /\ w.job = j /\ w.phase # "confirm"
  <2>1. ui.jobs[j].url \in Urls \cup {"none"}
    BY <1>1, <1>3, UiFields DEF UrlsTyped
  <2> QED
    BY <1>3, <2>1, JobWindowFields
<1> HIDE DEF w
<1>5. /\ c \in BrRecs /\ PromptsSame(br, c) /\ c.watch = br.watch /\ c.owned = br.owned \cup {j}
      /\ ToSet(c.pending) = ToSet(br.pending) \ {j} /\ c.waiting = br.waiting /\ c.show = br.show /\ c.wake = br.wake
  <2>1. LET e == Own(br, j)
        IN e \in BrRecs /\ PromptsSame(br, e) /\ e.watch = br.watch /\ e.owned = br.owned \cup {j}
           /\ ToSet(e.pending) = ToSet(br.pending) \ {j} /\ e.waiting = br.waiting /\ e.show = br.show
           /\ e.wake = br.wake
    BY <1>1, <1>3, OwnFields
  <2> QED
    BY <2>1
<1> HIDE DEF c
<1>6. u \in UiRecs /\ HudOk(c, u)
  <2>1. Watched(ToSet(c.pending), c.watch, c.owned)
    BY <1>1, <1>5 DEF HudOk, Watched
  <2> QED
    BY <1>1, <1>2, <1>3, <1>4, <1>5, <2>1, OpenJobKeeps
<1>7. u.parked = ui.parked
  BY <1>1, <1>4, WindowFields DEF Shell
<1> HIDE DEF u
<1>8. HudGood(c, u)
  <2>1. Work(c) => Work(br)
    BY <1>5 DEF Work, PromptsSame
  <2>2. Awake(br, ui)
    BY DEF HudGood
  <2>3. Awake(c, u)
    BY <1>1, <1>5, <1>7, <2>1, <2>2, StillAwake
  <2> QED
    BY <1>6, <2>3 DEF HudGood
<1>9. br' = c /\ ui' = u
  BY <1>2 DEF c, u, w
<1> QED
  BY <1>2, <1>8, <1>9, HudStep

\* The windows are gone, and their prompts with them.
LEMMA HideKeeps ==
  ASSUME HudGood(br, ui), Hide PROVE HudGood(br, ui)'
<1>1. br \in BrRecs /\ ui \in UiRecs /\ HudOk(br, ui)
  BY DEF HudGood, HudOk
<1>2. br.active \subseteq ToSet(br.prompts) /\ ToSet(br.prompts) \in SUBSET Reqs
  BY <1>1, PromptsTyped DEF HudOk, Asked
<1> DEFINE c == RequestCloseWindows(br)
           u == [ui EXCEPT !.hidden = TRUE, !.watching = {}, !.windows = {}]
<1>3. /\ c \in BrRecs /\ ToSet(c.prompts) = ToSet(br.prompts) \ br.active /\ c.active = {}
      /\ (\A q \in Reqs : c.said[q] = IF q \in br.active THEN "dismiss" ELSE br.said[q])
      /\ c.watch = br.watch /\ c.pending = br.pending
      /\ c.owned = {} /\ c.waiting = br.waiting /\ c.show = br.show /\ c.wake = br.wake
  BY <1>1, <1>2, RequestCloseFields
<1>4. u \in UiRecs /\ u.windows = {} /\ u.parked = ui.parked
  BY <1>1 DEF UiRecs
<1>5. br' = c /\ ui' = u /\ UNCHANGED <<sc, reqs>>
      /\ orphans' = orphans \cup {w.url : w \in {v \in ui.windows : v.noted}}
  BY DEF Hide, outside
<1> HIDE DEF c, u
<1>6. Plain(u.windows) /\ Owns(c.owned, u.windows) /\ Watched(ToSet(c.pending), c.watch, c.owned)
  BY <1>3, <1>4 DEF Plain, Owns, Watched
<1>7. Asked(reqs, ToSet(c.prompts), c.active, c.said, u.windows)
  BY <1>1, <1>2, <1>3, <1>4 DEF HudOk, Asked
<1>8. \A x \in c.waiting : x \in orphans'
  BY <1>1, <1>3, <1>5 DEF HudOk, Notes
<1>9. HudOk(br, ui)'
  BY <1>3, <1>4, <1>5, <1>6, <1>7, <1>8 DEF HudOk, Notes, Plain, Asked, Owns, Watched, Confirm
<1>10. Awake(br, ui)'
  <2>1. Work(c) => Work(br)
    BY <1>1, <1>3 DEF Work, HudOk, Watched
  <2>2. Awake(br, ui)
    BY DEF HudGood
  <2>3. Awake(c, u)
    BY <1>1, <1>3, <1>4, <2>1, <2>2, StillAwake
  <2> QED
    BY <1>5, <2>3 DEF Awake
<1> QED
  BY <1>9, <1>10 DEF HudGood

-----------------------------------------------------------------------------
(* The windows of the user.                                                *)

LEMMA ConfirmWindow ==
  ASSUME ScTyped, NEW r \in Reqs
  PROVE  LET w == Confirm(r) v == [w EXCEPT !.phase = "progress", !.noted = TRUE]
         IN v \in WinRecs /\ v.phase = "progress" /\ v.noted /\ v.url = w.url /\ v.job = 0
<1>1. Confirm(r) \in WinRecs /\ Confirm(r).job = 0
  BY ConfirmFields
<1> DEFINE w == Confirm(r)
<1> HIDE DEF w
<1> QED
  BY <1>1 DEF WinRecs, w

\* A Confirm window closes with its prompt.
LEMMA ConfirmCloses ==
  ASSUME ScTyped, HudGood(br, ui), NEW w \in ui.windows, w.phase = "confirm", NEW d \in {"accept", "dismiss"},
         br' = Resolve(br, w.prompt, d), ui' = Closed(ui, w), UNCHANGED <<sc, reqs, orphans>>
  PROVE  HudGood(br, ui)'
<1>1. br \in BrRecs /\ ui \in UiRecs /\ HudOk(br, ui) /\ w \in WinRecs
      /\ Plain(ui.windows) /\ Owns(br.owned, ui.windows) /\ Notes(br.waiting, ui.windows)
      /\ Watched(ToSet(br.pending), br.watch, br.owned)
  BY DEF HudGood, HudOk, UiRecs
<1> DEFINE r == w.prompt
           b == Resolve(br, r, d)
           u == Closed(ui, w)
           left == ui.windows \ {w}
<1>2. /\ r \in Reqs /\ w = Confirm(r)
      /\ b \in BrRecs /\ WindowsSame(br, b) /\ b.wake = br.wake /\ (Work(b) => Work(br))
      /\ \A some : WithoutPrompt(ui.windows, r, some)
                   => Asked(reqs, ToSet(b.prompts), b.active, b.said, some)
  BY <1>1, ConfirmGone
<1>3. w.job = 0 /\ ~w.noted
  BY <1>1, <1>2, ConfirmFields
<1>4. br' = b /\ ui' = u
  OBVIOUS
<1> HIDE DEF b
<1>5. u \in UiRecs /\ u.windows = left /\ u.parked = ui.parked
  BY <1>1, WindowFields DEF Shell
<1> HIDE DEF u
<1>6. Plain(left) /\ Notes(b.waiting, left)
  BY <1>1, <1>2, <1>3 DEF Plain, Notes, WindowsSame
<1>7. Owns(b.owned, left)
  <2>1. Owns(IF w.job # 0 THEN br.owned \ {w.job} ELSE br.owned, ui.windows \ {w})
    BY <1>1, PromptsTyped, OwnsClosed
  <2> QED
    BY <1>2, <1>3, <2>1 DEF WindowsSame
<1>8. Asked(reqs, ToSet(b.prompts), b.active, b.said, left)
  <2>1. WithoutPrompt(ui.windows, r, left)
    BY <1>1, <1>2 DEF WithoutPrompt, Plain
  <2> QED
    BY <1>2, <2>1
<1>9. Watched(ToSet(b.pending), b.watch, b.owned)
  BY <1>1, <1>2 DEF WindowsSame
<1>10. HudOk(b, u)
  BY <1>2, <1>5, <1>6, <1>7, <1>8, <1>9 DEF HudOk
<1>11. Awake(b, u)
  <2>1. Awake(br, ui)
    BY DEF HudGood
  <2> QED
    BY <1>1, <1>2, <1>5, <2>1, StillAwake
<1> QED
  BY <1>4, <1>10, <1>11, HudStep DEF HudGood

LEMMA AcceptKeeps ==
  ASSUME ScTyped, HudGood(br, ui), NEW w \in ui.windows, AcceptPrompt(w) PROVE HudGood(br, ui)'
<1>1. br \in BrRecs /\ ui \in UiRecs /\ HudOk(br, ui) /\ w \in WinRecs /\ w.phase = "confirm"
      /\ Plain(ui.windows) /\ Owns(br.owned, ui.windows) /\ Notes(br.waiting, ui.windows)
      /\ Watched(ToSet(br.pending), br.watch, br.owned)
  BY DEF HudGood, HudOk, UiRecs, AcceptPrompt
<1> DEFINE r == w.prompt
           b == Resolve(br, r, "accept")
<1>2. /\ r \in Reqs /\ w = Confirm(r)
      /\ b \in BrRecs /\ WindowsSame(br, b) /\ b.wake = br.wake /\ (Work(b) => Work(br))
      /\ \A left : WithoutPrompt(ui.windows, r, left)
                   => Asked(reqs, ToSet(b.prompts), b.active, b.said, left)
  BY <1>1, ConfirmGone
<1>3. w.url \in Urls \cup {"none"} /\ w.job = 0 /\ ~w.noted /\ UNCHANGED <<sc, reqs, orphans>>
  BY <1>1, <1>2, ConfirmFields DEF AcceptPrompt, outside, WinRecs
<1>4. \A x \in ui.windows : x.phase = "confirm" /\ x.prompt = r => x = w
  BY <1>1, <1>2 DEF Plain
<1>5. \A x \in ui.windows : x.noted => x # w
  BY <1>3
<1>6. CASE sc.progress
  <2> DEFINE v == [w EXCEPT !.phase = "progress", !.noted = TRUE]
             c == NoteWaiting(b, w.url)
             u == Replaced(ui, w, v)
             left == (ui.windows \ {w}) \cup {v}
  <2>1. br' = c /\ ui' = u
    BY <1>6 DEF AcceptPrompt
  <2>2. v \in WinRecs /\ v.phase = "progress" /\ v.noted /\ v.url = w.url /\ v.job = w.job
    BY <1>2, <1>3, ConfirmWindow
  <2> HIDE DEF b, v
  <2>3. u \in UiRecs /\ u.windows = left /\ u.parked = ui.parked
    <3>1. /\ Replaced(ui, w, v) \in UiRecs /\ Shell(ui, Replaced(ui, w, v))
          /\ Replaced(ui, w, v).windows = (ui.windows \ {w}) \cup {v}
      BY SMTT(60), <1>1, <2>2, WindowFields
    <3> QED
      BY <3>1 DEF Shell
  <2>4. c \in BrRecs /\ PromptsSame(b, c) /\ c.watch = b.watch /\ c.pending = b.pending
        /\ c.owned = b.owned /\ c.waiting = b.waiting \cup {w.url} /\ c.show = b.show /\ c.wake = b.wake
    BY <1>2, <1>3, WaitingFields
  <2> HIDE DEF c, u
  <2>5. Plain(left)
    <3>1. Plain((ui.windows \ {w}) \cup {v})
      BY <1>1, <2>2, PlainOther
    <3> QED
      BY <3>1
  <2>6. Owns(c.owned, left)
    BY <1>1, <1>2, <2>2, <2>4, OwnsReplaced DEF WindowsSame
  <2>7. \A x : x \in left <=> x = v \/ (x \in ui.windows /\ x # w)
    OBVIOUS
  <2> HIDE DEF left
  <2>8. Notes(c.waiting, left)
    BY <1>1, <1>2, <1>5, <2>2, <2>4, <2>7 DEF Notes, WindowsSame
  <2>9. WithoutPrompt(ui.windows, r, left)
    BY <1>2, <1>4, <2>2, <2>7 DEF WithoutPrompt
  <2>10. Asked(reqs, ToSet(c.prompts), c.active, c.said, left)
    BY <1>2, <2>4, <2>9 DEF PromptsSame
  <2>11. Watched(ToSet(c.pending), c.watch, c.owned)
    BY <1>1, <1>2, <2>4 DEF WindowsSame
  <2>12. HudOk(c, u)
    BY <2>3, <2>4, <2>5, <2>6, <2>8, <2>10, <2>11 DEF HudOk
  <2>13. Awake(c, u)
    <3>1. Work(c) => Work(br)
      BY <1>2, <2>4 DEF Work, PromptsSame
    <3>2. Awake(br, ui)
      BY DEF HudGood
    <3> QED
      BY <1>1, <1>2, <2>3, <2>4, <3>1, <3>2, StillAwake
  <2> QED
    BY <1>3, <2>1, <2>12, <2>13, HudStep DEF HudGood
<1>7. CASE ~sc.progress
  BY <1>3, <1>7, ConfirmCloses DEF AcceptPrompt
<1> QED
  BY <1>6, <1>7

LEMMA ReleasedFields ==
  ASSUME NEW b \in BrRecs, NEW w \in WinRecs
  PROVE  LET c == ReleasedBy(b, w)
         IN /\ c \in BrRecs /\ PromptsSame(b, c) /\ c.watch = b.watch /\ c.pending = b.pending
            /\ c.owned = (IF w.job # 0 THEN b.owned \ {w.job} ELSE b.owned)
            /\ c.waiting = (IF w.noted THEN b.waiting \ {w.url} ELSE b.waiting)
            /\ c.show = b.show /\ c.wake = b.wake
<1> DEFINE a == IF w.job # 0 THEN Release(b, w.job) ELSE b
<1>1. /\ a \in BrRecs /\ PromptsSame(b, a) /\ a.watch = b.watch /\ a.pending = b.pending
      /\ a.owned = (IF w.job # 0 THEN b.owned \ {w.job} ELSE b.owned)
      /\ a.waiting = b.waiting /\ a.show = b.show /\ a.wake = b.wake
  <2>1. CASE w.job # 0
    <3>1. LET c == Release(b, w.job)
          IN c \in BrRecs /\ PromptsSame(b, c) /\ c.watch = b.watch /\ c.pending = b.pending
             /\ c.owned = b.owned \ {w.job} /\ c.waiting = b.waiting /\ c.show = b.show /\ c.wake = b.wake
      BY ReleaseFields
    <3> QED
      BY <2>1, <3>1
  <2>2. CASE w.job = 0
    BY <2>2 DEF PromptsSame
  <2> QED
    BY <2>1, <2>2
<1> HIDE DEF a
<1>2. w.url \in Urls \cup {"none"}
  BY DEF WinRecs
<1>3. LET c == ClearWaiting(a, w.url)
      IN c \in BrRecs /\ PromptsSame(a, c) /\ c.watch = a.watch /\ c.pending = a.pending
         /\ c.owned = a.owned /\ c.waiting = a.waiting \ {w.url} /\ c.show = a.show /\ c.wake = a.wake
  BY <1>1, <1>2, WaitingFields
<1>4. ReleasedBy(b, w) = IF w.noted THEN ClearWaiting(a, w.url) ELSE a
  BY DEF ReleasedBy, a
<1> DEFINE c == ClearWaiting(a, w.url)
<1> HIDE DEF c
<1>5. CASE w.noted
  BY <1>1, <1>3, <1>4, <1>5 DEF c, PromptsSame
<1>6. CASE ~w.noted
  BY <1>1, <1>4, <1>6
<1> QED
  BY <1>5, <1>6

LEMMA CloseKeeps ==
  ASSUME ScTyped, HudGood(br, ui), NEW w \in ui.windows, CloseHud(w) PROVE HudGood(br, ui)'
<1>1. br \in BrRecs /\ ui \in UiRecs /\ HudOk(br, ui) /\ w \in WinRecs /\ UNCHANGED <<sc, reqs, orphans>>
      /\ Owns(br.owned, ui.windows) /\ Notes(br.waiting, ui.windows) /\ Watched(ToSet(br.pending), br.watch, br.owned)
  BY DEF HudGood, HudOk, UiRecs, CloseHud, outside
<1>2. CASE w.phase = "confirm"
  BY <1>1, <1>2, ConfirmCloses DEF CloseHud
<1>3. CASE w.phase # "confirm"
  <2> DEFINE c == ReleasedBy(br, w)
             u == Closed(ui, w)
             left == ui.windows \ {w}
  <2>1. br' = c /\ ui' = u
    BY <1>3 DEF CloseHud
  <2>2. /\ c \in BrRecs /\ PromptsSame(br, c) /\ c.watch = br.watch /\ c.pending = br.pending
        /\ c.owned = (IF w.job # 0 THEN br.owned \ {w.job} ELSE br.owned)
        /\ c.waiting = (IF w.noted THEN br.waiting \ {w.url} ELSE br.waiting)
        /\ c.show = br.show /\ c.wake = br.wake
    BY <1>1, ReleasedFields
  <2> HIDE DEF c
  <2>3. u \in UiRecs /\ u.windows = left /\ u.parked = ui.parked
    BY <1>1, WindowFields DEF Shell
  <2> HIDE DEF u
  <2>4. Owns(c.owned, left)
    <3>1. Owns(IF w.job # 0 THEN br.owned \ {w.job} ELSE br.owned, ui.windows \ {w})
      BY <1>1, PromptsTyped, OwnsClosed
    <3> QED
      BY <2>2, <3>1
  <2>5. Notes(c.waiting, left)
    BY <1>1, <2>2 DEF Notes
  <2>6. Watched(ToSet(c.pending), c.watch, c.owned)
    BY <1>1, <2>2 DEF Watched
  <2>7. HudOk(c, u)
    BY <1>1, <1>3, <2>2, <2>3, <2>4, <2>5, <2>6, WindowKeeps
  <2>8. Awake(c, u)
    <3>1. Work(c) => Work(br)
      BY <1>1, <2>2 DEF Work, PromptsSame, Watched
    <3>2. Awake(br, ui)
      BY DEF HudGood
    <3> QED
      BY <1>1, <2>2, <2>3, <3>1, <3>2, StillAwake
  <2> QED
    BY <1>1, <2>1, <2>7, <2>8, HudStep DEF HudGood
<1> QED
  BY <1>2, <1>3

\* sync_from_bridge finds the window's own job, or one that nobody owns.
LEMMA BindableJob ==
  ASSUME br \in BrRecs, ui \in UiRecs, NEW w \in WinRecs
  PROVE  \/ Bindable(w) = w.job
         \/ w.job = 0 /\ Bindable(w) \in Jobs /\ Bindable(w) \notin br.owned
<1> DEFINE active == Duplicates(ui.jobs, w.url)
           newest == CHOOSE n \in active : \A m \in active : m <= n
<1>1. active \subseteq 1..MaxJobs /\ MaxJobs \in Nat /\ active \subseteq Jobs
  BY MaxJobsAssumption DEF Duplicates, ActiveJobs, Jobs
<1>2. Bindable(w) = IF w.job # 0 \/ active = {} \/ newest \in br.owned THEN w.job ELSE newest
  BY DEF Bindable
<1> HIDE DEF active
<1>3. active # {} => newest \in active
  BY <1>1, Greatest
<1> QED
  BY <1>1, <1>2, <1>3

\* What the window becomes.
Synced(w, v, j) ==
  /\ v \in WinRecs /\ v.job = j /\ v.url = w.url /\ v.phase \in {"progress", "complete"}
  /\ v.noted <=> w.noted /\ j = w.job
LEMMA SyncedFields ==
  ASSUME NEW w \in WinRecs, w.phase = "progress", NEW j \in Jobs \cup {0}, NEW over \in BOOLEAN
  PROVE  Synced(w, [w EXCEPT !.job = j, !.noted = w.noted /\ j = w.job,
                             !.phase = IF over THEN "complete" ELSE @], j)
<1>1. PICK n \in BOOLEAN : n = (w.noted /\ j = w.job)
  BY Zenon
<1>2. PICK p \in {"progress", "complete"} : p = IF over THEN "complete" ELSE w.phase
  BY Zenon
<1> DEFINE v == [w EXCEPT !.job = j, !.noted = n, !.phase = p]
<1>3. [w EXCEPT !.job = j, !.noted = w.noted /\ j = w.job, !.phase = IF over THEN "complete" ELSE @] = v
  BY Zenon, <1>1, <1>2
<1>4. v \in WinRecs /\ v.job = j /\ v.url = w.url /\ v.phase = p /\ v.noted = n
  BY DEF WinRecs
<1> HIDE DEF v
<1>5. Synced(w, v, j)
  BY <1>1, <1>4 DEF Synced
<1> QED
  BY Zenon, <1>3, <1>5

\* What the bridge becomes.
SyncedTo(b, w, j, over) ==
  LET bound == IF j # w.job THEN Own(b, j) ELSE b
      cleared == IF j # w.job /\ w.noted THEN ClearWaiting(bound, w.url) ELSE bound
  IN IF over THEN ClaimComplete(cleared, j) ELSE cleared
Binds(b, w, j, c) ==
  /\ c \in BrRecs /\ PromptsSame(b, c) /\ c.watch = b.watch /\ c.show = b.show /\ c.wake = b.wake
  /\ c.owned = (IF j # w.job THEN b.owned \cup {j} ELSE b.owned)
  /\ ToSet(c.pending) = (IF j # w.job THEN ToSet(b.pending) \ {j} ELSE ToSet(b.pending))
  /\ c.waiting = (IF j # w.job /\ w.noted THEN b.waiting \ {w.url} ELSE b.waiting)
LEMMA SyncedBridge ==
  ASSUME NEW b \in BrRecs, NEW w \in WinRecs, NEW j \in Jobs \cup {0}, j # w.job => j \in Jobs,
         NEW over \in BOOLEAN, over => j \in Jobs
  PROVE  Binds(b, w, j, SyncedTo(b, w, j, over))
<1> DEFINE bound == IF j # w.job THEN Own(b, j) ELSE b
           cleared == IF j # w.job /\ w.noted THEN ClearWaiting(bound, w.url) ELSE bound
           c == IF over THEN ClaimComplete(cleared, j) ELSE cleared
<1>1. /\ bound \in BrRecs /\ PromptsSame(b, bound) /\ bound.watch = b.watch /\ bound.show = b.show
      /\ bound.wake = b.wake /\ bound.waiting = b.waiting
      /\ bound.owned = (IF j # w.job THEN b.owned \cup {j} ELSE b.owned)
      /\ ToSet(bound.pending) = (IF j # w.job THEN ToSet(b.pending) \ {j} ELSE ToSet(b.pending))
  <2>1. CASE j # w.job
    <3>1. LET e == Own(b, j)
          IN e \in BrRecs /\ PromptsSame(b, e) /\ e.watch = b.watch /\ e.owned = b.owned \cup {j}
             /\ ToSet(e.pending) = ToSet(b.pending) \ {j} /\ e.waiting = b.waiting /\ e.show = b.show
             /\ e.wake = b.wake
      BY <2>1, OwnFields
    <3> QED
      BY <2>1, <3>1
  <2>2. CASE j = w.job
    BY <2>2 DEF PromptsSame
  <2> QED
    BY <2>1, <2>2
<1> HIDE DEF bound
<1>2. /\ cleared \in BrRecs /\ PromptsSame(bound, cleared) /\ cleared.watch = bound.watch
      /\ cleared.pending = bound.pending /\ cleared.owned = bound.owned
      /\ cleared.show = bound.show /\ cleared.wake = bound.wake
      /\ cleared.waiting = (IF j # w.job /\ w.noted THEN bound.waiting \ {w.url} ELSE bound.waiting)
  <2>1. CASE j # w.job /\ w.noted
    <3>1. w.url \in Urls \cup {"none"}
      BY DEF WinRecs
    <3>2. LET e == ClearWaiting(bound, w.url)
          IN e \in BrRecs /\ PromptsSame(bound, e) /\ e.watch = bound.watch /\ e.pending = bound.pending
             /\ e.owned = bound.owned /\ e.waiting = bound.waiting \ {w.url} /\ e.show = bound.show
             /\ e.wake = bound.wake
      BY <1>1, <3>1, WaitingFields
    <3> QED
      BY <2>1, <3>2
  <2>2. CASE ~(j # w.job /\ w.noted)
    BY <1>1, <2>2 DEF PromptsSame
  <2> QED
    BY <2>1, <2>2
<1> HIDE DEF cleared
<1>3. c \in BrRecs /\ PromptsSame(cleared, c) /\ WindowsSame(cleared, c) /\ c.wake = cleared.wake
  <2>1. CASE over
    <3>1. LET e == ClaimComplete(cleared, j)
          IN e \in BrRecs /\ PromptsSame(cleared, e) /\ WindowsSame(cleared, e) /\ e.wake = cleared.wake
      BY <1>2, <2>1, SmallFields
    <3> QED
      BY <2>1, <3>1
  <2>2. CASE ~over
    BY <1>2, <2>2 DEF PromptsSame, WindowsSame
  <2> QED
    BY <2>1, <2>2
<1> HIDE DEF c
<1>4. Binds(b, w, j, c)
  BY <1>1, <1>2, <1>3 DEF PromptsSame, WindowsSame, Binds
<1>5. SyncedTo(b, w, j, over) = c
  BY Zenon DEF SyncedTo, c, cleared, bound
<1> QED
  BY <1>4, <1>5

LEMMA SyncKeeps ==
  ASSUME ScTyped, HudGood(br, ui), NEW w \in ui.windows, Sync(w) PROVE HudGood(br, ui)'
<1>1. br \in BrRecs /\ ui \in UiRecs /\ HudOk(br, ui) /\ w \in WinRecs /\ w.phase = "progress"
      /\ Owns(br.owned, ui.windows) /\ Notes(br.waiting, ui.windows) /\ Watched(ToSet(br.pending), br.watch, br.owned)
      /\ UNCHANGED <<sc, reqs, orphans>>
  BY DEF HudGood, HudOk, UiRecs, Sync, outside
<1> DEFINE j == Bindable(w)
<1>2. j = w.job \/ (w.job = 0 /\ j \in Jobs /\ j \notin br.owned)
  BY <1>1, BindableJob
<1>3. j \in Jobs \cup {0} /\ (j # w.job => j \in Jobs) /\ 0 \notin Jobs
  BY <1>1, <1>2 DEF WinRecs, Jobs
<1>4. PICK over \in BOOLEAN : over = (j # 0 /\ ui.jobs[j].st = "done")
  BY Zenon
<1> DEFINE c == SyncedTo(br, w, j, over)
           v == [w EXCEPT !.job = j, !.noted = w.noted /\ j = w.job, !.phase = IF over THEN "complete" ELSE @]
           u == Replaced(ui, w, v)
           left == (ui.windows \ {w}) \cup {v}
<1>5. br' = c /\ ui' = u
  BY Zenon, <1>4 DEF Sync, SyncedTo
<1> HIDE DEF j
<1>6. over => j \in Jobs
  BY <1>3, <1>4
<1>7. /\ c \in BrRecs /\ PromptsSame(br, c) /\ c.watch = br.watch /\ c.show = br.show /\ c.wake = br.wake
      /\ c.owned = (IF j # w.job THEN br.owned \cup {j} ELSE br.owned)
      /\ ToSet(c.pending) = (IF j # w.job THEN ToSet(br.pending) \ {j} ELSE ToSet(br.pending))
      /\ c.waiting = (IF j # w.job /\ w.noted THEN br.waiting \ {w.url} ELSE br.waiting)
  <2>1. Binds(br, w, j, c)
    BY <1>1, <1>3, <1>6, SyncedBridge
  <2> HIDE DEF c
  <2> QED
    BY <2>1 DEF Binds
<1> HIDE DEF c
<1>8. Synced(w, v, j)
  BY Zenon, <1>1, <1>3, SyncedFields
<1> HIDE DEF v
<1>9. v \in WinRecs /\ v.job = j /\ v.url = w.url /\ v.phase # "confirm" /\ (v.noted <=> w.noted /\ j = w.job)
  BY <1>8 DEF Synced
<1>10. u \in UiRecs /\ u.windows = left /\ u.parked = ui.parked
  <2>1. /\ Replaced(ui, w, v) \in UiRecs /\ Shell(ui, Replaced(ui, w, v))
        /\ Replaced(ui, w, v).windows = (ui.windows \ {w}) \cup {v}
    BY SMTT(60), <1>1, <1>9, WindowFields
  <2> QED
    BY <2>1 DEF Shell
<1> HIDE DEF u
<1>11. Owns(c.owned, left)
  <2>1. CASE j = w.job
    <3>1. Owns(br.owned, (ui.windows \ {w}) \cup {v})
      BY <1>1, <1>9, <2>1, OwnsReplaced
    <3> QED
      BY <1>7, <2>1, <3>1
  <2>2. CASE j # w.job
    <3>1. 0 \notin br.owned /\ j # 0 /\ w.job = 0 /\ j \notin br.owned
      BY <1>1, <1>2, <1>3, <2>2, PromptsTyped
    <3>2. Owns(br.owned \cup {j}, (ui.windows \ {w}) \cup {v})
      BY <1>1, <1>9, <3>1, OwnsBound
    <3> QED
      BY <1>7, <2>2, <3>2
  <2> QED
    BY <2>1, <2>2
<1>12. Notes(c.waiting, left)
  <2>1. \A x : x \in left <=> x = v \/ (x \in ui.windows /\ x # w)
    OBVIOUS
  <2> HIDE DEF left
  <2> QED
    BY <1>1, <1>7, <1>9, <2>1 DEF Notes
<1>13. Watched(ToSet(c.pending), c.watch, c.owned)
  BY <1>1, <1>7 DEF Watched
<1>14. HudOk(c, u)
  BY <1>1, <1>7, <1>9, <1>10, <1>11, <1>12, <1>13, WindowKeeps
<1>15. Awake(c, u)
  <2>1. Work(c) => Work(br)
    BY <1>7 DEF Work, PromptsSame
  <2>2. Awake(br, ui)
    BY DEF HudGood
  <2> QED
    BY <1>1, <1>7, <1>10, <2>1, <2>2, StillAwake
<1> QED
  BY <1>1, <1>5, <1>14, <1>15, HudStep DEF HudGood

LEMMA TickGood == ASSUME ScTyped, HudGood(br, ui), Tick PROVE HudGood(br, ui)'
<1>1. HudOk(br, ui)' /\ (ui'.parked => ~HasPendingWork(br'))
  BY TickKeeps DEF HudGood
<1> QED
  BY <1>1 DEF HudGood, Awake

LEMMA HudKeeps ==
  ASSUME AppTyped, ScTyped, HudGood(br, ui), HudSteps \/ HudOthers PROVE HudGood(br, ui)'
<1>1. CASE HudSteps
  BY <1>1, JobsEventKeeps, TickGood, WakeKeeps, SyncKeeps DEF HudSteps
<1>2. CASE HudOthers
  BY <1>2, PopupKeeps, HideKeeps, ShowKeeps, AcceptKeeps, CloseKeeps DEF HudOthers
<1> QED
  BY <1>1, <1>2

-----------------------------------------------------------------------------
(* The server's steps.                                                     *)

Over == {"answered", "done"}

\* A request changes in a way that no window and no prompt notices.
Mild(q, p) ==
  /\ q.handler = "prompt" <=> p.handler = "prompt"
  /\ q.handler = "none" /\ q.host \in Over => p.handler = "none" /\ p.host \in Over

AllMild(rs) == \A q \in Reqs : Mild(reqs[q], rs[q])

LEMMA OneMild ==
  ASSUME ReqTyped, NEW r \in Reqs, NEW p, Mild(reqs[r], p)
  PROVE  AllMild([reqs EXCEPT ![r] = p])
<1>1. \A q \in Reqs : [reqs EXCEPT ![r] = p][q] = IF q = r THEN p ELSE reqs[q]
  BY DEF ReqTyped
<1> QED
  BY <1>1 DEF AllMild, Mild

LEMMA AskedMild ==
  ASSUME NEW prompts, prompts \subseteq Reqs, NEW active, NEW said, NEW windows,
         Asked(reqs, prompts, active, said, windows), Plain(windows), NEW rs, AllMild(rs)
  PROVE  Asked(rs, prompts, active, said, windows)
<1>1. \A q \in Reqs : (reqs[q].handler = "prompt" <=> rs[q].handler = "prompt")
        /\ (reqs[q].handler = "none" /\ reqs[q].host \in Over => rs[q].handler = "none" /\ rs[q].host \in Over)
  BY DEF AllMild, Mild
<1>2. active \subseteq prompts /\ \A r \in active : Confirm(r) \in windows
  BY DEF Asked
<1>3. \A r \in prompts : rs[r].handler = "prompt"
  BY <1>1 DEF Asked
<1>4. \A r \in Reqs : said[r] # "none" => rs[r].handler = "prompt" /\ r \notin prompts
  BY <1>1 DEF Asked
<1>5. ASSUME NEW w \in windows, w.phase = "confirm"
      PROVE  /\ w.prompt \in active \/ rs[w.prompt].handler = "none"
             /\ rs[w.prompt].handler # "none" \/ rs[w.prompt].host \in Over
  <2>1. w.prompt \in Reqs
    BY <1>5 DEF Plain
  <2>2. CASE w.prompt \in active
    BY <1>2, <1>3, <2>2
  <2>3. CASE w.prompt \notin active
    BY <1>1, <1>5, <2>1, <2>3 DEF Asked, Over
  <2> QED
    BY <2>2, <2>3
<1> QED
  BY <1>2, <1>3, <1>4, <1>5 DEF Asked, Over

LEMMA ServerStep ==
  ASSUME HudGood(br, ui), UNCHANGED <<sc, orphans, ui>>, NEW rs, reqs' = rs, NEW b \in BrRecs, br' = b,
         Asked(rs, ToSet(b.prompts), b.active, b.said, ui.windows),
         b.owned = br.owned, b.waiting = br.waiting, Watched(ToSet(b.pending), b.watch, b.owned), Awake(b, ui)
  PROVE  HudGood(br, ui)'
<1>1. ui' = ui /\ sc' = sc /\ orphans' = orphans /\ reqs' = rs /\ br' = b
  OBVIOUS
<1>2. ui \in UiRecs /\ Plain(ui.windows) /\ Owns(br.owned, ui.windows) /\ Notes(br.waiting, ui.windows)
  BY DEF HudGood, HudOk
<1>3. ui' \in UiRecs /\ br' \in BrRecs
  BY <1>1, <1>2
<1>4. Plain(ui.windows)'
  BY <1>1, <1>2 DEF Plain, Confirm
<1>5. Owns(br.owned, ui.windows)'
  BY <1>1, <1>2 DEF Owns
<1>6. Notes(br.waiting, ui.windows)'
  BY <1>1, <1>2 DEF Notes
<1>7. Asked(reqs, ToSet(br.prompts), br.active, br.said, ui.windows)'
  BY <1>1 DEF Asked, Confirm
<1>8. Watched(ToSet(br.pending), br.watch, br.owned)' /\ Awake(br, ui)'
  BY <1>1 DEF Watched, Awake
<1>9. HudOk(br, ui)'
  BY <1>3, <1>4, <1>5, <1>6, <1>7, <1>8 DEF HudOk
<1> QED
  BY <1>8, <1>9 DEF HudGood

\* The windows notice nothing, or the shell loop is woken.
Louder(b) ==
  /\ b \in BrRecs /\ PromptsSame(br, b) /\ b.owned = br.owned /\ b.waiting = br.waiting
  /\ Watched(ToSet(b.pending), b.watch, b.owned) /\ (b.wake \/ b = br)

LEMMA MildStep ==
  ASSUME HudGood(br, ui), UNCHANGED <<sc, orphans, ui>>, NEW rs, reqs' = rs, AllMild(rs),
         NEW b, br' = b, Louder(b)
  PROVE  HudGood(br, ui)'
<1>1. br \in BrRecs /\ Plain(ui.windows) /\ Asked(reqs, ToSet(br.prompts), br.active, br.said, ui.windows)
      /\ Awake(br, ui)
  BY DEF HudGood, HudOk
<1>2. Asked(rs, ToSet(br.prompts), br.active, br.said, ui.windows)
  BY <1>1, PromptsTyped, AskedMild
<1>3. Asked(rs, ToSet(b.prompts), b.active, b.said, ui.windows)
  BY <1>2 DEF Louder, PromptsSame
<1>4. Awake(b, ui)
  BY <1>1 DEF Louder, Awake
<1> QED
  BY <1>3, <1>4, ServerStep DEF Louder

LEMMA QuietStep ==
  ASSUME HudGood(br, ui), UNCHANGED <<sc, orphans, ui, br>>, NEW rs, reqs' = rs, AllMild(rs)
  PROVE  HudGood(br, ui)'
<1>1. Louder(br)
  BY DEF HudGood, HudOk, Louder, PromptsSame
<1> QED
  BY <1>1, MildStep

LEMMA SaidCleared ==
  ASSUME NEW b \in BrRecs, NEW r \in Reqs
  PROVE  LET c == [b EXCEPT !.said[r] = "none"]
         IN c \in BrRecs /\ c.prompts = b.prompts /\ c.active = b.active /\ WindowsSame(b, c) /\ c.wake = b.wake
            /\ \A q \in Reqs : c.said[q] = IF q = r THEN "none" ELSE b.said[q]
<1>1. PICK said \in [Reqs -> {"none", "accept", "dismiss"}] : said = [b.said EXCEPT ![r] = "none"]
  BY DEF BrRecs
<1>2. \A q \in Reqs : said[q] = IF q = r THEN "none" ELSE b.said[q]
  BY <1>1 DEF BrRecs
<1>3. [b EXCEPT !.said[r] = "none"] = [b EXCEPT !.said = said]
  BY <1>1
<1> DEFINE c == [b EXCEPT !.said = said]
<1>4. c \in BrRecs
  BY DEF BrRecs
<1>5. c.prompts = b.prompts /\ c.active = b.active /\ c.said = said
  BY DEF BrRecs
<1>6. WindowsSame(b, c) /\ c.wake = b.wake
  BY DEF BrRecs, WindowsSame
<1> HIDE DEF c
<1>7. [b EXCEPT !.said[r] = "none"] = c
  BY <1>3 DEF c
<1> QED
  BY <1>2, <1>4, <1>5, <1>6, <1>7

\* A message that the server asks the user about.
LEMMA PromptAsked ==
  ASSUME ReqTyped, AllOwed, HudGood(br, ui), UNCHANGED <<sc, orphans, ui>>,
         NEW r \in Reqs, reqs[r].host = "open", NEW p, reqs' = [reqs EXCEPT ![r] = p], p.handler = "prompt",
         br' = EnqueuePrompt(br, r)
  PROVE  HudGood(br, ui)'
<1> DEFINE b == EnqueuePrompt(br, r)
           rs == [reqs EXCEPT ![r] = p]
<1>1. br \in BrRecs /\ Plain(ui.windows) /\ Asked(reqs, ToSet(br.prompts), br.active, br.said, ui.windows)
      /\ Watched(ToSet(br.pending), br.watch, br.owned) /\ ToSet(br.prompts) \in SUBSET Reqs
  BY PromptsTyped DEF HudGood, HudOk
<1>2. b \in BrRecs /\ ToSet(b.prompts) = ToSet(br.prompts) \cup {r} /\ b.active = br.active
      /\ b.said = br.said /\ WindowsSame(br, b) /\ b.wake
  <2>1. LET c == EnqueuePrompt(br, r)
        IN c \in BrRecs /\ ToSet(c.prompts) = ToSet(br.prompts) \cup {r} /\ c.active = br.active
           /\ c.said = br.said /\ WindowsSame(br, c) /\ c.wake
    BY <1>1, EnqueuePromptFields
  <2> QED
    BY <2>1
<1> HIDE DEF b
<1>3. reqs[r].handler = "none"
  BY DEF AllOwed, Sound
<1>4. \A q \in Reqs : rs[q] = IF q = r THEN p ELSE reqs[q]
  BY DEF ReqTyped
<1> HIDE DEF rs
<1>5. \A w \in ui.windows : w.phase = "confirm" => w.prompt \in Reqs /\ w.prompt # r
  BY <1>1, <1>3 DEF Plain, Asked
<1>6. Asked(rs, ToSet(b.prompts), b.active, b.said, ui.windows)
  BY <1>1, <1>2, <1>3, <1>4, <1>5 DEF Asked
<1>7. Watched(ToSet(b.pending), b.watch, b.owned) /\ Awake(b, ui) /\ b.owned = br.owned /\ b.waiting = br.waiting
  BY <1>1, <1>2 DEF WindowsSame, Awake
<1>8. reqs' = rs /\ br' = b
  BY DEF rs, b
<1> QED
  BY <1>2, <1>6, <1>7, <1>8, ServerStep

\* The server hears what was decided.
LEMMA DecisionHeard ==
  ASSUME ReqTyped, HudGood(br, ui), UNCHANGED <<sc, orphans, ui>>,
         NEW r \in Reqs, reqs[r].handler = "prompt", br.said[r] # "none",
         NEW p, reqs' = [reqs EXCEPT ![r] = p], br' = [br EXCEPT !.said[r] = "none"]
  PROVE  HudGood(br, ui)'
<1> DEFINE b == [br EXCEPT !.said[r] = "none"]
           rs == [reqs EXCEPT ![r] = p]
<1>1. br \in BrRecs /\ Plain(ui.windows) /\ Asked(reqs, ToSet(br.prompts), br.active, br.said, ui.windows)
      /\ Watched(ToSet(br.pending), br.watch, br.owned) /\ ToSet(br.prompts) \in SUBSET Reqs /\ Awake(br, ui)
  BY PromptsTyped DEF HudGood, HudOk
<1>2. b \in BrRecs /\ b.prompts = br.prompts /\ b.active = br.active /\ WindowsSame(br, b) /\ b.wake = br.wake
      /\ \A q \in Reqs : b.said[q] = IF q = r THEN "none" ELSE br.said[q]
  BY <1>1, SaidCleared
<1> HIDE DEF b
<1>3. r \notin ToSet(br.prompts)
  BY <1>1 DEF Asked
<1>4. \A q \in Reqs : rs[q] = IF q = r THEN p ELSE reqs[q]
  BY DEF ReqTyped
<1> HIDE DEF rs
<1>5. \A w \in ui.windows : w.phase = "confirm" => w.prompt \in Reqs /\ w.prompt # r
  BY <1>1, <1>3 DEF Plain, Asked
<1>6. Asked(rs, ToSet(b.prompts), b.active, b.said, ui.windows)
  BY <1>1, <1>2, <1>3, <1>4, <1>5 DEF Asked
<1>7. Watched(ToSet(b.pending), b.watch, b.owned) /\ b.owned = br.owned /\ b.waiting = br.waiting
  BY <1>1, <1>2 DEF WindowsSame
<1>8. Awake(b, ui)
  <2>1. Work(b) => Work(br)
    BY <1>2 DEF Work, WindowsSame
  <2> QED
    BY <1>1, <1>2, <2>1, StillAwake
<1>9. reqs' = rs /\ br' = b
  BY DEF rs, b
<1> QED
  BY <1>2, <1>6, <1>7, <1>8, <1>9, ServerStep

\* The server stops waiting: the prompt goes, its window may stay.
LEMMA PromptDropped ==
  ASSUME ReqTyped, HudGood(br, ui), UNCHANGED <<sc, orphans, ui>>,
         NEW r \in Reqs, reqs[r].handler = "prompt", br.said[r] = "none",
         NEW p, reqs' = [reqs EXCEPT ![r] = p], p.handler = "none", p.host \in Over,
         br' = [Resolve(br, r, "dismiss") EXCEPT !.said[r] = "none"]
  PROVE  HudGood(br, ui)'
<1> DEFINE a == Resolve(br, r, "dismiss")
           b == [a EXCEPT !.said[r] = "none"]
           rs == [reqs EXCEPT ![r] = p]
<1>1. br \in BrRecs /\ Plain(ui.windows) /\ Asked(reqs, ToSet(br.prompts), br.active, br.said, ui.windows)
      /\ Watched(ToSet(br.pending), br.watch, br.owned) /\ ToSet(br.prompts) \in SUBSET Reqs /\ Awake(br, ui)
      /\ br.active \subseteq ToSet(br.prompts)
  BY PromptsTyped DEF HudGood, HudOk, Asked
<1>2. Resolved(br, r, "dismiss", a)
  BY <1>1, ResolveFields
<1> HIDE DEF a
<1>3. a \in BrRecs
  BY <1>2 DEF Resolved
<1>4. b \in BrRecs /\ b.prompts = a.prompts /\ b.active = a.active /\ WindowsSame(a, b) /\ b.wake = a.wake
      /\ \A q \in Reqs : b.said[q] = IF q = r THEN "none" ELSE a.said[q]
  BY <1>3, SaidCleared
<1> HIDE DEF b
<1>5. /\ ToSet(b.prompts) = ToSet(br.prompts) \ {r} /\ b.active = br.active \ {r}
      /\ WindowsSame(br, b) /\ b.wake = br.wake
      /\ \A q \in Reqs : b.said[q] = IF q = r THEN "none" ELSE br.said[q]
  BY <1>2, <1>4 DEF Resolved, WindowsSame
<1>6. \A q \in Reqs : rs[q] = IF q = r THEN p ELSE reqs[q]
  BY DEF ReqTyped
<1> HIDE DEF rs
<1>7. Asked(rs, ToSet(b.prompts), b.active, b.said, ui.windows)
  BY <1>1, <1>5, <1>6 DEF Asked, Over, Plain
<1>8. Watched(ToSet(b.pending), b.watch, b.owned) /\ b.owned = br.owned /\ b.waiting = br.waiting
  BY <1>1, <1>5 DEF WindowsSame
<1>9. Awake(b, ui)
  <2>1. Work(b) => Work(br)
    BY <1>5 DEF Work, WindowsSame
  <2> QED
    BY <1>1, <1>4, <1>5, <2>1, StillAwake
<1>10. reqs' = rs /\ br' = b
  BY DEF rs, b, a
<1> QED
  BY <1>4, <1>7, <1>8, <1>9, <1>10, ServerStep

\* A bridge and a UI that have just begun.
LEMMA NewProcessGood ==
  ASSUME NEW jobs \in JobMaps, br' = NewBridge(Reqs), ui' = NewUi(jobs) PROVE HudGood(br, ui)'
<1> DEFINE b == NewBridge(Reqs)
           u == NewUi(jobs)
<1>1. b \in BrRecs /\ ToSet(b.prompts) = {} /\ b.active = {} /\ (\A q \in Reqs : b.said[q] = "none")
      /\ ToSet(b.pending) = {} /\ b.owned = {} /\ b.waiting = {}
  BY NewBridgeFields
<1>2. u \in UiRecs /\ u.windows = {} /\ ~u.parked
  BY DEF NewUi, UiRecs
<1> HIDE DEF b, u
<1>3. br' = b /\ ui' = u
  BY DEF b, u
<1>4. Plain(ui.windows)' /\ Owns(br.owned, ui.windows)' /\ Notes(br.waiting, ui.windows)'
      /\ Watched(ToSet(br.pending), br.watch, br.owned)' /\ Awake(br, ui)'
  BY <1>1, <1>2, <1>3 DEF Plain, Owns, Notes, Watched, Awake
<1>5. Asked(reqs, ToSet(br.prompts), br.active, br.said, ui.windows)'
  BY <1>1, <1>2, <1>3 DEF Asked
<1> QED
  BY <1>1, <1>2, <1>3, <1>4, <1>5 DEF HudGood, HudOk

LEMMA BeganGood ==
  ASSUME Init PROVE HudGood(br, ui)
<1> DEFINE jobs == [j \in Jobs |-> NoJob]
<1>1. jobs \in JobMaps /\ br = NewBridge(Reqs) /\ ui = NewUi(jobs)
  BY DEF Init, JobMaps
<1>2. br \in BrRecs /\ ToSet(br.prompts) = {} /\ br.active = {} /\ (\A q \in Reqs : br.said[q] = "none")
      /\ ToSet(br.pending) = {} /\ br.owned = {} /\ br.waiting = {}
  BY <1>1, NewBridgeFields
<1>3. ui \in UiRecs /\ ui.windows = {} /\ ~ui.parked
  <2> HIDE DEF jobs
  <2> QED BY <1>1 DEF NewUi, UiRecs
<1> QED
  BY <1>2, <1>3 DEF HudGood, HudOk, Plain, Owns, Notes, Watched, Awake, Asked

LEMMA MildKinds ==
  ASSUME NEW q \in ReqRecs, Sound(q)
  PROVE  /\ q.host = "open" \/ (q.host = "sent" /\ q.handler = "none") => Mild(q, Tried(q)) /\ Mild(q, GivenUp(q))
         /\ q.handler = "add" => \A a \in AnswerKinds : Mild(q, ToldTo(q, a))
         /\ q.host = "open" => /\ \A a \in AnswerKinds : Mild(q, ToldTo(Sent(q), a))
                               /\ Mild(q, [Sent(q) EXCEPT !.handler = "add"])
         /\ \A out \in Outs : Mild(q, [q EXCEPT !.out = out])
         /\ q.host = "sent" /\ q.handler # "none" => Mild(q, [GivenUp(q) EXCEPT !.unheard = TRUE])
         /\ q.handler = "add" => Mild(q, [ToldTo(q, "error") EXCEPT !.unheard = TRUE])
<1>1. Became(q, Tried(q), "open", q.handler, q.answer) /\ Became(q, GivenUp(q), "answered", q.handler, "error")
  BY Records
<1>2. \A a \in AnswerKinds : Became(q, ToldTo(q, a), IF q.host = "sent" THEN "answered" ELSE q.host, "none",
                               IF q.host = "sent" THEN a ELSE q.answer)
  BY Records
<1>3. \A out \in Outs : Became(q, [q EXCEPT !.out = out], q.host, q.handler, q.answer)
  BY Zenon, OutFields
<1>4. q.host = "open" => /\ \A a \in AnswerKinds : Became(Sent(q), ToldTo(Sent(q), a), "answered", "none", a)
                         /\ Became(Sent(q), [Sent(q) EXCEPT !.handler = "add"], "sent", "add", Sent(q).answer)
  <2> DEFINE p == Sent(q)
  <2>1. Became(q, p, "sent", q.handler, q.answer)
    BY Records
  <2>2. p \in ReqRecs /\ p.host = "sent"
    BY <2>1 DEF Became
  <2> HIDE DEF p
  <2>3. \A a \in AnswerKinds : Became(p, ToldTo(p, a), IF p.host = "sent" THEN "answered" ELSE p.host, "none",
                                  IF p.host = "sent" THEN a ELSE p.answer)
    BY <2>2, Records
  <2>4. \A a \in AnswerKinds : Became(p, ToldTo(p, a), "answered", "none", a)
    BY <2>2, <2>3
  <2>5. \A h \in {"none", "prompt", "add"} : Became(p, [p EXCEPT !.handler = h], p.host, h, p.answer)
    BY <2>2, Records
  <2>6. Became(p, [p EXCEPT !.handler = "add"], "sent", "add", p.answer)
    BY <2>2, <2>5
  <2> QED
    BY <2>4, <2>6 DEF p
<1>5. \A p \in ReqRecs : LET u == [p EXCEPT !.unheard = TRUE] IN u.host = p.host /\ u.handler = p.handler
  BY DEF ReqRecs
<1>6. q.host = "open" \/ (q.host = "sent" /\ q.handler = "none") => Mild(q, Tried(q)) /\ Mild(q, GivenUp(q))
  BY <1>1 DEF Mild, Became, Over
<1>7. q.handler = "add" => \A a \in AnswerKinds : Mild(q, ToldTo(q, a))
  BY <1>2 DEF Mild, Became, Over
<1>8. q.host = "open" => /\ \A a \in AnswerKinds : Mild(q, ToldTo(Sent(q), a))
                         /\ Mild(q, [Sent(q) EXCEPT !.handler = "add"])
  <2> DEFINE p == [Sent(q) EXCEPT !.handler = "add"]
  <2>1. q.host = "open" => p.handler = "add"
    BY <1>4 DEF Became
  <2> HIDE DEF p
  <2>2. q.host = "open" => Mild(q, p)
    BY <2>1 DEF Mild, Over, Sound
  <2>3. q.host = "open" => \A a \in AnswerKinds : Mild(q, ToldTo(Sent(q), a))
    BY <1>4 DEF Mild, Became, Over, Sound
  <2> QED
    BY <2>2, <2>3 DEF p
<1>9. \A out \in Outs : Mild(q, [q EXCEPT !.out = out])
  <2> TAKE out \in Outs
  <2> DEFINE p == [q EXCEPT !.out = out]
  <2>1. Became(q, p, q.host, q.handler, q.answer)
    BY <1>3
  <2> HIDE DEF p
  <2>2. Mild(q, p)
    BY <2>1 DEF Mild, Became
  <2> QED
    BY <2>2 DEF p
<1>10. q.host = "sent" /\ q.handler # "none" => Mild(q, [GivenUp(q) EXCEPT !.unheard = TRUE])
  <2> DEFINE p == GivenUp(q)
             u == [p EXCEPT !.unheard = TRUE]
  <2>1. p \in ReqRecs /\ p.handler = q.handler
    BY <1>1 DEF Became
  <2> HIDE DEF p
  <2>2. u.handler = q.handler
    BY <1>5, <2>1
  <2> HIDE DEF u
  <2>3. q.handler # "none" => Mild(q, u)
    BY <2>2 DEF Mild
  <2> QED
    BY <2>3 DEF p, u
<1>11. q.handler = "add" => Mild(q, [ToldTo(q, "error") EXCEPT !.unheard = TRUE])
  <2> DEFINE p == ToldTo(q, "error")
             u == [p EXCEPT !.unheard = TRUE]
  <2>1. p \in ReqRecs /\ p.handler = "none"
    BY <1>2 DEF Became, AnswerKinds
  <2> HIDE DEF p
  <2>2. u.handler = "none"
    BY <1>5, <2>1
  <2> HIDE DEF u
  <2>3. q.handler = "add" => Mild(q, u)
    BY <2>2 DEF Mild
  <2> QED
    BY <2>3 DEF p, u
<1> QED
  BY <1>6, <1>7, <1>8, <1>9, <1>10, <1>11

LEMMA AnsweredOver ==
  ASSUME NEW q \in ReqRecs, Sound(q), q.handler = "prompt", NEW a \in AnswerKinds
  PROVE  ToldTo(q, a).handler = "none" /\ ToldTo(q, a).host \in Over
<1>1. Became(q, ToldTo(q, a), IF q.host = "sent" THEN "answered" ELSE q.host, "none",
             IF q.host = "sent" THEN a ELSE q.answer)
  BY Records
<1>2. q.host \in {"sent", "answered", "done"}
  BY DEF Sound, ReqRecs
<1> QED
  BY <1>1, <1>2 DEF Became, Over

\* One request changes, and the windows do not notice.
LEMMA OneQuiet ==
  ASSUME ReqTyped, HudGood(br, ui), UNCHANGED <<sc, orphans, ui, br>>,
         NEW r \in Reqs, NEW p, reqs' = [reqs EXCEPT ![r] = p], Mild(reqs[r], p)
  PROVE  HudGood(br, ui)'
BY OneMild, QuietStep

LEMMA NoneQuiet ==
  ASSUME HudGood(br, ui), UNCHANGED <<sc, orphans, ui, reqs>>, NEW b, br' = b, Louder(b)
  PROVE  HudGood(br, ui)'
<1>1. AllMild(reqs)
  BY DEF AllMild, Mild
<1> QED
  BY <1>1, MildStep

LEMMA SameLouder == ASSUME HudGood(br, ui) PROVE Louder(br)
BY DEF HudGood, HudOk, Louder, PromptsSame

LEMMA RelayGood ==
  ASSUME AppTyped, ReqTyped, AllOwed, HudGood(br, ui), RelaySteps \/ RelayOthers PROVE HudGood(br, ui)'
<1>0. \A r \in Reqs : reqs[r] \in ReqRecs /\ Sound(reqs[r])
  BY DEF ReqTyped, AllOwed
<1>b. br \in BrRecs /\ Watched(ToSet(br.pending), br.watch, br.owned) /\ Louder(br)
  BY SameLouder DEF HudGood, HudOk
<1>1. ASSUME NEW r \in Reqs, Retry(r) \/ Refused(r) PROVE HudGood(br, ui)'
  <2>1. reqs[r].host = "open" \/ (reqs[r].host = "sent" /\ reqs[r].handler = "none")
    BY <1>1 DEF Retry, Refused, Unreachable, Broken
  <2>2. reqs' = [reqs EXCEPT ![r] = Tried(reqs[r])] \/ reqs' = [reqs EXCEPT ![r] = GivenUp(reqs[r])]
    <3>1. reqs' = [reqs EXCEPT ![r].host = "open", ![r].tries = @ + 1] \/ reqs' = GivesUp(reqs, r)
      BY Zenon, <1>1 DEF Retry, Refused
    <3> QED
      BY <3>1, Shapes
  <2>3. Mild(reqs[r], Tried(reqs[r])) /\ Mild(reqs[r], GivenUp(reqs[r]))
    BY <1>0, <2>1, MildKinds
  <2>4. UNCHANGED <<sc, orphans, ui, br>>
    BY <1>1 DEF Retry, Refused, rest
  <2> QED
    BY <2>2, <2>3, <2>4, OneQuiet
<1>2. ASSUME NEW r \in Reqs, NEW a \in AnswerKinds, Accepted(r), Answers(r, a), UNCHANGED <<sc, orphans, ui, br>>
      PROVE  HudGood(br, ui)'
  <2>1. reqs' = [reqs EXCEPT ![r] = ToldTo(Sent(reqs[r]), a)]
    <3>1. reqs' = Told([reqs EXCEPT ![r].host = "sent"], r, a)
      BY Zenon, <1>2 DEF Answers
    <3>2. Told([reqs EXCEPT ![r].host = "sent"], r, a) = [reqs EXCEPT ![r] = ToldTo(Sent(reqs[r]), a)]
      BY ZenonT(60), Shapes
    <3> QED
      BY <3>1, <3>2
  <2>2. Mild(reqs[r], ToldTo(Sent(reqs[r]), a))
    BY <1>0, <1>2, MildKinds DEF Accepted
  <2> QED
    BY <1>2, <2>1, <2>2, OneQuiet
<1>3. ASSUME NEW r \in Reqs, EnqueueDownload(r) PROVE HudGood(br, ui)'
  <2>0. Accepted(r) /\ UNCHANGED <<sc, orphans, ui, br>>
    BY <1>3 DEF EnqueueDownload, rest
  <2>1. CASE Answers(r, "duplicate")
    BY <1>2, <2>0, <2>1 DEF AnswerKinds
  <2>2. CASE Waits(r, "add")
    <3>1. reqs' = [reqs EXCEPT ![r] = [Sent(reqs[r]) EXCEPT !.handler = "add"]]
      BY ZenonT(60), <2>2, Shapes DEF Waits
    <3>2. Mild(reqs[r], [Sent(reqs[r]) EXCEPT !.handler = "add"])
      BY <1>0, <2>0, MildKinds DEF Accepted
    <3> QED
      BY <2>0, <3>1, <3>2, OneQuiet
  <2> QED
    BY <1>3, <2>1, <2>2 DEF EnqueueDownload
<1>4. ASSUME NEW r \in Reqs, PromptDownload(r) PROVE HudGood(br, ui)'
  <2>0. Accepted(r) /\ UNCHANGED <<sc, orphans, ui>>
    BY <1>4 DEF PromptDownload, rest
  <2>1. \/ (Answers(r, "duplicate") \/ Answers(r, "error")) /\ UNCHANGED br
        \/ Waits(r, "prompt") /\ br' = EnqueuePrompt(br, r)
    BY Zenon, <1>4 DEF PromptDownload
  <2>2. CASE (Answers(r, "duplicate") \/ Answers(r, "error")) /\ UNCHANGED br
    BY <1>2, <2>0, <2>2 DEF AnswerKinds
  <2>3. CASE Waits(r, "prompt") /\ br' = EnqueuePrompt(br, r)
    <3> DEFINE p == [Sent(reqs[r]) EXCEPT !.handler = "prompt"]
    <3>1. reqs' = [reqs EXCEPT ![r] = p]
      BY ZenonT(60), <2>3, Shapes DEF Waits
    <3>2. reqs[r].host = "open" /\ p.handler = "prompt"
      BY <1>0, <2>0 DEF Accepted, Sent, ReqRecs
    <3> HIDE DEF p
    <3> QED
      BY <2>0, <2>3, <3>1, <3>2, PromptAsked
  <2> QED
    BY <2>1, <2>2, <2>3
<1>5. ASSUME NEW r \in Reqs, Decided(r) PROVE HudGood(br, ui)'
  <2>0. reqs[r].handler = "prompt" /\ br.said[r] # "none" /\ br' = [br EXCEPT !.said[r] = "none"]
        /\ UNCHANGED <<sc, orphans, ui>>
    BY <1>5 DEF Decided, rest
  <2>1. PICK p : reqs' = [reqs EXCEPT ![r] = p]
    <3>1. reqs' = [reqs EXCEPT ![r].handler = "add"] \/ reqs' = Told(reqs, r, "dismissed")
      BY Zenon, <1>5 DEF Decided
    <3>2. CASE reqs' = [reqs EXCEPT ![r].handler = "add"]
      <4>1. reqs' = [reqs EXCEPT ![r] = [reqs[r] EXCEPT !.handler = "add"]]
        BY <3>2 DEF ReqTyped
      <4> QED
        BY Zenon, <4>1
    <3>3. CASE reqs' = Told(reqs, r, "dismissed")
      <4>1. Told(reqs, r, "dismissed") = [reqs EXCEPT ![r] = ToldTo(reqs[r], "dismissed")]
        BY ZenonT(60), Shapes
      <4> QED
        BY Zenon, <3>3, <4>1
    <3> QED
      BY Zenon, <3>1, <3>2, <3>3
  <2> QED
    BY <2>0, <2>1, DecisionHeard
<1>6. ASSUME NEW r \in Reqs, PromptTimeout(r) PROVE HudGood(br, ui)'
  <2>0. /\ reqs[r].handler = "prompt" /\ br.said[r] = "none" /\ UNCHANGED <<sc, orphans, ui>>
        /\ br' = [Resolve(br, r, "dismiss") EXCEPT !.said[r] = "none"]
        /\ reqs' = [reqs EXCEPT ![r] = ToldTo(reqs[r], "dismissed")]
    <3>1. Told(reqs, r, "dismissed") = [reqs EXCEPT ![r] = ToldTo(reqs[r], "dismissed")]
      BY ZenonT(60), Shapes
    <3> QED
      BY ZenonT(60), <1>6, <3>1 DEF PromptTimeout, rest
  <2>1. ToldTo(reqs[r], "dismissed").handler = "none" /\ ToldTo(reqs[r], "dismissed").host \in Over
    BY <1>0, <2>0, AnsweredOver DEF AnswerKinds
  <2> QED
    BY <2>0, <2>1, PromptDropped
<1>7. ASSUME NEW r \in Reqs, Enqueued(r) PROVE HudGood(br, ui)'
  <2>0. reqs[r].handler = "add" /\ UNCHANGED <<sc, orphans, ui>>
    BY <1>7 DEF Enqueued, rest
  <2>1. PICK a \in AnswerKinds : reqs' = [reqs EXCEPT ![r] = ToldTo(reqs[r], a)]
    <3>1. PICK a \in AnswerKinds : reqs' = Told(reqs, r, a)
      BY <1>7 DEF Enqueued, AnswerKinds
    <3>2. Told(reqs, r, a) = [reqs EXCEPT ![r] = ToldTo(reqs[r], a)]
      BY ZenonT(60), Shapes
    <3> QED
      BY Zenon, <3>1, <3>2
  <2> DEFINE rs == [reqs EXCEPT ![r] = ToldTo(reqs[r], a)]
  <2>2. AllMild(rs) /\ reqs' = rs
    BY <1>0, <2>0, <2>1, MildKinds, OneMild
  <2> HIDE DEF rs
  <2>3. PICK b : br' = b /\ Louder(b)
    <3>1. br' = br \/ (reqs[r].out > 0 /\ br' = EnqueueProgress(br, reqs[r].out))
      BY <1>7 DEF Enqueued
    <3>2. CASE br' = br
      BY <1>b, <3>2
    <3>3. CASE reqs[r].out > 0 /\ br' = EnqueueProgress(br, reqs[r].out)
      <4>1. reqs[r].out \in Jobs
        BY <1>0, <3>3 DEF ReqRecs, Outs
      <4> DEFINE j == reqs[r].out
                 b == EnqueueProgress(br, j)
      <4>2. b \in BrRecs /\ PromptsSame(br, b) /\ b.watch # <<>> /\ b.owned = br.owned
            /\ b.waiting = br.waiting /\ b.wake
        BY <1>b, <4>1, EnqueueProgressFields
      <4> HIDE DEF b
      <4>3. Louder(b)
        BY <4>2 DEF Louder, Watched
      <4> QED
        BY <3>3, <4>3 DEF b
    <3> QED
      BY <3>1, <3>2, <3>3
  <2> QED
    BY <2>0, <2>2, <2>3, MildStep
<1>8. ASSUME NEW r \in Reqs, ForwardTimeout(r) PROVE HudGood(br, ui)'
  <2> DEFINE p == [GivenUp(reqs[r]) EXCEPT !.unheard = TRUE]
  <2>1. reqs' = [reqs EXCEPT ![r] = p] /\ UNCHANGED <<sc, orphans, ui, br>>
        /\ reqs[r].host = "sent" /\ reqs[r].handler # "none"
    BY <1>8, Shapes DEF ForwardTimeout, rest
  <2>2. Mild(reqs[r], p)
    BY <1>0, <2>1, MildKinds
  <2> HIDE DEF p
  <2> QED
    BY <2>1, <2>2, OneQuiet
<1>9. ASSUME NEW r \in Reqs, AddTimeout(r) PROVE HudGood(br, ui)'
  <2> DEFINE p == [ToldTo(reqs[r], "error") EXCEPT !.unheard = TRUE]
  <2>1. reqs' = [reqs EXCEPT ![r] = p] /\ UNCHANGED <<sc, orphans, ui, br>> /\ reqs[r].handler = "add"
    BY <1>9, Shapes DEF AddTimeout, rest
  <2>2. Mild(reqs[r], p)
    BY <1>0, <2>1, MildKinds
  <2> HIDE DEF p
  <2> QED
    BY <2>1, <2>2, OneQuiet
<1>10. ASSUME NEW r \in Reqs, Refuse(r) PROVE HudGood(br, ui)'
  BY <1>2, <1>10 DEF Refuse, AnswerKinds, rest
<1>11. CASE Click
  <2>1. PICK r \in FreeReq : reqs' = [reqs EXCEPT ![r] = [NewReq EXCEPT !.host = "open", !.from = "click"]]
    BY <1>11 DEF Click
  <2> DEFINE p == [NewReq EXCEPT !.host = "open", !.from = "click"]
  <2>2. r \in Reqs /\ reqs[r].host = "none" /\ reqs[r].handler = "none"
    BY <1>0, <2>1 DEF FreeReq, Sound
  <2>3. p.handler = "none"
    BY DEF NewReq
  <2> HIDE DEF p
  <2>4. Mild(reqs[r], p)
    BY <2>2, <2>3 DEF Mild, Over
  <2>5. UNCHANGED <<sc, orphans, ui, br>>
    BY <1>11 DEF Click, rest
  <2> QED
    BY <2>1, <2>2, <2>4, <2>5, OneQuiet DEF p
<1>12. CASE Add \/ AddSaved
  <2>0. UNCHANGED <<sc, orphans, ui, br>>
    BY <1>12 DEF Add, AddSaved, rest
  <2>1. CASE UNCHANGED reqs
    BY <1>b, <2>0, <2>1, NoneQuiet
  <2>2. CASE \E r \in Reqs, out \in Outs : reqs' = [reqs EXCEPT ![r] = [reqs[r] EXCEPT !.out = out]]
    <3>1. PICK r \in Reqs, out \in Outs : reqs' = [reqs EXCEPT ![r] = [reqs[r] EXCEPT !.out = out]]
      BY <2>2
    <3>2. Mild(reqs[r], [reqs[r] EXCEPT !.out = out])
      BY Zenon, <1>0, MildKinds
    <3> QED
      BY <2>0, <3>1, <3>2, OneQuiet
  <2>3. ASSUME NEW r \in Reqs, NEW to \in Outs,
               reqs' = [reqs EXCEPT ![r].out = IF reqs[r].handler = "add" THEN to ELSE @]
        PROVE  HudGood(br, ui)'
    <3>1. PICK out \in Outs : out = IF reqs[r].handler = "add" THEN to ELSE reqs[r].out
      BY <1>0, <2>3 DEF ReqRecs
    <3>2. reqs' = [reqs EXCEPT ![r] = [reqs[r] EXCEPT !.out = out]]
      BY <2>3, <3>1
    <3> QED
      BY <2>2, <3>2
  <2>4. CASE Add
    <3> DEFINE r == Head(app.adds)
    <3>1. r \in Reqs
      BY <2>4 DEF Add, AppTyped, AppRecs
    <3>2. UNCHANGED reqs \/ reqs' = [reqs EXCEPT ![r].out = IF reqs[r].handler = "add" THEN -1 ELSE @]
      BY Zenon, <2>4 DEF Add
    <3> HIDE DEF r
    <3> QED
      BY <2>1, <2>3, <3>1, <3>2 DEF Outs
  <2>5. CASE AddSaved
    <3> DEFINE r == app.adding
    <3>1. r \in Reqs /\ app.job \in Outs
          /\ reqs' = [reqs EXCEPT ![r].out = IF reqs[r].handler = "add" THEN app.job ELSE @]
      BY <2>5 DEF AddSaved, AppTyped, AppRecs, Outs
    <3> HIDE DEF r
    <3> QED
      BY <2>3, <3>1
  <2> QED
    BY <1>12, <2>4, <2>5
<1>13. CASE JobEnds \/ RemoveJob
  BY <1>b, <1>13, NoneQuiet DEF JobEnds, RemoveJob, rest
<1>14. CASE AppDies \/ AppStarts
  <2>0. app.jobs \in JobMaps /\ app.disk \in JobMaps
    BY DEF AppTyped, AppRecs
  <2>1. br' = NewBridge(Reqs) /\ (ui' = NewUi(app.disk) \/ ui' = NewUi(app.jobs))
    BY <1>14 DEF AppDies, ProcessEnds, AppStarts
  <2> QED
    BY <2>0, <2>1, NewProcessGood
<1>15. CASE SecondInstance
  <2>0. UNCHANGED <<sc, orphans, ui, reqs>> /\ (br' = br \/ br' = RequestShow(br))
    BY <1>15 DEF SecondInstance, rest
  <2> DEFINE b == RequestShow(br)
  <2>1. b \in BrRecs /\ PromptsSame(br, b) /\ b.watch = br.watch /\ b.pending = br.pending
        /\ b.owned = br.owned /\ b.waiting = br.waiting /\ b.wake
    BY <1>b, SmallFields
  <2> HIDE DEF b
  <2>2. Louder(b)
    BY SMTT(60), <1>b, <2>1 DEF Louder
  <2> QED
    BY <1>b, <2>0, <2>2, NoneQuiet DEF b
<1> QED
  BY <1>1, <1>3, <1>4, <1>5, <1>6, <1>7, <1>8, <1>9, <1>10, <1>11, <1>12, <1>13, <1>14, <1>15
     DEF RelaySteps, RelayOthers

LEMMA CaptureGood ==
  ASSUME ReqTyped, AllOwed, HudGood(br, ui), CaptureSteps \/ CaptureOthers PROVE HudGood(br, ui)'
<1>0. UNCHANGED <<sc, orphans, ui, br>> /\ \A r \in Reqs : reqs[r] \in ReqRecs /\ Sound(reqs[r])
  BY CaptureFrame DEF ReqTyped, AllOwed
<1>1. CASE UNCHANGED reqs
  BY <1>0, <1>1, SameLouder, NoneQuiet
<1>2. ASSUME NEW k \in Items, HandOff(k) PROVE HudGood(br, ui)'
  <2>1. PICK r \in FreeReq :
          reqs' = [reqs EXCEPT ![r] = [NewReq EXCEPT !.host = "open", !.from = "capture", !.item = k]]
    BY <1>2 DEF HandOff
  <2> DEFINE p == [NewReq EXCEPT !.host = "open", !.from = "capture", !.item = k]
  <2>2. r \in Reqs /\ reqs[r].host = "none" /\ reqs[r].handler = "none"
    BY <1>0, <2>1 DEF FreeReq, Sound
  <2>3. p.handler = "none"
    BY DEF NewReq
  <2> HIDE DEF p
  <2>4. Mild(reqs[r], p)
    BY <2>2, <2>3 DEF Mild, Over
  <2> QED
    BY <1>0, <2>1, <2>2, <2>4, OneQuiet DEF p
<1>3. ASSUME NEW r \in Reqs, Answered(r) PROVE HudGood(br, ui)'
  <2>1. PICK back \in BOOLEAN : back = (reqs[r].from = "capture" /\ OutcomeOf(reqs[r].answer) = "restoring")
    BY Zenon
  <2> DEFINE p == [reqs[r] EXCEPT !.host = "done", !.restored = back]
  <2>2. reqs' = [reqs EXCEPT ![r].host = "done", ![r].restored = back]
    BY Zenon, <1>3, <2>1 DEF Answered
  <2>3. reqs' = [reqs EXCEPT ![r] = p]
    BY <2>2 DEF ReqTyped
  <2>4. p.host = "done" /\ p.handler = reqs[r].handler
    BY <1>0 DEF ReqRecs
  <2> HIDE DEF p
  <2>5. Mild(reqs[r], p)
    BY <2>4 DEF Mild, Over
  <2> QED
    BY <1>0, <2>3, <2>5, OneQuiet
<1>4. CASE Kill
  <2> DEFINE rs == [r \in Reqs |-> IF reqs[r].from = "capture" THEN [reqs[r] EXCEPT !.from = "forgotten"]
                                   ELSE reqs[r]]
  <2>1. reqs' = rs
    BY <1>4 DEF Kill
  <2>2. ASSUME NEW r \in Reqs PROVE Mild(reqs[r], rs[r])
    <3> DEFINE p == [reqs[r] EXCEPT !.from = "forgotten"]
    <3>1. p.host = reqs[r].host /\ p.handler = reqs[r].handler
      BY <1>0 DEF ReqRecs
    <3>2. rs[r] = p \/ rs[r] = reqs[r]
      OBVIOUS
    <3> HIDE DEF p, rs
    <3> QED
      BY <3>1, <3>2 DEF Mild
  <2> HIDE DEF rs
  <2> QED
    BY <1>0, <2>1, <2>2, QuietStep DEF AllMild
<1> QED
  BY <1>1, <1>2, <1>3, <1>4
     DEF CaptureSteps, CaptureOthers, Hydrate, Replay, Persist, EarlyRequest, EarlyCreated, FirefoxRequest,
         Created, Finalize, UserStarts, Expire

LEMMA UpdaterGood ==
  ASSUME AppTyped, HudGood(br, ui), UpdaterSteps \/ UpdaterOthers PROVE HudGood(br, ui)'
<1>1. CASE ProcessEnds
  <2>1. app.disk \in JobMaps /\ br' = NewBridge(Reqs) /\ ui' = NewUi(app.disk)
    BY <1>1 DEF ProcessEnds, AppTyped, AppRecs
  <2> QED
    BY <2>1, NewProcessGood
<1>2. CASE UNCHANGED <<sc, orphans, ui, br, reqs>>
  BY <1>2, SameLouder, NoneQuiet
<1> QED
  BY <1>1, <1>2, UpdaterFrame

HudInv == OwedInv /\ HudGood(br, ui)

LEMMA HudInvNext == ASSUME HudInv, [Next]_vars PROVE HudInv'
<1>1. AppTyped /\ ReqTyped /\ AllOwed /\ ScTyped /\ HudGood(br, ui) /\ OwedInv
  BY DEF HudInv, OwedInv, AppInv
<1>2. OwedInv'
  BY <1>1, OwedNext
<1>3. ASSUME UNCHANGED vars PROVE HudGood(br, ui)'
  <2>1. UNCHANGED <<sc, orphans, ui, br, reqs>>
    BY <1>3 DEF vars
  <2> QED
    BY <1>1, <2>1, SameLouder, NoneQuiet
<1>4. HudGood(br, ui)'
  BY <1>1, <1>3, Cases, CaptureGood, RelayGood, HudKeeps, UpdaterGood
<1> QED
  BY <1>2, <1>4 DEF HudInv

LEMMA HudInvInit == ASSUME Init PROVE HudInv
BY OwedInit, BeganGood DEF HudInv

LEMMA HudInvAlways == Spec => []HudInv
BY HudInvInit, HudInvNext, PTL DEF Spec

\* A prompt is claimed exactly while a Confirm window shows it, and a window outlives its prompt
\* only when the handler stopped waiting (claim_next_prompt_for_ui, resolve_prompt).
THEOREM PromptsAreShown == Spec => []PromptShown
<1>1. HudInv => PromptShown
  BY DEF HudInv, HudGood, HudOk, Asked, PromptShown
<1> QED
  BY <1>1, HudInvAlways, PTL

\* A job is owned exactly while one window is bound to it (try_own_progress_job and
\* release_progress_job).
THEOREM JobsAreOwned == Spec => []HudOwned
<1>1. HudInv => HudOwned
  <2> SUFFICES ASSUME HudInv, NEW j \in Jobs
               PROVE  Cardinality({w \in ui.windows : w.job = j}) = IF j \in br.owned THEN 1 ELSE 0
    BY DEF HudOwned
  <2> DEFINE bound == {w \in ui.windows : w.job = j}
  <2>1. Owns(br.owned, ui.windows) /\ j # 0
    BY DEF HudInv, HudGood, HudOk, Jobs
  <2>2. CASE j \in br.owned
    <3>1. PICK w \in ui.windows : w.job = j
      BY <2>1, <2>2 DEF Owns
    <3>2. bound = {w}
      BY <2>1, <3>1 DEF Owns
    <3> HIDE DEF bound
    <3> QED
      BY <2>2, <3>2, FS_Singleton DEF bound
  <2>3. CASE j \notin br.owned
    <3>1. bound = {}
      BY <2>1, <2>3 DEF Owns
    <3> HIDE DEF bound
    <3> QED
      BY <2>3, <3>1, FS_EmptySet DEF bound
  <2> QED
    BY <2>2, <2>3
<1> QED
  BY <1>1, HudInvAlways, PTL

\* A URL that waits for a window to bind its job has that window, unless hiding the main window
\* closed it (note_progress_waiting_url and clear_progress_waiting_url).
THEOREM WaitersHaveWindows == Spec => []WaitingHasWindow
<1>1. HudInv => WaitingHasWindow
  BY DEF HudInv, HudGood, HudOk, Notes, WaitingHasWindow
<1> QED
  BY <1>1, HudInvAlways, PTL

\* The shell loop never sleeps over work: whenever it is parked and has some, a wake permit is
\* stored, whatever the server, the engine and the windows do while it decides to park.
THEOREM WorkWakes == Spec => []NoLostWake
<1>1. HudInv => NoLostWake
  BY DEF HudInv, HudGood, Awake, NoLostWake
<1> QED
  BY <1>1, HudInvAlways, PTL
=============================================================================
