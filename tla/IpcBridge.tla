----------------------------- MODULE IpcBridge -----------------------------
(***************************************************************************)
(* The state that the IPC server and the UI thread share behind one mutex  *)
(* (IpcBridge), as a record, and its methods, each one critical section,   *)
(* as functions of that record.  A prompt is named by its request, and a   *)
(* job by the request whose Add created it; URLs go from a request to its  *)
(* URL.  The fields are those of IpcState, except that said holds what was *)
(* sent through the reply channel of each prompt, and wake is the permit   *)
(* of the Notify that the shell loop parks on.                             *)
(***************************************************************************)
EXTENDS Naturals, SequencesExt, FiniteSets

CONSTANTS
  PromptMax,   \* prompts that may wait at once (20 in the code)
  PendingMax,  \* pending_progress_job_ids (20)
  WatchMax     \* pending_progress_watch_ids (40)

ASSUME CapsAssumption == PromptMax \in Nat \ {0} /\ PendingMax \in Nat \ {0} /\ WatchMax \in Nat \ {0}

NewBridge(Reqs) ==
  [prompts |-> <<>>, active |-> {}, said |-> [r \in Reqs |-> "none"], show |-> FALSE,
   pending |-> <<>>, watch |-> <<>>, owned |-> {}, waiting |-> {}, shown |-> {}, wake |-> FALSE]

WakeUi(b) == [b EXCEPT !.wake = TRUE]

\* retain, by the places that are kept (SelectSeq is a recursion that no proof can unfold).
Place(kept, n) == CHOOSE i \in kept : Cardinality({k \in kept : k <= i}) = n
Dropping(seq, S) ==
  LET kept == {i \in DOMAIN seq : seq[i] \notin S}
  IN [n \in 1..Cardinality(kept) |-> seq[Place(kept, n)]]

-----------------------------------------------------------------------------
\* Prompts

EnqueuePrompt(b, r) == WakeUi([b EXCEPT !.prompts = Append(@, r)])

\* claim_next_prompt_for_ui.  It also dismisses prompts older than their handler's own time
\* limit; a handler that stopped waiting has already done that.
Unclaimed(b) == Dropping(b.prompts, b.active)
Claim(b) == [b EXCEPT !.active = @ \cup {Head(Unclaimed(b))}]

\* resolve_prompt.  Nothing happens when the prompt is gone.
Resolve(b, r, decision) ==
  IF ~Contains(b.prompts, r) THEN b
  ELSE [b EXCEPT !.prompts = Dropping(@, {r}), !.active = @ \ {r}, !.said[r] = decision]

-----------------------------------------------------------------------------
\* Progress and Complete windows

Pushed(seq, j, max) ==
  IF Contains(seq, j) THEN seq
  ELSE Append(IF Len(seq) >= max THEN Tail(seq) ELSE seq, j)

\* Mutation: the new id is left for the next tick of a shell that may be parked.
EnqueueProgressQuietly(b, j) ==
  [b EXCEPT !.watch = Pushed(@, j, WatchMax), !.pending = Pushed(@, j, PendingMax)]

EnqueueProgress(b, j) ==
  WakeUi([b EXCEPT !.watch = Pushed(@, j, WatchMax), !.pending = Pushed(@, j, PendingMax)])

\* take_pending_progress_jobs_n(1): owned ids are dropped, ids without a row or whose URL a
\* Confirm window waits to bind stay.
Unowned(b) == Dropping(b.pending, b.owned)
Openable(b, known, url) ==
  Dropping(b.pending, {j \in ToSet(b.pending) : j \in b.owned \/ j \notin known \/ url[j] \in b.waiting})
TakePending(b, known, url) ==
  LET taken == IF Openable(b, known, url) = <<>> THEN {} ELSE {Head(Openable(b, known, url))}
  IN [b EXCEPT !.pending = Dropping(Unowned(b), taken)]

Own(b, j) == [b EXCEPT !.owned = @ \cup {j}, !.pending = Dropping(@, {j})]
Release(b, j) == [b EXCEPT !.owned = @ \ {j}]
NoteWaiting(b, u) == [b EXCEPT !.waiting = @ \cup {u}]
ClearWaiting(b, u) == [b EXCEPT !.waiting = @ \ {u}]
ClaimComplete(b, j) == [b EXCEPT !.shown = @ \cup {j}]

-----------------------------------------------------------------------------
\* The main window

RequestShow(b) == WakeUi([b EXCEPT !.show = TRUE])
TakeShow(b) == [b EXCEPT !.show = FALSE]

\* Mutation: the windows close, their jobs stay owned.
CloseWindowsOnly(b) ==
  [b EXCEPT !.prompts = Dropping(@, b.active), !.active = {},
            !.said = [r \in DOMAIN @ |-> IF r \in b.active THEN "dismiss" ELSE @[r]]]

\* request_close_capture_windows.
RequestCloseWindows(b) ==
  [b EXCEPT !.prompts = Dropping(@, b.active), !.active = {},
            !.said = [r \in DOMAIN @ |-> IF r \in b.active THEN "dismiss" ELSE @[r]],
            !.owned = {}]

\* Mutation: the ids of jobs that wait for a window are forgotten.
HasShownWork(b) == b.show \/ Unclaimed(b) # <<>>

\* has_pending_ui_work.
HasPendingWork(b) ==
  b.show \/ Unclaimed(b) # <<>> \/ b.watch # <<>> \/ Unowned(b) # <<>>
=============================================================================
