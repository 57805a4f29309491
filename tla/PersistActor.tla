---------------------------- MODULE PersistActor ----------------------------
(***************************************************************************)
(* The persist actor, the only writer of state.json, with the queue of     *)
(* requests in front of it and the file store behind it: persist_live_jobs,*)
(* persist_actor, persist_until_generation_stable, load_jobs, save_jobs    *)
(* and atomic_write.                                                       *)
(*                                                                         *)
(* The content of the jobs vector is a number that every durable mutation  *)
(* increments; a mutation bumps jobs_generation in the same lock section.  *)
(* The actor writes while others mutate, so a snapshot may be stale when   *)
(* it lands.                                                               *)
(***************************************************************************)
EXTENDS Integers, Sequences

CONSTANTS
  Clients,        \* tasks that await persist_live_jobs
  QueueCap,       \* capacity of the persist_tx channel (64 in the code)
  MaxMutations,   \* bound: mutations in one life of the process
  MaxOld,         \* bound: content of state.json at the first start
  MaxCrashes,     \* bound: process crashes
  MaxFailures     \* bound: failed file operations

ASSUME QueueAssumption == QueueCap \in Nat \ {0}
ASSUME StoreBounds == /\ MaxMutations \in Nat /\ MaxOld \in Nat
                      /\ MaxCrashes \in Nat /\ MaxFailures \in Nat

Torn == -1      \* a temporary file whose write did not finish
Absent == -2    \* no temporary file

VARIABLES
  rows, gen,      \* jobs, jobs_generation
  queue,          \* the channel
  client,         \* "idle", "sending" or "waiting"
  actor,          \* the actor's program point
  req,            \* the client whose request it serves
  snap, snapGen,  \* the cloned jobs and their generation
  ok,             \* the result it is about to send
  file, readable, \* state.json: its content, and whether it can be parsed
  tmp,            \* .state.json.tmp
  loaded,         \* the path is not in unread_state_paths
  up,             \* the process runs
  ncrash, nfail

memory == <<rows, gen>>
call   == <<queue, client, req>>
shot   == <<snap, snapGen>>
store  == <<file, readable, tmp>>
life   == <<loaded, up, ncrash>>
vars   == <<memory, call, actor, shot, ok, store, life, nfail>>

Points == {"recv", "snapshot", "guard", "open", "write", "rename", "compare", "reply"}

\* load_jobs: what cannot be parsed is an error, and the path is latched; main
\* goes on with an empty queue.
LoadedRows(r) == IF r THEN file ELSE 0

Init ==
  /\ file \in 0 .. MaxOld /\ readable \in BOOLEAN /\ tmp = Absent
  /\ loaded = readable
  /\ rows = LoadedRows(readable) /\ gen = 0
  /\ queue = <<>> /\ client = [c \in Clients |-> "idle"] /\ req \in Clients
  /\ actor = "recv"
  /\ snap = 0 /\ snapGen = 0 /\ ok = FALSE
  /\ up = TRUE /\ ncrash = 0 /\ nfail = 0

\* Any lock section with a durable mutation: it bumps jobs_generation.
Mutate ==
  /\ up /\ gen < MaxMutations
  /\ rows' = rows + 1 /\ gen' = gen + 1
  /\ UNCHANGED <<call, actor, shot, ok, store, life, nfail>>
-----------------------------------------------------------------------------
(* persist_live_jobs: send, which waits while the channel is full, then     *)
(* wait for the acknowledgement.                                            *)

Ask(c) ==
  /\ up /\ client[c] = "idle"
  /\ client' = [client EXCEPT ![c] = "sending"]
  /\ UNCHANGED <<memory, queue, req, actor, shot, ok, store, life, nfail>>

Send(c) ==
  /\ client[c] = "sending" /\ Len(queue) < QueueCap
  /\ queue' = Append(queue, c)
  /\ client' = [client EXCEPT ![c] = "waiting"]
  /\ UNCHANGED <<memory, req, actor, shot, ok, store, life, nfail>>
-----------------------------------------------------------------------------
(* persist_actor and persist_until_generation_stable.                       *)

Recv ==
  /\ actor = "recv" /\ queue # <<>>
  /\ req' = Head(queue) /\ queue' = Tail(queue)
  /\ actor' = "snapshot"
  /\ UNCHANGED <<memory, client, shot, ok, store, life, nfail>>

TakeSnapshot ==
  /\ actor = "snapshot"
  /\ snap' = rows /\ snapGen' = gen
  /\ actor' = "guard"
  /\ UNCHANGED <<memory, call, ok, store, life, nfail>>

\* Mutation: the first write that lands is acknowledged.
CompareNever ==
  /\ actor = "compare"
  /\ actor' = "reply" /\ ok' = TRUE
  /\ UNCHANGED <<memory, call, shot, store, life, nfail>>
Compare ==
  /\ actor = "compare"
  /\ IF gen = snapGen THEN actor' = "reply" /\ ok' = TRUE
     ELSE actor' = "snapshot" /\ UNCHANGED ok
  /\ UNCHANGED <<memory, call, shot, store, life, nfail>>

\* Mutation: an error is not sent to the one who waits.
ReplyIfOk ==
  /\ actor = "reply"
  /\ client' = IF ok THEN [client EXCEPT ![req] = "idle"] ELSE client
  /\ actor' = "recv"
  /\ UNCHANGED <<memory, queue, req, shot, ok, store, life, nfail>>
Reply ==
  /\ actor = "reply"
  /\ client' = [client EXCEPT ![req] = "idle"]
  /\ actor' = "recv"
  /\ UNCHANGED <<memory, queue, req, shot, ok, store, life, nfail>>
-----------------------------------------------------------------------------
(* save_jobs and atomic_write, on a blocking thread.                        *)

WriteFrame == UNCHANGED <<memory, call, shot, life>>
Failed == /\ nfail < MaxFailures /\ nfail' = nfail + 1
          /\ actor' = "reply" /\ ok' = FALSE

\* A file that this process did not load, or that cannot be parsed now, is not
\* replaced.
Refuses == ~loaded \/ ~readable
Guard ==
  /\ actor = "guard"
  /\ IF Refuses THEN actor' = "reply" /\ ok' = FALSE ELSE actor' = "open" /\ UNCHANGED ok
  /\ UNCHANGED <<store, nfail>> /\ WriteFrame

\* Mutation: the file is written in place.
OpenInPlace ==
  /\ actor = "open"
  /\ readable' = FALSE /\ tmp' = Torn /\ actor' = "write"
  /\ UNCHANGED <<file, ok, nfail>> /\ WriteFrame
OpenTemp ==
  /\ actor = "open"
  /\ \/ tmp' = Torn /\ actor' = "write" /\ UNCHANGED <<ok, nfail>>
     \/ Failed /\ UNCHANGED tmp
  /\ UNCHANGED <<file, readable>> /\ WriteFrame

\* write_all and sync_all.
WriteTemp ==
  /\ actor = "write"
  /\ \/ tmp' = snap /\ actor' = "rename" /\ UNCHANGED <<ok, nfail>>
     \/ Failed /\ UNCHANGED tmp
  /\ UNCHANGED <<file, readable>> /\ WriteFrame

Rename ==
  /\ actor = "rename"
  /\ \/ file' = tmp /\ readable' = TRUE /\ actor' = "compare" /\ UNCHANGED <<ok, nfail>>
     \/ Failed /\ UNCHANGED <<file, readable>>
  /\ tmp' = Absent
  /\ WriteFrame
-----------------------------------------------------------------------------
(* The process dies and starts again; somebody breaks or mends the file.    *)

Crash ==
  /\ up /\ ncrash < MaxCrashes
  /\ up' = FALSE /\ ncrash' = ncrash + 1
  /\ queue' = <<>> /\ client' = [c \in Clients |-> "idle"]
  /\ actor' = "recv"
  /\ UNCHANGED <<memory, req, shot, ok, store, loaded, nfail>>

Start ==
  /\ ~up /\ up' = TRUE
  /\ loaded' = readable
  /\ rows' = LoadedRows(readable) /\ gen' = 0
  /\ UNCHANGED <<call, actor, shot, ok, store, ncrash, nfail>>

Damage ==
  /\ nfail < MaxFailures /\ nfail' = nfail + 1
  /\ readable /\ readable' = FALSE
  /\ UNCHANGED <<memory, call, actor, shot, ok, file, tmp, life>>

Repair ==
  /\ ~readable /\ readable' = TRUE
  /\ UNCHANGED <<memory, call, actor, shot, ok, file, tmp, life, nfail>>
-----------------------------------------------------------------------------
Actor == \/ Recv \/ TakeSnapshot \/ Guard \/ OpenTemp \/ WriteTemp \/ Rename
         \/ Compare \/ Reply

Next == \/ Mutate \/ Actor \/ Crash \/ Start \/ Damage \/ Repair
        \/ \E c \in Clients : Ask(c) \/ Send(c)

Spec == Init /\ [][Next]_vars

\* The actor runs whenever it can, and the channel of tokio serves the tasks
\* that wait for room in the order they came: one that can send again and again
\* does.
FairSpec == Spec /\ WF_vars(Actor) /\ \A c \in Clients : SF_vars(Send(c))
-----------------------------------------------------------------------------
TypeOK ==
  /\ rows \in Nat /\ gen \in 0 .. MaxMutations
  /\ queue \in Seq(Clients) /\ Len(queue) <= QueueCap
  /\ client \in [Clients -> {"idle", "sending", "waiting"}]
  /\ req \in Clients /\ actor \in Points
  /\ snap \in Nat /\ snapGen \in Nat /\ ok \in BOOLEAN
  /\ file \in Nat /\ readable \in BOOLEAN /\ tmp \in Nat \cup {Torn, Absent}
  /\ loaded \in BOOLEAN /\ up \in BOOLEAN
  /\ ncrash \in 0 .. MaxCrashes /\ nfail \in 0 .. MaxFailures

\* The engine's view: a request is saved when the generations agreed.
Asks == [c \in Clients |->
           IF client[c] = "idle" THEN "idle"
           ELSE IF c = req /\ actor = "reply" /\ ok /\ client[c] = "waiting" THEN "saved"
           ELSE "asked"]
Store == INSTANCE StateStore WITH mem <- rows, disk <- file, open <- up /\ loaded, asks <- Asks

\* The actor is the store the engine relies on: no stale snapshot lands last,
\* an acknowledged request found all of the queue on disk, and a file that was
\* not loaded is never replaced.
Implements == Store!Spec

\* Only somebody outside leaves state.json unreadable: no crash and no failed
\* write does.
ReadableKept == [][readable /\ ~readable' => Damage]_vars

\* Every request is answered, once the mutations come to an end.
Answered == \A c \in Clients : client[c] # "idle" ~> client[c] = "idle"
=============================================================================
