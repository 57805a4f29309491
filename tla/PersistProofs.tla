--------------------------- MODULE PersistProofs ---------------------------
(* PersistActor implements StateStore, for every set of clients, every     *)
(* capacity of the channel and every bound.                                *)
EXTENDS PersistActor, SequenceTheorems, TLAPS

USE QueueAssumption, StoreBounds
-----------------------------------------------------------------------------
(* The inductive invariant.                                                 *)

\* A request in the channel has one client, who waits.
Queued == \A i \in 1 .. Len(queue) :
            /\ client[queue[i]] = "waiting"
            /\ \A k \in 1 .. Len(queue) : queue[i] = queue[k] => i = k

\* So has the request that the actor serves, and it left the channel.
Served == actor # "recv" => /\ client[req] = "waiting"
                            /\ \A i \in 1 .. Len(queue) : queue[i] # req

\* Nothing of a dead process goes on.
Halted == ~up => /\ actor = "recv" /\ queue = <<>>
                 /\ client = [c \in Clients |-> "idle"]

\* Rows and generation move together, so a generation that has not moved means
\* that the rows are those of the snapshot.
Aligned == actor \in {"guard", "open", "write", "rename", "compare"} =>
             /\ snapGen <= gen
             /\ rows - snap = gen - snapGen

\* What is stored is not newer than memory, nor than a snapshot on its way.
Behind == loaded => /\ file <= rows
                    /\ actor \in {"guard", "open", "write", "rename"} => file <= snap

\* Past the guard, the file is one that this process loaded.
Allowed == actor \in {"open", "write", "rename", "compare"} => loaded

\* What the program points after a write say of the two files.
Landed == /\ actor = "rename" => tmp = snap
          /\ actor = "compare" => file = snap

IInv == TypeOK /\ Queued /\ Served /\ Halted /\ Aligned /\ Behind /\ Allowed /\ Landed
-----------------------------------------------------------------------------
LEMMA CountStep ==
  ASSUME NEW n, NEW m \in Nat, n \in 0 .. m, n < m PROVE n + 1 \in 0 .. m
  OBVIOUS

LEMMA FailureCounted ==
  ASSUME TypeOK, nfail < MaxFailures, nfail' = nfail + 1 PROVE nfail' \in 0 .. MaxFailures
  BY CountStep DEF TypeOK

LEMMA TypeStep == ASSUME TypeOK, Landed, [Next]_vars PROVE TypeOK'
<1> USE DEF TypeOK, Points
<1>1. CASE Mutate
  BY <1>1 DEF Mutate, call, shot, store, life
<1>2. ASSUME NEW c \in Clients, Ask(c) PROVE TypeOK'
  BY <1>2 DEF Ask, memory, shot, store, life
<1>3. ASSUME NEW c \in Clients, Send(c) PROVE TypeOK'
  <2>1. queue' \in Seq(Clients) /\ Len(queue') = Len(queue) + 1
    BY <1>3, AppendProperties DEF Send
  <2>2. Len(queue') <= QueueCap
    BY <2>1, <1>3, LenProperties DEF Send
  <2> QED
    BY <1>3, <2>1, <2>2 DEF Send, memory, shot, store, life
<1>4. CASE Recv
  <2>1. Head(queue) \in Clients /\ Tail(queue) \in Seq(Clients)
        /\ Len(Tail(queue)) = Len(queue) - 1
    BY <1>4, HeadTailProperties DEF Recv
  <2>2. Len(queue') <= QueueCap
    BY <1>4, <2>1, LenProperties DEF Recv
  <2> QED
    BY <1>4, <2>1, <2>2 DEF Recv, memory, shot, store, life
<1>5. CASE TakeSnapshot
  BY <1>5 DEF TakeSnapshot, memory, call, store, life
<1>11. CASE Compare
  BY <1>11 DEF Compare, memory, call, shot, store, life
<1>12. CASE Reply
  BY <1>12 DEF Reply, memory, shot, store, life
<1>6. CASE Guard
  BY <1>6 DEF Guard, WriteFrame, memory, call, shot, store, life
<1>13. CASE OpenTemp
  <2>1. nfail' \in 0 .. MaxFailures
    BY <1>13, FailureCounted DEF OpenTemp, Failed
  <2> QED
    BY <1>13, <2>1 DEF OpenTemp, Failed, WriteFrame, memory, call, shot, life
<1>14. CASE WriteTemp
  <2>1. nfail' \in 0 .. MaxFailures
    BY <1>14, FailureCounted DEF WriteTemp, Failed
  <2> QED
    BY <1>14, <2>1 DEF WriteTemp, Failed, WriteFrame, memory, call, shot, life
<1>7. CASE Rename
  <2>1. tmp \in Nat
    BY <1>7 DEF Rename, Landed
  <2>2. nfail' \in 0 .. MaxFailures
    BY <1>7, FailureCounted DEF Rename, Failed
  <2> QED
    BY <1>7, <2>1, <2>2 DEF Rename, Failed, WriteFrame, memory, call, shot, life
<1>8. CASE Crash
  <2>1. ncrash' \in 0 .. MaxCrashes
    <3>1. ncrash \in 0 .. MaxCrashes /\ ncrash < MaxCrashes /\ ncrash' = ncrash + 1
      BY <1>8 DEF Crash
    <3> QED
      BY ONLY <3>1, StoreBounds, CountStep
  <2>2. queue' \in Seq(Clients) /\ Len(queue') <= QueueCap
    BY <1>8 DEF Crash
  <2>3. client' \in [Clients -> {"idle", "sending", "waiting"}] /\ actor' \in Points
    BY <1>8 DEF Crash
  <2> QED
    BY <1>8, <2>1, <2>2, <2>3 DEF Crash, memory, shot, store
<1>15. CASE Start
  BY <1>15 DEF Start, LoadedRows, call, shot, store
<1>9. CASE Damage
  <2>1. nfail' \in 0 .. MaxFailures
    BY <1>9, FailureCounted DEF Damage
  <2> QED
    BY <1>9, <2>1 DEF Damage, memory, call, shot, life
<1>16. CASE Repair
  BY <1>16 DEF Repair, memory, call, shot, life
<1>10. CASE UNCHANGED vars
  BY <1>10 DEF vars, memory, call, shot, store, life
<1> QED
  BY <1>1, <1>2, <1>3, <1>4, <1>5, <1>6, <1>7, <1>8, <1>9, <1>10,
     <1>11, <1>12, <1>13, <1>14, <1>15, <1>16 DEF Next, Actor
-----------------------------------------------------------------------------
(* The channel and the request being served.                                *)

LEMMA ChannelStep ==
  ASSUME TypeOK, Queued, Served, Halted, [Next]_vars
  PROVE  Queued' /\ Served' /\ Halted'
<1>0. Len(queue) \in Nat
  BY LenProperties DEF TypeOK
<1>1. ASSUME UNCHANGED <<queue, client, req, up>>, actor # "recv" \/ actor' = actor
      PROVE  Queued' /\ Served' /\ Halted'
  BY <1>1 DEF Queued, Served, Halted
<1>2. ASSUME NEW c \in Clients, Ask(c) PROVE Queued' /\ Served' /\ Halted'
  <2>1. UNCHANGED <<queue, req, actor, up>> /\ up /\ client[c] = "idle"
    BY <1>2 DEF Ask, life
  <2>2. \A d \in Clients : client[d] = "waiting" => client'[d] = "waiting"
    BY <1>2 DEF Ask, TypeOK
  <2>3. \A i \in 1 .. Len(queue) : queue[i] \in Clients
    BY ElementOfSeq DEF TypeOK
  <2> QED
    BY <2>1, <2>2, <2>3 DEF Queued, Served, Halted, TypeOK
<1>3. ASSUME NEW c \in Clients, Send(c) PROVE Queued' /\ Served' /\ Halted'
  <2>1. UNCHANGED <<req, actor, up>> /\ client[c] = "sending"
    BY <1>3 DEF Send, life
  <2>2. /\ Len(queue') = Len(queue) + 1 /\ queue'[Len(queue) + 1] = c
        /\ \A i \in 1 .. Len(queue) : queue'[i] = queue[i]
    BY <1>3, AppendProperties DEF Send, TypeOK
  <2>3. \A i \in 1 .. Len(queue) : queue[i] \in Clients /\ queue[i] # c
    BY <2>1, ElementOfSeq DEF TypeOK, Queued
  <2>4. client'[c] = "waiting" /\ \A d \in Clients \ {c} : client'[d] = client[d]
    BY <1>3 DEF Send, TypeOK
  <2>5. Queued'
    BY <1>0, <2>2, <2>3, <2>4 DEF Queued
  <2>6. Served'
    BY <1>0, <2>1, <2>2, <2>3, <2>4 DEF Served, TypeOK
  <2>7. up
    BY <2>1 DEF Halted, TypeOK
  <2> QED
    BY <2>1, <2>5, <2>6, <2>7 DEF Halted
<1>4. ASSUME Recv PROVE Queued' /\ Served' /\ Halted'
  <2>1. UNCHANGED <<client, up>> /\ queue # <<>> /\ req' = Head(queue) /\ queue' = Tail(queue)
    BY <1>4 DEF Recv, life
  <2>2. /\ Len(queue') = Len(queue) - 1 /\ req' = queue[1] /\ Len(queue) >= 1
        /\ \A i \in 1 .. Len(queue') : queue'[i] = queue[i + 1]
    BY <1>0, <2>1, HeadTailProperties, LenProperties, EmptySeq DEF TypeOK
  <2>3. Queued'
    BY <1>0, <2>1, <2>2 DEF Queued
  <2>4. Served'
    BY <1>0, <2>1, <2>2 DEF Queued, Served
  <2> QED
    BY <2>1, <2>3, <2>4 DEF Halted
<1>5. ASSUME Reply PROVE Queued' /\ Served' /\ Halted'
  <2>1. UNCHANGED <<queue, req, up>> /\ actor = "reply" /\ actor' = "recv"
    BY <1>5 DEF Reply, life
  <2>2. \A i \in 1 .. Len(queue) : queue[i] \in Clients /\ queue[i] # req
    BY <2>1, ElementOfSeq DEF TypeOK, Served
  <2>3. \A d \in Clients \ {req} : client'[d] = client[d]
    BY <1>5 DEF Reply, TypeOK
  <2> QED
    BY <2>1, <2>2, <2>3 DEF Queued, Served, Halted
<1>6. ASSUME Crash PROVE Queued' /\ Served' /\ Halted'
  BY <1>6 DEF Crash, Queued, Served, Halted
<1>7. ASSUME Start PROVE Queued' /\ Served' /\ Halted'
  BY <1>7 DEF Start, call, Queued, Served, Halted
<1>8. CASE Mutate \/ Damage \/ Repair \/ UNCHANGED vars
  BY <1>1, <1>8 DEF Mutate, Damage, Repair, vars, call, life
<1>9. CASE TakeSnapshot \/ Compare
  BY <1>1, <1>9 DEF TakeSnapshot, Compare, call, life
<1>10. CASE Guard \/ OpenTemp \/ WriteTemp \/ Rename
  BY <1>1, <1>10 DEF Guard, OpenTemp, WriteTemp, Rename, WriteFrame, call, life
<1> QED
  BY <1>2, <1>3, <1>4, <1>5, <1>6, <1>7, <1>8, <1>9, <1>10 DEF Next, Actor
-----------------------------------------------------------------------------
(* Memory, snapshot and file.                                               *)

LEMMA StoreStep ==
  ASSUME TypeOK, Halted, Aligned, Behind, Allowed, Landed, [Next]_vars
  PROVE  Aligned' /\ Behind' /\ Allowed' /\ Landed'
<1> USE DEF Aligned, Behind, Allowed, Landed
<1>1. CASE Mutate
  BY <1>1 DEF Mutate, shot, store, life, TypeOK
<1>2. CASE \E c \in Clients : Ask(c) \/ Send(c)
  BY <1>2 DEF Ask, Send, memory, shot, store, life
<1>3. CASE Recv \/ Reply
  BY <1>3 DEF Recv, Reply, memory, shot, store, life
<1>4. CASE TakeSnapshot
  BY <1>4 DEF TakeSnapshot, memory, store, life, TypeOK
<1>5. CASE Compare
  BY <1>5 DEF Compare, memory, shot, store, life
<1>6. CASE Guard
  BY <1>6 DEF Guard, Refuses, WriteFrame, memory, shot, store, life
<1>7. CASE OpenTemp
  BY <1>7 DEF OpenTemp, Failed, WriteFrame, memory, shot, life
<1>8. CASE WriteTemp
  BY <1>8 DEF WriteTemp, Failed, WriteFrame, memory, shot, life
<1>9. CASE Rename
  BY <1>9 DEF Rename, Failed, WriteFrame, memory, shot, life, TypeOK
<1>10. CASE Crash
  BY <1>10 DEF Crash, memory, shot, store
<1>11. CASE Start
  BY <1>11 DEF Start, LoadedRows, Halted, shot, store, TypeOK
<1>12. CASE Damage \/ Repair \/ UNCHANGED vars
  BY <1>12 DEF Damage, Repair, vars, memory, shot, store, life
<1> QED
  BY <1>1, <1>2, <1>3, <1>4, <1>5, <1>6, <1>7, <1>8, <1>9, <1>10, <1>11, <1>12
  DEF Next, Actor
-----------------------------------------------------------------------------
LEMMA InitInv == Init => IInv
<1> SUFFICES ASSUME Init PROVE IInv
  OBVIOUS
<1>1. TypeOK
  <2>1. file \in Nat /\ rows \in Nat
    BY DEF Init, LoadedRows
  <2>2. queue \in Seq(Clients) /\ Len(queue) <= QueueCap
    BY DEF Init
  <2>3. client \in [Clients -> {"idle", "sending", "waiting"}] /\ actor \in Points
    BY DEF Init, Points
  <2>4. gen \in 0 .. MaxMutations /\ ncrash \in 0 .. MaxCrashes /\ nfail \in 0 .. MaxFailures
    BY DEF Init
  <2> QED
    BY <2>1, <2>2, <2>3, <2>4 DEF Init, TypeOK
<1>2. Queued /\ Served /\ Halted
  BY DEF Init, Queued, Served, Halted
<1>3. Aligned /\ Behind /\ Allowed /\ Landed
  BY DEF Init, LoadedRows, Aligned, Behind, Allowed, Landed
<1> QED
  BY <1>1, <1>2, <1>3 DEF IInv

LEMMA Invariance == Spec => []IInv
<1>1. IInv /\ [Next]_vars => IInv'
  BY TypeStep, ChannelStep, StoreStep DEF IInv
<1> QED
  BY InitInv, <1>1, PTL DEF Spec

(* Every variable of the actor keeps its type: no torn temporary file is    *)
(* ever renamed over state.json.                                            *)
THEOREM TypesKept == Spec => []TypeOK
<1>1. IInv => TypeOK
  BY DEF IInv
<1> QED
  BY Invariance, <1>1, PTL
-----------------------------------------------------------------------------
(* The refinement.                                                          *)

\* Asks depends on these alone.
LEMMA AsksKept ==
  ASSUME UNCHANGED <<client, req>>, UNCHANGED ok,
         actor = "reply" <=> actor' = "reply"
  PROVE  Asks' = Asks
BY DEF Asks

LEMMA InitRefined == Init => Store!Init
<1> SUFFICES ASSUME Init PROVE Store!Init
  OBVIOUS
<1>1. file \in Nat
  BY DEF Init
<1>2. up = TRUE /\ loaded = readable /\ readable \in BOOLEAN /\ rows = LoadedRows(readable)
  BY DEF Init
<1>3. Asks = [c \in Clients |-> "idle"]
  BY DEF Init, Asks
<1> QED
  BY <1>1, <1>2, <1>3 DEF Store!Init, LoadedRows

LEMMA StepRefined ==
  ASSUME IInv, IInv', [Next]_vars
  PROVE  [Store!Next]_(Store!vars)
<1> USE DEF IInv
<1>1. ASSUME Mutate PROVE Store!Mutate
  <2>1. Asks' = Asks
    BY <1>1, AsksKept DEF Mutate, call
  <2> QED
    BY <1>1, <2>1 DEF Mutate, Store!Mutate, store, life
<1>2. ASSUME NEW c \in Clients, Ask(c) PROVE Store!Ask(c)
  <2>1. client[c] = "idle" /\ client' = [client EXCEPT ![c] = "sending"]
        /\ UNCHANGED <<req, actor, ok, rows, file, up, loaded>>
    BY <1>2 DEF Ask, memory, store, life
  <2>2. Asks[c] = "idle" /\ Asks' = [Asks EXCEPT ![c] = "asked"]
    BY <2>1 DEF Asks, TypeOK
  <2> QED
    BY <2>1, <2>2 DEF Store!Ask
<1>3. ASSUME NEW c \in Clients, Send(c) PROVE UNCHANGED Store!vars
  <2>1. client[c] = "sending" /\ client' = [client EXCEPT ![c] = "waiting"]
        /\ UNCHANGED <<req, actor, ok, rows, file, up, loaded>>
    BY <1>3 DEF Send, memory, store, life
  <2>2. actor = "reply" => c # req
    BY <2>1 DEF Served
  <2>3. Asks' = Asks
    BY <2>1, <2>2 DEF Asks, TypeOK
  <2> QED
    BY <2>1, <2>3 DEF Store!vars
<1>4. ASSUME Recv PROVE UNCHANGED Store!vars
  <2>1. Asks' = Asks
    BY <1>4 DEF Recv, Asks
  <2> QED
    BY <1>4, <2>1 DEF Recv, Store!vars, memory, store, life
<1>5. ASSUME Compare PROVE Store!Save(req) \/ UNCHANGED Store!vars
  <2>1. UNCHANGED <<client, req, rows, file, up, loaded>> /\ actor = "compare"
    BY <1>5 DEF Compare, memory, call, store, life
  <2>2. CASE gen = snapGen
    <3>1. ok' = TRUE /\ actor' = "reply"
      BY <1>5, <2>2 DEF Compare
    <3>2. file = rows
      BY <2>1, <2>2 DEF Aligned, Landed, TypeOK
    <3>3. up /\ loaded
      BY <2>1 DEF Halted, Allowed
    <3>4. client[req] = "waiting" /\ req \in Clients
      BY <2>1 DEF Served, TypeOK
    <3>5. Asks[req] = "asked" /\ Asks' = [Asks EXCEPT ![req] = "saved"]
      BY <2>1, <3>1, <3>4 DEF Asks
    <3> QED
      BY <2>1, <3>2, <3>3, <3>5 DEF Store!Save
  <2>3. CASE gen # snapGen
    <3>1. ok' = ok /\ actor' = "snapshot"
      BY <1>5, <2>3 DEF Compare
    <3>2. Asks' = Asks
      BY <2>1, <3>1 DEF Asks
    <3> QED
      BY <2>1, <3>2 DEF Store!vars
  <2> QED
    BY <2>2, <2>3
<1>6. ASSUME Reply PROVE Store!Confirm(req) \/ Store!Refuse(req)
  <2>1. UNCHANGED <<req, ok, rows, file, up, loaded>> /\ actor = "reply" /\ actor' = "recv"
        /\ client' = [client EXCEPT ![req] = "idle"]
    BY <1>6 DEF Reply, memory, store, life
  <2>2. client[req] = "waiting" /\ req \in Clients
    BY <2>1 DEF Served, TypeOK
  <2>3. Asks[req] \in {"asked", "saved"}
    BY <2>2 DEF Asks
  <2>4. Asks' = [Asks EXCEPT ![req] = "idle"]
    BY <2>1, <2>2 DEF Asks, TypeOK
  <2> QED
    BY <2>1, <2>3, <2>4 DEF Store!Confirm, Store!Refuse
<1>7. ASSUME TakeSnapshot PROVE UNCHANGED Store!vars
  <2>1. Asks' = Asks
    BY <1>7, AsksKept DEF TakeSnapshot, call
  <2> QED
    BY <1>7, <2>1 DEF TakeSnapshot, Store!vars, memory, store, life
\* A step that ends in an error leaves the request asked: ok is FALSE.
<1>8. ASSUME UNCHANGED <<client, req>>, actor \notin {"reply", "recv"},
             \/ actor' # "reply" /\ ok' = ok
             \/ actor' = "reply" /\ ok' = FALSE
      PROVE  Asks' = Asks
  BY <1>8 DEF Asks
<1>9. ASSUME Guard \/ OpenTemp \/ WriteTemp PROVE UNCHANGED Store!vars
  <2>1. Asks' = Asks
    BY <1>8, <1>9 DEF Guard, OpenTemp, WriteTemp, Failed, WriteFrame, call
  <2> QED
    BY <1>9, <2>1 DEF Guard, OpenTemp, WriteTemp, WriteFrame, Store!vars, memory, store, life
<1>10. ASSUME Rename PROVE Store!Land \/ UNCHANGED Store!vars
  <2>1. UNCHANGED <<client, req, rows, up, loaded>> /\ actor = "rename"
    BY <1>10 DEF Rename, WriteFrame, memory, call, life
  <2>2. Asks' = Asks
    BY <1>8, <1>10, <2>1 DEF Rename, Failed
  <2>3. CASE file' = file
    BY <2>1, <2>2, <2>3 DEF Store!vars
  <2>4. CASE file' = tmp /\ actor' = "compare"
    <3>1. up /\ loaded
      BY <2>1 DEF Halted, Allowed
    <3>2. file <= file' /\ file' <= rows
      BY <2>1, <2>4, <3>1 DEF Behind, Landed, TypeOK
    <3> QED
      BY <2>1, <2>2, <3>1, <3>2 DEF Store!Land
  <2> QED
    BY <1>10, <2>3, <2>4 DEF Rename
<1>11. ASSUME Crash PROVE Store!Die
  <2>1. Asks' = [c \in Clients |-> "idle"]
    BY <1>11 DEF Crash, Asks
  <2> QED
    BY <1>11, <2>1 DEF Crash, Store!Die, memory, store
<1>12. ASSUME Start PROVE Store!Load
  <2>1. Asks' = Asks
    BY <1>12, AsksKept DEF Start, call
  <2>2. ~up /\ up' = TRUE /\ loaded' = readable /\ readable \in BOOLEAN
        /\ rows' = LoadedRows(readable) /\ file' = file
    BY <1>12 DEF Start, store, TypeOK
  <2> QED
    BY <2>1, <2>2 DEF Store!Load, LoadedRows
<1>13. ASSUME Damage \/ Repair \/ UNCHANGED vars PROVE UNCHANGED Store!vars
  <2>1. UNCHANGED <<client, req, actor, ok, rows, file, up, loaded>>
    BY <1>13 DEF Damage, Repair, vars, memory, call, store, life
  <2> QED
    BY <2>1, AsksKept DEF Store!vars
<1>14. req \in Clients
  BY DEF TypeOK
<1> QED
  BY <1>1, <1>2, <1>3, <1>4, <1>5, <1>6, <1>7, <1>9, <1>10, <1>11, <1>12, <1>13, <1>14
  DEF Next, Actor, Store!Next

(* The persist actor is the store that the engine relies on: what it        *)
(* acknowledges was all of the queue in memory at one moment since the      *)
(* request, state.json never goes back to an older queue, and a file that   *)
(* was not loaded is never replaced, whoever mutates, crashes or fails.     *)
THEOREM StoreImplemented == Spec => Implements
<1>1. IInv /\ IInv' /\ [Next]_vars => [Store!Next]_(Store!vars)
  BY StepRefined
<1> QED
  BY InitRefined, Invariance, <1>1, PTL DEF Spec, Implements, Store!Spec

-----------------------------------------------------------------------------
\* No crash and no write, whether it fails or lands, leaves state.json unreadable: atomic_write
\* replaces the file only by one that is written and synced.
THEOREM ReadableStays == Spec => ReadableKept
<1>1. ASSUME [Next]_vars PROVE [readable /\ ~readable' => Damage]_vars
  <2>1. CASE Actor
    BY <2>1 DEF Actor, Recv, TakeSnapshot, Guard, OpenTemp, WriteTemp, Rename, Compare, Reply,
                store, call, shot
  <2>2. CASE Mutate \/ Crash \/ Start \/ Repair \/ \E c \in Clients : Ask(c) \/ Send(c)
    BY <2>2 DEF Mutate, Crash, Start, Repair, Ask, Send, store
  <2> QED
    BY <1>1, <2>1, <2>2 DEF Next
<1> QED
  BY <1>1, PTL DEF Spec, ReadableKept
=============================================================================
