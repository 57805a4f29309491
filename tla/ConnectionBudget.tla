-------------------------- MODULE ConnectionBudget --------------------------
(***************************************************************************)
(* The connection budget: one semaphore for all connections, one for each  *)
(* host, both resized in place while connections hold permits.  A          *)
(* connection takes the host's permit, then the global one, waits 50 ms at *)
(* a time, and looks at its job's control in between.                      *)
(*                                                                         *)
(* A semaphore is its number of free permits: who gets a permit that comes *)
(* free is left open, because a wait that is dropped and begun again loses *)
(* its place in the queue.                                                 *)
(***************************************************************************)
EXTENDS Integers, FiniteSets

CONSTANTS
  Tasks,      \* connections: a single-stream transfer or a segment each
  Hosts,      \* host keys
  Global,     \* names the semaphore for all connections
  TotalCap, HostCap, \* what clamp_limits allows (256 and 64 in the code)
  Limits,     \* pairs of limits that the settings ask for
  MaxUpdates  \* bound: update_settings calls

Sems == Hosts \cup {Global}

ASSUME SemsAssumption == Global \notin Hosts /\ IsFiniteSet(Tasks)
ASSUME LimitsAssumption == /\ TotalCap \in Nat \ {0} /\ HostCap \in Nat \ {0}
                           /\ Limits \subseteq Nat \X Nat
                           /\ MaxUpdates \in Nat

VARIABLES
  total, perHost, \* max_total, max_per_host
  created,        \* the hosts whose semaphore is in the map
  free,           \* permits of each semaphore that nobody has
  debt,           \* permits that spawned tasks of resize_semaphore have to take yet
  due,            \* what update_limits has to do yet: permits to take, or, negative, to add
  updater,        \* "idle", "total" or "hosts"; in "hosts" it has the lock of the map
  asked,          \* the clamped limits of the update
  pc, host,       \* each connection: its program point, its host
  stopped,        \* connections whose control says stop
  nupdate

limits == <<total, perHost, updater, asked, nupdate>>
conns  == <<pc, host, stopped>>
vars   == <<limits, created, free, debt, due, conns>>

Least(a, b) == IF a <= b THEN a ELSE b
Most(a, b)  == IF a >= b THEN a ELSE b

\* clamp_limits.
Clamped(l) ==
  LET t == Least(Most(l[1], 1), TotalCap)
  IN <<t, Least(Least(Most(l[2], 1), HostCap), t)>>

Init ==
  /\ \E l \in Limits : asked = Clamped(l)
  /\ total = asked[1] /\ perHost = asked[2]
  /\ created = {}
  /\ free = [s \in Sems |-> IF s = Global THEN total ELSE 0]
  /\ debt = [s \in Sems |-> 0] /\ due = [s \in Sems |-> 0]
  /\ updater = "idle" /\ nupdate = 0
  /\ pc = [t \in Tasks |-> "idle"] /\ host \in [Tasks -> Hosts]
  /\ stopped = {}

\* The permits that a connection has at each program point.
Holds(t, s) ==
  \/ s = host[t] /\ pc[t] \in {"askGlobal", "waitGlobal", "open"}
  \/ s = Global /\ pc[t] = "open"

\* The connection drops what it has.
GiveBack(t) ==
  free' = [s \in Sems |-> IF Holds(t, s) THEN free[s] + 1 ELSE free[s]]
-----------------------------------------------------------------------------
(* acquire_interruptible.                                                   *)

Connect(t) ==
  /\ pc[t] = "idle"
  /\ pc' = [pc EXCEPT ![t] = "lookup"]
  /\ \E h \in Hosts : host' = [host EXCEPT ![t] = h]
  /\ stopped' = stopped \ {t}
  /\ UNCHANGED <<limits, created, free, debt, due>>

Stop(t) ==
  /\ pc[t] # "idle" /\ t \notin stopped
  /\ stopped' = stopped \cup {t}
  /\ UNCHANGED <<limits, created, free, debt, due, pc, host>>

\* host_semaphore: under the lock of the map, a host seen for the first time
\* gets a semaphore of the limit as it is.
Lookup(t) ==
  /\ pc[t] = "lookup" /\ updater # "hosts"
  /\ pc' = [pc EXCEPT ![t] = "askHost"]
  /\ created' = created \cup {host[t]}
  /\ free' = IF host[t] \in created THEN free ELSE [free EXCEPT ![host[t]] = perHost]
  /\ UNCHANGED <<limits, debt, due, host, stopped>>

\* The look at the control before each wait.  Mutation: the permit of the host
\* is not dropped.
CheckKeeps(t) ==
  /\ pc[t] \in {"askHost", "askGlobal"}
  /\ pc' = [pc EXCEPT ![t] = IF t \in stopped THEN "idle"
                              ELSE IF @ = "askHost" THEN "waitHost" ELSE "waitGlobal"]
  /\ UNCHANGED <<limits, created, free, debt, due, host, stopped>>
Check(t) ==
  /\ pc[t] \in {"askHost", "askGlobal"}
  /\ \/ /\ t \in stopped /\ GiveBack(t)
        /\ pc' = [pc EXCEPT ![t] = "idle"]
     \/ /\ t \notin stopped /\ UNCHANGED free
        /\ pc' = [pc EXCEPT ![t] = IF @ = "askHost" THEN "waitHost" ELSE "waitGlobal"]
  /\ UNCHANGED <<limits, created, debt, due, host, stopped>>

WaitsFor(t) == IF pc[t] = "waitHost" THEN host[t] ELSE Global

\* Mutation: a wait goes on until there is a permit.
PollNever(t) ==
  /\ pc[t] \in {"waitHost", "waitGlobal"} /\ free[WaitsFor(t)] > 0
  /\ pc' = [pc EXCEPT ![t] = IF @ = "waitHost" THEN "askHost" ELSE "askGlobal"]
  /\ UNCHANGED <<limits, created, free, debt, due, host, stopped>>
Poll(t) ==
  /\ pc[t] \in {"waitHost", "waitGlobal"}
  /\ pc' = [pc EXCEPT ![t] = IF @ = "waitHost" THEN "askHost" ELSE "askGlobal"]
  /\ UNCHANGED <<limits, created, free, debt, due, host, stopped>>

Granted(t) ==
  /\ pc[t] \in {"waitHost", "waitGlobal"} /\ free[WaitsFor(t)] > 0
  /\ free' = [free EXCEPT ![WaitsFor(t)] = @ - 1]
  /\ pc' = [pc EXCEPT ![t] = IF @ = "waitHost" THEN "askGlobal" ELSE "open"]
  /\ UNCHANGED <<limits, created, debt, due, host, stopped>>

\* The connection ends.
Close(t) ==
  /\ pc[t] = "open" /\ GiveBack(t)
  /\ pc' = [pc EXCEPT ![t] = "idle"]
  /\ UNCHANGED <<limits, created, debt, due, host, stopped>>

\* JoinSet::abort_all drops a segment wherever it is.
Abort(t) ==
  /\ pc[t] \notin {"idle", "open"} /\ GiveBack(t)
  /\ pc' = [pc EXCEPT ![t] = "idle"]
  /\ UNCHANGED <<limits, created, debt, due, host, stopped>>
-----------------------------------------------------------------------------
(* update_limits and resize_semaphore.                                      *)

Update ==
  /\ updater = "idle" /\ nupdate < MaxUpdates
  /\ \E l \in Limits : asked' = Clamped(l)
  /\ total' = asked'[1]
  /\ due' = [due EXCEPT ![Global] = total - asked'[1]]
  /\ updater' = "total" /\ nupdate' = nupdate + 1
  /\ UNCHANGED <<perHost, created, free, debt, conns>>

\* The semaphores that the update is at.
Resizing(s) == \/ s = Global /\ updater = "total"
               \/ s \in Hosts /\ updater = "hosts"

AddPermits(s) ==
  /\ Resizing(s) /\ due[s] < 0
  /\ free' = [free EXCEPT ![s] = @ - due[s]]
  /\ due' = [due EXCEPT ![s] = 0]
  /\ UNCHANGED <<limits, created, debt, conns>>

\* try_acquire and forget.
TakeFree(s) ==
  /\ Resizing(s) /\ due[s] > 0 /\ free[s] > 0
  /\ free' = [free EXCEPT ![s] = @ - 1]
  /\ due' = [due EXCEPT ![s] = @ - 1]
  /\ UNCHANGED <<limits, created, debt, conns>>

\* No permit is free: a task takes the rest as they come back.  Mutation: it
\* is left at that.
SpawnNothing(s) ==
  /\ Resizing(s) /\ due[s] > 0 /\ free[s] = 0
  /\ due' = [due EXCEPT ![s] = 0]
  /\ UNCHANGED <<limits, created, free, debt, conns>>
SpawnReclaim(s) ==
  /\ Resizing(s) /\ due[s] > 0 /\ free[s] = 0
  /\ debt' = [debt EXCEPT ![s] = @ + due[s]]
  /\ due' = [due EXCEPT ![s] = 0]
  /\ UNCHANGED <<limits, created, free, conns>>

Reclaim(s) ==
  /\ debt[s] > 0 /\ free[s] > 0
  /\ debt' = [debt EXCEPT ![s] = @ - 1]
  /\ free' = [free EXCEPT ![s] = @ - 1]
  /\ UNCHANGED <<limits, created, due, conns>>

\* The lock of the map is taken; the limit changes under it.
LockHosts ==
  /\ updater = "total" /\ due[Global] = 0
  /\ perHost' = asked[2]
  /\ due' = [s \in Sems |-> IF s \in created THEN perHost - asked[2] ELSE due[s]]
  /\ updater' = "hosts"
  /\ UNCHANGED <<total, asked, nupdate, created, free, debt, conns>>

Updated ==
  /\ updater = "hosts" /\ \A h \in Hosts : due[h] = 0
  /\ updater' = "idle"
  /\ UNCHANGED <<total, perHost, asked, nupdate, created, free, debt, due, conns>>
-----------------------------------------------------------------------------
Resize == \/ LockHosts \/ Updated
          \/ \E s \in Sems : AddPermits(s) \/ TakeFree(s) \/ SpawnReclaim(s)

Connection(t) == Lookup(t) \/ Check(t) \/ Poll(t)

GrantedOf(s) == \E t \in Tasks : WaitsFor(t) = s /\ Granted(t)

Next == \/ Update \/ Resize
        \/ \E s \in Sems : Reclaim(s)
        \/ \E t \in Tasks : Connect(t) \/ Stop(t) \/ Connection(t) \/ Granted(t) \/ Close(t) \/ Abort(t)

Spec == Init /\ [][Next]_vars
-----------------------------------------------------------------------------
TypeOK ==
  /\ total \in 1 .. TotalCap /\ perHost \in 1 .. HostCap
  /\ created \subseteq Hosts
  /\ free \in [Sems -> Nat] /\ debt \in [Sems -> Nat] /\ due \in [Sems -> Int]
  /\ updater \in {"idle", "total", "hosts"}
  /\ asked \in (1 .. TotalCap) \X (1 .. HostCap)
  /\ pc \in [Tasks -> {"idle", "lookup", "askHost", "waitHost", "askGlobal", "waitGlobal", "open"}]
  /\ host \in [Tasks -> Hosts]
  /\ stopped \subseteq Tasks
  /\ nupdate \in 0 .. MaxUpdates

Limit(s) == IF s = Global THEN total ELSE perHost
Held(s)  == Cardinality({t \in Tasks : Holds(t, s)})

\* No permit is lost or made twice, whatever resizes, stops and ends cross each
\* other: free and held permits are the limit and what is still to be taken.
Conserved == \A s \in created \cup {Global} :
               free[s] + Held(s) = Limit(s) + debt[s] + due[s]

\* A limit that was lowered is reached: what is owed is paid, without waiting
\* for the connections to end all at once.
Settles == \A s \in Sems : debt[s] > 0 ~> debt[s] = 0
=============================================================================
