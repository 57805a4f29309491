---------------------------- MODULE LimitsProofs ----------------------------
(* No permit of the connection budget is lost or made twice, for every set *)
(* of connections and hosts, all limits and any number of updates.  The    *)
(* limits together keep what each promises alone: the bucket that is       *)
(* filled when somebody looks implements the one that fills all the time.  *)
EXTENDS Limits, FiniteSetTheorems, TLAPS

USE SemsAssumption, LimitsAssumption
-----------------------------------------------------------------------------
(* The connection budget: the inductive invariant.                          *)

\* Outside its phases the update owes nothing to a semaphore.
DueInPhase == /\ updater # "total" => due[Global] = 0
              /\ updater # "hosts" => \A h \in Hosts : due[h] = 0

\* A host that is not in the map has no semaphore and no connection.
Untouched == /\ \A h \in Hosts \ created : debt[h] = 0 /\ due[h] = 0
             /\ \A t \in Tasks : pc[t] \notin {"idle", "lookup"} => host[t] \in created

IInv == TypeOK /\ Conserved /\ DueInPhase /\ Untouched
-----------------------------------------------------------------------------
(* How many hold a permit.                                                  *)

LEMMA HeldNat == ASSUME NEW s PROVE Held(s) \in Nat
<1> DEFINE H == {t \in Tasks : Holds(t, s)}
<1>1. H \subseteq Tasks
  OBVIOUS
<1>2. IsFiniteSet(H)
  BY <1>1, FS_Subset
<1> QED
  BY <1>2, FS_CardinalityType DEF Held

LEMMA HeldSame ==
  ASSUME NEW s, \A t \in Tasks : Holds(t, s)' <=> Holds(t, s)
  PROVE  Held(s)' = Held(s)
<1>1. {t \in Tasks : Holds(t, s)'} = {t \in Tasks : Holds(t, s)}
  OBVIOUS
<1> QED
  BY <1>1 DEF Held

LEMMA HeldMore ==
  ASSUME NEW s, NEW t \in Tasks, ~Holds(t, s), Holds(t, s)',
         \A u \in Tasks \ {t} : Holds(u, s)' <=> Holds(u, s)
  PROVE  Held(s)' = Held(s) + 1
<1> DEFINE H == {u \in Tasks : Holds(u, s)}
<1>1. {u \in Tasks : Holds(u, s)'} = H \cup {t} /\ t \notin H
  OBVIOUS
<1>2. IsFiniteSet(H)
  BY FS_Subset
<1>3. Cardinality(H \cup {t}) = Cardinality(H) + 1
  BY <1>1, <1>2, FS_AddElement
<1> QED
  BY <1>1, <1>3 DEF Held

LEMMA HeldLess ==
  ASSUME NEW s, NEW t \in Tasks, Holds(t, s), ~Holds(t, s)',
         \A u \in Tasks \ {t} : Holds(u, s)' <=> Holds(u, s)
  PROVE  Held(s)' = Held(s) - 1
<1> DEFINE H == {u \in Tasks : Holds(u, s)}
<1>1. {u \in Tasks : Holds(u, s)'} = H \ {t} /\ t \in H
  OBVIOUS
<1>2. IsFiniteSet(H)
  BY FS_Subset
<1>3. Cardinality(H \ {t}) = Cardinality(H) - 1
  BY <1>1, <1>2, FS_RemoveElement
<1> QED
  BY <1>1, <1>3 DEF Held
-----------------------------------------------------------------------------
LEMMA ClampedTyped ==
  ASSUME NEW l \in Limits
  PROVE  /\ Clamped(l) \in (1 .. TotalCap) \X (1 .. HostCap)
         /\ Clamped(l)[1] \in 1 .. TotalCap /\ Clamped(l)[2] \in 1 .. HostCap
<1> DEFINE a == Least(Most(l[1], 1), TotalCap)
           b == Least(Least(Most(l[2], 1), HostCap), a)
<1>1. l[1] \in Nat /\ l[2] \in Nat
  OBVIOUS
<1>2. a \in 1 .. TotalCap
  BY <1>1 DEF Least, Most
<1>3. b \in 1 .. HostCap
  BY <1>1, <1>2 DEF Least, Most
<1>4. Clamped(l) = <<a, b>>
  BY DEF Clamped
<1> HIDE DEF a, b
<1> QED
  BY <1>2, <1>3, <1>4

LEMMA GiveBackTyped ==
  ASSUME TypeOK, NEW t \in Tasks, GiveBack(t) PROVE free' \in [Sems -> Nat]
BY DEF TypeOK, GiveBack

LEMMA WaitedIsSem == ASSUME TypeOK, NEW t \in Tasks PROVE WaitsFor(t) \in Sems
BY DEF TypeOK, WaitsFor, Sems

LEMMA TypeStep == ASSUME TypeOK, [Next]_vars PROVE TypeOK'
<1> USE DEF TypeOK
<1>1. ASSUME NEW t \in Tasks, Connect(t) \/ Stop(t) PROVE TypeOK'
  BY <1>1 DEF Connect, Stop, limits
<1>2. ASSUME NEW t \in Tasks, Lookup(t) PROVE TypeOK'
  <2>1. free' \in [Sems -> Nat]
    BY <1>2 DEF Lookup, Sems
  <2> QED
    BY <1>2, <2>1 DEF Lookup, limits
<1>3. ASSUME NEW t \in Tasks, Check(t) \/ Close(t) \/ Abort(t) PROVE TypeOK'
  <2>1. free' \in [Sems -> Nat]
    BY <1>3, GiveBackTyped DEF Check, Close, Abort
  <2> QED
    BY <1>3, <2>1 DEF Check, Close, Abort, limits
<1>4. ASSUME NEW t \in Tasks, Poll(t) PROVE TypeOK'
  BY <1>4 DEF Poll, limits
<1>5. ASSUME NEW t \in Tasks, Granted(t) PROVE TypeOK'
  <2>1. free' \in [Sems -> Nat]
    BY <1>5, WaitedIsSem DEF Granted
  <2> QED
    BY <1>5, <2>1 DEF Granted, limits
<1>6. CASE Update
  <2>1. total' \in 1 .. TotalCap /\ asked' \in (1 .. TotalCap) \X (1 .. HostCap)
    BY <1>6, ClampedTyped DEF Update
  <2>2. due' \in [Sems -> Int]
    <3>1. total - asked'[1] \in Int
      BY <1>6, <2>1 DEF Update
    <3> QED
      BY <1>6, <3>1 DEF Update
  <2>3. nupdate' \in 0 .. MaxUpdates
    BY <1>6 DEF Update
  <2> QED
    BY <1>6, <2>1, <2>2, <2>3 DEF Update, conns
<1>7. ASSUME NEW s \in Sems, AddPermits(s) PROVE TypeOK'
  <2>1. free' \in [Sems -> Nat] /\ due' \in [Sems -> Int]
    BY <1>7 DEF AddPermits
  <2> QED
    BY <1>7, <2>1 DEF AddPermits, limits, conns
<1>8. ASSUME NEW s \in Sems, TakeFree(s) PROVE TypeOK'
  <2>1. free' \in [Sems -> Nat] /\ due' \in [Sems -> Int]
    BY <1>8 DEF TakeFree
  <2> QED
    BY <1>8, <2>1 DEF TakeFree, limits, conns
<1>9. ASSUME NEW s \in Sems, SpawnReclaim(s) PROVE TypeOK'
  <2>1. debt' \in [Sems -> Nat] /\ due' \in [Sems -> Int]
    BY <1>9 DEF SpawnReclaim
  <2> QED
    BY <1>9, <2>1 DEF SpawnReclaim, limits, conns
<1>10. ASSUME NEW s \in Sems, Reclaim(s) PROVE TypeOK'
  <2>1. debt' \in [Sems -> Nat] /\ free' \in [Sems -> Nat]
    BY <1>10 DEF Reclaim
  <2> QED
    BY <1>10, <2>1 DEF Reclaim, limits, conns
<1>11. CASE LockHosts
  <2>1. perHost' \in 1 .. HostCap /\ due' \in [Sems -> Int]
    BY <1>11 DEF LockHosts
  <2> QED
    BY <1>11, <2>1 DEF LockHosts, conns
<1>12. CASE Updated
  BY <1>12 DEF Updated, conns
<1>13. CASE UNCHANGED vars
  BY <1>13 DEF vars, limits, conns
<1> QED
  BY <1>1, <1>2, <1>3, <1>4, <1>5, <1>6, <1>7, <1>8, <1>9, <1>10, <1>11, <1>12, <1>13
  DEF Next, Resize, Connection
-----------------------------------------------------------------------------
(* What each kind of step does to free and held permits.                    *)

LEMMA ConnsSame ==
  ASSUME UNCHANGED <<pc, host>>, NEW s PROVE Held(s)' = Held(s)
BY HeldSame DEF Holds

\* A connection that goes to a point with the same permits.
LEMMA MovesOn ==
  ASSUME TypeOK, NEW t \in Tasks, NEW p, pc' = [pc EXCEPT ![t] = p], UNCHANGED host,
         pc[t] \in {"askGlobal", "waitGlobal"} <=> p \in {"askGlobal", "waitGlobal"},
         pc[t] # "open" /\ p # "open", NEW s
  PROVE  Held(s)' = Held(s)
<1>1. \A u \in Tasks : Holds(u, s)' <=> Holds(u, s)
  BY DEF TypeOK, Holds
<1> QED
  BY <1>1, HeldSame

LEMMA GivesBack ==
  ASSUME TypeOK, NEW t \in Tasks, GiveBack(t), UNCHANGED host,
         pc' = [pc EXCEPT ![t] = "idle"], NEW s \in Sems
  PROVE  free'[s] + Held(s)' = free[s] + Held(s)
<1>1. \A u \in Tasks \ {t} : Holds(u, s)' <=> Holds(u, s)
  BY DEF TypeOK, Holds
<1>2. ~Holds(t, s)'
  BY DEF TypeOK, Holds
<1>3. free[s] \in Nat /\ Held(s) \in Nat
  BY HeldNat DEF TypeOK
<1>4. CASE Holds(t, s)
  <2>1. Held(s)' = Held(s) - 1
    BY <1>1, <1>2, <1>4, HeldLess
  <2>2. free'[s] = free[s] + 1
    BY <1>4 DEF GiveBack
  <2> QED
    BY <1>3, <2>1, <2>2
<1>5. CASE ~Holds(t, s)
  <2>1. Held(s)' = Held(s)
    BY <1>1, <1>2, <1>5, HeldSame
  <2>2. free'[s] = free[s]
    BY <1>5 DEF GiveBack
  <2> QED
    BY <2>1, <2>2
<1> QED
  BY <1>4, <1>5

LEMMA Takes ==
  ASSUME TypeOK, NEW t \in Tasks, Granted(t), NEW s \in Sems
  PROVE  free'[s] + Held(s)' = free[s] + Held(s)
<1>1. \A u \in Tasks \ {t} : Holds(u, s)' <=> Holds(u, s)
  BY DEF TypeOK, Holds, Granted
<1>2. free[s] \in Nat /\ Held(s) \in Nat /\ host[t] \in Hosts
  BY HeldNat DEF TypeOK
<1>3. CASE s = WaitsFor(t)
  <2>1. ~Holds(t, s) /\ Holds(t, s)'
    BY <1>2, <1>3 DEF TypeOK, Holds, Granted, WaitsFor
  <2>2. Held(s)' = Held(s) + 1
    BY <1>1, <2>1, HeldMore
  <2>3. free'[s] = free[s] - 1
    BY <1>3 DEF TypeOK, Granted
  <2> QED
    BY <1>2, <2>2, <2>3
<1>4. CASE s # WaitsFor(t)
  <2>1. Holds(t, s)' <=> Holds(t, s)
    BY <1>2, <1>4 DEF TypeOK, Holds, Granted, WaitsFor
  <2>2. Held(s)' = Held(s)
    BY <1>1, <2>1, HeldSame
  <2>3. free'[s] = free[s]
    BY <1>4, WaitedIsSem DEF TypeOK, Granted
  <2> QED
    BY <2>2, <2>3
<1> QED
  BY <1>3, <1>4
-----------------------------------------------------------------------------
Balanced(s) == free[s] + Held(s) = Limit(s) + debt[s] + due[s]

LEMMA PhaseStep ==
  ASSUME TypeOK, DueInPhase, Untouched, [Next]_vars PROVE DueInPhase' /\ Untouched'
<1> USE DEF DueInPhase, Untouched, TypeOK
<1>1. ASSUME NEW t \in Tasks, Connect(t) \/ Stop(t) PROVE DueInPhase' /\ Untouched'
  BY <1>1 DEF Connect, Stop, limits
<1>2. ASSUME NEW t \in Tasks, Connection(t) PROVE DueInPhase' /\ Untouched'
  BY <1>2 DEF Connection, Lookup, Check, Poll, limits
<1>3. ASSUME NEW t \in Tasks, Granted(t) \/ Close(t) \/ Abort(t)
      PROVE  DueInPhase' /\ Untouched'
  BY <1>3 DEF Granted, Close, Abort, limits
<1>4. CASE Update
  BY <1>4 DEF Update, conns, Sems
<1>5. ASSUME NEW s \in Sems, AddPermits(s) PROVE DueInPhase' /\ Untouched'
  BY <1>5 DEF AddPermits, Resizing, limits, conns
<1>6. ASSUME NEW s \in Sems, TakeFree(s) PROVE DueInPhase' /\ Untouched'
  BY <1>6 DEF TakeFree, Resizing, limits, conns
<1>7. ASSUME NEW s \in Sems, SpawnReclaim(s) PROVE DueInPhase' /\ Untouched'
  BY <1>7 DEF SpawnReclaim, Resizing, limits, conns
<1>8. ASSUME NEW s \in Sems, Reclaim(s) PROVE DueInPhase' /\ Untouched'
  BY <1>8 DEF Reclaim, limits, conns
<1>9. CASE LockHosts \/ Updated
  BY <1>9 DEF LockHosts, Updated, conns, Sems
<1>10. CASE UNCHANGED vars
  BY <1>10 DEF vars, limits, conns
<1> QED
  BY <1>1, <1>2, <1>3, <1>4, <1>5, <1>6, <1>7, <1>8, <1>9, <1>10 DEF Next, Resize
-----------------------------------------------------------------------------
LEMMA BalanceStep ==
  ASSUME TypeOK, TypeOK', Conserved, DueInPhase, Untouched, [Next]_vars,
         NEW s \in created' \cup {Global}
  PROVE  Balanced(s)'
<1>1. s \in Sems
  BY DEF TypeOK, Sems
<1>2. s \in created \cup {Global} => Balanced(s)
  BY DEF Conserved, Balanced
<1>3. /\ free[s] \in Nat /\ debt[s] \in Nat /\ due[s] \in Int /\ Limit(s) \in Nat
      /\ free'[s] \in Nat /\ Held(s) \in Nat
  BY <1>1, HeldNat DEF TypeOK, Limit
\* A step of a connection moves permits between free and held.
<1>4. ASSUME UNCHANGED <<total, perHost, created, debt, due>>,
             free'[s] + Held(s)' = free[s] + Held(s)
      PROVE  Balanced(s)'
  BY <1>2, <1>3, <1>4 DEF Balanced, Limit
<1>5. ASSUME NEW t \in Tasks, Connect(t) PROVE Balanced(s)'
  <2>1. \A u \in Tasks : Holds(u, s)' <=> Holds(u, s)
    BY <1>5 DEF Connect, Holds, TypeOK
  <2>2. Held(s)' = Held(s)
    BY <2>1, HeldSame
  <2> QED
    BY <1>4, <1>5, <2>2 DEF Connect, limits
<1>6. ASSUME NEW t \in Tasks, Stop(t) PROVE Balanced(s)'
  BY <1>4, <1>6, ConnsSame DEF Stop, limits
<1>7. ASSUME NEW t \in Tasks, Lookup(t) PROVE Balanced(s)'
  <2>1. Held(s)' = Held(s)
    BY <1>7, MovesOn DEF Lookup
  <2>2. UNCHANGED <<total, perHost, debt, due>> /\ created' = created \cup {host[t]}
    BY <1>7 DEF Lookup, limits
  <2>3. CASE s \in created \cup {Global}
    <3>1. free'[s] = free[s]
      BY <1>1, <1>7, <2>3 DEF Lookup, TypeOK
    <3> QED
      BY <1>2, <2>1, <2>2, <2>3, <3>1 DEF Balanced, Limit
  <2>4. CASE s \notin created \cup {Global}
    <3>1. s = host[t] /\ s \in Hosts \ created
      BY <2>2, <2>4 DEF TypeOK
    <3>2. free'[s] = perHost
      BY <1>1, <1>7, <3>1 DEF Lookup, TypeOK
    <3>3. {u \in Tasks : Holds(u, s)} = {}
      BY <3>1 DEF Untouched, Holds, TypeOK
    <3>4. Held(s) = 0
      BY <3>3, FS_EmptySet DEF Held
    <3>5. debt[s] = 0 /\ due[s] = 0
      BY <3>1 DEF Untouched
    <3>6. Limit(s) = perHost /\ perHost \in Nat
      BY <2>4 DEF Limit, TypeOK
    <3> QED
      BY <2>1, <2>2, <2>4, <3>2, <3>4, <3>5, <3>6 DEF Balanced, Limit
  <2> QED
    BY <2>3, <2>4
<1>8. ASSUME NEW t \in Tasks, Check(t) PROVE Balanced(s)'
  <2>1. CASE GiveBack(t) /\ pc' = [pc EXCEPT ![t] = "idle"]
    BY <1>1, <1>4, <1>8, <2>1, GivesBack DEF Check, limits
  <2>2. CASE UNCHANGED free /\ pc' = [pc EXCEPT ![t] = IF @ = "askHost" THEN "waitHost" ELSE "waitGlobal"]
    <3>1. Held(s)' = Held(s)
      BY <1>8, <2>2, MovesOn DEF Check
    <3> QED
      BY <1>4, <1>8, <2>2, <3>1 DEF Check, limits
  <2> QED
    BY <1>8, <2>1, <2>2 DEF Check
<1>9. ASSUME NEW t \in Tasks, Poll(t) PROVE Balanced(s)'
  <2>1. Held(s)' = Held(s)
    BY <1>9, MovesOn DEF Poll
  <2> QED
    BY <1>4, <1>9, <2>1 DEF Poll, limits
<1>10. ASSUME NEW t \in Tasks, Granted(t) PROVE Balanced(s)'
  BY <1>1, <1>4, <1>10, Takes DEF Granted, limits
<1>11. ASSUME NEW t \in Tasks, Close(t) \/ Abort(t) PROVE Balanced(s)'
  BY <1>1, <1>4, <1>11, GivesBack DEF Close, Abort, limits
<1>12. CASE Update
  <2>1. UNCHANGED <<perHost, created, free, debt>> /\ Held(s)' = Held(s)
    BY <1>12, ConnsSame DEF Update, conns
  <2>2. updater = "idle" /\ total' = asked'[1] /\ due' = [due EXCEPT ![Global] = total - total']
        /\ total \in Nat /\ total' \in Nat
    BY <1>12 DEF Update, TypeOK
  <2>3. CASE s = Global
    BY <1>1, <1>2, <1>3, <2>1, <2>2, <2>3 DEF Balanced, Limit, DueInPhase, TypeOK
  <2>4. CASE s # Global
    BY <1>1, <1>2, <1>3, <2>1, <2>2, <2>4 DEF Balanced, Limit, TypeOK
  <2> QED
    BY <2>3, <2>4
\* A resize of semaphore r: what free, debt and due gain and lose is equal.
<1>13. ASSUME NEW r \in Sems, AddPermits(r) \/ TakeFree(r) \/ SpawnReclaim(r) \/ Reclaim(r)
       PROVE  Balanced(s)'
  <2>1. UNCHANGED <<total, perHost, created, pc, host>>
    BY <1>13 DEF AddPermits, TakeFree, SpawnReclaim, Reclaim, limits, conns
  <2>2. free'[s] - debt'[s] - due'[s] = free[s] - debt[s] - due[s]
    <3>1. CASE AddPermits(r)
      BY <1>1, <1>3, <3>1 DEF AddPermits, TypeOK
    <3>2. CASE TakeFree(r)
      BY <1>1, <1>3, <3>2 DEF TakeFree, TypeOK
    <3>3. CASE SpawnReclaim(r)
      BY <1>1, <1>3, <3>3 DEF SpawnReclaim, TypeOK
    <3>4. CASE Reclaim(r)
      BY <1>1, <1>3, <3>4 DEF Reclaim, TypeOK
    <3> QED
      BY <1>13, <3>1, <3>2, <3>3, <3>4
  <2>3. debt'[s] \in Nat /\ due'[s] \in Int
    BY <1>1 DEF TypeOK
  <2>4. Held(s)' = Held(s) /\ Limit(s)' = Limit(s)
    BY <2>1, ConnsSame DEF Limit
  <2> QED
    BY <1>2, <1>3, <2>1, <2>2, <2>3, <2>4 DEF Balanced
<1>14. CASE LockHosts
  <2>1. UNCHANGED <<total, created, free, debt>> /\ Held(s)' = Held(s)
    BY <1>14, ConnsSame DEF LockHosts, conns
  <2>2. CASE s = Global
    <3>1. due'[s] = due[s]
      BY <1>1, <1>14, <2>2 DEF LockHosts, TypeOK
    <3> QED
      BY <1>2, <2>1, <2>2, <3>1 DEF Balanced, Limit
  <2>3. CASE s # Global
    <3>1. s \in created /\ s \in Hosts
      BY <2>1, <2>3 DEF TypeOK
    <3>2. due[s] = 0 /\ due'[s] = perHost - perHost'
      BY <1>1, <1>14, <3>1 DEF LockHosts, DueInPhase
    <3>3. perHost \in Nat /\ perHost' \in Nat
      BY DEF TypeOK
    <3> QED
      BY <1>2, <1>3, <2>1, <2>3, <3>1, <3>2, <3>3 DEF Balanced, Limit
  <2> QED
    BY <2>2, <2>3
<1>15. CASE Updated \/ UNCHANGED vars
  BY <1>4, <1>15, ConnsSame DEF Updated, vars, limits, conns
<1> QED
  BY <1>5, <1>6, <1>7, <1>8, <1>9, <1>10, <1>11, <1>12, <1>13, <1>14, <1>15
  DEF Next, Resize, Connection
-----------------------------------------------------------------------------
LEMMA InitInv == Init => IInv
<1> SUFFICES ASSUME Init PROVE IInv
  OBVIOUS
<1>1. total \in 1 .. TotalCap /\ perHost \in 1 .. HostCap
      /\ asked \in (1 .. TotalCap) \X (1 .. HostCap)
  BY ClampedTyped DEF Init
<1>2. TypeOK
  BY <1>1 DEF Init, TypeOK
<1>3. Conserved
  <2>1. {t \in Tasks : Holds(t, Global)} = {}
    BY DEF Init, Holds
  <2>2. Held(Global) = 0
    BY <2>1, FS_EmptySet DEF Held
  <2> QED
    BY <1>1, <2>2 DEF Init, Conserved, Limit, Sems
<1>4. DueInPhase /\ Untouched
  BY DEF Init, DueInPhase, Untouched, Sems
<1> QED
  BY <1>2, <1>3, <1>4 DEF IInv

LEMMA Invariance == Spec => []IInv
<1>1. IInv /\ [Next]_vars => IInv'
  <2> SUFFICES ASSUME IInv, [Next]_vars PROVE IInv'
    OBVIOUS
  <2>1. TypeOK'
    BY TypeStep DEF IInv
  <2>2. DueInPhase' /\ Untouched'
    BY PhaseStep DEF IInv
  <2>3. \A s \in created' \cup {Global} : Balanced(s)'
    BY <2>1, BalanceStep DEF IInv
  <2>4. Conserved'
    BY <2>3 DEF Conserved, Balanced
  <2> QED
    BY <2>1, <2>2, <2>4 DEF IInv
<1> QED
  BY InitInv, <1>1, PTL DEF Spec

(* Every variable keeps its type: free permits and debts are never below    *)
(* zero, and both limits stay in the range that clamp_limits allows.        *)
THEOREM BudgetTyped == Spec => []TypeOK
<1>1. IInv => TypeOK
  BY DEF IInv
<1> QED
  BY Invariance, <1>1, PTL

(* No resize, stop, abort or end of a connection loses a permit or makes    *)
(* one twice.                                                               *)
THEOREM PermitsConserved == Spec => []Conserved
<1>1. IInv => Conserved
  BY DEF IInv
<1> QED
  BY Invariance, <1>1, PTL

\* Once an update is over and what it owes is paid, the cap holds.
CapOnceSettled == updater = "idle" /\ debt[Global] = 0 => Held(Global) <= total

(* A resized cap is the cap again as soon as the debts are paid; meanwhile  *)
(* more connections than ever asked for may be open.                        *)
THEOREM CapHoldsOnceSettled == Spec => []CapOnceSettled
<1>1. IInv => CapOnceSettled
  <2> SUFFICES ASSUME IInv, updater = "idle", debt[Global] = 0 PROVE Held(Global) <= total
    BY DEF CapOnceSettled
  <2>1. free[Global] + Held(Global) = total + 0 + 0
    BY DEF IInv, Conserved, DueInPhase, Limit
  <2>2. free[Global] \in Nat /\ Held(Global) \in Nat /\ total \in Nat
    BY HeldNat DEF IInv, TypeOK, Sems
  <2> QED
    BY <2>1, <2>2
<1> QED
  BY Invariance, <1>1, PTL

-----------------------------------------------------------------------------
(* The limits that connections share.                                       *)

USE RatesAssumption, MaxLagAssumption, ScenariosAssumption

Cap(r)  == Limiter!CapacityOf(r)
BucketNext == [Limiter!Bucket!Next]_(Limiter!Bucket!vars)

LEMMA Products ==
  ASSUME NEW r \in Nat, NEW n \in Nat
  PROVE  /\ n * r \in Nat /\ (n + 1) * r = n * r + r
         /\ r > 0 /\ n >= 2 => n * r >= 2 * r
         /\ r > 0 => n * r >= n
         /\ n * 0 = 0 /\ 0 * r = 0
  OBVIOUS

LEMMA Capacity ==
  ASSUME NEW r \in Rates
  PROVE  /\ Cap(r) \in Nat /\ (r = 0 => Cap(r) = 0)
         /\ Limiter!Bucket!Burst(r) = Cap(r)
         /\ r > 0 => MaxLag * r >= Cap(r)
<1>1. r \in Nat /\ MaxLag \in Nat
  OBVIOUS
<1>2. MaxLag * r \in Nat /\ (r > 0 => MaxLag * r >= 2 * r /\ MaxLag * r >= MaxLag)
  BY <1>1, Products
<1> QED
  BY <1>1, <1>2 DEF Cap, Limiter!CapacityOf, Limiter!Bucket!Burst

LimiterTyped ==
  /\ rate \in Rates
  /\ tokens \in Nat /\ tokens <= Cap(rate)
  /\ lag \in Nat /\ lag <= MaxLag
  /\ need \in [Tasks -> Nat]

LEMMA RefilledTyped ==
  ASSUME LimiterTyped
  PROVE  /\ Limiter!Refilled \in Nat /\ Limiter!Refilled <= Cap(rate)
         /\ Limiter!Refilled = IF tokens + lag * rate <= Cap(rate) THEN tokens + lag * rate ELSE Cap(rate)
         /\ rate = 0 => Limiter!Refilled = 0
<1>1. rate \in Nat /\ lag * rate \in Nat
  BY Products DEF LimiterTyped
<1> QED
  BY <1>1, Capacity, Products DEF LimiterTyped, Limiter!Refilled, Limiter!Lesser, Cap

\* What each step of the whole does to the bucket.
LEMMA TickFills ==
  ASSUME LimiterTyped, Limiter!Tick PROVE BucketNext
<1>1. /\ rate \in Nat /\ lag \in Nat /\ tokens \in Nat /\ MaxLag \in Nat /\ rate' = rate /\ tokens' = tokens
      /\ lag' = (IF lag + 1 <= MaxLag THEN lag + 1 ELSE MaxLag)
  BY DEF LimiterTyped, Limiter!Tick, Limiter!Lesser
<1>2. lag * rate \in Nat /\ (lag + 1) * rate = lag * rate + rate /\ lag' * rate \in Nat
  BY <1>1, Products
<1>3. Limiter!Refilled' = IF tokens + lag' * rate <= Cap(rate) THEN tokens + lag' * rate ELSE Cap(rate)
  BY <1>1 DEF Limiter!Refilled, Limiter!Lesser, Cap
<1>4. CASE rate = 0
  BY <1>1, <1>4 DEF BucketNext, Limiter!Bucket!vars, Limiter!Level
<1>5. CASE rate > 0
  <2>1. Limiter!Level = Limiter!Refilled /\ Limiter!Level' = Limiter!Refilled'
    BY <1>1, <1>5 DEF Limiter!Level
  <2>2. Limiter!Refilled' = IF Limiter!Refilled + rate <= Cap(rate) THEN Limiter!Refilled + rate ELSE Cap(rate)
    <3>1. CASE lag + 1 <= MaxLag
      <4>1. lag' * rate = lag * rate + rate
        BY <1>1, <1>2, <3>1
      <4> QED
        BY <1>1, <1>2, <1>3, <4>1, RefilledTyped, Capacity DEF LimiterTyped
    <3>2. CASE lag = MaxLag
      <4>1. lag' * rate = lag * rate /\ lag * rate >= Cap(rate)
        BY <1>1, <1>5, <3>2, Capacity DEF LimiterTyped
      <4> QED
        BY <1>1, <1>2, <1>3, <4>1, RefilledTyped, Capacity DEF LimiterTyped
    <3> QED
      BY <1>1, <3>1, <3>2 DEF LimiterTyped
  <2>3. Limiter!Bucket!Fill
    BY <1>1, <1>5, <2>1, <2>2, Capacity DEF Limiter!Bucket!Fill, LimiterTyped
  <2> QED
    BY <2>3 DEF BucketNext, Limiter!Bucket!Next
<1> QED
  BY <1>1, <1>4, <1>5

\* A look at the bucket that finds enough takes it; one that does not only
\* writes down what is there.
LEMMA LookSpends ==
  ASSUME LimiterTyped, NEW t \in Tasks, Limiter!Take(t) \/ Limiter!Wait(t)
  PROVE  BucketNext /\ LimiterTyped'
<1>1. /\ rate \in Nat /\ lag \in Nat /\ tokens \in Nat /\ rate' = rate /\ need[t] \in Nat
      /\ need[t] > 0 /\ Quantum \in Nat /\ Quantum > 0 /\ MaxLag \in Nat
  <2>1. /\ rate \in Nat /\ lag \in Nat /\ tokens \in Nat /\ need[t] \in Nat
        /\ Quantum \in Nat /\ Quantum > 0 /\ MaxLag \in Nat
    BY DEF LimiterTyped
  <2>2. rate' = rate
    BY DEF Limiter!Take, Limiter!Wait
  <2>3. need[t] > 0
    BY Zenon DEF Limiter!Take, Limiter!Wait, Limiter!Looks
  <2> QED
    BY <2>1, <2>2, <2>3
<1>2. Limiter!Want(t) \in 1 .. Quantum /\ Limiter!Want(t) <= need[t]
  BY <1>1 DEF Limiter!Want, Limiter!Lesser
<1>3. need' \in [Tasks -> Nat]
  BY <1>1, <1>2 DEF LimiterTyped, Limiter!Take, Limiter!Wait
<1>4. lag' \in Nat /\ lag' <= MaxLag
  BY <1>1 DEF LimiterTyped, Limiter!Take, Limiter!Wait, Limiter!RefilledLag
<1>5. /\ Limiter!Refilled \in Nat /\ Limiter!Refilled <= Cap(rate) /\ Cap(rate) \in Nat
  BY RefilledTyped, Capacity DEF LimiterTyped
<1>6. CASE rate = 0
  <2>1. tokens' = tokens
    BY <1>6 DEF Limiter!Take, Limiter!Wait
  <2> QED
    BY <1>1, <1>3, <1>4, <1>6, <2>1
    DEF LimiterTyped, BucketNext, Limiter!Bucket!vars, Limiter!Level
<1>7. CASE rate > 0
  <2>1. lag' = 0 /\ 0 * rate = 0
    BY <1>1, <1>7, Products DEF Limiter!Take, Limiter!Wait, Limiter!RefilledLag
  <2>2. /\ tokens' \in Nat /\ tokens' <= Cap(rate)
        /\ \/ tokens' = Limiter!Refilled
           \/ tokens' = Limiter!Refilled - Limiter!Want(t) /\ Limiter!Want(t) <= Limiter!Refilled
    BY <1>2, <1>5, <1>7 DEF Limiter!Take, Limiter!Wait
  <2>3. Limiter!Level = Limiter!Refilled
    BY <1>7 DEF Limiter!Level
  <2>4. Limiter!Level' = tokens'
    BY <1>1, <1>5, <1>7, <2>1, <2>2 DEF Limiter!Level, Limiter!Refilled, Limiter!Lesser, Cap
  <2>5. BucketNext
    <3>1. CASE tokens' = Limiter!Refilled
      BY <1>1, <2>3, <2>4, <3>1 DEF BucketNext, Limiter!Bucket!vars
    <3>2. CASE tokens' = Limiter!Refilled - Limiter!Want(t) /\ Limiter!Want(t) <= Limiter!Refilled
      <4>1. Limiter!Bucket!Spend
        BY <1>1, <1>2, <1>7, <2>3, <2>4, <3>2 DEF Limiter!Bucket!Spend
      <4> QED
        BY <4>1 DEF BucketNext, Limiter!Bucket!Next
    <3> QED
      BY <2>2, <3>1, <3>2
  <2> QED
    BY <1>1, <1>3, <1>4, <2>2, <2>5 DEF LimiterTyped
<1> QED
  BY <1>1, <1>6, <1>7

\* The bucket is brought up to date at the old rate before it gets the new one.
LEMMA SetLimitChanges ==
  ASSUME LimiterTyped, NEW r \in Rates, Limiter!SetLimit(r)
  PROVE  BucketNext /\ LimiterTyped'
<1>1. /\ rate \in Nat /\ lag \in Nat /\ tokens \in Nat /\ rate' = r /\ r \in Nat
      /\ need' = need /\ MaxLag \in Nat /\ Cap(r) \in Nat
      /\ lag' = (IF rate = 0 THEN lag ELSE 0)
  BY Capacity DEF LimiterTyped, Limiter!SetLimit, Limiter!RefilledLag
<1>2. /\ Limiter!Refilled \in Nat /\ (rate = 0 => Limiter!Refilled = 0)
  BY RefilledTyped
<1>3. tokens' = IF Limiter!Refilled <= Cap(r) THEN Limiter!Refilled ELSE Cap(r)
  BY DEF Limiter!SetLimit, Limiter!Lesser, Cap
<1>4. LimiterTyped'
  BY <1>1, <1>2, <1>3 DEF LimiterTyped
<1>5. lag' * r \in Nat /\ Limiter!Level' = IF r = 0 THEN 0
        ELSE IF tokens' + lag' * r <= Cap(r) THEN tokens' + lag' * r ELSE Cap(r)
  BY <1>1, Products DEF Limiter!Level, Limiter!Refilled, Limiter!Lesser, Cap
<1>6. Limiter!Bucket!Change
  <2>1. CASE rate = 0
    BY <1>1, <1>2, <1>3, <1>5, <2>1, Capacity DEF Limiter!Bucket!Change
  <2>2. CASE rate > 0
    <3>1. lag' * r = 0
      BY <1>1, <2>2, Products
    <3>2. Limiter!Level' = tokens'
      BY <1>1, <1>2, <1>3, <1>5, <3>1, Capacity
    <3> QED
      BY <1>1, <1>3, <2>2, <3>2, Capacity DEF Limiter!Bucket!Change, Limiter!Level
  <2> QED
    BY <1>1, <2>1, <2>2
<1> QED
  BY <1>4, <1>6 DEF BucketNext, Limiter!Bucket!Next

\* Whatever else a connection does, the bucket does not notice.
LEMMA Unnoticed ==
  ASSUME LimiterTyped, UNCHANGED <<rate, tokens, lag>>, need' \in [Tasks -> Nat]
  PROVE  BucketNext /\ LimiterTyped'
BY DEF BucketNext, LimiterTyped, Limiter!Bucket!vars, Limiter!Level, Limiter!Refilled

LEMMA NeedTyped ==
  ASSUME LimiterTyped, NEW t \in Tasks, Limiter!Acquire(t) \/ Limiter!GiveUp(t) \/ Limiter!Drop(t)
  PROVE  need' \in [Tasks -> Nat] /\ UNCHANGED <<rate, tokens, lag>>
<1>1. UNCHANGED <<rate, tokens, lag>>
  BY DEF Limiter!Acquire, Limiter!GiveUp, Limiter!Drop
<1>2. need \in [Tasks -> Nat]
  BY DEF LimiterTyped
<1>3. \E n \in Nat : need' = [need EXCEPT ![t] = n]
  BY Zenon DEF Limiter!Acquire, Limiter!GiveUp, Limiter!Drop
<1> QED
  BY <1>1, <1>2, <1>3
-----------------------------------------------------------------------------
(* The whole.                                                               *)

SharedTyped == LimiterTyped /\ newRate \in Rates /\ scenario \in Scenarios

LEMMA SharedStep ==
  ASSUME SharedTyped, [LimitsNext]_allVars
  PROVE  BucketNext /\ SharedTyped' /\ [Next]_vars
<1> USE DEF SharedTyped
<1>1. CASE UpdateSettings
  BY <1>1, Unnoticed DEF UpdateSettings, reading, limiterVars, Next, LimiterTyped
<1>2. CASE SetLimit
  BY <1>2, SetLimitChanges DEF SetLimit, budgetVars
<1>3. CASE Tick
  <2>1. BucketNext
    BY <1>3, TickFills DEF Tick
  <2>2. LimiterTyped'
    BY <1>3 DEF Tick, Limiter!Tick, LimiterTyped, Limiter!Lesser
  <2> QED
    BY <1>3, <2>1, <2>2 DEF Tick, budgetVars, updateVars
<1>4. CASE Permits
  <2>1. [Next]_vars /\ UNCHANGED <<reading, updateVars>>
    BY <1>4 DEF Permits, Alone, Next
  <2> QED
    BY <2>1, Unnoticed DEF reading, limiterVars, updateVars, LimiterTyped
<1>5. ASSUME NEW t \in Tasks, Chunk(t) PROVE BucketNext /\ SharedTyped' /\ [Next]_vars
  BY <1>5, NeedTyped, Unnoticed DEF Chunk, budgetVars, updateVars
<1>6. ASSUME NEW t \in Tasks, Bandwidth(t) PROVE BucketNext /\ SharedTyped' /\ [Next]_vars
  <2>1. UNCHANGED <<budgetVars, updateVars>>
    BY <1>6 DEF Bandwidth
  <2>2. CASE Limiter!Take(t) \/ Limiter!Wait(t)
    BY <2>1, <2>2, LookSpends DEF budgetVars, updateVars
  <2>3. CASE Limiter!GiveUp(t)
    BY <2>1, <2>3, NeedTyped, Unnoticed DEF budgetVars, updateVars
  <2>4. CASE Limiter!Wake(t)
    BY <2>1, <2>4, Unnoticed DEF budgetVars, updateVars, Limiter!Wake, LimiterTyped
  <2> QED
    BY <1>6, <2>2, <2>3, <2>4 DEF Bandwidth
<1>7. ASSUME NEW t \in Tasks, Ends(t) PROVE BucketNext /\ SharedTyped' /\ [Next]_vars
  BY <1>7, Unnoticed DEF Ends, limiterVars, updateVars, LimiterTyped, Next
<1>8. ASSUME NEW t \in Tasks, AbortReader(t) PROVE BucketNext /\ SharedTyped' /\ [Next]_vars
  BY <1>8, NeedTyped, Unnoticed DEF AbortReader, updateVars, Next
<1>9. CASE UNCHANGED allVars
  BY <1>9, Unnoticed DEF allVars, budgetVars, reading, limiterVars, updateVars, LimiterTyped
<1> QED
  BY <1>1, <1>2, <1>3, <1>4, <1>5, <1>6, <1>7, <1>8, <1>9 DEF LimitsNext

LEMMA SharedInit == ASSUME LimitsInit PROVE SharedTyped /\ Limiter!Bucket!Init /\ Init
<1>1. /\ rate \in Rates /\ tokens = Cap(rate) /\ lag = 0 /\ newRate = rate
      /\ need = [t \in Tasks |-> 0] /\ scenario \in Scenarios
  BY DEF LimitsInit, Limiter!Init, Cap
<1>2. rate \in Nat /\ 0 * rate = 0 /\ MaxLag \in Nat
  BY <1>1, Products
<1>3. SharedTyped
  BY <1>1, <1>2, Capacity DEF SharedTyped, LimiterTyped
<1>4. Limiter!Level = Cap(rate)
  BY <1>1, <1>2, Capacity DEF Limiter!Level, Limiter!Refilled, Limiter!Lesser, Cap
<1> QED
  BY <1>1, <1>3, <1>4, Capacity DEF Limiter!Bucket!Init, LimitsInit

(* The limiter that fills its bucket when somebody looks is one that fills  *)
(* it all the time: for every set of limits and connections, whatever the   *)
(* settings change between two looks, no byte gets through that was not     *)
(* paid for at the rate of its time.                                        *)
THEOREM BucketImplemented == LimitsSpec => LimiterImplements
<1>1. SharedTyped /\ [LimitsNext]_allVars => SharedTyped' /\ BucketNext
  BY SharedStep
<1> QED
  BY <1>1, SharedInit, PTL DEF LimitsSpec, LimiterImplements, Limiter!Bucket!Spec, BucketNext

(* Together with the limiter the budget still loses no permit and makes     *)
(* none twice: every step of the whole is one of its steps, or none.        *)
THEOREM SharedPermitsConserved == LimitsSpec => []Conserved
<1>1. SharedTyped /\ [LimitsNext]_allVars => SharedTyped' /\ [Next]_vars
  BY SharedStep
<1> QED
  BY <1>1, SharedInit, PermitsConserved, PTL DEF LimitsSpec, Spec
=============================================================================
