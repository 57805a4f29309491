-------------------------- MODULE BandwidthLimiter --------------------------
(***************************************************************************)
(* GlobalBandwidthLimiter: one bucket of tokens for all the bodies that    *)
(* are being read, filled when somebody looks at it and not by a clock.    *)
(* Bytes come in units, time in ticks.                                     *)
(***************************************************************************)
EXTENDS Integers, FiniteSets

CONSTANTS
  Tasks,      \* connections that read a body
  Rates,      \* limits in units a tick, 0 for none
  Quantum,    \* MAX_ACQUIRE_QUANTUM
  Chunks,     \* sizes of the pieces that a body comes in
  MaxLag      \* ticks that fill the bucket at any rate: more is not counted

VARIABLES
  rate, tokens,   \* of LimiterState
  lag,            \* ticks since last_refill
  need,           \* what each task has yet to acquire for its chunk
  asleep          \* tasks between two looks at the bucket

vars == <<rate, tokens, lag, need, asleep>>

Lesser(a, b) == IF a <= b THEN a ELSE b

\* Mutation: no room for a whole quantum when the limit is tiny.
CapacityTiny(r) == 2 * r
CapacityOf(r) == IF r = 0 THEN 0 ELSE IF 2 * r >= Quantum THEN 2 * r ELSE Quantum

Init ==
  /\ rate \in Rates /\ tokens = CapacityOf(rate) /\ lag = 0
  /\ need = [t \in Tasks |-> 0] /\ asleep = {}

\* The tokens that refill leaves.
Refilled == Lesser(tokens + lag * rate, CapacityOf(rate))

\* last_refill stays where it is while there is no limit.
RefilledLag == IF rate = 0 THEN lag ELSE 0

Tick == /\ lag' = Lesser(lag + 1, MaxLag)
        /\ UNCHANGED <<rate, tokens, need, asleep>>

\* A chunk has come.
Acquire(t) == /\ need[t] = 0
              /\ \E n \in Chunks : need' = [need EXCEPT ![t] = n]
              /\ UNCHANGED <<rate, tokens, lag, asleep>>

Want(t)  == Lesser(need[t], Quantum)
Looks(t) == need[t] > 0 /\ t \notin asleep

\* try_take, and the quantum is there.
Take(t) ==
  /\ Looks(t)
  /\ \/ rate = 0 /\ UNCHANGED tokens
     \/ rate > 0 /\ Refilled >= Want(t) /\ tokens' = Refilled - Want(t)
  /\ need' = [need EXCEPT ![t] = @ - Want(t)]
  /\ lag' = RefilledLag
  /\ UNCHANGED <<rate, asleep>>

\* try_take, and it is not.
Wait(t) ==
  /\ Looks(t) /\ rate > 0 /\ Refilled < Want(t)
  /\ tokens' = Refilled /\ lag' = 0
  /\ asleep' = asleep \cup {t}
  /\ UNCHANGED <<rate, need>>

\* Fifty milliseconds are over, or less.
Wake(t) == /\ t \in asleep
           /\ asleep' = asleep \ {t}
           /\ UNCHANGED <<rate, tokens, lag, need>>

\* The control was looked at and says stop.
GiveUp(t) == /\ Looks(t)
             /\ need' = [need EXCEPT ![t] = 0]
             /\ UNCHANGED <<rate, tokens, lag, asleep>>

\* The future of acquire is dropped.
Drop(t) == /\ need' = [need EXCEPT ![t] = 0]
           /\ asleep' = asleep \ {t}
           /\ UNCHANGED <<rate, tokens, lag>>

\* Mutation: the time that has passed is left to be counted at the new rate.
SetLimitLazily(r) ==
  /\ rate' = r
  /\ tokens' = Lesser(tokens, CapacityOf(r)) /\ UNCHANGED lag
  /\ asleep' = {} /\ UNCHANGED need
SetLimit(r) ==
  /\ rate' = r
  /\ tokens' = Lesser(Refilled, CapacityOf(r)) /\ lag' = RefilledLag
  /\ asleep' = {} /\ UNCHANGED need

Next == \/ Tick \/ \E r \in Rates : SetLimit(r)
        \/ \E t \in Tasks : Acquire(t) \/ Take(t) \/ Wait(t) \/ Wake(t) \/ GiveUp(t) \/ Drop(t)

Spec == Init /\ [][Next]_vars
-----------------------------------------------------------------------------
TypeOK ==
  /\ rate \in Rates /\ tokens \in 0 .. CapacityOf(rate) /\ lag \in 0 .. MaxLag
  /\ need \in [Tasks -> Nat] /\ asleep \subseteq Tasks

\* What the bucket holds if it is looked at now.
Level == IF rate = 0 THEN 0 ELSE Refilled

Bucket == INSTANCE TokenBucket WITH level <- Level
=============================================================================
