---------------------------- MODULE TokenBucket ----------------------------
(***************************************************************************)
(* What the speed limit promises: a bucket that fills all the time, at the *)
(* rate, up to a burst of two seconds or one quantum, and out of which     *)
(* every byte is paid before it is written.                                *)
(***************************************************************************)
EXTENDS Integers

CONSTANTS
  Rates,      \* limits in units a tick, 0 for none
  Quantum     \* the most that is asked for at a time

VARIABLES rate, level

vars == <<rate, level>>

Burst(r) == IF r = 0 THEN 0 ELSE IF 2 * r >= Quantum THEN 2 * r ELSE Quantum

Init == rate \in Rates /\ level = Burst(rate)

\* A tick of the clock.
Fill == /\ rate > 0
        /\ level' = IF level + rate <= Burst(rate) THEN level + rate ELSE Burst(rate)
        /\ UNCHANGED rate

Spend == /\ rate > 0
         /\ \E n \in 1 .. Quantum : n <= level /\ level' = level - n
         /\ UNCHANGED rate

\* What was saved is kept, up to the new burst.  Time without a limit may count
\* as time to fill.
Change == /\ rate' \in Rates
          /\ IF rate = 0 THEN level' \in 0 .. Burst(rate')
             ELSE level' = IF level <= Burst(rate') THEN level ELSE Burst(rate')

Next == Fill \/ Spend \/ Change

Spec == Init /\ [][Next]_vars
=============================================================================
