------------------------------ MODULE MCLimits ------------------------------
(* An instance of Limits for TLC. *)
EXTENDS Limits

\* Two connections, one, and a pair that has to be clamped.
MCLimits == {<<2, 2>>, <<1, 1>>, <<3, 0>>}

One == {CHOOSE t \in Tasks : TRUE}

\* What the updates can ask for.
Asked == {Clamped(l) : l \in Limits}

Wide   == <<2, 2>>
Narrow == <<1, 1>>
Tight  == <<2, 1>>

\* Permits with many updates; one reader and every change of the rate; two
\* readers at a tiny rate, without an update and with one that lowers the limits.
MCScenarios ==
  {[updates |-> 3, start |-> Asked, limits |-> Asked,
    rates |-> {0}, tasks |-> Tasks, chunks |-> {}],
   [updates |-> 2, start |-> {Wide}, limits |-> {Wide}, rates |-> Rates, tasks |-> One, chunks |-> {6}],
   [updates |-> 0, start |-> {Wide}, limits |-> {}, rates |-> {1}, tasks |-> Tasks, chunks |-> {6}],
   [updates |-> 1, start |-> {Wide}, limits |-> {Tight}, rates |-> {1}, tasks |-> Tasks, chunks |-> {3}]}
=============================================================================
