------------------------------ MODULE Limits ------------------------------
(***************************************************************************)
(* The limits that connections share: a connection waits for its permits   *)
(* (ConnectionBudget), then reads a body and waits for bandwidth           *)
(* (BandwidthLimiter) with the permits in hand.  update_settings changes   *)
(* the first and then the second.                                          *)
(***************************************************************************)
EXTENDS ConnectionBudget

CONSTANTS
  Rates, Quantum, Chunks, MaxLag,   \* of the limiter
  Scenarios   \* records: how many updates, the pairs of limits (clamped) before and after
              \* them, the rates, the connections, the chunks that their bodies come in

ASSUME RatesAssumption == /\ Rates \subseteq Nat
                          /\ Quantum \in Nat \ {0} /\ Chunks \subseteq Nat \ {0}
ASSUME MaxLagAssumption == MaxLag \in Nat /\ MaxLag >= 2 /\ MaxLag >= Quantum
ASSUME ScenariosAssumption == \A sc \in Scenarios : sc.rates \subseteq Rates

VARIABLES
  rate, tokens, lag, need, asleep,  \* of the limiter
  newRate,    \* the limit that update_settings is to set
  setting,    \* whether update_settings is at it
  fed,        \* bound: the connections whose chunk has come, one each
  scenario

Limiter == INSTANCE BandwidthLimiter

budgetVars  == vars
limiterVars == <<rate, tokens, lag, need, asleep>>
updateVars  == <<newRate, setting, scenario>>
reading     == <<limiterVars, fed>>
allVars     == <<budgetVars, reading, updateVars>>

LimitsInit ==
  /\ Init /\ Limiter!Init
  /\ scenario \in Scenarios /\ asked \in scenario.start /\ rate \in scenario.rates
  /\ newRate = rate /\ setting = FALSE /\ fed = {}
-----------------------------------------------------------------------------
UpdateSettings ==
  /\ ~setting /\ nupdate < scenario.updates
  /\ Update /\ asked' \in scenario.limits
  /\ newRate' \in scenario.rates /\ setting' = TRUE
  /\ UNCHANGED <<reading, scenario>>

\* update_limits has come back.
SetLimit ==
  /\ setting /\ updater = "idle"
  /\ Limiter!SetLimit(newRate) /\ setting' = FALSE
  /\ UNCHANGED <<budgetVars, newRate, fed, scenario>>

\* A chunk of the body, unless the control said stop.
Chunk(t) == /\ pc[t] = "open" /\ t \notin stopped \cup fed
            /\ fed' = fed \cup {t}
            /\ Limiter!Acquire(t) /\ need'[t] \in scenario.chunks
            /\ UNCHANGED <<budgetVars, updateVars>>

Bandwidth(t) == /\ \/ t \notin stopped /\ (Limiter!Take(t) \/ Limiter!Wait(t))
                   \/ t \in stopped /\ Limiter!GiveUp(t)
                   \/ Limiter!Wake(t)
                /\ UNCHANGED <<budgetVars, fed, updateVars>>

Tick == scenario.chunks # {} /\ Limiter!Tick /\ UNCHANGED <<budgetVars, fed, updateVars>>

\* The body has come to an end, or its reader was told to stop.
Ends(t) == /\ need[t] = 0 /\ Close(t) /\ fed' = fed \ {t}
           /\ UNCHANGED <<limiterVars, updateVars>>

\* abort_all drops a reader that waits for bandwidth.
AbortReader(t) == /\ need[t] > 0 /\ Close(t) /\ Limiter!Drop(t)
                  /\ fed' = fed \ {t} /\ UNCHANGED updateVars

\* A step that concerns permits only.
Alone(A) == A /\ UNCHANGED <<reading, updateVars>>

Permits == \/ Alone(Resize)
           \/ \E s \in Sems : Alone(Reclaim(s))
           \/ \E t \in Tasks : \/ t \in scenario.tasks /\ Alone(Connect(t))
                               \/ Alone(Stop(t)) \/ Alone(Connection(t))
                               \/ Alone(Granted(t)) \/ Alone(Abort(t))

LimitsNext ==
  \/ UpdateSettings \/ SetLimit \/ Tick \/ Permits
  \/ \E t \in Tasks : Chunk(t) \/ Bandwidth(t) \/ Ends(t) \/ AbortReader(t)

\* Waits are polled, bodies end, the update goes on, and so does time.  A permit
\* that is free again and again goes to one of those who wait, and to the tasks
\* that reclaim permits in their turn: they never leave the queue, which tokio
\* serves in order.
LimitsSpec ==
  /\ LimitsInit /\ [][LimitsNext]_allVars
  /\ WF_allVars(Alone(Resize)) /\ WF_allVars(SetLimit) /\ WF_allVars(Tick)
  /\ \A s \in Sems : /\ SF_allVars(Alone(Reclaim(s)))
                     /\ SF_allVars(Alone(GrantedOf(s)))
  /\ \A t \in Tasks : /\ WF_allVars(Alone(Connection(t))) /\ WF_allVars(Ends(t))
                      /\ WF_allVars(Bandwidth(t))
-----------------------------------------------------------------------------
\* A bucket that is filled when somebody looks, whose rate changes in between,
\* is not told from one that fills all the time: no settings update lets more
\* bytes through, or fewer, than the limits it passes from and to.
LimiterImplements == Limiter!Bucket!Spec

\* Whatever the limit is, those who wait for bandwidth do not all wait for ever:
\* a limit far below one quantum still lets bytes through.
Served == []<>(\A t \in Tasks : need[t] = 0)
          \/ []<><<\E t \in Tasks : need'[t] < need[t]>>_need

\* A connection that is told to stop is not kept waiting, for a permit or, with
\* its permits in hand, for bandwidth.
Waiting(t) == pc[t] # "idle" /\ (pc[t] # "open" \/ need[t] > 0)
StopEndsEveryWait == \A t \in Tasks :
  t \in stopped /\ Waiting(t) ~> t \notin stopped \/ ~Waiting(t)
=============================================================================
