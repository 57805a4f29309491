------------------------------ MODULE MCEngine ------------------------------
(* Instances of Engine for TLC: which commands the user sends and what the  *)
(* first start finds in state.json.                                         *)
EXTENDS Engine, TLC

Single == {"Add", "Pause", "Resume", "Cancel", "Retry", "Restart", "Remove"}
Bulk   == {"PauseAll", "Drain", "ResumeAll", "RetryAll", "UpdateSettings"}
Stops  == {"Pause", "Resume", "Cancel", "Restart", "Drain"}

Wipes  == {"Cancel", "Restart", "Remove"}

\* Commands that come at any time.
Always(ops) == ops \X (0 .. Cardinality(Jobs)) \X (0 .. MaxCmds)
Cancels  == Always({"Cancel"})
Restarts == Always({"Restart"})
Quits    == Always({"Restart", "Drain"})
Controlled == Always(Stops)
Crashes == Always({"Crash"})

\* The run queue.  A job alone gets three commands, the last of them Cancel,
\* Restart or Remove.  Of two jobs' two commands, or one and a crash, those that
\* come while there are two are about the whole queue.
QueueEvents == (Single \cup Bulk) \X {0, 1} \X {0, 1} \cup Wipes \X {0, 1} \X {2}
               \cup (Bulk \cup {"Crash"}) \X {2} \X {0, 1}

Queue     == {[st |-> "Downloading", id |-> "written"]}
BrokenRow == {[st |-> "Paused", id |-> "broken"]} \cup Queue

Symmetry == Permutations(Jobs)

\* A job alone has one slot, and repeats an attempt before the second command
\* only.  Of two jobs one at a time is inside its attempt, none repeats one and
\* none has a broken map.
Retrying == \E j \in Jobs : w[j].try > 0
Inside   == {j \in Jobs : stage[j] \notin {"none", "spawned", "ended"}}
QueueBounds ==
  IF \E j \in Jobs : st[j] = "unborn"
  THEN maxc = 1 /\ (ncmd >= 2 => ~Retrying)
  ELSE ncmd + ncrash <= 2 /\ Cardinality(Inside) <= 1 /\ ~Retrying /\ \A j \in Jobs : id[j] # "broken"
=============================================================================
