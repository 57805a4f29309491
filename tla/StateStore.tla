----------------------------- MODULE StateStore -----------------------------
(***************************************************************************)
(* What the engine relies on when it awaits persist_live_jobs: a store of  *)
(* one queue of jobs.  The content of the queue is a number, the count of  *)
(* durable mutations in the history that survived.                         *)
(***************************************************************************)
EXTENDS Integers

CONSTANT Clients     \* the tasks that persist: handlers, workers, finalizers

VARIABLES
  mem,    \* the queue in memory
  disk,   \* the queue a restart would find
  open,   \* whether state.json was loaded by the process that runs
  asks    \* each client's request: "idle", "asked" or "saved"

vars == <<mem, disk, open, asks>>

Init == /\ disk \in Nat
        /\ open \in BOOLEAN
        /\ mem = IF open THEN disk ELSE 0
        /\ asks = [c \in Clients |-> "idle"]

Mutate == mem' = mem + 1 /\ UNCHANGED <<disk, open, asks>>

\* What is stored never goes back to an older queue, and a file that was not
\* loaded is not replaced.
Land == /\ open
        /\ disk <= disk' /\ disk' <= mem
        /\ UNCHANGED <<mem, open, asks>>

Ask(c) == /\ asks[c] = "idle"
          /\ asks' = [asks EXCEPT ![c] = "asked"]
          /\ UNCHANGED <<mem, disk, open>>

\* At one moment between a request and its answer, all of the queue as it is
\* in memory is stored.
Save(c) == /\ asks[c] = "asked"
           /\ open /\ disk = mem
           /\ asks' = [asks EXCEPT ![c] = "saved"]
           /\ UNCHANGED <<mem, disk, open>>

Confirm(c) == /\ asks[c] = "saved"
              /\ asks' = [asks EXCEPT ![c] = "idle"]
              /\ UNCHANGED <<mem, disk, open>>

Refuse(c) == /\ asks[c] = "asked"
             /\ asks' = [asks EXCEPT ![c] = "idle"]
             /\ UNCHANGED <<mem, disk, open>>

\* The process dies; the next one loads what is stored, or fails to.
Die == /\ open' = FALSE
       /\ asks' = [c \in Clients |-> "idle"]
       /\ UNCHANGED <<mem, disk>>

Load == /\ ~open
        /\ open' \in BOOLEAN
        /\ mem' = IF open' THEN disk ELSE 0
        /\ asks' = asks /\ disk' = disk

Next == \/ Mutate \/ Land \/ Die \/ Load
        \/ \E c \in Clients : Ask(c) \/ Save(c) \/ Confirm(c) \/ Refuse(c)

Spec == Init /\ [][Next]_vars
=============================================================================
