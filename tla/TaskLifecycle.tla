--------------------------- MODULE TaskLifecycle ---------------------------
(***************************************************************************)
(* What the background-task runtime promises about every task, whatever    *)
(* the workers, leases, crashes and clocks do: a task is tried at most     *)
(* MaxAttempts times, is settled at most once and only after a try, and a  *)
(* settled task is never tried or settled again.  AsyncTasks implements    *)
(* this specification.                                                     *)
(***************************************************************************)
EXTENDS Naturals

CONSTANTS Tasks,        \* rows of background_jobs / recording_ai_analyses
          MaxAttempts,  \* max_attempts
          Outcomes      \* the terminal statuses

VARIABLES tries,        \* how often each task was handed to a worker
          outcome       \* the terminal status, or "none"

vars == <<tries, outcome>>

Open(t) == outcome[t] = "none"

Init == /\ tries = [t \in Tasks |-> 0]
        /\ outcome = [t \in Tasks |-> "none"]

\* One claim hands out a batch of open tasks.
Try(S) ==
    /\ \A t \in S : Open(t) /\ tries[t] < MaxAttempts
    /\ tries' = [t \in Tasks |-> IF t \in S THEN tries[t] + 1 ELSE tries[t]]
    /\ UNCHANGED outcome

Settle(t, o) ==
    /\ Open(t)
    /\ tries[t] > 0
    /\ outcome' = [outcome EXCEPT ![t] = o]
    /\ UNCHANGED tries

Next == \/ \E S \in SUBSET Tasks : Try(S)
        \/ \E t \in Tasks, o \in Outcomes : Settle(t, o)

Spec == Init /\ [][Next]_vars
============================================================================
