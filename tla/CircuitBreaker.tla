---------------------------- MODULE CircuitBreaker ----------------------------
(***************************************************************************)
(* What a circuit breaker promises its callers, whoever they are and       *)
(* however their reads and writes interleave: every counted failure counts *)
(* once; at the threshold the breaker opens, and failures never close it;  *)
(* once it is open one worker at a time begins a trial, and the success of *)
(* the latest trial alone closes it again.  A trial whose time is up may   *)
(* still be answered, until another begins.  ProviderBreaker, with its     *)
(* readings, conditional updates and leases, implements this               *)
(* specification.                                                          *)
(***************************************************************************)
EXTENDS Naturals

CONSTANTS Workers, NoWorker, Threshold

VARIABLES state,     \* "closed", "open" or "half_open"
          failures,  \* the failures counted since it was last closed by a success
          trial,     \* the worker that may try the provider while it is not closed
          running    \* its time is not up

vars == <<state, failures, trial, running>>

Init == state = "closed" /\ failures = 0 /\ trial = NoWorker /\ running = FALSE

NoTrial == trial' = NoWorker /\ running' = FALSE

\* A failure is counted whenever it arrives, that of a call begun before the breaker opened
\* included, which takes the trial away.
Fail == /\ failures' = failures + 1
        /\ state' = IF state = "closed" /\ failures + 1 < Threshold THEN "closed" ELSE "open"
        /\ NoTrial

\* A success while the breaker is closed forgets the failures.
Succeed == /\ state = "closed"
           /\ failures' = 0
           /\ UNCHANGED <<state, trial, running>>

\* One that begins late may have no time left.
Begin(w) == /\ state # "closed"
            /\ ~ running
            /\ state' = "half_open"
            /\ trial' = w
            /\ running' \in BOOLEAN
            /\ UNCHANGED failures

Lapse == /\ running
         /\ running' = FALSE
         /\ UNCHANGED <<state, failures, trial>>

TrialSucceeds == /\ trial # NoWorker
                 /\ state' = "closed" /\ failures' = 0
                 /\ NoTrial

TrialFails == /\ trial # NoWorker
              /\ state' = "open"
              /\ NoTrial
              /\ UNCHANGED failures

Next == \/ Fail \/ Succeed \/ Lapse \/ TrialSucceeds \/ TrialFails
        \/ \E w \in Workers : Begin(w)

Spec == Init /\ [][Next]_vars
===============================================================================
