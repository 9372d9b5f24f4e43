-------------------------- MODULE ProviderBreaker --------------------------
(***************************************************************************)
(* The circuit breaker of one external provider: a row shared by the       *)
(* worker hosts, which read it, decide, and update it on a condition.      *)
(* Every call of the repository is a step.                                 *)
(*                                                                         *)
(* Time is left open: the open window and a probe's lease end at any       *)
(* moment after they began.  A worker reads the clock once, before it      *)
(* reads the row, and compares with that reading to the end of its         *)
(* update, whatever the time is by then.  The hosts' clocks agree.         *)
(***************************************************************************)
EXTENDS Naturals

CONSTANTS Workers,
          NoWorker,     \* a null probe_worker_id
          Threshold,    \* failureThreshold
          Tries         \* attempts of the optimistic update

ASSUME BreakerAssumption ==
    /\ NoWorker \notin Workers
    /\ Threshold \in Nat \ {0}
    /\ Tries \in Nat \ {0}

VARIABLES breaker,  \* the row of provider_circuit_breakers
          wk,       \* what each worker is doing, with what it has read
          before    \* the times of the row that each worker's reading of the clock comes before

vars == <<breaker, wk, before>>

\* `window' is opened_until and `lease' probe_lease_expires_at, against the present.
Breaker == [state : {"closed", "open", "half_open"}, failures : Nat,
            window : {"none", "future", "past"}, prober : Workers \cup {NoWorker},
            lease : {"none", "future", "past"}]
Times == {"window", "lease"}
Outcomes == {"succeeded", "retryable", "fatal"}
Steps == {"idle", "ask", "acquire", "calling", "report", "close", "reopen", "count", "update"}
\* `seen' is the state and count the optimistic update compares.
WorkerState == [step : Steps, probe : BOOLEAN, outcome : Outcomes, tries : 0 .. Tries,
                seen : {"closed", "open", "half_open"} \X Nat]

Idle == [step |-> "idle", probe |-> FALSE, outcome |-> "fatal", tries |-> 0,
         seen |-> <<"closed", 0>>]

\* A missing row reads as this one.
Closed == [state |-> "closed", failures |-> 0, window |-> "none", prober |-> NoWorker,
           lease |-> "none"]

Init == /\ breaker = Closed
        /\ wk = [w \in Workers |-> Idle]
        /\ before = [w \in Workers |-> {}]

At(w, s) == wk[w].step = s
Go(w, s) == wk' = [wk EXCEPT ![w].step = s]
Stop(w) == wk' = [wk EXCEPT ![w] = Idle]
Call(w, p) == wk' = [wk EXCEPT ![w] = [Idle EXCEPT !.step = "calling", !.probe = p]]
\* The worker ends its iteration, or goes on to the next job of its batch without asking again.
Done(w) == Stop(w) \/ Call(w, wk[w].probe)

\* `now': the worker reads the clock.
LooksAtClock(w) == before' = [before EXCEPT ![w] = {t \in Times : breaker[t] = "future"}]

Ahead(w, t) == breaker[t] # "none" /\ t \in before[w]
Over(w, t) == breaker[t] # "none" /\ t \notin before[w]

\* The row gets a time that w computed from its reading.  Those who looked at the clock since
\* then may have looked after it, unless it is still ahead.
Writes(w, t) ==
    \E S \in SUBSET Workers :
        /\ w \in S
        /\ breaker'[t] = "future" => S = Workers
        /\ before' = [v \in Workers |-> IF v \in S THEN before[v] \cup {t} ELSE before[v] \ {t}]

HoldsProbe(w) == /\ breaker.state = "half_open"
                 /\ breaker.prober = w
                 /\ Ahead(w, "lease")

\* Faulty variant of ProbeFree: the lease of a prober that died is never taken over.
ProbeFreeOnce(w) == breaker.state = "open" /\ Over(w, "window")

ProbeFree(w) == \/ breaker.state = "open" /\ Over(w, "window")
                \/ breaker.state = "half_open" /\ (breaker.lease = "none" \/ Over(w, "lease"))

\* An iteration begins.
Poll(w) ==
    /\ At(w, "idle")
    /\ LooksAtClock(w)
    /\ Go(w, "ask")
    /\ UNCHANGED breaker

\* canCallProvider reads the row: the call is allowed, is worth a try for the probe, or denied.
Ask(w) ==
    /\ At(w, "ask")
    /\ \/ breaker.state = "closed" /\ Call(w, FALSE)
       \/ HoldsProbe(w) /\ Call(w, TRUE)
       \/ ProbeFree(w) /\ Go(w, "acquire")
       \/ ~ (breaker.state = "closed" \/ HoldsProbe(w) \/ ProbeFree(w)) /\ Stop(w)
    /\ UNCHANGED <<breaker, before>>

\* acquireHalfOpenProbe: one conditional update.  A slow one writes a lease that is over.
AcquireProbe(w) ==
    /\ At(w, "acquire")
    /\ \/ /\ ProbeFree(w)
          /\ \E l \in {"future", "past"} :
                breaker' = [breaker EXCEPT !.state = "half_open", !.prober = w, !.lease = l]
          /\ Writes(w, "lease")
          /\ Call(w, TRUE)
       \/ /\ ~ ProbeFree(w)
          /\ Stop(w)
          /\ UNCHANGED <<breaker, before>>

\* The job's provider call ends, and with it the job: the worker looks at the clock to report
\* it.  With no job, or for one that ended without an answer of the provider, nothing is
\* reported.
Answer(w, o) ==
    /\ At(w, "calling")
    /\ LooksAtClock(w)
    /\ wk' = [wk EXCEPT ![w].step = "report", ![w].outcome = o]
    /\ UNCHANGED breaker
NoAnswer(w) ==
    /\ At(w, "calling")
    /\ Done(w)
    /\ UNCHANGED <<breaker, before>>

\* recordProviderSuccess and recordProviderFailure read the row and choose the update.  A
\* failure that cannot be retried only changes last_error_code.
Ignored(w) ==
    \/ wk[w].outcome = "fatal"
    \/ breaker.state = "open"
    \/ breaker.state = "half_open" /\ ~ HoldsProbe(w)
Report(w) ==
    /\ At(w, "report")
    /\ \/ Ignored(w) /\ Done(w)
       \/ /\ ~ Ignored(w)
          /\ Go(w, CASE wk[w].outcome = "succeeded" -> "close"
                     [] breaker.state = "half_open" -> "reopen"
                     [] OTHER -> "count")
    /\ UNCHANGED <<breaker, before>>

\* Faulty variant of Close: the update names the row only.
CloseAny(w) ==
    /\ At(w, "close")
    /\ breaker' = Closed
    /\ Done(w)
    /\ UNCHANGED before

\* closeProvider: the row is closed already, or half-open under this worker's probe.  Its lease
\* may be over when the row is written; it was not when the worker looked at the clock.
Close(w) ==
    /\ At(w, "close")
    /\ breaker' = IF breaker.state = "closed" \/ HoldsProbe(w) THEN Closed ELSE breaker
    /\ Done(w)
    /\ UNCHANGED before

\* Faulty variant of Reopen: the count starts again.
ReopenResets(w) ==
    /\ At(w, "reopen")
    /\ \/ /\ HoldsProbe(w)
          /\ breaker' = [Closed EXCEPT !.state = "open", !.window = "future"]
          /\ Writes(w, "window")
       \/ ~ HoldsProbe(w) /\ UNCHANGED <<breaker, before>>
    /\ Done(w)

\* reopenProvider: the probe failed.
Reopen(w) ==
    /\ At(w, "reopen")
    /\ \/ /\ HoldsProbe(w)
          /\ \E o \in {"future", "past"} :
                breaker' = [breaker EXCEPT !.state = "open", !.window = o,
                                           !.prober = NoWorker, !.lease = "none"]
          /\ Writes(w, "window")
       \/ ~ HoldsProbe(w) /\ UNCHANGED <<breaker, before>>
    /\ Done(w)

\* recordRetryableFailure reads the row again, whatever its state is by now ...
Count(w) ==
    /\ At(w, "count")
    /\ wk' = [wk EXCEPT ![w] = [@ EXCEPT !.step = "update",
                                         !.seen = <<breaker.state, breaker.failures>>]]
    /\ UNCHANGED <<breaker, before>>

\* Faulty variant of Unchanged: the update is not conditional.
UnchangedAlways(w) == wk[w].step = "update"

Unchanged(w) == wk[w].seen = <<breaker.state, breaker.failures>>

\* The failure is counted, and at the threshold the breaker opens.
Counts(w) ==
    LET n == wk[w].seen[2] + 1 IN
    /\ Unchanged(w)
    /\ \/ /\ n < Threshold
          /\ breaker' = [Closed EXCEPT !.failures = n]
          /\ UNCHANGED before
       \/ /\ n >= Threshold
          /\ \E o \in {"future", "past"} :
                breaker' = [Closed EXCEPT !.state = "open", !.failures = n, !.window = o]
          /\ Writes(w, "window")
    /\ Done(w)

Again(w) == wk' = [wk EXCEPT ![w] = [@ EXCEPT !.step = "count", !.tries = wk[w].tries + 1]]

\* Faulty variant of Update: it never gives up.
UpdateForever(w) ==
    /\ At(w, "update")
    /\ \/ Counts(w)
       \/ ~ Unchanged(w) /\ Again(w) /\ UNCHANGED <<breaker, before>>

\* ... and counts the failure if state and count are still the same; it gives up after Tries.
Update(w) ==
    /\ At(w, "update")
    /\ \/ Counts(w)
       \/ /\ ~ Unchanged(w)
          /\ IF wk[w].tries + 1 < Tries THEN Again(w) ELSE Done(w)
          /\ UNCHANGED <<breaker, before>>

\* A call of the repository throws while a result is reported: the worker goes on without it.
Throw(w) ==
    /\ wk[w].step \in {"report", "close", "reopen", "count", "update"}
    /\ Done(w)
    /\ UNCHANGED <<breaker, before>>

\* The process dies, or the iteration fails.
Crash(w) ==
    /\ ~ At(w, "idle")
    /\ Stop(w)
    /\ UNCHANGED <<breaker, before>>

WindowEnds == /\ breaker.window = "future"
              /\ breaker' = [breaker EXCEPT !.window = "past"]
              /\ UNCHANGED <<wk, before>>
LeaseEnds == /\ breaker.lease = "future"
             /\ breaker' = [breaker EXCEPT !.lease = "past"]
             /\ UNCHANGED <<wk, before>>

Work(w) == \/ Poll(w) \/ Ask(w) \/ AcquireProbe(w) \/ Report(w) \/ Close(w) \/ Reopen(w)
           \/ Count(w) \/ Update(w) \/ NoAnswer(w)
           \/ \E o \in Outcomes : Answer(w, o)

Next == \/ \E w \in Workers : Work(w) \/ Throw(w) \/ Crash(w)
        \/ WindowEnds
        \/ LeaseEnds

Spec == Init /\ [][Next]_vars

\* Time passes; a worker polls on and goes on with what it does, its batches end, and it does
\* not die each time it is about to ask, or has just found the probe free.
LiveSpec == /\ Spec
            /\ WF_vars(WindowEnds)
            /\ WF_vars(LeaseEnds)
            /\ \A w \in Workers : /\ WF_vars(Work(w))
                                /\ SF_vars(Work(w) /\ Stop(w))
                                /\ SF_vars(Ask(w))
                                /\ SF_vars(AcquireProbe(w))

(***************************************************************************)
(* Properties                                                              *)
(***************************************************************************)
TypeOK == /\ breaker \in Breaker
          /\ wk \in [Workers -> WorkerState]
          /\ before \in [Workers -> SUBSET Times]

\* A breaker that is not closed has counted the failures that open it.  Because of this the
\* optimistic update, which writes "closed" below the threshold, never closes a breaker that
\* another worker opened meanwhile.
OpenedByFailures ==
    breaker.state # "closed" => breaker.failures >= Threshold /\ breaker.window # "none"

\* A breaker that opened is closed again only by the worker the row still names as its prober,
\* and only on the success of the call it made as the prober, reported within its lease: never on
\* a late success from before the breaker opened, nor after another worker took the probe over.
ClosedByProber ==
    [][breaker.state # "closed" /\ breaker'.state = "closed" =>
          \E w \in Workers : /\ HoldsProbe(w)
                             /\ At(w, "close")
                             /\ wk[w].outcome = "succeeded" /\ wk[w].probe]_vars

\* Not promised: the lease runs when the row is closed.
ClosedUnderLease ==
    [][breaker.state # "closed" /\ breaker'.state = "closed" => breaker.lease = "future"]_vars

\* No failure is lost between workers that report at once: the one whose update goes through
\* raises the count by one.
FailuresCounted ==
    [][\A w \in Workers :
          At(w, "update") /\ breaker' # breaker /\ wk'[w] # wk[w]
              => breaker'.failures = breaker.failures + 1]_vars

\* Between readings of the clock, reads of the row, conditional updates, leases that run out,
\* errors and deaths the row is the breaker that CircuitBreaker specifies, in one piece: no
\* failure is lost, no late write closes an open breaker, and nobody begins a trial while the
\* time of another's runs.  What the workers have read is hidden.
Row == INSTANCE CircuitBreaker WITH
          state <- breaker.state,
          failures <- breaker.failures,
          trial <- breaker.prober,
          running <- breaker.lease = "future"
ImplementsBreaker == Row!Spec

\* An open breaker is not left open: it closes, or some worker tries the provider on a probe,
\* also when earlier probers died.
Probed == breaker.state # "closed" ~>
              breaker.state = "closed" \/ \E w \in Workers : At(w, "calling") /\ wk[w].probe

\* test: a failure of a worker that does not hold the probe leaves a half-open breaker alone.
ProbeLeftToProber ==
    [][\A w \in Workers :
          HoldsProbe(w) /\ breaker'.state = "open" => wk'[w] # wk[w]]_vars
=============================================================================
