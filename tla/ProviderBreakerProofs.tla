----------------------- MODULE ProviderBreakerProofs -----------------------
(***************************************************************************)
(* Proofs about ProviderBreaker, for any number of workers, any threshold  *)
(* and any number of tries.  The inductive invariant adds to the type that *)
(* a breaker that is not closed counted its failures, that a worker about  *)
(* to close it reports a success, that a half-open row and no other names  *)
(* a prober and a lease, that a lease which runs is ahead of every         *)
(* worker's reading of the clock, and that the prober's call, if it is     *)
(* making one, is its probe.                                               *)
(***************************************************************************)
EXTENDS ProviderBreaker, TLAPS

ClosingOnSuccess == \A w \in Workers : At(w, "close") => wk[w].outcome = "succeeded"

RowShape == /\ breaker.state = "half_open" <=> breaker.prober # NoWorker
            /\ breaker.state = "half_open" <=> breaker.lease # "none"

LeaseAhead == breaker.lease = "future" => \A w \in Workers : "lease" \in before[w]

NoCall == {"idle", "ask", "acquire"}
ProberOnProbe ==
    \A w \in Workers : breaker.prober = w => wk[w].step \in NoCall \/ wk[w].probe

IInv == /\ TypeOK /\ OpenedByFailures /\ ClosingOnSuccess
        /\ RowShape /\ LeaseAhead /\ ProberOnProbe

LEMMA InitIInv == Init => IInv
  BY BreakerAssumption DEF Init, IInv, TypeOK, OpenedByFailures, ClosingOnSuccess, At, Closed,
     Idle, Breaker, WorkerState, Outcomes, Steps, RowShape, LeaseAhead, ProberOnProbe, Times

(***************************************************************************)
(* The workers' entries                                                    *)
(***************************************************************************)
LEMMA IdleTyped == Idle \in WorkerState /\ \A p \in BOOLEAN :
                      [Idle EXCEPT !.step = "calling", !.probe = p] \in WorkerState
<1>1. 0 \in 0 .. Tries
  BY BreakerAssumption
<1>2. <<"closed", 0>> \in {"closed", "open", "half_open"} \X Nat
  OBVIOUS
<1>3. Idle \in WorkerState
  BY <1>1, <1>2 DEF Idle, WorkerState, Outcomes, Steps
<1>4. ASSUME NEW p \in BOOLEAN
      PROVE  [Idle EXCEPT !.step = "calling", !.probe = p] \in WorkerState
  BY <1>3 DEF WorkerState, Steps
<1> QED  BY <1>3, <1>4

\* The entries' part of the invariant.
Entries == wk \in [Workers -> WorkerState] /\ ClosingOnSuccess /\ ProberOnProbe

\* The row names no new prober.
KeepsProber == \A v \in Workers : breaker'.prober = v => breaker.prober = v

\* A worker's entry is replaced by a typed one, which does not claim to close on anything but a
\* success, and makes the prober's call on the probe.
LEMMA WorkerPart ==
  ASSUME IInv, NEW w \in Workers, NEW r \in WorkerState, wk' = [wk EXCEPT ![w] = r],
         r.step = "close" => r.outcome = "succeeded",
         breaker'.prober = w => r.step \in NoCall \/ r.probe,
         \A v \in Workers : v # w /\ breaker'.prober = v => breaker.prober = v
  PROVE  Entries'
<1>1. wk \in [Workers -> WorkerState]
  BY DEF IInv, TypeOK
<1>2. wk' \in [Workers -> WorkerState] /\ wk'[w] = r
      /\ \A v \in Workers : v # w => wk'[v] = wk[v]
  BY <1>1
<1>3. ClosingOnSuccess'
  BY <1>2 DEF IInv, ClosingOnSuccess, At
<1>4. ProberOnProbe'
  BY <1>2 DEF IInv, ProberOnProbe
<1> QED  BY <1>2, <1>3, <1>4 DEF Entries

LEMMA StopPart ==
  ASSUME IInv, NEW w \in Workers, Stop(w), KeepsProber
  PROVE  Entries'
<1>1. Idle.step = "idle"
  BY DEF Idle
<1> QED  BY <1>1, IdleTyped, WorkerPart DEF Stop, KeepsProber, NoCall

LEMMA CallPart ==
  ASSUME IInv, NEW w \in Workers, NEW p \in BOOLEAN, Call(w, p), breaker'.prober = w => p,
         \A v \in Workers : v # w /\ breaker'.prober = v => breaker.prober = v
  PROVE  Entries'
<1> DEFINE r == [Idle EXCEPT !.step = "calling", !.probe = p]
<1>1. r \in WorkerState /\ r.step # "close" /\ r.probe = p
  BY IdleTyped DEF Idle
<1>2. wk' = [wk EXCEPT ![w] = r]
  BY DEF Call
<1> HIDE DEF r
<1> QED  BY <1>1, <1>2, WorkerPart

LEMMA DonePart ==
  ASSUME IInv, NEW w \in Workers, Done(w), wk[w].step \notin NoCall, KeepsProber
  PROVE  Entries'
<1>1. wk[w].probe \in BOOLEAN
  BY DEF IInv, TypeOK, WorkerState
<1>2. breaker'.prober = w => wk[w].probe
  BY DEF IInv, ProberOnProbe, KeepsProber
<1>3. CASE Stop(w)
  BY <1>3, StopPart
<1>4. CASE Call(w, wk[w].probe)
  BY <1>1, <1>2, <1>4, CallPart DEF KeepsProber
<1> QED  BY <1>3, <1>4 DEF Done

\* The next step of a worker that keeps what it knows.
LEMMA GoPart ==
  ASSUME IInv, NEW w \in Workers, NEW s \in Steps, Go(w, s),
         s = "close" => wk[w].outcome = "succeeded",
         s \in NoCall \/ wk[w].step \notin NoCall, KeepsProber
  PROVE  Entries'
<1> DEFINE r == [wk[w] EXCEPT !.step = s]
<1>1. wk[w] \in WorkerState /\ wk \in [Workers -> WorkerState]
  BY DEF IInv, TypeOK
<1>2. r \in WorkerState /\ r.step = s /\ r.outcome = wk[w].outcome /\ r.probe = wk[w].probe
  BY <1>1 DEF WorkerState
<1>3. wk' = [wk EXCEPT ![w] = r]
  BY <1>1 DEF Go
<1>4. breaker'.prober = w => r.step \in NoCall \/ r.probe
  BY <1>2 DEF IInv, ProberOnProbe, KeepsProber
<1> HIDE DEF r
<1> QED  BY <1>2, <1>3, <1>4, WorkerPart DEF KeepsProber

(***************************************************************************)
(* The row and the readings of the clock                                   *)
(***************************************************************************)
RowPart == breaker \in Breaker /\ OpenedByFailures /\ RowShape
ClockPart == before \in [Workers -> SUBSET Times] /\ LeaseAhead

LEMMA Parts == Entries' /\ RowPart' /\ ClockPart' => IInv'
  BY DEF Entries, RowPart, ClockPart, IInv, TypeOK

LEMMA RowKept == IInv /\ UNCHANGED breaker => RowPart' /\ KeepsProber
  BY DEF IInv, TypeOK, OpenedByFailures, RowShape, RowPart, KeepsProber

LEMMA RowClosed ==
  ASSUME NEW n \in Nat, breaker' = [Closed EXCEPT !.failures = n]
  PROVE  RowPart' /\ KeepsProber /\ breaker'.lease = "none"
  BY BreakerAssumption DEF OpenedByFailures, RowShape, RowPart, KeepsProber, Closed, Breaker

LEMMA ClockKept ==
  ASSUME IInv, UNCHANGED before, breaker'.lease \in {breaker.lease, "none", "past"}
  PROVE  ClockPart'
  BY DEF IInv, TypeOK, ClockPart, LeaseAhead

LEMMA ClockRead ==
  ASSUME IInv, NEW w \in Workers, LooksAtClock(w), UNCHANGED breaker
  PROVE  ClockPart'
<1>1. before \in [Workers -> SUBSET Times]
  BY DEF IInv, TypeOK
<1>2. before' \in [Workers -> SUBSET Times]
  BY <1>1 DEF LooksAtClock
<1>3. ASSUME breaker.lease = "future", NEW v \in Workers
      PROVE  "lease" \in before'[v]
  <2>1. CASE v = w
    BY <1>1, <1>3, <2>1 DEF LooksAtClock, Times
  <2>2. CASE v # w
    BY <1>1, <1>3, <2>2 DEF LooksAtClock, IInv, LeaseAhead
  <2> QED  BY <2>1, <2>2
<1> QED  BY <1>2, <1>3 DEF ClockPart, LeaseAhead

LEMMA ClockWritten ==
  ASSUME IInv, NEW w \in Workers, NEW t \in Times, Writes(w, t),
         t = "lease" \/ breaker'.lease = "none"
  PROVE  ClockPart'
<1>1. before \in [Workers -> SUBSET Times]
  BY DEF IInv, TypeOK
<1>2. PICK S \in SUBSET Workers :
         /\ breaker'[t] = "future" => S = Workers
         /\ before' = [v \in Workers |-> IF v \in S THEN before[v] \cup {t} ELSE before[v] \ {t}]
  BY DEF Writes
<1>3. before' \in [Workers -> SUBSET Times]
  BY <1>1, <1>2
<1>4. ASSUME breaker'.lease = "future", NEW v \in Workers
      PROVE  "lease" \in before'[v]
  <2>1. t = "lease"
    BY <1>4
  <2>2. S = Workers
    BY <1>2, <1>4, <2>1
  <2> QED  BY <1>2, <2>1, <2>2
<1> QED  BY <1>3, <1>4 DEF ClockPart, LeaseAhead

\* A probe that a worker finds free is of an opened breaker, and nobody holds it under a lease.
LEMMA FreeIsOver ==
  ASSUME IInv, NEW w \in Workers, ProbeFree(w)
  PROVE  breaker.state # "closed" /\ breaker.lease # "future"
  BY DEF ProbeFree, Over, IInv, LeaseAhead, RowShape

LEMMA AcquireStep ==
  ASSUME IInv, NEW w \in Workers, AcquireProbe(w)
  PROVE  IInv'
<1>1. CASE ~ ProbeFree(w)
  BY <1>1, StopPart, RowKept, ClockKept, Parts DEF AcquireProbe
<1>2. CASE ProbeFree(w)
  <2>1. PICK l \in {"future", "past"} :
           breaker' = [breaker EXCEPT !.state = "half_open", !.prober = w, !.lease = l]
    BY <1>2 DEF AcquireProbe
  <2>2. breaker \in Breaker
    BY DEF IInv, TypeOK
  <2>3. /\ breaker' \in Breaker
        /\ breaker'.state = "half_open" /\ breaker'.prober = w /\ breaker'.lease # "none"
        /\ breaker'.failures = breaker.failures /\ breaker'.window = breaker.window
    BY <2>1, <2>2 DEF Breaker
  <2>4. RowPart'
    BY <1>2, <2>3, FreeIsOver, BreakerAssumption DEF RowPart, OpenedByFailures, RowShape, IInv
  <2>5. Call(w, TRUE) /\ Writes(w, "lease")
    BY <1>2 DEF AcquireProbe
  <2>6. Entries'
    BY <2>3, <2>5, CallPart
  <2>7. ClockPart'
    BY <2>5, ClockWritten DEF Times
  <2> QED  BY <2>4, <2>6, <2>7, Parts
<1> QED  BY <1>1, <1>2

LEMMA ReopenStep ==
  ASSUME IInv, NEW w \in Workers, Reopen(w)
  PROVE  IInv'
<1>0. Done(w) /\ wk[w].step \notin NoCall
  BY DEF Reopen, At, NoCall
<1>1. CASE ~ HoldsProbe(w)
  BY <1>0, <1>1, DonePart, RowKept, ClockKept, Parts DEF Reopen
<1>2. CASE HoldsProbe(w)
  <2>1. PICK o \in {"future", "past"} :
           breaker' = [breaker EXCEPT !.state = "open", !.window = o,
                                      !.prober = NoWorker, !.lease = "none"]
    BY <1>2 DEF Reopen
  <2>2. breaker \in Breaker
    BY DEF IInv, TypeOK
  <2>3. /\ breaker' \in Breaker
        /\ breaker'.state = "open" /\ breaker'.prober = NoWorker /\ breaker'.lease = "none"
        /\ breaker'.failures = breaker.failures /\ breaker'.window # "none"
    BY <2>1, <2>2 DEF Breaker
  <2>4. RowPart' /\ KeepsProber
    BY <1>2, <2>3, BreakerAssumption
    DEF RowPart, OpenedByFailures, RowShape, IInv, KeepsProber, HoldsProbe
  <2>5. Writes(w, "window")
    BY <1>2 DEF Reopen
  <2>6. ClockPart'
    BY <2>3, <2>5, ClockWritten DEF Times
  <2> QED  BY <1>0, <2>4, <2>6, DonePart, Parts
<1> QED  BY <1>1, <1>2

\* The failure that goes through raises the count by one, and a row it leaves open fits its count.
LEMMA CountsRow ==
  ASSUME IInv, NEW w \in Workers, Counts(w)
  PROVE  /\ RowPart' /\ KeepsProber /\ ClockPart'
         /\ breaker'.failures = breaker.failures + 1
         /\ breaker'.state = IF breaker.state = "closed" /\ breaker.failures + 1 < Threshold
                             THEN "closed" ELSE "open"
         /\ breaker'.prober = NoWorker /\ breaker'.lease = "none"
<1> DEFINE n == wk[w].seen[2] + 1
<1>1. breaker \in Breaker /\ wk[w].seen[2] = breaker.failures
  BY DEF Counts, Unchanged, IInv, TypeOK
<1>2. n = breaker.failures + 1 /\ n \in Nat
  BY <1>1 DEF Breaker
<1>3. breaker.state # "closed" => n >= Threshold
  BY <1>1, <1>2, BreakerAssumption DEF IInv, OpenedByFailures, Breaker
<1>4. CASE n < Threshold
  <2>1. breaker' = [Closed EXCEPT !.failures = n] /\ UNCHANGED before
    BY <1>2, <1>4, BreakerAssumption DEF Counts
  <2>2. /\ breaker'.state = "closed" /\ breaker'.failures = n
        /\ breaker'.prober = NoWorker /\ breaker'.lease = "none"
    BY <2>1 DEF Closed
  <2>3. breaker.state = "closed"
    BY <1>2, <1>3, <1>4, BreakerAssumption
  <2> HIDE DEF n
  <2> QED  BY <1>2, <1>4, <2>1, <2>2, <2>3, RowClosed, ClockKept
<1>5. CASE n >= Threshold
  <2>1. PICK o \in {"future", "past"} :
           breaker' = [Closed EXCEPT !.state = "open", !.failures = n, !.window = o]
    BY <1>2, <1>5, BreakerAssumption DEF Counts
  <2>2. Writes(w, "window")
    BY <1>2, <1>5, BreakerAssumption DEF Counts
  <2> HIDE DEF n
  <2>3. /\ breaker' \in Breaker
        /\ breaker'.state = "open" /\ breaker'.failures = n /\ breaker'.window # "none"
        /\ breaker'.prober = NoWorker /\ breaker'.lease = "none"
    BY <1>2, <2>1 DEF Closed, Breaker
  <2>4. RowPart' /\ KeepsProber
    BY <1>5, <2>3, BreakerAssumption DEF RowPart, OpenedByFailures, RowShape, KeepsProber
  <2>5. ClockPart'
    BY <2>2, <2>3, ClockWritten DEF Times
  <2>6. ~ n < Threshold
    BY <1>2, <1>5, BreakerAssumption
  <2> QED  BY <1>2, <2>3, <2>4, <2>5, <2>6
<1> QED  BY <1>2, <1>4, <1>5, BreakerAssumption

LEMMA UpdateStep ==
  ASSUME IInv, NEW w \in Workers, Update(w)
  PROVE  IInv'
<1>0. wk[w].step \notin NoCall
  BY DEF Update, At, NoCall
<1>1. CASE Counts(w)
  BY <1>0, <1>1, CountsRow, DonePart, Parts DEF Counts
<1>2. CASE UNCHANGED <<breaker, before>> /\ Done(w)
  BY <1>0, <1>2, DonePart, RowKept, ClockKept, Parts
<1>3. CASE UNCHANGED <<breaker, before>> /\ wk[w].tries + 1 < Tries /\ Again(w)
  <2> DEFINE r == [wk[w] EXCEPT !.step = "count", !.tries = wk[w].tries + 1]
  <2>1. wk[w] \in WorkerState /\ wk \in [Workers -> WorkerState]
    BY DEF IInv, TypeOK
  <2>2. wk[w].tries + 1 \in 0 .. Tries
    BY <1>3, <2>1, BreakerAssumption DEF WorkerState
  <2>3. r \in WorkerState /\ r.step # "close" /\ r.probe = wk[w].probe
    BY <2>1, <2>2 DEF WorkerState, Steps
  <2>4. wk' = [wk EXCEPT ![w] = r]
    BY <1>3, <2>1 DEF Again
  <2>5. KeepsProber /\ RowPart' /\ ClockPart'
    BY <1>3, RowKept, ClockKept
  <2>6. breaker'.prober = w => r.probe
    BY <1>0, <2>3, <2>5 DEF IInv, ProberOnProbe, KeepsProber
  <2> HIDE DEF r
  <2>7. Entries'
    BY <2>3, <2>4, <2>5, <2>6, WorkerPart DEF KeepsProber
  <2> QED  BY <2>5, <2>7, Parts
<1> QED  BY <1>1, <1>2, <1>3 DEF Update

LEMMA WorkStep ==
  ASSUME IInv, NEW w \in Workers, Work(w) \/ Throw(w) \/ Crash(w)
  PROVE  IInv'
<1>0. wk \in [Workers -> WorkerState] /\ breaker \in Breaker
  BY DEF IInv, TypeOK
<1>1. ASSUME UNCHANGED breaker
      PROVE  KeepsProber /\ RowPart'
  BY <1>1, RowKept
<1>2. ASSUME UNCHANGED <<breaker, before>>
      PROVE  ClockPart'
  BY <1>2, ClockKept
<1>3. CASE Poll(w)
  <2>1. Entries'
    BY <1>1, <1>3, GoPart DEF Poll, Steps, NoCall
  <2>2. ClockPart'
    BY <1>3, ClockRead DEF Poll
  <2> QED  BY <1>1, <1>3, <2>1, <2>2, Parts DEF Poll
<1>4. CASE Ask(w)
  <2>1. KeepsProber /\ RowPart' /\ ClockPart' /\ UNCHANGED breaker
    BY <1>1, <1>2, <1>4 DEF Ask
  <2>2. CASE breaker.state = "closed" /\ Call(w, FALSE)
    <3>1. breaker'.prober # w
      BY <2>1, <2>2, BreakerAssumption DEF IInv, RowShape
    <3> QED  BY <2>1, <2>2, <3>1, CallPart, Parts DEF KeepsProber
  <2>3. CASE Call(w, TRUE)
    BY <2>1, <2>3, CallPart, Parts DEF KeepsProber
  <2>4. CASE Go(w, "acquire")
    BY <2>1, <2>4, GoPart, Parts DEF Steps, NoCall
  <2>5. CASE Stop(w)
    BY <2>1, <2>5, StopPart, Parts
  <2> QED  BY <1>4, <2>2, <2>3, <2>4, <2>5 DEF Ask
<1>5. CASE Report(w)
  <2>1. KeepsProber /\ RowPart' /\ ClockPart' /\ wk[w].step \notin NoCall
    BY <1>1, <1>2, <1>5 DEF Report, At, NoCall
  <2>2. CASE Ignored(w) /\ Done(w)
    BY <2>1, <2>2, DonePart, Parts
  <2>3. CASE ~ Ignored(w)
    <3> DEFINE s == CASE wk[w].outcome = "succeeded" -> "close"
                      [] breaker.state = "half_open" -> "reopen"
                      [] OTHER -> "count"
    <3>1. s \in Steps /\ (s = "close" => wk[w].outcome = "succeeded")
      BY DEF Steps
    <3>2. Go(w, s)
      BY <1>5, <2>3 DEF Report
    <3> HIDE DEF s
    <3> QED  BY <2>1, <3>1, <3>2, GoPart, Parts
  <2> QED  BY <1>5, <2>2, <2>3 DEF Report
<1>6. CASE Close(w)
  <2>1. Done(w) /\ wk[w].step \notin NoCall /\ UNCHANGED before
    BY <1>6 DEF Close, At, NoCall
  <2>2. CASE breaker' = Closed
    <3>1. breaker' = [Closed EXCEPT !.failures = 0]
      BY <2>2 DEF Closed
    <3> QED  BY <2>1, <3>1, RowClosed, ClockKept, DonePart, Parts
  <2>3. CASE UNCHANGED breaker
    BY <1>1, <1>2, <2>1, <2>3, DonePart, Parts
  <2> QED  BY <1>6, <2>2, <2>3 DEF Close
<1>7. CASE Count(w)
  <2> DEFINE r == [wk[w] EXCEPT !.step = "update", !.seen = <<breaker.state, breaker.failures>>]
  <2>1. <<breaker.state, breaker.failures>> \in {"closed", "open", "half_open"} \X Nat
    BY <1>0 DEF Breaker
  <2>2. wk[w] \in WorkerState
    BY <1>0
  <2>3. r \in WorkerState /\ r.step # "close" /\ r.probe = wk[w].probe
    BY <2>1, <2>2 DEF WorkerState, Steps
  <2>4. wk' = [wk EXCEPT ![w] = r]
    BY <1>7 DEF Count
  <2>5. KeepsProber /\ RowPart' /\ ClockPart' /\ wk[w].step \notin NoCall
    BY <1>1, <1>2, <1>7 DEF Count, At, NoCall
  <2>6. breaker'.prober = w => r.probe
    BY <2>3, <2>5 DEF IInv, ProberOnProbe, KeepsProber
  <2> HIDE DEF r
  <2>7. Entries'
    BY <2>3, <2>4, <2>5, <2>6, WorkerPart DEF KeepsProber
  <2> QED  BY <2>5, <2>7, Parts
<1>8. CASE NoAnswer(w) \/ Throw(w)
  <2>1. Done(w) /\ wk[w].step \notin NoCall /\ UNCHANGED <<breaker, before>>
    BY <1>8 DEF NoAnswer, Throw, At, NoCall
  <2> QED  BY <1>1, <1>2, <2>1, DonePart, Parts
<1>9. ASSUME NEW o \in Outcomes, Answer(w, o)
      PROVE  IInv'
  <2> DEFINE r == [wk[w] EXCEPT !.step = "report", !.outcome = o]
  <2>1. wk[w] \in WorkerState /\ wk[w].step = "calling"
    BY <1>0, <1>9 DEF Answer, At
  <2>2. r \in WorkerState /\ r.step # "close" /\ r.probe = wk[w].probe
    BY <2>1, <1>9 DEF WorkerState, Steps
  <2>3. wk' = [wk EXCEPT ![w] = r]
    BY <1>0, <1>9 DEF Answer
  <2>4. KeepsProber /\ RowPart' /\ ClockPart'
    BY <1>1, <1>9, ClockRead DEF Answer
  <2>5. breaker'.prober = w => r.probe
    BY <2>1, <2>2, <2>4 DEF IInv, ProberOnProbe, KeepsProber, NoCall
  <2> HIDE DEF r
  <2>6. Entries'
    BY <2>2, <2>3, <2>4, <2>5, WorkerPart DEF KeepsProber
  <2> QED  BY <2>4, <2>6, Parts
<1>10. CASE Crash(w)
  BY <1>1, <1>2, <1>10, StopPart, Parts DEF Crash
<1> QED
  BY <1>3, <1>4, <1>5, <1>6, <1>7, <1>8, <1>9, <1>10, AcquireStep, ReopenStep, UpdateStep DEF Work

LEMMA TimeStep ==
  ASSUME IInv, WindowEnds \/ LeaseEnds
  PROVE  IInv'
<1>1. breaker \in Breaker /\ UNCHANGED <<wk, before>>
  BY DEF IInv, TypeOK, WindowEnds, LeaseEnds
<1>2. /\ breaker' \in Breaker
      /\ breaker'.state = breaker.state /\ breaker'.failures = breaker.failures
      /\ breaker'.prober = breaker.prober
      /\ breaker'.window \in {breaker.window, "past"}
      /\ breaker'.lease \in {breaker.lease, "past"}
      /\ breaker'.lease = "none" <=> breaker.lease = "none"
  BY <1>1 DEF WindowEnds, LeaseEnds, Breaker
<1>3. Entries'
  BY <1>1, <1>2 DEF Entries, IInv, TypeOK, ClosingOnSuccess, ProberOnProbe, At
<1>4. RowPart'
  BY <1>2 DEF RowPart, IInv, OpenedByFailures, RowShape
<1>5. ClockPart'
  BY <1>1, <1>2, ClockKept
<1> QED  BY <1>3, <1>4, <1>5, Parts

LEMMA NextIInv == IInv /\ [Next]_vars => IInv'
<1> SUFFICES ASSUME IInv, [Next]_vars PROVE IInv'
  OBVIOUS
<1>1. CASE UNCHANGED vars
  BY <1>1 DEF vars, IInv, TypeOK, OpenedByFailures, ClosingOnSuccess, RowShape, LeaseAhead,
              ProberOnProbe, At
<1>2. CASE Next
  BY <1>2, WorkStep, TimeStep DEF Next
<1> QED  BY <1>1, <1>2

\* The inductive invariant holds of every behavior of the breaker.
THEOREM Invariance == Spec => []IInv
  BY InitIInv, NextIInv, PTL DEF Spec

\* The row and the workers' entries keep their types, for all constants.
THEOREM TypeCorrect == Spec => []TypeOK
<1>1. IInv => TypeOK
  BY DEF IInv
<1> QED  BY <1>1, Invariance, PTL

\* A breaker is open or half-open only after Threshold failures were counted.
THEOREM OpenedByFailuresHolds == Spec => []OpenedByFailures
<1>1. IInv => OpenedByFailures
  BY DEF IInv
<1> QED  BY <1>1, Invariance, PTL

\* Only the success of its prober's probe, reported within the lease, closes an opened breaker.
THEOREM ProberCloses == Spec => ClosedByProber
<1>1. IInv /\ [Next]_vars
         => [breaker.state # "closed" /\ breaker'.state = "closed" =>
                \E w \in Workers : /\ HoldsProbe(w)
                                   /\ At(w, "close")
                                   /\ wk[w].outcome = "succeeded" /\ wk[w].probe]_vars
  <2> SUFFICES ASSUME IInv, Next, breaker.state # "closed", breaker'.state = "closed"
               PROVE  \E w \in Workers : /\ HoldsProbe(w)
                                         /\ At(w, "close")
                                         /\ wk[w].outcome = "succeeded" /\ wk[w].probe
    OBVIOUS
  <2>0. breaker \in Breaker /\ wk \in [Workers -> WorkerState]
    BY DEF IInv, TypeOK
  <2>1. PICK w \in Workers : Work(w) \/ Throw(w) \/ Crash(w)
    BY <2>0 DEF Next, WindowEnds, LeaseEnds, Breaker
  <2>2. CASE Close(w)
    <3>1. HoldsProbe(w) /\ At(w, "close")
      BY <2>2 DEF Close
    <3>2. wk[w].outcome = "succeeded"
      BY <3>1 DEF IInv, ClosingOnSuccess
    <3>3. wk[w].probe
      BY <3>1 DEF IInv, ProberOnProbe, HoldsProbe, At, NoCall
    <3> QED  BY <3>1, <3>2, <3>3
  <2>3. ~ Update(w)
    <3> SUFFICES ASSUME Update(w) PROVE FALSE
      OBVIOUS
    <3>1. Counts(w)
      BY DEF Update
    <3> QED  BY <3>1, CountsRow
  <2>4. ~ AcquireProbe(w) /\ ~ Reopen(w)
    BY <2>0 DEF AcquireProbe, Reopen, Breaker
  <2> QED
    BY <2>1, <2>2, <2>3, <2>4 DEF Work, Poll, Ask, Report, Count, NoAnswer, Answer, Throw, Crash
<1> QED  BY <1>1, Invariance, PTL DEF Spec, ClosedByProber

\* What one worker does leaves the entries of the others as they are.
LEMMA OthersStay ==
  ASSUME IInv, NEW v \in Workers, Work(v) \/ Throw(v) \/ Crash(v), NEW w \in Workers, w # v
  PROVE  wk'[w] = wk[w]
<1>1. wk \in [Workers -> WorkerState]
  BY DEF IInv, TypeOK
<1>2. \E r : wk' = [wk EXCEPT ![v] = r]
  BY DEF Work, Poll, Ask, AcquireProbe, Report, Close, Reopen, Count, Update, Counts, Again,
         NoAnswer, Answer, Throw, Crash, Done, Stop, Call, Go
<1> QED  BY <1>1, <1>2

\* Workers that report at once lose no failure, for any number of them.
THEOREM FailuresCountedHolds == Spec => FailuresCounted
<1> DEFINE Rule(w) == At(w, "update") /\ breaker' # breaker /\ wk'[w] # wk[w]
                          => breaker'.failures = breaker.failures + 1
<1>1. ASSUME IInv, [Next]_vars, NEW w \in Workers, At(w, "update"), breaker' # breaker,
             wk'[w] # wk[w]
      PROVE  breaker'.failures = breaker.failures + 1
  <2>1. breaker \in Breaker /\ wk \in [Workers -> WorkerState]
    BY <1>1 DEF IInv, TypeOK
  <2>2. PICK v \in Workers : Work(v) \/ Throw(v) \/ Crash(v)
    BY <1>1 DEF Next, WindowEnds, LeaseEnds, vars
  <2>3. v = w
    BY <1>1, <2>2, OthersStay
  <2>4. Update(w)
    BY <1>1, <2>2, <2>3 DEF Work, Poll, Ask, AcquireProbe, Report, Close, Reopen, Count, NoAnswer,
                            Answer, Throw, Crash, At
  <2>5. Counts(w)
    BY <1>1, <2>4 DEF Update
  <2> QED  BY <1>1, <2>5, CountsRow
<1>2. IInv /\ [Next]_vars => [\A w \in Workers : Rule(w)]_vars
  BY <1>1
<1> QED  BY <1>2, Invariance, PTL DEF Spec, FailuresCounted

(***************************************************************************)
(* The breaker in one piece                                                *)
(***************************************************************************)
\* The row is a circuit breaker: what the workers read, and when, cannot be told from it.
THEOREM BreakerImplemented == Spec => ImplementsBreaker
<1>1. Init => Row!Init
  BY DEF Init, Closed, Row!Init
<1>2. ASSUME IInv, [Next]_vars
      PROVE  [Row!Next]_(Row!vars)
  <2>0. breaker \in Breaker
    BY <1>2 DEF IInv, TypeOK
  <2>1. CASE UNCHANGED breaker
    BY <2>1 DEF Row!vars
  <2>2. ASSUME NEW w \in Workers, AcquireProbe(w), breaker' # breaker
        PROVE  Row!Next
    <3>1. ProbeFree(w)
      BY <2>2 DEF AcquireProbe
    <3>2. PICK l \in {"future", "past"} :
             breaker' = [breaker EXCEPT !.state = "half_open", !.prober = w, !.lease = l]
      BY <2>2 DEF AcquireProbe
    <3>3. /\ breaker'.state = "half_open" /\ breaker'.failures = breaker.failures
          /\ breaker'.prober = w
      BY <2>0, <3>2 DEF Breaker
    <3>4. breaker.state # "closed" /\ breaker.lease # "future"
      BY <1>2, <3>1, FreeIsOver
    <3>5. Row!Begin(w)
      BY <3>3, <3>4 DEF Row!Begin
    <3> QED  BY <3>5 DEF Row!Next
  <2>3. ASSUME NEW w \in Workers, Close(w), breaker' # breaker
        PROVE  Row!Next
    <3>1. breaker' = Closed /\ (breaker.state = "closed" \/ HoldsProbe(w))
      BY <2>3 DEF Close
    <3>2. /\ breaker'.state = "closed" /\ breaker'.failures = 0
          /\ breaker'.prober = NoWorker /\ breaker'.lease = "none"
      BY <3>1 DEF Closed
    <3>3. CASE breaker.state = "closed"
      <4>1. breaker.prober = NoWorker /\ breaker.lease = "none"
        BY <1>2, <3>3 DEF IInv, RowShape
      <4>2. Row!Succeed
        BY <3>2, <3>3, <4>1 DEF Row!Succeed
      <4> QED  BY <4>2 DEF Row!Next
    <3>4. CASE HoldsProbe(w)
      <4>1. breaker.prober # NoWorker
        BY <3>4, BreakerAssumption DEF HoldsProbe
      <4>2. Row!TrialSucceeds
        BY <3>2, <4>1 DEF Row!TrialSucceeds, Row!NoTrial
      <4> QED  BY <4>2 DEF Row!Next
    <3> QED  BY <3>1, <3>3, <3>4
  <2>4. ASSUME NEW w \in Workers, Reopen(w), breaker' # breaker
        PROVE  Row!Next
    <3>1. HoldsProbe(w)
      BY <2>4 DEF Reopen
    <3>2. PICK o \in {"future", "past"} :
             breaker' = [breaker EXCEPT !.state = "open", !.window = o,
                                        !.prober = NoWorker, !.lease = "none"]
      BY <2>4 DEF Reopen
    <3>3. /\ breaker'.state = "open" /\ breaker'.failures = breaker.failures
          /\ breaker'.prober = NoWorker /\ breaker'.lease = "none"
      BY <2>0, <3>2 DEF Breaker
    <3>4. breaker.prober # NoWorker
      BY <3>1, BreakerAssumption DEF HoldsProbe
    <3>5. Row!TrialFails
      BY <3>3, <3>4 DEF Row!TrialFails, Row!NoTrial
    <3> QED  BY <3>5 DEF Row!Next
  <2>5. ASSUME NEW w \in Workers, Update(w), breaker' # breaker
        PROVE  Row!Next
    <3>1. Counts(w)
      BY <2>5 DEF Update
    <3>2. Row!Fail
      BY <1>2, <3>1, CountsRow DEF Row!Fail, Row!NoTrial
    <3> QED  BY <3>2 DEF Row!Next
  <2>6. CASE WindowEnds
    <3>1. /\ breaker'.state = breaker.state /\ breaker'.failures = breaker.failures
          /\ breaker'.prober = breaker.prober /\ breaker'.lease = breaker.lease
      BY <2>0, <2>6 DEF WindowEnds, Breaker
    <3> QED  BY <3>1 DEF Row!vars
  <2>7. CASE LeaseEnds
    <3>1. /\ breaker'.state = breaker.state /\ breaker'.failures = breaker.failures
          /\ breaker'.prober = breaker.prober
          /\ breaker.lease = "future" /\ breaker'.lease = "past"
      BY <2>0, <2>7 DEF LeaseEnds, Breaker
    <3>2. Row!Lapse
      BY <3>1 DEF Row!Lapse
    <3> QED  BY <3>2 DEF Row!Next
  <2> QED
    BY <1>2, <2>1, <2>2, <2>3, <2>4, <2>5, <2>6, <2>7
    DEF Next, Work, Poll, Ask, Report, Count, NoAnswer, Answer, Throw, Crash, vars
<1> QED  BY <1>1, <1>2, Invariance, PTL DEF Spec, ImplementsBreaker, Row!Spec
=============================================================================
