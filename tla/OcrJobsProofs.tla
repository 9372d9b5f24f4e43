--------------------------- MODULE OcrJobsProofs ---------------------------
(***************************************************************************)
(* Proofs about OcrJobs, for any jobs, workers, inline runs and clerks and *)
(* any attempt limits.  That a usable result is paid rests on what a run   *)
(* knows: once it is past the consumption its reservation is consumed, and *)
(* a run that found nothing to consume found it consumed already.          *)
(***************************************************************************)
EXTENDS OcrJobs, TLAPS

Entries == Run \cup {Idle}
Held == {"preflight", "provider", "answered"}       \* between the reservation and its settling
Kept == {"persist", "write_job", "write_result"}    \* the answer is being kept

PaidRuns ==
    \A e \in Executors :
        /\ exec[e].step \in Held /\ ~ exec[e].reserved => resv[exec[e].job] = "consumed"
        /\ exec[e].step \in Kept \cup {"recheck"} => resv[exec[e].job] = "consumed"
        /\ exec[e].step \in Kept => exec[e].outcome \in Usable

IInv == TypeOK /\ PaidResult /\ PaidRuns /\ OwnerHoldsLatest

\* What a step leaves of the four parts of the invariant.
ConsumedStays == \A j \in Jobs : resv[j] = "consumed" => resv'[j] = "consumed"
RunsOK == exec' \in [Executors -> Entries] /\ PaidRuns'
RunsGoOn == \A w \in Workers :
                exec'[w].step # "idle" => /\ exec[w].step # "idle"
                                          /\ exec'[w].job = exec[w].job
                                          /\ exec'[w].attempt = exec[w].attempt
ResvOK == resv' \in [Jobs -> {"reserved", "consumed", "released"}] /\ ConsumedStays
ResultOK == result' \in [Jobs -> ResultRow]
            /\ \A j \in Jobs : result'[j].status \in Usable => resv'[j] = "consumed"
OwnersGoOn == \A j \in Jobs :
                 job'[j].owner \in Workers /\ job'[j].status = "running" =>
                     /\ job[j].owner = job'[j].owner
                     /\ job[j].status = "running"
                     /\ job'[j].attempt = job[j].attempt
JobOK == job' \in [Jobs -> JobRow] /\ OwnersGoOn
OtherOK == report' \in [Jobs -> {"ocr_ing", "pending_review", "voided"}]
           /\ clerk' \in [Clerks -> Retry \cup {Idle}]

LEMMA InitIInv == Init => IInv
<1> SUFFICES ASSUME Init PROVE IInv
  OBVIOUS
<1>1. \A e \in Executors : exec[e] = Idle
  BY DEF Init
<1>2. \A k \in Clerks : clerk[k] = Idle
  BY DEF Init
<1>3. [status |-> "queued", attempt |-> 0, max |-> MaxAttempts, owner |-> NoOne,
       lease |-> "none", lock |-> "none"] \in JobRow
  BY OcrAssumption DEF JobRow, Settled
<1>4. [status |-> "pending", reviewed |-> FALSE] \in ResultRow
  BY DEF ResultRow
<1>5. TypeOK
  BY <1>1, <1>2, <1>3, <1>4 DEF Init, TypeOK
<1>6. PaidResult /\ PaidRuns /\ OwnerHoldsLatest
  BY <1>1 DEF Init, PaidResult, PaidRuns, OwnerHoldsLatest, Usable, Idle, At, Held, Kept,
     Executors
<1> QED  BY <1>5, <1>6 DEF IInv

(***************************************************************************)
(* Runs                                                                    *)
(***************************************************************************)
LEMMA InRun ==
  ASSUME TypeOK, NEW e \in Executors, exec[e].step # "idle"
  PROVE  exec[e] \in Run /\ exec[e].job \in Jobs /\ exec \in [Executors -> Entries]
<1>1. exec \in [Executors -> Entries] /\ exec[e] \in Run \cup {Idle}
  BY DEF TypeOK, Entries
<1>2. exec[e] # Idle
  BY DEF Idle
<1> QED  BY <1>1, <1>2 DEF Run

\* An entry that is replaced by one that knows no more than is true.
LEMMA NewEntry ==
  ASSUME IInv, ConsumedStays, NEW e \in Executors, NEW r \in Entries,
         exec' = [exec EXCEPT ![e] = r],
         r.step \in Held /\ ~ r.reserved => resv'[r.job] = "consumed",
         r.step \in Kept \cup {"recheck"} => resv'[r.job] = "consumed",
         r.step \in Kept => r.outcome \in Usable
  PROVE  RunsOK
<1>1. exec \in [Executors -> Entries]
  BY DEF IInv, TypeOK, Entries
<1>2. exec' \in [Executors -> Entries]
  BY <1>1
<1>3. ASSUME NEW f \in Executors
      PROVE  /\ exec'[f].step \in Held /\ ~ exec'[f].reserved
                   => resv'[exec'[f].job] = "consumed"
             /\ exec'[f].step \in Kept \cup {"recheck"} => resv'[exec'[f].job] = "consumed"
             /\ exec'[f].step \in Kept => exec'[f].outcome \in Usable
  <2>1. CASE f = e
    BY <1>1, <2>1
  <2>2. CASE f # e
    <3>1. exec'[f] = exec[f]
      BY <1>1, <2>2
    <3>2. exec[f].step \in Held \cup Kept \cup {"recheck"} => exec[f].job \in Jobs
      BY InRun DEF IInv, Held, Kept
    <3> QED  BY <3>1, <3>2 DEF IInv, PaidRuns, ConsumedStays
  <2> QED  BY <2>1, <2>2
<1> QED  BY <1>2, <1>3 DEF RunsOK, PaidRuns

LEMMA StopRun ==
  ASSUME IInv, ConsumedStays, NEW e \in Executors, Stop(e)
  PROVE  RunsOK /\ RunsGoOn
<1>1. exec \in [Executors -> Entries] /\ Idle \in Entries /\ exec' = [exec EXCEPT ![e] = Idle]
  BY DEF IInv, TypeOK, Entries, Stop
<1>2. Idle.step = "idle" /\ "idle" \notin Held \cup Kept \cup {"recheck"}
  BY DEF Idle, Held, Kept
<1>3. RunsOK
  BY <1>1, <1>2, NewEntry
<1>4. RunsGoOn
  BY <1>1, <1>2 DEF RunsGoOn, Executors
<1> QED  BY <1>3, <1>4

LEMMA SameRuns ==
  ASSUME IInv, ConsumedStays, UNCHANGED exec
  PROVE  RunsOK /\ RunsGoOn
<1>1. exec \in [Executors -> Entries]
  BY DEF IInv, TypeOK, Entries
<1>2. \A e \in Executors :
         exec[e].step \in Held \cup Kept \cup {"recheck"} => exec[e].job \in Jobs
  BY InRun DEF IInv, Held, Kept
<1>3. RunsOK
  BY <1>1, <1>2 DEF RunsOK, IInv, PaidRuns, ConsumedStays
<1> QED  BY <1>3 DEF RunsGoOn

\* A run goes on to a step; its outcome and what it knows of its reservation stay.
LEMMA GoRun ==
  ASSUME IInv, ConsumedStays, NEW e \in Executors, exec[e].step # "idle",
         NEW s \in Steps, Go(e, s),
         s \in Held /\ ~ exec[e].reserved => resv'[J(e)] = "consumed",
         s \in Kept \cup {"recheck"} => resv'[J(e)] = "consumed",
         s \in Kept => exec[e].outcome \in Usable
  PROVE  RunsOK /\ RunsGoOn
<1> DEFINE r == [exec[e] EXCEPT !.step = s]
<1>1. exec[e] \in Run /\ exec \in [Executors -> Entries]
  BY InRun DEF IInv
<1>2. /\ r \in Run
      /\ r.step = s /\ r.outcome = exec[e].outcome /\ r.reserved = exec[e].reserved
      /\ r.job = exec[e].job /\ r.attempt = exec[e].attempt
  BY <1>1 DEF Run
<1>3. r \in Entries /\ exec' = [exec EXCEPT ![e] = r]
  BY <1>1, <1>2 DEF Entries, Go
<1> HIDE DEF r
<1>4. RunsOK
  BY <1>2, <1>3, NewEntry DEF J
<1>5. RunsGoOn
  BY <1>1, <1>2, <1>3 DEF RunsGoOn, Executors
<1> QED  BY <1>4, <1>5

LEMMA FailRun ==
  ASSUME IInv, ConsumedStays, NEW e \in Executors, exec[e].step # "idle",
         NEW o \in Outcomes, FailWith(e, o)
  PROVE  RunsOK /\ RunsGoOn
<1> DEFINE r == [exec[e] EXCEPT !.step = "fail", !.outcome = o]
<1>1. exec[e] \in Run /\ exec \in [Executors -> Entries]
  BY InRun DEF IInv
<1>2. /\ r \in Run
      /\ r.step = "fail" /\ r.job = exec[e].job /\ r.attempt = exec[e].attempt
  BY <1>1 DEF Run, Steps
<1>3. r \in Entries /\ exec' = [exec EXCEPT ![e] = r]
  BY <1>1, <1>2 DEF Entries, FailWith
<1>4. "fail" \notin Held \cup Kept \cup {"recheck"}
  BY DEF Held, Kept
<1> HIDE DEF r
<1>5. RunsOK
  BY <1>2, <1>3, <1>4, NewEntry
<1>6. RunsGoOn
  BY <1>1, <1>2, <1>3 DEF RunsGoOn, Executors
<1> QED  BY <1>5, <1>6

(***************************************************************************)
(* Rows                                                                    *)
(***************************************************************************)
LEMMA SameResv == IInv /\ UNCHANGED resv => ResvOK
  BY DEF IInv, TypeOK, ResvOK, ConsumedStays

LEMMA SameResult == IInv /\ UNCHANGED result /\ ConsumedStays => ResultOK
  BY DEF IInv, TypeOK, PaidResult, ResultOK, ConsumedStays

LEMMA SameJob == IInv /\ UNCHANGED job => JobOK
  BY DEF IInv, TypeOK, JobOK, OwnersGoOn

LEMMA SameOther == IInv /\ UNCHANGED <<report, clerk>> => OtherOK
  BY DEF IInv, TypeOK, OtherOK

\* A reservation changes, but not from consumed.
LEMMA NewResv ==
  ASSUME IInv, NEW j \in Jobs, NEW v \in {"reserved", "consumed", "released"},
         resv' = [resv EXCEPT ![j] = v], resv[j] = "consumed" => v = "consumed"
  PROVE  ResvOK /\ resv'[j] = v
  BY DEF IInv, TypeOK, ResvOK, ConsumedStays

LEMMA NewResult ==
  ASSUME IInv, ConsumedStays, NEW j \in Jobs, NEW s \in Settled \cup {"pending"},
         WriteResult(j, s), s \in Usable => resv'[j] = "consumed"
  PROVE  ResultOK
<1>1. result \in [Jobs -> ResultRow] /\ result[j] \in ResultRow
  BY DEF IInv, TypeOK
<1>2. result' = [result EXCEPT ![j] = [result[j] EXCEPT !.status = s]]
  BY <1>1 DEF WriteResult
<1>3. [result[j] EXCEPT !.status = s] \in ResultRow /\ [result[j] EXCEPT !.status = s].status = s
  BY <1>1 DEF ResultRow
<1>4. result' \in [Jobs -> ResultRow] /\ result'[j].status = s
      /\ \A k \in Jobs \ {j} : result'[k] = result[k]
  BY <1>1, <1>2, <1>3
<1> QED  BY <1>4 DEF ResultOK, IInv, PaidResult, ConsumedStays

\* A job's row is replaced by one that no worker owns while it runs, or that runs as before.
LEMMA NewJob ==
  ASSUME IInv, NEW j \in Jobs, NEW row \in JobRow, job' = [job EXCEPT ![j] = row],
         \/ row.owner \notin Workers
         \/ row.status # "running"
         \/ row.owner = job[j].owner /\ row.status = job[j].status
            /\ row.attempt = job[j].attempt
  PROVE  JobOK
  BY DEF IInv, TypeOK, JobOK, OwnersGoOn

LEMMA WrittenJob ==
  ASSUME IInv, NEW j \in Jobs, NEW s \in Settled \cup {"queued"}, NEW a \in 0 .. MaxRetries,
         WriteJob(j, s, a)
  PROVE  JobOK
<1> DEFINE row == [job[j] EXCEPT !.status = s, !.attempt = a, !.owner = NoOne, !.lock = "none"]
<1>1. job[j] \in JobRow
  BY DEF IInv, TypeOK
<1>2. row \in JobRow /\ row.owner = NoOne
  BY <1>1 DEF JobRow
<1>3. job' = [job EXCEPT ![j] = row]
  BY DEF WriteJob
<1> HIDE DEF row
<1> QED  BY <1>2, <1>3, NewJob, OcrAssumption

LEMMA FinalizedJob ==
  ASSUME IInv, NEW e \in Executors, J(e) \in Jobs, NEW s \in Settled, FinalizeRow(e, s)
  PROVE  JobOK
<1> DEFINE row == [job[J(e)] EXCEPT !.status = s, !.owner = NoOne, !.lease = "none",
                                    !.lock = "none"]
<1>1. job[J(e)] \in JobRow
  BY DEF IInv, TypeOK
<1>2. row \in JobRow /\ row.owner = NoOne
  BY <1>1 DEF JobRow
<1>3. job' = [job EXCEPT ![J(e)] = row]
  BY DEF FinalizeRow
<1> HIDE DEF row
<1> QED  BY <1>2, <1>3, NewJob, OcrAssumption

\* The parts make the invariant.
LEMMA Together ==
  ASSUME IInv, RunsOK, RunsGoOn, ResvOK, ResultOK, JobOK, OtherOK
  PROVE  IInv'
<1>1. TypeOK'
  BY DEF RunsOK, ResvOK, ResultOK, JobOK, OtherOK, TypeOK, Entries
<1>2. PaidResult' /\ PaidRuns'
  BY DEF ResultOK, PaidResult, RunsOK
<1>3. OwnerHoldsLatest'
  <2> SUFFICES ASSUME NEW w \in Workers, exec'[w].step # "idle",
                      job'[exec'[w].job].status = "running", job'[exec'[w].job].owner = w
               PROVE  exec'[w].attempt = job'[exec'[w].job].attempt
    BY DEF OwnerHoldsLatest, At, J
  <2>1. exec[w].step # "idle" /\ exec'[w].job = exec[w].job /\ exec'[w].attempt = exec[w].attempt
    BY DEF RunsGoOn
  <2>2. exec[w].job \in Jobs
    BY <2>1, InRun DEF IInv, Executors
  <2> QED  BY <2>1, <2>2 DEF JobOK, OwnersGoOn, IInv, OwnerHoldsLatest, At, J
<1> QED  BY <1>1, <1>2, <1>3 DEF IInv

(***************************************************************************)
(* Claims                                                                  *)
(***************************************************************************)
LEMMA ClaimAsyncStep ==
  ASSUME IInv, NEW w \in Workers, NEW j \in Jobs, ClaimAsync(w, j)
  PROVE  IInv'
<1> DEFINE row == [job[j] EXCEPT !.status = "running", !.attempt = job[j].attempt + 1,
                                 !.owner = w, !.lease = "live", !.lock = "fresh"]
           r == NewRun(j, "reserve", job[j].attempt + 1, job[j].max)
<1>0. /\ w \in Executors /\ job[j] \in JobRow /\ job \in [Jobs -> JobRow]
      /\ exec \in [Executors -> Entries]
  BY DEF IInv, TypeOK, Executors, Entries
<1>1. job[j].attempt + 1 \in 0 .. MaxRetries
  BY <1>0, OcrAssumption DEF ClaimAsync, JobRow
<1>2. row \in JobRow /\ row.attempt = job[j].attempt + 1 /\ row.owner = w
  BY <1>0, <1>1 DEF JobRow
<1>3. r \in Run /\ r.step = "reserve" /\ r.job = j /\ r.attempt = job[j].attempt + 1
  BY <1>0, <1>1 DEF NewRun, Run, Steps, Outcomes, JobRow
<1>4. /\ job' = [job EXCEPT ![j] = row]
      /\ exec' = [exec EXCEPT ![w] = r]
      /\ UNCHANGED <<result, report, resv, clerk>>
  BY DEF ClaimAsync
<1> HIDE DEF row, r
<1>5. job' \in [Jobs -> JobRow] /\ job'[j] = row /\ \A k \in Jobs \ {j} : job'[k] = job[k]
  BY <1>0, <1>2, <1>4
<1>6. ConsumedStays
  BY <1>4 DEF ConsumedStays
<1>7. RunsOK
  BY <1>0, <1>3, <1>4, <1>6, NewEntry DEF Entries, Held, Kept
<1>8. exec'[w] = r /\ \A v \in Workers \ {w} : exec'[v] = exec[v]
  BY <1>0, <1>4 DEF Executors
<1>9. TypeOK' /\ PaidResult' /\ PaidRuns'
  BY <1>4, <1>5, <1>7 DEF IInv, TypeOK, RunsOK, Entries, PaidResult
<1>10. OwnerHoldsLatest'
  <2> SUFFICES ASSUME NEW v \in Workers, exec'[v].step # "idle",
                      job'[exec'[v].job].status = "running", job'[exec'[v].job].owner = v
               PROVE  exec'[v].attempt = job'[exec'[v].job].attempt
    BY DEF OwnerHoldsLatest, At, J
  <2>1. CASE v = w
    BY <2>1, <1>2, <1>3, <1>5, <1>8
  <2>2. CASE v # w
    <3>1. exec'[v] = exec[v]
      BY <1>8, <2>2
    <3>2. exec[v].job \in Jobs
      BY <3>1, InRun DEF IInv, Executors
    <3>3. exec[v].job # j
      BY <1>2, <1>5, <2>2, <3>1
    <3> QED  BY <1>5, <3>1, <3>2, <3>3 DEF IInv, OwnerHoldsLatest, At, J
  <2> QED  BY <2>1, <2>2
<1> QED  BY <1>9, <1>10 DEF IInv

\* An inline run starts, or takes the job: no worker's entry changes.
LEMMA RunnerEntry ==
  ASSUME IInv, UNCHANGED resv, NEW e \in Runners, NEW r \in Run,
         r.step \notin Held \cup Kept \cup {"recheck"},
         exec' = [exec EXCEPT ![e] = r]
  PROVE  RunsOK /\ RunsGoOn
<1>1. e \in Executors /\ e \notin Workers /\ exec \in [Executors -> Entries]
  BY OcrAssumption DEF IInv, TypeOK, Executors, Entries
<1>2. ConsumedStays
  BY DEF ConsumedStays
<1>3. RunsOK
  BY <1>1, <1>2, NewEntry DEF Entries
<1>4. RunsGoOn
  BY <1>1 DEF RunsGoOn, Executors
<1> QED  BY <1>3, <1>4

LEMMA RunnerStep ==
  ASSUME IInv, NEW e \in Runners,
         InlineProgress(e) \/ \E j \in Jobs : ClaimInline(e, j)
  PROVE  IInv'
<1>0. e \in Executors /\ UNCHANGED <<result, report, resv, clerk>>
  BY DEF Executors, InlineProgress, InlineRead, InlineTake, ClaimInline, rows
<1>1. ConsumedStays
  BY <1>0 DEF ConsumedStays
<1>2. ResvOK /\ ResultOK /\ OtherOK
  BY <1>0, <1>1, SameResv, SameResult, SameOther
<1>3. ASSUME NEW j \in Jobs, ClaimInline(e, j)
      PROVE  RunsOK /\ RunsGoOn /\ JobOK
  <2> DEFINE row == [job[j] EXCEPT !.status = "running", !.owner = InlineId, !.lock = "fresh"]
             r == NewRun(j, "claimed", job[j].attempt, job[j].max)
  <2>1. job[j] \in JobRow
    BY DEF IInv, TypeOK
  <2>2. row \in JobRow /\ row.owner = InlineId
    BY <2>1 DEF JobRow
  <2>3. r \in Run /\ r.step = "claimed"
    BY <2>1 DEF NewRun, Run, Steps, Outcomes, JobRow
  <2>4. "claimed" \notin Held \cup Kept \cup {"recheck"}
    BY DEF Held, Kept
  <2>5. job' = [job EXCEPT ![j] = row] /\ exec' = [exec EXCEPT ![e] = r]
    BY <1>3 DEF ClaimInline
  <2> HIDE DEF row, r
  <2>6. JobOK
    BY <2>2, <2>5, NewJob, OcrAssumption
  <2> QED  BY <1>0, <2>3, <2>4, <2>5, <2>6, RunnerEntry
<1>4. CASE InlineRead(e)
  <2>0. exec[e].step # "idle" /\ UNCHANGED job
    BY <1>4 DEF InlineRead, At, rows
  <2>1. CASE Stop(e)
    BY <1>0, <1>1, <1>2, <2>0, <2>1, StopRun, SameJob, Together
  <2>2. CASE Runnable(J(e))
             /\ exec' = [exec EXCEPT ![e] = NewRun(J(e), "take", job[J(e)].attempt + 1,
                                                   job[J(e)].max)]
    <3> DEFINE r == NewRun(J(e), "take", job[J(e)].attempt + 1, job[J(e)].max)
    <3>1. J(e) \in Jobs
      BY <1>0, <2>0, InRun DEF IInv, J
    <3>2. job[J(e)] \in JobRow
      BY <3>1 DEF IInv, TypeOK
    <3>3. job[J(e)].attempt + 1 \in 0 .. MaxRetries
      BY <2>2, <3>2, OcrAssumption DEF Runnable, JobRow
    <3>4. r \in Run /\ r.step = "take"
      BY <3>1, <3>2, <3>3 DEF NewRun, Run, Steps, Outcomes, JobRow
    <3>5. "take" \notin Held \cup Kept \cup {"recheck"}
      BY DEF Held, Kept
    <3>6. exec' = [exec EXCEPT ![e] = r]
      BY <2>2
    <3> HIDE DEF r
    <3> QED  BY <1>0, <1>2, <2>0, <3>4, <3>5, <3>6, RunnerEntry, SameJob, Together
  <2> QED  BY <1>4, <2>1, <2>2 DEF InlineRead
<1>5. CASE InlineTake(e)
  <2> DEFINE row == [job[J(e)] EXCEPT !.status = "running", !.owner = InlineId, !.lock = "fresh",
                                      !.attempt = exec[e].attempt]
  <2>0. exec[e].step # "idle"
    BY <1>5 DEF InlineTake, At
  <2>1. J(e) \in Jobs /\ exec[e] \in Run
    BY <1>0, <2>0, InRun DEF IInv, J
  <2>2. job[J(e)] \in JobRow /\ exec[e].attempt \in 0 .. MaxRetries
    BY <2>1 DEF IInv, TypeOK, Run
  <2>3. row \in JobRow /\ row.owner = InlineId
    BY <2>2 DEF JobRow
  <2>4. job' = [job EXCEPT ![J(e)] = row] /\ Go(e, "reserve")
    BY <1>5 DEF InlineTake
  <2> HIDE DEF row
  <2>5. JobOK
    BY <2>1, <2>3, <2>4, NewJob, OcrAssumption
  <2>6. "reserve" \in Steps \ (Held \cup Kept \cup {"recheck"})
    BY DEF Held, Kept, Steps
  <2>7. RunsOK /\ RunsGoOn
    BY <1>0, <1>1, <2>0, <2>4, <2>6, GoRun
  <2> QED  BY <1>2, <2>5, <2>7, Together
<1> QED  BY <1>2, <1>3, <1>4, <1>5, Together DEF InlineProgress

(***************************************************************************)
(* The steps of a run                                                      *)
(***************************************************************************)
\* Giving the reservation back, or finding that another run consumed it.
LEMMA ReleaseStep ==
  ASSUME IInv, NEW e \in Executors, exec[e].step # "idle",
         NEW s \in Steps \ (Held \cup Kept \cup {"recheck"}), Release(e, s)
  PROVE  ResvOK /\ RunsOK /\ RunsGoOn
<1>0. J(e) \in Jobs /\ "caught" \in Steps \ (Held \cup Kept \cup {"recheck"})
  BY InRun DEF IInv, J, Steps, Held, Kept
<1>1. CASE UNCHANGED resv
  <2>1. Go(e, s) \/ Go(e, "caught")
    BY DEF Release
  <2> QED  BY <1>0, <1>1, <2>1, SameResv, GoRun DEF ResvOK
<1>2. CASE resv[J(e)] # "consumed" /\ resv' = [resv EXCEPT ![J(e)] = "released"] /\ Go(e, s)
  <2>1. ResvOK
    BY <1>0, <1>2, NewResv
  <2> QED  BY <1>2, <2>1, GoRun DEF ResvOK
<1> QED  BY <1>1, <1>2 DEF Release

\* Paying: whoever goes on to s holds a consumed reservation.
LEMMA ConsumeStep ==
  ASSUME IInv, NEW e \in Executors, exec[e].step \in Held,
         NEW s \in Steps \ (Held \cup Kept), Consume(e, s)
  PROVE  ResvOK /\ RunsOK /\ RunsGoOn
<1>0. J(e) \in Jobs /\ exec[e].step # "idle"
  BY InRun DEF IInv, J, Held
<1>1. CASE Go(e, s) /\ UNCHANGED resv /\ (~ exec[e].reserved \/ resv[J(e)] = "consumed")
  <2>1. resv'[J(e)] = "consumed"
    BY <1>1 DEF IInv, PaidRuns, J
  <2>2. ResvOK
    BY <1>1, SameResv
  <2> QED  BY <1>0, <1>1, <2>1, <2>2, GoRun DEF ResvOK
<1>2. CASE Go(e, s) /\ resv' = [resv EXCEPT ![J(e)] = "consumed"]
  <2>1. ResvOK /\ resv'[J(e)] = "consumed"
    BY <1>0, <1>2, NewResv
  <2> QED  BY <1>0, <1>2, <2>1, GoRun DEF ResvOK
<1>3. CASE FailWith(e, "failed") /\ UNCHANGED resv
  <2>1. "failed" \in Outcomes
    BY DEF Outcomes
  <2>2. ResvOK
    BY <1>3, SameResv
  <2> QED  BY <1>0, <1>3, <2>1, <2>2, FailRun DEF ResvOK
<1> QED  BY <1>1, <1>2, <1>3 DEF Consume

\* The finalizer settles the row the worker owns, or the run ends.
LEMMA FinalizeStep ==
  ASSUME IInv, UNCHANGED resv, NEW e \in Executors, exec[e].step # "idle",
         NEW o \in Settled, NEW s \in Steps \ Held, Finalize(e, o, s),
         s \in Kept \cup {"recheck"} => resv[J(e)] = "consumed",
         s \in Kept => exec[e].outcome \in Usable
  PROVE  JobOK /\ RunsOK /\ RunsGoOn
<1>0. J(e) \in Jobs /\ ConsumedStays
  BY InRun DEF IInv, J, ConsumedStays
<1>1. CASE FinalizeRow(e, o) /\ Go(e, s)
  <2>1. JobOK
    BY <1>0, <1>1, FinalizedJob
  <2> QED  BY <1>0, <1>1, <2>1, GoRun
<1>2. CASE Stop(e) /\ UNCHANGED job
  BY <1>0, <1>2, StopRun, SameJob
<1> QED  BY <1>1, <1>2 DEF Finalize

LEMMA ReserveUsageStep ==
  ASSUME IInv, NEW e \in Executors, ReserveUsage(e)
  PROVE  IInv'
<1>0. exec[e].step # "idle" /\ UNCHANGED <<job, result, report, clerk>>
  BY DEF ReserveUsage, At
<1>1. J(e) \in Jobs /\ exec[e] \in Run /\ exec \in [Executors -> Entries]
  BY <1>0, InRun DEF IInv, J
<1>2. CASE /\ exec' = [exec EXCEPT ![e].step = "preflight",
                                   ![e].reserved = resv[J(e)] # "consumed"]
           /\ resv' = [resv EXCEPT ![J(e)] = IF @ = "released" THEN "reserved" ELSE @]
  <2> DEFINE b == resv[J(e)] # "consumed"
             r == [exec[e] EXCEPT !.step = "preflight", !.reserved = b]
             v == IF resv[J(e)] = "released" THEN "reserved" ELSE resv[J(e)]
  <2>1. v \in {"reserved", "consumed", "released"} /\ (resv[J(e)] = "consumed" => v = "consumed")
    BY <1>1 DEF IInv, TypeOK
  <2>2. resv' = [resv EXCEPT ![J(e)] = v]
    BY <1>2
  <2>3. ResvOK /\ resv'[J(e)] = v
    BY <1>1, <2>1, <2>2, NewResv
  <2>4. b \in BOOLEAN
    OBVIOUS
  <2>5. (~ b) => resv'[J(e)] = "consumed"
    BY <2>1, <2>3
  <2>6. exec' = [exec EXCEPT ![e] = r]
    BY <1>1, <1>2
  <2> HIDE DEF b, v
  <2>7. /\ r \in Run /\ r.step = "preflight" /\ r.reserved = b
        /\ r.job = exec[e].job /\ r.attempt = exec[e].attempt
    BY <1>1, <2>4 DEF Run, Steps
  <2> HIDE DEF r
  <2>8. (~ r.reserved) => resv'[r.job] = "consumed"
    BY <2>5, <2>7, Zenon DEF J
  <2>9. "preflight" \notin Kept \cup {"recheck"}
    BY DEF Kept
  <2>10. RunsOK
    BY <2>3, <2>6, <2>7, <2>8, <2>9, NewEntry DEF ResvOK, Entries
  <2>11. RunsGoOn
    BY <1>0, <1>1, <2>6, <2>7 DEF RunsGoOn, Executors
  <2> QED  BY <1>0, <2>3, <2>10, <2>11, SameResult, SameJob, SameOther, Together DEF ResvOK
<1>3. CASE UNCHANGED resv /\ (FailWith(e, "limit") \/ FailWith(e, "failed"))
  <2>1. {"limit", "failed"} \subseteq Outcomes
    BY DEF Outcomes
  <2>2. ResvOK
    BY <1>3, SameResv
  <2>3. RunsOK /\ RunsGoOn
    BY <1>0, <1>3, <2>1, <2>2, FailRun DEF ResvOK
  <2> QED  BY <1>0, <2>2, <2>3, SameResult, SameJob, SameOther, Together DEF ResvOK
<1> QED  BY <1>2, <1>3 DEF ReserveUsage

LEMMA ProviderStep ==
  ASSUME IInv, NEW e \in Executors,
         Preflight(e) \/ CallProvider(e) \/ Settle(e) \/ Recheck(e)
  PROVE  IInv'
<1>0. exec[e].step # "idle" /\ UNCHANGED <<job, result, report, clerk>>
  BY DEF Preflight, CallProvider, Settle, Recheck, At, rows
<1>1. J(e) \in Jobs /\ exec[e] \in Run /\ exec \in [Executors -> Entries]
  BY <1>0, InRun DEF IInv, J
<1>2. SUFFICES ResvOK /\ RunsOK /\ RunsGoOn
  BY <1>0, SameResult, SameJob, SameOther, Together DEF ResvOK
<1>3. CASE Preflight(e)
  <2>1. CASE Release(e, "cancel") \/ Release(e, "fail")
    <3>1. {"cancel", "fail"} \subseteq Steps \ (Held \cup Kept \cup {"recheck"})
      BY DEF Steps, Held, Kept
    <3> QED  BY <1>0, <2>1, <3>1, ReleaseStep
  <2>2. CASE Go(e, "provider") /\ UNCHANGED resv
    <3>1. exec[e].step \in Held
      BY <1>3 DEF Preflight, At, Held
    <3>2. (~ exec[e].reserved) => resv[J(e)] = "consumed"
      BY <3>1 DEF IInv, PaidRuns, J
    <3>3. "provider" \in Steps \ (Kept \cup {"recheck"})
      BY DEF Steps, Kept
    <3>4. ResvOK
      BY <2>2, SameResv
    <3> QED  BY <1>0, <2>2, <3>2, <3>3, <3>4, GoRun DEF ResvOK
  <2> QED  BY <1>3, <2>1, <2>2 DEF Preflight
<1>4. CASE CallProvider(e)
  <2>1. PICK o \in Usable \cup {"failed", "threw", "unconfigured"} :
           exec' = [exec EXCEPT ![e].step = "answered", ![e].outcome = o]
    BY <1>4 DEF CallProvider
  <2> DEFINE r == [exec[e] EXCEPT !.step = "answered", !.outcome = o]
  <2>2. o \in Outcomes
    BY DEF Outcomes
  <2>3. /\ r \in Run /\ r.step = "answered" /\ r.reserved = exec[e].reserved
        /\ r.job = exec[e].job /\ r.attempt = exec[e].attempt
    BY <1>1, <2>2 DEF Run, Steps
  <2>4. exec' = [exec EXCEPT ![e] = r]
    BY <1>1, <2>1
  <2> HIDE DEF r
  <2>5. UNCHANGED resv /\ exec[e].step \in Held
    BY <1>4 DEF CallProvider, rows, At, Held
  <2>6. ResvOK /\ "answered" \notin Kept \cup {"recheck"}
    BY <2>5, SameResv DEF Kept
  <2>7. (~ r.reserved) => resv'[r.job] = "consumed"
    BY <2>3, <2>5 DEF IInv, PaidRuns
  <2>8. RunsOK
    BY <2>3, <2>4, <2>6, <2>7, NewEntry DEF ResvOK, Entries
  <2>9. RunsGoOn
    BY <1>0, <1>1, <2>3, <2>4 DEF RunsGoOn, Executors
  <2> QED  BY <2>6, <2>8, <2>9
<1>5. CASE Settle(e)
  <2>1. exec[e].step \in Held
    BY <1>5 DEF Settle, At, Held
  <2>2. {"fail", "recheck"} \subseteq Steps \ (Held \cup Kept) /\ "fail" # "recheck"
    BY DEF Steps, Held, Kept
  <2>3. Release(e, "fail") \/ Consume(e, "fail") \/ Consume(e, "recheck")
    BY <1>5 DEF Settle
  <2> QED  BY <1>0, <2>1, <2>2, <2>3, ReleaseStep, ConsumeStep
<1>6. CASE Recheck(e)
  <2> DEFINE s == CASE report[J(e)] # "ocr_ing" -> "cancel"
                    [] exec[e].outcome \notin Usable -> "fail"
                    [] OTHER -> "persist"
  <2>1. Go(e, s) /\ UNCHANGED resv /\ exec[e].step = "recheck"
    BY <1>6 DEF Recheck, rows, At
  <2>2. resv[J(e)] = "consumed"
    BY <2>1 DEF IInv, PaidRuns, J
  <2>3. s \in Steps \ Held
    BY DEF Steps, Held
  <2>4. s \in Kept => exec[e].outcome \in Usable
    BY DEF Kept
  <2> HIDE DEF s
  <2>5. ResvOK
    BY <2>1, SameResv
  <2> QED  BY <1>0, <2>1, <2>2, <2>3, <2>4, <2>5, GoRun DEF ResvOK
<1> QED  BY <1>3, <1>4, <1>5, <1>6

\* Keeping the answer.
LEMMA PersistStep ==
  ASSUME IInv, NEW e \in Executors,
         Persist(e) \/ PersistJob(e) \/ PersistResult(e)
  PROVE  IInv'
<1>0. exec[e].step \in Kept /\ exec[e].step # "idle" /\ UNCHANGED <<report, resv, clerk>>
  BY DEF Persist, PersistJob, PersistResult, At, Kept
<1>1. J(e) \in Jobs /\ exec[e] \in Run
  BY <1>0, InRun DEF IInv, J
<1>2. resv[J(e)] = "consumed" /\ resv'[J(e)] = "consumed" /\ exec[e].outcome \in Usable
  BY <1>0 DEF IInv, PaidRuns, J
<1>3. ResvOK /\ OtherOK /\ ConsumedStays
  BY <1>0, SameResv, SameOther DEF ResvOK
<1>4. exec[e].outcome \in Settled /\ exec[e].attempt \in 0 .. MaxRetries
  BY <1>1, <1>2 DEF Settled, Run
<1>5. {"write_job", "write_result", "advance"} \subseteq Steps \ Held
  BY DEF Steps, Held
<1>6. CASE Persist(e)
  <2>1. CASE Finalize(e, exec[e].outcome, "write_result") /\ UNCHANGED result
    <3>1. JobOK /\ RunsOK /\ RunsGoOn
      BY <1>0, <1>2, <1>4, <1>5, <2>1, FinalizeStep
    <3> QED  BY <1>3, <2>1, <3>1, SameResult, Together
  <2>2. CASE WriteResult(J(e), exec[e].outcome) /\ Go(e, "write_job") /\ UNCHANGED job
    <3>1. ResultOK
      BY <1>1, <1>2, <1>3, <1>4, <2>2, NewResult
    <3>2. RunsOK /\ RunsGoOn
      BY <1>0, <1>2, <1>3, <1>5, <2>2, GoRun
    <3> QED  BY <1>3, <2>2, <3>1, <3>2, SameJob, Together
  <2> QED  BY <1>6, <2>1, <2>2 DEF Persist
<1>7. CASE PersistJob(e)
  <2>1. JobOK
    BY <1>1, <1>4, <1>7, WrittenJob DEF PersistJob
  <2>2. RunsOK /\ RunsGoOn /\ UNCHANGED result
    BY <1>0, <1>2, <1>3, <1>5, <1>7, GoRun DEF PersistJob
  <2> QED  BY <1>3, <2>1, <2>2, SameResult, Together
<1>8. CASE PersistResult(e)
  <2>1. ResultOK
    BY <1>1, <1>2, <1>3, <1>4, <1>8, NewResult DEF PersistResult
  <2>2. RunsOK /\ RunsGoOn /\ UNCHANGED job
    BY <1>0, <1>2, <1>3, <1>5, <1>8, GoRun DEF PersistResult
  <2> QED  BY <1>3, <2>1, <2>2, SameJob, Together
<1> QED  BY <1>6, <1>7, <1>8

\* Failing, cancelling and ending.
LEMMA EndStep ==
  ASSUME IInv, NEW e \in Executors,
         \/ Advance(e) \/ Fail(e) \/ FailJob(e) \/ FailResult(e)
         \/ Cancel(e) \/ CancelJob(e) \/ Caught(e)
  PROVE  IInv'
<1>0. exec[e].step # "idle" /\ UNCHANGED <<resv, clerk>>
  BY DEF Advance, Fail, FailJob, FailResult, Cancel, CancelJob, Caught, At
<1>1. J(e) \in Jobs /\ exec[e] \in Run /\ exec[e].attempt \in 0 .. MaxRetries
  BY <1>0, InRun DEF IInv, J, Run
<1>2. ResvOK /\ ConsumedStays
  BY <1>0, SameResv DEF ResvOK
<1>3. {"fail_result", "fail_job", "cancel_job"} \subseteq Steps \ (Held \cup Kept \cup {"recheck"})
  BY DEF Steps, Held, Kept
<1>4. CASE Advance(e)
  <2>1. report' \in [Jobs -> {"ocr_ing", "pending_review", "voided"}]
    BY <1>1, <1>4 DEF Advance, IInv, TypeOK
  <2>2. OtherOK
    BY <1>0, <2>1 DEF OtherOK, IInv, TypeOK
  <2>3. RunsOK /\ RunsGoOn /\ JobOK /\ ResultOK
    BY <1>2, <1>4, StopRun, SameJob, SameResult DEF Advance
  <2> QED  BY <1>2, <2>2, <2>3, Together
<1>5. CASE ~ Advance(e)
  <2>0. OtherOK
    BY <1>0, <1>5, SameOther DEF Fail, FailJob, FailResult, Cancel, CancelJob, Caught
  <2>1. SUFFICES RunsOK /\ RunsGoOn /\ JobOK /\ ResultOK
    BY <1>2, <2>0, Together
  <2>2. CASE Fail(e)
    <3>1. CASE Finalize(e, "failed", "fail_result") /\ UNCHANGED result
      <4>1. "failed" \in Settled
        BY DEF Settled
      <4>2. JobOK /\ RunsOK /\ RunsGoOn
        BY <1>0, <1>3, <3>1, <4>1, FinalizeStep
      <4> QED  BY <1>2, <3>1, <4>2, SameResult
    <3>2. CASE /\ WriteResult(J(e), IF Final(e) THEN "failed" ELSE "pending")
               /\ Go(e, "fail_job")
               /\ UNCHANGED job
      <4> DEFINE s == IF Final(e) THEN "failed" ELSE "pending"
      <4>1. s \in Settled \cup {"pending"} /\ s \notin Usable
        BY DEF Settled, Usable
      <4>2. WriteResult(J(e), s)
        BY <3>2
      <4> HIDE DEF s
      <4>3. ResultOK
        BY <1>1, <1>2, <4>1, <4>2, NewResult
      <4>4. RunsOK /\ RunsGoOn
        BY <1>0, <1>2, <1>3, <3>2, GoRun
      <4> QED  BY <3>2, <4>3, <4>4, SameJob
    <3> QED  BY <2>2, <3>1, <3>2 DEF Fail
  <2>3. CASE FailJob(e)
    <3> DEFINE s == IF Final(e) THEN "failed" ELSE "queued"
    <3>1. s \in Settled \cup {"queued"}
      BY DEF Settled
    <3>2. WriteJob(J(e), s, exec[e].attempt)
      BY <2>3 DEF FailJob
    <3> HIDE DEF s
    <3>3. JobOK
      BY <1>1, <3>1, <3>2, WrittenJob
    <3> QED  BY <1>2, <2>3, <3>3, StopRun, SameResult DEF FailJob
  <2>4. CASE FailResult(e)
    <3>1. "failed" \in Settled /\ "failed" \notin Usable
      BY DEF Settled, Usable
    <3>2. ResultOK
      BY <1>1, <1>2, <2>4, <3>1, NewResult DEF FailResult
    <3> QED  BY <1>2, <2>4, <3>2, StopRun, SameJob DEF FailResult
  <2>5. CASE Cancel(e)
    <3>1. "cancelled" \in Settled /\ "cancelled" \notin Usable
      BY DEF Settled, Usable
    <3>2. ResultOK
      BY <1>1, <1>2, <2>5, <3>1, NewResult DEF Cancel
    <3>3. RunsOK /\ RunsGoOn
      BY <1>0, <1>2, <1>3, <2>5, GoRun DEF Cancel
    <3> QED  BY <2>5, <3>2, <3>3, SameJob DEF Cancel
  <2>6. CASE CancelJob(e)
    <3>1. "cancelled" \in Settled
      BY DEF Settled
    <3>2. JobOK
      BY <1>1, <2>6, <3>1, WrittenJob DEF CancelJob
    <3> QED  BY <1>2, <2>6, <3>2, StopRun, SameResult DEF CancelJob
  <2>7. CASE Caught(e)
    <3>1. ResultOK
      BY <1>2, <2>7, SameResult DEF Caught
    <3>2. CASE Stop(e) /\ FinalizeRow(e, "failed")
      <4>1. "failed" \in Settled
        BY DEF Settled
      <4> QED  BY <1>1, <1>2, <3>1, <3>2, <4>1, StopRun, FinalizedJob
    <3>3. CASE Stop(e) /\ UNCHANGED job
      BY <1>2, <3>1, <3>3, StopRun, SameJob
    <3>4. CASE FailWith(e, "rescued") /\ UNCHANGED job
      <4>1. "rescued" \in Outcomes
        BY DEF Outcomes
      <4> QED  BY <1>0, <1>2, <3>1, <3>4, <4>1, FailRun, SameJob
    <3> QED  BY <2>7, <3>2, <3>3, <3>4 DEF Caught
  <2> QED  BY <1>5, <2>2, <2>3, <2>4, <2>5, <2>6, <2>7
<1> QED  BY <1>4, <1>5

(***************************************************************************)
(* Time, failure and staff                                                 *)
(***************************************************************************)
LEMMA DisturbanceStep ==
  ASSUME IInv, Disturbance
  PROVE  IInv'
<1>1. UNCHANGED <<result, report, resv, clerk>>
  BY DEF Disturbance, Throw, Crash, LeaseLapses, LockAges, rows
<1>2. ResvOK /\ ConsumedStays /\ ResultOK /\ OtherOK
  BY <1>1, SameResv, SameResult, SameOther DEF ResvOK
<1>3. CASE \E e \in Executors : Throw(e) \/ Crash(e)
  <2>1. PICK e \in Executors : Throw(e) \/ Crash(e)
    BY <1>3
  <2>2. UNCHANGED job
    BY <2>1 DEF Throw, Crash, rows
  <2>3. CASE Stop(e)
    BY <1>2, <2>2, <2>3, StopRun, SameJob, Together
  <2>4. CASE Throwing(e) /\ Go(e, "caught")
    <3>1. exec[e].step # "idle"
      BY <2>4 DEF Throwing, Steps
    <3>2. "caught" \in Steps \ (Held \cup Kept \cup {"recheck"})
      BY DEF Steps, Held, Kept
    <3> QED  BY <1>2, <2>2, <2>4, <3>1, <3>2, GoRun, SameJob, Together
  <2> QED  BY <2>1, <2>3, <2>4 DEF Throw, Crash
<1>4. CASE \E j \in Jobs : LeaseLapses(j) \/ LockAges(j)
  <2>1. PICK j \in Jobs : LeaseLapses(j) \/ LockAges(j)
    BY <1>4
  <2>2. UNCHANGED exec
    BY <2>1 DEF LeaseLapses, LockAges
  <2>3. job[j] \in JobRow /\ job \in [Jobs -> JobRow]
    BY DEF IInv, TypeOK
  <2>4. CASE LeaseLapses(j)
    <3> DEFINE row == [job[j] EXCEPT !.lease = "lapsed"]
    <3>1. /\ row \in JobRow /\ row.owner = job[j].owner /\ row.status = job[j].status
          /\ row.attempt = job[j].attempt
      BY <2>3 DEF JobRow
    <3>2. job' = [job EXCEPT ![j] = row]
      BY <2>3, <2>4 DEF LeaseLapses
    <3> HIDE DEF row
    <3> QED  BY <1>2, <2>2, <3>1, <3>2, NewJob, SameRuns, Together
  <2>5. CASE LockAges(j)
    <3> DEFINE row == [job[j] EXCEPT !.lock = "old"]
    <3>1. /\ row \in JobRow /\ row.owner = job[j].owner /\ row.status = job[j].status
          /\ row.attempt = job[j].attempt
      BY <2>3 DEF JobRow
    <3>2. job' = [job EXCEPT ![j] = row]
      BY <2>3, <2>5 DEF LockAges
    <3> HIDE DEF row
    <3> QED  BY <1>2, <2>2, <3>1, <3>2, NewJob, SameRuns, Together
  <2> QED  BY <2>1, <2>4, <2>5
<1> QED  BY <1>3, <1>4 DEF Disturbance

\* A clerk's retry: only its last step writes the job, which nobody owns then.
LEMMA RetryStep ==
  ASSUME IInv, NEW k \in Clerks,
         (\E j \in Jobs : RetryRead(k, j)) \/ RetryReserve(k) \/ RetryWrite(k)
  PROVE  IInv'
<1>1. UNCHANGED <<result, report, exec>>
  BY DEF RetryRead, RetryReserve, RetryWrite, rows
<1>2. clerk \in [Clerks -> Retry \cup {Idle}] /\ Idle \in Retry \cup {Idle}
  BY DEF IInv, TypeOK
<1>3. clerk[k].step # "idle" => clerk[k] \in Retry /\ clerk[k].job \in Jobs
  BY <1>2 DEF Idle, Retry
<1>4. ASSUME NEW c \in Retry \cup {Idle}, clerk' = [clerk EXCEPT ![k] = c]
      PROVE  OtherOK
  BY <1>1, <1>2, <1>4 DEF IInv, TypeOK, OtherOK
<1>5. SUFFICES ResvOK /\ JobOK /\ OtherOK
  BY <1>1, SameRuns, SameResult, Together DEF ResvOK
<1>6. ASSUME NEW j \in Jobs, RetryRead(k, j)
      PROVE  ResvOK /\ JobOK /\ OtherOK
  <2> DEFINE m == IF job[j].attempt >= job[j].max THEN job[j].attempt + 1 ELSE job[j].max
  <2>1. job[j] \in JobRow /\ job[j].attempt < MaxRetries
    BY <1>6 DEF IInv, TypeOK, RetryRead
  <2>2. m \in 1 .. MaxRetries
    BY <2>1, OcrAssumption DEF JobRow
  <2>3. /\ clerk' = [clerk EXCEPT ![k] = [step |-> "reserve", job |-> j, max |-> m]]
        /\ UNCHANGED <<job, resv>>
    BY <1>6 DEF RetryRead, rows
  <2> HIDE DEF m
  <2>4. [step |-> "reserve", job |-> j, max |-> m] \in Retry
    BY <2>2 DEF Retry
  <2> QED  BY <1>4, <2>3, <2>4, SameResv, SameJob
<1>7. CASE RetryReserve(k)
  <2>1. clerk[k] \in Retry /\ clerk[k].job \in Jobs
    BY <1>3, <1>7 DEF RetryReserve
  <2>2. JobOK
    BY <1>7, SameJob DEF RetryReserve
  <2>3. CASE UNCHANGED resv /\ clerk' = [clerk EXCEPT ![k] = Idle]
    BY <1>2, <1>4, <2>2, <2>3, SameResv
  <2>4. CASE /\ resv' = [resv EXCEPT ![clerk[k].job] = IF @ = "released" THEN "reserved" ELSE @]
             /\ clerk' = [clerk EXCEPT ![k].step = "write"]
    <3> DEFINE v == IF resv[clerk[k].job] = "released" THEN "reserved" ELSE resv[clerk[k].job]
               c == [clerk[k] EXCEPT !.step = "write"]
    <3>1. /\ v \in {"reserved", "consumed", "released"}
          /\ resv[clerk[k].job] = "consumed" => v = "consumed"
      BY <2>1 DEF IInv, TypeOK
    <3>2. resv' = [resv EXCEPT ![clerk[k].job] = v] /\ clerk' = [clerk EXCEPT ![k] = c]
      BY <1>2, <2>4
    <3>3. c \in Retry
      BY <2>1 DEF Retry
    <3> HIDE DEF v, c
    <3> QED  BY <1>4, <2>1, <2>2, <3>1, <3>2, <3>3, NewResv
  <2> QED  BY <1>7, <2>3, <2>4 DEF RetryReserve
<1>8. CASE RetryWrite(k)
  <2> DEFINE i == clerk[k].job
             row == [job[i] EXCEPT !.status = "queued", !.max = clerk[k].max,
                                   !.owner = NoOne, !.lock = "none"]
  <2>1. clerk[k] \in Retry /\ i \in Jobs
    BY <1>3, <1>8 DEF RetryWrite
  <2>2. job[i] \in JobRow /\ clerk[k].max \in 1 .. MaxRetries
    BY <2>1 DEF IInv, TypeOK, Retry
  <2>3. row \in JobRow /\ row.status = "queued"
    BY <2>2 DEF JobRow
  <2>4. /\ job' = [job EXCEPT ![i] = row]
        /\ clerk' = [clerk EXCEPT ![k] = Idle] /\ UNCHANGED resv
    BY <1>8 DEF RetryWrite
  <2> HIDE DEF row
  <2>5. JobOK
    BY <2>1, <2>3, <2>4, NewJob
  <2> QED  BY <1>2, <1>4, <2>4, <2>5, SameResv
<1> QED  BY <1>6, <1>7, <1>8

\* A confirmation makes a result that was paid for final.
LEMMA ReviewStep ==
  ASSUME IInv, NEW j \in Jobs,
         \/ Confirm(j) \/ MarkNeedsReview(j)
         \/ \E s \in {"pending_review", "voided"} : MoveReport(j, s)
  PROVE  IInv'
<1>1. UNCHANGED <<resv, exec, clerk>>
  BY DEF Confirm, MarkNeedsReview, MoveReport
<1>2. ResvOK /\ ConsumedStays /\ RunsOK /\ RunsGoOn
  BY <1>1, SameResv, SameRuns DEF ResvOK
<1>3. job \in [Jobs -> JobRow] /\ job[j] \in JobRow
  BY DEF IInv, TypeOK
<1>4. ASSUME NEW s \in {"pending_review", "voided"}, report' = [report EXCEPT ![j] = s]
      PROVE  OtherOK
  BY <1>1, <1>4 DEF IInv, TypeOK, OtherOK
<1>5. CASE Confirm(j)
  <2> DEFINE row == [job[j] EXCEPT !.status = "succeeded", !.owner = NoOne, !.lock = "none"]
             res == [status |-> "succeeded", reviewed |-> TRUE]
  <2>1. row \in JobRow /\ row.status = "succeeded"
    BY <1>3 DEF JobRow, Settled, Usable
  <2>2. job' = [job EXCEPT ![j] = row] /\ result' = [result EXCEPT ![j] = res]
    BY <1>5 DEF Confirm
  <2>3. res \in ResultRow
    BY DEF ResultRow, Settled, Usable
  <2> HIDE DEF row, res
  <2>4. JobOK
    BY <2>1, <2>2, NewJob
  <2>5. result[j].status \in Usable
    BY <1>5 DEF Confirm, Usable
  <2>6. ResultOK
    BY <1>1, <2>2, <2>3, <2>5 DEF IInv, TypeOK, PaidResult, ResultOK
  <2>7. OtherOK
    BY <1>4, <1>5 DEF Confirm
  <2> QED  BY <1>2, <2>4, <2>6, <2>7, Together
<1>6. CASE MarkNeedsReview(j)
  <2> DEFINE row == [job[j] EXCEPT !.status = "needs_review"]
  <2>1. row \in JobRow /\ row.status = "needs_review"
    BY <1>3 DEF JobRow
  <2>2. job' = [job EXCEPT ![j] = row] /\ UNCHANGED <<result, report>>
    BY <1>3, <1>6 DEF MarkNeedsReview
  <2> HIDE DEF row
  <2>3. JobOK
    BY <2>1, <2>2, NewJob
  <2> QED  BY <1>1, <1>2, <2>2, <2>3, SameResult, SameOther, Together
<1>7. ASSUME NEW s \in {"pending_review", "voided"}, MoveReport(j, s)
      PROVE  IInv'
  <2>1. report' = [report EXCEPT ![j] = s] /\ UNCHANGED <<job, result>>
    BY <1>7 DEF MoveReport
  <2> QED  BY <1>2, <1>4, <2>1, SameJob, SameResult, Together
<1> QED  BY <1>5, <1>6, <1>7

(***************************************************************************)
(* The invariant and what follows from it                                  *)
(***************************************************************************)
LEMMA NextIInv == IInv /\ [Next]_vars => IInv'
<1> SUFFICES ASSUME IInv, [Next]_vars PROVE IInv'
  OBVIOUS
<1>1. CASE Claiming
  BY <1>1, ClaimAsyncStep, RunnerStep DEF Claiming
<1>2. CASE \E e \in Executors : Progress(e)
  BY <1>2, ReserveUsageStep, ProviderStep, PersistStep, EndStep DEF Progress
<1>3. CASE \E r \in Runners : InlineProgress(r)
  BY <1>3, RunnerStep
<1>4. CASE Disturbance
  BY <1>4, DisturbanceStep
<1>5. CASE Staff
  BY <1>5, RetryStep, ReviewStep DEF Staff
<1>6. CASE UNCHANGED vars
  <2>1. UNCHANGED <<job, result, report, resv, exec, clerk>>
    BY <1>6 DEF vars, rows
  <2>2. ResvOK
    BY <2>1, SameResv
  <2> QED  BY <2>1, <2>2, SameRuns, SameResult, SameJob, SameOther, Together DEF ResvOK
<1> QED  BY <1>1, <1>2, <1>3, <1>4, <1>5, <1>6 DEF Next

THEOREM Invariance == Spec => []IInv
BY InitIInv, NextIInv, PTL DEF Spec

\* Every row, run and retry keeps its type: no attempt passes the bound, no claim, takeover or
\* rewrite by id leaves a status outside the enumeration.
THEOREM TypeCorrect == Spec => []TypeOK
<1>1. IInv => TypeOK
  BY DEF IInv
<1> QED  BY <1>1, Invariance, PTL

\* No answer of the provider is kept unpaid, however many workers, inline runs and clerks work
\* on a job at once and wherever they crash (runClaimedOcrJob, ocr-job-service).
THEOREM PaidResultHolds == Spec => []PaidResult
<1>1. IInv => PaidResult
  BY DEF IInv
<1> QED  BY <1>1, Invariance, PTL

\* A worker named in locked_by of a running job runs its latest attempt, so the finalizer's
\* check of the owner is a check of the attempt (claim_async_ocr_jobs, finalize_async_task).
THEOREM OwnerHoldsLatestHolds == Spec => []OwnerHoldsLatest
<1>1. IInv => OwnerHoldsLatest
  BY DEF IInv
<1> QED  BY <1>1, Invariance, PTL

\* No run moves a report that has left OCR: advanceLiveReportAfterOcr is conditional on it.
THEOREM ReportLeftToStaffHolds == Spec => ReportLeftToStaff
<1>1. IInv /\ [Next]_vars =>
        [\A j \in Jobs : report[j] # "ocr_ing" /\ report'[j] # report[j] => exec' = exec]_vars
  <2> SUFFICES ASSUME IInv, Next, NEW j \in Jobs,
                      report[j] # "ocr_ing", report'[j] # report[j]
               PROVE  exec' = exec
    OBVIOUS
  <2>1. CASE Staff
    BY <2>1 DEF Staff, RetryRead, RetryReserve, RetryWrite, Confirm, MarkNeedsReview, MoveReport,
       rows
  <2>2. CASE \E e \in Executors : Advance(e)
    <3>1. PICK e \in Executors : Advance(e)
      BY <2>2
    <3>2. report' = [report EXCEPT ![J(e)] = IF @ = "ocr_ing" THEN "pending_review" ELSE @]
      BY <3>1 DEF Advance
    <3>3. report'[j] = report[j]
      BY <3>2 DEF IInv, TypeOK
    <3> QED  BY <3>3
  <2>3. CASE ~ Staff /\ ~ (\E e \in Executors : Advance(e))
    <3>1. report' = report
      <4>1. CASE Claiming
        BY <4>1 DEF Claiming, ClaimAsync, ClaimInline
      <4>2. CASE \E e \in Executors : Progress(e)
        BY <2>3, <4>2 DEF Progress, ReserveUsage, Preflight, CallProvider, Settle, Recheck,
           Persist, PersistJob, PersistResult, Fail, FailJob, FailResult, Cancel, CancelJob,
           Caught, rows
      <4>3. CASE \E r \in Runners : InlineProgress(r)
        BY <4>3 DEF InlineProgress, InlineRead, InlineTake, rows
      <4>4. CASE Disturbance
        BY <4>4 DEF Disturbance, Throw, Crash, LeaseLapses, LockAges, rows
      <4> QED  BY <2>3, <4>1, <4>2, <4>3, <4>4 DEF Next
    <3> QED  BY <3>1
  <2> QED  BY <2>1, <2>2, <2>3
<1> QED  BY <1>1, Invariance, PTL DEF Spec, ReportLeftToStaff

(***************************************************************************)
(* Kept leases                                                             *)
(***************************************************************************)
LEMMA LeasedIsNext == LeasedNext => Next
BY DEF LeasedNext, WorkerStep, AbandonedLapses, Next, Claiming, Disturbance, Executors

\* Workers whose leases are kept behave as the workers of the whole system do, and keep its
\* invariant.
THEOREM LeasedInvariance == LeasedSpec => []IInv
<1>1. IInv /\ [LeasedNext]_vars => IInv'
  BY LeasedIsNext, NextIInv
<1> QED  BY <1>1, InitIInv, PTL DEF LeasedSpec

\* A run that has not settled its job yet: after the finalizer it only writes the result and
\* the report.
Past == {"write_result", "advance", "fail_result"}
Unused == {"claimed", "take", "write_job"}           \* steps of inline runs
Working(w) == exec[w].step \notin Past \cup {"idle"}
HoldsLease(w) ==
    /\ exec[w].step \notin Unused
    /\ job[J(w)].status = "running"
    /\ job[J(w)].owner = w
    /\ job[J(w)].lease = "live"
    /\ job[J(w)].attempt = exec[w].attempt
Ripe(j) ==
    /\ job[j].max = MaxAttempts
    /\ job[j].status \in Settled \cup {"queued", "running"}
    /\ job[j].status # "queued" => job[j].attempt > 0

LeaseInv == /\ \A w \in Workers : Working(w) => HoldsLease(w)
            /\ \A j \in Jobs : Ripe(j)

\* What a step of a worker is to the job it runs: nothing, a claim, or its end.
OthersWait(w) == \A v \in Workers : v # w => exec'[v] = exec[v]
GoesOn(w) ==
    /\ UNCHANGED job
    /\ OthersWait(w)
    /\ \/ exec'[w].step \in Past \cup {"idle"}
       \/ /\ Working(w)
          /\ exec'[w].step \notin Unused
          /\ exec'[w].job = exec[w].job
          /\ exec'[w].attempt = exec[w].attempt
Ends(w, s) ==
    /\ Working(w)
    /\ J(w) \in Jobs
    /\ s \in Settled \cup {"queued"}
    /\ job'[J(w)].status = s
    /\ job'[J(w)].attempt = job[J(w)].attempt
    /\ job'[J(w)].max = job[J(w)].max
    /\ \A j \in Jobs : j # J(w) => job'[j] = job[j]
    /\ OthersWait(w)
    /\ exec'[w].step \in Past \cup {"idle"}

LEMMA Stops ==
  ASSUME IInv, NEW w \in Workers, Stop(w)
  PROVE  OthersWait(w) /\ exec'[w].step = "idle"
<1>1. exec \in [Executors -> Entries] /\ w \in Executors
  BY DEF IInv, TypeOK, Entries, Executors
<1> QED  BY <1>1 DEF Stop, OthersWait, Idle, Executors

LEMMA Goes ==
  ASSUME IInv, NEW w \in Workers, Working(w), NEW s, NEW o,
         \/ exec' = [exec EXCEPT ![w].step = s]
         \/ exec' = [exec EXCEPT ![w].step = s, ![w].outcome = o]
         \/ \E b : exec' = [exec EXCEPT ![w].step = s, ![w].reserved = b]
  PROVE  /\ OthersWait(w)
         /\ exec'[w].step = s
         /\ exec'[w].job = exec[w].job
         /\ exec'[w].attempt = exec[w].attempt
<1>1. exec \in [Executors -> Entries] /\ w \in Executors /\ exec[w] \in Run
  BY InRun DEF IInv, Working, Executors
<1>2. OthersWait(w)
  BY <1>1 DEF OthersWait, Executors
<1>3. \/ exec'[w] = [exec[w] EXCEPT !.step = s]
      \/ exec'[w] = [exec[w] EXCEPT !.step = s, !.outcome = o]
      \/ \E b : exec'[w] = [exec[w] EXCEPT !.step = s, !.reserved = b]
  BY <1>1
<1> QED  BY <1>1, <1>2, <1>3 DEF Run

\* A row that a working worker writes over its own.
LEMMA Writes ==
  ASSUME IInv, NEW w \in Workers, Working(w), HoldsLease(w), NEW s \in Settled \cup {"queued"},
         FinalizeRow(w, s) \/ WriteJob(J(w), s, exec[w].attempt),
         OthersWait(w), exec'[w].step \in Past \cup {"idle"}
  PROVE  Ends(w, s)
<1>1. J(w) \in Jobs /\ job \in [Jobs -> JobRow]
  <2>1. w \in Executors /\ exec[w].step # "idle"
    BY DEF Executors, Working
  <2> QED  BY <2>1, InRun DEF IInv, TypeOK, J
<1>2. \/ job'[J(w)] = [job[J(w)] EXCEPT !.status = s, !.owner = NoOne, !.lease = "none",
                                        !.lock = "none"]
      \/ job'[J(w)] = [job[J(w)] EXCEPT !.status = s, !.attempt = exec[w].attempt,
                                        !.owner = NoOne, !.lock = "none"]
  BY <1>1 DEF FinalizeRow, WriteJob
<1>3. /\ job'[J(w)].status = s
      /\ job'[J(w)].attempt = job[J(w)].attempt
      /\ job'[J(w)].max = job[J(w)].max
  BY <1>1, <1>2 DEF JobRow, HoldsLease
<1>4. \A j \in Jobs : j # J(w) => job'[j] = job[j]
  BY <1>1 DEF FinalizeRow, WriteJob
<1> QED  BY <1>1, <1>3, <1>4 DEF Ends

\* A step of a working run that leaves the job alone.
LEMMA Walks ==
  ASSUME IInv, NEW w \in Workers, Working(w), UNCHANGED job, NEW s, s \notin Unused, NEW o,
         \/ Stop(w)
         \/ exec' = [exec EXCEPT ![w].step = s]
         \/ exec' = [exec EXCEPT ![w].step = s, ![w].outcome = o]
         \/ \E b : exec' = [exec EXCEPT ![w].step = s, ![w].reserved = b]
  PROVE  GoesOn(w)
<1>1. CASE Stop(w)
  BY <1>1, Stops DEF GoesOn
<1>2. CASE ~ Stop(w)
  <2>1. \/ exec' = [exec EXCEPT ![w].step = s]
        \/ exec' = [exec EXCEPT ![w].step = s, ![w].outcome = o]
        \/ \E b : exec' = [exec EXCEPT ![w].step = s, ![w].reserved = b]
    BY <1>2
  <2>2. /\ OthersWait(w)
        /\ exec'[w].step = s
        /\ exec'[w].job = exec[w].job
        /\ exec'[w].attempt = exec[w].attempt
    BY <2>1, Goes
  <2> QED  BY <2>2 DEF GoesOn
<1> QED  BY <1>1, <1>2

\* What a worker under a kept lease does to the job it runs.
LEMMA ProgressLook ==
  ASSUME IInv, LeaseInv, NEW w \in Workers, Progress(w)
  PROVE  GoesOn(w) \/ \E s \in Settled \cup {"queued"} : Ends(w, s)
<1>0. w \in Executors /\ w \notin Runners
  BY OcrAssumption DEF Executors
<1>h. Working(w) => HoldsLease(w)
  BY DEF LeaseInv
<1>1. CASE ReserveUsage(w)
  <2>1. Working(w) /\ UNCHANGED job
    BY <1>1 DEF ReserveUsage, Working, At, Past
  <2>2. "preflight" \notin Unused /\ "fail" \notin Unused
    BY DEF Unused
  <2>3. \/ \E b : exec' = [exec EXCEPT ![w].step = "preflight", ![w].reserved = b]
        \/ exec' = [exec EXCEPT ![w].step = "fail", ![w].outcome = "limit"]
        \/ exec' = [exec EXCEPT ![w].step = "fail", ![w].outcome = "failed"]
    BY <1>1 DEF ReserveUsage, FailWith
  <2> QED  BY <2>1, <2>2, <2>3, Walks
<1>2. CASE Preflight(w) \/ Settle(w) \/ Recheck(w) \/ CallProvider(w)
  <2>1. Working(w) /\ UNCHANGED job
    BY <1>2 DEF Preflight, Settle, Recheck, CallProvider, Working, At, Past, rows
  <2>2. \/ \E s \in {"provider", "cancel", "fail", "caught", "recheck", "persist"} : Go(w, s)
        \/ FailWith(w, "failed")
        \/ \E o \in Outcomes : exec' = [exec EXCEPT ![w].step = "answered", ![w].outcome = o]
    <3>1. CASE Preflight(w)
      BY <3>1 DEF Preflight, Release
    <3>2. CASE Settle(w)
      <4>1. Release(w, "fail") \/ Consume(w, "fail") \/ Consume(w, "recheck")
        BY <3>2 DEF Settle
      <4> QED  BY <4>1 DEF Release, Consume
    <3>3. CASE Recheck(w)
      BY <3>3 DEF Recheck
    <3>4. CASE CallProvider(w)
      BY <3>4 DEF CallProvider, Outcomes
    <3> QED  BY <1>2, <3>1, <3>2, <3>3, <3>4
  <2>3. \A s \in {"provider", "cancel", "fail", "caught", "recheck", "persist", "answered"} :
            s \notin Unused
    BY DEF Unused
  <2> QED  BY <2>1, <2>2, <2>3, Walks DEF Go, FailWith
<1>3. CASE Persist(w)
  <2>1. Working(w) /\ Finalize(w, exec[w].outcome, "write_result")
    BY <1>0, <1>3 DEF Persist, Working, At, Past
  <2>2. exec[w].outcome \in Settled
    BY <1>0, <1>3 DEF IInv, PaidRuns, Persist, At, Kept, Settled
  <2>3. CASE FinalizeRow(w, exec[w].outcome) /\ Go(w, "write_result")
    <3>1. OthersWait(w) /\ exec'[w].step = "write_result"
      BY <2>1, <2>3, Goes DEF Go
    <3>2. exec'[w].step \in Past \cup {"idle"}
      BY <3>1 DEF Past
    <3> QED  BY <1>h, <2>1, <2>2, <2>3, <3>1, <3>2, Writes
  <2>4. CASE Stop(w) /\ UNCHANGED job
    BY <2>4, Stops DEF GoesOn
  <2> QED  BY <2>1, <2>3, <2>4 DEF Finalize
<1>4. CASE PersistJob(w)
  <2>1. Working(w) /\ exec[w].step \in Unused
    BY <1>4 DEF PersistJob, At, Unused, Working, Past
  <2> QED  BY <1>h, <2>1 DEF HoldsLease
<1>5. CASE PersistResult(w) \/ Advance(w) \/ FailResult(w)
  <2>1. UNCHANGED job /\ exec[w].step \in Past
    BY <1>5 DEF PersistResult, Advance, FailResult, At, Past
  <2>2. CASE Stop(w)
    BY <2>1, <2>2, Stops DEF GoesOn
  <2>3. CASE Go(w, "advance")
    <3>1. exec \in [Executors -> Entries] /\ exec[w] \in Run
      BY <1>0, <2>1, InRun DEF IInv, Past
    <3>2. OthersWait(w) /\ exec'[w].step = "advance"
      BY <1>0, <2>3, <3>1 DEF Go, OthersWait, Executors, Run
    <3> QED  BY <2>1, <3>2 DEF GoesOn, Past
  <2> QED  BY <1>5, <2>2, <2>3 DEF PersistResult, Advance, FailResult
<1>6. CASE Fail(w)
  <2>1. Working(w)
    BY <1>6 DEF Fail, Working, At, Past
  <2>2. CASE Finalize(w, "failed", "fail_result")
    <3>1. CASE FinalizeRow(w, "failed") /\ Go(w, "fail_result")
      <4>1. OthersWait(w) /\ exec'[w].step = "fail_result"
        BY <2>1, <3>1, Goes DEF Go
      <4>2. exec'[w].step \in Past \cup {"idle"} /\ "failed" \in Settled
        BY <4>1 DEF Past, Settled
      <4> QED  BY <1>h, <2>1, <3>1, <4>1, <4>2, Writes
    <3>2. CASE Stop(w) /\ UNCHANGED job
      BY <3>2, Stops DEF GoesOn
    <3> QED  BY <2>2, <3>1, <3>2 DEF Finalize
  <2>3. CASE Go(w, "fail_job") /\ UNCHANGED job
    <3>1. "fail_job" \notin Unused
      BY DEF Unused
    <3> QED  BY <2>1, <2>3, <3>1, Walks DEF Go
  <2> QED  BY <1>6, <2>2, <2>3 DEF Fail
<1>7. CASE FailJob(w)
  <2>1. Working(w) /\ Stop(w)
    BY <1>7 DEF FailJob, Working, At, Past
  <2>2. PICK s \in {"failed", "queued"} : WriteJob(J(w), s, exec[w].attempt)
    BY <1>7 DEF FailJob
  <2>3. s \in Settled \cup {"queued"} /\ OthersWait(w) /\ exec'[w].step \in Past \cup {"idle"}
    BY <2>1, Stops DEF Settled
  <2> QED  BY <1>h, <2>1, <2>2, <2>3, Writes
<1>8. CASE Cancel(w)
  <2>1. Working(w) /\ Go(w, "cancel_job") /\ UNCHANGED job /\ "cancel_job" \notin Unused
    BY <1>8 DEF Cancel, Working, At, Past, Unused
  <2> QED  BY <2>1, Walks DEF Go
<1>9. CASE CancelJob(w)
  <2>1. Working(w) /\ Stop(w) /\ WriteJob(J(w), "cancelled", exec[w].attempt)
    BY <1>9 DEF CancelJob, Working, At, Past
  <2>2. "cancelled" \in Settled /\ OthersWait(w) /\ exec'[w].step \in Past \cup {"idle"}
    BY <2>1, Stops DEF Settled
  <2> QED  BY <1>h, <2>1, <2>2, Writes
<1>10. CASE Caught(w)
  <2>1. Working(w) /\ Stop(w) /\ (FinalizeRow(w, "failed") \/ UNCHANGED job)
    BY <1>0, <1>10 DEF Caught, Working, At, Past
  <2>2. "failed" \in Settled /\ OthersWait(w) /\ exec'[w].step \in Past \cup {"idle"}
        /\ exec'[w].step = "idle"
    BY <2>1, Stops DEF Settled
  <2>3. CASE FinalizeRow(w, "failed")
    BY <1>h, <2>1, <2>2, <2>3, Writes
  <2>4. CASE UNCHANGED job
    BY <2>2, <2>4 DEF GoesOn
  <2> QED  BY <2>1, <2>3, <2>4
<1> QED  BY <1>1, <1>2, <1>3, <1>4, <1>5, <1>6, <1>7, <1>8, <1>9, <1>10 DEF Progress

LEMMA LeasedLook ==
  ASSUME IInv, LeaseInv, LeasedNext
  PROVE  \/ \E w \in Workers : GoesOn(w)
         \/ \E w \in Workers, s \in Settled \cup {"queued"} : Ends(w, s)
         \/ \E w \in Workers, j \in Jobs : ClaimAsync(w, j)
         \/ \E j \in Jobs : AbandonedLapses(j) \/ LockAges(j)
<1>1. CASE \E j \in Jobs : AbandonedLapses(j) \/ LockAges(j)
  BY <1>1
<1>2. CASE \E w \in Workers : WorkerStep(w)
  <2>1. PICK w \in Workers : WorkerStep(w)
    BY <1>2
  <2>2. CASE Progress(w)
    BY <2>2, ProgressLook
  <2>3. CASE Throw(w) \/ Crash(w)
    <3>1. UNCHANGED job
      BY <2>3 DEF Throw, Crash, rows
    <3>2. CASE Stop(w)
      BY <3>1, <3>2, Stops DEF GoesOn
    <3>3. CASE Go(w, "caught") /\ ~ Stop(w)
      <4>1. Working(w)
        BY <2>3, <3>3 DEF Throw, Crash, Throwing, Working, Past, Steps
      <4>2. "caught" \notin Unused
        BY DEF Unused
      <4> QED  BY <3>1, <3>3, <4>1, <4>2, Walks DEF Go
    <3> QED  BY <2>3, <3>2, <3>3 DEF Throw, Crash
  <2> QED  BY <2>1, <2>2, <2>3 DEF WorkerStep
<1> QED  BY <1>1, <1>2 DEF LeasedNext

LEMMA InitLeaseInv == Init => LeaseInv
<1> SUFFICES ASSUME Init PROVE LeaseInv
  OBVIOUS
<1>1. \A w \in Workers : exec[w].step = "idle"
  BY DEF Init, Idle, Executors
<1>2. \A j \in Jobs : Ripe(j)
  BY DEF Init, Ripe
<1> QED  BY <1>1, <1>2 DEF LeaseInv, Working

\* The rows a worker leaves alone are the rows of the others.
LEMMA NextLeaseInv == IInv /\ LeaseInv /\ [LeasedNext]_vars => LeaseInv'
<1> SUFFICES ASSUME IInv, LeaseInv, [LeasedNext]_vars PROVE LeaseInv'
  OBVIOUS
<1>0. /\ job \in [Jobs -> JobRow]
      /\ exec \in [Executors -> Entries]
      /\ Workers \subseteq Executors
  BY DEF IInv, TypeOK, Entries, Executors
<1>1. \A v \in Workers : Working(v) => J(v) \in Jobs
  BY <1>0, InRun DEF IInv, Working, J
<1>2. ASSUME NEW v \in Workers, Working(v), exec'[v].step \notin Unused,
             exec'[v].job = exec[v].job, exec'[v].attempt = exec[v].attempt,
             job'[J(v)] = job[J(v)]
      PROVE  HoldsLease(v)'
  BY <1>2 DEF LeaseInv, HoldsLease, J
<1>3. ASSUME NEW w \in Workers, GoesOn(w)
      PROVE  LeaseInv'
  <2>1. UNCHANGED job
    BY <1>3 DEF GoesOn
  <2>2. \A j \in Jobs : Ripe(j)'
    BY <2>1 DEF LeaseInv, Ripe
  <2>3. ASSUME NEW v \in Workers, Working(v)'
        PROVE  HoldsLease(v)'
    <3>1. CASE v = w
      BY <1>2, <1>3, <2>1, <2>3, <3>1 DEF GoesOn, Working
    <3>2. CASE v # w
      <4>1. exec'[v] = exec[v] /\ Working(v)
        BY <1>3, <2>3, <3>2 DEF GoesOn, OthersWait, Working
      <4> QED  BY <1>2, <2>1, <4>1 DEF LeaseInv, HoldsLease
    <3> QED  BY <3>1, <3>2
  <2> QED  BY <2>2, <2>3 DEF LeaseInv
<1>4. ASSUME NEW w \in Workers, NEW s \in Settled \cup {"queued"}, Ends(w, s)
      PROVE  LeaseInv'
  <2>1. HoldsLease(w) /\ J(w) \in Jobs
    BY <1>4 DEF Ends, LeaseInv
  <2>2. \A j \in Jobs : Ripe(j)'
    <3>1. ASSUME NEW j \in Jobs, j = J(w)
          PROVE  Ripe(j)'
      <4>1. Ripe(j) /\ job[j].attempt > 0
        BY <2>1, <3>1 DEF LeaseInv, Ripe, HoldsLease
      <4>2. /\ job'[j].max = MaxAttempts
            /\ job'[j].status \in Settled \cup {"queued", "running"}
            /\ job'[j].attempt > 0
        BY <1>4, <3>1, <4>1 DEF Ends, Ripe
      <4> QED  BY <4>2 DEF Ripe
    <3>2. ASSUME NEW j \in Jobs, j # J(w)
          PROVE  Ripe(j)'
      BY <1>4, <3>2 DEF Ends, LeaseInv, Ripe
    <3> QED  BY <3>1, <3>2
  <2>3. ASSUME NEW v \in Workers, Working(v)'
        PROVE  HoldsLease(v)'
    <3>1. v # w
      BY <1>4, <2>3 DEF Ends, Working
    <3>2. exec'[v] = exec[v] /\ Working(v)
      BY <1>4, <2>3, <3>1 DEF Ends, OthersWait, Working
    <3>3. HoldsLease(v)
      BY <3>2 DEF LeaseInv
    <3>4. J(v) # J(w)
      BY <2>1, <3>1, <3>3 DEF HoldsLease
    <3>5. job'[J(v)] = job[J(v)]
      BY <1>1, <1>4, <3>2, <3>4 DEF Ends
    <3> QED  BY <1>2, <3>2, <3>3, <3>5 DEF HoldsLease
  <2> QED  BY <2>2, <2>3 DEF LeaseInv
<1>5. ASSUME NEW w \in Workers, NEW j \in Jobs, ClaimAsync(w, j)
      PROVE  LeaseInv'
  <2>1. job'[j] = [job[j] EXCEPT !.status = "running", !.attempt = job[j].attempt + 1,
                                 !.owner = w, !.lease = "live", !.lock = "fresh"]
        /\ \A i \in Jobs : i # j => job'[i] = job[i]
    BY <1>0, <1>5 DEF ClaimAsync
  <2>2. exec'[w] = NewRun(j, "reserve", job[j].attempt + 1, job[j].max) /\ OthersWait(w)
    BY <1>0, <1>5 DEF ClaimAsync, OthersWait
  <2>3. /\ job'[j].status = "running" /\ job'[j].owner = w /\ job'[j].lease = "live"
        /\ job'[j].attempt = job[j].attempt + 1 /\ job'[j].max = job[j].max
        /\ job[j].attempt \in Nat
    BY <1>0, <2>1 DEF JobRow
  <2>4. \A i \in Jobs : Ripe(i)'
    <3>1. Ripe(j)'
      <4>1. job[j].attempt + 1 > 0 /\ job[j].max = MaxAttempts
        BY <2>3 DEF LeaseInv, Ripe
      <4> QED  BY <2>3, <4>1 DEF Ripe
    <3>2. ASSUME NEW i \in Jobs, i # j
          PROVE  Ripe(i)'
      BY <2>1, <3>2 DEF LeaseInv, Ripe
    <3> QED  BY <3>1, <3>2
  <2>5. ASSUME NEW v \in Workers, Working(v)'
        PROVE  HoldsLease(v)'
    <3>1. CASE v = w
      <4>1. exec'[w].job = j /\ exec'[w].step = "reserve" /\ exec'[w].attempt = job[j].attempt + 1
        BY <2>2 DEF NewRun
      <4>2. "reserve" \notin Unused
        BY DEF Unused
      <4> QED  BY <2>3, <3>1, <4>1, <4>2 DEF HoldsLease, J
    <3>2. CASE v # w
      <4>1. exec'[v] = exec[v] /\ Working(v)
        BY <2>2, <2>5, <3>2 DEF OthersWait, Working
      <4>2. HoldsLease(v)
        BY <4>1 DEF LeaseInv
      <4>3. J(v) # j
        BY <1>5, <4>2 DEF ClaimAsync, HoldsLease
      <4> QED  BY <1>1, <1>2, <2>1, <4>1, <4>2, <4>3 DEF HoldsLease
    <3> QED  BY <3>1, <3>2
  <2> QED  BY <2>4, <2>5 DEF LeaseInv
<1>6. ASSUME NEW j \in Jobs, AbandonedLapses(j) \/ LockAges(j)
      PROVE  LeaseInv'
  <2>1. UNCHANGED exec
    BY <1>6 DEF AbandonedLapses, LeaseLapses, LockAges
  <2>2. \/ job' = [job EXCEPT ![j].lease = "lapsed"] /\ \A w \in Workers : ~ RunBy(w, j)
        \/ job' = [job EXCEPT ![j].lock = "old"]
    BY <1>6 DEF AbandonedLapses, LeaseLapses, LockAges
  <2>3. \A i \in Jobs : /\ job'[i].status = job[i].status /\ job'[i].owner = job[i].owner
                        /\ job'[i].attempt = job[i].attempt /\ job'[i].max = job[i].max
    BY <1>0, <2>2 DEF JobRow
  <2>4. \A i \in Jobs : Ripe(i)'
    BY <2>3 DEF LeaseInv, Ripe
  <2>5. ASSUME NEW v \in Workers, Working(v)'
        PROVE  HoldsLease(v)'
    <3>1. Working(v) /\ HoldsLease(v)
      BY <2>1, <2>5 DEF Working, LeaseInv
    <3>2. J(v) \in Jobs /\ RunBy(v, J(v))
      BY <1>1, <3>1 DEF RunBy, Working, At
    <3>3. job'[J(v)].lease = job[J(v)].lease
      BY <1>0, <2>2, <3>2 DEF JobRow
    <3> QED  BY <2>1, <2>3, <3>1, <3>2, <3>3 DEF HoldsLease, J
  <2> QED  BY <2>4, <2>5 DEF LeaseInv
<1>7. CASE UNCHANGED vars
  BY <1>7 DEF vars, LeaseInv, Working, HoldsLease, Ripe, J
<1> QED  BY <1>3, <1>4, <1>5, <1>6, <1>7, LeasedLook

\* What a kept lease means for the rows and the runs, in every reachable state: LeaseInv.
THEOREM LeasedHolds == LeasedSpec => [](IInv /\ LeaseInv)
<1>1. IInv /\ LeaseInv /\ [LeasedNext]_vars => (IInv /\ LeaseInv)'
  BY LeasedIsNext, NextIInv, NextLeaseInv
<1> QED  BY <1>1, InitIInv, InitLeaseInv, PTL DEF LeasedSpec

\* Until it settles the job, a worker under a kept lease is the only one at work on it: no
\* provider call is made twice at once for one job.
THEOREM LeaseExcludes ==
    LeasedSpec => [](\A v, w \in Workers : Working(v) /\ Working(w) /\ J(v) = J(w) => v = w)
<1>1. LeaseInv => \A v, w \in Workers : Working(v) /\ Working(w) /\ J(v) = J(w) => v = w
  BY DEF LeaseInv, HoldsLease
<1> QED  BY <1>1, LeasedHolds, PTL

\* Lease workers that renew in time give every job the life cycle the runtime promises: tries up
\* to max_attempts, then one outcome for good, although runClaimedOcrJob writes retries and
\* cancellations by job id.  Crashes, throwing calls and takeovers of abandoned leases included.
THEOREM LeasedLifecycle == LeasedSpec => ImplementsLifecycle
<1> DEFINE Outcome(j) == IF job[j].status \in Settled THEN job[j].status ELSE "none"
<1> DEFINE tries == [j \in Jobs |-> job[j].attempt]
<1> DEFINE outcome == [j \in Jobs |-> Outcome(j)]
<1>1. Init => Lifecycle!Init
  <2> SUFFICES ASSUME Init PROVE Lifecycle!Init
    OBVIOUS
  <2>1. \A j \in Jobs : job[j].attempt = 0 /\ job[j].status = "queued"
    BY DEF Init
  <2>2. "queued" \notin Settled
    BY DEF Settled, Usable
  <2> QED  BY <2>1, <2>2 DEF Lifecycle!Init
<1>2. ASSUME IInv, LeaseInv, [LeasedNext]_vars
      PROVE  [Lifecycle!Next]_(Lifecycle!vars)
  <2>0. job \in [Jobs -> JobRow]
    BY <1>2 DEF IInv, TypeOK
  <2>1. ASSUME \A j \in Jobs : job'[j].attempt = job[j].attempt /\ job'[j].status = job[j].status
        PROVE  UNCHANGED Lifecycle!vars
    <3>1. tries' = tries /\ outcome' = outcome
      BY <2>1
    <3> QED  BY <3>1 DEF Lifecycle!vars
  <2>2. ASSUME NEW w \in Workers, NEW s \in Settled \cup {"queued"}, Ends(w, s)
        PROVE  [Lifecycle!Next]_(Lifecycle!vars)
    <3>1. /\ job[J(w)].status = "running" /\ job[J(w)].attempt > 0 /\ J(w) \in Jobs
          /\ job'[J(w)].status = s /\ job'[J(w)].attempt = job[J(w)].attempt
          /\ \A j \in Jobs : j # J(w) => job'[j] = job[j]
      BY <1>2, <2>2 DEF Ends, LeaseInv, HoldsLease, Ripe
    <3>2. "running" \notin Settled /\ "queued" \notin Settled /\ "none" \notin Settled
      BY DEF Settled, Usable
    <3>3. tries' = tries
      BY <3>1
    <3>4. CASE s = "queued"
      <4>1. outcome' = outcome
        BY <3>1, <3>2, <3>4
      <4> QED  BY <3>3, <4>1 DEF Lifecycle!vars
    <3>5. CASE s \in Settled
      <4>1. outcome' = [outcome EXCEPT ![J(w)] = s]
        BY <3>1, <3>5
      <4>2. Lifecycle!Settle(J(w), s)
        BY <3>1, <3>2, <3>3, <4>1 DEF Lifecycle!Settle, Lifecycle!Open
      <4> QED  BY <3>1, <3>5, <4>2 DEF Lifecycle!Next
    <3> QED  BY <3>4, <3>5
  <2>3. ASSUME NEW w \in Workers, NEW j \in Jobs, ClaimAsync(w, j)
        PROVE  Lifecycle!Next
    <3>1. /\ job'[j].status = "running" /\ job'[j].attempt = job[j].attempt + 1
          /\ \A i \in Jobs : i # j => job'[i] = job[i]
          /\ job[j].status \in {"queued", "running"} /\ job[j].attempt < MaxAttempts
      BY <1>2, <2>0, <2>3 DEF ClaimAsync, JobRow, LeaseInv, Ripe
    <3>2. "running" \notin Settled /\ "queued" \notin Settled
      BY DEF Settled, Usable
    <3>3. outcome' = outcome
      BY <3>1, <3>2
    <3>4. tries' = [t \in Jobs |-> IF t \in {j} THEN tries[t] + 1 ELSE tries[t]]
      BY <3>1
    <3>5. \A t \in {j} : outcome[t] = "none" /\ tries[t] < MaxAttempts
      BY <3>1, <3>2
    <3>6. Lifecycle!Try({j})
      BY <3>3, <3>4, <3>5 DEF Lifecycle!Try, Lifecycle!Open
    <3>7. {j} \in SUBSET Jobs
      OBVIOUS
    <3> QED  BY <3>6, <3>7 DEF Lifecycle!Next
  <2>4. ASSUME NEW j \in Jobs, AbandonedLapses(j) \/ LockAges(j)
        PROVE  UNCHANGED Lifecycle!vars
    <3>1. \A i \in Jobs : job'[i].attempt = job[i].attempt /\ job'[i].status = job[i].status
      BY <2>0, <2>4 DEF AbandonedLapses, LeaseLapses, LockAges, JobRow
    <3> QED  BY <2>1, <3>1
  <2>5. CASE \E w \in Workers : GoesOn(w)
    BY <2>1, <2>5 DEF GoesOn
  <2>6. CASE UNCHANGED vars
    BY <2>1, <2>6 DEF vars
  <2> QED  BY <1>2, <2>2, <2>3, <2>4, <2>5, <2>6, LeasedLook
<1> QED  BY <1>1, <1>2, LeasedHolds, PTL DEF LeasedSpec, ImplementsLifecycle, Lifecycle!Spec

\* While leases are kept no worker overwrites a job that succeeded, which the documents of the
\* runtime promise of every worker.
THEOREM LeasedKeepsFinal == LeasedSpec => FinalStatusKept
<1>1. IInv /\ LeaseInv /\ [LeasedNext]_vars =>
        [\A j \in Jobs : job[j].status = "succeeded" => job'[j].status = "succeeded"]_vars
  <2> SUFFICES ASSUME IInv, LeaseInv, LeasedNext, NEW j \in Jobs, job[j].status = "succeeded"
               PROVE  job'[j].status = "succeeded"
    OBVIOUS
  <2>0. job \in [Jobs -> JobRow]
    BY DEF IInv, TypeOK
  <2>1. CASE \E w \in Workers : GoesOn(w)
    BY <2>1 DEF GoesOn
  <2>2. ASSUME NEW w \in Workers, NEW s \in Settled \cup {"queued"}, Ends(w, s)
        PROVE  job'[j] = job[j]
    <3>1. job[J(w)].status = "running"
      BY <2>2 DEF Ends, LeaseInv, HoldsLease
    <3> QED  BY <2>2, <3>1 DEF Ends
  <2>3. ASSUME NEW w \in Workers, NEW i \in Jobs, ClaimAsync(w, i)
        PROVE  job'[j] = job[j]
    BY <2>0, <2>3 DEF ClaimAsync
  <2>4. CASE \E i \in Jobs : AbandonedLapses(i) \/ LockAges(i)
    BY <2>0, <2>4 DEF AbandonedLapses, LeaseLapses, LockAges, JobRow
  <2> QED  BY <2>1, <2>2, <2>3, <2>4, LeasedLook
<1> QED  BY <1>1, LeasedHolds, PTL DEF LeasedSpec, FinalStatusKept


(***************************************************************************)
(* The reservation of a job                                                *)
(***************************************************************************)
\* The runs and the clerks, wherever they overlap, fail or crash, ask of a job's reservation
\* only what the quota offers: to take a released one, and to give back or consume one that is
\* reserved (reserveUsageReservation, releaseUsageReservation, consumeUsageReservation).
THEOREM ReservationRespected == Spec => ImplementsReservation
<1>1. Init => Reservation!Init
  BY DEF Init, Reservation!Init
<1>2. ASSUME IInv, [Next]_vars
      PROVE  [Reservation!Next]_(Reservation!vars)
  <2>0. resv \in [Jobs -> {"reserved", "consumed", "released"}]
    BY <1>2 DEF IInv, TypeOK
  <2>1. CASE UNCHANGED resv
    BY <2>1 DEF Reservation!vars
  <2>2. ASSUME NEW j \in Jobs, resv' = [resv EXCEPT ![j] = IF @ = "released" THEN "reserved" ELSE @]
        PROVE  [Reservation!Next]_(Reservation!vars)
    <3>1. CASE resv[j] = "released"
      <4>1. {i \in Jobs : resv'[i] = "consumed"} = {i \in Jobs : resv[i] = "consumed"}
        BY <2>0, <2>2, <3>1
      <4> QED  BY <2>0, <2>2, <3>1, <4>1 DEF Reservation!Next, Reservation!Take
    <3>2. CASE resv[j] # "released"
      BY <2>0, <2>1, <2>2, <3>2
    <3> QED  BY <3>1, <3>2
  <2>3. ASSUME NEW e \in Executors, NEW s, exec[e].step # "idle", Release(e, s)
        PROVE  [Reservation!Next]_(Reservation!vars)
    <3>1. J(e) \in Jobs
      BY <1>2, <2>3, InRun DEF IInv, J
    <3>2. CASE resv' = [resv EXCEPT ![J(e)] = "released"] /\ resv[J(e)] # "consumed"
      <4>1. CASE resv[J(e)] = "reserved"
        <5>1. {i \in Jobs : resv'[i] = "consumed"} = {i \in Jobs : resv[i] = "consumed"}
          BY <2>0, <3>1, <3>2, <4>1
        <5> QED  BY <3>1, <3>2, <4>1, <5>1 DEF Reservation!Next, Reservation!GiveBack
      <4>2. CASE resv[J(e)] = "released"
        BY <2>0, <2>1, <3>1, <3>2, <4>2
      <4> QED  BY <2>0, <3>1, <3>2, <4>1, <4>2
    <3> QED  BY <2>1, <2>3, <3>2 DEF Release
  <2>4. ASSUME NEW e \in Executors, NEW s, exec[e].step # "idle", Consume(e, s)
        PROVE  [Reservation!Next]_(Reservation!vars)
    <3>1. J(e) \in Jobs
      BY <1>2, <2>4, InRun DEF IInv, J
    <3>2. CASE resv[J(e)] = "reserved" /\ resv' = [resv EXCEPT ![J(e)] = "consumed"]
      <4>1. {j \in Jobs : resv'[j] = "consumed"}
                = {j \in Jobs : resv[j] = "consumed"} \cup {J(e)}
        BY <2>0, <3>1, <3>2
      <4> QED  BY <3>1, <3>2, <4>1 DEF Reservation!Next, Reservation!Consume
    <3> QED  BY <2>1, <2>4, <3>2 DEF Consume
  <2>5. CASE Claiming
    BY <2>1, <2>5 DEF Claiming, ClaimAsync, ClaimInline
  <2>6. CASE \E e \in Executors : Progress(e)
    <3>1. PICK e \in Executors : Progress(e)
      BY <2>6
    <3>2. CASE ReserveUsage(e)
      <4>1. J(e) \in Jobs
        BY <1>2, <3>2, InRun DEF IInv, J, ReserveUsage, At
      <4> QED  BY <2>1, <2>2, <3>2, <4>1 DEF ReserveUsage
    <3>3. CASE Preflight(e)
      BY <2>1, <2>3, <3>3 DEF Preflight, At
    <3>4. CASE Settle(e)
      <4>1. exec[e].step # "idle" /\ (\/ Release(e, "fail")
                                      \/ Consume(e, "fail")
                                      \/ Consume(e, "recheck"))
        BY <3>4 DEF Settle, At
      <4> QED  BY <2>3, <2>4, <4>1
    <3>5. CASE ~ (ReserveUsage(e) \/ Preflight(e) \/ Settle(e))
      <4>1. UNCHANGED resv
        BY <3>1, <3>5 DEF Progress, CallProvider, Recheck, Persist, PersistJob, PersistResult,
           Advance, Fail, FailJob, FailResult, Cancel, CancelJob, Caught, rows
      <4> QED  BY <2>1, <4>1
    <3> QED  BY <3>2, <3>3, <3>4, <3>5
  <2>7. CASE \E r \in Runners : InlineProgress(r)
    BY <2>1, <2>7 DEF InlineProgress, InlineRead, InlineTake, rows
  <2>8. CASE Disturbance
    BY <2>1, <2>8 DEF Disturbance, Throw, Crash, LeaseLapses, LockAges, rows
  <2>9. CASE Staff
    <3>1. CASE \E k \in Clerks : RetryReserve(k)
      <4>1. PICK k \in Clerks : RetryReserve(k)
        BY <3>1
      <4>2. clerk[k].job \in Jobs
        <5>1. clerk[k] \in Retry \cup {Idle} /\ clerk[k] # Idle
          BY <1>2, <4>1 DEF IInv, TypeOK, RetryReserve, Idle
        <5> QED  BY <5>1 DEF Retry
      <4> QED  BY <2>1, <2>2, <4>1, <4>2 DEF RetryReserve
    <3>2. CASE ~ \E k \in Clerks : RetryReserve(k)
      <4>1. UNCHANGED resv
        BY <2>9, <3>2 DEF Staff, RetryRead, RetryWrite, Confirm, MarkNeedsReview, MoveReport, rows
      <4> QED  BY <2>1, <4>1
    <3> QED  BY <3>1, <3>2
  <2>10. CASE UNCHANGED vars
    BY <2>1, <2>10 DEF vars, rows
  <2> QED  BY <1>2, <2>5, <2>6, <2>7, <2>8, <2>9, <2>10 DEF Next
<1> QED  BY <1>1, <1>2, Invariance, PTL DEF Spec, ImplementsReservation, Reservation!Spec
=============================================================================
