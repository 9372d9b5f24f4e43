------------------------------ MODULE OcrJobs ------------------------------
(***************************************************************************)
(* An OCR job from claim to report: the lease workers, the inline runners  *)
(* of the web process, the staff who retry, confirm and review, and the    *)
(* four rows they share: the job, its OCR result, its live report and its  *)
(* usage reservation.  Every await of the code is a step, so anything may  *)
(* happen between a read and the write that relies on it.                  *)
(*                                                                         *)
(* Time is left open: a lease may lapse and a lock may grow old at any     *)
(* moment, and a queued job's run_after may have passed.  AsyncTasks       *)
(* models the claim and the lease with their clock, UsageReservations the  *)
(* counter behind the reservation.                                         *)
(***************************************************************************)
EXTENDS Naturals, FiniteSets

CONSTANTS Jobs,
          Workers,      \* processes of the OCR worker
          Runners,      \* inline runs in the web process, all under one runner id
          Clerks,       \* staff who retry jobs
          InlineId,     \* the inline runner's locked_by
          NoOne,        \* a null locked_by
          MaxAttempts,  \* max_attempts of a new job
          MaxRetries    \* bound on the attempts, those added by staff included

ASSUME OcrAssumption ==
    /\ {InlineId, NoOne} \cap Workers = {}
    /\ Workers \cap Runners = {}
    /\ InlineId # NoOne
    /\ MaxAttempts \in Nat \ {0}
    /\ MaxRetries \in Nat
    /\ MaxRetries >= MaxAttempts

VARIABLES job,     \* background_jobs
          result,  \* ocr_results
          report,  \* live_reports.status
          resv,    \* usage_reservations.status
          exec,    \* the run each executor is in
          clerk    \* the retry each clerk is in

rows == <<job, result, report, resv>>
vars == <<job, result, report, resv, exec, clerk>>

Executors == Workers \cup Runners
Id(e) == IF e \in Workers THEN e ELSE InlineId

Usable == {"succeeded", "needs_confirmation"}
Settled == Usable \cup {"failed", "cancelled"}
JobRow == [status : Settled \cup {"queued", "running", "needs_review"},
           attempt : 0 .. MaxRetries, max : 1 .. MaxRetries,
           owner : Workers \cup {InlineId, NoOne},
           lease : {"none", "live", "lapsed"}, lock : {"none", "fresh", "old"}]
ResultRow == [status : Settled \cup {"pending"}, reviewed : BOOLEAN]

Steps == {"claimed", "take", "reserve", "preflight", "provider", "answered", "recheck",
          "persist", "write_job", "write_result", "advance",
          "fail", "fail_job", "fail_result", "cancel", "cancel_job", "caught"}
Outcomes == Usable \cup {"failed", "threw", "unconfigured", "limit", "rescued", "none"}
Idle == [step |-> "idle"]
Run == [step : Steps, job : Jobs, attempt : 0 .. MaxRetries, max : 1 .. MaxRetries,
        reserved : BOOLEAN, outcome : Outcomes]

\* enqueue_ocr_job leaves these rows, in one transaction.
Init ==
    /\ job = [j \in Jobs |-> [status |-> "queued", attempt |-> 0, max |-> MaxAttempts,
                              owner |-> NoOne, lease |-> "none", lock |-> "none"]]
    /\ result = [j \in Jobs |-> [status |-> "pending", reviewed |-> FALSE]]
    /\ report = [j \in Jobs |-> "ocr_ing"]
    /\ resv = [j \in Jobs |-> "reserved"]
    /\ exec = [e \in Executors |-> Idle]
    /\ clerk = [k \in Clerks |-> Idle]

At(e, s) == exec[e].step = s
J(e) == exec[e].job
Go(e, s) == exec' = [exec EXCEPT ![e].step = s]
Stop(e) == exec' = [exec EXCEPT ![e] = Idle]
NewRun(j, s, a, m) == [step |-> s, job |-> j, attempt |-> a, max |-> m,
                       reserved |-> FALSE, outcome |-> "none"]

(***************************************************************************)
(* Claims                                                                  *)
(***************************************************************************)
\* Faulty variant of ClaimAsync: a running job is taken though its lease is live.
ClaimLive(w, j) ==
    /\ At(w, "idle")
    /\ job[j].attempt < job[j].max
    /\ job[j].status \in {"queued", "running"}
    /\ job' = [job EXCEPT ![j] = [@ EXCEPT !.status = "running",
                                           !.attempt = job[j].attempt + 1, !.owner = w,
                                           !.lease = "live", !.lock = "fresh"]]
    /\ exec' = [exec EXCEPT ![w] = NewRun(j, "reserve", job[j].attempt + 1, job[j].max)]
    /\ UNCHANGED <<result, report, resv, clerk>>

\* claim_async_ocr_jobs: a queued job, or a running one without a live lease.
ClaimAsync(w, j) ==
    /\ At(w, "idle")
    /\ job[j].attempt < job[j].max
    /\ \/ job[j].status = "queued"
       \/ job[j].status = "running" /\ job[j].lease # "live"
    /\ job' = [job EXCEPT ![j] = [@ EXCEPT !.status = "running",
                                           !.attempt = job[j].attempt + 1, !.owner = w,
                                           !.lease = "live", !.lock = "fresh"]]
    /\ exec' = [exec EXCEPT ![w] = NewRun(j, "reserve", job[j].attempt + 1, job[j].max)]
    /\ UNCHANGED <<result, report, resv, clerk>>

\* claim_ocr_jobs: a queued job, or a running one whose lock is old.  It takes no lease.
ClaimInline(r, j) ==
    /\ At(r, "idle")
    /\ job[j].attempt < job[j].max
    /\ \/ job[j].status = "queued"
       \/ job[j].status = "running" /\ job[j].lock # "fresh"
    /\ job' = [job EXCEPT ![j] = [@ EXCEPT !.status = "running", !.owner = InlineId,
                                           !.lock = "fresh"]]
    /\ exec' = [exec EXCEPT ![r] = NewRun(j, "claimed", job[j].attempt, job[j].max)]
    /\ UNCHANGED <<result, report, resv, clerk>>

\* Faulty variant of Runnable: the attempts are not counted.
RunnableUnbounded(j) ==
    \/ job[j].status = "queued"
    \/ job[j].status = "running" /\ (job[j].owner = InlineId \/ job[j].lock # "fresh")

\* What runOcrJobOnce accepts: not locked by another runner, and runnable.
Runnable(j) ==
    /\ job[j].attempt < job[j].max
    /\ \/ job[j].status = "queued"
       \/ job[j].status = "running" /\ (job[j].owner = InlineId \/ job[j].lock # "fresh")

\* runOcrJobOnce reads the job and leaves when another runner has it, or when it was queued
\* again for later ...
InlineRead(r) ==
    /\ At(r, "claimed")
    /\ \/ /\ Runnable(J(r))
          /\ exec' = [exec EXCEPT ![r] = NewRun(J(r), "take", job[J(r)].attempt + 1,
                                                job[J(r)].max)]
       \/ /\ ~ Runnable(J(r)) \/ job[J(r)].status = "queued"
          /\ Stop(r)
    /\ UNCHANGED <<rows, clerk>>

\* Faulty variant of InlineTake: locked_by is not written.
TakeWithoutOwner(r) ==
    /\ At(r, "take")
    /\ job' = [job EXCEPT ![J(r)] = [@ EXCEPT !.status = "running", !.lock = "fresh",
                                              !.attempt = exec[r].attempt]]
    /\ Go(r, "reserve")
    /\ UNCHANGED <<result, report, resv, clerk>>

\* ... and then writes the attempt it computed, whatever the row holds by now.
InlineTake(r) ==
    /\ At(r, "take")
    /\ job' = [job EXCEPT ![J(r)] = [@ EXCEPT !.status = "running", !.owner = InlineId,
                                              !.lock = "fresh", !.attempt = exec[r].attempt]]
    /\ Go(r, "reserve")
    /\ UNCHANGED <<result, report, resv, clerk>>

(***************************************************************************)
(* runClaimedOcrJob                                                        *)
(***************************************************************************)
FailWith(e, o) == exec' = [exec EXCEPT ![e].step = "fail", ![e].outcome = o]

\* The reservation is kept, or a released one is taken again; the quota may refuse that, and
\* then the failure is final.
ReserveUsage(e) ==
    /\ At(e, "reserve")
    /\ \/ /\ exec' = [exec EXCEPT ![e].step = "preflight",
                                  ![e].reserved = resv[J(e)] # "consumed"]
          /\ resv' = [resv EXCEPT ![J(e)] = IF @ = "released" THEN "reserved" ELSE @]
       \/ /\ resv[J(e)] = "released"
          /\ FailWith(e, "limit")
          /\ UNCHANGED resv
       \/ FailWith(e, "failed") /\ UNCHANGED resv
    /\ UNCHANGED <<job, result, report, clerk>>

\* Faulty variant of Release: a run that found the reservation consumed gives it back too.
ReleaseConsumed(e, s) ==
    /\ resv' = [resv EXCEPT ![J(e)] = "released"]
    /\ Go(e, s)

\* A run that found its reservation reserved gives it back before it goes on to step s; the
\* database raises when another run has consumed it.
Release(e, s) ==
    \/ /\ ~ exec[e].reserved
       /\ Go(e, s)
       /\ UNCHANGED resv
    \/ /\ exec[e].reserved
       /\ resv[J(e)] # "consumed"
       /\ resv' = [resv EXCEPT ![J(e)] = "released"]
       /\ Go(e, s)
    \/ /\ exec[e].reserved
       /\ resv[J(e)] = "consumed"
       /\ Go(e, "caught")
       /\ UNCHANGED resv

\* The report must still be in OCR; then the image is resolved.
Preflight(e) ==
    /\ At(e, "preflight")
    /\ \/ /\ report[J(e)] = "ocr_ing"
          /\ Go(e, "provider")
          /\ UNCHANGED resv
       \/ report[J(e)] # "ocr_ing" /\ Release(e, "cancel")
       \/ report[J(e)] = "ocr_ing" /\ Release(e, "fail")
    /\ UNCHANGED <<job, result, report, clerk>>

\* The provider call ends in some way; nothing is written.
CallProvider(e) ==
    /\ At(e, "provider")
    /\ \E o \in Usable \cup {"failed", "threw", "unconfigured"} :
          exec' = [exec EXCEPT ![e].step = "answered", ![e].outcome = o]
    /\ UNCHANGED <<rows, clerk>>

\* A run that found its reservation reserved consumes it before it goes on to step s; the
\* database refuses a released one, and any call may fail.
Consume(e, s) ==
    \/ /\ \/ ~ exec[e].reserved
          \/ resv[J(e)] = "consumed"
       /\ Go(e, s)
       /\ UNCHANGED resv
    \/ /\ exec[e].reserved
       /\ resv[J(e)] = "reserved"
       /\ resv' = [resv EXCEPT ![J(e)] = "consumed"]
       /\ Go(e, s)
    \/ /\ exec[e].reserved
       /\ FailWith(e, "failed")
       /\ UNCHANGED resv

\* What is paid depends on how the call ended.
Settle(e) ==
    /\ At(e, "answered")
    /\ CASE exec[e].outcome = "unconfigured" -> Release(e, "fail")
         [] exec[e].outcome = "threw" -> Consume(e, "fail")
         [] OTHER -> Consume(e, "recheck")
    /\ UNCHANGED <<job, result, report, clerk>>

\* The report is read again before anything of the answer is kept.
Recheck(e) ==
    /\ At(e, "recheck")
    /\ Go(e, CASE report[J(e)] # "ocr_ing" -> "cancel"
               [] exec[e].outcome \notin Usable -> "fail"
               [] OTHER -> "persist")
    /\ UNCHANGED <<rows, clerk>>

\* The writes that name the row and nothing else: no owner, no lease, no status.
WriteResult(j, s) == result' = [result EXCEPT ![j].status = s]
WriteJob(j, s, a) == job' = [job EXCEPT ![j] = [@ EXCEPT !.status = s, !.attempt = a,
                                                         !.owner = NoOne, !.lock = "none"]]

\* finalize_async_task settles the row a worker still owns under a live lease ...
Owned(e) == LET row == job[J(e)] IN row.status = "running" /\ row.owner = e /\ row.lease = "live"
FinalizeRow(e, o) == job' = [job EXCEPT ![J(e)] = [@ EXCEPT !.status = o, !.owner = NoOne,
                                                            !.lease = "none", !.lock = "none"]]
\* ... and the run goes on to step s; otherwise it returns null, and the run ends.
Finalize(e, o, s) ==
    \/ /\ Owned(e)
       /\ FinalizeRow(e, o)
       /\ Go(e, s)
    \/ /\ ~ Owned(e)
       /\ Stop(e)
       /\ UNCHANGED job

\* The answer is kept: a worker finalizes first and writes the result after, a runner writes
\* the result and then the job.
Persist(e) ==
    /\ At(e, "persist")
    /\ \/ /\ e \in Workers
          /\ Finalize(e, exec[e].outcome, "write_result")
          /\ UNCHANGED result
       \/ /\ e \in Runners
          /\ WriteResult(J(e), exec[e].outcome)
          /\ Go(e, "write_job")
          /\ UNCHANGED job
    /\ UNCHANGED <<report, resv, clerk>>
PersistJob(e) ==
    /\ At(e, "write_job")
    /\ WriteJob(J(e), exec[e].outcome, exec[e].attempt)
    /\ Go(e, "advance")
    /\ UNCHANGED <<result, report, resv, clerk>>
PersistResult(e) ==
    /\ At(e, "write_result")
    /\ WriteResult(J(e), exec[e].outcome)
    /\ Go(e, "advance")
    /\ UNCHANGED <<job, report, resv, clerk>>

\* Faulty variant of Advance: the update is not guarded by the status it read.
AdvanceUnguarded(e) ==
    /\ At(e, "advance")
    /\ report' = [report EXCEPT ![J(e)] = "pending_review"]
    /\ Stop(e)
    /\ UNCHANGED <<job, result, resv, clerk>>

\* advanceLiveReportAfterOcr: the report enters the review pool, if it is still in OCR.
Advance(e) ==
    /\ At(e, "advance")
    /\ report' = [report EXCEPT ![J(e)] = IF @ = "ocr_ing" THEN "pending_review" ELSE @]
    /\ Stop(e)
    /\ UNCHANGED <<job, result, resv, clerk>>

Final(e) == exec[e].outcome = "limit" \/ exec[e].attempt >= exec[e].max

\* failOcrJobAttempt: a worker's final failure goes through the finalizer; a retry, and every
\* failure of a runner, is written by id, result first.
Fail(e) ==
    /\ At(e, "fail")
    /\ \/ /\ e \in Workers /\ Final(e)
          /\ Finalize(e, "failed", "fail_result")
          /\ UNCHANGED result
       \/ /\ ~ (e \in Workers /\ Final(e))
          /\ WriteResult(J(e), IF Final(e) THEN "failed" ELSE "pending")
          /\ Go(e, "fail_job")
          /\ UNCHANGED job
    /\ UNCHANGED <<report, resv, clerk>>
FailJob(e) ==
    /\ At(e, "fail_job")
    /\ WriteJob(J(e), IF Final(e) THEN "failed" ELSE "queued", exec[e].attempt)
    /\ Stop(e)
    /\ UNCHANGED <<result, report, resv, clerk>>
FailResult(e) ==
    /\ At(e, "fail_result")
    /\ WriteResult(J(e), "failed")
    /\ Stop(e)
    /\ UNCHANGED <<job, report, resv, clerk>>

\* cancelOcrJobForInactiveReport, for workers as well, without the finalizer.
Cancel(e) ==
    /\ At(e, "cancel")
    /\ WriteResult(J(e), "cancelled")
    /\ Go(e, "cancel_job")
    /\ UNCHANGED <<job, report, resv, clerk>>
CancelJob(e) ==
    /\ At(e, "cancel_job")
    /\ WriteJob(J(e), "cancelled", exec[e].attempt)
    /\ Stop(e)
    /\ UNCHANGED <<result, report, resv, clerk>>

\* A call outside every inner try block throws.  It ends a run whose outer handler is not
\* reached, has tried to finalize already, or is the one that threw.
Throwing(e) ==
    \/ exec[e].step \in Steps \ {"reserve", "provider", "answered", "caught"}
    \/ exec[e].step = "reserve" /\ e \in Workers
    \/ exec[e].step = "answered" /\ exec[e].outcome = "unconfigured"
Throw(e) ==
    /\ Throwing(e)
    /\ IF \/ exec[e].step \in {"claimed", "take"}
          \/ e \in Workers /\ exec[e].step \in {"write_result", "advance", "fail_result"}
          \/ exec[e].outcome = "rescued"
       THEN Stop(e)
       ELSE Go(e, "caught")
    /\ UNCHANGED <<rows, clerk>>

\* A worker finalizes the job as failed, if it can; a runner fails the attempt.
Caught(e) ==
    /\ At(e, "caught")
    /\ \/ /\ e \in Workers
          /\ Stop(e)
          /\ \/ Owned(e) /\ FinalizeRow(e, "failed")
             \/ UNCHANGED job
       \/ /\ e \in Runners
          /\ FailWith(e, "rescued")
          /\ UNCHANGED job
    /\ UNCHANGED <<result, report, resv, clerk>>

(***************************************************************************)
(* Time and failure                                                        *)
(***************************************************************************)
\* The lease runs out: its renewals stopped or came late.
LeaseLapses(j) ==
    /\ job[j].lease = "live"
    /\ job' = [job EXCEPT ![j].lease = "lapsed"]
    /\ UNCHANGED <<result, report, resv, exec, clerk>>

\* locked_at passes the inline runners' lock timeout.
LockAges(j) ==
    /\ job[j].lock = "fresh"
    /\ job' = [job EXCEPT ![j].lock = "old"]
    /\ UNCHANGED <<result, report, resv, exec, clerk>>

\* The executor's process dies; what it had written stays.
Crash(e) ==
    /\ ~ At(e, "idle")
    /\ Stop(e)
    /\ UNCHANGED <<rows, clerk>>

(***************************************************************************)
(* Staff                                                                   *)
(***************************************************************************)
\* retryOcrJob reads the job and its report ...
RetryRead(k, j) ==
    /\ clerk[k] = Idle
    /\ job[j].status \in {"failed", "cancelled"}
    /\ report[j] = "ocr_ing"
    /\ job[j].attempt < MaxRetries
    /\ clerk' = [clerk EXCEPT ![k] =
                   [step |-> "reserve", job |-> j,
                    max |-> IF job[j].attempt >= job[j].max THEN job[j].attempt + 1
                            ELSE job[j].max]]
    /\ UNCHANGED <<rows, exec>>

\* ... takes a released reservation again, unless the quota refuses ...
RetryReserve(k) ==
    /\ clerk[k].step = "reserve"
    /\ \/ /\ resv' = [resv EXCEPT ![clerk[k].job] = IF @ = "released" THEN "reserved" ELSE @]
          /\ clerk' = [clerk EXCEPT ![k].step = "write"]
       \/ /\ resv[clerk[k].job] = "released"
          /\ clerk' = [clerk EXCEPT ![k] = Idle]
          /\ UNCHANGED resv
    /\ UNCHANGED <<job, result, report, exec>>

\* ... and queues the job, whatever it is by now.
RetryWrite(k) ==
    /\ clerk[k].step = "write"
    /\ job' = [job EXCEPT ![clerk[k].job] = [@ EXCEPT !.status = "queued", !.max = clerk[k].max,
                                                       !.owner = NoOne, !.lock = "none"]]
    /\ clerk' = [clerk EXCEPT ![k] = Idle]
    /\ UNCHANGED <<result, report, resv, exec>>

\* confirm_ocr_job_metrics, one transaction over the three rows.
Confirm(j) ==
    /\ job[j].status \in {"needs_confirmation", "needs_review"}
    /\ result[j] = [status |-> "needs_confirmation", reviewed |-> FALSE]
    /\ report[j] \in {"ocr_ing", "pending_review"}
    /\ result' = [result EXCEPT ![j] = [status |-> "succeeded", reviewed |-> TRUE]]
    /\ job' = [job EXCEPT ![j] = [@ EXCEPT !.status = "succeeded", !.owner = NoOne,
                                           !.lock = "none"]]
    /\ report' = [report EXCEPT ![j] = "pending_review"]
    /\ UNCHANGED <<resv, exec, clerk>>

\* markOcrJobNeedsReview, from any status.
MarkNeedsReview(j) ==
    /\ job[j].status # "needs_review"
    /\ job' = [job EXCEPT ![j].status = "needs_review"]
    /\ UNCHANGED <<result, report, resv, exec, clerk>>

\* The live-operations service confirms a report by hand, or voids it when a new screenshot
\* supersedes it.  Both read the report and then write it by id.
MoveReport(j, s) ==
    /\ report[j] # s
    /\ report' = [report EXCEPT ![j] = s]
    /\ UNCHANGED <<job, result, resv, exec, clerk>>

(***************************************************************************)
(* The system                                                              *)
(***************************************************************************)
Progress(e) == \/ ReserveUsage(e) \/ Preflight(e) \/ CallProvider(e) \/ Settle(e) \/ Recheck(e)
               \/ Persist(e) \/ PersistJob(e) \/ PersistResult(e) \/ Advance(e)
               \/ Fail(e) \/ FailJob(e) \/ FailResult(e) \/ Cancel(e) \/ CancelJob(e)
               \/ Caught(e)
InlineProgress(r) == InlineRead(r) \/ InlineTake(r)
Claiming == \E j \in Jobs : \/ \E w \in Workers : ClaimAsync(w, j)
                            \/ \E r \in Runners : ClaimInline(r, j)
Disturbance == \/ \E e \in Executors : Throw(e) \/ Crash(e)
               \/ \E j \in Jobs : LeaseLapses(j) \/ LockAges(j)
Staff == \/ \E k \in Clerks : \/ \E j \in Jobs : RetryRead(k, j)
                              \/ RetryReserve(k)
                              \/ RetryWrite(k)
         \/ \E j \in Jobs : \/ Confirm(j)
                            \/ MarkNeedsReview(j)
                            \/ \E s \in {"pending_review", "voided"} : MoveReport(j, s)

Next == \/ Claiming
        \/ \E e \in Executors : Progress(e)
        \/ \E r \in Runners : InlineProgress(r)
        \/ Disturbance
        \/ Staff

Spec == Init /\ [][Next]_vars

\* A run goes on until it ends or its process dies: every call it awaits has a timeout.
LiveSpec == /\ Spec
            /\ \A e \in Executors : WF_vars(Progress(e))
            /\ \A r \in Runners : WF_vars(InlineProgress(r))

\* The lease workers by themselves, on hosts that renew in time: a lease lapses when its holder
\* has crashed or given up, and not while it works.
RunBy(w, j) == ~ At(w, "idle") /\ J(w) = j
WorkerStep(w) == (\E j \in Jobs : ClaimAsync(w, j)) \/ Progress(w) \/ Throw(w) \/ Crash(w)
AbandonedLapses(j) == LeaseLapses(j) /\ \A w \in Workers : ~ RunBy(w, j)
LeasedNext == \/ \E w \in Workers : WorkerStep(w)
              \/ \E j \in Jobs : AbandonedLapses(j) \/ LockAges(j)
LeasedSpec == Init /\ [][LeasedNext]_vars

(***************************************************************************)
(* Properties                                                              *)
(***************************************************************************)
Retry == [step : {"reserve", "write"}, job : Jobs, max : 1 .. MaxRetries]
TypeOK ==
    /\ job \in [Jobs -> JobRow]
    /\ result \in [Jobs -> ResultRow]
    /\ report \in [Jobs -> {"ocr_ing", "pending_review", "voided"}]
    /\ resv \in [Jobs -> {"reserved", "consumed", "released"}]
    /\ exec \in [Executors -> Run \cup {Idle}]
    /\ clerk \in [Clerks -> Retry \cup {Idle}]

\* No answer of the provider is kept unpaid: however runs overlap, fail or are repeated, a
\* result that can be used belongs to a consumed reservation, and stays paid.
PaidResult ==
    \A j \in Jobs : result[j].status \in Usable => resv[j] = "consumed"

\* A worker that still owns its running job runs the job's latest attempt.
OwnerHoldsLatest ==
    \A w \in Workers :
        /\ ~ At(w, "idle")
        /\ job[J(w)].status = "running"
        /\ job[J(w)].owner = w
        => exec[w].attempt = job[J(w)].attempt

\* A report that staff confirmed or voided while a run was under way is not moved by that run:
\* only staff move a report that has left OCR.
ReportLeftToStaff ==
    [][\A j \in Jobs : report[j] # "ocr_ing" /\ report'[j] # report[j] => exec' = exec]_vars

\* docs: a final status is never overwritten by a worker.
FinalStatusKept ==
    [][\A j \in Jobs : job[j].status = "succeeded" => job'[j].status = "succeeded"]_vars

\* docs: a job that succeeded has its result persisted.
SucceededIsPersisted ==
    \A j \in Jobs : job[j].status = "succeeded"
                     ~> result[j].status = "succeeded" \/ job[j].status # "succeeded"

\* comment of the inline runner: races of claims are safe, so a job it holds under a fresh lock
\* is not handed to a worker.
InlineLockHeld ==
    [][\A j \in Jobs :
          job[j].status = "running" /\ job[j].owner = InlineId /\ job[j].lock = "fresh"
              => job'[j].owner \notin Workers]_vars

\* What a finalized job is to the rest of the system: tries and an outcome.  As long as leases
\* are kept, the lease workers give every job the life cycle of TaskLifecycle, though they write
\* failures, retries and cancellations by job id.
Lifecycle == INSTANCE TaskLifecycle WITH
                Tasks <- Jobs,
                Outcomes <- Settled,
                tries <- [j \in Jobs |-> job[j].attempt],
                outcome <- [j \in Jobs |-> IF job[j].status \in Settled THEN job[j].status
                                            ELSE "none"]
ImplementsLifecycle == Lifecycle!Spec

\* What happens to the reservations of jobs is what UsageReservations offers for them.
Reservation == INSTANCE ReservationLifecycle WITH
                  Ids <- Jobs, status <- resv, billed <- {j \in Jobs : resv[j] = "consumed"}
ImplementsReservation == Reservation!Spec
=============================================================================
