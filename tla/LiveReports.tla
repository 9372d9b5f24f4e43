----------------------------- MODULE LiveReports -----------------------------
(***************************************************************************)
(* A live task and the reports made of it: streamers and staff who start,  *)
(* stop and cancel the task, submit a report by hand or a screenshot for   *)
(* OCR, confirm what was read and review it.  Every call of the service    *)
(* reads rows and later writes them by id, so each request is a walk       *)
(* through its awaits with what it has read; enqueue_ocr_job alone locks   *)
(* the rows it checks.                                                     *)
(*                                                                         *)
(* Tasks share no row, so there is one.  What a report measures is left    *)
(* out, but for the trigger that freezes it, which makes a confirmation    *)
(* with other evidence raise.  OcrJobs models the job behind a screenshot. *)
(***************************************************************************)
EXTENDS Naturals, FiniteSets

CONSTANTS Requests,   \* requests under way at a time
          Reports,    \* ids of the reports ever made of the task
          NoReport,
          MaxBreaks   \* bound on the requests that end early

ASSUME LiveAssumption ==
    /\ NoReport \notin Reports
    /\ MaxBreaks \in Nat

VARIABLES task,    \* live_tasks: status, and whether a positive duration was recorded
          report,  \* live_reports, with their ocr_results
          req,     \* the step each request is at and what it has read
          breaks,  \* how many requests ended early
          calm     \* no two requests have overlapped and none has ended early

vars == <<task, report, req, breaks, calm>>

TaskStatus == {"pending_live", "live", "pending_report", "report_pending_review",
               "report_approved", "completed", "report_rejected", "cancelled", "abnormal"}
ReportStatus == {"ocr_ing", "pending_review", "approved", "rejected", "need_more", "voided"}
Decision == {"approved", "rejected", "need_more"}

\* assertLiveTaskTransition.
Targets == [s \in TaskStatus |->
    CASE s = "pending_live" -> {"live", "cancelled", "abnormal"}
      [] s = "live" -> {"pending_report", "cancelled", "abnormal"}
      [] s = "pending_report" -> {"report_pending_review", "cancelled", "abnormal"}
      [] s = "report_pending_review" -> {"report_approved", "report_rejected", "abnormal"}
      [] s = "report_approved" -> {"completed"}
      [] s = "report_rejected" -> {"pending_report", "report_pending_review", "cancelled"}
      [] s = "abnormal" -> {"pending_live", "live", "pending_report", "cancelled"}
      [] OTHER -> {}]
Allowed(from, to) == from = to \/ to \in Targets[from]

Submittable == {"pending_report", "report_rejected"}
\* SUPERSEDABLE_REPORT_STATUSES, without the two statuses that nothing writes.
Supersedable == {"ocr_ing", "pending_review"}

NoRow == [status |-> "none", job |-> FALSE, reviewed |-> FALSE]
ReportRow == [status : ReportStatus, job : BOOLEAN, reviewed : BOOLEAN]

Ops == {"start", "stop", "cancel", "resolve", "manual", "ocr", "confirm", "review"}
Steps == {"move", "list", "insert", "advance", "enqueue", "supersede", "void",
          "confirm_task", "confirm", "review_task", "decide", "approve", "complete", "reject"}
Idle == [step |-> "idle"]
Walk == [step : Steps, op : Ops, saw : TaskStatus \cup {"unread"},
         to : TaskStatus \cup Decision \cup {"none"},
         rep : Reports \cup {NoReport}, prior : SUBSET Reports]

\* createLiveTask.
Init ==
    /\ task = [status |-> "pending_live", timed |-> FALSE]
    /\ report = [r \in Reports |-> NoRow]
    /\ req = [q \in Requests |-> Idle]
    /\ breaks = 0
    /\ calm = TRUE

At(q, s) == req[q].step = s
Go(q, s) == req' = [req EXCEPT ![q].step = s]
End(q) == req' = [req EXCEPT ![q] = Idle]
Begin(q, s, op, to, r) ==
    /\ At(q, "idle")
    /\ req' = [req EXCEPT ![q] = [step |-> s, op |-> op, saw |-> "unread", to |-> to,
                                  rep |-> r, prior |-> {}]]
    /\ calm' = (calm /\ \A p \in Requests : At(p, "idle"))
SetStatus(r, s) == report' = [report EXCEPT ![r].status = s]
SetTask(s) == task' = [task EXCEPT !.status = s]

(***************************************************************************)
(* Moves of the task: read, assert the transition, write by id             *)
(***************************************************************************)
Goal == [start |-> "live", stop |-> "pending_report", cancel |-> "cancelled"]

\* startLiveTask, stopLiveTask and cancelLiveTask up to their write ...
ReadToMove(q, op) ==
    /\ Allowed(task.status, Goal[op])
    /\ Begin(q, "move", op, Goal[op], NoReport)
    /\ UNCHANGED <<task, report, breaks>>

\* ... and resolveLiveTaskAnomaly, which writes the status it read back.
ReadToResolve(q) ==
    /\ Begin(q, "move", "resolve",
             IF task.status = "abnormal" THEN "pending_report" ELSE task.status, NoReport)
    /\ UNCHANGED <<task, report, breaks>>

\* A start clears the duration, a stop records it in whole minutes, which may be none.
Move(q) ==
    /\ At(q, "move")
    /\ \E timed \in BOOLEAN :
        /\ req[q].op = "start" => ~ timed
        /\ req[q].op \in {"cancel", "resolve"} => timed = task.timed
        /\ task' = [status |-> req[q].to, timed |-> timed]
    /\ End(q)
    /\ UNCHANGED <<report, breaks, calm>>

(***************************************************************************)
(* Submission                                                              *)
(***************************************************************************)
\* submitLiveReport reads the task ...
ReadToSubmit(q) ==
    /\ task.status \in Submittable
    /\ Begin(q, "insert", "manual", "none", NoReport)
    /\ UNCHANGED <<task, report, breaks>>

\* ... submitLiveReportScreenshotForOcr wants a recorded duration ...
ReadToUpload(q) ==
    /\ task.status \in Submittable
    /\ task.timed
    /\ Begin(q, "list", "ocr", "none", NoReport)
    /\ UNCHANGED <<task, report, breaks>>

\* Faulty variant of ListPriors: the open reports are voided before a replacement is queued.
VoidPriors(q) ==
    /\ At(q, "list")
    /\ Go(q, "insert")
    /\ report' = [r \in Reports |-> IF report[r].status \in Supersedable
                                    THEN [report[r] EXCEPT !.status = "voided"]
                                    ELSE report[r]]
    /\ UNCHANGED <<task, breaks, calm>>

\* ... and, once the screenshot is known to be new, lists the reports it will supersede.
ListPriors(q) ==
    /\ At(q, "list")
    /\ req' = [req EXCEPT ![q] = [@ EXCEPT !.step = "insert",
                  !.prior = {r \in Reports : report[r].status \in Supersedable}]]
    /\ UNCHANGED <<task, report, breaks, calm>>

\* createLiveReport: with its claims by hand, or waiting for OCR.
Insert(q, r) ==
    /\ At(q, "insert")
    /\ report[r] = NoRow
    /\ SetStatus(r, IF req[q].op = "ocr" THEN "ocr_ing" ELSE "pending_review")
    /\ req' = [req EXCEPT ![q] = [@ EXCEPT !.rep = r,
                  !.step = IF req[q].op = "ocr" THEN "enqueue" ELSE "advance"]]
    /\ UNCHANGED <<task, breaks, calm>>

\* Faulty variant of Advance: the report's status is written to the task.
AdvanceMisnamed(q) ==
    /\ At(q, "advance")
    /\ SetTask("pending_review")
    /\ End(q)
    /\ UNCHANGED <<report, breaks, calm>>

\* The task is written by id, for submitLiveReport and for a confirmation of need_more.
Advance(q) ==
    /\ At(q, "advance")
    /\ SetTask("report_pending_review")
    /\ End(q)
    /\ UNCHANGED <<report, breaks, calm>>

\* enqueue_ocr_job: one transaction that locks report and task, queues the job, archives what
\* was sent back and takes the task into review.
Queue(q) ==
    LET r == req[q].rep IN
    /\ report[r].status = "ocr_ing"
    /\ task.status \in Submittable
    /\ report' = [s \in Reports |->
          IF s = r THEN [report[s] EXCEPT !.job = TRUE]
          ELSE IF report[s].status \in {"rejected", "need_more"}
               THEN [report[s] EXCEPT !.status = "voided"]
               ELSE report[s]]
    /\ SetTask("report_pending_review")

Enqueue(q) ==
    /\ At(q, "enqueue")
    /\ Queue(q)
    /\ Go(q, "supersede")
    /\ UNCHANGED <<breaks, calm>>

\* The transaction commits and its answer is lost: the caller takes it for refused.
EnqueueUnheard(q) ==
    /\ At(q, "enqueue")
    /\ breaks < MaxBreaks
    /\ Queue(q)
    /\ Go(q, "void")
    /\ breaks' = breaks + 1
    /\ calm' = FALSE

\* No quota, a screenshot that cannot be stored, a task taken by another, or a failed call.
Refuse(q) ==
    /\ At(q, "enqueue")
    /\ Go(q, "void")
    /\ UNCHANGED <<task, report, breaks, calm>>

\* Faulty variant of Void: the task goes into review all the same.
VoidAndAdvance(q) ==
    /\ At(q, "void")
    /\ SetStatus(req[q].rep, "voided")
    /\ SetTask("report_pending_review")
    /\ End(q)
    /\ UNCHANGED <<breaks, calm>>

\* What was not queued is voided, by id, and the task stays as it is.
Void(q) ==
    /\ At(q, "void")
    /\ SetStatus(req[q].rep, "voided")
    /\ End(q)
    /\ UNCHANGED <<task, breaks, calm>>

\* Faulty variant of Supersede: the task is written a second time at the end.
SupersedeAndAdvance(q) ==
    /\ At(q, "supersede")
    /\ IF req[q].prior = {}
       THEN SetTask("report_pending_review") /\ End(q) /\ UNCHANGED report
       ELSE \E r \in req[q].prior :
              /\ SetStatus(r, "voided")
              /\ req' = [req EXCEPT ![q].prior = @ \ {r}]
              /\ UNCHANGED task
    /\ UNCHANGED <<breaks, calm>>

\* The reports that were open when the submission listed them are voided one by one, by id.
Supersede(q) ==
    /\ At(q, "supersede")
    /\ IF req[q].prior = {}
       THEN End(q) /\ UNCHANGED report
       ELSE \E r \in req[q].prior :
              /\ SetStatus(r, "voided")
              /\ req' = [req EXCEPT ![q].prior = @ \ {r}]
    /\ UNCHANGED <<task, breaks, calm>>

(***************************************************************************)
(* OCR results and their confirmation                                      *)
(***************************************************************************)
\* A finished job or a clerk's confirm_ocr_job_metrics hands the report to the reviewers, in
\* one guarded update or one transaction.
OcrConfirms(r) ==
    /\ report[r].job
    /\ report[r].status = "ocr_ing"
    /\ SetStatus(r, "pending_review")
    /\ UNCHANGED <<task, req, breaks, calm>>

\* confirmLiveReportOcrResult reads the report ...
ReadToConfirm(q, r) ==
    /\ report[r].status \in {"ocr_ing", "need_more"}
    /\ Begin(q, IF report[r].status = "need_more" THEN "confirm_task" ELSE "confirm",
             "confirm", "none", r)
    /\ UNCHANGED <<task, report, breaks>>

\* Faulty variant of ConfirmReadTask: the task is read and not asserted.
ConfirmAnyTask(q) ==
    /\ At(q, "confirm_task")
    /\ req' = [req EXCEPT ![q] = [@ EXCEPT !.step = "confirm", !.saw = task.status,
                                           !.to = "need_more"]]
    /\ UNCHANGED <<task, report, breaks, calm>>

\* ... and, of a report that was sent back, its task ...
ConfirmReadTask(q) ==
    /\ At(q, "confirm_task")
    /\ IF Allowed(task.status, "report_pending_review")
       THEN req' = [req EXCEPT ![q] = [@ EXCEPT !.step = "confirm", !.saw = task.status,
                                                !.to = "need_more"]]
       ELSE End(q)
    /\ UNCHANGED <<task, report, breaks, calm>>

\* ... writes the report by id, and then the task if it was elsewhere.  The write raises when
\* the evidence comes out otherwise (live_reports_freeze_evidence_snapshot).
Confirm(q) ==
    /\ At(q, "confirm")
    /\ \/ /\ SetStatus(req[q].rep, "pending_review")
          /\ IF req[q].to = "need_more" /\ req[q].saw # "report_pending_review"
             THEN Go(q, "advance")
             ELSE End(q)
       \/ End(q) /\ UNCHANGED report
    /\ UNCHANGED <<task, breaks, calm>>

(***************************************************************************)
(* Review                                                                  *)
(***************************************************************************)
\* reviewLiveReport, by staff or by the automatic review, reads the report ...
ReadToReview(q, r, d) ==
    /\ report[r].status \in {"pending_review", "need_more"}
    /\ Begin(q, "review_task", "review", d, r)
    /\ UNCHANGED <<task, report, breaks>>

\* ... and its task ...
ReviewReadTask(q) ==
    /\ At(q, "review_task")
    /\ req' = [req EXCEPT ![q] = [@ EXCEPT !.step = "decide", !.saw = task.status]]
    /\ UNCHANGED <<task, report, breaks, calm>>

TaskStep(q) == IF req[q].to = "approved" THEN "approve" ELSE "reject"
Verdict(q) == IF req[q].to = "approved" THEN "report_approved" ELSE "report_rejected"

\* Faulty variant of Decide: the report is left to be written when the task has been.
DecideLater(q) ==
    /\ At(q, "decide")
    /\ Go(q, TaskStep(q))
    /\ UNCHANGED <<task, report, breaks, calm>>

\* ... writes the decision by id, and only then asserts that the task it read may follow.
Decide(q) ==
    /\ At(q, "decide")
    /\ report' = [report EXCEPT ![req[q].rep] = [@ EXCEPT !.status = req[q].to,
                                                          !.reviewed = TRUE]]
    /\ IF Allowed(req[q].saw, Verdict(q)) THEN Go(q, TaskStep(q)) ELSE End(q)
    /\ UNCHANGED <<task, breaks, calm>>

ApproveTask(q) ==
    /\ At(q, "approve")
    /\ SetTask("report_approved")
    /\ Go(q, "complete")
    /\ UNCHANGED <<report, breaks, calm>>

CompleteTask(q) ==
    /\ At(q, "complete")
    /\ SetTask("completed")
    /\ End(q)
    /\ UNCHANGED <<report, breaks, calm>>

RejectTask(q) ==
    /\ At(q, "reject")
    /\ SetTask("report_rejected")
    /\ End(q)
    /\ UNCHANGED <<report, breaks, calm>>

\* The process dies, or a call between two writes throws.
Break(q) ==
    /\ ~ At(q, "idle")
    /\ breaks < MaxBreaks
    /\ End(q)
    /\ breaks' = breaks + 1
    /\ calm' = FALSE
    /\ UNCHANGED <<task, report>>

Next ==
    \/ \E q \in Requests :
        \/ \E op \in DOMAIN Goal : ReadToMove(q, op)
        \/ ReadToResolve(q) \/ Move(q)
        \/ ReadToSubmit(q) \/ ReadToUpload(q) \/ ListPriors(q) \/ Advance(q)
        \/ Enqueue(q) \/ EnqueueUnheard(q) \/ Refuse(q) \/ Void(q) \/ Supersede(q)
        \/ ConfirmReadTask(q) \/ Confirm(q)
        \/ ReviewReadTask(q) \/ Decide(q)
        \/ ApproveTask(q) \/ CompleteTask(q) \/ RejectTask(q)
        \/ Break(q)
        \/ \E r \in Reports :
            \/ Insert(q, r) \/ ReadToConfirm(q, r)
            \/ \E d \in Decision : ReadToReview(q, r, d)
    \/ \E r \in Reports : OcrConfirms(r)

Spec == Init /\ [][Next]_vars

(***************************************************************************)
(* Properties                                                              *)
(***************************************************************************)
TypeOK ==
    /\ task \in [status : TaskStatus, timed : BOOLEAN]
    /\ report \in [Reports -> ReportRow \cup {NoRow}]
    /\ req \in [Requests -> Walk \cup {Idle}]
    /\ breaks \in 0 .. MaxBreaks
    /\ calm \in BOOLEAN

Quiet == \A q \in Requests : At(q, "idle")

\* A task is approved, completed or rejected only when a reviewer has decided a report of it,
\* whatever overlaps and wherever a request ends: the decision is written before the task
\* (reviewLiveReport).
DecisionsReviewed ==
    task.status \in {"report_approved", "completed", "report_rejected"} =>
        \E r \in Reports : report[r].reviewed

\* As long as requests come one at a time and end, a task under review has a report that
\* waits for its reviewer: no sequence of submissions, confirmations and reviews, and no
\* refused OCR job, leaves it there with nothing to review.
ReviewHasReport ==
    calm /\ Quiet /\ task.status = "report_pending_review" =>
        \E r \in Reports : report[r].status \in Supersedable

\* As long as requests come one at a time and end, a completed or cancelled task stays what it
\* is: a report left behind can still be confirmed or reviewed, and the task asserts.
FinishedStays ==
    [][calm' /\ task.status \in {"completed", "cancelled"} => task'.status = task.status]_vars

\* A report is voided by its own failed submission, or for another report of the task that
\* has its OCR job (submitLiveReportScreenshotForOcr supersedes after the job is queued).
SupersededHasSuccessor ==
    [][\A r \in Reports :
          report[r].status # "voided" /\ report'[r].status = "voided" =>
              \/ \E q \in Requests : At(q, "void") /\ req[q].rep = r
              \/ \E s \in Reports \ {r} : report'[s].job]_vars

\* An OCR submission takes a task into review from where a report may be submitted and from
\* nowhere else, however long ago it read the task: enqueue_ocr_job checks under its lock and
\* the service writes the task no second time.
OcrLeavesTask ==
    [][\A q \in Requests :
          ~ At(q, "idle") /\ req[q] # req'[q] /\ req[q].op = "ocr" /\ task # task' =>
              task.status \in Submittable]_vars

\* Once its requests have ended, a task with an approved report is completed, as the table of
\* review decisions has it.  The code decides the report first and asserts the task after: a
\* report that was sent back and is then approved leaves its task rejected.
ApprovedCompletes ==
    Quiet /\ (\E r \in Reports : report[r].status = "approved") => task.status = "completed"

=============================================================================
