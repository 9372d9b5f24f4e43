-------------------------- MODULE LiveReportsProofs --------------------------
(***************************************************************************)
(* Proofs about LiveReports, for any requests and reports.                 *)
(*                                                                         *)
(* A review is never undone, a job never taken back, so what a request has *)
(* brought about it can rely on: that is ReqInv.  What a request has read  *)
(* it can rely on only as long as requests come one at a time and end:     *)
(* that is CalmInv, of the one request that is under way then.             *)
(***************************************************************************)
EXTENDS LiveReports, TLAPS

Decided == {"report_approved", "completed", "report_rejected"}
Finished == {"completed", "cancelled"}
SomeReviewed == \E r \in Reports : report[r].reviewed
\* A report waits for its reviewer, or for the OCR job before.
Waiting == \E r \in Reports : report[r].status \in Supersedable
InReview == task.status = "report_pending_review"

OcrSteps == {"list", "insert", "enqueue", "supersede", "void"}
ReportSteps == {"enqueue", "supersede", "void", "confirm_task", "confirm", "review_task", "decide"}
ReviewSteps == {"review_task", "decide", "approve", "complete", "reject"}

\* A screenshot's report before its job is queued.
Uploaded == [status |-> "ocr_ing", job |-> FALSE, reviewed |-> FALSE]

\* What a request has brought about, or asserted of what it writes.
ReqInv(q) ==
    /\ req[q].step # "idle" /\ req[q].op = "ocr" => req[q].step \in OcrSteps
    /\ req[q].step \in ReportSteps => req[q].rep \in Reports
    /\ req[q].step \in {"insert", "enqueue", "supersede"} =>
           \A r \in req[q].prior : report[r] # NoRow
    /\ req[q].step \in {"enqueue", "supersede"} => req[q].rep \notin req[q].prior
    /\ req[q].step = "supersede" => report[req[q].rep].job
    /\ req[q].step = "move" => req[q].to \in TaskStatus
    /\ req[q].step = "move" /\ req[q].to \in Decided => SomeReviewed
    /\ req[q].step \in ReviewSteps => req[q].to \in Decision
    /\ req[q].step \in {"approve", "complete", "reject"} => SomeReviewed

\* What the only request under way may still rely on.
CalmInv(q) ==
    /\ req[q].step = "move" =>
           /\ task.status \in Finished => req[q].to = task.status
           /\ req[q].to = "report_pending_review" => InReview
    /\ req[q].step \in {"list", "insert", "enqueue", "void"} => task.status \in Submittable
    /\ req[q].step = "enqueue" => report[req[q].rep] = Uploaded
    /\ req[q].step = "supersede" => report[req[q].rep].status \in Supersedable
    /\ req[q].step = "advance" => Waiting /\ task.status \notin Finished
    /\ req[q].step = "confirm" /\ req[q].to = "need_more" =>
           req[q].saw = task.status /\ Allowed(task.status, "report_pending_review")
    /\ req[q].step \in {"decide", "approve", "reject"} => req[q].saw = task.status
    /\ req[q].step = "approve" => Allowed(task.status, "report_approved")
    /\ req[q].step = "reject" => Allowed(task.status, "report_rejected")
    /\ req[q].step = "complete" => task.status = "report_approved"
    /\ req[q].step \in {"move", "confirm_task", "confirm", "review_task", "decide"} =>
           (InReview => Waiting)

ReqsInv == \A q \in Requests : ReqInv(q)
CalmsInv ==
    calm => /\ \A p, q \in Requests : p # q => At(p, "idle") \/ At(q, "idle")
            /\ \A q \in Requests : CalmInv(q)
            /\ Quiet /\ InReview => Waiting

IInv == TypeOK /\ ReqsInv /\ DecisionsReviewed /\ CalmsInv

LEMMA InitIInv == Init => IInv
<1> SUFFICES ASSUME Init PROVE IInv
  OBVIOUS
<1>1. TypeOK
  BY LiveAssumption DEF Init, TypeOK, TaskStatus
<1>2. ReqsInv /\ DecisionsReviewed /\ CalmsInv
  BY DEF Init, ReqsInv, ReqInv, DecisionsReviewed, CalmsInv, CalmInv, Idle, At, Quiet, InReview,
         ReportSteps, ReviewSteps
<1> QED  BY <1>1, <1>2 DEF IInv

(***************************************************************************)
(* What a step does to the record of its request and to the reports        *)
(***************************************************************************)
OnlyReq(q) == /\ req' \in [Requests -> Walk \cup {Idle}]
              /\ \A p \in Requests \ {q} : req'[p] = req[p]
\* No row is forgotten, no job taken back, no review undone.
ReportsGrow ==
    /\ report' \in [Reports -> ReportRow \cup {NoRow}]
    /\ \A r \in Reports : /\ report[r] # NoRow => report'[r] # NoRow
                          /\ report[r].job => report'[r].job
                          /\ report[r].reviewed => report'[r].reviewed

LEMMA Busy ==
  ASSUME TypeOK, NEW q \in Requests, req[q].step # "idle"
  PROVE  req[q] \in Walk
  BY DEF TypeOK, Idle, Walk

LEMMA EndMoves ==
  ASSUME TypeOK, NEW q \in Requests, End(q)
  PROVE  OnlyReq(q) /\ req'[q].step = "idle"
  BY DEF TypeOK, End, OnlyReq, Idle

LEMMA GoMoves ==
  ASSUME TypeOK, NEW q \in Requests, req[q].step # "idle", NEW s \in Steps, Go(q, s)
  PROVE  /\ OnlyReq(q)
         /\ req'[q] = [step |-> s, op |-> req[q].op, saw |-> req[q].saw, to |-> req[q].to,
                       rep |-> req[q].rep, prior |-> req[q].prior]
<1>1. req[q] \in Walk
  BY Busy
<1>2. [req[q] EXCEPT !.step = s] \in Walk
  BY <1>1 DEF Walk
<1>3. req' = [req EXCEPT ![q] = [req[q] EXCEPT !.step = s]]
  BY DEF Go
<1>4. req'[q] = [req[q] EXCEPT !.step = s]
  BY <1>3 DEF TypeOK
<1> QED  BY <1>1, <1>2, <1>3, <1>4 DEF TypeOK, OnlyReq, Walk

LEMMA PutMoves ==
  ASSUME TypeOK, NEW q \in Requests, NEW x \in Walk, req' = [req EXCEPT ![q] = x]
  PROVE  OnlyReq(q) /\ req'[q] = x
  BY DEF TypeOK, OnlyReq

LEMMA BeginMoves ==
  ASSUME TypeOK, NEW q \in Requests, NEW s \in Steps, NEW op \in Ops,
         NEW to \in TaskStatus \cup Decision \cup {"none"}, NEW r \in Reports \cup {NoReport},
         Begin(q, s, op, to, r)
  PROVE  /\ OnlyReq(q)
         /\ req'[q] = [step |-> s, op |-> op, saw |-> "unread", to |-> to, rep |-> r, prior |-> {}]
         /\ req[q].step = "idle"
         /\ calm' => calm /\ Quiet
         /\ calm' \in BOOLEAN
  BY DEF TypeOK, Begin, OnlyReq, Walk, At, Quiet

\* The status of one report is written.
LEMMA StatusSet ==
  ASSUME TypeOK, NEW r \in Reports, NEW s \in ReportStatus, SetStatus(r, s)
  PROVE  /\ ReportsGrow
         /\ report'[r] = [status |-> s, job |-> report[r].job, reviewed |-> report[r].reviewed]
         /\ \A p \in Reports \ {r} : report'[p] = report[p]
<1>1. report[r] \in ReportRow \cup {NoRow}
  BY DEF TypeOK
<1> DEFINE row == [status |-> s, job |-> report[r].job, reviewed |-> report[r].reviewed]
<1>2. [report[r] EXCEPT !.status = s] = row
  BY <1>1 DEF ReportRow, NoRow
<1>3. row \in ReportRow /\ row # NoRow
  <2>1. report[r].job \in BOOLEAN /\ report[r].reviewed \in BOOLEAN
    <3>1. CASE report[r] \in ReportRow
      BY <3>1 DEF ReportRow
    <3>2. CASE report[r] = NoRow
      BY <3>2 DEF NoRow
    <3> QED  BY <1>1, <3>1, <3>2
  <2>2. row \in ReportRow
    BY <2>1 DEF ReportRow
  <2>3. row.status # NoRow.status
    BY DEF NoRow, ReportStatus
  <2> QED  BY <2>2, <2>3
<1>4. report' = [report EXCEPT ![r] = row]
  BY <1>2 DEF SetStatus
<1>5. report'[r] = row /\ \A p \in Reports \ {r} : report'[p] = report[p]
  BY <1>4 DEF TypeOK
<1>6. row.job = report[r].job /\ row.reviewed = report[r].reviewed
  OBVIOUS
<1> HIDE DEF row
<1>7. report' \in [Reports -> ReportRow \cup {NoRow}]
  BY <1>3, <1>4 DEF TypeOK
<1>8. ReportsGrow
  BY <1>3, <1>5, <1>6, <1>7 DEF ReportsGrow
<1> QED  BY <1>5, <1>8 DEF row

LEMMA ReportsSame ==
  ASSUME TypeOK, report' = report
  PROVE  ReportsGrow
  BY DEF TypeOK, ReportsGrow

LEMMA TaskSet ==
  ASSUME TypeOK, NEW s \in TaskStatus, SetTask(s)
  PROVE  task' \in [status : TaskStatus, timed : BOOLEAN] /\ task'.status = s
  BY DEF TypeOK, SetTask

(***************************************************************************)
(* The parts of the invariant put together                                 *)
(***************************************************************************)
LEMMA ReviewedStays ==
  ASSUME ReportsGrow, SomeReviewed
  PROVE  SomeReviewed'
  BY DEF ReportsGrow, SomeReviewed

LEMMA ReqKept ==
  ASSUME TypeOK, ReqsInv, NEW p \in Requests, req'[p] = req[p], ReportsGrow
  PROVE  ReqInv(p)'
<1>1. ReqInv(p)
  BY DEF ReqsInv
<1>2. SomeReviewed => SomeReviewed'
  BY ReviewedStays
<1>3. CASE req[p].step = "idle"
  BY <1>1, <1>3 DEF ReqInv, ReportSteps, ReviewSteps
<1>4. CASE req[p].step # "idle"
  <2>1. req[p] \in Walk
    BY <1>4, Busy
  <2>2. req[p].prior \subseteq Reports
    BY <2>1 DEF Walk
  <2>3. req[p].step = "supersede" => report'[req[p].rep].job
    BY <1>1 DEF ReqInv, ReportSteps, ReportsGrow
  <2>4. req[p].step \in {"insert", "enqueue", "supersede"} =>
            \A r \in req[p].prior : report'[r] # NoRow
    BY <1>1, <2>2 DEF ReqInv, ReportsGrow
  <2> QED  BY <1>1, <1>2, <2>3, <2>4 DEF ReqInv
<1> QED  BY <1>3, <1>4

LEMMA ReqsKept ==
  ASSUME TypeOK, ReqsInv, NEW q \in Requests, OnlyReq(q), ReportsGrow, ReqInv(q)'
  PROVE  ReqsInv'
  BY ReqKept DEF ReqsInv, OnlyReq

LEMMA Together ==
  ASSUME IInv, NEW q \in Requests, OnlyReq(q), ReportsGrow,
         task' \in [status : TaskStatus, timed : BOOLEAN],
         breaks' \in 0 .. MaxBreaks, calm' \in BOOLEAN,
         ReqInv(q)',
         task'.status \in Decided => SomeReviewed',
         calm' => calm /\ (req[q].step # "idle" \/ Quiet),
         calm' => CalmInv(q)',
         calm' /\ req'[q].step = "idle" /\ InReview' => Waiting'
  PROVE  IInv'
<1>1. TypeOK'
  BY DEF TypeOK, OnlyReq, ReportsGrow
<1>2. ReqsInv'
  BY ReqsKept DEF IInv
<1>3. DecisionsReviewed'
  BY DEF DecisionsReviewed, Decided, SomeReviewed
<1>4. CalmsInv'
  <2> SUFFICES ASSUME calm'
               PROVE  /\ \A p, s \in Requests : p # s => At(p, "idle")' \/ At(s, "idle")'
                      /\ \A p \in Requests : CalmInv(p)'
                      /\ Quiet' /\ InReview' => Waiting'
    BY DEF CalmsInv
  <2>1. \A p \in Requests \ {q} : req'[p] = req[p] /\ req[p].step = "idle"
    BY DEF IInv, CalmsInv, At, OnlyReq, Quiet
  <2>2. \A p \in Requests \ {q} : CalmInv(p)'
    BY <2>1 DEF CalmInv
  <2>3. Quiet' => req'[q].step = "idle"
    BY DEF Quiet, At
  <2> QED  BY <2>1, <2>2, <2>3 DEF At
<1> QED  BY <1>1, <1>2, <1>3, <1>4 DEF IInv

(***************************************************************************)
(* Moves of the task                                                       *)
(***************************************************************************)
LEMMA ReadToMoveStep ==
  ASSUME IInv, NEW q \in Requests, NEW op \in DOMAIN Goal, ReadToMove(q, op)
  PROVE  IInv'
<1>1. op \in {"start", "stop", "cancel"} /\ Goal[op] \in {"live", "pending_report", "cancelled"}
  BY DEF Goal
<1>2. /\ OnlyReq(q) /\ req[q].step = "idle" /\ (calm' => calm /\ Quiet) /\ calm' \in BOOLEAN
      /\ req'[q] = [step |-> "move", op |-> op, saw |-> "unread", to |-> Goal[op],
                    rep |-> NoReport, prior |-> {}]
  <2>1. TypeOK /\ Begin(q, "move", op, Goal[op], NoReport)
    BY DEF ReadToMove, IInv
  <2>2. "move" \in Steps /\ op \in Ops /\ Goal[op] \in TaskStatus
    BY <1>1 DEF Steps, Ops, TaskStatus
  <2> QED  BY <2>1, <2>2, BeginMoves
<1>3. ReportsGrow
  BY ReportsSame DEF ReadToMove, IInv
<1>4. ReqInv(q)'
  BY <1>1, <1>2 DEF ReqInv, ReportSteps, ReviewSteps, TaskStatus, Decided
<1>5. calm' => CalmInv(q)'
  <2> SUFFICES ASSUME calm' PROVE CalmInv(q)'
    OBVIOUS
  <2>1. task' = task /\ report' = report /\ (InReview => Waiting)
    BY <1>2 DEF ReadToMove, IInv, CalmsInv
  <2>2. task.status \in Finished => Goal[op] = task.status
    BY DEF ReadToMove, Allowed, Targets, Finished, TaskStatus
  <2> QED  BY <1>1, <1>2, <2>1, <2>2 DEF CalmInv, InReview, Waiting
<1> QED
  BY <1>2, <1>3, <1>4, <1>5, Together
  DEF ReadToMove, IInv, TypeOK, DecisionsReviewed, Decided, SomeReviewed

LEMMA ReadToResolveStep ==
  ASSUME IInv, NEW q \in Requests, ReadToResolve(q)
  PROVE  IInv'
<1> DEFINE to == IF task.status = "abnormal" THEN "pending_report" ELSE task.status
<1>1. to \in TaskStatus
  BY DEF IInv, TypeOK, TaskStatus
<1>2. /\ OnlyReq(q) /\ req[q].step = "idle" /\ (calm' => calm /\ Quiet) /\ calm' \in BOOLEAN
      /\ req'[q] = [step |-> "move", op |-> "resolve", saw |-> "unread", to |-> to,
                    rep |-> NoReport, prior |-> {}]
  <2>1. TypeOK /\ Begin(q, "move", "resolve", to, NoReport)
    BY DEF ReadToResolve, IInv
  <2>2. "move" \in Steps /\ "resolve" \in Ops
    BY DEF Steps, Ops
  <2> HIDE DEF to
  <2> QED  BY <1>1, <2>1, <2>2, BeginMoves
<1>3. ReportsGrow /\ task' = task /\ report' = report
  BY ReportsSame DEF ReadToResolve, IInv
<1>4. ReqInv(q)'
  BY <1>1, <1>2, <1>3
  DEF ReqInv, ReportSteps, ReviewSteps, Decided, SomeReviewed, IInv, DecisionsReviewed
<1>5. calm' => CalmInv(q)'
  <2> SUFFICES ASSUME calm' PROVE CalmInv(q)'
    OBVIOUS
  <2>1. InReview => Waiting
    BY <1>2 DEF IInv, CalmsInv
  <2> QED  BY <1>2, <1>3, <2>1 DEF CalmInv, InReview, Waiting, Finished
<1> QED
  BY <1>2, <1>3, <1>4, <1>5, Together
  DEF ReadToResolve, IInv, TypeOK, DecisionsReviewed, Decided, SomeReviewed

LEMMA MoveStep ==
  ASSUME IInv, NEW q \in Requests, Move(q)
  PROVE  IInv'
<1>1. req[q].step = "move" /\ req[q].to \in TaskStatus /\ ReqInv(q)
  BY DEF Move, At, IInv, ReqsInv, ReqInv
<1>2. task' \in [status : TaskStatus, timed : BOOLEAN] /\ task'.status = req[q].to
  BY <1>1 DEF Move
<1>3. OnlyReq(q) /\ req'[q].step = "idle"
  BY EndMoves DEF Move, IInv
<1>4. ReportsGrow /\ report' = report /\ breaks' = breaks /\ calm' = calm
  BY ReportsSame DEF Move, IInv
<1>5. ReqInv(q)' /\ CalmInv(q)'
  BY <1>3 DEF ReqInv, CalmInv, ReportSteps, ReviewSteps
<1>6. task'.status \in Decided => SomeReviewed'
  BY <1>1, <1>2, <1>4 DEF ReqInv, SomeReviewed
<1>7. calm' /\ InReview' => Waiting'
  BY <1>1, <1>2, <1>4 DEF IInv, CalmsInv, CalmInv, InReview, Waiting
<1> QED
  BY <1>1, <1>2, <1>3, <1>4, <1>5, <1>6, <1>7, Together DEF IInv, TypeOK

(***************************************************************************)
(* Submission                                                              *)
(***************************************************************************)
LEMMA ReadToSubmitStep ==
  ASSUME IInv, NEW q \in Requests, ReadToSubmit(q)
  PROVE  IInv'
<1>1. /\ OnlyReq(q) /\ req[q].step = "idle" /\ (calm' => calm /\ Quiet) /\ calm' \in BOOLEAN
      /\ req'[q] = [step |-> "insert", op |-> "manual", saw |-> "unread", to |-> "none",
                    rep |-> NoReport, prior |-> {}]
  <2>1. TypeOK /\ Begin(q, "insert", "manual", "none", NoReport)
    BY DEF ReadToSubmit, IInv
  <2>2. "insert" \in Steps /\ "manual" \in Ops
    BY DEF Steps, Ops
  <2> QED  BY <2>1, <2>2, BeginMoves
<1>2. ReportsGrow /\ task' = task /\ task.status \in Submittable
  BY ReportsSame DEF ReadToSubmit, IInv
<1>3. ReqInv(q)' /\ CalmInv(q)'
  BY <1>1, <1>2 DEF ReqInv, CalmInv, ReportSteps, ReviewSteps
<1> QED
  BY <1>1, <1>2, <1>3, Together
  DEF ReadToSubmit, IInv, TypeOK, DecisionsReviewed, Decided, SomeReviewed

LEMMA ReadToUploadStep ==
  ASSUME IInv, NEW q \in Requests, ReadToUpload(q)
  PROVE  IInv'
<1>1. /\ OnlyReq(q) /\ req[q].step = "idle" /\ (calm' => calm /\ Quiet) /\ calm' \in BOOLEAN
      /\ req'[q] = [step |-> "list", op |-> "ocr", saw |-> "unread", to |-> "none",
                    rep |-> NoReport, prior |-> {}]
  BY BeginMoves DEF ReadToUpload, IInv, Steps, Ops
<1>2. ReportsGrow /\ task' = task /\ task.status \in Submittable
  BY ReportsSame DEF ReadToUpload, IInv
<1>3. ReqInv(q)' /\ CalmInv(q)'
  BY <1>1, <1>2 DEF ReqInv, CalmInv, ReportSteps, ReviewSteps, OcrSteps
<1> QED
  BY <1>1, <1>2, <1>3, Together
  DEF ReadToUpload, IInv, TypeOK, DecisionsReviewed, Decided, SomeReviewed

LEMMA ListPriorsStep ==
  ASSUME IInv, NEW q \in Requests, ListPriors(q)
  PROVE  IInv'
<1> DEFINE open == {r \in Reports : report[r].status \in Supersedable}
           x == [req[q] EXCEPT !.step = "insert", !.prior = open]
<1>1. req[q].step = "list" /\ req[q] \in Walk
  BY Busy DEF ListPriors, At, IInv
<1>2. x \in Walk /\ x.step = "insert" /\ x.prior = open /\ x.op = req[q].op
  BY <1>1 DEF Walk, Steps
<1>3. req' = [req EXCEPT ![q] = x]
  BY DEF ListPriors
<1>4. \A r \in open : report[r] # NoRow
  BY DEF Supersedable, NoRow
<1> HIDE DEF x, open
<1>5. OnlyReq(q) /\ req'[q] = x
  BY <1>2, <1>3 DEF IInv, TypeOK, OnlyReq
<1>6. ReportsGrow /\ task' = task /\ report' = report /\ breaks' = breaks /\ calm' = calm
  BY ReportsSame DEF ListPriors, IInv
<1>7. ReqInv(q)'
  BY <1>2, <1>4, <1>5, <1>6 DEF ReqInv, ReportSteps, ReviewSteps, OcrSteps
<1>8. calm' => CalmInv(q)'
  BY <1>1, <1>2, <1>5, <1>6 DEF IInv, CalmsInv, CalmInv
<1> QED
  BY <1>1, <1>2, <1>5, <1>6, <1>7, <1>8, Together
  DEF IInv, TypeOK, DecisionsReviewed, Decided, SomeReviewed

LEMMA InsertStep ==
  ASSUME IInv, NEW q \in Requests, NEW r \in Reports, Insert(q, r)
  PROVE  IInv'
<1>1. req[q].step = "insert" /\ req[q] \in Walk /\ ReqInv(q) /\ report[r] = NoRow
  BY Busy DEF Insert, At, IInv, ReqsInv
<1> DEFINE ocr == req[q].op = "ocr"
           st == IF ocr THEN "ocr_ing" ELSE "pending_review"
           x == [req[q] EXCEPT !.rep = r, !.step = IF ocr THEN "enqueue" ELSE "advance"]
<1>2. /\ x \in Walk /\ x.step = IF ocr THEN "enqueue" ELSE "advance"
      /\ x.rep = r /\ x.prior = req[q].prior /\ x.op = req[q].op
  BY <1>1 DEF Walk, Steps
<1>3. req' = [req EXCEPT ![q] = x] /\ SetStatus(r, st)
  BY DEF Insert
<1>4. st \in ReportStatus /\ st \in Supersedable
  BY DEF ReportStatus, Supersedable
<1> HIDE DEF x
<1>5. OnlyReq(q) /\ req'[q] = x
  BY <1>2, <1>3, PutMoves DEF IInv
<1>6. ReportsGrow /\ report'[r] = [status |-> st, job |-> FALSE, reviewed |-> FALSE]
  <2>1. report[r].job = FALSE /\ report[r].reviewed = FALSE
    BY <1>1 DEF NoRow
  <2>2. TypeOK
    BY DEF IInv
  <2> HIDE DEF st
  <2>3. ReportsGrow /\ report'[r] = [status |-> st, job |-> report[r].job,
                                     reviewed |-> report[r].reviewed]
    BY <1>3, <1>4, <2>2, StatusSet
  <2> QED  BY <2>1, <2>3
<1>7. task' = task /\ breaks' = breaks /\ calm' = calm
  BY DEF Insert
<1>8. req[q].prior \subseteq Reports
  BY <1>1 DEF Walk
<1>9. ReqInv(q)'
  <2>1. \A p \in req[q].prior : report'[p] # NoRow /\ p # r
    BY <1>1, <1>6, <1>8 DEF ReqInv, ReportsGrow
  <2> QED  BY <1>2, <1>5, <2>1 DEF ReqInv, OcrSteps, ReviewSteps, ReportSteps
<1>10. calm' => CalmInv(q)'
  <2> SUFFICES ASSUME calm' PROVE CalmInv(q)'
    OBVIOUS
  <2>1. task.status \in Submittable
    BY <1>1, <1>7 DEF IInv, CalmsInv, CalmInv
  <2>2. Waiting'
    BY <1>4, <1>6 DEF Waiting
  <2>3. ocr => report'[r] = Uploaded
    BY <1>6 DEF Uploaded
  <2> QED
    BY <1>2, <1>5, <1>7, <2>1, <2>2, <2>3 DEF CalmInv, Submittable, Finished
<1>11. task.status \in Decided => SomeReviewed'
  BY <1>6, ReviewedStays DEF IInv, DecisionsReviewed, Decided, SomeReviewed
<1> QED
  BY <1>1, <1>2, <1>5, <1>6, <1>7, <1>9, <1>10, <1>11, Together DEF IInv, TypeOK

LEMMA AdvanceStep ==
  ASSUME IInv, NEW q \in Requests, Advance(q)
  PROVE  IInv'
<1>1. req[q].step = "advance" /\ OnlyReq(q) /\ req'[q].step = "idle"
  BY EndMoves DEF Advance, At, IInv
<1>2. ReportsGrow /\ report' = report /\ breaks' = breaks /\ calm' = calm
  BY ReportsSame DEF Advance, IInv
<1>3. task' \in [status : TaskStatus, timed : BOOLEAN] /\ task'.status = "report_pending_review"
  BY TaskSet DEF Advance, IInv, TaskStatus
<1>4. ReqInv(q)' /\ CalmInv(q)'
  BY <1>1 DEF ReqInv, CalmInv, ReportSteps, ReviewSteps
<1>5. calm' => Waiting'
  BY <1>1, <1>2 DEF IInv, CalmsInv, CalmInv, Waiting
<1> QED
  BY <1>1, <1>2, <1>3, <1>4, <1>5, Together DEF IInv, TypeOK, Decided

\* What enqueue_ocr_job does to the rows.
LEMMA QueueRows ==
  ASSUME IInv, NEW q \in Requests, req[q].step = "enqueue", Queue(q)
  PROVE  /\ ReportsGrow
         /\ report'[req[q].rep].job /\ report'[req[q].rep].status = "ocr_ing"
         /\ task' \in [status : TaskStatus, timed : BOOLEAN]
         /\ task'.status = "report_pending_review"
         /\ req[q].rep \in Reports
<1>1. PICK r \in Reports : r = req[q].rep
  BY DEF IInv, ReqsInv, ReqInv, ReportSteps
<1>2. report[r].status = "ocr_ing" /\ SetTask("report_pending_review")
  BY <1>1 DEF Queue
<1>3. report' = [s \in Reports |->
          IF s = r THEN [report[s] EXCEPT !.job = TRUE]
          ELSE IF report[s].status \in {"rejected", "need_more"}
               THEN [report[s] EXCEPT !.status = "voided"]
               ELSE report[s]]
  BY <1>1 DEF Queue
<1>4. \A s \in Reports : report[s] \in ReportRow \cup {NoRow}
  BY DEF IInv, TypeOK
<1>5. ASSUME NEW s \in Reports
      PROVE  /\ report'[s] \in ReportRow \cup {NoRow}
             /\ report[s] # NoRow => report'[s] # NoRow
             /\ report[s].job => report'[s].job
             /\ report[s].reviewed => report'[s].reviewed
             /\ s = r => report'[s].job /\ report'[s].status = "ocr_ing"
  <2>1. CASE s = r
    <3>1. report[s] \in ReportRow
      BY <1>2, <1>4, <2>1 DEF NoRow
    <3>2. report'[s] = [status |-> "ocr_ing", job |-> TRUE, reviewed |-> report[s].reviewed]
      BY <1>2, <1>3, <2>1, <3>1 DEF ReportRow
    <3>3. report[s].reviewed \in BOOLEAN
      BY <3>1 DEF ReportRow
    <3>4. report'[s] \in ReportRow /\ report'[s] # NoRow
      BY <3>2, <3>3 DEF ReportRow, ReportStatus, NoRow
    <3> QED  BY <3>2, <3>4
  <2>2. CASE s # r /\ report[s].status \in {"rejected", "need_more"}
    <3>1. report[s] \in ReportRow
      BY <1>4, <2>2 DEF NoRow
    <3>2. report'[s] = [status |-> "voided", job |-> report[s].job,
                        reviewed |-> report[s].reviewed]
      BY <1>3, <2>2, <3>1 DEF ReportRow
    <3> QED  BY <2>2, <3>1, <3>2 DEF ReportRow, NoRow, ReportStatus
  <2>3. CASE s # r /\ report[s].status \notin {"rejected", "need_more"}
    BY <1>3, <1>4, <2>3
  <2> QED  BY <2>1, <2>2, <2>3
<1>6. DOMAIN report' = Reports /\ report' = [s \in Reports |-> report'[s]]
  BY <1>3
<1>7. ReportsGrow
  BY <1>5, <1>6 DEF ReportsGrow
<1>8. task' \in [status : TaskStatus, timed : BOOLEAN] /\ task'.status = "report_pending_review"
  BY <1>2, TaskSet DEF IInv, TaskStatus
<1> QED  BY <1>1, <1>5, <1>7, <1>8

LEMMA EnqueueStep ==
  ASSUME IInv, NEW q \in Requests, Enqueue(q)
  PROVE  IInv'
<1>1. req[q].step = "enqueue" /\ ReqInv(q) /\ req[q] \in Walk /\ Queue(q)
  BY Busy DEF Enqueue, At, IInv, ReqsInv
<1>2. /\ OnlyReq(q)
      /\ req'[q] = [step |-> "supersede", op |-> req[q].op, saw |-> req[q].saw,
                    to |-> req[q].to, rep |-> req[q].rep, prior |-> req[q].prior]
  BY <1>1, GoMoves DEF Enqueue, IInv, Steps
<1>3. /\ ReportsGrow
      /\ report'[req[q].rep].job /\ report'[req[q].rep].status = "ocr_ing"
      /\ task' \in [status : TaskStatus, timed : BOOLEAN]
      /\ task'.status = "report_pending_review" /\ req[q].rep \in Reports
  BY <1>1, QueueRows
<1>4. breaks' = breaks /\ calm' = calm
  BY DEF Enqueue
<1>5. \A r \in req[q].prior : report'[r] # NoRow
  BY <1>1, <1>3 DEF Walk, ReqInv, ReportsGrow
<1>6. ReqInv(q)'
  BY <1>1, <1>2, <1>3, <1>5 DEF ReqInv, ReportSteps, ReviewSteps, OcrSteps
<1>7. CalmInv(q)'
  BY <1>2, <1>3 DEF CalmInv, Supersedable
<1> QED
  BY <1>1, <1>2, <1>3, <1>4, <1>6, <1>7, Together DEF IInv, TypeOK, Decided

LEMMA EnqueueUnheardStep ==
  ASSUME IInv, NEW q \in Requests, EnqueueUnheard(q)
  PROVE  IInv'
<1>1. req[q].step = "enqueue" /\ ReqInv(q) /\ Queue(q)
  BY DEF EnqueueUnheard, At, IInv, ReqsInv
<1>2. /\ OnlyReq(q)
      /\ req'[q] = [step |-> "void", op |-> req[q].op, saw |-> req[q].saw,
                    to |-> req[q].to, rep |-> req[q].rep, prior |-> req[q].prior]
  BY <1>1, GoMoves DEF EnqueueUnheard, IInv, Steps
<1>3. /\ ReportsGrow /\ req[q].rep \in Reports
      /\ task' \in [status : TaskStatus, timed : BOOLEAN]
      /\ task'.status = "report_pending_review"
  BY <1>1, QueueRows
<1>4. breaks' \in 0 .. MaxBreaks /\ calm' = FALSE
  BY LiveAssumption DEF EnqueueUnheard, IInv, TypeOK
<1>5. ReqInv(q)'
  BY <1>1, <1>2, <1>3 DEF ReqInv, ReportSteps, ReviewSteps, OcrSteps
<1> QED
  BY <1>1, <1>2, <1>3, <1>4, <1>5, Together DEF Decided

LEMMA RefuseStep ==
  ASSUME IInv, NEW q \in Requests, Refuse(q)
  PROVE  IInv'
<1>1. req[q].step = "enqueue" /\ ReqInv(q)
  BY DEF Refuse, At, IInv, ReqsInv
<1>2. /\ OnlyReq(q)
      /\ req'[q] = [step |-> "void", op |-> req[q].op, saw |-> req[q].saw,
                    to |-> req[q].to, rep |-> req[q].rep, prior |-> req[q].prior]
  BY <1>1, GoMoves DEF Refuse, IInv, Steps
<1>3. ReportsGrow /\ task' = task /\ report' = report /\ breaks' = breaks /\ calm' = calm
  BY ReportsSame DEF Refuse, IInv
<1>4. ReqInv(q)'
  BY <1>1, <1>2 DEF ReqInv, ReportSteps, ReviewSteps, OcrSteps
<1>5. calm' => CalmInv(q)'
  BY <1>1, <1>2, <1>3 DEF IInv, CalmsInv, CalmInv
<1> QED
  BY <1>1, <1>2, <1>3, <1>4, <1>5, Together
  DEF IInv, TypeOK, DecisionsReviewed, Decided, SomeReviewed

LEMMA VoidStep ==
  ASSUME IInv, NEW q \in Requests, Void(q)
  PROVE  IInv'
<1>1. /\ req[q].step = "void" /\ req[q].rep \in Reports
      /\ OnlyReq(q) /\ req'[q].step = "idle"
  BY EndMoves DEF Void, At, IInv, ReqsInv, ReqInv, ReportSteps
<1>2. ReportsGrow
  BY <1>1, StatusSet DEF Void, IInv, ReportStatus
<1>3. task' = task /\ breaks' = breaks /\ calm' = calm
  BY DEF Void
<1>4. ReqInv(q)' /\ CalmInv(q)'
  BY <1>1 DEF ReqInv, CalmInv, ReportSteps, ReviewSteps
<1>5. calm' => ~ InReview'
  BY <1>1, <1>3 DEF IInv, CalmsInv, CalmInv, InReview, Submittable
<1>6. task.status \in Decided => SomeReviewed'
  BY <1>2, ReviewedStays DEF IInv, DecisionsReviewed, Decided, SomeReviewed
<1> QED
  BY <1>1, <1>2, <1>3, <1>4, <1>5, <1>6, Together DEF IInv, TypeOK

LEMMA SupersedeStep ==
  ASSUME IInv, NEW q \in Requests, Supersede(q)
  PROVE  IInv'
<1>1. /\ req[q].step = "supersede" /\ req[q] \in Walk /\ ReqInv(q)
      /\ req[q].rep \in Reports /\ req[q].rep \notin req[q].prior
      /\ req[q].prior \subseteq Reports
  <2>1. req[q].step = "supersede" /\ req[q] \in Walk /\ ReqInv(q)
    BY Busy DEF Supersede, At, IInv, ReqsInv
  <2> QED  BY <2>1 DEF ReqInv, ReportSteps, Walk
<1>2. task' = task /\ breaks' = breaks /\ calm' = calm
  BY DEF Supersede
<1>3. calm' => report[req[q].rep].status \in Supersedable
  BY <1>1, <1>2 DEF IInv, CalmsInv, CalmInv
<1>4. CASE req[q].prior = {}
  <2>1. End(q) /\ report' = report
    BY <1>4 DEF Supersede
  <2>2. OnlyReq(q) /\ req'[q].step = "idle" /\ ReportsGrow
    BY <2>1, EndMoves, ReportsSame DEF IInv
  <2>3. ReqInv(q)' /\ CalmInv(q)'
    BY <2>2 DEF ReqInv, CalmInv, ReportSteps, ReviewSteps
  <2>4. calm' => Waiting'
    BY <1>1, <1>3, <2>1 DEF Waiting
  <2> QED
    BY <1>1, <1>2, <2>1, <2>2, <2>3, <2>4, Together
    DEF IInv, TypeOK, DecisionsReviewed, Decided, SomeReviewed
<1>5. CASE req[q].prior # {}
  <2>1. PICK r \in req[q].prior : /\ SetStatus(r, "voided")
                                  /\ req' = [req EXCEPT ![q].prior = @ \ {r}]
    BY <1>5 DEF Supersede
  <2> DEFINE x == [req[q] EXCEPT !.prior = req[q].prior \ {r}]
  <2>2. /\ x \in Walk /\ x.step = "supersede" /\ x.rep = req[q].rep
        /\ x.prior = req[q].prior \ {r} /\ x.op = req[q].op
    BY <1>1 DEF Walk
  <2>3. req' = [req EXCEPT ![q] = x]
    BY <2>1
  <2> HIDE DEF x
  <2>4. OnlyReq(q) /\ req'[q] = x
    BY <2>2, <2>3, PutMoves DEF IInv
  <2>5. /\ ReportsGrow /\ r \in Reports
        /\ \A p \in Reports \ {r} : report'[p] = report[p]
    BY <1>1, <2>1, StatusSet DEF IInv, ReportStatus
  <2>6. report'[req[q].rep] = report[req[q].rep]
    BY <1>1, <2>5
  <2>7. \A p \in x.prior : report'[p] # NoRow
    BY <1>1, <2>2, <2>5 DEF ReqInv, ReportsGrow
  <2>8. ReqInv(q)'
    BY <1>1, <2>2, <2>4, <2>6, <2>7 DEF ReqInv, ReportSteps, ReviewSteps, OcrSteps
  <2>9. calm' => CalmInv(q)'
    BY <1>3, <2>2, <2>4, <2>6 DEF CalmInv
  <2>10. task.status \in Decided => SomeReviewed'
    BY <2>5, ReviewedStays DEF IInv, DecisionsReviewed, Decided, SomeReviewed
  <2> QED
    BY <1>1, <1>2, <2>2, <2>4, <2>5, <2>8, <2>9, <2>10, Together DEF IInv, TypeOK
<1> QED  BY <1>4, <1>5

(***************************************************************************)
(* OCR results and their confirmation                                      *)
(***************************************************************************)
LEMMA OcrConfirmsStep ==
  ASSUME IInv, NEW r \in Reports, OcrConfirms(r)
  PROVE  IInv'
<1>1. /\ report[r].job /\ report[r].status = "ocr_ing" /\ SetStatus(r, "pending_review")
      /\ task' = task /\ req' = req /\ breaks' = breaks /\ calm' = calm
  BY DEF OcrConfirms
<1>2. /\ ReportsGrow /\ report'[r].status = "pending_review"
      /\ \A p \in Reports \ {r} : report'[p] = report[p]
  <2>1. TypeOK /\ "pending_review" \in ReportStatus
    BY DEF IInv, ReportStatus
  <2>2. /\ ReportsGrow
        /\ report'[r] = [status |-> "pending_review", job |-> report[r].job,
                         reviewed |-> report[r].reviewed]
        /\ \A p \in Reports \ {r} : report'[p] = report[p]
    BY <1>1, <2>1, StatusSet
  <2> QED  BY <2>2
<1>3. TypeOK'
  BY <1>1, <1>2 DEF IInv, TypeOK, ReportsGrow
<1>4. ReqsInv'
  BY <1>1, <1>2, ReqKept DEF IInv, ReqsInv
<1>5. DecisionsReviewed'
  BY <1>1, <1>2, ReviewedStays DEF IInv, DecisionsReviewed, SomeReviewed
<1>6. \A p \in Reports : report[p].status \in Supersedable => report'[p].status \in Supersedable
  BY <1>2 DEF Supersedable
<1>7. Waiting => Waiting'
  BY <1>6 DEF Waiting
<1>8. CalmsInv'
  <2> SUFFICES ASSUME calm
               PROVE  /\ \A q \in Requests : CalmInv(q)'
                      /\ Quiet' /\ InReview' => Waiting'
    BY <1>1 DEF IInv, CalmsInv, At
  <2>1. ASSUME NEW q \in Requests PROVE CalmInv(q)'
    <3>1. CalmInv(q) /\ ReqInv(q)
      BY DEF IInv, CalmsInv, ReqsInv
    <3>2. req[q].step = "enqueue" => report'[req[q].rep] = Uploaded
      BY <1>1, <1>2, <3>1 DEF ReqInv, CalmInv, ReportSteps, Uploaded
    <3>3. req[q].step = "supersede" => report'[req[q].rep].status \in Supersedable
      BY <1>6, <3>1 DEF ReqInv, CalmInv, ReportSteps
    <3> QED  BY <1>1, <1>7, <3>1, <3>2, <3>3 DEF CalmInv, InReview
  <2> QED  BY <1>1, <1>7, <2>1 DEF IInv, CalmsInv, Quiet, At, InReview
<1> QED  BY <1>3, <1>4, <1>5, <1>8 DEF IInv

LEMMA ReadToConfirmStep ==
  ASSUME IInv, NEW q \in Requests, NEW r \in Reports, ReadToConfirm(q, r)
  PROVE  IInv'
<1> DEFINE s == IF report[r].status = "need_more" THEN "confirm_task" ELSE "confirm"
<1>1. /\ OnlyReq(q) /\ req[q].step = "idle" /\ (calm' => calm /\ Quiet) /\ calm' \in BOOLEAN
      /\ req'[q] = [step |-> s, op |-> "confirm", saw |-> "unread", to |-> "none",
                    rep |-> r, prior |-> {}]
  <2>1. TypeOK /\ Begin(q, s, "confirm", "none", r)
    BY DEF ReadToConfirm, IInv
  <2>2. s \in Steps /\ "confirm" \in Ops
    BY DEF Steps, Ops
  <2> HIDE DEF s
  <2> QED  BY <2>1, <2>2, BeginMoves
<1>2. ReportsGrow /\ task' = task /\ report' = report /\ breaks' = breaks
  BY ReportsSame DEF ReadToConfirm, IInv
<1>3. s \in {"confirm_task", "confirm"}
  OBVIOUS
<1> HIDE DEF s
<1>4. ReqInv(q)'
  BY <1>1, <1>3 DEF ReqInv, ReportSteps, ReviewSteps
<1>5. calm' => CalmInv(q)'
  BY <1>1, <1>2, <1>3 DEF CalmInv, IInv, CalmsInv, InReview, Waiting
<1> QED
  BY <1>1, <1>2, <1>3, <1>4, <1>5, Together
  DEF IInv, TypeOK, DecisionsReviewed, Decided, SomeReviewed

LEMMA ConfirmReadTaskStep ==
  ASSUME IInv, NEW q \in Requests, ConfirmReadTask(q)
  PROVE  IInv'
<1>1. /\ req[q].step = "confirm_task" /\ req[q] \in Walk /\ ReqInv(q)
      /\ req[q].op # "ocr" /\ req[q].rep \in Reports
  <2>1. req[q].step = "confirm_task" /\ req[q] \in Walk /\ ReqInv(q)
    BY Busy DEF ConfirmReadTask, At, IInv, ReqsInv
  <2> QED  BY <2>1 DEF ReqInv, ReportSteps, OcrSteps
<1>2. ReportsGrow /\ task' = task /\ report' = report /\ breaks' = breaks /\ calm' = calm
  BY ReportsSame DEF ConfirmReadTask, IInv
<1>3. calm /\ InReview => Waiting
  BY <1>1 DEF IInv, CalmsInv, CalmInv
<1>4. CASE Allowed(task.status, "report_pending_review")
  <2> DEFINE x == [req[q] EXCEPT !.step = "confirm", !.saw = task.status, !.to = "need_more"]
  <2>1. /\ x \in Walk /\ x.step = "confirm" /\ x.saw = task.status /\ x.op = req[q].op
        /\ x.rep = req[q].rep
    BY <1>1 DEF Walk, Steps, Decision, IInv, TypeOK
  <2>2. req' = [req EXCEPT ![q] = x]
    BY <1>4 DEF ConfirmReadTask
  <2> HIDE DEF x
  <2>3. OnlyReq(q) /\ req'[q] = x
    BY <2>1, <2>2, PutMoves DEF IInv
  <2>4. ReqInv(q)'
    BY <1>1, <2>1, <2>3 DEF ReqInv, ReportSteps, ReviewSteps
  <2>5. calm' => CalmInv(q)'
    BY <1>2, <1>3, <1>4, <2>1, <2>3 DEF CalmInv, InReview, Waiting
  <2> QED
    BY <1>1, <1>2, <2>1, <2>3, <2>4, <2>5, Together
    DEF IInv, TypeOK, DecisionsReviewed, Decided, SomeReviewed
<1>5. CASE ~ Allowed(task.status, "report_pending_review")
  <2>1. OnlyReq(q) /\ req'[q].step = "idle"
    BY <1>5, EndMoves DEF ConfirmReadTask, IInv
  <2>2. ReqInv(q)' /\ CalmInv(q)'
    BY <2>1 DEF ReqInv, CalmInv, ReportSteps, ReviewSteps
  <2> QED
    BY <1>1, <1>2, <1>3, <2>1, <2>2, Together
    DEF IInv, TypeOK, DecisionsReviewed, Decided, SomeReviewed, InReview, Waiting
<1> QED  BY <1>4, <1>5

LEMMA ConfirmStep ==
  ASSUME IInv, NEW q \in Requests, Confirm(q)
  PROVE  IInv'
<1>1. /\ req[q].step = "confirm" /\ req[q] \in Walk /\ ReqInv(q)
      /\ req[q].op # "ocr" /\ req[q].rep \in Reports
  <2>1. req[q].step = "confirm" /\ req[q] \in Walk /\ ReqInv(q)
    BY Busy DEF Confirm, At, IInv, ReqsInv
  <2> QED  BY <2>1 DEF ReqInv, ReportSteps, OcrSteps
<1>2. TypeOK /\ task' = task /\ breaks' = breaks /\ calm' = calm
  BY DEF Confirm, IInv
<1>3. calm => CalmInv(q)
  BY DEF IInv, CalmsInv
<1>4. CASE End(q) /\ report' = report
  <2>1. OnlyReq(q) /\ req'[q].step = "idle" /\ ReportsGrow
    BY <1>2, <1>4, EndMoves, ReportsSame
  <2>2. ReqInv(q)' /\ CalmInv(q)'
    BY <2>1 DEF ReqInv, CalmInv, ReportSteps, ReviewSteps
  <2>3. calm' /\ InReview' => Waiting'
    BY <1>1, <1>2, <1>3, <1>4 DEF CalmInv, InReview, Waiting
  <2> QED
    BY <1>1, <1>2, <1>4, <2>1, <2>2, <2>3, Together
    DEF IInv, TypeOK, DecisionsReviewed, Decided, SomeReviewed
<1>5. CASE SetStatus(req[q].rep, "pending_review")
  <2>1. PICK r \in Reports : r = req[q].rep
    BY <1>1
  <2>2. ReportsGrow /\ report'[r].status = "pending_review"
    <3>1. SetStatus(r, "pending_review") /\ "pending_review" \in ReportStatus
      BY <1>5, <2>1 DEF ReportStatus
    <3>2. ReportsGrow /\ report'[r] = [status |-> "pending_review", job |-> report[r].job,
                                       reviewed |-> report[r].reviewed]
      BY <1>2, <3>1, StatusSet
    <3> QED  BY <3>2
  <2>3. Waiting'
    BY <2>2 DEF Waiting, Supersedable
  <2>4. task.status \in Decided => SomeReviewed'
    BY <2>2, ReviewedStays DEF IInv, DecisionsReviewed, Decided, SomeReviewed
  <2>5. CASE req[q].to = "need_more" /\ Go(q, "advance")
    <3>1. /\ OnlyReq(q)
          /\ req'[q] = [step |-> "advance", op |-> req[q].op, saw |-> req[q].saw,
                        to |-> req[q].to, rep |-> req[q].rep, prior |-> req[q].prior]
      BY <1>1, <1>2, <2>5, GoMoves DEF Steps
    <3>2. ReqInv(q)'
      BY <1>1, <3>1 DEF ReqInv, ReportSteps, ReviewSteps
    <3>3. calm' => task.status \notin Finished
      BY <1>1, <1>2, <1>3, <2>5 DEF CalmInv, Allowed, Targets, TaskStatus, Finished
    <3>4. calm' => CalmInv(q)'
      BY <1>2, <2>3, <3>1, <3>3 DEF CalmInv
    <3> QED
      BY <1>1, <1>2, <2>2, <2>4, <3>1, <3>2, <3>4, Together DEF IInv, TypeOK
  <2>6. CASE End(q)
    <3>1. OnlyReq(q) /\ req'[q].step = "idle"
      BY <1>2, <2>6, EndMoves
    <3>2. ReqInv(q)' /\ CalmInv(q)'
      BY <3>1 DEF ReqInv, CalmInv, ReportSteps, ReviewSteps
    <3> QED
      BY <1>1, <1>2, <2>2, <2>3, <2>4, <3>1, <3>2, Together DEF IInv, TypeOK
  <2>7. (req[q].to = "need_more" /\ Go(q, "advance")) \/ End(q)
    BY DEF Confirm
  <2> QED  BY <2>5, <2>6, <2>7
<1> QED  BY <1>4, <1>5 DEF Confirm

(***************************************************************************)
(* Review                                                                  *)
(***************************************************************************)
LEMMA ReadToReviewStep ==
  ASSUME IInv, NEW q \in Requests, NEW r \in Reports, NEW d \in Decision,
         ReadToReview(q, r, d)
  PROVE  IInv'
<1>1. /\ OnlyReq(q) /\ req[q].step = "idle" /\ (calm' => calm /\ Quiet) /\ calm' \in BOOLEAN
      /\ req'[q] = [step |-> "review_task", op |-> "review", saw |-> "unread", to |-> d,
                    rep |-> r, prior |-> {}]
  <2>1. TypeOK /\ Begin(q, "review_task", "review", d, r)
    BY DEF ReadToReview, IInv
  <2>2. "review_task" \in Steps /\ "review" \in Ops
    BY DEF Steps, Ops
  <2> QED  BY <2>1, <2>2, BeginMoves
<1>2. ReportsGrow /\ task' = task /\ report' = report /\ breaks' = breaks
  BY ReportsSame DEF ReadToReview, IInv
<1>3. ReqInv(q)'
  BY <1>1 DEF ReqInv, ReportSteps, ReviewSteps
<1>4. calm' => CalmInv(q)'
  BY <1>1, <1>2 DEF CalmInv, IInv, CalmsInv, InReview, Waiting
<1> QED
  BY <1>1, <1>2, <1>3, <1>4, Together
  DEF IInv, TypeOK, DecisionsReviewed, Decided, SomeReviewed

LEMMA ReviewReadTaskStep ==
  ASSUME IInv, NEW q \in Requests, ReviewReadTask(q)
  PROVE  IInv'
<1>1. /\ req[q].step = "review_task" /\ req[q] \in Walk /\ ReqInv(q)
      /\ req[q].op # "ocr" /\ req[q].rep \in Reports
  <2>1. req[q].step = "review_task" /\ req[q] \in Walk /\ ReqInv(q)
    BY Busy DEF ReviewReadTask, At, IInv, ReqsInv
  <2> QED  BY <2>1 DEF ReqInv, ReportSteps, OcrSteps
<1>2. ReportsGrow /\ task' = task /\ report' = report /\ breaks' = breaks /\ calm' = calm
  BY ReportsSame DEF ReviewReadTask, IInv
<1> DEFINE x == [req[q] EXCEPT !.step = "decide", !.saw = task.status]
<1>3. /\ x \in Walk /\ x.step = "decide" /\ x.saw = task.status /\ x.op = req[q].op
      /\ x.rep = req[q].rep /\ x.to = req[q].to
  BY <1>1 DEF Walk, Steps, IInv, TypeOK
<1>4. req' = [req EXCEPT ![q] = x]
  BY DEF ReviewReadTask
<1> HIDE DEF x
<1>5. OnlyReq(q) /\ req'[q] = x
  BY <1>3, <1>4, PutMoves DEF IInv
<1>6. ReqInv(q)'
  BY <1>1, <1>3, <1>5 DEF ReqInv, ReportSteps, ReviewSteps
<1>7. calm' => CalmInv(q)'
  BY <1>1, <1>2, <1>3, <1>5 DEF IInv, CalmsInv, CalmInv, InReview, Waiting
<1> QED
  BY <1>1, <1>2, <1>3, <1>5, <1>6, <1>7, Together
  DEF IInv, TypeOK, DecisionsReviewed, Decided, SomeReviewed

LEMMA DecideStep ==
  ASSUME IInv, NEW q \in Requests, Decide(q)
  PROVE  IInv'
<1>1. /\ req[q].step = "decide" /\ req[q] \in Walk /\ ReqInv(q) /\ TypeOK
      /\ req[q].op # "ocr" /\ req[q].rep \in Reports /\ req[q].to \in Decision
  <2>1. req[q].step = "decide" /\ req[q] \in Walk /\ ReqInv(q) /\ TypeOK
    BY Busy DEF Decide, At, IInv, ReqsInv
  <2> QED  BY <2>1 DEF ReqInv, ReportSteps, OcrSteps, ReviewSteps
<1>2. task' = task /\ breaks' = breaks /\ calm' = calm
  BY DEF Decide
<1>3. PICK r \in Reports : r = req[q].rep
  BY <1>1
<1>4. PICK d \in Decision : d = req[q].to
  BY <1>1
<1>5. report' = [report EXCEPT ![r] = [report[r] EXCEPT !.status = d, !.reviewed = TRUE]]
  BY <1>3, <1>4 DEF Decide
<1>6. ReportsGrow /\ report'[r].reviewed
  <2> DEFINE row == [report[r] EXCEPT !.status = d, !.reviewed = TRUE]
  <2>1. report[r] \in [status : ReportStatus \cup {"none"}, job : BOOLEAN, reviewed : BOOLEAN]
    <3>1. report[r] \in ReportRow \cup {NoRow}
      BY <1>1 DEF TypeOK
    <3>2. CASE report[r] \in ReportRow
      BY <3>2 DEF ReportRow
    <3>3. CASE report[r] = NoRow
      BY <3>3 DEF NoRow
    <3> QED  BY <3>1, <3>2, <3>3
  <2>2. /\ row \in [status : ReportStatus, job : BOOLEAN, reviewed : BOOLEAN]
        /\ row.job = report[r].job /\ row.reviewed
    BY <2>1 DEF Decision, ReportStatus
  <2>3. row \in ReportRow /\ row # NoRow
    BY <2>2 DEF ReportRow, NoRow
  <2>4. report' = [report EXCEPT ![r] = row]
    BY <1>5
  <2> HIDE DEF row
  <2> QED  BY <1>1, <2>2, <2>3, <2>4 DEF TypeOK, ReportsGrow
<1>7. SomeReviewed'
  BY <1>6 DEF SomeReviewed
<1>8. calm => req[q].saw = task.status
  BY <1>1 DEF IInv, CalmsInv, CalmInv
<1>9. CASE Allowed(req[q].saw, Verdict(q))
  <2>1. PICK s \in {"approve", "reject"} : s = TaskStep(q)
    BY DEF TaskStep
  <2>2. /\ OnlyReq(q)
        /\ req'[q] = [step |-> s, op |-> req[q].op, saw |-> req[q].saw,
                      to |-> req[q].to, rep |-> req[q].rep, prior |-> req[q].prior]
    <3>1. Go(q, s) /\ s \in Steps /\ req[q].step # "idle"
      BY <1>1, <1>9, <2>1 DEF Decide, Steps
    <3> QED  BY <1>1, <3>1, GoMoves
  <2>3. ReqInv(q)'
    BY <1>1, <1>7, <2>2 DEF ReqInv, ReportSteps, ReviewSteps
  <2>4. calm' => CalmInv(q)'
    <3>1. s = "approve" => Verdict(q) = "report_approved"
      BY <2>1 DEF TaskStep, Verdict
    <3>2. s = "reject" => Verdict(q) = "report_rejected"
      BY <2>1 DEF TaskStep, Verdict
    <3> QED  BY <1>2, <1>8, <1>9, <2>1, <2>2, <3>1, <3>2 DEF CalmInv
  <2> QED
    BY <1>1, <1>2, <1>6, <1>7, <2>1, <2>2, <2>3, <2>4, Together DEF IInv, TypeOK
<1>10. CASE ~ Allowed(req[q].saw, Verdict(q))
  <2>1. OnlyReq(q) /\ req'[q].step = "idle"
    BY <1>1, <1>10, EndMoves DEF Decide
  <2>2. ReqInv(q)' /\ CalmInv(q)'
    BY <2>1 DEF ReqInv, CalmInv, ReportSteps, ReviewSteps
  <2>3. calm' => ~ InReview'
    BY <1>2, <1>8, <1>10 DEF InReview, Verdict, Allowed, Targets, TaskStatus
  <2> QED
    BY <1>1, <1>2, <1>6, <1>7, <2>1, <2>2, <2>3, Together DEF IInv, TypeOK
<1> QED  BY <1>9, <1>10

LEMMA ApproveTaskStep ==
  ASSUME IInv, NEW q \in Requests, ApproveTask(q)
  PROVE  IInv'
<1>1. req[q].step = "approve" /\ ReqInv(q) /\ req[q].op # "ocr" /\ SomeReviewed
  BY DEF ApproveTask, At, IInv, ReqsInv, ReqInv, OcrSteps
<1>2. /\ OnlyReq(q)
      /\ req'[q] = [step |-> "complete", op |-> req[q].op, saw |-> req[q].saw,
                    to |-> req[q].to, rep |-> req[q].rep, prior |-> req[q].prior]
  BY <1>1, GoMoves DEF ApproveTask, IInv, Steps
<1>3. ReportsGrow /\ report' = report /\ breaks' = breaks /\ calm' = calm
  BY ReportsSame DEF ApproveTask, IInv
<1>4. task' \in [status : TaskStatus, timed : BOOLEAN] /\ task'.status = "report_approved"
  BY TaskSet DEF ApproveTask, IInv, TaskStatus
<1>5. SomeReviewed'
  BY <1>1, <1>3 DEF SomeReviewed
<1>6. ReqInv(q)' /\ CalmInv(q)'
  BY <1>1, <1>2, <1>4, <1>5 DEF ReqInv, CalmInv, ReportSteps, ReviewSteps
<1> QED
  BY <1>1, <1>2, <1>3, <1>4, <1>5, <1>6, Together DEF IInv, TypeOK

LEMMA CompleteTaskStep ==
  ASSUME IInv, NEW q \in Requests, CompleteTask(q)
  PROVE  IInv'
<1>1. req[q].step = "complete" /\ SomeReviewed /\ OnlyReq(q) /\ req'[q].step = "idle"
  BY EndMoves DEF CompleteTask, At, IInv, ReqsInv, ReqInv
<1>2. ReportsGrow /\ report' = report /\ breaks' = breaks /\ calm' = calm
  BY ReportsSame DEF CompleteTask, IInv
<1>3. task' \in [status : TaskStatus, timed : BOOLEAN] /\ task'.status = "completed"
  BY TaskSet DEF CompleteTask, IInv, TaskStatus
<1>4. ReqInv(q)' /\ CalmInv(q)' /\ SomeReviewed'
  BY <1>1, <1>2 DEF ReqInv, CalmInv, ReportSteps, ReviewSteps, SomeReviewed
<1> QED
  BY <1>1, <1>2, <1>3, <1>4, Together DEF IInv, TypeOK, InReview

LEMMA RejectTaskStep ==
  ASSUME IInv, NEW q \in Requests, RejectTask(q)
  PROVE  IInv'
<1>1. req[q].step = "reject" /\ SomeReviewed /\ OnlyReq(q) /\ req'[q].step = "idle"
  BY EndMoves DEF RejectTask, At, IInv, ReqsInv, ReqInv
<1>2. ReportsGrow /\ report' = report /\ breaks' = breaks /\ calm' = calm
  BY ReportsSame DEF RejectTask, IInv
<1>3. task' \in [status : TaskStatus, timed : BOOLEAN] /\ task'.status = "report_rejected"
  BY TaskSet DEF RejectTask, IInv, TaskStatus
<1>4. ReqInv(q)' /\ CalmInv(q)' /\ SomeReviewed'
  BY <1>1, <1>2 DEF ReqInv, CalmInv, ReportSteps, ReviewSteps, SomeReviewed
<1> QED
  BY <1>1, <1>2, <1>3, <1>4, Together DEF IInv, TypeOK, InReview

LEMMA BreakStep ==
  ASSUME IInv, NEW q \in Requests, Break(q)
  PROVE  IInv'
<1>1. req[q].step # "idle" /\ OnlyReq(q) /\ req'[q].step = "idle"
  BY EndMoves DEF Break, At, IInv
<1>2. ReportsGrow /\ report' = report /\ task' = task /\ calm' = FALSE
  BY ReportsSame DEF Break, IInv
<1>3. breaks' \in 0 .. MaxBreaks
  BY LiveAssumption DEF Break, IInv, TypeOK
<1>4. ReqInv(q)' /\ CalmInv(q)'
  BY <1>1 DEF ReqInv, CalmInv, ReportSteps, ReviewSteps
<1> QED
  BY <1>1, <1>2, <1>3, <1>4, Together
  DEF IInv, TypeOK, DecisionsReviewed, Decided, SomeReviewed

(***************************************************************************)
(* Theorems                                                                *)
(***************************************************************************)
LEMMA StutterStep ==
  ASSUME IInv, UNCHANGED vars
  PROVE  IInv'
<1>1. TypeOK'
  BY DEF IInv, TypeOK, vars
<1>2. ReqsInv'
  BY DEF IInv, ReqsInv, ReqInv, SomeReviewed, vars
<1>3. DecisionsReviewed'
  BY DEF IInv, DecisionsReviewed, vars
<1>4. CalmsInv'
  BY DEF IInv, CalmsInv, CalmInv, Quiet, At, InReview, Waiting, vars
<1> QED  BY <1>1, <1>2, <1>3, <1>4 DEF IInv

LEMMA NextIInv == IInv /\ [Next]_vars => IInv'
<1> SUFFICES ASSUME IInv, [Next]_vars PROVE IInv'
  OBVIOUS
<1>1. ASSUME NEW q \in Requests, NEW op \in DOMAIN Goal, ReadToMove(q, op) PROVE IInv'
  BY <1>1, ReadToMoveStep
<1>2. ASSUME NEW q \in Requests,
             ReadToResolve(q) \/ Move(q) \/ ReadToSubmit(q) \/ ReadToUpload(q)
      PROVE  IInv'
  BY <1>2, ReadToResolveStep, MoveStep, ReadToSubmitStep, ReadToUploadStep
<1>3. ASSUME NEW q \in Requests, ListPriors(q) \/ Advance(q) \/ Enqueue(q) PROVE IInv'
  BY <1>3, ListPriorsStep, AdvanceStep, EnqueueStep
<1>4. ASSUME NEW q \in Requests,
             EnqueueUnheard(q) \/ Refuse(q) \/ Void(q) \/ Supersede(q)
      PROVE  IInv'
  BY <1>4, EnqueueUnheardStep, RefuseStep, VoidStep, SupersedeStep
<1>5. ASSUME NEW q \in Requests, ConfirmReadTask(q) \/ Confirm(q) PROVE IInv'
  BY <1>5, ConfirmReadTaskStep, ConfirmStep
<1>6. ASSUME NEW q \in Requests, ReviewReadTask(q) \/ Decide(q) PROVE IInv'
  BY <1>6, ReviewReadTaskStep, DecideStep
<1>7. ASSUME NEW q \in Requests,
             ApproveTask(q) \/ CompleteTask(q) \/ RejectTask(q) \/ Break(q)
      PROVE  IInv'
  BY <1>7, ApproveTaskStep, CompleteTaskStep, RejectTaskStep, BreakStep
<1>8. ASSUME NEW q \in Requests, NEW r \in Reports, Insert(q, r) \/ ReadToConfirm(q, r)
      PROVE  IInv'
  BY <1>8, InsertStep, ReadToConfirmStep
<1>9. ASSUME NEW q \in Requests, NEW r \in Reports, NEW d \in Decision, ReadToReview(q, r, d)
      PROVE  IInv'
  BY <1>9, ReadToReviewStep
<1>10. ASSUME NEW r \in Reports, OcrConfirms(r) PROVE IInv'
  BY <1>10, OcrConfirmsStep
<1>11. CASE UNCHANGED vars
  BY <1>11, StutterStep
<1> QED
  BY <1>1, <1>2, <1>3, <1>4, <1>5, <1>6, <1>7, <1>8, <1>9, <1>10, <1>11 DEF Next

\* The invariant holds of every behaviour, for any requests, reports and broken requests.
THEOREM Invariance == Spec => []IInv
<1> QED  BY InitIInv, NextIInv, PTL DEF Spec

\* The rows and the requests keep their types; in particular a request writes to its task no
\* value that is not a status of a task.
THEOREM TypeCorrect == Spec => []TypeOK
<1>1. IInv => TypeOK
  BY DEF IInv
<1> QED  BY <1>1, Invariance, PTL

\* A task is approved, completed or rejected only when a report of it was decided
\* (reviewLiveReport writes the decision first, and no decision is ever unmade).
THEOREM DecisionsReviewedHolds == Spec => []DecisionsReviewed
<1>1. IInv => DecisionsReviewed
  BY DEF IInv
<1> QED  BY <1>1, Invariance, PTL

\* One request at a time leaves no task under review without a report that waits.
THEOREM ReviewHasReportHolds == Spec => []ReviewHasReport
<1>1. IInv => ReviewHasReport
  BY DEF IInv, CalmsInv, ReviewHasReport, Quiet, InReview, Waiting
<1> QED  BY <1>1, Invariance, PTL

\* While requests come one at a time and end, a completed or cancelled task stays so: every
\* path of the service that writes the task has asserted its status in the same request.
THEOREM FinishedStaysHolds == Spec => FinishedStays
<1>1. IInv /\ [Next]_vars =>
          [calm' /\ task.status \in {"completed", "cancelled"} => task'.status = task.status]_vars
  <2> SUFFICES ASSUME IInv, Next, calm', task.status \in Finished, task' # task
               PROVE  task'.status = task.status
    BY DEF Finished, vars
  <2>1. ASSUME NEW q \in Requests, calm PROVE CalmInv(q) /\ ReqInv(q)
    BY <2>1 DEF IInv, CalmsInv, ReqsInv
  <2>2. ASSUME NEW q \in Requests, Move(q) PROVE task'.status = task.status
    BY <2>1, <2>2 DEF Move, At, CalmInv
  <2>3. ASSUME NEW q \in Requests,
               Advance(q) \/ Enqueue(q) \/ EnqueueUnheard(q) \/ ApproveTask(q)
                   \/ CompleteTask(q) \/ RejectTask(q)
        PROVE  FALSE
    <3>1. CASE Advance(q)
      BY <2>1, <3>1 DEF Advance, At, CalmInv
    <3>2. CASE Enqueue(q) \/ EnqueueUnheard(q)
      BY <3>2 DEF Enqueue, EnqueueUnheard, Queue, Submittable, Finished
    <3>3. CASE ApproveTask(q)
      BY <2>1, <3>3 DEF ApproveTask, At, CalmInv, Allowed, Targets, TaskStatus, Finished
    <3>4. CASE CompleteTask(q)
      BY <2>1, <3>4 DEF CompleteTask, At, CalmInv, Finished
    <3>5. CASE RejectTask(q)
      BY <2>1, <3>5 DEF RejectTask, At, CalmInv, Allowed, Targets, TaskStatus, Finished
    <3> QED  BY <2>3, <3>1, <3>2, <3>3, <3>4, <3>5
  <2> QED
    BY <2>2, <2>3
    DEF Next, ReadToMove, ReadToResolve, ReadToSubmit, ReadToUpload, ListPriors, Refuse, Void,
        Supersede, ConfirmReadTask, Confirm, ReviewReadTask, Decide, Break, Insert,
        ReadToConfirm, ReadToReview, OcrConfirms
<1> QED  BY <1>1, Invariance, PTL DEF Spec, FinishedStays

\* A report is voided by its own failed submission, or for another that has its OCR job: what
\* a submission supersedes was there before its own report, and its job is queued first.
THEOREM SupersededHasSuccessorHolds == Spec => SupersededHasSuccessor
<1> DEFINE Reason(r) == \/ \E q \in Requests : At(q, "void") /\ req[q].rep = r
                        \/ \E s \in Reports \ {r} : report'[s].job
<1>1. IInv /\ [Next]_vars =>
          [\A r \in Reports :
              report[r].status # "voided" /\ report'[r].status = "voided" => Reason(r)]_vars
  <2> SUFFICES ASSUME IInv, Next, NEW r \in Reports,
                      report[r].status # "voided", report'[r].status = "voided"
               PROVE  Reason(r)
    BY DEF vars
  <2>1. TypeOK
    BY DEF IInv
  <2>2. ASSUME NEW q \in Requests PROVE ReqInv(q)
    BY DEF IInv, ReqsInv
  <2>3. ASSUME NEW p \in Reports, NEW s, SetStatus(p, s), p # r PROVE FALSE
    BY <2>1, <2>3 DEF SetStatus, TypeOK
  <2>4. ASSUME NEW p \in Reports, NEW s \in ReportStatus \ {"voided"}, SetStatus(p, s)
        PROVE  FALSE
    <3>1. p = r
      BY <2>3, <2>4
    <3>2. SetStatus(p, s) /\ s # "voided"
      BY <2>4
    <3>3. report'[p] = [status |-> s, job |-> report[p].job, reviewed |-> report[p].reviewed]
      BY <2>1, <3>2, StatusSet
    <3>4. report'[p].status = s
      BY <3>3
    <3> QED  BY <3>1, <3>2, <3>4
  <2>5. ASSUME NEW q \in Requests, Void(q) PROVE Reason(r)
    <3>1. At(q, "void") /\ req[q].rep \in Reports /\ SetStatus(req[q].rep, "voided")
      BY <2>2, <2>5 DEF Void, At, ReqInv, ReportSteps
    <3>2. req[q].rep = r
      BY <2>3, <3>1
    <3> QED  BY <3>1, <3>2
  <2>6. ASSUME NEW q \in Requests, Supersede(q) PROVE Reason(r)
    <3>1. /\ req[q].step = "supersede" /\ req[q].rep \in Reports /\ req[q] \in Walk
          /\ req[q].rep \notin req[q].prior /\ report[req[q].rep].job
      <4>1. req[q].step = "supersede" /\ ReqInv(q)
        BY <2>2, <2>6 DEF Supersede, At
      <4> QED  BY <2>1, <4>1, Busy DEF ReqInv, ReportSteps
    <3>2. PICK p \in req[q].prior : SetStatus(p, "voided")
      BY <2>6 DEF Supersede
    <3>3. p \in Reports
      BY <3>1 DEF Walk
    <3>4. p = r
      BY <2>3, <3>2, <3>3
    <3>5. req[q].rep # r /\ report'[req[q].rep] = report[req[q].rep]
      BY <2>1, <3>1, <3>2, <3>4 DEF SetStatus, TypeOK
    <3> QED  BY <3>1, <3>5
  <2>7. ASSUME NEW q \in Requests, Enqueue(q) \/ EnqueueUnheard(q) PROVE Reason(r)
    <3>1. req[q].step = "enqueue" /\ Queue(q)
      BY <2>7 DEF Enqueue, EnqueueUnheard, At
    <3>2. /\ req[q].rep \in Reports /\ report'[req[q].rep].job
          /\ report'[req[q].rep].status = "ocr_ing"
      BY <3>1, QueueRows
    <3>3. req[q].rep # r
      BY <3>2
    <3> QED  BY <3>2, <3>3
  <2>8. ASSUME NEW q \in Requests, Decide(q) PROVE FALSE
    <3>1. req[q].to \in Decision /\ req[q].rep \in Reports
      BY <2>2, <2>8 DEF Decide, At, ReqInv, ReviewSteps, ReportSteps
    <3>2. PICK d \in Decision : d = req[q].to
      BY <3>1
    <3>3. PICK p \in Reports : p = req[q].rep
      BY <3>1
    <3>4. report' = [report EXCEPT ![p] = [report[p] EXCEPT !.status = d, !.reviewed = TRUE]]
      BY <2>8, <3>2, <3>3 DEF Decide
    <3>5. p = r
      BY <2>1, <3>4 DEF TypeOK
    <3>6. report'[r] = [report[r] EXCEPT !.status = d, !.reviewed = TRUE]
      BY <2>1, <3>4, <3>5 DEF TypeOK
    <3>7. report[r] \in [status : ReportStatus \cup {"none"}, job : BOOLEAN, reviewed : BOOLEAN]
      <4>1. CASE report[r] \in ReportRow
        BY <4>1 DEF ReportRow
      <4>2. CASE report[r] = NoRow
        BY <4>2 DEF NoRow
      <4> QED  BY <2>1, <4>1, <4>2 DEF TypeOK
    <3> QED  BY <3>6, <3>7 DEF Decision
  <2>9. ASSUME NEW q \in Requests, NEW p \in Reports, Insert(q, p) PROVE FALSE
    BY <2>4, <2>9 DEF Insert, ReportStatus
  <2>10. ASSUME NEW q \in Requests, Confirm(q) PROVE FALSE
    <3>1. req[q].rep \in Reports
      BY <2>2, <2>10 DEF Confirm, At, ReqInv, ReportSteps
    <3> QED  BY <2>4, <2>10, <3>1 DEF Confirm, ReportStatus
  <2>11. ASSUME NEW p \in Reports, OcrConfirms(p) PROVE FALSE
    BY <2>4, <2>11 DEF OcrConfirms, ReportStatus
  <2> HIDE DEF Reason
  <2> QED
    BY <2>5, <2>6, <2>7, <2>8, <2>9, <2>10, <2>11
    DEF Next, ReadToMove, ReadToResolve, Move, ReadToSubmit, ReadToUpload, ListPriors, Advance,
        Refuse, ConfirmReadTask, ReviewReadTask, ApproveTask, CompleteTask, RejectTask, Break,
        ReadToConfirm, ReadToReview
<1> QED  BY <1>1, Invariance, PTL DEF Spec, SupersededHasSuccessor

\* An OCR submission takes its task into review from where a report may be submitted and from
\* nowhere else, whatever else is under way (enqueue_ocr_job locks what it checks).
THEOREM OcrLeavesTaskHolds == Spec => OcrLeavesTask
<1>1. IInv /\ [Next]_vars =>
          [\A q \in Requests :
              ~ At(q, "idle") /\ req[q] # req'[q] /\ req[q].op = "ocr" /\ task # task' =>
                  task.status \in Submittable]_vars
  <2> SUFFICES ASSUME IInv, Next, NEW q \in Requests, ~ At(q, "idle"), req[q] # req'[q],
                      req[q].op = "ocr", task # task'
               PROVE  task.status \in Submittable
    BY DEF vars
  <2>1. req[q].step \in OcrSteps /\ TypeOK
    BY DEF IInv, ReqsInv, ReqInv, At
  <2>2. ASSUME NEW p \in Requests, Move(p) \/ Advance(p) \/ CompleteTask(p) \/ RejectTask(p)
        PROVE  FALSE
    <3>1. End(p) /\ req[p].step \notin OcrSteps
      BY <2>2 DEF Move, Advance, CompleteTask, RejectTask, At, OcrSteps
    <3>2. p = q
      BY <2>1, <3>1, EndMoves DEF OnlyReq
    <3> QED  BY <2>1, <3>1, <3>2
  <2>3. ASSUME NEW p \in Requests, ApproveTask(p) PROVE FALSE
    <3>1. Go(p, "complete") /\ req[p].step = "approve"
      BY <2>3 DEF ApproveTask, At
    <3>2. p = q
      BY <2>1, <3>1 DEF Go, TypeOK
    <3> QED  BY <2>1, <3>1, <3>2 DEF OcrSteps
  <2>4. ASSUME NEW p \in Requests, Enqueue(p) \/ EnqueueUnheard(p)
        PROVE  task.status \in Submittable
    BY <2>4 DEF Enqueue, EnqueueUnheard, Queue
  <2> QED
    BY <2>2, <2>3, <2>4
    DEF Next, ReadToMove, ReadToResolve, ReadToSubmit, ReadToUpload, ListPriors, Refuse, Void,
        Supersede, ConfirmReadTask, Confirm, ReviewReadTask, Decide, Break, Insert,
        ReadToConfirm, ReadToReview, OcrConfirms
<1> QED  BY <1>1, Invariance, PTL DEF Spec, OcrLeavesTask

==============================================================================
