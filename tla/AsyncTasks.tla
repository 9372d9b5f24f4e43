----------------------------- MODULE AsyncTasks -----------------------------
(***************************************************************************)
(* The PostgreSQL task runtime: claim, renew, finalize and reconcile, each *)
(* one transaction, and the workers that call them.                        *)
(*                                                                         *)
(* Time is relative: `lease' and `delay' hold lease_expires_at - now and   *)
(* run_after - now, and Tick lowers them.  Every function takes p_now from *)
(* its caller's clock, which is off by some d in Skews, so                 *)
(* `lease_expires_at > p_now' reads `lease > d'.  A null lease is NoLease, *)
(* a value below every d; a guard that a null fails says so.               *)
(***************************************************************************)
EXTENDS Integers, FiniteSets

CONSTANTS Tasks,        \* rows of one task type
          Orgs,         \* organizations
          OrgOf,        \* organization_id of each task
          Workers,      \* worker identities
          NoWorker,     \* a null locked_by
          Outcomes,     \* the terminal statuses: "failed", "succeeded", ...
          MaxAttempts,  \* max_attempts
          LeaseTerm,    \* p_lease_seconds
          PerOrgLimit,  \* p_per_org_limit
          ClaimLimit,   \* p_limit
          ClockSkew,    \* bound on how far a caller's clock is off
          InitialDelay, \* run_after - now when the task is queued
          Cancellable   \* the tasks whose cancel_requested_at may be set

QueueStates == {"running", "paused", "draining"}
Skews == (-ClockSkew) .. ClockSkew
NoLease == -ClockSkew - 1

ASSUME ConstantsAssumption ==
    /\ IsFiniteSet(Tasks)
    /\ OrgOf \in [Tasks -> Orgs]
    /\ NoWorker \notin Workers
    /\ "failed" \in Outcomes
    /\ {"queued", "running", "none"} \cap Outcomes = {}
    /\ MaxAttempts \in Nat \ {0}
    /\ LeaseTerm \in Nat \ {0}
    /\ PerOrgLimit \in Nat \ {0}
    /\ ClaimLimit \in Nat \ {0}
    /\ ClockSkew \in Nat
    /\ InitialDelay \in [Tasks -> Nat]
    /\ Cancellable \subseteq Tasks

VARIABLES task,     \* the row of each task
          queue,    \* async_task_queue_controls.desired_state of each organization
          events,   \* terminal rows of async_task_events
          held      \* the rows a worker's last claim returned and it has not finished

vars == <<task, queue, events, held>>

Row == [status : {"queued", "running"} \cup Outcomes, attempt : 0 .. MaxAttempts,
        owner : Workers \cup {NoWorker}, lease : Int, delay : Int,
        cancel : BOOLEAN]
Claims == [task : Tasks, attempt : 1 .. MaxAttempts]
Event == [task : Tasks, attempt : 0 .. MaxAttempts, status : Outcomes]

Terminal(t) == task[t].status \in Outcomes
\* Faulty variant of Running: a settled row counts as running.
NotQueued(t) == task[t].status # "queued"
Running(t) == task[t].status = "running"

\* Rows that count against the organization's cap, for a caller whose clock is off by d.
Active(o, d) == {t \in Tasks : OrgOf[t] = o /\ Running(t) /\ task[t].lease > d}

\* The row may be claimed as far as its schedule, its queue and its cancel request go.
Due(t, d) ==
    /\ ~ task[t].cancel
    /\ task[t].delay <= d
    /\ queue[OrgOf[t]] # "paused"

\* Faulty variants of Claimable: no attempt bound; any expired row, settled ones included; no
\* takeover of expired leases.
ClaimableUnbounded(t, d) ==
    Due(t, d) /\ (task[t].status = "queued" \/ (Running(t) /\ task[t].lease <= d))
ClaimableSettled(t, d) ==
    Due(t, d) /\ task[t].attempt < MaxAttempts /\ task[t].lease <= d
ClaimableQueuedOnly(t, d) ==
    Due(t, d) /\ task[t].attempt < MaxAttempts /\ task[t].status = "queued"

Claimable(t, d) ==
    /\ Due(t, d)
    /\ task[t].attempt < MaxAttempts
    /\ \/ task[t].status = "queued"
       \/ Running(t) /\ task[t].lease <= d

Init ==
    /\ task = [t \in Tasks |-> [status |-> "queued", attempt |-> 0, owner |-> NoWorker,
                                lease |-> NoLease, delay |-> InitialDelay[t],
                                cancel |-> FALSE]]
    /\ queue = [o \in Orgs |-> "running"]
    /\ events = {}
    /\ held = [w \in Workers |-> {}]

\* Faulty variant of UnderCap: each worker counts only its own batch.
UnderCapAlone(S, d) ==
    \A o \in {OrgOf[t] : t \in S} : Cardinality({t \in S : OrgOf[t] = o}) <= PerOrgLimit

\* The batch and the leases the organization already has stay within its cap.
UnderCap(S, d) ==
    \A o \in {OrgOf[t] : t \in S} :
        Cardinality(Active(o, d)) + Cardinality({t \in S : OrgOf[t] = o}) <= PerOrgLimit

\* claim_async_*: one transaction hands w a batch, under the organization's advisory lock and
\* its cap.  A worker claims only between iterations, when it holds nothing.
Claim(w, S, d) ==
    /\ held[w] = {}
    /\ Cardinality(S) <= ClaimLimit
    /\ \A t \in S : Claimable(t, d)
    /\ UnderCap(S, d)
    /\ task' = [t \in Tasks |->
                  IF t \in S
                  THEN [task[t] EXCEPT !.status = "running", !.owner = w,
                                       !.lease = LeaseTerm + d, !.attempt = @ + 1]
                  ELSE task[t]]
    /\ held' = [held EXCEPT ![w] = {[task |-> t, attempt |-> task[t].attempt + 1] : t \in S}]
    /\ UNCHANGED <<queue, events>>

\* Faulty variant of Owns: any worker's row will do.
OwnsAny(w, t, d) == Running(t) /\ task[t].lease > d

\* The row a fenced update of w finds: still running, still owned by w, lease not expired.
Owns(w, t, d) == Running(t) /\ task[t].owner = w /\ task[t].lease > d

\* renew_async_task_lease, from the interval timer of the row in work.  Nothing makes the rows
\* that wait behind it in the batch be renewed.
Renew(w, c, d) ==
    /\ c \in held[w]
    /\ Owns(w, c.task, d)
    /\ task' = [task EXCEPT ![c.task].lease = LeaseTerm + d]
    /\ UNCHANGED <<queue, events, held>>

Settled(row, s) == [row EXCEPT !.status = s, !.owner = NoWorker, !.lease = NoLease]

\* The worker's iteration over the row ends, whatever the finalizer answered.
Finish(w, c) == held' = [held EXCEPT ![w] = @ \ {c}]

\* finalize_async_task finds the worker's row and settles it, with its event.
Finalize(w, c, s, d) ==
    /\ c \in held[w]
    /\ Owns(w, c.task, d)
    /\ task' = [task EXCEPT ![c.task] = Settled(@, s)]
    /\ events' = events \cup {[task |-> c.task, attempt |-> task[c.task].attempt, status |-> s]}
    /\ Finish(w, c)
    /\ UNCHANGED queue

\* finalize_async_task writes nothing: the row is settled (the matching event, if any, is
\* returned) or no longer the worker's.
FinalizeRefused(w, c, d) ==
    /\ c \in held[w]
    /\ ~ Owns(w, c.task, d)
    /\ Finish(w, c)
    /\ UNCHANGED <<task, queue, events>>

\* reconcile_expired_async_tasks on one row.  A null lease never counts as expired here.
Reconcile(t, d) ==
    /\ Running(t)
    /\ task[t].lease # NoLease /\ task[t].lease <= d
    /\ task[t].attempt >= MaxAttempts
    /\ task' = [task EXCEPT ![t] = Settled(@, "failed")]
    /\ events' = IF \E e \in events : /\ e.task = t
                                      /\ e.attempt = task[t].attempt
                                      /\ e.status = "failed"
                 THEN events
                 ELSE events \cup {[task |-> t, attempt |-> task[t].attempt,
                                    status |-> "failed"]}
    /\ UNCHANGED <<queue, held>>

\* A manager pauses, drains or resumes an organization's queue.
SetQueue(o, s) ==
    /\ queue[o] # s
    /\ queue' = [queue EXCEPT ![o] = s]
    /\ UNCHANGED <<task, events, held>>

\* An operator asks for the row to be cancelled; nothing of the repository writes the column.
RequestCancel(t) ==
    /\ ~ Terminal(t) /\ ~ task[t].cancel
    /\ task' = [task EXCEPT ![t].cancel = TRUE]
    /\ UNCHANGED <<queue, events, held>>

\* The process dies; systemd restarts it with nothing in hand.
Crash(w) ==
    /\ held[w] # {}
    /\ held' = [held EXCEPT ![w] = {}]
    /\ UNCHANGED <<task, queue, events>>

Elapse(n) == IF n > -ClockSkew THEN n - 1 ELSE n

Tick ==
    /\ \E t \in Tasks : task[t].lease > -ClockSkew \/ task[t].delay > -ClockSkew
    /\ task' = [t \in Tasks |-> [task[t] EXCEPT !.lease = Elapse(@), !.delay = Elapse(@)]]
    /\ UNCHANGED <<queue, events, held>>

ClaimSome(w) == \E S \in SUBSET Tasks \ {{}}, d \in Skews : Claim(w, S, d)
RenewSome(w) == \E c \in held[w], d \in Skews : Renew(w, c, d)
FinalizeSome(w) == \E c \in held[w], d \in Skews :
                      \/ \E s \in Outcomes : Finalize(w, c, s, d)
                      \/ FinalizeRefused(w, c, d)
ReconcileSome == \E t \in Tasks, d \in Skews : Reconcile(t, d)

\* No process of the repository calls reconcile_expired_async_tasks; an operator may.
Next ==
    \/ \E w \in Workers : \/ ClaimSome(w) \/ RenewSome(w)
                          \/ FinalizeSome(w) \/ Crash(w)
    \/ \E o \in Orgs, s \in QueueStates : SetQueue(o, s)
    \/ \E t \in Cancellable : RequestCancel(t)
    \/ ReconcileSome
    \/ Tick

Spec == Init /\ [][Next]_vars

\* Time passes; a worker polls, and its iteration over a row ends because every provider call
\* has a timeout.  Nothing is assumed of the reconciliation.
LiveSpec == /\ Spec
            /\ WF_vars(Tick)
            /\ \A w \in Workers : WF_vars(ClaimSome(w)) /\ WF_vars(FinalizeSome(w))

(***************************************************************************)
(* Properties                                                              *)
(***************************************************************************)
\* Rows, events and claims are what the tables and the worker's memory can hold; in
\* particular attempt never passes max_attempts.
TypeOK ==
    /\ task \in [Tasks -> Row]
    /\ queue \in [Orgs -> QueueStates]
    /\ events \subseteq Event
    /\ held \in [Workers -> SUBSET Claims]

\* A row is settled exactly when it has a terminal event, it has only one, and the event tells
\* the row's status and attempt: finalize and reconcile write both or neither.
OneOutcome ==
    \A t \in Tasks :
        /\ Terminal(t) <=> \E e \in events : e.task = t
        /\ \A e \in events : e.task = t => /\ e.status = task[t].status
                                          /\ e.attempt = task[t].attempt
        /\ \A e, f \in events : e.task = t /\ f.task = t => e = f

\* With exact clocks an organization never holds more live leases than its cap, however the
\* hosts' claims and renewals interleave.
OrgCap == ClockSkew = 0 =>
    \A o \in Orgs : Cardinality(Active(o, 0)) <= PerOrgLimit

\* A row is settled by the worker that holds its latest claim, or by reconciliation once its
\* attempts are exhausted: a worker that lost its lease never decides a later attempt.
OutcomeByLatestClaim ==
    [][\A t \in Tasks :
          ~ Terminal(t) /\ Terminal(t)' =>
              \/ \E w \in Workers : [task |-> t, attempt |-> task[t].attempt] \in held[w]
              \/ task[t].attempt = MaxAttempts /\ task'[t].status = "failed"]_vars

\* The rows and events implement the task life cycle.
Lifecycle == INSTANCE TaskLifecycle WITH
    tries <- [t \in Tasks |-> task[t].attempt],
    outcome <- [t \in Tasks |-> IF Terminal(t) THEN task[t].status ELSE "none"]
ImplementsLifecycle == Lifecycle!Spec

\* The row's last attempt was lost: no worker may touch it any more, and only the reconciliation
\* settles it.
Stranded(t) ==
    Running(t) /\ task[t].attempt = MaxAttempts /\ task[t].lease <= -ClockSkew

\* Once the queues stay open, every task that nobody asks to cancel is tried until it is settled
\* or its last attempt is lost: the rows of crashed and stalled workers are claimed again.
EveryTaskServed ==
    <>[](\A o \in Orgs : queue[o] # "paused") =>
        <>(\A t \in Tasks : Terminal(t) \/ Stranded(t) \/ task[t].cancel)

\* Not promised (docs): a task whose lease expired on its last attempt goes to its final failure.
ExhaustedTaskFails ==
    \A t \in Tasks :
        task[t].attempt = MaxAttempts /\ Running(t) /\ task[t].lease <= 0 ~> Terminal(t)
=============================================================================
