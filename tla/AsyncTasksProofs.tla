-------------------------- MODULE AsyncTasksProofs --------------------------
(***************************************************************************)
(* Safety of the task runtime for any tasks, workers, caps, lease terms    *)
(* and clock skew.  The inductive invariant adds to TypeOK and OneOutcome  *)
(* that a running row was tried, and that a claim is a fence: a worker     *)
(* that still owns a row holds the row's latest attempt.                   *)
(***************************************************************************)
EXTENDS AsyncTasks, FiniteSetTheorems, TLAPS

RunningTried == \A t \in Tasks : Running(t) => task[t].attempt >= 1

HeldFence ==
    \A w \in Workers : \A c \in held[w] :
        Running(c.task) /\ task[c.task].owner = w => c.attempt = task[c.task].attempt

IInv == TypeOK /\ OneOutcome /\ RunningTried /\ HeldFence

\* The terminal statuses are none of the open ones, and reconciliation's status is among them.
LEMMA StatusDistinct == "queued" \notin Outcomes /\ "running" \notin Outcomes
                        /\ "none" \notin Outcomes /\ "failed" \in Outcomes
  BY ConstantsAssumption

\* Clock offsets and the values a lease takes are integers.
LEMMA TimesAreIntegers ==
  /\ NoLease \in Int
  /\ \A d \in Skews : d \in Int /\ LeaseTerm + d \in Int
  /\ \A n \in Int : Elapse(n) \in Int
  BY ConstantsAssumption DEF NoLease, Skews, Elapse

-----------------------------------------------------------------------------
\* A claim keeps the types: it takes only rows with an attempt left.
LEMMA ClaimType ==
  ASSUME TypeOK, NEW w \in Workers, NEW S \in SUBSET Tasks, NEW d \in Skews, Claim(w, S, d)
  PROVE  TypeOK'
  <1>1. ASSUME NEW t \in S
        PROVE  task[t] \in Row /\ task[t].attempt + 1 \in 1 .. MaxAttempts
    <2>1. task[t] \in Row
      BY DEF TypeOK
    <2>2. task[t].attempt < MaxAttempts
      BY DEF Claim, Claimable
    <2>3. task[t].attempt \in 0 .. MaxAttempts
      BY <2>1 DEF Row
    <2> QED BY <2>1, <2>2, <2>3, ConstantsAssumption
  <1>2. task' \in [Tasks -> Row]
    <2> SUFFICES ASSUME NEW t \in Tasks
                 PROVE  task'[t] \in Row
      BY DEF Claim
    <2>1. CASE t \in S
      <3> DEFINE r == [task[t] EXCEPT !.status = "running", !.owner = w,
                                      !.lease = LeaseTerm + d, !.attempt = @ + 1]
      <3>1. task'[t] = r
        BY <2>1 DEF Claim
      <3>2. task[t] \in Row
        BY <2>1, <1>1
      <3>3. task[t].attempt + 1 \in 0 .. MaxAttempts
        BY <2>1, <1>1, ConstantsAssumption
      <3>4. LeaseTerm + d \in Int
        BY TimesAreIntegers
      <3>5. r \in Row
        BY <3>2, <3>3, <3>4 DEF Row
      <3> QED BY <3>1, <3>5
    <2>2. CASE t \notin S
      BY <2>2 DEF Claim, TypeOK
    <2> QED BY <2>1, <2>2
  <1>3. held' \in [Workers -> SUBSET Claims]
    <2>1. {[task |-> t, attempt |-> task[t].attempt + 1] : t \in S} \in SUBSET Claims
      BY <1>1 DEF Claims
    <2> QED BY <2>1 DEF Claim, TypeOK
  <1> QED BY <1>2, <1>3 DEF Claim, TypeOK

\* Renewal and the passing of time change only times.
LEMMA TimesType ==
  ASSUME TypeOK,
         \/ \E w \in Workers, c \in Claims, d \in Skews : c \in held[w] /\ Renew(w, c, d)
         \/ Tick
  PROVE  TypeOK'
  <1>1. ASSUME NEW w \in Workers, NEW c \in Claims, NEW d \in Skews, Renew(w, c, d)
        PROVE  TypeOK'
    <2>1. LeaseTerm + d \in Int
      BY TimesAreIntegers
    <2>2. c.task \in Tasks
      BY DEF Claims
    <2>3. [task[c.task] EXCEPT !.lease = LeaseTerm + d] \in Row
      BY <2>1, <2>2 DEF TypeOK, Row
    <2> QED BY <1>1, <2>2, <2>3 DEF Renew, TypeOK
  <1>2. ASSUME Tick
        PROVE  TypeOK'
    <2>1. ASSUME NEW t \in Tasks
          PROVE  [task[t] EXCEPT !.lease = Elapse(@), !.delay = Elapse(@)] \in Row
      <3>1. task[t] \in Row
        BY DEF TypeOK
      <3>2. Elapse(task[t].lease) \in Int /\ Elapse(task[t].delay) \in Int
        BY <3>1, TimesAreIntegers DEF Row
      <3> QED BY <3>1, <3>2 DEF Row
    <2> QED BY <1>2, <2>1 DEF Tick, TypeOK
  <1> QED BY <1>1, <1>2

\* A settled row is a row.
LEMMA SettledRow ==
  ASSUME NEW r \in Row, NEW s \in Outcomes
  PROVE  /\ Settled(r, s) \in Row
         /\ Settled(r, s).status = s
         /\ Settled(r, s).attempt = r.attempt
  <1>1. NoLease \in Int
    BY TimesAreIntegers
  <1> QED BY <1>1 DEF Settled, Row

\* What Finalize and Reconcile have in common: they settle one open row and add its event.
Settles(t, s) ==
    /\ task' = [task EXCEPT ![t] = Settled(@, s)]
    /\ events' = events \cup {[task |-> t, attempt |-> task[t].attempt, status |-> s]}
    /\ queue' = queue

\* A row that runs has no event yet, so reconciliation always writes one.
LEMMA ReconcileSettles ==
  ASSUME OneOutcome, NEW t \in Tasks, NEW d \in Skews, Reconcile(t, d)
  PROVE  Settles(t, "failed") /\ held' = held
  <1>1. ~ Terminal(t)
    BY StatusDistinct DEF Reconcile, Running, Terminal
  <1>2. ~ \E e \in events : e.task = t
    BY <1>1 DEF OneOutcome
  <1> QED BY <1>2 DEF Reconcile, Settles

\* Settling a row keeps the types.
LEMMA SettlesType ==
  ASSUME TypeOK, NEW t \in Tasks, NEW s \in Outcomes, Settles(t, s),
         held' \in [Workers -> SUBSET Claims]
  PROVE  TypeOK'
  <1>1. task[t] \in Row
    BY DEF TypeOK
  <1>2. task' \in [Tasks -> Row]
    BY <1>1, SettledRow DEF Settles, TypeOK
  <1>3. task[t].attempt \in 0 .. MaxAttempts
    BY <1>1 DEF Row
  <1>4. [task |-> t, attempt |-> task[t].attempt, status |-> s] \in Event
    BY <1>3 DEF Event
  <1> QED BY <1>2, <1>4 DEF Settles, TypeOK

\* Settling an open row gives it its one outcome and leaves the others theirs.
LEMMA SettlesOneOutcome ==
  ASSUME TypeOK, OneOutcome, NEW t \in Tasks, NEW s \in Outcomes, ~ Terminal(t), Settles(t, s)
  PROVE  OneOutcome'
  <1> DEFINE e0 == [task |-> t, attempt |-> task[t].attempt, status |-> s]
  <1>1. events' = events \cup {e0} /\ e0.task = t
    BY DEF Settles
  <1>2. ~ \E e \in events : e.task = t
    BY DEF OneOutcome
  <1>3. task'[t] = Settled(task[t], s)
    BY DEF Settles, TypeOK
  <1>4. task[t] \in Row
    BY DEF TypeOK
  <1>5. task'[t].status = s /\ task'[t].attempt = task[t].attempt
    BY <1>3, <1>4, SettledRow
  <1>6. ASSUME NEW u \in Tasks
        PROVE  /\ Terminal(u)' <=> \E e \in events' : e.task = u
               /\ \A e \in events' : e.task = u => /\ e.status = task'[u].status
                                                  /\ e.attempt = task'[u].attempt
               /\ \A e, f \in events' : e.task = u /\ f.task = u => e = f
    <2>1. CASE u = t
      <3>1. Terminal(t)'
        BY <1>5 DEF Terminal
      <3>2. \A e \in events' : e.task = t => e = e0
        BY <1>1, <1>2
      <3>3. e0.status = s /\ e0.attempt = task[t].attempt
        OBVIOUS
      <3> QED BY <2>1, <3>1, <3>2, <3>3, <1>1, <1>5
    <2>2. CASE u # t
      <3>1. task'[u] = task[u]
        BY <2>2 DEF Settles, TypeOK
      <3>2. \A e \in events' : e.task = u => e \in events
        BY <1>1, <2>2
      <3>3. events \subseteq events'
        BY <1>1
      <3>4. Terminal(u)' <=> Terminal(u)
        BY <3>1 DEF Terminal
      <3> QED BY <3>1, <3>2, <3>3, <3>4 DEF OneOutcome
    <2> QED BY <2>1, <2>2
  <1> QED BY <1>6 DEF OneOutcome

\* A step that changes no row's status, attempt or owner, nor the events, nor adds a claim.
Quiet ==
    /\ \A t \in Tasks : /\ task'[t].status = task[t].status
                        /\ task'[t].attempt = task[t].attempt
                        /\ task'[t].owner = task[t].owner
    /\ events' = events
    /\ \A w \in Workers : held'[w] \subseteq held[w]

\* Such steps keep the parts of the invariant that are not about types.
LEMMA QuietKeeps ==
  ASSUME IInv, Quiet
  PROVE  OneOutcome' /\ RunningTried' /\ HeldFence'
  <1>1. \A t \in Tasks : (Running(t)' <=> Running(t)) /\ (Terminal(t)' <=> Terminal(t))
    BY DEF Quiet, Running, Terminal
  <1>2. OneOutcome'
    BY <1>1 DEF IInv, OneOutcome, Quiet
  <1>3. RunningTried'
    BY <1>1 DEF IInv, RunningTried, Quiet
  <1>4. HeldFence'
    <2>1. \A w \in Workers : \A c \in held'[w] : c \in held[w] /\ c.task \in Tasks
      BY DEF Quiet, IInv, TypeOK, Claims
    <2> QED BY <1>1, <2>1 DEF IInv, HeldFence, Quiet
  <1> QED BY <1>2, <1>3, <1>4

LEMMA RenewStep ==
  ASSUME IInv, NEW w \in Workers, NEW c \in held[w], NEW d \in Skews, Renew(w, c, d)
  PROVE  IInv' /\ Quiet
  <1>1. c \in Claims
    BY DEF IInv, TypeOK
  <1>2. c.task \in Tasks /\ task[c.task] \in Row
    BY <1>1 DEF Claims, IInv, TypeOK
  <1>3. \A t \in Tasks : task'[t] = IF t = c.task
                                   THEN [task[t] EXCEPT !.lease = LeaseTerm + d] ELSE task[t]
    BY <1>2 DEF Renew, IInv, TypeOK
  <1>4. Quiet
    <2>1. \A t \in Tasks : task[t] \in Row
      BY DEF IInv, TypeOK
    <2> QED BY <1>3, <2>1 DEF Quiet, Renew, Row
  <1>5. TypeOK'
    BY <1>1, TimesType DEF IInv
  <1> QED BY <1>4, <1>5, QuietKeeps DEF IInv

LEMMA TickStep ==
  ASSUME IInv, Tick
  PROVE  IInv' /\ Quiet
  <1>1. \A t \in Tasks : task[t] \in Row
    BY DEF IInv, TypeOK
  <1>2. Quiet
    BY <1>1 DEF Quiet, Tick, Row
  <1>3. TypeOK'
    BY TimesType DEF IInv
  <1> QED BY <1>2, <1>3, QuietKeeps DEF IInv

\* A worker drops claims: its finalizer was refused, or it crashed.
LEMMA DropStep ==
  ASSUME IInv, UNCHANGED <<task, queue, events>>, NEW w \in Workers, NEW H \in SUBSET held[w],
         held' = [held EXCEPT ![w] = H]
  PROVE  IInv' /\ Quiet
  <1>1. held \in [Workers -> SUBSET Claims]
    BY DEF IInv, TypeOK
  <1>2. held' \in [Workers -> SUBSET Claims] /\ \A v \in Workers : held'[v] \subseteq held[v]
    BY <1>1
  <1>3. Quiet
    BY <1>2 DEF Quiet
  <1>4. TypeOK'
    BY <1>2 DEF IInv, TypeOK
  <1> QED BY <1>3, <1>4, QuietKeeps DEF IInv

LEMMA SetQueueStep ==
  ASSUME IInv, NEW o \in Orgs, NEW s \in QueueStates, SetQueue(o, s)
  PROVE  IInv' /\ Quiet
  <1>1. Quiet
    BY DEF Quiet, SetQueue
  <1>2. TypeOK'
    BY DEF IInv, TypeOK, SetQueue
  <1> QED BY <1>1, <1>2, QuietKeeps DEF IInv

LEMMA CancelStep ==
  ASSUME IInv, NEW t \in Tasks, RequestCancel(t)
  PROVE  IInv' /\ Quiet
  <1>1. task \in [Tasks -> Row]
    BY DEF IInv, TypeOK
  <1>2. [task[t] EXCEPT !.cancel = TRUE] \in Row
    BY <1>1 DEF Row
  <1>3. task' = [task EXCEPT ![t] = [task[t] EXCEPT !.cancel = TRUE]]
    BY <1>1 DEF RequestCancel
  <1>4. \A u \in Tasks : /\ task'[u].status = task[u].status
                          /\ task'[u].attempt = task[u].attempt
                          /\ task'[u].owner = task[u].owner
    <2>1. \A u \in Tasks : u # t => task'[u] = task[u]
      BY <1>1, <1>3
    <2>2. task'[t] = [task[t] EXCEPT !.cancel = TRUE] /\ task[t] \in Row
      BY <1>1, <1>3
    <2> QED BY <2>1, <2>2 DEF Row
  <1>5. Quiet
    BY <1>4 DEF Quiet, RequestCancel
  <1>6. TypeOK'
    BY <1>1, <1>2, <1>3 DEF IInv, TypeOK, RequestCancel
  <1> QED BY <1>5, <1>6, QuietKeeps DEF IInv

\* A claim adds an attempt to rows that have no outcome; the claimer held nothing before and
\* becomes their owner, so every claim it holds, and every other owner's, is the latest.
LEMMA ClaimStep ==
  ASSUME IInv, NEW w \in Workers, NEW S \in SUBSET Tasks, NEW d \in Skews, Claim(w, S, d)
  PROVE  IInv'
  <1> DEFINE fresh == {[task |-> t, attempt |-> task[t].attempt + 1] : t \in S}
  <1>1. \A t \in Tasks : task[t] \in Row
    BY DEF IInv, TypeOK
  <1>2. ASSUME NEW t \in S
        PROVE  /\ ~ Terminal(t)
               /\ task'[t].status = "running"
               /\ task'[t].owner = w
               /\ task'[t].attempt = task[t].attempt + 1
    <2>1. ~ Terminal(t)
      BY StatusDistinct DEF Claim, Claimable, Terminal, Running
    <2>2. t \in Tasks /\ task[t] \in Row
      BY <1>1
    <2>3. task'[t] = [task[t] EXCEPT !.status = "running", !.owner = w,
                                     !.lease = LeaseTerm + d, !.attempt = @ + 1]
      BY <2>2 DEF Claim
    <2> QED BY <2>1, <2>2, <2>3 DEF Row
  <1>3. ASSUME NEW t \in Tasks, t \notin S
        PROVE  task'[t] = task[t]
    BY <1>3 DEF Claim
  <1>4. TypeOK'
    BY ClaimType DEF IInv
  <1>5. OneOutcome'
    <2>1. \A t \in Tasks : Terminal(t)' <=> Terminal(t)
      BY <1>2, <1>3, StatusDistinct DEF Terminal
    <2>2. \A t \in S : ~ \E e \in events : e.task = t
      BY <1>2 DEF IInv, OneOutcome
    <2>3. events' = events
      BY DEF Claim
    <2> QED BY <1>3, <2>1, <2>2, <2>3 DEF IInv, OneOutcome
  <1>6. RunningTried'
    <2> SUFFICES ASSUME NEW t \in Tasks, Running(t)'
                 PROVE  task'[t].attempt >= 1
      BY DEF RunningTried
    <2>1. CASE t \in S
      <3>1. task[t].attempt \in 0 .. MaxAttempts
        BY <1>1 DEF Row
      <3> QED BY <2>1, <3>1, <1>2
    <2>2. CASE t \notin S
      BY <2>2, <1>3 DEF Running, IInv, RunningTried
    <2> QED BY <2>1, <2>2
  <1>7. HeldFence'
    <2> SUFFICES ASSUME NEW v \in Workers, NEW c \in held'[v],
                        Running(c.task)', task'[c.task].owner = v
                 PROVE  c.attempt = task'[c.task].attempt
      BY DEF HeldFence
    <2>1. held \in [Workers -> SUBSET Claims] /\ held' = [held EXCEPT ![w] = fresh]
      BY DEF IInv, TypeOK, Claim
    <2>2. CASE v = w
      <3>1. c \in fresh
        BY <2>1, <2>2
      <3>2. PICK t \in S : c = [task |-> t, attempt |-> task[t].attempt + 1]
        BY <3>1
      <3> QED BY <3>2, <1>2
    <2>3. CASE v # w
      <3>1. c \in held[v] /\ c.task \in Tasks
        BY <2>1, <2>3 DEF Claims
      <3>2. c.task \notin S
        BY <1>2, <2>3
      <3>3. task'[c.task] = task[c.task]
        BY <3>1, <3>2, <1>3
      <3> QED BY <3>1, <3>3 DEF Running, IInv, HeldFence
    <2> QED BY <2>2, <2>3
  <1> QED BY <1>4, <1>5, <1>6, <1>7 DEF IInv

\* Settling an open row, and dropping the claim on it, keeps the invariant.
LEMMA SettlesStep ==
  ASSUME IInv, NEW t \in Tasks, NEW s \in Outcomes, Running(t), Settles(t, s),
         held' \in [Workers -> SUBSET Claims], \A w \in Workers : held'[w] \subseteq held[w]
  PROVE  IInv'
  <1>1. ~ Terminal(t)
    BY StatusDistinct DEF Running, Terminal
  <1>2. TypeOK' /\ OneOutcome'
    BY <1>1, SettlesType, SettlesOneOutcome DEF IInv
  <1>3. task[t] \in Row /\ task'[t] = Settled(task[t], s)
    BY DEF Settles, IInv, TypeOK
  <1>4. ~ Running(t)'
    BY <1>3, SettledRow, StatusDistinct DEF Running
  <1>5. \A u \in Tasks : u # t => task'[u] = task[u]
    BY DEF Settles, IInv, TypeOK
  <1>6. RunningTried'
    BY <1>4, <1>5 DEF IInv, RunningTried, Running
  <1>7. HeldFence'
    <2>1. \A w \in Workers : \A c \in held'[w] : c \in held[w] /\ c.task \in Tasks
      BY DEF Claims
    <2> QED BY <1>4, <1>5, <2>1 DEF IInv, HeldFence, Running
  <1> QED BY <1>2, <1>6, <1>7 DEF IInv

\* What a step of the finalizer does when it writes.
LEMMA FinalizeSettles ==
  ASSUME IInv, NEW w \in Workers, NEW c \in held[w], NEW s \in Outcomes, NEW d \in Skews,
         Finalize(w, c, s, d)
  PROVE  /\ c.task \in Tasks
         /\ c = [task |-> c.task, attempt |-> task[c.task].attempt]
         /\ Running(c.task)
         /\ Settles(c.task, s)
         /\ held' \in [Workers -> SUBSET Claims]
         /\ \A v \in Workers : held'[v] \subseteq held[v]
  <1>1. c \in Claims /\ held \in [Workers -> SUBSET Claims]
    BY DEF IInv, TypeOK
  <1>2. c.task \in Tasks
    BY <1>1 DEF Claims
  <1>3. Running(c.task) /\ task[c.task].owner = w
    BY DEF Finalize, Owns
  <1>4. c.attempt = task[c.task].attempt
    BY <1>3 DEF IInv, HeldFence
  <1>5. c = [task |-> c.task, attempt |-> task[c.task].attempt]
    BY <1>1, <1>4 DEF Claims
  <1>6. Settles(c.task, s)
    BY DEF Finalize, Settles
  <1>7. held' = [held EXCEPT ![w] = @ \ {c}]
    BY DEF Finalize, Finish
  <1>8. /\ held' \in [Workers -> SUBSET Claims]
        /\ \A v \in Workers : held'[v] \subseteq held[v]
    BY <1>1, <1>7
  <1> QED BY <1>2, <1>3, <1>5, <1>6, <1>8

-----------------------------------------------------------------------------
\* The ways a step of the runtime can look, each with what the theorems below need of it.
ClaimLook(w, S, d) == w \in Workers /\ S \in SUBSET Tasks /\ d \in Skews /\ Claim(w, S, d)
SettleLook(t, s) ==
    /\ t \in Tasks
    /\ s \in Outcomes
    /\ Running(t)
    /\ Settles(t, s)
    /\ \/ \E w \in Workers : [task |-> t, attempt |-> task[t].attempt] \in held[w]
       \/ s = "failed" /\ task[t].attempt = MaxAttempts

\* Every step claims a batch, settles a row, or leaves status, attempt and outcome alone; and
\* it keeps the invariant.
LEMMA StepLooks ==
  ASSUME IInv, [Next]_vars
  PROVE  /\ IInv'
         /\ \/ Quiet
            \/ \E w \in Workers, S \in SUBSET Tasks, d \in Skews : ClaimLook(w, S, d)
            \/ \E t \in Tasks, s \in Outcomes : SettleLook(t, s)
  <1> DEFINE Goal == /\ IInv'
                     /\ \/ Quiet
                        \/ \E w \in Workers, S \in SUBSET Tasks, d \in Skews :
                              ClaimLook(w, S, d)
                        \/ \E t \in Tasks, s \in Outcomes : SettleLook(t, s)
  <1>1. ASSUME NEW w \in Workers, ClaimSome(w)
        PROVE  Goal
    <2>1. PICK S \in SUBSET Tasks, d \in Skews : Claim(w, S, d)
      BY <1>1 DEF ClaimSome
    <2> QED BY <2>1, ClaimStep DEF ClaimLook
  <1>2. ASSUME NEW w \in Workers, RenewSome(w)
        PROVE  Goal
    BY <1>2, RenewStep DEF RenewSome
  <1>3. ASSUME NEW w \in Workers, FinalizeSome(w)
        PROVE  Goal
    <2>1. PICK c \in held[w], d \in Skews : \/ \E s \in Outcomes : Finalize(w, c, s, d)
                                            \/ FinalizeRefused(w, c, d)
      BY <1>3 DEF FinalizeSome
    <2>2. ASSUME NEW s \in Outcomes, Finalize(w, c, s, d)
          PROVE  Goal
      <3>1. /\ c.task \in Tasks
            /\ c = [task |-> c.task, attempt |-> task[c.task].attempt]
            /\ Running(c.task)
            /\ Settles(c.task, s)
            /\ held' \in [Workers -> SUBSET Claims]
            /\ \A v \in Workers : held'[v] \subseteq held[v]
        BY <2>2, FinalizeSettles
      <3>2. IInv'
        BY <3>1, SettlesStep
      <3>3. SettleLook(c.task, s)
        BY <3>1 DEF SettleLook
      <3> QED BY <3>1, <3>2, <3>3
    <2>3. ASSUME FinalizeRefused(w, c, d)
          PROVE  Goal
      <3>1. /\ UNCHANGED <<task, queue, events>>
            /\ held' = [held EXCEPT ![w] = held[w] \ {c}]
        BY <2>3 DEF FinalizeRefused, Finish
      <3>2. held[w] \ {c} \in SUBSET held[w]
        OBVIOUS
      <3> QED BY <3>1, <3>2, DropStep
    <2> QED BY <2>1, <2>2, <2>3
  <1>4. ASSUME NEW w \in Workers, Crash(w)
        PROVE  Goal
    <2>1. {} \in SUBSET held[w]
      OBVIOUS
    <2> QED BY <1>4, <2>1, DropStep DEF Crash
  <1>5. ASSUME NEW o \in Orgs, NEW s \in QueueStates, SetQueue(o, s)
        PROVE  Goal
    BY <1>5, SetQueueStep
  <1>6. ASSUME Tick
        PROVE  Goal
    BY <1>6, TickStep
  <1>7. ASSUME ReconcileSome
        PROVE  Goal
    <2>1. PICK t \in Tasks, d \in Skews : Reconcile(t, d)
      BY <1>7 DEF ReconcileSome
    <2>2. Settles(t, "failed") /\ held' = held /\ Running(t)
      BY <2>1, ReconcileSettles DEF IInv, Reconcile
    <2>3. held' \in [Workers -> SUBSET Claims] /\ \A w \in Workers : held'[w] \subseteq held[w]
      BY <2>2 DEF IInv, TypeOK
    <2>4. IInv'
      BY <2>2, <2>3, SettlesStep, StatusDistinct
    <2>5. task[t].attempt = MaxAttempts
      <3>1. task[t] \in Row
        BY DEF IInv, TypeOK
      <3>2. task[t].attempt \in 0 .. MaxAttempts /\ task[t].attempt >= MaxAttempts
        BY <2>1, <3>1 DEF Row, Reconcile
      <3> QED BY <3>2, ConstantsAssumption
    <2>6. SettleLook(t, "failed")
      BY <2>2, <2>5, StatusDistinct DEF SettleLook
    <2> QED BY <2>4, <2>6, StatusDistinct
  <1>8. ASSUME UNCHANGED vars
        PROVE  Goal
    <2>1. UNCHANGED <<task, queue, events, held>>
      BY <1>8 DEF vars
    <2>2. Quiet
      BY <2>1 DEF Quiet
    <2>3. TypeOK'
      BY <2>1 DEF IInv, TypeOK
    <2> QED BY <2>2, <2>3, QuietKeeps DEF IInv
  <1>9. ASSUME NEW t \in Tasks, RequestCancel(t)
        PROVE  Goal
    BY <1>9, CancelStep
  <1> QED
    BY <1>1, <1>2, <1>3, <1>4, <1>5, <1>6, <1>7, <1>8, <1>9, ConstantsAssumption DEF Next

LEMMA InitIInv == Init => IInv
  <1> SUFFICES ASSUME Init
               PROVE  IInv
    OBVIOUS
  <1>1. TypeOK
    <2>1. NoLease \in Int
      BY TimesAreIntegers
    <2>2. \A t \in Tasks : InitialDelay[t] \in Int
      BY ConstantsAssumption
    <2>3. 0 \in 0 .. MaxAttempts
      BY ConstantsAssumption
    <2>4. \A t \in Tasks : [status |-> "queued", attempt |-> 0, owner |-> NoWorker,
                            lease |-> NoLease, delay |-> InitialDelay[t],
                            cancel |-> FALSE] \in Row
      BY <2>1, <2>2, <2>3 DEF Row
    <2> QED BY <2>4 DEF Init, TypeOK, QueueStates
  <1>2. OneOutcome
    BY StatusDistinct DEF Init, OneOutcome, Terminal
  <1>3. RunningTried
    BY DEF Init, RunningTried, Running
  <1>4. HeldFence
    BY DEF Init, HeldFence
  <1> QED BY <1>1, <1>2, <1>3, <1>4 DEF IInv

-----------------------------------------------------------------------------
Batch(o, S) == {t \in S : OrgOf[t] = o}

\* Without skew every clock reads the same, and time only takes from a lease.
LEMMA ExactClocks ==
  ASSUME ClockSkew = 0
  PROVE  /\ Skews = {0} /\ NoLease = -1
         /\ \A n \in Int : Elapse(n) <= n
  BY ConstantsAssumption DEF Skews, NoLease, Elapse

\* Any set of rows can be counted.
LEMMA Countable ==
  ASSUME NEW A \in SUBSET Tasks
  PROVE  IsFiniteSet(A) /\ Cardinality(A) \in Nat
  BY FS_Subset, FS_CardinalityType, ConstantsAssumption

\* A step after which the organization's leases are some of those it had.
LEMMA FewerLeases ==
  ASSUME NEW o \in Orgs, Cardinality(Active(o, 0)) <= PerOrgLimit,
         Active(o, 0)' \subseteq Active(o, 0)
  PROVE  Cardinality(Active(o, 0)') <= PerOrgLimit
  <1> DEFINE A == Active(o, 0)
             B == Active(o, 0)'
  <1>1. A \in SUBSET Tasks /\ B \in SUBSET Tasks /\ B \subseteq A
    BY DEF Active
  <1> HIDE DEF A, B
  <1>2. IsFiniteSet(A) /\ Cardinality(A) \in Nat /\ Cardinality(B) \in Nat
    BY <1>1, Countable
  <1>3. Cardinality(B) <= Cardinality(A)
    BY <1>1, <1>2, FS_Subset
  <1>4. Cardinality(A) <= PerOrgLimit
    BY DEF A
  <1>5. Cardinality(B) <= PerOrgLimit
    BY <1>2, <1>3, <1>4, ConstantsAssumption
  <1> QED BY <1>5 DEF B

\* A claim adds its batch to the leases it has counted under the organization's lock.
LEMMA ClaimCap ==
  ASSUME IInv, ClockSkew = 0, NEW w \in Workers, NEW S \in SUBSET Tasks, Claim(w, S, 0),
         NEW o \in Orgs, Cardinality(Active(o, 0)) <= PerOrgLimit
  PROVE  Cardinality(Active(o, 0)') <= PerOrgLimit
  <1> DEFINE A == Active(o, 0)
             B == Batch(o, S)
  <1>1. Active(o, 0)' \subseteq A \cup B
    BY DEF Claim, Active, Running, Batch
  <1>2. CASE B = {}
    BY <1>1, <1>2, FewerLeases
  <1>3. CASE B # {}
    <2>1. o \in {OrgOf[t] : t \in S}
      BY <1>3 DEF Batch
    <2>2. Cardinality(A) + Cardinality(B) <= PerOrgLimit
      BY <2>1 DEF Claim, UnderCap, Batch
    <2>3. A \in SUBSET Tasks /\ B \in SUBSET Tasks /\ A \cup B \in SUBSET Tasks
          /\ A \cap B \in SUBSET Tasks /\ Active(o, 0)' \in SUBSET Tasks
      BY DEF Active, Batch
    <2> DEFINE C == Active(o, 0)'
    <2> HIDE DEF A, B, C
    <2>4. IsFiniteSet(A) /\ IsFiniteSet(B) /\ IsFiniteSet(A \cup B)
      BY <2>3, Countable
    <2>5. /\ Cardinality(A) \in Nat /\ Cardinality(B) \in Nat /\ Cardinality(C) \in Nat
          /\ Cardinality(A \cap B) \in Nat /\ Cardinality(A \cup B) \in Nat
      BY <2>3, Countable DEF C
    <2>6. Cardinality(A \cup B) = Cardinality(A) + Cardinality(B) - Cardinality(A \cap B)
      BY <2>4, FS_Union
    <2>7. Cardinality(C) <= Cardinality(A \cup B)
      BY <1>1, <2>4, FS_Subset DEF C
    <2>8. Cardinality(C) <= PerOrgLimit
      BY <2>2, <2>5, <2>6, <2>7, ConstantsAssumption
    <2> QED BY <2>8 DEF C
  <1> QED BY <1>2, <1>3

\* No other step gives an organization a lease: a renewal finds its own still live.
LEMMA CapStep ==
  ASSUME IInv, [Next]_vars, ClockSkew = 0,
         NEW o \in Orgs, Cardinality(Active(o, 0)) <= PerOrgLimit
  PROVE  Cardinality(Active(o, 0)') <= PerOrgLimit
  <1>1. \A t \in Tasks : task[t] \in Row /\ task[t].lease \in Int
    BY DEF IInv, TypeOK, Row
  <1>2. ASSUME task' = task
        PROVE  Active(o, 0)' \subseteq Active(o, 0)
    BY <1>2 DEF Active, Running
  <1>3. ASSUME NEW t \in Tasks, NEW s \in Outcomes, Settles(t, s)
        PROVE  Active(o, 0)' \subseteq Active(o, 0)
    <2>1. \A u \in Tasks : u # t => task'[u] = task[u]
      BY <1>3 DEF Settles, IInv, TypeOK
    <2>2. task'[t].status = s
      BY <1>1, <1>3, SettledRow DEF Settles, IInv, TypeOK
    <2>3. t \notin Active(o, 0)'
      BY <2>2, StatusDistinct DEF Active, Running
    <2> QED BY <2>1, <2>3 DEF Active, Running
  <1>4. ASSUME NEW w \in Workers, ClaimSome(w)
        PROVE  Cardinality(Active(o, 0)') <= PerOrgLimit
    BY <1>4, ClaimCap, ExactClocks DEF ClaimSome
  <1>5. ASSUME NEW w \in Workers, NEW c \in held[w], Renew(w, c, 0)
        PROVE  Active(o, 0)' \subseteq Active(o, 0)
    <2>1. c.task \in Tasks
      BY DEF IInv, TypeOK, Claims
    <2>2. \A t \in Tasks : t # c.task => task'[t] = task[t]
      BY <1>5 DEF Renew, IInv, TypeOK
    <2>3. Running(c.task) /\ task[c.task].lease > 0
      BY <1>5 DEF Renew, Owns
    <2> QED BY <2>1, <2>2, <2>3 DEF Active, Running
  <1>6. ASSUME NEW w \in Workers, FinalizeSome(w)
        PROVE  Active(o, 0)' \subseteq Active(o, 0)
    <2>1. PICK c \in held[w], d \in Skews : \/ \E s \in Outcomes : Finalize(w, c, s, d)
                                            \/ FinalizeRefused(w, c, d)
      BY <1>6 DEF FinalizeSome
    <2>2. CASE FinalizeRefused(w, c, d)
      BY <1>2, <2>2 DEF FinalizeRefused
    <2>3. ASSUME NEW s \in Outcomes, Finalize(w, c, s, d)
          PROVE  Active(o, 0)' \subseteq Active(o, 0)
      <3>1. c.task \in Tasks /\ Settles(c.task, s)
        BY <2>3, FinalizeSettles
      <3> QED BY <1>3, <3>1
    <2> QED BY <2>1, <2>2, <2>3
  <1>7. ASSUME Tick
        PROVE  Active(o, 0)' \subseteq Active(o, 0)
    <2>1. ASSUME NEW t \in Tasks
          PROVE  /\ task'[t].status = task[t].status
                 /\ task'[t].lease \in Int /\ task'[t].lease <= task[t].lease
      <3>1. task'[t] = [task[t] EXCEPT !.lease = Elapse(@), !.delay = Elapse(@)]
        BY <1>7 DEF Tick
      <3>2. task'[t].status = task[t].status /\ task'[t].lease = Elapse(task[t].lease)
        BY <1>1, <3>1 DEF Row
      <3> QED BY <1>1, <3>2, ExactClocks, TimesAreIntegers
    <2> QED BY <1>1, <2>1 DEF Active, Running
  <1>8. ASSUME ReconcileSome
        PROVE  Active(o, 0)' \subseteq Active(o, 0)
    BY <1>3, <1>8, ReconcileSettles, StatusDistinct DEF ReconcileSome, IInv
  <1>9. ASSUME NEW w \in Workers, RenewSome(w)
        PROVE  Active(o, 0)' \subseteq Active(o, 0)
    BY <1>5, <1>9, ExactClocks DEF RenewSome
  <1>10. ASSUME \/ UNCHANGED vars
                \/ \E w \in Workers : Crash(w)
                \/ \E v \in Orgs, s \in QueueStates : SetQueue(v, s)
         PROVE  Active(o, 0)' \subseteq Active(o, 0)
    <2>1. task' = task
      BY <1>10 DEF vars, Crash, SetQueue
    <2> QED BY <1>2, <2>1
  <1>11. ASSUME NEW t \in Tasks, RequestCancel(t)
         PROVE  Active(o, 0)' \subseteq Active(o, 0)
    <2>1. \A u \in Tasks : u # t => task'[u] = task[u]
      BY <1>11 DEF RequestCancel, IInv, TypeOK
    <2>2. task'[t].status = task[t].status /\ task'[t].lease = task[t].lease
      BY <1>1, <1>11 DEF RequestCancel, IInv, TypeOK, Row
    <2> QED BY <2>1, <2>2 DEF Active, Running
  <1>12. Active(o, 0)' \subseteq Active(o, 0) \/ \E w \in Workers : ClaimSome(w)
    BY <1>6, <1>7, <1>8, <1>9, <1>10, <1>11, ConstantsAssumption DEF Next
  <1> QED BY <1>4, <1>12, FewerLeases

LEMMA InitCap == Init => OrgCap
  <1> SUFFICES ASSUME Init, NEW o \in Orgs PROVE Cardinality(Active(o, 0)) <= PerOrgLimit
    BY DEF OrgCap
  <1>1. Active(o, 0) = {}
    BY StatusDistinct DEF Init, Active, Running
  <1> QED BY <1>1, FS_EmptySet, ConstantsAssumption

-----------------------------------------------------------------------------
\* The invariant holds in every run, with or without reconciliation.
THEOREM Invariance == Spec => []IInv
  <1>1. IInv /\ [Next]_vars => IInv'
    BY StepLooks
  <1> QED BY <1>1, InitIInv, PTL DEF Spec

\* Rows keep their types for any number of tasks and workers and any clock skew; above all no
\* row is ever claimed more than max_attempts times.
THEOREM TypeCorrect == Spec => []TypeOK
  BY Invariance, PTL DEF IInv

\* Each settled row has exactly one terminal event, which tells its status and attempt.
THEOREM OneOutcomeHolds == Spec => []OneOutcome
  BY Invariance, PTL DEF IInv

\* With exact clocks no organization ever has more live leases than its cap, for any cap and any
\* batches: a claim counts the others' leases and its own batch under one lock.
THEOREM OrgCapHolds == Spec => []OrgCap
  <1>1. IInv /\ OrgCap /\ [Next]_vars => OrgCap'
    BY CapStep DEF OrgCap
  <1> QED BY <1>1, InitCap, Invariance, PTL DEF Spec

\* Only the latest claim, or reconciliation of an exhausted row, settles a row.
THEOREM LatestClaimDecides == Spec => OutcomeByLatestClaim
  <1> DEFINE Rule(t) == ~ Terminal(t) /\ Terminal(t)' =>
                \/ \E w \in Workers : [task |-> t, attempt |-> task[t].attempt] \in held[w]
                \/ task[t].attempt = MaxAttempts /\ task'[t].status = "failed"
  <1>1. ASSUME IInv, [Next]_vars, NEW t \in Tasks
        PROVE  Rule(t)
    <2>1. \A u \in Tasks : task[u] \in Row
      BY <1>1 DEF IInv, TypeOK
    <2>2. CASE Quiet
      BY <2>2 DEF Quiet, Terminal
    <2>3. ASSUME NEW w \in Workers, NEW S \in SUBSET Tasks, NEW d \in Skews, ClaimLook(w, S, d)
          PROVE  Rule(t)
      <3>1. t \in S => task'[t].status = "running"
        BY <2>1, <2>3 DEF ClaimLook, Claim, Row
      <3>2. t \notin S => task'[t] = task[t]
        BY <2>3 DEF ClaimLook, Claim
      <3> QED BY <3>1, <3>2, StatusDistinct DEF Terminal
    <2>4. ASSUME NEW u \in Tasks, NEW s \in Outcomes, SettleLook(u, s)
          PROVE  Rule(t)
      <3>1. u # t => task'[t] = task[t]
        BY <1>1, <2>4 DEF SettleLook, Settles, IInv, TypeOK
      <3>2. task'[u] = Settled(task[u], s)
        BY <1>1, <2>4 DEF SettleLook, Settles, IInv, TypeOK
      <3>3. task'[u].status = s
        BY <3>2, <2>1, SettledRow
      <3> QED BY <2>4, <3>1, <3>3 DEF SettleLook, Terminal
    <2> QED BY <1>1, <2>2, <2>3, <2>4, StepLooks
  <1>2. IInv /\ [Next]_vars => [\A t \in Tasks : Rule(t)]_vars
    BY <1>1
  <1> QED BY <1>2, Invariance, PTL DEF Spec, OutcomeByLatestClaim

\* The runtime implements the task life cycle: claims are tries, finalizing and reconciling
\* settle, and every other step, crashes and lapsed leases included, is invisible.
THEOREM Refinement == Spec => ImplementsLifecycle
  <1>1. Init => Lifecycle!Init
    BY StatusDistinct DEF Init, Lifecycle!Init, Terminal
  <1>2. ASSUME IInv, [Next]_vars
        PROVE  [Lifecycle!Next]_(Lifecycle!vars)
    <2> DEFINE tries == [t \in Tasks |-> task[t].attempt]
    <2> DEFINE outcome == [t \in Tasks |-> IF Terminal(t) THEN task[t].status ELSE "none"]
    <2>1. \A t \in Tasks : task[t] \in Row
      BY <1>2 DEF IInv, TypeOK
    <2>2. CASE Quiet
      <3>1. tries' = tries /\ outcome' = outcome
        BY <2>2 DEF Quiet, Terminal
      <3> QED BY <3>1 DEF Lifecycle!vars
    <2>3. ASSUME NEW w \in Workers, NEW S \in SUBSET Tasks, NEW d \in Skews, ClaimLook(w, S, d)
          PROVE  Lifecycle!Next
      <3>1. \A t \in S : /\ task'[t].status = "running"
                         /\ task'[t].attempt = task[t].attempt + 1
        BY <2>1, <2>3 DEF ClaimLook, Claim, Row
      <3>2. \A t \in Tasks : t \notin S => task'[t] = task[t]
        BY <2>3 DEF ClaimLook, Claim
      <3>3. \A t \in S : ~ Terminal(t) /\ task[t].attempt < MaxAttempts
        BY <2>3, StatusDistinct DEF ClaimLook, Claim, Claimable, Terminal, Running
      <3>4. \A t \in Tasks : Terminal(t)' <=> Terminal(t)
        BY <3>1, <3>2, <3>3, StatusDistinct DEF Terminal
      <3>5. outcome' = outcome
        BY <3>2, <3>3, <3>4
      <3>6. tries' = [t \in Tasks |-> IF t \in S THEN tries[t] + 1 ELSE tries[t]]
        BY <3>1, <3>2
      <3>7. \A t \in S : outcome[t] = "none" /\ tries[t] < MaxAttempts
        BY <3>3
      <3>8. Lifecycle!Try(S)
        BY <3>5, <3>6, <3>7 DEF Lifecycle!Try, Lifecycle!Open
      <3> QED BY <3>8 DEF Lifecycle!Next
    <2>4. ASSUME NEW t \in Tasks, NEW s \in Outcomes, SettleLook(t, s)
          PROVE  Lifecycle!Next
      <3>1. task'[t] = Settled(task[t], s) /\ \A u \in Tasks : u # t => task'[u] = task[u]
        BY <1>2, <2>4 DEF SettleLook, Settles, IInv, TypeOK
      <3>2. task'[t].status = s /\ task'[t].attempt = task[t].attempt
        BY <3>1, <2>1, SettledRow
      <3>3. ~ Terminal(t) /\ Terminal(t)'
        BY <2>4, <3>2, StatusDistinct DEF SettleLook, Running, Terminal
      <3>4. outcome' = [outcome EXCEPT ![t] = s]
        BY <3>1, <3>2, <3>3 DEF Terminal
      <3>5. tries' = tries
        BY <3>1, <3>2
      <3>6. tries[t] > 0
        <4>1. task[t].attempt >= 1 /\ task[t].attempt \in 0 .. MaxAttempts
          BY <1>2, <2>1, <2>4 DEF SettleLook, IInv, RunningTried, Row
        <4> QED BY <4>1
      <3>7. Lifecycle!Settle(t, s)
        BY <3>3, <3>4, <3>5, <3>6 DEF Lifecycle!Settle, Lifecycle!Open
      <3> QED BY <3>7 DEF Lifecycle!Next
    <2> QED BY <1>2, <2>2, <2>3, <2>4, StepLooks
  <1> QED BY <1>1, <1>2, Invariance, PTL DEF Spec, ImplementsLifecycle, Lifecycle!Spec
=============================================================================
