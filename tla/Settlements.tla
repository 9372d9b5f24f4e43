----------------------------- MODULE Settlements -----------------------------
(***************************************************************************)
(* Settlement batches of one project and one batch type: staff generate a  *)
(* batch from the pool of approved reports, resolve the rule exceptions of *)
(* its items, add manual items, confirm, lock and reopen it.               *)
(*                                                                         *)
(* Generating and resolving end in database functions, which lock their    *)
(* rows and are one action; everything else reads rows, awaits, and writes *)
(* the batch by id.  Batch types share no rows but the reports.  Which     *)
(* reports are approved is LiveReports' matter: a call may pick any that   *)
(* are not settled.  Money is reduced to whether an item has its amount.   *)
(***************************************************************************)
EXTENDS Integers, FiniteSets

CONSTANTS Batches,   \* periods, which may overlap; each has one batch at most
          Reports,
          Variables, \* what a custom rule may find missing for a report
          Requests,
          NoReport, NoVariable,
          MaxManual  \* bound on the manual items of a batch, of one unit each

ASSUME SettlementAssumption ==
    /\ NoReport \notin Reports
    /\ NoVariable \notin Variables
    /\ IsFiniteSet(Reports)
    /\ IsFiniteSet(Variables)
    /\ MaxManual \in Nat

VARIABLES batch,   \* settlement_batches
          item,    \* settlement_batch_items of reports, with their settlement_rule_exceptions
          manual,  \* the sum of a batch's manual items
          req      \* the step each request is at and what it has read

rows == <<batch, item, manual>>
vars == <<batch, item, manual, req>>

BatchStatus == {"none", "generated", "confirmed", "locked", "reopened"}
BatchRow == [status : BatchStatus, computed : Int, manualTotal : Nat]
\* One item per settled report: whether it has its amount, and the variables still to be
\* reviewed.
NoItem == [linked |-> FALSE, amount |-> 0, open |-> {}]
ItemRow == [linked : BOOLEAN, amount : {0, 1}, open : SUBSET Variables]

Steps == {"create", "resolve_list", "resolve_item", "resolve", "confirm_gate", "confirm",
          "lock_gate", "lock", "reopen", "insert", "total"}
Idle == [step |-> "idle"]
Walk == [step : Steps, of : Batches, picked : SUBSET Reports,
         report : Reports \cup {NoReport}, variable : Variables \cup {NoVariable},
         replay : BOOLEAN, old : {0, 1}, saw : Nat]

Init ==
    /\ batch = [b \in Batches |-> [status |-> "none", computed |-> 0, manualTotal |-> 0]]
    /\ item = [b \in Batches |-> [r \in Reports |-> NoItem]]
    /\ manual = [b \in Batches |-> 0]
    /\ req = [q \in Requests |-> Idle]

At(q, s) == req[q].step = s
B(q) == req[q].of
Go(q, s) == req' = [req EXCEPT ![q].step = s]
End(q) == req' = [req EXCEPT ![q] = Idle]
Start(b, s) == [step |-> s, of |-> b, picked |-> {}, report |-> NoReport,
                variable |-> NoVariable, replay |-> FALSE, old |-> 0, saw |-> 0]
Begin(q, b, s) == At(q, "idle") /\ req' = [req EXCEPT ![q] = Start(b, s)]

Settled(r) == \E b \in Batches : item[b][r].linked
SetStatus(b, s) == batch' = [batch EXCEPT ![b].status = s]

(***************************************************************************)
(* Generating a batch                                                      *)
(***************************************************************************)
\* generateSettlementBatch reads the pool and keeps the reports not yet settled, or those of
\* the selected streamers among them ...
ReadPool(q, b) ==
    /\ At(q, "idle")
    /\ \E picked \in SUBSET {r \in Reports : ~ Settled(r)} \ {{}} :
        req' = [req EXCEPT ![q] = [Start(b, "create") EXCEPT !.picked = picked]]
    /\ UNCHANGED rows

\* Faulty variant of Linkable: the pool's reading is trusted.
LinkableAsRead(q) == batch[B(q)].status = "none"

\* ... and generate_settlement_batch locks the reports, refuses any that has an item or a link
\* by now, and a second batch of the period ...
Linkable(q) ==
    /\ batch[B(q)].status = "none"
    /\ \A r \in req[q].picked : ~ Settled(r)

\* ... or inserts batch, items and links, and an exception for every variable its rules
\* missed, whose item then is a placeholder of no amount.
Create(q) ==
    /\ At(q, "create")
    /\ Linkable(q)
    /\ \E missing \in [req[q].picked -> SUBSET Variables] :
        LET amount(r) == IF missing[r] = {} THEN 1 ELSE 0 IN
        /\ item' = [item EXCEPT ![B(q)] = [r \in Reports |->
              IF r \in req[q].picked
              THEN [linked |-> TRUE, amount |-> amount(r), open |-> missing[r]]
              ELSE NoItem]]
        /\ batch' = [batch EXCEPT ![B(q)] =
              [status |-> "generated", manualTotal |-> 0,
               computed |-> Cardinality({r \in req[q].picked : missing[r] = {}})]]
    /\ End(q)
    /\ UNCHANGED manual

(***************************************************************************)
(* Resolving an exception                                                  *)
(***************************************************************************)
Closed == {"confirmed", "locked"}

\* resolveSettlementRuleException reads the batch ...
ReadToResolve(q, b) ==
    /\ batch[b].status \in {"generated", "reopened"}
    /\ Begin(q, b, "resolve_list")
    /\ UNCHANGED rows

\* ... then its exceptions: the rule is replayed when no other of the item is open ...
ListExceptions(q, r, v) ==
    /\ At(q, "resolve_list")
    /\ v \in item[B(q)][r].open
    /\ req' = [req EXCEPT ![q] = [@ EXCEPT !.step = "resolve_item", !.report = r,
                                           !.variable = v,
                                           !.replay = (item[B(q)][r].open = {v})]]
    /\ UNCHANGED rows

\* ... then its items, whose amount it will change or not.
ReadItem(q) ==
    /\ At(q, "resolve_item")
    /\ req' = [req EXCEPT ![q] = [@ EXCEPT !.step = "resolve",
                                           !.old = item[B(q)][req[q].report].amount]]
    /\ UNCHANGED rows

NewAmount(q) == IF req[q].replay THEN 1 ELSE req[q].old

\* Faulty variant of Resolvable: neither the exception nor the amount is looked at again.
ResolvableAsRead(q) == batch[B(q)].status \notin Closed

\* resolve_settlement_rule_exception wants the exception open, the amount as it was read and
\* the batch open ...
Resolvable(q) ==
    /\ req[q].variable \in item[B(q)][req[q].report].open
    /\ item[B(q)][req[q].report].amount = req[q].old
    /\ batch[B(q)].status \notin Closed

\* ... and, when no other exception of the item is open by now, writes the caller's amount to
\* the item and adds the difference to the batch.
Resolve(q) ==
    LET b == B(q)  r == req[q].report  left == item[b][r].open \ {req[q].variable} IN
    /\ At(q, "resolve")
    /\ Resolvable(q)
    /\ item' = [item EXCEPT ![b] = [@ EXCEPT ![r] =
          [linked |-> TRUE, open |-> left,
           amount |-> IF left = {} THEN NewAmount(q) ELSE item[b][r].amount]]]
    /\ batch' = IF left = {}
                THEN [batch EXCEPT ![b].computed = @ + NewAmount(q) - req[q].old]
                ELSE batch
    /\ End(q)
    /\ UNCHANGED manual

(***************************************************************************)
(* Confirming, locking and reopening                                       *)
(***************************************************************************)
\* hasOpenSettlementRuleExceptions.
HasOpen(b) == \E r \in Reports : item[b][r].open # {}

\* confirmSettlementBatch and lockSettlementBatch read the batch ...
ReadToConfirm(q, b) ==
    /\ batch[b].status \in {"generated", "reopened"}
    /\ Begin(q, b, "confirm_gate")
    /\ UNCHANGED rows

ReadToLock(q, b) ==
    /\ batch[b].status \notin {"none", "locked"}
    /\ Begin(q, b, "lock_gate")
    /\ UNCHANGED rows

\* Faulty variant of PassGate: nothing asks for the exceptions.
PassAnyway(q) ==
    /\ \/ At(q, "confirm_gate") /\ Go(q, "confirm")
       \/ At(q, "lock_gate") /\ Go(q, "lock")
    /\ UNCHANGED rows

\* ... ask for its exceptions and for the reconciliation, either of which may stop them ...
PassGate(q) ==
    /\ \/ At(q, "confirm_gate") /\ Go(q, "confirm")
       \/ At(q, "lock_gate") /\ Go(q, "lock")
    /\ ~ HasOpen(B(q))
    /\ UNCHANGED rows

\* Faulty variant of Confirm: the status is that of a report.
ConfirmMisnamed(q) ==
    /\ At(q, "confirm")
    /\ SetStatus(B(q), "approved")
    /\ End(q)
    /\ UNCHANGED <<item, manual>>

\* ... and write the status by id.
Confirm(q) ==
    /\ At(q, "confirm")
    /\ SetStatus(B(q), "confirmed")
    /\ End(q)
    /\ UNCHANGED <<item, manual>>

Lock(q) ==
    /\ At(q, "lock")
    /\ SetStatus(B(q), "locked")
    /\ End(q)
    /\ UNCHANGED <<item, manual>>

\* reopenSettlementBatch, by the owner.
ReadToReopen(q, b) ==
    /\ batch[b].status = "locked"
    /\ Begin(q, b, "reopen")
    /\ UNCHANGED rows

Reopen(q) ==
    /\ At(q, "reopen")
    /\ SetStatus(B(q), "reopened")
    /\ End(q)
    /\ UNCHANGED <<item, manual>>

(***************************************************************************)
(* Manual items                                                            *)
(***************************************************************************)
\* addManualSettlementItem reads the batch and its total ...
ReadToAdd(q, b) ==
    /\ At(q, "idle")
    /\ batch[b].status \notin {"none", "locked"}
    /\ req' = [req EXCEPT ![q] = [Start(b, "insert") EXCEPT !.saw = batch[b].manualTotal]]
    /\ UNCHANGED rows

\* Faulty variant of InsertManual: the item is left to be inserted after the total.
InsertLater(q) ==
    /\ At(q, "insert")
    /\ manual[B(q)] < MaxManual
    /\ Go(q, "total")
    /\ UNCHANGED rows

\* ... inserts the item ...
InsertManual(q) ==
    /\ At(q, "insert")
    /\ manual[B(q)] < MaxManual
    /\ manual' = [manual EXCEPT ![B(q)] = @ + 1]
    /\ Go(q, "total")
    /\ UNCHANGED <<batch, item>>

\* ... and writes the total it read plus the item, by id.
WriteTotal(q) ==
    /\ At(q, "total")
    /\ batch' = [batch EXCEPT ![B(q)].manualTotal = req[q].saw + 1]
    /\ End(q)
    /\ UNCHANGED <<item, manual>>

\* A check or the database refuses (a deadlock of two resolutions included), a call throws, or
\* the process dies: nothing that was written is undone.
Stop(q) ==
    /\ ~ At(q, "idle")
    /\ End(q)
    /\ UNCHANGED rows

Next ==
    \E q \in Requests :
        \/ \E b \in Batches :
            \/ ReadPool(q, b) \/ ReadToResolve(q, b)
            \/ ReadToConfirm(q, b) \/ ReadToLock(q, b) \/ ReadToReopen(q, b)
            \/ ReadToAdd(q, b)
        \/ \E r \in Reports, v \in Variables : ListExceptions(q, r, v)
        \/ Create(q)
        \/ ReadItem(q) \/ Resolve(q)
        \/ PassGate(q) \/ Confirm(q) \/ Lock(q) \/ Reopen(q)
        \/ InsertManual(q) \/ WriteTotal(q)
        \/ Stop(q)

Spec == Init /\ [][Next]_vars

(***************************************************************************)
(* Properties                                                              *)
(***************************************************************************)
TypeOK ==
    /\ batch \in [Batches -> BatchRow]
    /\ item \in [Batches -> [Reports -> ItemRow]]
    /\ manual \in [Batches -> 0 .. MaxManual]
    /\ req \in [Requests -> Walk \cup {Idle}]

\* A report is paid by one batch of a type, however many batches over how many periods were
\* generated from readings of the pool in which it was still free (generate_settlement_batch).
NoDoubleSettle ==
    \A b, c \in Batches : \A r \in Reports :
        item[b][r].linked /\ item[c][r].linked => b = c

\* A batch's computed amount is the sum over its items, through generation and resolutions
\* that overlap (resolve_settlement_rule_exception adds a difference to it).
ComputedTotal ==
    \A b \in Batches :
        batch[b].computed = Cardinality({r \in Reports : item[b][r].amount = 1})

\* No batch is confirmed or locked while a variable of it awaits review, though the exceptions
\* are asked for before the write: only generation opens any.
GateHolds == \A b \in Batches : batch[b].status \in Closed => ~ HasOpen(b)

\* The manual total of a batch is never more than its manual items: additions that overlap
\* or stop half way lose money from the total and never invent any (addManualSettlementItem).
ManualCovered == \A b \in Batches : batch[b].manualTotal <= manual[b]

\* When the last exception of an item is resolved the item has its amount.  Two clerks who
\* resolve two exceptions of one item each see the other's open, so neither replays the rule.
ResolvedIsReplayed ==
    \A b \in Batches : \A r \in Reports :
        item[b][r].linked /\ item[b][r].open = {} => item[b][r].amount = 1

\* A locked batch is left by its owner's reopening alone, and until then it is not edited.  A
\* confirmation or a manual total decided before the lock is written after it, by id.
LockedUntilReopened ==
    [][\A b \in Batches :
          batch[b].status = "locked" /\ batch'[b] # batch[b] =>
              batch'[b] = [batch[b] EXCEPT !.status = "reopened"]]_vars

\* The calls on a project's batches come one after the other: what a call read is what it
\* writes to.
Alone == \A p, q \in Requests : ~ At(p, "idle") /\ ~ At(q, "idle") => p = q
AloneSpec == Init /\ [][Next /\ Alone']_vars
=============================================================================
