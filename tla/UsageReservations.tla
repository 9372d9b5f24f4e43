------------------------- MODULE UsageReservations -------------------------
(***************************************************************************)
(* The OCR quota of one organization.  A reservation is charged to the     *)
(* month's counter when it is taken and given back when it is released;    *)
(* consuming it writes its usage event.  Each database function locks the  *)
(* rows it reads, so it is one action.  A paid or refunded billing order   *)
(* rewrites the same counter row from application code: it reads the row,  *)
(* computes the new one and upserts it, two calls with anything between,   *)
(* and the first may fail unnoticed.                                       *)
(***************************************************************************)
EXTENDS Integers, FiniteSets

CONSTANTS Reservations,  \* ids; a reservation has the id of its OCR job
          Billers,       \* processes that apply or refund an order
          Quotas,        \* what a plan may include
          AddonSizes,    \* what an add-on order adds, or takes back when refunded
          LastMonth,     \* bound on the months that pass
          MaxAddon,      \* bound on the add-ons a month's counter holds
          NoRow          \* a counter row not inserted yet, or a biller with nothing in hand

ASSUME QuotaAssumption ==
    /\ IsFiniteSet(Reservations)
    /\ Quotas \subseteq Nat
    /\ Quotas # {}
    /\ AddonSizes \subseteq Int
    /\ LastMonth \in Nat
    /\ MaxAddon \in Nat
    /\ NoRow \notin [used : Nat, included : Nat, addon : Nat]
    /\ NoRow \notin [month : 0 .. LastMonth, row : [used : Nat, included : Nat, addon : Nat]]

VARIABLES month,    \* the current month
          plan,     \* what the current plan includes
          active,   \* the subscription is active or trialing, inside its period
          res,      \* usage_reservations
          counter,  \* usage_monthly_counters of each month
          usage,    \* usage_events written for reservations
          pending   \* the row each biller is about to upsert

vars == <<month, plan, active, res, counter, usage, pending>>

Months == 0 .. LastMonth
CounterRow == [used : Nat, included : Nat, addon : Nat]
Statuses == {"none", "reserved", "consumed", "released"}

Allowance(row) == row.included + row.addon
UsedIn(m) == IF counter[m] = NoRow THEN 0 ELSE counter[m].used

\* The reservations that are charged to month m.
Charged(m) == {r \in Reservations : /\ res[r].status \in {"reserved", "consumed"}
                                    /\ res[r].month = m}

Init ==
    /\ month = 0
    /\ plan \in Quotas
    /\ active = TRUE
    /\ res = [r \in Reservations |-> [status |-> "none", month |-> 0]]
    /\ counter = [m \in Months |-> NoRow]
    /\ usage = {}
    /\ pending = [b \in Billers |-> NoRow]

\* Insert ... on conflict do nothing: the first reservation of a month creates its counter.
EnsuredRow(m) == IF counter[m] = NoRow
                 THEN [used |-> 0, included |-> plan, addon |-> 0]
                 ELSE counter[m]

\* Faulty variant of Charge: only the reservation row is written.
ChargeRowOnly(r, m) ==
    /\ active
    /\ EnsuredRow(m).used + 1 <= Allowance(EnsuredRow(m))
    /\ res' = [res EXCEPT ![r] = [status |-> "reserved", month |-> m]]
    /\ UNCHANGED <<month, plan, active, counter, usage, pending>>
\* Faulty variant of Charge: off by one at the limit.
ChargeOffByOne(r, m) ==
    /\ active
    /\ EnsuredRow(m).used <= Allowance(EnsuredRow(m))
    /\ counter' = [counter EXCEPT ![m] = [EnsuredRow(m) EXCEPT !.used = @ + 1]]
    /\ res' = [res EXCEPT ![r] = [status |-> "reserved", month |-> m]]
    /\ UNCHANGED <<month, plan, active, usage, pending>>

\* One reservation is charged to month m: refused, and the row insert rolled back, without an
\* active subscription or when the counter would pass its allowance.
Charge(r, m) ==
    /\ active
    /\ EnsuredRow(m).used + 1 <= Allowance(EnsuredRow(m))
    /\ counter' = [counter EXCEPT ![m] = [EnsuredRow(m) EXCEPT !.used = @ + 1]]
    /\ res' = [res EXCEPT ![r] = [status |-> "reserved", month |-> m]]
    /\ UNCHANGED <<month, plan, active, usage, pending>>

\* enqueue_ocr_job takes the reservation of a new job, in the month of the caller's p_run_at: a
\* month may have begun since.
Enqueue(r, m) ==
    /\ res[r].status = "none"
    /\ m \in {month, month - 1} \cap Months
    /\ Charge(r, m)

\* reserve_usage_reservation: a released reservation is taken again, in the current month.  A
\* reserved or consumed one is returned as it is.
Reserve(r) ==
    /\ res[r].status = "released"
    /\ Charge(r, month)

\* consume_usage_reservation; usage_events takes the reservation's id as its key, so a second
\* event would be refused.
Consume(r) ==
    /\ res[r].status = "reserved"
    /\ \A e \in usage : e.id # r
    /\ res' = [res EXCEPT ![r].status = "consumed"]
    /\ usage' = usage \cup {[id |-> r, month |-> res[r].month]}
    /\ UNCHANGED <<month, plan, active, counter, pending>>

\* Faulty variant of Release: a consumed reservation is released as well.
ReleaseAny(r) ==
    /\ res[r].status \in {"reserved", "consumed"}
    /\ UsedIn(res[r].month) >= 1
    /\ counter' = [counter EXCEPT ![res[r].month].used = @ - 1]
    /\ res' = [res EXCEPT ![r].status = "released"]
    /\ UNCHANGED <<month, plan, active, usage, pending>>

\* Faulty variant of Release: the counter is not looked at.
ReleaseUnchecked(r) ==
    /\ res[r].status = "reserved"
    /\ counter[res[r].month] # NoRow
    /\ counter' = [counter EXCEPT ![res[r].month].used = @ - 1]
    /\ res' = [res EXCEPT ![r].status = "released"]
    /\ UNCHANGED <<month, plan, active, usage, pending>>

\* release_usage_reservation gives the charge back to the month it was taken from; it raises
\* USAGE_RESERVATION_COUNTER_INCONSISTENT, and changes nothing, when the counter holds none.
Release(r) ==
    /\ res[r].status = "reserved"
    /\ UsedIn(res[r].month) >= 1
    /\ counter' = [counter EXCEPT ![res[r].month].used = @ - 1]
    /\ res' = [res EXCEPT ![r].status = "released"]
    /\ UNCHANGED <<month, plan, active, usage, pending>>

(***************************************************************************)
(* Billing: upsertUsageCounter writes back the `used_quantity' it read.    *)
(***************************************************************************)
NoCounter == [used |-> 0, included |-> 0, addon |-> 0]

\* What a read of the month's counter may give: a missing row reads as zeros, and so does a read
\* that failed, whose error is not looked at.
Reads(m) == {IF counter[m] = NoRow THEN NoCounter ELSE counter[m], NoCounter}

\* A plan starts (or a refund drops it to the free plan): the subscription is updated first,
\* then the current month's counter is read.
ReadForPlan(b, q) ==
    /\ pending[b] = NoRow
    /\ plan' = q
    /\ \E row \in Reads(month) :
          pending' = [pending EXCEPT ![b] =
                         [month |-> month, row |-> [row EXCEPT !.included = q]]]
    /\ UNCHANGED <<month, active, res, counter, usage>>

\* An add-on is bought this month, or one bought in month m is refunded.  The table's check
\* refuses a negative add-on.
ReadForAddon(b, m, n) ==
    /\ pending[b] = NoRow
    /\ IF n > 0 THEN m = month ELSE m <= month
    /\ \E row \in Reads(m) :
          /\ row.addon + n \in 0 .. MaxAddon
          /\ pending' = [pending EXCEPT ![b] =
                            [month |-> m, row |-> [row EXCEPT !.addon = @ + n]]]
    /\ UNCHANGED <<month, plan, active, res, counter, usage>>

WriteCounter(b) ==
    /\ pending[b] # NoRow
    /\ counter' = [counter EXCEPT ![pending[b].month] = pending[b].row]
    /\ pending' = [pending EXCEPT ![b] = NoRow]
    /\ UNCHANGED <<month, plan, active, res, usage>>

\* The biller's process ends between its read and its write.
AbandonWrite(b) ==
    /\ pending[b] # NoRow
    /\ pending' = [pending EXCEPT ![b] = NoRow]
    /\ UNCHANGED <<month, plan, active, res, counter, usage>>

\* The subscription lapses or is paid for again.
SetActive == /\ active' = ~ active
             /\ UNCHANGED <<month, plan, res, counter, usage, pending>>

NextMonth == /\ month < LastMonth
             /\ month' = month + 1
             /\ UNCHANGED <<plan, active, res, counter, usage, pending>>

Reserving == \E r \in Reservations :
                \/ \E m \in Months : Enqueue(r, m)
                \/ Reserve(r)
                \/ Consume(r)
                \/ Release(r)
Billing == \E b \in Billers :
                \/ \E q \in Quotas : ReadForPlan(b, q)
                \/ \E m \in Months, n \in AddonSizes : ReadForAddon(b, m, n)
                \/ WriteCounter(b)
                \/ AbandonWrite(b)

Next == Reserving \/ Billing \/ SetActive \/ NextMonth
Spec == Init /\ [][Next]_vars

(***************************************************************************)
(* Properties                                                              *)
(***************************************************************************)
TypeOK ==
    /\ month \in Months
    /\ plan \in Quotas
    /\ active \in BOOLEAN
    /\ res \in [Reservations -> [status : Statuses, month : Months]]
    /\ counter \in [Months -> CounterRow \cup {NoRow}]
    /\ usage \subseteq [id : Reservations, month : Months]
    /\ pending \in [Billers -> [month : Months, row : CounterRow] \cup {NoRow}]

\* A usage event exists exactly for the consumed reservations, one each, in the month the
\* reservation was charged to: a retried job is not billed twice, and a job that released and
\* took its reservation again is billed in the later month.
ConsumedOnce ==
    /\ \A r \in Reservations : res[r].status = "consumed" <=>
                                  [id |-> r, month |-> res[r].month] \in usage
    /\ \A e, f \in usage : e.id = f.id => e = f

\* The step writes a counter row that billing read before reservations changed it, or whose
\* read failed.
StaleWrite(m) ==
    \E b \in Billers : /\ pending[b] # NoRow
                       /\ pending'[b] = NoRow
                       /\ pending[b].month = m
                       /\ pending[b].row.used # UsedIn(m)

\* The counter of a month moves with the reservations charged to it, and nothing else but a
\* stale billing write ever parts them.
CounterFollows ==
    [][\A m \in Months :
          \/ UsedIn(m)' - UsedIn(m) = Cardinality(Charged(m)') - Cardinality(Charged(m))
          \/ StaleWrite(m)]_vars

\* As long as no billing write made a month's counter forget pages, the reservations charged to
\* it fit the plan and the add-ons at the time the last was taken, and the subscription was
\* active then; months do not borrow from each other.
ChargedWithinAllowance ==
    [][\A m \in Months :
          /\ UsedIn(m) = Cardinality(Charged(m))
          /\ ~ (Charged(m)' \subseteq Charged(m))
          => /\ active
             /\ Cardinality(Charged(m)') <= Allowance(counter'[m])]_vars

\* docs: OCR is a hard-blocked metric, no more of it is taken than the plan and add-ons allow.
HardBlock ==
    \A m \in Months : counter[m] # NoRow =>
                         Cardinality(Charged(m)) <= Allowance(counter[m])

\* Histories in which no billing write puts back a row that does not show the reservations.
FreshNext == Next /\ \A m \in Months : ~ StaleWrite(m)
FreshSpec == Init /\ [][FreshNext]_vars

\* A month's counter is the number of reservations charged to it.
CounterExact == \A m \in Months : UsedIn(m) = Cardinality(Charged(m))

\* The pages of a reserved reservation are on its month's counter, so that
\* release_usage_reservation never raises the inconsistency it looks for.
ReleaseSucceeds ==
    \A r \in Reservations : res[r].status = "reserved" => UsedIn(res[r].month) >= 1

\* The hard block: a month is charged one more reservation only under an active subscription,
\* and all that are charged to it then fit its plan and add-ons.
ChargesFit ==
    [][\A m \in Months : ~ (Charged(m)' \subseteq Charged(m)) =>
          active /\ Cardinality(Charged(m)') <= Allowance(counter'[m])]_vars

\* Each reservation lives through what ReservationLifecycle promises, and its usage event is
\* written when it is consumed, whatever months, plans, billing writes and refusals do meanwhile.
Reservation == INSTANCE ReservationLifecycle WITH
                  Ids <- Reservations,
                  status <- [r \in Reservations |-> res[r].status],
                  billed <- {e.id : e \in usage}
ImplementsReservation == Reservation!Spec
=============================================================================
