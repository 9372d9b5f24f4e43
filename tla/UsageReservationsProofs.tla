---------------------- MODULE UsageReservationsProofs ----------------------
(***************************************************************************)
(* Proofs about UsageReservations, for any reservations, billers, plans,   *)
(* add-ons and months.  The inductive invariant adds to the type that the  *)
(* reservation of a usage event is consumed, in the month of the event.    *)
(***************************************************************************)
EXTENDS UsageReservations, FiniteSetTheorems, TLAPS

\* An event tells its reservation's final row, and a consumed reservation has one.
EventsMatch ==
    /\ \A e \in usage : res[e.id].status = "consumed" /\ res[e.id].month = e.month
    /\ \A r \in Reservations :
          res[r].status = "consumed" => [id |-> r, month |-> res[r].month] \in usage

IInv == TypeOK /\ EventsMatch

ResRow == [status : Statuses, month : Months]

LEMMA InitIInv == Init => IInv
<1> SUFFICES ASSUME Init PROVE IInv
  OBVIOUS
<1>1. 0 \in Months
  BY QuotaAssumption DEF Months
<1> QED  BY <1>1 DEF Init, IInv, TypeOK, EventsMatch, Statuses

(***************************************************************************)
(* What the helpers return                                                 *)
(***************************************************************************)
LEMMA EnsuredTyped ==
  ASSUME TypeOK, NEW m \in Months
  PROVE  EnsuredRow(m) \in CounterRow /\ EnsuredRow(m).used = UsedIn(m)
<1>1. CASE counter[m] = NoRow
  <2>1. plan \in Nat
    BY QuotaAssumption DEF TypeOK
  <2> QED  BY <1>1, <2>1 DEF EnsuredRow, UsedIn, CounterRow
<1>2. CASE counter[m] # NoRow
  <2>1. counter[m] \in CounterRow
    BY <1>2 DEF TypeOK
  <2> QED  BY <1>2, <2>1 DEF EnsuredRow, UsedIn
<1> QED  BY <1>1, <1>2

LEMMA UsedTyped ==
  ASSUME TypeOK, NEW m \in Months
  PROVE  UsedIn(m) \in Nat /\ (counter[m] = NoRow => UsedIn(m) = 0)
  BY EnsuredTyped DEF CounterRow, UsedIn

LEMMA ReadTyped ==
  ASSUME TypeOK, NEW m \in Months
  PROVE  Reads(m) \subseteq CounterRow
  BY DEF TypeOK, Reads, NoCounter, CounterRow

LEMMA ChargedFinite ==
  ASSUME NEW m \in Months
  PROVE  IsFiniteSet(Charged(m)) /\ Cardinality(Charged(m)) \in Nat
<1>1. Charged(m) \subseteq Reservations
  BY DEF Charged
<1>2. IsFiniteSet(Charged(m))
  BY <1>1, QuotaAssumption, FS_Subset
<1> QED  BY <1>2, FS_CardinalityType

\* A row with one page more, or one less.
LEMMA UsedMoves ==
  ASSUME NEW row \in CounterRow, NEW u \in Nat
  PROVE  /\ [row EXCEPT !.used = u] \in CounterRow
         /\ [row EXCEPT !.used = u].used = u
         /\ Allowance([row EXCEPT !.used = u]) = Allowance(row)
         /\ Allowance(row) \in Nat
  BY DEF CounterRow, Allowance

(***************************************************************************)
(* The three steps of a reservation                                        *)
(***************************************************************************)
\* A charge: one page of month m for a reservation that was not charged.
LEMMA ChargeLooks ==
  ASSUME TypeOK, NEW r \in Reservations, NEW m \in Months, Charge(r, m),
         res[r].status \in {"none", "released"}
  PROVE  /\ active
         /\ res' = [res EXCEPT ![r] = [status |-> "reserved", month |-> m]]
         /\ res' \in [Reservations -> ResRow]
         /\ counter' \in [Months -> CounterRow \cup {NoRow}]
         /\ counter'[m] \in CounterRow
         /\ counter'[m].used = UsedIn(m) + 1
         /\ counter'[m].used <= Allowance(counter'[m])
         /\ UsedIn(m)' = UsedIn(m) + 1
         /\ \A n \in Months \ {m} : counter'[n] = counter[n] /\ UsedIn(n)' = UsedIn(n)
         /\ Charged(m)' = Charged(m) \cup {r}
         /\ r \notin Charged(m)
         /\ \A n \in Months \ {m} : Charged(n)' = Charged(n)
<1> DEFINE row == [EnsuredRow(m) EXCEPT !.used = EnsuredRow(m).used + 1]
<1>1. EnsuredRow(m) \in CounterRow /\ EnsuredRow(m).used = UsedIn(m) /\ UsedIn(m) \in Nat
  BY EnsuredTyped, UsedTyped
<1>2. EnsuredRow(m).used + 1 \in Nat
  BY <1>1
<1>3. row \in CounterRow /\ row.used = UsedIn(m) + 1 /\ Allowance(row) = Allowance(EnsuredRow(m))
  BY <1>1, <1>2, UsedMoves
<1>4. counter' = [counter EXCEPT ![m] = row] /\ active
      /\ res' = [res EXCEPT ![r] = [status |-> "reserved", month |-> m]]
  BY DEF Charge
<1>5. row.used <= Allowance(row)
  BY <1>1, <1>3 DEF Charge
<1> HIDE DEF row
<1>6. counter \in [Months -> CounterRow \cup {NoRow}] /\ res \in [Reservations -> ResRow]
  BY DEF TypeOK, ResRow
<1>7. counter'[m] = row /\ counter' \in [Months -> CounterRow \cup {NoRow}]
      /\ \A n \in Months \ {m} : counter'[n] = counter[n]
  BY <1>3, <1>4, <1>6
<1>8. row # NoRow
  BY <1>3, QuotaAssumption DEF CounterRow
<1>9. UsedIn(m)' = UsedIn(m) + 1 /\ \A n \in Months \ {m} : UsedIn(n)' = UsedIn(n)
  BY <1>3, <1>7, <1>8 DEF UsedIn
<1>10. [status |-> "reserved", month |-> m] \in ResRow
  BY DEF ResRow, Statuses
<1>11. res' \in [Reservations -> ResRow]
  BY <1>4, <1>6, <1>10
<1>12. /\ res'[r].status = "reserved" /\ res'[r].month = m
       /\ \A q \in Reservations \ {r} : res'[q] = res[q]
  BY <1>4, <1>6
<1>13. Charged(m)' = Charged(m) \cup {r} /\ r \notin Charged(m)
  BY <1>12 DEF Charged
<1>14. \A n \in Months \ {m} : Charged(n)' = Charged(n)
  BY <1>12 DEF Charged
<1> QED  BY <1>3, <1>4, <1>5, <1>7, <1>9, <1>11, <1>13, <1>14

\* A consumed reservation stays charged; nothing of the counter changes.
LEMMA ConsumeLooks ==
  ASSUME TypeOK, NEW r \in Reservations, Consume(r)
  PROVE  /\ res' \in [Reservations -> ResRow]
         /\ res'[r] = [status |-> "consumed", month |-> res[r].month]
         /\ \A q \in Reservations \ {r} : res'[q] = res[q]
         /\ \A m \in Months : Charged(m)' = Charged(m)
<1>1. res \in [Reservations -> ResRow] /\ res[r].status = "reserved"
  BY DEF TypeOK, ResRow, Consume
<1>2. res'[r] = [res[r] EXCEPT !.status = "consumed"]
      /\ \A q \in Reservations \ {r} : res'[q] = res[q]
  BY <1>1 DEF Consume
<1>3. res'[r] = [status |-> "consumed", month |-> res[r].month] /\ res'[r] \in ResRow
  BY <1>1, <1>2 DEF ResRow, Statuses
<1>4. res' \in [Reservations -> ResRow]
  BY <1>1, <1>3 DEF Consume
<1>5. \A m \in Months : Charged(m)' = Charged(m)
  BY <1>1, <1>2, <1>3 DEF Charged
<1> QED  BY <1>2, <1>3, <1>4, <1>5

\* A release takes one page from the month of the reservation.
LEMMA ReleaseLooks ==
  ASSUME TypeOK, NEW r \in Reservations, Release(r), NEW m \in Months, m = res[r].month
  PROVE  /\ res' \in [Reservations -> ResRow]
         /\ res'[r] = [status |-> "released", month |-> m]
         /\ \A q \in Reservations \ {r} : res'[q] = res[q]
         /\ counter' \in [Months -> CounterRow \cup {NoRow}]
         /\ UsedIn(m)' = UsedIn(m) - 1
         /\ \A n \in Months \ {m} : UsedIn(n)' = UsedIn(n)
         /\ Charged(m)' = Charged(m) \ {r}
         /\ r \in Charged(m)
         /\ \A n \in Months \ {m} : Charged(n)' = Charged(n)
<1> DEFINE row == [counter[m] EXCEPT !.used = counter[m].used - 1]
<1>1. res \in [Reservations -> ResRow] /\ res[r].status = "reserved"
      /\ counter \in [Months -> CounterRow \cup {NoRow}]
  BY DEF TypeOK, ResRow, Release
<1>2. res'[r] = [res[r] EXCEPT !.status = "released"]
      /\ \A q \in Reservations \ {r} : res'[q] = res[q]
  BY <1>1 DEF Release
<1>3. res'[r] = [status |-> "released", month |-> m] /\ res'[r] \in ResRow
  BY <1>1, <1>2 DEF ResRow, Statuses
<1>4. res' \in [Reservations -> ResRow]
  BY <1>1, <1>3 DEF Release
<1>5. UsedIn(m) >= 1
  BY DEF Release
<1>6. counter[m] # NoRow
  BY <1>1, <1>5, UsedTyped
<1>7. counter[m] \in CounterRow /\ counter[m].used = UsedIn(m) /\ UsedIn(m) \in Nat
  BY <1>1, <1>6, UsedTyped DEF UsedIn
<1>8. counter[m].used - 1 \in Nat
  BY <1>5, <1>7
<1>9. row \in CounterRow /\ row.used = UsedIn(m) - 1
  BY <1>7, <1>8, UsedMoves
<1>10. counter' = [counter EXCEPT ![m] = row]
  BY <1>1 DEF Release
<1> HIDE DEF row
<1>11. counter'[m] = row /\ counter' \in [Months -> CounterRow \cup {NoRow}]
       /\ \A n \in Months \ {m} : counter'[n] = counter[n]
  BY <1>1, <1>9, <1>10
<1>12. row # NoRow
  BY <1>9, QuotaAssumption DEF CounterRow
<1>13. UsedIn(m)' = UsedIn(m) - 1 /\ \A n \in Months \ {m} : UsedIn(n)' = UsedIn(n)
  BY <1>9, <1>11, <1>12 DEF UsedIn
<1>14. Charged(m)' = Charged(m) \ {r} /\ r \in Charged(m)
  BY <1>1, <1>2, <1>3 DEF Charged
<1>15. \A n \in Months \ {m} : Charged(n)' = Charged(n)
  BY <1>1, <1>2, <1>3 DEF Charged
<1> QED  BY <1>1, <1>2, <1>3, <1>4, <1>11, <1>13, <1>14, <1>15

\* Every step is a charge, a consumption, a release, or leaves reservations and events alone.
LEMMA StepLooks ==
  ASSUME TypeOK, [Next]_vars
  PROVE  \/ \E r \in Reservations, m \in Months :
               Charge(r, m) /\ res[r].status \in {"none", "released"}
         \/ \E r \in Reservations : Consume(r) \/ Release(r)
         \/ Billing /\ UNCHANGED <<res, usage, active>>
         \/ UNCHANGED <<res, usage, counter, plan, pending>> /\ month' \in Months
            /\ active' \in BOOLEAN
<1>1. month \in Months /\ active \in BOOLEAN
  BY DEF TypeOK
<1>2. CASE Reserving
  BY <1>1, <1>2 DEF Reserving, Enqueue, Reserve
<1>3. CASE Billing
  BY <1>3 DEF Billing, ReadForPlan, ReadForAddon, WriteCounter, AbandonWrite
<1>4. CASE SetActive
  BY <1>1, <1>4 DEF SetActive
<1>5. CASE NextMonth
  <2>1. month + 1 \in Months
    BY <1>1, <1>5, QuotaAssumption DEF NextMonth, Months
  <2> QED  BY <1>1, <1>5, <2>1 DEF NextMonth
<1>6. CASE UNCHANGED vars
  BY <1>1, <1>6 DEF vars
<1> QED  BY <1>2, <1>3, <1>4, <1>5, <1>6 DEF Next

(***************************************************************************)
(* The invariant                                                           *)
(***************************************************************************)
\* What billing writes is a counter row.
LEMMA BillingTyped ==
  ASSUME TypeOK, Billing
  PROVE  /\ month' \in Months
         /\ plan' \in Quotas
         /\ counter' \in [Months -> CounterRow \cup {NoRow}]
         /\ pending' \in [Billers -> [month : Months, row : CounterRow] \cup {NoRow}]
<1> DEFINE Hand == [month : Months, row : CounterRow]
<1>0. /\ month \in Months /\ plan \in Quotas
      /\ counter \in [Months -> CounterRow \cup {NoRow}]
      /\ pending \in [Billers -> Hand \cup {NoRow}]
  BY DEF TypeOK
<1>1. PICK b \in Billers : \/ \E q \in Quotas : ReadForPlan(b, q)
                           \/ \E m \in Months, n \in AddonSizes : ReadForAddon(b, m, n)
                           \/ WriteCounter(b)
                           \/ AbandonWrite(b)
  BY DEF Billing
<1>2. ASSUME NEW h \in Hand \cup {NoRow}
      PROVE  [pending EXCEPT ![b] = h] \in [Billers -> Hand \cup {NoRow}]
  BY <1>0
<1>3. ASSUME NEW q \in Quotas, ReadForPlan(b, q)
      PROVE  /\ month' \in Months /\ plan' \in Quotas /\ counter' = counter
             /\ pending' \in [Billers -> Hand \cup {NoRow}]
  <2>1. PICK row \in Reads(month) :
           pending' = [pending EXCEPT ![b] =
                          [month |-> month, row |-> [row EXCEPT !.included = q]]]
    BY <1>3 DEF ReadForPlan
  <2>2. row \in CounterRow /\ q \in Nat
    BY <1>0, ReadTyped, QuotaAssumption
  <2>3. [row EXCEPT !.included = q] \in CounterRow
    BY <2>2 DEF CounterRow
  <2>4. [month |-> month, row |-> [row EXCEPT !.included = q]] \in Hand
    BY <1>0, <2>3
  <2> QED  BY <1>0, <1>2, <1>3, <2>1, <2>4 DEF ReadForPlan
<1>4. ASSUME NEW m \in Months, NEW n \in AddonSizes, ReadForAddon(b, m, n)
      PROVE  /\ month' \in Months /\ plan' \in Quotas /\ counter' = counter
             /\ pending' \in [Billers -> Hand \cup {NoRow}]
  <2>1. PICK row \in Reads(m) :
           /\ row.addon + n \in 0 .. MaxAddon
           /\ pending' = [pending EXCEPT ![b] =
                             [month |-> m, row |-> [row EXCEPT !.addon = row.addon + n]]]
    BY <1>4 DEF ReadForAddon
  <2>2. row \in CounterRow /\ row.addon + n \in Nat
    BY <2>1, ReadTyped, QuotaAssumption
  <2>3. [row EXCEPT !.addon = row.addon + n] \in CounterRow
    BY <2>2 DEF CounterRow
  <2>4. [month |-> m, row |-> [row EXCEPT !.addon = row.addon + n]] \in Hand
    BY <2>3
  <2> QED  BY <1>0, <1>2, <1>4, <2>1, <2>4 DEF ReadForAddon
<1>5. CASE WriteCounter(b)
  <2>1. pending[b] \in Hand
    BY <1>0, <1>5 DEF WriteCounter
  <2>2. counter' \in [Months -> CounterRow \cup {NoRow}]
    BY <1>0, <1>5, <2>1 DEF WriteCounter
  <2>3. pending' \in [Billers -> Hand \cup {NoRow}]
    BY <1>0, <1>5 DEF WriteCounter
  <2> QED  BY <1>0, <1>5, <2>2, <2>3 DEF WriteCounter
<1>6. CASE AbandonWrite(b)
  BY <1>0, <1>6 DEF AbandonWrite
<1> QED  BY <1>0, <1>1, <1>3, <1>4, <1>5, <1>6

LEMMA NextIInv == IInv /\ [Next]_vars => IInv'
<1> SUFFICES ASSUME IInv, [Next]_vars PROVE IInv'
  OBVIOUS
<1>0. TypeOK /\ EventsMatch
  BY DEF IInv
<1>1. ASSUME NEW r \in Reservations, NEW m \in Months, Charge(r, m),
             res[r].status \in {"none", "released"}
      PROVE  IInv'
  <2>1. /\ res' \in [Reservations -> ResRow]
        /\ res' = [res EXCEPT ![r] = [status |-> "reserved", month |-> m]]
        /\ counter' \in [Months -> CounterRow \cup {NoRow}]
    BY <1>0, <1>1, ChargeLooks
  <2>2. UNCHANGED <<month, plan, active, usage, pending>>
    BY <1>1 DEF Charge
  <2>3. \A e \in usage : e.id # r
    BY <1>0, <1>1 DEF EventsMatch
  <2>4. res \in [Reservations -> ResRow] /\ usage \subseteq [id : Reservations, month : Months]
    BY <1>0 DEF TypeOK, ResRow
  <2>5. EventsMatch'
    BY <1>0, <2>1, <2>2, <2>3, <2>4 DEF EventsMatch
  <2> QED  BY <1>0, <2>1, <2>2, <2>5 DEF IInv, TypeOK, ResRow
<1>2. ASSUME NEW r \in Reservations, Consume(r)
      PROVE  IInv'
  <2>1. /\ res' \in [Reservations -> ResRow]
        /\ res'[r] = [status |-> "consumed", month |-> res[r].month]
        /\ \A q \in Reservations \ {r} : res'[q] = res[q]
    BY <1>0, <1>2, ConsumeLooks
  <2>2. /\ UNCHANGED <<month, plan, active, counter, pending>>
        /\ usage' = usage \cup {[id |-> r, month |-> res[r].month]}
        /\ \A e \in usage : e.id # r
    BY <1>2 DEF Consume
  <2>3. res \in [Reservations -> ResRow] /\ usage \subseteq [id : Reservations, month : Months]
    BY <1>0 DEF TypeOK, ResRow
  <2>4. usage' \subseteq [id : Reservations, month : Months]
    BY <2>2, <2>3 DEF ResRow
  <2>5. EventsMatch'
    BY <1>0, <2>1, <2>2, <2>3 DEF EventsMatch
  <2> QED  BY <1>0, <2>1, <2>2, <2>4, <2>5 DEF IInv, TypeOK, ResRow
<1>3. ASSUME NEW r \in Reservations, Release(r)
      PROVE  IInv'
  <2>1. PICK m \in Months : m = res[r].month
    BY <1>0 DEF TypeOK
  <2>2. /\ res' \in [Reservations -> ResRow]
        /\ res'[r] = [status |-> "released", month |-> m]
        /\ \A q \in Reservations \ {r} : res'[q] = res[q]
        /\ counter' \in [Months -> CounterRow \cup {NoRow}]
    BY <1>0, <1>3, <2>1, ReleaseLooks
  <2>3. UNCHANGED <<month, plan, active, usage, pending>> /\ res[r].status = "reserved"
    BY <1>3 DEF Release
  <2>4. usage \subseteq [id : Reservations, month : Months]
    BY <1>0 DEF TypeOK
  <2>5. EventsMatch'
    BY <1>0, <2>2, <2>3, <2>4 DEF EventsMatch
  <2> QED  BY <1>0, <2>2, <2>3, <2>5 DEF IInv, TypeOK, ResRow
<1>4. CASE Billing /\ UNCHANGED <<res, usage, active>>
  BY <1>0, <1>4, BillingTyped DEF IInv, TypeOK, EventsMatch
<1>5. CASE UNCHANGED <<res, usage, counter, plan, pending>> /\ month' \in Months
           /\ active' \in BOOLEAN
  BY <1>0, <1>5 DEF IInv, TypeOK, EventsMatch
<1> QED  BY <1>0, <1>1, <1>2, <1>3, <1>4, <1>5, StepLooks

\* The inductive invariant holds of every behavior of the reservations.
THEOREM Invariance == Spec => []IInv
  BY InitIInv, NextIInv, PTL DEF Spec

\* The tables and what billing holds keep their types: no counter goes below zero.
THEOREM TypeCorrect == Spec => []TypeOK
<1>1. IInv => TypeOK
  BY DEF IInv
<1> QED  BY <1>1, Invariance, PTL

\* A reservation is billed exactly when it is consumed, once, in the month it is charged to.
THEOREM ConsumedOnceHolds == Spec => []ConsumedOnce
<1>1. IInv => ConsumedOnce
  <2> SUFFICES ASSUME IInv PROVE ConsumedOnce
    OBVIOUS
  <2>1. EventsMatch /\ usage \subseteq [id : Reservations, month : Months]
    BY DEF IInv, TypeOK
  <2>2. \A r \in Reservations : res[r].status = "consumed" <=>
                                   [id |-> r, month |-> res[r].month] \in usage
    BY <2>1 DEF EventsMatch
  <2>3. ASSUME NEW e \in usage, NEW f \in usage, e.id = f.id
        PROVE  e = f
    <3>1. e.month = f.month
      BY <2>1, <2>3 DEF EventsMatch
    <3> QED  BY <2>1, <2>3, <3>1
  <2> QED  BY <2>2, <2>3 DEF ConsumedOnce
<1> QED  BY <1>1, Invariance, PTL

(***************************************************************************)
(* The counter                                                             *)
(***************************************************************************)
LEMMA CounterMoves ==
  ASSUME IInv, [Next]_vars, NEW m \in Months
  PROVE  \/ UsedIn(m)' - UsedIn(m) = Cardinality(Charged(m)') - Cardinality(Charged(m))
         \/ StaleWrite(m)
<1>0. TypeOK /\ UsedIn(m) \in Nat /\ IsFiniteSet(Charged(m)) /\ Cardinality(Charged(m)) \in Nat
  BY UsedTyped, ChargedFinite DEF IInv
<1>1. ASSUME NEW r \in Reservations, NEW n \in Months, Charge(r, n),
             res[r].status \in {"none", "released"}
      PROVE  UsedIn(m)' - UsedIn(m) = Cardinality(Charged(m)') - Cardinality(Charged(m))
  <2>1. CASE m = n
    <3>1. UsedIn(m)' = UsedIn(m) + 1 /\ Charged(m)' = Charged(m) \cup {r} /\ r \notin Charged(m)
      BY <1>0, <1>1, <2>1, ChargeLooks
    <3>2. Cardinality(Charged(m)') = Cardinality(Charged(m)) + 1
      BY <1>0, <3>1, FS_AddElement
    <3> QED  BY <1>0, <3>1, <3>2
  <2>2. CASE m # n
    <3>1. UsedIn(m)' = UsedIn(m) /\ Charged(m)' = Charged(m)
      BY <1>0, <1>1, <2>2, ChargeLooks
    <3> QED  BY <1>0, <3>1
  <2> QED  BY <2>1, <2>2
<1>2. ASSUME NEW r \in Reservations, Consume(r)
      PROVE  UsedIn(m)' - UsedIn(m) = Cardinality(Charged(m)') - Cardinality(Charged(m))
  <2>1. UsedIn(m)' = UsedIn(m) /\ Charged(m)' = Charged(m)
    BY <1>0, <1>2, ConsumeLooks DEF Consume, UsedIn
  <2> QED  BY <1>0, <2>1
<1>3. ASSUME NEW r \in Reservations, Release(r)
      PROVE  UsedIn(m)' - UsedIn(m) = Cardinality(Charged(m)') - Cardinality(Charged(m))
  <2>1. PICK n \in Months : n = res[r].month
    BY <1>0 DEF TypeOK
  <2>2. CASE m = n
    <3>1. UsedIn(m)' = UsedIn(m) - 1 /\ Charged(m)' = Charged(m) \ {r} /\ r \in Charged(m)
      BY <1>0, <1>3, <2>1, <2>2, ReleaseLooks
    <3>2. Cardinality(Charged(m)') = Cardinality(Charged(m)) - 1
      BY <1>0, <3>1, FS_RemoveElement
    <3> QED  BY <1>0, <3>1, <3>2
  <2>3. CASE m # n
    <3>1. UsedIn(m)' = UsedIn(m) /\ Charged(m)' = Charged(m)
      BY <1>0, <1>3, <2>1, <2>3, ReleaseLooks
    <3> QED  BY <1>0, <3>1
  <2> QED  BY <2>2, <2>3
<1>4. ASSUME Billing, UNCHANGED <<res, usage, active>>
      PROVE  \/ UsedIn(m)' - UsedIn(m) = Cardinality(Charged(m)') - Cardinality(Charged(m))
             \/ StaleWrite(m)
  <2>1. Charged(m)' = Charged(m)
    BY <1>4 DEF Charged
  <2>2. CASE UsedIn(m)' = UsedIn(m)
    BY <1>0, <2>1, <2>2
  <2>3. CASE UsedIn(m)' # UsedIn(m)
    <3>1. PICK b \in Billers : WriteCounter(b)
      BY <1>4, <2>3 DEF Billing, ReadForPlan, ReadForAddon, AbandonWrite, UsedIn
    <3>2. pending[b] \in [month : Months, row : CounterRow]
      BY <1>0, <3>1 DEF TypeOK, WriteCounter
    <3>3. /\ counter' = [counter EXCEPT ![pending[b].month] = pending[b].row]
          /\ pending' = [pending EXCEPT ![b] = NoRow]
      BY <3>1 DEF WriteCounter
    <3>4. counter \in [Months -> CounterRow \cup {NoRow}]
          /\ pending \in [Billers -> [month : Months, row : CounterRow] \cup {NoRow}]
      BY <1>0 DEF TypeOK
    <3>5. pending[b].month = m
      BY <2>3, <3>3, <3>4 DEF UsedIn
    <3>6. counter'[m] = pending[b].row /\ counter'[m] # NoRow /\ pending'[b] = NoRow
      BY <3>2, <3>3, <3>4, <3>5, QuotaAssumption DEF CounterRow
    <3>7. pending[b].row.used # UsedIn(m)
      BY <2>3, <3>6 DEF UsedIn
    <3> QED  BY <3>1, <3>5, <3>6, <3>7 DEF StaleWrite, WriteCounter
  <2> QED  BY <2>2, <2>3
<1>5. ASSUME UNCHANGED <<res, usage, counter, plan, pending>>
      PROVE  UsedIn(m)' - UsedIn(m) = Cardinality(Charged(m)') - Cardinality(Charged(m))
  <2>1. UsedIn(m)' = UsedIn(m) /\ Charged(m)' = Charged(m)
    BY <1>5 DEF UsedIn, Charged
  <2> QED  BY <1>0, <2>1
<1> QED  BY <1>0, <1>1, <1>2, <1>3, <1>4, <1>5, StepLooks

\* A month's counter moves with the reservations charged to it; only a billing write of a row
\* read before they changed parts them.
THEOREM CounterFollowsHolds == Spec => CounterFollows
<1>1. IInv /\ [Next]_vars =>
        [\A m \in Months :
            \/ UsedIn(m)' - UsedIn(m) = Cardinality(Charged(m)') - Cardinality(Charged(m))
            \/ StaleWrite(m)]_vars
  BY CounterMoves
<1> QED  BY <1>1, Invariance, PTL DEF Spec, CounterFollows

LEMMA ChargeFits ==
  ASSUME IInv, [Next]_vars, NEW m \in Months,
         UsedIn(m) = Cardinality(Charged(m)),
         ~ (Charged(m)' \subseteq Charged(m))
  PROVE  active /\ Cardinality(Charged(m)') <= Allowance(counter'[m])
<1>0. TypeOK /\ IsFiniteSet(Charged(m))
  BY ChargedFinite DEF IInv
<1>1. ASSUME NEW r \in Reservations, NEW n \in Months, Charge(r, n),
             res[r].status \in {"none", "released"}
      PROVE  active /\ Cardinality(Charged(m)') <= Allowance(counter'[m])
  <2>1. m = n
    BY <1>0, <1>1, ChargeLooks
  <2>2. /\ active
        /\ counter'[m].used = UsedIn(m) + 1
        /\ counter'[m].used <= Allowance(counter'[m])
        /\ Charged(m)' = Charged(m) \cup {r}
        /\ r \notin Charged(m)
    BY <1>0, <1>1, <2>1, ChargeLooks
  <2>3. Cardinality(Charged(m)') = Cardinality(Charged(m)) + 1
    BY <1>0, <2>2, FS_AddElement
  <2> QED  BY <2>2, <2>3
<1>2. ~ \E r \in Reservations : Consume(r)
  BY <1>0, ConsumeLooks
<1>3. ASSUME NEW r \in Reservations, Release(r)
      PROVE  FALSE
  <2>1. PICK n \in Months : n = res[r].month
    BY <1>0 DEF TypeOK
  <2>2. Charged(m)' \subseteq Charged(m)
    BY <1>0, <1>3, <2>1, ReleaseLooks
  <2> QED  BY <2>2
<1>4. ~ UNCHANGED res
  BY DEF Charged
<1> QED  BY <1>0, <1>1, <1>2, <1>3, <1>4, StepLooks

\* Where no billing write made the counter forget pages, a month's reservations fit its
\* allowance whenever one is taken.
THEOREM ChargedWithinAllowanceHolds == Spec => ChargedWithinAllowance
<1>1. IInv /\ [Next]_vars =>
        [\A m \in Months :
            /\ UsedIn(m) = Cardinality(Charged(m))
            /\ ~ (Charged(m)' \subseteq Charged(m))
            => /\ active
               /\ Cardinality(Charged(m)') <= Allowance(counter'[m])]_vars
  BY ChargeFits
<1> QED  BY <1>1, Invariance, PTL DEF Spec, ChargedWithinAllowance

(***************************************************************************)
(* Histories without a stale billing write                                 *)
(***************************************************************************)
LEMMA InitExact == Init => CounterExact
<1> SUFFICES ASSUME Init, NEW m \in Months PROVE UsedIn(m) = Cardinality(Charged(m))
  BY DEF CounterExact
<1>1. Charged(m) = {}
  BY DEF Init, Charged
<1>2. UsedIn(m) = 0
  BY DEF Init, UsedIn
<1> QED  BY <1>1, <1>2, FS_EmptySet

LEMMA FreshExact == IInv /\ CounterExact /\ [FreshNext]_vars => CounterExact'
<1> SUFFICES ASSUME IInv, CounterExact, [FreshNext]_vars, NEW m \in Months
             PROVE  (UsedIn(m) = Cardinality(Charged(m)))'
  BY DEF CounterExact
<1>1. /\ UsedIn(m) \in Nat /\ UsedIn(m)' \in Nat
      /\ Cardinality(Charged(m)) \in Nat /\ Cardinality(Charged(m))' \in Nat
  <2>1. IInv'
    BY NextIInv DEF FreshNext
  <2>2. UsedIn(m) \in Nat /\ UsedIn(m)' \in Nat
    BY <2>1, UsedTyped DEF IInv, TypeOK, UsedIn, CounterRow
  <2>3. Cardinality(Charged(m)) \in Nat /\ Cardinality(Charged(m))' \in Nat
    <3>1. Charged(m)' \subseteq Reservations
      BY DEF Charged
    <3> QED  BY <3>1, ChargedFinite, FS_Subset, FS_CardinalityType, QuotaAssumption
  <2> QED  BY <2>2, <2>3
<1>2. UsedIn(m) = Cardinality(Charged(m))
  BY DEF CounterExact
<1>3. \/ UsedIn(m)' - UsedIn(m) = Cardinality(Charged(m)') - Cardinality(Charged(m))
      \/ StaleWrite(m)
  BY CounterMoves DEF FreshNext
<1>4. UsedIn(m)' - UsedIn(m) = Cardinality(Charged(m))' - Cardinality(Charged(m))
  <2>1. CASE FreshNext
    BY <1>3, <2>1 DEF FreshNext
  <2>2. CASE UNCHANGED vars
    <3>1. UsedIn(m)' = UsedIn(m) /\ Charged(m)' = Charged(m)
      BY <2>2 DEF vars, UsedIn, Charged
    <3> QED  BY <1>1, <3>1
  <2> QED  BY <2>1, <2>2
<1> QED  BY <1>1, <1>2, <1>4

\* As long as applyPaidOrder and applyRefund write back no row that changed since they read it,
\* nor one they failed to read, a month's counter is the number of reservations charged to it.
THEOREM FreshCounter == FreshSpec => []CounterExact
<1>1. IInv /\ CounterExact /\ [FreshNext]_vars => (IInv /\ CounterExact)'
  BY NextIInv, FreshExact DEF FreshNext
<1> QED  BY <1>1, InitIInv, InitExact, PTL DEF FreshSpec

\* In such histories release_usage_reservation never raises the inconsistency it looks for.
THEOREM FreshRelease == FreshSpec => []ReleaseSucceeds
<1>1. IInv /\ CounterExact => ReleaseSucceeds
  <2> SUFFICES ASSUME IInv, CounterExact, NEW r \in Reservations, res[r].status = "reserved"
               PROVE  UsedIn(res[r].month) >= 1
    BY DEF ReleaseSucceeds
  <2>1. PICK m \in Months : m = res[r].month
    BY DEF IInv, TypeOK
  <2>2. r \in Charged(m) /\ IsFiniteSet(Charged(m)) /\ Cardinality(Charged(m)) \in Nat
    BY <2>1, ChargedFinite DEF Charged
  <2>3. Cardinality(Charged(m)) # 0
    BY <2>2, FS_EmptySet
  <2>4. UsedIn(m) = Cardinality(Charged(m))
    BY DEF CounterExact
  <2> QED  BY <2>1, <2>2, <2>3, <2>4
<1>2. IInv /\ CounterExact /\ [FreshNext]_vars => (IInv /\ CounterExact)'
  BY NextIInv, FreshExact DEF FreshNext
<1> QED  BY <1>1, <1>2, InitIInv, InitExact, PTL DEF FreshSpec

\* And in such histories OCR is hard-blocked: whenever a reservation is taken, in whichever month,
\* the subscription is active and all that are charged to the month fit its plan and add-ons.
THEOREM FreshHardBlock == FreshSpec => ChargesFit
<1>1. IInv /\ CounterExact /\ [FreshNext]_vars => (IInv /\ CounterExact)'
  BY NextIInv, FreshExact DEF FreshNext
<1>2. IInv /\ CounterExact /\ [FreshNext]_vars =>
        [\A m \in Months : ~ (Charged(m)' \subseteq Charged(m)) =>
            active /\ Cardinality(Charged(m)') <= Allowance(counter'[m])]_vars
  <2> SUFFICES ASSUME IInv, CounterExact, FreshNext, NEW m \in Months,
                      ~ (Charged(m)' \subseteq Charged(m))
               PROVE  active /\ Cardinality(Charged(m)') <= Allowance(counter'[m])
    OBVIOUS
  <2>1. UsedIn(m) = Cardinality(Charged(m))
    BY DEF CounterExact
  <2> QED  BY <2>1, ChargeFits DEF FreshNext
<1> QED  BY <1>1, <1>2, InitIInv, InitExact, PTL DEF FreshSpec, ChargesFit

(***************************************************************************)
(* The life cycle of a reservation                                         *)
(***************************************************************************)
\* The quota implements the life cycle that OcrJobs relies on: the database functions take, give
\* back and consume, with the event of a consumption written in the same transaction.
THEOREM LifecycleImplemented == Spec => ImplementsReservation
<1> DEFINE status == [r \in Reservations |-> res[r].status]
<1> DEFINE billed == {e.id : e \in usage}
<1>1. Init => Reservation!Init
  <2> SUFFICES ASSUME Init PROVE Reservation!Init
    OBVIOUS
  <2>1. \A r \in Reservations : res[r].status = "none"
    BY DEF Init
  <2>2. billed = {}
    BY DEF Init
  <2> QED  BY <2>1, <2>2 DEF Reservation!Init
<1>2. ASSUME IInv, [Next]_vars
      PROVE  [Reservation!Next]_(Reservation!vars)
  <2>0. TypeOK /\ res \in [Reservations -> ResRow]
    BY <1>2 DEF IInv, TypeOK, ResRow
  <2>1. ASSUME NEW r \in Reservations, NEW m \in Months, Charge(r, m),
               res[r].status \in {"none", "released"}
        PROVE  Reservation!Next
    <3>1. UNCHANGED usage /\ res' = [res EXCEPT ![r] = [status |-> "reserved", month |-> m]]
      BY <2>1 DEF Charge
    <3>2. res'[r].status = "reserved" /\ \A q \in Reservations : q # r => res'[q] = res[q]
      BY <2>0, <3>1
    <3>3. status' = [status EXCEPT ![r] = "reserved"]
      BY <3>2
    <3>4. billed' = billed
      BY <3>1
    <3> QED  BY <2>1, <3>3, <3>4 DEF Reservation!Next, Reservation!Take
  <2>2. ASSUME NEW r \in Reservations, Consume(r)
        PROVE  Reservation!Next
    <3>1. /\ res'[r].status = "consumed" /\ \A q \in Reservations \ {r} : res'[q] = res[q]
          /\ res[r].status = "reserved"
      BY <2>0, <2>2, ConsumeLooks DEF Consume
    <3>2. status' = [status EXCEPT ![r] = "consumed"]
      BY <3>1
    <3>3. PICK e : usage' = usage \cup {e} /\ e.id = r
      <4> DEFINE e == [id |-> r, month |-> res[r].month]
      <4>1. usage' = usage \cup {e}
        BY <2>2 DEF Consume
      <4>2. e.id = r
        OBVIOUS
      <4> HIDE DEF e
      <4> QED  BY <4>1, <4>2
    <3>4. billed' = billed \cup {r}
      BY <3>3
    <3> QED  BY <3>1, <3>2, <3>4 DEF Reservation!Next, Reservation!Consume
  <2>3. ASSUME NEW r \in Reservations, Release(r)
        PROVE  Reservation!Next
    <3>1. PICK m \in Months : m = res[r].month
      BY <2>0 DEF ResRow
    <3>2. /\ res'[r].status = "released" /\ \A q \in Reservations \ {r} : res'[q] = res[q]
          /\ res[r].status = "reserved" /\ UNCHANGED usage
      BY <2>0, <2>3, <3>1, ReleaseLooks DEF Release
    <3>3. status' = [status EXCEPT ![r] = "released"]
      BY <3>2
    <3>4. billed' = billed
      BY <3>2
    <3> QED  BY <3>2, <3>3, <3>4 DEF Reservation!Next, Reservation!GiveBack
  <2>4. CASE UNCHANGED <<res, usage>>
    <3>1. status' = status /\ billed' = billed
      BY <2>4
    <3> QED  BY <3>1 DEF Reservation!vars
  <2> QED  BY <1>2, <2>0, <2>1, <2>2, <2>3, <2>4, StepLooks
<1> QED  BY <1>1, <1>2, Invariance, PTL DEF Spec, ImplementsReservation, Reservation!Spec
=============================================================================
