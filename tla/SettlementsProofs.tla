-------------------------- MODULE SettlementsProofs --------------------------
(***************************************************************************)
(* Proofs about Settlements, for any batches, reports, variables and       *)
(* requests.  What a request has read grows old, so the inductive          *)
(* invariant says what of it stays true: a batch that was there is there,  *)
(* a batch that passed the gate has no open exception, for only its        *)
(* generation opens any, and the manual items only grow.                   *)
(***************************************************************************)
EXTENDS Settlements, FiniteSetTheorems, TLAPS

\* A batch that does not exist has no items, and only a settled report has exceptions.
ItemsInv ==
    \A b \in Batches : \A r \in Reports :
        /\ batch[b].status = "none" => item[b][r] = NoItem
        /\ item[b][r].open # {} => item[b][r].linked

\* Past its first reading a request is about a batch that exists, past the gate about one without
\* open exceptions, and past the list of exceptions about a report.
GateInv(q) ==
    /\ req[q].step \in {"resolve_item", "resolve"} => req[q].report \in Reports
    /\ req[q].step \in {"confirm_gate", "confirm", "lock_gate", "lock", "reopen"} =>
           batch[B(q)].status # "none"
    /\ req[q].step \in {"confirm", "lock"} => ~ HasOpen(B(q))

\* The total a request has read, and the item it has inserted, are among the manual items.
ManualInv(q) ==
    /\ req[q].step = "insert" => req[q].saw <= manual[B(q)]
    /\ req[q].step = "total" => req[q].saw + 1 <= manual[B(q)]

GatesInv == \A q \in Requests : GateInv(q)
ManualsInv == \A q \in Requests : ManualInv(q)

IInv ==
    /\ TypeOK
    /\ ItemsInv
    /\ GatesInv
    /\ ManualsInv
    /\ NoDoubleSettle
    /\ ComputedTotal
    /\ GateHolds
    /\ ManualCovered

LEMMA InitIInv == Init => IInv
<1> SUFFICES ASSUME Init PROVE IInv
  OBVIOUS
<1>1. TypeOK
  BY SettlementAssumption DEF Init, TypeOK, BatchRow, BatchStatus, ItemRow, NoItem
<1>2. ItemsInv /\ NoDoubleSettle /\ GateHolds /\ ManualCovered
  BY DEF Init, ItemsInv, NoDoubleSettle, GateHolds, ManualCovered, HasOpen, NoItem, Closed
<1>3. GatesInv /\ ManualsInv
  BY DEF Init, GatesInv, GateInv, ManualsInv, ManualInv, Idle
<1>4. ComputedTotal
  <2> SUFFICES ASSUME NEW b \in Batches
               PROVE  batch[b].computed = Cardinality({r \in Reports : item[b][r].amount = 1})
    BY DEF ComputedTotal
  <2>1. {r \in Reports : item[b][r].amount = 1} = {}
    BY DEF Init, NoItem
  <2> QED  BY <2>1, FS_EmptySet DEF Init
<1> QED  BY <1>1, <1>2, <1>3, <1>4 DEF IInv

(***************************************************************************)
(* What a step does to the record of its request                           *)
(***************************************************************************)
OnlyReq(q) == /\ req' \in [Requests -> Walk \cup {Idle}]
              /\ \A p \in Requests \ {q} : req'[p] = req[p]
OnlyBatch(b) == \A c \in Batches \ {b} : batch'[c] = batch[c]

LEMMA Busy ==
  ASSUME TypeOK, NEW q \in Requests, req[q].step # "idle"
  PROVE  req[q] \in Walk /\ B(q) \in Batches
  BY DEF TypeOK, Idle, Walk, B

LEMMA EndMoves ==
  ASSUME TypeOK, NEW q \in Requests, End(q)
  PROVE  OnlyReq(q) /\ req'[q] = Idle /\ req'[q].step = "idle"
  BY DEF TypeOK, End, OnlyReq, Idle

LEMMA GoMoves ==
  ASSUME TypeOK, NEW q \in Requests, req[q].step # "idle", NEW s \in Steps, Go(q, s)
  PROVE  OnlyReq(q) /\ req'[q].step = s /\ B(q)' = B(q) /\ req'[q].saw = req[q].saw
<1>1. req[q] \in Walk
  BY Busy
<1>2. [req[q] EXCEPT !.step = s] \in Walk
  BY <1>1 DEF Walk
<1>3. req' = [req EXCEPT ![q] = [req[q] EXCEPT !.step = s]]
  BY DEF Go
<1>4. req'[q] = [req[q] EXCEPT !.step = s]
  BY <1>3 DEF TypeOK
<1> QED  BY <1>1, <1>2, <1>3, <1>4 DEF TypeOK, OnlyReq, B, Walk

LEMMA StartTyped ==
  ASSUME NEW b \in Batches, NEW s \in Steps
  PROVE  Start(b, s) \in Walk /\ Start(b, s).step = s /\ Start(b, s).of = b
  BY DEF Start, Walk

LEMMA BeginMoves ==
  ASSUME TypeOK, NEW q \in Requests, NEW b \in Batches, NEW s \in Steps, Begin(q, b, s)
  PROVE  OnlyReq(q) /\ req'[q].step = s /\ B(q)' = b
<1>1. Start(b, s) \in Walk /\ Start(b, s).step = s /\ Start(b, s).of = b
  BY StartTyped
<1> QED  BY <1>1 DEF Begin, TypeOK, OnlyReq, B

(***************************************************************************)
(* What a step leaves true of the other requests                           *)
(***************************************************************************)
\* A batch that exists goes on to exist, and gets no exception.
BatchesStay == \A b \in Batches : batch[b].status # "none" =>
                  batch'[b].status # "none" /\ (HasOpen(b)' => HasOpen(b))
ManualStays == \A b \in Batches : manual[b] <= manual'[b]

LEMMA GatesKept ==
  ASSUME TypeOK, GatesInv, NEW q \in Requests, OnlyReq(q), BatchesStay, GateInv(q)'
  PROVE  GatesInv'
<1> SUFFICES ASSUME NEW p \in Requests, p # q PROVE GateInv(p)'
  BY DEF GatesInv
<1>1. req'[p] = req[p] /\ B(p)' = B(p)
  BY DEF OnlyReq, B
<1>2. CASE req[p].step = "idle"
  BY <1>1, <1>2 DEF GateInv
<1>3. CASE req[p].step # "idle"
  <2>1. B(p) \in Batches /\ GateInv(p)
    BY <1>3, Busy DEF GatesInv
  <2> QED  BY <1>1, <2>1 DEF GateInv, BatchesStay, HasOpen
<1> QED  BY <1>2, <1>3

LEMMA ManualsKept ==
  ASSUME TypeOK, TypeOK', ManualsInv, NEW q \in Requests, OnlyReq(q), ManualStays, ManualInv(q)'
  PROVE  ManualsInv'
<1> SUFFICES ASSUME NEW p \in Requests, p # q PROVE ManualInv(p)'
  BY DEF ManualsInv
<1>1. req'[p] = req[p] /\ B(p)' = B(p)
  BY DEF OnlyReq, B
<1>2. CASE req[p].step = "idle"
  BY <1>1, <1>2 DEF ManualInv
<1>3. CASE req[p].step # "idle"
  <2>1. B(p) \in Batches /\ req[p] \in Walk /\ ManualInv(p)
    BY <1>3, Busy DEF ManualsInv
  <2>2. manual[B(p)] \in Nat /\ manual'[B(p)] \in Nat /\ req[p].saw \in Nat
    BY <2>1, SettlementAssumption DEF TypeOK, Walk
  <2>3. manual[B(p)] <= manual'[B(p)]
    BY <2>1 DEF ManualStays
  <2> QED  BY <1>1, <2>1, <2>2, <2>3 DEF ManualInv
<1> QED  BY <1>2, <1>3

\* A step that writes no row.
LEMMA RowsKept ==
  ASSUME IInv, NEW q \in Requests, UNCHANGED rows, OnlyReq(q), GateInv(q)', ManualInv(q)'
  PROVE  IInv'
<1>1. TypeOK'
  BY DEF IInv, TypeOK, rows, OnlyReq
<1>2. ItemsInv' /\ NoDoubleSettle' /\ ComputedTotal' /\ GateHolds' /\ ManualCovered'
  BY DEF IInv, rows, ItemsInv, NoDoubleSettle, ComputedTotal, GateHolds, HasOpen, ManualCovered
<1>3. BatchesStay
  BY DEF BatchesStay, rows, HasOpen
<1>4. ManualStays
  BY SettlementAssumption DEF ManualStays, rows, IInv, TypeOK
<1>5. GatesInv'
  BY <1>3, GatesKept DEF IInv
<1>6. ManualsInv'
  BY <1>1, <1>4, ManualsKept DEF IInv
<1> QED  BY <1>1, <1>2, <1>5, <1>6 DEF IInv

\* A step that gives one batch another status and writes nothing else of it.
LEMMA StatusKept ==
  ASSUME IInv, NEW q \in Requests, req[q].step # "idle",
         NEW s \in BatchStatus \ {"none"}, SetStatus(B(q), s), End(q),
         UNCHANGED <<item, manual>>, s \in Closed => ~ HasOpen(B(q))
  PROVE  IInv'
<1> DEFINE b == B(q)
<1>1. b \in Batches /\ batch[b] \in BatchRow
  BY Busy DEF IInv, TypeOK
<1>2. /\ batch'[b] \in BatchRow /\ batch'[b].status = s
      /\ batch'[b].computed = batch[b].computed
      /\ batch'[b].manualTotal = batch[b].manualTotal
  BY <1>1 DEF SetStatus, IInv, TypeOK, BatchRow
<1>3. batch' \in [Batches -> BatchRow] /\ OnlyBatch(b)
  BY <1>1, <1>2 DEF SetStatus, IInv, TypeOK, OnlyBatch
<1>4. OnlyReq(q) /\ req'[q].step = "idle"
  BY EndMoves DEF IInv
<1> HIDE DEF b
<1>5. TypeOK'
  BY <1>3, <1>4 DEF IInv, TypeOK, OnlyReq
<1>6. ItemsInv' /\ NoDoubleSettle'
  BY <1>2, <1>3 DEF IInv, ItemsInv, NoDoubleSettle, OnlyBatch
<1>7. ComputedTotal' /\ ManualCovered'
  BY <1>2, <1>3 DEF IInv, ComputedTotal, ManualCovered, OnlyBatch
<1>8. GateHolds'
  BY <1>2, <1>3 DEF IInv, GateHolds, HasOpen, OnlyBatch, b
<1>9. BatchesStay
  BY <1>2, <1>3 DEF BatchesStay, HasOpen, OnlyBatch
<1>10. ManualStays
  BY SettlementAssumption DEF ManualStays, IInv, TypeOK
<1>11. GatesInv'
  BY <1>4, <1>9, GatesKept DEF IInv, GateInv
<1>12. ManualsInv'
  BY <1>4, <1>5, <1>10, ManualsKept DEF IInv, ManualInv
<1> QED  BY <1>5, <1>6, <1>7, <1>8, <1>11, <1>12 DEF IInv

(***************************************************************************)
(* Every step keeps the invariant: readings, gates and statuses            *)
(***************************************************************************)
\* Fields of a fresh record.
LEMMA StartFields ==
  ASSUME NEW b \in Batches, NEW s \in Steps, NEW x \in Walk, x = Start(b, s)
  PROVE  /\ \A P \in SUBSET Reports : /\ [x EXCEPT !.picked = P] \in Walk
                                      /\ [x EXCEPT !.picked = P].step = s
         /\ \A n \in Nat : /\ [x EXCEPT !.saw = n] \in Walk
                           /\ [x EXCEPT !.saw = n].step = s
                           /\ [x EXCEPT !.saw = n].of = b
                           /\ [x EXCEPT !.saw = n].saw = n
  BY DEF Start, Walk

LEMMA ReadPoolStep ==
  ASSUME IInv, NEW q \in Requests, NEW b \in Batches, ReadPool(q, b)
  PROVE  IInv'
<1>1. PICK P \in SUBSET Reports : req' = [req EXCEPT ![q] = [Start(b, "create") EXCEPT !.picked = P]]
  BY DEF ReadPool
<1>2. "create" \in Steps
  BY DEF Steps
<1>3. [Start(b, "create") EXCEPT !.picked = P] \in Walk /\ [Start(b, "create") EXCEPT !.picked = P].step = "create"
  BY <1>2, StartTyped, StartFields
<1>4. OnlyReq(q) /\ req'[q].step = "create"
  BY <1>1, <1>3 DEF IInv, TypeOK, OnlyReq
<1> QED  BY <1>4, RowsKept DEF ReadPool, GateInv, ManualInv

LEMMA ReadToResolveStep ==
  ASSUME IInv, NEW q \in Requests, NEW b \in Batches, ReadToResolve(q, b)
  PROVE  IInv'
<1>1. OnlyReq(q) /\ req'[q].step = "resolve_list"
  BY BeginMoves DEF ReadToResolve, IInv, Steps
<1> QED  BY <1>1, RowsKept DEF ReadToResolve, GateInv, ManualInv

LEMMA ListExceptionsStep ==
  ASSUME IInv, NEW q \in Requests, NEW r \in Reports, NEW v \in Variables, ListExceptions(q, r, v)
  PROVE  IInv'
<1>1. req[q] \in Walk
  BY Busy DEF ListExceptions, At, IInv
<1> DEFINE x == [req[q] EXCEPT !.step = "resolve_item", !.report = r, !.variable = v,
                               !.replay = (item[B(q)][r].open = {v})]
<1>2. x \in Walk /\ x.step = "resolve_item" /\ x.report = r
  BY <1>1 DEF Walk, Steps
<1>3. req' = [req EXCEPT ![q] = x]
  BY DEF ListExceptions
<1> HIDE DEF x
<1>4. OnlyReq(q) /\ req'[q].step = "resolve_item" /\ req'[q].report = r
  BY <1>2, <1>3 DEF IInv, TypeOK, OnlyReq
<1> QED  BY <1>4, RowsKept DEF ListExceptions, GateInv, ManualInv

LEMMA ReadItemStep ==
  ASSUME IInv, NEW q \in Requests, ReadItem(q)
  PROVE  IInv'
<1> DEFINE old == item[B(q)][req[q].report].amount
           x == [req[q] EXCEPT !.step = "resolve", !.old = old]
<1>1. req[q] \in Walk /\ B(q) \in Batches /\ req[q].report \in Reports
  BY Busy DEF ReadItem, At, IInv, GatesInv, GateInv
<1>2. old \in {0, 1}
  BY <1>1 DEF IInv, TypeOK, ItemRow
<1>3. x \in Walk /\ x.step = "resolve" /\ x.report = req[q].report
  BY <1>1, <1>2 DEF Walk, Steps
<1>4. req' = [req EXCEPT ![q] = x]
  BY DEF ReadItem
<1> HIDE DEF x
<1>5. OnlyReq(q) /\ req'[q].step = "resolve" /\ req'[q].report = req[q].report
  BY <1>3, <1>4 DEF IInv, TypeOK, OnlyReq
<1> QED  BY <1>1, <1>5, RowsKept DEF ReadItem, GateInv, ManualInv

LEMMA ReadToConfirmStep ==
  ASSUME IInv, NEW q \in Requests, NEW b \in Batches, ReadToConfirm(q, b)
  PROVE  IInv'
<1>1. OnlyReq(q) /\ req'[q].step = "confirm_gate" /\ B(q)' = b
  BY BeginMoves DEF ReadToConfirm, IInv, Steps
<1> QED  BY <1>1, RowsKept DEF ReadToConfirm, GateInv, ManualInv, rows

LEMMA ReadToLockStep ==
  ASSUME IInv, NEW q \in Requests, NEW b \in Batches, ReadToLock(q, b)
  PROVE  IInv'
<1>1. OnlyReq(q) /\ req'[q].step = "lock_gate" /\ B(q)' = b
  BY BeginMoves DEF ReadToLock, IInv, Steps
<1> QED  BY <1>1, RowsKept DEF ReadToLock, GateInv, ManualInv, rows

LEMMA ReadToReopenStep ==
  ASSUME IInv, NEW q \in Requests, NEW b \in Batches, ReadToReopen(q, b)
  PROVE  IInv'
<1>1. OnlyReq(q) /\ req'[q].step = "reopen" /\ B(q)' = b
  BY BeginMoves DEF ReadToReopen, IInv, Steps
<1> QED  BY <1>1, RowsKept DEF ReadToReopen, GateInv, ManualInv, rows

LEMMA PassGateStep ==
  ASSUME IInv, NEW q \in Requests, PassGate(q)
  PROVE  IInv'
<1>1. req[q].step \in {"confirm_gate", "lock_gate"} /\ GateInv(q)
  BY DEF PassGate, At, IInv, GatesInv
<1>2. OnlyReq(q) /\ req'[q].step \in {"confirm", "lock"} /\ B(q)' = B(q)
  BY <1>1, GoMoves DEF PassGate, IInv, Steps
<1>3. HasOpen(B(q))' = HasOpen(B(q)) /\ batch' = batch
  BY <1>2 DEF PassGate, rows, HasOpen
<1>4. GateInv(q)' /\ ManualInv(q)'
  BY <1>1, <1>2, <1>3 DEF PassGate, GateInv, ManualInv
<1> QED  BY <1>2, <1>4, RowsKept DEF PassGate

LEMMA StopStep ==
  ASSUME IInv, NEW q \in Requests, Stop(q)
  PROVE  IInv'
<1>1. OnlyReq(q) /\ req'[q].step = "idle"
  BY EndMoves DEF Stop, IInv
<1> QED  BY <1>1, RowsKept DEF Stop, GateInv, ManualInv

LEMMA ConfirmStep ==
  ASSUME IInv, NEW q \in Requests, Confirm(q)
  PROVE  IInv'
<1>1. req[q].step = "confirm" /\ ~ HasOpen(B(q))
  BY DEF Confirm, At, IInv, GatesInv, GateInv
<1> QED  BY <1>1, StatusKept DEF Confirm, BatchStatus

LEMMA LockStep ==
  ASSUME IInv, NEW q \in Requests, Lock(q)
  PROVE  IInv'
<1>1. req[q].step = "lock" /\ ~ HasOpen(B(q))
  BY DEF Lock, At, IInv, GatesInv, GateInv
<1> QED  BY <1>1, StatusKept DEF Lock, BatchStatus

LEMMA ReopenStep ==
  ASSUME IInv, NEW q \in Requests, Reopen(q)
  PROVE  IInv'
  BY StatusKept DEF Reopen, At, BatchStatus, Closed

(***************************************************************************)
(* Manual items                                                            *)
(***************************************************************************)
LEMMA ReadToAddStep ==
  ASSUME IInv, NEW q \in Requests, NEW b \in Batches, ReadToAdd(q, b)
  PROVE  IInv'
<1>1. batch[b].manualTotal \in Nat /\ batch[b].manualTotal <= manual[b]
  BY DEF IInv, TypeOK, BatchRow, ManualCovered
<1> DEFINE x == [Start(b, "insert") EXCEPT !.saw = batch[b].manualTotal]
<1>2. x \in Walk /\ x.step = "insert" /\ x.of = b /\ x.saw = batch[b].manualTotal
  BY <1>1, StartTyped, StartFields DEF Steps
<1>3. req' = [req EXCEPT ![q] = x]
  BY DEF ReadToAdd
<1> HIDE DEF x
<1>4. OnlyReq(q) /\ req'[q] = x
  BY <1>2, <1>3 DEF IInv, TypeOK, OnlyReq
<1> QED  BY <1>1, <1>2, <1>4, RowsKept DEF ReadToAdd, GateInv, ManualInv, B, rows

LEMMA InsertManualStep ==
  ASSUME IInv, NEW q \in Requests, InsertManual(q)
  PROVE  IInv'
<1> DEFINE b == B(q)
<1>1. b \in Batches /\ req[q].step = "insert" /\ manual[b] \in 0 .. MaxManual
      /\ req[q] \in Walk /\ req[q].saw \in Nat
  BY Busy DEF InsertManual, At, IInv, TypeOK, Walk
<1>2. /\ manual[b] < MaxManual /\ manual' = [manual EXCEPT ![b] = manual[b] + 1]
      /\ batch' = batch /\ item' = item
  BY DEF InsertManual
<1>3. OnlyReq(q) /\ req'[q].step = "total" /\ B(q)' = b /\ req'[q].saw = req[q].saw
  BY <1>1, GoMoves DEF InsertManual, IInv, Steps
<1>4. req[q].saw <= manual[b]
  BY <1>1 DEF IInv, ManualsInv, ManualInv
<1> HIDE DEF b
<1>5. manual' \in [Batches -> 0 .. MaxManual] /\ manual'[b] = manual[b] + 1
      /\ \A c \in Batches \ {b} : manual'[c] = manual[c]
  BY <1>1, <1>2, SettlementAssumption DEF IInv, TypeOK
<1>6. TypeOK'
  BY <1>2, <1>3, <1>5 DEF IInv, TypeOK, OnlyReq
<1>7. ItemsInv' /\ NoDoubleSettle' /\ ComputedTotal' /\ GateHolds'
  BY <1>2 DEF IInv, ItemsInv, NoDoubleSettle, ComputedTotal, GateHolds, HasOpen
<1>8. ManualStays
  BY <1>1, <1>5, SettlementAssumption DEF ManualStays, IInv, TypeOK
<1>9. ManualCovered'
  <2> SUFFICES ASSUME NEW c \in Batches PROVE batch[c].manualTotal <= manual'[c]
    BY <1>2 DEF ManualCovered
  <2>1. batch[c].manualTotal \in Nat /\ manual[c] \in Nat /\ manual'[c] \in Nat
    BY <1>5, SettlementAssumption DEF IInv, TypeOK, BatchRow
  <2>2. batch[c].manualTotal <= manual[c] /\ manual[c] <= manual'[c]
    BY <1>8 DEF IInv, ManualCovered, ManualStays
  <2> QED  BY <2>1, <2>2
<1>10. BatchesStay
  BY <1>2 DEF BatchesStay, HasOpen
<1>11. GatesInv'
  BY <1>3, <1>10, GatesKept DEF IInv, GateInv
<1>12. ManualInv(q)'
  BY <1>1, <1>3, <1>4, <1>5, SettlementAssumption DEF ManualInv
<1>13. ManualsInv'
  BY <1>3, <1>6, <1>8, <1>12, ManualsKept DEF IInv
<1> QED  BY <1>6, <1>7, <1>9, <1>11, <1>13 DEF IInv

LEMMA WriteTotalStep ==
  ASSUME IInv, NEW q \in Requests, WriteTotal(q)
  PROVE  IInv'
<1> DEFINE b == B(q)
<1>1. b \in Batches /\ req[q].step = "total" /\ req[q] \in Walk /\ req[q].saw + 1 \in Nat
      /\ batch[b] \in BatchRow
  BY Busy DEF WriteTotal, At, IInv, TypeOK, Walk
<1>2. /\ batch' = [batch EXCEPT ![b] = [batch[b] EXCEPT !.manualTotal = req[q].saw + 1]]
      /\ item' = item /\ manual' = manual
  BY DEF WriteTotal
<1>3. OnlyReq(q) /\ req'[q].step = "idle"
  BY EndMoves DEF WriteTotal, IInv
<1>4. req[q].saw + 1 <= manual[b]
  BY <1>1 DEF IInv, ManualsInv, ManualInv
<1> HIDE DEF b
<1>5. /\ batch'[b] \in BatchRow /\ batch'[b].status = batch[b].status
      /\ batch'[b].computed = batch[b].computed /\ batch'[b].manualTotal = req[q].saw + 1
  BY <1>1, <1>2 DEF IInv, TypeOK, BatchRow
<1>6. batch' \in [Batches -> BatchRow] /\ OnlyBatch(b)
  BY <1>1, <1>2, <1>5 DEF IInv, TypeOK, OnlyBatch
<1>7. TypeOK'
  BY <1>2, <1>3, <1>6 DEF IInv, TypeOK, OnlyReq
<1>8. ItemsInv' /\ NoDoubleSettle' /\ ComputedTotal' /\ GateHolds'
  BY <1>2, <1>5, <1>6 DEF IInv, ItemsInv, NoDoubleSettle, ComputedTotal, GateHolds, HasOpen, OnlyBatch
<1>9. ManualCovered'
  BY <1>2, <1>4, <1>5, <1>6 DEF IInv, ManualCovered, OnlyBatch
<1>10. BatchesStay /\ ManualStays
  BY <1>2, <1>5, <1>6, SettlementAssumption
  DEF BatchesStay, HasOpen, OnlyBatch, ManualStays, IInv, TypeOK
<1>11. GatesInv'
  BY <1>3, <1>10, GatesKept DEF IInv, GateInv
<1>12. ManualsInv'
  BY <1>3, <1>7, <1>10, ManualsKept DEF IInv, ManualInv
<1> QED  BY <1>7, <1>8, <1>9, <1>11, <1>12 DEF IInv

(***************************************************************************)
(* Generating a batch and resolving an exception                           *)
(***************************************************************************)
\* The items of one batch are replaced.
OnlyItems(b) == \A c \in Batches \ {b} : item'[c] = item[c]
Amounted(b) == {r \in Reports : item[b][r].amount = 1}

LEMMA CreateStep ==
  ASSUME IInv, NEW q \in Requests, Create(q)
  PROVE  IInv'
<1>0. B(q) \in Batches /\ req[q].picked \subseteq Reports
  BY Busy DEF Create, At, IInv, Walk
<1>1. PICK b \in Batches, P \in SUBSET Reports : b = B(q) /\ P = req[q].picked
  BY <1>0
<1>2. batch[b].status = "none" /\ \A r \in P : ~ Settled(r)
  BY <1>1 DEF Create, Linkable
<1> DEFINE New(missing) ==
             [r \in Reports |->
                IF r \in P
                THEN [linked |-> TRUE, amount |-> IF missing[r] = {} THEN 1 ELSE 0,
                      open |-> missing[r]]
                ELSE NoItem]
           Row(missing) == [status |-> "generated", manualTotal |-> 0,
                            computed |-> Cardinality({r \in P : missing[r] = {}})]
<1>3. PICK missing \in [P -> SUBSET Variables] :
        item' = [item EXCEPT ![b] = New(missing)] /\ batch' = [batch EXCEPT ![b] = Row(missing)]
  <2>1. \E missing \in [req[q].picked -> SUBSET Variables] :
          /\ item' = [item EXCEPT ![B(q)] = [r \in Reports |->
                IF r \in req[q].picked
                THEN [linked |-> TRUE, amount |-> IF missing[r] = {} THEN 1 ELSE 0,
                      open |-> missing[r]]
                ELSE NoItem]]
          /\ batch' = [batch EXCEPT ![B(q)] =
                [status |-> "generated", manualTotal |-> 0,
                 computed |-> Cardinality({r \in req[q].picked : missing[r] = {}})]]
    BY DEF Create
  <2>2. PICK missing \in [req[q].picked -> SUBSET Variables] :
          /\ item' = [item EXCEPT ![b] = New(missing)]
          /\ batch' = [batch EXCEPT ![b] = Row(missing)]
    BY <1>1, <2>1
  <2> QED  BY <1>1, <2>2
<1>4. OnlyReq(q) /\ req'[q].step = "idle" /\ manual' = manual
  BY EndMoves DEF Create, IInv
<1>5. /\ OnlyItems(b)
      /\ \A r \in P : /\ item'[b][r].linked
                      /\ item'[b][r].open = missing[r]
                      /\ item'[b][r].amount = IF missing[r] = {} THEN 1 ELSE 0
                      /\ item'[b][r] \in ItemRow
      /\ \A r \in Reports \ P : item'[b][r] = NoItem /\ NoItem \in ItemRow
  <2>1. OnlyItems(b) /\ item'[b] = New(missing)
    BY <1>1, <1>3 DEF IInv, TypeOK, OnlyItems
  <2>2. \A r \in P : New(missing)[r] = [linked |-> TRUE, open |-> missing[r],
                                       amount |-> IF missing[r] = {} THEN 1 ELSE 0]
    BY <1>1
  <2>3. \A r \in P : item'[b][r] \in ItemRow
    BY <2>1, <2>2 DEF ItemRow
  <2>4. \A r \in Reports \ P : item'[b][r] = NoItem /\ NoItem \in ItemRow
    BY <2>1 DEF ItemRow, NoItem
  <2> QED  BY <2>1, <2>2, <2>3, <2>4
<1>6. item' \in [Batches -> [Reports -> ItemRow]]
  BY <1>1, <1>3, <1>5 DEF IInv, TypeOK, OnlyItems
<1>7. Amounted(b)' = {r \in P : missing[r] = {}}
  <2>1. \A r \in P : item'[b][r].amount = 1 <=> missing[r] = {}
    BY <1>5
  <2>2. \A r \in Reports \ P : item'[b][r].amount # 1
    BY <1>5 DEF NoItem
  <2> QED  BY <2>1, <2>2 DEF Amounted
<1>8. Cardinality(Amounted(b)') \in Nat
  <2>1. IsFiniteSet(Amounted(b)')
    BY FS_Subset, SettlementAssumption DEF Amounted
  <2> QED  BY <2>1, FS_CardinalityType
<1>9. /\ batch'[b].status = "generated" /\ batch'[b].manualTotal = 0
      /\ batch'[b].computed = Cardinality(Amounted(b)')
      /\ batch'[b] \in BatchRow /\ OnlyBatch(b) /\ batch' \in [Batches -> BatchRow]
  BY <1>1, <1>3, <1>7, <1>8 DEF IInv, TypeOK, BatchRow, BatchStatus, OnlyBatch
<1>10. TypeOK'
  BY <1>4, <1>6, <1>9 DEF IInv, TypeOK, OnlyReq
<1>11. ItemsInv'
  <2> SUFFICES ASSUME NEW c \in Batches, NEW r \in Reports
               PROVE  /\ batch'[c].status = "none" => item'[c][r] = NoItem
                      /\ item'[c][r].open # {} => item'[c][r].linked
    BY DEF ItemsInv
  <2>1. CASE c # b
    BY <1>5, <1>9, <2>1 DEF IInv, ItemsInv, OnlyBatch, OnlyItems
  <2>2. CASE c = b
    BY <1>5, <1>9, <2>2 DEF NoItem
  <2> QED  BY <2>1, <2>2
<1>12. NoDoubleSettle'
  <2> SUFFICES ASSUME NEW c \in Batches, NEW d \in Batches, NEW r \in Reports,
                      item'[c][r].linked, item'[d][r].linked, c # d
               PROVE  FALSE
    BY DEF NoDoubleSettle
  <2>1. c # b => item[c][r].linked
    BY <1>5 DEF OnlyItems
  <2>2. d # b => item[d][r].linked
    BY <1>5 DEF OnlyItems
  <2>3. CASE c = b
    BY <1>2, <1>5, <2>2, <2>3 DEF Settled, NoItem
  <2>4. CASE d = b
    BY <1>2, <1>5, <2>4 DEF Settled, NoItem, OnlyItems
  <2>5. CASE c # b /\ d # b
    BY <1>5, <2>2, <2>5 DEF IInv, NoDoubleSettle, OnlyItems
  <2> QED  BY <2>3, <2>4, <2>5
<1>13. ComputedTotal'
  <2> SUFFICES ASSUME NEW c \in Batches PROVE batch'[c].computed = Cardinality(Amounted(c)')
    BY DEF ComputedTotal, Amounted
  <2>1. CASE c # b
    <3>1. batch'[c] = batch[c] /\ item'[c] = item[c]
      BY <1>5, <1>9, <2>1 DEF OnlyBatch, OnlyItems
    <3> QED  BY <3>1 DEF IInv, ComputedTotal, Amounted
  <2>2. CASE c = b
    BY <1>9, <2>2
  <2> QED  BY <2>1, <2>2
<1>14. GateHolds'
  BY <1>5, <1>9 DEF IInv, GateHolds, HasOpen, Closed, OnlyBatch, OnlyItems
<1>15. ManualCovered'
  BY <1>4, <1>9, SettlementAssumption DEF IInv, TypeOK, ManualCovered, OnlyBatch
<1>16. BatchesStay /\ ManualStays
  BY <1>2, <1>4, <1>5, <1>9, SettlementAssumption
  DEF BatchesStay, ManualStays, HasOpen, OnlyBatch, OnlyItems, IInv, TypeOK
<1>17. GatesInv'
  BY <1>4, <1>16, GatesKept DEF IInv, GateInv
<1>18. ManualsInv'
  BY <1>4, <1>10, <1>16, ManualsKept DEF IInv, ManualInv
<1> QED  BY <1>10, <1>11, <1>12, <1>13, <1>14, <1>15, <1>17, <1>18 DEF IInv

\* The amounts of a batch when one item gets its amount, or keeps what it had.
LEMMA AmountedMoves ==
  ASSUME TypeOK, NEW b \in Batches, NEW r \in Reports, NEW new \in {0, 1},
         item'[b][r].amount = new, new = 1 \/ new = item[b][r].amount,
         \A p \in Reports \ {r} : item'[b][p] = item[b][p]
  PROVE  /\ Cardinality(Amounted(b)) \in Nat
         /\ Cardinality(Amounted(b)') = Cardinality(Amounted(b)) + new - item[b][r].amount
<1>1. IsFiniteSet(Amounted(b)) /\ Cardinality(Amounted(b)) \in Nat
  BY FS_Subset, FS_CardinalityType, SettlementAssumption DEF Amounted
<1>2. item[b][r].amount \in {0, 1}
  BY DEF TypeOK, ItemRow
<1>3. CASE new = item[b][r].amount
  <2>1. Amounted(b)' = Amounted(b)
    BY <1>3 DEF Amounted
  <2> QED  BY <1>1, <1>2, <1>3, <2>1
<1>4. CASE new = 1 /\ item[b][r].amount = 0
  <2>1. Amounted(b)' = Amounted(b) \cup {r} /\ r \notin Amounted(b)
    BY <1>4 DEF Amounted
  <2>2. Cardinality(Amounted(b)') = Cardinality(Amounted(b)) + 1
    BY <1>1, <2>1, FS_AddElement
  <2> QED  BY <1>1, <1>4, <2>2
<1> QED  BY <1>2, <1>3, <1>4

LEMMA ResolveStep ==
  ASSUME IInv, NEW q \in Requests, Resolve(q)
  PROVE  IInv'
<1>0. /\ B(q) \in Batches /\ req[q].report \in Reports /\ NewAmount(q) \in {0, 1}
      /\ NewAmount(q) = 1 \/ NewAmount(q) = req[q].old
      /\ req[q].old \in {0, 1}
  <2>1. req[q] \in Walk /\ B(q) \in Batches /\ req[q].report \in Reports
    BY Busy DEF Resolve, At, IInv, GatesInv, GateInv
  <2> QED  BY <2>1 DEF Walk, NewAmount
<1>1. PICK b \in Batches, r \in Reports, new \in {0, 1}, old \in {0, 1} :
        b = B(q) /\ r = req[q].report /\ new = NewAmount(q) /\ old = req[q].old
  BY <1>0
<1>2. PICK v : v = req[q].variable
  OBVIOUS
<1> DEFINE left == item[b][r].open \ {v}
           row == [linked |-> TRUE, open |-> left,
                   amount |-> IF left = {} THEN new ELSE item[b][r].amount]
<1>3. /\ v \in item[b][r].open
      /\ item[b][r].amount = old
      /\ batch[b].status \notin Closed
      /\ item' = [item EXCEPT ![b] = [item[b] EXCEPT ![r] = row]]
      /\ batch' = IF left = {}
                  THEN [batch EXCEPT ![b].computed = batch[b].computed + new - old]
                  ELSE batch
      /\ manual' = manual
  BY <1>1, <1>2 DEF Resolve, Resolvable
<1>4. OnlyReq(q) /\ req'[q].step = "idle"
  BY EndMoves DEF Resolve, IInv
<1>5. item[b][r] \in ItemRow /\ batch[b] \in BatchRow /\ item[b][r].linked
  BY <1>3 DEF IInv, TypeOK, ItemsInv
<1>6. /\ row \in ItemRow /\ row.linked /\ row.open \subseteq item[b][r].open
      /\ row.amount \in {0, 1}
      /\ row.amount = 1 \/ row.amount = item[b][r].amount
      /\ left # {} => row.amount = item[b][r].amount
      /\ left = {} => row.amount = new
  BY <1>0, <1>1, <1>3, <1>5 DEF ItemRow
<1> HIDE DEF row
<1>7. /\ OnlyItems(b) /\ item'[b][r] = row
      /\ \A p \in Reports \ {r} : item'[b][p] = item[b][p]
      /\ item' \in [Batches -> [Reports -> ItemRow]]
  BY <1>3, <1>6 DEF IInv, TypeOK, OnlyItems
<1>8. /\ OnlyBatch(b) /\ batch' \in [Batches -> BatchRow]
      /\ batch'[b].status = batch[b].status
      /\ batch'[b].manualTotal = batch[b].manualTotal
      /\ batch'[b].computed = batch[b].computed + row.amount - old
  <2>1. batch[b].computed \in Int /\ old \in Int /\ new \in Int
    BY <1>5 DEF BatchRow
  <2>2. CASE left = {}
    <3>1. PICK c \in Int : c = batch[b].computed + new - old
      BY <2>1
    <3>2. PICK x : x = [batch[b] EXCEPT !.computed = c]
      OBVIOUS
    <3>3. /\ x \in BatchRow /\ x.computed = c /\ x.status = batch[b].status
          /\ x.manualTotal = batch[b].manualTotal
      BY <1>5, <3>2 DEF BatchRow
    <3>4. batch' = [batch EXCEPT ![b] = x]
      BY <1>3, <2>2, <3>1, <3>2
    <3>5. batch \in [Batches -> BatchRow]
      BY DEF IInv, TypeOK
    <3>6. OnlyBatch(b) /\ batch' \in [Batches -> BatchRow] /\ batch'[b] = x
      BY <3>3, <3>4, <3>5 DEF OnlyBatch
    <3> QED  BY <1>6, <2>2, <3>1, <3>3, <3>6
  <2>3. CASE left # {}
    <3>1. batch' = batch /\ row.amount = old
      BY <1>3, <1>6, <2>3
    <3> QED  BY <2>1, <3>1, <1>5 DEF IInv, TypeOK, OnlyBatch, BatchRow
  <2> QED  BY <2>2, <2>3
<1>9. TypeOK'
  BY <1>3, <1>4, <1>7, <1>8 DEF IInv, TypeOK, OnlyReq
<1>10. \A c \in Batches : \A p \in Reports :
         /\ item'[c][p].open \subseteq item[c][p].open
         /\ item'[c][p].linked = item[c][p].linked
         /\ c # b => item'[c][p] = item[c][p]
  BY <1>5, <1>6, <1>7 DEF OnlyItems, ItemRow
<1>11. \A c \in Batches : batch'[c].status = batch[c].status
                         /\ batch'[c].manualTotal = batch[c].manualTotal
  BY <1>8 DEF OnlyBatch
<1>12. batch[b].status # "none"
  BY <1>3 DEF IInv, ItemsInv, NoItem
<1>13. ItemsInv' /\ NoDoubleSettle' /\ GateHolds' /\ BatchesStay
  <2>1. ItemsInv'
    BY <1>10, <1>11, <1>12 DEF IInv, ItemsInv
  <2>2. NoDoubleSettle'
    BY <1>10 DEF IInv, NoDoubleSettle
  <2>3. \A c \in Batches : HasOpen(c)' => HasOpen(c)
    BY <1>10 DEF HasOpen
  <2>4. GateHolds' /\ BatchesStay
    BY <1>11, <2>3 DEF IInv, GateHolds, BatchesStay
  <2> QED  BY <2>1, <2>2, <2>4
<1>14. ComputedTotal'
  <2> SUFFICES ASSUME NEW c \in Batches PROVE batch'[c].computed = Cardinality(Amounted(c)')
    BY DEF ComputedTotal, Amounted
  <2>1. batch[c].computed = Cardinality(Amounted(c))
    BY DEF IInv, ComputedTotal, Amounted
  <2>2. CASE c # b
    <3>1. batch'[c] = batch[c] /\ item'[c] = item[c]
      BY <1>7, <1>8, <2>2 DEF OnlyBatch, OnlyItems
    <3> QED  BY <2>1, <3>1 DEF Amounted
  <2>3. CASE c = b
    <3>1. Cardinality(Amounted(b)') = Cardinality(Amounted(b)) + row.amount - item[b][r].amount
      BY <1>6, <1>7, AmountedMoves DEF IInv
    <3> QED  BY <1>3, <1>8, <2>1, <2>3, <3>1
  <2> QED  BY <2>2, <2>3
<1>15. ManualCovered' /\ ManualStays
  BY <1>3, <1>11, SettlementAssumption DEF IInv, TypeOK, ManualCovered, ManualStays
<1>16. GatesInv'
  BY <1>4, <1>13, GatesKept DEF IInv, GateInv
<1>17. ManualsInv'
  BY <1>4, <1>9, <1>15, ManualsKept DEF IInv, ManualInv
<1> QED  BY <1>9, <1>13, <1>14, <1>15, <1>16, <1>17 DEF IInv

LEMMA NextIInv == IInv /\ [Next]_vars => IInv'
<1> SUFFICES ASSUME IInv, [Next]_vars PROVE IInv'
  OBVIOUS
<1>1. CASE UNCHANGED vars
  BY <1>1 DEF vars, IInv, TypeOK, ItemsInv, GatesInv, GateInv, ManualsInv, ManualInv, B,
              NoDoubleSettle, ComputedTotal, GateHolds, HasOpen, ManualCovered
<1>2. CASE Next
  <2>1. PICK q \in Requests :
          \/ \E b \in Batches :
              \/ ReadPool(q, b) \/ ReadToResolve(q, b)
              \/ ReadToConfirm(q, b) \/ ReadToLock(q, b) \/ ReadToReopen(q, b)
              \/ ReadToAdd(q, b)
          \/ \E r \in Reports, v \in Variables : ListExceptions(q, r, v)
          \/ Create(q)
          \/ ReadItem(q) \/ Resolve(q)
          \/ PassGate(q) \/ Confirm(q) \/ Lock(q) \/ Reopen(q)
          \/ InsertManual(q) \/ WriteTotal(q)
          \/ Stop(q)
    BY <1>2 DEF Next
  <2> QED
    BY <2>1, ReadPoolStep, ReadToResolveStep, ReadToConfirmStep, ReadToLockStep,
       ReadToReopenStep, ReadToAddStep, ListExceptionsStep, CreateStep, ReadItemStep,
       ResolveStep, PassGateStep, ConfirmStep, LockStep, ReopenStep, InsertManualStep,
       WriteTotalStep, StopStep
<1> QED  BY <1>1, <1>2

(***************************************************************************)
(* Theorems                                                                *)
(***************************************************************************)
\* The inductive invariant holds of every behaviour.
THEOREM Invariance == Spec => []IInv
  BY InitIInv, NextIInv, PTL DEF Spec

\* Batches, items, totals and requests keep their types.
THEOREM TypeCorrect == Spec => []TypeOK
<1>1. IInv => TypeOK
  BY DEF IInv
<1> QED  BY <1>1, Invariance, PTL

\* A report is paid by one batch, for any number of clerks who generate batches over any
\* overlapping periods.
THEOREM NoDoubleSettleHolds == Spec => []NoDoubleSettle
<1>1. IInv => NoDoubleSettle
  BY DEF IInv
<1> QED  BY <1>1, Invariance, PTL

\* The computed total of a batch is the sum of its items.
THEOREM ComputedTotalHolds == Spec => []ComputedTotal
<1>1. IInv => ComputedTotal
  BY DEF IInv
<1> QED  BY <1>1, Invariance, PTL

\* A confirmed or locked batch has no open exception.
THEOREM GateHoldsAlways == Spec => []GateHolds
<1>1. IInv => GateHolds
  BY DEF IInv
<1> QED  BY <1>1, Invariance, PTL

\* The manual total of a batch never exceeds its manual items.
THEOREM ManualCoveredHolds == Spec => []ManualCovered
<1>1. IInv => ManualCovered
  BY DEF IInv
<1> QED  BY <1>1, Invariance, PTL

(***************************************************************************)
(* One call after the other                                                *)
(***************************************************************************)
\* What a call has read is still so: its batch is not locked, and the exception it resolves is
\* the last of its item exactly if it replays the rule.
Fresh(q) ==
    /\ req[q].step \in {"resolve_list", "resolve_item", "resolve", "confirm_gate", "confirm",
                        "lock_gate", "lock", "insert", "total"} => batch[B(q)].status # "locked"
    /\ req[q].step \in {"resolve_item", "resolve"} =>
           (req[q].replay <=> item[B(q)][req[q].report].open = {req[q].variable})

AloneInv == IInv /\ Alone /\ (\A q \in Requests : Fresh(q)) /\ ResolvedIsReplayed

Reads(q) == \E b \in Batches :
                \/ ReadPool(q, b) \/ ReadToResolve(q, b)
                \/ ReadToConfirm(q, b) \/ ReadToLock(q, b) \/ ReadToReopen(q, b)
                \/ ReadToAdd(q, b)
GoesOn(q) == \/ \E r \in Reports, v \in Variables : ListExceptions(q, r, v)
             \/ Create(q)
             \/ ReadItem(q) \/ Resolve(q)
             \/ PassGate(q) \/ Confirm(q) \/ Lock(q) \/ Reopen(q)
             \/ InsertManual(q) \/ WriteTotal(q)
             \/ Stop(q)

\* A first reading: nothing is written, and the request is under way on a batch in a status
\* that its call wants.
LEMMA ReadsLook ==
  ASSUME TypeOK, NEW q \in Requests, Reads(q)
  PROVE  /\ UNCHANGED rows
         /\ \E x \in Walk :
              /\ req' = [req EXCEPT ![q] = x]
              /\ x.step \in {"create", "resolve_list", "confirm_gate", "lock_gate", "reopen",
                             "insert"}
              /\ x.step \notin {"create", "reopen"} => batch[x.of].status # "locked"
<1>1. PICK b \in Batches :
          \/ ReadPool(q, b) \/ ReadToResolve(q, b)
          \/ ReadToConfirm(q, b) \/ ReadToLock(q, b) \/ ReadToReopen(q, b)
          \/ ReadToAdd(q, b)
  BY DEF Reads
<1>2. {"create", "resolve_list", "confirm_gate", "lock_gate", "reopen", "insert"} \subseteq Steps
  BY DEF Steps
<1>3. CASE ReadPool(q, b)
  <2>1. PICK P \in SUBSET Reports :
            req' = [req EXCEPT ![q] = [Start(b, "create") EXCEPT !.picked = P]]
    BY <1>3 DEF ReadPool
  <2>2. /\ [Start(b, "create") EXCEPT !.picked = P] \in Walk
        /\ [Start(b, "create") EXCEPT !.picked = P].step = "create"
    BY <1>2, StartTyped, StartFields
  <2> QED  BY <1>3, <2>1, <2>2 DEF ReadPool
<1>4. CASE ReadToAdd(q, b)
  <2>1. batch[b].manualTotal \in Nat
    BY DEF TypeOK, BatchRow
  <2> DEFINE x == [Start(b, "insert") EXCEPT !.saw = batch[b].manualTotal]
  <2>2. x \in Walk /\ x.step = "insert" /\ x.of = b
    BY <1>2, <2>1, StartTyped, StartFields
  <2>3. req' = [req EXCEPT ![q] = x] /\ UNCHANGED rows /\ batch[b].status # "locked"
    BY <1>4 DEF ReadToAdd
  <2> HIDE DEF x
  <2> QED  BY <2>2, <2>3
<1>5. ASSUME NEW s \in {"resolve_list", "confirm_gate", "lock_gate", "reopen"}, Begin(q, b, s),
             UNCHANGED rows, s # "reopen" => batch[b].status # "locked"
      PROVE  /\ UNCHANGED rows
             /\ \E x \in Walk :
                  /\ req' = [req EXCEPT ![q] = x]
                  /\ x.step \in {"create", "resolve_list", "confirm_gate", "lock_gate", "reopen",
                                 "insert"}
                  /\ x.step \notin {"create", "reopen"} => batch[x.of].status # "locked"
  <2>1. PICK x \in Walk : x = Start(b, s) /\ x.step = s /\ x.of = b
    BY <1>2, StartTyped
  <2>2. req' = [req EXCEPT ![q] = x]
    BY <1>5, <2>1 DEF Begin
  <2> QED  BY <1>5, <2>1, <2>2
<1> QED
  BY <1>1, <1>3, <1>4, <1>5 DEF ReadToResolve, ReadToConfirm, ReadToLock, ReadToReopen

\* A later step is that of a request under way.
LEMMA GoesOnLooks ==
  ASSUME NEW q \in Requests, GoesOn(q)
  PROVE  /\ req[q].step # "idle"
         /\ \E x : req' = [req EXCEPT ![q] = x]
<1>1. req[q].step # "idle"
  BY DEF GoesOn, ListExceptions, Create, ReadItem, Resolve, PassGate, Confirm, Lock, Reopen,
         InsertManual, WriteTotal, Stop, At
<1>2. \E x : req' = [req EXCEPT ![q] = x]
  BY DEF GoesOn, ListExceptions, Create, ReadItem, Resolve, PassGate, Confirm, Lock, Reopen,
         InsertManual, WriteTotal, Stop, Go, End
<1> QED  BY <1>1, <1>2

\* After a step of a request nobody else is under way.
LEMMA OthersIdle ==
  ASSUME AloneInv, Alone', NEW q \in Requests, Reads(q) \/ GoesOn(q),
         NEW p \in Requests, p # q
  PROVE  req'[p].step = "idle"
<1>1. TypeOK
  BY DEF AloneInv, IInv
<1>2. CASE Reads(q)
  <2>1. req'[q].step # "idle"
    BY <1>1, <1>2, ReadsLook DEF TypeOK
  <2> QED  BY <2>1 DEF Alone, At
<1>3. CASE GoesOn(q)
  <2>1. req[q].step # "idle" /\ req'[p] = req[p]
    BY <1>1, <1>3, GoesOnLooks DEF TypeOK
  <2> QED  BY <2>1 DEF AloneInv, Alone, At
<1> QED  BY <1>2, <1>3

\* What a request has read stays so over its own steps.
LEMMA FreshKept ==
  ASSUME AloneInv, IInv', NEW q \in Requests, Reads(q) \/ GoesOn(q)
  PROVE  Fresh(q)'
<1>1. TypeOK /\ Fresh(q)
  BY DEF AloneInv, IInv
<1>2. CASE Reads(q)
  <2>1. PICK x \in Walk :
          /\ req' = [req EXCEPT ![q] = x]
          /\ x.step \in {"create", "resolve_list", "confirm_gate", "lock_gate", "reopen", "insert"}
          /\ x.step \notin {"create", "reopen"} => batch[x.of].status # "locked"
    BY <1>1, <1>2, ReadsLook
  <2>2. req'[q] = x /\ batch' = batch
    BY <1>1, <1>2, <2>1, ReadsLook DEF TypeOK, rows
  <2> QED  BY <2>1, <2>2 DEF Fresh, B
<1>3. ASSUME NEW r \in Reports, NEW v \in Variables, ListExceptions(q, r, v)
      PROVE  Fresh(q)'
  <2>1. req[q] \in Walk /\ req[q].step = "resolve_list"
    BY <1>1, <1>3, Busy DEF ListExceptions, At
  <2> DEFINE x == [req[q] EXCEPT !.step = "resolve_item", !.report = r, !.variable = v,
                                 !.replay = (item[B(q)][r].open = {v})]
  <2>2. /\ x.step = "resolve_item" /\ x.of = req[q].of /\ x.report = r /\ x.variable = v
        /\ x.replay <=> item[B(q)][r].open = {v}
    BY <2>1 DEF Walk
  <2>3. req' = [req EXCEPT ![q] = x] /\ UNCHANGED <<batch, item>>
    BY <1>3 DEF ListExceptions, rows
  <2> HIDE DEF x
  <2>4. req'[q] = x
    BY <1>1, <2>3 DEF TypeOK
  <2> QED  BY <1>1, <2>1, <2>2, <2>3, <2>4 DEF Fresh, B
<1>4. CASE ReadItem(q)
  <2>1. req[q] \in Walk /\ req[q].step = "resolve_item"
    BY <1>1, <1>4, Busy DEF ReadItem, At
  <2> DEFINE x == [req[q] EXCEPT !.step = "resolve", !.old = item[B(q)][req[q].report].amount]
  <2>2. /\ x.step = "resolve" /\ x.of = req[q].of /\ x.report = req[q].report
        /\ x.variable = req[q].variable /\ x.replay = req[q].replay
    BY <2>1 DEF Walk
  <2>3. req' = [req EXCEPT ![q] = x] /\ UNCHANGED <<batch, item>>
    BY <1>4 DEF ReadItem, rows
  <2> HIDE DEF x
  <2>4. req'[q] = x
    BY <1>1, <2>3 DEF TypeOK
  <2> QED  BY <1>1, <2>1, <2>2, <2>3, <2>4 DEF Fresh, B
<1>5. CASE PassGate(q) \/ InsertManual(q)
  <2>1. req[q].step \in {"confirm_gate", "lock_gate", "insert"} /\ batch' = batch
    BY <1>5 DEF PassGate, InsertManual, At, rows
  <2>2. req'[q].step \in {"confirm", "lock", "total"} /\ B(q)' = B(q)
    BY <1>1, <1>5, <2>1, GoMoves DEF PassGate, InsertManual, Steps
  <2> QED  BY <1>1, <2>1, <2>2 DEF Fresh
<1>6. ASSUME End(q) PROVE Fresh(q)'
  <2>1. req'[q].step = "idle"
    BY <1>1, <1>6, EndMoves
  <2> QED  BY <2>1 DEF Fresh
<1> QED
  BY <1>2, <1>3, <1>4, <1>5, <1>6
  DEF GoesOn, Create, Resolve, Confirm, Lock, Reopen, WriteTotal, Stop

\* The last exception of an item is resolved by a call that replays the rule.
LEMMA ReplayKept ==
  ASSUME AloneInv, IInv', NEW q \in Requests, Reads(q) \/ GoesOn(q)
  PROVE  ResolvedIsReplayed'
<1>1. TypeOK
  BY DEF AloneInv, IInv
<1>2. CASE item' = item
  BY <1>2 DEF AloneInv, ResolvedIsReplayed
<1>3. CASE Create(q)
  <2>1. B(q) \in Batches
    BY <1>1, <1>3, Busy DEF Create, At
  <2> DEFINE P == req[q].picked
             New(missing) == [r \in Reports |->
                IF r \in P
                THEN [linked |-> TRUE, amount |-> IF missing[r] = {} THEN 1 ELSE 0,
                      open |-> missing[r]]
                ELSE NoItem]
             Row(missing) == [status |-> "generated", manualTotal |-> 0,
                              computed |-> Cardinality({r \in P : missing[r] = {}})]
  <2>2. PICK missing \in [P -> SUBSET Variables] :
          /\ item' = [item EXCEPT ![B(q)] = New(missing)]
          /\ batch' = [batch EXCEPT ![B(q)] = Row(missing)]
    BY <1>3 DEF Create
  <2>3. \A b \in Batches \ {B(q)} : item'[b] = item[b]
    BY <1>1, <2>2 DEF TypeOK
  <2>4. ASSUME NEW r \in Reports
        PROVE  \/ item'[B(q)][r].open = {} => item'[B(q)][r].amount = 1
               \/ item'[B(q)][r].linked = FALSE
    <3>1. item'[B(q)] = New(missing)
      BY <1>1, <2>1, <2>2 DEF TypeOK
    <3>2. CASE r \in P
      <4>1. New(missing)[r] = [linked |-> TRUE, amount |-> IF missing[r] = {} THEN 1 ELSE 0,
                               open |-> missing[r]]
        BY <3>2
      <4> QED  BY <3>1, <4>1
    <3>3. CASE r \notin P
      BY <3>1, <3>3 DEF NoItem
    <3> QED  BY <3>2, <3>3
  <2> SUFFICES ASSUME NEW b \in Batches, NEW r \in Reports, item'[b][r].linked,
                      item'[b][r].open = {}
               PROVE  item'[b][r].amount = 1
    BY DEF ResolvedIsReplayed
  <2>5. CASE b = B(q)
    BY <2>4, <2>5
  <2>6. CASE b # B(q)
    BY <2>3, <2>6 DEF AloneInv, ResolvedIsReplayed
  <2> QED  BY <2>5, <2>6
<1>4. CASE Resolve(q)
  <2>1. req[q].step = "resolve" /\ B(q) \in Batches /\ req[q].report \in Reports
    BY <1>4, Busy DEF Resolve, At, AloneInv, IInv, GatesInv, GateInv
  <2> PICK v : v = req[q].variable
    OBVIOUS
  <2>2. PICK b \in Batches, r \in Reports : b = B(q) /\ r = req[q].report /\ v = req[q].variable
    BY <2>1
  <2>3. v \in item[b][r].open
    BY <1>4, <2>2 DEF Resolve, Resolvable
  <2> DEFINE left == item[b][r].open \ {v}
             x == [linked |-> TRUE, open |-> left,
                   amount |-> IF left = {} THEN NewAmount(q) ELSE item[b][r].amount]
  <2>4. /\ item' = [item EXCEPT ![b] = [item[b] EXCEPT ![r] = x]]
        /\ x.open = item[b][r].open \ {v}
        /\ x.open = {} => x.amount = NewAmount(q)
    BY <1>4, <2>2 DEF Resolve
  <2> HIDE DEF x
  <2>5. x.open = {} => x.amount = 1
    <3> SUFFICES ASSUME x.open = {} PROVE x.amount = 1
      OBVIOUS
    <3>1. item[b][r].open = {v}
      BY <2>3, <2>4
    <3>2. req[q].replay
      BY <2>1, <2>2, <3>1 DEF AloneInv, Fresh
    <3> QED  BY <2>4, <3>2 DEF NewAmount
  <2> SUFFICES ASSUME NEW c \in Batches, NEW p \in Reports, item'[c][p].linked,
                      item'[c][p].open = {}
               PROVE  item'[c][p].amount = 1
    BY DEF ResolvedIsReplayed
  <2>6. CASE c = b /\ p = r
    <3>1. item'[c][p] = x
      BY <1>1, <2>4, <2>6 DEF TypeOK
    <3> QED  BY <2>5, <3>1
  <2>7. CASE ~ (c = b /\ p = r)
    <3>1. item'[c][p] = item[c][p]
      BY <1>1, <2>4, <2>7 DEF TypeOK
    <3> QED  BY <3>1 DEF AloneInv, ResolvedIsReplayed
  <2> QED  BY <2>6, <2>7
<1>5. Reads(q) => item' = item
  BY <1>1, ReadsLook DEF rows
<1> QED
  BY <1>2, <1>3, <1>4, <1>5
  DEF GoesOn, ListExceptions, ReadItem, PassGate, Confirm, Lock, Reopen, InsertManual,
      WriteTotal, Stop, rows

LEMMA NextSplits == Next <=> \E q \in Requests : Reads(q) \/ GoesOn(q)
  BY DEF Next, Reads, GoesOn

LEMMA AloneInvariance == AloneSpec => []AloneInv
<1>1. Init => AloneInv
  <2> SUFFICES ASSUME Init PROVE AloneInv
    OBVIOUS
  <2>1. \A q \in Requests : req[q].step = "idle"
    BY DEF Init, Idle
  <2>2. Alone /\ \A q \in Requests : Fresh(q)
    BY <2>1 DEF Alone, At, Fresh
  <2>3. ResolvedIsReplayed
    BY DEF Init, ResolvedIsReplayed, NoItem
  <2> QED  BY <2>2, <2>3, InitIInv DEF AloneInv
<1>2. AloneInv /\ [Next /\ Alone']_vars => AloneInv'
  <2> SUFFICES ASSUME AloneInv, [Next /\ Alone']_vars PROVE AloneInv'
    OBVIOUS
  <2>1. IInv'
    BY NextIInv DEF AloneInv
  <2>2. CASE UNCHANGED vars
    BY <2>1, <2>2 DEF vars, AloneInv, Alone, At, Fresh, B, ResolvedIsReplayed
  <2>3. CASE Next /\ Alone'
    <3>1. PICK q \in Requests : Reads(q) \/ GoesOn(q)
      BY <2>3, NextSplits
    <3>2. \A p \in Requests : Fresh(p)'
      <4>1. ASSUME NEW p \in Requests, p # q PROVE Fresh(p)'
        <5>1. req'[p].step = "idle"
          BY <2>3, <3>1, <4>1, OthersIdle
        <5> QED  BY <5>1 DEF Fresh
      <4>2. Fresh(q)'
        BY <2>1, <3>1, FreshKept
      <4> QED  BY <4>1, <4>2
    <3>3. ResolvedIsReplayed'
      BY <2>1, <3>1, ReplayKept
    <3> QED  BY <2>1, <2>3, <3>2, <3>3 DEF AloneInv
  <2> QED  BY <2>2, <2>3
<1> QED  BY <1>1, <1>2, PTL DEF AloneSpec

\* Overlapping resolutions can leave an item at its placeholder for good; calls that come one
\* after the other leave every item whose exceptions are resolved with its amount.
THEOREM AloneReplays == AloneSpec => []ResolvedIsReplayed
<1>1. AloneInv => ResolvedIsReplayed
  BY DEF AloneInv
<1> QED  BY <1>1, AloneInvariance, PTL

\* Calls that come one after the other do nothing to a locked batch but reopen it: no stale
\* confirmation and no stale manual total is written over the lock.
THEOREM AloneLeavesLocked == AloneSpec => LockedUntilReopened
<1>1. ASSUME AloneInv, Next, NEW b \in Batches, batch[b].status = "locked", batch'[b] # batch[b]
      PROVE  batch'[b] = [batch[b] EXCEPT !.status = "reopened"]
  <2>1. TypeOK
    BY <1>1 DEF AloneInv, IInv
  <2>2. PICK q \in Requests : Reads(q) \/ GoesOn(q)
    BY <1>1, NextSplits
  <2>3. ~ Reads(q)
    BY <1>1, <2>1, ReadsLook DEF rows
  <2>4. Fresh(q)
    BY <1>1 DEF AloneInv
  <2>5. ASSUME NEW x, batch' = [batch EXCEPT ![B(q)] = x], batch[B(q)].status # "locked"
        PROVE  FALSE
    BY <1>1, <2>1, <2>5 DEF TypeOK
  <2>6. ~ Create(q)
    BY <2>5 DEF Create, Linkable
  <2>7. ~ Resolve(q)
    <3>1. Resolve(q) => batch' = batch \/ \E x : batch' = [batch EXCEPT ![B(q)] = x]
      BY DEF Resolve
    <3>2. Resolve(q) => batch[B(q)].status # "locked"
      BY <2>4 DEF Resolve, At, Fresh
    <3> QED  BY <1>1, <2>5, <3>1, <3>2
  <2>8. ~ Confirm(q) /\ ~ Lock(q) /\ ~ WriteTotal(q)
    BY <2>4, <2>5 DEF Confirm, Lock, WriteTotal, SetStatus, At, Fresh
  <2>9. CASE Reopen(q)
    <3>1. batch' = [batch EXCEPT ![B(q)].status = "reopened"]
      BY <2>9 DEF Reopen, SetStatus
    <3> QED  BY <1>1, <2>1, <3>1 DEF TypeOK
  <2> QED
    BY <1>1, <2>2, <2>3, <2>6, <2>7, <2>8, <2>9
    DEF GoesOn, ListExceptions, ReadItem, PassGate, InsertManual, Stop, rows
<1>2. AloneInv /\ [Next /\ Alone']_vars =>
        [\A b \in Batches :
            batch[b].status = "locked" /\ batch'[b] # batch[b] =>
                batch'[b] = [batch[b] EXCEPT !.status = "reopened"]]_vars
  BY <1>1
<1> QED  BY <1>2, AloneInvariance, PTL DEF AloneSpec, LockedUntilReopened

==============================================================================
