------------------------ MODULE BillingOrdersProofs ------------------------
(***************************************************************************)
(* Proofs about BillingOrders, for any orders, requests and events.        *)
(*                                                                         *)
(* The invariants hold because money only moves forward at the provider,   *)
(* so what an event said stays true while it waits, because an order is    *)
(* pending before it is paid and never again, and because only one         *)
(* request sees it turn.  IInv says this of orders, of events and of every *)
(* request between its steps.                                              *)
(***************************************************************************)
EXTENDS BillingOrders, TLAPS

(***************************************************************************)
(* The inductive invariant                                                 *)
(***************************************************************************)
OrderInv(o) ==
    /\ order[o].status \in {"none", "pending"} => ~ order[o].paidAt
    /\ order[o].status \in {"paid", "refunding", "refunded"} => order[o].paidAt
    /\ order[o].paidAt => money[o] # "none"
    /\ txn[o].payment = "succeeded" => money[o] # "none"
    /\ order[o].status = "refunded" => money[o] = "returned"
    /\ benefit[o].granted <= 1
    /\ benefit[o].granted = 1 => order[o].paidAt
    /\ benefit[o].revoked > 0 => order[o].paidAt /\ money[o] = "returned"

EventInv(e) ==
    /\ e.kind = "paid" => money[e.order] # "none"
    /\ e.kind = "refunded" => money[e.order] = "returned"

HandlerInv(h) ==
    /\ handler[h].step # "idle" => E(h) \in sent
    /\ handler[h].step = "mark_paid" \/ Granting(h) => E(h).kind = "paid"
    /\ handler[h].step \in {"settle", "revoke"} => E(h).kind = "refunded"
    /\ handler[h].step = "revoke" => order[E(h).order].paidAt
    /\ Granting(h) => order[E(h).order].paidAt /\ benefit[E(h).order].granted = 0

StaffInv(k) ==
    /\ staff[k].step # "idle" => order[O(k)].paidAt
    /\ staff[k].step = "refund_txn" /\ staff[k].outcome = "succeeded" => money[O(k)] = "returned"
    /\ staff[k].step \in {"settle", "revoke"} => money[O(k)] = "returned"

OrdersInv == \A o \in Orders : OrderInv(o)
EventsInv == \A e \in sent : EventInv(e)
HandlersInv == \A h \in Handlers : HandlerInv(h)
StaffsInv == \A k \in Staff : StaffInv(k)
\* Of one order, at most one request is granting.
SoleGranting ==
    \A g, h \in Handlers : Granting(g) /\ Granting(h) /\ E(g).order = E(h).order => g = h

IInv ==
    /\ TypeOK
    /\ OrdersInv
    /\ EventsInv
    /\ HandlersInv
    /\ StaffsInv
    /\ SoleGranting

(***************************************************************************)
(* What a step of a request does to its own record                         *)
(***************************************************************************)
\* The record of request h changes and no other request's does.
OnlyHandler(h) == /\ handler' \in [Handlers -> Handling \cup {Idle}]
                  /\ \A g \in Handlers \ {h} : handler'[g] = handler[g]
OnlyStaff(k) == /\ staff' \in [Staff -> Refund \cup {Idle}]
                /\ \A j \in Staff \ {k} : staff'[j] = staff[j]
OnlyOrder(o) == /\ order' \in [Orders -> OrderRow]
                /\ \A p \in Orders \ {o} : order'[p] = order[p]

\* A request that is at a step has an event.
LEMMA Busy ==
    ASSUME TypeOK, NEW h \in Handlers, handler[h].step # "idle"
    PROVE  handler[h] \in Handling /\ E(h) \in Event
BY DEF TypeOK, Idle, Handling, E

\* Go keeps the event and enters the step.
LEMMA GoMoves ==
    ASSUME TypeOK, NEW h \in Handlers, handler[h].step # "idle", NEW s \in HandleSteps, Go(h, s)
    PROVE  OnlyHandler(h) /\ handler'[h].step = s /\ E(h)' = E(h)
<1>1. handler[h] \in Handling
  BY Busy
<1>2. [handler[h] EXCEPT !.step = s] \in Handling
  BY <1>1 DEF Handling
<1>3. handler' = [handler EXCEPT ![h] = [handler[h] EXCEPT !.step = s]]
  BY DEF Go
<1>4. handler'[h] = [handler[h] EXCEPT !.step = s]
  BY <1>3 DEF TypeOK
<1>5. handler'[h].step = s /\ handler'[h].event = handler[h].event
  BY <1>1, <1>4 DEF Handling
<1> QED
  BY <1>2, <1>3, <1>5 DEF TypeOK, OnlyHandler, E

\* Stop makes the request idle.
LEMMA StopMoves ==
    ASSUME TypeOK, NEW h \in Handlers, Stop(h)
    PROVE  OnlyHandler(h) /\ handler'[h].step = "idle"
BY DEF TypeOK, Stop, OnlyHandler, Idle

\* A refund that is at a step is of an order.
LEMMA StaffBusy ==
    ASSUME TypeOK, NEW k \in Staff, staff[k].step # "idle"
    PROVE  staff[k] \in Refund /\ O(k) \in Orders
BY DEF TypeOK, Idle, Refund, O

\* StaffGo keeps the order and the outcome and enters the step.
LEMMA StaffGoMoves ==
    ASSUME TypeOK, NEW k \in Staff, staff[k].step # "idle", NEW s \in RefundSteps, StaffGo(k, s)
    PROVE  /\ OnlyStaff(k) /\ staff'[k].step = s
           /\ O(k)' = O(k) /\ staff'[k].outcome = staff[k].outcome
<1>1. staff[k] \in Refund
  BY StaffBusy
<1>2. [staff[k] EXCEPT !.step = s] \in Refund
  BY <1>1 DEF Refund
<1>3. staff' = [staff EXCEPT ![k] = [staff[k] EXCEPT !.step = s]]
  BY DEF StaffGo
<1>4. staff'[k] = [staff[k] EXCEPT !.step = s]
  BY <1>3 DEF TypeOK
<1>5. /\ staff'[k].step = s /\ staff'[k].order = staff[k].order
      /\ staff'[k].outcome = staff[k].outcome
  BY <1>1, <1>4 DEF Refund
<1> QED
  BY <1>2, <1>3, <1>5 DEF TypeOK, OnlyStaff, O

\* StaffStop ends the request.
LEMMA StaffStopMoves ==
    ASSUME TypeOK, NEW k \in Staff, StaffStop(k)
    PROVE  OnlyStaff(k) /\ staff'[k].step = "idle"
BY DEF TypeOK, StaffStop, OnlyStaff, Idle

\* SetStatus changes the status of one order and nothing else of it.
LEMMA StatusSet ==
    ASSUME TypeOK, NEW o \in Orders, NEW s, SetStatus(o, s),
           s \in {"pending", "failed", "cancelled", "refunding", "refunded"}
    PROVE  OnlyOrder(o) /\ order'[o].status = s /\ order'[o].paidAt = order[o].paidAt
<1>1. order[o] \in OrderRow
  BY DEF TypeOK
<1>2. [order[o] EXCEPT !.status = s] \in OrderRow
  BY <1>1 DEF OrderRow
<1>3. order' = [order EXCEPT ![o] = [order[o] EXCEPT !.status = s]]
  BY DEF SetStatus
<1>4. order'[o] = [order[o] EXCEPT !.status = s]
  BY <1>3 DEF TypeOK
<1>5. order'[o].status = s /\ order'[o].paidAt = order[o].paidAt
  BY <1>1, <1>4 DEF OrderRow
<1> QED
  BY <1>2, <1>3, <1>5 DEF TypeOK, OnlyOrder

(***************************************************************************)
(* What a step leaves true                                                 *)
(***************************************************************************)
\* An order that was paid stays so, and the provider's record moves forward.
Grows ==
    \A o \in Orders : /\ order[o].paidAt => order'[o].paidAt
                      /\ money[o] # "none" => money'[o] # "none"
                      /\ money[o] = "returned" => money'[o] = "returned"

\* What an event said stays true.
LEMMA EventsKept ==
    ASSUME IInv, Grows, sent' = sent
    PROVE  EventsInv'
BY DEF IInv, TypeOK, EventsInv, EventInv, Grows, Event

\* A refund keeps its invariant when it does not move ...
LEMMA StaffKept ==
    ASSUME IInv, Grows, NEW j \in Staff, staff'[j] = staff[j]
    PROVE  StaffInv(j)'
<1>1. StaffInv(j)
  BY DEF IInv, StaffsInv
<1>2. staff[j].step # "idle" => O(j) \in Orders
  BY StaffBusy DEF IInv
<1> QED
  BY <1>1, <1>2 DEF StaffInv, Grows, O

\* ... and when another one does.
LEMMA StaffsStill ==
    ASSUME IInv, Grows, staff' = staff
    PROVE  StaffsInv'
BY StaffKept DEF StaffsInv
LEMMA StaffMoves ==
    ASSUME IInv, Grows, NEW k \in Staff, OnlyStaff(k), StaffInv(k)'
    PROVE  StaffsInv'
BY StaffKept DEF StaffsInv, OnlyStaff

\* A request keeps its invariant when it does not move ...
LEMMA HandlerKept ==
    ASSUME IInv, Grows, sent \subseteq sent', NEW g \in Handlers, handler'[g] = handler[g],
           Granting(g) => benefit'[E(g).order].granted = benefit[E(g).order].granted
    PROVE  HandlerInv(g)'
<1>1. HandlerInv(g)
  BY DEF IInv, HandlersInv
<1>2. handler[g].step # "idle" => E(g) \in Event /\ E(g).order \in Orders
  BY Busy DEF IInv, Event
<1>3. E(g)' = E(g) /\ (Granting(g)' <=> Granting(g))
  BY DEF E, Granting
<1>4. Granting(g) \/ handler[g].step = "revoke" => handler[g].step # "idle"
  BY DEF Granting
<1> QED
  BY <1>1, <1>2, <1>3, <1>4 DEF HandlerInv, Grows

\* ... the only one granting too ...
LEMMA HandlersStill ==
    ASSUME IInv, Grows, sent \subseteq sent', handler' = handler, benefit' = benefit
    PROVE  HandlersInv' /\ SoleGranting'
<1>1. HandlersInv'
  BY HandlerKept DEF HandlersInv
<1>2. SoleGranting'
  BY DEF IInv, SoleGranting, Granting, E
<1> QED
  BY <1>1, <1>2

\* ... and when another one does that does not begin to grant beside it.
LEMMA HandlerMoves ==
    ASSUME IInv, Grows, sent' = sent, NEW h \in Handlers, OnlyHandler(h), HandlerInv(h)',
           \A g \in Handlers \ {h} :
               Granting(g) => benefit'[E(g).order].granted = benefit[E(g).order].granted,
           Granting(h)' => \A g \in Handlers \ {h} : ~ (Granting(g) /\ E(g).order = E(h)'.order)
    PROVE  HandlersInv' /\ SoleGranting'
<1>1. \A g \in Handlers \ {h} :
          HandlerInv(g)' /\ (Granting(g)' <=> Granting(g)) /\ E(g)' = E(g)
  BY HandlerKept DEF OnlyHandler, Granting, E
<1>2. HandlersInv'
  BY <1>1 DEF HandlersInv
<1>3. SoleGranting'
  <2> SUFFICES ASSUME NEW f \in Handlers, NEW g \in Handlers, Granting(f)', Granting(g)',
                      E(f)'.order = E(g)'.order, f # g
               PROVE  FALSE
    BY DEF SoleGranting
  <2>1. CASE f = h
    BY <1>1, <2>1
  <2>2. CASE g = h
    BY <1>1, <2>2
  <2>3. CASE f # h /\ g # h
    BY <1>1, <2>3 DEF IInv, SoleGranting
  <2> QED
    BY <2>1, <2>2, <2>3
<1> QED
  BY <1>2, <1>3

\* An order whose rows change in nothing the invariant reads keeps it ...
LEMMA OrderKept ==
    ASSUME IInv, Grows, NEW o \in Orders,
           order'[o].status = order[o].status, order'[o].paidAt = order[o].paidAt,
           txn'[o].payment = txn[o].payment, benefit'[o] = benefit[o]
    PROVE  OrderInv(o)'
<1>1. OrderInv(o)
  BY DEF IInv, OrdersInv
<1> QED
  BY <1>1 DEF OrderInv, Grows

\* ... and so do all when only money moves, or the rows of another order.
LEMMA OrdersStill ==
    ASSUME IInv, Grows, order' = order, txn' = txn, benefit' = benefit
    PROVE  OrdersInv'
BY OrderKept DEF OrdersInv
LEMMA OrderMoves ==
    ASSUME IInv, Grows, NEW o \in Orders, OrderInv(o)',
           \A p \in Orders \ {o} : /\ order'[p] = order[p] /\ txn'[p] = txn[p]
                                   /\ benefit'[p] = benefit[p]
    PROVE  OrdersInv'
BY OrderKept DEF OrdersInv

\* A status that the order may take.
LEMMA StatusMoves ==
    ASSUME IInv, NEW o \in Orders, NEW s, SetStatus(o, s), UNCHANGED <<txn, benefit, money>>,
           s \in {"pending", "failed", "cancelled", "refunding", "refunded"},
           s = "pending" => order[o].status = "none",
           s \in {"refunding", "refunded"} => order[o].paidAt,
           s = "refunded" => money[o] = "returned"
    PROVE  OnlyOrder(o) /\ Grows /\ OrdersInv'
<1>1. /\ OnlyOrder(o) /\ order'[o].status = s /\ order'[o].paidAt = order[o].paidAt
      /\ \A p \in Orders \ {o} : order'[p] = order[p]
  BY StatusSet DEF IInv, OnlyOrder
<1>2. Grows
  BY <1>1 DEF Grows
<1>3. OrderInv(o)
  BY DEF IInv, OrdersInv
<1>4. OrderInv(o)'
  BY <1>1, <1>3 DEF OrderInv
<1> QED
  BY <1>1, <1>2, <1>4, OrderMoves

(***************************************************************************)
(* Every step keeps the invariant                                          *)
(***************************************************************************)
LEMMA InitInv == Init => IInv
<1> SUFFICES ASSUME Init PROVE IInv
  OBVIOUS
<1>1. TypeOK
  BY DEF Init, TypeOK, OrderRow, Entry
<1>2. OrdersInv /\ EventsInv
  BY DEF Init, OrdersInv, OrderInv, EventsInv
<1>3. HandlersInv /\ StaffsInv /\ SoleGranting
  BY DEF Init, Idle, HandlersInv, HandlerInv, StaffsInv, StaffInv, SoleGranting, Granting
<1> QED
  BY <1>1, <1>2, <1>3 DEF IInv

LEMMA CheckoutInv == ASSUME IInv, Checkout PROVE IInv'
<1>0. TypeOK
  BY DEF IInv
<1> PICK o \in Orders : Insert(o) \/ Offer(o) \/ CancelPending(o) \/ SweepWrite(o)
  BY DEF Checkout
<1>1. \/ \E s \in {"pending", "cancelled"} :
             SetStatus(o, s) /\ (s = "pending" => order[o].status = "none")
      \/ order' = [order EXCEPT ![o].offered = TRUE]
  BY DEF Insert, Offer, CancelPending, SweepWrite
<1>2. /\ UNCHANGED <<txn, log, benefit, money, sent, handler, staff>>
      /\ listed' \subseteq listed
  BY DEF Insert, Offer, CancelPending, SweepWrite, outside
<1>3. order' \in [Orders -> OrderRow] /\ Grows /\ OrdersInv'
  <2>1. CASE \E s \in {"pending", "cancelled"} :
                 SetStatus(o, s) /\ (s = "pending" => order[o].status = "none")
    BY <2>1, <1>2, StatusMoves DEF OnlyOrder
  <2>2. CASE order' = [order EXCEPT ![o].offered = TRUE]
    <3>1. order[o] \in OrderRow
      BY <1>0 DEF TypeOK
    <3>2. order' = [order EXCEPT ![o] = [order[o] EXCEPT !.offered = TRUE]]
      BY <2>2
    <3>3. [order[o] EXCEPT !.offered = TRUE] \in OrderRow
      BY <3>1 DEF OrderRow
    <3>4. order' \in [Orders -> OrderRow]
      BY <1>0, <3>2, <3>3 DEF TypeOK
    <3>5. \A p \in Orders : order'[p].status = order[p].status /\ order'[p].paidAt = order[p].paidAt
      <4> SUFFICES ASSUME NEW p \in Orders
                   PROVE  order'[p].status = order[p].status /\ order'[p].paidAt = order[p].paidAt
        OBVIOUS
      <4>1. CASE p = o
        <5>1. order'[o] = [order[o] EXCEPT !.offered = TRUE]
          BY <1>0, <3>2 DEF TypeOK
        <5> QED
          BY <3>1, <4>1, <5>1 DEF OrderRow
      <4>2. CASE p # o
        BY <1>0, <3>2, <4>2 DEF TypeOK
      <4> QED
        BY <4>1, <4>2
    <3>6. Grows
      BY <1>2, <3>5 DEF Grows
    <3> QED
      BY <1>2, <3>4, <3>5, <3>6, OrderKept DEF OrdersInv
  <2> QED
    BY <1>1, <2>1, <2>2
<1>4. TypeOK'
  BY <1>0, <1>2, <1>3 DEF TypeOK
<1> QED
  BY <1>2, <1>3, <1>4, EventsKept, StaffsStill, HandlersStill DEF IInv

LEMMA SweepReadInv == ASSUME IInv, SweepRead PROVE IInv'
<1>1. UNCHANGED <<order, txn, log, benefit, money, sent, handler, staff>>
  BY DEF SweepRead, rows, outside
<1>2. listed' \subseteq Orders
  BY DEF SweepRead
<1>3. TypeOK'
  BY <1>1, <1>2 DEF IInv, TypeOK
<1>4. Grows
  BY <1>1 DEF Grows
<1> QED
  BY <1>1, <1>3, <1>4, OrdersStill, EventsKept, StaffsStill, HandlersStill DEF IInv

LEMMA ProviderInv == ASSUME IInv, Provider PROVE IInv'
<1>1. CASE \E o \in Orders : Pay(o) \/ Return(o)
  <2>1. UNCHANGED <<order, txn, log, benefit, sent, handler, staff, listed>>
    BY <1>1 DEF Pay, Return, rows
  <2>2. money' \in [Orders -> {"none", "taken", "returned"}] /\ Grows
    BY <1>1, <2>1 DEF IInv, TypeOK, Pay, Return, Grows
  <2>3. TypeOK'
    BY <2>1, <2>2 DEF IInv, TypeOK
  <2> QED
    BY <2>1, <2>2, <2>3, OrdersStill, EventsKept, StaffsStill, HandlersStill DEF IInv
<1>2. CASE \E e \in Event : Send(e)
  <2> PICK e \in Event : Send(e)
    BY <1>2
  <2>1. UNCHANGED <<order, txn, log, benefit, money, handler, staff, listed>>
    BY DEF Send, rows
  <2>2. sent' = sent \cup {e}
    BY DEF Send
  <2>3. e.kind = "paid" => money[e.order] # "none"
    BY DEF Send
  <2>4. e.kind = "refunded" => money[e.order] = "returned"
    BY DEF Send
  <2>5. EventsInv'
    BY <2>1, <2>2, <2>3, <2>4 DEF IInv, EventsInv, EventInv
  <2>6. TypeOK' /\ Grows
    BY <2>1, <2>2 DEF IInv, TypeOK, Grows
  <2> QED
    BY <2>1, <2>2, <2>5, <2>6, OrdersStill, StaffsStill, HandlersStill DEF IInv
<1> QED
  BY <1>1, <1>2 DEF Provider

\* A request at a step: its event was sent, and its invariant holds.
LEMMA AtStep ==
    ASSUME IInv, NEW h \in Handlers, handler[h].step # "idle"
    PROVE  /\ TypeOK /\ E(h) \in Event /\ E(h) \in sent /\ E(h).order \in Orders
           /\ HandlerInv(h) /\ EventInv(E(h)) /\ OrderInv(E(h).order)
<1>1. TypeOK /\ E(h) \in Event /\ E(h).order \in Orders
  BY Busy DEF IInv, Event
<1>2. HandlerInv(h) /\ E(h) \in sent
  BY DEF IInv, HandlersInv, HandlerInv
<1> QED
  BY <1>1, <1>2 DEF IInv, EventsInv, OrdersInv

\* A request that moves and writes at most the log.
LEMMA RequestMoves ==
    ASSUME IInv, NEW h \in Handlers, OnlyHandler(h), HandlerInv(h)', ~ Granting(h)' \/ Granting(h),
           Granting(h)' => E(h)' = E(h),
           log' \in [Event -> {"none", "recorded", "processed"}],
           UNCHANGED <<order, txn, benefit, money, sent, staff, listed>>
    PROVE  IInv'
<1>1. Grows
  BY DEF Grows
<1>2. HandlersInv' /\ SoleGranting'
  BY <1>1, HandlerMoves DEF IInv, SoleGranting
<1>3. TypeOK'
  BY DEF IInv, TypeOK, OnlyHandler
<1> QED
  BY <1>1, <1>2, <1>3, OrdersStill, EventsKept, StaffsStill DEF IInv

LEMMA DeliverInv == ASSUME IInv, NEW h \in Handlers, NEW e \in sent, Deliver(h, e) PROVE IInv'
<1>1. e \in Event
  BY DEF IInv, TypeOK
<1>2. handler' = [handler EXCEPT ![h] = [step |-> "record", event |-> e]]
  BY DEF Deliver
<1>3. [step |-> "record", event |-> e] \in Handling
  BY <1>1 DEF Handling, HandleSteps
<1>4. OnlyHandler(h) /\ handler'[h].step = "record" /\ E(h)' = e
  BY <1>2, <1>3 DEF IInv, TypeOK, OnlyHandler, E
<1>5. UNCHANGED <<order, txn, log, benefit, money, sent, staff, listed>>
  BY DEF Deliver, rows, outside
<1>6. HandlerInv(h)' /\ ~ Granting(h)'
  BY <1>4, <1>5 DEF HandlerInv, Granting
<1>7. log' \in [Event -> {"none", "recorded", "processed"}]
  BY <1>5 DEF IInv, TypeOK
<1> QED
  BY <1>4, <1>5, <1>6, <1>7, RequestMoves

\* A request that stops.
LEMMA Stops ==
    ASSUME IInv, NEW h \in Handlers, Stop(h),
           log' \in [Event -> {"none", "recorded", "processed"}],
           UNCHANGED <<order, txn, benefit, money, sent, staff, listed>>
    PROVE  IInv'
<1>1. OnlyHandler(h) /\ handler'[h].step = "idle"
  BY StopMoves DEF IInv
<1>2. HandlerInv(h)' /\ ~ Granting(h)'
  BY <1>1 DEF HandlerInv, Granting
<1> QED
  BY <1>1, <1>2, RequestMoves

LEMMA RecordInv == ASSUME IInv, NEW h \in Handlers, Record(h) PROVE IInv'
<1>1. handler[h].step # "idle" /\ UNCHANGED <<order, txn, benefit, money, sent, staff, listed>>
  BY DEF Record, At, outside
<1>2. E(h) \in Event /\ E(h) \in sent
  BY <1>1, AtStep
<1>3. CASE log' = [log EXCEPT ![E(h)] = "recorded"] /\ Go(h, "read")
  <2>1. log' \in [Event -> {"none", "recorded", "processed"}]
    BY <1>3 DEF IInv, TypeOK
  <2>2. OnlyHandler(h) /\ handler'[h].step = "read" /\ E(h)' = E(h)
    BY <1>1, <1>3, GoMoves DEF IInv, HandleSteps
  <2>3. HandlerInv(h)' /\ ~ Granting(h)'
    BY <1>1, <1>2, <2>2 DEF HandlerInv, Granting
  <2> QED
    BY <1>1, <2>1, <2>2, <2>3, RequestMoves
<1>4. CASE Stop(h) /\ log' = log
  <2>1. log' \in [Event -> {"none", "recorded", "processed"}]
    BY <1>4 DEF IInv, TypeOK
  <2> QED
    BY <1>1, <1>4, <2>1, Stops
<1> QED
  BY <1>3, <1>4 DEF Record

LEMMA ReadInv == ASSUME IInv, NEW h \in Handlers, Read(h) PROVE IInv'
<1>1. /\ handler[h].step = "read"
      /\ UNCHANGED <<order, txn, log, benefit, money, sent, staff, listed>>
  BY DEF Read, At, rows, outside
<1>2. E(h) \in Event /\ E(h) \in sent
  BY <1>1, AtStep
<1>3. PICK s \in {"mark_paid", "ack", "fail_txn", "refund_txn"} :
          Go(h, s) /\ (s = "mark_paid" => E(h).kind = "paid")
  BY DEF Read, Branch
<1>4. OnlyHandler(h) /\ handler'[h].step = s /\ E(h)' = E(h)
  BY <1>1, <1>3, GoMoves DEF IInv, HandleSteps
<1>5. HandlerInv(h)' /\ ~ Granting(h)'
  BY <1>1, <1>2, <1>3, <1>4 DEF HandlerInv, Granting
<1>6. log' \in [Event -> {"none", "recorded", "processed"}]
  BY <1>1 DEF IInv, TypeOK
<1> QED
  BY <1>1, <1>4, <1>5, <1>6, RequestMoves

LEMMA AckInv == ASSUME IInv, NEW h \in Handlers, Ack(h) PROVE IInv'
<1>1. log' \in [Event -> {"none", "recorded", "processed"}]
  BY DEF IInv, TypeOK, Ack
<1> QED
  BY <1>1, Stops DEF Ack, outside

LEMMA AbortInv == ASSUME IInv, NEW h \in Handlers, Abort(h) PROVE IInv'
<1>1. log' \in [Event -> {"none", "recorded", "processed"}]
  BY DEF IInv, TypeOK, Abort, rows
<1> QED
  BY <1>1, Stops DEF Abort, rows, outside

\* The order turns paid: nobody has granted it or is about to.
LEMMA MarkPaidInv == ASSUME IInv, NEW h \in Handlers, MarkPaid(h) PROVE IInv'
<1>1. /\ handler[h].step = "mark_paid"
      /\ UNCHANGED <<txn, log, benefit, money, sent, staff, listed>>
  BY DEF MarkPaid, At, outside
<1> PICK o \in Orders : o = E(h).order
  BY <1>1, AtStep
<1>2. /\ TypeOK /\ E(h) \in sent /\ E(h).kind = "paid" /\ money[o] # "none" /\ OrderInv(o)
  BY <1>1, AtStep DEF HandlerInv, EventInv
<1>3. log' \in [Event -> {"none", "recorded", "processed"}]
  BY <1>1 DEF IInv, TypeOK
<1>4. CASE /\ order[o].status = "pending"
           /\ order' = [order EXCEPT ![o] = [@ EXCEPT !.status = "paid", !.paidAt = TRUE]]
           /\ Go(h, "paid_txn")
  <2>1. OnlyHandler(h) /\ handler'[h].step = "paid_txn" /\ E(h)' = E(h)
    BY <1>1, <1>2, <1>4, GoMoves DEF HandleSteps
  <2>2. order[o] \in OrderRow
    BY <1>2 DEF TypeOK
  <2>3. order' = [order EXCEPT ![o] = [order[o] EXCEPT !.status = "paid", !.paidAt = TRUE]]
    BY <1>4
  <2>4. [order[o] EXCEPT !.status = "paid", !.paidAt = TRUE] \in OrderRow
    BY <2>2 DEF OrderRow
  <2>5. order'[o] = [order[o] EXCEPT !.status = "paid", !.paidAt = TRUE]
    BY <1>2, <2>3 DEF TypeOK
  <2>6. order'[o].status = "paid" /\ order'[o].paidAt
    BY <2>2, <2>5 DEF OrderRow
  <2>7. order' \in [Orders -> OrderRow] /\ \A p \in Orders \ {o} : order'[p] = order[p]
    BY <1>2, <2>3, <2>4 DEF TypeOK
  <2>8. Grows
    BY <1>1, <2>6, <2>7 DEF Grows
  <2>9. ~ order[o].paidAt /\ benefit[o].granted <= 1 /\ benefit[o].granted # 1
    BY <1>2, <1>4 DEF OrderInv
  <2>10. benefit[o].granted = 0
    <3>1. benefit[o].granted \in Nat
      BY <1>2 DEF TypeOK
    <3> QED
      BY <2>9, <3>1
  <2>11. OrderInv(o)'
    BY <1>1, <1>2, <2>6, <2>10 DEF OrderInv
  <2>12. OrdersInv'
    BY <1>1, <1>2, <2>7, <2>8, <2>11, OrderMoves
  <2>13. \A g \in Handlers : ~ (Granting(g) /\ E(g).order = o)
    BY <2>9 DEF IInv, HandlersInv, HandlerInv
  <2>14. HandlerInv(h)'
    BY <1>1, <1>2, <2>1, <2>6, <2>10 DEF HandlerInv, Granting
  <2>15. HandlersInv' /\ SoleGranting'
    BY <1>1, <2>1, <2>8, <2>13, <2>14, HandlerMoves
  <2>16. TypeOK'
    BY <1>1, <1>2, <1>3, <2>1, <2>7 DEF TypeOK, OnlyHandler
  <2> QED
    BY <1>1, <2>8, <2>12, <2>15, <2>16, EventsKept, StaffsStill DEF IInv
<1>5. CASE order' = order /\ Go(h, "ack")
  <2>1. OnlyHandler(h) /\ handler'[h].step = "ack" /\ E(h)' = E(h)
    BY <1>1, <1>2, <1>5, GoMoves DEF HandleSteps
  <2>2. HandlerInv(h)' /\ ~ Granting(h)'
    BY <1>1, <1>2, <2>1 DEF HandlerInv, Granting
  <2> QED
    BY <1>1, <1>3, <1>5, <2>1, <2>2, RequestMoves
<1> QED
  BY <1>4, <1>5 DEF MarkPaid

\* What the writes of a transaction and of a benefit change.
LEMMA PaymentSet ==
    ASSUME TypeOK, NEW o \in Orders, NEW s \in Entry, txn' = [txn EXCEPT ![o].payment = s]
    PROVE  /\ txn' \in [Orders -> [payment : Entry, refund : Entry]]
           /\ txn'[o].payment = s /\ \A p \in Orders \ {o} : txn'[p] = txn[p]
BY DEF TypeOK
LEMMA RefundSet ==
    ASSUME TypeOK, NEW o \in Orders, NEW s \in Entry, txn' = [txn EXCEPT ![o].refund = s]
    PROVE  /\ txn' \in [Orders -> [payment : Entry, refund : Entry]]
           /\ txn'[o].payment = txn[o].payment /\ \A p \in Orders \ {o} : txn'[p] = txn[p]
BY DEF TypeOK
LEMMA GrantedSet ==
    ASSUME TypeOK, NEW o \in Orders, benefit' = [benefit EXCEPT ![o].granted = @ + 1]
    PROVE  /\ benefit' \in [Orders -> [granted : Nat, revoked : Nat]]
           /\ benefit'[o].granted = benefit[o].granted + 1
           /\ benefit'[o].revoked = benefit[o].revoked
           /\ \A p \in Orders \ {o} : benefit'[p] = benefit[p]
BY DEF TypeOK
LEMMA RevokedSet ==
    ASSUME TypeOK, NEW o \in Orders, Revoke(o)
    PROVE  /\ benefit' \in [Orders -> [granted : Nat, revoked : Nat]]
           /\ benefit'[o].granted = benefit[o].granted
           /\ \A p \in Orders \ {o} : benefit'[p] = benefit[p]
BY DEF TypeOK, Revoke

\* A request that moves and writes rows of the order of its event.
LEMMA RequestWrites ==
    ASSUME IInv, NEW h \in Handlers, NEW o \in Orders, E(h).order = o, OnlyHandler(h),
           UNCHANGED <<log, money, sent, staff, listed>>, Grows,
           order' \in [Orders -> OrderRow],
           txn' \in [Orders -> [payment : Entry, refund : Entry]],
           benefit' \in [Orders -> [granted : Nat, revoked : Nat]],
           \A p \in Orders \ {o} : /\ order'[p] = order[p] /\ txn'[p] = txn[p]
                                   /\ benefit'[p] = benefit[p],
           OrderInv(o)', HandlerInv(h)',
           Granting(h) \/ benefit'[o].granted = benefit[o].granted,
           Granting(h)' => Granting(h) /\ E(h)' = E(h)
    PROVE  IInv'
<1>1. OrdersInv'
  BY OrderMoves
<1>2. ASSUME NEW g \in Handlers, g # h, Granting(g)
      PROVE  benefit'[E(g).order].granted = benefit[E(g).order].granted
  <2>1. E(g).order \in Orders
    BY <1>2, AtStep DEF Granting
  <2>2. CASE E(g).order = o
    BY <1>2, <2>2 DEF IInv, SoleGranting
  <2>3. CASE E(g).order # o
    BY <2>1, <2>3
  <2> QED
    BY <2>2, <2>3
<1>3. Granting(h)' => \A g \in Handlers \ {h} : ~ (Granting(g) /\ E(g).order = E(h)'.order)
  BY DEF IInv, SoleGranting
<1>4. HandlersInv' /\ SoleGranting'
  BY <1>2, <1>3, HandlerMoves
<1>5. TypeOK'
  BY DEF IInv, TypeOK, OnlyHandler
<1> QED
  BY <1>1, <1>4, <1>5, EventsKept, StaffsStill DEF IInv

LEMMA PaidTxnInv == ASSUME IInv, NEW h \in Handlers, PaidTxn(h) PROVE IInv'
<1>1. /\ handler[h].step = "paid_txn"
      /\ UNCHANGED <<order, log, benefit, money, sent, staff, listed>>
  BY DEF PaidTxn, At, outside
<1> PICK o \in Orders : E(h).order = o
  BY <1>1, AtStep
<1>2. /\ TypeOK /\ E(h) \in sent /\ E(h).kind = "paid" /\ money[o] # "none" /\ OrderInv(o)
      /\ order[o].paidAt /\ benefit[o].granted = 0
  BY <1>1, AtStep DEF HandlerInv, EventInv, Granting
<1>3. /\ txn' \in [Orders -> [payment : Entry, refund : Entry]]
      /\ \A p \in Orders \ {o} : txn'[p] = txn[p]
  BY <1>2, PaymentSet DEF PaidTxn, Entry
<1>4. OnlyHandler(h) /\ handler'[h].step = "grant" /\ E(h)' = E(h)
  BY <1>1, <1>2, GoMoves DEF PaidTxn, HandleSteps
<1>5. OrderInv(o)'
  BY <1>1, <1>2 DEF OrderInv
<1>6. HandlerInv(h)'
  BY <1>1, <1>2, <1>4 DEF HandlerInv, Granting
<1>7. order' \in [Orders -> OrderRow] /\ benefit' \in [Orders -> [granted : Nat, revoked : Nat]]
  BY <1>1, <1>2 DEF TypeOK
<1> QED
  BY <1>1, <1>3, <1>4, <1>5, <1>6, <1>7, RequestWrites DEF Grows, Granting

LEMMA GrantInv == ASSUME IInv, NEW h \in Handlers, Grant(h) PROVE IInv'
<1>1. /\ handler[h].step = "grant"
      /\ UNCHANGED <<order, txn, log, money, sent, staff, listed>>
  BY DEF Grant, At, outside
<1> PICK o \in Orders : E(h).order = o
  BY <1>1, AtStep
<1>2. /\ TypeOK /\ E(h) \in sent /\ OrderInv(o) /\ order[o].paidAt /\ benefit[o].granted = 0
  BY <1>1, AtStep DEF HandlerInv, Granting
<1>3. /\ benefit' \in [Orders -> [granted : Nat, revoked : Nat]]
      /\ benefit'[o].granted = 1 /\ benefit'[o].revoked = benefit[o].revoked
      /\ \A p \in Orders \ {o} : benefit'[p] = benefit[p]
  <2>1. benefit' = [benefit EXCEPT ![o].granted = @ + 1]
    BY DEF Grant
  <2>2. /\ benefit' \in [Orders -> [granted : Nat, revoked : Nat]]
        /\ benefit'[o].granted = benefit[o].granted + 1
        /\ benefit'[o].revoked = benefit[o].revoked
        /\ \A p \in Orders \ {o} : benefit'[p] = benefit[p]
    BY <1>2, <2>1, GrantedSet
  <2>3. benefit[o].granted = 0
    BY <1>2
  <2>4. benefit'[o].granted = 1
    BY <2>2, <2>3
  <2> QED
    BY <2>2, <2>4
<1>4. OnlyHandler(h) /\ handler'[h].step = "ack" /\ E(h)' = E(h)
  BY <1>1, <1>2, GoMoves DEF Grant, HandleSteps
<1>5. OrderInv(o)'
  BY <1>1, <1>2, <1>3 DEF OrderInv
<1>6. HandlerInv(h)' /\ ~ Granting(h)'
  BY <1>1, <1>2, <1>4 DEF HandlerInv, Granting
<1>7. order' \in [Orders -> OrderRow] /\ txn' \in [Orders -> [payment : Entry, refund : Entry]]
  BY <1>1, <1>2 DEF TypeOK
<1> QED
  BY <1>1, <1>3, <1>4, <1>5, <1>6, <1>7, RequestWrites DEF Grows, Granting

LEMMA FailTxnInv == ASSUME IInv, NEW h \in Handlers, FailTxn(h) PROVE IInv'
<1>1. /\ handler[h].step = "fail_txn"
      /\ UNCHANGED <<order, log, benefit, money, sent, staff, listed>>
  BY DEF FailTxn, At, outside
<1> PICK o \in Orders : E(h).order = o
  BY <1>1, AtStep
<1>2. TypeOK /\ E(h) \in sent /\ OrderInv(o)
  BY <1>1, AtStep
<1>3. /\ txn' \in [Orders -> [payment : Entry, refund : Entry]]
      /\ txn'[o].payment \in {"failed", txn[o].payment}
      /\ \A p \in Orders \ {o} : txn'[p] = txn[p]
  <2>1. CASE txn' = [txn EXCEPT ![o].payment = "failed"]
    BY <1>2, <2>1, PaymentSet DEF Entry
  <2>2. CASE txn' = txn
    BY <1>2, <2>2 DEF TypeOK
  <2> QED
    BY <2>1, <2>2 DEF FailTxn
<1>4. OnlyHandler(h) /\ handler'[h].step = "fail_order" /\ E(h)' = E(h)
  BY <1>1, <1>2, GoMoves DEF FailTxn, HandleSteps
<1>5. OrderInv(o)'
  BY <1>1, <1>2, <1>3 DEF OrderInv
<1>6. HandlerInv(h)' /\ ~ Granting(h)'
  BY <1>1, <1>2, <1>4 DEF HandlerInv, Granting
<1>7. order' \in [Orders -> OrderRow] /\ benefit' \in [Orders -> [granted : Nat, revoked : Nat]]
  BY <1>1, <1>2 DEF TypeOK
<1> QED
  BY <1>1, <1>3, <1>4, <1>5, <1>6, <1>7, RequestWrites DEF Grows

LEMMA FailOrderInv == ASSUME IInv, NEW h \in Handlers, FailOrder(h) PROVE IInv'
<1>1. /\ handler[h].step = "fail_order"
      /\ UNCHANGED <<txn, log, benefit, money, sent, staff, listed>>
  BY DEF FailOrder, At, outside
<1> PICK o \in Orders : E(h).order = o
  BY <1>1, AtStep
<1>2. TypeOK /\ E(h) \in sent
  BY <1>1, AtStep
<1>3. OnlyOrder(o) /\ Grows /\ OrdersInv'
  BY <1>1, StatusMoves DEF FailOrder
<1>4. OnlyHandler(h) /\ handler'[h].step = "ack" /\ E(h)' = E(h)
  BY <1>1, <1>2, GoMoves DEF FailOrder, HandleSteps
<1>5. OrderInv(o)'
  BY <1>3 DEF OrdersInv
<1>6. HandlerInv(h)' /\ ~ Granting(h)'
  BY <1>1, <1>2, <1>4 DEF HandlerInv, Granting
<1>7. /\ txn' \in [Orders -> [payment : Entry, refund : Entry]]
      /\ benefit' \in [Orders -> [granted : Nat, revoked : Nat]]
  BY <1>1, <1>2 DEF TypeOK
<1> QED
  BY <1>1, <1>3, <1>4, <1>5, <1>6, <1>7, RequestWrites DEF OnlyOrder

LEMMA RefundEventInv == ASSUME IInv, NEW h \in Handlers, RefundEvent(h) PROVE IInv'
<1>1. /\ handler[h].step = "refund_txn"
      /\ UNCHANGED <<order, log, benefit, money, sent, staff, listed>>
  BY DEF RefundEvent, At, outside
<1> PICK o \in Orders : E(h).order = o
  BY <1>1, AtStep
<1>2. TypeOK /\ E(h) \in sent /\ OrderInv(o)
  BY <1>1, AtStep
<1>3. PICK s \in {"settle", "ack"} : Go(h, s) /\ (s = "settle" => E(h).kind = "refunded")
  BY DEF RefundEvent
<1>4. /\ txn' \in [Orders -> [payment : Entry, refund : Entry]]
      /\ txn'[o].payment = txn[o].payment
      /\ \A p \in Orders \ {o} : txn'[p] = txn[p]
  <2>1. CASE txn' = [txn EXCEPT ![o].refund = "succeeded"]
    BY <1>2, <2>1, RefundSet DEF Entry
  <2>2. CASE txn' = [txn EXCEPT ![o].refund = "failed"]
    BY <1>2, <2>2, RefundSet DEF Entry
  <2> QED
    BY <2>1, <2>2 DEF RefundEvent
<1>5. OnlyHandler(h) /\ handler'[h].step = s /\ E(h)' = E(h)
  BY <1>1, <1>2, <1>3, GoMoves DEF HandleSteps
<1>6. OrderInv(o)'
  BY <1>1, <1>2, <1>4 DEF OrderInv
<1>7. HandlerInv(h)' /\ ~ Granting(h)'
  BY <1>1, <1>2, <1>3, <1>5 DEF HandlerInv, Granting
<1>8. order' \in [Orders -> OrderRow] /\ benefit' \in [Orders -> [granted : Nat, revoked : Nat]]
  BY <1>1, <1>2 DEF TypeOK
<1> QED
  BY <1>1, <1>4, <1>5, <1>6, <1>7, <1>8, RequestWrites DEF Grows

LEMMA EventSettlesInv == ASSUME IInv, NEW h \in Handlers, EventSettles(h) PROVE IInv'
<1>1. /\ handler[h].step = "settle"
      /\ UNCHANGED <<txn, log, benefit, money, sent, staff, listed>>
  BY DEF EventSettles, At, outside
<1> PICK o \in Orders : E(h).order = o
  BY <1>1, AtStep
<1>2. /\ TypeOK /\ E(h) \in sent /\ OrderInv(o)
      /\ E(h).kind = "refunded" /\ money[o] = "returned"
  BY <1>1, AtStep DEF HandlerInv, EventInv
<1>3. /\ txn' \in [Orders -> [payment : Entry, refund : Entry]]
      /\ benefit' \in [Orders -> [granted : Nat, revoked : Nat]]
  BY <1>1, <1>2 DEF TypeOK
<1>4. CASE order[o].status = "refunding" /\ SetStatus(o, "refunded") /\ Go(h, "revoke")
  <2>1. order[o].paidAt
    BY <1>2, <1>4 DEF OrderInv
  <2>2. OnlyOrder(o) /\ Grows /\ OrdersInv'
    BY <1>1, <1>2, <1>4, <2>1, StatusMoves
  <2>3. OnlyHandler(h) /\ handler'[h].step = "revoke" /\ E(h)' = E(h)
    BY <1>1, <1>2, <1>4, GoMoves DEF HandleSteps
  <2>4. OrderInv(o)' /\ order'[o].paidAt
    BY <2>1, <2>2 DEF OrdersInv, Grows
  <2>5. HandlerInv(h)' /\ ~ Granting(h)'
    BY <1>1, <1>2, <2>3, <2>4 DEF HandlerInv, Granting
  <2> QED
    BY <1>1, <1>3, <2>2, <2>3, <2>4, <2>5, RequestWrites DEF OnlyOrder
<1>5. CASE Go(h, "ack") /\ order' = order
  <2>1. OnlyHandler(h) /\ handler'[h].step = "ack" /\ E(h)' = E(h)
    BY <1>1, <1>2, <1>5, GoMoves DEF HandleSteps
  <2>2. HandlerInv(h)' /\ ~ Granting(h)'
    BY <1>1, <1>2, <2>1 DEF HandlerInv, Granting
  <2>3. log' \in [Event -> {"none", "recorded", "processed"}]
    BY <1>1, <1>2 DEF TypeOK
  <2> QED
    BY <1>1, <1>5, <2>1, <2>2, <2>3, RequestMoves
<1> QED
  BY <1>4, <1>5 DEF EventSettles, Settle

LEMMA EventRevokesInv == ASSUME IInv, NEW h \in Handlers, EventRevokes(h) PROVE IInv'
<1>1. /\ handler[h].step = "revoke"
      /\ UNCHANGED <<order, txn, log, money, sent, staff, listed>>
  BY DEF EventRevokes, At, outside
<1> PICK o \in Orders : E(h).order = o
  BY <1>1, AtStep
<1>2. /\ TypeOK /\ E(h) \in sent /\ OrderInv(o) /\ order[o].paidAt /\ money[o] = "returned"
  BY <1>1, AtStep DEF HandlerInv, EventInv
<1>3. /\ benefit' \in [Orders -> [granted : Nat, revoked : Nat]]
      /\ benefit'[o].granted = benefit[o].granted
      /\ \A p \in Orders \ {o} : benefit'[p] = benefit[p]
  BY <1>2, RevokedSet DEF EventRevokes
<1>4. OnlyHandler(h) /\ handler'[h].step = "ack" /\ E(h)' = E(h)
  BY <1>1, <1>2, GoMoves DEF EventRevokes, HandleSteps
<1>5. OrderInv(o)'
  BY <1>1, <1>2, <1>3 DEF OrderInv
<1>6. HandlerInv(h)' /\ ~ Granting(h)'
  BY <1>1, <1>2, <1>4 DEF HandlerInv, Granting
<1>7. order' \in [Orders -> OrderRow] /\ txn' \in [Orders -> [payment : Entry, refund : Entry]]
  BY <1>1, <1>2 DEF TypeOK
<1> QED
  BY <1>1, <1>3, <1>4, <1>5, <1>6, <1>7, RequestWrites DEF Grows

LEMMA WebhookInv == ASSUME IInv, Webhook PROVE IInv'
<1> PICK h \in Handlers : (\E e \in sent : Deliver(h, e)) \/ Handle(h) \/ Abort(h)
  BY DEF Webhook
<1> QED
  BY DeliverInv, RecordInv, ReadInv, MarkPaidInv, PaidTxnInv, GrantInv, FailTxnInv, FailOrderInv,
     RefundEventInv, EventSettlesInv, EventRevokesInv, AckInv, AbortInv DEF Handle

\* A refund that moves and writes rows of its order.
LEMMA StaffWrites ==
    ASSUME IInv, NEW k \in Staff, OnlyStaff(k), StaffInv(k)', Grows, OrdersInv',
           UNCHANGED <<log, sent, handler, listed>>,
           order' \in [Orders -> OrderRow],
           txn' \in [Orders -> [payment : Entry, refund : Entry]],
           benefit' \in [Orders -> [granted : Nat, revoked : Nat]],
           money' \in [Orders -> {"none", "taken", "returned"}],
           \A o \in Orders : benefit'[o].granted = benefit[o].granted
    PROVE  IInv'
<1>1. StaffsInv'
  BY StaffMoves
<1>2. ASSUME NEW g \in Handlers
      PROVE  Granting(g) => benefit'[E(g).order].granted = benefit[E(g).order].granted
  BY AtStep DEF Granting
<1>3. HandlersInv'
  BY <1>2, HandlerKept DEF HandlersInv
<1>4. SoleGranting'
  BY DEF IInv, SoleGranting, Granting, E
<1>5. TypeOK'
  BY DEF IInv, TypeOK, OnlyStaff
<1> QED
  BY <1>1, <1>3, <1>4, <1>5, EventsKept DEF IInv

\* A refund that moves and writes nothing.
LEMMA StaffStep ==
    ASSUME IInv, NEW k \in Staff, OnlyStaff(k), StaffInv(k)',
           UNCHANGED <<order, txn, log, benefit, money, sent, handler, listed>>
    PROVE  IInv'
<1>1. Grows
  BY DEF Grows
<1>2. OrdersInv'
  BY <1>1, OrdersStill
<1>3. /\ order' \in [Orders -> OrderRow]
      /\ txn' \in [Orders -> [payment : Entry, refund : Entry]]
      /\ benefit' \in [Orders -> [granted : Nat, revoked : Nat]]
      /\ money' \in [Orders -> {"none", "taken", "returned"}]
  BY DEF IInv, TypeOK
<1> QED
  BY <1>1, <1>2, <1>3, StaffWrites

\* A refund at a step: its order was paid, and its invariant holds.
LEMMA StaffAtStep ==
    ASSUME IInv, NEW k \in Staff, staff[k].step # "idle"
    PROVE  /\ TypeOK /\ staff[k] \in Refund /\ O(k) \in Orders /\ staff[k].outcome \in Entry
           /\ order[O(k)].paidAt /\ StaffInv(k) /\ OrderInv(O(k))
<1>1. TypeOK /\ staff[k] \in Refund /\ O(k) \in Orders /\ staff[k].outcome \in Entry
  BY StaffBusy DEF IInv, Refund
<1> QED
  BY <1>1 DEF IInv, StaffsInv, StaffInv, OrdersInv

LEMMA StaffStops ==
    ASSUME IInv, NEW k \in Staff, StaffStop(k)
    PROVE  OnlyStaff(k) /\ StaffInv(k)'
BY StaffStopMoves DEF IInv, StaffInv

LEMMA RefundReadInv ==
    ASSUME IInv, NEW k \in Staff, NEW o \in Orders, RefundRead(k, o)
    PROVE  IInv'
<1>1. [step |-> "payment", order |-> o, outcome |-> "none"] \in Refund
  BY DEF Refund, RefundSteps, Entry
<1>2. staff' = [staff EXCEPT ![k] = [step |-> "payment", order |-> o, outcome |-> "none"]]
  BY DEF RefundRead
<1>3. OnlyStaff(k) /\ staff'[k].step = "payment" /\ O(k)' = o
  BY <1>1, <1>2 DEF IInv, TypeOK, OnlyStaff, O
<1>4. UNCHANGED <<order, txn, log, benefit, money, sent, handler, listed>>
  BY DEF RefundRead, rows, outside
<1>5. order[o].paidAt
  BY DEF RefundRead, IInv, OrdersInv, OrderInv
<1>6. StaffInv(k)'
  BY <1>3, <1>4, <1>5 DEF StaffInv
<1> QED
  BY <1>3, <1>4, <1>6, StaffStep

LEMMA RefundPaymentInv == ASSUME IInv, NEW k \in Staff, RefundPayment(k) PROVE IInv'
<1>1. /\ staff[k].step = "payment"
      /\ UNCHANGED <<order, txn, log, benefit, money, sent, handler, listed>>
  BY DEF RefundPayment, StaffAt, rows, outside
<1>2. TypeOK /\ order[O(k)].paidAt
  BY <1>1, StaffAtStep
<1>3. CASE StaffGo(k, "mark")
  <2>1. OnlyStaff(k) /\ staff'[k].step = "mark" /\ O(k)' = O(k)
    BY <1>1, <1>2, <1>3, StaffGoMoves DEF RefundSteps
  <2>2. StaffInv(k)'
    BY <1>1, <1>2, <2>1 DEF StaffInv
  <2> QED
    BY <1>1, <2>1, <2>2, StaffStep
<1>4. CASE StaffStop(k)
  BY <1>1, <1>4, StaffStops, StaffStep
<1> QED
  BY <1>3, <1>4 DEF RefundPayment

LEMMA RefundMarkInv == ASSUME IInv, NEW k \in Staff, RefundMark(k) PROVE IInv'
<1>1. /\ staff[k].step = "mark"
      /\ UNCHANGED <<txn, log, benefit, money, sent, handler, listed>>
  BY DEF RefundMark, StaffAt, outside
<1> PICK o \in Orders : O(k) = o
  BY <1>1, StaffAtStep
<1>2. TypeOK /\ order[o].paidAt
  BY <1>1, StaffAtStep
<1>3. OnlyOrder(o) /\ Grows /\ OrdersInv'
  BY <1>1, <1>2, StatusMoves DEF RefundMark
<1>4. OnlyStaff(k) /\ staff'[k].step = "call" /\ O(k)' = o
  BY <1>1, <1>2, StaffGoMoves DEF RefundMark, RefundSteps
<1>5. StaffInv(k)'
  BY <1>2, <1>3, <1>4 DEF StaffInv, Grows
<1>6. /\ txn' \in [Orders -> [payment : Entry, refund : Entry]]
      /\ benefit' \in [Orders -> [granted : Nat, revoked : Nat]]
      /\ money' \in [Orders -> {"none", "taken", "returned"}]
  BY <1>1, <1>2 DEF TypeOK
<1> QED
  BY <1>1, <1>3, <1>4, <1>5, <1>6, StaffWrites DEF OnlyOrder

LEMMA RefundCallInv == ASSUME IInv, NEW k \in Staff, RefundCall(k) PROVE IInv'
<1>1. staff[k].step = "call" /\ UNCHANGED <<order, txn, log, benefit, sent, handler, listed>>
  BY DEF RefundCall, StaffAt, rows
<1> PICK o \in Orders : O(k) = o
  BY <1>1, StaffAtStep
<1>2. TypeOK /\ order[o].paidAt /\ staff[k] \in Refund /\ OrderInv(o)
  BY <1>1, StaffAtStep
<1>3. PICK s \in {"succeeded", "failed"} :
          /\ staff' = [staff EXCEPT ![k] = [staff[k] EXCEPT !.step = "refund_txn", !.outcome = s]]
          /\ \/ s = "succeeded" /\ money' = [money EXCEPT ![o] = "returned"]
             \/ s = "failed" /\ money' = money
  <2>1. staff[k] \in Refund
    BY <1>2
  <2>2. ASSUME NEW s,
               staff' = [staff EXCEPT ![k].step = "refund_txn", ![k].outcome = s]
        PROVE  staff' = [staff EXCEPT ![k] =
                            [staff[k] EXCEPT !.step = "refund_txn", !.outcome = s]]
    BY <1>2, <2>2 DEF TypeOK
  <2> QED
    BY <2>2 DEF RefundCall
<1>4. /\ OnlyStaff(k) /\ staff'[k].step = "refund_txn" /\ O(k)' = o /\ staff'[k].outcome = s
  <2>1. [staff[k] EXCEPT !.step = "refund_txn", !.outcome = s] \in Refund
    BY <1>2 DEF Refund, RefundSteps, Entry
  <2>2. staff'[k] = [staff[k] EXCEPT !.step = "refund_txn", !.outcome = s]
    BY <1>2, <1>3 DEF TypeOK
  <2>3. staff'[k].step = "refund_txn" /\ staff'[k].order = o /\ staff'[k].outcome = s
    BY <1>2, <2>2 DEF Refund, O
  <2> QED
    BY <1>2, <1>3, <2>1, <2>3 DEF TypeOK, OnlyStaff, O
<1>5. /\ money' \in [Orders -> {"none", "taken", "returned"}] /\ Grows
      /\ s = "succeeded" => money'[o] = "returned"
  BY <1>1, <1>2, <1>3 DEF TypeOK, Grows
<1>6. StaffInv(k)'
  BY <1>1, <1>2, <1>4, <1>5 DEF StaffInv
<1>7. OrdersInv'
  BY <1>1, <1>5, OrdersStill
<1>8. /\ order' \in [Orders -> OrderRow]
      /\ txn' \in [Orders -> [payment : Entry, refund : Entry]]
      /\ benefit' \in [Orders -> [granted : Nat, revoked : Nat]]
  BY <1>1, <1>2 DEF TypeOK
<1> QED
  BY <1>1, <1>4, <1>5, <1>6, <1>7, <1>8, StaffWrites

LEMMA RefundTxnInv == ASSUME IInv, NEW k \in Staff, RefundTxn(k) PROVE IInv'
<1>1. /\ staff[k].step = "refund_txn"
      /\ UNCHANGED <<order, log, benefit, money, sent, handler, listed>>
  BY DEF RefundTxn, StaffAt, outside
<1> PICK o \in Orders : O(k) = o
  BY <1>1, StaffAtStep
<1>2. /\ TypeOK /\ order[o].paidAt /\ staff[k].outcome \in Entry /\ StaffInv(k)
  BY <1>1, StaffAtStep
<1>3. /\ txn' \in [Orders -> [payment : Entry, refund : Entry]]
      /\ txn'[o].payment = txn[o].payment
      /\ \A p \in Orders \ {o} : txn'[p] = txn[p]
  BY <1>2, RefundSet DEF RefundTxn
<1>4. Grows
  BY <1>1 DEF Grows
<1>5. OrderInv(o)'
  BY <1>1, <1>3, <1>4, OrderKept
<1>6. OrdersInv'
  BY <1>1, <1>3, <1>4, <1>5, OrderMoves
<1>7. OnlyStaff(k) /\ StaffInv(k)'
  <2>1. CASE staff[k].outcome = "succeeded" /\ StaffGo(k, "settle")
    <3>1. OnlyStaff(k) /\ staff'[k].step = "settle" /\ O(k)' = o
      BY <1>1, <1>2, <2>1, StaffGoMoves DEF RefundSteps
    <3>2. money[o] = "returned"
      BY <1>1, <1>2, <2>1 DEF StaffInv
    <3> QED
      BY <1>1, <1>2, <3>1, <3>2 DEF StaffInv
  <2>2. CASE StaffStop(k)
    BY <2>2, StaffStops
  <2> QED
    BY <2>1, <2>2 DEF RefundTxn
<1>8. /\ order' \in [Orders -> OrderRow]
      /\ benefit' \in [Orders -> [granted : Nat, revoked : Nat]]
      /\ money' \in [Orders -> {"none", "taken", "returned"}]
  BY <1>1, <1>2 DEF TypeOK
<1> QED
  BY <1>1, <1>3, <1>4, <1>6, <1>7, <1>8, StaffWrites

LEMMA RefundSettlesInv == ASSUME IInv, NEW k \in Staff, RefundSettles(k) PROVE IInv'
<1>1. /\ staff[k].step = "settle"
      /\ UNCHANGED <<txn, log, benefit, money, sent, handler, listed>>
  BY DEF RefundSettles, StaffAt, outside
<1> PICK o \in Orders : O(k) = o
  BY <1>1, StaffAtStep
<1>2. TypeOK /\ order[o].paidAt /\ money[o] = "returned"
  BY <1>1, StaffAtStep DEF StaffInv
<1>3. CASE order[o].status = "refunding" /\ SetStatus(o, "refunded") /\ StaffGo(k, "revoke")
  <2>1. OnlyOrder(o) /\ Grows /\ OrdersInv'
    BY <1>1, <1>2, <1>3, StatusMoves
  <2>2. OnlyStaff(k) /\ staff'[k].step = "revoke" /\ O(k)' = o
    BY <1>1, <1>2, <1>3, StaffGoMoves DEF RefundSteps
  <2>3. StaffInv(k)'
    BY <1>1, <1>2, <2>1, <2>2 DEF StaffInv, Grows
  <2>4. /\ txn' \in [Orders -> [payment : Entry, refund : Entry]]
        /\ benefit' \in [Orders -> [granted : Nat, revoked : Nat]]
        /\ money' \in [Orders -> {"none", "taken", "returned"}]
    BY <1>1, <1>2 DEF TypeOK
  <2> QED
    BY <1>1, <2>1, <2>2, <2>3, <2>4, StaffWrites DEF OnlyOrder
<1>4. CASE StaffStop(k) /\ order' = order
  BY <1>1, <1>4, StaffStops, StaffStep
<1> QED
  BY <1>3, <1>4 DEF RefundSettles, Settle

LEMMA RefundRevokesInv == ASSUME IInv, NEW k \in Staff, RefundRevokes(k) PROVE IInv'
<1>1. /\ staff[k].step = "revoke"
      /\ UNCHANGED <<order, txn, log, money, sent, handler, listed>>
  BY DEF RefundRevokes, StaffAt, outside
<1> PICK o \in Orders : O(k) = o
  BY <1>1, StaffAtStep
<1>2. TypeOK /\ order[o].paidAt /\ money[o] = "returned" /\ OrderInv(o)
  BY <1>1, StaffAtStep DEF StaffInv
<1>3. /\ benefit' \in [Orders -> [granted : Nat, revoked : Nat]]
      /\ benefit'[o].granted = benefit[o].granted
      /\ \A p \in Orders \ {o} : benefit'[p] = benefit[p]
  BY <1>2, RevokedSet DEF RefundRevokes
<1>4. Grows
  BY <1>1 DEF Grows
<1>5. OrderInv(o)'
  BY <1>1, <1>2, <1>3 DEF OrderInv
<1>6. OrdersInv'
  BY <1>1, <1>3, <1>4, <1>5, OrderMoves
<1>7. OnlyStaff(k) /\ StaffInv(k)'
  BY StaffStops DEF RefundRevokes
<1>8. /\ order' \in [Orders -> OrderRow]
      /\ txn' \in [Orders -> [payment : Entry, refund : Entry]]
      /\ money' \in [Orders -> {"none", "taken", "returned"}]
  BY <1>1, <1>2 DEF TypeOK
<1> QED
  BY <1>1, <1>3, <1>4, <1>6, <1>7, <1>8, StaffWrites

LEMMA RefundAbortInv == ASSUME IInv, NEW k \in Staff, RefundAbort(k) PROVE IInv'
BY StaffStops, StaffStep DEF RefundAbort, rows, outside

LEMMA RefundingInv == ASSUME IInv, Refunding PROVE IInv'
<1> PICK k \in Staff : (\E o \in Orders : RefundRead(k, o)) \/ RefundStep(k) \/ RefundAbort(k)
  BY DEF Refunding
<1> QED
  BY RefundReadInv, RefundPaymentInv, RefundMarkInv, RefundCallInv, RefundTxnInv, RefundSettlesInv,
     RefundRevokesInv, RefundAbortInv DEF RefundStep

LEMMA NextInv == ASSUME IInv, [Next]_vars PROVE IInv'
<1>1. CASE Next
  BY <1>1, CheckoutInv, SweepReadInv, ProviderInv, WebhookInv, RefundingInv DEF Next
<1>2. CASE vars' = vars
  <2>1. UNCHANGED <<order, txn, log, benefit, money, sent, handler, staff, listed>>
    BY <1>2 DEF vars
  <2>2. Grows /\ TypeOK'
    BY <2>1 DEF Grows, IInv, TypeOK
  <2> QED
    BY <2>1, <2>2, OrdersStill, EventsKept, StaffsStill, HandlersStill DEF IInv
<1> QED
  BY <1>1, <1>2

(***************************************************************************)
(* The theorems                                                            *)
(***************************************************************************)
\* Orders, events and requests keep the inductive invariant in every reachable state.
THEOREM Invariance == Spec => []IInv
BY InitInv, NextInv, PTL DEF Spec

\* Every variable keeps its type; no benefit is taken off a row below nothing.
THEOREM TypeCorrect == Spec => []TypeOK
<1>1. IInv => TypeOK
  BY DEF IInv
<1> QED
  BY <1>1, Invariance, PTL

\* handleWebhook grants a payment at most once, and only when it marked the order paid, for any
\* number of events, repetitions and requests.
THEOREM GrantedOnceHolds == Spec => []GrantedOnce
<1>1. IInv => GrantedOnce
  BY DEF IInv, OrdersInv, OrderInv, GrantedOnce
<1> QED
  BY <1>1, Invariance, PTL

\* No order is marked paid, and no payment entered, without the provider's money.
THEOREM MoneyBehindHolds == Spec => []MoneyBehind
<1>1. IInv => MoneyBehind
  BY DEF IInv, OrdersInv, OrderInv, MoneyBehind
<1> QED
  BY <1>1, Invariance, PTL

\* No order is refunded, and nothing taken back, unless it was paid and the money returned,
\* however staff and events race.
THEOREM RefundBehindHolds == Spec => []RefundBehind
<1>1. IInv => RefundBehind
  BY DEF IInv, OrdersInv, OrderInv, RefundBehind
<1> QED
  BY <1>1, Invariance, PTL

(***************************************************************************)
(* The one window                                                          *)
(***************************************************************************)
\* What is owed stays so unless an order turns paid: what was granted stays granted, and who is
\* about to grant goes on or has granted.
LEMMA OwedKept ==
    ASSUME PaidOrGranting,
           \A o \in Orders : order'[o].paidAt => order[o].paidAt,
           \A o \in Orders : benefit[o].granted = 1 => benefit'[o].granted = 1,
           \A g \in Handlers : Granting(g) => \/ Granting(g)' /\ E(g)' = E(g)
                                              \/ benefit'[E(g).order].granted = 1
    PROVE  PaidOrGranting'
<1> SUFFICES ASSUME NEW o \in Orders, order'[o].paidAt, benefit'[o].granted # 1
             PROVE  \E h \in Handlers : Granting(h)' /\ E(h)'.order = o
  BY DEF PaidOrGranting
<1>1. PICK h \in Handlers : Granting(h) /\ E(h).order = o
  BY DEF PaidOrGranting
<1>2. Granting(h)' /\ E(h)' = E(h)
  BY <1>1
<1> QED
  BY <1>1, <1>2

\* A step of a request that is not granting leaves the others at it.
LEMMA OthersGrant ==
    ASSUME TypeOK, NEW h \in Handlers, ~ Granting(h), NEW x, handler' = [handler EXCEPT ![h] = x]
    PROVE  \A g \in Handlers : Granting(g) => Granting(g)' /\ E(g)' = E(g)
BY DEF TypeOK, Granting, E

\* A change of status does not make an order paid.
LEMMA StatusUnpaid ==
    ASSUME TypeOK, NEW o \in Orders, NEW s, SetStatus(o, s),
           s \in {"pending", "failed", "cancelled", "refunding", "refunded"}
    PROVE  \A p \in Orders : order'[p].paidAt => order[p].paidAt
BY StatusSet DEF OnlyOrder

LEMMA CheckoutOwed == ASSUME IInv, PaidOrGranting, Checkout PROVE PaidOrGranting'
<1>0. TypeOK
  BY DEF IInv
<1> PICK o \in Orders : Insert(o) \/ Offer(o) \/ CancelPending(o) \/ SweepWrite(o)
  BY DEF Checkout
<1>1. benefit' = benefit /\ handler' = handler
  BY DEF Insert, Offer, CancelPending, SweepWrite
<1>2. \A p \in Orders : order'[p].paidAt => order[p].paidAt
  <2>1. CASE Offer(o)
    <3>1. order' = [order EXCEPT ![o] = [order[o] EXCEPT !.offered = TRUE]]
      BY <2>1 DEF Offer
    <3>2. order[o] \in OrderRow
      BY <1>0 DEF TypeOK
    <3>3. [order[o] EXCEPT !.offered = TRUE].paidAt = order[o].paidAt
      BY <3>2 DEF OrderRow
    <3> QED
      BY <1>0, <3>1, <3>3 DEF TypeOK
  <2>2. CASE Insert(o) \/ CancelPending(o) \/ SweepWrite(o)
    BY <1>0, <2>2, StatusUnpaid DEF Insert, CancelPending, SweepWrite
  <2> QED
    BY <2>1, <2>2
<1> QED
  BY <1>1, <1>2, OwedKept DEF Granting, E

\* Nobody outside the webhook route makes an order paid or ends a request.
LEMMA RefundingOwed == ASSUME IInv, PaidOrGranting, Refunding PROVE PaidOrGranting'
<1>0. TypeOK
  BY DEF IInv
<1> PICK k \in Staff : (\E o \in Orders : RefundRead(k, o)) \/ RefundStep(k) \/ RefundAbort(k)
  BY DEF Refunding
<1>1. handler' = handler
  BY DEF RefundRead, RefundStep, RefundPayment, RefundMark, RefundCall, RefundTxn, RefundSettles,
         RefundRevokes, RefundAbort
<1>2. \A p \in Orders : order'[p].paidAt => order[p].paidAt
  <2>1. CASE order' = order
    BY <2>1
  <2>2. CASE RefundMark(k) \/ RefundSettles(k)
    <3>1. staff[k].step # "idle"
      BY <2>2 DEF RefundMark, RefundSettles, StaffAt
    <3>2. O(k) \in Orders
      BY <1>0, <3>1, StaffBusy
    <3>3. order' = order \/ \E s \in {"refunding", "refunded"} : SetStatus(O(k), s)
      BY <2>2 DEF RefundMark, RefundSettles, Settle
    <3> QED
      BY <1>0, <3>2, <3>3, StatusUnpaid
  <2> QED
    BY <2>1, <2>2 DEF RefundRead, RefundStep, RefundPayment, RefundCall, RefundTxn, RefundRevokes,
                      RefundAbort, rows
<1>3. \A p \in Orders : benefit[p].granted = 1 => benefit'[p].granted = 1
  <2>1. CASE benefit' = benefit
    BY <2>1
  <2>2. CASE RefundRevokes(k)
    <3>1. O(k) \in Orders
      BY <1>0, <2>2, StaffBusy DEF RefundRevokes, StaffAt
    <3> QED
      BY <1>0, <2>2, <3>1, RevokedSet DEF RefundRevokes
  <2> QED
    BY <2>1, <2>2 DEF RefundRead, RefundStep, RefundPayment, RefundMark, RefundCall, RefundTxn,
                      RefundSettles, RefundAbort, rows
<1> QED
  BY <1>1, <1>2, <1>3, OwedKept DEF Granting, E

\* A request that marks an order paid is granting it.
LEMMA MarkPaidOwed ==
    ASSUME IInv, PaidOrGranting, NEW h \in Handlers, MarkPaid(h) PROVE PaidOrGranting'
<1>0. /\ TypeOK /\ handler[h].step = "mark_paid" /\ ~ Granting(h)
      /\ benefit' = benefit
  BY DEF IInv, MarkPaid, At, Granting
<1> PICK o \in Orders : o = E(h).order
  BY <1>0, AtStep
<1>1. CASE /\ order' = [order EXCEPT ![o] = [@ EXCEPT !.status = "paid", !.paidAt = TRUE]]
           /\ Go(h, "paid_txn")
  <2>1. handler'[h].step = "paid_txn" /\ E(h)' = E(h)
    BY <1>0, <1>1, GoMoves DEF HandleSteps
  <2>2. \A g \in Handlers : Granting(g) => Granting(g)' /\ E(g)' = E(g)
    BY <1>0, <1>1, OthersGrant DEF Go
  <2>3. \A p \in Orders \ {o} : order'[p] = order[p]
    BY <1>0, <1>1 DEF TypeOK
  <2>4. Granting(h)' /\ E(h)'.order = o
    BY <2>1 DEF Granting
  <2>5. ASSUME NEW p \in Orders, p # o, order'[p].paidAt, benefit'[p].granted # 1
        PROVE  \E g \in Handlers : Granting(g)' /\ E(g)'.order = p
    <3>1. PICK g \in Handlers : Granting(g) /\ E(g).order = p
      BY <1>0, <2>3, <2>5 DEF PaidOrGranting
    <3> QED
      BY <2>2, <3>1
  <2> QED
    BY <2>4, <2>5 DEF PaidOrGranting
<1>2. CASE order' = order /\ Go(h, "ack")
  BY <1>0, <1>2, OthersGrant, OwedKept DEF Go
<1> QED
  BY <1>1, <1>2 DEF MarkPaid

\* A request that goes from the one step to the other still is, and one that grants has.
LEMMA PaidTxnOwed ==
    ASSUME IInv, PaidOrGranting, NEW h \in Handlers, PaidTxn(h) PROVE PaidOrGranting'
<1>1. /\ TypeOK /\ handler[h].step = "paid_txn" /\ order' = order /\ benefit' = benefit
      /\ Go(h, "grant")
  BY DEF IInv, PaidTxn, At
<1>2. OnlyHandler(h) /\ handler'[h].step = "grant" /\ E(h)' = E(h)
  BY <1>1, GoMoves DEF HandleSteps
<1>3. \A g \in Handlers : Granting(g) => Granting(g)' /\ E(g)' = E(g)
  BY <1>2 DEF OnlyHandler, Granting, E
<1> QED
  BY <1>1, <1>3, OwedKept

LEMMA GrantOwed ==
    ASSUME IInv, PaidOrGranting, NEW h \in Handlers, Grant(h) PROVE PaidOrGranting'
<1>1. /\ TypeOK /\ handler[h].step = "grant" /\ order' = order /\ Go(h, "ack")
      /\ benefit' = [benefit EXCEPT ![E(h).order].granted = @ + 1]
  BY DEF IInv, Grant, At
<1> PICK o \in Orders : o = E(h).order
  BY <1>1, AtStep
<1>2. benefit[o].granted = 0 /\ benefit[o] \in [granted : Nat, revoked : Nat]
  BY <1>1, AtStep DEF HandlerInv, Granting, TypeOK
<1>3. benefit'[o].granted = 1 /\ \A p \in Orders \ {o} : benefit'[p] = benefit[p]
  <2>1. benefit'[o] = [benefit[o] EXCEPT !.granted = @ + 1]
    BY <1>1 DEF TypeOK
  <2> QED
    BY <1>1, <1>2, <2>1 DEF TypeOK
<1>4. OnlyHandler(h)
  BY <1>1, GoMoves DEF HandleSteps
<1>5. \A g \in Handlers : Granting(g) => \/ Granting(g)' /\ E(g)' = E(g)
                                         \/ benefit'[E(g).order].granted = 1
  BY <1>3, <1>4 DEF OnlyHandler, Granting, E
<1> QED
  BY <1>1, <1>3, <1>5, OwedKept

\* The other steps of a request.
LEMMA OtherStepOwed ==
    ASSUME IInv, PaidOrGranting, NEW h \in Handlers,
           \/ \E e \in sent : Deliver(h, e)
           \/ Record(h) \/ Read(h) \/ FailTxn(h) \/ FailOrder(h) \/ RefundEvent(h)
           \/ EventSettles(h) \/ EventRevokes(h) \/ Ack(h)
           \/ Abort(h) /\ ~ Granting(h)
    PROVE  PaidOrGranting'
<1>0. TypeOK /\ ~ Granting(h)
  BY DEF IInv, Granting, At, Deliver, Record, Read, FailTxn, FailOrder, RefundEvent, EventSettles,
         EventRevokes, Ack
<1>1. \E x : handler' = [handler EXCEPT ![h] = x]
  BY DEF Deliver, Record, Read, FailTxn, FailOrder, RefundEvent, EventSettles, EventRevokes, Ack,
         Abort, Settle, Go, Stop
<1>2. \A g \in Handlers : Granting(g) => Granting(g)' /\ E(g)' = E(g)
  BY <1>0, <1>1, OthersGrant
<1>3. \A p \in Orders : order'[p].paidAt => order[p].paidAt
  <2>1. CASE order' = order
    BY <2>1
  <2>2. CASE FailOrder(h) \/ EventSettles(h)
    <3>1. E(h).order \in Orders
      BY <2>2, AtStep DEF FailOrder, EventSettles, At
    <3>2. order' = order \/ \E s \in {"failed", "refunded"} : SetStatus(E(h).order, s)
      BY <2>2 DEF FailOrder, EventSettles, Settle
    <3> QED
      BY <1>0, <3>1, <3>2, StatusUnpaid
  <2> QED
    BY <2>1, <2>2 DEF Deliver, Record, Read, FailTxn, RefundEvent, EventRevokes, Ack, Abort, rows
<1>4. \A p \in Orders : benefit[p].granted = 1 => benefit'[p].granted = 1
  <2>1. CASE benefit' = benefit
    BY <2>1
  <2>2. CASE EventRevokes(h)
    <3>1. E(h).order \in Orders
      BY <2>2, AtStep DEF EventRevokes, At
    <3> QED
      BY <1>0, <2>2, <3>1, RevokedSet DEF EventRevokes
  <2> QED
    BY <2>1, <2>2 DEF Deliver, Record, Read, FailTxn, FailOrder, RefundEvent, EventSettles, Ack,
                      Abort, rows
<1> QED
  BY <1>2, <1>3, <1>4, OwedKept

LEMMA UnbrokenOwed == ASSUME IInv, PaidOrGranting, [UnbrokenNext]_vars PROVE PaidOrGranting'
<1>1. CASE vars' = vars
  BY <1>1 DEF vars, PaidOrGranting, Granting, E
<1>2. CASE Checkout
  BY <1>2, CheckoutOwed
<1>3. CASE SweepRead \/ Provider
  <2>1. order' = order /\ benefit' = benefit /\ handler' = handler
    BY <1>3 DEF SweepRead, Provider, Pay, Return, Send, rows
  <2> QED
    BY <2>1 DEF PaidOrGranting, Granting, E
<1>4. CASE UnbrokenNext /\ Webhook
  <2> PICK h \in Handlers : (\E e \in sent : Deliver(h, e)) \/ Handle(h) \/ Abort(h)
    BY <1>4 DEF Webhook
  <2>1. Abort(h) => ~ Granting(h)
    BY <1>4 DEF UnbrokenNext
  <2> QED
    BY <2>1, MarkPaidOwed, PaidTxnOwed, GrantOwed, OtherStepOwed DEF Handle
<1>5. CASE Refunding
  BY <1>5, RefundingOwed
<1> QED
  BY <1>1, <1>2, <1>3, <1>4, <1>5 DEF UnbrokenNext, Next

\* The steps between markOrderPaid and applyPaidOrder are the only place where an order marked
\* paid loses its grant: unless a request ends there, every order that was ever marked paid is
\* granted or about to be, whatever else fails, overlaps or is repeated.
THEOREM UnbrokenGrants == UnbrokenSpec => []PaidOrGranting
<1>1. Init => IInv /\ PaidOrGranting
  BY InitInv DEF Init, PaidOrGranting
<1>2. [UnbrokenNext]_vars => [Next]_vars
  BY DEF UnbrokenNext
<1>3. IInv /\ PaidOrGranting /\ [UnbrokenNext]_vars => (IInv /\ PaidOrGranting)'
  BY <1>2, NextInv, UnbrokenOwed
<1> QED
  BY <1>1, <1>3, PTL DEF UnbrokenSpec
=============================================================================
