--------------------------- MODULE BillingOrders ---------------------------
(***************************************************************************)
(* Paid orders: checkout, the payment provider's events, refunds and the   *)
(* sweep that closes unpaid orders.  The provider moves the money, reports *)
(* each fact in events of its own id, and delivers them late, repeatedly   *)
(* and in any order; every await of a handler is a step.                   *)
(*                                                                         *)
(* What an order buys is the number of times it was granted and revoked:   *)
(* the first write of applyPaidOrder and of applyRefund.  The counter rows *)
(* they write next are in UsageReservations.  Orders are those paid        *)
(* through a provider; offline payments have their own service.            *)
(***************************************************************************)
EXTENDS Naturals, FiniteSets

CONSTANTS Orders,
          Handlers,   \* requests to the webhook route
          Staff,      \* requests for a refund
          Copies,     \* event ids the provider may use for one fact
          MaxEvents   \* bound on the events sent

ASSUME OrdersAssumption == Copies \in Nat /\ MaxEvents \in Nat

VARIABLES order,    \* billing_orders
          txn,      \* billing_transactions, the payment and the refund of an order
          log,      \* billing_webhook_events
          benefit,  \* what the order's effects on the subscription or the add-ons were
          money,    \* the provider's own record
          sent,     \* the events the provider has sent
          handler,  \* the event each request handles
          staff,    \* the refund each request makes
          listed    \* the pending orders the sweep has read

vars == <<order, txn, log, benefit, money, sent, handler, staff, listed>>
rows == <<order, txn, log, benefit>>
outside == <<money, sent>>

OrderRow == [status : {"none", "pending", "paid", "failed", "cancelled", "refunding", "refunded"},
             offered : BOOLEAN, paidAt : BOOLEAN]
Entry == {"none", "succeeded", "failed"}
Event == [order : Orders, kind : {"paid", "mismatched", "failed", "refunded", "refund_failed"},
          id : 1 .. Copies]
Idle == [step |-> "idle"]
HandleSteps == {"record", "read", "mark_paid", "paid_txn", "grant", "fail_txn", "fail_order",
                "refund_txn", "settle", "revoke", "ack"}
Handling == [step : HandleSteps, event : Event]
RefundSteps == {"payment", "mark", "call", "refund_txn", "settle", "revoke"}
Refund == [step : RefundSteps, order : Orders, outcome : Entry]

Init ==
    /\ order = [o \in Orders |-> [status |-> "none", offered |-> FALSE, paidAt |-> FALSE]]
    /\ txn = [o \in Orders |-> [payment |-> "none", refund |-> "none"]]
    /\ log = [e \in Event |-> "none"]
    /\ benefit = [o \in Orders |-> [granted |-> 0, revoked |-> 0]]
    /\ money = [o \in Orders |-> "none"]
    /\ sent = {}
    /\ handler = [h \in Handlers |-> Idle]
    /\ staff = [k \in Staff |-> Idle]
    /\ listed = {}

SetStatus(o, s) == order' = [order EXCEPT ![o].status = s]

(***************************************************************************)
(* Orders                                                                  *)
(***************************************************************************)
\* createCheckoutOrder and the renewal sweep insert a pending order, one for an intent; ...
Insert(o) ==
    /\ order[o].status = "none"
    /\ SetStatus(o, "pending")
    /\ UNCHANGED <<txn, log, benefit, outside, handler, staff, listed>>

\* ... checkout, at once or when the intent is repeated, offers it to the customer; it read the
\* order when it was pending.
Offer(o) ==
    /\ order[o].status \in {"pending", "cancelled"}
    /\ ~ order[o].offered
    /\ order' = [order EXCEPT ![o].offered = TRUE]
    /\ UNCHANGED <<txn, log, benefit, outside, handler, staff, listed>>

\* cancelPlatformOrder names the version it read, so it cancels pending orders only.
CancelPending(o) ==
    /\ order[o].status = "pending"
    /\ SetStatus(o, "cancelled")
    /\ UNCHANGED <<txn, log, benefit, outside, handler, staff, listed>>

\* runExpirePendingOrdersSweep reads the pending orders and then cancels, by id, those whose
\* time has run out.
SweepRead ==
    /\ listed = {}
    /\ \E S \in SUBSET {o \in Orders : order[o].status = "pending"} \ {{}} : listed' = S
    /\ UNCHANGED <<rows, outside, handler, staff>>
SweepWrite(o) ==
    /\ o \in listed
    /\ SetStatus(o, "cancelled")
    /\ listed' = listed \ {o}
    /\ UNCHANGED <<txn, log, benefit, outside, handler, staff>>

(***************************************************************************)
(* The provider                                                            *)
(***************************************************************************)
\* The customer pays an offer, whatever has become of the order since.
Pay(o) ==
    /\ order[o].offered
    /\ money[o] = "none"
    /\ money' = [money EXCEPT ![o] = "taken"]
    /\ UNCHANGED <<rows, sent, handler, staff, listed>>

\* Staff give the money back at the provider's own console.
Return(o) ==
    /\ money[o] = "taken"
    /\ money' = [money EXCEPT ![o] = "returned"]
    /\ UNCHANGED <<rows, sent, handler, staff, listed>>

\* What the provider reports is true when it reports it.
Send(e) ==
    /\ Cardinality(sent) < MaxEvents
    /\ CASE e.kind = "paid" -> money[e.order] # "none"
         [] e.kind = "refunded" -> money[e.order] = "returned"
         [] e.kind = "refund_failed" -> money[e.order] = "taken"
         [] OTHER -> order[e.order].offered /\ money[e.order] = "none"
    /\ sent' = sent \cup {e}
    /\ UNCHANGED <<rows, money, handler, staff, listed>>

(***************************************************************************)
(* handleWebhook                                                           *)
(***************************************************************************)
At(h, s) == handler[h].step = s
E(h) == handler[h].event
Go(h, s) == handler' = [handler EXCEPT ![h].step = s]
Stop(h) == handler' = [handler EXCEPT ![h] = Idle]

\* An event is delivered, for the first time or again.
Deliver(h, e) ==
    /\ At(h, "idle")
    /\ e \in sent
    /\ handler' = [handler EXCEPT ![h] = [step |-> "record", event |-> e]]
    /\ UNCHANGED <<rows, outside, staff, listed>>

\* recordWebhookEvent inserts the event; an event that is there is handled again unless it was
\* processed.  An event that can be neither inserted nor read counts as processed.
Record(h) ==
    /\ At(h, "record")
    /\ \/ /\ log[E(h)] # "processed"
          /\ log' = [log EXCEPT ![E(h)] = "recorded"]
          /\ Go(h, "read")
       \/ Stop(h) /\ UNCHANGED log
    /\ UNCHANGED <<order, txn, benefit, outside, staff, listed>>

\* Faulty variant of Branch: the status of a payment is not looked at.
BranchByType(e) == IF e.kind \in {"refunded", "refund_failed"} THEN "refund_txn" ELSE "mark_paid"

\* What is done with an event of an order that is found and was offered.
Branch(e) == CASE e.kind = "paid" -> "mark_paid"
               [] e.kind = "mismatched" -> "ack"
               [] e.kind = "failed" -> "fail_txn"
               [] OTHER -> "refund_txn"

\* The order is read; when the read fails it counts as not found, and the event is done.
Read(h) ==
    /\ At(h, "read")
    /\ \/ order[E(h).order].offered /\ Go(h, Branch(E(h)))
       \/ Go(h, "ack")
    /\ UNCHANGED <<rows, outside, staff, listed>>

\* Faulty variant of MarkPaid: a paid order is paid again.
MarkPaidAgain(h) ==
    /\ At(h, "mark_paid")
    /\ \/ /\ order[E(h).order].status \in {"pending", "paid"}
          /\ order' = [order EXCEPT ![E(h).order] = [@ EXCEPT !.status = "paid", !.paidAt = TRUE]]
          /\ Go(h, "paid_txn")
       \/ /\ order[E(h).order].status \notin {"pending", "paid"}
          /\ Go(h, "ack")
          /\ UNCHANGED order
    /\ UNCHANGED <<txn, log, benefit, outside, staff, listed>>

\* markOrderPaid turns a pending order into a paid one, once; otherwise the event is done.
MarkPaid(h) ==
    /\ At(h, "mark_paid")
    /\ \/ /\ order[E(h).order].status = "pending"
          /\ order' = [order EXCEPT ![E(h).order] = [@ EXCEPT !.status = "paid", !.paidAt = TRUE]]
          /\ Go(h, "paid_txn")
       \/ /\ order[E(h).order].status # "pending"
          /\ Go(h, "ack")
          /\ UNCHANGED order
    /\ UNCHANGED <<txn, log, benefit, outside, staff, listed>>

PaidTxn(h) ==
    /\ At(h, "paid_txn")
    /\ txn' = [txn EXCEPT ![E(h).order].payment = "succeeded"]
    /\ Go(h, "grant")
    /\ UNCHANGED <<order, log, benefit, outside, staff, listed>>

\* applyPaidOrder.
Grant(h) ==
    /\ At(h, "grant")
    /\ benefit' = [benefit EXCEPT ![E(h).order].granted = @ + 1]
    /\ Go(h, "ack")
    /\ UNCHANGED <<order, txn, log, outside, staff, listed>>

\* A failed payment: the upsert meets the row of the payment it names, which may be the one that
\* succeeded later or have a row of its own; the update meets any status.
FailTxn(h) ==
    /\ At(h, "fail_txn")
    /\ \/ txn' = [txn EXCEPT ![E(h).order].payment = "failed"]
       \/ UNCHANGED txn
    /\ Go(h, "fail_order")
    /\ UNCHANGED <<order, log, benefit, outside, staff, listed>>
FailOrder(h) ==
    /\ At(h, "fail_order")
    /\ SetStatus(E(h).order, "failed")
    /\ Go(h, "ack")
    /\ UNCHANGED <<txn, log, benefit, outside, staff, listed>>

\* A refund is entered, and settled when it succeeded.
RefundEvent(h) ==
    /\ At(h, "refund_txn")
    /\ IF E(h).kind = "refunded"
       THEN txn' = [txn EXCEPT ![E(h).order].refund = "succeeded"] /\ Go(h, "settle")
       ELSE txn' = [txn EXCEPT ![E(h).order].refund = "failed"] /\ Go(h, "ack")
    /\ UNCHANGED <<order, log, benefit, outside, staff, listed>>

\* settleRefund: markOrderRefunded turns a refunding order into a refunded one ...
Settle(o, go, stop) ==
    \/ order[o].status = "refunding" /\ SetStatus(o, "refunded") /\ go
    \/ order[o].status # "refunding" /\ stop /\ UNCHANGED order
\* Faulty variant of Revoke: the grant is taken off the row.
RevokeGrant(o) == benefit' = [benefit EXCEPT ![o].granted = @ - 1]
\* ... and then takes back what the order bought.
Revoke(o) == benefit' = [benefit EXCEPT ![o].revoked = @ + 1]

EventSettles(h) ==
    /\ At(h, "settle")
    /\ Settle(E(h).order, Go(h, "revoke"), Go(h, "ack"))
    /\ UNCHANGED <<txn, log, benefit, outside, staff, listed>>
EventRevokes(h) ==
    /\ At(h, "revoke")
    /\ Revoke(E(h).order)
    /\ Go(h, "ack")
    /\ UNCHANGED <<order, txn, log, outside, staff, listed>>

Ack(h) ==
    /\ At(h, "ack")
    /\ log' = [log EXCEPT ![E(h)] = "processed"]
    /\ Stop(h)
    /\ UNCHANGED <<order, txn, benefit, outside, staff, listed>>

\* The process dies, or a call throws and the route answers 500.
Abort(h) ==
    /\ ~ At(h, "idle")
    /\ Stop(h)
    /\ UNCHANGED <<rows, outside, staff, listed>>

(***************************************************************************)
(* requestRefundCore                                                       *)
(***************************************************************************)
StaffAt(k, s) == staff[k].step = s
O(k) == staff[k].order
StaffGo(k, s) == staff' = [staff EXCEPT ![k].step = s]
StaffStop(k) == staff' = [staff EXCEPT ![k] = Idle]

\* Only an order that is paid is refunded; its add-on must be unused.
RefundRead(k, o) ==
    /\ StaffAt(k, "idle")
    /\ order[o].status = "paid"
    /\ staff' = [staff EXCEPT ![k] = [step |-> "payment", order |-> o, outcome |-> "none"]]
    /\ UNCHANGED <<rows, outside, handler, listed>>

\* getOrderPaymentTransaction must find the payment.
RefundPayment(k) ==
    /\ StaffAt(k, "payment")
    /\ IF txn[O(k)].payment = "succeeded" THEN StaffGo(k, "mark") ELSE StaffStop(k)
    /\ UNCHANGED <<rows, outside, handler, listed>>

\* The order is marked, by id, ...
RefundMark(k) ==
    /\ StaffAt(k, "mark")
    /\ SetStatus(O(k), "refunding")
    /\ StaffGo(k, "call")
    /\ UNCHANGED <<txn, log, benefit, outside, handler, listed>>

\* ... and the provider asked; it knows the payment, and returns the money of one once.
RefundCall(k) ==
    /\ StaffAt(k, "call")
    /\ \/ /\ money' = [money EXCEPT ![O(k)] = "returned"]
          /\ staff' = [staff EXCEPT ![k].step = "refund_txn", ![k].outcome = "succeeded"]
       \/ /\ staff' = [staff EXCEPT ![k].step = "refund_txn", ![k].outcome = "failed"]
          /\ UNCHANGED money
    /\ UNCHANGED <<rows, sent, handler, listed>>

\* Faulty variant of RefundTxn: a refund that failed is settled.
RefundTxnUnchecked(k) ==
    /\ StaffAt(k, "refund_txn")
    /\ txn' = [txn EXCEPT ![O(k)].refund = staff[k].outcome]
    /\ StaffGo(k, "settle")
    /\ UNCHANGED <<order, log, benefit, outside, handler, listed>>

\* The refund is entered, and settled at once when it succeeded.
RefundTxn(k) ==
    /\ StaffAt(k, "refund_txn")
    /\ txn' = [txn EXCEPT ![O(k)].refund = staff[k].outcome]
    /\ IF staff[k].outcome = "succeeded" THEN StaffGo(k, "settle") ELSE StaffStop(k)
    /\ UNCHANGED <<order, log, benefit, outside, handler, listed>>

RefundSettles(k) ==
    /\ StaffAt(k, "settle")
    /\ Settle(O(k), StaffGo(k, "revoke"), StaffStop(k))
    /\ UNCHANGED <<txn, log, benefit, outside, handler, listed>>
RefundRevokes(k) ==
    /\ StaffAt(k, "revoke")
    /\ Revoke(O(k))
    /\ StaffStop(k)
    /\ UNCHANGED <<order, txn, log, outside, handler, listed>>

\* The process dies or a call throws.
RefundAbort(k) ==
    /\ ~ StaffAt(k, "idle")
    /\ StaffStop(k)
    /\ UNCHANGED <<rows, outside, handler, listed>>

(***************************************************************************)
(* The system                                                              *)
(***************************************************************************)
Handle(h) == \/ Record(h) \/ Read(h) \/ MarkPaid(h) \/ PaidTxn(h) \/ Grant(h)
             \/ FailTxn(h) \/ FailOrder(h) \/ RefundEvent(h) \/ EventSettles(h)
             \/ EventRevokes(h) \/ Ack(h)
RefundStep(k) == \/ RefundPayment(k) \/ RefundMark(k) \/ RefundCall(k) \/ RefundTxn(k)
                 \/ RefundSettles(k) \/ RefundRevokes(k)
Checkout == \E o \in Orders : Insert(o) \/ Offer(o) \/ CancelPending(o) \/ SweepWrite(o)
Provider == (\E o \in Orders : Pay(o) \/ Return(o)) \/ (\E e \in Event : Send(e))
Webhook == \E h \in Handlers : (\E e \in sent : Deliver(h, e)) \/ Handle(h) \/ Abort(h)
Refunding == \E k \in Staff : (\E o \in Orders : RefundRead(k, o)) \/ RefundStep(k) \/ RefundAbort(k)

Next == Checkout \/ SweepRead \/ Provider \/ Webhook \/ Refunding

Spec == Init /\ [][Next]_vars

\* The provider repeats an event until it is processed, and a request goes on until it ends.
LiveSpec ==
    /\ Spec
    /\ \A h \in Handlers : WF_vars(Handle(h))
    /\ \A e \in Event : WF_vars(\E h \in Handlers : log[e] # "processed" /\ Deliver(h, e))

\* No request ends between the step that marks an order paid and the one that grants it; all
\* else may still fail, overlap and be repeated.
Granting(h) == handler[h].step \in {"paid_txn", "grant"}
UnbrokenNext == Next /\ \A h \in Handlers : Granting(h) => ~ Abort(h)
UnbrokenSpec == Init /\ [][UnbrokenNext]_vars

(***************************************************************************)
(* Properties                                                              *)
(***************************************************************************)
TypeOK ==
    /\ order \in [Orders -> OrderRow]
    /\ txn \in [Orders -> [payment : Entry, refund : Entry]]
    /\ log \in [Event -> {"none", "recorded", "processed"}]
    /\ benefit \in [Orders -> [granted : Nat, revoked : Nat]]
    /\ money \in [Orders -> {"none", "taken", "returned"}]
    /\ sent \subseteq Event
    /\ handler \in [Handlers -> Handling \cup {Idle}]
    /\ staff \in [Staff -> Refund \cup {Idle}]
    /\ listed \subseteq Orders

\* A repeated event, or another event of the same payment, grants nothing twice, and only what
\* was marked paid is granted: handleWebhook and markOrderPaid.
GrantedOnce ==
    \A o \in Orders : /\ benefit[o].granted <= 1
                      /\ benefit[o].granted = 1 => order[o].paidAt

\* An order is marked paid, and a payment entered, only when the provider has taken the money:
\* no failed, mismatched, late or repeated event makes it so.
MoneyBehind ==
    \A o \in Orders : order[o].paidAt \/ txn[o].payment = "succeeded" => money[o] # "none"

\* An order is refunded, and what it bought taken back, only when it was paid and the provider
\* has returned the money, however refunds by staff and events of refunds meet.
RefundBehind ==
    \A o \in Orders : order[o].status = "refunded" \/ benefit[o].revoked > 0
                         => order[o].paidAt /\ money[o] = "returned"

\* docs: every event of a payment can be replayed, so a paid order is granted in the end.
PaidIsGranted ==
    \A o \in Orders : order[o].status = "paid"
                         ~> benefit[o].granted > 0 \/ order[o].status # "paid"

\* An order that was ever marked paid has been granted, or a request is about to grant it.
PaidOrGranting ==
    \A o \in Orders : order[o].paidAt => \/ benefit[o].granted = 1
                                       \/ \E h \in Handlers : Granting(h) /\ E(h).order = o
=============================================================================
