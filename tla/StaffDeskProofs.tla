-------------------------- MODULE StaffDeskProofs --------------------------
(***************************************************************************)
(* Proofs about orders as the staff and the customer see them, with both   *)
(* payment providers, legacy orders and stale screens.  The invariant of   *)
(* OrderPayments is carried over to the new actions, and each handler is   *)
(* shown to move an order only onward.                                     *)
(***************************************************************************)
EXTENDS StaffDesk, OrderPaymentsProofs, FiniteSetTheorems, WellFoundedInduction

-----------------------------------------------------------------------------
(* Moving onward. *)

\* An order in status s may later have status t.
Later(s, t) ==
    /\ s \in Closed => t = s
    /\ t \in Closed \/ Progress(t) >= Progress(s)
    /\ t = "awaiting_payment" => s = t

\* The positions on the timeline.
LEMMA ProgressValues ==
    /\ Progress("pending_payment") = 1 /\ Progress("awaiting_payment") = 1
    /\ Progress("paid") = 2 /\ Progress("confirmed_by_shop") = 2 /\ Progress("preparing") = 2
    /\ Progress("packaged") = 3 /\ Progress("out_for_delivery") = 3
    /\ Progress("delivered") = 4
  BY DEF Progress, current_index, TimelineStep, map_order_status_to_timeline_key

\* The open statuses have a position.
LEMMA ProgressType == ASSUME NEW s \in OrderStatuses \ Closed PROVE Progress(s) \in Nat
  BY ProgressValues DEF OrderStatuses, Closed

\* Every transition of the state machine goes onward.
LEMMA TransitionsGoOn ==
    ASSUME NEW s \in OrderStatuses, NEW t \in OrderStatuses, can_transition(s, t)
    PROVE  Later(s, t)
<1>1. CASE t = s
  <2>1. CASE s \in Closed
    BY <1>1, <2>1 DEF Later
  <2>2. CASE s \notin Closed
    BY <1>1, <2>2, ProgressType DEF Later
  <2> QED
    BY <2>1, <2>2
<1>2. CASE t # s
  <2>1. t \in ALLOWED_TRANSITIONS[s]
    BY <1>2 DEF can_transition
  <2>2. s \notin Closed /\ t # "awaiting_payment"
    BY <2>1 DEF ALLOWED_TRANSITIONS, Closed, OrderStatuses
  <2>3. CASE t \notin Closed
    <3>1. \/ s = "pending_payment" /\ t \in {"paid", "confirmed_by_shop"}
          \/ s = "awaiting_payment" /\ t = "preparing"
          \/ s = "paid" /\ t = "confirmed_by_shop"
          \/ s = "confirmed_by_shop" /\ t = "preparing"
          \/ s = "preparing" /\ t = "packaged"
          \/ s = "packaged" /\ t = "out_for_delivery"
          \/ s = "out_for_delivery" /\ t = "delivered"
      BY <2>1, <2>3 DEF ALLOWED_TRANSITIONS, Closed, OrderStatuses
    <3> QED
      BY <2>2, <2>3, <3>1, ProgressValues DEF Later
  <2> QED
    BY <2>2, <2>3 DEF Later
<1> QED
  BY <1>1, <1>2

\* Onward and onward.
LEMMA LaterTransitive ==
    ASSUME NEW s \in OrderStatuses, NEW t \in OrderStatuses, NEW u \in OrderStatuses,
           Later(s, t), Later(t, u)
    PROVE  Later(s, u)
<1>1. CASE u \in Closed
  BY <1>1 DEF Later
<1>2. CASE u \notin Closed
  <2>1. t \notin Closed /\ s \notin Closed
    BY <1>2 DEF Later
  <2> QED
    BY <1>2, <2>1, ProgressType DEF Later
<1> QED
  BY <1>1, <1>2

\* A row with its first payment, which checkout writes with the order.
Row(r) == r \in Records /\ 1 \in DOMAIN r.payments

\* u is r with other columns than the status written: the first payment stays that
\* of the same provider, and nobody starts to owe cash on delivery.
Keeps(r, u) ==
    /\ Row(u) /\ u.status = r.status
    /\ u.payments[1].provider = r.payments[1].provider
    /\ u.payment_status = "cod_pending" => r.payment_status = "cod_pending"

\* s is a record to which a handler may bring r: the order has moved onward, it does
\* not rest at "paid", and it is not handed over while its cash is to be collected.
Onward(r, s) ==
    /\ Row(s) /\ Later(r.status, s.status)
    /\ s.status = "paid" => r.status = "paid"
    /\ s.payments[1].provider = r.payments[1].provider
    /\ s.payment_status = "cod_pending" => r.payment_status = "cod_pending"
    /\ (s.status = "delivered" /\ s.payment_status = "cod_pending" /\ is_cod(s))
           => r.status = "delivered"

\* One write after the other.
LEMMA KeepsTransitive ==
    ASSUME NEW r, NEW t, NEW u, Keeps(r, t), Keeps(t, u) PROVE Keeps(r, u)
  BY DEF Keeps

\* Standing still.
LEMMA Still == ASSUME NEW r, Row(r), NEW s, Keeps(r, s) PROVE Onward(r, s)
<1>1. r.status \in OrderStatuses /\ s.status = r.status
  BY RecordColumns DEF Row, Keeps
<1>2. Later(r.status, s.status)
  BY <1>1, TransitionsGoOn DEF can_transition
<1> QED
  BY <1>2 DEF Keeps, Onward

\* Nothing written.
LEMMA Same == ASSUME NEW r, Row(r) PROVE Keeps(r, r) /\ Onward(r, r)
<1>1. Keeps(r, r)
  BY DEF Keeps
<1> QED
  BY <1>1, Still

\* Other columns, then a handler.
LEMMA KeepsThenOnward ==
    ASSUME NEW r, NEW u, NEW s, Keeps(r, u), Onward(u, s) PROVE Onward(r, s)
  BY DEF Keeps, Onward

\* A handler, then other columns.
LEMMA OnwardThenKeeps ==
    ASSUME NEW r, NEW u, NEW s, Onward(r, u), Keeps(u, s) PROVE Onward(r, s)
  BY DEF Keeps, Onward, is_cod

\* OrderService.transition, after other columns were written.
LEMMA MoveOnward ==
    ASSUME NEW r, Row(r), NEW u, Keeps(r, u),
           NEW v \in OrderStatuses \ {"paid"}, NEW s \in transition(u, v),
           v = "delivered" => ~is_cod(u) \/ u.payment_status # "cod_pending"
    PROVE  Onward(r, s)
<1>1. /\ s \in Records /\ s.status = v /\ can_transition(u.status, v)
      /\ s.payment_status = u.payment_status /\ s.payments = u.payments
  BY TransitionEffect DEF Keeps, Row
<1>2. Later(r.status, s.status)
  BY <1>1, RecordColumns, TransitionsGoOn DEF Keeps, Row
<1> QED
  BY <1>1, <1>2 DEF Keeps, Row, Onward, is_cod

-----------------------------------------------------------------------------
(* The writes. *)

\* The stock service.
LEMMA StockKeeps ==
    ASSUME NEW r, Row(r), NEW u \in {ConfirmStock(r), ReleaseStock(r), FulfillStock(r)}
    PROVE  Keeps(r, u) /\ u.payment_status = r.payment_status
<1>1. /\ u \in Records /\ u.status = r.status /\ u.payment_status = r.payment_status
      /\ u.payments = r.payments
  BY StockEffect DEF Row
<1> QED
  BY <1>1 DEF Keeps, Row

\* The payment status, which no handler sets back to "cod_pending".
LEMMA PaymentStatusKeeps ==
    ASSUME NEW r, Row(r), NEW v \in PaymentStatuses,
           v = "cod_pending" => r.payment_status = "cod_pending"
    PROVE  LET u == [r EXCEPT !.payment_status = v]
           IN  Keeps(r, u) /\ u.payment_status = v
<1>1. LET u == [r EXCEPT !.payment_status = v]
      IN  /\ u \in Records /\ u.status = r.status /\ u.payment_status = v
          /\ u.payments = r.payments
  BY PaymentStatusColumn DEF Row
<1> QED
  BY <1>1 DEF Keeps, Row

\* The cart's pointer.
LEMMA CartKeeps ==
    ASSUME NEW r, Row(r), NEW v \in BOOLEAN PROVE Keeps(r, [r EXCEPT !.cart = v])
<1>1. LET u == [r EXCEPT !.cart = v]
      IN  /\ u \in Records /\ u.status = r.status /\ u.payment_status = r.payment_status
          /\ u.payments = r.payments
  BY CartColumn DEF Row
<1> QED
  BY <1>1 DEF Keeps, Row

\* The status of a payment.
LEMMA SetPaymentKeeps ==
    ASSUME NEW r, Row(r), NEW i \in DOMAIN r.payments,
           NEW v \in {"pending", "processing", "succeeded", "failed", "cancelled", "refunded"}
    PROVE  LET u == SetPayment(r, i, v)
           IN  /\ Keeps(r, u) /\ u.payment_status = r.payment_status
               /\ DOMAIN u.payments = DOMAIN r.payments
<1>1. LET u == SetPayment(r, i, v)
      IN  /\ u \in Records /\ u.status = r.status /\ u.payment_status = r.payment_status
          /\ DOMAIN u.payments = DOMAIN r.payments
          /\ u.payments[i].provider = r.payments[i].provider
          /\ \A j \in DOMAIN r.payments \ {i} : u.payments[j] = r.payments[j]
  BY PaymentUpdate DEF Row
<1> QED
  BY <1>1 DEF Keeps, Row

\* Payments that are exchanged for others of the same providers, or added to.
LEMMA PaymentsKeep ==
    ASSUME NEW r, Row(r), NEW q \in Seq(Payments), 1 \in DOMAIN q,
           q[1].provider = r.payments[1].provider
    PROVE  LET u == [r EXCEPT !.payments = q]
           IN  Keeps(r, u) /\ u.payments = q /\ u.payment_status = r.payment_status
<1>1. LET u == [r EXCEPT !.payments = q]
      IN  /\ u \in Records /\ u.status = r.status /\ u.payment_status = r.payment_status
          /\ u.payments = q
  BY PaymentsColumn DEF Row
<1> QED
  BY <1>1 DEF Keeps, Row

\* A flag of a payment.
LEMMA FlagsKeep ==
    ASSUME NEW r, Row(r), NEW i \in DOMAIN r.payments
    PROVE  /\ Keeps(r, [r EXCEPT !.payments[i].processed = TRUE])
           /\ Keeps(r, [r EXCEPT !.payments[i].stale = TRUE])
<1> DEFINE p == r.payments
<1>1. p \in Seq(Payments) /\ p[i] \in Payments
  BY RecordColumns DEF Row
<1>2. ASSUME NEW x \in Payments, x.provider = p[i].provider
      PROVE  Keeps(r, [r EXCEPT !.payments = [p EXCEPT ![i] = x]])
  <2> DEFINE q == [p EXCEPT ![i] = x]
  <2>1. q \in Seq(Payments) /\ 1 \in DOMAIN q /\ q[1].provider = p[1].provider
    BY <1>1, <1>2 DEF Row
  <2> HIDE DEF q
  <2>2. Keeps(r, [r EXCEPT !.payments = q])
    BY <2>1, PaymentsKeep
  <2> QED
    BY <2>2 DEF q
<1>3. LET x == [p[i] EXCEPT !.processed = TRUE]
      IN  x \in Payments /\ x.provider = p[i].provider
  BY <1>1 DEF Payments
<1>4. LET x == [p[i] EXCEPT !.stale = TRUE]
      IN  x \in Payments /\ x.provider = p[i].provider
  BY <1>1 DEF Payments
<1>5. /\ [r EXCEPT !.payments[i].processed = TRUE]
             = [r EXCEPT !.payments = [p EXCEPT ![i] = [p[i] EXCEPT !.processed = TRUE]]]
      /\ [r EXCEPT !.payments[i].stale = TRUE]
             = [r EXCEPT !.payments = [p EXCEPT ![i] = [p[i] EXCEPT !.stale = TRUE]]]
  OBVIOUS
<1> QED
  BY <1>2, <1>3, <1>4, <1>5

\* One payment more.
LEMMA AppendKeeps ==
    ASSUME NEW r, Row(r), NEW x \in Payments
    PROVE  LET u == [r EXCEPT !.payments = Append(@, x)]
           IN  /\ Keeps(r, u) /\ u.payments = Append(r.payments, x)
               /\ u.payment_status = r.payment_status
<1> DEFINE q == Append(r.payments, x)
<1>1. /\ q \in Seq(Payments) /\ 1 \in DOMAIN q
      /\ q[1] = r.payments[1]
  BY RecordColumns DEF Row
<1>2. [r EXCEPT !.payments = Append(@, x)] = [r EXCEPT !.payments = q]
  OBVIOUS
<1> HIDE DEF q
<1>3. LET u == [r EXCEPT !.payments = q]
      IN  Keeps(r, u) /\ u.payments = q /\ u.payment_status = r.payment_status
  BY <1>1, PaymentsKeep
<1> QED
  BY <1>2, <1>3 DEF q

-----------------------------------------------------------------------------
(* The handlers of OrderService move an order onward. *)

\* The statuses that are written below.
LEMMA StatusValues ==
    /\ {"confirmed_by_shop", "preparing", "packaged", "out_for_delivery", "delivered",
        "cancelled", "refunded"} \subseteq OrderStatuses \ {"paid"}
    /\ {"paid", "failed", "refund_requested", "refund_processed", "cod_confirmed",
        "cash_received", "pending_payment"} \subseteq PaymentStatuses \ {"cod_pending"}
  BY DEF OrderStatuses, PaymentStatuses

\* Saving a payment status after the stock was released, and closing the order.
LEMMA CloseOnward ==
    ASSUME NEW r, Row(r), NEW v \in PaymentStatuses,
           v = "cod_pending" => r.payment_status = "cod_pending",
           NEW c \in {"cancelled", "refunded"},
           NEW s \in transition([ReleaseStock(r) EXCEPT !.payment_status = v], c)
    PROVE  Onward(r, s)
<1> DEFINE t == ReleaseStock(r)
           u == [t EXCEPT !.payment_status = v]
<1>1. Keeps(r, t) /\ Row(t) /\ t.payment_status = r.payment_status
  BY StockKeeps DEF Keeps
<1> HIDE DEF t
<1>2. Keeps(t, u)
  BY <1>1, PaymentStatusKeeps
<1> HIDE DEF u
<1>3. Keeps(r, u)
  BY <1>1, <1>2, KeepsTransitive
<1>4. s \in transition(u, c)
  BY DEF u, t
<1> QED
  BY <1>3, <1>4, StatusValues, MoveOnward

\* OrderService.cancel.
LEMMA CancelOnward == ASSUME NEW r, Row(r), NEW s \in cancel(r) PROVE Onward(r, s)
<1>1. CASE r.status \in Closed
  BY <1>1, Same DEF cancel
<1>2. CASE r.status \notin Closed
  <2> DEFINE v == IF r.payment_status = "pending_payment" THEN "failed" ELSE r.payment_status
  <2>1. v \in PaymentStatuses /\ (v = "cod_pending" => r.payment_status = "cod_pending")
    BY RecordColumns, StatusValues DEF Row
  <2>2. ReleaseStock(r).payment_status = r.payment_status
    BY StockKeeps
  <2>3. s \in transition([ReleaseStock(r) EXCEPT !.payment_status = v], "cancelled")
    BY <1>2, <2>2 DEF cancel
  <2> HIDE DEF v
  <2> QED
    BY <2>1, <2>3, CloseOnward
<1> QED
  BY <1>1, <1>2

\* OrderService.mark_payment_failed.
LEMMA FailedOnward == ASSUME NEW r, Row(r), NEW s \in mark_payment_failed(r) PROVE Onward(r, s)
<1>1. s = r \/ s \in transition([ReleaseStock(r) EXCEPT !.payment_status = "failed"], "cancelled")
  BY Zenon DEF mark_payment_failed
<1> QED
  BY <1>1, Same, StatusValues, CloseOnward

\* OrderService.request_refund.
LEMMA RequestRefundOnward == ASSUME NEW r, Row(r), NEW s \in request_refund(r) PROVE Onward(r, s)
<1>1. s = [r EXCEPT !.payment_status = "refund_requested"]
  BY Zenon DEF request_refund
<1> QED
  BY <1>1, StatusValues, PaymentStatusKeeps, Still

\* OrderService.process_refund.
LEMMA RefundOnward == ASSUME NEW r, Row(r), NEW s \in process_refund(r) PROVE Onward(r, s)
<1> DEFINE t == RefundLatest(r)
           n == Len(r.payments)
<1>1. n \in DOMAIN r.payments
  BY RecordColumns DEF Row
<1>2. t = r \/ t = SetPayment(r, n, "refunded")
  BY DEF RefundLatest
<1> HIDE DEF n
<1>3. Keeps(r, t) /\ Row(t)
  BY <1>1, <1>2, Same, SetPaymentKeeps DEF Keeps
<1>4. s = r \/ s \in transition([ReleaseStock(t) EXCEPT !.payment_status = "refund_processed"],
                               "refunded")
  BY Zenon DEF process_refund
<1> HIDE DEF t
<1> QED
  BY <1>3, <1>4, Same, StatusValues, CloseOnward, KeepsThenOnward

\* OrderService.complete_delivery: not while cash is to be collected.
LEMMA DeliveryOnward == ASSUME NEW r, Row(r), NEW s \in complete_delivery(r) PROVE Onward(r, s)
<1>1. CASE ~is_cod(r)
  <2> DEFINE u == FulfillStock(r)
  <2>1. Keeps(r, u)
    BY StockKeeps
  <2>2. s \in transition(u, "delivered")
    BY <1>1, Zenon DEF complete_delivery
  <2>3. ~is_cod(u)
    BY <1>1, <2>1 DEF Keeps, is_cod
  <2> HIDE DEF u
  <2> QED
    BY <2>1, <2>2, <2>3, StatusValues, MoveOnward
<1>2. CASE is_cod(r)
  <2>1. r.payment_status = "cash_received" /\ s \in transition(r, "delivered")
    BY <1>2, Zenon DEF complete_delivery
  <2> QED
    BY <2>1, Same, StatusValues, MoveOnward
<1> QED
  BY <1>1, <1>2

\* A staff action that moves an order along the kitchen.
LEMMA AdvanceOnward ==
    ASSUME NEW r, Row(r), NEW s,
           NEW v \in {"confirmed_by_shop", "preparing", "packaged", "out_for_delivery"},
           s \in transition(r, v)
    PROVE  Onward(r, s)
  BY Same, StatusValues, MoveOnward

\* Saving "paid" and confirming the stock, on the way to the next status.
LEMMA PaidStockKeeps ==
    ASSUME NEW r, Row(r)
    PROVE  LET u == ConfirmStock([r EXCEPT !.payment_status = "paid"])
           IN  Keeps(r, u) /\ Row(u)
<1> DEFINE t == [r EXCEPT !.payment_status = "paid"]
<1>1. Keeps(r, t) /\ Row(t)
  BY StatusValues, PaymentStatusKeeps DEF Keeps
<1> HIDE DEF t
<1>2. Keeps(t, ConfirmStock(t))
  BY <1>1, StockKeeps
<1>3. Keeps(r, ConfirmStock(t)) /\ Row(ConfirmStock(t))
  BY <1>1, <1>2, KeepsTransitive DEF Keeps
<1> QED
  BY <1>3 DEF t

\* OrderService.finalize_counter_payment.
LEMMA CounterOnward == ASSUME NEW r, Row(r), NEW s \in finalize_counter_payment(r) PROVE Onward(r, s)
<1> DEFINE u == ConfirmStock([r EXCEPT !.payment_status = "paid"])
<1>1. s = r \/ s \in transition(u, "preparing")
  BY Zenon DEF finalize_counter_payment
<1>2. Keeps(r, u)
  BY PaidStockKeeps
<1> HIDE DEF u
<1> QED
  BY <1>1, <1>2, Same, StatusValues, MoveOnward

\* OrderService.finalize_online_payment: through "paid" in one transaction.
LEMMA OnlineOnward == ASSUME NEW r, Row(r), NEW s \in finalize_online_payment(r) PROVE Onward(r, s)
<1> DEFINE u == ConfirmStock([r EXCEPT !.payment_status = "paid"])
<1>1. s = r \/ \E t \in transition(u, "paid") : s \in transition(t, "confirmed_by_shop")
  BY Zenon DEF finalize_online_payment
<1>2. Keeps(r, u) /\ Row(u)
  BY PaidStockKeeps
<1> HIDE DEF u
<1>3. ASSUME NEW t \in transition(u, "paid"), s \in transition(t, "confirmed_by_shop")
      PROVE  Onward(r, s)
  <2>1. "paid" \in OrderStatuses /\ "confirmed_by_shop" \in OrderStatuses
    BY DEF OrderStatuses
  <2>2. /\ t \in Records /\ t.status = "paid" /\ can_transition(u.status, "paid")
        /\ t.payment_status = u.payment_status /\ t.payments = u.payments
    BY <1>2, <2>1, TransitionEffect DEF Row
  <2>3. /\ s \in Records /\ s.status = "confirmed_by_shop" /\ can_transition("paid", s.status)
        /\ s.payment_status = t.payment_status /\ s.payments = t.payments
    BY <1>3, <2>1, <2>2, TransitionEffect
  <2>4. u.status = r.status /\ u.status \in OrderStatuses
    BY <1>2, RecordColumns DEF Keeps, Row
  <2>5. Later(r.status, s.status)
    BY <2>1, <2>2, <2>3, <2>4, TransitionsGoOn, LaterTransitive
  <2> QED
    BY <1>2, <2>2, <2>3, <2>5 DEF Keeps, Row, Onward
<1> QED
  BY <1>1, <1>3, Same

\* OrderService.confirm_cod.
LEMMA ConfirmCodOnward == ASSUME NEW r, Row(r), NEW s \in confirm_cod(r) PROVE Onward(r, s)
<1>1. s = [r EXCEPT !.payment_status = "cod_confirmed"]
  BY Zenon DEF confirm_cod
<1> QED
  BY <1>1, StatusValues, PaymentStatusKeeps, Still

\* OrderService.record_cash_received: the cash is there when the order is handed over.
LEMMA CashOnward == ASSUME NEW r, Row(r), NEW s \in record_cash_received(r) PROVE Onward(r, s)
<1> DEFINE t == [r EXCEPT !.payment_status = "cash_received"]
           u == ConfirmStock(t)
           w == FulfillStock(u)
<1>1. Keeps(r, t) /\ Row(t) /\ t.payment_status = "cash_received"
  BY StatusValues, PaymentStatusKeeps DEF Keeps
<1>2. s \in transition(w, "delivered")
  BY Zenon DEF record_cash_received
<1> HIDE DEF t
<1>3. Keeps(t, u) /\ Row(u) /\ u.payment_status = "cash_received"
  BY <1>1, StockKeeps DEF Keeps
<1> HIDE DEF u
<1>4. Keeps(u, w) /\ w.payment_status = "cash_received"
  BY <1>3, StockKeeps
<1> HIDE DEF w
<1>5. Keeps(r, w)
  BY <1>1, <1>3, <1>4, KeepsTransitive
<1> QED
  BY <1>2, <1>4, <1>5, StatusValues, MoveOnward

-----------------------------------------------------------------------------
(* So do the handlers of PaymentService, of the callback and of the webhooks. *)

\* PaymentService.mark_paid.
LEMMA MarkPaidOnward ==
    ASSUME NEW r, Row(r), NEW i \in DOMAIN r.payments, NEW s \in mark_paid(r, i)
    PROVE  Onward(r, s)
<1> DEFINE t == SetPayment(r, i, "succeeded")
<1>1. Keeps(r, t) /\ Row(t)
  BY SetPaymentKeeps DEF Keeps
<1>2. s = r \/ s = t \/ s \in finalize_online_payment(t)
  BY Zenon DEF mark_paid
<1> HIDE DEF t
<1> QED
  BY <1>1, <1>2, Same, Still, OnlineOnward, KeepsThenOnward

\* PaymentService.mark_failed.
LEMMA MarkFailedOnward ==
    ASSUME NEW r, Row(r), NEW i \in DOMAIN r.payments, NEW s \in mark_failed(r, i)
    PROVE  Onward(r, s)
<1> DEFINE t == SetPayment(r, i, "failed")
<1>1. Keeps(r, t) /\ Row(t)
  BY SetPaymentKeeps DEF Keeps
<1>2. s = r \/ s \in mark_payment_failed(t)
  BY Zenon DEF mark_failed
<1> HIDE DEF t
<1> QED
  BY <1>1, <1>2, Same, FailedOnward, KeepsThenOnward

\* PaymentService.mark_cancelled.
LEMMA MarkCancelledOnward ==
    ASSUME NEW r, Row(r), NEW i \in DOMAIN r.payments, NEW s \in mark_cancelled(r, i)
    PROVE  Onward(r, s)
<1> DEFINE t == SetPayment(r, i, "cancelled")
<1>1. Keeps(r, t) /\ Row(t)
  BY SetPaymentKeeps DEF Keeps
<1>2. s = r \/ s = [t EXCEPT !.payment_status = "pending_payment"]
  BY Zenon DEF mark_cancelled
<1> HIDE DEF t
<1>3. Keeps(t, [t EXCEPT !.payment_status = "pending_payment"])
  BY <1>1, StatusValues, PaymentStatusKeeps
<1> QED
  BY <1>1, <1>2, <1>3, Same, Still, KeepsTransitive

\* PaymentService._mark_counter_payment_received.
LEMMA CounterReceivedOnward ==
    ASSUME NEW r, Row(r), NEW i \in DOMAIN r.payments,
           NEW s \in mark_counter_payment_received(r, i)
    PROVE  Onward(r, s)
<1> DEFINE t == SetPayment(r, i, "succeeded")
<1>1. Keeps(r, t) /\ Row(t)
  BY SetPaymentKeeps DEF Keeps
<1>2. s = r \/ s \in finalize_counter_payment(t) \/ s \in finalize_counter_payment(r)
  BY Zenon DEF mark_counter_payment_received
<1> HIDE DEF t
<1> QED
  BY <1>1, <1>2, Same, CounterOnward, KeepsThenOnward

\* PaymentService.mark_cod_cash_received.
LEMMA CashReceivedOnward ==
    ASSUME NEW r, Row(r), NEW i \in DOMAIN r.payments, NEW s \in mark_cod_cash_received(r, i)
    PROVE  Onward(r, s)
<1> DEFINE t == SetPayment(r, i, "succeeded")
<1>1. Keeps(r, t) /\ Row(t)
  BY SetPaymentKeeps DEF Keeps
<1>2. s \in record_cash_received(t)
  BY DEF mark_cod_cash_received
<1> HIDE DEF t
<1> QED
  BY <1>1, <1>2, CashOnward, KeepsThenOnward

\* Every new payment is a payment.
LEMMA NewPayments ==
    ASSUME NEW p \in {"zarinpal", "stripe", "counter", "cod"}, NEW v \in {"pending", "processing"}
    PROVE  NewPayment(p, v) \in Payments /\ NewPayment(p, v).provider = p
  BY DEF NewPayment, Payments

\* Appending a payment and waiting for it.
LEMMA AwaitPayment ==
    ASSUME NEW r, Row(r), NEW x \in Payments
    PROVE  LET s == [r EXCEPT !.payments = Append(@, x), !.payment_status = "pending_payment"]
           IN  Onward(r, s)
<1> DEFINE u == [r EXCEPT !.payments = Append(@, x)]
           w == [u EXCEPT !.payment_status = "pending_payment"]
<1>1. Keeps(r, u) /\ Row(u)
  BY AppendKeeps DEF Keeps
<1>2. [r EXCEPT !.payments = Append(@, x), !.payment_status = "pending_payment"] = w
  OBVIOUS
<1> HIDE DEF u
<1>3. Keeps(u, w)
  BY <1>1, StatusValues, PaymentStatusKeeps
<1> HIDE DEF w
<1> QED
  BY <1>1, <1>2, <1>3, KeepsTransitive, Still

\* PaymentService.initiate_online, with either provider, and initiate_cod.
LEMMA InitiateOnward ==
    ASSUME NEW r, Row(r), NEW s \in initiate_online(r) \cup initiate_stripe(r) \cup initiate_cod(r)
    PROVE  Onward(r, s)
<1>1. CASE s \in initiate_cod(r)
  <2>1. s = [r EXCEPT !.payments = Append(@, NewPayment("cod", "pending"))]
    BY <1>1, Zenon DEF initiate_cod
  <2> QED
    BY <2>1, NewPayments, AppendKeeps, Still
<1>2. CASE s \in initiate_online(r)
  <2> DEFINE x == NewPayment("zarinpal", "processing")
  <2>1. s = r \/ s = [r EXCEPT !.payments = Append(@, x), !.payment_status = "pending_payment"]
    BY <1>2, Zenon DEF initiate_online
  <2>2. x \in Payments
    BY NewPayments
  <2> HIDE DEF x
  <2>3. CASE s = r
    BY <2>3, Same
  <2>4. CASE s = [r EXCEPT !.payments = Append(@, x), !.payment_status = "pending_payment"]
    BY <2>2, <2>4, AwaitPayment
  <2> QED
    BY <2>1, <2>3, <2>4
<1>3. CASE s \in initiate_stripe(r)
  <2>1. s = [r EXCEPT !.payments = Append(@, NewPayment("stripe", "processing")),
                      !.payment_status = "pending_payment"]
    BY <1>3, Zenon DEF initiate_stripe
  <2> QED
    BY <2>1, NewPayments, AwaitPayment
<1> QED
  BY <1>1, <1>2, <1>3

\* Whatever the handlers do, marking the event as processed comes on top.
LEMMA ProcessedOnward ==
    ASSUME NEW r, Row(r), NEW i \in DOMAIN r.payments, NEW R,
           \A t \in R : Onward(r, t) /\ i \in DOMAIN t.payments, NEW s \in Processed(R, i)
    PROVE  Onward(r, s)
<1>1. PICK t \in R : s = [t EXCEPT !.payments[i].processed = TRUE]
  BY Zenon DEF Processed
<1>2. Onward(r, t) /\ Row(t) /\ i \in DOMAIN t.payments
  BY DEF Onward
<1>3. Keeps(t, s)
  BY <1>1, <1>2, FlagsKeep
<1> QED
  BY <1>2, <1>3, OnwardThenKeeps

\* Each kind of event has its handler.
LEMMA EventHandlers ==
    ASSUME NEW r, NEW e \in Events
    PROVE  handle_webhook_event(r, e) \in
               {mark_paid(r, e.payment), mark_cancelled(r, e.payment), mark_failed(r, e.payment),
                process_refund(r)}
<1>1. e.kind \in {"completed", "expired", "payment_failed", "refunded"}
  BY DEF Events
<1>2. CASE e.kind = "completed"
  BY <1>2 DEF handle_webhook_event, handle_checkout_completed
<1>3. CASE e.kind = "expired"
  BY <1>3 DEF handle_webhook_event, handle_checkout_expired
<1>4. CASE e.kind = "payment_failed"
  BY <1>4 DEF handle_webhook_event, handle_payment_failed
<1>5. CASE e.kind = "refunded"
  BY <1>5 DEF handle_webhook_event, handle_charge_refunded
<1> QED
  BY <1>1, <1>2, <1>3, <1>4, <1>5

\* The events of Stripe.
LEMMA WebhookOnward ==
    ASSUME NEW r, Row(r), NEW e \in Events, e.payment \in DOMAIN r.payments,
           NEW s \in handle_webhook_event(r, e)
    PROVE  Onward(r, s)
<1>1. handle_webhook_event(r, e) \in
         {mark_paid(r, e.payment), mark_cancelled(r, e.payment), mark_failed(r, e.payment),
          process_refund(r)}
  BY EventHandlers
<1> QED
  BY <1>1, MarkPaidOnward, MarkCancelledOnward, MarkFailedOnward, RefundOnward

-----------------------------------------------------------------------------
(* The handlers that OrderPayments does not use leave sound records. *)

\* PaymentService.mark_cancelled: the order waits for another payment.
LEMMA CancelledSound ==
    ASSUME NEW r, Sound(r), NEW i \in DOMAIN r.payments, NEW s \in mark_cancelled(r, i)
    PROVE  SoundAfter(r, s) /\ (r.payment_status \in Successful => s = r)
<1>1. CASE r.payments[i].status = "succeeded" \/ r.payment_status \in Successful
  BY <1>1, NoChange DEF mark_cancelled
<1>2. CASE ~(r.payments[i].status = "succeeded" \/ r.payment_status \in Successful)
  <2> DEFINE t == SetPayment(r, i, "cancelled")
  <2>1. SoundAfter(r, t)
    BY <1>2, SettlePayment
  <2>2. s = [t EXCEPT !.payment_status = "pending_payment"]
    BY <1>2, Zenon DEF mark_cancelled
  <2> HIDE DEF t
  <2>3. /\ s \in Records /\ s.status = t.status /\ s.payment_status = "pending_payment"
        /\ s.hold = t.hold /\ s.payments = t.payments
    BY <2>1, <2>2, StatusValues, PaymentStatusColumn DEF SoundAfter, Sound
  <2>4. SoundAfter(t, s)
    BY <2>1, <2>3, SoundColumns DEF SoundAfter, Sound, Successful, Sold
  <2> QED
    BY <1>2, <2>1, <2>4 DEF SoundAfter
<1> QED
  BY <1>1, <1>2

\* OrderService.confirm_cod.
LEMMA ConfirmCodSound ==
    ASSUME NEW r, Sound(r), NEW s \in confirm_cod(r)
    PROVE  SoundAfter(r, s) /\ s.status = r.status
<1>1. r.payment_status = "cod_pending" /\ s = [r EXCEPT !.payment_status = "cod_confirmed"]
  BY Zenon DEF confirm_cod
<1>2. /\ s \in Records /\ s.status = r.status /\ s.payment_status = "cod_confirmed"
      /\ s.hold = r.hold /\ s.payments = r.payments
  BY <1>1, StatusValues, PaymentStatusColumn DEF Sound
<1> QED
  BY <1>1, <1>2, SoundColumns DEF Sound, Successful, Sold

\* PaymentService.mark_cod_cash_received.
LEMMA CashSound ==
    ASSUME NEW r, Sound(r), NEW i \in DOMAIN r.payments, NEW s \in mark_cod_cash_received(r, i)
    PROVE  SoundAfter(r, s) /\ s.status = "delivered"
<1> DEFINE p == SetPayment(r, i, "succeeded")
           t == [p EXCEPT !.payment_status = "cash_received"]
           u == ConfirmStock(t)
           w == FulfillStock(u)
<1>1. SoundAfter(r, p) /\ Sound(p) /\ Succeeded(p) # {} /\ p \in Records
  BY SucceedSound DEF SoundAfter, Sound
<1>2. s \in transition(w, "delivered")
  BY Zenon DEF mark_cod_cash_received, record_cash_received
<1> HIDE DEF p
<1>3. /\ t \in Records /\ t.status = p.status /\ t.payment_status = "cash_received"
      /\ t.payments = p.payments
  BY <1>1, StatusValues, PaymentStatusColumn
<1> HIDE DEF t
<1>4. u \in Records /\ u.payments = p.payments
  BY <1>3, StockEffect
<1> HIDE DEF u
<1>5. w \in Records /\ w.payments = p.payments
  BY <1>4, StockEffect
<1> HIDE DEF w
<1>6. "delivered" \in OrderStatuses /\ "delivered" \in Confirmed /\ "delivered" \notin Closed
  BY DEF OrderStatuses, Confirmed, Closed
<1>7. s \in Records /\ s.status = "delivered" /\ s.payments = p.payments
  BY <1>2, <1>5, <1>6, TransitionEffect
<1>8. SoundAfter(p, s)
  BY <1>1, <1>6, <1>7, SoundColumns
<1> QED
  BY <1>1, <1>7, <1>8 DEF SoundAfter

\* A further payment.
LEMMA AppendSound ==
    ASSUME NEW r, Sound(r), NEW x \in Payments,
           NEW s \in Records, s.payments = Append(r.payments, x), s.status = r.status,
           s.hold = r.hold, s.payment_status \in {r.payment_status, "pending_payment"}
    PROVE  Sound(s) /\ Len(s.payments) = Len(r.payments) + 1
<1>1. r.payments \in Seq(Payments)
  BY RecordColumns DEF Sound
<1>2. /\ Len(s.payments) = Len(r.payments) + 1
      /\ DOMAIN s.payments = DOMAIN r.payments \cup {Len(r.payments) + 1}
      /\ \A j \in DOMAIN r.payments : s.payments[j] = r.payments[j]
      /\ s.payments[Len(r.payments) + 1] = x
  BY <1>1
<1>3. Succeeded(r) \subseteq Succeeded(s)
  BY <1>2 DEF Succeeded
<1> QED
  BY <1>2, <1>3 DEF Sound, Successful, Sold

\* PaymentService.initiate_online with Stripe, and initiate_cod.
LEMMA InitiateOtherSound ==
    ASSUME NEW r, Sound(r), NEW s \in initiate_stripe(r) \cup initiate_cod(r)
    PROVE  /\ Sound(s) /\ Len(s.payments) = Len(r.payments) + 1 /\ s.status = r.status
<1>1. r \in Records /\ r.payments \in Seq(Payments)
  BY RecordColumns DEF Sound
<1>2. ASSUME NEW x \in Payments
      PROVE  LET q == Append(r.payments, x)
                 t == [r EXCEPT !.payments = q]
             IN  /\ t \in Records /\ t.status = r.status /\ t.hold = r.hold /\ t.payments = q
                 /\ t.payment_status = r.payment_status
  <2>1. Append(r.payments, x) \in Seq(Payments)
    BY <1>1
  <2> QED
    BY <1>1, <2>1, PaymentsColumn
<1>3. CASE s \in initiate_cod(r)
  <2>1. s = [r EXCEPT !.payments = Append(r.payments, NewPayment("cod", "pending"))]
    BY <1>3, Zenon DEF initiate_cod
  <2>2. NewPayment("cod", "pending") \in Payments /\ NewPayment("cod", "pending").provider = "cod"
    BY NewPayments
  <2> QED
    BY <1>2, <2>1, <2>2, AppendSound
<1>4. CASE s \in initiate_stripe(r)
  <2> DEFINE x == NewPayment("stripe", "processing")
             t == [r EXCEPT !.payments = Append(r.payments, x)]
  <2>1. s = [r EXCEPT !.payments = Append(r.payments, x), !.payment_status = "pending_payment"]
    BY <1>4, Zenon DEF initiate_stripe
  <2>2. x \in Payments /\ x.provider = "stripe"
    BY NewPayments
  <2>3. s = [t EXCEPT !.payment_status = "pending_payment"]
    BY <2>1
  <2> HIDE DEF x
  <2>4. /\ t \in Records /\ t.status = r.status /\ t.hold = r.hold
        /\ t.payments = Append(r.payments, x)
    BY <1>2, <2>2
  <2> HIDE DEF t
  <2>5. /\ s \in Records /\ s.status = r.status /\ s.hold = r.hold
        /\ s.payments = Append(r.payments, x) /\ s.payment_status = "pending_payment"
    BY <2>3, <2>4, StatusValues, PaymentStatusColumn
  <2> QED
    BY <2>2, <2>5, AppendSound
<1> QED
  BY <1>3, <1>4

-----------------------------------------------------------------------------
(* The invariant of the specification. *)

\* What a placed order satisfies beyond OrderInv: it does not rest at "paid", only an
\* order of the counter waits there, cash is to be collected only for an order
\* of that kind that was not handed over, and a legacy order stays one.
Shown(o) ==
    LET r == order[o]
    IN  /\ r.status # "paid"
        /\ r.status = "awaiting_payment" => o \in Counter
        /\ r.payment_status = "cod_pending" => is_cod(r) /\ r.status # "delivered"
        /\ o \in Cod => is_cod(r)

DeskInv ==
    /\ OInv
    /\ webhooks \in [Orders -> SUBSET Events]
    /\ \A o \in Orders : \A e \in webhooks[o] : e.payment \in DOMAIN gateway[o]
    /\ tablet = Idle \/ (tablet \in Requests /\ Placed(tablet.order))
    /\ \A o \in Orders : Placed(o) => Shown(o)

\* A placed order and its first payment.
LEMMA PlacedRow == ASSUME OInv, NEW o \in Orders, Placed(o) PROVE Row(order[o])
  BY PlacedFacts DEF Row

\* A step of order o: the other orders stay as they are.
Moves(o, r) == order'[o] = r /\ \A x \in Orders \ {o} : order'[x] = order[x]

\* An order that has moved onward is still shown.
LEMMA ShownOnward ==
    ASSUME OInv, NEW o \in Orders, Placed(o), Shown(o), Onward(order[o], order'[o])
    PROVE  Placed(o)' /\ Shown(o)'
<1> DEFINE r == order[o]
           s == order'[o]
<1>1. r \in Records /\ s \in Records
  BY PlacedRow DEF Row, Onward
<1>2. Placed(o)'
  BY <1>1 DEF Placed, NotPlaced, Records, OrderStatuses
<1>3. s.status # "paid" /\ (s.status = "awaiting_payment" => o \in Counter)
  BY DEF Shown, Onward, Later
<1>4. /\ s.payment_status = "cod_pending" => is_cod(s) /\ s.status # "delivered"
      /\ o \in Cod => is_cod(s)
  BY DEF Shown, Onward, is_cod
<1> QED
  BY <1>2, <1>3, <1>4 DEF Shown

\* Every order has moved onward or, if it is new, is shown.
AllOnward == \A o \in Orders : IF Placed(o) THEN Onward(order[o], order'[o])
                               ELSE Placed(o)' => Shown(o)'

\* No session is forgotten.
SessionsStay == \A o \in Orders : DOMAIN gateway[o] \subseteq DOMAIN gateway'[o]

\* One handler, one order.
LEMMA OneOnward ==
    ASSUME OInv, NEW o \in Orders, Placed(o), NEW r, Moves(o, r), Onward(order[o], r)
    PROVE  AllOnward
<1>1. ASSUME NEW x \in Orders \ {o} PROVE order'[x] = order[x]
  BY DEF Moves
<1>2. ASSUME NEW x \in Orders \ {o}, Placed(x) PROVE Onward(order[x], order'[x])
  BY <1>1, <1>2, PlacedRow, Same
<1>3. ASSUME NEW x \in Orders \ {o}, ~Placed(x) PROVE ~Placed(x)'
  BY <1>1, <1>3 DEF Placed
<1> QED
  BY <1>2, <1>3 DEF AllOnward, Moves

\* Writing a row.
LEMMA WriteMoves ==
    ASSUME OInv, NEW o \in Orders, NEW r, Write(o, r) PROVE Moves(o, r)
  BY DEF OInv, Write, Moves

\* Nothing happens to any order.
LEMMA NoneOnward == ASSUME OInv, order' = order PROVE AllOnward
<1>1. ASSUME NEW x \in Orders, Placed(x) PROVE Onward(order[x], order'[x])
  BY <1>1, PlacedRow, Same
<1>2. ASSUME NEW x \in Orders, ~Placed(x) PROVE ~Placed(x)'
  BY <1>2 DEF Placed
<1> QED
  BY <1>1, <1>2 DEF AllOnward

\* The gateway's side of a step.
LEMMA GatewayStays ==
    ASSUME OInv, NEW o \in Orders, NEW i, NEW v,
           \/ UNCHANGED gateway
           \/ gateway' = [gateway EXCEPT ![o][i] = v]
           \/ gateway' = [gateway EXCEPT ![o] = Append(@, v)]
           \/ gateway[o] = << >> /\ gateway' = [gateway EXCEPT ![o] = v]
    PROVE  SessionsStay
<1>1. gateway \in [Orders -> Seq(Sessions)] /\ gateway[o] \in Seq(Sessions)
  BY DEF OInv
<1>2. CASE UNCHANGED gateway
  BY <1>2 DEF SessionsStay
<1>3. CASE gateway' = [gateway EXCEPT ![o][i] = v]
  <2>1. ASSUME NEW x \in Orders PROVE DOMAIN gateway[x] = DOMAIN gateway'[x]
    BY <1>1, <1>3
  <2> QED
    BY <2>1 DEF SessionsStay
<1>4. CASE gateway' = [gateway EXCEPT ![o] = Append(@, v)]
  <2>1. ASSUME NEW x \in Orders \ {o} PROVE gateway[x] = gateway'[x]
    BY <1>1, <1>4
  <2>2. gateway'[o] = Append(gateway[o], v)
    BY <1>1, <1>4
  <2>3. DOMAIN gateway[o] \subseteq DOMAIN Append(gateway[o], v)
    BY <1>1
  <2> QED
    BY <2>1, <2>2, <2>3 DEF SessionsStay
<1>5. CASE gateway[o] = << >> /\ gateway' = [gateway EXCEPT ![o] = v]
  <2>1. ASSUME NEW x \in Orders \ {o} PROVE gateway[x] = gateway'[x]
    BY <1>1, <1>5
  <2>2. DOMAIN gateway[o] = {}
    BY <1>5
  <2> QED
    BY <2>1, <2>2 DEF SessionsStay
<1> QED
  BY <1>2, <1>3, <1>4, <1>5

\* The events of Stripe stay events of known sessions.
LEMMA DeskKept ==
    ASSUME DeskInv, OInv', AllOnward, SessionsStay,
           webhooks' \in [Orders -> SUBSET Events],
           \A o \in Orders : \A e \in webhooks'[o] :
               e \in webhooks[o] \/ e.payment \in DOMAIN gateway[o],
           tablet' = Idle \/ (tablet' \in Requests /\ Placed(tablet'.order))
    PROVE  DeskInv'
<1>1. ASSUME NEW o \in Orders, Placed(o)' PROVE Shown(o)'
  <2>1. CASE Placed(o)
    BY <2>1, ShownOnward DEF DeskInv, AllOnward
  <2>2. CASE ~Placed(o)
    BY <1>1, <2>2 DEF AllOnward
  <2> QED
    BY <2>1, <2>2
<1>2. ASSUME NEW o \in Orders, NEW e \in webhooks'[o] PROVE e.payment \in DOMAIN gateway'[o]
  BY DEF DeskInv, SessionsStay
<1>3. tablet' = Idle \/ (tablet' \in Requests /\ Placed(tablet.order)')
  <2>1. ASSUME tablet' \in Requests, Placed(tablet'.order) PROVE Placed(tablet.order)'
    <3>1. tablet'.order \in Orders
      BY <2>1 DEF Requests
    <3>2. Shown(tablet'.order) /\ Onward(order[tablet'.order], order'[tablet'.order])
      BY <2>1, <3>1 DEF DeskInv, AllOnward
    <3>3. order'[tablet'.order] \in Records
      BY <3>2 DEF Onward, Row
    <3> QED
      BY <3>3, RecordColumns DEF Placed, NotPlaced, OrderStatuses
  <2> QED
    BY <2>1
<1> QED
  BY <1>1, <1>2, <1>3 DEF DeskInv

-----------------------------------------------------------------------------
(* The steps of OrderPayments. *)

\* As many payments, the same indices.
LEMMA SameDomain ==
    ASSUME NEW r, Sound(r), NEW s, SoundAfter(r, s) PROVE DOMAIN s.payments = DOMAIN r.payments
  BY RecordColumns DEF Sound, SoundAfter

\* The outcomes of a callback.
LEMMA CallbackOnward ==
    ASSUME OInv, NEW o \in Orders, Placed(o), NEW i \in DOMAIN gateway[o], Callback(o, i)
    PROVE  AllOnward /\ SessionsStay
<1> DEFINE r == order[o]
<1>1. Row(r) /\ Sound(r) /\ i \in DOMAIN r.payments
  BY PlacedFacts, PlacedRow
<1>2. ASSUME NEW s \in Processed(mark_failed(r, i), i) PROVE Onward(r, s)
  BY <1>1, MarkFailedOnward, MarkFailedSound, SameDomain, ProcessedOnward
<1>3. ASSUME NEW s \in Processed(mark_paid(r, i), i) PROVE Onward(r, s)
  BY <1>1, MarkPaidOnward, MarkPaidSound, SameDomain, ProcessedOnward
<1>4. ASSUME NEW s \in Settle(r, i) PROVE Onward(r, s)
  <2> DEFINE t == SetPayment(r, i, "succeeded")
  <2>1. Onward(r, t) /\ i \in DOMAIN t.payments
    BY <1>1, SetPaymentKeeps, Still
  <2> HIDE DEF t
  <2>2. s = r \/ s \in Processed({t}, i)
    BY Zenon DEF Settle, t
  <2>3. s \in Processed({t}, i) => Onward(r, s)
    BY <1>1, <2>1, ProcessedOnward
  <2> QED
    BY <1>1, <2>2, <2>3, Same
<1>5. SessionsStay
  BY GatewayStays
     DEF Callback, CallbackSettled, CallbackNotOK, CallbackVerified, CallbackNotVerified,
         CallbackRaises, CallbackDies
<1>6. CASE CallbackSettled(o, i)
  <2>1. PICK s \in Settle(r, i) : Write(o, s)
    BY <1>6 DEF CallbackSettled
  <2> QED
    BY <1>4, <1>5, <2>1, WriteMoves, OneOnward
<1>7. CASE CallbackNotOK(o, i) \/ CallbackNotVerified(o, i)
  <2>1. PICK s \in Processed(mark_failed(r, i), i) : Write(o, s)
    BY <1>7 DEF CallbackNotOK, CallbackNotVerified
  <2> QED
    BY <1>2, <1>5, <2>1, WriteMoves, OneOnward
<1>8. CASE CallbackVerified(o, i)
  <2>1. PICK s \in Processed(mark_paid(r, i), i) : Write(o, s)
    BY <1>8 DEF CallbackVerified
  <2> QED
    BY <1>3, <1>5, <2>1, WriteMoves, OneOnward
<1>9. CASE CallbackRaises(o, i) \/ CallbackDies(o, i)
  BY <1>5, <1>9, NoneOnward DEF CallbackRaises, CallbackDies
<1> QED
  BY <1>6, <1>7, <1>8, <1>9 DEF Callback

\* Time, the periodic tasks and the customer.
LEMMA TimeOnward ==
    ASSUME OInv, NEW o \in Orders, Placed(o),
           \/ HoldExpires(o) \/ CartMovesOn(o)
           \/ \E i \in DOMAIN gateway[o] : \/ CustomerPays(o, i) \/ PaymentGoesStale(o, i)
                                           \/ cleanup_stale_online_payment(o, i)
    PROVE  AllOnward /\ SessionsStay
<1> DEFINE r == order[o]
<1>1. Row(r) /\ DOMAIN gateway[o] = DOMAIN r.payments
  BY PlacedFacts, PlacedRow
<1>2. SessionsStay
  BY GatewayStays
     DEF HoldExpires, CartMovesOn, CustomerPays, PaymentGoesStale, cleanup_stale_online_payment
<1>3. CASE HoldExpires(o)
  <2> DEFINE s == [r EXCEPT !.hold = "expired"]
  <2>1. "expired" \in HoldStatuses
    BY DEF HoldStatuses
  <2>2. /\ s \in Records /\ s.status = r.status /\ s.payment_status = r.payment_status
        /\ s.payments = r.payments
    BY <1>1, <2>1, HoldColumn DEF Row
  <2>3. Write(o, s)
    BY <1>3 DEF HoldExpires
  <2> HIDE DEF s
  <2>4. Keeps(r, s)
    BY <1>1, <2>2 DEF Keeps, Row
  <2> QED
    BY <1>1, <1>2, <2>3, <2>4, Still, WriteMoves, OneOnward
<1>4. CASE CartMovesOn(o)
  BY <1>1, <1>2, <1>4, CartKeeps, Still, WriteMoves, OneOnward DEF CartMovesOn
<1>5. ASSUME NEW i \in DOMAIN gateway[o], CustomerPays(o, i) PROVE AllOnward
  BY <1>5, NoneOnward DEF CustomerPays
<1>6. ASSUME NEW i \in DOMAIN gateway[o], PaymentGoesStale(o, i) PROVE AllOnward
  <2>1. Write(o, [r EXCEPT !.payments[i].stale = TRUE])
    BY <1>6 DEF PaymentGoesStale
  <2> QED
    BY <1>1, <2>1, FlagsKeep, Still, WriteMoves, OneOnward
<1>7. ASSUME NEW i \in DOMAIN gateway[o], cleanup_stale_online_payment(o, i) PROVE AllOnward
  <2>1. PICK s \in mark_failed(r, i) : Write(o, [s EXCEPT !.cart = FALSE])
    BY <1>7 DEF cleanup_stale_online_payment
  <2>2. Onward(r, s) /\ Row(s)
    BY <1>1, MarkFailedOnward DEF Onward
  <2>3. Onward(r, [s EXCEPT !.cart = FALSE])
    BY <2>2, CartKeeps, OnwardThenKeeps
  <2> QED
    BY <2>1, <2>3, WriteMoves, OneOnward
<1> QED
  BY <1>2, <1>3, <1>4, <1>5, <1>6, <1>7

\* Staff.
LEMMA StaffOnward ==
    ASSUME OInv, NEW o \in Orders, Placed(o), Staff(o)
    PROVE  AllOnward /\ SessionsStay
<1> DEFINE r == order[o]
<1>1. Row(r) /\ 1 \in DOMAIN r.payments
  BY PlacedFacts, PlacedRow
<1>2. SessionsStay
  <2>1. CASE StaffCreatesCheckout(o)
    BY <2>1, GatewayStays DEF StaffCreatesCheckout, request_payment
  <2>2. CASE ~StaffCreatesCheckout(o)
    <3>1. UNCHANGED gateway
      BY <2>2 DEF Staff, StaffCancel, StaffRequestRefund, StaffProcessRefund, StaffAdvance,
                  StaffCompleteDelivery, StaffTakesPayment
    <3> QED
      BY <3>1, GatewayStays
  <2> QED
    BY <2>1, <2>2
<1>3. PICK s : /\ Write(o, s)
               /\ \/ s \in cancel(r) \/ s \in request_refund(r) \/ s \in process_refund(r)
                  \/ \E v \in {"preparing", "packaged", "out_for_delivery"} : s \in transition(r, v)
                  \/ s \in complete_delivery(r)
                  \/ s \in mark_counter_payment_received(r, 1)
                  \/ s \in initiate_online(r)
  BY DEF Staff, StaffCancel, StaffRequestRefund, StaffProcessRefund, StaffAdvance,
         StaffCompleteDelivery, StaffTakesPayment, StaffCreatesCheckout
<1>4. Onward(r, s)
  <2>1. s \in cancel(r) => Onward(r, s)
    BY <1>1, CancelOnward
  <2>2. s \in request_refund(r) => Onward(r, s)
    BY <1>1, RequestRefundOnward
  <2>3. s \in process_refund(r) => Onward(r, s)
    BY <1>1, RefundOnward
  <2>4. (\E v \in {"preparing", "packaged", "out_for_delivery"} : s \in transition(r, v))
           => Onward(r, s)
    BY <1>1, AdvanceOnward
  <2>5. s \in complete_delivery(r) => Onward(r, s)
    BY <1>1, DeliveryOnward
  <2>6. s \in mark_counter_payment_received(r, 1) => Onward(r, s)
    BY <1>1, CounterReceivedOnward
  <2>7. s \in initiate_online(r) => Onward(r, s)
    BY <1>1, InitiateOnward
  <2> QED
    BY <1>3, <2>1, <2>2, <2>3, <2>4, <2>5, <2>6, <2>7
<1> QED
  BY <1>2, <1>3, <1>4, WriteMoves, OneOnward

\* What every checkout writes: a sound row, of which one payment is to be paid.
Placement(o, r) ==
    /\ Sound(r) /\ Len(r.payments) = 1
    /\ r.status # "paid" /\ (r.status = "awaiting_payment" => o \in Counter)
    /\ r.payment_status = "cod_pending" => is_cod(r) /\ r.status # "delivered"
    /\ o \in Cod => is_cod(r)

\* A checkout with one payment and one session preserves the invariant.
LEMMA PlaceOne ==
    ASSUME OInv, NEW o \in Orders, ~Placed(o), NEW r, Placement(o, r), NEW g \in Sessions,
           Write(o, r), gateway' = [gateway EXCEPT ![o] = <<g>>]
    PROVE  OInv' /\ AllOnward /\ SessionsStay /\ \A x \in Orders : Placed(x) => PaidKept(x)
<1>1. <<g>> \in Seq(Sessions) /\ Len(<<g>>) = 1
  OBVIOUS
<1>2. Sound(r) /\ Len(r.payments) = 1 /\ Len(r.payments) \in Nat \ {0}
  BY DEF Placement
<1>3. OInv' /\ order'[o] = r /\ \A x \in Orders \ {o} : order'[x] = order[x]
  BY <1>1, <1>2, WriteBoth DEF Write
<1>4. Shown(o)'
  BY <1>3 DEF Shown, Placement
<1>5. ASSUME NEW x \in Orders \ {o}, Placed(x) PROVE Onward(order[x], order'[x])
  BY <1>3, <1>5, PlacedRow, Same
<1>6. ASSUME NEW x \in Orders \ {o}, ~Placed(x) PROVE ~Placed(x)'
  BY <1>3, <1>6 DEF Placed
<1>7. AllOnward
  BY <1>4, <1>5, <1>6 DEF AllOnward
<1>8. gateway[o] = << >>
  <2>1. NotPlaced \notin Records
    BY RecordColumns DEF NotPlaced, OrderStatuses
  <2> QED
    BY <2>1 DEF OInv, OrderInv, Placed, Sound
<1>9. SessionsStay
  BY <1>8, GatewayStays
<1> QED
  BY <1>3, <1>7, <1>9 DEF PaidKept

\* The rows that the four checkouts write.
LEMMA PlacementRows ==
    ASSUME NEW o \in Orders, NEW p \in Payments, NEW c \in BOOLEAN,
           NEW t \in {"pending_payment", "awaiting_payment", "confirmed_by_shop"},
           NEW v \in {"pending_payment", "cod_pending"},
           t = "awaiting_payment" => o \in Counter,
           v = "cod_pending" => p.provider = "cod" /\ t = "confirmed_by_shop",
           o \in Cod => p.provider = "cod"
    PROVE  Placement(o, [status |-> t, payment_status |-> v, hold |-> "active",
                         cart |-> c, payments |-> <<p>>])
<1> DEFINE r == [status |-> t, payment_status |-> v, hold |-> "active", cart |-> c,
                 payments |-> <<p>>]
<1>1. <<p>> \in Seq(Payments) /\ Len(<<p>>) = 1 /\ <<p>>[1] = p
  OBVIOUS
<1>2. /\ r.payments = <<p>> /\ r.payment_status = v /\ r.status = t
      /\ r.status \notin Closed /\ r.hold = "active"
  BY DEF Closed
<1>3. r \in Records
  BY <1>1 DEF Records, OrderStatuses, PaymentStatuses, HoldStatuses
<1> HIDE DEF r
<1>4. Sound(r)
  BY <1>1, <1>2, <1>3 DEF Sound, Successful, Sold, Confirmed
<1>5. Placement(o, r)
  BY <1>1, <1>2, <1>4 DEF Placement, is_cod
<1> QED
  BY <1>5 DEF r

\* Checkout at the shop or with Zarinpal.
LEMMA CheckoutOnward ==
    ASSUME OInv, NEW o \in Orders, process_checkout(o) \/ process_counter_checkout(o)
    PROVE  OInv' /\ AllOnward /\ SessionsStay /\ \A x \in Orders : Placed(x) => PaidKept(x)
<1>1. CASE process_checkout(o)
  <2> DEFINE p == NewPayment("zarinpal", "processing")
  <2>1. p \in Payments /\ "open" \in Sessions
    BY NewPayments DEF Sessions, ZarinpalSessions
  <2>2. /\ ~Placed(o) /\ gateway' = [gateway EXCEPT ![o] = <<"open">>]
        /\ Write(o, [status |-> "pending_payment", payment_status |-> "pending_payment",
                     hold |-> "active", cart |-> TRUE, payments |-> <<p>>])
    <3>1. request_payment(<< >>) = <<"open">>
      BY DEF request_payment
    <3> QED
      BY <1>1, <3>1 DEF process_checkout
  <2> HIDE DEF p
  <2>3. Placement(o, [status |-> "pending_payment", payment_status |-> "pending_payment",
                      hold |-> "active", cart |-> TRUE, payments |-> <<p>>])
    BY <1>1, <2>1, OrdersAssumption, PlacementRows DEF process_checkout
  <2> QED
    BY <2>1, <2>2, <2>3, PlaceOne
<1>2. CASE process_counter_checkout(o)
  <2> DEFINE p == NewPayment("counter", "pending")
  <2>1. p \in Payments /\ "none" \in Sessions
    BY NewPayments DEF Sessions
  <2>2. /\ ~Placed(o) /\ o \in Counter /\ gateway' = [gateway EXCEPT ![o] = <<"none">>]
        /\ Write(o, [status |-> "awaiting_payment", payment_status |-> "pending_payment",
                     hold |-> "active", cart |-> FALSE, payments |-> <<p>>])
    BY <1>2 DEF process_counter_checkout
  <2> HIDE DEF p
  <2>3. Placement(o, [status |-> "awaiting_payment", payment_status |-> "pending_payment",
                      hold |-> "active", cart |-> FALSE, payments |-> <<p>>])
    BY <2>1, <2>2, OrdersAssumption, PlacementRows
  <2> QED
    BY <2>1, <2>2, <2>3, PlaceOne
<1> QED
  BY <1>1, <1>2

\* Every step of OrderPayments.
LEMMA BaseStep ==
    ASSUME DeskInv, Next
    PROVE  /\ OInv' /\ AllOnward /\ SessionsStay
           /\ \A o \in Orders : Placed(o) => StaffCancel(o) \/ PaidKept(o)
<1>1. OInv
  BY DEF DeskInv
<1>2. OInv' /\ \A o \in Orders : Placed(o) => StaffCancel(o) \/ PaidKept(o)
  BY <1>1, OrderStep
<1>3. CASE Checkout
  BY <1>1, <1>2, <1>3, CheckoutOnward DEF Checkout
<1>4. ASSUME NEW o \in Orders, Placed(o), OnPlaced(o) PROVE AllOnward /\ SessionsStay
  BY <1>1, <1>4, CallbackOnward, TimeOnward, StaffOnward DEF OnPlaced
<1> QED
  BY <1>2, <1>3, <1>4 DEF Next

-----------------------------------------------------------------------------
(* The steps of Stripe, of the screens and of cash on delivery. *)

\* A paid order is cancelled by staff only.
PaidAll == \A o \in Orders : Placed(o) => StaffCancel(o) \/ PaidKept(o)

\* What a step leaves of the orders.
OrdersMove == OInv' /\ AllOnward /\ SessionsStay /\ PaidAll

\* One handler on one order, which does not cancel it while it is paid.
LEMMA HandlerStep ==
    ASSUME OInv, NEW o \in Orders, Placed(o), NEW r, Write(o, r), UNCHANGED gateway,
           SoundAfter(order[o], r), Onward(order[o], r),
           order[o].payment_status \in Successful /\ order[o].status # "cancelled"
               => r.status # "cancelled"
    PROVE  OrdersMove
<1>1. OInv' /\ order'[o] = r /\ \A x \in Orders \ {o} : order'[x] = order[x]
  BY WriteOrder
<1>2. AllOnward
  BY <1>1, OneOnward DEF Moves
<1>3. SessionsStay
  BY GatewayStays
<1> QED
  BY <1>1, <1>2, <1>3 DEF OrdersMove, PaidAll, PaidKept

\* One payment more, with its session.
LEMMA PaymentStep ==
    ASSUME OInv, NEW o \in Orders, Placed(o), NEW r, Write(o, r), NEW v \in Sessions,
           gateway' = [gateway EXCEPT ![o] = Append(@, v)],
           Sound(r), Len(r.payments) = Len(order[o].payments) + 1,
           r.status = order[o].status, Onward(order[o], r)
    PROVE  OrdersMove
<1> DEFINE g == Append(gateway[o], v)
<1>1. /\ gateway[o] \in Seq(Sessions) /\ Len(gateway[o]) = Len(order[o].payments)
      /\ Len(order[o].payments) \in Nat \ {0}
  BY PlacedFacts
<1>2. g \in Seq(Sessions) /\ Len(g) = Len(r.payments)
  BY <1>1
<1>3. gateway' = [gateway EXCEPT ![o] = g] /\ order' = [order EXCEPT ![o] = r]
  BY DEF Write
<1> HIDE DEF g
<1>4. Len(r.payments) \in Nat \ {0}
  BY <1>1
<1>5. OInv' /\ order'[o] = r /\ \A x \in Orders \ {o} : order'[x] = order[x]
  BY <1>2, <1>3, <1>4, WriteBoth
<1>6. AllOnward /\ SessionsStay
  BY <1>5, OneOnward, GatewayStays DEF Moves
<1> QED
  BY <1>5, <1>6 DEF OrdersMove, PaidAll, PaidKept

\* Only the gateway moves.
LEMMA GatewayStep ==
    ASSUME OInv, NEW o \in Orders, Placed(o), UNCHANGED order,
           \/ UNCHANGED gateway
           \/ \E i \in DOMAIN gateway[o] : \E v \in Sessions :
                  gateway' = [gateway EXCEPT ![o][i] = v]
    PROVE  OrdersMove
<1>1. AllOnward /\ SessionsStay
  BY NoneOnward, GatewayStays
<1>2. OInv'
  <2>1. CASE UNCHANGED gateway
    BY <2>1 DEF OInv, OrderInv, Sound, Succeeded
  <2>2. CASE \E i \in DOMAIN gateway[o] : \E v \in Sessions :
                  gateway' = [gateway EXCEPT ![o][i] = v]
    BY <2>2, SessionOnly
  <2> QED
    BY <2>1, <2>2
<1> QED
  BY <1>1, <1>2 DEF OrdersMove, PaidAll, PaidKept

\* Stripe: its checkout, its sessions and its events.
LEMMA StripeStep ==
    ASSUME DeskInv, NEW o \in Stripe, UNCHANGED tablet,
           process_stripe_checkout(o) \/ (Placed(o) /\ AtStripe(o))
    PROVE  OrdersMove /\ DeskInv'
<1>1. OInv /\ o \in Orders /\ (tablet' = Idle \/ (tablet' \in Requests /\ Placed(tablet'.order)))
  BY DEF DeskInv, Orders
<1>2. CASE process_stripe_checkout(o)
  <2> DEFINE p == NewPayment("stripe", "processing")
  <2>1. p \in Payments /\ "session" \in Sessions
    BY NewPayments DEF Sessions, StripeSessions
  <2>2. /\ ~Placed(o) /\ gateway' = [gateway EXCEPT ![o] = <<"session">>] /\ UNCHANGED webhooks
        /\ Write(o, [status |-> "pending_payment", payment_status |-> "pending_payment",
                     hold |-> "active", cart |-> TRUE, payments |-> <<p>>])
    BY <1>2 DEF process_stripe_checkout
  <2> HIDE DEF p
  <2>3. Placement(o, [status |-> "pending_payment", payment_status |-> "pending_payment",
                      hold |-> "active", cart |-> TRUE, payments |-> <<p>>])
    BY <1>1, <2>1, OrdersAssumption, PlacementRows
  <2>4. OrdersMove
    BY <1>1, <2>1, <2>2, <2>3, PlaceOne DEF OrdersMove, PaidAll
  <2> QED
    BY <1>1, <2>2, <2>4, DeskKept DEF OrdersMove, DeskInv
<1>3. CASE Placed(o) /\ create_stripe_checkout(o)
  <2>1. PICK s \in initiate_stripe(order[o]) : Write(o, s)
    BY <1>3 DEF create_stripe_checkout
  <2>2. /\ gateway' = [gateway EXCEPT ![o] = Append(@, "session")] /\ UNCHANGED webhooks
        /\ "session" \in Sessions
    BY <1>3 DEF create_stripe_checkout, Sessions, StripeSessions
  <2>3. Sound(order[o]) /\ Row(order[o])
    BY <1>1, <1>3, PlacedFacts, PlacedRow
  <2>4. /\ Sound(s) /\ Len(s.payments) = Len(order[o].payments) + 1
        /\ s.status = order[o].status /\ Onward(order[o], s)
    BY <2>1, <2>3, InitiateOtherSound, InitiateOnward
  <2>5. OrdersMove
    BY <1>1, <1>3, <2>1, <2>2, <2>4, PaymentStep
  <2> QED
    BY <1>1, <2>2, <2>5, DeskKept DEF OrdersMove, DeskInv
<1>4. ASSUME NEW i \in DOMAIN gateway[o], Placed(o),
             \/ CustomerPaysStripe(o, i) \/ SessionExpires(o, i) \/ ChargeRefunded(o, i)
             \/ AttemptFails(o, i)
      PROVE  OrdersMove /\ DeskInv'
  <2>1. PICK kind \in {"completed", "expired", "payment_failed", "refunded"} : Emit(o, kind, i)
    BY <1>4 DEF CustomerPaysStripe, SessionExpires, ChargeRefunded, AttemptFails, SessionStep
  <2>2. /\ UNCHANGED order
        /\ \/ UNCHANGED gateway
           \/ \E v \in {"completed", "expired", "returned"} :
                  gateway' = [gateway EXCEPT ![o][i] = v]
    BY <1>4 DEF CustomerPaysStripe, SessionExpires, ChargeRefunded, AttemptFails, SessionStep
  <2>3. {"completed", "expired", "returned"} \subseteq Sessions
    BY DEF Sessions, StripeSessions
  <2>4. OrdersMove
    BY <1>1, <1>4, <2>2, <2>3, GatewayStep
  <2>5. i \in Nat \ {0}
    BY <1>1, <1>4, PlacedFacts
  <2> DEFINE e == [kind |-> kind, payment |-> i]
  <2>6. e \in Events /\ e.payment = i
    BY <2>1, <2>5 DEF Events
  <2>7. webhooks' = [webhooks EXCEPT ![o] = @ \cup {e}]
    BY <2>1 DEF Emit
  <2> HIDE DEF e
  <2>8. /\ webhooks' \in [Orders -> SUBSET Events]
        /\ \A x \in Orders : \A f \in webhooks'[x] :
               f \in webhooks[x] \/ f.payment \in DOMAIN gateway[x]
    BY <1>1, <2>6, <2>7 DEF DeskInv
  <2> QED
    BY <1>1, <2>4, <2>8, DeskKept DEF OrdersMove
<1>5. ASSUME NEW e \in webhooks[o], Placed(o), stripe_webhook(o, e)
      PROVE  OrdersMove /\ DeskInv'
  <2> DEFINE r == order[o]
  <2>1. PICK s \in handle_webhook_event(r, e) : Write(o, s)
    BY <1>5 DEF stripe_webhook
  <2>2. e \in Events /\ e.payment \in DOMAIN r.payments /\ Sound(r) /\ Row(r)
        /\ Len(r.payments) \in Nat \ {0}
    BY <1>1, <1>5, PlacedFacts, PlacedRow DEF DeskInv
  <2>3. Onward(r, s)
    BY <2>1, <2>2, WebhookOnward
  <2>4. /\ SoundAfter(r, s)
        /\ r.payment_status \in Successful /\ r.status # "cancelled" => s.status # "cancelled"
    <3>1. handle_webhook_event(r, e) \in
              {mark_paid(r, e.payment), mark_cancelled(r, e.payment), mark_failed(r, e.payment),
               process_refund(r)}
      BY <2>2, EventHandlers
    <3> QED
      BY <2>1, <2>2, <3>1, MarkPaidSound, CancelledSound, MarkFailedSound, RefundSound
  <2>5. OrdersMove
    BY <1>1, <1>5, <2>1, <2>3, <2>4, HandlerStep DEF stripe_webhook
  <2>6. webhooks' = [webhooks EXCEPT ![o] = @ \ {e}]
    BY <1>5 DEF stripe_webhook
  <2>7. /\ webhooks' \in [Orders -> SUBSET Events]
        /\ \A x \in Orders : \A f \in webhooks'[x] : f \in webhooks[x]
    BY <1>1, <2>6 DEF DeskInv
  <2> QED
    BY <1>1, <2>5, <2>7, DeskKept DEF OrdersMove
<1> QED
  BY <1>2, <1>3, <1>4, <1>5 DEF AtStripe

\* A request that commits one of R, all of which are sound and onward.
LEMMA TransactStep ==
    ASSUME DeskInv, tablet # Idle, NEW R, NEW next,
           next = Idle \/ (next \in Requests /\ next.order = tablet.order),
           \A s \in R : /\ SoundAfter(order[tablet.order], s) /\ Onward(order[tablet.order], s)
                        /\ s.status # "cancelled",
           Transact(R, next)
    PROVE  OrdersMove /\ DeskInv'
<1> DEFINE o == tablet.order
<1>1. OInv /\ o \in Orders /\ Placed(o) /\ UNCHANGED <<gateway, webhooks>>
  BY DEF DeskInv, Requests, Transact
<1>2. CASE R = {}
  <2>1. UNCHANGED order /\ tablet' = Idle
    BY <1>2 DEF Transact
  <2>2. OrdersMove
    BY <1>1, <2>1, GatewayStep
  <2> QED
    BY <1>1, <2>1, <2>2, DeskKept DEF OrdersMove, DeskInv
<1>3. CASE R # {}
  <2>1. PICK s \in R : Write(o, s) /\ tablet' = next
    BY <1>3 DEF Transact
  <2>2. OrdersMove
    BY <1>1, <2>1, HandlerStep
  <2> QED
    BY <1>1, <2>1, <2>2, DeskKept DEF OrdersMove, DeskInv
<1> QED
  BY <1>2, <1>3

\* A screen is opened, or its worker dies.
LEMMA LoadStep ==
    ASSUME DeskInv,
           \/ \E o \in Orders : \/ \E a \in {"start_preparing", "mark_ready", "complete"} :
                                       kitchen_action(o, a)
                                \/ pickup_action(o)
           \/ WorkerDies
    PROVE  OrdersMove /\ DeskInv'
<1>1. OInv /\ UNCHANGED <<order, gateway, webhooks>>
  BY DEF DeskInv, kitchen_action, pickup_action, Load, WorkerDies
<1>2. tablet' = Idle \/ (tablet' \in Requests /\ Placed(tablet'.order))
  <2>1. CASE WorkerDies
    BY <2>1 DEF WorkerDies
  <2>2. ASSUME NEW o \in Orders, NEW a \in {"start_preparing", "mark_ready", "complete"},
               Placed(o), Load(o, a)
        PROVE  tablet' \in Requests /\ Placed(tablet'.order)
    <3>1. order[o].status \in OrderStatuses
      BY <1>1, <2>2, PlacedRow, RecordColumns DEF Row
    <3> QED
      BY <2>2, <3>1 DEF Load, Requests
  <2>3. ASSUME NEW o \in Orders, o \in kitchen_order_queryset \cup pickup_screen_queryset
        PROVE  Placed(o)
    BY <2>3 DEF kitchen_order_queryset, pickup_screen_queryset, With
  <2> QED
    BY <2>1, <2>2, <2>3 DEF kitchen_action, pickup_action
<1>3. OrdersMove
  <2>1. AllOnward /\ SessionsStay
    BY <1>1, NoneOnward DEF SessionsStay
  <2>2. OInv' /\ PaidAll
    BY <1>1 DEF OInv, OrderInv, Sound, Succeeded, PaidAll, PaidKept
  <2> QED
    BY <2>1, <2>2 DEF OrdersMove
<1> QED
  BY <1>1, <1>2, <1>3, DeskKept DEF OrdersMove, DeskInv

\* The handlers behind the buttons.
LEMMA ButtonStep ==
    ASSUME DeskInv, start_preparing \/ mark_ready \/ complete_pickup_order \/ HandOver
    PROVE  OrdersMove /\ DeskInv'
<1> DEFINE o == tablet.order
           r == order[o]
<1>1. tablet # Idle
  BY DEF start_preparing, mark_ready, complete_pickup_order, HandOver, Idle
<1>2. /\ OInv /\ o \in Orders /\ Placed(o) /\ tablet \in Requests
  BY <1>1 DEF DeskInv, Requests
<1>3. Sound(r) /\ Row(r)
  BY <1>2, PlacedFacts, PlacedRow
<1>4. ASSUME NEW v \in {"confirmed_by_shop", "preparing", "packaged", "out_for_delivery"},
             NEW s \in transition(r, v)
      PROVE  SoundAfter(r, s) /\ Onward(r, s) /\ s.status # "cancelled"
  <2>1. v \in Confirmed /\ v # "cancelled"
    BY DEF Confirmed
  <2> QED
    BY <1>3, <1>4, <2>1, AdvanceSound, AdvanceOnward
<1>5. ASSUME NEW s \in complete_delivery(r)
      PROVE  SoundAfter(r, s) /\ Onward(r, s) /\ s.status # "cancelled"
  BY <1>3, <1>5, DeliverySound, DeliveryOnward
<1>6. ASSUME NEW R, NEW next, Transact(R, next),
             \/ R = {} \/ R = complete_delivery(r)
             \/ \E v \in {"confirmed_by_shop", "preparing", "packaged", "out_for_delivery"} :
                    R = transition(r, v),
             next = Idle \/ (next \in Requests /\ next.order = o)
      PROVE  OrdersMove /\ DeskInv'
  BY <1>1, <1>4, <1>5, <1>6, TransactStep
<1>7. /\ [tablet EXCEPT !.seen = "confirmed_by_shop"] \in Requests
      /\ [tablet EXCEPT !.seen = "confirmed_by_shop"].order = o
      /\ [tablet EXCEPT !.action = "hand_over"] \in Requests
      /\ [tablet EXCEPT !.action = "hand_over"].order = o
  BY <1>2 DEF Requests, OrderStatuses
<1>8. CASE start_preparing
  <2>1. \/ Transact(transition(r, "confirmed_by_shop"),
                    [tablet EXCEPT !.seen = "confirmed_by_shop"])
        \/ Transact(transition(r, "preparing"), Idle)
        \/ Transact({}, Idle)
    BY <1>8 DEF start_preparing
  <2> QED
    BY <1>6, <1>7, <2>1
<1>9. CASE mark_ready
  BY <1>6, <1>9 DEF mark_ready
<1>10. CASE complete_pickup_order
  <2>1. \/ Transact(transition(r, "out_for_delivery"), [tablet EXCEPT !.action = "hand_over"])
        \/ Transact(complete_delivery(r), Idle)
    BY <1>10 DEF complete_pickup_order
  <2> QED
    BY <1>6, <1>7, <2>1
<1>11. CASE HandOver
  BY <1>6, <1>11 DEF HandOver
<1> QED
  BY <1>8, <1>9, <1>10, <1>11

\* The latest payment of a row whose first payment is in cash: there is one.
LEMMA LatestCodExists ==
    ASSUME NEW r, Row(r), is_cod(r)
    PROVE  LatestCod(r) \in DOMAIN r.payments
<1> DEFINE I == {i \in DOMAIN r.payments : r.payments[i].provider = "cod"}
           n == Len(r.payments)
           D == {n - i : i \in I}
<1>1. r.payments \in Seq(Payments) /\ DOMAIN r.payments = 1 .. n /\ n \in Nat
  BY RecordColumns DEF Row
<1>2. I \subseteq 1 .. n /\ 1 \in I
  BY <1>1 DEF is_cod, Row
<1> HIDE DEF I, n
<1>3. D \subseteq Nat /\ D # {}
  BY <1>1, <1>2
<1>4. IsWellFoundedOn(OpToRel(<, Nat), Nat)
  BY NatLessThanWellFounded
<1>5. PICK d \in D : \A e \in D : <<e, d>> \notin OpToRel(<, Nat)
  BY <1>3, <1>4, WFMin
<1>6. \A e \in D : ~ (e < d)
  BY <1>3, <1>5 DEF OpToRel
<1>7. PICK i \in I : d = n - i
  OBVIOUS
<1>8. ASSUME NEW j \in I PROVE j <= i
  <2>1. n - j \in D /\ n - j \in Nat /\ i \in Nat /\ j \in Nat
    BY <1>1, <1>2
  <2>2. ~ (n - j < n - i)
    BY <1>6, <1>7, <2>1
  <2> QED
    BY <1>1, <2>1, <2>2
<1>9. LatestCod(r) \in I
  <2>1. LatestCod(r) = CHOOSE k \in I : \A j \in I : j <= k
    BY DEF LatestCod, I
  <2> QED
    BY <1>7, <1>8, <2>1
<1> QED
  BY <1>9 DEF I

\* Cash on delivery.
LEMMA CashStep ==
    ASSUME DeskInv, NEW o \in Cod,
           \/ finalize_cod_placement(o)
           \/ Placed(o) /\ (StaffConfirmsCod(o) \/ StaffInitiatesCod(o) \/ StaffReceivesCash(o))
    PROVE  OrdersMove /\ DeskInv'
<1> DEFINE r == order[o]
<1>1. /\ OInv /\ o \in Orders /\ UNCHANGED <<webhooks, tablet>>
  BY DEF DeskInv, Orders, finalize_cod_placement, StaffConfirmsCod, StaffInitiatesCod,
         StaffReceivesCash
<1>2. OrdersMove => DeskInv'
  BY <1>1, DeskKept DEF OrdersMove, DeskInv
<1>3. CASE finalize_cod_placement(o)
  <2> DEFINE p == NewPayment("cod", "pending")
  <2>1. p \in Payments /\ p.provider = "cod" /\ "none" \in Sessions
    BY NewPayments DEF Sessions
  <2>2. /\ ~Placed(o) /\ gateway' = [gateway EXCEPT ![o] = <<"none">>]
        /\ Write(o, [status |-> "confirmed_by_shop", payment_status |-> "cod_pending",
                     hold |-> "active", cart |-> FALSE, payments |-> <<p>>])
    BY <1>3 DEF finalize_cod_placement
  <2> HIDE DEF p
  <2>3. Placement(o, [status |-> "confirmed_by_shop", payment_status |-> "cod_pending",
                      hold |-> "active", cart |-> FALSE, payments |-> <<p>>])
    BY <1>1, <2>1, PlacementRows
  <2>4. OrdersMove
    BY <1>1, <2>1, <2>2, <2>3, PlaceOne DEF OrdersMove, PaidAll
  <2> QED
    BY <1>2, <2>4
<1>4. ASSUME Placed(o) PROVE Sound(r) /\ Row(r) /\ is_cod(r)
  BY <1>1, <1>4, PlacedFacts, PlacedRow DEF DeskInv, Shown
<1>5. CASE Placed(o) /\ StaffConfirmsCod(o)
  <2>1. PICK s \in confirm_cod(r) : Write(o, s)
    BY <1>5 DEF StaffConfirmsCod
  <2>2. SoundAfter(r, s) /\ s.status = r.status /\ Onward(r, s)
    BY <1>4, <1>5, <2>1, ConfirmCodSound, ConfirmCodOnward
  <2> QED
    BY <1>1, <1>2, <1>5, <2>1, <2>2, HandlerStep DEF StaffConfirmsCod
<1>6. CASE Placed(o) /\ StaffInitiatesCod(o)
  <2>1. PICK s \in initiate_cod(r) : Write(o, s)
    BY <1>6 DEF StaffInitiatesCod
  <2>2. /\ gateway' = [gateway EXCEPT ![o] = Append(@, "none")]
        /\ "none" \in Sessions
    BY <1>6 DEF StaffInitiatesCod, Sessions
  <2>3. /\ Sound(s) /\ Len(s.payments) = Len(r.payments) + 1 /\ s.status = r.status
        /\ Onward(r, s)
    BY <1>4, <1>6, <2>1, InitiateOtherSound, InitiateOnward
  <2> QED
    BY <1>1, <1>2, <1>6, <2>1, <2>2, <2>3, PaymentStep
<1>7. CASE Placed(o) /\ StaffReceivesCash(o)
  <2>1. PICK s \in mark_cod_cash_received(r, LatestCod(r)) : Write(o, s)
    BY <1>7 DEF StaffReceivesCash
  <2>2. LatestCod(r) \in DOMAIN r.payments
    BY <1>4, <1>7, LatestCodExists
  <2>3. SoundAfter(r, s) /\ s.status = "delivered" /\ Onward(r, s)
    BY <1>4, <1>7, <2>1, <2>2, CashSound, CashReceivedOnward
  <2> QED
    BY <1>1, <1>2, <1>7, <2>1, <2>3, HandlerStep DEF StaffReceivesCash
<1> QED
  BY <1>3, <1>5, <1>6, <1>7

-----------------------------------------------------------------------------
(* Theorems. *)

\* No order, no event, no request.
LEMMA DeskInitial == DeskInit => DeskInv
<1> SUFFICES ASSUME DeskInit PROVE DeskInv
  OBVIOUS
<1>1. OInv
  BY InitialOrders DEF DeskInit, StripeInit
<1>2. \A o \in Orders : ~Placed(o)
  BY DEF DeskInit, StripeInit, Init, Placed
<1> QED
  BY <1>1, <1>2 DEF DeskInit, StripeInit, DeskInv

\* DeskInv is inductive, and every step moves every order onward.
LEMMA DeskStep ==
    ASSUME DeskInv, [DeskNext]_deskVars
    PROVE  DeskInv' /\ AllOnward /\ PaidAll
<1>1. CASE UNCHANGED deskVars
  <2>1. UNCHANGED <<order, gateway, webhooks, tablet>>
    BY <1>1 DEF deskVars
  <2>2. AllOnward
    BY <2>1, NoneOnward DEF DeskInv
  <2>3. PaidAll
    BY <2>1 DEF PaidAll, PaidKept
  <2>4. OInv' /\ SessionsStay
    BY <2>1 DEF DeskInv, OInv, OrderInv, Sound, Succeeded, SessionsStay
  <2> QED
    BY <2>1, <2>2, <2>3, <2>4, DeskKept DEF DeskInv
<1>2. CASE Next /\ UNCHANGED <<webhooks, tablet>>
  <2>1. OInv' /\ AllOnward /\ SessionsStay /\ PaidAll
    BY <1>2, BaseStep DEF PaidAll
  <2> QED
    BY <1>2, <2>1, DeskKept DEF DeskInv
<1>3. CASE \E o \in Stripe : /\ process_stripe_checkout(o) \/ (Placed(o) /\ AtStripe(o))
                            /\ UNCHANGED tablet
  BY <1>3, StripeStep DEF OrdersMove
<1>4. CASE Buttons
  BY <1>4, LoadStep, ButtonStep DEF Buttons, OrdersMove
<1>5. CASE CashOnDelivery
  BY <1>5, CashStep DEF CashOnDelivery, OrdersMove
<1> QED
  BY <1>1, <1>2, <1>3, <1>4, <1>5 DEF DeskNext, StripeNext

\* The invariant of orders, sessions, events and requests holds in every behaviour.
THEOREM DeskInvariant == DeskSpec => []DeskInv
<1>1. DeskInv /\ [DeskNext]_deskVars => DeskInv'
  BY DeskStep
<1> QED
  BY DeskInitial, <1>1, PTL DEF DeskSpec

\* Orders, sessions, Stripe's events and the requests of the screens keep their types:
\* an event is about a payment of its order, and a session belongs to a payment.
THEOREM DeskTypeCorrect == DeskSpec => []DeskTypeOK
<1>1. DeskInv => DeskTypeOK
  BY DEF DeskInv, OInv, OrderInv, Sound, DeskTypeOK, WebhooksTypeOK, TypeOK
<1> QED
  BY DeskInvariant, <1>1, PTL

\* With Stripe, legacy orders and the screens too, no order counts as paid without a
\* payment that succeeded.
THEOREM DeskPaidOnRecord == DeskSpec => []PaidOnRecord
<1>1. DeskInv => PaidOnRecord
  BY DEF DeskInv, OInv, OrderInv, PaidOnRecord, Placed, PaymentsOf, Sound, Succeeded
<1> QED
  BY DeskInvariant, <1>1, PTL

\* No event of Stripe and no screen lets a closed order hold stock.
THEOREM DeskClosedReleased == DeskSpec => []ClosedHoldsNothing
<1>1. DeskInv => ClosedHoldsNothing
  BY DEF DeskInv, OInv, OrderInv, ClosedHoldsNothing, Placed, Sound
<1> QED
  BY DeskInvariant, <1>1, PTL

\* A paid order is cancelled by staff only, whatever Stripe reports.
THEOREM DeskPaidKept == DeskSpec => OnlyStaffCancelPaid
<1>1. DeskInv /\ [DeskNext]_deskVars =>
         [\A o \in Orders :
            (/\ Placed(o) /\ order[o].payment_status \in Successful /\ order[o].status # "cancelled"
             /\ order'[o].status = "cancelled") => StaffCancel(o)]_vars
  BY DeskStep DEF PaidAll, PaidKept
<1> QED
  BY DeskInvariant, <1>1, PTL DEF DeskSpec, OnlyStaffCancelPaid

-----------------------------------------------------------------------------
(* The limited lists. *)

\* The rows of S with fewer than n others before them, in an order in which Before[x] are
\* those before x: a row that is not among them is kept out by at least n rows.
LEMMA Window ==
    ASSUME NEW S, IsFiniteSet(S), NEW Before \in [S -> SUBSET S], NEW n \in Nat,
           \A x \in S : \A y \in Before[x] : Before[y] \subseteq Before[x] /\ y \notin Before[y],
           NEW o \in S, Cardinality(Before[o]) >= n
    PROVE  Cardinality({x \in S : Cardinality(Before[x]) < n}) >= n
<1> DEFINE W == {x \in S : Cardinality(Before[x]) < n}
           D == {Cardinality(Before[x]) : x \in S \ W}
<1>1. \A x \in S : IsFiniteSet(Before[x]) /\ Cardinality(Before[x]) \in Nat
  BY FS_Subset, FS_CardinalityType
<1>2. D \subseteq Nat /\ D # {}
  BY <1>1
<1>3. PICK d \in D : \A e \in D : <<e, d>> \notin OpToRel(<, Nat)
  BY <1>2, NatLessThanWellFounded, WFMin
<1>4. \A e \in D : ~ (e < d)
  BY <1>2, <1>3 DEF OpToRel
<1>5. PICK x \in S \ W : d = Cardinality(Before[x])
  OBVIOUS
<1>6. ASSUME NEW y \in Before[x] PROVE y \in W
  <2>1. y \in S /\ Before[y] \subseteq Before[x] /\ Before[y] # Before[x]
    BY <1>5
  <2>2. /\ Cardinality(Before[y]) <= Cardinality(Before[x])
        /\ Cardinality(Before[y]) # Cardinality(Before[x])
    BY <1>1, <1>5, <2>1, FS_Subset
  <2>3. Cardinality(Before[y]) \in Nat /\ Cardinality(Before[x]) \in Nat
    BY <1>1, <1>5, <2>1
  <2>4. Cardinality(Before[y]) < d
    BY <1>5, <2>2, <2>3
  <2>5. y \notin W => Cardinality(Before[y]) \in D
    BY <2>1
  <2> HIDE DEF D, W
  <2> QED
    BY <1>4, <2>4, <2>5
<1>7. Before[x] \subseteq W
  BY <1>6
<1>8. IsFiniteSet(W) /\ Cardinality(W) \in Nat
  BY FS_Subset, FS_CardinalityType
<1>9. Cardinality(Before[x]) <= Cardinality(W)
  BY <1>7, <1>8, FS_Subset
<1>10. Cardinality(Before[x]) >= n
  BY <1>1, <1>5
<1> QED
  BY <1>1, <1>5, <1>8, <1>9, <1>10

\* Of a list of the oldest or the newest orders: what is not on it is kept out by others.
LEMMA Listed ==
    ASSUME NEW S \in SUBSET Orders, NEW n \in Nat, NEW o \in S
    PROVE  ShownOrFull(o, First(S, n), n) /\ ShownOrFull(o, Latest(S, n), n)
<1>1. IsFiniteSet(S) /\ \A q \in S : created_at[q] \in Nat
  BY CreatedAssumption, FS_Subset
<1>2. ShownOrFull(o, First(S, n), n)
  <2> DEFINE Older == [x \in S |-> {q \in S : created_at[q] < created_at[x]}]
  <2>1. Older \in [S -> SUBSET S]
    OBVIOUS
  <2>2. \A x \in S : \A y \in Older[x] : Older[y] \subseteq Older[x] /\ y \notin Older[y]
    BY <1>1
  <2>3. First(S, n) = {x \in S : Cardinality(Older[x]) < n}
    BY DEF First
  <2>4. Cardinality(Older[o]) \in Nat
    BY <1>1, <2>1, FS_Subset, FS_CardinalityType
  <2> HIDE DEF Older
  <2>5. Cardinality(Older[o]) >= n => Cardinality(First(S, n)) >= n
    BY <1>1, <2>1, <2>2, <2>3, Window
  <2> QED
    BY <2>3, <2>4, <2>5 DEF ShownOrFull
<1>3. ShownOrFull(o, Latest(S, n), n)
  <2> DEFINE Newer == [x \in S |-> {q \in S : created_at[q] > created_at[x]}]
  <2>1. Newer \in [S -> SUBSET S]
    OBVIOUS
  <2>2. \A x \in S : \A y \in Newer[x] : Newer[y] \subseteq Newer[x] /\ y \notin Newer[y]
    BY <1>1
  <2>3. Latest(S, n) = {x \in S : Cardinality(Newer[x]) < n}
    BY DEF Latest
  <2>4. Cardinality(Newer[o]) \in Nat
    BY <1>1, <2>1, FS_Subset, FS_CardinalityType
  <2> HIDE DEF Newer
  <2>5. Cardinality(Newer[o]) >= n => Cardinality(Latest(S, n)) >= n
    BY <1>1, <2>1, <2>2, <2>3, Window
  <2> QED
    BY <2>3, <2>4, <2>5 DEF ShownOrFull
<1> QED
  BY <1>2, <1>3

\* An order that counts as sold is on the screens that have no limit, and every order that
\* is not over is on its lists unless they are full of others.
THEOREM SoldOrdersOnScreen == DeskSpec => []SoldIsOnScreen
<1>1. ASSUME DeskInv, NEW o \in Orders, Placed(o)
      PROVE  /\ Shown(o) /\ order[o] \in Records
             /\ order[o].payment_status \in Sold => order[o].status \in Confirmed \cup Closed
  BY <1>1, PlacedFacts DEF DeskInv, Sound
<1>2. ASSUME DeskInv PROVE SoldIsOnScreen
  <2>1. ASSUME NEW o \in Orders
        PROVE  o \in kitchen_order_queryset
                   <=> \E c \in DOMAIN KitchenColumns : o \in partition_kitchen_orders(c)
    BY DEF KitchenColumns, partition_kitchen_orders, kitchen_order_queryset, With,
           KITCHEN_QUEUE_STATUSES
  <2>2. ASSUME NEW o \in Orders, Placed(o), o \in paid_orders_for_shift(localdate[o])
        PROVE  \/ o \in kitchen_order_queryset
               \/ order[o].status \in {"out_for_delivery", "delivered"}
    BY <1>1, <1>2, <2>2, RecordColumns
       DEF paid_orders_for_shift, kitchen_order_queryset, With, KITCHEN_PAYMENT_STATUSES,
           KITCHEN_QUEUE_STATUSES, Sold, Confirmed
  <2>3. ASSUME NEW o \in Orders, Placed(o)
        PROVE  /\ order_is_kitchen_relevant(o) <=> o \in kitchen_order_queryset
               /\ order_is_pickup_relevant(o) <=> o \in pickup_screen_queryset
    BY <2>3 DEF order_is_kitchen_relevant, kitchen_order_queryset, order_is_pickup_relevant,
                pickup_screen_queryset, With, KITCHEN_QUEUE_STATUSES, KITCHEN_PAYMENT_STATUSES
  <2>4. ASSUME NEW o \in Orders, NEW d, o \in ready_pickup(d) \cup pending_pickup(d)
        PROVE  o \in kitchen_order_queryset
    BY <2>4 DEF ready_pickup, pending_pickup, First, With, kitchen_order_queryset,
                KITCHEN_QUEUE_STATUSES
  <2>5. partition_kitchen_orders("ready") = pickup_screen_queryset
    BY DEF partition_kitchen_orders, KitchenColumns, kitchen_order_queryset,
           pickup_screen_queryset, With, KITCHEN_PAYMENT_STATUSES, KITCHEN_QUEUE_STATUSES
  <2>6. legacy_cod_to_collect \subseteq active_orders
    BY <1>1, <1>2 DEF legacy_cod_to_collect, Oldest, First, active_orders, With, Shown, Closed,
                      PaymentStatuses
  <2>7. ASSUME NEW o \in active_orders
        PROVE  /\ order[o].status \in DOMAIN ops_lists
               /\ ShownOrFull(o, ops_lists[order[o].status], DASHBOARD_LIMIT)
               /\ order[o].status # "out_for_delivery" =>
                      \E list \in {new_orders, awaiting_counter_payment, orders_in_preparation} :
                          ShownOrFull(o, list, DASHBOARD_LIMIT)
    <3>1. /\ o \in Orders /\ Placed(o) /\ order[o].payment_status \in PaymentStatuses
          /\ order[o].status \in OrderStatuses \ {"delivered", "cancelled", "refunded"}
      BY DEF active_orders, With
    <3>2. /\ Shown(o)
          /\ order[o].payment_status \in Sold => order[o].status \in Confirmed \cup Closed
      BY <1>1, <1>2, <3>1
    <3>3. ASSUME NEW S \in SUBSET Orders, o \in S PROVE ShownOrFull(o, Oldest(S), DASHBOARD_LIMIT)
      BY <3>3, Listed, ListsAssumption DEF Oldest
    <3>4. CASE order[o].status = "awaiting_payment"
      <4>1. o \in Counter /\ order[o].payment_status # "paid"
        BY <3>2, <3>4 DEF Shown, Sold, Confirmed, Closed
      <4>2. o \in Counter \cap With({"awaiting_payment"}, PaymentStatuses \ {"paid"})
        BY <3>1, <3>4, <4>1 DEF With
      <4>3. ShownOrFull(o, awaiting_counter_payment, DASHBOARD_LIMIT)
        BY <3>3, <4>2 DEF awaiting_counter_payment, With
      <4> QED
        BY <3>4, <4>3 DEF ops_lists
    <3>5. ASSUME NEW c \in {"pending_payment", "confirmed_by_shop", "preparing", "packaged",
                            "out_for_delivery"}, order[o].status = c
          PROVE  ShownOrFull(o, ops_lists[c], DASHBOARD_LIMIT) /\ c \in DOMAIN ops_lists
      <4>1. o \in With({c}, PaymentStatuses) /\ With({c}, PaymentStatuses) \in SUBSET Orders
        BY <3>1, <3>5 DEF With
      <4>2. ops_lists[c] = Oldest(With({c}, PaymentStatuses)) /\ c \in DOMAIN ops_lists
        BY DEF ops_lists
      <4> QED
        BY <3>3, <4>1, <4>2
    <3>6. ASSUME order[o].status \in {"pending_payment", "confirmed_by_shop"}
          PROVE  ShownOrFull(o, new_orders, DASHBOARD_LIMIT)
      BY <3>1, <3>3, <3>6 DEF new_orders, With
    <3>7. ASSUME order[o].status \in {"preparing", "packaged"}
          PROVE  ShownOrFull(o, orders_in_preparation, DASHBOARD_LIMIT)
      BY <3>1, <3>3, <3>7 DEF orders_in_preparation, With
    <3>8. order[o].status \in {"pending_payment", "awaiting_payment", "confirmed_by_shop",
                               "preparing", "packaged", "out_for_delivery"}
      BY <3>1, <3>2 DEF Shown, OrderStatuses
    <3> QED
      BY <3>4, <3>5, <3>6, <3>7, <3>8
  <2>8. ASSUME NEW o \in active_orders
        PROVE  ShownOrFull(o, recent_active_orders, DEFAULT_LOOKUP_LIMIT)
    BY Listed, ListsAssumption DEF recent_active_orders, active_orders, With
  <2> QED
    BY <2>1, <2>2, <2>3, <2>4, <2>5, <2>6, <2>7, <2>8 DEF SoldIsOnScreen
<1> QED
  BY DeskInvariant, <1>2, PTL

\* What the customer sees never goes back, and a closed order stays closed.
THEOREM OrdersGoOnward == DeskSpec => NeverBackwards
<1>1. DeskInv /\ [DeskNext]_deskVars =>
         [\A o \in Orders : Placed(o) =>
             IF order[o].status \in Closed THEN order'[o].status = order[o].status
             ELSE order'[o].status \in Closed \/ Progress(order'[o].status) >= Progress(order[o].status)
         ]_deskVars
  BY DeskStep DEF AllOnward, Onward, Later
<1> QED
  BY DeskInvariant, <1>1, PTL DEF DeskSpec, NeverBackwards

=============================================================================
