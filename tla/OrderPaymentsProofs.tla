------------------------ MODULE OrderPaymentsProofs ------------------------
(***************************************************************************)
(* Proofs about orders and their payments, for any number of orders and    *)
(* payment attempts.  A handler maps an order's record to the records it   *)
(* may leave; each is shown to preserve the soundness of a record, and the *)
(* invariants of the specification follow order by order.                  *)
(***************************************************************************)
EXTENDS OrderPayments, TLAPS

-----------------------------------------------------------------------------
(* The inductive invariant of one order. *)

Succeeded(r) == {i \in DOMAIN r.payments : r.payments[i].status = "succeeded"}

\* The payment statuses of a sold order: paid, or to be paid on delivery.
Sold == {"paid", "cod_pending", "cod_confirmed", "cash_received"}

\* A paid order has a payment that succeeded, a sold order is confirmed or closed,
\* and a closed order holds no stock.
Sound(r) ==
    /\ r \in Records
    /\ r.payment_status \in Successful => Succeeded(r) # {}
    /\ r.payment_status \in Sold => r.status \in Confirmed \cup Closed
    /\ r.status \in Closed => r.hold \notin {"active", "confirmed"}

\* s is a sound record with as many payments as r.
SoundAfter(r, s) == Sound(s) /\ Len(s.payments) = Len(r.payments)

-----------------------------------------------------------------------------
(* Writing one column of a record. *)

\* A record is its columns.
LEMMA RecordColumns ==
    ASSUME NEW r \in Records
    PROVE  /\ r.status \in OrderStatuses /\ r.payment_status \in PaymentStatuses
           /\ r.hold \in HoldStatuses /\ r.cart \in BOOLEAN
           /\ r.payments \in Seq(Payments)
  BY DEF Records

\* order.save(update_fields=...) changes the column it names and no other.
LEMMA StatusColumn ==
    ASSUME NEW r \in Records, NEW v \in OrderStatuses
    PROVE  LET s == [r EXCEPT !.status = v]
           IN  /\ s \in Records /\ s.status = v
               /\ s.payment_status = r.payment_status /\ s.hold = r.hold
               /\ s.cart = r.cart /\ s.payments = r.payments
  BY DEF Records

\* The same for the column payment_status.
LEMMA PaymentStatusColumn ==
    ASSUME NEW r \in Records, NEW v \in PaymentStatuses
    PROVE  LET s == [r EXCEPT !.payment_status = v]
           IN  /\ s \in Records /\ s.status = r.status
               /\ s.payment_status = v /\ s.hold = r.hold
               /\ s.cart = r.cart /\ s.payments = r.payments
  BY DEF Records

\* The same for the column hold.
LEMMA HoldColumn ==
    ASSUME NEW r \in Records, NEW v \in HoldStatuses
    PROVE  LET s == [r EXCEPT !.hold = v]
           IN  /\ s \in Records /\ s.status = r.status
               /\ s.payment_status = r.payment_status /\ s.hold = v
               /\ s.cart = r.cart /\ s.payments = r.payments
  BY DEF Records

\* The same for the column cart.
LEMMA CartColumn ==
    ASSUME NEW r \in Records, NEW v \in BOOLEAN
    PROVE  LET s == [r EXCEPT !.cart = v]
           IN  /\ s \in Records /\ s.status = r.status
               /\ s.payment_status = r.payment_status /\ s.hold = r.hold
               /\ s.cart = v /\ s.payments = r.payments
  BY DEF Records

\* The same for the column payments.
LEMMA PaymentsColumn ==
    ASSUME NEW r \in Records, NEW v \in Seq(Payments)
    PROVE  LET s == [r EXCEPT !.payments = v]
           IN  /\ s \in Records /\ s.status = r.status
               /\ s.payment_status = r.payment_status /\ s.hold = r.hold
               /\ s.cart = r.cart /\ s.payments = v
  BY DEF Records

\* A payment's status column.
LEMMA PaymentUpdate ==
    ASSUME NEW r \in Records, NEW i \in DOMAIN r.payments,
           NEW s \in {"pending", "processing", "succeeded", "failed", "cancelled", "refunded"}
    PROVE  LET t == SetPayment(r, i, s)
           IN  /\ t \in Records /\ t.status = r.status
               /\ t.payment_status = r.payment_status
               /\ t.hold = r.hold /\ t.cart = r.cart
               /\ DOMAIN t.payments = DOMAIN r.payments
               /\ Len(t.payments) = Len(r.payments)
               /\ t.payments[i].status = s
               /\ t.payments[i].provider = r.payments[i].provider
               /\ \A j \in DOMAIN r.payments \ {i} : t.payments[j] = r.payments[j]
<1> DEFINE p == r.payments
           q == [p EXCEPT ![i].status = s]
<1>1. p \in Seq(Payments)
  BY DEF Records
<1>2. p[i] \in Payments
  BY <1>1
<1>3. [p[i] EXCEPT !.status = s] \in Payments
  BY <1>2 DEF Payments
<1>4. q[i] = [p[i] EXCEPT !.status = s]
  BY <1>1
<1>5. q[i].status = s /\ q[i].provider = p[i].provider
  BY <1>2, <1>4 DEF Payments
<1>6. /\ q \in Seq(Payments) /\ DOMAIN q = DOMAIN p /\ Len(q) = Len(p)
      /\ \A j \in DOMAIN p \ {i} : q[j] = p[j]
  BY <1>1, <1>3
<1>7. SetPayment(r, i, s) = [r EXCEPT !.payments = q]
  BY DEF SetPayment
<1> HIDE DEF q
<1>8. LET t == SetPayment(r, i, s)
      IN  /\ t \in Records /\ t.status = r.status /\ t.payment_status = r.payment_status
          /\ t.hold = r.hold /\ t.cart = r.cart /\ t.payments = q
  BY <1>6, <1>7, PaymentsColumn
<1> QED
  BY <1>5, <1>6, <1>8

-----------------------------------------------------------------------------
(* What the soundness of a record depends on. *)

\* Without a change of its payments, a record stays sound if "paid" still rests
\* on a payment and a closed order still holds nothing.
LEMMA SoundColumns ==
    ASSUME NEW r, Sound(r), NEW s \in Records, s.payments = r.payments,
           s.payment_status \in Successful => Succeeded(r) # {},
           s.payment_status \in Sold => s.status \in Confirmed \cup Closed,
           s.status \in Closed => s.hold \notin {"active", "confirmed"}
    PROVE  SoundAfter(r, s)
<1>1. Succeeded(s) = Succeeded(r)
  BY DEF Succeeded
<1> QED
  BY <1>1 DEF Sound, SoundAfter

\* Flags of the payments do not matter, only their providers and statuses.
LEMMA SoundFlags ==
    ASSUME NEW r, Sound(r), NEW q \in Seq(Payments), Len(q) = Len(r.payments),
           DOMAIN q = DOMAIN r.payments,
           \A j \in DOMAIN q : /\ q[j].status = r.payments[j].status
                               /\ q[j].provider = r.payments[j].provider
    PROVE  LET s == [r EXCEPT !.payments = q]
           IN  SoundAfter(r, s) /\ s.status = r.status /\ s.payment_status = r.payment_status
<1>1. r \in Records
  BY DEF Sound
<1>2. LET s == [r EXCEPT !.payments = q]
      IN  /\ s \in Records /\ s.status = r.status /\ s.payment_status = r.payment_status
          /\ s.hold = r.hold /\ s.payments = q
  BY <1>1, PaymentsColumn
<1>3. LET s == [r EXCEPT !.payments = q]
      IN  Succeeded(s) = Succeeded(r)
  BY <1>2 DEF Succeeded
<1> QED
  BY <1>2, <1>3 DEF Sound, SoundAfter

\* Settling a payment that has not succeeded: a success is never lost.
LEMMA SettlePayment ==
    ASSUME NEW r, Sound(r), NEW i \in DOMAIN r.payments,
           NEW s \in {"succeeded", "failed", "cancelled"}, r.payments[i].status # "succeeded"
    PROVE  LET t == SetPayment(r, i, s)
           IN  /\ SoundAfter(r, t) /\ i \in DOMAIN t.payments
               /\ t.status = r.status /\ t.payment_status = r.payment_status
               /\ t.payments[i].status = s
               /\ s = "succeeded" => Succeeded(t) # {}
<1> DEFINE t == SetPayment(r, i, s)
<1>1. r \in Records
  BY DEF Sound
<1>2. /\ t \in Records /\ t.status = r.status
      /\ t.payment_status = r.payment_status
      /\ t.hold = r.hold /\ t.cart = r.cart
      /\ DOMAIN t.payments = DOMAIN r.payments
      /\ Len(t.payments) = Len(r.payments)
      /\ t.payments[i].status = s
      /\ t.payments[i].provider = r.payments[i].provider
      /\ \A j \in DOMAIN r.payments \ {i} : t.payments[j] = r.payments[j]
  BY <1>1, PaymentUpdate
<1> HIDE DEF t
<1>3. Succeeded(r) \subseteq Succeeded(t)
  BY <1>2 DEF Succeeded
<1>4. s = "succeeded" => i \in Succeeded(t)
  BY <1>2 DEF Succeeded
<1>5. SoundAfter(r, t)
  BY <1>2, <1>3 DEF Sound, SoundAfter
<1> QED
  BY <1>2, <1>4, <1>5 DEF t

-----------------------------------------------------------------------------
(* The state machine and the stock of an order. *)

\* transition writes the status column, and only along ALLOWED_TRANSITIONS.
LEMMA TransitionEffect ==
    ASSUME NEW r \in Records, NEW v \in OrderStatuses, NEW s \in transition(r, v)
    PROVE  /\ s \in Records /\ s.status = v /\ can_transition(r.status, v)
           /\ s.payment_status = r.payment_status /\ s.hold = r.hold
           /\ s.cart = r.cart /\ s.payments = r.payments
<1>1. can_transition(r.status, v) /\ s = [r EXCEPT !.status = v]
  BY Zenon DEF transition
<1>2. LET t == [r EXCEPT !.status = v]
      IN  /\ t \in Records /\ t.status = v /\ t.payment_status = r.payment_status
          /\ t.hold = r.hold /\ t.cart = r.cart /\ t.payments = r.payments
  BY StatusColumn
<1> QED
  BY <1>1, <1>2

\* A closed order has no way out.
LEMMA ClosedIsFinal ==
    ASSUME NEW v \in OrderStatuses, NEW u \in Closed, can_transition(u, v)
    PROVE  v = u
  BY DEF can_transition, ALLOWED_TRANSITIONS, Closed

\* The stock service changes the hold and nothing else of the order.
LEMMA StockEffect ==
    ASSUME NEW r \in Records, NEW s \in {ConfirmStock(r), ReleaseStock(r), FulfillStock(r)}
    PROVE  /\ s \in Records /\ s.status = r.status /\ s.payment_status = r.payment_status
           /\ s.cart = r.cart /\ s.payments = r.payments
           /\ s = ReleaseStock(r) => s.hold \notin {"active", "confirmed"}
<1>1. \A v \in HoldStatuses :
         LET t == [r EXCEPT !.hold = v]
         IN  /\ t \in Records /\ t.status = r.status /\ t.payment_status = r.payment_status
             /\ t.hold = v /\ t.cart = r.cart /\ t.payments = r.payments
  BY HoldColumn
<1>2. r.hold \in HoldStatuses
  BY RecordColumns
<1>3. PICK v \in HoldStatuses :
         /\ s = [r EXCEPT !.hold = v]
         /\ s = ReleaseStock(r) => v \notin {"active", "confirmed"}
  <2>1. CASE s = ConfirmStock(r) /\ s # ReleaseStock(r)
    BY <1>2, <2>1 DEF ConfirmStock, HoldStatuses
  <2>2. CASE s = FulfillStock(r) /\ s # ReleaseStock(r)
    BY <1>2, <2>2 DEF FulfillStock, HoldStatuses
  <2>3. CASE s = ReleaseStock(r)
    BY <1>2, <2>3 DEF ReleaseStock, HoldStatuses
  <2> QED
    BY <2>1, <2>2, <2>3
<1> QED
  BY <1>1, <1>3

-----------------------------------------------------------------------------
(* The handlers of OrderService. *)

\* Releasing the stock, saving a payment_status that is not "paid" and closing
\* the order, as every way of ending an order does.
LEMMA CloseOrder ==
    ASSUME NEW r, Sound(r), NEW v \in PaymentStatuses, NEW c \in Closed,
           v \in Successful => r.payment_status \in Successful,
           NEW s \in transition([ReleaseStock(r) EXCEPT !.payment_status = v], c)
    PROVE  SoundAfter(r, s)
<1> DEFINE t == [ReleaseStock(r) EXCEPT !.payment_status = v]
<1>1. r \in Records /\ c \in OrderStatuses
  BY DEF Sound, Closed, OrderStatuses
<1>2. /\ ReleaseStock(r) \in Records /\ ReleaseStock(r).payments = r.payments
      /\ ReleaseStock(r).hold \notin {"active", "confirmed"}
  BY <1>1, StockEffect
<1>3. /\ t \in Records /\ t.payment_status = v /\ t.hold = ReleaseStock(r).hold
      /\ t.payments = ReleaseStock(r).payments
  BY <1>2, PaymentStatusColumn
<1> HIDE DEF t
<1>4. /\ s \in Records /\ s.payment_status = t.payment_status /\ s.hold = t.hold
      /\ s.payments = t.payments /\ s.status = c
  BY <1>1, <1>3, TransitionEffect DEF t
<1>5. s.payment_status \in Successful => Succeeded(r) # {}
  BY <1>3, <1>4 DEF Sound
<1> QED
  BY <1>2, <1>3, <1>4, <1>5, SoundColumns

\* A handler that changes nothing.
LEMMA NoChange == ASSUME NEW r, Sound(r) PROVE SoundAfter(r, r)
  BY DEF SoundAfter

\* OrderService.cancel.
LEMMA CancelSound ==
    ASSUME NEW r, Sound(r), NEW s \in cancel(r)
    PROVE  SoundAfter(r, s)
<1>1. CASE r.status \in Closed
  BY <1>1, NoChange DEF cancel
<1>2. CASE r.status \notin Closed
  <2> DEFINE v == IF r.payment_status = "pending_payment" THEN "failed" ELSE r.payment_status
  <2>1. r \in Records
    BY DEF Sound
  <2>2. v \in PaymentStatuses /\ (v \in Successful => r.payment_status \in Successful)
    BY <2>1, RecordColumns DEF PaymentStatuses, Successful
  <2>3. ReleaseStock(r).payment_status = r.payment_status
    BY <2>1, StockEffect
  <2>4. s \in transition([ReleaseStock(r) EXCEPT !.payment_status = v], "cancelled")
    BY <1>2, <2>3 DEF cancel
  <2> QED
    BY <2>2, <2>4, CloseOrder DEF Closed
<1> QED
  BY <1>1, <1>2

\* OrderService.mark_payment_failed; a paid order is left as it is.
LEMMA FailedSound ==
    ASSUME NEW r, Sound(r), NEW s \in mark_payment_failed(r)
    PROVE  SoundAfter(r, s) /\ (r.payment_status \in Successful => s = r)
<1>1. CASE r.payment_status \in Successful \/ r.status \in Closed
  <2>1. s = r
    BY <1>1, Zenon DEF mark_payment_failed
  <2> QED
    BY <2>1, NoChange
<1>2. CASE ~(r.payment_status \in Successful \/ r.status \in Closed)
  <2>1. s \in transition([ReleaseStock(r) EXCEPT !.payment_status = "failed"], "cancelled")
    BY <1>2, Zenon DEF mark_payment_failed
  <2>2. "failed" \in PaymentStatuses /\ "failed" \notin Successful /\ "cancelled" \in Closed
    BY DEF PaymentStatuses, Successful, Closed
  <2>3. SoundAfter(r, s)
    BY <2>1, <2>2, CloseOrder
  <2> QED
    BY <1>2, <2>3
<1> QED
  BY <1>1, <1>2

\* OrderService.request_refund.
LEMMA RequestRefundSound ==
    ASSUME NEW r, Sound(r), NEW s \in request_refund(r)
    PROVE  SoundAfter(r, s) /\ s.status = r.status
<1>1. r \in Records /\ "refund_requested" \in PaymentStatuses
  BY DEF Sound, PaymentStatuses
<1>2. s = [r EXCEPT !.payment_status = "refund_requested"]
  BY Zenon DEF request_refund
<1>3. LET t == [r EXCEPT !.payment_status = "refund_requested"]
      IN  /\ t \in Records /\ t.status = r.status /\ t.payment_status = "refund_requested"
          /\ t.hold = r.hold /\ t.payments = r.payments
  BY <1>1, PaymentStatusColumn
<1> QED
  BY <1>2, <1>3, SoundColumns DEF Sound, Successful, Sold

\* OrderService.complete_delivery.
LEMMA DeliverySound ==
    ASSUME NEW r, Sound(r), NEW s \in complete_delivery(r)
    PROVE  SoundAfter(r, s) /\ s.status = "delivered"
<1>1. /\ r \in Records /\ "delivered" \in OrderStatuses /\ "delivered" \notin Closed
      /\ "delivered" \in Confirmed
  BY DEF Sound, OrderStatuses, Closed, Confirmed
<1>2. /\ FulfillStock(r) \in Records /\ FulfillStock(r).payments = r.payments
      /\ FulfillStock(r).payment_status = r.payment_status
  BY <1>1, StockEffect
<1>3. s \in transition(FulfillStock(r), "delivered") \/ s \in transition(r, "delivered")
  BY Zenon DEF complete_delivery
<1>4. /\ s \in Records /\ s.status = "delivered"
      /\ s.payment_status = r.payment_status /\ s.payments = r.payments
  BY <1>1, <1>2, <1>3, TransitionEffect
<1> QED
  BY <1>1, <1>4, SoundColumns DEF Sound

\* The staff actions that move an order along: no such move closes or opens it.
LEMMA AdvanceSound ==
    ASSUME NEW r, Sound(r), NEW v \in Confirmed, NEW s \in transition(r, v)
    PROVE  SoundAfter(r, s) /\ s.status = v
<1>1. r \in Records /\ v \in OrderStatuses \ Closed
  BY DEF Sound, Confirmed, OrderStatuses, Closed
<1>2. /\ s \in Records /\ s.status = v
      /\ s.payment_status = r.payment_status /\ s.payments = r.payments
  BY <1>1, TransitionEffect
<1> QED
  BY <1>1, <1>2, SoundColumns DEF Sound

\* Saving payment_status = PAID, confirming the stock and moving on to v: sound
\* when a payment has succeeded.
LEMMA PayOrder ==
    ASSUME NEW r, Sound(r), Succeeded(r) # {}, NEW v \in Confirmed,
           NEW s \in transition(ConfirmStock([r EXCEPT !.payment_status = "paid"]), v)
    PROVE  SoundAfter(r, s) /\ Succeeded(s) # {} /\ s.status = v
<1> DEFINE t == [r EXCEPT !.payment_status = "paid"]
<1>1. /\ r \in Records /\ "paid" \in PaymentStatuses
      /\ v \in OrderStatuses /\ v \notin Closed
  BY DEF Sound, PaymentStatuses, Confirmed, OrderStatuses, Closed
<1>2. t \in Records /\ t.payments = r.payments
  BY <1>1, PaymentStatusColumn
<1> HIDE DEF t
<1>3. ConfirmStock(t) \in Records /\ ConfirmStock(t).payments = r.payments
  BY <1>2, StockEffect
<1>4. s \in Records /\ s.status = v /\ s.payments = r.payments
  BY <1>1, <1>3, TransitionEffect DEF t
<1>5. Succeeded(s) = Succeeded(r)
  BY <1>4 DEF Succeeded
<1> QED
  BY <1>1, <1>4, <1>5, SoundColumns

\* OrderService.finalize_counter_payment, once a payment has succeeded.
LEMMA CounterSound ==
    ASSUME NEW r, Sound(r), Succeeded(r) # {}, NEW s \in finalize_counter_payment(r)
    PROVE  SoundAfter(r, s) /\ s.status \in {r.status, "preparing"}
<1>1. CASE r.payment_status = "paid" /\ r.status = "preparing"
  BY <1>1, NoChange DEF finalize_counter_payment
<1>2. CASE ~(r.payment_status = "paid" /\ r.status = "preparing")
  <2>1. s \in transition(ConfirmStock([r EXCEPT !.payment_status = "paid"]), "preparing")
    BY <1>2, Zenon DEF finalize_counter_payment
  <2>2. "preparing" \in Confirmed
    BY DEF Confirmed
  <2> QED
    BY <2>1, <2>2, PayOrder
<1> QED
  BY <1>1, <1>2

\* OrderService.finalize_online_payment, once a payment has succeeded.
LEMMA OnlineSound ==
    ASSUME NEW r, Sound(r), Succeeded(r) # {}, NEW s \in finalize_online_payment(r)
    PROVE  SoundAfter(r, s)
<1>1. CASE r.payment_status = "paid" /\ r.status \in Confirmed
  BY <1>1, NoChange DEF finalize_online_payment
<1>2. CASE ~(r.payment_status = "paid" /\ r.status \in Confirmed)
  <2>1. PICK t \in transition(ConfirmStock([r EXCEPT !.payment_status = "paid"]), "paid") :
           s \in transition(t, "confirmed_by_shop")
    BY <1>2, Zenon DEF finalize_online_payment
  <2>2. "paid" \in Confirmed /\ "confirmed_by_shop" \in Confirmed
    BY DEF Confirmed
  <2>3. SoundAfter(r, t)
    BY <2>1, <2>2, PayOrder
  <2>4. SoundAfter(t, s)
    BY <2>1, <2>2, <2>3, AdvanceSound DEF SoundAfter
  <2> QED
    BY <2>3, <2>4 DEF SoundAfter
<1> QED
  BY <1>1, <1>2

\* OrderService.process_refund: the latest payment may lose its success, and the
\* order is "paid" no longer.
LEMMA RefundSound ==
    ASSUME NEW r, Sound(r), Len(r.payments) \in Nat \ {0}, NEW s \in process_refund(r)
    PROVE  SoundAfter(r, s) /\ s.status \in {r.status, "refunded"}
<1>1. CASE r.status = "refunded"
  BY <1>1, NoChange DEF process_refund
<1>2. CASE r.status # "refunded"
  <2> DEFINE n == Len(r.payments)
             t == RefundLatest(r)
             u == [ReleaseStock(t) EXCEPT !.payment_status = "refund_processed"]
  <2>1. r \in Records /\ r.payments \in Seq(Payments) /\ n \in DOMAIN r.payments
    BY RecordColumns DEF Sound
  <2>2. t \in Records /\ Len(t.payments) = Len(r.payments)
    <3>1. CASE r.payments[n].status = "succeeded"
      <4>1. t = SetPayment(r, n, "refunded")
        BY <3>1 DEF RefundLatest
      <4> HIDE DEF t, n
      <4>2. LET x == SetPayment(r, n, "refunded")
            IN  x \in Records /\ Len(x.payments) = Len(r.payments)
        BY <2>1, PaymentUpdate
      <4> QED
        BY <4>1, <4>2
    <3>2. CASE r.payments[n].status # "succeeded"
      BY <2>1, <3>2 DEF RefundLatest
    <3> QED
      BY <3>1, <3>2
  <2> HIDE DEF t
  <2>3. /\ ReleaseStock(t) \in Records /\ ReleaseStock(t).payments = t.payments
        /\ ReleaseStock(t).hold \notin {"active", "confirmed"}
    BY <2>2, StockEffect
  <2>4. "refund_processed" \in PaymentStatuses /\ "refunded" \in OrderStatuses
    BY DEF PaymentStatuses, OrderStatuses
  <2>5. /\ u \in Records /\ u.payment_status = "refund_processed"
        /\ u.hold = ReleaseStock(t).hold /\ u.payments = t.payments
    BY <2>3, <2>4, PaymentStatusColumn
  <2>6. s \in transition(u, "refunded")
    BY <1>2, Zenon DEF process_refund, t
  <2> HIDE DEF u
  <2>7. /\ s \in Records /\ s.status = "refunded" /\ s.payment_status = "refund_processed"
        /\ s.hold = u.hold /\ s.payments = t.payments
    BY <2>4, <2>5, <2>6, TransitionEffect
  <2> QED
    BY <2>2, <2>3, <2>5, <2>7 DEF Sound, SoundAfter, Successful, Sold
<1> QED
  BY <1>1, <1>2

-----------------------------------------------------------------------------
(* The handlers of PaymentService and of the callback. *)

\* A second payment of an order that is paid already: the record says "succeeded".
LEMMA SucceedSound ==
    ASSUME NEW r, Sound(r), NEW i \in DOMAIN r.payments
    PROVE  LET t == SetPayment(r, i, "succeeded")
           IN  /\ SoundAfter(r, t) /\ Succeeded(t) # {} /\ i \in DOMAIN t.payments
               /\ t.status = r.status
<1>1. r \in Records /\ r.payments \in Seq(Payments)
  BY RecordColumns DEF Sound
<1>2. CASE r.payments[i].status # "succeeded"
  BY <1>2, SettlePayment
<1>3. CASE r.payments[i].status = "succeeded"
  <2> DEFINE t == SetPayment(r, i, "succeeded")
  <2>1. /\ t \in Records /\ t.status = r.status
        /\ t.payment_status = r.payment_status
        /\ t.hold = r.hold
        /\ DOMAIN t.payments = DOMAIN r.payments
        /\ Len(t.payments) = Len(r.payments)
        /\ t.payments[i].status = "succeeded"
        /\ \A j \in DOMAIN r.payments \ {i} : t.payments[j] = r.payments[j]
    BY <1>1, PaymentUpdate
  <2> HIDE DEF t
  <2>2. i \in Succeeded(t)
    BY <2>1 DEF Succeeded
  <2>3. SoundAfter(r, t) /\ Succeeded(t) # {} /\ i \in DOMAIN t.payments
        /\ t.status = r.status
    BY <2>1, <2>2 DEF Sound, SoundAfter
  <2> QED
    BY <2>3 DEF t
<1> QED
  BY <1>2, <1>3

\* PaymentService.mark_paid.
LEMMA MarkPaidSound ==
    ASSUME NEW r, Sound(r), NEW i \in DOMAIN r.payments, NEW s \in mark_paid(r, i)
    PROVE  SoundAfter(r, s) /\ (r.payment_status \in Successful => s.status = r.status)
<1> DEFINE t == SetPayment(r, i, "succeeded")
<1>1. SoundAfter(r, t) /\ Succeeded(t) # {} /\ t.status = r.status
  BY SucceedSound
<1> HIDE DEF t
<1>2. \/ s = r \/ s = t
      \/ r.payment_status \notin Successful /\ s \in finalize_online_payment(t)
  BY Zenon DEF mark_paid, t
<1>3. s \in finalize_online_payment(t) => SoundAfter(t, s)
  BY <1>1, OnlineSound DEF SoundAfter
<1> QED
  BY <1>1, <1>2, <1>3, NoChange DEF SoundAfter

\* PaymentService.mark_failed; a paid order is left as it is.
LEMMA MarkFailedSound ==
    ASSUME NEW r, Sound(r), NEW i \in DOMAIN r.payments, NEW s \in mark_failed(r, i)
    PROVE  SoundAfter(r, s) /\ (r.payment_status \in Successful => s = r)
<1>1. CASE r.payments[i].status = "succeeded" \/ r.payment_status \in Successful
  BY <1>1, NoChange DEF mark_failed
<1>2. CASE ~(r.payments[i].status = "succeeded" \/ r.payment_status \in Successful)
  <2> DEFINE t == SetPayment(r, i, "failed")
  <2>1. SoundAfter(r, t)
    BY <1>2, SettlePayment
  <2>2. s \in mark_payment_failed(t)
    BY <1>2, Zenon DEF mark_failed
  <2> HIDE DEF t
  <2>3. SoundAfter(t, s)
    BY <2>1, <2>2, FailedSound DEF SoundAfter
  <2> QED
    BY <1>2, <2>1, <2>3 DEF SoundAfter
<1> QED
  BY <1>1, <1>2

\* PaymentService._mark_counter_payment_received.
LEMMA CounterReceivedSound ==
    ASSUME NEW r, Sound(r), NEW i \in DOMAIN r.payments,
           NEW s \in mark_counter_payment_received(r, i)
    PROVE  SoundAfter(r, s) /\ s.status \in {r.status, "preparing"}
<1> DEFINE t == SetPayment(r, i, "succeeded")
<1>1. SoundAfter(r, t) /\ Succeeded(t) # {} /\ t.status = r.status
  BY SucceedSound
<1> HIDE DEF t
<1>2. CASE r.payments[i].status # "succeeded"
  <2>1. s \in finalize_counter_payment(t)
    BY <1>2, Zenon DEF mark_counter_payment_received, t
  <2>2. SoundAfter(t, s) /\ s.status \in {t.status, "preparing"}
    BY <1>1, <2>1, CounterSound DEF SoundAfter
  <2> QED
    BY <1>1, <2>2 DEF SoundAfter
<1>3. CASE r.payments[i].status = "succeeded"
  <2>1. Succeeded(r) # {}
    BY <1>3 DEF Succeeded
  <2>2. s = r \/ s \in finalize_counter_payment(r)
    BY <1>3, Zenon DEF mark_counter_payment_received
  <2> QED
    BY <2>1, <2>2, CounterSound, NoChange
<1> QED
  BY <1>2, <1>3

\* The PaymentEvent is marked as processed.
LEMMA ProcessedSound ==
    ASSUME NEW r, Sound(r), NEW i \in DOMAIN r.payments
    PROVE  LET s == [r EXCEPT !.payments[i].processed = TRUE]
           IN  SoundAfter(r, s) /\ s.status = r.status /\ s.payment_status = r.payment_status
<1> DEFINE p == r.payments
           q == [p EXCEPT ![i].processed = TRUE]
<1>1. p \in Seq(Payments)
  BY RecordColumns DEF Sound
<1>2. p[i] \in Payments
  BY <1>1
<1>3. [p[i] EXCEPT !.processed = TRUE] \in Payments
  BY <1>2 DEF Payments
<1>4. q[i] = [p[i] EXCEPT !.processed = TRUE]
  BY <1>1
<1>5. q[i].status = p[i].status /\ q[i].provider = p[i].provider
  BY <1>2, <1>4 DEF Payments
<1>6. /\ q \in Seq(Payments) /\ DOMAIN q = DOMAIN p /\ Len(q) = Len(p)
      /\ \A j \in DOMAIN p \ {i} : q[j] = p[j]
  BY <1>1, <1>3
<1>7. [r EXCEPT !.payments[i].processed = TRUE] = [r EXCEPT !.payments = q]
  OBVIOUS
<1> HIDE DEF q
<1>8. \A j \in DOMAIN q : q[j].status = p[j].status /\ q[j].provider = p[j].provider
  BY <1>5, <1>6
<1>9. LET s == [r EXCEPT !.payments = q]
      IN  SoundAfter(r, s) /\ s.status = r.status /\ s.payment_status = r.payment_status
  BY <1>6, <1>8, SoundFlags
<1> QED
  BY <1>7, <1>9

\* The same for a payment that grows older than the timeout.
LEMMA StaleSound ==
    ASSUME NEW r, Sound(r), NEW i \in DOMAIN r.payments
    PROVE  LET s == [r EXCEPT !.payments[i].stale = TRUE]
           IN  SoundAfter(r, s) /\ s.status = r.status
<1> DEFINE p == r.payments
           q == [p EXCEPT ![i].stale = TRUE]
<1>1. p \in Seq(Payments)
  BY RecordColumns DEF Sound
<1>2. p[i] \in Payments
  BY <1>1
<1>3. [p[i] EXCEPT !.stale = TRUE] \in Payments
  BY <1>2 DEF Payments
<1>4. q[i] = [p[i] EXCEPT !.stale = TRUE]
  BY <1>1
<1>5. q[i].status = p[i].status /\ q[i].provider = p[i].provider
  BY <1>2, <1>4 DEF Payments
<1>6. /\ q \in Seq(Payments) /\ DOMAIN q = DOMAIN p /\ Len(q) = Len(p)
      /\ \A j \in DOMAIN p \ {i} : q[j] = p[j]
  BY <1>1, <1>3
<1>7. [r EXCEPT !.payments[i].stale = TRUE] = [r EXCEPT !.payments = q]
  OBVIOUS
<1> HIDE DEF q
<1>8. \A j \in DOMAIN q : q[j].status = p[j].status /\ q[j].provider = p[j].provider
  BY <1>5, <1>6
<1>9. LET s == [r EXCEPT !.payments = q]
      IN  SoundAfter(r, s) /\ s.status = r.status
  BY <1>6, <1>8, SoundFlags
<1> QED
  BY <1>7, <1>9

\* PaymentService.initiate_online: it reuses a payment that is still processed or, when
\* there is none, appends one.
LEMMA InitiateSound ==
    ASSUME NEW r, Sound(r), NEW s \in initiate_online(r)
    PROVE  /\ Sound(s)
           /\ s # r => Len(s.payments) = Len(r.payments) + 1
           /\ s.status = r.status
<1>1. r \in Records /\ r.payments \in Seq(Payments)
  BY RecordColumns DEF Sound
<1>2. CASE s = r
  BY <1>2
<1>3. CASE s # r
  <2> DEFINE x == NewPayment("zarinpal", "processing")
             q == Append(r.payments, x)
             t == [r EXCEPT !.payments = q]
  <2>1. s = [t EXCEPT !.payment_status = "pending_payment"]
    BY <1>3 DEF initiate_online
  <2>2. x \in Payments
    BY DEF NewPayment, Payments
  <2>3. /\ q \in Seq(Payments) /\ Len(q) = Len(r.payments) + 1
        /\ DOMAIN q = DOMAIN r.payments \cup {Len(r.payments) + 1}
        /\ \A j \in DOMAIN r.payments : q[j] = r.payments[j]
    BY <1>1, <2>2
  <2> HIDE DEF x, q
  <2>4. /\ t \in Records /\ t.status = r.status /\ t.hold = r.hold /\ t.payments = q
    BY <1>1, <2>3, PaymentsColumn
  <2> HIDE DEF t
  <2>5. /\ s \in Records /\ s.status = r.status /\ s.hold = r.hold /\ s.payments = q
        /\ s.payment_status = "pending_payment"
    <3>1. "pending_payment" \in PaymentStatuses
      BY DEF PaymentStatuses
    <3>2. LET u == [t EXCEPT !.payment_status = "pending_payment"]
          IN  /\ u \in Records /\ u.status = t.status /\ u.hold = t.hold
              /\ u.payments = t.payments /\ u.payment_status = "pending_payment"
      BY <2>4, <3>1, PaymentStatusColumn
    <3> QED
      BY <2>1, <2>4, <3>2
  <2> QED
    BY <2>3, <2>5 DEF Sound, Successful, Sold
<1> QED
  BY <1>2, <1>3

-----------------------------------------------------------------------------
(* The invariant of the specification. *)

\* What one order's row, payments and gateway sessions satisfy.
OrderInv(o) ==
    \/ order[o] = NotPlaced /\ gateway[o] = << >>
    \/ /\ Sound(order[o])
       /\ Len(order[o].payments) \in Nat \ {0}
       /\ Len(gateway[o]) = Len(order[o].payments)

OInv ==
    /\ order \in [Orders -> Records \cup {NotPlaced}]
    /\ gateway \in [Orders -> Seq(Sessions)]
    /\ \A o \in Orders : OrderInv(o)

\* order o is not cancelled while it is paid.
PaidKept(o) ==
    (order[o].payment_status \in Successful /\ order[o].status # "cancelled")
        => order'[o].status # "cancelled"

\* A placed order's facts.
LEMMA PlacedFacts ==
    ASSUME OInv, NEW o \in Orders, Placed(o)
    PROVE  /\ Sound(order[o]) /\ order[o] \in Records
           /\ order[o].payments \in Seq(Payments)
           /\ Len(order[o].payments) \in Nat \ {0}
           /\ gateway[o] \in Seq(Sessions)
           /\ Len(gateway[o]) = Len(order[o].payments)
           /\ DOMAIN gateway[o] = DOMAIN order[o].payments
           /\ 1 \in DOMAIN order[o].payments
<1>1. /\ Sound(order[o]) /\ Len(order[o].payments) \in Nat \ {0}
      /\ Len(gateway[o]) = Len(order[o].payments) /\ gateway[o] \in Seq(Sessions)
  BY DEF OInv, OrderInv, Placed
<1>2. order[o] \in Records /\ order[o].payments \in Seq(Payments)
  BY <1>1, RecordColumns DEF Sound
<1> QED
  BY <1>1, <1>2

\* Writing a sound record and as many sessions preserves the invariant.
LEMMA WriteBoth ==
    ASSUME OInv, NEW o \in Orders, NEW r, NEW g \in Seq(Sessions),
           order' = [order EXCEPT ![o] = r], gateway' = [gateway EXCEPT ![o] = g],
           Sound(r), Len(r.payments) \in Nat \ {0}, Len(g) = Len(r.payments)
    PROVE  OInv' /\ order'[o] = r /\ \A x \in Orders \ {o} : order'[x] = order[x]
<1>1. r \in Records
  BY DEF Sound
<1>2. /\ order' \in [Orders -> Records \cup {NotPlaced}]
      /\ gateway' \in [Orders -> Seq(Sessions)]
      /\ order'[o] = r /\ gateway'[o] = g
      /\ \A x \in Orders \ {o} : order'[x] = order[x] /\ gateway'[x] = gateway[x]
  BY <1>1 DEF OInv
<1>3. ASSUME NEW x \in Orders \ {o} PROVE OrderInv(x)'
  BY <1>2 DEF OInv, OrderInv, Sound, Succeeded
<1>4. OrderInv(o)'
  BY <1>2 DEF OrderInv, Sound, Succeeded
<1> QED
  BY <1>2, <1>3, <1>4 DEF OInv

\* A handler that writes a sound record and leaves the gateway alone.
LEMMA WriteOrder ==
    ASSUME OInv, NEW o \in Orders, Placed(o), NEW r, Write(o, r), UNCHANGED gateway,
           SoundAfter(order[o], r)
    PROVE  OInv' /\ order'[o] = r /\ \A x \in Orders \ {o} : order'[x] = order[x]
<1>1. /\ gateway[o] \in Seq(Sessions) /\ Len(gateway[o]) = Len(order[o].payments)
      /\ Len(order[o].payments) \in Nat \ {0}
  BY PlacedFacts
<1>2. gateway' = [gateway EXCEPT ![o] = gateway[o]]
  BY DEF OInv
<1> QED
  BY <1>1, <1>2, WriteBoth DEF Write, SoundAfter

\* A step in which session i changes at the gateway as well.
LEMMA WriteSession ==
    ASSUME OInv, NEW o \in Orders, Placed(o), NEW r, order' = [order EXCEPT ![o] = r],
           NEW i \in DOMAIN gateway[o], NEW v \in Sessions,
           gateway' = [gateway EXCEPT ![o][i] = v], SoundAfter(order[o], r)
    PROVE  OInv' /\ order'[o] = r /\ \A x \in Orders \ {o} : order'[x] = order[x]
<1> DEFINE g == [gateway[o] EXCEPT ![i] = v]
<1>1. /\ gateway[o] \in Seq(Sessions) /\ Len(gateway[o]) = Len(order[o].payments)
      /\ Len(order[o].payments) \in Nat \ {0}
  BY PlacedFacts
<1>2. g \in Seq(Sessions) /\ Len(g) = Len(gateway[o])
  BY <1>1
<1>3. gateway' = [gateway EXCEPT ![o] = g]
  OBVIOUS
<1> HIDE DEF g
<1> QED
  BY <1>1, <1>2, <1>3, WriteBoth DEF SoundAfter

\* Sessions change without the order: its record is written back.
LEMMA SessionOnly ==
    ASSUME OInv, NEW o \in Orders, Placed(o), UNCHANGED order,
           NEW i \in DOMAIN gateway[o], NEW v \in Sessions,
           gateway' = [gateway EXCEPT ![o][i] = v]
    PROVE  OInv' /\ order' = order
<1>1. order' = [order EXCEPT ![o] = order[o]]
  BY DEF OInv
<1>2. SoundAfter(order[o], order[o])
  BY PlacedFacts, NoChange
<1> QED
  BY <1>1, <1>2, WriteSession

-----------------------------------------------------------------------------
(* Every action preserves the invariant, and only StaffCancel cancels a paid *)
(* order.                                                                    *)

\* The six outcomes of a callback.
LEMMA CallbackStep ==
    ASSUME OInv, NEW o \in Orders, Placed(o), NEW i \in DOMAIN gateway[o], Callback(o, i)
    PROVE  OInv' /\ PaidKept(o) /\ \A x \in Orders \ {o} : order'[x] = order[x]
<1> DEFINE r == order[o]
<1>1. Sound(r) /\ i \in DOMAIN r.payments
  BY PlacedFacts
<1>2. ASSUME NEW R, NEW s \in Processed(R, i),
             \A t \in R : SoundAfter(r, t) /\ (r.payment_status \in Successful => t.status = r.status)
      PROVE  SoundAfter(r, s) /\ (r.payment_status \in Successful => s.status = r.status)
  <2>1. PICK t \in R : s = [t EXCEPT !.payments[i].processed = TRUE]
    BY Zenon DEF Processed
  <2>2. Sound(t) /\ Len(t.payments) = Len(r.payments)
    BY <1>2 DEF SoundAfter
  <2>3. i \in DOMAIN t.payments
    BY <1>1, <2>2, RecordColumns DEF Sound
  <2>4. SoundAfter(t, s) /\ s.status = t.status
    BY <2>1, <2>2, <2>3, ProcessedSound
  <2> QED
    BY <1>2, <2>2, <2>4 DEF SoundAfter
<1>3. CASE CallbackSettled(o, i)
  <2>1. PICK s \in Settle(r, i) : Write(o, s)
    BY <1>3 DEF CallbackSettled
  <2>2. LET t == SetPayment(r, i, "succeeded") IN SoundAfter(r, t) /\ t.status = r.status
    BY <1>1, SucceedSound
  <2>3. s = r \/ s \in Processed({SetPayment(r, i, "succeeded")}, i)
    BY Zenon DEF Settle
  <2>4. SoundAfter(r, s) /\ (r.payment_status \in Successful => s.status = r.status)
    BY <1>1, <1>2, <2>2, <2>3, NoChange
  <2> QED
    BY <1>3, <2>1, <2>4, WriteOrder DEF CallbackSettled, PaidKept
<1>4. ASSUME NEW s \in Processed(mark_failed(r, i), i)
      PROVE  SoundAfter(r, s) /\ (r.payment_status \in Successful => s.status = r.status)
  BY <1>1, <1>2, <1>4, MarkFailedSound
<1>5. CASE CallbackNotOK(o, i)
  BY <1>4, <1>5, WriteOrder DEF CallbackNotOK, PaidKept
<1>6. CASE CallbackVerified(o, i)
  <2>1. PICK s \in Processed(mark_paid(r, i), i) : order' = [order EXCEPT ![o] = s]
    BY <1>6 DEF CallbackVerified, Write
  <2>2. SoundAfter(r, s) /\ (r.payment_status \in Successful => s.status = r.status)
    BY <1>1, <1>2, MarkPaidSound
  <2>3. "captured" \in Sessions /\ gateway' = [gateway EXCEPT ![o][i] = "captured"]
    BY <1>6 DEF CallbackVerified, Sessions, ZarinpalSessions
  <2> QED
    BY <2>1, <2>2, <2>3, WriteSession DEF PaidKept
<1>7. CASE CallbackNotVerified(o, i)
  <2>1. PICK s \in Processed(mark_failed(r, i), i) : Write(o, s)
    BY <1>7 DEF CallbackNotVerified
  <2>2. SoundAfter(r, s) /\ (r.payment_status \in Successful => s.status = r.status)
    BY <1>4
  <2>3. CASE UNCHANGED gateway
    BY <2>1, <2>2, <2>3, WriteOrder DEF PaidKept
  <2>4. CASE gateway' = [gateway EXCEPT ![o][i] = "taken"]
    <3>1. "taken" \in Sessions
      BY DEF Sessions, ZarinpalSessions
    <3> QED
      BY <2>1, <2>2, <2>4, <3>1, WriteSession DEF PaidKept, Write
  <2> QED
    BY <1>7, <2>3, <2>4 DEF CallbackNotVerified
<1>8. CASE CallbackRaises(o, i) \/ CallbackDies(o, i)
  <2>1. "captured" \in Sessions /\ "taken" \in Sessions
    BY DEF Sessions, ZarinpalSessions
  <2> QED
    BY <1>8, <2>1, SessionOnly DEF CallbackRaises, CallbackDies, PaidKept
<1> QED
  BY <1>3, <1>5, <1>6, <1>7, <1>8 DEF Callback

\* Time, the periodic tasks and the customer.
LEMMA TimeStep ==
    ASSUME OInv, NEW o \in Orders, Placed(o),
           \/ HoldExpires(o) \/ CartMovesOn(o)
           \/ \E i \in DOMAIN gateway[o] : \/ CustomerPays(o, i) \/ PaymentGoesStale(o, i)
                                           \/ cleanup_stale_online_payment(o, i)
    PROVE  OInv' /\ PaidKept(o) /\ \A x \in Orders \ {o} : order'[x] = order[x]
<1> DEFINE r == order[o]
<1>1. Sound(r) /\ r \in Records /\ DOMAIN gateway[o] = DOMAIN r.payments
  BY PlacedFacts
<1>2. CASE HoldExpires(o)
  <2>1. "expired" \in HoldStatuses
    BY DEF HoldStatuses
  <2> DEFINE s == [r EXCEPT !.hold = "expired"]
  <2>2. /\ s \in Records /\ s.status = r.status /\ s.payment_status = r.payment_status
        /\ s.hold = "expired" /\ s.payments = r.payments
    BY <1>1, <2>1, HoldColumn
  <2>3. Write(o, s) /\ UNCHANGED gateway
    BY <1>2 DEF HoldExpires
  <2> HIDE DEF s
  <2>4. SoundAfter(r, s)
    BY <1>1, <2>2, SoundColumns DEF Sound
  <2> QED
    BY <2>2, <2>3, <2>4, WriteOrder DEF PaidKept
<1>3. CASE CartMovesOn(o)
  <2>1. LET s == [r EXCEPT !.cart = FALSE]
        IN  /\ s \in Records /\ s.status = r.status /\ s.payment_status = r.payment_status
            /\ s.hold = r.hold /\ s.payments = r.payments
    BY <1>1, CartColumn
  <2>2. SoundAfter(r, [r EXCEPT !.cart = FALSE])
    BY <1>1, <2>1, SoundColumns DEF Sound
  <2> QED
    BY <1>3, <2>1, <2>2, WriteOrder DEF CartMovesOn, PaidKept
<1>4. ASSUME NEW i \in DOMAIN gateway[o], CustomerPays(o, i)
      PROVE  OInv' /\ PaidKept(o) /\ \A x \in Orders \ {o} : order'[x] = order[x]
  <2>1. "paid" \in Sessions
    BY DEF Sessions, ZarinpalSessions
  <2> QED
    BY <1>4, <2>1, SessionOnly DEF CustomerPays, PaidKept
<1>5. ASSUME NEW i \in DOMAIN gateway[o], PaymentGoesStale(o, i)
      PROVE  OInv' /\ PaidKept(o) /\ \A x \in Orders \ {o} : order'[x] = order[x]
  <2>1. LET s == [r EXCEPT !.payments[i].stale = TRUE]
        IN  SoundAfter(r, s) /\ s.status = r.status
    BY <1>1, <1>5, StaleSound
  <2> QED
    BY <1>5, <2>1, WriteOrder DEF PaymentGoesStale, PaidKept
<1>6. ASSUME NEW i \in DOMAIN gateway[o], cleanup_stale_online_payment(o, i)
      PROVE  OInv' /\ PaidKept(o) /\ \A x \in Orders \ {o} : order'[x] = order[x]
  <2>1. PICK s \in mark_failed(r, i) : Write(o, [s EXCEPT !.cart = FALSE])
    BY <1>6 DEF cleanup_stale_online_payment
  <2>2. SoundAfter(r, s) /\ s \in Records
    BY <1>1, <1>6, MarkFailedSound DEF SoundAfter, Sound
  <2>3. LET t == [s EXCEPT !.cart = FALSE]
        IN  /\ t \in Records /\ t.status = s.status /\ t.payment_status = s.payment_status
            /\ t.hold = s.hold /\ t.payments = s.payments
    BY <2>2, CartColumn
  <2>4. SoundAfter(s, [s EXCEPT !.cart = FALSE])
    BY <2>2, <2>3, SoundColumns DEF Sound, SoundAfter
  <2>5. SoundAfter(r, [s EXCEPT !.cart = FALSE])
    BY <2>2, <2>4 DEF SoundAfter
  <2>6. r.payment_status \notin Successful /\ UNCHANGED gateway
    BY <1>6 DEF cleanup_stale_online_payment
  <2> QED
    BY <2>1, <2>5, <2>6, WriteOrder DEF PaidKept
<1> QED
  BY <1>2, <1>3, <1>4, <1>5, <1>6

\* Staff.
LEMMA StaffStep ==
    ASSUME OInv, NEW o \in Orders, Placed(o), Staff(o)
    PROVE  /\ OInv' /\ \A x \in Orders \ {o} : order'[x] = order[x]
           /\ StaffCancel(o) \/ PaidKept(o)
<1> DEFINE r == order[o]
<1>1. /\ Sound(r) /\ r \in Records /\ Len(r.payments) \in Nat \ {0}
      /\ 1 \in DOMAIN r.payments
  BY PlacedFacts
<1>2. CASE StaffCancel(o)
  BY <1>1, <1>2, CancelSound, WriteOrder DEF StaffCancel
<1>3. CASE StaffRequestRefund(o)
  BY <1>1, <1>3, RequestRefundSound, WriteOrder DEF StaffRequestRefund, PaidKept
<1>4. CASE StaffProcessRefund(o)
  BY <1>1, <1>4, RefundSound, WriteOrder DEF StaffProcessRefund, PaidKept
<1>5. ASSUME NEW v \in {"preparing", "packaged", "out_for_delivery"}, StaffAdvance(o, v)
      PROVE  /\ OInv' /\ \A x \in Orders \ {o} : order'[x] = order[x]
             /\ PaidKept(o)
  <2>1. v \in Confirmed /\ v # "cancelled"
    BY DEF Confirmed
  <2> QED
    BY <1>1, <1>5, <2>1, AdvanceSound, WriteOrder DEF StaffAdvance, PaidKept
<1>6. CASE StaffCompleteDelivery(o)
  BY <1>1, <1>6, DeliverySound, WriteOrder DEF StaffCompleteDelivery, PaidKept
<1>7. CASE StaffTakesPayment(o)
  BY <1>1, <1>7, CounterReceivedSound, WriteOrder DEF StaffTakesPayment, PaidKept
<1>8. CASE StaffCreatesCheckout(o)
  <2>1. PICK s \in initiate_online(r) :
           /\ Write(o, s)
           /\ gateway' = IF s = r THEN gateway ELSE [gateway EXCEPT ![o] = Append(@, "open")]
    BY <1>8 DEF StaffCreatesCheckout, request_payment
  <2>2. /\ Sound(s) /\ s.status = r.status
        /\ s # r => Len(s.payments) = Len(r.payments) + 1
    BY <1>1, InitiateSound
  <2>3. CASE s = r
    BY <1>1, <2>1, <2>3, NoChange, WriteOrder DEF PaidKept
  <2>4. CASE s # r
    <3> DEFINE g == Append(gateway[o], "open")
    <3>1. /\ gateway[o] \in Seq(Sessions) /\ Len(gateway[o]) = Len(r.payments)
          /\ Len(r.payments) \in Nat \ {0}
      BY PlacedFacts
    <3>2. g \in Seq(Sessions) /\ Len(g) = Len(s.payments)
      BY <2>2, <2>4, <3>1 DEF Sessions, ZarinpalSessions
    <3>3. gateway' = [gateway EXCEPT ![o] = g] /\ order' = [order EXCEPT ![o] = s]
      BY <2>1, <2>4 DEF OInv, Write
    <3> HIDE DEF g
    <3>4. Len(s.payments) \in Nat \ {0}
      BY <2>2, <2>4, <3>1
    <3> QED
      BY <2>2, <3>2, <3>3, <3>4, WriteBoth DEF PaidKept
  <2> QED
    BY <2>3, <2>4
<1> QED
  BY <1>2, <1>3, <1>4, <1>5, <1>6, <1>7, <1>8 DEF Staff

\* Checkout places a sound record with one payment and one session.
LEMMA CheckoutStep ==
    ASSUME OInv, NEW o \in Orders, process_checkout(o) \/ process_counter_checkout(o)
    PROVE  OInv' /\ \A x \in Orders \ {o} : order'[x] = order[x]
<1>0. request_payment(<< >>) = <<"open">>
  BY DEF request_payment
<1>1. PICK p \in Payments, g \in Sessions, t \in {"pending_payment", "awaiting_payment"},
           c \in BOOLEAN :
         /\ order' = [order EXCEPT ![o] =
               [status |-> t, payment_status |-> "pending_payment", hold |-> "active",
                cart |-> c, payments |-> <<p>>]]
         /\ gateway' = [gateway EXCEPT ![o] = <<g>>]
  BY <1>0 DEF process_checkout, process_counter_checkout, Write, NewPayment, Payments, Sessions,
              ZarinpalSessions
<1> DEFINE r == [status |-> t, payment_status |-> "pending_payment", hold |-> "active",
                 cart |-> c, payments |-> <<p>>]
<1>2. <<p>> \in Seq(Payments) /\ Len(<<p>>) = 1 /\ <<g>> \in Seq(Sessions) /\ Len(<<g>>) = 1
  OBVIOUS
<1>3. /\ r \in Records /\ r.payments = <<p>> /\ r.payment_status = "pending_payment"
      /\ r.status \notin Closed
  BY <1>2 DEF Records, OrderStatuses, PaymentStatuses, HoldStatuses, Closed
<1> HIDE DEF r
<1>4. Sound(r) /\ Len(r.payments) \in Nat \ {0}
  BY <1>2, <1>3 DEF Sound, Successful, Sold
<1>5. order' = [order EXCEPT ![o] = r]
  BY <1>1 DEF r
<1> QED
  BY <1>1, <1>2, <1>3, <1>4, <1>5, WriteBoth

-----------------------------------------------------------------------------
(* Theorems. *)

\* Initially nothing is placed.
LEMMA InitialOrders == Init => OInv
<1> SUFFICES ASSUME Init PROVE OInv
  OBVIOUS
<1>1. << >> \in Seq(Sessions)
  OBVIOUS
<1> QED
  BY <1>1 DEF Init, OInv, OrderInv

\* OInv is inductive, and every step but StaffCancel keeps a paid order.
LEMMA OrderStep ==
    ASSUME OInv, [Next]_vars
    PROVE  OInv' /\ \A o \in Orders : Placed(o) => StaffCancel(o) \/ PaidKept(o)
<1>1. CASE UNCHANGED vars
  BY <1>1 DEF vars, OInv, OrderInv, Sound, Succeeded, PaidKept
<1>2. ASSUME NEW o \in Orders, process_checkout(o) \/ process_counter_checkout(o)
      PROVE  OInv' /\ \A x \in Orders : Placed(x) => StaffCancel(x) \/ PaidKept(x)
  <2>1. ~Placed(o)
    BY <1>2 DEF process_checkout, process_counter_checkout
  <2> QED
    BY <1>2, <2>1, CheckoutStep DEF PaidKept
<1>3. ASSUME NEW o \in Orders, Placed(o), OnPlaced(o)
      PROVE  OInv' /\ \A x \in Orders : Placed(x) => StaffCancel(x) \/ PaidKept(x)
  <2>1. /\ OInv' /\ \A x \in Orders \ {o} : order'[x] = order[x]
        /\ StaffCancel(o) \/ PaidKept(o)
    <3>1. CASE \E i \in DOMAIN gateway[o] : Callback(o, i)
      BY <1>3, <3>1, CallbackStep
    <3>2. CASE \/ HoldExpires(o) \/ CartMovesOn(o)
               \/ \E i \in DOMAIN gateway[o] : \/ CustomerPays(o, i) \/ PaymentGoesStale(o, i)
                                               \/ cleanup_stale_online_payment(o, i)
      BY <1>3, <3>2, TimeStep
    <3>3. CASE Staff(o)
      BY <1>3, <3>3, StaffStep
    <3> QED
      BY <1>3, <3>1, <3>2, <3>3 DEF OnPlaced
  <2> QED
    BY <2>1 DEF PaidKept
<1> QED
  BY <1>1, <1>2, <1>3 DEF Next, Checkout

\* The invariant of orders and payments holds in every behaviour.
THEOREM OrdersInvariant == Spec => []OInv
<1>1. OInv /\ [Next]_vars => OInv'
  BY OrderStep
<1> QED
  BY InitialOrders, <1>1, PTL DEF Spec

\* Orders, payments and gateway sessions keep their types, and an order has as
\* many sessions as payment records.
THEOREM OrdersTypeCorrect == Spec => []TypeOK
<1>1. OInv => TypeOK
  BY DEF OInv, OrderInv, TypeOK, Sound
<1> QED
  BY OrdersInvariant, <1>1, PTL

\* No order is ever "paid" without a payment record that succeeded, whatever the
\* order of callbacks, staff actions and cleaner.
THEOREM PaidNeedsRecord == Spec => []PaidOnRecord
<1>1. OInv => PaidOnRecord
  BY DEF OInv, OrderInv, PaidOnRecord, Placed, PaymentsOf, Sound, Succeeded
<1> QED
  BY OrdersInvariant, <1>1, PTL

\* A cancelled or refunded order never holds stock.
THEOREM ClosedReleased == Spec => []ClosedHoldsNothing
<1>1. OInv => ClosedHoldsNothing
  BY DEF OInv, OrderInv, ClosedHoldsNothing, Placed, Sound
<1> QED
  BY OrdersInvariant, <1>1, PTL

\* Late, repeated or failed callbacks and the cleaner never cancel a paid order.
THEOREM PaidOrdersKept == Spec => OnlyStaffCancelPaid
<1>1. OInv /\ [Next]_vars =>
         [\A o \in Orders :
            (/\ Placed(o) /\ order[o].payment_status \in Successful /\ order[o].status # "cancelled"
             /\ order'[o].status = "cancelled") => StaffCancel(o)]_vars
  BY OrderStep DEF PaidKept
<1> QED
  BY OrdersInvariant, <1>1, PTL DEF Spec, OnlyStaffCancelPaid

=============================================================================
