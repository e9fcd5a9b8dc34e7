--------------------------- MODULE OrderPayments ---------------------------
(***************************************************************************)
(* Orders and their payments: OrderService, PaymentService, the Zarinpal   *)
(* callback, the cleaner of stale checkouts and the staff actions of the   *)
(* admin site (apps/orders, apps/payments, delivery/state_machine.py).     *)
(*                                                                         *)
(* Every handler is one transaction that locks the order (and the payment) *)
(* row before it reads what it decides on, so an action is one handler     *)
(* that commits.  A handler is written as an operator from the order's     *)
(* record to the set of records it can leave behind; the set is empty when *)
(* the handler raises, and then nothing is written.  The gateway is not    *)
(* part of the transaction: what it has done stays done.                   *)
(*                                                                         *)
(* The stock of an order is modelled by the status of its reservations,    *)
(* which the functions of the stock service change together.               *)
(*                                                                         *)
(* Operators marked "Defect" are faulty variants of the definition below   *)
(* them, kept to show that a property notices the fault.                   *)
(***************************************************************************)
EXTENDS OrderStates

CONSTANTS
    Online,      \* orders of the online checkout, paid through Zarinpal
    Stripe,      \* the same while DEFAULT_PAYMENT_PROVIDER is Stripe
    Counter,     \* orders of the counter checkout (cash or card in the shop)
    Cod,         \* legacy orders, paid in cash on delivery
    created_at,  \* when an order is placed, of those that are
    MaxPayments, \* bound: payment records of all orders together
    Scopes       \* bound: the sets of orders that are placed together

Orders == Online \cup Stripe \cup Counter \cup Cod

ASSUME OrdersAssumption ==
    /\ Online \cap (Stripe \cup Counter \cup Cod) = {}
    /\ Stripe \cap (Counter \cup Cod) = {} /\ Counter \cap Cod = {}
ASSUME CreatedAssumption ==
    /\ IsFiniteSet(Orders)
    /\ created_at \in [Orders -> Nat]
    /\ \A o, q \in Orders : created_at[o] = created_at[q] => o = q
ASSUME PaymentsAssumption == MaxPayments \in Nat \ {0}

VARIABLES
    order,    \* the Order row with its payments, per order
    gateway   \* what the payment provider knows of the payments, per order

vars == <<order, gateway>>

PaymentStatuses == {"pending_payment", "paid", "failed", "refund_requested",
                    "refund_processed", "cod_pending", "cod_confirmed", "cash_received"}

\* _SUCCESSFUL_ORDER_PAYMENT_STATUSES.
Successful == {"paid", "cash_received"}

HoldStatuses == {"active", "confirmed", "released", "expired", "fulfilled"}

\* One Payment row.  "stale": older than STALE_ONLINE_PAYMENT_TIMEOUT_MINUTES.
\* "processed": its PaymentEvent is processed (the event id is the authority's).
Payments == [provider : {"zarinpal", "stripe", "counter", "cod"},
             status : {"pending", "processing", "succeeded", "failed", "cancelled", "refunded"},
             stale : BOOLEAN, processed : BOOLEAN]

\* "cart": the source cart still points to the order.
Records == [status : OrderStatuses, payment_status : PaymentStatuses,
            hold : HoldStatuses, cart : BOOLEAN, payments : Seq(Payments)]

\* What Zarinpal knows of a payment: the customer has not paid, has paid, the
\* money is captured and the handler was told so, or it was taken and the answer
\* was lost, on its way or with the worker that asked.
ZarinpalSessions == {"open", "paid", "captured", "taken"}

\* A session of Stripe is paid at once, expires, or is paid and given back.
StripeSessions == {"session", "completed", "expired", "returned"}

\* "none": a payment in cash or by card in the shop.
Sessions == ZarinpalSessions \cup StripeSessions \cup {"none"}

NotPlaced == [status |-> "none"]

Placed(o) == order[o] # NotPlaced

NewPayment(provider, s) ==
    [provider |-> provider, status |-> s, stale |-> FALSE, processed |-> FALSE]

SetPayment(r, i, s) == [r EXCEPT !.payments[i].status = s]

Write(o, r) == order' = [order EXCEPT ![o] = r]

\* The bound on the number of payments leaves room for one more.
MorePayments ==
    Cardinality(UNION {{o} \X DOMAIN order[o].payments : o \in {q \in Orders : Placed(q)}}) < MaxPayments

\* Orders are placed one after the other, in the order of created_at.
Room(o) ==
    LET placed == {q \in Orders : Placed(q)}
    IN  /\ MorePayments
        /\ \E S \in Scopes : placed \cup {o} \subseteq S
        /\ \A q \in placed : created_at[q] < created_at[o]

-----------------------------------------------------------------------------
(* OrderService.transition and the stock service, as an order sees it. *)

transition(r, t) == IF can_transition(r.status, t) THEN {[r EXCEPT !.status = t]} ELSE {}

ConfirmStock(r) == [r EXCEPT !.hold = IF @ = "active" THEN "confirmed" ELSE @]
ReleaseStock(r) == [r EXCEPT !.hold = IF @ \in {"active", "confirmed"} THEN "released" ELSE @]
FulfillStock(r) == [r EXCEPT !.hold = IF @ = "confirmed" THEN "fulfilled" ELSE @]

-----------------------------------------------------------------------------
(* OrderService. *)

\* Defect: cancelling keeps the order's stock.
CancelKeepingStock(r) ==
    IF r.status \in Closed THEN {r}
    ELSE transition([r EXCEPT !.payment_status =
                        IF @ = "pending_payment" THEN "failed" ELSE @], "cancelled")

cancel(r) ==
    IF r.status \in Closed THEN {r}
    ELSE transition([ReleaseStock(r) EXCEPT !.payment_status =
                        IF @ = "pending_payment" THEN "failed" ELSE @], "cancelled")

mark_payment_failed(r) ==
    IF r.payment_status \in Successful \/ r.status \in Closed THEN {r}
    ELSE transition([ReleaseStock(r) EXCEPT !.payment_status = "failed"], "cancelled")

request_refund(r) == {[r EXCEPT !.payment_status = "refund_requested"]}

\* PaymentService.process_refund looks at the latest payment only.
RefundLatest(r) ==
    LET n == Len(r.payments)
    IN  IF r.payments[n].status = "succeeded" THEN SetPayment(r, n, "refunded") ELSE r

process_refund(r) ==
    IF r.status = "refunded" THEN {r}
    ELSE transition([ReleaseStock(RefundLatest(r)) EXCEPT !.payment_status = "refund_processed"],
                    "refunded")

is_cod(r) == r.payments[1].provider = "cod"

complete_delivery(r) ==
    IF ~is_cod(r) THEN transition(FulfillStock(r), "delivered")
    ELSE IF r.payment_status = "cash_received" THEN transition(r, "delivered")
    ELSE {}

\* Defect: the counter's payment is recorded and the order is not moved on.
FinalizeCounterInPlace(r) ==
    IF r.payment_status = "paid" /\ r.status = "preparing" THEN {r}
    ELSE {ConfirmStock([r EXCEPT !.payment_status = "paid"])}

finalize_counter_payment(r) ==
    IF r.payment_status = "paid" /\ r.status = "preparing" THEN {r}
    ELSE transition(ConfirmStock([r EXCEPT !.payment_status = "paid"]), "preparing")

Confirmed == {"paid", "confirmed_by_shop", "preparing", "packaged", "out_for_delivery",
              "delivered"}

\* Defect: the payment counts although the order has left its checkout long ago.
FinalizeAgain(r) ==
    IF r.status \in Confirmed THEN {[r EXCEPT !.payment_status = "paid"]}
    ELSE UNION {transition(s, "confirmed_by_shop") :
                   s \in transition(ConfirmStock([r EXCEPT !.payment_status = "paid"]), "paid")}

finalize_online_payment(r) ==
    IF r.payment_status = "paid" /\ r.status \in Confirmed THEN {r}
    ELSE UNION {transition(s, "confirmed_by_shop") :
                   s \in transition(ConfirmStock([r EXCEPT !.payment_status = "paid"]), "paid")}

confirm_cod(r) ==
    IF r.payment_status = "cod_pending" THEN {[r EXCEPT !.payment_status = "cod_confirmed"]}
    ELSE {}

record_cash_received(r) ==
    transition(FulfillStock(ConfirmStock([r EXCEPT !.payment_status = "cash_received"])),
               "delivered")

-----------------------------------------------------------------------------
(* PaymentService. *)

\* _get_reusable_zarinpal_payment: a repeated request returns a payment that is still
\* being processed.  The session of one that was marked failed is not looked for: it
\* stays open at the gateway beside the next one.
ReusablePayments(r) == {i \in DOMAIN r.payments : /\ r.payments[i].provider = "zarinpal"
                                                  /\ r.payments[i].status = "processing"}

initiate_online(r) ==
    IF r.payment_status \in Successful THEN {}
    ELSE IF ReusablePayments(r) # {} THEN {r}
    ELSE {[r EXCEPT !.payments = Append(@, NewPayment("zarinpal", "processing")),
                    !.payment_status = "pending_payment"]}

\* Defect: the order is finalized and the payment's own status is not saved.
FinalizeOnly(r, i) == IF r.payment_status = "paid" THEN {r} ELSE finalize_online_payment(r)

mark_paid(r, i) ==
    IF r.payments[i].status = "succeeded" THEN {r}
    ELSE IF r.payment_status \in Successful THEN {SetPayment(r, i, "succeeded")}
    ELSE finalize_online_payment(SetPayment(r, i, "succeeded"))

mark_failed(r, i) ==
    IF r.payments[i].status = "succeeded" \/ r.payment_status \in Successful THEN {r}
    ELSE mark_payment_failed(SetPayment(r, i, "failed"))

mark_cancelled(r, i) ==
    IF r.payments[i].status = "succeeded" \/ r.payment_status \in Successful THEN {r}
    ELSE {[SetPayment(r, i, "cancelled") EXCEPT !.payment_status = "pending_payment"]}

mark_counter_payment_received(r, i) ==
    IF r.payments[i].status # "succeeded"
        THEN finalize_counter_payment(SetPayment(r, i, "succeeded"))
    ELSE IF r.status = "awaiting_payment" THEN finalize_counter_payment(r)
    ELSE {r}

initiate_cod(r) ==
    IF r.payment_status = "cash_received" THEN {}
    ELSE {[r EXCEPT !.payments = Append(@, NewPayment("cod", "pending"))]}

\* With ensure_cod_cash_finalized.
mark_cod_cash_received(r, i) == record_cash_received(SetPayment(r, i, "succeeded"))

-----------------------------------------------------------------------------
(* process_webhook with ZarinpalPaymentProvider.handle_webhook_event. *)

Processed(R, i) == {[r EXCEPT !.payments[i].processed = TRUE] : r \in R}

\* The callback is settled without asking the gateway: a duplicate, or a second
\* payment of an order that is already paid.
AlreadySettled(r, i) ==
    \/ r.payments[i].processed
    \/ r.payments[i].status = "succeeded"
    \/ r.payment_status \in Successful

Settle(r, i) ==
    IF r.payments[i].processed THEN {r}
    ELSE Processed({SetPayment(r, i, "succeeded")}, i)

-----------------------------------------------------------------------------
(* Checkout places the order, its hold and its first payment together. *)

\* is_order_checkout_in_progress.
InProgress(r) ==
    /\ r.status \in {"pending_payment", "paid", "confirmed_by_shop"}
    /\ r.payment_status \notin {"paid", "cash_received", "failed", "refund_processed"}

\* ZarinpalPaymentProvider.create_checkout_session: a session more.  When it refuses
\* the amount, or the request fails, the handler raises and nothing is written.
request_payment(sessions) == Append(sessions, "open")

process_checkout(o) ==
    /\ o \in Online /\ ~Placed(o) /\ Room(o)
    /\ Write(o, [status |-> "pending_payment", payment_status |-> "pending_payment",
                 hold |-> "active", cart |-> TRUE,
                 payments |-> <<NewPayment("zarinpal", "processing")>>])
    /\ gateway' = [gateway EXCEPT ![o] = request_payment(<< >>)]

process_counter_checkout(o) ==
    /\ o \in Counter /\ ~Placed(o) /\ Room(o)
    /\ Write(o, [status |-> "awaiting_payment", payment_status |-> "pending_payment",
                 hold |-> "active", cart |-> FALSE,
                 payments |-> <<NewPayment("counter", "pending")>>])
    /\ gateway' = [gateway EXCEPT ![o] = <<"none">>]

\* The next checkout of the cart: _resolve_in_progress_checkout drops the pointer
\* to an order whose checkout is over.
CartMovesOn(o) ==
    /\ order[o].cart /\ ~InProgress(order[o])
    /\ Write(o, [order[o] EXCEPT !.cart = FALSE])
    /\ UNCHANGED gateway

\* The customer pays at the gateway, at any time.
CustomerPays(o, i) ==
    /\ gateway[o][i] = "open"
    /\ gateway' = [gateway EXCEPT ![o][i] = "paid"]
    /\ UNCHANGED order

(* The browser comes back, once or several times; the gateway reports OK for *)
(* a session the customer has paid.  The money is captured by verification.  *)

CallbackSettled(o, i) ==
    /\ gateway[o][i] \in ZarinpalSessions
    /\ AlreadySettled(order[o], i)
    /\ \E r \in Settle(order[o], i) : Write(o, r)
    /\ UNCHANGED gateway

CallbackNotOK(o, i) ==
    /\ gateway[o][i] = "open"
    /\ ~AlreadySettled(order[o], i)
    /\ \E r \in Processed(mark_failed(order[o], i), i) : Write(o, r)
    /\ UNCHANGED gateway

CallbackVerified(o, i) ==
    /\ gateway[o][i] = "paid"
    /\ ~AlreadySettled(order[o], i)
    /\ \E r \in Processed(mark_paid(order[o], i), i) : Write(o, r)
    /\ gateway' = [gateway EXCEPT ![o][i] = "captured"]

\* Defect: a repeated callback is verified again and its refusal cancels the order.
RefusalCancels(o, i) ==
    /\ gateway[o][i] \in {"paid", "captured", "taken"}
    /\ \E r \in Processed(cancel(SetPayment(order[o], i, "failed")), i) : Write(o, r)
    /\ UNCHANGED gateway

\* Verification fails: no code 100, or no answer within 30 seconds, in which case
\* the gateway may have captured the money all the same.  A session that was
\* verified before does not answer 100 a second time.
CallbackNotVerified(o, i) ==
    /\ gateway[o][i] \in {"paid", "captured", "taken"}
    /\ ~AlreadySettled(order[o], i)
    /\ \E r \in Processed(mark_failed(order[o], i), i) : Write(o, r)
    /\ \/ UNCHANGED gateway
       \/ gateway[o][i] = "paid" /\ gateway' = [gateway EXCEPT ![o][i] = "taken"]

\* The gateway captures, and the handler raises because the order cannot become paid
\* any more: the transaction, its PaymentEvent included, is rolled back.
CallbackRaises(o, i) ==
    /\ gateway[o][i] = "paid"
    /\ ~AlreadySettled(order[o], i)
    /\ mark_paid(order[o], i) = {}
    /\ gateway' = [gateway EXCEPT ![o][i] = "captured"]
    /\ UNCHANGED order

\* The gateway captures and the worker dies before it commits.
CallbackDies(o, i) ==
    /\ gateway[o][i] = "paid"
    /\ ~AlreadySettled(order[o], i)
    /\ gateway' = [gateway EXCEPT ![o][i] = "taken"]
    /\ UNCHANGED order

-----------------------------------------------------------------------------
(* Time and the periodic tasks. *)

PaymentGoesStale(o, i) ==
    /\ order[o].payments[i].status \in {"pending", "processing"}
    /\ ~order[o].payments[i].stale
    /\ Write(o, [order[o] EXCEPT !.payments[i].stale = TRUE])
    /\ UNCHANGED gateway

\* expire_stale_reservations on the hold of an order, 120 minutes after checkout:
\* later than the 30 minutes after which its first payment is stale.
HoldExpires(o) ==
    /\ order[o].hold = "active"
    /\ order[o].payments[1].status \in {"pending", "processing"} => order[o].payments[1].stale
    /\ Write(o, [order[o] EXCEPT !.hold = "expired"])
    /\ UNCHANGED gateway

\* Defect: the cleaner fails the payment and leaves its order as it is.
CleanUpPaymentOnly(o, i) ==
    LET p == order[o].payments[i]
    IN  /\ o \in Online
        /\ p.provider = "zarinpal" /\ p.status = "processing" /\ p.stale
        /\ Write(o, [SetPayment(order[o], i, "failed") EXCEPT !.cart = FALSE])
        /\ UNCHANGED gateway

cleanup_stale_online_payment(o, i) ==
    LET r == order[o]
        p == r.payments[i]
    IN  /\ o \in Online \cup Stripe
        /\ p.provider \in {"zarinpal", "stripe"} /\ p.status = "processing" /\ p.stale
        /\ r.payment_status \notin Successful
        /\ r.status \notin {"cancelled", "refunded", "delivered"}
        /\ \E s \in mark_failed(r, i) : Write(o, [s EXCEPT !.cart = FALSE])
        /\ UNCHANGED gateway

-----------------------------------------------------------------------------
(* Staff at the admin site, the kitchen and the pickup screen. *)

StaffCancel(o) == \E r \in cancel(order[o]) : Write(o, r) /\ UNCHANGED gateway

StaffRequestRefund(o) == \E r \in request_refund(order[o]) : Write(o, r) /\ UNCHANGED gateway

StaffProcessRefund(o) == \E r \in process_refund(order[o]) : Write(o, r) /\ UNCHANGED gateway

StaffAdvance(o, s) ==
    /\ \E r \in transition(order[o], s) : Write(o, r)
    /\ UNCHANGED gateway

\* complete_pickup_order advances a packaged order and then calls this.
StaffCompleteDelivery(o) ==
    \E r \in complete_delivery(order[o]) : Write(o, r) /\ UNCHANGED gateway

StaffTakesPayment(o) ==
    /\ o \in Counter
    /\ order[o].payments[1].status \in {"pending", "succeeded"}
    /\ \E r \in mark_counter_payment_received(order[o], 1) : Write(o, r)
    /\ UNCHANGED gateway

\* Defect: a session is opened at the gateway before the open checkout is found.
StaffOpensSession(o) ==
    /\ o \notin Stripe
    /\ MorePayments
    /\ \E r \in initiate_online(order[o]) :
          /\ Write(o, r)
          /\ gateway' = [gateway EXCEPT ![o] = request_payment(@)]

\* create_checkout_session and the admin action of the same purpose, for any order
\* while the provider is Zarinpal.
StaffCreatesCheckout(o) ==
    /\ o \notin Stripe
    /\ MorePayments
    /\ \E r \in initiate_online(order[o]) :
          /\ Write(o, r)
          /\ gateway' = IF r = order[o] THEN gateway
                        ELSE [gateway EXCEPT ![o] = request_payment(@)]

-----------------------------------------------------------------------------
Init ==
    /\ order = [o \in Orders |-> NotPlaced]
    /\ gateway = [o \in Orders |-> << >>]

Checkout == \E o \in Orders : process_checkout(o) \/ process_counter_checkout(o)

Callback(o, i) ==
    \/ CallbackSettled(o, i)
    \/ CallbackNotOK(o, i)
    \/ CallbackVerified(o, i)
    \/ CallbackNotVerified(o, i)
    \/ CallbackRaises(o, i)
    \/ CallbackDies(o, i)

Staff(o) ==
    \/ StaffCancel(o)
    \/ StaffRequestRefund(o)
    \/ StaffProcessRefund(o)
    \/ \E s \in {"preparing", "packaged", "out_for_delivery"} : StaffAdvance(o, s)
    \/ StaffCompleteDelivery(o)
    \/ StaffTakesPayment(o)
    \/ StaffCreatesCheckout(o)

OnPlaced(o) ==
    \/ \E i \in DOMAIN gateway[o] : CustomerPays(o, i) \/ Callback(o, i)
    \/ \E i \in DOMAIN gateway[o] : PaymentGoesStale(o, i) \/ cleanup_stale_online_payment(o, i)
    \/ HoldExpires(o)
    \/ CartMovesOn(o)
    \/ Staff(o)

Next == Checkout \/ \E o \in Orders : Placed(o) /\ OnPlaced(o)

Spec == Init /\ [][Next]_vars

\* Time passes, and Celery beat starts the cleaner every few minutes for ever.
\* Customers, browsers and staff need not do anything.
FairSpec ==
    /\ Spec
    /\ \A o \in Orders : \A i \in 1 .. MaxPayments :
          /\ WF_vars(Placed(o) /\ i \in DOMAIN gateway[o] /\ PaymentGoesStale(o, i))
          /\ WF_vars(Placed(o) /\ i \in DOMAIN gateway[o] /\ cleanup_stale_online_payment(o, i))

-----------------------------------------------------------------------------
(* Properties. *)

\* Type correctness: the gateway knows a session per payment record.
TypeOK ==
    \A o \in Orders :
        \/ order[o] = NotPlaced /\ gateway[o] = << >>
        \/ /\ order[o] \in Records
           /\ gateway[o] \in Seq(Sessions)
           /\ Len(order[o].payments) > 0
           /\ Len(gateway[o]) = Len(order[o].payments)

PaymentsOf(o, s) == {i \in DOMAIN order[o].payments : order[o].payments[i].status = s}

\* An order counts as paid only on the strength of a payment record that
\* succeeded, whatever callbacks, staff and the cleaner did before.
PaidOnRecord ==
    \A o \in Orders : Placed(o) =>
        (order[o].payment_status \in Successful => PaymentsOf(o, "succeeded") # {})

\* A cancelled or refunded order holds no stock, and no late callback, counter
\* payment or new checkout session gives it any.
ClosedHoldsNothing ==
    \A o \in Orders : Placed(o) =>
        (order[o].status \in Closed => order[o].hold \notin {"active", "confirmed"})

\* A payment that was settled once, whatever became of it since.
Settled(r) == {i \in DOMAIN r.payments : r.payments[i].status \in {"succeeded", "refunded"}}

\* An order is sold once.  Several sessions of an order may be open at the provider, at
\* Zarinpal after a failure and at Stripe after every request, and the customer may pay
\* each of them; but when a payment of the order was settled before, be it refunded
\* since or its refund requested, no other payment makes the order paid again.  Only
\* cash that staff collect on delivery does.
PaidOnce ==
    [][\A o \in Orders \ Cod :
          (/\ Placed(o) /\ order[o].payment_status \notin Successful
           /\ order'[o].payment_status \in Successful) => Settled(order[o]) = {}]_vars

\* A paid order is cancelled by staff only: a late or repeated callback of any of
\* its payments and the cleaner of stale payments leave it alone.
OnlyStaffCancelPaid ==
    [][\A o \in Orders :
          (/\ Placed(o) /\ order[o].payment_status \in Successful /\ order[o].status # "cancelled"
           /\ order'[o].status = "cancelled") => StaffCancel(o)]_vars

\* The provider itself has ended every session of the order.
SessionsExpired(o) == \A i \in DOMAIN order[o].payments : order[o].payments[i].status = "cancelled"

\* An online checkout is not left pending for ever: it is paid or, at the latest
\* when the cleaner finds its payment stale, cancelled.  The one exception is an
\* order whose sessions Stripe has reported as expired before the cleaner came.
PendingEnds ==
    \A o \in Online \cup Stripe :
        (order[o].status = "pending_payment")
            ~> (order[o].status = "pending_payment" => SessionsExpired(o))


\* "After successful payment or receipt of payment at the counter, the order's
\* reservation is confirmed".
PaidConfirmsHold ==
    [][\A o \in Orders :
          (Placed(o) /\ order[o].payment_status # "paid" /\ order'[o].payment_status = "paid")
              => order'[o].hold = "confirmed"]_vars

=============================================================================
