--------------------------- MODULE StripeWebhooks ---------------------------
(***************************************************************************)
(* Stripe as the payment provider (payments/providers/stripe.py).  Unlike  *)
(* Zarinpal, it tells the shop what happened by events that have ids of    *)
(* their own: an event is sent again, in no particular order, until it is  *)
(* answered with 200, and a second delivery of a processed event changes   *)
(* nothing (process_webhook), so that only the events that are still to be *)
(* processed are state.                                                    *)
(***************************************************************************)
EXTENDS OrderPayments

VARIABLE webhooks   \* events of Stripe that are not processed yet, per order

stripeVars == <<order, gateway, webhooks>>

Events == [kind : {"completed", "expired", "payment_failed", "refunded"},
           payment : Nat \ {0}]

-----------------------------------------------------------------------------
(* PaymentService.initiate_online: no session of Stripe is ever used again. *)

initiate_stripe(r) ==
    IF r.payment_status \in Successful THEN {}
    ELSE {[r EXCEPT !.payments = Append(@, NewPayment("stripe", "processing")),
                    !.payment_status = "pending_payment"]}

process_stripe_checkout(o) ==
    /\ o \in Stripe /\ ~Placed(o) /\ Room(o)
    /\ Write(o, [status |-> "pending_payment", payment_status |-> "pending_payment",
                 hold |-> "active", cart |-> TRUE,
                 payments |-> <<NewPayment("stripe", "processing")>>])
    /\ gateway' = [gateway EXCEPT ![o] = <<"session">>]
    /\ UNCHANGED webhooks

create_stripe_checkout(o) ==
    /\ o \in Stripe
    /\ MorePayments
    /\ \E r \in initiate_stripe(order[o]) : Write(o, r)
    /\ gateway' = [gateway EXCEPT ![o] = Append(@, "session")]
    /\ UNCHANGED webhooks

-----------------------------------------------------------------------------
(* What happens at Stripe. *)

Emit(o, kind, i) ==
    webhooks' = [webhooks EXCEPT ![o] = @ \cup {[kind |-> kind, payment |-> i]}]

\* The customer pays; or, a day after its creation, the session expires; or the
\* charge is refunded in Stripe's dashboard.
SessionStep(o, i, from, to, kind) ==
    /\ gateway[o][i] = from
    /\ gateway' = [gateway EXCEPT ![o][i] = to]
    /\ Emit(o, kind, i)
    /\ UNCHANGED order

CustomerPaysStripe(o, i) == SessionStep(o, i, "session", "completed", "completed")

SessionExpires(o, i) ==
    /\ order[o].payments[i].status = "processing" => order[o].payments[i].stale
    /\ SessionStep(o, i, "session", "expired", "expired")

ChargeRefunded(o, i) == SessionStep(o, i, "completed", "returned", "refunded")

\* A card is refused: the session stays open and the customer may try another.
AttemptFails(o, i) ==
    /\ gateway[o][i] = "session"
    /\ Emit(o, "payment_failed", i)
    /\ UNCHANGED <<order, gateway>>

-----------------------------------------------------------------------------
(* handle_webhook_event. *)

handle_checkout_completed(r, i) == mark_paid(r, i)
handle_checkout_expired(r, i) == mark_cancelled(r, i)
handle_payment_failed(r, i) == mark_failed(r, i)
\* Found by its payment intent, which the payment has from the start of its checkout
\* or from its completion on; otherwise the event stays.
handle_charge_refunded(r, i) == process_refund(r)

handle_webhook_event(r, e) ==
    CASE e.kind = "completed"      -> handle_checkout_completed(r, e.payment)
      [] e.kind = "expired"        -> handle_checkout_expired(r, e.payment)
      [] e.kind = "payment_failed" -> handle_payment_failed(r, e.payment)
      [] e.kind = "refunded"       -> handle_charge_refunded(r, e.payment)

\* An event whose handler raises is answered with 500; it stays to be processed.
stripe_webhook(o, e) ==
    /\ e \in webhooks[o]
    /\ \E r \in handle_webhook_event(order[o], e) : Write(o, r)
    /\ webhooks' = [webhooks EXCEPT ![o] = @ \ {e}]
    /\ UNCHANGED gateway

-----------------------------------------------------------------------------
StripeInit == Init /\ webhooks = [o \in Orders |-> {}]

AtStripe(o) ==
    \/ create_stripe_checkout(o)
    \/ \E i \in DOMAIN gateway[o] :
          \/ CustomerPaysStripe(o, i)
          \/ SessionExpires(o, i)
          \/ ChargeRefunded(o, i)
          \/ AttemptFails(o, i)
    \/ \E e \in webhooks[o] : stripe_webhook(o, e)

StripeNext ==
    \/ Next /\ UNCHANGED webhooks
    \/ \E o \in Stripe : process_stripe_checkout(o)
    \/ \E o \in Stripe : Placed(o) /\ AtStripe(o)

-----------------------------------------------------------------------------
\* Type correctness: an event is about a payment of its order.
WebhooksTypeOK ==
    /\ TypeOK
    /\ webhooks \in [Orders -> SUBSET Events]
    /\ \A o \in Orders : \A e \in webhooks[o] : e.payment \in DOMAIN gateway[o]

=============================================================================
