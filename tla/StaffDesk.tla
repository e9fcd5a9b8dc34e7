----------------------------- MODULE StaffDesk -----------------------------
(***************************************************************************)
(* The staff's screens: the kitchen queue, the pickup screen, the order    *)
(* lookup, the dashboard and the shift summary (apps/core), the customer's *)
(* timeline (orders/customer_status.py), and the admin actions on legacy   *)
(* orders that are paid in cash on delivery.                               *)
(*                                                                         *)
(* A button of the kitchen or the pickup screen loads the order from the   *)
(* list, without a lock, and then runs one or two transactions on it: the  *)
(* order may change in between, by other staff or by a webhook, and the    *)
(* worker may die between the two.                                         *)
(*                                                                         *)
(* Most lists show a limited number of orders, the oldest or the newest;   *)
(* the kitchen queue and the pickup screen show all of theirs.             *)
(***************************************************************************)
EXTENDS StripeWebhooks

CONSTANTS
    localdate,              \* the date on which an order is placed
    DASHBOARD_LIMIT,        \* rows of a list on the dashboard and in the task center
    DEFAULT_LOOKUP_LIMIT,   \* rows of the order lookup
    PICKUP_LIST_LIMIT       \* rows of the lists in the shift summary

ASSUME ListsAssumption ==
    /\ localdate \in [Orders -> Nat]
    /\ DASHBOARD_LIMIT \in Nat /\ DEFAULT_LOOKUP_LIMIT \in Nat /\ PICKUP_LIST_LIMIT \in Nat

VARIABLE tablet   \* the request of a screen that is being served

deskVars == <<order, gateway, webhooks, tablet>>

Idle == [action |-> "none"]

\* "seen" is the status of the order object in the worker's memory.
Requests == [action : {"start_preparing", "mark_ready", "complete", "hand_over"},
             order : Orders, seen : OrderStatuses]

-----------------------------------------------------------------------------
(* The lists. *)

With(statuses, payment_statuses) ==
    {o \in Orders : Placed(o) /\ order[o].status \in statuses
                              /\ order[o].payment_status \in payment_statuses}

\* order_by("created_at")[:n] and order_by("-created_at")[:n].
First(S, n) == {o \in S : Cardinality({q \in S : created_at[q] < created_at[o]}) < n}
Latest(S, n) == {o \in S : Cardinality({q \in S : created_at[q] > created_at[o]}) < n}

KITCHEN_QUEUE_STATUSES == {"paid", "confirmed_by_shop", "preparing", "packaged"}
KITCHEN_PAYMENT_STATUSES == {"paid", "cod_confirmed", "cash_received"}

kitchen_order_queryset == With(KITCHEN_QUEUE_STATUSES, KITCHEN_PAYMENT_STATUSES)

\* kitchen_queue shows it in three columns.
KitchenColumns == [waiting   |-> {"paid", "confirmed_by_shop"},
                   preparing |-> {"preparing"},
                   ready     |-> {"packaged"}]

partition_kitchen_orders(column) ==
    {o \in kitchen_order_queryset : order[o].status \in KitchenColumns[column]}

pickup_screen_queryset == With({"packaged"}, KITCHEN_PAYMENT_STATUSES)

\* core/order_lookup.py: what is listed without a search term.
active_orders == With(OrderStatuses \ {"delivered", "cancelled", "refunded"}, PaymentStatuses)

recent_active_orders == Latest(active_orders, DEFAULT_LOOKUP_LIMIT)

\* What search_orders finds may be any order; each has a link to the screens that
\* are said to show it.
order_is_kitchen_relevant(o) ==
    /\ order[o].status \in KITCHEN_QUEUE_STATUSES
    /\ order[o].payment_status \in
           KITCHEN_PAYMENT_STATUSES \ {"pending_payment", "failed", "cod_pending"}

order_is_pickup_relevant(o) ==
    order[o].status = "packaged" /\ order[o].payment_status \in KITCHEN_PAYMENT_STATUSES

\* The dashboard: new orders, orders the till waits for, legacy cash to collect and
\* the orders the kitchen works on; of each the oldest.
Oldest(S) == First(S, DASHBOARD_LIMIT)

new_orders == Oldest(With({"pending_payment", "confirmed_by_shop"}, PaymentStatuses))

awaiting_counter_payment ==
    Oldest(Counter \cap With({"awaiting_payment"}, PaymentStatuses \ {"paid"}))

legacy_cod_to_collect == Oldest(Cod \cap With(OrderStatuses \ Closed, {"cod_pending"}))

orders_in_preparation ==
    Oldest(With({"confirmed_by_shop", "preparing", "packaged"}, PaymentStatuses))

\* The task center (ops_dashboard): the orders of each status.
ops_lists ==
    [pending_payment   |-> Oldest(With({"pending_payment"}, PaymentStatuses)),
     awaiting_payment  |-> awaiting_counter_payment,
     confirmed_by_shop |-> Oldest(With({"confirmed_by_shop"}, PaymentStatuses)),
     preparing         |-> Oldest(With({"preparing"}, PaymentStatuses)),
     packaged          |-> Oldest(With({"packaged"}, PaymentStatuses)),
     out_for_delivery  |-> Oldest(With({"out_for_delivery"}, PaymentStatuses))]

\* The shift summary of a date: the orders whose totals are the sales of the day, and
\* the orders still to be handed over.
orders_for_shift_date(d) == {o \in Orders : Placed(o) /\ localdate[o] = d}

paid_orders_for_shift(d) ==
    orders_for_shift_date(d) \cap With(OrderStatuses \ Closed, KITCHEN_PAYMENT_STATUSES)

ready_pickup(d) ==
    First(orders_for_shift_date(d) \cap With({"packaged"}, KITCHEN_PAYMENT_STATUSES),
          PICKUP_LIST_LIMIT)

pending_pickup(d) ==
    First(orders_for_shift_date(d)
              \cap With({"paid", "confirmed_by_shop", "preparing"}, KITCHEN_PAYMENT_STATUSES),
          PICKUP_LIST_LIMIT)

\* The customer's timeline.
map_order_status_to_timeline_key(s) ==
    CASE s \in {"awaiting_payment", "pending_payment"}       -> "awaiting_payment"
      [] s \in {"paid", "confirmed_by_shop", "preparing"}    -> "preparing"
      [] s = "packaged"                                      -> "ready"
      [] s = "delivered"                                     -> "delivered"
      [] s \in {"out_for_delivery", "cancelled", "refunded"} -> "none"

\* CUSTOMER_TIMELINE_STEPS, as the position of each key.
TimelineStep == [awaiting_payment |-> 1, preparing |-> 2, ready |-> 3, delivered |-> 4]

\* build_order_status_timeline: the step that is shown as the current one; those before
\* it are complete.
current_index(s) == TimelineStep[map_order_status_to_timeline_key(s)]

-----------------------------------------------------------------------------
(* The buttons. *)

Load(o, a) ==
    /\ tablet = Idle
    /\ tablet' = [action |-> a, order |-> o, seen |-> order[o].status]
    /\ UNCHANGED <<order, gateway, webhooks>>

kitchen_action(o, a) == o \in kitchen_order_queryset /\ Load(o, a)

pickup_action(o) == o \in pickup_screen_queryset /\ Load(o, "complete")

\* The request commits one of R and goes on with "next"; if its handler raises (R
\* is empty), nothing is written and the request ends with a message.
Transact(R, next) ==
    LET o == tablet.order
    IN  /\ IF R = {} THEN UNCHANGED order /\ tablet' = Idle
           ELSE \E r \in R : Write(o, r) /\ tablet' = next
        /\ UNCHANGED <<gateway, webhooks>>

\* An order that was seen as paid is confirmed first and loaded again; one that
\* was seen in any other status is refused.
start_preparing ==
    LET o == tablet.order
    IN  /\ tablet.action = "start_preparing"
        /\ CASE tablet.seen = "paid" ->
                    Transact(transition(order[o], "confirmed_by_shop"),
                             [tablet EXCEPT !.seen = "confirmed_by_shop"])
             [] tablet.seen = "confirmed_by_shop" ->
                    Transact(transition(order[o], "preparing"), Idle)
             [] OTHER -> Transact({}, Idle)

\* Defect: the order is judged by the status that was loaded with the screen.
MarkReadyAsSeen ==
    /\ tablet.action = "mark_ready"
    /\ Transact(IF can_transition(tablet.seen, "packaged")
                THEN {[order[tablet.order] EXCEPT !.status = "packaged"]} ELSE {}, Idle)

mark_ready ==
    /\ tablet.action = "mark_ready"
    /\ Transact(transition(order[tablet.order], "packaged"), Idle)

\* complete_pickup_order: two transactions for a packaged order.
complete_pickup_order ==
    /\ tablet.action = "complete"
    /\ IF tablet.seen = "packaged"
       THEN Transact(transition(order[tablet.order], "out_for_delivery"),
                     [tablet EXCEPT !.action = "hand_over"])
       ELSE Transact(complete_delivery(order[tablet.order]), Idle)

HandOver ==
    /\ tablet.action = "hand_over"
    /\ Transact(complete_delivery(order[tablet.order]), Idle)

\* The worker dies between two transactions of a request.
WorkerDies ==
    /\ tablet # Idle
    /\ tablet' = Idle
    /\ UNCHANGED <<order, gateway, webhooks>>

-----------------------------------------------------------------------------
(* Legacy orders that are paid in cash on delivery. *)

\* finalize_cod_placement and initiate_cod, at the checkout of earlier releases:
\* today's checkout refuses the payment method.
finalize_cod_placement(o) ==
    /\ o \in Cod /\ ~Placed(o) /\ Room(o)
    /\ Write(o, [status |-> "confirmed_by_shop", payment_status |-> "cod_pending",
                 hold |-> "active", cart |-> FALSE,
                 payments |-> <<NewPayment("cod", "pending")>>])
    /\ gateway' = [gateway EXCEPT ![o] = <<"none">>]
    /\ UNCHANGED <<webhooks, tablet>>

StaffConfirmsCod(o) ==
    /\ \E r \in confirm_cod(order[o]) : Write(o, r)
    /\ UNCHANGED <<gateway, webhooks, tablet>>

\* create_checkout_session on such an order adds a payment to be collected.
StaffInitiatesCod(o) ==
    /\ MorePayments
    /\ \E r \in initiate_cod(order[o]) : Write(o, r)
    /\ gateway' = [gateway EXCEPT ![o] = Append(@, "none")]
    /\ UNCHANGED <<webhooks, tablet>>

\* The latest payment of the order whose provider is COD.
LatestCod(r) ==
    LET I == {i \in DOMAIN r.payments : r.payments[i].provider = "cod"}
    IN  CHOOSE i \in I : \A j \in I : j <= i

StaffReceivesCash(o) ==
    /\ \E r \in mark_cod_cash_received(order[o], LatestCod(order[o])) : Write(o, r)
    /\ UNCHANGED <<gateway, webhooks, tablet>>

-----------------------------------------------------------------------------
DeskInit == StripeInit /\ tablet = Idle

Buttons ==
    \/ \E o \in Orders : \/ \E a \in {"start_preparing", "mark_ready", "complete"} : kitchen_action(o, a)
                         \/ pickup_action(o)
    \/ start_preparing
    \/ mark_ready
    \/ complete_pickup_order
    \/ HandOver
    \/ WorkerDies

CashOnDelivery ==
    \E o \in Cod : \/ finalize_cod_placement(o)
                   \/ Placed(o) /\ (StaffConfirmsCod(o) \/ StaffInitiatesCod(o) \/ StaffReceivesCash(o))

DeskNext == (StripeNext /\ UNCHANGED tablet) \/ Buttons \/ CashOnDelivery

DeskSpec == DeskInit /\ [][DeskNext]_deskVars

\* The fairness of OrderPayments: time passes and the cleaner is started again.
DeskFairSpec ==
    /\ DeskSpec
    /\ \A o \in Orders : \A i \in 1 .. MaxPayments :
          /\ WF_deskVars(/\ Placed(o) /\ i \in DOMAIN gateway[o] /\ PaymentGoesStale(o, i)
                         /\ UNCHANGED <<webhooks, tablet>>)
          /\ WF_deskVars(/\ Placed(o) /\ i \in DOMAIN gateway[o]
                         /\ cleanup_stale_online_payment(o, i)
                         /\ UNCHANGED <<webhooks, tablet>>)

-----------------------------------------------------------------------------
(* Properties. *)

\* Type correctness, with the request of a screen and the events of Stripe.
DeskTypeOK == WebhooksTypeOK /\ tablet \in Requests \cup {Idle}

\* A limited list is a window on the orders it is about: one that is not listed is
\* kept out by "limit" others.
ShownOrFull(o, list, limit) == o \in list \/ Cardinality(list) >= limit

\* Nobody waits for an order that no screen shows.  An order that counts as sold on some
\* date is in the kitchen queue, which has no limit, on its way or handed over; in the
\* queue it has a column, the column of the ready orders is what the pickup screen shows,
\* and the order lookup links to a screen that has it.  Every order that is not over is on
\* the list of the task center for its status, and until it is on its way on one of the
\* dashboard, unless that list is full of others; an order whose cash is still to be
\* collected is not over; and what the shift summary lists is in the kitchen queue.
SoldIsOnScreen ==
    /\ \A o \in Orders : Placed(o) =>
          /\ o \in paid_orders_for_shift(localdate[o]) =>
                \/ \E c \in DOMAIN KitchenColumns : o \in partition_kitchen_orders(c)
                \/ order[o].status \in {"out_for_delivery", "delivered"}
          /\ order_is_kitchen_relevant(o) <=> \E c \in DOMAIN KitchenColumns : o \in partition_kitchen_orders(c)
          /\ order_is_pickup_relevant(o) <=> o \in pickup_screen_queryset
          /\ o \in ready_pickup(localdate[o]) \cup pending_pickup(localdate[o]) => o \in kitchen_order_queryset
    /\ partition_kitchen_orders("ready") = pickup_screen_queryset
    /\ legacy_cod_to_collect \subseteq active_orders
    /\ \A o \in active_orders :
          /\ order[o].status \in DOMAIN ops_lists
          /\ ShownOrFull(o, ops_lists[order[o].status], DASHBOARD_LIMIT)
          /\ ShownOrFull(o, recent_active_orders, DEFAULT_LOOKUP_LIMIT)
          /\ order[o].status # "out_for_delivery" =>
                \E list \in {new_orders, awaiting_counter_payment, orders_in_preparation} :
                    ShownOrFull(o, list, DASHBOARD_LIMIT)

\* How far an order has come on the customer's timeline.  While an order is on its way
\* the timeline shows no step as reached; it is past "packaged" all the same.
Progress(s) ==
    IF s = "out_for_delivery" THEN 3
    ELSE current_index(s)

\* An order never goes back a step, and a closed order stays closed: not by a stale
\* screen, a double tap, a late payment or a webhook.
NeverBackwards ==
    [][\A o \in Orders : Placed(o) =>
          IF order[o].status \in Closed THEN order'[o].status = order[o].status
          ELSE order'[o].status \in Closed \/ Progress(order'[o].status) >= Progress(order[o].status)
      ]_deskVars

=============================================================================
