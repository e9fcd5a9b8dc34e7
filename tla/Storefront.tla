----------------------------- MODULE Storefront -----------------------------
(***************************************************************************)
(* Carts and checkout on top of the stock service: apps/cart/services.py,  *)
(* the two checkouts (delivery/services.py, counter_checkout.py) and       *)
(* orders/services/__init__.py, as web workers interleave them.            *)
(*                                                                         *)
(* PostgreSQL runs the requests at READ COMMITTED.  What a request reads   *)
(* before it takes a row lock may be stale when it commits, so a request   *)
(* is a sequence of steps: the unlocked reads, then one commit.  Two facts *)
(* about the locks are used.  A checkout locks the cart row and its items  *)
(* FOR UPDATE from its start to its end; inserting or updating an item of  *)
(* the cart, or inserting a reservation of it, needs a lock that conflicts *)
(* with those, so no such commit falls inside a checkout of the same cart  *)
(* (a deadlock ends with the rollback of one of the two).  And an UPDATE   *)
(* of an item that was deleted meanwhile raises, which rolls back.         *)
(*                                                                         *)
(* Operators marked "Defect" are faulty variants of the definition below   *)
(* them, kept to show that a property notices the fault.                   *)
(***************************************************************************)
EXTENDS Inventory

CONSTANTS
    Workers,   \* web workers: each serves one request at a time
    NoOrder    \* NULL in Cart.active_checkout_order

ASSUME WorkersAssumption == IsFiniteSet(Workers) /\ NoOrder \notin Orders

VARIABLES
    items,                  \* CartItem.quantity, per cart and product; 0 is no row
    active_checkout_order,  \* Cart.active_checkout_order
    phase,                  \* of each order, what is_order_checkout_in_progress can see
    request                 \* what each worker is doing

storeVars == <<vars, items, active_checkout_order, phase, request>>
cartVars == <<items, active_checkout_order, phase>>

\* An online order is pending until it is paid; a paid order that the kitchen has
\* not begun may have a refund requested.  "done" is cancelled or in preparation.
Phases == {"none", "pending", "paid", "refund_requested", "counter", "done"}

\* The orders for which is_order_checkout_in_progress holds.
InProgress == {o \in Orders : phase[o] \in {"pending", "refund_requested"}}

Idle == [pc |-> "idle"]

Requests ==
    [pc : {"get_item", "set_item"}, cart : Carts, product : Products, quantity : Quantities]
    \cup [pc : {"save_item"}, cart : Carts, product : Products,
          quantity : Quantities, read : 0 .. MaxQty]
    \cup [pc : {"release_hold", "delete_item"}, cart : Carts, product : Products]
    \cup [pc : {"online_checkout", "counter_checkout"}, cart : Carts]

Serving(w, pc) == request[w].pc = pc

\* A checkout of cart c holds its locks.
Locked(c) == \E w \in Workers : /\ request[w].pc \in {"online_checkout", "counter_checkout"}
                                /\ request[w].cart = c

\* The request of w ends, by commit or by rollback.
Done(w) == request' = [request EXCEPT ![w] = Idle]

-----------------------------------------------------------------------------
(* What a request reads. *)

\* ensure_cart_mutable does not raise.
ensure_cart_mutable(c) == active_checkout_order[c] \notin InProgress

\* The units of p that check_cart_availability offers: with a cart, the cart's
\* own ACTIVE hold counts as free.
Offered(p, own) == available_quantity(p, reserved_quantity) + own

OwnHold(c, p) == IF reservation[c][p].status = "active" THEN reservation[c][p].quantity ELSE 0

\* check_cart_availability does not raise for n units of p.
check_cart_availability(p, n, own) ==
    /\ availability_status[p] = "available"
    /\ p \in Tracked => n <= Offered(p, own)

\* _validate_cart_items: the checkout asks without naming the cart.
validate_cart_items(c) ==
    /\ \E p \in Products : items[c][p] > 0
    /\ \A p \in Products : items[c][p] > 0 => check_cart_availability(p, items[c][p], 0)

-----------------------------------------------------------------------------
(* add_item: check, get_or_create, then save and reserve. *)

BeginAdd(w, c, p, n) ==
    /\ Serving(w, "idle")
    /\ ensure_cart_mutable(c)
    /\ check_cart_availability(p, items[c][p] + n, OwnHold(c, p))
    /\ request' = [request EXCEPT ![w] =
           [pc |-> "get_item", cart |-> c, product |-> p, quantity |-> n]]
    /\ UNCHANGED <<vars, cartVars>>

\* The SELECT of get_or_create: the quantity that item.quantity += n starts from.
GetItem(w) ==
    /\ Serving(w, "get_item")
    /\ request' = [request EXCEPT ![w] =
           [pc |-> "save_item", cart |-> request[w].cart, product |-> request[w].product,
            quantity |-> request[w].quantity,
            read |-> items[request[w].cart][request[w].product]]]
    /\ UNCHANGED <<vars, cartVars>>

\* Defect: a cart that already has a hold on p keeps it as it is.
SaveAndReserveOnce(c, p, q) ==
    /\ q <= MaxQty
    /\ ~Locked(c)
    /\ items' = [items EXCEPT ![c][p] = q]
    /\ \/ p \in Tracked /\ OwnHold(c, p) = 0 /\ reserve_for_cart_item(c, p, q)
       \/ (p \notin Tracked \/ OwnHold(c, p) > 0) /\ UNCHANGED vars
    /\ UNCHANGED <<active_checkout_order, phase>>

\* The cart item gets quantity q and the hold is replaced, in one transaction.
SaveAndReserve(c, p, q) ==
    /\ q <= MaxQty
    /\ ~Locked(c)
    /\ items' = [items EXCEPT ![c][p] = q]
    /\ \/ p \in Tracked /\ reserve_for_cart_item(c, p, q)
       \/ p \notin Tracked /\ UNCHANGED vars
    /\ UNCHANGED <<active_checkout_order, phase>>

\* If the SELECT found no row, the INSERT or, when somebody else has inserted the
\* row meanwhile, a second SELECT supplies the current quantity.  If it found
\* one, the UPDATE writes read + n over whatever is there, and needs the row.
SaveItem(w) ==
    LET r == request[w]
        c == r.cart
        p == r.product
    IN  /\ Serving(w, "save_item")
        /\ \/ r.read = 0 /\ SaveAndReserve(c, p, items[c][p] + r.quantity)
           \/ r.read > 0 /\ items[c][p] > 0 /\ SaveAndReserve(c, p, r.read + r.quantity)
        /\ Done(w)

(* set_item_quantity: check, then get_or_create, save and reserve. *)

BeginSet(w, c, p, n) ==
    /\ Serving(w, "idle")
    /\ ensure_cart_mutable(c)
    /\ check_cart_availability(p, n, OwnHold(c, p))
    /\ request' = [request EXCEPT ![w] =
           [pc |-> "set_item", cart |-> c, product |-> p, quantity |-> n]]
    /\ UNCHANGED <<vars, cartVars>>

SetItem(w) ==
    /\ Serving(w, "set_item")
    /\ SaveAndReserve(request[w].cart, request[w].product, request[w].quantity)
    /\ Done(w)

(* remove_item: check, then two transactions, one that releases the hold and *)
(* one that deletes the item.  The DELETE waits for a checkout of the cart.  *)

BeginRemove(w, c, p) ==
    /\ Serving(w, "idle")
    /\ ensure_cart_mutable(c)
    /\ request' = [request EXCEPT ![w] =
           [pc |-> "release_hold", cart |-> c, product |-> p]]
    /\ UNCHANGED <<vars, cartVars>>

ReleaseHold(w) ==
    /\ Serving(w, "release_hold")
    /\ release_cart_reservations_for_product(request[w].cart, request[w].product)
    /\ request' = [request EXCEPT ![w] =
           [pc |-> "delete_item", cart |-> request[w].cart, product |-> request[w].product]]
    /\ UNCHANGED cartVars

\* Defect: one unit is taken off an item that may be gone already.
DecrementItem(w) ==
    /\ Serving(w, "delete_item")
    /\ ~Locked(request[w].cart)
    /\ items' = [items EXCEPT ![request[w].cart][request[w].product] = @ - 1]
    /\ Done(w)
    /\ UNCHANGED <<vars, active_checkout_order, phase>>

\* Defect: the hold is deleted along with the item, without giving back its units.
DeleteItemAndHold(w) ==
    /\ Serving(w, "delete_item")
    /\ ~Locked(request[w].cart)
    /\ items' = [items EXCEPT ![request[w].cart][request[w].product] = 0]
    /\ reservation' = [reservation EXCEPT ![request[w].cart][request[w].product] =
                          DeadRow("none")]
    /\ Done(w)
    /\ UNCHANGED <<stock_quantity, reserved_quantity, capacityVars, availability_status,
                   today, active_checkout_order, phase>>

DeleteItem(w) ==
    /\ Serving(w, "delete_item")
    /\ ~Locked(request[w].cart)
    /\ items' = [items EXCEPT ![request[w].cart][request[w].product] = 0]
    /\ Done(w)
    /\ UNCHANGED <<vars, active_checkout_order, phase>>

-----------------------------------------------------------------------------
(* The two checkouts: lock the cart, validate it, then commit everything.  A *)
(* second online checkout of a cart in checkout returns the existing order   *)
(* and changes nothing.                                                      *)

\* Defect: a checkout that does not look for an order in progress.
BeginAnotherCheckout(w, c) ==
    /\ Serving(w, "idle")
    /\ ~Locked(c)
    /\ validate_cart_items(c)
    /\ request' = [request EXCEPT ![w] = [pc |-> "online_checkout", cart |-> c]]
    /\ UNCHANGED <<vars, cartVars>>

BeginOnlineCheckout(w, c) ==
    /\ Serving(w, "idle")
    /\ ~Locked(c)
    /\ active_checkout_order[c] \notin InProgress
    /\ validate_cart_items(c)
    /\ request' = [request EXCEPT ![w] = [pc |-> "online_checkout", cart |-> c]]
    /\ UNCHANGED <<vars, cartVars>>

BeginCounterCheckout(w, c) ==
    /\ Serving(w, "idle")
    /\ ~Locked(c)
    /\ validate_cart_items(c)
    /\ request' = [request EXCEPT ![w] = [pc |-> "counter_checkout", cart |-> c]]
    /\ UNCHANGED <<vars, cartVars>>

\* Defect: the cart keeps its items.
CopyToOrder(c, o, s) ==
    /\ phase[o] = "none"
    /\ finalize_checkout_stock(c, o, items[c])
    /\ phase' = [phase EXCEPT ![o] = s]
    /\ UNCHANGED items

\* finalize_checkout_stock moves the holds and clears the cart's items.
MoveToOrder(c, o, s) ==
    /\ phase[o] = "none"
    /\ finalize_checkout_stock(c, o, items[c])
    /\ items' = [items EXCEPT ![c] = [p \in Products |-> 0]]
    /\ phase' = [phase EXCEPT ![o] = s]

\* The gateway's answer to initiate_online arrives inside the transaction; an
\* error of it, like any other, rolls the whole checkout back (RollBack).
CommitOnlineCheckout(w, o) ==
    LET c == request[w].cart
    IN  /\ Serving(w, "online_checkout")
        /\ MoveToOrder(c, o, "pending")
        /\ active_checkout_order' = [active_checkout_order EXCEPT ![c] = o]
        /\ Done(w)

\* A counter order starts as AWAITING_PAYMENT, which is not "in progress".
CommitCounterCheckout(w, o) ==
    /\ Serving(w, "counter_checkout")
    /\ MoveToOrder(request[w].cart, o, "counter")
    /\ Done(w)
    /\ UNCHANGED active_checkout_order

\* The request raises, loses a deadlock or its worker dies: the transaction
\* that is open has no effect.
RollBack(w) ==
    /\ ~Serving(w, "idle")
    /\ Done(w)
    /\ UNCHANGED <<vars, cartVars>>

-----------------------------------------------------------------------------
(* What becomes of an order, as far as carts and stock can see. *)

\* The order is paid: by callback for an online order, at the counter otherwise.
OrderPaid(o) ==
    /\ phase[o] \in {"pending", "counter"}
    /\ confirm_reservations(o)
    /\ phase' = [phase EXCEPT ![o] = IF phase[o] = "pending" THEN "paid" ELSE "done"]
    /\ UNCHANGED <<items, active_checkout_order, request>>

\* request_refund on a paid order: its cart is "in checkout" once more.
RefundRequested(o) ==
    /\ phase[o] = "paid"
    /\ phase' = [phase EXCEPT ![o] = "refund_requested"]
    /\ UNCHANGED <<vars, items, active_checkout_order, request>>

PreparationBegins(o) ==
    /\ phase[o] \in {"paid", "refund_requested"}
    /\ phase' = [phase EXCEPT ![o] = "done"]
    /\ UNCHANGED <<vars, items, active_checkout_order, request>>

\* The order is delivered or picked up: its units leave the stock.
OrderHandedOver(o) ==
    /\ phase[o] = "done"
    /\ fulfill_reservations(o)
    /\ UNCHANGED <<cartVars, request>>

\* The payment failed, or the order is cancelled or refunded.
OrderClosed(o) ==
    /\ phase[o] # "none"
    /\ release_reservations(o)
    /\ phase' = [phase EXCEPT ![o] = "done"]
    /\ UNCHANGED <<items, active_checkout_order, request>>

\* cleanup_stale_online_payment cancels the order and clears the cart's lock.
CleanUpStaleOrder(o) ==
    /\ phase[o] = "pending"
    /\ release_reservations(o)
    /\ phase' = [phase EXCEPT ![o] = "done"]
    /\ active_checkout_order' = [c \in Carts |->
           IF active_checkout_order[c] = o THEN NoOrder ELSE active_checkout_order[c]]
    /\ UNCHANGED <<items, request>>

-----------------------------------------------------------------------------
StoreInit ==
    /\ Init
    /\ items = [c \in Carts |-> [p \in Products |-> 0]]
    /\ active_checkout_order = [c \in Carts |-> NoOrder]
    /\ phase = [o \in Orders |-> "none"]
    /\ request = [w \in Workers |-> Idle]

CartRequest(w) ==
    \/ \E c \in Carts, p \in Products, n \in Quantities : BeginAdd(w, c, p, n)
    \/ GetItem(w)
    \/ SaveItem(w)
    \/ \E c \in Carts, p \in Products, n \in Quantities : BeginSet(w, c, p, n)
    \/ SetItem(w)
    \/ \E c \in Carts, p \in Products : BeginRemove(w, c, p)
    \/ ReleaseHold(w)
    \/ DeleteItem(w)

CheckoutRequest(w) ==
    \/ \E c \in Carts : BeginOnlineCheckout(w, c)
    \/ \E c \in Carts : BeginCounterCheckout(w, c)
    \/ \E o \in Orders : CommitOnlineCheckout(w, o)
    \/ \E o \in Orders : CommitCounterCheckout(w, o)

OrderOutcome(o) ==
    \/ OrderPaid(o)
    \/ RefundRequested(o)
    \/ PreparationBegins(o)
    \/ OrderHandedOver(o)
    \/ OrderClosed(o)
    \/ CleanUpStaleOrder(o)

StockHouseKeeping ==
    /\ \/ \E o \in Owners, p \in Products : HoldTimesOut(o, p)
       \/ expire_stale_reservations
    /\ UNCHANGED <<cartVars, request>>

StoreNext ==
    \/ \E w \in Workers : CartRequest(w) \/ CheckoutRequest(w) \/ RollBack(w)
    \/ \E o \in Orders : OrderOutcome(o)
    \/ StockHouseKeeping

StoreSpec == StoreInit /\ [][StoreNext]_storeVars

-----------------------------------------------------------------------------
(* Properties. *)

\* Type correctness of carts and requests.
StoreTypeOK ==
    /\ items \in [Carts -> Items]
    /\ active_checkout_order \in [Carts -> Orders \cup {NoOrder}]
    /\ phase \in [Orders -> Phases]
    /\ request \in [Workers -> {Idle} \cup Requests]

\* However often the customer submits the form, and from however many tabs, a
\* cart has at most one online order that waits for payment, and it is the one
\* the cart points to: no pending order is forgotten by its cart.
PendingIsActive ==
    \A o \in Orders : phase[o] = "pending" => \E c \in Carts : active_checkout_order[c] = o

\* The hold that a cart has on a product is for the quantity the cart shows, for
\* as long as the item is there: two requests that change the same item never
\* leave the quantity of one with the hold of the other.
HoldFitsItem ==
    \A c \in Carts, p \in Products :
        reservation[c][p].status = "active" => items[c][p] \in {0, reservation[c][p].quantity}

\* Every step of the storefront is, for the stock, a transaction of the stock
\* service, so all that is shown of Inventory!Spec holds here as well.
UsesStockService == Spec

\* A checkout takes the cart as it is when it commits, whatever was added, set
\* or removed while it ran: a new order holds exactly what some cart contained,
\* and of that nothing is left in the cart or still promised to it.
NoRows == [p \in Products |-> DeadRow("none")]

OrderTakesCart ==
    [][\A o \in Orders :
          (reservation[o] = NoRows /\ reservation'[o] # NoRows) =>
              \E c \in Carts : \A p \in Products :
                  /\ reservation'[o][p].quantity = items[c][p]
                  /\ items'[c][p] = 0
                  /\ reservation'[c][p].status # "active"]_storeVars

\* Parallel checkouts do not promise more than the stock, whatever allow_preorder.
NeverOversold == \A p \in Tracked : reserved_quantity[p] <= stock_quantity[p]

=============================================================================
