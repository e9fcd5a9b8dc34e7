-------------------------- MODULE StorefrontProofs --------------------------
(***************************************************************************)
(* Proofs about the storefront and the sessions in front of it, for any    *)
(* number of products, carts, orders, web workers, browsers, users and     *)
(* session keys: the stock only changes by transactions of the stock       *)
(* service, a cart never loses sight of an order that waits for its        *)
(* payment, no customer sees the order of another account, no session key  *)
(* changes hands, and for carts and stock the requests of a session are    *)
(* those of the storefront.                                                *)
(***************************************************************************)
EXTENDS Accounts, InventoryProofs

LOCAL INSTANCE SequencesExt

-----------------------------------------------------------------------------
(* Carts and checkouts. *)

CheckoutSteps == {"online_checkout", "counter_checkout"}

\* The cart lock: two requests in a checkout of one cart are the same request.
CheckoutIsExclusive ==
    \A v, w \in Workers :
        (/\ request[v].pc \in CheckoutSteps /\ request[w].pc \in CheckoutSteps
         /\ request[v].cart = request[w].cart) => v = w

\* What an online checkout has seen stays true until it commits: the order the
\* cart points to does not wait for payment.
NothingPending ==
    \A w \in Workers : request[w].pc = "online_checkout" =>
        \A o \in Orders : phase[o] = "pending" => active_checkout_order[request[w].cart] # o

\* A cart points to an order that has been placed.
ActiveIsPlaced ==
    \A c \in Carts, o \in Orders : active_checkout_order[c] = o => phase[o] # "none"

\* The inductive invariant of the storefront.
StoreInv ==
    /\ StoreTypeOK
    /\ CheckoutIsExclusive
    /\ NothingPending
    /\ ActiveIsPlaced
    /\ PendingIsActive

-----------------------------------------------------------------------------
\* The fields of a request are those its step uses.
LEMMA RequestFields ==
    ASSUME StoreTypeOK, NEW w \in Workers
    PROVE  /\ request[w].pc \in {"get_item", "set_item"} =>
                 /\ request[w].cart \in Carts
                 /\ request[w].product \in Products
                 /\ request[w].quantity \in Quantities
           /\ request[w].pc = "save_item" =>
                 /\ request[w].cart \in Carts
                 /\ request[w].product \in Products
                 /\ request[w].quantity \in Quantities
                 /\ request[w].read \in 0 .. MaxQty
           /\ request[w].pc \in {"release_hold", "delete_item"} =>
                 request[w].cart \in Carts /\ request[w].product \in Products
           /\ request[w].pc \in CheckoutSteps => request[w].cart \in Carts
  BY DEF StoreTypeOK, Requests, Idle, CheckoutSteps

\* An item and its hold change by one transaction of the stock service.
LEMMA SaveIsService ==
    ASSUME StoreTypeOK, NEW c \in Carts, NEW p \in Products, NEW q \in Nat \ {0},
           SaveAndReserve(c, p, q)
    PROVE  /\ [Next]_vars
           /\ items' \in [Carts -> Items]
           /\ UNCHANGED <<active_checkout_order, phase>>
  <1>1. q \in Quantities /\ q \in 0 .. MaxQty
    BY BoundsAssumption DEF SaveAndReserve, Quantities
  <1>2. [Next]_vars
    BY <1>1 DEF SaveAndReserve, Next, Service
  <1>3. items' \in [Carts -> Items]
    BY <1>1 DEF SaveAndReserve, StoreTypeOK, Items
  <1> QED BY <1>2, <1>3 DEF SaveAndReserve

\* The quantity that add_item saves is positive, so SaveIsService applies.
LEMMA SavedItem ==
    ASSUME StoreTypeOK, NEW w \in Workers, SaveItem(w)
    PROVE  \E q \in Nat \ {0} : SaveAndReserve(request[w].cart, request[w].product, q)
  <1> DEFINE r == request[w]
             stored == items[r.cart][r.product]
  <1>1. /\ r.cart \in Carts /\ r.product \in Products
        /\ r.quantity \in Nat \ {0} /\ r.read \in Nat
    BY RequestFields, BoundsAssumption DEF SaveItem, Serving, Quantities
  <1>2. stored \in Nat
    BY <1>1, BoundsAssumption DEF StoreTypeOK, Items
  <1>3. stored + r.quantity \in Nat \ {0} /\ r.read + r.quantity \in Nat \ {0}
    BY <1>1, <1>2
  <1> QED BY <1>3 DEF SaveItem

-----------------------------------------------------------------------------
\* A step of a request on cart items, or a rollback, leaves the checkouts alone.
LEMMA CartRequestStep ==
    ASSUME StoreInv, NEW w \in Workers, CartRequest(w) \/ RollBack(w)
    PROVE  /\ [Next]_vars
           /\ items' \in [Carts -> Items]
           /\ UNCHANGED <<active_checkout_order, phase>>
           /\ \E x \in {Idle} \cup Requests :
                 x.pc \notin CheckoutSteps /\ request' = [request EXCEPT ![w] = x]
  <1> USE DEF StoreInv, Done, Serving
  <1>0. Idle \in {Idle} \cup Requests /\ Idle.pc \notin CheckoutSteps
    BY DEF Idle, CheckoutSteps
  <1>1. CASE \E c \in Carts, p \in Products, n \in Quantities : BeginAdd(w, c, p, n)
    BY <1>1 DEF BeginAdd, cartVars, Requests, CheckoutSteps, StoreTypeOK
  <1>2. CASE GetItem(w)
    <2>1. items[request[w].cart][request[w].product] \in 0 .. MaxQty
      BY <1>2, RequestFields DEF GetItem, StoreTypeOK, Items
    <2> QED BY <1>2, <2>1, RequestFields
            DEF GetItem, cartVars, Requests, CheckoutSteps, StoreTypeOK
  <1>3. CASE SaveItem(w)
    <2>1. PICK q \in Nat \ {0} : SaveAndReserve(request[w].cart, request[w].product, q)
      BY <1>3, SavedItem
    <2> QED BY <1>0, <1>3, <2>1, RequestFields, SaveIsService DEF SaveItem
  <1>4. CASE \E c \in Carts, p \in Products, n \in Quantities : BeginSet(w, c, p, n)
    BY <1>4 DEF BeginSet, cartVars, Requests, CheckoutSteps, StoreTypeOK
  <1>5. CASE SetItem(w)
    <2>1. request[w].quantity \in Nat \ {0}
      BY <1>5, RequestFields, BoundsAssumption DEF SetItem, Quantities
    <2> QED BY <1>0, <1>5, <2>1, RequestFields, SaveIsService DEF SetItem
  <1>6. CASE \E c \in Carts, p \in Products : BeginRemove(w, c, p)
    BY <1>6 DEF BeginRemove, cartVars, Requests, CheckoutSteps, StoreTypeOK
  <1>7. CASE ReleaseHold(w)
    BY <1>7, RequestFields
    DEF ReleaseHold, cartVars, Requests, CheckoutSteps, StoreTypeOK, Next, Service
  <1>8. CASE DeleteItem(w)
    <2>1. request[w].cart \in Carts /\ request[w].product \in Products /\ 0 \in 0 .. MaxQty
      BY <1>8, RequestFields, BoundsAssumption DEF DeleteItem
    <2> QED BY <1>0, <1>8, <2>1 DEF DeleteItem, StoreTypeOK, Items
  <1>9. CASE RollBack(w)
    BY <1>0, <1>9 DEF RollBack, cartVars, StoreTypeOK
  <1> QED BY <1>1, <1>2, <1>3, <1>4, <1>5, <1>6, <1>7, <1>8, <1>9 DEF CartRequest

\* Such a step keeps the invariant: it starts no checkout.
LEMMA CartRequestInvariant ==
    ASSUME StoreInv, NEW w \in Workers, CartRequest(w) \/ RollBack(w)
    PROVE  StoreInv'
  <1>1. PICK x \in {Idle} \cup Requests :
            x.pc \notin CheckoutSteps /\ request' = [request EXCEPT ![w] = x]
    BY CartRequestStep
  <1>2. /\ items' \in [Carts -> Items]
        /\ UNCHANGED <<active_checkout_order, phase>>
    BY CartRequestStep
  <1>3. request' \in [Workers -> {Idle} \cup Requests]
    BY <1>1 DEF StoreInv, StoreTypeOK
  <1>4. \A v \in Workers : request'[v].pc \in CheckoutSteps => request'[v] = request[v]
    BY <1>1 DEF StoreInv, StoreTypeOK
  <1> QED BY <1>2, <1>3, <1>4
          DEF StoreInv, StoreTypeOK, CheckoutIsExclusive, NothingPending, ActiveIsPlaced,
              PendingIsActive, CheckoutSteps

-----------------------------------------------------------------------------
\* Starting a checkout takes the lock and finds nothing pending.
LEMMA BeginCheckoutInvariant ==
    ASSUME StoreInv, NEW w \in Workers, NEW c \in Carts,
           BeginOnlineCheckout(w, c) \/ BeginCounterCheckout(w, c)
    PROVE  StoreInv' /\ UNCHANGED vars
  <1>1. PICK pc \in CheckoutSteps :
            /\ request' = [request EXCEPT ![w] = [pc |-> pc, cart |-> c]]
            /\ pc = "online_checkout" => active_checkout_order[c] \notin InProgress
    BY DEF BeginOnlineCheckout, BeginCounterCheckout, CheckoutSteps
  <1>2. UNCHANGED <<vars, items, active_checkout_order, phase>> /\ ~Locked(c)
    BY DEF BeginOnlineCheckout, BeginCounterCheckout, cartVars
  <1>3. StoreTypeOK'
    BY <1>1, <1>2 DEF StoreInv, StoreTypeOK, Requests, CheckoutSteps
  <1>4. \A v \in Workers : request'[v] = IF v = w THEN [pc |-> pc, cart |-> c] ELSE request[v]
    BY <1>1 DEF StoreInv, StoreTypeOK
  <1>5. CheckoutIsExclusive'
    BY <1>2, <1>4 DEF StoreInv, CheckoutIsExclusive, Locked, CheckoutSteps
  <1>6. NothingPending'
    BY <1>1, <1>2, <1>4 DEF StoreInv, NothingPending, InProgress
  <1> QED BY <1>2, <1>3, <1>5, <1>6 DEF StoreInv, PendingIsActive, ActiveIsPlaced

\* A checkout commits under the lock it took.
LEMMA CommitCheckoutInvariant ==
    ASSUME StoreInv, NEW w \in Workers, NEW o \in Orders,
           CommitOnlineCheckout(w, o) \/ CommitCounterCheckout(w, o)
    PROVE  StoreInv' /\ Next
  <1> DEFINE c == request[w].cart
  <1>1. c \in Carts /\ request[w].pc \in CheckoutSteps
    BY RequestFields DEF StoreInv, CommitOnlineCheckout, CommitCounterCheckout, Serving,
                         CheckoutSteps
  <1>2. /\ finalize_checkout_stock(c, o, items[c])
        /\ items' = [items EXCEPT ![c] = [p \in Products |-> 0]]
        /\ phase[o] = "none"
        /\ request' = [request EXCEPT ![w] = Idle]
    BY DEF CommitOnlineCheckout, CommitCounterCheckout, MoveToOrder, Done
  <1>3. \/ /\ request[w].pc = "online_checkout"
           /\ phase' = [phase EXCEPT ![o] = "pending"]
           /\ active_checkout_order' = [active_checkout_order EXCEPT ![c] = o]
        \/ /\ phase' = [phase EXCEPT ![o] = "counter"]
           /\ UNCHANGED active_checkout_order
    BY DEF CommitOnlineCheckout, CommitCounterCheckout, MoveToOrder, Serving
  <1>4. Next
    BY <1>1, <1>2 DEF Next, Service, StoreInv, StoreTypeOK
  <1>5. StoreTypeOK'
    <2>1. items' \in [Carts -> Items]
      BY <1>1, <1>2, BoundsAssumption DEF StoreInv, StoreTypeOK, Items
    <2> QED BY <1>1, <1>2, <1>3, <2>1 DEF StoreInv, StoreTypeOK, Phases
  <1>6. \A v \in Workers : request'[v].pc \in CheckoutSteps =>
            v # w /\ request'[v] = request[v] /\ request[v].cart # c
    BY <1>1, <1>2 DEF StoreInv, StoreTypeOK, CheckoutIsExclusive, Idle, CheckoutSteps
  <1>7. CheckoutIsExclusive'
    BY <1>6 DEF StoreInv, CheckoutIsExclusive
  <1>8. NothingPending'
    <2> SUFFICES ASSUME NEW v \in Workers, request'[v].pc = "online_checkout",
                        NEW x \in Orders, phase'[x] = "pending"
                 PROVE  active_checkout_order'[request'[v].cart] # x
      BY DEF NothingPending
    <2>1. request'[v] = request[v] /\ request[v].cart # c /\ request[v].cart \in Carts
      BY <1>6, RequestFields DEF CheckoutSteps, StoreInv
    <2>2. active_checkout_order'[request[v].cart] = active_checkout_order[request[v].cart]
      BY <1>1, <1>3, <2>1 DEF StoreInv, StoreTypeOK
    <2>3. CASE x # o
      <3>1. phase[x] = "pending"
        BY <1>3, <2>3 DEF StoreInv, StoreTypeOK
      <3> QED BY <2>1, <2>2, <3>1 DEF StoreInv, NothingPending
    <2>4. CASE x = o
      BY <1>2, <2>1, <2>2, <2>4 DEF StoreInv, ActiveIsPlaced
    <2> QED BY <2>3, <2>4
  <1>9. PendingIsActive'
    <2> SUFFICES ASSUME NEW x \in Orders, phase'[x] = "pending"
                 PROVE  \E d \in Carts : active_checkout_order'[d] = x
      BY DEF PendingIsActive
    <2>1. CASE x = o
      BY <1>1, <1>3, <2>1 DEF StoreInv, StoreTypeOK
    <2>2. CASE x # o
      <3>1. phase[x] = "pending"
        BY <1>3, <2>2 DEF StoreInv, StoreTypeOK
      <3>2. PICK d \in Carts : active_checkout_order[d] = x
        BY <3>1 DEF StoreInv, PendingIsActive
      <3>3. request[w].pc = "online_checkout" => d # c
        BY <3>1, <3>2 DEF StoreInv, NothingPending
      <3>4. active_checkout_order'[d] = x
        BY <1>1, <1>3, <3>2, <3>3 DEF StoreInv, StoreTypeOK
      <3> QED BY <3>4
    <2> QED BY <2>1, <2>2
  <1>10. ActiveIsPlaced'
    <2> SUFFICES ASSUME NEW d \in Carts, NEW x \in Orders, active_checkout_order'[d] = x
                 PROVE  phase'[x] # "none"
      BY DEF ActiveIsPlaced
    <2>1. CASE x = o
      BY <1>3, <2>1 DEF StoreInv, StoreTypeOK
    <2>2. CASE x # o
      <3>1. active_checkout_order[d] = x /\ phase'[x] = phase[x]
        BY <1>1, <1>3, <2>2 DEF StoreInv, StoreTypeOK
      <3> QED BY <3>1 DEF StoreInv, ActiveIsPlaced
    <2> QED BY <2>1, <2>2
  <1> QED BY <1>4, <1>5, <1>7, <1>8, <1>9, <1>10 DEF StoreInv

-----------------------------------------------------------------------------
\* What becomes of an order only ever ends a pending checkout, and the cleaner
\* clears no pointer to a pending order.
LEMMA OrderOutcomeInvariant ==
    ASSUME StoreInv, NEW o \in Orders, OrderOutcome(o), ~OrderHandedOver(o)
    PROVE  StoreInv' /\ [Next]_vars
  <1>1. UNCHANGED <<items, request>> /\ phase[o] # "none"
    BY DEF OrderOutcome, OrderPaid, RefundRequested, PreparationBegins, OrderClosed,
           CleanUpStaleOrder
  <1>2. PICK s \in Phases \ {"none", "pending"} : phase' = [phase EXCEPT ![o] = s]
    BY DEF OrderOutcome, OrderPaid, RefundRequested, PreparationBegins, OrderClosed,
           CleanUpStaleOrder, Phases
  <1>3. /\ active_checkout_order' \in [Carts -> Orders \cup {NoOrder}]
        /\ \A c \in Carts : \/ active_checkout_order'[c] = active_checkout_order[c]
                            \/ active_checkout_order[c] = o /\ active_checkout_order'[c] = NoOrder
    <2>1. CASE UNCHANGED active_checkout_order
      BY <2>1 DEF StoreInv, StoreTypeOK
    <2>2. CASE CleanUpStaleOrder(o)
      BY <2>2 DEF CleanUpStaleOrder, StoreInv, StoreTypeOK
    <2> QED BY <2>1, <2>2
            DEF OrderOutcome, OrderPaid, RefundRequested, PreparationBegins, OrderClosed
  <1>4. [Next]_vars
    BY DEF OrderOutcome, OrderPaid, RefundRequested, PreparationBegins, OrderClosed,
           CleanUpStaleOrder, Next, Service
  <1>5. \A x \in Orders : /\ phase'[x] = "pending" => x # o /\ phase[x] = "pending"
                          /\ phase'[x] = "none" => x # o /\ phase[x] = "none"
    BY <1>2 DEF StoreInv, StoreTypeOK
  <1>6. StoreTypeOK'
    BY <1>1, <1>2, <1>3 DEF StoreInv, StoreTypeOK
  <1>7. CheckoutIsExclusive'
    BY <1>1 DEF StoreInv, CheckoutIsExclusive
  <1>8. NothingPending'
    <2> SUFFICES ASSUME NEW v \in Workers, request[v].pc = "online_checkout",
                        NEW x \in Orders, phase'[x] = "pending"
                 PROVE  active_checkout_order'[request[v].cart] # x
      BY <1>1 DEF NothingPending
    <2>1. request[v].cart \in Carts
      BY RequestFields DEF StoreInv, CheckoutSteps
    <2> QED BY <1>3, <1>5, <2>1, WorkersAssumption DEF StoreInv, NothingPending
  <1>9. PendingIsActive'
    <2> SUFFICES ASSUME NEW x \in Orders, phase'[x] = "pending"
                 PROVE  \E c \in Carts : active_checkout_order'[c] = x
      BY DEF PendingIsActive
    <2>1. PICK c \in Carts : active_checkout_order[c] = x
      BY <1>5 DEF StoreInv, PendingIsActive
    <2> QED BY <1>3, <1>5, <2>1
  <1>10. ActiveIsPlaced'
    BY <1>3, <1>5, WorkersAssumption DEF StoreInv, ActiveIsPlaced
  <1> QED BY <1>4, <1>6, <1>7, <1>8, <1>9, <1>10 DEF StoreInv

\* One step: the invariant is kept, and the stock moves as the service moves it.
LEMMA StoreStep ==
    ASSUME StoreInv, [StoreNext]_storeVars
    PROVE  StoreInv' /\ [Next]_vars
  <1>1. CASE \E w \in Workers : CartRequest(w) \/ RollBack(w)
    BY <1>1, CartRequestStep, CartRequestInvariant
  <1>2. CASE \E w \in Workers : CheckoutRequest(w)
    BY <1>2, BeginCheckoutInvariant, CommitCheckoutInvariant DEF CheckoutRequest
  <1>3. CASE \E o \in Orders : OrderOutcome(o) /\ ~OrderHandedOver(o)
    BY <1>3, OrderOutcomeInvariant
  <1>4. CASE StockHouseKeeping \/ \E o \in Orders : OrderHandedOver(o)
    <2>1. UNCHANGED <<items, active_checkout_order, phase, request>> /\ Next
      BY <1>4 DEF StockHouseKeeping, OrderHandedOver, cartVars, Next, Service, Time
    <2> QED BY <2>1 DEF StoreInv, StoreTypeOK, CheckoutIsExclusive, NothingPending,
                        ActiveIsPlaced, PendingIsActive
  <1>5. CASE UNCHANGED storeVars
    BY <1>5 DEF storeVars, StoreInv, StoreTypeOK, CheckoutIsExclusive, NothingPending,
                ActiveIsPlaced, PendingIsActive
  <1> QED BY <1>1, <1>2, <1>3, <1>4, <1>5 DEF StoreNext

\* The storefront starts with empty carts and idle workers.
LEMMA StoreStart == StoreInit => StoreInv /\ Init
  <1> SUFFICES ASSUME StoreInit PROVE StoreInv /\ Init
    OBVIOUS
  <1>1. StoreTypeOK
    BY BoundsAssumption DEF StoreInit, StoreTypeOK, Items, Phases
  <1>2. \A w \in Workers : request[w].pc = "idle"
    BY DEF StoreInit, Idle
  <1> QED BY <1>1, <1>2, WorkersAssumption
          DEF StoreInit, StoreInv, CheckoutIsExclusive, NothingPending, ActiveIsPlaced,
              PendingIsActive, CheckoutSteps

\* The inductive invariant holds in every reachable state of the storefront.
THEOREM StoreInvariantHolds == StoreSpec => []StoreInv
  <1>1. StoreInv /\ [StoreNext]_storeVars => StoreInv'
    BY StoreStep
  <1> QED BY <1>1, StoreStart, PTL DEF StoreSpec

\* Type correctness of carts, items and requests.
THEOREM StoreTypeCorrect == StoreSpec => []StoreTypeOK
  <1>1. StoreInv => StoreTypeOK
    BY DEF StoreInv
  <1> QED BY <1>1, StoreInvariantHolds, PTL

\* process_checkout locks the cart before it looks for an order in progress, so a
\* cart always points to the order that waits for its payment.
THEOREM PendingNeverForgotten == StoreSpec => []PendingIsActive
  <1>1. StoreInv => PendingIsActive
    BY DEF StoreInv
  <1> QED BY <1>1, StoreInvariantHolds, PTL

\* Every behaviour of the storefront is, for the stock, a behaviour of the stock
\* service.
THEOREM StockServiceUsed == StoreSpec => UsesStockService
  <1>1. StoreInit => Init
    BY StoreStart
  <1>2. StoreInv /\ [StoreNext]_storeVars => [Next]_vars
    BY StoreStep
  <1> QED BY <1>1, <1>2, StoreInvariantHolds, PTL DEF StoreSpec, UsesStockService, Spec

\* So the cached counters of the stock stay exact under every interleaving of
\* carts, checkouts, payments and expiry.
THEOREM StoreReservedExact == StoreSpec => []ReservedIsHeld
  BY StockServiceUsed, ReservedExact, PTL DEF UsesStockService

\* And neither carts nor checkouts promise stock that is not there.
THEOREM StoreNeverOversells == StoreSpec => OnlyStaffOversell
  BY StockServiceUsed, NeverOversells, PTL DEF UsesStockService

-----------------------------------------------------------------------------
\* What a new order takes.

\* The service's operations other than finalize_checkout_stock.
OtherService ==
    \/ \E c \in Carts, p \in Products, n \in Nat : reserve_for_cart_item(c, p, n)
    \/ \E c \in Carts, p \in Products : release_cart_reservations_for_product(c, p)
    \/ \E x \in Orders : \/ confirm_reservations(x)
                         \/ release_reservations(x)
                         \/ fulfill_reservations(x)
    \/ expire_stale_reservations
    \/ \E x \in Owners, p \in Products : HoldTimesOut(x, p)

\* An order without rows gets none from a release.
LEMMA ReleaseMakesNoRows ==
    ASSUME IInv, NEW o \in Orders, reservation[o] = NoRows, NEW R, NEW s, Release(R, s),
           \A p : <<o, p>> \in R => reservation[o][p].status \in Live
    PROVE  reservation'[o] = NoRows
<1>1. \A p \in Products : <<o, p>> \notin R
  BY DEF NoRows, DeadRow, Live
<1>2. reservation'[o] = [p \in Products |-> reservation[o][p]]
  BY <1>1 DEF Release, Owners
<1> QED BY <1>2 DEF NoRows

\* Only a checkout gives an order its rows.
LEMMA OthersMakeNoRows ==
    ASSUME IInv, NEW o \in Orders, reservation[o] = NoRows,
           OtherService \/ UNCHANGED reservation
    PROVE  reservation'[o] = NoRows
<1> USE DEF Owners
<1>0. \A p \in Products : reservation[o][p].status = "none"
  BY DEF NoRows, DeadRow
<1>1. CASE UNCHANGED reservation
  BY <1>1
<1>2. ASSUME NEW c \in Carts, NEW p \in Products, NEW n \in Nat, reserve_for_cart_item(c, p, n)
      PROVE  reservation'[o] = NoRows
  <2>1. o # c
    BY OwnersAssumption
  <2>2. reservation'[o] = [q \in Products |-> reservation[o][q]]
    BY <1>2, <2>1 DEF reserve_for_cart_item, ReleaseThenReserve, RowsOf
  <2> QED BY <2>2 DEF NoRows
<1>3. ASSUME NEW c \in Carts, NEW p \in Products, release_cart_reservations_for_product(c, p)
      PROVE  reservation'[o] = NoRows
  <2>1. \A q : <<o, q>> \notin RowsOf(c, {"active"})
    BY OwnersAssumption DEF RowsOf
  <2> QED BY <1>3, <2>1, ReleaseMakesNoRows DEF release_cart_reservations_for_product
<1>4. ASSUME NEW x \in Orders, confirm_reservations(x) PROVE reservation'[o] = NoRows
  <2>1. CASE x # o
    BY <1>4, <2>1 DEF confirm_reservations, IInv, Counted, TypeOK
  <2>2. CASE x = o
    <3>1. \A p \in Products : <<o, p>> \notin RowsOf(o, {"active"})
      BY <1>0 DEF RowsOf
    <3>2. reservation'[o] = [p \in Products |-> reservation[o][p]]
      BY <1>4, <2>2, <3>1 DEF confirm_reservations, IInv, Counted, TypeOK
    <3> QED BY <3>2 DEF NoRows
  <2> QED BY <2>1, <2>2
<1>5. ASSUME NEW x \in Orders, release_reservations(x) \/ fulfill_reservations(x)
      PROVE  reservation'[o] = NoRows
  <2>1. /\ \A p : <<o, p>> \in RowsOf(x, Live) => reservation[o][p].status \in Live
        /\ \A p : <<o, p>> \in RowsOf(x, {"confirmed"}) => reservation[o][p].status \in Live
    BY DEF RowsOf, Live
  <2> QED BY <1>5, <2>1, ReleaseMakesNoRows DEF release_reservations, fulfill_reservations
<1>6. ASSUME expire_stale_reservations PROVE reservation'[o] = NoRows
  <2>1. \A p : <<o, p>> \in StaleRows => reservation[o][p].status \in Live
    BY DEF StaleRows, Live
  <2> QED BY <1>6, <2>1, ReleaseMakesNoRows DEF expire_stale_reservations
<1>7. ASSUME NEW x \in Owners, NEW p \in Products, HoldTimesOut(x, p)
      PROVE  reservation'[o] = NoRows
  <2>1. x # o
    BY <1>0, <1>7 DEF HoldTimesOut
  <2> QED BY <1>7, <2>1 DEF HoldTimesOut, IInv, Counted, TypeOK
<1> QED BY <1>1, <1>2, <1>3, <1>4, <1>5, <1>6, <1>7 DEF OtherService

\* A checkout books what the cart contains for its order and nobody else's.
LEMMA CheckoutTakes ==
    ASSUME IInv, NEW c \in Carts, NEW x \in Orders, NEW n \in Items,
           finalize_checkout_stock(c, x, n), NEW o \in Orders,
           reservation[o] = NoRows, reservation'[o] # NoRows
    PROVE  \A p \in Products : /\ reservation'[o][p].quantity = n[p]
                               /\ reservation'[c][p].status # "active"
<1> USE DEF Owners
<1>1. PICK day \in [Products -> Days] : ReleaseThenReserve(RowsOf(c, {"active"}), x, n, day)
  BY DEF finalize_checkout_stock
<1>2. c # o /\ c # x
  BY OwnersAssumption
<1>3. \A p : <<o, p>> \notin RowsOf(c, {"active"})
  BY <1>2 DEF RowsOf
<1>4. x = o
  <2> SUFFICES ASSUME x # o PROVE FALSE
    OBVIOUS
  <2>1. reservation'[o] = [p \in Products |-> reservation[o][p]]
    BY <1>1, <1>3 DEF ReleaseThenReserve
  <2> QED BY <2>1 DEF NoRows
<1>5. ASSUME NEW p \in Products PROVE reservation'[o][p].quantity = n[p]
  <2>1. reservation'[o][p] = IF n[p] > 0 THEN ActiveRow(n[p], day[p]) ELSE reservation[o][p]
    BY <1>1, <1>3, <1>4 DEF ReleaseThenReserve
  <2>2. n[p] \in Nat /\ reservation[o][p].quantity = 0
    BY BoundsAssumption DEF Items, NoRows, DeadRow
  <2> QED BY <2>1, <2>2 DEF ActiveRow
<1>6. ASSUME NEW p \in Products PROVE reservation'[c][p].status # "active"
  <2>1. reservation'[c][p] = IF <<c, p>> \in RowsOf(c, {"active"}) THEN DeadRow("released")
                             ELSE reservation[c][p]
    BY <1>1, <1>2 DEF ReleaseThenReserve
  <2> QED BY <2>1 DEF RowsOf, DeadRow
<1> QED BY <1>5, <1>6

\* A step of the storefront commits a checkout or gives no order its rows.
LEMMA StepCommitsOrNot ==
    ASSUME StoreInv, StoreNext
    PROVE  \/ OtherService \/ UNCHANGED reservation
           \/ \E c \in Carts, x \in Orders :
                 /\ finalize_checkout_stock(c, x, items[c])
                 /\ items' = [items EXCEPT ![c] = [p \in Products |-> 0]]
<1> USE DEF StoreInv
<1>1. ASSUME NEW w \in Workers, CartRequest(w) \/ RollBack(w)
      PROVE  OtherService \/ UNCHANGED reservation
  <2>1. ASSUME NEW c \in Carts, NEW p \in Products, NEW q \in Nat \ {0}, SaveAndReserve(c, p, q)
        PROVE  OtherService \/ UNCHANGED reservation
    BY <2>1 DEF SaveAndReserve, OtherService, vars
  <2>2. CASE SaveItem(w)
    <3>1. request[w].cart \in Carts /\ request[w].product \in Products
      BY <2>2, RequestFields DEF SaveItem, Serving
    <3> QED BY <2>1, <2>2, <3>1, SavedItem
  <2>3. CASE SetItem(w)
    <3>1. /\ request[w].cart \in Carts /\ request[w].product \in Products
          /\ request[w].quantity \in Nat \ {0}
      BY <2>3, RequestFields, BoundsAssumption DEF SetItem, Serving, Quantities
    <3> QED BY <2>1, <2>3, <3>1 DEF SetItem
  <2>4. CASE ReleaseHold(w)
    <3>1. request[w].cart \in Carts /\ request[w].product \in Products
      BY <2>4, RequestFields DEF ReleaseHold, Serving
    <3> QED BY <2>4, <3>1 DEF ReleaseHold, OtherService
  <2> QED BY <1>1, <2>2, <2>3, <2>4
          DEF CartRequest, BeginAdd, GetItem, BeginSet, BeginRemove, DeleteItem, RollBack, vars
<1>2. ASSUME NEW w \in Workers, CheckoutRequest(w)
      PROVE  \/ UNCHANGED reservation
             \/ \E c \in Carts, x \in Orders :
                   /\ finalize_checkout_stock(c, x, items[c])
                   /\ items' = [items EXCEPT ![c] = [p \in Products |-> 0]]
  <2>1. ASSUME NEW x \in Orders, CommitOnlineCheckout(w, x) \/ CommitCounterCheckout(w, x)
        PROVE  \E c \in Carts : /\ finalize_checkout_stock(c, x, items[c])
                                /\ items' = [items EXCEPT ![c] = [p \in Products |-> 0]]
    <3>1. request[w].cart \in Carts
      BY <2>1, RequestFields DEF CommitOnlineCheckout, CommitCounterCheckout, Serving, CheckoutSteps
    <3> QED BY <2>1, <3>1 DEF CommitOnlineCheckout, CommitCounterCheckout, MoveToOrder
  <2> QED BY <1>2, <2>1 DEF CheckoutRequest, BeginOnlineCheckout, BeginCounterCheckout, vars
<1>3. ASSUME NEW o \in Orders, OrderOutcome(o) PROVE OtherService \/ UNCHANGED reservation
  BY <1>3 DEF OrderOutcome, OrderPaid, RefundRequested, PreparationBegins, OrderHandedOver,
              OrderClosed, CleanUpStaleOrder, OtherService, vars
<1>4. CASE StockHouseKeeping
  BY <1>4 DEF StockHouseKeeping, OtherService
<1> QED BY <1>1, <1>2, <1>3, <1>4 DEF StoreNext

\* finalize_checkout_stock takes the cart as it is when the checkout commits: the new
\* order holds what the cart contained, and nothing is left in the cart.
THEOREM OrdersTakeTheCart == StoreSpec => OrderTakesCart
<1>1. ASSUME StoreInv, IInv, StoreNext, NEW o \in Orders,
             reservation[o] = NoRows, reservation'[o] # NoRows
      PROVE  \E c \in Carts : \A p \in Products :
                /\ reservation'[o][p].quantity = items[c][p]
                /\ items'[c][p] = 0
                /\ reservation'[c][p].status # "active"
  <2>1. PICK c \in Carts, x \in Orders :
           /\ finalize_checkout_stock(c, x, items[c])
           /\ items' = [items EXCEPT ![c] = [p \in Products |-> 0]]
    BY <1>1, StepCommitsOrNot, OthersMakeNoRows
  <2>2. items[c] \in Items /\ items'[c] = [p \in Products |-> 0]
    BY <1>1, <2>1 DEF StoreInv, StoreTypeOK
  <2>3. \A p \in Products : /\ reservation'[o][p].quantity = items[c][p]
                            /\ reservation'[c][p].status # "active"
    BY <1>1, <2>1, <2>2, CheckoutTakes
  <2> QED BY <2>2, <2>3
<1>2. StoreInv /\ IInv /\ [StoreNext]_storeVars =>
         [\A o \in Orders :
             (reservation[o] = NoRows /\ reservation'[o] # NoRows) =>
                 \E c \in Carts : \A p \in Products :
                     /\ reservation'[o][p].quantity = items[c][p]
                     /\ items'[c][p] = 0
                     /\ reservation'[c][p].status # "active"]_storeVars
  BY <1>1
<1>3. StoreSpec => []IInv
  BY StockServiceUsed, InvariantHolds, PTL DEF UsesStockService
<1> QED BY <1>2, <1>3, StoreInvariantHolds, PTL DEF StoreSpec, OrderTakesCart

-----------------------------------------------------------------------------
\* What a cart shows and what it holds.

\* HoldFitsItem, and that no cart holds a product whose stock is not tracked: else
\* saving its item would leave the old hold as it is.
CartHolds ==
    \A c \in Carts, p \in Products : reservation[c][p].status = "active" =>
        p \in Tracked /\ items[c][p] \in {0, reservation[c][p].quantity}

\* The ways in which a step may change items and holds.
LEMMA HoldSteps ==
    ASSUME StoreInv, [StoreNext]_storeVars
    PROVE  \/ \E c \in Carts, p \in Products, q \in Nat \ {0} : SaveAndReserve(c, p, q)
           \/ \E c \in Carts, x \in Orders :
                 /\ finalize_checkout_stock(c, x, items[c])
                 /\ items' = [items EXCEPT ![c] = [p \in Products |-> 0]]
           \/ /\ UNCHANGED items
              /\ \/ \E R : \E s \in Dead : Release(R, s)
                 \/ \E x \in Orders : confirm_reservations(x)
                 \/ \E x \in Owners, p \in Products : HoldTimesOut(x, p)
           \/ /\ UNCHANGED reservation
              /\ \A c \in Carts, p \in Products : items'[c][p] \in {0, items[c][p]}
<1> USE DEF StoreInv
<1>d. {"released", "expired"} \subseteq Dead
  BY DEF Dead
<1>1. ASSUME NEW w \in Workers, CartRequest(w) \/ RollBack(w)
      PROVE  \/ \E c \in Carts, p \in Products, q \in Nat \ {0} : SaveAndReserve(c, p, q)
             \/ UNCHANGED items /\ \E R : \E s \in Dead : Release(R, s)
             \/ /\ UNCHANGED reservation
                /\ \A c \in Carts, p \in Products : items'[c][p] \in {0, items[c][p]}
  <2>1. CASE SaveItem(w)
    <3>1. request[w].cart \in Carts /\ request[w].product \in Products
      BY <2>1, RequestFields DEF SaveItem, Serving
    <3> QED BY <2>1, <3>1, SavedItem
  <2>2. CASE SetItem(w)
    <3>1. /\ request[w].cart \in Carts /\ request[w].product \in Products
          /\ request[w].quantity \in Nat \ {0}
      BY <2>2, RequestFields, BoundsAssumption DEF SetItem, Serving, Quantities
    <3> QED BY <2>2, <3>1 DEF SetItem
  <2>3. CASE ReleaseHold(w)
    BY <1>d, <2>3 DEF ReleaseHold, release_cart_reservations_for_product, cartVars
  <2>4. CASE DeleteItem(w)
    BY <2>4 DEF DeleteItem, StoreTypeOK, Items, vars
  <2>5. CASE UNCHANGED <<vars, cartVars>>
    BY <2>5 DEF vars, cartVars
  <2> QED BY <1>1, <2>1, <2>2, <2>3, <2>4, <2>5
          DEF CartRequest, BeginAdd, GetItem, BeginSet, BeginRemove, RollBack
<1>2. ASSUME NEW w \in Workers, CheckoutRequest(w)
      PROVE  \/ UNCHANGED <<vars, cartVars>>
             \/ \E c \in Carts, x \in Orders :
                   /\ finalize_checkout_stock(c, x, items[c])
                   /\ items' = [items EXCEPT ![c] = [p \in Products |-> 0]]
  <2>1. ASSUME NEW x \in Orders, CommitOnlineCheckout(w, x) \/ CommitCounterCheckout(w, x)
        PROVE  \E c \in Carts : /\ finalize_checkout_stock(c, x, items[c])
                                /\ items' = [items EXCEPT ![c] = [p \in Products |-> 0]]
    <3>1. request[w].cart \in Carts
      BY <2>1, RequestFields DEF CommitOnlineCheckout, CommitCounterCheckout, Serving, CheckoutSteps
    <3> QED BY <2>1, <3>1 DEF CommitOnlineCheckout, CommitCounterCheckout, MoveToOrder
  <2> QED BY <1>2, <2>1 DEF CheckoutRequest, BeginOnlineCheckout, BeginCounterCheckout
<1>3. ASSUME NEW o \in Orders, OrderOutcome(o)
      PROVE  /\ UNCHANGED items
             /\ \/ \E R : \E s \in Dead : Release(R, s)
                \/ \E x \in Orders : confirm_reservations(x)
                \/ UNCHANGED reservation
  <2>1. UNCHANGED items
    BY <1>3 DEF OrderOutcome, OrderPaid, RefundRequested, PreparationBegins, OrderHandedOver,
                OrderClosed, CleanUpStaleOrder, cartVars
  <2>2. \/ release_reservations(o) \/ fulfill_reservations(o) \/ confirm_reservations(o)
        \/ UNCHANGED reservation
    BY <1>3 DEF OrderOutcome, OrderPaid, RefundRequested, PreparationBegins, OrderHandedOver,
                OrderClosed, CleanUpStaleOrder, vars
  <2> QED BY <1>d, <2>1, <2>2 DEF release_reservations, fulfill_reservations
<1>4. CASE StockHouseKeeping
  BY <1>d, <1>4 DEF StockHouseKeeping, expire_stale_reservations, cartVars
<1>5. UNCHANGED items => \A c \in Carts, p \in Products : items'[c][p] \in {0, items[c][p]}
  OBVIOUS
<1>6. UNCHANGED <<vars, cartVars>> \/ UNCHANGED storeVars => UNCHANGED <<items, reservation>>
  BY DEF vars, cartVars, storeVars
<1> QED BY <1>1, <1>2, <1>3, <1>4, <1>5, <1>6 DEF StoreNext

\* Items and holds change together.
LEMMA CartHoldsStep ==
    ASSUME StoreInv, IInv, CartHolds, [StoreNext]_storeVars
    PROVE  CartHolds'
<1> USE DEF Owners
<1> SUFFICES ASSUME NEW d \in Carts, NEW r \in Products, reservation'[d][r].status = "active"
             PROVE  r \in Tracked /\ items'[d][r] \in {0, reservation'[d][r].quantity}
  BY DEF CartHolds
<1>1. ASSUME NEW c \in Carts, NEW p \in Products, NEW q \in Nat \ {0}, SaveAndReserve(c, p, q)
      PROVE  r \in Tracked /\ items'[d][r] \in {0, reservation'[d][r].quantity}
  <2>1. items'[d][r] = IF d = c /\ r = p THEN q ELSE items[d][r]
    BY <1>1 DEF SaveAndReserve, StoreInv, StoreTypeOK, Items
  <2>2. CASE p \notin Tracked
    BY <1>1, <2>1, <2>2 DEF SaveAndReserve, CartHolds, vars
  <2>3. CASE p \in Tracked
    <3> DEFINE n == [x \in Products |-> IF x = p THEN q ELSE 0]
    <3>1. PICK day : ReleaseThenReserve(RowsOf(c, {"active"}) \cap {<<c, p>>}, c, n, day)
      BY <1>1, <2>3 DEF SaveAndReserve, reserve_for_cart_item
    <3>2. reservation'[d][r] =
             IF d = c /\ n[r] > 0 THEN ActiveRow(n[r], day[r])
             ELSE IF <<d, r>> \in RowsOf(c, {"active"}) \cap {<<c, p>>} THEN DeadRow("released")
             ELSE reservation[d][r]
      BY <3>1 DEF ReleaseThenReserve
    <3>3. n[r] = IF r = p THEN q ELSE 0
      OBVIOUS
    <3> HIDE DEF n
    <3>4. CASE d = c /\ r = p
      BY <2>1, <2>3, <3>2, <3>3, <3>4 DEF ActiveRow
    <3>5. CASE ~(d = c /\ r = p)
      <4>1. reservation'[d][r] = reservation[d][r]
        BY <3>2, <3>3, <3>5
      <4> QED BY <2>1, <3>5, <4>1 DEF CartHolds
    <3> QED BY <3>4, <3>5
  <2> QED BY <2>2, <2>3
<1>2. ASSUME NEW c \in Carts, NEW x \in Orders, finalize_checkout_stock(c, x, items[c]),
             items' = [items EXCEPT ![c] = [p \in Products |-> 0]]
      PROVE  r \in Tracked /\ items'[d][r] \in {0, reservation'[d][r].quantity}
  <2>1. d # x
    BY OwnersAssumption
  <2>2. PICK day : ReleaseThenReserve(RowsOf(c, {"active"}), x, items[c], day)
    BY <1>2 DEF finalize_checkout_stock
  <2>3. reservation'[d][r] = IF <<d, r>> \in RowsOf(c, {"active"}) THEN DeadRow("released")
                             ELSE reservation[d][r]
    BY <2>1, <2>2 DEF ReleaseThenReserve
  <2>4. reservation'[d][r] = reservation[d][r]
    BY <2>3 DEF DeadRow
  <2>5. items'[d][r] \in {0, items[d][r]}
    BY <1>2 DEF StoreInv, StoreTypeOK
  <2> QED BY <2>4, <2>5 DEF CartHolds
<1>3. ASSUME UNCHANGED items, NEW R, NEW s \in Dead, Release(R, s)
      PROVE  r \in Tracked /\ items'[d][r] \in {0, reservation'[d][r].quantity}
  <2>1. reservation'[d][r] = IF <<d, r>> \in R THEN DeadRow(s) ELSE reservation[d][r]
    BY <1>3 DEF Release
  <2>2. reservation'[d][r] = reservation[d][r]
    BY <2>1 DEF DeadRow, Dead
  <2> QED BY <1>3, <2>2 DEF CartHolds
<1>4. ASSUME UNCHANGED items, NEW x \in Orders, confirm_reservations(x)
      PROVE  r \in Tracked /\ items'[d][r] \in {0, reservation'[d][r].quantity}
  <2>1. reservation'[d] = reservation[d]
    BY <1>4, OwnersAssumption DEF confirm_reservations, IInv, Counted, TypeOK
  <2> QED BY <1>4, <2>1 DEF CartHolds
<1>5. ASSUME UNCHANGED items, NEW x \in Owners, NEW p \in Products, HoldTimesOut(x, p)
      PROVE  r \in Tracked /\ items'[d][r] \in {0, reservation'[d][r].quantity}
  <2>1. \A y \in Owners, q \in Products : reservation[y][q] \in Rows
    BY DEF IInv, Counted, TypeOK
  <2>2. /\ reservation'[d][r].status = reservation[d][r].status
        /\ reservation'[d][r].quantity = reservation[d][r].quantity
    BY <1>5, <2>1 DEF HoldTimesOut, IInv, Counted, TypeOK, Rows
  <2> QED BY <1>5, <2>2 DEF CartHolds
<1>6. ASSUME UNCHANGED reservation,
             \A c \in Carts, p \in Products : items'[c][p] \in {0, items[c][p]}
      PROVE  r \in Tracked /\ items'[d][r] \in {0, reservation'[d][r].quantity}
  BY <1>6 DEF CartHolds
<1> QED BY <1>1, <1>2, <1>3, <1>4, <1>5, <1>6, HoldSteps

\* However requests on one item overlap, the quantity of one never stays with the hold of
\* another: add_item and set_item_quantity save and reserve in one transaction.
THEOREM HoldsFitItems == StoreSpec => []HoldFitsItem
<1>1. StoreInit => CartHolds
  BY DEF StoreInit, Init, CartHolds, Owners, DeadRow
<1>2. StoreInv /\ IInv /\ CartHolds /\ [StoreNext]_storeVars => CartHolds'
  BY CartHoldsStep
<1>3. CartHolds => HoldFitsItem
  BY DEF CartHolds, HoldFitsItem
<1>4. StoreSpec => []IInv
  BY StockServiceUsed, InvariantHolds, PTL DEF UsesStockService
<1> QED BY <1>1, <1>2, <1>3, <1>4, StoreInvariantHolds, PTL DEF StoreSpec

-----------------------------------------------------------------------------
(* Sessions: the invariant. *)

\* A cart request or checkout is served within a page, for the cart of its session.
OwnCarts ==
    \A w \in Workers :
        ~Serving(w, "idle") =>
            /\ visit[w].kind = "page" /\ visit[w].key \in Keys
            /\ request[w].cart = CartOf(visit[w].session, visit[w].key)

\* A request without a key has nothing in its session.
Keyless == \A w \in Workers : visit[w] # NoVisit /\ visit[w].key = NoKey => visit[w].session = NewSession

\* What session s may look at is placed, and by the user of s or by a guest.
OwnAccess(s) == \A o \in ToSet(s.access) : phase[o] # "none" /\ owner[o] \in {Guest, s.user}

AccessOK == \A k \in Keys : \A s \in Copies(k) : OwnAccess(s)

\* Of a session that was not begun there is no copy.
KeysGivenOut == \A k \in Keys : store[k] = Unused => Copies(k) = {}

\* No two copies of one session name two accounts.
OneAccount == \A k \in Keys : \A u, v \in Holders(k) : u = v \/ Guest \in {u, v}

SessionInv ==
    /\ AccountsTypeOK /\ OwnCarts /\ Keyless
    /\ AccessOK /\ KeysGivenOut /\ OneAccount

\* The inductive invariant.
AccountsInv == StoreInv /\ SessionInv

-----------------------------------------------------------------------------
(* Lemmas. *)

\* grant_checkout_order_access adds one order to what the session remembers.
LEMMA GrantedAccess ==
    ASSUME NEW access \in Seq(Orders), NEW o \in Orders
    PROVE  /\ Granted(access, o) \in Seq(Orders)
           /\ ToSet(Granted(access, o)) \subseteq ToSet(access) \cup {o}
  BY SMTT(30) DEF Granted, ToSet

\* A session remembers orders.
LEMMA AccessIsOrders ==
    ASSUME NEW s \in Sessions PROVE ToSet(s.access) \subseteq Orders
  BY DEF Sessions, ToSet

\* A guest's session, with nothing to look at.
LEMMA NewSessionFacts ==
    /\ NewSession \in Sessions /\ NewSession.user = Guest
    /\ NewSession \notin {Unused, Deleted, Absent} /\ OwnAccess(NewSession)
<1>1. <<>> \in Seq(Orders) /\ ToSet(<<>>) = {}
  BY DEF ToSet
<1>2. NewSession \in Sessions /\ NewSession.user = Guest /\ NewSession.access = <<>>
  BY <1>1 DEF NewSession, Sessions
<1> QED BY <1>1, <1>2, AccountsAssumption DEF OwnAccess

\* The session after a log-in: that of the guest before, for a user.
LEMMA LoggedIn ==
    ASSUME NEW s \in Sessions, s.user = Guest, OwnAccess(s), NEW u \in Users
    PROVE  LET t == [s EXCEPT !.user = u]
           IN  t \in Sessions /\ t.user = u /\ t.access = s.access /\ OwnAccess(t)
  BY DEF Sessions, OwnAccess

\* Open visits have the fields of Visits.
LEMMA VisitFields ==
    ASSUME AccountsTypeOK, NEW w \in Workers, visit[w] # NoVisit
    PROVE  /\ visit[w] \in Visits
           /\ visit[w].kind \in {"fill", "loaded", "page", "end", "save"}
           /\ visit[w].browser \in Browsers /\ visit[w].key \in Keys \cup {NoKey}
           /\ visit[w].session \in Sessions
  BY DEF AccountsTypeOK, Visits

\* No request has no kind of its own.
LEMMA VisitKinds == NoVisit.kind = "none"
  BY DEF NoVisit

\* A visit is no empty record.
LEMMA VisitsAreOpen == ASSUME NEW x \in Visits PROVE x # NoVisit
  BY DEF Visits, NoVisit

\* What is a copy of the session of key k, and that each is a session.
LEMMA CopiesOf ==
    ASSUME AccountsTypeOK, NEW k \in Keys
    PROVE  /\ store[k] \in Copies(k) \cup {Unused, Deleted, Absent}
           /\ cached[k] \in Copies(k) \cup {Unused, Deleted, Absent}
           /\ \A w \in Workers : visit[w] # NoVisit /\ visit[w].key = k => visit[w].session \in Copies(k)
           /\ Copies(k) \subseteq Sessions
  BY VisitFields DEF Copies, AccountsTypeOK

\* Where the copies after a step come from.
LEMMA CopiesAfter ==
    ASSUME NEW k \in Keys, NEW S,
           store'[k] \in S \cup {Unused, Deleted, Absent},
           cached'[k] \in S \cup {Unused, Deleted, Absent},
           \A w \in Workers : visit'[w] # NoVisit /\ visit'[w].key = k => visit'[w].session \in S
    PROVE  Copies(k)' \subseteq S
  BY DEF Copies, NoVisit

\* A step makes no new copy of a session that was begun; one that begins is a guest's, and
\* the request that began it may name a user in its own copy.
Begins(k) ==
    /\ store[k] = Unused /\ store'[k] # Unused
    /\ \E s \in Sessions, u \in Users \cup {Guest} :
          s.user = Guest /\ OwnAccess(s) /\ Copies(k)' \subseteq {s, [s EXCEPT !.user = u]}

KeptOrBegins(k) ==
    \/ Copies(k)' \subseteq Copies(k) /\ (store'[k] = Unused => store[k] = Unused)
    \/ Begins(k)

\* No copy of a session that was begun names a user that none named before.
UsersKept == \A k \in Keys : store[k] # Unused => Holders(k)' \subseteq Holders(k)

\* Access and accounts stay as they should when no copy of a session is new.
LEMMA CopiesStep ==
    ASSUME SessionInv, \A k \in Keys : KeptOrBegins(k),
           AccountsTypeOK', OwnCarts', Keyless',
           UNCHANGED owner, \A o \in Orders : phase[o] # "none" => phase'[o] # "none"
    PROVE  SessionInv' /\ UsersKept
<1> USE DEF SessionInv
<1>1. ASSUME NEW s \in Sessions, OwnAccess(s) PROVE OwnAccess(s)'
  BY <1>1, AccessIsOrders DEF OwnAccess
<1>2. ASSUME NEW k \in Keys, Begins(k)
      PROVE  /\ \A s \in Copies(k)' : OwnAccess(s)'
             /\ \A u, v \in Holders(k)' : u = v \/ Guest \in {u, v}
             /\ store'[k] # Unused
  <2>1. PICK s \in Sessions, u \in Users \cup {Guest} :
            s.user = Guest /\ OwnAccess(s) /\ Copies(k)' \subseteq {s, [s EXCEPT !.user = u]}
    BY <1>2 DEF Begins
  <2> DEFINE t == [s EXCEPT !.user = u]
  <2>2. t \in Sessions /\ t.user = u /\ OwnAccess(t)
    BY <2>1 DEF Sessions, OwnAccess
  <2>3. OwnAccess(s)' /\ OwnAccess(t)'
    BY <1>1, <2>1, <2>2
  <2> HIDE DEF t
  <2>4. Copies(k)' \subseteq {s, t}
    BY <2>1 DEF t
  <2>5. Holders(k)' \subseteq {Guest, u}
    BY <2>1, <2>2, <2>4 DEF Holders
  <2> QED BY <1>2, <2>3, <2>4, <2>5 DEF Begins
<1>3. ASSUME NEW k \in Keys, Copies(k)' \subseteq Copies(k)
      PROVE  /\ \A s \in Copies(k)' : OwnAccess(s)'
             /\ Holders(k)' \subseteq Holders(k)
             /\ \A u, v \in Holders(k)' : u = v \/ Guest \in {u, v}
  <2>1. ASSUME NEW s \in Copies(k)' PROVE OwnAccess(s)'
    <3>1. s \in Sessions /\ OwnAccess(s)
      BY <1>3, CopiesOf DEF AccessOK
    <3> QED BY <1>1, <3>1
  <2>2. Holders(k)' \subseteq Holders(k)
    BY <1>3 DEF Holders
  <2> QED BY <2>1, <2>2 DEF OneAccount
<1>4. AccessOK'
  <2> SUFFICES ASSUME NEW k \in Keys PROVE \A s \in Copies(k)' : OwnAccess(s)'
    BY DEF AccessOK
  <2> QED BY <1>2, <1>3 DEF KeptOrBegins
<1>5. OneAccount'
  <2> SUFFICES ASSUME NEW k \in Keys PROVE \A u, v \in Holders(k)' : u = v \/ Guest \in {u, v}
    BY DEF OneAccount
  <2> QED BY <1>2, <1>3 DEF KeptOrBegins
<1>6. KeysGivenOut'
  BY <1>2 DEF KeysGivenOut, KeptOrBegins
<1>7. UsersKept
  <2> SUFFICES ASSUME NEW k \in Keys, store[k] # Unused PROVE Holders(k)' \subseteq Holders(k)
    BY DEF UsersKept
  <2> QED BY <1>3 DEF KeptOrBegins, Begins
<1> QED BY <1>4, <1>5, <1>6, <1>7

\* The visit of w becomes x, or ends.
Turns(w, x) ==
    /\ x \in Visits \cup {NoVisit}
    /\ visit' = [visit EXCEPT ![w] = x]
    /\ x # NoVisit /\ x.key = NoKey => x.session = NewSession

\* A request that is not in the middle of a cart request turns to x.
LEMMA TurnedVisit ==
    ASSUME SessionInv, NEW w \in Workers, NEW x, Turns(w, x)
    PROVE  /\ \A v \in Workers : visit'[v] = IF v = w THEN x ELSE visit[v]
           /\ Keyless'
           /\ visit' \in [Workers -> Visits \cup {NoVisit}]
           /\ Serving(w, "idle") /\ UNCHANGED request => OwnCarts'
<1> USE DEF SessionInv
<1>1. /\ \A v \in Workers : visit'[v] = IF v = w THEN x ELSE visit[v]
      /\ visit' \in [Workers -> Visits \cup {NoVisit}]
  BY DEF Turns, AccountsTypeOK
<1>2. Keyless'
  BY <1>1, NewSessionFacts DEF Keyless, Turns
<1>3. Serving(w, "idle") /\ UNCHANGED request => OwnCarts'
  BY <1>1 DEF OwnCarts, Serving
<1> QED BY <1>1, <1>2, <1>3

\* Outside a cart request.
LEMMA NotAPage ==
    ASSUME SessionInv, NEW w \in Workers, visit[w].kind # "page"
    PROVE  Serving(w, "idle")
  BY DEF SessionInv, OwnCarts

-----------------------------------------------------------------------------
(* Steps that only move copies about. *)

\* A step of the session store outside the shop: rows and visits aside, nothing changes.
Aside == UNCHANGED <<storeVars, owner>>

\* The visit of w turns to x, and what is then stored, cached or in the visit was a copy
\* of the session before.
LEMMA MoveStep ==
    ASSUME SessionInv, Aside, NEW w \in Workers, Serving(w, "idle"), NEW x, Turns(w, x),
           store' \in [Keys -> Sessions \cup {Unused, Deleted}],
           cached' \in [Keys -> Sessions \cup {Absent}],
           cookie' \in [Browsers -> Keys \cup {NoKey}], visits' \in 0 .. MaxVisits,
           \A k \in Keys : /\ store'[k] \in Copies(k) \cup {store[k], Deleted}
                           /\ cached'[k] \in Copies(k) \cup {cached[k], Absent}
                           /\ x # NoVisit /\ x.key = k => x.session \in Copies(k)
    PROVE  SessionInv' /\ UsersKept
<1> USE DEF SessionInv
<1>1. /\ \A v \in Workers : visit'[v] = IF v = w THEN x ELSE visit[v]
      /\ Keyless' /\ OwnCarts' /\ visit' \in [Workers -> Visits \cup {NoVisit}]
  BY TurnedVisit DEF Aside, storeVars
<1>2. AccountsTypeOK'
  BY <1>1 DEF AccountsTypeOK, Aside
<1>3. ASSUME NEW k \in Keys PROVE KeptOrBegins(k)
  <2> DEFINE S == Copies(k)
  <2>1. /\ store[k] \in S \cup {Unused, Deleted, Absent}
        /\ cached[k] \in S \cup {Unused, Deleted, Absent}
        /\ \A v \in Workers : visit[v] # NoVisit /\ visit[v].key = k => visit[v].session \in S
        /\ S \subseteq Sessions
    BY CopiesOf
  <2> HIDE DEF S
  <2>2. /\ store'[k] \in S \cup {store[k], Deleted} /\ cached'[k] \in S \cup {cached[k], Absent}
        /\ x # NoVisit /\ x.key = k => x.session \in S
    BY DEF S
  <2>3. Copies(k)' \subseteq S
    <3>1. \A v \in Workers : visit'[v] # NoVisit /\ visit'[v].key = k => visit'[v].session \in S
      BY <1>1, <2>1, <2>2
    <3> QED BY <2>1, <2>2, <3>1, CopiesAfter
  <2>4. store'[k] = Unused => store[k] = Unused
    BY <2>1, <2>2, AccountsAssumption
  <2> QED BY <2>3, <2>4 DEF KeptOrBegins, S
<1> QED BY <1>1, <1>2, <1>3, CopiesStep DEF Aside, storeVars

\* SessionStore.load: the request has a copy from the cache or from the row, or a new one.
LEMMA ArriveInvariant ==
    ASSUME SessionInv, NEW w \in Workers, NEW b \in Browsers, Arrive(w, b)
    PROVE  SessionInv' /\ UsersKept /\ Aside
<1> USE DEF SessionInv
<1> DEFINE k == cookie[b]
<1>0. k \in Keys \cup {NoKey} /\ Serving(w, "idle") /\ Aside
  BY NotAPage, VisitKinds DEF Arrive, AccountsTypeOK, Aside
<1>1. ASSUME NEW kind \in {"fill", "loaded"}, NEW q \in Keys \cup {NoKey}, NEW s \in Sessions,
             visit' = [visit EXCEPT ![w] = Visit(kind, b, q, s)],
             q = NoKey => s = NewSession, q \in Keys => s \in Copies(q)
      PROVE  SessionInv' /\ UsersKept
  <2> DEFINE x == Visit(kind, b, q, s)
  <2>1. x \in Visits /\ x.key = q /\ x.session = s
    BY DEF Visit, Visits
  <2> HIDE DEF x
  <2>2. Turns(w, x)
    BY <1>1, <2>1 DEF Turns, x
  <2>3. UNCHANGED <<cookie, store, cached>> /\ visits' \in 0 .. MaxVisits
    BY AccountsAssumption DEF Arrive, AccountsTypeOK
  <2> QED BY <1>0, <1>1, <2>1, <2>2, <2>3, MoveStep DEF AccountsTypeOK
<1>2. CASE k # NoKey /\ cached[k] # Absent /\ visit' = [visit EXCEPT ![w] = Visit("loaded", b, k, cached[k])]
  <2>1. cached[k] \in Sessions /\ cached[k] \in Copies(k)
    BY <1>0, <1>2, AccountsAssumption DEF AccountsTypeOK, Copies
  <2> QED BY <1>0, <1>1, <1>2, <2>1
<1>3. CASE Valid(k) /\ visit' = [visit EXCEPT ![w] = Visit("fill", b, k, store[k])]
  <2>1. k # NoKey /\ store[k] \in Sessions /\ store[k] \in Copies(k)
    BY <1>3, AccountsAssumption DEF AccountsTypeOK, Copies, Valid
  <2> QED BY <1>0, <1>1, <1>3, <2>1
<1>4. CASE visit' = [visit EXCEPT ![w] = Visit("loaded", b, NoKey, NewSession)]
  BY <1>0, <1>1, <1>4, NewSessionFacts, AccountsAssumption
<1> QED BY <1>0, <1>2, <1>3, <1>4 DEF Arrive, Load

\* The steps of the cache, and the end of a request.
LEMMA SessionStepInvariant ==
    ASSUME SessionInv, NEW w \in Workers, SessionStep(w)
    PROVE  SessionInv' /\ UsersKept /\ Aside
<1> USE DEF SessionInv
<1> DEFINE v == visit[w]
           k == v.key
           s == v.session
<1>1. v # NoVisit /\ Serving(w, "idle") /\ Aside
  <2>1. v # NoVisit /\ Aside
    BY VisitKinds DEF SessionStep, FillCache, Respond, SaveCache, DropCache, Aside
  <2>2. Serving(w, "idle")
    BY NotAPage DEF SessionStep, FillCache, Respond, SaveCache, DropCache
  <2> QED BY <2>1, <2>2
<1>2. /\ v \in Visits /\ k \in Keys \cup {NoKey} /\ s \in Sessions /\ v.browser \in Browsers
      /\ k = NoKey => s = NewSession
      /\ k \in Keys => s \in Copies(k)
  BY <1>1, VisitFields, CopiesOf DEF Keyless
<1>3. visits' \in 0 .. MaxVisits
  BY DEF SessionStep, FillCache, Respond, SaveCache, DropCache, AccountsTypeOK
<1>4. \A kind \in {"fill", "loaded", "page", "end", "save"}, e \in Keys \cup {NoKey} :
          LET x == [v EXCEPT !.kind = kind, !.ended = e]
          IN  x \in Visits /\ x.key = k /\ x.session = s
  BY <1>2 DEF Visits
<1>5. \A kind \in {"fill", "loaded", "page", "end", "save"} :
          LET x == [v EXCEPT !.kind = kind]
          IN  x \in Visits /\ x.key = k /\ x.session = s
  BY <1>2 DEF Visits
<1>6. CASE FillCache(w)
  <2> DEFINE x == [v EXCEPT !.kind = "loaded"]
  <2>1. x \in Visits /\ x.key = k /\ x.session = s
    BY <1>5
  <2>2. Turns(w, x)
    BY <1>2, <1>6, <2>1 DEF FillCache, Turns, AccountsTypeOK
  <2>3. UNCHANGED <<cookie, store>> /\ cached' \in [Keys -> Sessions \cup {Absent}]
    BY <1>2, <1>6 DEF FillCache, AccountsTypeOK
  <2>4. \A q \in Keys : cached'[q] = cached[q] \/ (q = k /\ cached'[q] = s)
    BY <1>2, <1>6 DEF FillCache, AccountsTypeOK
  <2> HIDE DEF x
  <2> QED BY <1>1, <1>2, <1>3, <2>1, <2>2, <2>3, <2>4, MoveStep DEF AccountsTypeOK
<1>7. CASE Respond(w)
  <2>1. CASE visit' = [visit EXCEPT ![w].kind = "save"]
             /\ store' = [store EXCEPT ![k] = s] /\ UNCHANGED <<cached, cookie>>
    <3> DEFINE x == [v EXCEPT !.kind = "save"]
    <3>1. x \in Visits /\ x.key = k /\ x.session = s
      BY <1>5
    <3>2. Turns(w, x)
      BY <1>2, <2>1, <3>1 DEF Turns, AccountsTypeOK
    <3>3. store' \in [Keys -> Sessions \cup {Unused, Deleted}]
      BY <1>2, <2>1 DEF AccountsTypeOK
    <3>4. \A q \in Keys : store'[q] = store[q] \/ (q = k /\ store'[q] = s)
      BY <1>2, <2>1 DEF AccountsTypeOK
    <3> HIDE DEF x
    <3> QED BY <1>1, <1>2, <1>3, <2>1, <3>1, <3>2, <3>3, <3>4, MoveStep DEF AccountsTypeOK
  <2>2. CASE visit' = [visit EXCEPT ![w] = NoVisit] /\ UNCHANGED <<store, cached>>
             /\ cookie' = IF k = NoKey THEN [cookie EXCEPT ![v.browser] = NoKey] ELSE cookie
    <3>1. Turns(w, NoVisit)
      BY <2>2 DEF Turns
    <3>2. cookie' \in [Browsers -> Keys \cup {NoKey}]
      BY <2>2 DEF AccountsTypeOK
    <3> QED BY <1>1, <1>3, <2>2, <3>1, <3>2, MoveStep DEF AccountsTypeOK
  <2> QED BY <1>7, <2>1, <2>2 DEF Respond
<1>8. CASE SaveCache(w)
  <2>1. Turns(w, NoVisit)
    BY <1>8 DEF SaveCache, Turns
  <2>2. /\ UNCHANGED store /\ cached' \in [Keys -> Sessions \cup {Absent}]
        /\ cookie' \in [Browsers -> Keys \cup {NoKey}]
    BY <1>2, <1>8 DEF SaveCache, AccountsTypeOK
  <2>3. \A q \in Keys : cached'[q] = cached[q] \/ (q = k /\ cached'[q] = s)
    BY <1>2, <1>8 DEF SaveCache, AccountsTypeOK
  <2> QED BY <1>1, <1>2, <1>3, <2>1, <2>2, <2>3, MoveStep DEF AccountsTypeOK
<1>9. CASE DropCache(w)
  <2> DEFINE x == [v EXCEPT !.kind = "page", !.ended = NoKey]
  <2>1. x \in Visits /\ x.key = k /\ x.session = s
    BY <1>4
  <2>2. Turns(w, x)
    BY <1>2, <1>9, <2>1 DEF DropCache, Turns, AccountsTypeOK
  <2>3. UNCHANGED <<cookie, store>> /\ cached' \in [Keys -> Sessions \cup {Absent}]
    BY <1>9 DEF DropCache, AccountsTypeOK
  <2>4. \A q \in Keys : cached'[q] = cached[q] \/ cached'[q] = Absent
    BY <1>9 DEF DropCache, AccountsTypeOK
  <2> HIDE DEF x
  <2> QED BY <1>1, <1>2, <1>3, <2>1, <2>2, <2>3, <2>4, MoveStep DEF AccountsTypeOK
<1> QED BY <1>1, <1>6, <1>7, <1>8, <1>9 DEF SessionStep

\* A step that leaves rows and visits alone, but for copies that leave the cache.
LEMMA QuietStep ==
    ASSUME SessionInv, OwnCarts', UNCHANGED <<cookie, store, visit, owner, visits>>,
           cached' \in [Keys -> Sessions \cup {Absent}],
           \A k \in Keys : cached'[k] \in {cached[k], Absent},
           \A o \in Orders : phase[o] # "none" => phase'[o] # "none"
    PROVE  SessionInv' /\ UsersKept
<1> USE DEF SessionInv
<1>1. AccountsTypeOK' /\ Keyless'
  BY DEF AccountsTypeOK, Keyless
<1>2. \A k \in Keys : Copies(k)' \subseteq Copies(k)
  BY DEF Copies
<1> QED BY <1>1, <1>2, CopiesStep DEF KeptOrBegins

-----------------------------------------------------------------------------
(* Steps that begin or end a session, or let it see an order. *)

\* A page opens: its session is the one that was loaded, or a new guest's.
LEMMA OpenPageInvariant ==
    ASSUME SessionInv, NEW w \in Workers, NEW k \in Keys, NEW modified \in BOOLEAN,
           OpenPage(w, k, modified), UNCHANGED phase,
           \A v \in Workers \ {w} : request'[v] = request[v],
           Serving(w, "idle")' \/ request'[w].cart = CartOf(visit[w].session, k)
    PROVE  SessionInv' /\ UsersKept
<1> USE DEF SessionInv
<1> DEFINE v == visit[w]
           x == [v EXCEPT !.kind = "page", !.key = k, !.modified = modified \/ v.key = NoKey]
<1>1. v # NoVisit /\ v \in Visits /\ v.session \in Sessions /\ v.key \in Keys \cup {NoKey}
  BY VisitKinds, VisitFields DEF OpenPage
<1>2. x \in Visits /\ x # NoVisit /\ x.kind = "page" /\ x.key = k /\ x.session = v.session
  <2>1. x \in Visits /\ x.kind = "page" /\ x.key = k /\ x.session = v.session
    BY <1>1 DEF Visits
  <2> QED BY <2>1, VisitsAreOpen
<1>3. visit' = [visit EXCEPT ![w] = x]
  BY <1>1 DEF OpenPage, AccountsTypeOK, Visits
<1> HIDE DEF x
<1>4. k # NoKey
  BY AccountsAssumption
<1>5. Turns(w, x)
  BY <1>2, <1>3, <1>4 DEF Turns
<1>6. /\ \A y \in Workers : visit'[y] = IF y = w THEN x ELSE visit[y]
      /\ Keyless' /\ visit' \in [Workers -> Visits \cup {NoVisit}]
  BY <1>5, TurnedVisit
<1>7. OwnCarts'
  BY <1>2, <1>6 DEF OwnCarts, Serving
<1>8. \/ /\ v.key = NoKey /\ Fresh(k) /\ store' = [store EXCEPT ![k] = NewSession]
         /\ cached' = [cached EXCEPT ![k] = NewSession]
      \/ v.key = k /\ UNCHANGED <<store, cached>>
  BY DEF OpenPage, get_session
<1>9. AccountsTypeOK'
  <2>1. /\ store' \in [Keys -> Sessions \cup {Unused, Deleted}]
        /\ cached' \in [Keys -> Sessions \cup {Absent}]
    BY <1>8, NewSessionFacts DEF AccountsTypeOK
  <2> QED BY <1>6, <2>1 DEF AccountsTypeOK, OpenPage
<1>10. ASSUME NEW q \in Keys PROVE KeptOrBegins(q)
  <2>1. /\ store[q] \in Copies(q) \cup {Unused, Deleted, Absent}
        /\ cached[q] \in Copies(q) \cup {Unused, Deleted, Absent}
        /\ \A y \in Workers : visit[y] # NoVisit /\ visit[y].key = q => visit[y].session \in Copies(q)
    BY CopiesOf
  <2> DEFINE S == Copies(q)
  <2> HIDE DEF S
  <2>2. CASE q # k \/ v.key = k
    <3>1. store'[q] = store[q] /\ cached'[q] = cached[q]
      BY <1>4, <1>8, <2>2 DEF AccountsTypeOK
    <3>2. \A y \in Workers : visit'[y] # NoVisit /\ visit'[y].key = q => visit'[y].session \in S
      BY <1>1, <1>2, <1>6, <2>1, <2>2 DEF S
    <3>3. Copies(q)' \subseteq S
      BY <2>1, <3>1, <3>2, CopiesAfter DEF S
    <3> QED BY <3>1, <3>3 DEF KeptOrBegins, S
  <2>3. CASE q = k /\ v.key # k
    <3>1. /\ store[k] = Unused /\ Copies(k) = {} /\ store'[k] = NewSession /\ cached'[k] = NewSession
          /\ v.session = NewSession
      BY <1>1, <1>8, <2>3 DEF Fresh, KeysGivenOut, Keyless, AccountsTypeOK
    <3>2. \A y \in Workers : visit'[y] # NoVisit /\ visit'[y].key = k => visit'[y].session \in {NewSession}
      BY <1>2, <1>6, <2>1, <2>3, <3>1
    <3>3. Copies(k)' \subseteq {NewSession}
      BY <3>1, <3>2, CopiesAfter
    <3>4. store'[k] # Unused
      BY <3>1, NewSessionFacts
    <3>5. Copies(k)' \subseteq {NewSession, [NewSession EXCEPT !.user = Guest]}
      BY <3>3
    <3> QED BY <2>3, <3>1, <3>4, <3>5, NewSessionFacts DEF KeptOrBegins, Begins
  <2> QED BY <2>2, <2>3
<1>11. UNCHANGED owner
  BY DEF OpenPage
<1> QED BY <1>6, <1>7, <1>9, <1>10, <1>11, CopiesStep

\* The visit of w goes on with another session and key; the old session is to be ended.
LEMMA Ended ==
    ASSUME SessionInv, NEW w \in Workers, visit[w].kind = "loaded", NEW k \in Keys \cup {NoKey},
           NEW s \in Sessions, NEW modified \in BOOLEAN, EndSession(w, k, s, modified),
           k = NoKey => s = NewSession
    PROVE  \E x \in Visits : x.key = k /\ x.session = s /\ Turns(w, x)
<1> USE DEF SessionInv
<1> DEFINE v == visit[w]
           x == [v EXCEPT !.kind = IF v.key = NoKey THEN "page" ELSE "end", !.ended = v.key,
                          !.key = k, !.session = s, !.modified = modified]
<1>1. v # NoVisit /\ v \in Visits /\ v.key \in Keys \cup {NoKey}
  BY VisitKinds, VisitFields
<1>2. x \in Visits /\ x.key = k /\ x.session = s
  BY <1>1 DEF Visits
<1>3. visit' = [visit EXCEPT ![w] = x]
  BY <1>1 DEF EndSession, AccountsTypeOK, Visits
<1> HIDE DEF x
<1> QED BY <1>2, <1>3 DEF Turns

\* The log-in begins a session under a new key, with what the guest's remembers.
LEMMA LoginInvariant ==
    ASSUME SessionInv, NEW w \in Workers, NEW u \in Users, NEW k \in Keys, Login(w, u, k)
    PROVE  SessionInv' /\ UsersKept /\ Aside
<1> USE DEF SessionInv
<1> DEFINE v == visit[w]
           s == v.session
           t == [s EXCEPT !.user = u]
<1>1. v # NoVisit /\ s \in Sessions /\ v.key \in Keys \cup {NoKey} /\ s.user = Guest
  BY VisitKinds, VisitFields DEF Login
<1>2. OwnAccess(s)
  BY <1>1, NewSessionFacts, CopiesOf DEF Keyless, AccessOK
<1>3. t \in Sessions /\ t.user = u
  BY <1>1, <1>2, LoggedIn
<1> HIDE DEF t
<1>4. /\ store[k] = Unused /\ k # NoKey /\ Copies(k) = {}
  BY AccountsAssumption DEF Login, Fresh, KeysGivenOut
<1>5. PICK x \in Visits : x.key = k /\ x.session = t /\ Turns(w, x)
  BY <1>3, <1>4, Ended DEF Login, t
<1>6. /\ \A y \in Workers : visit'[y] = IF y = w THEN x ELSE visit[y]
      /\ Keyless' /\ visit' \in [Workers -> Visits \cup {NoVisit}]
  BY <1>5, TurnedVisit
<1>7. Serving(w, "idle") /\ Aside
  BY NotAPage DEF Login, Aside
<1>8. OwnCarts'
  BY <1>5, <1>7, TurnedVisit DEF Aside, storeVars
<1>9. /\ store' = [q \in Keys |-> IF q = k THEN s
                                  ELSE IF q = v.key /\ Valid(q) THEN Deleted ELSE store[q]]
      /\ cached' = [cached EXCEPT ![k] = s]
  BY DEF Login, Cycled
<1>10. AccountsTypeOK'
  <2>1. /\ store' \in [Keys -> Sessions \cup {Unused, Deleted}]
        /\ cached' \in [Keys -> Sessions \cup {Absent}]
    BY <1>1, <1>9 DEF AccountsTypeOK
  <2> QED BY <1>6, <1>7, <2>1 DEF AccountsTypeOK, Login, Aside
<1>11. ASSUME NEW q \in Keys PROVE KeptOrBegins(q)
  <2>1. /\ store[q] \in Copies(q) \cup {Unused, Deleted, Absent}
        /\ cached[q] \in Copies(q) \cup {Unused, Deleted, Absent}
        /\ \A y \in Workers : visit[y] # NoVisit /\ visit[y].key = q => visit[y].session \in Copies(q)
    BY CopiesOf
  <2>2. CASE q # k
    <3>1. store'[q] \in {store[q], Deleted} /\ cached'[q] = cached[q]
      BY <1>9, <2>2 DEF AccountsTypeOK
    <3> DEFINE S == Copies(q)
    <3> HIDE DEF S
    <3>2. \A y \in Workers : visit'[y] # NoVisit /\ visit'[y].key = q => visit'[y].session \in S
      BY <1>5, <1>6, <2>1, <2>2 DEF S
    <3>3. Copies(q)' \subseteq S
      BY <2>1, <3>1, <3>2, CopiesAfter DEF S
    <3> QED BY <3>1, <3>3, AccountsAssumption DEF KeptOrBegins, S
  <2>3. CASE q = k
    <3>1. store'[k] = s /\ cached'[k] = s
      BY <1>9 DEF AccountsTypeOK
    <3>2. \A y \in Workers : visit'[y] # NoVisit /\ visit'[y].key = k => visit'[y].session \in {s, t}
      BY <1>4, <1>5, <1>6, <2>1, <2>3
    <3>3. Copies(k)' \subseteq {s, t}
      BY <3>1, <3>2, CopiesAfter
    <3>4. store'[k] # Unused
      BY <1>1, <3>1, AccountsAssumption
    <3> QED BY <1>1, <1>2, <1>4, <2>3, <3>3, <3>4 DEF KeptOrBegins, Begins, t
  <2> QED BY <2>2, <2>3
<1> QED BY <1>6, <1>7, <1>8, <1>10, <1>11, CopiesStep DEF Aside, storeVars

\* logout_view deletes the row; what is left is a guest without a key.
LEMMA LogoutInvariant ==
    ASSUME SessionInv, NEW w \in Workers, Logout(w)
    PROVE  SessionInv' /\ UsersKept /\ Aside
<1> USE DEF SessionInv
<1>1. NewSession \in Sessions
  BY NewSessionFacts
<1>2. PICK x \in Visits : x.key = NoKey /\ x.session = NewSession /\ Turns(w, x)
  <2>1. visit[w].kind = "loaded" /\ EndSession(w, NoKey, NewSession, FALSE)
    BY DEF Logout
  <2> DEFINE k == NoKey
             s == NewSession
             modified == FALSE
  <2>2. /\ k \in Keys \cup {NoKey} /\ s \in Sessions /\ (k = NoKey => s = NewSession)
        /\ modified \in BOOLEAN
    BY <1>1
  <2>3. EndSession(w, k, s, modified)
    BY <2>1
  <2> HIDE DEF k, s, modified
  <2>4. \E x \in Visits : x.key = k /\ x.session = s /\ Turns(w, x)
    BY <2>1, <2>2, <2>3, Ended
  <2> QED BY <2>4 DEF k, s
<1>3. Serving(w, "idle") /\ Aside
  BY NotAPage DEF Logout, Aside
<1>4. /\ store' \in [Keys -> Sessions \cup {Unused, Deleted}]
      /\ \A q \in Keys : store'[q] \in {store[q], Deleted}
      /\ UNCHANGED <<cookie, cached, visits>>
  BY DEF Logout, AccountsTypeOK
<1>5. NoKey \notin Keys
  BY AccountsAssumption
<1> QED BY <1>2, <1>3, <1>4, <1>5, MoveStep DEF AccountsTypeOK

\* An order is placed for the user of the session; at the counter the session of the
\* page may look at it.  Nobody could before.
LEMMA PlaceOrderInvariant ==
    ASSUME StoreInv, SessionInv, NEW w \in Workers, NEW o \in Orders, PlaceOrder(w, o)
    PROVE  SessionInv' /\ \A k \in Keys : Holders(k)' \subseteq Holders(k)
<1> USE DEF SessionInv
<1> DEFINE v == visit[w]
           u == v.session.user
           more == [v.session EXCEPT !.access = Granted(@, o)]
           x == [v EXCEPT !.session = more]
<1>1. /\ ~Serving(w, "idle") /\ phase[o] = "none"
      /\ phase' = [phase EXCEPT ![o] = "pending"] \/ phase' = [phase EXCEPT ![o] = "counter"]
      /\ request' = [request EXCEPT ![w] = Idle]
  BY DEF PlaceOrder, CommitOnlineCheckout, CommitCounterCheckout, MoveToOrder, Serving, Done
<1>2. /\ v.kind = "page" /\ v # NoVisit /\ v \in Visits /\ v.session \in Sessions
      /\ u \in Users \cup {Guest} /\ v.key \in Keys
  BY <1>1, VisitKinds, VisitFields DEF OwnCarts, Sessions
<1>3. /\ more \in Sessions /\ more.user = u
      /\ ToSet(more.access) \subseteq ToSet(v.session.access) \cup {o}
  <2>1. v.session.access \in Seq(Orders)
    BY <1>2 DEF Sessions
  <2>2. /\ more \in Sessions /\ more.user = u /\ more.access = Granted(v.session.access, o)
    BY <1>2, <2>1, GrantedAccess DEF Sessions
  <2> QED BY <2>1, <2>2, GrantedAccess
<1> HIDE DEF more
<1>4. x \in Visits /\ x.kind = "page" /\ x.key = v.key /\ x.session = more
  BY <1>2, <1>3 DEF Visits
<1>5. UNCHANGED visit \/ visit' = [visit EXCEPT ![w] = x]
  BY <1>2 DEF PlaceOrder, AccountsTypeOK, Visits, more
<1> HIDE DEF x
<1>6. /\ \A y \in Workers \ {w} : visit'[y] = visit[y]
      /\ visit'[w] \in {v, x} /\ visit' \in [Workers -> Visits \cup {NoVisit}]
  BY <1>2, <1>4, <1>5 DEF AccountsTypeOK
<1>7. owner' = [owner EXCEPT ![o] = u] /\ UNCHANGED <<cookie, store, cached, visits>>
  BY DEF PlaceOrder
<1>8. /\ \A q \in Orders \ {o} : owner'[q] = owner[q] /\ phase'[q] = phase[q]
      /\ owner'[o] = u /\ phase'[o] # "none"
  BY <1>1, <1>7 DEF AccountsTypeOK, StoreInv, StoreTypeOK
<1>9. AccountsTypeOK'
  BY <1>2, <1>6, <1>7 DEF AccountsTypeOK
<1>10. Keyless'
  BY <1>2, <1>4, <1>6, AccountsAssumption, NewSessionFacts DEF Keyless
<1>11. OwnCarts'
  BY <1>1, <1>6 DEF OwnCarts, Serving, Idle, StoreInv, StoreTypeOK
<1>12. ASSUME NEW s \in Sessions, OwnAccess(s) PROVE OwnAccess(s)'
  BY <1>1, <1>8, <1>12, AccessIsOrders DEF OwnAccess
<1>13. \A q \in ToSet(more.access) : phase'[q] # "none" /\ owner'[q] \in {Guest, more.user}
  <2> DEFINE a == v.session.access
             b == more.access
  <2>1. OwnAccess(v.session)
    BY <1>2, CopiesOf DEF AccessOK
  <2>2. \A q \in ToSet(a) : q \in Orders /\ phase[q] # "none" /\ owner[q] \in {Guest, u}
    BY <1>2, <2>1, AccessIsOrders DEF OwnAccess
  <2>3. \A q \in ToSet(a) \cup {o} : phase'[q] # "none" /\ owner'[q] \in {Guest, u}
    BY <1>1, <1>8, <2>2
  <2>4. ToSet(b) \subseteq ToSet(a) \cup {o} /\ more.user = u
    BY <1>3
  <2> HIDE DEF a, b, u
  <2>5. \A q \in ToSet(b) : phase'[q] # "none" /\ owner'[q] \in {Guest, more.user}
    BY <2>3, <2>4
  <2> QED BY <2>5 DEF b
<1>14. ASSUME NEW k \in Keys
       PROVE  \A s \in Copies(k)' : OwnAccess(s)' /\ s.user \in Holders(k)
  <2>1. /\ store[k] \in Copies(k) \cup {Unused, Deleted, Absent}
        /\ cached[k] \in Copies(k) \cup {Unused, Deleted, Absent}
        /\ \A y \in Workers : visit[y] # NoVisit /\ visit[y].key = k => visit[y].session \in Copies(k)
        /\ Copies(k) \subseteq Sessions
    BY CopiesOf
  <2> DEFINE S == Copies(k) \cup (IF v.key = k THEN {more} ELSE {})
  <2> HIDE DEF S
  <2>2. \A y \in Workers : visit'[y] # NoVisit /\ visit'[y].key = k => visit'[y].session \in S
    BY <1>2, <1>4, <1>6, <2>1 DEF S
  <2>3. Copies(k)' \subseteq S
    BY <1>7, <2>1, <2>2, CopiesAfter DEF S
  <2>4. \A s \in Copies(k) : OwnAccess(s)' /\ s.user \in Holders(k)
    BY <1>12, <2>1 DEF AccessOK, Holders
  <2>5. v.key = k => more.user \in Holders(k)
    BY <1>2, <1>3, <2>1 DEF Holders
  <2> TAKE s \in Copies(k)'
  <2>6. CASE s \in Copies(k)
    BY <2>4, <2>6
  <2>7. CASE s = more /\ v.key = k
    BY <1>13, <2>5, <2>7 DEF OwnAccess
  <2> QED BY <2>3, <2>6, <2>7 DEF S
<1>15. \A k \in Keys : Holders(k)' \subseteq Holders(k)
  BY <1>14 DEF Holders
<1>16. AccessOK' /\ OneAccount'
  BY <1>14, <1>15 DEF AccessOK, OneAccount
<1>17. KeysGivenOut'
  <2> SUFFICES ASSUME NEW k \in Keys, store[k] = Unused PROVE Copies(k)' = {}
    BY <1>7 DEF KeysGivenOut
  <2>1. Holders(k) = {}
    BY DEF KeysGivenOut, Holders
  <2> QED BY <1>14, <2>1
<1> QED BY <1>9, <1>10, <1>11, <1>15, <1>16, <1>17

-----------------------------------------------------------------------------
(* Steps. *)

\* A later step of a cart request or a rollback leaves sessions and orders alone.
LEMMA CartStepInvariant ==
    ASSUME StoreInv, SessionInv, NEW w \in Workers, CartStep(w)
    PROVE  SessionInv' /\ UsersKept /\ StoreNext
<1>1. CartRequest(w) \/ RollBack(w)
  BY DEF CartStep, CartRequest
<1>2. /\ ~Serving(w, "idle") /\ UNCHANGED accountVars
  BY DEF CartStep, GetItem, SaveItem, SetItem, ReleaseHold, DeleteItem, RollBack, Serving
<1>3. UNCHANGED phase
  BY <1>1, CartRequestStep
<1>4. \E x : /\ request' = [request EXCEPT ![w] = x]
             /\ x.pc = "idle" \/ x.cart = request[w].cart
  BY DEF CartStep, GetItem, SaveItem, SetItem, ReleaseHold, DeleteItem, RollBack, Done, Idle
<1>5. \A v \in Workers : \/ request'[v] = request[v] \/ Serving(v, "idle")'
                         \/ v = w /\ request'[v].cart = request[v].cart
  BY <1>4 DEF StoreInv, StoreTypeOK, Serving
<1>6. OwnCarts'
  BY <1>2, <1>5 DEF SessionInv, OwnCarts, Serving, accountVars
<1>7. SessionInv' /\ UsersKept
  BY <1>2, <1>3, <1>6, QuietStep DEF accountVars, SessionInv, AccountsTypeOK
<1> QED BY <1>1, <1>7 DEF StoreNext

\* The cart a page works on.
LEMMA OwnCart ==
    ASSUME SessionInv, NEW w \in Workers, visit[w].kind = "loaded", NEW k \in Keys
    PROVE  CartOf(visit[w].session, k) \in Carts
  BY VisitKinds, VisitFields, AccountsAssumption DEF SessionInv, CartOf, Sessions

\* A page opens, a session begins or ends: the cart is the visitor's own.
LEMMA ViewInvariant ==
    ASSUME StoreInv, SessionInv, NEW w \in Workers, View(w)
    PROVE  SessionInv' /\ UsersKept /\ [StoreNext]_storeVars
<1>1. CASE \E k \in Keys : UseCart(w, k)
  <2>1. PICK k \in Keys : UseCart(w, k)
    BY <1>1
  <2> DEFINE c == CartOf(visit[w].session, k)
  <2>2. c \in Carts
    BY <2>1, OwnCart DEF UseCart
  <2> HIDE DEF c
  <2>3. \/ \E p \in Products, n \in Quantities : BeginAdd(w, c, p, n)
        \/ \E p \in Products, n \in Quantities : BeginSet(w, c, p, n)
        \/ \E p \in Products : BeginRemove(w, c, p)
    BY <2>1 DEF UseCart, c
  <2>4. CartRequest(w)
    BY <2>2, <2>3 DEF CartRequest
  <2>5. UNCHANGED phase
    BY <2>4, CartRequestStep
  <2>6. request \in [Workers -> {Idle} \cup Requests]
    BY DEF StoreInv, StoreTypeOK
  <2>7. request'[w].cart = c /\ \A v \in Workers \ {w} : request'[v] = request[v]
    BY <2>3, <2>6 DEF BeginAdd, BeginSet, BeginRemove
  <2>8. SessionInv' /\ UsersKept
    BY <2>1, <2>5, <2>7, OpenPageInvariant DEF UseCart, c
  <2> QED BY <2>4, <2>8 DEF StoreNext
<1>2. CASE \E k \in Keys : ViewPage(w, k) \/ ScanTable(w, k)
  <2>1. PICK k \in Keys : ViewPage(w, k) \/ ScanTable(w, k)
    BY <1>2
  <2>2. UNCHANGED storeVars /\ (OpenPage(w, k, FALSE) \/ OpenPage(w, k, TRUE))
    BY <2>1 DEF ViewPage, ScanTable
  <2>3. Serving(w, "idle")
    BY <2>2, NotAPage DEF OpenPage
  <2>4. UNCHANGED <<phase, request>> /\ Serving(w, "idle")'
    BY <2>2, <2>3 DEF storeVars, Serving
  <2>5. SessionInv' /\ UsersKept
    BY <2>2, <2>4, OpenPageInvariant
  <2> QED BY <2>2, <2>5
<1>3. CASE Checkout(w)
  <2> DEFINE k == visit[w].key
             c == CartOf(visit[w].session, k)
  <2>1. k \in Keys
    BY <1>3, VisitKinds, VisitFields DEF Checkout, SessionInv
  <2>2. c \in Carts
    BY <1>3, <2>1, OwnCart DEF Checkout
  <2>3. BeginOnlineCheckout(w, c) \/ BeginCounterCheckout(w, c)
    BY <1>3 DEF Checkout
  <2>4. CheckoutRequest(w)
    BY <2>2, <2>3 DEF CheckoutRequest
  <2> HIDE DEF c
  <2>5. UNCHANGED phase /\ request \in [Workers -> {Idle} \cup Requests]
    BY <2>3 DEF BeginOnlineCheckout, BeginCounterCheckout, cartVars, StoreInv, StoreTypeOK
  <2>6. request'[w].cart = c /\ \A v \in Workers \ {w} : request'[v] = request[v]
    BY <2>3, <2>5 DEF BeginOnlineCheckout, BeginCounterCheckout
  <2>7. SessionInv' /\ UsersKept
    BY <1>3, <2>1, <2>5, <2>6, OpenPageInvariant DEF Checkout, c
  <2> QED BY <2>4, <2>7 DEF StoreNext
<1>4. CASE \E u \in Users, k \in Keys : Login(w, u, k)
  BY <1>4, LoginInvariant DEF Aside
<1>5. CASE Logout(w)
  BY <1>5, LogoutInvariant DEF Aside
<1> QED BY <1>1, <1>2, <1>3, <1>4, <1>5 DEF View

\* One step: for carts and stock it is a step of the storefront.
LEMMA AccountsStep ==
    ASSUME StoreInv, SessionInv, [AccountsNext]_allVars
    PROVE  SessionInv' /\ UsersKept /\ [StoreNext]_storeVars
<1>1. CASE \E w \in Workers, b \in Browsers : Arrive(w, b)
  BY <1>1, ArriveInvariant DEF Aside
<1>2. CASE \E w \in Workers, o \in Orders : PlaceOrder(w, o)
  <2>1. PICK w \in Workers, o \in Orders : PlaceOrder(w, o)
    BY <1>2
  <2>2. CheckoutRequest(w)
    BY <2>1 DEF PlaceOrder, CheckoutRequest
  <2> QED BY <2>1, <2>2, PlaceOrderInvariant DEF StoreNext, UsersKept
<1>3. CASE \E w \in Workers : View(w)
  BY <1>3, ViewInvariant
<1>4. CASE \E w \in Workers : CartStep(w)
  BY <1>4, CartStepInvariant
<1>5. CASE \E w \in Workers : SessionStep(w)
  BY <1>5, SessionStepInvariant DEF Aside
<1>6. CASE \E k \in Keys : Evict(k)
  <2>1. PICK k \in Keys : Evict(k)
    BY <1>6
  <2>2. /\ UNCHANGED <<storeVars, cookie, store, visit, owner, visits>>
        /\ cached' \in [Keys -> Sessions \cup {Absent}]
        /\ \A q \in Keys : cached'[q] \in {cached[q], Absent}
    BY <2>1 DEF Evict, SessionInv, AccountsTypeOK
  <2>3. OwnCarts' /\ UNCHANGED phase
    BY <2>2 DEF SessionInv, OwnCarts, Serving, storeVars
  <2> QED BY <2>2, <2>3, QuietStep
<1>7. CASE UNCHANGED allVars
  <2>1. OwnCarts' /\ UNCHANGED <<phase, storeVars, cookie, store, cached, visit, owner, visits>>
    BY <1>7 DEF SessionInv, OwnCarts, Serving, allVars, accountVars, storeVars
  <2> QED BY <2>1, QuietStep DEF SessionInv, AccountsTypeOK
<1> QED BY <1>1, <1>2, <1>3, <1>4, <1>5, <1>6, <1>7 DEF AccountsNext

\* At first there are no sessions and no requests.
LEMMA AccountsStart == AccountsInit => StoreInit /\ AccountsInv
<1> SUFFICES ASSUME AccountsInit PROVE StoreInit /\ AccountsInv
  OBVIOUS
<1>1. StoreInit /\ StoreInv
  BY StoreStart DEF AccountsInit
<1>2. \A w \in Workers : visit[w] = NoVisit /\ Serving(w, "idle")
  BY <1>1 DEF AccountsInit, StoreInit, Serving, Idle
<1>3. \A k \in Keys : Copies(k) = {}
  BY <1>2 DEF AccountsInit, Copies
<1>4. AccountsTypeOK
  BY AccountsAssumption DEF AccountsInit, AccountsTypeOK
<1>5. OwnCarts /\ Keyless
  BY <1>2 DEF OwnCarts, Keyless
<1>6. AccessOK /\ KeysGivenOut /\ OneAccount
  BY <1>3 DEF AccessOK, KeysGivenOut, OneAccount, Holders
<1> QED BY <1>1, <1>4, <1>5, <1>6 DEF AccountsInv, SessionInv

-----------------------------------------------------------------------------
(* Theorems. *)

\* The inductive invariant holds in every reachable state.
THEOREM AccountsInvariantHolds == AccountsSpec => []AccountsInv
<1>1. AccountsInv /\ [AccountsNext]_allVars => AccountsInv'
  BY AccountsStep, StoreStep DEF AccountsInv
<1> QED BY <1>1, AccountsStart, PTL DEF AccountsSpec

\* Type correctness of sessions and requests (core/views.py, accounts/views.py).
THEOREM AccountsTypeCorrect == AccountsSpec => []AccountsTypeOK
<1>1. AccountsInv => AccountsTypeOK
  BY DEF AccountsInv, SessionInv
<1> QED BY <1>1, AccountsInvariantHolds, PTL

\* can_view_checkout_order: no customer sees the order of another account, however requests,
\* log-ins and old copies of sessions overlap.
THEOREM AccessStaysOwn == AccountsSpec => []AccessIsOwn
<1>1. AccountsInv => AccessIsOwn
  BY DEF AccountsInv, SessionInv, AccessOK, OwnAccess, AccessIsOwn, can_view_checkout_order
<1> QED BY <1>1, AccountsInvariantHolds, PTL

\* No step brings a deleted row back.
LEMMA DeletedStays ==
    ASSUME AccountsInv, [AccountsNext]_allVars, NEW k \in Keys, store[k] = Deleted
    PROVE  store'[k] = Deleted
<1> USE DEF AccountsInv, SessionInv
<1>1. CASE UNCHANGED store
  BY <1>1
<1>2. CASE \E w \in Workers, q \in Keys : get_session(w, q)
  BY <1>2, AccountsAssumption DEF get_session, Fresh, AccountsTypeOK
<1>3. CASE \E w \in Workers, u \in Users, q \in Keys : Login(w, u, q)
  BY <1>3, AccountsAssumption DEF Login, Cycled, Fresh
<1>4. CASE \E w \in Workers : Logout(w)
  BY <1>4 DEF Logout, AccountsTypeOK
<1>5. CASE \E w \in Workers : Respond(w)
  BY <1>5 DEF Respond, Valid, AccountsTypeOK
<1>6. \/ UNCHANGED store
      \/ \E w \in Workers, q \in Keys : get_session(w, q)
      \/ \E w \in Workers, u \in Users, q \in Keys : Login(w, u, q)
      \/ \E w \in Workers : Logout(w)
      \/ \E w \in Workers : Respond(w)
  <2>1. ASSUME NEW w \in Workers, View(w)
        PROVE  \/ \E q \in Keys : get_session(w, q)
               \/ \E u \in Users, q \in Keys : Login(w, u, q)
               \/ Logout(w)
    <3>1. CASE Checkout(w)
      BY <3>1, VisitKinds, VisitFields DEF Checkout, OpenPage
    <3> QED BY <2>1, <3>1 DEF View, ViewPage, ScanTable, UseCart, OpenPage
  <2>2. ASSUME NEW w \in Workers, CartStep(w) \/ SessionStep(w) PROVE UNCHANGED store \/ Respond(w)
    BY <2>2 DEF CartStep, SessionStep, FillCache, SaveCache, DropCache, accountVars
  <2>3. ASSUME NEW w \in Workers, NEW o \in Orders, PlaceOrder(w, o) PROVE UNCHANGED store
    BY <2>3 DEF PlaceOrder
  <2>4. ASSUME NEW w \in Workers, NEW b \in Browsers, Arrive(w, b) PROVE UNCHANGED store
    BY <2>4 DEF Arrive
  <2>5. ASSUME NEW q \in Keys, Evict(q) PROVE UNCHANGED store
    BY <2>5 DEF Evict
  <2>6. UNCHANGED allVars => UNCHANGED store
    BY DEF allVars, accountVars
  <2> QED BY <2>1, <2>2, <2>3, <2>4, <2>5, <2>6 DEF AccountsNext
<1> QED BY <1>1, <1>2, <1>3, <1>4, <1>5, <1>6

\* SessionMiddleware, cached_db and cycle_key: no old copy of a session, be it in a request
\* or in the cache, brings a deleted row back or gives the session to another user.
THEOREM SessionsNeverChangeHands == AccountsSpec => SessionsKeepTheirUser
<1>1. AccountsInv /\ [AccountsNext]_allVars =>
         [\A k \in Keys :
             /\ store[k] = Deleted => store'[k] = Deleted
             /\ store[k] # Unused => Holders(k)' \subseteq Holders(k)
             /\ \A u, v \in Holders(k)' : u = v \/ Guest \in {u, v}]_allVars
  <2> SUFFICES ASSUME AccountsInv, [AccountsNext]_allVars, NEW k \in Keys
               PROVE  /\ store[k] = Deleted => store'[k] = Deleted
                      /\ store[k] # Unused => Holders(k)' \subseteq Holders(k)
                      /\ \A u, v \in Holders(k)' : u = v \/ Guest \in {u, v}
    OBVIOUS
  <2>1. SessionInv' /\ UsersKept
    BY AccountsStep DEF AccountsInv
  <2>2. \A u, v \in Holders(k)' : u = v \/ Guest \in {u, v}
    BY <2>1 DEF SessionInv, OneAccount
  <2> QED BY <2>1, <2>2, DeletedStays DEF UsersKept
<1> QED BY <1>1, AccountsInvariantHolds, PTL DEF AccountsSpec, SessionsKeepTheirUser

\* Items change by the requests on their cart only.
LEMMA ItemsChange ==
    ASSUME StoreInv, [AccountsNext]_allVars, NEW c \in Carts, items'[c] # items[c]
    PROVE  \E w \in Workers : ~Serving(w, "idle") /\ request[w].cart = c
<1> USE DEF StoreInv, StoreTypeOK
<1>1. ASSUME NEW w \in Workers, CartStep(w)
      PROVE  ~Serving(w, "idle") /\ request[w].cart = c
  <2>1. ~Serving(w, "idle")
    BY <1>1 DEF CartStep, GetItem, SaveItem, SetItem, ReleaseHold, DeleteItem, RollBack, Serving
  <2>2. UNCHANGED items \/ \E r : items' = [items EXCEPT ![request[w].cart] = r]
    <3>1. CASE GetItem(w) \/ ReleaseHold(w) \/ RollBack(w)
      BY <3>1 DEF GetItem, ReleaseHold, RollBack, cartVars
    <3>2. CASE SaveItem(w) \/ SetItem(w) \/ DeleteItem(w)
      BY <3>2 DEF SaveItem, SetItem, DeleteItem, SaveAndReserve
    <3> QED BY <1>1, <3>1, <3>2 DEF CartStep
  <2> QED BY <2>1, <2>2
<1>2. ASSUME NEW w \in Workers, NEW o \in Orders, PlaceOrder(w, o)
      PROVE  ~Serving(w, "idle") /\ request[w].cart = c
  BY <1>2 DEF PlaceOrder, CommitOnlineCheckout, CommitCounterCheckout, MoveToOrder, Serving
<1>3. ASSUME NEW w \in Workers, View(w) PROVE UNCHANGED items
  BY <1>3 DEF View, ViewPage, ScanTable, UseCart, Login, Checkout, Logout, BeginAdd, BeginSet,
              BeginRemove, BeginOnlineCheckout, BeginCounterCheckout, storeVars, cartVars
<1>4. ASSUME NEW w \in Workers, SessionStep(w) PROVE UNCHANGED items
  BY <1>4 DEF SessionStep, FillCache, Respond, SaveCache, DropCache, storeVars
<1>5. ASSUME NEW w \in Workers, NEW b \in Browsers, Arrive(w, b) PROVE UNCHANGED items
  BY <1>5 DEF Arrive, storeVars
<1>6. ASSUME NEW k \in Keys, Evict(k) PROVE UNCHANGED items
  BY <1>6 DEF Evict, storeVars
<1>7. UNCHANGED allVars => UNCHANGED items
  BY DEF allVars, storeVars
<1> QED BY <1>1, <1>2, <1>3, <1>4, <1>5, <1>6, <1>7 DEF AccountsNext

\* _get_cart and merge_session_cart_on_login: a cart changes by requests of its own user or
\* session only, so that the log-in leaves the cart of the guest where it is.
THEOREM CartsNeverMerge == AccountsSpec => CartsStayApart
<1>1. AccountsInv /\ [AccountsNext]_allVars =>
         [\A c \in Carts :
             items'[c] # items[c] =>
                 \E w \in Workers :
                     /\ visit[w].kind = "page" /\ ~Serving(w, "idle")
                     /\ request[w].cart = c
                     /\ CartOf(visit[w].session, visit[w].key) = c]_allVars
  BY ItemsChange DEF AccountsInv, SessionInv, OwnCarts
<1> QED BY <1>1, AccountsInvariantHolds, PTL DEF AccountsSpec, CartsStayApart

\* Carts chosen by session (_get_cart) are used as the storefront uses them: every
\* behaviour with sessions is one of StoreSpec.
THEOREM StorefrontUsed == AccountsSpec => UsesStorefront
<1>1. AccountsInit => StoreInit
  BY AccountsStart
<1>2. AccountsInv /\ [AccountsNext]_allVars => [StoreNext]_storeVars
  BY AccountsStep DEF AccountsInv
<1> QED BY <1>1, <1>2, AccountsInvariantHolds, PTL DEF AccountsSpec, UsesStorefront, StoreSpec

\* So log-ins and log-outs, too, leave the cached counters of the stock exact.
THEOREM AccountsReservedExact == AccountsSpec => []ReservedIsHeld
  BY StorefrontUsed, StoreReservedExact, PTL DEF UsesStorefront

=============================================================================
