----------------------------- MODULE Inventory -----------------------------
(***************************************************************************)
(* The stock service of the shop: apps/inventory/services.py over the rows *)
(* of apps/inventory/models.py (ProductInventory, DailyProductionCapacity, *)
(* StockReservation) and Product.availability_status.                      *)
(*                                                                         *)
(* Every function of the service runs in one database transaction          *)
(* (transaction.atomic) that locks the ProductInventory row of a product   *)
(* (SELECT ... FOR UPDATE) before it writes that row, a capacity row or a  *)
(* reservation of the product, and keeps the lock until it commits.  An    *)
(* action is therefore one whole transaction; a transaction that raises is *)
(* rolled back and is no step at all.                                      *)
(*                                                                         *)
(* A reservation row belongs to a cart or to an order and to one product.  *)
(* An owner has at most one live row per product: order items are unique   *)
(* per product because cart items are (unique_product_per_cart), and       *)
(* reserve_for_cart_item releases the ACTIVE row before it creates the     *)
(* next.  Rows that are no longer live are never read again, so the model  *)
(* keeps, per owner and product, the latest row only.                      *)
(*                                                                         *)
(* An operator marked "Defect" is no part of the specification: it is a    *)
(* faulty variant of the definition below it, kept to show that a property *)
(* notices the fault.                                                      *)
(***************************************************************************)
EXTENDS Integers, FiniteSets

CONSTANTS
    Products,           \* products with a ProductInventory row
    Carts, Orders,      \* the owners of reservations
    Tracked,            \* products with track_stock = True
    Preorder,           \* products with allow_preorder = True
    InitialStock,       \* stock_quantity of each product at the start
    MaxQty,             \* bound: the largest quantity of one item
    StockEntries,       \* bound: the stock_quantity values staff may enter
    CapacityEntries,    \* bound: the max_units values staff may enter
    MaxDays,            \* days probed by find_fulfillment_date (14 in the code)
    MinCapacity,        \* least default capacity of a tracked product (50)
    UntrackedCapacity,  \* default capacity of an untracked product (100)
    LastToday           \* bound: the last calendar day that becomes "today"

Owners == Carts \cup Orders
Days == 0 .. (LastToday + MaxDays - 1)
Quantities == 1 .. MaxQty

ASSUME OwnersAssumption == /\ IsFiniteSet(Carts) /\ IsFiniteSet(Orders)
                           /\ Carts \cap Orders = {}
ASSUME ProductsAssumption == Tracked \subseteq Products /\ Preorder \subseteq Products
ASSUME StockAssumption == InitialStock \in [Products -> Nat]
ASSUME BoundsAssumption == /\ MaxQty \in Nat /\ LastToday \in Nat
                           /\ StockEntries \subseteq Nat /\ CapacityEntries \subseteq Nat
                           /\ MaxDays \in Nat \ {0}
                           /\ MinCapacity \in Nat /\ UntrackedCapacity \in Nat

VARIABLES
    stock_quantity,       \* ProductInventory.stock_quantity, per product
    reserved_quantity,    \* ProductInventory.reserved_quantity, per product
    rows,                 \* the <<product, day>> pairs that have a capacity row
    max_units,            \* DailyProductionCapacity columns, per product and day
    reserved_units,
    fulfilled_units,
    reservation,          \* the latest StockReservation, per owner and product
    availability_status,  \* Product.availability_status
    today                 \* timezone.localdate()

capacityVars == <<rows, max_units, reserved_units, fulfilled_units>>
vars == <<stock_quantity, reserved_quantity, capacityVars, reservation,
          availability_status, today>>

-----------------------------------------------------------------------------
(* Reservation rows. *)

Live == {"active", "confirmed"}
Dead == {"none", "released", "expired"}

\* What is left of a row that holds nothing: its status.  "none" is no row yet.
DeadRow(s) == [status |-> s, quantity |-> 0, production_date |-> 0, overdue |-> FALSE]

\* A new ACTIVE row; expires_at lies in the future, so it is not overdue.
ActiveRow(n, d) == [status |-> "active", quantity |-> n, production_date |-> d,
                    overdue |-> FALSE]

Rows == [status : Live \cup Dead, quantity : 0 .. MaxQty,
         production_date : Days, overdue : BOOLEAN]

\* The rows of owner o with one of the given statuses, as <<owner, product>>.
RowsOf(o, statuses) ==
    {x \in {o} \X Products : reservation[o][x[2]].status \in statuses}

\* The units of product p that the rows in R hold (on day d), one element
\* <<owner, k>> per unit: Cardinality(Units(R, p)) is the sum of quantities.
Units(R, p) ==
    {u \in Owners \X Quantities :
        /\ <<u[1], p>> \in R
        /\ u[2] <= reservation[u[1]][p].quantity}

UnitsOn(R, p, d) == {u \in Units(R, p) : reservation[u[1]][p].production_date = d}

-----------------------------------------------------------------------------
(* The arithmetic of the rows. *)

\* Defect: a subtraction without max(0, ...).
Unclamped(n) == n

\* max(0, n): every subtraction in the service is clamped.
Floor(n) == IF n < 0 THEN 0 ELSE n

\* Defect: the reserved units are not subtracted.
StockOnHand(p, reserved) == stock_quantity[p]

\* ProductInventory.available_quantity of a tracked product.
available_quantity(p, reserved) == Floor(stock_quantity[p] - reserved[p])

default_daily_capacity(p) ==
    IF p \notin Tracked THEN UntrackedCapacity
    ELSE IF stock_quantity[p] > MinCapacity THEN stock_quantity[p] ELSE MinCapacity

\* max_units of the row of <<p, d>>, or of the row get_or_create would create.
MaxUnits(p, d) == IF <<p, d>> \in rows THEN max_units[p][d] ELSE default_daily_capacity(p)

\* DailyProductionCapacity.available_units, given the reserved_units in use.
available_units(p, d, units) == Floor(MaxUnits(p, d) - units[p][d] - fulfilled_units[p][d])

\* d is acceptable to the loop of find_fulfillment_date for n units: capacity is
\* left, or d is today and the stock on hand is enough.
Acceptable(p, n, d, reserved, units) ==
    \/ available_units(p, d, units) >= n
    \/ d = today /\ p \in Tracked /\ available_quantity(p, reserved) >= n

\* d is the date find_fulfillment_date returns.  The second call that
\* _reserve_item makes for a preorder starts at d and returns d again: it is
\* made only when the stock is short, so d was accepted for its capacity.
find_fulfillment_date(p, n, d, reserved, units) ==
    /\ d \in today .. (today + MaxDays - 1)
    /\ Acceptable(p, n, d, reserved, units)
    /\ \A e \in today .. (d - 1) : ~Acceptable(p, n, e, reserved, units)

\* Defect: a booking without the check of the stock.
ReserveAnyStock(p, n, d, reserved, units) ==
    /\ find_fulfillment_date(p, n, d, reserved, units)
    /\ available_units(p, d, units) >= n

\* Defect: a booking without the last check of the day's capacity.
ReserveAnyCapacity(p, n, d, reserved, units) ==
    /\ find_fulfillment_date(p, n, d, reserved, units)
    /\ p \notin Tracked \/ n <= available_quantity(p, reserved) \/ p \in Preorder

\* _reserve_item books n units of p on day d and does not raise.
reserve_item(p, n, d, reserved, units) ==
    /\ find_fulfillment_date(p, n, d, reserved, units)
    /\ \/ p \notin Tracked
       \/ n <= available_quantity(p, reserved)
       \/ p \in Preorder
    /\ available_units(p, d, units) >= n

-----------------------------------------------------------------------------
(* The two halves of a transaction: release a set R of live rows, then book *)
(* the quantities n (a function of the product; 0 is no item).              *)

\* Defect: every row gives back one unit, whatever its quantity.
ReservedLessOnePerRow(R) ==
    [p \in Products |->
        IF p \in Tracked THEN Floor(reserved_quantity[p] - Cardinality({x \in R : x[2] = p}))
                         ELSE reserved_quantity[p]]

ReservedAfter(R) ==
    [p \in Products |->
        IF p \in Tracked THEN Floor(reserved_quantity[p] - Cardinality(Units(R, p)))
                         ELSE reserved_quantity[p]]

\* Defect: the early return for untracked products comes before the capacity row.
UnitsOfTrackedAfter(R) ==
    [p \in Products |-> [d \in Days |->
        IF p \in Tracked THEN Floor(reserved_units[p][d] - Cardinality(UnitsOn(R, p, d)))
                         ELSE reserved_units[p][d]]]

UnitsAfter(R) ==
    [p \in Products |-> [d \in Days |->
        Floor(reserved_units[p][d] - Cardinality(UnitsOn(R, p, d)))]]

\* _release_single_reservation on every row of R, leaving them with status s.
Release(R, s) ==
    /\ reserved_quantity' = ReservedAfter(R)
    /\ reserved_units' = UnitsAfter(R)
    /\ reservation' = [o \in Owners |-> [p \in Products |->
                          IF <<o, p>> \in R THEN DeadRow(s) ELSE reservation[o][p]]]

\* Release the rows R, then _reserve_item for owner o and every product with
\* n[p] > 0.  The products are independent of each other.  The loop of
\* find_fulfillment_date creates the capacity row of each day it probes.
ReleaseThenReserve(R, o, n, day) ==
    LET reserved == ReservedAfter(R)
        units == UnitsAfter(R)
        items == {p \in Products : n[p] > 0}
        probed == {x \in items \X Days : x[2] \in today .. day[x[1]]}
    IN  /\ \A p \in items : reserve_item(p, n[p], day[p], reserved, units)
        /\ reserved_quantity' = [p \in Products |->
               IF p \in items \cap Tracked THEN reserved[p] + n[p] ELSE reserved[p]]
        /\ reserved_units' = [p \in Products |-> [d \in Days |->
               IF p \in items /\ d = day[p] THEN units[p][d] + n[p] ELSE units[p][d]]]
        /\ rows' = rows \cup probed
        /\ max_units' = [p \in Products |-> [d \in Days |->
               IF <<p, d>> \in probed THEN MaxUnits(p, d) ELSE max_units[p][d]]]
        /\ reservation' = [x \in Owners |-> [p \in Products |->
               IF x = o /\ p \in items THEN ActiveRow(n[p], day[p])
               ELSE IF <<x, p>> \in R THEN DeadRow("released")
               ELSE reservation[x][p]]]
        /\ UNCHANGED <<stock_quantity, fulfilled_units, availability_status, today>>

-----------------------------------------------------------------------------
(* The operations of the service. *)

\* add_item and set_item_quantity end here: the cart's hold on p is replaced.
reserve_for_cart_item(c, p, n) ==
    /\ p \in Tracked
    /\ \E d \in Days :
          ReleaseThenReserve(RowsOf(c, {"active"}) \cap {<<c, p>>}, c,
                             [x \in Products |-> IF x = p THEN n ELSE 0],
                             [x \in Products |-> d])

\* Checkout: release_cart_reservations(c), then reserve_for_order for the new
\* order o with the items n; one item that cannot be booked fails them all.
finalize_checkout_stock(c, o, n) ==
    /\ \E p \in Products : n[p] > 0
    /\ \A p \in Products : reservation[o][p].status = "none"
    /\ \E day \in [Products -> Days] :
          /\ \A p \in Products : n[p] = 0 => day[p] = today
          /\ ReleaseThenReserve(RowsOf(c, {"active"}), o, n, day)

release_cart_reservations(c) ==
    /\ Release(RowsOf(c, {"active"}), "released")
    /\ UNCHANGED <<stock_quantity, rows, max_units, fulfilled_units,
                   availability_status, today>>

release_cart_reservations_for_product(c, p) ==
    /\ Release(RowsOf(c, {"active"}) \cap {<<c, p>>}, "released")
    /\ UNCHANGED <<stock_quantity, rows, max_units, fulfilled_units,
                   availability_status, today>>

\* Payment: expires_at becomes NULL, so a confirmed row is never overdue.
confirm_reservations(o) ==
    /\ reservation' = [reservation EXCEPT ![o] = [p \in Products |->
           IF <<o, p>> \in RowsOf(o, {"active"})
           THEN [reservation[o][p] EXCEPT !.status = "confirmed", !.overdue = FALSE]
           ELSE reservation[o][p]]]
    /\ UNCHANGED <<stock_quantity, reserved_quantity, capacityVars,
                   availability_status, today>>

\* Cancellation and refund of an order.
release_reservations(o) ==
    /\ Release(RowsOf(o, Live), "released")
    /\ UNCHANGED <<stock_quantity, rows, max_units, fulfilled_units,
                   availability_status, today>>

\* Hand-over of an order: the confirmed units leave the stock for good.  Should the
\* capacity row of a day be gone, it is created again.
fulfill_reservations(o) ==
    LET R == RowsOf(o, {"confirmed"})
        stock == [p \in Products |->
                     IF p \in Tracked THEN Floor(stock_quantity[p] - Cardinality(Units(R, p)))
                                      ELSE stock_quantity[p]]
    IN  /\ R # {}
        /\ Release(R, "released")
        /\ stock_quantity' = stock
        /\ fulfilled_units' = [p \in Products |-> [d \in Days |->
               fulfilled_units[p][d] + Cardinality(UnitsOn(R, p, d))]]
        /\ availability_status' = [p \in Products |->
               IF <<o, p>> \in R /\ p \in Tracked /\ stock[p] <= ReservedAfter(R)[p]
               THEN "out_of_stock" ELSE availability_status[p]]
        /\ rows' = rows \cup {<<x[2], reservation[o][x[2]].production_date>> : x \in R}
        /\ max_units' = [p \in Products |-> [d \in Days |->
               IF <<p, d>> \in rows' THEN MaxUnits(p, d) ELSE max_units[p][d]]]
        /\ UNCHANGED today

\* Defect: a row without expires_at counts as past it.
StaleOrNullRows ==
    {x \in Owners \X Products : \/ reservation[x[1]][x[2]].overdue
                                \/ reservation[x[1]][x[2]].status = "confirmed"}

\* Defect: only the holds of carts expire.
StaleCartRows == {x \in Carts \X Products : /\ reservation[x[1]][x[2]].status = "active"
                                            /\ reservation[x[1]][x[2]].overdue}

\* The periodic task: every ACTIVE row past its expires_at, in one transaction.
StaleRows == {x \in Owners \X Products : /\ reservation[x[1]][x[2]].status = "active"
                                         /\ reservation[x[1]][x[2]].overdue}

expire_stale_reservations ==
    /\ StaleRows # {}
    /\ Release(StaleRows, "expired")
    /\ UNCHANGED <<stock_quantity, rows, max_units, fulfilled_units,
                   availability_status, today>>

-----------------------------------------------------------------------------
(* The environment: time, and staff at the admin site. *)

\* expires_at of an ACTIVE row passes.  Cart holds last 30 minutes and order
\* holds 120, but any hold may pass first: they start at different times.
HoldTimesOut(o, p) ==
    /\ reservation[o][p].status = "active"
    /\ ~reservation[o][p].overdue
    /\ reservation' = [reservation EXCEPT ![o][p].overdue = TRUE]
    /\ UNCHANGED <<stock_quantity, reserved_quantity, capacityVars,
                   availability_status, today>>

Midnight ==
    /\ today < LastToday
    /\ today' = today + 1
    /\ UNCHANGED <<stock_quantity, reserved_quantity, capacityVars, reservation,
                   availability_status>>

\* ProductInventoryAdmin: staff enter a new stock_quantity (that of an untracked
\* product is never read).  Here no transaction of the service commits between
\* the form's read of the row and its write; StaffForms lifts this.
EnterStock(p, n) ==
    /\ stock_quantity' = [stock_quantity EXCEPT ![p] = n]
    /\ UNCHANGED <<reserved_quantity, capacityVars, reservation,
                   availability_status, today>>

\* DailyProductionCapacityAdmin: staff plan or change the capacity of a day,
\* again with no commit of the service in between.
EnterCapacity(p, d, n) ==
    /\ rows' = rows \cup {<<p, d>>}
    /\ max_units' = [max_units EXCEPT ![p][d] = n]
    /\ UNCHANGED <<stock_quantity, reserved_quantity, reserved_units, fulfilled_units,
                   reservation, availability_status, today>>

\* ProductAdmin: staff put a product back on sale.
PutOnSale(p) ==
    /\ availability_status[p] # "available"
    /\ availability_status' = [availability_status EXCEPT ![p] = "available"]
    /\ UNCHANGED <<stock_quantity, reserved_quantity, capacityVars, reservation, today>>

-----------------------------------------------------------------------------
Init ==
    /\ stock_quantity = InitialStock
    /\ reserved_quantity = [p \in Products |-> 0]
    /\ rows = {}
    /\ max_units = [p \in Products |-> [d \in Days |-> 0]]
    /\ reserved_units = [p \in Products |-> [d \in Days |-> 0]]
    /\ fulfilled_units = [p \in Products |-> [d \in Days |-> 0]]
    /\ reservation = [o \in Owners |-> [p \in Products |-> DeadRow("none")]]
    /\ availability_status = [p \in Products |-> "available"]
    /\ today = 0

Items == [Products -> 0 .. MaxQty]

Staff ==
    \/ \E p \in Tracked, n \in StockEntries : EnterStock(p, n)
    \/ \E p \in Products, d \in Days, n \in CapacityEntries : EnterCapacity(p, d, n)
    \/ \E p \in Products : PutOnSale(p)

Service ==
    \/ \E c \in Carts, p \in Products, n \in Quantities : reserve_for_cart_item(c, p, n)
    \/ \E c \in Carts, o \in Orders, n \in Items : finalize_checkout_stock(c, o, n)
    \/ \E c \in Carts : release_cart_reservations(c)
    \/ \E c \in Carts, p \in Products : release_cart_reservations_for_product(c, p)
    \/ \E o \in Orders : confirm_reservations(o)
    \/ \E o \in Orders : release_reservations(o)
    \/ \E o \in Orders : fulfill_reservations(o)
    \/ expire_stale_reservations

Time == Midnight \/ \E o \in Owners, p \in Products : HoldTimesOut(o, p)

Next == Service \/ Staff \/ Time

Spec == Init /\ [][Next]_vars

\* Celery beat starts expire_stale_reservations_task every 15 minutes for ever;
\* nothing obliges customers or staff to act.
FairSpec == Spec /\ WF_vars(expire_stale_reservations)

-----------------------------------------------------------------------------
(* Properties. *)

LiveRows == {x \in Owners \X Products : reservation[x[1]][x[2]].status \in Live}

\* Type correctness of the rows: no PositiveIntegerField becomes negative, a
\* row's day lies in the planned window, only a live row has a quantity.
TypeOK ==
    /\ stock_quantity \in [Products -> Nat]
    /\ reserved_quantity \in [Products -> Nat]
    /\ rows \subseteq Products \X Days
    /\ max_units \in [Products -> [Days -> Nat]]
    /\ reserved_units \in [Products -> [Days -> Nat]]
    /\ fulfilled_units \in [Products -> [Days -> Nat]]
    /\ reservation \in [Owners -> [Products -> Rows]]
    /\ availability_status \in [Products -> {"available", "out_of_stock"}]
    /\ today \in 0 .. LastToday

\* The cached ProductInventory.reserved_quantity is the sum of the quantities of
\* the ACTIVE and CONFIRMED rows: no interleaving of reserving, confirming,
\* releasing, expiring and fulfilling counts a row twice or forgets one, and the
\* max(0, ...) of a release never hides a difference.
ReservedIsHeld ==
    \A p \in Products :
        reserved_quantity[p] = IF p \in Tracked THEN Cardinality(Units(LiveRows, p)) ELSE 0

\* The same for DailyProductionCapacity.reserved_units, per production day, for
\* products with and without stock tracking.
CapacityIsHeld ==
    \A p \in Products, d \in Days :
        reserved_units[p][d] = Cardinality(UnitsOn(LiveRows, p, d))

Ledger == INSTANCE StockLedger
              WITH stock <- stock_quantity,
                   held <- [p \in Products |-> Units(LiveRows, p)]

\* The service, which decides by the cached reserved_quantity, behaves as if it
\* had counted the live reservations themselves: every transaction is a booking
\* for its own cart and order, a withdrawal, a hand-over in which promise and
\* stock go down together, or a recount by staff.
ImplementsLedger == Ledger!LedgerSpec

\* How far the promises for p exceed the stock.
Oversold(p) == Floor(reserved_quantity[p] - stock_quantity[p])

\* The service itself never promises stock that is not there: for a product
\* without preorder only staff entering a smaller stock_quantity can raise the
\* number of oversold units.
OnlyStaffOversell ==
    [][\/ \E p \in Tracked, n \in StockEntries : EnterStock(p, n)
       \/ \A p \in Tracked \ Preorder : Oversold(p)' <= Oversold(p)]_vars

Booked(p, d) == reserved_units[p][d] + fulfilled_units[p][d]

\* A day is never booked beyond its max_units: a step that raises what is
\* reserved and fulfilled for a day ends within the capacity of that day.
BookedWithinCapacity ==
    [][\A p \in Products, d \in Days :
          Booked(p, d)' > Booked(p, d) => Booked(p, d)' <= max_units'[p][d]]_vars

\* A paid hold is given up only by cancelling or handing over its own order:
\* the expiry task, other orders and carts never touch a CONFIRMED row.
ConfirmedHoldsAreKept ==
    [][\A o \in Owners, p \in Products :
          reservation[o][p].status = "confirmed" =>
              \/ reservation'[o][p] = reservation[o][p]
              \/ o \in Orders /\ (release_reservations(o) \/ fulfill_reservations(o))]_vars

\* Stock that nobody has paid for is not held for ever: an ACTIVE row past its
\* expires_at is given up, whatever else goes on.
OverdueHoldsEnd ==
    \A o \in Owners, p \in Products :
        (reservation[o][p].status = "active" /\ reservation[o][p].overdue)
            ~> ~(reservation[o][p].status = "active" /\ reservation[o][p].overdue)

=============================================================================
