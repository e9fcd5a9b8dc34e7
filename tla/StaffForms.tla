----------------------------- MODULE StaffForms -----------------------------
(***************************************************************************)
(* The stock service while staff edit its rows at the admin site           *)
(* (apps/inventory/admin.py).                                              *)
(*                                                                         *)
(* Inventory!EnterStock and Inventory!EnterCapacity change one column, as  *)
(* if no transaction of the service committed between the form's read of   *)
(* the row and its write.  A ModelAdmin gives no such guarantee: it loads  *)
(* the row without a lock and saves the object without update_fields, so   *)
(* every column is written back as it was loaded.  The stock form loads    *)
(* the row in the request that saves it; the capacity form carries all     *)
(* three counters from the page as it was shown, and staff may overwrite   *)
(* each of them.  The reservation page writes every field of a row.        *)
(*                                                                         *)
(* Not modelled: rows that staff add or move to another owner, a CONFIRMED *)
(* row of a cart (the model keeps one row per owner and product), edits of *)
(* track_stock and allow_preorder, which are constants here, and deletion  *)
(* of a ProductInventory row.                                              *)
(***************************************************************************)
EXTENDS Inventory

CONSTANTS
    MaxSaves,         \* bound: how many forms staff save
    CounterEntries,   \* bound: the reserved_units and fulfilled_units they may enter
    RowEntries        \* bound: what they may make of a reservation row

ASSUME SavesAssumption == MaxSaves \in Nat
ASSUME EntriesAssumption == CounterEntries \subseteq Nat /\ RowEntries \subseteq Rows

VARIABLES
    form,   \* the form that staff have open
    saves   \* how many forms they have saved

formVars == <<vars, form, saves>>

NoForm == [kind |-> "none"]

Forms ==
    {NoForm}
    \cup [kind : {"stock"}, product : Products, reserved_quantity : Nat]
    \cup [kind : {"capacity"}, product : Products, day : Days,
          reserved_units : Nat, fulfilled_units : Nat]

-----------------------------------------------------------------------------
OpenStockForm(p) ==
    /\ form = NoForm
    /\ form' = [kind |-> "stock", product |-> p, reserved_quantity |-> reserved_quantity[p]]
    /\ UNCHANGED <<vars, saves>>

\* A form is saved and closed.
Saved ==
    /\ saves < MaxSaves
    /\ saves' = saves + 1
    /\ form' = NoForm

\* obj.save() after the form has set stock_quantity.
SaveStockForm(n) ==
    /\ form.kind = "stock"
    /\ stock_quantity' = [stock_quantity EXCEPT ![form.product] = n]
    /\ reserved_quantity' = [reserved_quantity EXCEPT ![form.product] = form.reserved_quantity]
    /\ Saved
    /\ UNCHANGED <<capacityVars, reservation, availability_status, today>>

OpenCapacityForm(p, d) ==
    /\ form = NoForm
    /\ <<p, d>> \in rows
    /\ form' = [kind |-> "capacity", product |-> p, day |-> d,
                reserved_units |-> reserved_units[p][d],
                fulfilled_units |-> fulfilled_units[p][d]]
    /\ UNCHANGED <<vars, saves>>

\* obj.save(): max_units as entered, and each counter as entered or as it was shown.
SaveCapacityForm(n) ==
    /\ form.kind = "capacity"
    /\ <<form.product, form.day>> \in rows
    /\ max_units' = [max_units EXCEPT ![form.product][form.day] = n]
    /\ \E k \in CounterEntries \cup {form.reserved_units} :
          reserved_units' = [reserved_units EXCEPT ![form.product][form.day] = k]
    /\ \E k \in CounterEntries \cup {form.fulfilled_units} :
          fulfilled_units' = [fulfilled_units EXCEPT ![form.product][form.day] = k]
    /\ Saved
    /\ UNCHANGED <<stock_quantity, reserved_quantity, rows, reservation,
                   availability_status, today>>

\* The day's row is deleted; the service creates another when it next needs one.
DeleteCapacity(p, d) ==
    /\ form = NoForm
    /\ <<p, d>> \in rows
    /\ rows' = rows \ {<<p, d>>}
    /\ max_units' = [max_units EXCEPT ![p][d] = 0]
    /\ reserved_units' = [reserved_units EXCEPT ![p][d] = 0]
    /\ fulfilled_units' = [fulfilled_units EXCEPT ![p][d] = 0]
    /\ Saved
    /\ UNCHANGED <<stock_quantity, reserved_quantity, reservation,
                   availability_status, today>>

\* The row of a reservation becomes r, and the counters stay as they are.  The page
\* writes every field, so what it showed does not matter.
WriteReservation(o, p, r) ==
    /\ form = NoForm
    /\ reservation[o][p].status # "none"
    /\ reservation' = [reservation EXCEPT ![o][p] = r]
    /\ Saved
    /\ UNCHANGED <<stock_quantity, reserved_quantity, capacityVars,
                   availability_status, today>>

EditReservation(o, p, r) ==
    /\ r.status = "confirmed" => o \in Orders
    /\ WriteReservation(o, p, r)

\* A row that is gone is as good as a released one: neither is read again.
DeleteReservation(o, p) == WriteReservation(o, p, DeadRow("released"))

CloseForm ==
    /\ form # NoForm
    /\ form' = NoForm
    /\ UNCHANGED <<vars, saves>>

-----------------------------------------------------------------------------
FormInit == Init /\ form = NoForm /\ saves = 0

StaffForm ==
    \/ \E p \in Tracked : OpenStockForm(p)
    \/ \E n \in StockEntries : SaveStockForm(n)
    \/ \E p \in Products, d \in Days : OpenCapacityForm(p, d)
    \/ \E n \in CapacityEntries : SaveCapacityForm(n)
    \/ \E p \in Products, d \in Days : DeleteCapacity(p, d)
    \/ \E o \in Owners, p \in Products, r \in RowEntries : EditReservation(o, p, r)
    \/ \E o \in Owners, p \in Products : DeleteReservation(o, p)
    \/ CloseForm

FormNext == StaffForm \/ ((Service \/ Time) /\ UNCHANGED <<form, saves>>)

FormSpec == FormInit /\ [][FormNext]_formVars

\* As in FairSpec: Celery beat starts the expiry task for ever.
FormFairSpec == FormSpec /\ WF_formVars(expire_stale_reservations /\ UNCHANGED <<form, saves>>)

-----------------------------------------------------------------------------
(* Properties. *)

\* Type correctness with forms: the counters that staff write back stay natural
\* numbers, and so do those that the service computes from them.
FormTypeOK == TypeOK /\ form \in Forms /\ saves \in 0 .. MaxSaves

\* How far the cached counters are from the live rows.
Gap(p) == reserved_quantity[p] - Cardinality(Units(LiveRows, p))
GapOn(p, d) == reserved_units[p][d] - Cardinality(UnitsOn(LiveRows, p, d))

NoFurther(a, b) == -Floor(-b) <= a /\ a <= Floor(b)

\* What staff have done to a counter or a row is never made worse by the service: with
\* a reserved_quantity or reserved_units that is too small or too large for the rows,
\* booking, releasing, expiring and handing over keep the error or shrink it, where
\* the max(0, ...) of a release stops it.
GapsNeverWiden ==
    [][saves' = saves =>
          /\ \A p \in Tracked : NoFurther(Gap(p)', Gap(p))
          /\ \A p \in Products, d \in Days : NoFurther(GapOn(p, d)', GapOn(p, d))]_formVars

=============================================================================
