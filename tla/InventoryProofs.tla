-------------------------- MODULE InventoryProofs --------------------------
(***************************************************************************)
(* Proofs about the stock service, for any number of products, carts,      *)
(* orders and days: type correctness, the two counting invariants that tie *)
(* the cached counters to the live reservation rows, with and without the  *)
(* forms of the admin site, and the ledger that the service implements.    *)
(***************************************************************************)
EXTENDS StaffForms, FiniteSetTheorems, TLAPS

-----------------------------------------------------------------------------
(* Counting. *)

\* Removing a part of a finite set takes away exactly its elements.
LEMMA CountWithout ==
    ASSUME NEW S, IsFiniteSet(S), NEW T \in SUBSET S
    PROVE  /\ Cardinality(S) \in Nat /\ Cardinality(T) \in Nat
           /\ Cardinality(S \ T) = Cardinality(S) - Cardinality(T)
           /\ Cardinality(T) <= Cardinality(S)
<1>1. IsFiniteSet(T) /\ Cardinality(T) <= Cardinality(S)
  BY FS_Subset
<1>2. Cardinality(S \ T) = Cardinality(S) - Cardinality(S \cap T)
  BY FS_Difference
<1>3. S \cap T = T
  OBVIOUS
<1> QED
  BY <1>1, <1>2, <1>3, FS_CardinalityType

\* Adding elements that were not there adds their number.
LEMMA CountWith ==
    ASSUME NEW S, IsFiniteSet(S), NEW T, IsFiniteSet(T), S \cap T = {}
    PROVE  Cardinality(S \cup T) = Cardinality(S) + Cardinality(T)
<1>1. Cardinality(S \cup T) = Cardinality(S) + Cardinality(T) - Cardinality(S \cap T)
  BY FS_Union
<1>2. Cardinality(S \cap T) = 0
  BY FS_EmptySet
<1>3. Cardinality(S) \in Nat /\ Cardinality(T) \in Nat
  BY FS_CardinalityType
<1> QED
  BY <1>1, <1>2, <1>3

\* A row of n units holds n units.
LEMMA CountBlock ==
    ASSUME NEW o, NEW n \in Nat
    PROVE  IsFiniteSet({o} \X (1 .. n)) /\ Cardinality({o} \X (1 .. n)) = n
<1>1. IsFiniteSet({o}) /\ Cardinality({o}) = 1
  BY FS_Singleton
<1>2. IsFiniteSet(1 .. n) /\ Cardinality(1 .. n) = n
  BY FS_Interval
<1>3. Cardinality({o} \X (1 .. n)) = 1 * n
  BY <1>1, <1>2, FS_Product
<1> QED
  BY <1>1, <1>2, <1>3, FS_Product

\* There are finitely many units to count.
LEMMA UnitsFinite ==
    ASSUME NEW R, NEW p
    PROVE  /\ IsFiniteSet(Units(R, p)) /\ Cardinality(Units(R, p)) \in Nat
           /\ \A d : /\ IsFiniteSet(UnitsOn(R, p, d))
                     /\ Cardinality(UnitsOn(R, p, d)) \in Nat
<1>1. IsFiniteSet(Owners)
  BY OwnersAssumption, FS_Union DEF Owners
<1>2. IsFiniteSet(Quantities)
  BY FS_Interval, BoundsAssumption DEF Quantities
<1>3. IsFiniteSet(Owners \X Quantities)
  BY <1>1, <1>2, FS_Product
<1>4. Units(R, p) \in SUBSET (Owners \X Quantities)
  BY DEF Units
<1>5. IsFiniteSet(Units(R, p))
  BY <1>3, <1>4, FS_Subset
<1>6. ASSUME NEW d PROVE IsFiniteSet(UnitsOn(R, p, d))
  BY <1>5, FS_Subset DEF UnitsOn
<1> QED
  BY <1>5, <1>6, FS_CardinalityType

-----------------------------------------------------------------------------
(* Gaps.  What the service does to a counter is best said of its distance   *)
(* from the live rows: no transaction widens it.  The counting invariants   *)
(* follow, since a gap that starts at zero then stays there.                *)

\* The part of the invariant that staff cannot disturb, whatever they enter.  A
\* cart whose row were CONFIRMED would keep it when reserve_for_cart_item, which
\* releases ACTIVE rows only, books the product anew.
CartHoldsUnpaid == \A c \in Carts, p \in Products : reservation[c][p].status # "confirmed"

Sound == TypeOK /\ CartHoldsUnpaid

GapsKept ==
    /\ \A p \in Tracked : NoFurther(Gap(p)', Gap(p))
    /\ \A p \in Products \ Tracked : reserved_quantity'[p] = reserved_quantity[p]
    /\ \A p \in Products, d \in Days : NoFurther(GapOn(p, d)', GapOn(p, d))

\* The live units of a product, and those of a day, can be counted.
LEMMA LiveUnitsCounted ==
    \A p : /\ Cardinality(Units(LiveRows, p)) \in Nat
           /\ \A d : Cardinality(UnitsOn(LiveRows, p, d)) \in Nat
  BY UnitsFinite

\* They can be counted after every step too.
LEMMA LiveUnitsCountedNext ==
    \A p : /\ Cardinality(Units(LiveRows, p))' \in Nat
           /\ \A d : Cardinality(UnitsOn(LiveRows, p, d))' \in Nat
<1>1. (\A p : /\ Cardinality(Units(LiveRows, p)) \in Nat
              /\ \A d : Cardinality(UnitsOn(LiveRows, p, d)) \in Nat)'
  BY LiveUnitsCounted, PTL
<1> QED
  BY <1>1

\* Taking k of the u live units out of a counter that stands at r, with the clamp
\* at zero, does not widen the gap between the two.
LEMMA ClampedGap ==
    \A r, u, k \in Nat : k <= u => NoFurther(Floor(r - k) - (u - k), r - u)
  BY DEF NoFurther, Floor

\* Nor does a booking that adds the same number to both, nor a step that leaves
\* both alone.
LEMMA RaisedGap ==
    \A r, u, s, v, n \in Nat : NoFurther(s - v, r - u) => NoFurther((s + n) - (v + n), r - u)
  BY DEF NoFurther, Floor

\* A gap is not wider than itself.
LEMMA SameGap == \A r, u \in Nat : NoFurther(r - u, r - u)
  BY DEF NoFurther, Floor

\* What is no further away than nothing is the same.
LEMMA NoGap == \A r, u \in Nat : NoFurther(r - u, 0) => r = u
  BY DEF NoFurther, Floor

-----------------------------------------------------------------------------
(* Releasing rows. *)

\* Releasing live rows takes their units out of the live ones.
LEMMA ReleaseCounts ==
    ASSUME NEW R \in SUBSET LiveRows, NEW p \in Products
    PROVE  /\ Cardinality(Units(R, p)) \in Nat
           /\ Cardinality(Units(R, p)) <= Cardinality(Units(LiveRows, p))
           /\ Cardinality(Units(LiveRows \ R, p))
                 = Cardinality(Units(LiveRows, p)) - Cardinality(Units(R, p))
           /\ \A d \in Days :
                 /\ Cardinality(UnitsOn(R, p, d)) \in Nat
                 /\ Cardinality(UnitsOn(R, p, d)) <= Cardinality(UnitsOn(LiveRows, p, d))
                 /\ Cardinality(UnitsOn(LiveRows \ R, p, d))
                       = Cardinality(UnitsOn(LiveRows, p, d)) - Cardinality(UnitsOn(R, p, d))
<1>1. /\ Units(R, p) \in SUBSET Units(LiveRows, p)
      /\ Units(LiveRows, p) \ Units(R, p) = Units(LiveRows \ R, p)
  BY DEF Units
<1>2. \A d \in Days :
         /\ UnitsOn(R, p, d) \in SUBSET UnitsOn(LiveRows, p, d)
         /\ UnitsOn(LiveRows, p, d) \ UnitsOn(R, p, d) = UnitsOn(LiveRows \ R, p, d)
  BY DEF Units, UnitsOn
<1>3. /\ Cardinality(Units(R, p)) \in Nat
      /\ Cardinality(Units(R, p)) <= Cardinality(Units(LiveRows, p))
      /\ Cardinality(Units(LiveRows \ R, p))
            = Cardinality(Units(LiveRows, p)) - Cardinality(Units(R, p))
  BY <1>1, CountWithout, UnitsFinite
<1>4. ASSUME NEW d \in Days
      PROVE  /\ Cardinality(UnitsOn(R, p, d)) \in Nat
             /\ Cardinality(UnitsOn(R, p, d)) <= Cardinality(UnitsOn(LiveRows, p, d))
             /\ Cardinality(UnitsOn(LiveRows \ R, p, d))
                   = Cardinality(UnitsOn(LiveRows, p, d)) - Cardinality(UnitsOn(R, p, d))
  BY <1>2, CountWithout, UnitsFinite
<1> QED
  BY <1>3, <1>4

\* The counters that a release computes are no further from the rows that stay
\* live than the old ones were from all of them.
LEMMA ReleaseGaps ==
    ASSUME TypeOK, NEW R \in SUBSET LiveRows
    PROVE  /\ \A p \in Tracked :
                 NoFurther(ReservedAfter(R)[p] - Cardinality(Units(LiveRows \ R, p)), Gap(p))
           /\ \A p \in Products \ Tracked : ReservedAfter(R)[p] = reserved_quantity[p]
           /\ \A p \in Products, d \in Days :
                 NoFurther(UnitsAfter(R)[p][d] - Cardinality(UnitsOn(LiveRows \ R, p, d)),
                           GapOn(p, d))
<1>1. ASSUME NEW p \in Tracked
      PROVE  NoFurther(ReservedAfter(R)[p] - Cardinality(Units(LiveRows \ R, p)), Gap(p))
  <2>1. p \in Products /\ reserved_quantity[p] \in Nat
    BY ProductsAssumption DEF TypeOK
  <2>2. ReservedAfter(R)[p] = Floor(reserved_quantity[p] - Cardinality(Units(R, p)))
    BY <2>1 DEF ReservedAfter
  <2> QED
    BY <2>1, <2>2, ReleaseCounts, LiveUnitsCounted, ClampedGap DEF Gap
<1>2. ASSUME NEW p \in Products, NEW d \in Days
      PROVE  NoFurther(UnitsAfter(R)[p][d] - Cardinality(UnitsOn(LiveRows \ R, p, d)),
                       GapOn(p, d))
  <2>1. reserved_units[p][d] \in Nat
    BY DEF TypeOK
  <2>2. UnitsAfter(R)[p][d] = Floor(reserved_units[p][d] - Cardinality(UnitsOn(R, p, d)))
    BY DEF UnitsAfter
  <2> QED
    BY <2>1, <2>2, ReleaseCounts, LiveUnitsCounted, ClampedGap DEF GapOn
<1>3. \A p \in Products \ Tracked : ReservedAfter(R)[p] = reserved_quantity[p]
  BY DEF ReservedAfter
<1> QED
  BY <1>1, <1>2, <1>3

\* The counters stay natural numbers.
LEMMA CountersTyped ==
    ASSUME TypeOK, NEW R
    PROVE  /\ ReservedAfter(R) \in [Products -> Nat]
           /\ UnitsAfter(R) \in [Products -> [Days -> Nat]]
<1>1. \A p \in Products : reserved_quantity[p] \in Nat
  BY DEF TypeOK
<1>2. \A p \in Products, d \in Days : reserved_units[p][d] \in Nat
  BY DEF TypeOK
<1>3. \A p : Cardinality(Units(R, p)) \in Nat /\ \A d : Cardinality(UnitsOn(R, p, d)) \in Nat
  BY UnitsFinite
<1>4. \A i, j \in Nat : Floor(i - j) \in Nat
  BY DEF Floor
<1>5. ReservedAfter(R) \in [Products -> Nat]
  BY <1>1, <1>3, <1>4 DEF ReservedAfter
<1>6. \A p \in Products, d \in Days :
         Floor(reserved_units[p][d] - Cardinality(UnitsOn(R, p, d))) \in Nat
  BY <1>2, <1>3, <1>4
<1>7. UnitsAfter(R) \in [Products -> [Days -> Nat]]
  BY <1>6 DEF UnitsAfter
<1> QED
  BY <1>5, <1>7

\* The row that a release, an expiry or a hand-over leaves behind is a row.
LEMMA DeadRowTyped == ASSUME NEW s \in Dead PROVE DeadRow(s) \in Rows
  BY BoundsAssumption DEF DeadRow, Rows, Days

\* The row that _reserve_item creates is a row.
LEMMA ActiveRowTyped ==
    ASSUME NEW n \in 0 .. MaxQty, NEW d \in Days PROVE ActiveRow(n, d) \in Rows
  BY DEF ActiveRow, Rows, Live


\* A transaction that releases live rows widens no gap.
LEMMA ReleaseStep ==
    ASSUME TypeOK, NEW R \in SUBSET LiveRows, NEW s \in Dead, Release(R, s)
    PROVE  /\ reservation' \in [Owners -> [Products -> Rows]]
           /\ reserved_quantity' \in [Products -> Nat]
           /\ reserved_units' \in [Products -> [Days -> Nat]]
           /\ GapsKept
<1>1. reservation' \in [Owners -> [Products -> Rows]]
  BY DeadRowTyped DEF Release, TypeOK
<1>2. /\ reserved_quantity' \in [Products -> Nat]
      /\ reserved_units' \in [Products -> [Days -> Nat]]
  BY CountersTyped DEF Release
<1>3. ASSUME NEW o \in Owners, NEW p \in Products
      PROVE  reservation'[o][p] = IF <<o, p>> \in R THEN DeadRow(s) ELSE reservation[o][p]
  BY DEF Release
<1>4. LiveRows' = LiveRows \ R
  <2>1. DeadRow(s).status \notin Live
    BY DEF DeadRow, Dead, Live
  <2>2. ASSUME NEW o \in Owners, NEW p \in Products
        PROVE  reservation'[o][p].status \in Live
                  <=> reservation[o][p].status \in Live /\ <<o, p>> \notin R
    BY <1>3, <2>1
  <2> QED
    BY <2>2 DEF LiveRows
<1>5. \A p \in Products :
         /\ Units(LiveRows, p)' = Units(LiveRows \ R, p)
         /\ \A d \in Days : UnitsOn(LiveRows, p, d)' = UnitsOn(LiveRows \ R, p, d)
  <2>1. ASSUME NEW p \in Products, NEW u \in Owners \X Quantities, <<u[1], p>> \in LiveRows \ R
        PROVE  reservation'[u[1]][p] = reservation[u[1]][p]
    BY <1>3, <2>1
  <2> QED
    BY <1>4, <2>1 DEF Units, UnitsOn
<1>6. ASSUME NEW p \in Tracked
      PROVE  NoFurther(Gap(p)', Gap(p))
  <2>1. p \in Products
    BY ProductsAssumption
  <2>2. Gap(p)' = ReservedAfter(R)[p] - Cardinality(Units(LiveRows \ R, p))
    BY <1>5, <2>1 DEF Gap, Release
  <2> QED
    BY <2>2, ReleaseGaps
<1>7. ASSUME NEW p \in Products, NEW d \in Days
      PROVE  NoFurther(GapOn(p, d)', GapOn(p, d))
  <2>1. GapOn(p, d)' = UnitsAfter(R)[p][d] - Cardinality(UnitsOn(LiveRows \ R, p, d))
    BY <1>5 DEF GapOn, Release
  <2> QED
    BY <2>1, ReleaseGaps
<1>8. \A p \in Products \ Tracked : reserved_quantity'[p] = reserved_quantity[p]
  BY ReleaseGaps DEF Release
<1> QED
  BY <1>1, <1>2, <1>6, <1>7, <1>8 DEF GapsKept


-----------------------------------------------------------------------------
(* Booking items. *)

\* A transaction that releases rows and then books items for owner o widens
\* no gap, provided o holds no other live row for these items.
LEMMA ReserveStep ==
    ASSUME TypeOK, NEW R \in SUBSET LiveRows, NEW o \in Owners, NEW n \in Items,
           NEW day \in [Products -> Days],
           \A p \in Products : n[p] > 0 => <<o, p>> \notin LiveRows \ R,
           ReleaseThenReserve(R, o, n, day)
    PROVE  TypeOK' /\ GapsKept
<1> DEFINE items == {p \in Products : n[p] > 0}
           probed == {x \in items \X Days : x[2] \in today .. day[x[1]]}
           block(p) == {o} \X (1 .. n[p])
<1>a. /\ reserved_quantity' = [p \in Products |->
             IF p \in items \cap Tracked THEN ReservedAfter(R)[p] + n[p] ELSE ReservedAfter(R)[p]]
      /\ reserved_units' = [p \in Products |-> [d \in Days |->
             IF p \in items /\ d = day[p] THEN UnitsAfter(R)[p][d] + n[p]
                                          ELSE UnitsAfter(R)[p][d]]]
      /\ reservation' = [x \in Owners |-> [p \in Products |->
             IF x = o /\ p \in items THEN ActiveRow(n[p], day[p])
             ELSE IF <<x, p>> \in R THEN DeadRow("released")
             ELSE reservation[x][p]]]
  BY DEF ReleaseThenReserve
<1>b. /\ rows' = rows \cup probed
      /\ max_units' = [p \in Products |-> [d \in Days |->
             IF <<p, d>> \in probed THEN MaxUnits(p, d) ELSE max_units[p][d]]]
      /\ UNCHANGED <<stock_quantity, fulfilled_units, availability_status, today>>
  BY DEF ReleaseThenReserve
<1>c. \A p \in Products : n[p] \in 0 .. MaxQty /\ n[p] \in Nat
  BY BoundsAssumption DEF Items
<1> HIDE DEF items, probed, block
<1>1. TypeOK'
  <2>1. \A p \in Products : ReservedAfter(R)[p] \in Nat
    BY CountersTyped
  <2>2. \A p \in Products, d \in Days : UnitsAfter(R)[p][d] \in Nat
    BY CountersTyped
  <2>3. reserved_quantity' \in [Products -> Nat]
    BY <1>a, <1>c, <2>1
  <2>4. reserved_units' \in [Products -> [Days -> Nat]]
    BY <1>a, <1>c, <2>2
  <2>5. reservation' \in [Owners -> [Products -> Rows]]
    <3>1. "released" \in Dead
      BY DEF Dead
    <3>2. \A p \in Products : ActiveRow(n[p], day[p]) \in Rows
      BY <1>c, ActiveRowTyped
    <3> QED
      BY <1>a, <3>1, <3>2, DeadRowTyped DEF TypeOK
  <2>6. rows' \subseteq Products \X Days
    BY <1>b DEF items, probed, TypeOK
  <2>7. \A p \in Products, d \in Days : MaxUnits(p, d) \in Nat
    BY BoundsAssumption DEF MaxUnits, default_daily_capacity, TypeOK
  <2>8. max_units' \in [Products -> [Days -> Nat]]
    BY <1>b, <2>7 DEF TypeOK
  <2> QED
    BY <1>b, <2>3, <2>4, <2>5, <2>6, <2>8 DEF TypeOK
<1>2. ASSUME NEW x \in Owners, NEW p \in Products
      PROVE  /\ x = o /\ p \in items => reservation'[x][p] = ActiveRow(n[p], day[p])
             /\ ~(x = o /\ p \in items) =>
                   reservation'[x][p] = IF <<x, p>> \in R THEN DeadRow("released")
                                                          ELSE reservation[x][p]
  BY <1>a
<1>3. ASSUME NEW x \in Owners, NEW p \in Products
      PROVE  <<x, p>> \in LiveRows' <=> \/ x = o /\ p \in items
                                        \/ <<x, p>> \in LiveRows \ R
  <2>1. ActiveRow(n[p], day[p]).status \in Live /\ DeadRow("released").status \notin Live
    BY DEF ActiveRow, DeadRow, Live
  <2> QED
    BY <1>2, <2>1 DEF LiveRows
<1>4. ASSUME NEW p \in Products, p \notin items
      PROVE  /\ Units(LiveRows, p)' = Units(LiveRows \ R, p)
             /\ \A d \in Days : UnitsOn(LiveRows, p, d)' = UnitsOn(LiveRows \ R, p, d)
  <2>1. \A x \in Owners : <<x, p>> \in LiveRows' <=> <<x, p>> \in LiveRows \ R
    BY <1>3, <1>4
  <2>2. \A x \in Owners : <<x, p>> \in LiveRows \ R => reservation'[x][p] = reservation[x][p]
    BY <1>2, <1>4
  <2> QED
    BY <2>1, <2>2 DEF Units, UnitsOn
<1>5. ASSUME NEW p \in items
      PROVE  /\ p \in Products
             /\ block(p) \cap Units(LiveRows \ R, p) = {}
             /\ Units(LiveRows, p)' = Units(LiveRows \ R, p) \cup block(p)
             /\ \A d \in Days : UnitsOn(LiveRows, p, d)' =
                   IF d = day[p] THEN UnitsOn(LiveRows \ R, p, d) \cup block(p)
                                 ELSE UnitsOn(LiveRows \ R, p, d)
  <2>1. p \in Products /\ n[p] > 0 /\ n[p] <= MaxQty /\ n[p] \in Nat
    BY <1>c, <1>5 DEF items
  <2>2. <<o, p>> \notin LiveRows \ R
    BY <2>1
  <2>3. block(p) \cap Units(LiveRows \ R, p) = {}
    BY <2>2 DEF block, Units
  <2>4. \A x \in Owners : <<x, p>> \in LiveRows' <=> x = o \/ <<x, p>> \in LiveRows \ R
    BY <1>3, <1>5, <2>1
  <2>5. /\ reservation'[o][p].quantity = n[p]
        /\ reservation'[o][p].production_date = day[p]
    <3>1. reservation'[o][p] = ActiveRow(n[p], day[p])
      BY <1>2, <1>5, <2>1
    <3> QED
      BY <3>1 DEF ActiveRow
  <2>6. \A x \in Owners : <<x, p>> \in LiveRows \ R => reservation'[x][p] = reservation[x][p]
    BY <1>2, <2>1, <2>2
  <2>7. ASSUME NEW u \in Owners \X Quantities
        PROVE  /\ u \in Units(LiveRows, p)' <=> u \in Units(LiveRows \ R, p) \/ u \in block(p)
               /\ u \in block(p) => reservation'[u[1]][p].production_date = day[p]
               /\ u \in Units(LiveRows \ R, p) =>
                     reservation'[u[1]][p] = reservation[u[1]][p]
    <3>1. PICK x \in Owners, k \in Quantities : u = <<x, k>>
      OBVIOUS
    <3>2. u \in block(p) <=> x = o /\ k <= n[p]
      BY <2>1, <3>1 DEF block, Quantities
    <3>3. u \in Units(LiveRows, p)' <=>
             <<x, p>> \in LiveRows' /\ k <= reservation'[x][p].quantity
      BY <3>1 DEF Units
    <3>4. u \in Units(LiveRows \ R, p) <=>
             <<x, p>> \in LiveRows \ R /\ k <= reservation[x][p].quantity
      BY <3>1 DEF Units
    <3> QED
      BY <2>2, <2>4, <2>5, <2>6, <3>1, <3>2, <3>3, <3>4
  <2>8. block(p) \subseteq Owners \X Quantities
    BY <2>1, BoundsAssumption DEF block, Quantities
  <2>9. Units(LiveRows, p)' = Units(LiveRows \ R, p) \cup block(p)
    BY <2>7, <2>8 DEF Units
  <2>10. ASSUME NEW d \in Days
         PROVE  UnitsOn(LiveRows, p, d)' =
                   IF d = day[p] THEN UnitsOn(LiveRows \ R, p, d) \cup block(p)
                                 ELSE UnitsOn(LiveRows \ R, p, d)
    <3>1. UnitsOn(LiveRows, p, d)' =
             {u \in Units(LiveRows \ R, p) \cup block(p) :
                 reservation'[u[1]][p].production_date = d}
      BY <2>9 DEF UnitsOn
    <3>2. \A u \in Units(LiveRows \ R, p) : u \in Owners \X Quantities
      BY DEF Units
    <3> QED
      BY <3>1, <3>2, <2>7, <2>8 DEF UnitsOn
  <2> QED
    BY <2>1, <2>3, <2>9, <2>10
<1>6. ASSUME NEW p \in Products
      PROVE  Cardinality(Units(LiveRows, p)') = Cardinality(Units(LiveRows \ R, p)) + n[p]
  <2>1. CASE p \notin items
    <3>1. n[p] = 0
      BY <1>c, <2>1 DEF items
    <3>2. Units(LiveRows, p)' = Units(LiveRows \ R, p)
      BY <1>4, <2>1
    <3> QED
      BY <3>1, <3>2, UnitsFinite
  <2>2. CASE p \in items
    <3>1. IsFiniteSet(block(p)) /\ Cardinality(block(p)) = n[p]
      BY <1>c, CountBlock DEF block
    <3>2. IsFiniteSet(Units(LiveRows \ R, p))
      BY UnitsFinite
    <3>3. Units(LiveRows \ R, p) \cap block(p) = {}
      BY <1>5, <2>2
    <3>4. Cardinality(Units(LiveRows \ R, p) \cup block(p))
             = Cardinality(Units(LiveRows \ R, p)) + Cardinality(block(p))
      BY <3>1, <3>2, <3>3, CountWith
    <3> QED
      BY <1>5, <2>2, <3>1, <3>4
  <2> QED
    BY <2>1, <2>2
<1>7. ASSUME NEW p \in Products, NEW d \in Days
      PROVE  Cardinality(UnitsOn(LiveRows, p, d)')
                = Cardinality(UnitsOn(LiveRows \ R, p, d))
                     + (IF p \in items /\ d = day[p] THEN n[p] ELSE 0)
  <2>1. CASE ~(p \in items /\ d = day[p])
    <3>1. UnitsOn(LiveRows, p, d)' = UnitsOn(LiveRows \ R, p, d)
      BY <1>4, <1>5, <2>1
    <3>2. Cardinality(UnitsOn(LiveRows \ R, p, d)) \in Nat
      BY UnitsFinite
    <3>3. (IF p \in items /\ d = day[p] THEN n[p] ELSE 0) = 0
      BY <2>1
    <3> QED
      BY <3>1, <3>2, <3>3
  <2>2. CASE p \in items /\ d = day[p]
    <3>1. IsFiniteSet(block(p)) /\ Cardinality(block(p)) = n[p]
      BY <1>c, CountBlock DEF block
    <3>2. IsFiniteSet(UnitsOn(LiveRows \ R, p, d))
      BY UnitsFinite
    <3>3. UnitsOn(LiveRows \ R, p, d) \cap block(p) = {}
      BY <1>5, <2>2 DEF UnitsOn
    <3>4. Cardinality(UnitsOn(LiveRows \ R, p, d) \cup block(p))
             = Cardinality(UnitsOn(LiveRows \ R, p, d)) + Cardinality(block(p))
      BY <3>1, <3>2, <3>3, CountWith
    <3> QED
      BY <1>5, <2>2, <3>1, <3>4
  <2> QED
    BY <2>1, <2>2
<1>8. ASSUME NEW p \in Tracked
      PROVE  NoFurther(Gap(p)', Gap(p))
  <2>1. p \in Products
    BY ProductsAssumption
  <2>2. reserved_quantity'[p] = ReservedAfter(R)[p] + n[p]
    <3>1. ReservedAfter(R)[p] \in Nat
      BY <2>1, CountersTyped
    <3> QED
      BY <1>a, <1>c, <2>1, <3>1 DEF items
  <2>3. Gap(p)' = (ReservedAfter(R)[p] + n[p]) - (Cardinality(Units(LiveRows \ R, p)) + n[p])
    BY <1>6, <2>1, <2>2 DEF Gap
  <2>4. /\ ReservedAfter(R)[p] \in Nat /\ reserved_quantity[p] \in Nat
        /\ Cardinality(Units(LiveRows \ R, p)) \in Nat
        /\ Cardinality(Units(LiveRows, p)) \in Nat
    BY <2>1, CountersTyped, UnitsFinite DEF TypeOK
  <2>5. NoFurther(ReservedAfter(R)[p] - Cardinality(Units(LiveRows \ R, p)), Gap(p))
    BY ReleaseGaps
  <2> QED
    BY <1>c, <2>1, <2>3, <2>4, <2>5, RaisedGap DEF Gap
<1>9. ASSUME NEW p \in Products, NEW d \in Days
      PROVE  NoFurther(GapOn(p, d)', GapOn(p, d))
  <2> DEFINE k == IF p \in items /\ d = day[p] THEN n[p] ELSE 0
  <2>1. k \in Nat
    BY <1>c
  <2>2. UnitsAfter(R)[p][d] \in Nat
    BY CountersTyped
  <2>3. reserved_units'[p][d] = UnitsAfter(R)[p][d] + k
    BY <1>a, <2>2
  <2>4. Cardinality(UnitsOn(LiveRows, p, d)') = Cardinality(UnitsOn(LiveRows \ R, p, d)) + k
    BY <1>7
  <2> HIDE DEF k
  <2>5. GapOn(p, d)' = (UnitsAfter(R)[p][d] + k) - (Cardinality(UnitsOn(LiveRows \ R, p, d)) + k)
    BY <2>3, <2>4 DEF GapOn
  <2>6. /\ reserved_units[p][d] \in Nat
        /\ Cardinality(UnitsOn(LiveRows \ R, p, d)) \in Nat
        /\ Cardinality(UnitsOn(LiveRows, p, d)) \in Nat
    BY UnitsFinite DEF TypeOK
  <2>7. NoFurther(UnitsAfter(R)[p][d] - Cardinality(UnitsOn(LiveRows \ R, p, d)), GapOn(p, d))
    BY ReleaseGaps
  <2> QED
    BY <2>1, <2>2, <2>5, <2>6, <2>7, RaisedGap DEF GapOn
<1>10. \A p \in Products \ Tracked : reserved_quantity'[p] = reserved_quantity[p]
  BY <1>a, ReleaseGaps
<1> QED
  BY <1>1, <1>8, <1>9, <1>10 DEF GapsKept

\* The rows a handler selects by owner and status are live rows of that owner.
LEMMA RowsOfLive ==
    ASSUME NEW o \in Owners, NEW statuses \in SUBSET Live
    PROVE  RowsOf(o, statuses) \in SUBSET LiveRows
  BY DEF RowsOf, LiveRows

\* Releasing rows confirms none.
LEMMA ReleaseUnpaid ==
    ASSUME CartHoldsUnpaid, NEW R, NEW s \in Dead, Release(R, s)
    PROVE  CartHoldsUnpaid'
<1>1. DeadRow(s).status # "confirmed"
  BY DEF DeadRow, Dead
<1> QED
  BY <1>1 DEF CartHoldsUnpaid, Release, Owners

\* A booking leaves ACTIVE and released rows, so it confirms none either.
LEMMA ReserveUnpaid ==
    ASSUME CartHoldsUnpaid, NEW R, NEW o, NEW n, NEW day, ReleaseThenReserve(R, o, n, day)
    PROVE  CartHoldsUnpaid'
<1>1. /\ DeadRow("released").status # "confirmed"
      /\ \A k, d : ActiveRow(k, d).status # "confirmed"
  BY DEF DeadRow, ActiveRow
<1>2. reservation' = [x \in Owners |-> [p \in Products |->
          IF x = o /\ p \in {q \in Products : n[q] > 0} THEN ActiveRow(n[p], day[p])
          ELSE IF <<x, p>> \in R THEN DeadRow("released")
          ELSE reservation[x][p]]]
  BY DEF ReleaseThenReserve
<1> QED
  BY <1>1, <1>2 DEF CartHoldsUnpaid, Owners

\* When the rows keep their quantities, days and liveness, so do the units.
LEMMA SameUnits ==
    ASSUME \A o \in Owners, p \in Products :
              /\ reservation'[o][p].status \in Live <=> reservation[o][p].status \in Live
              /\ reservation'[o][p].quantity = reservation[o][p].quantity
              /\ reservation'[o][p].production_date = reservation[o][p].production_date,
           TypeOK, UNCHANGED <<reserved_quantity, reserved_units>>
    PROVE  GapsKept
<1>1. LiveRows' = LiveRows
  BY DEF LiveRows
<1>2. \A p \in Products : Units(LiveRows, p)' = Units(LiveRows, p)
  BY <1>1 DEF Units
<1>3. \A p \in Products, d \in Days : UnitsOn(LiveRows, p, d)' = UnitsOn(LiveRows, p, d)
  BY <1>2 DEF UnitsOn, Units
<1>4. /\ \A p \in Products : reserved_quantity[p] \in Nat
      /\ \A p \in Products, d \in Days : reserved_units[p][d] \in Nat
  BY DEF TypeOK
<1>5. \A p \in Products : Gap(p)' = Gap(p) /\ NoFurther(Gap(p), Gap(p))
  BY <1>2, <1>4, LiveUnitsCounted, SameGap DEF Gap
<1>6. \A p \in Products, d \in Days :
         GapOn(p, d)' = GapOn(p, d) /\ NoFurther(GapOn(p, d), GapOn(p, d))
  BY <1>3, <1>4, LiveUnitsCounted, SameGap DEF GapOn
<1> QED
  BY <1>5, <1>6, ProductsAssumption DEF GapsKept

\* Every operation of the stock service keeps the rows sound and widens no gap.
LEMMA ServiceKeepsGaps == Sound /\ Service => Sound' /\ GapsKept
<1> SUFFICES ASSUME Sound, Service PROVE Sound' /\ GapsKept
  OBVIOUS
<1> USE DEF Sound
<1>s. {"active"} \in SUBSET Live /\ {"confirmed"} \in SUBSET Live /\ Live \in SUBSET Live
      /\ {"released", "expired"} \subseteq Dead
  BY DEF Live, Dead
<1>o. Carts \subseteq Owners /\ Orders \subseteq Owners
  BY DEF Owners
<1>1. ASSUME NEW c \in Carts, NEW p \in Products, NEW n \in Quantities,
             reserve_for_cart_item(c, p, n)
      PROVE  Sound' /\ GapsKept
  <2> DEFINE R == RowsOf(c, {"active"}) \cap {<<c, p>>}
             q == [x \in Products |-> IF x = p THEN n ELSE 0]
  <2>1. PICK d \in Days : ReleaseThenReserve(R, c, q, [x \in Products |-> d])
    BY <1>1 DEF reserve_for_cart_item
  <2>2. R \in SUBSET LiveRows
    BY <1>o, <1>s, RowsOfLive
  <2>3. q \in Items
    BY BoundsAssumption DEF Items, Quantities
  <2>4. [x \in Products |-> d] \in [Products -> Days]
    OBVIOUS
  <2>5. ASSUME NEW x \in Products, q[x] > 0
        PROVE  <<c, x>> \notin LiveRows \ R
    <3>1. x = p
      BY <2>5
    <3>2. <<c, p>> \in LiveRows => reservation[c][p].status = "active"
      BY DEF LiveRows, Live, CartHoldsUnpaid
    <3> QED
      BY <3>1, <3>2 DEF RowsOf
  <2> HIDE DEF R, q
  <2>6. TypeOK' /\ GapsKept
    BY <1>o, <2>1, <2>2, <2>3, <2>4, <2>5, ReserveStep
  <2> QED
    BY <2>1, <2>6, ReserveUnpaid
<1>2. ASSUME NEW c \in Carts, NEW o \in Orders, NEW n \in Items,
             finalize_checkout_stock(c, o, n)
      PROVE  Sound' /\ GapsKept
  <2>1. PICK day \in [Products -> Days] :
           ReleaseThenReserve(RowsOf(c, {"active"}), o, n, day)
    BY <1>2 DEF finalize_checkout_stock
  <2>2. RowsOf(c, {"active"}) \in SUBSET LiveRows
    BY <1>o, <1>s, RowsOfLive
  <2>3. \A p \in Products : <<o, p>> \notin LiveRows
    BY <1>2 DEF finalize_checkout_stock, LiveRows, Live
  <2>4. TypeOK' /\ GapsKept
    BY <1>o, <2>1, <2>2, <2>3, ReserveStep
  <2> QED
    BY <2>1, <2>4, ReserveUnpaid
<1>3. ASSUME NEW R \in SUBSET LiveRows, NEW s \in {"released", "expired"}, Release(R, s),
             UNCHANGED <<stock_quantity, rows, max_units, fulfilled_units,
                         availability_status, today>>
      PROVE  Sound' /\ GapsKept
  <2>1. s \in Dead
    BY <1>s
  <2>2. /\ reservation' \in [Owners -> [Products -> Rows]]
        /\ reserved_quantity' \in [Products -> Nat]
        /\ reserved_units' \in [Products -> [Days -> Nat]]
        /\ GapsKept
    BY <1>3, <2>1, ReleaseStep
  <2>3. CartHoldsUnpaid'
    BY <1>3, <2>1, ReleaseUnpaid
  <2> QED
    BY <1>3, <2>2, <2>3 DEF TypeOK
<1>4. ASSUME NEW c \in Carts, release_cart_reservations(c)
      PROVE  Sound' /\ GapsKept
  BY <1>3, <1>4, <1>o, <1>s, RowsOfLive DEF release_cart_reservations
<1>5. ASSUME NEW c \in Carts, NEW p \in Products, release_cart_reservations_for_product(c, p)
      PROVE  Sound' /\ GapsKept
  <2>1. RowsOf(c, {"active"}) \cap {<<c, p>>} \in SUBSET LiveRows
    BY <1>o, <1>s, RowsOfLive
  <2> QED
    BY <1>3, <1>5, <2>1 DEF release_cart_reservations_for_product
<1>6. ASSUME NEW o \in Orders, confirm_reservations(o)
      PROVE  Sound' /\ GapsKept
  <2>1. ASSUME NEW x \in Owners, NEW p \in Products
        PROVE  /\ reservation'[x][p] \in Rows
               /\ reservation'[x][p].status \in Live <=> reservation[x][p].status \in Live
               /\ reservation'[x][p].quantity = reservation[x][p].quantity
               /\ reservation'[x][p].production_date = reservation[x][p].production_date
               /\ x # o => reservation'[x][p] = reservation[x][p]
    <3>1. reservation[x][p] \in Rows
      BY DEF TypeOK
    <3>2. reservation'[x][p] =
             IF x = o /\ <<o, p>> \in RowsOf(o, {"active"})
             THEN [reservation[x][p] EXCEPT !.status = "confirmed", !.overdue = FALSE]
             ELSE reservation[x][p]
      BY <1>6, <1>o DEF confirm_reservations, TypeOK
    <3> QED
      BY <3>1, <3>2 DEF Rows, Live, RowsOf
  <2>2. reservation' \in [Owners -> [Products -> Rows]]
    <3>1. reservation' = [reservation EXCEPT ![o] = [p \in Products |->
             IF <<o, p>> \in RowsOf(o, {"active"})
             THEN [reservation[o][p] EXCEPT !.status = "confirmed", !.overdue = FALSE]
             ELSE reservation[o][p]]]
      BY <1>6 DEF confirm_reservations
    <3>2. \A p \in Products : reservation'[o][p] \in Rows
      BY <1>o, <2>1
    <3> QED
      BY <3>1, <3>2, <1>o DEF TypeOK
  <2>3. TypeOK'
    BY <1>6, <2>2 DEF confirm_reservations, TypeOK, capacityVars
  <2>4. GapsKept
    BY <1>6, <2>1, SameUnits DEF confirm_reservations, capacityVars
  <2>5. CartHoldsUnpaid'
    BY <2>1, OwnersAssumption DEF CartHoldsUnpaid, Owners
  <2> QED
    BY <2>3, <2>4, <2>5
<1>7. ASSUME NEW o \in Orders, release_reservations(o)
      PROVE  Sound' /\ GapsKept
  BY <1>3, <1>7, <1>o, <1>s, RowsOfLive DEF release_reservations
<1>8. ASSUME NEW o \in Orders, fulfill_reservations(o)
      PROVE  Sound' /\ GapsKept
  <2> DEFINE R == RowsOf(o, {"confirmed"})
  <2>1. Release(R, "released")
    BY <1>8 DEF fulfill_reservations
  <2>2. R \in SUBSET LiveRows
    BY <1>o, <1>s, RowsOfLive
  <2>3. /\ reservation' \in [Owners -> [Products -> Rows]]
        /\ reserved_quantity' \in [Products -> Nat]
        /\ reserved_units' \in [Products -> [Days -> Nat]]
        /\ GapsKept
    BY <1>s, <2>1, <2>2, ReleaseStep
  <2>4. stock_quantity' \in [Products -> Nat]
    <3>1. \A i, j \in Nat : Floor(i - j) \in Nat
      BY DEF Floor
    <3>2. \A p \in Products : Cardinality(Units(R, p)) \in Nat /\ stock_quantity[p] \in Nat
      BY UnitsFinite DEF TypeOK
    <3> QED
      BY <1>8, <3>1, <3>2 DEF fulfill_reservations
  <2>5. fulfilled_units' \in [Products -> [Days -> Nat]]
    <3>1. \A p \in Products, d \in Days : fulfilled_units[p][d] \in Nat
      BY DEF TypeOK
    <3>2. \A p, d : Cardinality(UnitsOn(R, p, d)) \in Nat
      BY UnitsFinite
    <3>3. \A p \in Products, d \in Days :
             fulfilled_units[p][d] + Cardinality(UnitsOn(R, p, d)) \in Nat
      BY <3>1, <3>2
    <3> QED
      BY <1>8, <3>3 DEF fulfill_reservations
  <2>6. availability_status' \in [Products -> {"available", "out_of_stock"}]
    BY <1>8 DEF fulfill_reservations, TypeOK
  <2>7. rows' \subseteq Products \X Days
    <3>1. \A x \in R : x[2] \in Products /\ reservation[o][x[2]].production_date \in Days
      BY <1>o DEF RowsOf, TypeOK, Rows
    <3>2. rows' = rows \cup {<<x[2], reservation[o][x[2]].production_date>> : x \in R}
      BY <1>8 DEF fulfill_reservations
    <3> HIDE DEF R
    <3> QED
      BY <3>1, <3>2 DEF TypeOK
  <2>8. max_units' \in [Products -> [Days -> Nat]]
    <3>1. \A p \in Products, d \in Days : MaxUnits(p, d) \in Nat
      BY BoundsAssumption DEF MaxUnits, default_daily_capacity, TypeOK
    <3>2. max_units' = [p \in Products |-> [d \in Days |->
                           IF <<p, d>> \in rows' THEN MaxUnits(p, d) ELSE max_units[p][d]]]
      BY <1>8 DEF fulfill_reservations
    <3> QED
      BY <3>1, <3>2 DEF TypeOK
  <2>9. today' = today
    BY <1>8 DEF fulfill_reservations
  <2>10. TypeOK'
    BY <2>3, <2>4, <2>5, <2>6, <2>7, <2>8, <2>9 DEF TypeOK
  <2>11. CartHoldsUnpaid'
    BY <1>s, <2>1, ReleaseUnpaid
  <2> QED
    BY <2>3, <2>10, <2>11
<1>9. CASE expire_stale_reservations
  <2>1. StaleRows \in SUBSET LiveRows
    BY DEF StaleRows, LiveRows, Live
  <2> QED
    BY <1>3, <1>9, <2>1 DEF expire_stale_reservations
<1> QED
  BY <1>1, <1>2, <1>4, <1>5, <1>6, <1>7, <1>8, <1>9 DEF Service

\* So do staff and the passing of time, which change no counter of held units.
LEMMA EnvironmentKeepsGaps == Sound /\ (Staff \/ Time) => Sound' /\ GapsKept
<1> SUFFICES ASSUME Sound, Staff \/ Time PROVE Sound' /\ GapsKept
  OBVIOUS
<1> USE DEF Sound
<1>1. ASSUME UNCHANGED <<reservation, reserved_quantity, reserved_units>>, TypeOK'
      PROVE  Sound' /\ GapsKept
  <2>1. GapsKept
    BY <1>1, SameUnits
  <2> QED
    BY <1>1, <2>1 DEF CartHoldsUnpaid
<1>2. ASSUME NEW p \in Tracked, NEW n \in StockEntries, EnterStock(p, n)
      PROVE  Sound' /\ GapsKept
  <2>1. TypeOK'
    BY <1>2, BoundsAssumption DEF EnterStock, TypeOK, capacityVars
  <2> QED
    BY <1>1, <1>2, <2>1 DEF EnterStock, capacityVars
<1>3. ASSUME NEW p \in Products, NEW d \in Days, NEW n \in CapacityEntries,
             EnterCapacity(p, d, n)
      PROVE  Sound' /\ GapsKept
  <2>1. TypeOK'
    BY <1>3, BoundsAssumption DEF EnterCapacity, TypeOK
  <2> QED
    BY <1>1, <1>3, <2>1 DEF EnterCapacity
<1>4. ASSUME NEW p \in Products, PutOnSale(p)
      PROVE  Sound' /\ GapsKept
  <2>1. TypeOK'
    BY <1>4 DEF PutOnSale, TypeOK, capacityVars
  <2> QED
    BY <1>1, <1>4, <2>1 DEF PutOnSale, capacityVars
<1>5. CASE Midnight
  <2>1. TypeOK'
    BY <1>5, BoundsAssumption DEF Midnight, TypeOK, capacityVars
  <2> QED
    BY <1>1, <1>5, <2>1 DEF Midnight, capacityVars
<1>6. ASSUME NEW o \in Owners, NEW p \in Products, HoldTimesOut(o, p)
      PROVE  Sound' /\ GapsKept
  <2>1. reservation' = [reservation EXCEPT ![o][p].overdue = TRUE]
    BY <1>6 DEF HoldTimesOut
  <2>2. reservation[o][p] \in Rows
    BY DEF TypeOK
  <2>3. [reservation[o][p] EXCEPT !.overdue = TRUE] \in Rows
    BY <2>2 DEF Rows
  <2>4. reservation' \in [Owners -> [Products -> Rows]]
    BY <2>1, <2>3 DEF TypeOK
  <2>5. TypeOK'
    BY <1>6, <2>4 DEF HoldTimesOut, TypeOK, capacityVars
  <2>6. ASSUME NEW x \in Owners, NEW y \in Products
        PROVE  /\ reservation'[x][y].status = reservation[x][y].status
               /\ reservation'[x][y].quantity = reservation[x][y].quantity
               /\ reservation'[x][y].production_date = reservation[x][y].production_date
    <3>1. reservation[x][y] \in Rows
      BY DEF TypeOK
    <3>2. reservation'[x][y] = IF x = o /\ y = p
                               THEN [reservation[x][y] EXCEPT !.overdue = TRUE]
                               ELSE reservation[x][y]
      BY <2>1 DEF TypeOK
    <3> QED
      BY <3>1, <3>2 DEF Rows
  <2>7. GapsKept
    BY <1>6, <2>6, SameUnits DEF HoldTimesOut, capacityVars
  <2>8. CartHoldsUnpaid'
    BY <2>6 DEF CartHoldsUnpaid, Owners
  <2> QED
    BY <2>5, <2>7, <2>8
<1> QED
  BY <1>2, <1>3, <1>4, <1>5, <1>6 DEF Staff, Time

\* The counters are exact.
Counted == TypeOK /\ ReservedIsHeld /\ CapacityIsHeld

\* A counter without a gap is what its live rows hold, and stays so.
LEMMA ExactStaysExact ==
    ASSUME Counted, TypeOK', GapsKept
    PROVE  Counted'
<1>1. ASSUME NEW p \in Products
      PROVE  reserved_quantity'[p] = IF p \in Tracked
                                     THEN Cardinality(Units(LiveRows, p)') ELSE 0
  <2>1. reserved_quantity[p] = IF p \in Tracked THEN Cardinality(Units(LiveRows, p)) ELSE 0
    BY DEF Counted, ReservedIsHeld
  <2>2. CASE p \in Tracked
    <3>1. Gap(p) = 0
      BY <2>1, <2>2, LiveUnitsCounted DEF Gap
    <3>2. NoFurther(reserved_quantity'[p] - Cardinality(Units(LiveRows, p)'), 0)
      BY <2>2, <3>1 DEF GapsKept, Gap
    <3> QED
      BY <2>2, <3>2, LiveUnitsCountedNext, NoGap DEF TypeOK
  <2>3. CASE p \notin Tracked
    BY <2>1, <2>3 DEF GapsKept
  <2> QED
    BY <2>2, <2>3
<1>2. ASSUME NEW p \in Products, NEW d \in Days
      PROVE  reserved_units'[p][d] = Cardinality(UnitsOn(LiveRows, p, d)')
  <2>1. GapOn(p, d) = 0
    BY LiveUnitsCounted DEF Counted, CapacityIsHeld, GapOn
  <2>2. NoFurther(reserved_units'[p][d] - Cardinality(UnitsOn(LiveRows, p, d)'), 0)
    BY <2>1 DEF GapsKept, GapOn
  <2> QED
    BY <2>2, LiveUnitsCountedNext, NoGap DEF TypeOK
<1>3. ReservedIsHeld'
  BY <1>1 DEF ReservedIsHeld
<1>4. CapacityIsHeld'
  BY <1>2 DEF CapacityIsHeld
<1> QED
  BY <1>3, <1>4 DEF Counted

-----------------------------------------------------------------------------
(* The inductive invariant of the service. *)

IInv == Counted /\ CartHoldsUnpaid

\* The empty tables satisfy the invariant.
LEMMA InitInvariant == Init => IInv
<1> SUFFICES ASSUME Init PROVE IInv
  OBVIOUS
<1>1. \A o \in Owners, p \in Products : reservation[o][p] = DeadRow("none")
  BY DEF Init
<1>2. DeadRow("none") \in Rows /\ DeadRow("none").status = "none"
  BY DeadRowTyped DEF Dead, DeadRow
<1>3. LiveRows = {}
  BY <1>1, <1>2 DEF LiveRows, Live
<1>4. \A p : Units(LiveRows, p) = {} /\ \A d : UnitsOn(LiveRows, p, d) = {}
  BY <1>3 DEF Units, UnitsOn
<1>5. ReservedIsHeld /\ CapacityIsHeld
  BY <1>4, FS_EmptySet DEF ReservedIsHeld, CapacityIsHeld, Init
<1>6. TypeOK
  BY <1>2, StockAssumption, BoundsAssumption DEF TypeOK, Init
<1>7. CartHoldsUnpaid
  BY <1>1, <1>2 DEF CartHoldsUnpaid, Owners
<1> QED
  BY <1>5, <1>6, <1>7 DEF IInv, Counted

\* The invariant is inductive: what widens no gap keeps the counters exact.
LEMMA StepInvariant == IInv /\ [Next]_vars => IInv'
<1> SUFFICES ASSUME IInv, [Next]_vars PROVE IInv'
  OBVIOUS
<1>1. Sound' /\ GapsKept
  <2>1. CASE Next
    BY <2>1, ServiceKeepsGaps, EnvironmentKeepsGaps DEF Next, IInv, Counted, Sound
  <2>2. CASE UNCHANGED vars
    <3>1. UNCHANGED <<stock_quantity, reserved_quantity, rows, max_units, reserved_units,
                      fulfilled_units, reservation, availability_status, today>>
      BY <2>2 DEF vars, capacityVars
    <3> QED
      BY <3>1, SameUnits DEF IInv, Counted, Sound, TypeOK, CartHoldsUnpaid
  <2> QED
    BY <2>1, <2>2
<1> QED
  BY <1>1, ExactStaysExact DEF IInv, Sound, Counted

\* The inductive invariant holds throughout.
THEOREM InvariantHolds == Spec => []IInv
<1> QED
  BY InitInvariant, StepInvariant, PTL DEF Spec

\* No column of the stock tables leaves its type in any execution: quantities
\* are never negative, whatever the number of products, carts and orders.
THEOREM TypeCorrect == Spec => []TypeOK
<1>1. IInv => TypeOK
  BY DEF IInv, Counted
<1> QED
  BY <1>1, InvariantHolds, PTL

\* ProductInventory.reserved_quantity always equals the sum of the live
\* reservations of the product.
THEOREM ReservedExact == Spec => []ReservedIsHeld
<1>1. IInv => ReservedIsHeld
  BY DEF IInv, Counted
<1> QED
  BY <1>1, InvariantHolds, PTL

\* DailyProductionCapacity.reserved_units always equals the sum of the live
\* reservations for that product and day.
THEOREM CapacityExact == Spec => []CapacityIsHeld
<1>1. IInv => CapacityIsHeld
  BY DEF IInv, Counted
<1> QED
  BY <1>1, InvariantHolds, PTL

-----------------------------------------------------------------------------
(* What a step may never do. *)

\* Releasing rows never raises a counter.
LEMMA ReleaseLowers ==
    ASSUME TypeOK, NEW R
    PROVE  /\ \A p \in Products : /\ ReservedAfter(R)[p] \in Nat
                                  /\ ReservedAfter(R)[p] <= reserved_quantity[p]
           /\ \A p \in Products, d \in Days : /\ UnitsAfter(R)[p][d] \in Nat
                                              /\ UnitsAfter(R)[p][d] <= reserved_units[p][d]
<1>1. /\ \A p \in Products : ReservedAfter(R)[p] \in Nat
      /\ \A p \in Products, d \in Days : UnitsAfter(R)[p][d] \in Nat
  BY CountersTyped
<1>2. \A i, j \in Nat : Floor(i - j) <= i
  BY DEF Floor
<1>3. \A p : Cardinality(Units(R, p)) \in Nat /\ \A d : Cardinality(UnitsOn(R, p, d)) \in Nat
  BY UnitsFinite
<1>4. ASSUME NEW p \in Products PROVE ReservedAfter(R)[p] <= reserved_quantity[p]
  <2>1. reserved_quantity[p] \in Nat
    BY DEF TypeOK
  <2> QED
    BY <1>2, <1>3, <2>1 DEF ReservedAfter
<1>5. ASSUME NEW p \in Products, NEW d \in Days
      PROVE  UnitsAfter(R)[p][d] <= reserved_units[p][d]
  <2>1. reserved_units[p][d] \in Nat
    BY DEF TypeOK
  <2> QED
    BY <1>2, <1>3, <2>1 DEF UnitsAfter
<1> QED
  BY <1>1, <1>4, <1>5

\* Booking keeps within the stock of a product without preorder ...
LEMMA ReserveWithinStock ==
    ASSUME TypeOK, NEW R, NEW o, NEW n \in Items, NEW day,
           ReleaseThenReserve(R, o, n, day), NEW p \in Tracked \ Preorder
    PROVE  Oversold(p)' <= Oversold(p)
<1>1. p \in Products /\ n[p] \in Nat
  BY ProductsAssumption, BoundsAssumption DEF Items
<1>2. /\ stock_quantity[p] \in Nat /\ stock_quantity'[p] = stock_quantity[p]
      /\ reserved_quantity[p] \in Nat
      /\ ReservedAfter(R)[p] \in Nat /\ ReservedAfter(R)[p] <= reserved_quantity[p]
  BY <1>1, ReleaseLowers DEF TypeOK, ReleaseThenReserve
<1>3. CASE n[p] > 0
  <2>1. reserved_quantity'[p] = ReservedAfter(R)[p] + n[p]
    BY <1>1, <1>3 DEF ReleaseThenReserve
  <2>2. n[p] <= available_quantity(p, ReservedAfter(R))
    BY <1>1, <1>3 DEF ReleaseThenReserve, reserve_item
  <2>3. ReservedAfter(R)[p] + n[p] <= stock_quantity[p]
    BY <1>1, <1>2, <1>3, <2>2 DEF available_quantity, Floor
  <2> QED
    BY <1>1, <1>2, <2>1, <2>3 DEF Oversold, Floor
<1>4. CASE ~(n[p] > 0)
  <2>1. reserved_quantity'[p] = ReservedAfter(R)[p]
    BY <1>1, <1>4 DEF ReleaseThenReserve
  <2> QED
    BY <1>1, <1>2, <2>1 DEF Oversold, Floor
<1> QED
  BY <1>3, <1>4

\* ... and within the capacity of the day.
LEMMA ReserveWithinCapacity ==
    ASSUME TypeOK, NEW R, NEW o, NEW n \in Items, NEW day \in [Products -> Days],
           ReleaseThenReserve(R, o, n, day), NEW p \in Products, NEW d \in Days,
           Booked(p, d)' > Booked(p, d)
    PROVE  Booked(p, d)' <= max_units'[p][d]
<1>1. n[p] \in Nat /\ today \in Int
  BY BoundsAssumption DEF Items, TypeOK
<1>2. /\ fulfilled_units[p][d] \in Nat /\ fulfilled_units'[p][d] = fulfilled_units[p][d]
      /\ reserved_units[p][d] \in Nat
      /\ UnitsAfter(R)[p][d] \in Nat /\ UnitsAfter(R)[p][d] <= reserved_units[p][d]
  BY ReleaseLowers DEF TypeOK, ReleaseThenReserve
<1>3. reserved_units'[p][d] = IF n[p] > 0 /\ d = day[p] THEN UnitsAfter(R)[p][d] + n[p]
                                                        ELSE UnitsAfter(R)[p][d]
  BY DEF ReleaseThenReserve
<1>4. n[p] > 0 /\ d = day[p]
  BY <1>1, <1>2, <1>3 DEF Booked
<1>5. /\ find_fulfillment_date(p, n[p], d, ReservedAfter(R), UnitsAfter(R))
      /\ available_units(p, d, UnitsAfter(R)) >= n[p]
  BY <1>4 DEF ReleaseThenReserve, reserve_item
<1>6. d \in today .. day[p]
  BY <1>1, <1>4, <1>5 DEF find_fulfillment_date, Days
<1>7. max_units'[p][d] = MaxUnits(p, d)
  BY <1>4, <1>6 DEF ReleaseThenReserve
<1>8. MaxUnits(p, d) \in Nat
  BY BoundsAssumption DEF MaxUnits, default_daily_capacity, TypeOK
<1> QED
  BY <1>1, <1>2, <1>3, <1>4, <1>5, <1>7, <1>8 DEF available_units, Floor, Booked

\* The steps that book, the step that hands over, and all others.
LEMMA StepKinds ==
    ASSUME IInv, Next
    PROVE  \/ \E R, o : \E n \in Items, day \in [Products -> Days] :
                 ReleaseThenReserve(R, o, n, day)
           \/ \E o \in Orders : fulfill_reservations(o)
           \/ \E p \in Tracked, n \in StockEntries : EnterStock(p, n)
           \/ /\ UNCHANGED <<stock_quantity, fulfilled_units>>
              /\ \/ UNCHANGED <<reserved_quantity, reserved_units>>
                 \/ \E R, s : Release(R, s)
<1>1. ASSUME NEW c \in Carts, NEW p \in Products, NEW n \in Quantities,
             reserve_for_cart_item(c, p, n)
      PROVE  \E R, o : \E m \in Items, day \in [Products -> Days] :
                ReleaseThenReserve(R, o, m, day)
  <2>1. [x \in Products |-> IF x = p THEN n ELSE 0] \in Items
    BY BoundsAssumption DEF Items, Quantities
  <2>2. \A d \in Days : [x \in Products |-> d] \in [Products -> Days]
    OBVIOUS
  <2> QED
    BY <1>1, <2>1, <2>2 DEF reserve_for_cart_item
<1>2. ASSUME NEW c \in Carts, NEW o \in Orders, NEW n \in Items,
             finalize_checkout_stock(c, o, n)
      PROVE  \E R, x : \E m \in Items, day \in [Products -> Days] :
                ReleaseThenReserve(R, x, m, day)
  BY <1>2 DEF finalize_checkout_stock
<1>3. Service => \/ \E R, o : \E n \in Items, day \in [Products -> Days] :
                       ReleaseThenReserve(R, o, n, day)
                 \/ \E o \in Orders : fulfill_reservations(o)
                 \/ /\ UNCHANGED <<stock_quantity, fulfilled_units>>
                    /\ \/ UNCHANGED <<reserved_quantity, reserved_units>>
                       \/ \E R, s : Release(R, s)
  BY <1>1, <1>2 DEF Service, release_cart_reservations, release_cart_reservations_for_product,
     confirm_reservations, release_reservations, expire_stale_reservations, capacityVars
<1>4. Staff \/ Time => \/ \E p \in Tracked, n \in StockEntries : EnterStock(p, n)
                       \/ /\ UNCHANGED <<stock_quantity, fulfilled_units>>
                          /\ UNCHANGED <<reserved_quantity, reserved_units>>
  BY DEF Staff, Time, EnterCapacity, PutOnSale, Midnight, HoldTimesOut, capacityVars
<1> QED
  BY <1>3, <1>4 DEF Next

\* The service never raises the number of oversold units of a product that
\* takes no preorders; only staff entering a smaller stock can.
THEOREM NeverOversells == Spec => OnlyStaffOversell
<1>1. ASSUME IInv, Next, ~ \E p \in Tracked, n \in StockEntries : EnterStock(p, n),
             NEW p \in Tracked \ Preorder
      PROVE  Oversold(p)' <= Oversold(p)
  <2>1. p \in Products /\ TypeOK
    BY <1>1, ProductsAssumption DEF IInv, Counted
  <2>2. stock_quantity[p] \in Nat /\ reserved_quantity[p] \in Nat
    BY <2>1 DEF TypeOK
  <2>3. ASSUME NEW R, NEW o, NEW n \in Items, NEW day, ReleaseThenReserve(R, o, n, day)
        PROVE  Oversold(p)' <= Oversold(p)
    BY <2>1, <2>3, ReserveWithinStock
  <2>4. ASSUME NEW o \in Orders, fulfill_reservations(o)
        PROVE  Oversold(p)' <= Oversold(p)
    <3> DEFINE k == Cardinality(Units(RowsOf(o, {"confirmed"}), p))
    <3>1. k \in Nat
      BY UnitsFinite
    <3>2. /\ stock_quantity'[p] = Floor(stock_quantity[p] - k)
          /\ reserved_quantity'[p] = Floor(reserved_quantity[p] - k)
      BY <2>1, <2>4 DEF fulfill_reservations, Release, ReservedAfter
    <3> HIDE DEF k
    <3> QED
      BY <2>2, <3>1, <3>2 DEF Oversold, Floor
  <2>5. ASSUME UNCHANGED stock_quantity,
               UNCHANGED reserved_quantity \/ \E R, s : Release(R, s)
        PROVE  Oversold(p)' <= Oversold(p)
    <3>1. CASE UNCHANGED reserved_quantity
      BY <2>2, <2>5, <3>1 DEF Oversold, Floor
    <3>2. ASSUME NEW R, NEW s, Release(R, s)
          PROVE  Oversold(p)' <= Oversold(p)
      <4>1. /\ reserved_quantity'[p] = ReservedAfter(R)[p]
            /\ ReservedAfter(R)[p] \in Nat /\ ReservedAfter(R)[p] <= reserved_quantity[p]
        BY <2>1, <3>2, ReleaseLowers DEF Release
      <4> QED
        BY <2>2, <2>5, <4>1 DEF Oversold, Floor
    <3> QED
      BY <2>5, <3>1, <3>2
  <2> QED
    BY <1>1, <2>3, <2>4, <2>5, StepKinds
<1>2. IInv /\ [Next]_vars =>
         [\/ \E p \in Tracked, n \in StockEntries : EnterStock(p, n)
          \/ \A p \in Tracked \ Preorder : Oversold(p)' <= Oversold(p)]_vars
  BY <1>1
<1> QED
  BY <1>2, InvariantHolds, PTL DEF Spec, OnlyStaffOversell

\* No day is ever booked beyond its max_units.
THEOREM NeverOverbooks == Spec => BookedWithinCapacity
<1>1. ASSUME IInv, Next, NEW p \in Products, NEW d \in Days, Booked(p, d)' > Booked(p, d)
      PROVE  Booked(p, d)' <= max_units'[p][d]
  <2>1. TypeOK
    BY <1>1 DEF IInv, Counted
  <2>2. reserved_units[p][d] \in Nat /\ fulfilled_units[p][d] \in Nat
    BY <2>1 DEF TypeOK
  <2>3. ASSUME NEW R, NEW o, NEW n \in Items, NEW day \in [Products -> Days],
               ReleaseThenReserve(R, o, n, day)
        PROVE  Booked(p, d)' <= max_units'[p][d]
    BY <1>1, <2>1, <2>3, ReserveWithinCapacity
  <2>4. ASSUME NEW o \in Orders, fulfill_reservations(o)
        PROVE  Booked(p, d)' = Booked(p, d)
    <3> DEFINE R == RowsOf(o, {"confirmed"})
               k == Cardinality(UnitsOn(R, p, d))
    <3>1. UnitsOn(R, p, d) \in SUBSET UnitsOn(LiveRows, p, d)
      BY DEF UnitsOn, Units, RowsOf, LiveRows, Live
    <3>2. reserved_units[p][d] = Cardinality(UnitsOn(LiveRows, p, d))
      BY <1>1 DEF IInv, Counted, CapacityIsHeld
    <3>3. k \in Nat /\ k <= reserved_units[p][d]
      BY <3>1, <3>2, CountWithout, UnitsFinite
    <3>4. /\ reserved_units'[p][d] = Floor(reserved_units[p][d] - k)
          /\ fulfilled_units'[p][d] = fulfilled_units[p][d] + k
      BY <2>4 DEF fulfill_reservations, Release, UnitsAfter
    <3> HIDE DEF k
    <3> QED
      BY <2>2, <3>3, <3>4 DEF Booked, Floor
  <2>5. ASSUME UNCHANGED fulfilled_units,
               UNCHANGED reserved_units \/ \E R, s : Release(R, s)
        PROVE  Booked(p, d)' <= Booked(p, d)
    <3>1. CASE UNCHANGED reserved_units
      BY <2>2, <2>5, <3>1 DEF Booked
    <3>2. ASSUME NEW R, NEW s, Release(R, s)
          PROVE  Booked(p, d)' <= Booked(p, d)
      <4>1. /\ reserved_units'[p][d] = UnitsAfter(R)[p][d]
            /\ UnitsAfter(R)[p][d] \in Nat /\ UnitsAfter(R)[p][d] <= reserved_units[p][d]
        BY <2>1, <3>2, ReleaseLowers DEF Release
      <4> QED
        BY <2>2, <2>5, <4>1 DEF Booked
    <3> QED
      BY <2>5, <3>1, <3>2
  <2>6. ASSUME NEW q \in Tracked, NEW n \in StockEntries, EnterStock(q, n)
        PROVE  Booked(p, d)' = Booked(p, d)
    BY <2>6 DEF EnterStock, capacityVars, Booked
  <2>7. Booked(p, d) \in Nat /\ Booked(p, d)' \in Nat
    <3>1. TypeOK'
      BY <1>1, StepInvariant DEF IInv, Counted
    <3> QED
      BY <2>2, <3>1 DEF Booked, TypeOK
  <2> QED
    BY <1>1, <2>3, <2>4, <2>5, <2>6, <2>7, StepKinds
<1>2. IInv /\ [Next]_vars =>
         [\A p \in Products, d \in Days :
             Booked(p, d)' > Booked(p, d) => Booked(p, d)' <= max_units'[p][d]]_vars
  BY <1>1
<1> QED
  BY <1>2, InvariantHolds, PTL DEF Spec, BookedWithinCapacity

-----------------------------------------------------------------------------
\* Whatever releases ACTIVE rows leaves a CONFIRMED one alone.
LEMMA ActiveRelease ==
    ASSUME NEW R, NEW s, Release(R, s),
           \A x \in R : reservation[x[1]][x[2]].status = "active",
           NEW o \in Owners, NEW p \in Products, reservation[o][p].status = "confirmed"
    PROVE  reservation'[o][p] = reservation[o][p]
<1>1. <<o, p>> \notin R
  OBVIOUS
<1> QED
  BY <1>1 DEF Release

\* So does a booking for a cart or a new order, which have no CONFIRMED rows.
LEMMA BookingKeeps ==
    ASSUME NEW R, NEW x, NEW n, NEW day, ReleaseThenReserve(R, x, n, day),
           \A y \in R : reservation[y[1]][y[2]].status = "active",
           \A q \in Products : reservation[x][q].status # "confirmed",
           NEW o \in Owners, NEW p \in Products, reservation[o][p].status = "confirmed"
    PROVE  reservation'[o][p] = reservation[o][p]
<1>1. <<o, p>> \notin R /\ o # x
  OBVIOUS
<1> QED
  BY <1>1 DEF ReleaseThenReserve

\* The expiry task, carts and other orders never touch a paid hold: only the
\* cancellation or the hand-over of its own order ends it.
THEOREM PaidHoldsKept == Spec => ConfirmedHoldsAreKept
<1> DEFINE Kept(o, p) == \/ reservation'[o][p] = reservation[o][p]
                         \/ o \in Orders /\ (release_reservations(o) \/ fulfill_reservations(o))
<1>1. ASSUME IInv, Next, NEW o \in Owners, NEW p \in Products,
             reservation[o][p].status = "confirmed"
      PROVE  Kept(o, p)
  <2>1. ASSUME NEW c \in Carts, NEW q \in Products, NEW n \in Quantities,
               reserve_for_cart_item(c, q, n)
        PROVE  Kept(o, p)
    <3>1. PICK d \in Days :
             ReleaseThenReserve(RowsOf(c, {"active"}) \cap {<<c, q>>}, c,
                                [x \in Products |-> IF x = q THEN n ELSE 0],
                                [x \in Products |-> d])
      BY <2>1 DEF reserve_for_cart_item
    <3>2. \A y \in RowsOf(c, {"active"}) \cap {<<c, q>>} :
             reservation[y[1]][y[2]].status = "active"
      BY DEF RowsOf
    <3>3. \A r \in Products : reservation[c][r].status # "confirmed"
      BY <1>1 DEF IInv, CartHoldsUnpaid
    <3> QED
      BY <1>1, <3>1, <3>2, <3>3, BookingKeeps
  <2>2. ASSUME NEW c \in Carts, NEW x \in Orders, NEW n \in Items, finalize_checkout_stock(c, x, n)
        PROVE  Kept(o, p)
    <3>1. \A y \in RowsOf(c, {"active"}) : reservation[y[1]][y[2]].status = "active"
      BY DEF RowsOf
    <3>2. \A r \in Products : reservation[x][r].status # "confirmed"
      BY <2>2 DEF finalize_checkout_stock
    <3>3. PICK day : ReleaseThenReserve(RowsOf(c, {"active"}), x, n, day)
      BY <2>2 DEF finalize_checkout_stock
    <3> QED
      BY <1>1, <3>1, <3>2, <3>3, BookingKeeps
  <2>3. ASSUME NEW c \in Carts,
               \/ release_cart_reservations(c)
               \/ \E q \in Products : release_cart_reservations_for_product(c, q)
        PROVE  Kept(o, p)
    <3>1. \A y \in RowsOf(c, {"active"}) : reservation[y[1]][y[2]].status = "active"
      BY DEF RowsOf
    <3> QED
      BY <1>1, <2>3, <3>1, ActiveRelease
      DEF release_cart_reservations, release_cart_reservations_for_product
  <2>4. ASSUME NEW x \in Orders, confirm_reservations(x) PROVE Kept(o, p)
    <3>1. o = x => <<o, p>> \notin RowsOf(x, {"active"})
      BY <1>1 DEF RowsOf
    <3> QED
      BY <1>1, <2>4, <3>1 DEF confirm_reservations, IInv, Counted, TypeOK
  <2>5. ASSUME NEW x \in Orders, release_reservations(x) \/ fulfill_reservations(x)
        PROVE  Kept(o, p)
    <3>1. CASE x = o
      BY <2>5, <3>1
    <3>2. CASE x # o
      <4>1. \E statuses : Release(RowsOf(x, statuses), "released")
        BY <2>5 DEF release_reservations, fulfill_reservations
      <4>2. \A statuses : <<o, p>> \notin RowsOf(x, statuses)
        BY <3>2 DEF RowsOf
      <4>3. reservation'[o][p] = reservation[o][p]
        BY <4>1, <4>2 DEF Release
      <4> QED
        BY <4>3
    <3> QED
      BY <3>1, <3>2
  <2>6. ASSUME expire_stale_reservations PROVE Kept(o, p)
    <3>1. \A y \in StaleRows : reservation[y[1]][y[2]].status = "active"
      BY DEF StaleRows
    <3> QED
      BY <1>1, <2>6, <3>1, ActiveRelease DEF expire_stale_reservations
  <2>7. ASSUME NEW x \in Owners, NEW q \in Products, HoldTimesOut(x, q) PROVE Kept(o, p)
    BY <1>1, <2>7 DEF HoldTimesOut, IInv, Counted, TypeOK
  <2>8. ASSUME UNCHANGED reservation PROVE Kept(o, p)
    BY <2>8
  <2>9. CASE Service
    BY <2>1, <2>2, <2>3, <2>4, <2>5, <2>6, <2>9 DEF Service
  <2>10. CASE Staff \/ Time
    BY <2>7, <2>8, <2>10 DEF Staff, Time, EnterStock, EnterCapacity, PutOnSale, Midnight
  <2> QED
    BY <1>1, <2>9, <2>10 DEF Next
<1>2. IInv /\ [Next]_vars =>
         [\A o \in Owners, p \in Products :
             reservation[o][p].status = "confirmed" =>
                 \/ reservation'[o][p] = reservation[o][p]
                 \/ o \in Orders /\ (release_reservations(o) \/ fulfill_reservations(o))]_vars
  BY <1>1
<1> QED
  BY <1>2, InvariantHolds, PTL DEF Spec, ConfirmedHoldsAreKept

-----------------------------------------------------------------------------
(* The stock service implements the ledger: what it decides by its cached   *)
(* counters is what somebody would decide who counts the live reservations. *)

\* The ledger's promises are the units of the live rows.
Promised == [p \in Products |-> Units(LiveRows, p)]

-----------------------------------------------------------------------------
\* Promises are sets of units.
LEMMA PromisedTyped == /\ Promised \in [Products -> SUBSET (Owners \X Quantities)]
                       /\ Promised' \in [Products -> SUBSET (Owners \X Quantities)]
  BY DEF Promised, Units

\* The ledger counts as its implementation does.
LEMMA SameCount == ASSUME NEW S PROVE Ledger!Cardinality(S) = Cardinality(S)
  BY DEF Ledger!Cardinality, Cardinality

\* A unit is promised when its owner's row holds it.
LEMMA PromisedUnit ==
    ASSUME NEW p \in Products, NEW u \in Owners \X Quantities
    PROVE  u \in Promised[p] <=> /\ reservation[u[1]][p].status \in Live
                                 /\ u[2] <= reservation[u[1]][p].quantity
  BY DEF Promised, Units, LiveRows

\* The same after the step.
LEMMA PromisedUnitNext ==
    ASSUME NEW p \in Products, NEW u \in Owners \X Quantities
    PROVE  u \in Promised'[p] <=> /\ reservation'[u[1]][p].status \in Live
                                  /\ u[2] <= reservation'[u[1]][p].quantity
  BY DEF Promised, Units, LiveRows

\* Rows that keep liveness and quantity keep the promises.
LEMMA PromisedKept ==
    ASSUME \A o \in Owners, p \in Products :
              /\ reservation'[o][p].status \in Live <=> reservation[o][p].status \in Live
              /\ reservation'[o][p].quantity = reservation[o][p].quantity
    PROVE  Promised' = Promised
<1>1. \A p \in Products, u \in Owners \X Quantities : u \in Promised'[p] <=> u \in Promised[p]
  BY PromisedUnit, PromisedUnitNext
<1>2. \A p \in Products : Promised'[p] = Promised[p]
  BY <1>1, PromisedTyped
<1> QED BY <1>2, PromisedTyped

\* Releasing rows withdraws their units and no other.
LEMMA ReleasedUnits ==
    ASSUME NEW R, NEW s \in Dead, Release(R, s), NEW p \in Products
    PROVE  /\ Promised'[p] \subseteq Promised[p]
           /\ Promised[p] \ Promised'[p] = {u \in Promised[p] : <<u[1], p>> \in R}
<1>1. DeadRow(s).status \notin Live
  BY DEF DeadRow, Dead, Live
<1>2. \A o \in Owners : reservation'[o][p] = IF <<o, p>> \in R THEN DeadRow(s)
                                              ELSE reservation[o][p]
  BY DEF Release
<1>3. \A u \in Owners \X Quantities :
         u \in Promised'[p] <=> u \in Promised[p] /\ <<u[1], p>> \notin R
  BY <1>1, <1>2, PromisedUnit, PromisedUnitNext
<1> QED BY <1>3, PromisedTyped

-----------------------------------------------------------------------------
(* The kinds of transactions. *)

\* A booking for o that releases rows of c only is a Book of the two.
LEMMA ReserveBooks ==
    ASSUME IInv, IInv', NEW c \in Owners, NEW o \in Owners, NEW R,
           \A x, p : <<x, p>> \in R => x = c,
           NEW n \in Items, NEW day, ReleaseThenReserve(R, o, n, day)
    PROVE  Ledger!Book({c, o})
<1>1. \A x \in Owners \ {c, o}, p \in Products : reservation'[x][p] = reservation[x][p]
  BY DEF ReleaseThenReserve
<1>2. ASSUME NEW p \in Products
      PROVE  {u \in Promised'[p] : u[1] \notin {c, o}} = {u \in Promised[p] : u[1] \notin {c, o}}
  <2>1. \A u \in Owners \X Quantities :
           u[1] \notin {c, o} => (u \in Promised'[p] <=> u \in Promised[p])
    BY <1>1, PromisedUnit, PromisedUnitNext
  <2> QED BY <2>1, PromisedTyped
<1>3. UNCHANGED stock_quantity
  BY DEF ReleaseThenReserve
<1>4. ASSUME NEW p \in Tracked \ Preorder
      PROVE  \/ Cardinality(Promised'[p]) <= Cardinality(Promised[p])
             \/ Cardinality(Promised'[p]) <= stock_quantity[p]
  <2>1. Oversold(p)' <= Oversold(p)
    BY <1>4, ReserveWithinStock DEF IInv, Counted
  <2>2. stock_quantity[p] \in Nat
    BY ProductsAssumption DEF IInv, Counted, TypeOK
  <2>3. /\ Cardinality(Promised[p]) = reserved_quantity[p] /\ reserved_quantity[p] \in Nat
        /\ Cardinality(Promised'[p]) = reserved_quantity'[p] /\ reserved_quantity'[p] \in Nat
    <3>1. p \in Products
      BY ProductsAssumption
    <3> QED BY <3>1 DEF IInv, Counted, TypeOK, ReservedIsHeld, Promised
  <2> QED BY <1>3, <2>1, <2>2, <2>3 DEF Oversold, Floor
<1>5. \A p \in Products : Ledger!UnitsOfOthers({c, o}, Promised'[p])
                              = Ledger!UnitsOfOthers({c, o}, Promised[p])
  BY <1>2 DEF Ledger!UnitsOfOthers
<1>6. \A p \in Tracked \ Preorder :
         \/ Ledger!Cardinality(Promised'[p]) <= Ledger!Cardinality(Promised[p])
         \/ Ledger!Cardinality(Promised'[p]) <= stock_quantity[p]
  BY <1>4, SameCount
<1> QED BY <1>3, <1>5, <1>6, PromisedTyped DEF Ledger!Book, Promised

\* A transaction that only releases rows is a Withdraw.
LEMMA ReleaseWithdraws ==
    ASSUME NEW R, NEW s \in Dead, Release(R, s), UNCHANGED stock_quantity
    PROVE  Ledger!Withdraw
<1>1. \A p \in Products : Promised'[p] \subseteq Promised[p]
  BY ReleasedUnits
<1> QED BY <1>1, PromisedTyped DEF Ledger!Withdraw, Promised

\* A hand-over takes the units of the order out of promises and stock together.
LEMMA FulfillHandsOver ==
    ASSUME IInv, NEW o \in Orders, fulfill_reservations(o)
    PROVE  Ledger!HandOver(o)
<1> DEFINE R == RowsOf(o, {"confirmed"})
<1>1. Release(R, "released") /\ "released" \in Dead
  BY DEF fulfill_reservations, Dead
<1>2. ASSUME NEW p \in Products
      PROVE  /\ Promised'[p] \subseteq Promised[p]
             /\ Promised[p] \ Promised'[p] = Units(R, p)
             /\ {u \in Promised'[p] : u[1] \notin {o}} = {u \in Promised[p] : u[1] \notin {o}}
  <2>1. \A x : <<x, p>> \in R <=> x = o /\ reservation[o][p].status = "confirmed"
    BY DEF RowsOf
  <2>2. \A u \in Owners \X Quantities :
           u \in Units(R, p) <=> u \in Promised[p] /\ <<u[1], p>> \in R
    BY <2>1, PromisedUnit DEF Units, Live
  <2> HIDE DEF R
  <2>3. {u \in Promised[p] : <<u[1], p>> \in R} = Units(R, p)
    BY <2>2, PromisedTyped DEF Units
  <2>4. /\ Promised'[p] \subseteq Promised[p]
        /\ Promised[p] \ Promised'[p] = {u \in Promised[p] : <<u[1], p>> \in R}
    BY <1>1, ReleasedUnits
  <2>5. \A u \in Promised[p] \ Promised'[p] : u[1] = o
    BY <2>1, <2>4
  <2> QED BY <2>3, <2>4, <2>5
<1>3. ASSUME NEW p \in Products
      PROVE  stock_quantity'[p] =
                LET sold == Cardinality(Promised[p] \ Promised'[p])
                IN  IF p \notin Tracked THEN stock_quantity[p]
                    ELSE IF sold > stock_quantity[p] THEN 0 ELSE stock_quantity[p] - sold
  <2>1. /\ stock_quantity'[p] = IF p \in Tracked
                                THEN Floor(stock_quantity[p] - Cardinality(Units(R, p)))
                                ELSE stock_quantity[p]
        /\ stock_quantity[p] \in Nat /\ Cardinality(Units(R, p)) \in Nat
    BY UnitsFinite DEF fulfill_reservations, IInv, Counted, TypeOK
  <2> DEFINE k == Cardinality(Units(R, p))
  <2>2. Cardinality(Promised[p] \ Promised'[p]) = k
    BY <1>2
  <2>3. /\ stock_quantity'[p] = IF p \in Tracked THEN Floor(stock_quantity[p] - k)
                                ELSE stock_quantity[p]
        /\ stock_quantity[p] \in Nat /\ k \in Nat
    BY <2>1
  <2> HIDE DEF k
  <2> QED BY <2>2, <2>3 DEF Floor
<1>4. stock_quantity' = [p \in Products |-> stock_quantity'[p]]
  BY DEF fulfill_reservations
<1> HIDE DEF R
<1>5. stock_quantity' = [p \in Products |->
         LET sold == Ledger!Cardinality(Promised[p] \ Promised'[p])
         IN  IF p \notin Tracked THEN stock_quantity[p]
             ELSE IF sold > stock_quantity[p] THEN 0 ELSE stock_quantity[p] - sold]
  BY <1>3, <1>4, SameCount
<1>6. \A p \in Products : Ledger!UnitsOfOthers({o}, Promised'[p])
                              = Ledger!UnitsOfOthers({o}, Promised[p])
  BY <1>2 DEF Ledger!UnitsOfOthers
<1> QED BY <1>2, <1>5, <1>6, PromisedTyped DEF Ledger!HandOver, Promised

\* Steps that keep liveness and quantity of the rows, and the stock.
LEMMA KeepsLedger ==
    ASSUME \A o \in Owners, p \in Products :
              /\ reservation'[o][p].status \in Live <=> reservation[o][p].status \in Live
              /\ reservation'[o][p].quantity = reservation[o][p].quantity,
           UNCHANGED stock_quantity
    PROVE  UNCHANGED Ledger!ledgerVars
  BY PromisedKept DEF Ledger!ledgerVars, Promised

\* Every transaction of the service is one of the ledger.
LEMMA ServiceRefines ==
    ASSUME IInv, IInv', Service
    PROVE  [Ledger!LedgerNext]_(Ledger!ledgerVars)
<1>o. Carts \subseteq Owners /\ Orders \subseteq Owners
  BY DEF Owners
<1>d. {"released", "expired"} \subseteq Dead
  BY DEF Dead
<1>1. ASSUME NEW c \in Carts, NEW p \in Products, NEW n \in Quantities,
             reserve_for_cart_item(c, p, n)
      PROVE  Ledger!LedgerNext
  <2> DEFINE q == [x \in Products |-> IF x = p THEN n ELSE 0]
  <2>1. q \in Items
    BY BoundsAssumption DEF Items, Quantities
  <2>2. PICK d \in Days :
           ReleaseThenReserve(RowsOf(c, {"active"}) \cap {<<c, p>>}, c, q, [x \in Products |-> d])
    BY <1>1 DEF reserve_for_cart_item
  <2> HIDE DEF q
  <2>3. \A x, y : <<x, y>> \in RowsOf(c, {"active"}) \cap {<<c, p>>} => x = c
    OBVIOUS
  <2>4. Ledger!Book({c, c})
    BY <1>o, <2>1, <2>2, <2>3, ReserveBooks
  <2> QED BY <1>o, <2>4 DEF Ledger!LedgerNext
<1>2. ASSUME NEW c \in Carts, NEW o \in Orders, NEW n \in Items, finalize_checkout_stock(c, o, n)
      PROVE  Ledger!LedgerNext
  <2>1. PICK day : ReleaseThenReserve(RowsOf(c, {"active"}), o, n, day)
    BY <1>2 DEF finalize_checkout_stock
  <2>2. \A x, y : <<x, y>> \in RowsOf(c, {"active"}) => x = c
    BY DEF RowsOf
  <2>3. Ledger!Book({c, o})
    BY <1>o, <2>1, <2>2, ReserveBooks
  <2> QED BY <1>o, <2>3 DEF Ledger!LedgerNext
<1>3. ASSUME NEW c \in Carts, release_cart_reservations(c) PROVE Ledger!LedgerNext
  BY <1>3, <1>d, ReleaseWithdraws DEF release_cart_reservations, Ledger!LedgerNext
<1>4. ASSUME NEW c \in Carts, NEW p \in Products, release_cart_reservations_for_product(c, p)
      PROVE  Ledger!LedgerNext
  BY <1>4, <1>d, ReleaseWithdraws DEF release_cart_reservations_for_product, Ledger!LedgerNext
<1>5. ASSUME NEW o \in Orders, confirm_reservations(o) PROVE UNCHANGED Ledger!ledgerVars
  <2>1. \A x \in Owners, p \in Products :
           /\ reservation'[x][p].status \in Live <=> reservation[x][p].status \in Live
           /\ reservation'[x][p].quantity = reservation[x][p].quantity
    <3>1. ASSUME NEW x \in Owners, NEW p \in Products
          PROVE  reservation'[x][p] =
                    IF x = o /\ reservation[o][p].status = "active"
                    THEN [reservation[o][p] EXCEPT !.status = "confirmed", !.overdue = FALSE]
                    ELSE reservation[x][p]
      BY <1>5, <1>o DEF confirm_reservations, RowsOf, IInv, Counted, TypeOK
    <3>2. \A x \in Owners, p \in Products : reservation[x][p] \in Rows
      BY DEF IInv, Counted, TypeOK
    <3>3. ASSUME NEW x \in Owners, NEW p \in Products
          PROVE  /\ reservation'[x][p].status \in Live <=> reservation[x][p].status \in Live
                 /\ reservation'[x][p].quantity = reservation[x][p].quantity
      <4>1. CASE x = o /\ reservation[o][p].status = "active"
        <5> DEFINE r == reservation[o][p]
        <5>1. r \in Rows
          BY <1>o, <3>2
        <5>2. reservation'[x][p] = [r EXCEPT !.status = "confirmed", !.overdue = FALSE]
          BY <3>1, <4>1
        <5>3. reservation[x][p] = r /\ r.status = "active"
          BY <4>1
        <5> HIDE DEF r
        <5> QED BY <5>1, <5>2, <5>3 DEF Rows, Live
      <4>2. CASE ~(x = o /\ reservation[o][p].status = "active")
        BY <3>1, <4>2
      <4> QED BY <4>1, <4>2
    <3> QED BY <3>3
  <2> QED BY <1>5, <2>1, KeepsLedger DEF confirm_reservations
<1>6. ASSUME NEW o \in Orders, release_reservations(o) PROVE Ledger!LedgerNext
  BY <1>6, <1>d, ReleaseWithdraws DEF release_reservations, Ledger!LedgerNext
<1>7. ASSUME NEW o \in Orders, fulfill_reservations(o) PROVE Ledger!LedgerNext
  BY <1>7, <1>o, FulfillHandsOver DEF Ledger!LedgerNext
<1>8. ASSUME expire_stale_reservations PROVE Ledger!LedgerNext
  BY <1>8, <1>d, ReleaseWithdraws DEF expire_stale_reservations, Ledger!LedgerNext
<1> QED BY <1>1, <1>2, <1>3, <1>4, <1>5, <1>6, <1>7, <1>8 DEF Service

\* Staff recount the stock; the rest of the environment is no concern of the ledger.
LEMMA EnvironmentRefines ==
    ASSUME IInv, Staff \/ Time
    PROVE  [Ledger!LedgerNext]_(Ledger!ledgerVars)
<1>1. ASSUME NEW p \in Tracked, NEW n \in StockEntries, EnterStock(p, n)
      PROVE  Ledger!LedgerNext
  <2>1. p \in Products /\ n \in Nat
    BY ProductsAssumption, BoundsAssumption
  <2>2. Promised' = Promised
    BY <1>1, PromisedKept DEF EnterStock
  <2>3. stock_quantity'[p] = n /\ stock_quantity' = [stock_quantity EXCEPT ![p] = n]
    BY <1>1, <2>1 DEF EnterStock, IInv, Counted, TypeOK
  <2> QED BY <2>1, <2>2, <2>3 DEF Ledger!LedgerNext, Ledger!Recount, Promised
<1>2. ASSUME UNCHANGED <<stock_quantity, reservation>> PROVE UNCHANGED Ledger!ledgerVars
  BY <1>2, KeepsLedger
<1>3. ASSUME NEW o \in Owners, NEW p \in Products, HoldTimesOut(o, p)
      PROVE  UNCHANGED Ledger!ledgerVars
  <2>1. \A x \in Owners, q \in Products : reservation[x][q] \in Rows
    BY DEF IInv, Counted, TypeOK
  <2>2. ASSUME NEW x \in Owners, NEW q \in Products
        PROVE  /\ reservation'[x][q].status = reservation[x][q].status
               /\ reservation'[x][q].quantity = reservation[x][q].quantity
    BY <1>3, <2>1 DEF HoldTimesOut, IInv, Counted, TypeOK, Rows
  <2> QED BY <1>3, <2>2, KeepsLedger DEF HoldTimesOut
<1> QED BY <1>1, <1>2, <1>3 DEF Staff, Time, EnterCapacity, PutOnSale, Midnight

\* Nothing is promised at first.
LEMMA InitRefines == Init => Ledger!LedgerInit
<1> SUFFICES ASSUME Init PROVE Ledger!LedgerInit
  OBVIOUS
<1>1. \A p \in Products : Promised[p] = {}
  BY DEF Init, Promised, Units, LiveRows, DeadRow, Live
<1>2. Promised = [p \in Products |-> {}]
  BY <1>1 DEF Promised
<1> QED BY <1>2, StockAssumption DEF Ledger!LedgerInit, Init, Promised

-----------------------------------------------------------------------------
(* Theorems. *)

\* The stock service (inventory/services.py), which decides by the cached
\* reserved_quantity, implements the ledger, which counts the live reservations.
THEOREM LedgerImplemented == Spec => ImplementsLedger
<1>1. IInv /\ IInv' /\ [Next]_vars => [Ledger!LedgerNext]_(Ledger!ledgerVars)
  <2> SUFFICES ASSUME IInv, IInv', [Next]_vars
               PROVE  [Ledger!LedgerNext]_(Ledger!ledgerVars)
    OBVIOUS
  <2>1. CASE Service
    BY <2>1, ServiceRefines
  <2>2. CASE Staff \/ Time
    BY <2>2, EnvironmentRefines
  <2>3. CASE UNCHANGED vars
    BY <2>3, KeepsLedger DEF vars
  <2> QED BY <2>1, <2>2, <2>3 DEF Next
<1> QED BY <1>1, InitRefines, InvariantHolds, PTL DEF Spec, ImplementsLedger, Ledger!LedgerSpec

-----------------------------------------------------------------------------
(* The forms of the admin site.  Staff may write back counters that are out *)
(* of date, so the counting invariants fail here; what is left is that the  *)
(* rows stay sound, and that is all the argument about gaps needs.          *)

FormInv == CartHoldsUnpaid /\ FormTypeOK

\* The tables start empty and no form is open.
LEMMA FormInitInvariant == FormInit => FormInv
<1>1. FormInit => IInv /\ form \in Forms /\ saves \in 0 .. MaxSaves
  BY InitInvariant, SavesAssumption DEF FormInit, Forms
<1> QED
  BY <1>1 DEF IInv, Counted, FormInv, FormTypeOK

\* A stock form that is open carries a counter of its product, a capacity form
\* those of its product and day.
LEMMA FormsOpen ==
    ASSUME form \in Forms
    PROVE  /\ form.kind = "stock" => form.reserved_quantity \in Nat
           /\ form.kind = "capacity" => form.reserved_units \in Nat /\ form.fulfilled_units \in Nat
  BY DEF Forms, NoForm

\* The forms keep the rows sound: what they write back was read from a row.
LEMMA FormStepInvariant == FormInv /\ [FormNext]_formVars => FormInv'
<1> SUFFICES ASSUME FormInv, [FormNext]_formVars PROVE FormInv'
  OBVIOUS
<1> USE DEF FormInv, FormTypeOK
<1>p. Tracked \subseteq Products
  BY ProductsAssumption
<1>s. saves < MaxSaves => saves + 1 \in 0 .. MaxSaves
  BY SavesAssumption
<1>1. ASSUME NEW p \in Tracked, OpenStockForm(p)
      PROVE  FormInv'
  <2>1. UNCHANGED <<stock_quantity, reserved_quantity, rows, max_units, reserved_units,
                    fulfilled_units, reservation, availability_status, today, saves>>
    BY <1>1 DEF OpenStockForm, vars, capacityVars
  <2>2. form' \in Forms
    BY <1>1, <1>p DEF OpenStockForm, Forms, TypeOK
  <2> QED
    BY <2>1, <2>2 DEF TypeOK, CartHoldsUnpaid
<1>2. ASSUME NEW n \in StockEntries, SaveStockForm(n)
      PROVE  FormInv'
  <2>1. n \in Nat /\ form.reserved_quantity \in Nat
    BY <1>2, BoundsAssumption, FormsOpen DEF SaveStockForm
  <2>2. TypeOK'
    BY <1>2, <2>1 DEF SaveStockForm, TypeOK, capacityVars
  <2>3. form' \in Forms /\ saves' \in 0 .. MaxSaves
    BY <1>2, <1>s DEF SaveStockForm, Saved, Forms
  <2> QED
    BY <1>2, <2>2, <2>3 DEF SaveStockForm, CartHoldsUnpaid
<1>3. ASSUME NEW p \in Products, NEW d \in Days, OpenCapacityForm(p, d)
      PROVE  FormInv'
  <2>1. UNCHANGED <<stock_quantity, reserved_quantity, rows, max_units, reserved_units,
                    fulfilled_units, reservation, availability_status, today, saves>>
    BY <1>3 DEF OpenCapacityForm, vars, capacityVars
  <2>2. reserved_units[p][d] \in Nat /\ fulfilled_units[p][d] \in Nat
    BY DEF TypeOK
  <2>3. form' \in Forms
    BY <1>3, <2>2 DEF OpenCapacityForm, Forms
  <2> QED
    BY <2>1, <2>3 DEF TypeOK, CartHoldsUnpaid
<1>4. ASSUME NEW n \in CapacityEntries, SaveCapacityForm(n)
      PROVE  FormInv'
  <2>1. n \in Nat /\ form.reserved_units \in Nat /\ form.fulfilled_units \in Nat
    BY <1>4, BoundsAssumption, FormsOpen DEF SaveCapacityForm
  <2>2. ASSUME NEW f \in [Products -> [Days -> Nat]], NEW q, NEW d, NEW k \in Nat
        PROVE  [f EXCEPT ![q][d] = k] \in [Products -> [Days -> Nat]]
    OBVIOUS
  <2>3. PICK i \in Nat, k \in Nat :
           /\ reserved_units' = [reserved_units EXCEPT ![form.product][form.day] = i]
           /\ fulfilled_units' = [fulfilled_units EXCEPT ![form.product][form.day] = k]
    BY <1>4, <2>1, EntriesAssumption DEF SaveCapacityForm
  <2>5. /\ max_units' \in [Products -> [Days -> Nat]]
        /\ reserved_units' \in [Products -> [Days -> Nat]]
        /\ fulfilled_units' \in [Products -> [Days -> Nat]]
    BY <1>4, <2>1, <2>2, <2>3 DEF SaveCapacityForm, TypeOK
  <2>4. form' \in Forms /\ saves' \in 0 .. MaxSaves
    BY <1>4, <1>s DEF SaveCapacityForm, Saved, Forms
  <2> QED
    BY <1>4, <2>4, <2>5 DEF SaveCapacityForm, TypeOK, CartHoldsUnpaid
<1>5. ASSUME NEW p \in Products, NEW d \in Days, DeleteCapacity(p, d)
      PROVE  FormInv'
  <2>1. ASSUME NEW f \in [Products -> [Days -> Nat]]
        PROVE  [f EXCEPT ![p][d] = 0] \in [Products -> [Days -> Nat]]
    OBVIOUS
  <2>2. /\ max_units' \in [Products -> [Days -> Nat]]
        /\ reserved_units' \in [Products -> [Days -> Nat]]
        /\ fulfilled_units' \in [Products -> [Days -> Nat]]
    BY <1>5, <2>1 DEF DeleteCapacity, TypeOK
  <2>3. form' \in Forms /\ saves' \in 0 .. MaxSaves
    BY <1>5, <1>s DEF DeleteCapacity, Saved, Forms
  <2> QED
    BY <1>5, <2>2, <2>3 DEF DeleteCapacity, TypeOK, CartHoldsUnpaid
<1>6. ASSUME NEW o \in Owners, NEW p \in Products, NEW r \in Rows, WriteReservation(o, p, r),
             r.status = "confirmed" => o \in Orders
      PROVE  FormInv'
  <2>1. form' \in Forms /\ saves' \in 0 .. MaxSaves
    BY <1>6, <1>s DEF WriteReservation, Saved, Forms
  <2>2. TypeOK'
    BY <1>6 DEF WriteReservation, TypeOK, capacityVars
  <2>3. CartHoldsUnpaid'
    BY <1>6, OwnersAssumption DEF WriteReservation, CartHoldsUnpaid, TypeOK
  <2> QED
    BY <2>1, <2>2, <2>3
<1>7. ASSUME NEW o \in Owners, NEW p \in Products, NEW r \in RowEntries, EditReservation(o, p, r)
      PROVE  FormInv'
  BY <1>6, <1>7, EntriesAssumption DEF EditReservation
<1>8. ASSUME NEW o \in Owners, NEW p \in Products, DeleteReservation(o, p)
      PROVE  FormInv'
  <2>1. DeadRow("released") \in Rows /\ DeadRow("released").status # "confirmed"
    BY DeadRowTyped DEF DeadRow, Dead
  <2> DEFINE r == DeadRow("released")
  <2>2. r \in Rows /\ r.status # "confirmed" /\ WriteReservation(o, p, r)
    BY <1>8, <2>1 DEF DeleteReservation
  <2> HIDE DEF r
  <2> QED
    BY <1>6, <2>2
<1>9. CASE CloseForm
  <2>1. UNCHANGED <<stock_quantity, reserved_quantity, rows, max_units, reserved_units,
                    fulfilled_units, reservation, availability_status, today, saves>>
    BY <1>9 DEF CloseForm, vars, capacityVars
  <2>2. form' \in Forms
    BY <1>9 DEF CloseForm, Forms
  <2> QED
    BY <2>1, <2>2 DEF TypeOK, CartHoldsUnpaid
<1>10. CASE (Service \/ Time) /\ UNCHANGED <<form, saves>>
  BY <1>10, ServiceKeepsGaps, EnvironmentKeepsGaps DEF Sound
<1>11. CASE UNCHANGED formVars
  <2>1. UNCHANGED <<stock_quantity, reserved_quantity, rows, max_units, reserved_units,
                    fulfilled_units, reservation, availability_status, today, form, saves>>
    BY <1>11 DEF formVars, vars, capacityVars
  <2> QED
    BY <2>1 DEF TypeOK, CartHoldsUnpaid
<1> QED
  BY <1>1, <1>2, <1>3, <1>4, <1>5, <1>7, <1>8, <1>9, <1>10, <1>11 DEF FormNext, StaffForm

\* No column leaves its type either when staff write back counters that the
\* service has changed since their form read them.
THEOREM FormTypeCorrect == FormSpec => []FormTypeOK
<1>1. FormInv => FormTypeOK
  BY DEF FormInv
<1> QED
  BY <1>1, FormInitInvariant, FormStepInvariant, PTL DEF FormSpec

\* Unless a form is saved, a step is one of the service or of time, or a form is merely
\* opened or closed.
LEMMA FormSteps ==
    ASSUME FormInv, FormNext, saves' = saves
    PROVE  Service \/ Time \/ UNCHANGED vars
<1>1. ~Saved
  BY DEF Saved, FormInv, FormTypeOK
<1> QED
  BY <1>1 DEF FormNext, StaffForm, OpenStockForm, SaveStockForm, OpenCapacityForm,
              SaveCapacityForm, DeleteCapacity, EditReservation, DeleteReservation,
              WriteReservation, CloseForm

\* Whatever staff have written back, no transaction of the service takes a
\* counter further from its live rows.
THEOREM GapsStay == FormSpec => GapsNeverWiden
<1>1. FormInv /\ [FormNext]_formVars =>
         [saves' = saves =>
             /\ \A p \in Tracked : NoFurther(Gap(p)', Gap(p))
             /\ \A p \in Products, d \in Days : NoFurther(GapOn(p, d)', GapOn(p, d))]_formVars
  <2> SUFFICES ASSUME FormInv, FormNext, saves' = saves
               PROVE  /\ \A p \in Tracked : NoFurther(Gap(p)', Gap(p))
                      /\ \A p \in Products, d \in Days : NoFurther(GapOn(p, d)', GapOn(p, d))
    OBVIOUS
  <2>1. CASE Service \/ Time
    <3>1. GapsKept
      BY <2>1, ServiceKeepsGaps, EnvironmentKeepsGaps DEF FormInv, FormTypeOK, Sound
    <3> QED
      BY <3>1 DEF GapsKept
  <2>2. CASE UNCHANGED vars
    <3>1. GapsKept
      BY <2>2, SameUnits DEF vars, capacityVars, FormInv, FormTypeOK
    <3> QED
      BY <3>1 DEF GapsKept
  <2> QED
    BY <2>1, <2>2, FormSteps
<1> QED
  BY <1>1, FormInitInvariant, FormStepInvariant, PTL DEF FormSpec, GapsNeverWiden

=============================================================================
