---------------------------- MODULE DemandProofs ----------------------------
(***************************************************************************)
(* What the nightly tasks record, for any number of products, orders, days *)
(* and workers, however the tasks are delayed, ordered, repeated and cut   *)
(* off by crashes and exceptions: the pairs bought together are whole, and *)
(* the demand that the bakers are told was sold a week before.             *)
(***************************************************************************)
EXTENDS Demand, SumsProofs

-----------------------------------------------------------------------------
(* The invariant. *)

Statistics == "daily_product_stats"
Affinity == "user_behavior_aggregation"

Made == {o \in Orders : made[o] # NotMade}

\* The units of a product in the orders of a day, paid or not.
Ordered(d) == {o \in Orders : made[o] # NotMade /\ made[o].day = d}
Units(p) == [o \in Orders |-> Basket[o][p]]
UnitsOrdered(p, d) == Total(Units(p), Ordered(d))

\* The units that were recorded a week before a day.
Recorded(p, d) == IF d < Week THEN 0 ELSE stats[p][d - Week]

Flip(pair) == <<pair[2], pair[1]>>

Rows == Products \cup {DeleteAll} \cup Pairs
Runs == [date : Days, todo : SUBSET Rows, seen : [Products -> Nat] \cup [Pairs -> Nat] \cup {<< >>}]

\* A run that writes pairs has counted them.
SeenOK(run) == run # Idle => run.seen \in [Pairs -> Nat]

\* Orders are made one at a time.
ShapeOK ==
    /\ IsFiniteSet(Made) /\ runs \in [Tasks -> Runs \cup {Idle}]
    /\ \A t \in Tasks : t[1] = Affinity => SeenOK(runs[t])

\* A task that runs is still owed; its date is the day on which it started.
RunsOK == \A t \in Tasks : runs[t] # Idle =>
    t \in owed /\ runs[t].date <= clock.day /\ runs[t].todo # {}

\* No more units are counted, and then recorded, than were ordered on the day.
CountOK(run) ==
    run # Idle =>
       /\ run.seen \in [Products -> Nat]
       /\ \A p \in Products : run.seen[p] <= UnitsOrdered(p, run.date)

StatsOK ==
    /\ \A n \in Days : CountOK(runs[<<Statistics, n>>])
    /\ \A p \in Products, d \in Days : stats[p][d] <= UnitsOrdered(p, d)

\* Once the old rows are deleted, a pair has its new row or is still to get it; the
\* two directions of a pair have the same count.
PairRunOK(run) ==
    /\ run.seen \in [Pairs -> Nat]
    /\ \A pair \in Pairs :
          /\ run.seen[pair] = run.seen[Flip(pair)]
          /\ DeleteAll \in run.todo => (pair \in run.todo <=> run.seen[pair] > 0)
          /\ DeleteAll \notin run.todo => pair \in run.todo \/ affinity[pair] = run.seen[pair]

\* A run that nothing has marred is alone.
Refreshes(n) == runs[<<Affinity, n>>] # Idle

PairsOK == ~marred =>
    /\ \A m, n \in Days : Refreshes(m) /\ Refreshes(n) => m = n
    /\ \A n \in Days : Refreshes(n) => PairRunOK(runs[<<Affinity, n>>])

\* A forecast of the week's window is the units of the week before, unless they were
\* written too late for it; neither forecasts nor advice are written ahead of the day.
ForecastsOK == \A p \in Products, d \in Days :
    /\ d - Week \notin overdue => forecasts[p][d][Week] \in {-1, 100 * Recorded(p, d)}
    /\ d > clock.day => forecasts[p][d][Week] = -1 /\ bake[p][d] = NoAdvice

BakeOK == \A p \in Products, d \in Days :
    bake[p][d] # NoAdvice /\ d - Week \notin overdue =>
       bake[p][d].forecast = IF Recorded(p, d) = 0 THEN DefaultDemand ELSE Recorded(p, d)

IInv == TypeOK /\ ShapeOK /\ RunsOK /\ StatsOK /\ PairsWhole /\ PairsOK /\ ForecastsOK /\ BakeOK

-----------------------------------------------------------------------------
(* The statistics. *)

\* Finitely many orders were made, so the units in any of those of a day can be added.
LEMMA OrderedFinite ==
    ASSUME TypeOK, ShapeOK, NEW p \in Products, NEW d, NEW S \in SUBSET Ordered(d)
    PROVE  /\ IsFiniteSet(S) /\ S \in SUBSET Orders /\ \A o \in S : Units(p)[o] \in Nat
           /\ Total(Units(p), S) \in Nat
<1>1. IsFiniteSet(S)
  BY FS_Subset DEF ShapeOK, Made, Ordered
<1>2. S \in SUBSET Orders /\ \A o \in S : Units(p)[o] \in Nat
  BY BasketAssumption DEF Ordered, Units, Baskets
<1> QED
  BY <1>1, <1>2, TotalType

\* The paid orders of a day are some of the orders of the day.
LEMMA SoldWasOrdered ==
    ASSUME TypeOK, ShapeOK, NEW p \in Products, NEW d
    PROVE  UnitsSold(p, d) \in Nat /\ UnitsSold(p, d) <= UnitsOrdered(p, d)
<1> DEFINE S == {o \in Paid : made[o].day = d}
<1>1. S \in SUBSET Ordered(d)
  BY DEF Paid, Ordered, NotMade
<1>2. UnitsSold(p, d) = Total(Units(p), S)
  BY DEF UnitsSold, Units
<1>3. Total(Units(p), S) \in Nat
  BY <1>1, OrderedFinite
<1>4. IsFiniteSet(Ordered(d)) /\ \A o \in Ordered(d) : Units(p)[o] \in Nat
  BY OrderedFinite
<1>5. Total(Units(p), S) <= Total(Units(p), Ordered(d))
  BY <1>1, <1>4, TotalSubset
<1> QED
  BY <1>2, <1>3, <1>5 DEF UnitsOrdered

\* What was ordered on a day is a natural number,
LEMMA UnitsOrderedNat ==
    ASSUME TypeOK, ShapeOK, NEW p \in Products, NEW d
    PROVE  UnitsOrdered(p, d) \in Nat
  BY OrderedFinite DEF UnitsOrdered

\* ... for every product and day, as a fact that can be primed.
LEMMA AllOrderedNat ==
    TypeOK /\ ShapeOK => \A p \in Products, d \in Days : UnitsOrdered(p, d) \in Nat
  BY UnitsOrderedNat

\* More orders of a day only add to its units.
LEMMA UnitsOrderedGrow ==
    ASSUME TypeOK', ShapeOK', \A d : Ordered(d) \subseteq Ordered(d)'
    PROVE  \A p \in Products, d \in Days : UnitsOrdered(p, d) <= UnitsOrdered(p, d)'
<1> TAKE p \in Products, d \in Days
<1> DEFINE T == {o \in Orders : made'[o] # NotMade /\ made'[o].day = d}
<1>1. IsFiniteSet(T)
  BY FS_Subset DEF ShapeOK, Made
<1>2. \A o \in T : Units(p)[o] \in Nat
  BY BasketAssumption DEF Units, Baskets
<1>3. Ordered(d) \in SUBSET T
  BY DEF Ordered
<1>4. Total(Units(p), Ordered(d)) <= Total(Units(p), T)
  BY <1>1, <1>2, <1>3, TotalSubset
<1>5. UnitsOrdered(p, d)' = Total(Units(p), T)
  BY DEF UnitsOrdered, Ordered, Units
<1> QED
  BY <1>4, <1>5 DEF UnitsOrdered

-----------------------------------------------------------------------------
(* The forecast. *)

\* The days of a window with sales.
Sales(p, d, w) == {e \in Days : d - w <= e /\ e < d /\ stats[p][e] > 0}

\* Those of them that have the weekday of the day.
SameDay(p, d, w) == {e \in Sales(p, d, w) : (d - e) % Week = 0}

\* forecast_product with its sums and its window named.
LEMMA ForecastProduct ==
    ASSUME NEW p, NEW d, NEW w
    PROVE  forecast_product(p, d, w) =
              IF Sales(p, d, w) = {} THEN -1
              ELSE (100 * Total(stats[p], Sales(p, d, w))
                      * (Total(stats[p], SameDay(p, d, w)) * Cardinality(Sales(p, d, w))))
                   \div (Cardinality(Sales(p, d, w))
                          * ((IF SameDay(p, d, w) = {} THEN 1 ELSE Cardinality(SameDay(p, d, w)))
                              * Total(stats[p], Sales(p, d, w))))
  BY DEF forecast_product, Sales, SameDay

\* A nonempty finite set has a positive size.
LEMMA SizePositive ==
    ASSUME NEW S, IsFiniteSet(S), S # {}
    PROVE  Cardinality(S) \in Nat \ {0}
  BY FS_CardinalityType, FS_EmptySet

\* The days with sales in a window, and those of the same weekday, are finitely many.
LEMMA SalesNumbers ==
    ASSUME TypeOK, NEW p \in Products, NEW d, NEW w
    PROVE  /\ IsFiniteSet(Sales(p, d, w)) /\ IsFiniteSet(SameDay(p, d, w))
           /\ \A e \in Sales(p, d, w) : stats[p][e] \in Nat /\ stats[p][e] > 0
           /\ \A e \in SameDay(p, d, w) : stats[p][e] \in Nat
<1>1. IsFiniteSet(Days)
  BY BoundsAssumption, FS_Interval DEF Days
<1>2. \A e \in Days : stats[p][e] \in Nat
  BY DEF TypeOK, DailyStats
<1>3. Sales(p, d, w) \subseteq Days /\ SameDay(p, d, w) \subseteq Days
  BY DEF Sales, SameDay
<1>4. IsFiniteSet(Sales(p, d, w)) /\ IsFiniteSet(SameDay(p, d, w))
  BY <1>1, <1>3, FS_Subset
<1> QED
  BY <1>2, <1>4 DEF Sales, SameDay

\* A forecast is a natural number, or -1 for none.
LEMMA ForecastType ==
    ASSUME TypeOK, NEW p \in Products, NEW d, NEW w
    PROVE  forecast_product(p, d, w) \in Nat \cup {-1}
<1> DEFINE rows == Sales(p, d, w)
           same == SameDay(p, d, w)
           n == Cardinality(rows)
           total == Total(stats[p], rows)
           units == Total(stats[p], same)
           days == IF same = {} THEN 1 ELSE Cardinality(same)
<1> SUFFICES ASSUME rows # {} PROVE forecast_product(p, d, w) \in Nat
  BY ForecastProduct
<1>1. n \in Nat \ {0}
  BY SalesNumbers, SizePositive
<1>2. total \in Nat \ {0}
  BY SalesNumbers, TotalPositive
<1>3. units \in Nat
  BY SalesNumbers, TotalType
<1>4. days \in Nat \ {0}
  BY SalesNumbers, SizePositive
<1>5. forecast_product(p, d, w) = (100 * total * (units * n)) \div (n * (days * total))
  BY ForecastProduct
<1> HIDE DEF rows, same, n, total, units, days
<1>6. 100 * total \in Nat
  BY <1>2
<1>7. units * n \in Nat
  BY <1>1, <1>3, TimesNat
<1>8. 100 * total * (units * n) \in Nat
  BY <1>6, <1>7, TimesNat
<1>9. n * (days * total) \in Nat \ {0}
  BY <1>1, <1>2, <1>4, TimesPositive
<1> QED
  BY <1>5, <1>8, <1>9, DivNat

\* In a window of a week only the first day has the weekday of the day.
LEMMA WeekdayOfWeek ==
    ASSUME TypeOK, NEW p \in Products, NEW d \in Days
    PROVE  SameDay(p, d, Week) = IF Recorded(p, d) > 0 THEN {d - Week} ELSE {}
<1>1. Week \in Nat \ {0} /\ LastDay \in Nat /\ d \in Nat
  BY WeekAssumption, BoundsAssumption DEF Days
<1>2. ASSUME NEW e \in Days, d - Week <= e, e < d
      PROVE  (d - e) % Week = 0 <=> e = d - Week
  <2>1. e \in Nat /\ d - e \in Nat /\ d - e > 0 /\ d - e <= Week
    BY <1>1, <1>2 DEF Days
  <2>2. CASE d - e = Week
    BY <1>1, <2>1, <2>2, ModSelf
  <2>3. CASE d - e < Week
    <3>1. (d - e) % Week = d - e
      BY <1>1, <2>1, <2>3, ModSmall
    <3> QED
      BY <1>1, <2>1, <2>3, <3>1
  <2> QED
    BY <1>1, <2>1, <2>2, <2>3
<1>3. \A e : e \in SameDay(p, d, Week) <=>
               e \in Days /\ e = d - Week /\ d - Week <= e /\ e < d /\ stats[p][e] > 0
  BY <1>2 DEF SameDay, Sales
<1>4. \A e : e \in SameDay(p, d, Week) <=> e = d - Week /\ d >= Week /\ stats[p][e] > 0
  BY <1>1, <1>3 DEF Days
<1> QED
  BY <1>1, <1>4 DEF Recorded

\* So the forecast of a week is what was recorded the week before, in hundredths.
LEMMA ForecastOfWeek ==
    ASSUME TypeOK, NEW p \in Products, NEW d \in Days
    PROVE  /\ forecast_product(p, d, Week) \in {-1, 100 * Recorded(p, d)}
           /\ forecast_product(p, d, Week) = -1 => Recorded(p, d) = 0
<1> DEFINE rows == Sales(p, d, Week)
           same == SameDay(p, d, Week)
           n == Cardinality(rows)
           total == Total(stats[p], rows)
           units == Total(stats[p], same)
           days == IF same = {} THEN 1 ELSE Cardinality(same)
<1>1. Recorded(p, d) \in Nat
  BY WeekAssumption, BoundsAssumption DEF Recorded, TypeOK, DailyStats, Days
<1>2. same = IF Recorded(p, d) > 0 THEN {d - Week} ELSE {}
  BY WeekdayOfWeek
<1>3. days = 1
  BY <1>2, FS_Singleton
<1>4. units = Recorded(p, d)
  <2>1. CASE Recorded(p, d) > 0
    <3>1. stats[p][d - Week] = Recorded(p, d)
      BY <2>1 DEF Recorded
    <3>2. Total(stats[p], {d - Week}) = stats[p][d - Week]
      BY <1>1, <3>1, TotalSingle
    <3> QED
      BY <1>2, <2>1, <3>1, <3>2
  <2>2. CASE ~(Recorded(p, d) > 0)
    <3>1. Recorded(p, d) = 0 /\ same = {}
      BY <1>1, <1>2, <2>2
    <3>2. Total(stats[p], same) = 0
      BY <3>1, SalesNumbers, TotalPick
    <3> QED
      BY <3>1, <3>2
  <2> QED
    BY <2>1, <2>2
<1>5. CASE rows = {}
  <2>1. same = {}
    BY <1>5 DEF SameDay
  <2>2. Recorded(p, d) = 0
    BY <1>1, <1>2, <2>1
  <2>3. forecast_product(p, d, Week) = -1
    BY <1>5, ForecastProduct
  <2> QED
    BY <2>2, <2>3
<1>6. CASE rows # {}
  <2>1. n \in Nat \ {0}
    BY <1>6, SalesNumbers, SizePositive
  <2>2. total \in Nat \ {0}
    BY <1>6, SalesNumbers, TotalPositive
  <2>3. forecast_product(p, d, Week) = (100 * total * (units * n)) \div (n * (days * total))
    BY <1>6, ForecastProduct
  <2> HIDE DEF rows, same, n, total, units, days
  <2>4. forecast_product(p, d, Week) = 100 * units
    BY <1>1, <1>3, <1>4, <2>1, <2>2, <2>3, Cancel
  <2> QED
    BY <1>1, <1>4, <2>4
<1> QED
  BY <1>5, <1>6

\* The recommendation takes the forecast for the demand, if there is one.
LEMMA Recommendation ==
    ASSUME NEW row \in Nat \cup {-1}, NEW stock \in Stocks, NEW capacity \in Capacities
    PROVE  /\ recommend_for_product(row, stock, capacity) \in BakeRecommendations
           /\ recommend_for_product(row, stock, capacity).forecast =
                 IF row \div 100 <= 0 THEN DefaultDemand ELSE row \div 100
<1> DEFINE predicted == IF row \div 100 <= 0 THEN DefaultDemand ELSE row \div 100
           safety == (predicted * 15) \div 100 + 1
           wanted == Greatest(0, predicted + safety - stock)
           suggested == IF capacity = NoCapacity THEN wanted ELSE Least(wanted, capacity)
           status == IF stock <= LowStock THEN "low_stock"
                     ELSE IF 2 * stock > 3 * predicted THEN "overstock_risk"
                     ELSE "ok"
<1>1. predicted \in Nat
  BY WeekAssumption
<1>2. safety \in Int
  BY <1>1
<1>3. stock \in Nat /\ (capacity # NoCapacity => capacity \in Nat)
  BY StockAssumption
<1>4. wanted \in Nat
  BY <1>1, <1>2, <1>3 DEF Greatest
<1>5. suggested \in Nat
  BY <1>3, <1>4 DEF Least
<1>6. status \in {"ok", "low_stock", "overstock_risk"}
  OBVIOUS
<1>7. recommend_for_product(row, stock, capacity) =
         [forecast |-> predicted, suggested |-> suggested, status |-> status]
  BY DEF recommend_for_product
<1> HIDE DEF predicted, suggested, status
<1>8. /\ recommend_for_product(row, stock, capacity) \in BakeRecommendations
      /\ recommend_for_product(row, stock, capacity).forecast = predicted
  BY <1>1, <1>5, <1>6, <1>7 DEF BakeRecommendations
<1> QED
  BY <1>8 DEF predicted

-----------------------------------------------------------------------------
(* What a step leaves as it is. *)

\* The names of the four tasks.
LEMMA TaskNames ==
    /\ Names = {Statistics, Affinity, "demand_forecast", "inventory_optimization"}
    /\ \A i \in 1 .. 4 : Schedule[i] \in Names
<1>1. \A i \in 1 .. 4 : i = 1 \/ i = 2 \/ i = 3 \/ i = 4
  OBVIOUS
<1>2. \A x : (\E i \in 1 .. 4 : x = Schedule[i]) <=>
               x = Schedule[1] \/ x = Schedule[2] \/ x = Schedule[3] \/ x = Schedule[4]
  BY <1>1
<1> QED
  BY <1>2 DEF Names, Schedule, Statistics, Affinity

\* The tasks of a day.
LEMMA TaskOfDay ==
    ASSUME NEW n \in Days
    PROVE  /\ <<Statistics, n>> \in Tasks /\ <<Affinity, n>> \in Tasks
           /\ <<"demand_forecast", n>> \in Tasks /\ <<"inventory_optimization", n>> \in Tasks
  BY TaskNames DEF Tasks

\* The other direction of a pair is a pair, and differs from the row that deletes all.
LEMMA FlipIn ==
    ASSUME NEW pair \in Pairs
    PROVE  Flip(pair) \in Pairs /\ Flip(Flip(pair)) = pair /\ pair # DeleteAll
  BY DEF Pairs, Flip, DeleteAll

\* What was recorded a week before is a natural number.
LEMMA RecordedNat ==
    ASSUME TypeOK, NEW p \in Products, NEW d \in Days
    PROVE  Recorded(p, d) \in Nat
  BY WeekAssumption, BoundsAssumption DEF Recorded, TypeOK, DailyStats, Days

\* A run that goes on counts what it has counted before, for the same day.
KeepsSeen(t) == runs'[t] # Idle =>
    runs[t] # Idle /\ runs'[t].seen = runs[t].seen /\ runs'[t].date = runs[t].date

\* A step that writes no statistics and makes no order keeps what is said of them.
LEMMA StatsKept ==
    ASSUME IInv, UNCHANGED <<made, stats>>, \A n \in Days : KeepsSeen(<<Statistics, n>>)
    PROVE  StatsOK'
<1>1. \A p, d : UnitsOrdered(p, d)' = UnitsOrdered(p, d)
  BY DEF UnitsOrdered, Ordered, Units
<1>2. \A p \in Products, d \in Days : stats'[p][d] <= UnitsOrdered(p, d)'
  BY <1>1 DEF IInv, StatsOK
<1>3. ASSUME NEW n \in Days PROVE CountOK(runs[<<Statistics, n>>])'
  <2> DEFINE old == runs[<<Statistics, n>>]
             new == runs'[<<Statistics, n>>]
  <2> SUFFICES ASSUME new # Idle
               PROVE  /\ new.seen \in [Products -> Nat]
                      /\ \A p \in Products : new.seen[p] <= UnitsOrdered(p, old.date)'
    BY DEF CountOK
  <2>1. old # Idle /\ new.seen = old.seen /\ new.date = old.date
    BY DEF KeepsSeen
  <2>2. /\ old.seen \in [Products -> Nat]
        /\ \A p \in Products : old.seen[p] <= UnitsOrdered(p, old.date)
    BY <2>1 DEF IInv, StatsOK, CountOK
  <2>3. \A p : UnitsOrdered(p, old.date)' = UnitsOrdered(p, old.date)
    BY <2>1 DEF UnitsOrdered, Ordered, Units
  <2> QED
    BY <2>1, <2>2, <2>3
<1> QED
  BY <1>2, <1>3 DEF StatsOK

\* A step that leaves forecasts and recommendations alone keeps what is said of them.
LEMMA TablesKept ==
    ASSUME IInv, UNCHANGED <<clock, stats, forecasts, bake, overdue>>
    PROVE  ForecastsOK' /\ BakeOK'
<1>1. \A p, d : Recorded(p, d)' = Recorded(p, d)
  BY DEF Recorded
<1>2. ForecastsOK /\ BakeOK
  BY DEF IInv
<1>3. ForecastsOK'
  BY <1>1, <1>2 DEF ForecastsOK
<1>4. BakeOK'
  BY <1>1, <1>2 DEF BakeOK
<1> QED
  BY <1>3, <1>4

\* A step keeps the pairs whole that writes none of them and at most cuts their tasks
\* off, or that notes that they are marred.
LEMMA PairsKept ==
    ASSUME IInv,
           \/ marred'
           \/ /\ UNCHANGED <<affinity, marred>>
              /\ \A n \in Days : \/ runs'[<<Affinity, n>>] = runs[<<Affinity, n>>]
                                 \/ runs'[<<Affinity, n>>] = Idle
              /\ \A t \in owed : t[1] = Affinity => t \in owed'
    PROVE  PairsWhole' /\ PairsOK'
<1> SUFFICES ASSUME ~marred' PROVE PairsWhole' /\ PairsOK'
  BY DEF PairsWhole, PairsOK
<1>1. PairsWhole'
  BY DEF IInv, PairsWhole, Affinity
<1>2. PairsOK'
  <2>1. /\ \A m, n \in Days : Refreshes(m) /\ Refreshes(n) => m = n
        /\ \A n \in Days : Refreshes(n) => PairRunOK(runs[<<Affinity, n>>])
    BY DEF IInv, PairsOK
  <2>2. \A n \in Days : runs'[<<Affinity, n>>] # Idle =>
                           runs'[<<Affinity, n>>] = runs[<<Affinity, n>>] /\ Refreshes(n)
    BY DEF Refreshes
  <2>3. \A n \in Days : runs'[<<Affinity, n>>] # Idle => PairRunOK(runs[<<Affinity, n>>])'
    BY <2>1, <2>2 DEF PairRunOK
  <2> QED
    BY <2>1, <2>2, <2>3 DEF PairsOK, Refreshes
<1> QED
  BY <1>1, <1>2

\* A step of a task: it begins, goes on, or is done.
Moves(t) ==
    /\ runs' = [runs EXCEPT ![t] = runs'[t]]
    /\ runs'[t] # Idle => /\ runs'[t] \in Runs /\ runs'[t].date <= clock.day
                          /\ runs'[t].todo # {} /\ t \in owed
                          /\ t[1] = Affinity => runs'[t].seen \in [Pairs -> Nat]
    /\ owed' = IF runs'[t] = Idle THEN owed \ {t} ELSE owed
    /\ UNCHANGED <<part, clock, made, failures, faults>>

\* What a step of one task does to the runs.
LEMMA TaskMoves ==
    ASSUME IInv, NEW t \in Tasks, Moves(t)
    PROVE  /\ ShapeOK' /\ RunsOK' /\ owed' \subseteq Tasks /\ DOMAIN runs' = Tasks
           /\ \A u \in Tasks \ {t} : runs'[u] = runs[u] /\ (u \notin owed' => u \notin owed)
<1>1. runs \in [Tasks -> Runs \cup {Idle}] /\ IsFiniteSet(Made) /\ owed \subseteq Tasks
  BY DEF IInv, ShapeOK, TypeOK
<1>2. runs'[t] \in Runs \cup {Idle}
  BY DEF Moves
<1>3. runs' \in [Tasks -> Runs \cup {Idle}]
  BY <1>1, <1>2 DEF Moves
<1>4. \A u \in Tasks \ {t} : runs'[u] = runs[u]
  BY <1>1 DEF Moves
<1>5. Made' = Made
  BY DEF Moves, Made
<1>6. RunsOK'
  <2> SUFFICES ASSUME NEW u \in Tasks, runs'[u] # Idle
               PROVE  u \in owed' /\ runs'[u].date <= clock'.day /\ runs'[u].todo # {}
    BY DEF RunsOK
  <2>1. CASE u = t
    BY <2>1 DEF Moves
  <2>2. CASE u # t
    BY <1>4, <2>2 DEF Moves, IInv, RunsOK
  <2> QED
    BY <2>1, <2>2
<1>7. owed' \subseteq Tasks /\ (\A u \in Tasks \ {t} : u \notin owed' => u \notin owed)
  BY <1>1 DEF Moves
<1>8. ShapeOK'
  <2> SUFFICES ASSUME NEW u \in Tasks, u[1] = Affinity PROVE SeenOK(runs[u])'
    BY <1>1, <1>3, <1>5 DEF ShapeOK
  <2>1. CASE u = t
    BY <2>1 DEF Moves, SeenOK
  <2>2. CASE u # t
    BY <1>4, <2>2 DEF IInv, ShapeOK, SeenOK
  <2> QED
    BY <2>1, <2>2
<1> QED
  BY <1>3, <1>4, <1>6, <1>7, <1>8

\* Starting a task is such a step,
LEMMA StartMoves ==
    ASSUME IInv, NEW t \in Tasks, NEW run \in Runs, run.date = clock.day, Start(t, run),
           t[1] = Affinity => run.seen \in [Pairs -> Nat]
    PROVE  Moves(t) /\ runs[t] = Idle /\ (runs'[t] # Idle => runs'[t] = run)
           /\ UNCHANGED <<stats, forecasts, affinity, bake, overdue>>
<1>1. runs \in [Tasks -> Runs \cup {Idle}]
  BY DEF IInv, ShapeOK
<1>2. runs'[t] = IF run.todo = {} THEN Idle ELSE run
  BY <1>1 DEF Start
<1>3. run.todo # {} => run # Idle
  BY DEF Idle
<1>4. runs' = [runs EXCEPT ![t] = runs'[t]]
  BY <1>2 DEF Start
<1>5. owed' = IF runs'[t] = Idle THEN owed \ {t} ELSE owed
  BY <1>2, <1>3 DEF Start
<1>6. run.date <= clock.day
  BY BoundsAssumption DEF Runs, Days
<1>7. UNCHANGED <<part, clock, made, failures, faults>>
  BY DEF Start
<1>8. t \in owed /\ runs[t] = Idle /\ UNCHANGED <<stats, forecasts, affinity, bake, overdue>>
  BY DEF Start
<1>9. runs'[t] # Idle => runs'[t] = run /\ run.todo # {} /\ (t[1] = Affinity => run.seen \in [Pairs -> Nat])
  BY <1>2
<1> QED
  BY <1>4, <1>5, <1>6, <1>7, <1>8, <1>9 DEF Moves

\* ... and so is writing one row.
LEMMA WroteMoves ==
    ASSUME IInv, NEW t \in Tasks, NEW row, Wrote(t, row)
    PROVE  /\ Moves(t) /\ runs[t] # Idle /\ runs[t] \in Runs /\ runs[t].date <= clock.day
           /\ t \in owed /\ runs[t].date \in Days
           /\ runs[t].todo # {} /\ row = NextRow(runs[t].todo) /\ KeepsSeen(t)
           /\ runs'[t] # Idle => runs'[t].todo = runs[t].todo \ {row}
           /\ runs'[t] = Idle => runs[t].todo \ {row} = {}
           /\ UNCHANGED marred
<1> DEFINE rest == runs[t].todo \ {row}
           next == [runs[t] EXCEPT !.todo = rest]
<1>1. runs \in [Tasks -> Runs \cup {Idle}]
  BY DEF IInv, ShapeOK
<1>2. runs[t] # Idle /\ runs[t] \in Runs /\ row = NextRow(runs[t].todo)
  BY <1>1 DEF Wrote
<1>3. /\ runs[t].date <= clock.day /\ t \in owed /\ runs[t].todo # {}
      /\ runs[t].date \in Days
  BY <1>2 DEF IInv, RunsOK, Runs
<1>4. next \in Runs /\ next.date = runs[t].date /\ next.todo = rest /\ next.seen = runs[t].seen
  BY <1>2 DEF Runs
<1>5. rest # {} => next # Idle
  BY <1>4 DEF Idle
<1>6. runs'[t] = IF rest = {} THEN Idle ELSE next
  BY <1>1 DEF Wrote
<1>7. owed' = IF rest = {} THEN owed \ {t} ELSE owed
  BY DEF Wrote
<1>8. UNCHANGED <<part, clock, made, failures, faults, marred>>
  BY DEF Wrote
<1>9. runs' = [runs EXCEPT ![t] = runs'[t]]
  BY <1>1, <1>6 DEF Wrote
<1> HIDE DEF next, rest
<1>10. owed' = IF runs'[t] = Idle THEN owed \ {t} ELSE owed
  BY <1>5, <1>6, <1>7
<1>11. runs'[t] # Idle => rest # {} /\ runs'[t] = next
  BY <1>6
<1>s. t[1] = Affinity => runs[t].seen \in [Pairs -> Nat]
  BY <1>2 DEF IInv, ShapeOK, SeenOK
<1>12. Moves(t)
  BY <1>s, <1>3, <1>4, <1>8, <1>9, <1>10, <1>11 DEF Moves
<1>13. KeepsSeen(t)
  BY <1>2, <1>4, <1>11 DEF KeepsSeen
<1>14. (runs'[t] # Idle => runs'[t].todo = rest) /\ (runs'[t] = Idle => rest = {})
  BY <1>4, <1>5, <1>6, <1>11
<1> QED
  BY <1>2, <1>3, <1>8, <1>12, <1>13, <1>14 DEF rest

-----------------------------------------------------------------------------
(* The initial states and the steps of the shop and the clock. *)

\* The invariant holds at first.
LEMMA DemandInit == Init => IInv
<1> SUFFICES ASSUME Init PROVE IInv
  OBVIOUS
<1>1. Week \in Windows /\ WeekAssumption /\ BoundsAssumption
  BY WeekAssumption, BoundsAssumption DEF Windows
<1>2. /\ clock = [day |-> 0, sent |-> 0] /\ made = [o \in Orders |-> NotMade]
      /\ stats = NoStats /\ forecasts = NoForecasts /\ affinity = NoCoPurchases
      /\ bake = [p \in Products |-> [d \in Days |-> NoAdvice]]
      /\ owed = {} /\ runs = [t \in Tasks |-> Idle]
      /\ part \in Parts /\ failures = [t \in Tasks |-> 0] /\ faults = 0 /\ marred = FALSE
      /\ overdue = {}
  BY DEF Init
<1>3. TypeOK
  <2>1. clock \in [day : Days, sent : 0 .. 4] /\ faults \in 0 .. MaxFaults
    BY <1>2, BoundsAssumption DEF Days
  <2>2. stats \in DailyStats /\ forecasts \in DemandForecasts /\ affinity \in CoPurchases
    BY <1>2 DEF NoStats, DailyStats, NoForecasts, DemandForecasts, NoCoPurchases, CoPurchases
  <2>3. /\ made \in [Orders -> {NotMade} \cup [day : Days, status : {"pending", "paid", "refunded"}]]
        /\ bake \in [Products -> [Days -> BakeRecommendations \cup {NoAdvice}]]
        /\ owed \subseteq Tasks /\ DOMAIN runs = Tasks /\ failures \in [Tasks -> Nat]
        /\ part \in Parts /\ marred \in BOOLEAN /\ overdue \subseteq Days
    BY <1>2
  <2> QED
    BY <2>1, <2>2, <2>3 DEF TypeOK
<1>4. ShapeOK
  <2>1. Made = {}
    BY <1>2 DEF Made
  <2>2. IsFiniteSet(Made)
    BY <2>1, FS_EmptySet
  <2> QED
    BY <1>2, <2>2 DEF ShapeOK, SeenOK
<1>5. RunsOK
  BY <1>2 DEF RunsOK
<1>6. StatsOK
  <2>1. \A n \in Days : runs[<<Statistics, n>>] = Idle
    BY <1>2, TaskOfDay
  <2>2. \A p \in Products, d \in Days : stats[p][d] = 0 /\ UnitsOrdered(p, d) \in Nat
    BY <1>2, <1>3, <1>4, UnitsOrderedNat DEF NoStats
  <2> QED
    BY <2>1, <2>2 DEF StatsOK, CountOK
<1>7. PairsWhole /\ PairsOK
  <2>1. \A pair \in Pairs : <<pair[2], pair[1]>> \in Pairs
    BY FlipIn DEF Flip
  <2>2. \A n \in Days : runs[<<Affinity, n>>] = Idle
    BY <1>2, TaskOfDay
  <2> QED
    BY <1>2, <2>1, <2>2 DEF PairsWhole, PairsOK, Refreshes, NoCoPurchases
<1>8. ForecastsOK /\ BakeOK
  <2>1. \A p \in Products, d \in Days : forecasts[p][d][Week] = -1 /\ bake[p][d] = NoAdvice
    BY <1>1, <1>2 DEF NoForecasts
  <2> QED
    BY <2>1 DEF ForecastsOK, BakeOK
<1> QED
  BY <1>3, <1>4, <1>5, <1>6, <1>7, <1>8 DEF IInv

\* What the shop does not touch.
nightVars == <<part, clock, stats, forecasts, affinity, bake, owed, runs, failures, faults,
               marred, overdue>>

\* An order is made, or its payment changes: no order of a day is lost.
LEMMA MadeGrows ==
    ASSUME IInv, UNCHANGED nightVars,
           made' \in [Orders -> {NotMade} \cup [day : Days, status : {"pending", "paid", "refunded"}]],
           NEW x \in Orders, \A o \in Orders \ {x} : made'[o] = made[o],
           made[x] # NotMade => made'[x] # NotMade /\ made'[x].day = made[x].day
    PROVE  IInv'
<1>0. UNCHANGED <<part, clock, stats, forecasts, affinity, bake, owed, runs, failures, faults,
                  marred, overdue>>
  BY DEF nightVars
<1>1. TypeOK'
  BY <1>0 DEF IInv, TypeOK
<1>2. ShapeOK'
  <2>1. IsFiniteSet(Made \cup {x})
    BY FS_AddElement DEF IInv, ShapeOK
  <2>2. Made' \subseteq Made \cup {x}
    BY DEF Made
  <2>3. IsFiniteSet(Made')
    BY <2>1, <2>2, FS_Subset
  <2> QED
    BY <1>0, <2>3 DEF IInv, ShapeOK, SeenOK
<1>3. RunsOK'
  BY <1>0 DEF IInv, RunsOK
<1>4. PairsWhole' /\ PairsOK'
  BY <1>0, PairsKept
<1>5. ForecastsOK' /\ BakeOK'
  BY <1>0, TablesKept
<1>6. StatsOK'
  <2>1. \A d : Ordered(d) \subseteq Ordered(d)'
    BY DEF Ordered
  <2>2. \A p \in Products, d \in Days :
           /\ UnitsOrdered(p, d) <= UnitsOrdered(p, d)'
           /\ UnitsOrdered(p, d) \in Nat /\ UnitsOrdered(p, d)' \in Nat
    <3>1. \A p \in Products, d \in Days : UnitsOrdered(p, d) <= UnitsOrdered(p, d)'
      BY <1>1, <1>2, <2>1, UnitsOrderedGrow
    <3>2. \A p \in Products, d \in Days : UnitsOrdered(p, d) \in Nat
      BY UnitsOrderedNat DEF IInv
    <3>3. (TypeOK /\ ShapeOK => \A p \in Products, d \in Days : UnitsOrdered(p, d) \in Nat)'
      BY AllOrderedNat, PTL
    <3> QED
      BY <1>1, <1>2, <3>1, <3>2, <3>3
  <2>3. \A p \in Products, d \in Days : stats'[p][d] <= UnitsOrdered(p, d)'
    <3>1. \A p \in Products, d \in Days : stats[p][d] \in Nat /\ stats[p][d] <= UnitsOrdered(p, d)
      BY DEF IInv, StatsOK, TypeOK, DailyStats
    <3> QED
      BY <1>0, <2>2, <3>1
  <2>4. ASSUME NEW n \in Days PROVE CountOK(runs[<<Statistics, n>>])'
    <3> DEFINE run == runs[<<Statistics, n>>]
    <3> SUFFICES ASSUME run # Idle
                 PROVE  /\ run.seen \in [Products -> Nat]
                        /\ \A p \in Products : run.seen[p] <= UnitsOrdered(p, run.date)'
      BY <1>0 DEF CountOK, UnitsOrdered, Ordered
    <3>1. /\ run.seen \in [Products -> Nat]
          /\ \A p \in Products : run.seen[p] <= UnitsOrdered(p, run.date)
      BY DEF IInv, StatsOK, CountOK
    <3>2. run \in Runs
      BY TaskOfDay DEF IInv, ShapeOK
    <3>3. run.date \in Days
      BY <3>2 DEF Runs
    <3>4. \A p \in Products : run.seen[p] \in Nat
      BY <3>1
    <3>5. \A p \in Products : UnitsOrdered(p, run.date) \in Nat
      BY <2>2, <3>3
    <3>6. run' = run
      BY <1>0
    <3> HIDE DEF run
    <3>7. \A p \in Products : \A d : d = run.date => UnitsOrdered(p, run.date)' = UnitsOrdered(p, d)'
      BY <3>6 DEF UnitsOrdered, Ordered
    <3>8. \A p \in Products : /\ UnitsOrdered(p, run.date) <= UnitsOrdered(p, run.date)'
                              /\ UnitsOrdered(p, run.date)' \in Nat
      BY <2>2, <3>3, <3>7
    <3> QED
      BY <3>1, <3>4, <3>5, <3>8
  <2> QED
    BY <2>3, <2>4 DEF StatsOK
<1> QED
  BY <1>1, <1>2, <1>3, <1>4, <1>5, <1>6 DEF IInv

\* Orders and payments only add to the units of the day.
LEMMA ShopStep == ASSUME IInv, Shop PROVE IInv'
<1>1. made \in [Orders -> {NotMade} \cup [day : Days, status : {"pending", "paid", "refunded"}]]
      /\ clock.day \in Days
  BY DEF IInv, TypeOK
<1>2. ASSUME NEW o \in Orders, PlaceOrder(o) PROVE IInv'
  <2>1. made' = [made EXCEPT ![o] = [day |-> clock.day, status |-> "pending"]] /\ made[o] = NotMade
        /\ UNCHANGED nightVars
    BY <1>2 DEF PlaceOrder, nightVars
  <2>2. made' \in [Orders -> {NotMade} \cup [day : Days, status : {"pending", "paid", "refunded"}]]
    BY <1>1, <2>1
  <2>3. \A u \in Orders \ {o} : made'[u] = made[u]
    BY <1>1, <2>1
  <2> QED
    BY <2>1, <2>2, <2>3, MadeGrows
<1>3. ASSUME NEW o \in Orders, NEW from \in {"pending", "paid"}, NEW to \in {"paid", "refunded"},
             ChangePayment(o, from, to)
      PROVE  IInv'
  <2>1. made' = [made EXCEPT ![o] = [made[o] EXCEPT !.status = to]] /\ made[o].status = from
        /\ UNCHANGED nightVars
    BY <1>3 DEF ChangePayment, nightVars
  <2>2. made[o] \in [day : Days, status : {"pending", "paid", "refunded"}]
    BY <1>1, <2>1 DEF NotMade
  <2> DEFINE paid == [made[o] EXCEPT !.status = to]
  <2>3. paid \in [day : Days, status : {"pending", "paid", "refunded"}] /\ paid.day = made[o].day
        /\ paid.status = to
    BY <2>2
  <2>4. paid # NotMade
    BY <2>3 DEF NotMade
  <2> HIDE DEF paid
  <2>5. made'[o] = paid /\ \A u \in Orders \ {o} : made'[u] = made[u]
    BY <1>1, <2>1 DEF paid
  <2>6. made' \in [Orders -> {NotMade} \cup [day : Days, status : {"pending", "paid", "refunded"}]]
    BY <1>1, <2>1, <2>3 DEF paid
  <2> QED
    BY <2>1, <2>3, <2>4, <2>5, <2>6, MadeGrows
<1> QED
  BY <1>2, <1>3 DEF Shop

\* Beat sends the tasks.
LEMMA BeatStep == ASSUME IInv, Beat PROVE IInv'
<1>1. clock \in [day : Days, sent : 0 .. 4]
  BY DEF IInv, TypeOK
<1>2. PICK i \in Due : /\ clock' = [clock EXCEPT !.sent = i]
                       /\ owed' = owed \cup {<<Schedule[i], clock.day>>}
  BY DEF Beat
<1>3. UNCHANGED <<part, made, stats, forecasts, affinity, bake, runs, failures, faults, marred, overdue>>
  BY DEF Beat
<1>4. i \in 1 .. 4
  BY DEF Due
<1>5. clock' \in [day : Days, sent : 0 .. 4] /\ clock'.day = clock.day
  BY <1>1, <1>2, <1>4
<1>6. <<Schedule[i], clock.day>> \in Tasks
  BY <1>1, <1>4, TaskNames DEF Tasks
<1>7. TypeOK'
  BY <1>2, <1>3, <1>5, <1>6 DEF IInv, TypeOK
<1>8. ShapeOK'
  BY <1>3 DEF IInv, ShapeOK, SeenOK, Made
<1>9. RunsOK'
  BY <1>2, <1>3, <1>5 DEF IInv, RunsOK
<1>10. PairsWhole' /\ PairsOK'
  BY <1>2, <1>3, PairsKept
<1>11. ForecastsOK' /\ BakeOK'
  <2>1. \A p, d : Recorded(p, d)' = Recorded(p, d)
    BY <1>3 DEF Recorded
  <2>2. ForecastsOK'
    BY <1>3, <1>5, <2>1 DEF IInv, ForecastsOK
  <2>3. BakeOK'
    BY <1>3, <1>5, <2>1 DEF IInv, BakeOK
  <2> QED
    BY <2>2, <2>3
<1>12. StatsOK'
  BY <1>3, StatsKept DEF KeepsSeen
<1> QED
  BY <1>7, <1>8, <1>9, <1>10, <1>11, <1>12 DEF IInv

\* A new day begins, whatever runs.
LEMMA MidnightStep == ASSUME IInv, Midnight PROVE IInv'
<1>1. clock \in [day : Days, sent : 0 .. 4] /\ clock.day < LastDay
  BY DEF IInv, TypeOK, Midnight
<1>2. clock' = [day |-> clock.day + 1, sent |-> 0]
      /\ UNCHANGED <<part, made, stats, forecasts, affinity, bake, owed, runs, failures, faults,
                     marred, overdue>>
  BY DEF Midnight
<1>3. clock' \in [day : Days, sent : 0 .. 4] /\ (\A d \in Days : d > clock'.day => d > clock.day)
      /\ \A d \in Days : d <= clock.day => d <= clock'.day
  BY <1>1, <1>2, BoundsAssumption DEF Days
<1>4. TypeOK'
  BY <1>2, <1>3 DEF IInv, TypeOK
<1>5. ShapeOK'
  BY <1>2 DEF IInv, ShapeOK, SeenOK, Made
<1>6. RunsOK'
  <2>1. \A t \in Tasks : runs[t] # Idle => runs[t].date \in Days
    BY DEF IInv, ShapeOK, Runs
  <2> QED
    BY <1>2, <1>3, <2>1 DEF IInv, RunsOK
<1>7. PairsWhole' /\ PairsOK'
  BY <1>2, PairsKept
<1>8. ForecastsOK' /\ BakeOK'
  <2>1. \A p, d : Recorded(p, d)' = Recorded(p, d)
    BY <1>2 DEF Recorded
  <2>2. ForecastsOK'
    BY <1>2, <1>3, <2>1 DEF IInv, ForecastsOK
  <2>3. BakeOK'
    BY <1>2, <1>3, <2>1 DEF IInv, BakeOK
  <2> QED
    BY <2>2, <2>3
<1>9. StatsOK'
  BY <1>2, StatsKept DEF KeepsSeen
<1> QED
  BY <1>4, <1>5, <1>6, <1>7, <1>8, <1>9 DEF IInv

-----------------------------------------------------------------------------
(* The steps of the tasks. *)

\* What remains to be shown of a step of a task: its own tables.
LEMMA TaskStep ==
    ASSUME IInv, NEW t \in Tasks, Moves(t), marred' \in BOOLEAN, overdue' \subseteq Days,
           stats' \in DailyStats, forecasts' \in DemandForecasts, affinity' \in CoPurchases,
           bake' \in [Products -> [Days -> BakeRecommendations \cup {NoAdvice}]],
           StatsOK', PairsWhole', PairsOK', ForecastsOK', BakeOK'
    PROVE  IInv'
<1>1. ShapeOK' /\ RunsOK' /\ owed' \subseteq Tasks /\ DOMAIN runs' = Tasks
  BY TaskMoves
<1>2. TypeOK'
  BY <1>1 DEF IInv, TypeOK, Moves
<1> QED
  BY <1>1, <1>2 DEF IInv

\* The tables as they were.
LEMMA TablesTyped ==
    ASSUME IInv
    PROVE  /\ stats \in DailyStats /\ forecasts \in DemandForecasts /\ affinity \in CoPurchases
           /\ bake \in [Products -> [Days -> BakeRecommendations \cup {NoAdvice}]]
           /\ clock.day \in Days /\ marred \in BOOLEAN /\ overdue \subseteq Days
  BY DEF IInv, TypeOK

\* A task other than these two touches neither their runs nor what they owe.
LEMMA OthersKept ==
    ASSUME IInv, NEW t \in Tasks, Moves(t)
    PROVE  /\ t[1] # Statistics => \A n \in Days : KeepsSeen(<<Statistics, n>>)
           /\ t[1] # Affinity =>
                 /\ \A n \in Days : runs'[<<Affinity, n>>] = runs[<<Affinity, n>>]
                 /\ \A u \in owed : u[1] = Affinity => u \in owed'
<1>1. \A u \in Tasks \ {t} : runs'[u] = runs[u] /\ (u \notin owed' => u \notin owed)
  BY TaskMoves
<1>2. owed \subseteq Tasks
  BY DEF IInv, TypeOK
<1>3. ASSUME t[1] # Statistics, NEW n \in Days PROVE KeepsSeen(<<Statistics, n>>)
  <2>0. <<Statistics, n>>[1] = Statistics
    OBVIOUS
  <2>1. <<Statistics, n>> \in Tasks \ {t}
    BY <1>3, <2>0, TaskOfDay
  <2> QED
    BY <1>1, <2>1 DEF KeepsSeen
<1>4. ASSUME t[1] # Affinity, NEW n \in Days PROVE runs'[<<Affinity, n>>] = runs[<<Affinity, n>>]
  <2>0. <<Affinity, n>>[1] = Affinity
    OBVIOUS
  <2>1. <<Affinity, n>> \in Tasks \ {t}
    BY <1>4, <2>0, TaskOfDay
  <2> QED
    BY <1>1, <2>1
<1> QED
  BY <1>1, <1>2, <1>3, <1>4

\* The statistics count the paid orders of the day when they start,
LEMMA StartStatsStep == ASSUME IInv, NEW n \in Days, StartStats(n) PROVE IInv'
<1> DEFINE units == [p \in Products |-> UnitsSold(p, clock.day)]
           run == [date |-> clock.day, todo |-> {p \in Products : units[p] > 0}, seen |-> units]
           t == <<Statistics, n>>
<1>1. TypeOK /\ ShapeOK /\ clock.day \in Days /\ t \in Tasks /\ t[1] # Affinity
  BY TaskOfDay DEF IInv, TypeOK, Statistics, Affinity
<1>2. units \in [Products -> Nat] /\ \A p \in Products : units[p] <= UnitsOrdered(p, clock.day)
  BY <1>1, SoldWasOrdered
<1>3. run \in Runs /\ run.date = clock.day /\ run.seen = units
  BY <1>1, <1>2 DEF Runs, Rows
<1>4. Start(t, run) /\ UNCHANGED marred
  BY DEF StartStats, Statistics
<1> HIDE DEF run, units
<1>5. /\ Moves(t) /\ (runs'[t] # Idle => runs'[t] = run)
      /\ UNCHANGED <<stats, forecasts, affinity, bake, overdue>>
  BY <1>1, <1>3, <1>4, StartMoves
<1>6. UNCHANGED <<clock, made>>
  BY <1>5 DEF Moves
<1>7. ForecastsOK' /\ BakeOK'
  BY <1>5, <1>6, TablesKept
<1>8. PairsWhole' /\ PairsOK'
  BY <1>1, <1>4, <1>5, OthersKept, PairsKept
<1>9. StatsOK'
  <2>1. \A p, d : UnitsOrdered(p, d)' = UnitsOrdered(p, d)
    BY <1>6 DEF UnitsOrdered, Ordered, Units
  <2>2. \A p \in Products, d \in Days : stats'[p][d] <= UnitsOrdered(p, d)'
    BY <1>5, <2>1 DEF IInv, StatsOK
  <2>3. ASSUME NEW m \in Days PROVE CountOK(runs[<<Statistics, m>>])'
    <3>1. CASE m = n
      <4> SUFFICES ASSUME runs'[t] # Idle
                   PROVE  /\ runs'[t].seen \in [Products -> Nat]
                          /\ \A p \in Products : runs'[t].seen[p] <= UnitsOrdered(p, runs[t].date)'
        BY <3>1 DEF CountOK, UnitsOrdered, Ordered
      <4>1. runs'[t].seen = units /\ runs'[t].date = clock.day
        BY <1>3, <1>5
      <4>2. \A p : UnitsOrdered(p, runs[t].date)' = UnitsOrdered(p, clock.day)
        BY <1>6, <4>1 DEF UnitsOrdered, Ordered, Units
      <4> QED
        BY <1>2, <4>1, <4>2
    <3>2. CASE m # n
      <4>1. <<Statistics, m>> \in Tasks \ {t}
        BY <3>2, TaskOfDay
      <4>2. runs'[<<Statistics, m>>] = runs[<<Statistics, m>>]
        BY <1>1, <1>5, <4>1, TaskMoves
      <4>3. CountOK(runs[<<Statistics, m>>])
        BY DEF IInv, StatsOK
      <4>4. \A p : UnitsOrdered(p, runs[<<Statistics, m>>].date)' = UnitsOrdered(p, runs[<<Statistics, m>>].date)
        BY <1>6, <4>2 DEF UnitsOrdered, Ordered, Units
      <4> QED
        BY <4>2, <4>3, <4>4 DEF CountOK
    <3> QED
      BY <3>1, <3>2
  <2> QED
    BY <2>2, <2>3 DEF StatsOK
<1> QED
  BY <1>1, <1>4, <1>5, <1>7, <1>8, <1>9, TablesTyped, TaskStep

\* ... and write them down, product by product.
LEMMA SaveStatsStep == ASSUME IInv, NEW n \in Days, NEW p \in Products, SaveStats(n, p) PROVE IInv'
<1> DEFINE t == <<Statistics, n>>
           run == runs[t]
<1>1. t \in Tasks /\ t[1] # Affinity /\ clock.day \in Days
  BY TaskOfDay DEF IInv, TypeOK, Statistics, Affinity
<1>2. Wrote(t, p) /\ stats' = [stats EXCEPT ![p][run.date] = run.seen[p]]
      /\ overdue' = (IF clock.day < run.date + Week THEN overdue ELSE overdue \cup {run.date})
      /\ UNCHANGED <<forecasts, affinity, bake>>
  BY DEF SaveStats, Statistics
<1>3. Moves(t) /\ run # Idle /\ run.date <= clock.day /\ run.date \in Days /\ KeepsSeen(t) /\ UNCHANGED marred
  BY <1>1, <1>2, WroteMoves
<1>4. /\ run.seen \in [Products -> Nat]
      /\ \A q \in Products : run.seen[q] <= UnitsOrdered(q, run.date)
  BY <1>3 DEF IInv, StatsOK, CountOK
<1>5. /\ stats' \in DailyStats
      /\ stats'[p][run.date] = run.seen[p]
      /\ \A q \in Products, d \in Days : q # p \/ d # run.date => stats'[q][d] = stats[q][d]
  BY <1>1, <1>2, <1>3, <1>4, TablesTyped DEF DailyStats
<1>6. UNCHANGED <<clock, made>>
  BY <1>3 DEF Moves
<1>7. PairsWhole' /\ PairsOK'
  BY <1>1, <1>2, <1>3, OthersKept, PairsKept
<1>8. StatsOK'
  <2>1. \A q, d : UnitsOrdered(q, d)' = UnitsOrdered(q, d)
    BY <1>6 DEF UnitsOrdered, Ordered, Units
  <2>2. \A q \in Products, d \in Days : stats'[q][d] <= UnitsOrdered(q, d)'
    BY <1>1, <1>4, <1>5, <2>1 DEF IInv, StatsOK
  <2>3. ASSUME NEW m \in Days PROVE CountOK(runs[<<Statistics, m>>])'
    <3> DEFINE old == runs[<<Statistics, m>>]
               new == runs'[<<Statistics, m>>]
    <3>1. KeepsSeen(<<Statistics, m>>)
      <4>1. CASE m = n
        BY <1>3, <4>1
      <4>2. CASE m # n
        <5>1. <<Statistics, m>> \in Tasks \ {t}
          BY <4>2, TaskOfDay
        <5> QED
          BY <1>1, <1>3, <5>1, TaskMoves DEF KeepsSeen
      <4> QED
        BY <4>1, <4>2
    <3> SUFFICES ASSUME new # Idle
                 PROVE  /\ new.seen \in [Products -> Nat]
                        /\ \A q \in Products : new.seen[q] <= UnitsOrdered(q, old.date)'
      BY DEF CountOK
    <3>2. old # Idle /\ new.seen = old.seen /\ new.date = old.date
      BY <3>1 DEF KeepsSeen
    <3>3. /\ old.seen \in [Products -> Nat]
          /\ \A q \in Products : old.seen[q] <= UnitsOrdered(q, old.date)
      BY <3>2 DEF IInv, StatsOK, CountOK
    <3>4. \A q : UnitsOrdered(q, old.date)' = UnitsOrdered(q, old.date)
      BY <1>6, <3>2 DEF UnitsOrdered, Ordered, Units
    <3> QED
      BY <3>2, <3>3, <3>4
  <2> QED
    BY <2>2, <2>3 DEF StatsOK
<1> HIDE DEF run
<1>9. Week \in Nat \ {0} /\ run.date \in Nat /\ clock.day \in Nat /\ \A d \in Days : d \in Nat
  BY <1>1, <1>3, WeekAssumption, BoundsAssumption DEF Days
<1>10. overdue' \subseteq Days /\ overdue \subseteq overdue'
  BY <1>2, <1>3, TablesTyped
<1>11. \A q \in Products, d \in Days :
          d <= clock.day /\ d - Week \notin overdue' => Recorded(q, d)' = Recorded(q, d)
  <2> SUFFICES ASSUME NEW q \in Products, NEW d \in Days, d <= clock.day, d - Week \notin overdue',
                      d >= Week
               PROVE  stats'[q][d - Week] = stats[q][d - Week]
    BY <1>9 DEF Recorded
  <2>1. d - Week \in Days
    BY <1>9, BoundsAssumption DEF Days
  <2>2. d - Week # run.date
    BY <1>2, <1>9
  <2> QED
    BY <1>5, <2>1, <2>2
<1>12. ForecastsOK' /\ BakeOK'
  <2>1. \A d \in Days : d <= clock.day \/ d > clock.day
    BY <1>9
  <2>2. ForecastsOK'
    BY <1>2, <1>6, <1>10, <1>11, <2>1 DEF IInv, ForecastsOK
  <2>3. BakeOK'
    BY <1>2, <1>6, <1>10, <1>11, <2>1 DEF IInv, ForecastsOK, BakeOK
  <2> QED
    BY <2>2, <2>3
<1> QED
  BY <1>1, <1>2, <1>3, <1>5, <1>7, <1>8, <1>10, <1>12, TablesTyped, TaskStep

\* Pairs are counted in both directions.
LEMMA CoCounts ==
    ASSUME TypeOK, ShapeOK, NEW pair \in Pairs
    PROVE  CoCount(pair) \in Nat /\ CoCount(Flip(pair)) = CoCount(pair)
<1> DEFINE both(a, b) == {o \in Paid : Basket[o][a] > 0 /\ Basket[o][b] > 0}
<1>1. both(pair[1], pair[2]) = both(pair[2], pair[1])
  OBVIOUS
<1>2. Paid \subseteq Made
  BY DEF Paid, Made, NotMade
<1>3. IsFiniteSet(both(pair[1], pair[2]))
  BY <1>2, FS_Subset DEF ShapeOK
<1>4. Cardinality(both(pair[1], pair[2])) \in Nat
  BY <1>3, FS_CardinalityType
<1>5. Flip(pair)[1] = pair[2] /\ Flip(pair)[2] = pair[1]
  BY DEF Flip
<1>6. CoCount(pair) = IF Cardinality(both(pair[1], pair[2])) < 2 THEN 0
                      ELSE Cardinality(both(pair[1], pair[2]))
  BY DEF CoCount
<1>7. CoCount(Flip(pair)) = IF Cardinality(both(pair[2], pair[1])) < 2 THEN 0
                            ELSE Cardinality(both(pair[2], pair[1]))
  BY <1>5 DEF CoCount
<1> HIDE DEF both
<1> QED
  BY <1>1, <1>4, <1>6, <1>7

\* The pairs are counted when their task starts.
LEMMA StartAffinityStep == ASSUME IInv, NEW n \in Days, StartAffinity(n) PROVE IInv'
<1> DEFINE counts == [pair \in Pairs |-> CoCount(pair)]
           run == [date |-> clock.day, seen |-> counts,
                   todo |-> {DeleteAll} \cup {pair \in Pairs : counts[pair] > 0}]
           t == <<Affinity, n>>
<1>1. TypeOK /\ ShapeOK /\ clock.day \in Days /\ t \in Tasks /\ t[1] # Statistics
  BY TaskOfDay DEF IInv, TypeOK, Statistics, Affinity
<1>2. counts \in [Pairs -> Nat] /\ \A pair \in Pairs : counts[pair] = counts[Flip(pair)]
  BY <1>1, CoCounts, FlipIn
<1>3. run \in Runs /\ run.date = clock.day /\ run.todo # {} /\ run.seen \in [Pairs -> Nat]
  BY <1>1, <1>2 DEF Runs, Rows
<1>4. \A r : r = run => PairRunOK(r)'
  <2>1. /\ run.seen = counts /\ DeleteAll \in run.todo
        /\ \A pair \in Pairs : pair \in run.todo <=> counts[pair] > 0
    BY FlipIn
  <2> HIDE DEF run, counts
  <2> QED
    BY <1>2, <2>1 DEF PairRunOK
<1>5. Start(t, run) /\ marred' = (Refreshing # {})
  BY DEF StartAffinity, Affinity
<1> HIDE DEF run, counts
<1>6. /\ Moves(t) /\ runs[t] = Idle /\ (runs'[t] # Idle => runs'[t] = run)
      /\ UNCHANGED <<stats, forecasts, affinity, bake, overdue>>
  BY <1>1, <1>3, <1>5, StartMoves
<1>7. UNCHANGED <<clock, made>>
  BY <1>6 DEF Moves
<1>8. ForecastsOK' /\ BakeOK'
  BY <1>6, <1>7, TablesKept
<1>9. StatsOK'
  BY <1>1, <1>6, <1>7, OthersKept, StatsKept
<1>10. PairsWhole' /\ PairsOK'
  <2> SUFFICES ASSUME ~marred' PROVE PairsWhole' /\ PairsOK'
    BY DEF PairsWhole, PairsOK
  <2>1. \A m \in Days : runs[<<Affinity, m>>] = Idle
    <3>1. \A u \in Tasks : u[1] = Affinity => runs[u] = Idle
      BY <1>5 DEF Refreshing, Running, Affinity
    <3>2. \A m \in Days : <<Affinity, m>>[1] = Affinity
      OBVIOUS
    <3> QED
      BY <3>1, <3>2, TaskOfDay
  <2>2. \A m \in Days : m # n => runs'[<<Affinity, m>>] = Idle
    <3> SUFFICES ASSUME NEW m \in Days, m # n PROVE runs'[<<Affinity, m>>] = Idle
      OBVIOUS
    <3>1. <<Affinity, m>> \in Tasks \ {t}
      BY TaskOfDay
    <3> QED
      BY <1>1, <1>6, <2>1, <3>1, TaskMoves
  <2>3. PairsOK'
    BY <1>4, <1>6, <2>2 DEF PairsOK, Refreshes
  <2>4. runs'[t] # Idle
    BY <1>1, <1>3, <1>5 DEF Start, IInv, ShapeOK, Idle
  <2>5. t \in owed' /\ t[1] = Affinity
    BY <1>6, <2>4 DEF Moves
  <2> QED
    BY <2>3, <2>5 DEF PairsWhole, Affinity
<1>11. marred' \in BOOLEAN /\ overdue' \subseteq Days
  BY <1>5, <1>6, TablesTyped
<1> QED
  BY <1>1, <1>6, <1>8, <1>9, <1>10, <1>11, TablesTyped, TaskStep

\* A run that is left with the rows of "rest" to write, and the table is "table".
RestOK(run, rest, table) ==
    /\ run.seen \in [Pairs -> Nat]
    /\ \A pair \in Pairs :
          /\ run.seen[pair] = run.seen[Flip(pair)]
          /\ pair \in rest \/ table[pair] = run.seen[pair]

\* What remains to be shown of a step that writes a row of the pairs.
LEMMA PairRowStep ==
    ASSUME IInv, NEW n \in Days, NEW row, Wrote(<<Affinity, n>>, row),
           affinity' \in CoPurchases, UNCHANGED <<stats, forecasts, bake, overdue>>,
           DeleteAll \notin runs[<<Affinity, n>>].todo \ {row},
           ~marred => RestOK(runs[<<Affinity, n>>], runs[<<Affinity, n>>].todo \ {row}, affinity')
    PROVE  IInv'
<1> DEFINE t == <<Affinity, n>>
           run == runs[t]
<1>1. t \in Tasks /\ t[1] # Statistics
  BY TaskOfDay DEF Statistics, Affinity
<1>2. /\ Moves(t) /\ run # Idle /\ KeepsSeen(t) /\ t \in owed
      /\ runs'[t] # Idle => runs'[t].todo = run.todo \ {row}
      /\ runs'[t] = Idle => run.todo \ {row} = {}
      /\ UNCHANGED marred
  BY <1>1, WroteMoves
<1>3. UNCHANGED <<clock, made>>
  BY <1>2 DEF Moves
<1>4. ForecastsOK' /\ BakeOK'
  BY <1>3, TablesKept
<1>5. StatsOK'
  BY <1>1, <1>2, <1>3, OthersKept, StatsKept
<1>6. \A m \in Days : m # n => runs'[<<Affinity, m>>] = runs[<<Affinity, m>>]
  <2> SUFFICES ASSUME NEW m \in Days, m # n PROVE runs'[<<Affinity, m>>] = runs[<<Affinity, m>>]
    OBVIOUS
  <2>1. <<Affinity, m>> \in Tasks \ {t}
    BY TaskOfDay
  <2> QED
    BY <1>1, <1>2, <2>1, TaskMoves
<1>7. PairsWhole' /\ PairsOK'
  <2> SUFFICES ASSUME ~marred PROVE PairsWhole' /\ PairsOK'
    BY <1>2 DEF PairsWhole, PairsOK
  <2>1. \A m \in Days : Refreshes(m) => m = n
    BY <1>2 DEF IInv, PairsOK, Refreshes
  <2>2. \A m \in Days : runs'[<<Affinity, m>>] # Idle => m = n
    BY <1>6, <2>1 DEF Refreshes
  <2>3. RestOK(run, run.todo \ {row}, affinity')
    OBVIOUS
  <2>4. ASSUME runs'[t] # Idle PROVE PairRunOK(runs[t])'
    <3>1. runs'[t].todo = run.todo \ {row} /\ runs'[t].seen = run.seen
      BY <1>2, <2>4 DEF KeepsSeen
    <3> QED
      BY <2>3, <3>1 DEF PairRunOK, RestOK
  <2>5. PairsOK'
    BY <2>2, <2>4 DEF PairsOK, Refreshes
  <2>6. ASSUME t \notin owed' PROVE \A pair \in Pairs : affinity'[pair] = affinity'[Flip(pair)]
    <3>1. run.todo \ {row} = {}
      BY <1>2, <2>6 DEF Moves
    <3>2. \A pair \in Pairs : affinity'[pair] = run.seen[pair] /\ run.seen[pair] = run.seen[Flip(pair)]
      BY <2>3, <3>1 DEF RestOK
    <3> QED
      BY <3>2, FlipIn
  <2>7. PairsWhole'
    <3>1. t[1] = Affinity
      OBVIOUS
    <3> QED
      BY <2>6, <3>1 DEF PairsWhole, Affinity, Flip
  <2> QED
    BY <2>5, <2>7
<1> QED
  BY <1>1, <1>2, <1>4, <1>5, <1>7, TablesTyped, TaskStep

\* All rows are deleted: the pairs of the run are still to be inserted.
LEMMA DeleteAffinityStep == ASSUME IInv, NEW n \in Days, DeleteAffinity(n) PROVE IInv'
<1> DEFINE t == <<Affinity, n>>
           run == runs[t]
<1>1. t \in Tasks
  BY TaskOfDay
<1>2. Wrote(t, DeleteAll) /\ affinity' = NoCoPurchases
      /\ UNCHANGED <<stats, forecasts, bake, overdue>>
  BY DEF DeleteAffinity, Affinity
<1>3. run # Idle /\ DeleteAll = NextRow(run.todo) /\ run.todo # {}
  BY <1>1, <1>2, WroteMoves
<1>4. DeleteAll \in run.todo
  BY <1>3 DEF NextRow
<1>5. affinity' \in CoPurchases /\ \A pair \in Pairs : affinity'[pair] = 0
  BY <1>2 DEF NoCoPurchases, CoPurchases
<1>6. ASSUME ~marred PROVE RestOK(run, run.todo \ {DeleteAll}, affinity')
  <2>1. /\ run.seen \in [Pairs -> Nat]
        /\ \A pair \in Pairs : /\ run.seen[pair] = run.seen[Flip(pair)]
                               /\ pair \in run.todo <=> run.seen[pair] > 0
    BY <1>3, <1>4, <1>6 DEF IInv, PairsOK, PairRunOK, Refreshes
  <2>2. \A pair \in Pairs : pair \in run.todo \ {DeleteAll} \/ affinity'[pair] = run.seen[pair]
    BY <1>5, <2>1, FlipIn
  <2> QED
    BY <2>1, <2>2 DEF RestOK
<1> QED
  BY <1>2, <1>5, <1>6, PairRowStep

\* A pair is inserted; with the last one the two directions of each pair agree.
LEMMA InsertAffinityStep ==
    ASSUME IInv, NEW n \in Days, NEW pair \in Pairs, InsertAffinity(n, pair)
    PROVE  IInv'
<1> DEFINE t == <<Affinity, n>>
           run == runs[t]
<1>1. t \in Tasks
  BY TaskOfDay
<1>2. /\ Wrote(t, pair) /\ affinity' = [affinity EXCEPT ![pair] = run.seen[pair]]
      /\ UNCHANGED <<stats, forecasts, bake, overdue>>
  BY DEF InsertAffinity, Affinity
<1>3. run # Idle /\ pair = NextRow(run.todo) /\ run.todo # {} /\ run \in Runs
  BY <1>1, <1>2, WroteMoves
<1>4. DeleteAll \notin run.todo /\ pair \in run.todo
  BY <1>3, FlipIn DEF NextRow
<1>5. run.seen[pair] \in Nat
  <2>1. run.seen \in [Pairs -> Nat]
    BY <1>1, <1>3 DEF IInv, ShapeOK, SeenOK
  <2> QED
    BY <2>1
<1>6. /\ affinity' \in CoPurchases /\ affinity'[pair] = run.seen[pair]
      /\ \A q \in Pairs : q # pair => affinity'[q] = affinity[q]
  BY <1>2, <1>5, TablesTyped DEF CoPurchases
<1>7. ASSUME ~marred PROVE RestOK(run, run.todo \ {pair}, affinity')
  <2>1. /\ run.seen \in [Pairs -> Nat]
        /\ \A q \in Pairs : /\ run.seen[q] = run.seen[Flip(q)]
                            /\ q \in run.todo \/ affinity[q] = run.seen[q]
    BY <1>3, <1>4, <1>7 DEF IInv, PairsOK, PairRunOK, Refreshes
  <2>2. \A q \in Pairs : q \in run.todo \ {pair} \/ affinity'[q] = run.seen[q]
    BY <1>6, <2>1
  <2> QED
    BY <2>1, <2>2 DEF RestOK
<1> QED
  BY <1>2, <1>4, <1>6, <1>7, PairRowStep

\* The tasks that compute from the tables alone.
LEMMA StartPlainStep ==
    ASSUME IInv, NEW t \in Tasks, t[1] # Statistics, t[1] # Affinity, UNCHANGED marred,
           Start(t, [date |-> clock.day, todo |-> Products, seen |-> << >>])
    PROVE  IInv'
<1> DEFINE run == [date |-> clock.day, todo |-> Products, seen |-> << >>]
<1>1. run \in Runs /\ run.date = clock.day
  BY TablesTyped DEF Runs, Rows
<1> HIDE DEF run
<1>2. Moves(t) /\ UNCHANGED <<stats, forecasts, affinity, bake, overdue>>
  BY <1>1, StartMoves DEF run
<1>3. UNCHANGED <<clock, made>>
  BY <1>2 DEF Moves
<1>4. ForecastsOK' /\ BakeOK'
  BY <1>2, <1>3, TablesKept
<1>5. StatsOK' /\ PairsWhole' /\ PairsOK'
  BY <1>2, <1>3, OthersKept, StatsKept, PairsKept
<1> QED
  BY <1>2, <1>4, <1>5, TablesTyped, TaskStep

\* A forecast row is written only where the product has statistics.
LEMMA ForecastRow ==
    ASSUME IInv, NEW p \in Products, NEW d \in Days
    PROVE  /\ \A w \in Windows : Forecast(p, d, w) \in Nat \cup {-1}
           /\ d - Week \notin overdue => Forecast(p, d, Week) \in {-1, 100 * Recorded(p, d)}
           /\ Forecast(p, d, Week) = -1 => Recorded(p, d) = 0
           /\ Week \in Windows
<1>1. TypeOK /\ forecasts \in DemandForecasts /\ Week \in Windows
  BY DEF IInv, TypeOK, Windows
<1>2. \A w \in Windows : Forecast(p, d, w) \in Nat \cup {-1}
  BY <1>1, ForecastType DEF Forecast, DemandForecasts
<1>3. d - Week \notin overdue => forecasts[p][d][Week] \in {-1, 100 * Recorded(p, d)}
  BY DEF IInv, ForecastsOK
<1>4. /\ forecast_product(p, d, Week) \in {-1, 100 * Recorded(p, d)}
      /\ forecast_product(p, d, Week) = -1 => Recorded(p, d) = 0
  BY <1>1, ForecastOfWeek
<1>5. Forecast(p, d, Week) = -1 => forecast_product(p, d, Week) = -1
  BY DEF Forecast
<1> QED
  BY <1>1, <1>2, <1>3, <1>4, <1>5 DEF Forecast

\* A forecast row is written, from the statistics of earlier days.
LEMMA SaveForecastStep ==
    ASSUME IInv, NEW n \in Days, NEW p \in Products, SaveForecast(n, p)
    PROVE  IInv'
<1> DEFINE t == <<"demand_forecast", n>>
           d == runs[t].date
           row == [w \in Windows |-> Forecast(p, d, w)]
<1>1. t \in Tasks /\ t[1] # Statistics /\ t[1] # Affinity
  BY TaskOfDay DEF Statistics, Affinity
<1>2. Wrote(t, p) /\ forecasts' = [forecasts EXCEPT ![p][d] = row] 
      /\ UNCHANGED <<stats, affinity, bake, overdue>>
  BY DEF SaveForecast
<1>3. Moves(t) /\ d <= clock.day /\ d \in Days /\ UNCHANGED marred
  BY <1>1, <1>2, WroteMoves, TablesTyped
<1>4. row \in [Windows -> Nat \cup {-1}]
  BY <1>3, ForecastRow
<1>w. d - Week \notin overdue => row[Week] \in {-1, 100 * Recorded(p, d)}
  BY <1>3, ForecastRow
<1> HIDE DEF row, d
<1>5. /\ forecasts' \in DemandForecasts /\ forecasts'[p][d] = row
      /\ \A q \in Products, e \in Days : q # p \/ e # d => forecasts'[q][e] = forecasts[q][e]
  BY <1>2, <1>3, <1>4, TablesTyped DEF DemandForecasts
<1>6. UNCHANGED <<clock, made>>
  BY <1>3 DEF Moves
<1>7. \A q, e : Recorded(q, e)' = Recorded(q, e)
  BY <1>2 DEF Recorded
<1>8. StatsOK' /\ PairsWhole' /\ PairsOK'
  BY <1>1, <1>2, <1>3, <1>6, OthersKept, StatsKept, PairsKept
<1>9. ForecastsOK'
  <2>1. ~(d > clock.day)
    BY <1>3, TablesTyped, BoundsAssumption DEF Days
  <2>2. ForecastsOK
    BY DEF IInv
  <2>3. forecasts'[p][d][Week] = row[Week]
    BY <1>5
  <2> SUFFICES ASSUME NEW q \in Products, NEW e \in Days
               PROVE  /\ e - Week \notin overdue => forecasts'[q][e][Week] \in {-1, 100 * Recorded(q, e)}
                      /\ e > clock.day => forecasts'[q][e][Week] = -1 /\ bake[q][e] = NoAdvice
    BY <1>2, <1>6, <1>7 DEF ForecastsOK
  <2>4. CASE q = p /\ e = d
    <3>1. bake[q][e] = bake[p][d] /\ forecasts'[q][e][Week] = row[Week]
      BY <2>3, <2>4
    <3> QED
      BY <1>w, <2>1, <2>4, <3>1
  <2>5. CASE ~(q = p /\ e = d)
    BY <1>5, <2>2, <2>5 DEF ForecastsOK
  <2> QED
    BY <2>4, <2>5
<1>10. BakeOK'
  BY <1>2, <1>6, <1>7 DEF IInv, BakeOK
<1> QED
  BY <1>1, <1>2, <1>3, <1>5, <1>8, <1>9, <1>10, TablesTyped, TaskStep

\* The advice takes what was recorded the week before, or the default.
LEMMA SaveRecommendationStep ==
    ASSUME IInv, NEW n \in Days, NEW p \in Products, NEW stock \in Stocks,
           NEW capacity \in Capacities, SaveRecommendation(n, p, stock, capacity)
    PROVE  IInv'
<1> DEFINE t == <<"inventory_optimization", n>>
           d == runs[t].date
           filled == [q \in Products |-> [forecasts[q] EXCEPT ![d][Week] = Forecast(q, d, Week)]]
           row == forecasts'[p][d][Week]
           advice == recommend_for_product(row, stock, capacity)
<1>1. t \in Tasks /\ t[1] # Statistics /\ t[1] # Affinity
  BY TaskOfDay DEF Statistics, Affinity
<1>2. /\ Wrote(t, p) /\ forecasts' = IF forecasts[p][d][Week] = -1 THEN filled ELSE forecasts
      /\ bake' = [bake EXCEPT ![p][d] = advice] /\ UNCHANGED <<stats, affinity, overdue>>
  BY DEF SaveRecommendation
<1>3. Moves(t) /\ d <= clock.day /\ d \in Days /\ UNCHANGED marred
  BY <1>1, <1>2, WroteMoves, TablesTyped
<1>4. UNCHANGED <<clock, made>>
  BY <1>3 DEF Moves
<1>5. \A q, e : Recorded(q, e)' = Recorded(q, e)
  BY <1>2 DEF Recorded
<1>6. StatsOK' /\ PairsWhole' /\ PairsOK'
  BY <1>1, <1>2, <1>3, <1>4, OthersKept, StatsKept, PairsKept
<1>7. forecasts \in DemandForecasts /\ Week \in Windows
      /\ \A q \in Products, e \in Days :
            /\ e - Week \notin overdue => forecasts[q][e][Week] \in {-1, 100 * Recorded(q, e)}
            /\ e > clock.day => forecasts[q][e][Week] = -1
  BY TablesTyped DEF Windows, IInv, ForecastsOK
<1>8. /\ filled \in DemandForecasts
      /\ \A q \in Products : filled[q][d][Week] = Forecast(q, d, Week)
      /\ \A q \in Products, e \in Days : e # d => filled[q][e] = forecasts[q][e]
  <2>1. \A q \in Products : Forecast(q, d, Week) \in Nat \cup {-1}
    BY <1>3, <1>7, ForecastRow
  <2>2. ASSUME NEW q \in Products
        PROVE  /\ filled[q] \in [Days -> [Windows -> Nat \cup {-1}]]
               /\ filled[q][d][Week] = Forecast(q, d, Week)
               /\ \A e \in Days : e # d => filled[q][e] = forecasts[q][e]
    <3>1. forecasts[q] \in [Days -> [Windows -> Nat \cup {-1}]]
      BY <1>7 DEF DemandForecasts
    <3>2. filled[q] = [forecasts[q] EXCEPT ![d][Week] = Forecast(q, d, Week)]
      OBVIOUS
    <3> HIDE DEF filled
    <3> QED
      BY <1>3, <1>7, <2>1, <3>1, <3>2
  <2>3. filled \in DemandForecasts
    BY <2>2 DEF DemandForecasts
  <2> HIDE DEF filled
  <2> QED
    BY <2>2, <2>3
<1>9. \A q \in Products :
          /\ Forecast(q, d, Week) \in Nat \cup {-1}
          /\ d - Week \notin overdue => Forecast(q, d, Week) \in {-1, 100 * Recorded(q, d)}
          /\ Forecast(q, d, Week) = -1 => Recorded(q, d) = 0
  BY <1>3, ForecastRow
<1> HIDE DEF filled, d
<1>10. /\ forecasts' \in DemandForecasts
       /\ \A q \in Products, e \in Days :
             e - Week \notin overdue => forecasts'[q][e][Week] \in {-1, 100 * Recorded(q, e)}
       /\ \A q \in Products, e \in Days : e # d => forecasts'[q][e][Week] = forecasts[q][e][Week]
       /\ forecasts'[p][d][Week] = -1 => Recorded(p, d) = 0
  <2>1. CASE forecasts[p][d][Week] = -1
    <3>1. forecasts' = filled
      BY <1>2, <2>1
    <3> QED
      BY <1>3, <1>7, <1>8, <1>9, <3>1
  <2>2. CASE forecasts[p][d][Week] # -1
    BY <1>2, <1>3, <1>7, <2>2
  <2> QED
    BY <2>1, <2>2
<1>11. /\ row \in Nat \cup {-1} /\ (row = -1 => Recorded(p, d) = 0) /\ Recorded(p, d) \in Nat
       /\ d - Week \notin overdue => row \in {-1, 100 * Recorded(p, d)}
  <2>1. Recorded(p, d) \in Nat
    BY <1>3, RecordedNat DEF IInv
  <2>2. row \in Nat \cup {-1}
    BY <1>3, <1>7, <1>10 DEF DemandForecasts
  <2> QED
    BY <1>3, <1>10, <2>1, <2>2
<1> HIDE DEF row
<1>12. advice \in BakeRecommendations
       /\ advice.forecast = IF row \div 100 <= 0 THEN DefaultDemand ELSE row \div 100
  BY <1>11, Recommendation
<1>13. d - Week \notin overdue =>
          advice.forecast = IF Recorded(p, d) = 0 THEN DefaultDemand ELSE Recorded(p, d)
  <2> HIDE DEF advice
  <2> HAVE d - Week \notin overdue
  <2>1. CASE row = -1
    BY <1>11, <1>12, <2>1
  <2>2. CASE row = 100 * Recorded(p, d)
    <3>1. row \div 100 = Recorded(p, d)
      BY <1>11, <2>2
    <3> QED
      BY <1>11, <1>12, <3>1
  <2> QED
    BY <1>11, <2>1, <2>2
<1> HIDE DEF advice
<1>14. /\ bake' \in [Products -> [Days -> BakeRecommendations \cup {NoAdvice}]]
       /\ bake'[p][d] = advice
       /\ \A q \in Products, e \in Days : q # p \/ e # d => bake'[q][e] = bake[q][e]
  BY <1>2, <1>3, <1>12, TablesTyped
<1>15. ForecastsOK'
  <2>1. \A e \in Days : e > clock.day => e # d
    BY <1>3, TablesTyped, BoundsAssumption DEF Days
  <2>2. \A q \in Products, e \in Days : e > clock.day => bake[q][e] = NoAdvice
    BY DEF IInv, ForecastsOK
  <2> QED
    BY <1>2, <1>4, <1>5, <1>7, <1>10, <1>14, <2>1, <2>2 DEF ForecastsOK
<1>16. BakeOK'
  <2>1. BakeOK
    BY DEF IInv
  <2> QED
    BY <1>2, <1>5, <1>13, <1>14, <2>1 DEF BakeOK
<1> QED
  BY <1>1, <1>3, <1>2, <1>6, <1>10, <1>14, <1>15, <1>16, TablesTyped, TaskStep

\* A run is cut off: what is left to be shown is the pairs and the type.
LEMMA CutOff ==
    ASSUME IInv, NEW t \in Tasks, runs' = [runs EXCEPT ![t] = Idle],
           UNCHANGED <<part, clock, made, stats, forecasts, affinity, bake, overdue>>,
           owed' \subseteq owed, owed \ {t} \subseteq owed',
           failures' \in [Tasks -> Nat], faults' \in 0 .. MaxFaults, marred' \in BOOLEAN,
           \/ marred'
           \/ UNCHANGED marred /\ (\A u \in owed : u[1] = Affinity => u \in owed')
    PROVE  IInv'
<1>1. runs \in [Tasks -> Runs \cup {Idle}]
  BY DEF IInv, ShapeOK
<1>2. /\ runs' \in [Tasks -> Runs \cup {Idle}] /\ runs'[t] = Idle
      /\ \A u \in Tasks : u # t => runs'[u] = runs[u]
  BY <1>1
<1>3. TypeOK'
  BY <1>2 DEF IInv, TypeOK
<1>4. ShapeOK'
  BY <1>2 DEF IInv, ShapeOK, SeenOK, Made
<1>5. RunsOK'
  BY <1>2 DEF IInv, RunsOK
<1>6. StatsOK'
  BY <1>2, TaskOfDay, StatsKept DEF KeepsSeen
<1>7. PairsWhole' /\ PairsOK'
  BY <1>2, TaskOfDay, PairsKept
<1>8. ForecastsOK' /\ BakeOK'
  BY TablesKept
<1> QED
  BY <1>3, <1>4, <1>5, <1>6, <1>7, <1>8 DEF IInv

\* A worker dies: its task is delivered again.
LEMMA CrashStep == ASSUME IInv, NEW t \in Tasks, Crash(t) PROVE IInv'
<1>1. /\ runs' = [runs EXCEPT ![t] = Idle]
      /\ UNCHANGED <<part, clock, made, stats, forecasts, affinity, bake, owed, failures, marred, overdue>>
  BY DEF Crash
<1>2. faults' \in 0 .. MaxFaults /\ failures' \in [Tasks -> Nat] /\ marred' \in BOOLEAN
  BY <1>1, BoundsAssumption DEF Crash, IInv, TypeOK
<1> QED
  BY <1>1, <1>2, CutOff

\* A task raises: it is retried or given up, and then the pairs may be marred.
LEMMA RaisesStep ==
    ASSUME IInv, NEW t \in Tasks, Raises(t), faults' \in 0 .. MaxFaults
    PROVE  IInv'
<1> DEFINE dead == failures[t] = max_retries
<1>1. /\ runs' = [runs EXCEPT ![t] = Idle]
      /\ UNCHANGED <<part, clock, made, stats, forecasts, affinity, bake, overdue>>
      /\ failures' = [failures EXCEPT ![t] = @ + 1]
      /\ owed' = IF dead THEN owed \ {t} ELSE owed
      /\ marred' = (marred \/ (dead /\ t[1] = Affinity))
  BY DEF Raises, Affinity
<1>2. failures' \in [Tasks -> Nat]
  BY <1>1 DEF IInv, TypeOK
<1>3. marred \in BOOLEAN
  BY TablesTyped
<1> HIDE DEF dead
<1>4. marred' \in BOOLEAN /\ owed' \subseteq owed /\ owed \ {t} \subseteq owed'
  BY <1>1
<1>5. marred' \/ (UNCHANGED marred /\ \A u \in owed : u[1] = Affinity => u \in owed')
  BY <1>1, <1>3
<1> QED
  BY <1>1, <1>2, <1>4, <1>5, CutOff

\* An exception from outside,
LEMMA FailStep == ASSUME IInv, NEW t \in Tasks, Fail(t) PROVE IInv'
<1>1. faults' \in 0 .. MaxFaults /\ Raises(t)
  BY BoundsAssumption DEF Fail, IInv, TypeOK
<1> QED
  BY <1>1, RaisesStep

\* ... or the database refuses a pair that is there.
LEMMA InsertRefusedStep ==
    ASSUME IInv, NEW n \in Days, NEW pair \in Pairs, InsertRefused(n, pair)
    PROVE  IInv'
<1>1. <<Affinity, n>> \in Tasks
  BY TaskOfDay
<1>2. Raises(<<Affinity, n>>) /\ UNCHANGED faults
  BY DEF InsertRefused, Affinity
<1>3. faults' \in 0 .. MaxFaults
  BY <1>2 DEF IInv, TypeOK
<1> QED
  BY <1>1, <1>2, <1>3, RaisesStep

\* The invariant is inductive.
LEMMA DemandNext == IInv /\ [Next]_vars => IInv'
<1> SUFFICES ASSUME IInv, [Next]_vars PROVE IInv'
  OBVIOUS
<1>1. CASE Shop
  BY <1>1, ShopStep
<1>2. CASE Beat
  BY <1>2, BeatStep
<1>3. CASE Midnight
  BY <1>3, MidnightStep
<1>4. CASE TaskStarts
  <2>1. PICK n \in Days :
           StartStats(n) \/ StartAffinity(n) \/ StartForecast(n) \/ StartOptimization(n)
    BY <1>4 DEF TaskStarts
  <2>2. CASE StartStats(n)
    BY <2>2, StartStatsStep
  <2>3. CASE StartAffinity(n)
    BY <2>3, StartAffinityStep
  <2>4. CASE StartForecast(n)
    BY <2>4, TaskOfDay, StartPlainStep DEF StartForecast, Statistics, Affinity
  <2>5. CASE StartOptimization(n)
    BY <2>5, TaskOfDay, StartPlainStep DEF StartOptimization, Statistics, Affinity
  <2> QED
    BY <2>1, <2>2, <2>3, <2>4, <2>5
<1>5. CASE TaskWrites
  <2>1. PICK n \in Days :
           \/ \E p \in Products : SaveStats(n, p) \/ SaveForecast(n, p)
           \/ DeleteAffinity(n)
           \/ \E pair \in Pairs : InsertAffinity(n, pair) \/ InsertRefused(n, pair)
           \/ \E p \in Products, stock \in Stocks, capacity \in Capacities :
                 SaveRecommendation(n, p, stock, capacity)
    BY <1>5 DEF TaskWrites
  <2>2. ASSUME NEW p \in Products, SaveStats(n, p) PROVE IInv'
    BY <2>2, SaveStatsStep
  <2>3. ASSUME NEW p \in Products, SaveForecast(n, p) PROVE IInv'
    BY <2>3, SaveForecastStep
  <2>4. CASE DeleteAffinity(n)
    BY <2>4, DeleteAffinityStep
  <2>5. ASSUME NEW pair \in Pairs, InsertAffinity(n, pair) PROVE IInv'
    BY <2>5, InsertAffinityStep
  <2>6. ASSUME NEW pair \in Pairs, InsertRefused(n, pair) PROVE IInv'
    BY <2>6, InsertRefusedStep
  <2>7. ASSUME NEW p \in Products, NEW stock \in Stocks, NEW capacity \in Capacities,
               SaveRecommendation(n, p, stock, capacity)
        PROVE  IInv'
    BY <2>7, SaveRecommendationStep
  <2> QED
    BY <2>1, <2>2, <2>3, <2>4, <2>5, <2>6, <2>7
<1>6. ASSUME NEW t \in Tasks, Crash(t) PROVE IInv'
  BY <1>6, CrashStep
<1>7. ASSUME NEW t \in Tasks, Fail(t) PROVE IInv'
  BY <1>7, FailStep
<1>8. CASE UNCHANGED vars
  <2>1. UNCHANGED <<part, clock, made, stats, forecasts, affinity, bake, owed, runs, failures,
                    faults, marred, overdue>>
    BY <1>8 DEF vars
  <2>2. TypeOK' /\ ShapeOK' /\ RunsOK'
    BY <2>1 DEF IInv, TypeOK, ShapeOK, SeenOK, RunsOK, Made
  <2>3. StatsOK'
    BY <2>1, StatsKept DEF KeepsSeen
  <2>4. PairsWhole' /\ PairsOK'
    BY <2>1, PairsKept
  <2>5. ForecastsOK' /\ BakeOK'
    BY <2>1, TablesKept
  <2> QED
    BY <2>2, <2>3, <2>4, <2>5 DEF IInv
<1> QED
  BY <1>1, <1>2, <1>3, <1>4, <1>5, <1>6, <1>7, <1>8 DEF Next, Work

-----------------------------------------------------------------------------
(* The theorems. *)

\* The invariant holds in every state: the shop, the clock, the four tasks, the crashes
\* of their workers and their exceptions.
THEOREM DemandSafe == Spec => []IInv
  BY DemandInit, DemandNext, PTL DEF Spec

\* Every variable has its type; a forecast divides by no zero.
THEOREM DemandTypeCorrect == Spec => []TypeOK
<1>1. IInv => TypeOK
  BY DEF IInv
<1> QED
  BY <1>1, DemandSafe, PTL

\* Unless refresh_product_affinity is still to run, or two of its runs have overlapped
\* or one was given up since the last one began alone, each pair of products is
\* recorded in both directions with the same count.
THEOREM PairsStayWhole == Spec => []PairsWhole
<1>1. IInv => PairsWhole
  BY DEF IInv
<1> QED
  BY <1>1, DemandSafe, PTL

\* The demand that recommend_for_product takes is what aggregate_daily_stats recorded
\* a week before, unless that was written a week late, and no more than what was
\* ordered on that day.
THEOREM BakersToldSales == Spec => []BakeFollowsSales
<1>1. IInv => BakeFollowsSales
  <2> SUFFICES ASSUME IInv, NEW p \in Products, NEW d \in Days, bake[p][d] # NoAdvice
               PROVE  /\ d - Week \notin overdue =>
                            bake[p][d].forecast = IF Recorded(p, d) = 0 THEN DefaultDemand
                                                  ELSE Recorded(p, d)
                      /\ Recorded(p, d) <= UnitsOrdered(p, d - Week)
    <3>1. \A e : {o \in {o \in Orders : made[o] # NotMade} : made[o].day = e} = Ordered(e)
      BY DEF Ordered
    <3> QED
      BY <3>1 DEF BakeFollowsSales, Recorded, UnitsOrdered, Units
  <2>1. d - Week \notin overdue =>
           bake[p][d].forecast = IF Recorded(p, d) = 0 THEN DefaultDemand ELSE Recorded(p, d)
    BY DEF IInv, BakeOK
  <2>2. CASE d < Week
    <3>1. UnitsOrdered(p, d - Week) \in Nat
      BY UnitsOrderedNat DEF IInv
    <3> QED
      BY <2>1, <2>2, <3>1 DEF Recorded
  <2>3. CASE ~(d < Week)
    <3>1. d - Week \in Days
      BY <2>3, WeekAssumption, BoundsAssumption DEF Days
    <3> QED
      BY <2>1, <2>3, <3>1 DEF Recorded, IInv, StatsOK
  <2> QED
    BY <2>2, <2>3
<1> QED
  BY <1>1, DemandSafe, PTL

=============================================================================
