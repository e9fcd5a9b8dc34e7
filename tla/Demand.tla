------------------------------- MODULE Demand -------------------------------
(***************************************************************************)
(* The nightly pipeline of the bakery (apps/intelligence): the units sold  *)
(* of the day, the products that are bought together, the demand forecast  *)
(* and the recommendation how much to bake.                                *)
(*                                                                         *)
(* Celery beat sends the tasks half an hour apart.  They may overlap, also *)
(* with those of the next nights: nothing waits for them, not even the     *)
(* date.  A task reads, then writes row by row, each row in a transaction  *)
(* of its own.  When its worker dies it is delivered again and starts      *)
(* afresh; when it raises an exception it is retried max_retries times,    *)
(* and then given up (dead letter).                                        *)
(*                                                                         *)
(* Products are the available ones, and the list of pairs is not cut off   *)
(* at 500.  The week has Week days.                                        *)
(***************************************************************************)
EXTENDS Sums

CONSTANTS
    Products,
    Orders,
    Basket,          \* the units of each product in an order
    Week,            \* days of a week
    LastDay,         \* bound: days 0 .. LastDay
    OrderDays,       \* bound: the days on which an order may be made
    Parts,           \* bound: sets of tasks that are looked at together
    Stocks,          \* available_quantity when a recommendation is computed
    Capacities,      \* available_units of the day's capacity row, or NoCapacity
    NoCapacity,
    LowStock,        \* low_stock_threshold
    DefaultDemand,   \* the demand assumed without a forecast
    max_retries,     \* CrumbsTask.max_retries
    Workers,         \* tasks that run at a time (--concurrency)
    MaxRefunds,      \* bound: orders that are refunded
    MaxOwed,         \* bound: tasks at the broker
    MaxFaults        \* bound: workers that die and exceptions from outside

\* OrderItem: the quantities of an order.
Baskets == [Products -> Nat]

ASSUME OrderDaysAssumption == OrderDays \in [Orders -> SUBSET (0 .. LastDay)]
ASSUME BasketAssumption == Basket \in [Orders -> Baskets]
ASSUME WeekAssumption == Week \in Nat \ {0} /\ DefaultDemand \in Nat \ {0}
ASSUME BoundsAssumption == LastDay \in Nat /\ MaxFaults \in Nat
ASSUME WorkerAssumption == max_retries \in Nat /\ Workers \in Nat /\ MaxOwed \in Nat

\* Both quantities are clamped at zero.
ASSUME StockAssumption == Stocks \subseteq Nat /\ Capacities \subseteq Nat \cup {NoCapacity}

VARIABLES
    part,       \* the tasks that beat sends
    clock,      \* the day, and how many of its tasks beat has sent
    made,       \* per order: its day and payment status
    stats,      \* ProductDailyStats.units_sold; 0 if there is no row
    forecasts,  \* ProductDemandForecast.predicted_units in hundredths; -1: no row
    affinity,   \* ProductCoPurchase.co_count; 0 if there is no row
    bake,       \* ProductBakeRecommendation
    owed,       \* tasks at the broker
    runs,       \* the run of each task
    failures,   \* exceptions of each task
    faults,     \* workers that died and exceptions from outside
    marred,     \* the pairs: two runs have overlapped, or one was given up
    overdue     \* days whose statistics were written a week late

vars == <<part, clock, made, stats, forecasts, affinity, bake, owed, runs,
          failures, faults, marred, overdue>>

Days == 0 .. LastDay

\* The order of the beat schedule, from 02:00 to 03:30.
Schedule == <<"daily_product_stats", "user_behavior_aggregation", "demand_forecast",
              "inventory_optimization">>

Names == {Schedule[i] : i \in 1 .. 4}

\* The pairs have no table in common with the other three tasks: TLC may look at them
\* apart.  With Parts = {Names} all tasks are sent.
ASSUME PartsAssumption == Parts \subseteq SUBSET Names

\* A task has the day on which beat sent it.
Tasks == Names \X Days

\* The windows of the forecast are 7 and 14 days.
Windows == {Week, 2 * Week}

Pairs == {pair \in Products \X Products : pair[1] # pair[2]}

\* Among the rows of a run: all rows are deleted.
DeleteAll == <<"all", "all">>

NotMade == [status |-> "none"]
Idle == [todo |-> {}]

-----------------------------------------------------------------------------
(* The tables. *)

\* ProductDailyStats, one row per product and day (unique).
DailyStats == [Products -> [Days -> Nat]]
NoStats == [p \in Products |-> [d \in Days |-> 0]]

\* ProductDemandForecast, one row per product, day and window (unique).
DemandForecasts == [Products -> [Days -> [Windows -> Nat \cup {-1}]]]
NoForecasts == [p \in Products |-> [d \in Days |-> [w \in Windows |-> -1]]]

\* ProductCoPurchase, one row per ordered pair (unique), never of a product with itself.
CoPurchases == [Pairs -> Nat]
NoCoPurchases == [pair \in Pairs |-> 0]

\* ProductBakeRecommendation, one row per product and day (unique).
BakeRecommendations == [forecast : Nat, suggested : Nat,
                        status : {"ok", "low_stock", "overstock_risk"}]
NoAdvice == [status |-> "none"]

-----------------------------------------------------------------------------
(* What the tasks compute. *)

\* PAID_PAYMENT_STATUSES.
Paid == {o \in Orders : made[o].status = "paid"}

\* aggregate_daily_stats: the units of the paid orders that were made on the day.
UnitsSold(p, d) == Total([o \in Orders |-> Basket[o][p]], {o \in Paid : made[o].day = d})

\* refresh_product_affinity: the paid orders with both products, if there are two.
CoCount(pair) ==
    LET n == Cardinality({o \in Paid : Basket[o][pair[1]] > 0 /\ Basket[o][pair[2]] > 0})
    IN  IF n < 2 THEN 0 ELSE n

\* Defect: the weekday is not taken into account.
ForecastOfAverage(p, d, w) ==
    LET rows == {e \in Days : d - w <= e /\ e < d /\ stats[p][e] > 0}
    IN  IF rows = {} THEN -1 ELSE (100 * Total(stats[p], rows)) \div Cardinality(rows)

\* moving_avg * weekday_factor, where the factor is weekday_avg / moving_avg.  A
\* day without sales has no row, so that no average is zero but the weekday's.  A
\* window holds a weekday at most twice: hundredths are exact.
forecast_product(p, d, w) ==
    LET rows == {e \in Days : d - w <= e /\ e < d /\ stats[p][e] > 0}
        n == Cardinality(rows)
        total == Total(stats[p], rows)
        same == {e \in rows : (d - e) % Week = 0}
        weekday_days == IF same = {} THEN 1 ELSE Cardinality(same)
        weekday_units == Total(stats[p], same)
    IN  IF rows = {} THEN -1
        ELSE (100 * total * (weekday_units * n)) \div (n * (weekday_days * total))

\* generate_forecasts writes no row for a product without statistics.
Forecast(p, d, w) ==
    IF forecast_product(p, d, w) = -1 THEN forecasts[p][d][w] ELSE forecast_product(p, d, w)

Least(a, b) == IF a <= b THEN a ELSE b
Greatest(a, b) == IF a >= b THEN a ELSE b

\* recommend_for_product, with the forecast row of the week's window.
recommend_for_product(row, stock, capacity) ==
    LET predicted == IF row \div 100 <= 0 THEN DefaultDemand ELSE row \div 100
        safety == (predicted * 15) \div 100 + 1
        wanted == Greatest(0, predicted + safety - stock)
    IN  [forecast |-> predicted,
         suggested |-> IF capacity = NoCapacity THEN wanted ELSE Least(wanted, capacity),
         status |-> IF stock <= LowStock THEN "low_stock"
                    ELSE IF 2 * stock > 3 * predicted THEN "overstock_risk"
                    ELSE "ok"]

-----------------------------------------------------------------------------
(* The shop and the clock. *)

PlaceOrder(o) ==
    /\ made[o] = NotMade /\ clock.day \in OrderDays[o]
    /\ made' = [made EXCEPT ![o] = [day |-> clock.day, status |-> "pending"]]
    /\ UNCHANGED <<part, clock, stats, forecasts, affinity, bake, owed, runs,
                   failures, faults, marred, overdue>>

\* Payment, and a refund of it, on the same day or later; the bound on the days ends
\* them a day before the tasks.
ChangePayment(o, from, to) ==
    /\ made[o].status = from /\ clock.day < LastDay
    /\ to = "refunded" =>
          Cardinality({x \in Orders : made[x].status = "refunded"}) < MaxRefunds
    /\ made' = [made EXCEPT ![o].status = to]
    /\ UNCHANGED <<part, clock, stats, forecasts, affinity, bake, owed, runs,
                   failures, faults, marred, overdue>>

\* The entries of the night that are still to come.
Due == {i \in 1 .. 4 : clock.sent < i /\ Schedule[i] \in part}

Beat ==
    /\ Cardinality(owed) < MaxOwed
    /\ \E i \in Due :
          /\ \A j \in Due : i <= j
          /\ clock' = [clock EXCEPT !.sent = i]
          /\ owed' = owed \cup {<<Schedule[i], clock.day>>}
    /\ UNCHANGED <<part, made, stats, forecasts, affinity, bake, runs, failures, faults,
                   marred, overdue>>

\* The date changes, whatever the workers have done.
Midnight ==
    /\ Due = {} /\ clock.day < LastDay
    /\ clock' = [day |-> clock.day + 1, sent |-> 0]
    /\ UNCHANGED <<part, made, stats, forecasts, affinity, bake, owed, runs, failures, faults,
                   marred, overdue>>

-----------------------------------------------------------------------------
(* The tasks.  A run has its date (localdate, when it starts), the rows it    *)
(* has still to write and what it has read for them.                         *)

Running == {t \in Tasks : runs[t] # Idle}

\* A task is taken from the broker and acknowledged when it is over.
Start(t, run) ==
    /\ t \in owed /\ runs[t] = Idle /\ Cardinality(Running) < Workers
    /\ runs' = [runs EXCEPT ![t] = IF run.todo = {} THEN Idle ELSE run]
    /\ owed' = IF run.todo = {} THEN owed \ {t} ELSE owed
    /\ UNCHANGED <<part, clock, made, stats, forecasts, affinity, bake, failures, faults, overdue>>

\* The rows are written in the order in which the database returns them.
NextRow(todo) == IF DeleteAll \in todo THEN DeleteAll ELSE CHOOSE row \in todo : TRUE

\* One row is written; the last one ends the task.
Wrote(t, row) ==
    LET rest == runs[t].todo \ {row}
    IN  /\ runs[t] # Idle /\ row = NextRow(runs[t].todo)
        /\ runs' = [runs EXCEPT ![t] = IF rest = {} THEN Idle ELSE [@ EXCEPT !.todo = rest]]
        /\ owed' = IF rest = {} THEN owed \ {t} ELSE owed
        /\ UNCHANGED <<part, clock, made, failures, faults, marred>>

\* Defect: the task is acknowledged before it runs and is not delivered again.
CrashAfterAck(t) ==
    /\ faults < MaxFaults /\ runs[t] # Idle
    /\ faults' = faults + 1
    /\ runs' = [runs EXCEPT ![t] = Idle]
    /\ owed' = owed \ {t}
    /\ UNCHANGED <<part, clock, made, stats, forecasts, affinity, bake, failures, marred, overdue>>

\* acks_late and reject_on_worker_lost: the task is still owed.
Crash(t) ==
    /\ faults < MaxFaults /\ runs[t] # Idle
    /\ faults' = faults + 1
    /\ runs' = [runs EXCEPT ![t] = Idle]
    /\ UNCHANGED <<part, clock, made, stats, forecasts, affinity, bake, owed, failures, marred, overdue>>

\* The task raises: it is retried, or after max_retries it is a dead letter.
Raises(t) ==
    LET dead == failures[t] = max_retries
    IN  /\ runs[t] # Idle
        /\ failures' = [failures EXCEPT ![t] = @ + 1]
        /\ runs' = [runs EXCEPT ![t] = Idle]
        /\ owed' = IF dead THEN owed \ {t} ELSE owed
        /\ marred' = (marred \/ (dead /\ t[1] = "user_behavior_aggregation"))
        /\ UNCHANGED <<part, clock, made, stats, forecasts, affinity, bake, overdue>>

DeadLetter(t) == failures[t] > max_retries

\* An exception from outside: the database does not answer, for instance.
Fail(t) ==
    /\ faults < MaxFaults /\ faults' = faults + 1
    /\ Raises(t)

StartStats(sent) ==
    LET units == [p \in Products |-> UnitsSold(p, clock.day)]
    IN  /\ Start(<<"daily_product_stats", sent>>,
                 [date |-> clock.day, todo |-> {p \in Products : units[p] > 0}, seen |-> units])
        /\ UNCHANGED marred

\* Its last row may be written a week after it has started.
SaveStats(sent, p) ==
    LET run == runs[<<"daily_product_stats", sent>>]
    IN  /\ Wrote(<<"daily_product_stats", sent>>, p)
        /\ stats' = [stats EXCEPT ![p][run.date] = run.seen[p]]
        /\ overdue' = IF clock.day < run.date + Week THEN overdue ELSE overdue \cup {run.date}
        /\ UNCHANGED <<forecasts, affinity, bake>>

\* The runs of refresh_product_affinity.
Refreshing == {t \in Running : t[1] = "user_behavior_aggregation"}

\* The pairs are counted, then all rows are deleted, then the new ones inserted.
StartAffinity(sent) ==
    LET counts == [pair \in Pairs |-> CoCount(pair)]
    IN  /\ Start(<<"user_behavior_aggregation", sent>>,
                 [date |-> clock.day, seen |-> counts,
                  todo |-> {DeleteAll} \cup {pair \in Pairs : counts[pair] > 0}])
        /\ marred' = (Refreshing # {})

DeleteAffinity(sent) ==
    /\ Wrote(<<"user_behavior_aggregation", sent>>, DeleteAll)
    /\ affinity' = NoCoPurchases
    /\ UNCHANGED <<stats, forecasts, bake, overdue>>

InsertAffinity(sent, pair) ==
    LET run == runs[<<"user_behavior_aggregation", sent>>]
    IN  /\ affinity[pair] = 0
        /\ Wrote(<<"user_behavior_aggregation", sent>>, pair)
        /\ affinity' = [affinity EXCEPT ![pair] = run.seen[pair]]
        /\ UNCHANGED <<stats, forecasts, bake, overdue>>

\* unique_co_purchase_pair: another run has inserted the row.
InsertRefused(sent, pair) ==
    LET t == <<"user_behavior_aggregation", sent>>
    IN  /\ affinity[pair] > 0 /\ runs[t] # Idle /\ pair = NextRow(runs[t].todo)
        /\ Raises(t)
        /\ UNCHANGED faults

StartForecast(sent) ==
    /\ Start(<<"demand_forecast", sent>>,
             [date |-> clock.day, todo |-> Products, seen |-> << >>])
    /\ UNCHANGED marred

SaveForecast(sent, p) ==
    LET d == runs[<<"demand_forecast", sent>>].date
    IN  /\ Wrote(<<"demand_forecast", sent>>, p)
        /\ forecasts' = [forecasts EXCEPT ![p][d] = [w \in Windows |-> Forecast(p, d, w)]]
        /\ UNCHANGED <<stats, affinity, bake, overdue>>

StartOptimization(sent) ==
    /\ Start(<<"inventory_optimization", sent>>,
             [date |-> clock.day, todo |-> Products, seen |-> << >>])
    /\ UNCHANGED marred

\* Defect: a product without a forecast is passed over.
RecommendWithForecast(sent, p, stock, capacity) ==
    LET d == runs[<<"inventory_optimization", sent>>].date
    IN  /\ Wrote(<<"inventory_optimization", sent>>, p)
        /\ bake' = IF forecasts[p][d][Week] = -1 THEN bake
                   ELSE [bake EXCEPT ![p][d] =
                            recommend_for_product(forecasts[p][d][Week], stock, capacity)]
        /\ UNCHANGED <<stats, forecasts, affinity, overdue>>

\* If the product has no forecast for the week's window, those of all products are
\* computed first.
SaveRecommendation(sent, p, stock, capacity) ==
    LET d == runs[<<"inventory_optimization", sent>>].date
        filled == [q \in Products |->
                      [forecasts[q] EXCEPT ![d][Week] = Forecast(q, d, Week)]]
    IN  /\ Wrote(<<"inventory_optimization", sent>>, p)
        /\ forecasts' = IF forecasts[p][d][Week] = -1 THEN filled ELSE forecasts
        /\ bake' = [bake EXCEPT ![p][d] =
                        recommend_for_product(forecasts'[p][d][Week], stock, capacity)]
        /\ UNCHANGED <<stats, affinity, overdue>>

-----------------------------------------------------------------------------
Init ==
    /\ part \in Parts
    /\ clock = [day |-> 0, sent |-> 0]
    /\ made = [o \in Orders |-> NotMade]
    /\ stats = NoStats /\ forecasts = NoForecasts /\ affinity = NoCoPurchases
    /\ bake = [p \in Products |-> [d \in Days |-> NoAdvice]]
    /\ owed = {}
    /\ runs = [t \in Tasks |-> Idle]
    /\ failures = [t \in Tasks |-> 0]
    /\ faults = 0 /\ marred = FALSE /\ overdue = {}

Shop ==
    \E o \in Orders : \/ PlaceOrder(o)
                      \/ ChangePayment(o, "pending", "paid")
                      \/ ChangePayment(o, "paid", "refunded")

TaskStarts == \E n \in Days :
    StartStats(n) \/ StartAffinity(n) \/ StartForecast(n) \/ StartOptimization(n)

TaskWrites == \E n \in Days :
    \/ \E p \in Products : SaveStats(n, p) \/ SaveForecast(n, p)
    \/ DeleteAffinity(n)
    \/ \E pair \in Pairs : InsertAffinity(n, pair) \/ InsertRefused(n, pair)
    \/ \E p \in Products, stock \in Stocks, capacity \in Capacities :
          SaveRecommendation(n, p, stock, capacity)

Work == Beat \/ Midnight \/ TaskStarts \/ TaskWrites

Next == Shop \/ Work \/ \E t \in Tasks : Crash(t) \/ Fail(t)

Spec == Init /\ [][Next]_vars

\* Time passes and the workers go on with the tasks; customers need not do anything.
FairSpec == Spec /\ WF_vars(Work)

-----------------------------------------------------------------------------
(* Properties. *)

\* Every variable has its type.
TypeOK ==
    /\ part \in Parts
    /\ clock \in [day : Days, sent : 0 .. 4]
    /\ made \in [Orders -> {NotMade} \cup [day : Days, status : {"pending", "paid", "refunded"}]]
    /\ stats \in DailyStats /\ forecasts \in DemandForecasts /\ affinity \in CoPurchases
    /\ bake \in [Products -> [Days -> BakeRecommendations \cup {NoAdvice}]]
    /\ owed \subseteq Tasks /\ DOMAIN runs = Tasks
    /\ failures \in [Tasks -> Nat] /\ faults \in 0 .. MaxFaults
    /\ marred \in BOOLEAN /\ overdue \subseteq Days

\* The products that were bought together: unless their task is still to run, each
\* pair is recorded in both directions with the same count, although the rows are
\* deleted and inserted one by one and the worker may die in between.  Two things
\* leave half a pair behind, until a later run does better: a run that is given up
\* after its retries, and two runs at a time.
PairsWhole ==
    (~marred /\ \A t \in owed : t[1] # "user_behavior_aggregation") =>
        \A pair \in Pairs : affinity[pair] = affinity[<<pair[2], pair[1]>>]

\* What the recommendation takes for the demand of a day are the units that were
\* recorded a week before, if any, and those were sold on that very day: whatever
\* else was sold in the window, in whatever order the tasks ran and were repeated.
\* Only statistics that are written a week late may differ from what was taken.
BakeFollowsSales ==
    \A p \in Products, d \in Days :
        LET recorded == IF d < Week THEN 0 ELSE stats[p][d - Week]
            ordered == {o \in Orders : made[o] # NotMade}
        IN  bake[p][d] # NoAdvice =>
               /\ d - Week \notin overdue =>
                     bake[p][d].forecast = IF recorded = 0 THEN DefaultDemand ELSE recorded
               /\ recorded <= Total([o \in Orders |-> Basket[o][p]],
                                    {o \in ordered : made[o].day = d - Week})

\* For every night the bakers get a recommendation for every product, of that day or
\* of the later one on which the task came to run, whether or not there is a forecast
\* for it and although workers die: or else the task is among the dead letters.
BakePlanned == "inventory_optimization" \in part => <>(\A n \in Days :
    \/ DeadLetter(<<"inventory_optimization", n>>)
    \/ \A p \in Products : \E d \in Days : n <= d /\ bake[p][d] # NoAdvice)

=============================================================================
