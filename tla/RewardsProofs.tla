--------------------------- MODULE RewardsProofs ---------------------------
(***************************************************************************)
(* What the tasks after a payment never do, for any number of customers,   *)
(* orders, workers, repeated messages and crashes: count a coupon twice,   *)
(* make points that no EARN row justifies, attribute an order with a       *)
(* coupon twice, send a reminder or a campaign again without a reason.     *)
(***************************************************************************)
EXTENDS Rewards, SumsProofs

-----------------------------------------------------------------------------
(* The invariant. *)

OrderRows == [state : {"none", "pending", "paid", "refunded"}, coupon : BOOLEAN,
              referral : BOOLEAN, promotion : Nat, total : Nat]

Types ==
    /\ orders \in [Orders -> OrderRows]
    /\ account \in [Users -> LoyaltyAccounts]
    /\ ledger \in [Users -> Nat]
    /\ redeemed \in SUBSET Orders
    /\ usage \in Nat
    /\ attributed \in [Orders -> [Sources -> Nat]]
    /\ campaign.clicks \in Nat
    /\ queue \in SUBSET Messages
    /\ worker \in [Workers -> Running \cup {Idle}]
    /\ faults \in Nat

\* The order was paid, be it refunded by now: its tasks were published.
Settled(o) == orders[o].state \in {"paid", "refunded"}

\* The sources an order is attributed to from its checkout on.
Fixed(o) ==
    {s \in Sources : \/ s = "coupon" /\ orders[o].coupon /\ calculate_discount(Subtotal[o]) > 0
                     \/ s = "referral" /\ orders[o].referral
                     \/ s = "promotion" /\ orders[o].promotion > 0}

\* Between the redemption and the commit.
Middle == {"referral", "account", "write", "attribute", "commit"}

\* A run that has inserted a redemption is the one that will commit it.
RedemptionOK(w) ==
    w.created => /\ w.message.task = "finalize" /\ w.pc \in Middle
                 /\ w.message.order \notin redeemed

\* The points a run has read were in the ledger.
PointsOK(w) ==
    /\ w.message.task = "award" /\ w.pc = "write" =>
           w.points <= ledger[Owner[w.message.order]]
    /\ w.message.task = "finalize" /\ w.reward /\ w.pc \in {"write", "attribute", "commit"} =>
           w.points <= ledger[Referrer[Owner[w.message.order]]]

\* A run for an order with a coupon comes before or after the redemption's commit, and
\* misses all of the fixed sources or none, and no other.
AttributionOK(w) ==
    w.message.task = "finalize" /\ w.pc \in Middle =>
        LET o == w.message.order
        IN  orders[o].coupon =>
               /\ w.created \/ o \in redeemed
               /\ w.pc = "commit" /\ w.created => w.missing \ {"sms"} = Fixed(o)
               /\ w.pc = "commit" /\ ~w.created => w.missing \subseteq {"sms"}

RunOK(w) ==
    /\ w \in Running
    /\ w.message.task # "campaign" => Settled(w.message.order)
    /\ RedemptionOK(w) /\ PointsOK(w) /\ AttributionOK(w)

\* The redemption's unique constraint lets one run at a time have inserted one.
Created(t) == worker[t] # Idle /\ worker[t].created

RunsOK ==
    /\ \A t \in Workers : worker[t] = Idle \/ RunOK(worker[t])
    /\ \A s, t \in Workers : Created(s) /\ Created(t) => s = t

QueueOK == \A m \in queue : m.task # "campaign" => Settled(m.order)

UsageOK == IsFiniteSet(redeemed) /\ usage = Cardinality(redeemed)

\* Nothing is attributed before the redemption, and every fixed source with it.
OrderOK(o) ==
    /\ o \in redeemed => Settled(o)
    /\ ~Settled(o) => attributed[o] = NotAttributed
    /\ orders[o].coupon => \A s \in Sources \ {"sms"} :
           attributed[o][s] = IF o \in redeemed /\ s \in Fixed(o) THEN 1 ELSE 0

RewardsInv ==
    /\ Types
    /\ UsageOK
    /\ PointsWithinLedger
    /\ QueueOK
    /\ RunsOK
    /\ \A o \in Orders : OrderOK(o)

-----------------------------------------------------------------------------
(* Steps that change one part of the state. *)

\* A settled order's fixed sources depend on nothing else.
LEMMA FixedFrame ==
    ASSUME NEW o \in Orders, orders'[o].coupon = orders[o].coupon,
           orders'[o].referral = orders[o].referral,
           orders'[o].promotion = orders[o].promotion
    PROVE  Fixed(o)' = Fixed(o)
  BY DEF Fixed

\* Idle is no run.
LEMMA IdleIsNoRun == Idle \notin Running
  BY DEF Idle, Running

\* A run's message is of an order, or of the campaign.
LEMMA RunType ==
    ASSUME NEW w \in Running
    PROVE  /\ w.message \in Messages
           /\ w.message.task \in {"award", "finalize", "campaign"}
           /\ w.message.task # "campaign" => w.message.order \in Orders
           /\ w.created \in BOOLEAN /\ w.reward \in BOOLEAN /\ w.points \in Nat
           /\ w.missing \subseteq Sources
  BY DEF Running, Messages

\* What a run relies on depends on the orders, the ledger and the redemptions.
LEMMA RunFrame ==
    ASSUME UNCHANGED <<orders, ledger, redeemed>>, NEW w, RunOK(w)
    PROVE  RunOK(w)'
  BY DEF RunOK, RedemptionOK, PointsOK, AttributionOK, Settled, Fixed

\* One worker goes on, or takes or gives back a message.
LEMMA WorkerStep ==
    ASSUME RewardsInv, NEW t \in Workers, NEW w,
           w = Idle \/ RunOK(w),
           w # Idle /\ w.created => \A s \in Workers : Created(s) => s = t,
           worker' = [worker EXCEPT ![t] = w],
           queue' \in SUBSET Messages, QueueOK', faults' \in Nat, campaign'.clicks \in Nat,
           UNCHANGED <<orders, account, ledger, redeemed, usage, attributed>>
    PROVE  RewardsInv'
<1>1. w \in Running \cup {Idle}
  BY DEF RunOK
<1>2. worker \in [Workers -> Running \cup {Idle}]
  BY DEF RewardsInv, Types
<1>3. Types'
  BY <1>1, <1>2 DEF RewardsInv, Types
<1>4. RunsOK'
  <2>1. ASSUME NEW s \in Workers PROVE worker'[s] = Idle \/ RunOK(worker'[s])
    BY <1>2 DEF RewardsInv, RunsOK
  <2>2. \A s \in Workers : (worker[s] = Idle \/ RunOK(worker[s]))'
    <3> TAKE s \in Workers
    <3>1. CASE worker'[s] = Idle
      BY <3>1
    <3>2. CASE RunOK(worker'[s])
      BY <3>2 DEF RunOK, RedemptionOK, PointsOK, AttributionOK, Settled, Fixed
    <3> QED
      BY <2>1, <3>1, <3>2
  <2>3. ASSUME NEW s \in Workers PROVE Created(s)' <=> IF s = t THEN w # Idle /\ w.created ELSE Created(s)
    BY <1>2 DEF Created
  <2>4. \A s, u \in Workers : Created(s)' /\ Created(u)' => s = u
    BY <2>3 DEF RewardsInv, RunsOK
  <2> QED
    BY <2>2, <2>4 DEF RunsOK
<1>5. UsageOK' /\ PointsWithinLedger' /\ \A o \in Orders : OrderOK(o)'
  BY DEF RewardsInv, UsageOK, PointsWithinLedger, OrderOK, Settled, Fixed
<1> QED
  BY <1>3, <1>4, <1>5 DEF RewardsInv

\* Messages are published, or something else happens.
LEMMA QueueStep ==
    ASSUME RewardsInv,
           queue' \in SUBSET Messages, QueueOK', faults' \in Nat, campaign'.clicks \in Nat,
           UNCHANGED <<orders, account, ledger, redeemed, usage, attributed, worker>>
    PROVE  RewardsInv'
<1>1. Types'
  BY DEF RewardsInv, Types
<1>2. RunsOK'
  BY DEF RewardsInv, RunsOK, Created, RunOK, RedemptionOK, PointsOK, AttributionOK, Settled, Fixed
<1>3. UsageOK' /\ PointsWithinLedger' /\ \A o \in Orders : OrderOK(o)'
  BY DEF RewardsInv, UsageOK, PointsWithinLedger, OrderOK, Settled, Fixed
<1> QED
  BY <1>1, <1>2, <1>3 DEF RewardsInv

\* One order changes; once it is settled, it only changes its state.
LEMMA OrdersStep ==
    ASSUME RewardsInv, NEW o \in Orders, NEW r \in OrderRows,
           orders' = [orders EXCEPT ![o] = r],
           Settled(o) => /\ r.state \in {"paid", "refunded"}
                         /\ r.coupon = orders[o].coupon
                         /\ r.referral = orders[o].referral
                         /\ r.promotion = orders[o].promotion,
           queue' \in SUBSET Messages, QueueOK', faults' \in Nat, campaign'.clicks \in Nat,
           UNCHANGED <<account, ledger, redeemed, usage, attributed, worker>>
    PROVE  RewardsInv'
<1> USE DEF RewardsInv
<1>1. Types'
  BY DEF Types
<1>2. \A p \in Orders : orders'[p] = IF p = o THEN r ELSE orders[p]
  BY DEF Types
<1>3. ASSUME NEW p \in Orders, Settled(p)
      PROVE  Settled(p)' /\ Fixed(p)' = Fixed(p) /\ orders'[p].coupon = orders[p].coupon
  BY <1>2, <1>3, FixedFrame DEF Settled
<1>4. ASSUME NEW t \in Workers PROVE (worker[t] = Idle \/ RunOK(worker[t]))'
  <2>1. CASE worker[t] = Idle
    BY <2>1
  <2>2. CASE RunOK(worker[t])
    <3> DEFINE p == worker[t].message.order
    <3>1. worker[t] \in Running
      BY <2>2 DEF RunOK
    <3>2. CASE worker[t].message.task = "campaign"
      BY <2>2, <3>2 DEF RunOK, RedemptionOK, PointsOK, AttributionOK
    <3>3. CASE worker[t].message.task # "campaign"
      <4>1. p \in Orders /\ Settled(p)
        BY <2>2, <3>1, <3>3, RunType DEF RunOK
      <4>2. Settled(p)' /\ Fixed(p)' = Fixed(p) /\ orders'[p].coupon = orders[p].coupon
        BY <1>3, <4>1
      <4> QED
        BY <2>2, <4>2 DEF RunOK, RedemptionOK, PointsOK, AttributionOK
    <3> QED
      BY <3>2, <3>3
  <2> QED
    BY <2>1, <2>2 DEF RunsOK
<1>5. RunsOK'
  BY <1>4 DEF RunsOK, Created
<1>6. ASSUME NEW p \in Orders PROVE OrderOK(p)'
  <2>1. CASE Settled(p)
    BY <1>3, <2>1 DEF OrderOK
  <2>2. CASE ~Settled(p)
    <3>1. p \notin redeemed /\ attributed[p] = NotAttributed
      BY <2>2 DEF OrderOK
    <3> QED
      BY <3>1 DEF OrderOK, NotAttributed
  <2> QED
    BY <2>1, <2>2
<1> QED
  BY <1>1, <1>5, <1>6 DEF UsageOK, PointsWithinLedger

-----------------------------------------------------------------------------
(* The amounts. *)

\* What a coupon takes off.
LEMMA DiscountType == ASSUME NEW s \in Nat PROVE calculate_discount(s) \in Int
<1>1. /\ Coupon.percentage \in BOOLEAN /\ Coupon.value \in Nat
      /\ Coupon.max_discount \in Nat
  BY CouponAssumption DEF Coupons
<1>2. PercentOf(s, Coupon.value) \in Int
  BY <1>1 DEF PercentOf
<1> QED
  BY <1>1, <1>2 DEF calculate_discount, Smaller

\* PromotionRuleService.evaluate: whatever the active rules are and in whichever
\* order they apply, they take off no more than the goods cost.
THEOREM PromotionWithinPrice ==
    ASSUME NEW s \in Nat, NEW vip \in BOOLEAN, NEW weekend \in BOOLEAN
    PROVE  evaluate(s, vip, weekend) \in 0 .. s
<1> DEFINE gives == [i \in DOMAIN Rules |-> apply_rule(Rules[i], s, vip, weekend)]
           stops(i) == gives[i] > 0 /\ Rules[i].type # "vip_discount"
           tried == {i \in DOMAIN Rules : \A j \in 1 .. (i - 1) : ~stops(j)}
<1>1. \A i \in DOMAIN Rules : Rules[i].value \in Nat
  <2>1. \A i \in DOMAIN Rules : Rules[i] \in PromotionRules
    BY RulesAssumption
  <2> QED
    BY <2>1 DEF PromotionRules
<1>2. \A k \in Nat : PercentOf(s, k) \in Nat
  <2> TAKE k \in Nat
  <2>1. s * k \in Nat
    BY TimesNat
  <2> QED
    BY <2>1, DivNat DEF PercentOf
<1>3. \A i \in DOMAIN Rules : gives[i] \in Nat
  <2> TAKE i \in DOMAIN Rules
  <2>1. /\ Rules[i].value \in Nat
        /\ PercentOf(s, Rules[i].value) \in Nat
    BY <1>1, <1>2
  <2>2. gives[i] = apply_rule(Rules[i], s, vip, weekend)
    OBVIOUS
  <2>3. apply_rule(Rules[i], s, vip, weekend)
           \in {0, Rules[i].value, PercentOf(s, Rules[i].value)}
    <3>1. CASE Rules[i].type = "weekend_discount"
      BY <3>1 DEF apply_rule
    <3>2. CASE Rules[i].type = "vip_discount"
      BY <3>2 DEF apply_rule
    <3>3. CASE Rules[i].type \notin {"weekend_discount", "vip_discount"}
      BY <3>3 DEF apply_rule
    <3> QED
      BY <3>1, <3>2, <3>3
  <2> QED
    BY <2>1, <2>2, <2>3
<1>4. IsFiniteSet(tried) /\ tried \subseteq DOMAIN Rules
  <2>1. DOMAIN Rules = 1 .. Len(Rules) /\ Len(Rules) \in Nat
    BY RulesAssumption
  <2>2. IsFiniteSet(1 .. Len(Rules))
    BY <2>1, FS_Interval
  <2> QED
    BY <2>1, <2>2, FS_Subset
<1>5. evaluate(s, vip, weekend) = Smaller(Total(gives, tried), s)
  BY DEF evaluate
<1> HIDE DEF gives, tried
<1>6. Total(gives, tried) \in Nat
  BY <1>3, <1>4, TotalType
<1> QED
  BY <1>5, <1>6 DEF Smaller

\* Points are not negative either.
LEMMA EarnedType == ASSUME Types, NEW o \in Orders PROVE Earned(o) \in Nat
<1>1. orders[o].total \in Nat
  BY DEF Types, OrderRows
<1>2. ASSUME NEW a \in Nat, NEW b \in Nat \ {0} PROVE a \div b \in Nat
  BY SMTT(60)
<1> DEFINE q == orders[o].total \div PointsUnit
<1> HIDE DEF q
<1>3. q \in Nat /\ PointsPerUnit \in Nat => q * PointsPerUnit \in Nat
  OBVIOUS
<1> QED
  BY <1>1, <1>2, <1>3, AmountsAssumption DEF Earned, points_for_order_total, q

-----------------------------------------------------------------------------
(* Customers and staff. *)

\* A checkout: the order is new, so no run is about it.
LEMMA PlaceOrderStep ==
    ASSUME RewardsInv, NEW o \in Orders, NEW coupon \in BOOLEAN, NEW weekend \in BOOLEAN,
           PlaceOrder(o, coupon, weekend), UNCHANGED campaign
    PROVE  RewardsInv'
<1> DEFINE u == Owner[o]
           discount == IF coupon THEN calculate_discount(Subtotal[o]) ELSE 0
           promotion == evaluate(Subtotal[o], IsVip(u), weekend)
           refer == validate_for_checkout(u)
           r == [state |-> "pending", coupon |-> coupon, referral |-> refer,
                 promotion |-> promotion,
                 total |-> total_after(Subtotal[o], discount, promotion)]
<1>1. orders' = [orders EXCEPT ![o] = r] /\ orders[o] = NotPlaced
  BY DEF PlaceOrder
<1>2. Subtotal[o] \in Nat
  BY UsersAssumption
<1>3. refer \in BOOLEAN
  BY DEF validate_for_checkout
<1>4. promotion \in Nat
  <2>1. IsVip(u) \in BOOLEAN
    BY DEF IsVip
  <2> QED
    BY <1>2, <2>1, PromotionWithinPrice
<1>5. discount \in Int
  BY <1>2, DiscountType
<1> HIDE DEF discount, promotion, refer
<1>6. r \in OrderRows
  <2>1. total_after(Subtotal[o], discount, promotion) \in Nat
    BY <1>2, <1>4, <1>5 DEF total_after, Smaller
  <2> QED
    BY <1>3, <1>4, <2>1 DEF OrderRows
<1>7. ~Settled(o)
  BY <1>1 DEF Settled, NotPlaced
<1>8. QueueOK'
  BY <1>1, <1>7 DEF RewardsInv, Types, QueueOK, Settled, PlaceOrder, taskVars, Messages
<1>9. UNCHANGED <<account, ledger, redeemed, usage, attributed, worker, queue, faults, campaign>>
  BY DEF PlaceOrder, loyaltyVars, taskVars
<1> HIDE DEF r
<1> QED
  BY <1>1, <1>6, <1>7, <1>8, <1>9, OrdersStep DEF RewardsInv, Types

\* The messages of a settled order may be published.
LEMMA PublishType ==
    ASSUME RewardsInv, NEW o \in Orders, NEW copy \in Nat, Publish(o, copy),
           Settled(o)', \A p \in Orders : Settled(p) => Settled(p)'
    PROVE  queue' \in SUBSET Messages /\ QueueOK'
<1>1. \A m \in queue' : \/ m \in queue
                        \/ /\ m = [task |-> "award", order |-> o, copy |-> copy]
                           \/ m = [task |-> "finalize", order |-> o, copy |-> copy]
  BY DEF Publish, Message
<1>2. \A m \in queue' : m \in Messages
  BY <1>1 DEF RewardsInv, Types, Messages
<1>3. \A m \in queue' : m.task # "campaign" => Settled(m.order)'
  BY <1>1 DEF RewardsInv, Types, QueueOK, Messages
<1> QED
  BY <1>2, <1>3 DEF QueueOK

\* A payment publishes the tasks of its order.
LEMMA PayOrderStep ==
    ASSUME RewardsInv, NEW o \in Orders, PayOrder(o), UNCHANGED campaign
    PROVE  RewardsInv'
<1> DEFINE r == [orders[o] EXCEPT !.state = "paid"]
<1>1. orders' = [orders EXCEPT ![o] = r]
  BY DEF PayOrder
<1>2. orders[o] \in OrderRows
  BY DEF RewardsInv, Types
<1>3. /\ r \in OrderRows /\ r.state = "paid" /\ r.coupon = orders[o].coupon
      /\ r.referral = orders[o].referral /\ r.promotion = orders[o].promotion
  BY <1>2 DEF OrderRows
<1> HIDE DEF r
<1>4. Settled(o)' /\ \A p \in Orders : Settled(p) => Settled(p)'
  BY <1>1, <1>3 DEF RewardsInv, Types, Settled
<1>5. queue' \in SUBSET Messages /\ QueueOK'
  BY <1>4, PublishType DEF PayOrder
<1>6. UNCHANGED <<account, ledger, redeemed, usage, attributed, worker, faults, campaign>>
  BY DEF PayOrder, loyaltyVars, growthVars
<1> QED
  BY <1>1, <1>3, <1>5, <1>6, OrdersStep DEF RewardsInv, Types

\* Staff refund an order.
LEMMA RefundOrderStep ==
    ASSUME RewardsInv, NEW o \in Orders, RefundOrder(o), UNCHANGED campaign
    PROVE  RewardsInv'
<1> DEFINE r == [orders[o] EXCEPT !.state = "refunded"]
<1>1. orders' = [orders EXCEPT ![o] = r]
  BY DEF RefundOrder
<1>2. orders[o] \in OrderRows
  BY DEF RewardsInv, Types
<1>3. /\ r \in OrderRows /\ r.state = "refunded" /\ r.coupon = orders[o].coupon
      /\ r.referral = orders[o].referral /\ r.promotion = orders[o].promotion
  BY <1>2 DEF OrderRows
<1> HIDE DEF r
<1>4. UNCHANGED <<account, ledger, redeemed, usage, attributed, worker, queue, faults, campaign>>
  BY DEF RefundOrder, loyaltyVars, growthVars, taskVars
<1>5. \A p \in Orders : Settled(p) => Settled(p)'
  BY <1>1, <1>3 DEF RewardsInv, Types, Settled
<1>6. QueueOK'
  BY <1>4, <1>5 DEF RewardsInv, Types, QueueOK, Messages
<1> QED
  BY <1>1, <1>3, <1>4, <1>6, OrdersStep DEF RewardsInv, Types

-----------------------------------------------------------------------------
(* Workers. *)

\* A step of a run that inserts no redemption.
LEMMA RunStep ==
    ASSUME RewardsInv, NEW t \in Workers, NEW w,
           w = Idle \/ (RunOK(w) /\ (w.created => Created(t))),
           worker' = [worker EXCEPT ![t] = w],
           UNCHANGED <<orders, account, ledger, redeemed, usage, attributed, queue, faults, campaign>>
    PROVE  RewardsInv'
<1>1. w # Idle /\ w.created => \A s \in Workers : Created(s) => s = t
  BY DEF RewardsInv, RunsOK
<1>2. QueueOK'
  BY DEF RewardsInv, QueueOK, Settled
<1>3. queue' \in SUBSET Messages /\ faults' \in Nat /\ campaign'.clicks \in Nat
  BY DEF RewardsInv, Types
<1> QED
  BY <1>1, <1>2, <1>3, WorkerStep

\* A busy worker's run.
LEMMA BusyRun ==
    ASSUME RewardsInv, NEW t \in Workers, worker[t].pc # "idle"
    PROVE  /\ worker[t] # Idle /\ RunOK(worker[t]) /\ worker[t] \in Running
           /\ worker[t].message \in Messages
           /\ worker[t].message.task # "campaign" => OrderOf(t) \in Orders
           /\ worker[t].created => Created(t)
<1>1. worker[t] # Idle
  BY DEF Idle
<1>2. RunOK(worker[t])
  BY <1>1 DEF RewardsInv, RunsOK
<1>3. worker[t] \in Running
  BY <1>2 DEF RunOK
<1> QED
  BY <1>1, <1>2, <1>3, RunType DEF OrderOf, Created

\* The next stage of a run.
LEMMA NextStage ==
    ASSUME NEW w \in Running, NEW pc \in Middle \cup {"start", "send", "done"}
    PROVE  /\ [w EXCEPT !.pc = pc] \in Running
           /\ [w EXCEPT !.pc = pc].message = w.message
           /\ [w EXCEPT !.pc = pc].created = w.created
           /\ [w EXCEPT !.pc = pc].reward = w.reward
           /\ [w EXCEPT !.pc = pc].points = w.points
           /\ [w EXCEPT !.pc = pc].missing = w.missing
           /\ [w EXCEPT !.pc = pc].pc = pc
  BY DEF Running, Middle

\* A worker takes a message.
LEMMA TakeTaskStep ==
    ASSUME RewardsInv, NEW t \in Workers, NEW m \in queue, TakeTask(t, m), UNCHANGED campaign
    PROVE  RewardsInv'
<1> DEFINE w == [pc |-> "start", message |-> m, points |-> 0, created |-> FALSE,
                 reward |-> FALSE, missing |-> {}, paid |-> {}, todo |-> {}]
<1>1. worker' = [worker EXCEPT ![t] = w]
  BY DEF TakeTask
<1>2. m \in Messages /\ (m.task # "campaign" => Settled(m.order))
  BY DEF RewardsInv, Types, QueueOK
<1>3. w \in Running
  BY <1>2 DEF Running
<1>4. w.message = m /\ w.created = FALSE /\ w.pc = "start"
  OBVIOUS
<1> HIDE DEF w
<1>5. RunOK(w) /\ ~w.created
  BY <1>2, <1>3, <1>4 DEF RunOK, RedemptionOK, PointsOK, AttributionOK, Middle
<1>6. queue' \in SUBSET Messages /\ QueueOK' /\ faults' \in Nat /\ campaign'.clicks \in Nat
  BY DEF TakeTask, RewardsInv, Types, QueueOK, Settled
<1>7. UNCHANGED <<orders, account, ledger, redeemed, usage, attributed>>
  BY DEF TakeTask, loyaltyVars, growthVars
<1> QED
  BY <1>1, <1>5, <1>6, <1>7, WorkerStep

\* A run ends.
LEMMA AcknowledgeStep ==
    ASSUME RewardsInv, NEW t \in Workers, Acknowledge(t), UNCHANGED campaign
    PROVE  RewardsInv'
<1>1. worker' = [worker EXCEPT ![t] = Idle] /\ queue' = queue /\ faults' = faults
  BY DEF Acknowledge
<1>2. UNCHANGED <<orders, account, ledger, redeemed, usage, attributed>>
  BY DEF Acknowledge, loyaltyVars, growthVars
<1>3. queue' \in SUBSET Messages /\ QueueOK' /\ faults' \in Nat /\ campaign'.clicks \in Nat
  BY <1>1, <1>2 DEF RewardsInv, Types, QueueOK, Settled
<1> QED
  BY <1>1, <1>2, <1>3, WorkerStep

\* A worker dies: its message comes back and its transaction is rolled back.
LEMMA CrashStep ==
    ASSUME RewardsInv, NEW t \in Workers, Crash(t), UNCHANGED <<campaign, scope>>
    PROVE  RewardsInv'
<1> DEFINE m == worker[t].message
<1>1. worker[t].pc # "idle"
  BY DEF Crash, RewardsInv, Types, Running, Idle
<1>2. m \in Messages /\ (m.task # "campaign" => Settled(m.order))
  BY <1>1, BusyRun DEF RunOK
<1>3. worker' = [worker EXCEPT ![t] = Idle] /\ queue' = queue \cup {m} /\ faults' = faults + 1
  BY DEF Crash
<1>4. UNCHANGED <<orders, account, ledger, redeemed, usage, attributed>>
  BY DEF Crash, loyaltyVars, growthVars
<1>5. queue' \in SUBSET Messages /\ QueueOK' /\ faults' \in Nat /\ campaign'.clicks \in Nat
  BY <1>2, <1>3, <1>4 DEF RewardsInv, Types, QueueOK, Settled
<1> QED
  BY <1>3, <1>4, <1>5, WorkerStep

\* award_points_for_order reads the account,
LEMMA AwardReadStep ==
    ASSUME RewardsInv, NEW t \in Workers, AwardRead(t), UNCHANGED campaign
    PROVE  RewardsInv'
<1> DEFINE o == OrderOf(t)
           u == Owner[o]
           w == [worker[t] EXCEPT !.pc = "write", !.points = account[u].points]
           v == [worker[t] EXCEPT !.pc = "done"]
<1>1. /\ worker[t].pc = "start" /\ worker[t].message.task = "award"
      /\ UNCHANGED <<orders, account, ledger, redeemed, usage, attributed, queue, faults, campaign>>
      /\ \/ worker' = [worker EXCEPT ![t] = w]
         \/ worker' = [worker EXCEPT ![t] = v]
  BY DEF AwardRead, At, Step, loyaltyVars, growthVars
<1>2. RunOK(worker[t]) /\ worker[t] \in Running /\ o \in Orders /\ (worker[t].created => Created(t))
  BY <1>1, BusyRun
<1>3. ~worker[t].created
  BY <1>1, <1>2 DEF RunOK, RedemptionOK
<1>4. CASE worker' = [worker EXCEPT ![t] = w]
  <2>1. u \in Users
    BY <1>2, UsersAssumption
  <2>2. account[u].points \in Nat /\ account[u].points <= ledger[u]
    BY <2>1 DEF RewardsInv, Types, PointsWithinLedger, LoyaltyAccounts
  <2>3. /\ w \in Running /\ w.message = worker[t].message /\ w.created = worker[t].created
        /\ w.pc = "write" /\ w.points = account[u].points
    BY <1>2, <2>2 DEF Running
  <2> HIDE DEF w
  <2>4. RunOK(w)
    BY <1>1, <1>2, <1>3, <2>2, <2>3 DEF RunOK, RedemptionOK, PointsOK, AttributionOK, OrderOf
  <2> QED
    BY <1>1, <1>3, <1>4, <2>3, <2>4, RunStep
<1>5. CASE worker' = [worker EXCEPT ![t] = v]
  <2>1. v \in Running /\ v.message = worker[t].message /\ v.created = worker[t].created /\ v.pc = "done"
    BY <1>2, NextStage
  <2> HIDE DEF v
  <2>2. RunOK(v)
    BY <1>1, <1>2, <1>3, <2>1 DEF RunOK, RedemptionOK, PointsOK, AttributionOK
  <2> QED
    BY <1>1, <1>3, <1>5, <2>1, <2>2, RunStep
<1> QED
  BY <1>1, <1>4, <1>5

\* A run goes on undisturbed when another one commits.
LEMMA RunKept ==
    ASSUME NEW w, RunOK(w), UNCHANGED orders,
           ledger \in [Users -> Nat], ledger' \in [Users -> Nat],
           \A u \in Users : ledger[u] <= ledger'[u],
           redeemed \subseteq redeemed', w.created => redeemed' = redeemed
    PROVE  RunOK(w)'
<1>1. w \in Running
  BY DEF RunOK
<1>2. /\ w.points \in Nat
      /\ w.message.task # "campaign" => Owner[w.message.order] \in Users
                                        /\ Referrer[Owner[w.message.order]] \in Users
  BY <1>1, RunType, UsersAssumption DEF ReferralCodes
<1>3. PointsOK(w)'
  BY <1>2 DEF RunOK, PointsOK
<1>4. RedemptionOK(w)'
  BY DEF RunOK, RedemptionOK
<1>5. AttributionOK(w)'
  BY DEF RunOK, AttributionOK, Fixed
<1>6. (w.message.task # "campaign" => Settled(w.message.order))'
  BY DEF RunOK, Settled
<1> QED
  BY <1>1, <1>3, <1>4, <1>5, <1>6 DEF RunOK

\* ... and writes it together with the EARN row.
LEMMA AwardCommitStep ==
    ASSUME RewardsInv, NEW t \in Workers, AwardCommit(t), UNCHANGED campaign
    PROVE  RewardsInv'
<1> DEFINE o == OrderOf(t)
           u == Owner[o]
           points == worker[t].points + Earned(o)
           w == [worker[t] EXCEPT !.pc = "done"]
<1>1. /\ worker[t].pc = "write" /\ worker[t].message.task = "award"
      /\ account' = [account EXCEPT ![u] = [points |-> points, tier |-> calculate_tier(points)]]
      /\ ledger' = [ledger EXCEPT ![u] = @ + Earned(o)]
      /\ worker' = [worker EXCEPT ![t] = w]
      /\ UNCHANGED <<orders, redeemed, usage, attributed, queue, faults, campaign>>
  BY DEF AwardCommit, At, Step, growthVars
<1>2. RunOK(worker[t]) /\ worker[t] \in Running /\ o \in Orders
  BY <1>1, BusyRun
<1>3. u \in Users /\ Earned(o) \in Nat /\ worker[t].points \in Nat /\ worker[t].points <= ledger[u]
  BY <1>1, <1>2, RunType, EarnedType, UsersAssumption DEF RunOK, PointsOK, OrderOf, RewardsInv
<1>4. /\ account \in [Users -> LoyaltyAccounts] /\ ledger \in [Users -> Nat]
      /\ worker \in [Workers -> Running \cup {Idle}]
  BY DEF RewardsInv, Types
<1> HIDE DEF o
<1>5. /\ account' \in [Users -> LoyaltyAccounts] /\ ledger' \in [Users -> Nat]
      /\ \A v \in Users : ledger[v] <= ledger'[v] /\ account'[v].points <= ledger'[v]
  <2>1. calculate_tier(points) \in {"normal", "gold"} /\ points \in Nat
    BY <1>3 DEF calculate_tier
  <2>2. ledger' \in [Users -> Nat]
    BY <1>1, <1>3, <1>4
  <2>3. account' \in [Users -> LoyaltyAccounts]
    BY <1>1, <1>4, <2>1 DEF LoyaltyAccounts
  <2>4. ASSUME NEW v \in Users PROVE ledger[v] <= ledger'[v] /\ account'[v].points <= ledger'[v]
    BY <1>1, <1>3, <1>4 DEF RewardsInv, PointsWithinLedger, LoyaltyAccounts
  <2> QED
    BY <2>2, <2>3, <2>4
<1>6. w \in Running /\ w.message = worker[t].message /\ w.created = worker[t].created /\ w.pc = "done"
  BY <1>2, NextStage
<1> HIDE DEF w
<1>7. RunOK(w) /\ ~w.created
  BY <1>1, <1>2, <1>6 DEF RunOK, RedemptionOK, PointsOK, AttributionOK, Middle
<1>8. Types'
  BY <1>1, <1>4, <1>5, <1>6 DEF RewardsInv, Types
<1>9. RunsOK'
  <2>1. ASSUME NEW s \in Workers PROVE (worker[s] = Idle \/ RunOK(worker[s]))'
    <3>1. worker'[s] = Idle \/ RunOK(worker'[s])
      BY <1>1, <1>4, <1>7 DEF RewardsInv, RunsOK
    <3>2. CASE RunOK(worker'[s])
      BY <1>1, <1>4, <1>5, <3>2, RunKept
    <3> QED
      BY <3>1, <3>2 DEF Idle
  <2>2. \A s \in Workers : Created(s)' => Created(s)
    BY <1>1, <1>4, <1>7 DEF Created
  <2> QED
    BY <2>1, <2>2 DEF RewardsInv, RunsOK
<1>10. UsageOK' /\ PointsWithinLedger' /\ QueueOK' /\ \A p \in Orders : OrderOK(p)'
  BY <1>1, <1>5 DEF RewardsInv, UsageOK, PointsWithinLedger, QueueOK, OrderOK, Settled, Fixed
<1> QED
  BY <1>8, <1>9, <1>10 DEF RewardsInv

\* The redemption is inserted once, by its unique constraint.
LEMMA RedeemStep ==
    ASSUME RewardsInv, NEW t \in Workers, Redeem(t), UNCHANGED campaign
    PROVE  RewardsInv'
<1> DEFINE o == OrderOf(t)
           fresh == orders[o].coupon /\ o \notin redeemed
           w == [worker[t] EXCEPT !.pc = "referral", !.created = fresh]
<1>1. /\ worker[t].pc = "start" /\ worker[t].message.task = "finalize"
      /\ worker' = [worker EXCEPT ![t] = w]
      /\ fresh => ~CouponLocked
      /\ UNCHANGED <<orders, account, ledger, redeemed, usage, attributed, queue, faults, campaign>>
  BY DEF Redeem, At, loyaltyVars, growthVars
<1>2. RunOK(worker[t]) /\ worker[t] \in Running /\ o \in Orders
  BY <1>1, BusyRun
<1>3. fresh \in BOOLEAN
  BY <1>2 DEF RewardsInv, Types, OrderRows
<1>4. /\ w \in Running /\ w.message = worker[t].message /\ w.created = fresh /\ w.pc = "referral"
  BY <1>2, <1>3 DEF Running
<1> HIDE DEF w
<1>5. RunOK(w)
  <2>1. RedemptionOK(w) /\ PointsOK(w)
    BY <1>1, <1>4 DEF RedemptionOK, PointsOK, OrderOf, Middle
  <2>2. AttributionOK(w)
    BY <1>1, <1>4 DEF AttributionOK, OrderOf
  <2> QED
    BY <1>2, <1>4, <2>1, <2>2 DEF RunOK
<1>6. ASSUME w.created, NEW s \in Workers, Created(s) PROVE s = t
  <2>1. ~CouponLocked
    BY <1>1, <1>4, <1>6
  <2>2. worker[s].pc # "idle" /\ worker[s].created
    BY <1>6 DEF Created, RewardsInv, Types, Running
  <2> QED
    BY <2>1, <2>2 DEF CouponLocked
<1>7. queue' \in SUBSET Messages /\ QueueOK' /\ faults' \in Nat /\ campaign'.clicks \in Nat
  BY <1>1 DEF RewardsInv, Types, QueueOK, Settled
<1> QED
  BY <1>1, <1>5, <1>6, <1>7, WorkerStep

\* The reward of a referral: its row is read,
LEMMA ReadReferralStep ==
    ASSUME RewardsInv, NEW t \in Workers, ReadReferral(t), UNCHANGED campaign
    PROVE  RewardsInv'
<1> DEFINE o == OrderOf(t)
           reward == /\ Paid(o)
                     /\ \/ referral[Owner[o]] = "pending"
                        \/ referral[Owner[o]] = "none" /\ orders[o].referral
           w == [worker[t] EXCEPT !.pc = IF reward THEN "account" ELSE "attribute",
                                  !.reward = reward]
<1>1. /\ worker[t].pc = "referral" /\ worker[t].message.task = "finalize"
      /\ worker' = [worker EXCEPT ![t] = w]
      /\ UNCHANGED <<orders, account, ledger, redeemed, usage, attributed, queue, faults, campaign>>
  BY DEF ReadReferral, At, loyaltyVars, growthVars
<1>2. /\ RunOK(worker[t]) /\ worker[t] \in Running /\ o \in Orders
      /\ worker[t].created => Created(t)
  BY <1>1, BusyRun
<1>3. reward \in BOOLEAN
  BY <1>2 DEF RewardsInv, Types, OrderRows, Paid
<1> HIDE DEF reward
<1>4. /\ w \in Running /\ w.message = worker[t].message /\ w.created = worker[t].created
      /\ (w.pc = "account" /\ w.reward) \/ (w.pc = "attribute" /\ ~w.reward)
  <2>1. CASE reward
    BY <1>2, <2>1 DEF Running
  <2>2. CASE ~reward
    <3>1. reward = FALSE
      BY <1>3, <2>2
    <3> QED
      BY <1>2, <3>1 DEF Running
  <2> QED
    BY <2>1, <2>2
<1> HIDE DEF w
<1>5. RunOK(w)
  BY <1>1, <1>2, <1>4 DEF RunOK, RedemptionOK, PointsOK, AttributionOK, Middle
<1> QED
  BY <1>1, <1>2, <1>4, <1>5, RunStep

\* ... the referrer's account is read,
LEMMA ReadAccountStep ==
    ASSUME RewardsInv, NEW t \in Workers, ReadAccount(t), UNCHANGED campaign
    PROVE  RewardsInv'
<1> DEFINE u == Referrer[Owner[OrderOf(t)]]
           w == [worker[t] EXCEPT !.pc = "write", !.points = account[u].points]
<1>1. /\ worker[t].pc = "account" /\ worker[t].message.task = "finalize"
      /\ worker' = [worker EXCEPT ![t] = w]
      /\ UNCHANGED <<orders, account, ledger, redeemed, usage, attributed, queue, faults, campaign>>
  BY DEF ReadAccount, At, loyaltyVars, growthVars
<1>2. /\ RunOK(worker[t]) /\ worker[t] \in Running /\ OrderOf(t) \in Orders
      /\ worker[t].created => Created(t)
  BY <1>1, BusyRun
<1>3. u \in Users
  BY <1>2, UsersAssumption DEF ReferralCodes
<1>4. account[u].points \in Nat /\ account[u].points <= ledger[u]
  BY <1>3 DEF RewardsInv, Types, PointsWithinLedger, LoyaltyAccounts
<1>5. /\ w \in Running /\ w.message = worker[t].message /\ w.created = worker[t].created
      /\ w.pc = "write" /\ w.points = account[u].points
  BY <1>2, <1>4 DEF Running
<1> HIDE DEF w
<1>6. RunOK(w)
  BY <1>1, <1>2, <1>4, <1>5 DEF RunOK, RedemptionOK, PointsOK, AttributionOK, Middle, OrderOf
<1> QED
  BY <1>1, <1>2, <1>5, <1>6, RunStep

\* ... and written together with the EARN row.
LEMMA WriteAccountStep ==
    ASSUME RewardsInv, NEW t \in Workers, WriteAccount(t), UNCHANGED campaign
    PROVE  RewardsInv'
<1> DEFINE w == [worker[t] EXCEPT !.pc = "attribute"]
<1>1. /\ worker[t].pc = "write" /\ worker[t].message.task = "finalize"
      /\ worker' = [worker EXCEPT ![t] = w]
      /\ UNCHANGED <<orders, account, ledger, redeemed, usage, attributed, queue, faults, campaign>>
  BY DEF WriteAccount, At, Step, loyaltyVars, growthVars
<1>2. /\ RunOK(worker[t]) /\ worker[t] \in Running
      /\ worker[t].created => Created(t)
  BY <1>1, BusyRun
<1>3. /\ w \in Running /\ w.message = worker[t].message /\ w.created = worker[t].created
      /\ w.reward = worker[t].reward /\ w.points = worker[t].points /\ w.pc = "attribute"
  BY <1>2, NextStage DEF Middle
<1> HIDE DEF w
<1>4. RunOK(w)
  BY <1>1, <1>2, <1>3 DEF RunOK, RedemptionOK, PointsOK, AttributionOK, Middle
<1> QED
  BY <1>1, <1>2, <1>3, <1>4, RunStep

\* What contributes from the checkout on; the reminder may be added later.
LEMMA FixedContribute ==
    ASSUME NEW o \in Orders
    PROVE  Contributing(o) \subseteq Sources /\ Contributing(o) \ {"sms"} = Fixed(o)
  BY DEF Contributing, Fixed, Sources

\* record_for_order looks for rows that exist,
LEMMA ReadAttributionsStep ==
    ASSUME RewardsInv, NEW t \in Workers, ReadAttributions(t), UNCHANGED campaign
    PROVE  RewardsInv'
<1> DEFINE o == OrderOf(t)
           missing == {s \in Contributing(o) : attributed[o][s] = 0}
           paid == PaidOrders(Owner[o])
           w == [worker[t] EXCEPT !.pc = "commit", !.missing = missing, !.paid = paid]
<1>1. /\ worker[t].pc = "attribute" /\ worker[t].message.task = "finalize"
      /\ worker' = [worker EXCEPT ![t] = w]
      /\ UNCHANGED <<orders, account, ledger, redeemed, usage, attributed, queue, faults, campaign>>
  BY DEF ReadAttributions, At, loyaltyVars, growthVars
<1>2. /\ RunOK(worker[t]) /\ worker[t] \in Running /\ o \in Orders
      /\ worker[t].created => Created(t)
  BY <1>1, BusyRun
<1>3. missing \subseteq Sources /\ paid \subseteq Orders
  BY <1>2, FixedContribute DEF PaidOrders
<1>4. ASSUME orders[o].coupon
      PROVE  /\ o \notin redeemed => missing \ {"sms"} = Fixed(o)
             /\ o \in redeemed => missing \subseteq {"sms"}
  <2>1. OrderOK(o)
    BY <1>2 DEF RewardsInv
  <2>2. \A s \in Sources \ {"sms"} : attributed[o][s] = IF o \in redeemed /\ s \in Fixed(o) THEN 1 ELSE 0
    BY <1>4, <2>1 DEF OrderOK
  <2>3. Fixed(o) \subseteq Sources \ {"sms"} /\ Fixed(o) \subseteq Contributing(o)
    BY <1>2, FixedContribute
  <2>4. \A s \in Contributing(o) \ {"sms"} : s \in Fixed(o)
    BY <1>2, FixedContribute
  <2> QED
    BY <2>2, <2>3, <2>4
<1> HIDE DEF missing, paid
<1>5. /\ w \in Running /\ w.message = worker[t].message /\ w.created = worker[t].created
      /\ w.reward = worker[t].reward /\ w.points = worker[t].points /\ w.pc = "commit"
      /\ w.missing = missing
  BY <1>2, <1>3 DEF Running
<1> HIDE DEF w
<1>6. RedemptionOK(w) /\ PointsOK(w)
  BY <1>1, <1>2, <1>5 DEF RunOK, RedemptionOK, PointsOK, Middle
<1>7. AttributionOK(w)
  BY <1>1, <1>2, <1>4, <1>5 DEF RunOK, RedemptionOK, AttributionOK, Middle, OrderOf
<1>8. RunOK(w)
  BY <1>2, <1>5, <1>6, <1>7 DEF RunOK
<1> QED
  BY <1>1, <1>2, <1>5, <1>8, RunStep

\* ... and the task commits what is missing.
LEMMA FinalizeCommitStep ==
    ASSUME RewardsInv, NEW t \in Workers, FinalizeCommit(t), UNCHANGED campaign
    PROVE  RewardsInv'
<1> DEFINE o == OrderOf(t)
           r == Referrer[Owner[o]]
           v == worker[t]
           w == [v EXCEPT !.pc = "done", !.created = FALSE, !.reward = FALSE]
<1>1. /\ v.pc = "commit" /\ v.message.task = "finalize"
      /\ redeemed' = IF v.created THEN redeemed \cup {o} ELSE redeemed
      /\ usage' = IF v.created THEN usage + 1 ELSE usage
      /\ account' = [account EXCEPT ![r].points = IF v.reward THEN v.points + Reward ELSE @]
      /\ ledger' = [ledger EXCEPT ![r] = IF v.reward THEN @ + Reward ELSE @]
      /\ attributed' = [attributed EXCEPT ![o] =
                           [s \in Sources |-> IF s \in v.missing THEN @[s] + 1 ELSE @[s]]]
      /\ worker' = [worker EXCEPT ![t] = w]
      /\ UNCHANGED <<orders, queue, faults, campaign>>
  BY DEF FinalizeCommit, At
<1>2. /\ RunOK(v) /\ v \in Running /\ o \in Orders
      /\ v.created => Created(t)
  BY <1>1, BusyRun
<1>3. /\ r \in Users /\ v.points \in Nat /\ v.created \in BOOLEAN /\ v.reward \in BOOLEAN
      /\ v.reward => v.points <= ledger[r]
      /\ v.missing \subseteq Sources
      /\ Settled(o) /\ v.message.order = o
      /\ v.created => o \notin redeemed
  BY <1>1, <1>2, RunType, UsersAssumption DEF RunOK, PointsOK, RedemptionOK, OrderOf, ReferralCodes
<1>4. /\ account \in [Users -> LoyaltyAccounts] /\ ledger \in [Users -> Nat]
      /\ attributed \in [Orders -> [Sources -> Nat]] /\ redeemed \in SUBSET Orders /\ usage \in Nat
      /\ worker \in [Workers -> Running \cup {Idle}]
  BY DEF RewardsInv, Types
<1>5. /\ w \in Running /\ w.message = v.message /\ ~w.created /\ w.pc = "done"
  BY <1>2 DEF Running
<1> HIDE DEF o, r, v, w
<1>6. /\ account' \in [Users -> LoyaltyAccounts] /\ ledger' \in [Users -> Nat]
      /\ \A u \in Users : ledger[u] <= ledger'[u] /\ account'[u].points <= ledger'[u]
  <2>1. ledger' \in [Users -> Nat] /\ \A u \in Users : ledger[u] <= ledger'[u]
    BY <1>1, <1>3, <1>4, RewardAssumption
  <2>2. account' \in [Users -> LoyaltyAccounts]
    BY <1>1, <1>3, <1>4, RewardAssumption DEF LoyaltyAccounts
  <2>3. ASSUME NEW u \in Users PROVE account'[u].points <= ledger'[u]
    BY <1>1, <1>3, <1>4, RewardAssumption DEF RewardsInv, PointsWithinLedger, LoyaltyAccounts
  <2> QED
    BY <2>1, <2>2, <2>3
<1>7. /\ redeemed' \in SUBSET Orders /\ redeemed \subseteq redeemed'
      /\ usage' \in Nat /\ (~v.created => redeemed' = redeemed)
  BY <1>1, <1>2, <1>4
<1>8. UsageOK'
  <2>1. CASE v.created
    BY <1>1, <1>3, <2>1, FS_AddElement DEF RewardsInv, UsageOK
  <2>2. CASE ~v.created
    BY <1>1, <2>2 DEF RewardsInv, UsageOK
  <2> QED
    BY <2>1, <2>2
<1>9. /\ attributed' \in [Orders -> [Sources -> Nat]]
      /\ \A p \in Orders : p # o => attributed'[p] = attributed[p]
      /\ \A s \in Sources : attributed'[o][s] = IF s \in v.missing THEN attributed[o][s] + 1
                                               ELSE attributed[o][s]
  BY <1>1, <1>2, <1>4
<1>10. Types'
  BY <1>1, <1>4, <1>5, <1>6, <1>7, <1>9 DEF RewardsInv, Types
<1>11. RunOK(w)
  BY <1>3, <1>5 DEF RunOK, RedemptionOK, PointsOK, AttributionOK, Middle
<1>12. RunsOK'
  <2>1. ASSUME NEW s \in Workers PROVE (worker[s] = Idle \/ RunOK(worker[s]))'
    <3>1. worker'[s] = Idle \/ RunOK(worker'[s])
      BY <1>1, <1>4, <1>11 DEF RewardsInv, RunsOK
    <3>2. CASE RunOK(worker'[s]) /\ worker'[s] # Idle
      <4>1. worker'[s].created => redeemed' = redeemed
        <5>1. CASE s = t
          BY <1>1, <1>4, <1>5, <5>1
        <5>2. CASE s # t
          BY <1>1, <1>2, <1>4, <1>7, <3>2, <5>2 DEF RewardsInv, RunsOK, Created
        <5> QED
          BY <5>1, <5>2
      <4> QED
        BY <1>1, <1>4, <1>6, <1>7, <3>2, <4>1, RunKept
    <3> QED
      BY <3>1, <3>2 DEF Idle
  <2>2. \A s \in Workers : Created(s)' => Created(s)
    BY <1>1, <1>4, <1>5 DEF Created
  <2> QED
    BY <2>1, <2>2 DEF RewardsInv, RunsOK
<1>13. ASSUME NEW p \in Orders PROVE OrderOK(p)'
  <2>1. OrderOK(p) /\ Fixed(p)' = Fixed(p) /\ (Settled(p)' <=> Settled(p))
    BY <1>1 DEF RewardsInv, Fixed, Settled
  <2>2. CASE p # o
    BY <1>1, <1>9, <2>1, <2>2 DEF OrderOK
  <2>3. CASE p = o
    <3>1. Settled(p)'
      BY <1>3, <2>1, <2>3
    <3>2. ASSUME orders[p].coupon, NEW s \in Sources \ {"sms"}
          PROVE  attributed'[p][s] = IF p \in redeemed' /\ s \in Fixed(p) THEN 1 ELSE 0
      <4>1. attributed[p][s] = IF p \in redeemed /\ s \in Fixed(p) THEN 1 ELSE 0
        BY <2>1, <2>3, <3>2 DEF OrderOK
      <4>2. CASE v.created
        <5>1. p \notin redeemed /\ p \in redeemed' /\ v.missing \ {"sms"} = Fixed(p)
          BY <1>1, <1>2, <1>3, <2>3, <3>2, <4>2 DEF RunOK, AttributionOK, Middle
        <5> QED
          BY <1>9, <2>3, <3>2, <4>1, <5>1
      <4>3. CASE ~v.created
        <5>1. p \in redeemed /\ redeemed' = redeemed /\ s \notin v.missing
          BY <1>1, <1>2, <1>3, <2>3, <3>2, <4>3 DEF RunOK, AttributionOK, Middle
        <5> QED
          BY <1>9, <2>3, <3>2, <4>1, <5>1
      <4> QED
        BY <4>2, <4>3
    <3> QED
      BY <1>1, <2>1, <2>3, <3>1, <3>2 DEF OrderOK
  <2> QED
    BY <2>2, <2>3
<1>14. PointsWithinLedger' /\ QueueOK'
  BY <1>1, <1>6 DEF RewardsInv, PointsWithinLedger, QueueOK, Settled
<1> QED
  BY <1>8, <1>10, <1>12, <1>13, <1>14 DEF RewardsInv

-----------------------------------------------------------------------------
(* Campaigns. *)

\* A step of the campaign leaves everything else as it was.
LEMMA CampaignRun ==
    ASSUME RewardsInv, NEW t \in Workers, NEW w \in Running,
           worker[t].pc # "idle", worker[t].message.task = "campaign",
           w.message = worker[t].message, w.created = worker[t].created,
           worker' = [worker EXCEPT ![t] = w],
           campaign'.clicks = campaign.clicks,
           UNCHANGED queue, OthersUnchanged
    PROVE  RewardsInv'
<1>1. RunOK(worker[t])
  BY BusyRun
<1>2. ~worker[t].created
  BY <1>1 DEF RunOK, RedemptionOK
<1>3. RunOK(w) /\ ~w.created
  BY <1>2 DEF RunOK, RedemptionOK, PointsOK, AttributionOK
<1>4. UNCHANGED <<orders, account, ledger, redeemed, usage, attributed>>
  BY DEF OthersUnchanged, loyaltyVars, growthVars
<1>5. queue' \in SUBSET Messages /\ QueueOK' /\ faults' \in Nat /\ campaign'.clicks \in Nat
  BY <1>4 DEF OthersUnchanged, RewardsInv, Types, QueueOK, Settled
<1> QED
  BY <1>3, <1>4, <1>5, WorkerStep

\* Staff send the campaign off.
LEMMA SendCampaignStep ==
    ASSUME RewardsInv, SendCampaign
    PROVE  RewardsInv'
<1>1. UNCHANGED <<orders, account, ledger, redeemed, usage, attributed, worker, faults>>
  BY DEF SendCampaign, OthersUnchanged, loyaltyVars, growthVars
<1>2. campaign'.clicks \in Nat
  BY DEF SendCampaign, RewardsInv, Types
<1>3. queue' = queue \cup {[task |-> "campaign", order |-> NoOrder, copy |-> campaign'.clicks]}
  BY DEF SendCampaign, Message
<1>4. queue' \in SUBSET Messages /\ QueueOK'
  BY <1>1, <1>2, <1>3 DEF RewardsInv, Types, QueueOK, Messages, Settled
<1> QED
  BY <1>1, <1>2, <1>4, QueueStep DEF RewardsInv, Types

\* A run of the campaign starts.
LEMMA StartCampaignStep ==
    ASSUME RewardsInv, NEW t \in Workers, StartCampaign(t)
    PROVE  RewardsInv'
<1> DEFINE w == [worker[t] EXCEPT !.pc = IF campaign.status = "sent" THEN "done" ELSE "send",
                                  !.todo = Audience]
<1>1. /\ worker[t].pc = "start" /\ worker[t].message.task = "campaign"
      /\ worker' = [worker EXCEPT ![t] = w]
      /\ UNCHANGED <<campaign, queue>> /\ OthersUnchanged
  BY DEF StartCampaign, At
<1>2. worker[t] \in Running
  BY <1>1, BusyRun
<1>3. Audience \subseteq Users
  BY DEF Audience
<1>4. w \in Running /\ w.message = worker[t].message /\ w.created = worker[t].created
  BY <1>2, <1>3 DEF Running
<1> HIDE DEF w
<1> QED
  BY <1>1, <1>4, CampaignRun

\* It sends one message.
LEMMA SendPromotionStep ==
    ASSUME RewardsInv, NEW t \in Workers, NEW u \in Users, NEW suppressed \in BOOLEAN,
           SendPromotion(t, u, suppressed)
    PROVE  RewardsInv'
<1> DEFINE w == [worker[t] EXCEPT !.todo = @ \ {u}]
<1>1. /\ worker[t].pc = "send" /\ worker[t].message.task = "campaign"
      /\ worker' = [worker EXCEPT ![t] = w]
      /\ UNCHANGED queue /\ OthersUnchanged
  BY DEF SendPromotion, At
<1>2. campaign'.clicks = campaign.clicks
  BY DEF SendPromotion
<1>3. worker[t] \in Running
  BY <1>1, BusyRun
<1>4. w \in Running /\ w.message = worker[t].message /\ w.created = worker[t].created
  BY <1>3 DEF Running
<1> HIDE DEF w
<1> QED
  BY <1>1, <1>2, <1>4, CampaignRun

\* It ends.
LEMMA EndCampaignStep ==
    ASSUME RewardsInv, NEW t \in Workers, EndCampaign(t)
    PROVE  RewardsInv'
<1> DEFINE w == [worker[t] EXCEPT !.pc = "done"]
<1>1. /\ worker[t].pc = "send" /\ worker[t].message.task = "campaign"
      /\ worker' = [worker EXCEPT ![t] = w]
      /\ UNCHANGED queue /\ OthersUnchanged
  BY DEF EndCampaign, At, Step
<1>2. campaign'.clicks = campaign.clicks
  BY DEF EndCampaign
<1>3. worker[t] \in Running
  BY <1>1, BusyRun
<1>4. w \in Running /\ w.message = worker[t].message /\ w.created = worker[t].created
  BY <1>3, NextStage
<1> HIDE DEF w
<1> QED
  BY <1>1, <1>2, <1>4, CampaignRun

-----------------------------------------------------------------------------
(* The theorems. *)

\* Carts and periodic tasks leave orders, tasks and points alone.
Elsewhere ==
    UNCHANGED <<orders, account, ledger, redeemed, usage, attributed, queue, worker>>

\* A step that touches nothing of this.
LEMMA ElsewhereStep ==
    ASSUME RewardsInv, Elsewhere, faults' \in Nat, campaign'.clicks \in Nat
    PROVE  RewardsInv'
<1>1. queue' \in SUBSET Messages /\ QueueOK'
  BY DEF Elsewhere, RewardsInv, Types, QueueOK, Settled
<1> QED
  BY <1>1, QueueStep DEF Elsewhere

\* A message is published a second time.
LEMMA PublishAgainStep ==
    ASSUME RewardsInv, NEW o \in Orders, PublishAgain(o), UNCHANGED campaign
    PROVE  RewardsInv'
<1>1. faults' \in Nat /\ Publish(o, faults')
  BY DEF PublishAgain, RewardsInv, Types
<1>2. UNCHANGED <<orders, account, ledger, redeemed, usage, attributed, worker>>
  BY DEF PublishAgain, loyaltyVars, growthVars
<1>3. Settled(o)' /\ \A p \in Orders : Settled(p) => Settled(p)'
  BY <1>2 DEF PublishAgain, Settled
<1>4. queue' \in SUBSET Messages /\ QueueOK'
  BY <1>1, <1>3, PublishType
<1> QED
  BY <1>1, <1>2, <1>4, QueueStep DEF RewardsInv, Types

\* The invariant holds at first.
LEMMA RewardsInit == Init => RewardsInv
<1> SUFFICES ASSUME Init PROVE RewardsInv
  OBVIOUS
<1> USE DEF Init
<1>1. NewAccount \in LoyaltyAccounts /\ NewAccount.points = 0
  BY DEF NewAccount, LoyaltyAccounts, calculate_tier
<1>2. NotPlaced \in OrderRows /\ NotPlaced.coupon = FALSE /\ NotPlaced.state = "none"
  BY DEF NotPlaced, OrderRows
<1>3. NotAttributed \in [Sources -> Nat]
  BY DEF NotAttributed
<1>4. Types
  BY <1>1, <1>2, <1>3 DEF Types, NoCampaign
<1>5. UsageOK
  BY FS_EmptySet DEF UsageOK
<1>6. PointsWithinLedger
  BY <1>1 DEF PointsWithinLedger
<1>7. QueueOK
  BY DEF QueueOK
<1>8. RunsOK
  BY DEF RunsOK, Created
<1>9. \A o \in Orders : OrderOK(o)
  BY <1>2 DEF OrderOK, Settled
<1> QED
  BY <1>4, <1>5, <1>6, <1>7, <1>8, <1>9 DEF RewardsInv

\* The invariant is inductive.
LEMMA RewardsNext == RewardsInv /\ [Next]_vars => RewardsInv'
<1> SUFFICES ASSUME RewardsInv, [Next]_vars PROVE RewardsInv'
  OBVIOUS
<1>1. CASE CustomerStep
  <2>1. UNCHANGED campaign
    BY <1>1 DEF CustomerStep
  <2>2. CASE \E o \in Orders, coupon, weekend \in BOOLEAN : PlaceOrder(o, coupon, weekend)
    BY <2>1, <2>2, PlaceOrderStep
  <2>3. CASE \E o \in Orders : PayOrder(o) \/ RefundOrder(o)
    BY <2>1, <2>3, PayOrderStep, RefundOrderStep
  <2>4. CASE \E u \in scope.followed : FillCart(u) \/ EmptyCart(u)
    BY <2>1, <2>4, ElsewhereStep
       DEF FillCart, EmptyCart, Elsewhere, loyaltyVars, growthVars, taskVars, RewardsInv, Types
  <2> QED
    BY <1>1, <2>2, <2>3, <2>4 DEF CustomerStep
<1>2. CASE Fault
  <2>1. UNCHANGED <<campaign, scope>>
    BY <1>2 DEF Fault
  <2>2. CASE \E o \in Orders : PublishAgain(o)
    BY <2>1, <2>2, PublishAgainStep
  <2>3. CASE \E t \in Workers : Crash(t)
    BY <2>1, <2>3, CrashStep
  <2>4. CASE PeriodicCrash
    BY <2>1, <2>4, ElsewhereStep
       DEF PeriodicCrash, Elsewhere, loyaltyVars, growthVars, taskVars, RewardsInv, Types
  <2> QED
    BY <1>2, <2>2, <2>3, <2>4 DEF Fault
<1>3. CASE SendCampaign
  BY <1>3, SendCampaignStep
<1>4. ASSUME NEW t \in Workers, TaskStep(t) PROVE RewardsInv'
  <2>1. UNCHANGED campaign
    BY <1>4 DEF TaskStep
  <2>2. CASE AwardRead(t) \/ AwardCommit(t)
    BY <2>1, <2>2, AwardReadStep, AwardCommitStep
  <2>3. CASE Redeem(t) \/ ReadReferral(t) \/ ReadAccount(t) \/ WriteAccount(t)
    BY <2>1, <2>3, RedeemStep, ReadReferralStep, ReadAccountStep, WriteAccountStep
  <2>4. CASE ReadAttributions(t) \/ FinalizeCommit(t) \/ Acknowledge(t)
    BY <2>1, <2>4, ReadAttributionsStep, FinalizeCommitStep, AcknowledgeStep
  <2>5. CASE \E m \in queue : TakeTask(t, m)
    BY <2>1, <2>5, TakeTaskStep
  <2> QED
    BY <1>4, <2>2, <2>3, <2>4, <2>5 DEF TaskStep
<1>5. ASSUME NEW t \in Workers, CampaignStep(t) PROVE RewardsInv'
  BY <1>5, StartCampaignStep, EndCampaignStep, SendPromotionStep DEF CampaignStep
<1>6. ASSUME NEW u, CLVStep(u) \/ HabitsStep(u) \/ SegmentStep(u) \/ ReminderStep(u) PROVE RewardsInv'
  <2>1. Elsewhere /\ UNCHANGED <<campaign, faults>>
    BY <1>6 DEF CLVStep, HabitsStep, SegmentStep, ReminderStep, ReadRevenue, WriteRevenue,
       ReadHabits, WriteHabits, DeleteMemberships, CreateMembership, ReadTracker, Remind,
       SaveTracker, Elsewhere, loyaltyVars, growthVars, taskVars
  <2> QED
    BY <2>1, ElsewhereStep DEF RewardsInv, Types
<1>7. CASE UNCHANGED vars
  BY <1>7, ElsewhereStep DEF vars, Elsewhere, loyaltyVars, growthVars, taskVars, RewardsInv, Types
<1> QED
  BY <1>1, <1>2, <1>3, <1>4, <1>5, <1>6, <1>7 DEF Next

\* However its tasks are repeated, run in parallel or die (finalize_on_payment), the
\* invariant holds.
THEOREM RewardsSafe == Spec => []RewardsInv
  BY RewardsInit, RewardsNext, PTL DEF Spec

\* CouponService.redeem: the coupon's counter says how often it was redeemed.
THEOREM CouponCountedOnce == Spec => []UsageCountsRedemptions
<1>1. RewardsInv => UsageCountsRedemptions
  BY DEF RewardsInv, UsageOK, UsageCountsRedemptions
<1> QED
  BY <1>1, RewardsSafe, PTL

\* LoyaltyService: no customer has points that no EARN row justifies.
THEOREM PointsJustified == Spec => []PointsWithinLedger
<1>1. RewardsInv => PointsWithinLedger
  BY DEF RewardsInv
<1> QED
  BY <1>1, RewardsSafe, PTL

\* AttributionService.record_for_order: once per source, for an order with a coupon.
THEOREM OrdersAttributedOnce == Spec => []AttributedOnce
<1>1. RewardsInv => AttributedOnce
  BY DEF RewardsInv, OrderOK, AttributedOnce
<1> QED
  BY <1>1, RewardsSafe, PTL

-----------------------------------------------------------------------------
(* Marketing.  A reminder is counted only after it was sent, and a run of  *)
(* a campaign that dies starts again with everybody: what is still to be   *)
(* sent is bounded together with what was.                                 *)

\* A run that may still send the campaign to a customer.
MaySend(w, u) ==
    /\ w # Idle /\ w.message.task = "campaign"
    /\ \/ w.pc = "start" /\ campaign.status # "sent"
       \/ w.pc = "send" /\ u \in w.todo

Sending(u) == {t \in Workers : MaySend(worker[t], u)}
Queued == {m \in queue : m.task = "campaign" /\ campaign.status # "sent"}

MarketTypes ==
    /\ tracker \in [Users -> Trackers]
    /\ campaign \in Campaigns
    /\ IsFiniteSet(Queued) /\ \A u \in Users : IsFiniteSet(Sending(u))

\* Of the reminders that went out, all are counted but the one of the run that is about
\* to save its tracker and those of the runs that died there.
Saving(u) == IF periodic.pc = "save" /\ periodic.user = u THEN 1 ELSE 0

RemindersOK ==
    /\ \A u \in Users : /\ tracker[u].reminders <= MaxReminders
                        /\ tracker[u].sent <= tracker[u].reminders + faults + Saving(u)
    /\ periodic.pc \in {"remind", "save"} =>
           /\ periodic \in [pc : {"remind", "save"}, user : Users, reminders : Nat]
           /\ periodic.reminders < MaxReminders
           /\ periodic.reminders = tracker[periodic.user].reminders

\* Each message and each run that may still send to a customer has its excuse too.
CampaignOK ==
    /\ campaign.ended <=> campaign.status = "sent"
    /\ \A u \in Users :
          campaign.sent[u] + Cardinality(Queued) + Cardinality(Sending(u))
              <= campaign.early + faults

MarketInv == RewardsInv /\ MarketTypes /\ RemindersOK /\ CampaignOK

\* The reminders of a tracker stay as they are.
Quiet == /\ tracker' \in [Users -> Trackers]
         /\ \A u \in Users : /\ tracker'[u].reminders = tracker[u].reminders
                             /\ tracker'[u].sent = tracker[u].sent

\* A step that counts and sends no reminder keeps their bound.
LEMMA QuietReminders ==
    ASSUME MarketInv, Quiet, faults' \in Nat, faults <= faults',
           \/ periodic' = periodic
           \/ /\ periodic'.pc \notin {"remind", "save"}
              /\ periodic.pc = "save" => faults + 1 <= faults'
    PROVE  RemindersOK'
<1>1. /\ faults \in Nat
      /\ \A u \in Users : tracker[u].reminders \in Nat /\ tracker[u].sent \in Nat
  BY DEF MarketInv, RewardsInv, Types, MarketTypes, Trackers
<1>2. RemindersOK /\ MaxReminders \in Nat
  BY RewardAssumption DEF MarketInv
<1>3. CASE periodic' = periodic
  BY <1>1, <1>2, <1>3 DEF RemindersOK, Quiet, Saving
<1>4. CASE periodic'.pc \notin {"remind", "save"} /\ (periodic.pc = "save" => faults + 1 <= faults')
  <2>1. \A u \in Users : Saving(u)' = 0
    BY <1>4 DEF Saving
  <2>2. \A u \in Users : Saving(u) = 0 \/ (Saving(u) = 1 /\ faults + 1 <= faults')
    BY <1>4 DEF Saving
  <2>3. ASSUME NEW u \in Users
        PROVE  /\ tracker'[u].reminders <= MaxReminders
               /\ tracker'[u].sent <= tracker'[u].reminders + faults' + Saving(u)'
    <3>1. /\ tracker[u].reminders <= MaxReminders
          /\ tracker[u].sent <= tracker[u].reminders + faults + Saving(u)
      BY <1>2 DEF RemindersOK
    <3> QED
      BY <1>1, <2>1, <2>2, <3>1 DEF Quiet
  <2> QED
    BY <1>4, <2>3 DEF RemindersOK
<1> QED
  BY <1>3, <1>4

\* A set that at most gains, or loses, a member.
LEMMA OneMore ==
    ASSUME NEW S, IsFiniteSet(S), NEW x, NEW T, T \subseteq S \cup {x}
    PROVE  /\ IsFiniteSet(T) /\ Cardinality(T) \in Nat /\ Cardinality(S) \in Nat
           /\ Cardinality(T) <= Cardinality(S) + 1
<1>1. /\ IsFiniteSet(S \cup {x})
      /\ Cardinality(S \cup {x}) = IF x \in S THEN Cardinality(S) ELSE Cardinality(S) + 1
  BY FS_AddElement
<1>2. IsFiniteSet(T) /\ Cardinality(T) <= Cardinality(S \cup {x})
  BY <1>1, FS_Subset
<1>3. Cardinality(T) \in Nat /\ Cardinality(S) \in Nat
  BY <1>2, FS_CardinalityType
<1> QED
  BY <1>1, <1>2, <1>3

\* A part of a finite set has no more elements,
LEMMA NoMore ==
    ASSUME NEW S, IsFiniteSet(S), NEW T, T \subseteq S
    PROVE  /\ IsFiniteSet(T) /\ Cardinality(T) \in Nat /\ Cardinality(S) \in Nat
           /\ Cardinality(T) <= Cardinality(S)
<1>1. IsFiniteSet(T) /\ Cardinality(T) <= Cardinality(S)
  BY FS_Subset
<1> QED
  BY <1>1, FS_CardinalityType

\* ... and a part without one of them has fewer.
LEMMA OneLess ==
    ASSUME NEW S, IsFiniteSet(S), NEW x \in S, NEW T, T \subseteq S \ {x}
    PROVE  /\ IsFiniteSet(T) /\ Cardinality(T) \in Nat /\ Cardinality(S) \in Nat
           /\ Cardinality(T) + 1 <= Cardinality(S)
<1>1. IsFiniteSet(S \ {x}) /\ Cardinality(S \ {x}) = Cardinality(S) - 1
  BY FS_RemoveElement
<1>2. IsFiniteSet(T) /\ Cardinality(T) <= Cardinality(S \ {x})
  BY <1>1, FS_Subset
<1>3. Cardinality(T) \in Nat /\ Cardinality(S) \in Nat
  BY <1>2, FS_CardinalityType
<1> QED
  BY <1>1, <1>2, <1>3

\* Nothing is added to what may still be sent.
NoneAdded == Queued' \subseteq Queued /\ \A u \in Users : Sending(u)' \subseteq Sending(u)

CampaignNumbers ==
    /\ faults \in Nat /\ campaign.early \in Nat
    /\ \A u \in Users : /\ campaign.sent[u] \in Nat
                        /\ Cardinality(Queued) \in Nat /\ Cardinality(Sending(u)) \in Nat

\* The numbers of the bound are natural numbers.
LEMMA NumbersTyped == ASSUME MarketInv PROVE CampaignNumbers
  BY FS_CardinalityType DEF CampaignNumbers, MarketInv, RewardsInv, Types, MarketTypes, Campaigns

\* A step after which no more runs may send keeps the bound of the campaign.
LEMMA NoneAddedCampaign ==
    ASSUME MarketInv, NoneAdded, campaign' = campaign, faults' \in Nat, faults <= faults'
    PROVE  CampaignOK' /\ IsFiniteSet(Queued)' /\ \A u \in Users : IsFiniteSet(Sending(u))'
<1>1. CampaignNumbers
  BY NumbersTyped
<1>2. IsFiniteSet(Queued)' /\ Cardinality(Queued)' \in Nat /\ Cardinality(Queued)' <= Cardinality(Queued)
  BY NoMore DEF MarketInv, MarketTypes, NoneAdded
<1>3. \A u \in Users : /\ IsFiniteSet(Sending(u))' /\ Cardinality(Sending(u))' \in Nat
                       /\ Cardinality(Sending(u))' <= Cardinality(Sending(u))
  BY NoMore DEF MarketInv, MarketTypes, NoneAdded
<1>4. CampaignOK'
  BY <1>1, <1>2, <1>3 DEF MarketInv, CampaignOK, CampaignNumbers
<1> QED
  BY <1>2, <1>3, <1>4

\* A step that leaves the campaigns to themselves, but for a worker that dies.
LEMMA OtherStep ==
    ASSUME MarketInv, RewardsInv', NoneAdded, campaign' = campaign, Quiet, faults <= faults',
           \/ periodic' = periodic
           \/ /\ periodic'.pc \notin {"remind", "save"}
              /\ periodic.pc = "save" => faults + 1 <= faults'
    PROVE  MarketInv'
<1>1. faults' \in Nat
  BY DEF RewardsInv, Types
<1>2. RemindersOK'
  BY <1>1, QuietReminders
<1>3. CampaignOK' /\ IsFiniteSet(Queued)' /\ \A u \in Users : IsFiniteSet(Sending(u))'
  BY <1>1, NoneAddedCampaign
<1>4. MarketTypes'
  BY <1>3 DEF MarketInv, MarketTypes, Quiet
<1> QED
  BY <1>2, <1>3, <1>4 DEF MarketInv

\* A step that leaves queue, workers and campaign alone is one,
LEMMA SameWork ==
    ASSUME UNCHANGED <<queue, worker, campaign>>
    PROVE  NoneAdded
  BY DEF NoneAdded, Queued, Sending, MaySend

\* A step that leaves the trackers alone sends no reminder.
LEMMA SameTracker == ASSUME MarketInv, UNCHANGED tracker PROVE Quiet
  BY DEF MarketInv, MarketTypes, Quiet

\* The messages of an order are no campaign's.
LEMMA PublishAdds ==
    ASSUME NEW o, NEW copy, Publish(o, copy), UNCHANGED <<worker, campaign>>
    PROVE  NoneAdded
<1>1. \A m \in queue' : m \in queue \/ m.task # "campaign"
  BY DEF Publish, Message
<1> QED
  BY <1>1 DEF NoneAdded, Queued, Sending, MaySend

\* Nor is a run for an order.
LEMMA OrderRunAdds ==
    ASSUME MarketInv, NEW t \in Workers, NEW w, worker' = [worker EXCEPT ![t] = w],
           w = Idle \/ w.message.task # "campaign", UNCHANGED <<queue, campaign>>
    PROVE  NoneAdded
<1>1. \A s \in Workers : worker'[s] = IF s = t THEN w ELSE worker[s]
  BY DEF MarketInv, RewardsInv, Types
<1> QED
  BY <1>1 DEF NoneAdded, Queued, Sending, MaySend

\* The tasks of an order add no run of a campaign.
LEMMA OrderTaskAdds ==
    ASSUME MarketInv, NEW t \in Workers, UNCHANGED campaign,
           \/ AwardRead(t) \/ AwardCommit(t) \/ Redeem(t) \/ ReadReferral(t) \/ ReadAccount(t)
           \/ WriteAccount(t) \/ ReadAttributions(t) \/ FinalizeCommit(t) \/ Acknowledge(t)
    PROVE  NoneAdded /\ UNCHANGED <<tracker, periodic, faults>>
<1>1. RewardsInv
  BY DEF MarketInv
<1>2. ASSUME NEW w, NEW v \in Running, worker[t] = v, v.message.task # "campaign",
             w.message = v.message, worker' = [worker EXCEPT ![t] = w], UNCHANGED queue
      PROVE  NoneAdded
  BY <1>2, OrderRunAdds
<1>3. worker[t].pc # "idle" => worker[t] \in Running
  BY <1>1, BusyRun
<1>4. CASE AwardRead(t)
  <2>1. /\ worker[t].pc = "start" /\ worker[t].message.task = "award" /\ UNCHANGED queue
        /\ \/ worker' = [worker EXCEPT ![t] = [worker[t] EXCEPT !.pc = "write",
                                                  !.points = account[Owner[OrderOf(t)]].points]]
           \/ worker' = [worker EXCEPT ![t] = [worker[t] EXCEPT !.pc = "done"]]
    BY <1>4 DEF AwardRead, At, Step
  <2> QED
    BY <1>2, <1>3, <1>4, <2>1 DEF Running, AwardRead
<1>5. CASE AwardCommit(t)
  <2>1. /\ worker[t].pc = "write" /\ worker[t].message.task = "award" /\ UNCHANGED queue
        /\ worker' = [worker EXCEPT ![t] = [worker[t] EXCEPT !.pc = "done"]]
    BY <1>5 DEF AwardCommit, At, Step
  <2> QED
    BY <1>2, <1>3, <1>5, <2>1 DEF Running, AwardCommit
<1>6. CASE Redeem(t)
  <2> DEFINE fresh == orders[OrderOf(t)].coupon /\ OrderOf(t) \notin redeemed
  <2>1. /\ worker[t].pc = "start" /\ worker[t].message.task = "finalize" /\ UNCHANGED queue
        /\ worker' = [worker EXCEPT ![t] = [worker[t] EXCEPT !.pc = "referral", !.created = fresh]]
    BY <1>6 DEF Redeem, At
  <2> HIDE DEF fresh
  <2> QED
    BY <1>2, <1>3, <1>6, <2>1 DEF Running, Redeem
<1>7. CASE ReadReferral(t)
  <2> DEFINE reward == /\ Paid(OrderOf(t))
                       /\ \/ referral[Owner[OrderOf(t)]] = "pending"
                          \/ referral[Owner[OrderOf(t)]] = "none" /\ orders[OrderOf(t)].referral
             pc == IF reward THEN "account" ELSE "attribute"
  <2>1. /\ worker[t].pc = "referral" /\ worker[t].message.task = "finalize" /\ UNCHANGED queue
        /\ worker' = [worker EXCEPT ![t] = [worker[t] EXCEPT !.pc = pc, !.reward = reward]]
    BY <1>7 DEF ReadReferral, At
  <2> HIDE DEF reward, pc
  <2> QED
    BY <1>2, <1>3, <1>7, <2>1 DEF Running, ReadReferral
<1>8. CASE ReadAccount(t)
  <2> DEFINE points == account[Referrer[Owner[OrderOf(t)]]].points
  <2>1. /\ worker[t].pc = "account" /\ worker[t].message.task = "finalize" /\ UNCHANGED queue
        /\ worker' = [worker EXCEPT ![t] = [worker[t] EXCEPT !.pc = "write", !.points = points]]
    BY <1>8 DEF ReadAccount, At
  <2> HIDE DEF points
  <2> QED
    BY <1>2, <1>3, <1>8, <2>1 DEF Running, ReadAccount
<1>9. CASE WriteAccount(t)
  <2>1. /\ worker[t].pc = "write" /\ worker[t].message.task = "finalize" /\ UNCHANGED queue
        /\ worker' = [worker EXCEPT ![t] = [worker[t] EXCEPT !.pc = "attribute"]]
    BY <1>9 DEF WriteAccount, At, Step
  <2> QED
    BY <1>2, <1>3, <1>9, <2>1 DEF Running, WriteAccount
<1>10. CASE ReadAttributions(t)
  <2> DEFINE missing == {s \in Contributing(OrderOf(t)) : attributed[OrderOf(t)][s] = 0}
             paid == PaidOrders(Owner[OrderOf(t)])
  <2>1. /\ worker[t].pc = "attribute" /\ worker[t].message.task = "finalize" /\ UNCHANGED queue
        /\ worker' = [worker EXCEPT ![t] = [worker[t] EXCEPT !.pc = "commit", !.missing = missing,
                                                             !.paid = paid]]
    BY <1>10 DEF ReadAttributions, At
  <2> HIDE DEF missing, paid
  <2> QED
    BY <1>2, <1>3, <1>10, <2>1 DEF Running, ReadAttributions
<1>11. CASE FinalizeCommit(t)
  <2>1. /\ worker[t].pc = "commit" /\ worker[t].message.task = "finalize" /\ UNCHANGED queue
        /\ worker' = [worker EXCEPT ![t] = [worker[t] EXCEPT !.pc = "done", !.created = FALSE,
                                                             !.reward = FALSE]]
    BY <1>11 DEF FinalizeCommit, At
  <2> QED
    BY <1>2, <1>3, <1>11, <2>1 DEF Running, FinalizeCommit
<1>12. CASE Acknowledge(t)
  BY <1>12, OrderRunAdds DEF Acknowledge
<1> QED
  BY <1>4, <1>5, <1>6, <1>7, <1>8, <1>9, <1>10, <1>11, <1>12

\* A worker takes a message: what it may send moves from the queue to the run.
LEMMA TakeTaskMarket ==
    ASSUME MarketInv, RewardsInv', NEW t \in Workers, NEW m \in queue, TakeTask(t, m),
           UNCHANGED campaign
    PROVE  MarketInv'
<1> DEFINE w == [pc |-> "start", message |-> m, points |-> 0, created |-> FALSE,
                 reward |-> FALSE, missing |-> {}, paid |-> {}, todo |-> {}]
<1>1. /\ worker' = [worker EXCEPT ![t] = w] /\ queue' = queue \ {m}
      /\ UNCHANGED <<tracker, periodic, faults>>
  BY DEF TakeTask
<1>2. w.message = m /\ w.pc = "start"
  OBVIOUS
<1> HIDE DEF w
<1>3. \A s \in Workers : worker'[s] = IF s = t THEN w ELSE worker[s]
  BY <1>1 DEF MarketInv, RewardsInv, Types
<1>4. CASE m.task # "campaign" \/ campaign.status = "sent"
  <2>1. NoneAdded
    BY <1>1, <1>2, <1>3, <1>4 DEF NoneAdded, Queued, Sending, MaySend
  <2>2. faults \in Nat
    BY DEF MarketInv, RewardsInv, Types
  <2> QED
    BY <1>1, <2>1, <2>2, SameTracker, OtherStep
<1>5. CASE m.task = "campaign" /\ campaign.status # "sent"
  <2>1. m \in Queued /\ Queued' \subseteq Queued \ {m}
    BY <1>1, <1>5 DEF Queued
  <2>2. \A u \in Users : Sending(u)' \subseteq Sending(u) \cup {t}
    BY <1>3 DEF Sending, MaySend
  <2>3. /\ IsFiniteSet(Queued)' /\ Cardinality(Queued)' \in Nat
        /\ Cardinality(Queued)' + 1 <= Cardinality(Queued)
    BY <2>1, OneLess DEF MarketInv, MarketTypes
  <2>4. \A u \in Users : /\ IsFiniteSet(Sending(u))' /\ Cardinality(Sending(u))' \in Nat
                         /\ Cardinality(Sending(u))' <= Cardinality(Sending(u)) + 1
    BY <2>2, OneMore DEF MarketInv, MarketTypes
  <2>5. CampaignNumbers
    BY NumbersTyped
  <2>6. CampaignOK'
    BY <1>1, <2>3, <2>4, <2>5 DEF MarketInv, CampaignOK, CampaignNumbers
  <2>7. RemindersOK'
    BY <1>1, <2>5, SameTracker, QuietReminders DEF CampaignNumbers
  <2>8. MarketTypes'
    BY <1>1, <2>3, <2>4 DEF MarketInv, MarketTypes
  <2> QED
    BY <2>6, <2>7, <2>8 DEF MarketInv
<1> QED
  BY <1>4, <1>5

\* A worker dies: the message comes back, and the run starts afresh.
LEMMA CrashMarket ==
    ASSUME MarketInv, RewardsInv', NEW t \in Workers, Crash(t), UNCHANGED campaign
    PROVE  MarketInv'
<1> DEFINE m == worker[t].message
<1>1. /\ worker' = [worker EXCEPT ![t] = Idle] /\ queue' = queue \cup {m}
      /\ faults' = faults + 1 /\ UNCHANGED <<tracker, periodic>>
  BY DEF Crash
<1>2. \A s \in Workers : worker'[s] = IF s = t THEN Idle ELSE worker[s]
  BY <1>1 DEF MarketInv, RewardsInv, Types
<1>3. Queued' \subseteq Queued \cup {m} /\ \A u \in Users : Sending(u)' \subseteq Sending(u)
  BY <1>1, <1>2 DEF Queued, Sending, MaySend
<1>4. /\ IsFiniteSet(Queued)' /\ Cardinality(Queued)' \in Nat
      /\ Cardinality(Queued)' <= Cardinality(Queued) + 1
  BY <1>3, OneMore DEF MarketInv, MarketTypes
<1>5. \A u \in Users : /\ IsFiniteSet(Sending(u))' /\ Cardinality(Sending(u))' \in Nat
                       /\ Cardinality(Sending(u))' <= Cardinality(Sending(u))
  BY <1>3, NoMore DEF MarketInv, MarketTypes
<1>6. CampaignNumbers
  BY NumbersTyped
<1>7. CampaignOK'
  BY <1>1, <1>4, <1>5, <1>6 DEF MarketInv, CampaignOK, CampaignNumbers
<1>8. RemindersOK'
  BY <1>1, <1>6, SameTracker, QuietReminders DEF CampaignNumbers
<1>9. MarketTypes'
  BY <1>1, <1>4, <1>5 DEF MarketInv, MarketTypes
<1> QED
  BY <1>7, <1>8, <1>9 DEF MarketInv

\* The campaign is sent off: one message more, for which there is an excuse unless a
\* run has ended.
LEMMA SendCampaignMarket ==
    ASSUME MarketInv, RewardsInv', SendCampaign
    PROVE  MarketInv'
<1> DEFINE m == Message("campaign", NoOrder, campaign'.clicks)
           early == IF campaign.ended THEN campaign.early ELSE campaign.early + 1
<1>1. /\ campaign' = [campaign EXCEPT !.clicks = campaign.clicks + 1, !.early = early]
      /\ queue' = queue \cup {m} /\ UNCHANGED <<worker, tracker, periodic, faults>>
  BY DEF SendCampaign, OthersUnchanged
<1>2. campaign \in Campaigns
  BY DEF MarketInv, MarketTypes
<1>3. early \in Nat
  BY <1>2 DEF Campaigns
<1> HIDE DEF m, early
<1>4. /\ campaign' \in Campaigns /\ campaign'.status = campaign.status
      /\ campaign'.ended = campaign.ended /\ campaign'.sent = campaign.sent
      /\ campaign'.early = early
  <2> DEFINE clicks == campaign.clicks + 1
  <2>1. clicks \in Nat
    BY <1>2 DEF Campaigns
  <2>2. campaign' = [campaign EXCEPT !.clicks = clicks, !.early = early]
    BY <1>1
  <2> HIDE DEF clicks
  <2> QED
    BY <1>2, <1>3, <2>1, <2>2 DEF Campaigns
<1>5. /\ Queued' \subseteq IF campaign.ended THEN Queued ELSE Queued \cup {m}
      /\ \A u \in Users : Sending(u)' \subseteq Sending(u)
  BY <1>1, <1>4 DEF Queued, Sending, MaySend, MarketInv, CampaignOK
<1>6. CampaignNumbers
  BY NumbersTyped
<1>7. /\ IsFiniteSet(Queued)' /\ Cardinality(Queued)' \in Nat
      /\ Cardinality(Queued)' <= Cardinality(Queued) + (IF campaign.ended THEN 0 ELSE 1)
  <2>1. IsFiniteSet(Queued)
    BY DEF MarketInv, MarketTypes
  <2>2. CASE campaign.ended
    BY <1>5, <2>1, <2>2, NoMore
  <2>3. CASE ~campaign.ended
    BY <1>5, <2>1, <2>3, OneMore
  <2> QED
    BY <2>2, <2>3
<1>8. \A u \in Users : /\ IsFiniteSet(Sending(u))' /\ Cardinality(Sending(u))' \in Nat
                       /\ Cardinality(Sending(u))' <= Cardinality(Sending(u))
  BY <1>5, NoMore DEF MarketInv, MarketTypes
<1>9. early = campaign.early + (IF campaign.ended THEN 0 ELSE 1)
  BY <1>6 DEF early, CampaignNumbers
<1>10. CampaignOK'
  <2> SUFFICES ASSUME NEW u \in Users
               PROVE  campaign.sent[u] + Cardinality(Queued)' + Cardinality(Sending(u))'
                          <= early + faults
    BY <1>1, <1>4 DEF MarketInv, CampaignOK
  <2>1. campaign.sent[u] + Cardinality(Queued) + Cardinality(Sending(u)) <= campaign.early + faults
    BY DEF MarketInv, CampaignOK
  <2> QED
    BY <1>6, <1>7, <1>8, <1>9, <2>1 DEF CampaignNumbers
<1>11. RemindersOK'
  BY <1>1, <1>6, SameTracker, QuietReminders DEF CampaignNumbers
<1>12. MarketTypes'
  BY <1>1, <1>4, <1>7, <1>8 DEF MarketInv, MarketTypes
<1> QED
  BY <1>10, <1>11, <1>12 DEF MarketInv

\* A run of the campaign goes on to send, or finds the campaign sent.
LEMMA StartCampaignMarket ==
    ASSUME MarketInv, RewardsInv', NEW t \in Workers, StartCampaign(t)
    PROVE  MarketInv'
<1> DEFINE pc == IF campaign.status = "sent" THEN "done" ELSE "send"
           w == [worker[t] EXCEPT !.pc = pc, !.todo = Audience]
<1>1. /\ worker[t].pc = "start" /\ worker[t].message.task = "campaign"
      /\ worker' = [worker EXCEPT ![t] = w]
      /\ UNCHANGED <<campaign, queue, tracker, periodic, faults>>
  BY DEF StartCampaign, At, OthersUnchanged
<1>2. worker[t] \in Running
  BY <1>1, BusyRun DEF MarketInv
<1>3. w.pc = pc /\ w.message = worker[t].message /\ worker[t] # Idle
  BY <1>2, IdleIsNoRun DEF Running
<1> HIDE DEF w
<1>4. \A s \in Workers : worker'[s] = IF s = t THEN w ELSE worker[s]
  BY <1>1 DEF MarketInv, RewardsInv, Types
<1>5. \A u \in Users : MaySend(w, u) => MaySend(worker[t], u)
  BY <1>1, <1>3 DEF MaySend
<1>6. NoneAdded
  BY <1>1, <1>4, <1>5 DEF NoneAdded, Queued, Sending, MaySend
<1>7. faults \in Nat
  BY DEF MarketInv, RewardsInv, Types
<1> QED
  BY <1>1, <1>6, <1>7, SameTracker, OtherStep

\* The customer is reached by this run once.
LEMMA SendPromotionMarket ==
    ASSUME MarketInv, RewardsInv', NEW t \in Workers, NEW u \in Users, NEW suppressed \in BOOLEAN,
           SendPromotion(t, u, suppressed)
    PROVE  MarketInv'
<1> DEFINE w == [worker[t] EXCEPT !.todo = worker[t].todo \ {u}]
           sent == [campaign.sent EXCEPT ![u] = IF suppressed THEN campaign.sent[u]
                                                ELSE campaign.sent[u] + 1]
<1>1. /\ worker[t].pc = "send" /\ worker[t].message.task = "campaign" /\ u \in worker[t].todo
      /\ worker' = [worker EXCEPT ![t] = w]
      /\ campaign' = [campaign EXCEPT !.sent = sent]
      /\ UNCHANGED <<queue, tracker, periodic, faults>>
  BY DEF SendPromotion, At, OthersUnchanged
<1>2. worker[t] \in Running /\ campaign \in Campaigns
  BY <1>1, BusyRun DEF MarketInv, MarketTypes
<1>3. /\ w.pc = "send" /\ w.message = worker[t].message /\ w.todo = worker[t].todo \ {u}
      /\ worker[t] # Idle
  BY <1>1, <1>2, IdleIsNoRun DEF Running
<1> HIDE DEF w
<1>4. /\ sent \in [Users -> Nat] /\ sent[u] <= campaign.sent[u] + 1
      /\ \A v \in Users : v # u => sent[v] = campaign.sent[v]
  BY <1>2 DEF Campaigns
<1> HIDE DEF sent
<1>5. /\ campaign' \in Campaigns /\ campaign'.status = campaign.status
      /\ campaign'.ended = campaign.ended /\ campaign'.early = campaign.early
      /\ campaign'.sent = sent
  BY <1>1, <1>2, <1>4 DEF Campaigns
<1>6. \A s \in Workers : worker'[s] = IF s = t THEN w ELSE worker[s]
  BY <1>1 DEF MarketInv, RewardsInv, Types
<1>7. /\ Queued' \subseteq Queued
      /\ \A v \in Users : Sending(v)' \subseteq Sending(v)
      /\ t \in Sending(u) /\ Sending(u)' \subseteq Sending(u) \ {t}
  BY <1>1, <1>3, <1>5, <1>6 DEF Queued, Sending, MaySend
<1>8. /\ IsFiniteSet(Queued)' /\ Cardinality(Queued)' \in Nat
      /\ Cardinality(Queued)' <= Cardinality(Queued)
  BY <1>7, NoMore DEF MarketInv, MarketTypes
<1>9. \A v \in Users : /\ IsFiniteSet(Sending(v))' /\ Cardinality(Sending(v))' \in Nat
                       /\ Cardinality(Sending(v))' <= Cardinality(Sending(v))
  BY <1>7, NoMore DEF MarketInv, MarketTypes
<1>10. Cardinality(Sending(u))' + 1 <= Cardinality(Sending(u))
  BY <1>7, OneLess DEF MarketInv, MarketTypes
<1>11. CampaignNumbers
  BY NumbersTyped
<1>12. CampaignOK'
  <2> SUFFICES ASSUME NEW v \in Users
               PROVE  sent[v] + Cardinality(Queued)' + Cardinality(Sending(v))'
                          <= campaign.early + faults
    BY <1>1, <1>5 DEF MarketInv, CampaignOK
  <2>1. campaign.sent[v] + Cardinality(Queued) + Cardinality(Sending(v)) <= campaign.early + faults
    BY DEF MarketInv, CampaignOK
  <2>2. sent[v] \in Nat
    BY <1>4
  <2>3. CASE v = u
    BY <1>4, <1>8, <1>9, <1>10, <1>11, <2>1, <2>2, <2>3 DEF CampaignNumbers
  <2>4. CASE v # u
    BY <1>4, <1>8, <1>9, <1>11, <2>1, <2>2, <2>4 DEF CampaignNumbers
  <2> QED
    BY <2>3, <2>4
<1>13. RemindersOK'
  BY <1>1, <1>11, SameTracker, QuietReminders DEF CampaignNumbers
<1>14. MarketTypes'
  BY <1>1, <1>5, <1>8, <1>9 DEF MarketInv, MarketTypes
<1> QED
  BY <1>12, <1>13, <1>14 DEF MarketInv

\* From now on the messages and the runs that have not begun send nothing.
LEMMA EndCampaignMarket ==
    ASSUME MarketInv, RewardsInv', NEW t \in Workers, EndCampaign(t)
    PROVE  MarketInv'
<1> DEFINE w == [worker[t] EXCEPT !.pc = "done"]
<1>1. /\ worker[t].pc = "send" /\ worker[t].message.task = "campaign"
      /\ worker' = [worker EXCEPT ![t] = w]
      /\ campaign' = [campaign EXCEPT !.status = "sent", !.ended = TRUE]
      /\ UNCHANGED <<queue, tracker, periodic, faults>>
  BY DEF EndCampaign, At, Step, OthersUnchanged
<1>2. worker[t] \in Running /\ campaign \in Campaigns
  BY <1>1, BusyRun DEF MarketInv, MarketTypes
<1>3. w.pc = "done"
  BY <1>2 DEF Running
<1> HIDE DEF w
<1>4. /\ campaign' \in Campaigns /\ campaign'.status = "sent" /\ campaign'.ended = TRUE
      /\ campaign'.early = campaign.early /\ campaign'.sent = campaign.sent
  BY <1>1, <1>2 DEF Campaigns
<1>5. \A s \in Workers : worker'[s] = IF s = t THEN w ELSE worker[s]
  BY <1>1 DEF MarketInv, RewardsInv, Types
<1>6. Queued' \subseteq Queued /\ \A v \in Users : Sending(v)' \subseteq Sending(v)
  BY <1>3, <1>4, <1>5 DEF Queued, Sending, MaySend
<1>7. /\ IsFiniteSet(Queued)' /\ Cardinality(Queued)' \in Nat
      /\ Cardinality(Queued)' <= Cardinality(Queued)
  BY <1>6, NoMore DEF MarketInv, MarketTypes
<1>8. \A v \in Users : /\ IsFiniteSet(Sending(v))' /\ Cardinality(Sending(v))' \in Nat
                       /\ Cardinality(Sending(v))' <= Cardinality(Sending(v))
  BY <1>6, NoMore DEF MarketInv, MarketTypes
<1>9. CampaignNumbers
  BY NumbersTyped
<1>10. CampaignOK'
  BY <1>1, <1>4, <1>7, <1>8, <1>9 DEF MarketInv, CampaignOK, CampaignNumbers
<1>11. RemindersOK'
  BY <1>1, <1>9, SameTracker, QuietReminders DEF CampaignNumbers
<1>12. MarketTypes'
  BY <1>1, <1>4, <1>7, <1>8 DEF MarketInv, MarketTypes
<1> QED
  BY <1>10, <1>11, <1>12 DEF MarketInv

\* The order, the payment and the cart change a tracker's status, not its reminders.
LEMMA OneTracker ==
    ASSUME MarketInv, NEW u \in Users, NEW r \in Trackers, tracker' = [tracker EXCEPT ![u] = r],
           r.reminders = tracker[u].reminders, r.sent = tracker[u].sent
    PROVE  Quiet
  BY DEF MarketInv, MarketTypes, Quiet

\* Emptying a cart sends no reminder,
LEMMA EmptyQuiet == ASSUME MarketInv, NEW u \in Users, sync_empty(u) PROVE Quiet
<1> DEFINE status == IF tracker[u].status = "active" THEN "expired" ELSE tracker[u].status
           r == [tracker[u] EXCEPT !.filled = FALSE, !.status = status]
<1>1. tracker \in [Users -> Trackers]
  BY DEF MarketInv, MarketTypes
<1>2. tracker' = [tracker EXCEPT ![u] = r]
  BY <1>1 DEF sync_empty, Trackers
<1>3. status \in {"none", "active", "reminded", "recovered", "expired"}
  BY <1>1 DEF Trackers
<1> HIDE DEF status
<1>4. r \in Trackers /\ r.reminders = tracker[u].reminders /\ r.sent = tracker[u].sent
  BY <1>1, <1>3 DEF Trackers
<1> QED
  BY <1>2, <1>4, OneTracker

\* ... nor does filling one,
LEMMA FillQuiet == ASSUME MarketInv, NEW u \in Users, FillCart(u) PROVE Quiet
<1> DEFINE r == [tracker[u] EXCEPT !.filled = TRUE, !.status = "active"]
<1>1. tracker \in [Users -> Trackers]
  BY DEF MarketInv, MarketTypes
<1>2. tracker' = [tracker EXCEPT ![u] = r]
  BY <1>1 DEF FillCart, Trackers
<1>3. r \in Trackers /\ r.reminders = tracker[u].reminders /\ r.sent = tracker[u].sent
  BY <1>1 DEF Trackers
<1> QED
  BY <1>2, <1>3, OneTracker

\* ... nor an order made from it.
LEMMA RecoveredQuiet ==
    ASSUME MarketInv, NEW o \in Orders, mark_abandoned_cart_recovered(o)
    PROVE  Quiet
<1> DEFINE u == Owner[o]
           status == IF tracker[u].status = "none" THEN tracker[u].status ELSE "recovered"
           order == IF tracker[u].status = "none" THEN tracker[u].recovered ELSE o
           r == [tracker[u] EXCEPT !.recovered = order, !.status = status]
<1>1. tracker \in [Users -> Trackers] /\ u \in Users
  BY UsersAssumption DEF MarketInv, MarketTypes
<1>2. tracker' = [tracker EXCEPT ![u] = r]
  BY <1>1 DEF mark_abandoned_cart_recovered, Trackers
<1>3. /\ status \in {"none", "active", "reminded", "recovered", "expired"}
      /\ order \in Orders \cup {NoOrder}
  BY <1>1 DEF Trackers
<1> HIDE DEF status, order, u
<1>4. r \in Trackers /\ r.reminders = tracker[u].reminders /\ r.sent = tracker[u].sent
  BY <1>1, <1>3 DEF Trackers
<1> QED
  BY <1>1, <1>2, <1>4, OneTracker

\* What customers and staff do to orders and carts.
LEMMA CustomerMarket ==
    ASSUME MarketInv, RewardsInv', scope.followed \subseteq Users, CustomerStep
    PROVE  MarketInv'
<1>1. UNCHANGED campaign /\ faults \in Nat
  BY DEF CustomerStep, MarketInv, RewardsInv, Types
<1>2. ASSUME NEW o \in Orders, NEW coupon \in BOOLEAN, NEW weekend \in BOOLEAN,
             PlaceOrder(o, coupon, weekend)
      PROVE  MarketInv'
  <2>1. sync_empty(Owner[o]) /\ Owner[o] \in Users /\ UNCHANGED <<queue, worker, periodic, faults>>
    BY <1>2, UsersAssumption DEF PlaceOrder, taskVars
  <2> QED
    BY <1>1, <2>1, EmptyQuiet, SameWork, OtherStep
<1>3. ASSUME NEW o \in Orders, PayOrder(o) PROVE MarketInv'
  <2>1. mark_abandoned_cart_recovered(o) /\ Publish(o, 0) /\ UNCHANGED <<worker, periodic, faults>>
    BY <1>3 DEF PayOrder
  <2> QED
    BY <1>1, <2>1, RecoveredQuiet, PublishAdds, OtherStep
<1>4. ASSUME NEW o \in Orders, RefundOrder(o) PROVE MarketInv'
  <2>1. UNCHANGED <<tracker, queue, worker, periodic, faults>>
    BY <1>4 DEF RefundOrder, taskVars
  <2> QED
    BY <1>1, <2>1, SameTracker, SameWork, OtherStep
<1>5. ASSUME NEW u \in scope.followed, FillCart(u), u \in Users PROVE MarketInv'
  <2>1. UNCHANGED <<queue, worker, periodic, faults>>
    BY <1>5 DEF FillCart, taskVars
  <2> QED
    BY <1>1, <1>5, <2>1, FillQuiet, SameWork, OtherStep
<1>6. ASSUME NEW u \in scope.followed, EmptyCart(u), u \in Users PROVE MarketInv'
  <2>1. sync_empty(u) /\ UNCHANGED <<queue, worker, periodic, faults>>
    BY <1>6 DEF EmptyCart, taskVars
  <2> QED
    BY <1>1, <1>6, <2>1, EmptyQuiet, SameWork, OtherStep
<1> QED
  BY <1>2, <1>3, <1>4, <1>5, <1>6 DEF CustomerStep

\* A reminder: the tracker that was fetched has sent fewer than MaxReminders.
LEMMA ReadTrackerMarket ==
    ASSUME MarketInv, RewardsInv', NEW u \in Users, ReadTracker(u), UNCHANGED campaign
    PROVE  MarketInv'
<1>1. /\ periodic = NotRunning /\ tracker[u].reminders < MaxReminders
      /\ periodic' = [pc |-> "remind", user |-> u, reminders |-> tracker[u].reminders]
      /\ UNCHANGED <<tracker, queue, worker, faults>>
  BY DEF ReadTracker, taskVars
<1>2. periodic.pc = "idle"
  BY <1>1 DEF NotRunning
<1>3. RemindersOK'
  <2>1. \A v \in Users : Saving(v)' = 0 /\ Saving(v) = 0
    BY <1>1, <1>2 DEF Saving
  <2>2. tracker[u].reminders \in Nat
    BY DEF MarketInv, MarketTypes, Trackers
  <2> QED
    BY <1>1, <2>1, <2>2 DEF MarketInv, RemindersOK
<1>4. faults \in Nat
  BY DEF MarketInv, RewardsInv, Types
<1>5. CampaignOK' /\ IsFiniteSet(Queued)' /\ \A v \in Users : IsFiniteSet(Sending(v))'
  BY <1>1, <1>4, SameWork, NoneAddedCampaign
<1>6. MarketTypes'
  BY <1>1, <1>5 DEF MarketInv, MarketTypes
<1> QED
  BY <1>3, <1>5, <1>6 DEF MarketInv

\* A reminder is sent, or the cart is given up.
LEMMA RemindMarket ==
    ASSUME MarketInv, RewardsInv', NEW u \in Users, NEW due \in BOOLEAN, Remind(u, due),
           UNCHANGED campaign
    PROVE  MarketInv'
<1> DEFINE goes == tracker[u].filled /\ due
           status == IF tracker[u].filled THEN tracker[u].status ELSE "expired"
           sent == IF goes THEN tracker[u].sent + 1 ELSE tracker[u].sent
           r == [tracker[u] EXCEPT !.status = status, !.sent = sent]
<1>1. tracker \in [Users -> Trackers] /\ faults \in Nat /\ MaxReminders \in Nat
  BY RewardAssumption DEF MarketInv, MarketTypes, RewardsInv, Types
<1>2. /\ periodic.pc = "remind" /\ periodic.user = u
      /\ periodic' = IF goes THEN [periodic EXCEPT !.pc = "save"] ELSE NotRunning
      /\ UNCHANGED <<queue, worker, faults>>
  BY DEF Remind, taskVars
<1>3. tracker' = [tracker EXCEPT ![u] = r]
  BY <1>1 DEF Remind, Trackers
<1>4. /\ status \in {"none", "active", "reminded", "recovered", "expired"}
      /\ sent \in Nat
  BY <1>1 DEF Trackers
<1>5. sent = tracker[u].sent + (IF goes THEN 1 ELSE 0)
  BY <1>1 DEF Trackers
<1> HIDE DEF status, sent
<1>6. r \in Trackers /\ r.reminders = tracker[u].reminders /\ r.sent = sent
  BY <1>1, <1>4 DEF Trackers
<1> HIDE DEF r
<1>7. /\ tracker' \in [Users -> Trackers] /\ tracker'[u] = r
      /\ \A v \in Users : v # u => tracker'[v] = tracker[v]
  BY <1>1, <1>3, <1>6
<1>8. /\ periodic.reminders = tracker[u].reminders /\ periodic.reminders < MaxReminders
      /\ \A v \in Users : /\ tracker[v].reminders <= MaxReminders
                          /\ tracker[v].sent <= tracker[v].reminders + faults
                          /\ tracker[v].reminders \in Nat /\ tracker[v].sent \in Nat
  BY <1>1, <1>2 DEF MarketInv, RemindersOK, Saving, Trackers
<1>9. RemindersOK'
  <2>1. CASE goes
    <3> DEFINE p == [periodic EXCEPT !.pc = "save"]
    <3>1. periodic' = p
      BY <1>2, <2>1
    <3>2. /\ p \in [pc : {"remind", "save"}, user : Users, reminders : Nat]
          /\ p.pc = "save" /\ p.user = u /\ p.reminders = periodic.reminders
      BY <1>2 DEF MarketInv, RemindersOK
    <3> HIDE DEF p
    <3>3. \A v \in Users : Saving(v)' = IF v = u THEN 1 ELSE 0
      BY <3>1, <3>2 DEF Saving
    <3>4. \A v \in Users : tracker'[v].sent <= tracker'[v].reminders + faults + Saving(v)'
      BY <1>1, <1>5, <1>6, <1>7, <1>8, <2>1, <3>3
    <3> QED
      BY <1>2, <1>6, <1>7, <1>8, <3>1, <3>2, <3>4 DEF RemindersOK
  <2>2. CASE ~goes
    <3>1. periodic'.pc = "idle"
      BY <1>2, <2>2 DEF NotRunning
    <3>2. \A v \in Users : Saving(v)' = 0
      BY <3>1 DEF Saving
    <3>3. sent = tracker[u].sent
      BY <1>1, <1>5, <1>8, <2>2
    <3>4. \A v \in Users : tracker'[v].sent <= tracker'[v].reminders + faults + Saving(v)'
      BY <1>1, <1>6, <1>7, <1>8, <3>2, <3>3
    <3> QED
      BY <1>2, <1>6, <1>7, <1>8, <3>1, <3>4 DEF RemindersOK
  <2> QED
    BY <2>1, <2>2
<1>10. CampaignOK' /\ IsFiniteSet(Queued)' /\ \A v \in Users : IsFiniteSet(Sending(v))'
  BY <1>1, <1>2, SameWork, NoneAddedCampaign
<1>11. MarketTypes'
  BY <1>7, <1>10 DEF MarketInv, MarketTypes
<1> QED
  BY <1>9, <1>10, <1>11 DEF MarketInv

\* The count that was fetched is still the tracker's.
LEMMA SaveTrackerMarket ==
    ASSUME MarketInv, RewardsInv', NEW u \in Users, SaveTracker(u), UNCHANGED campaign
    PROVE  MarketInv'
<1> DEFINE count == periodic.reminders + 1
           r == [tracker[u] EXCEPT !.reminders = count, !.status = "reminded"]
<1>1. tracker \in [Users -> Trackers] /\ faults \in Nat /\ MaxReminders \in Nat
  BY RewardAssumption DEF MarketInv, MarketTypes, RewardsInv, Types
<1>2. /\ periodic.pc = "save" /\ periodic.user = u /\ periodic' = NotRunning
      /\ UNCHANGED <<queue, worker, faults>>
  BY DEF SaveTracker, taskVars
<1>3. tracker' = [tracker EXCEPT ![u] = r]
  BY <1>1 DEF SaveTracker, Trackers
<1>4. /\ periodic.reminders \in Nat /\ periodic.reminders < MaxReminders
      /\ periodic.reminders = tracker[u].reminders
      /\ \A v \in Users : /\ tracker[v].reminders <= MaxReminders
                          /\ tracker[v].sent <= tracker[v].reminders + faults + Saving(v)
                          /\ tracker[v].reminders \in Nat /\ tracker[v].sent \in Nat
  BY <1>1, <1>2 DEF MarketInv, RemindersOK, Trackers
<1>5. count \in Nat /\ count = tracker[u].reminders + 1 /\ count <= MaxReminders
  BY <1>1, <1>4
<1> HIDE DEF count
<1>6. r \in Trackers /\ r.reminders = count /\ r.sent = tracker[u].sent
  BY <1>1, <1>5 DEF Trackers
<1> HIDE DEF r
<1>7. /\ tracker' \in [Users -> Trackers] /\ tracker'[u] = r
      /\ \A v \in Users : v # u => tracker'[v] = tracker[v]
  BY <1>1, <1>3, <1>6
<1>8. periodic'.pc = "idle"
  BY <1>2 DEF NotRunning
<1>9. \A v \in Users : Saving(v)' = 0 /\ Saving(v) = IF v = u THEN 1 ELSE 0
  BY <1>2, <1>8 DEF Saving
<1>10. \A v \in Users : /\ tracker'[v].reminders <= MaxReminders
                        /\ tracker'[v].sent <= tracker'[v].reminders + faults + Saving(v)'
  BY <1>1, <1>4, <1>5, <1>6, <1>7, <1>9
<1>11. RemindersOK'
  BY <1>2, <1>8, <1>10 DEF RemindersOK
<1>12. CampaignOK' /\ IsFiniteSet(Queued)' /\ \A v \in Users : IsFiniteSet(Sending(v))'
  BY <1>1, <1>2, SameWork, NoneAddedCampaign
<1>13. MarketTypes'
  BY <1>7, <1>12 DEF MarketInv, MarketTypes
<1> QED
  BY <1>11, <1>12, <1>13 DEF MarketInv

\* The other periodic tasks send nothing.
LEMMA PeriodicMarket ==
    ASSUME MarketInv, RewardsInv', NEW u, CLVStep(u) \/ HabitsStep(u) \/ SegmentStep(u)
    PROVE  MarketInv'
<1>1. /\ UNCHANGED <<tracker, queue, worker, campaign, faults>>
      /\ periodic.pc # "save"
  BY DEF CLVStep, HabitsStep, SegmentStep, ReadRevenue, WriteRevenue, ReadHabits, WriteHabits,
         DeleteMemberships, CreateMembership, NotRunning, taskVars
<1>2. periodic'.pc \notin {"remind", "save"}
  BY DEF CLVStep, HabitsStep, SegmentStep, ReadRevenue, WriteRevenue, ReadHabits, WriteHabits,
         DeleteMemberships, CreateMembership, NotRunning
<1>3. faults \in Nat
  BY DEF MarketInv, RewardsInv, Types
<1> QED
  BY <1>1, <1>2, <1>3, SameTracker, SameWork, OtherStep

\* Of the workers that die, each excuses one more.
LEMMA FaultMarket == ASSUME MarketInv, RewardsInv', Fault PROVE MarketInv'
<1>1. UNCHANGED campaign /\ faults \in Nat
  BY DEF Fault, MarketInv, RewardsInv, Types
<1>2. ASSUME NEW o \in Orders, PublishAgain(o) PROVE MarketInv'
  <2>1. mark_abandoned_cart_recovered(o) /\ Publish(o, faults') /\ faults' = faults + 1
        /\ UNCHANGED <<worker, periodic>>
    BY <1>2 DEF PublishAgain
  <2> QED
    BY <1>1, <2>1, RecoveredQuiet, PublishAdds, OtherStep
<1>3. ASSUME NEW t \in Workers, Crash(t) PROVE MarketInv'
  BY <1>1, <1>3, CrashMarket
<1>4. CASE PeriodicCrash
  <2>1. /\ periodic' = NotRunning /\ faults' = faults + 1 /\ UNCHANGED <<tracker, queue, worker>>
    BY <1>4 DEF PeriodicCrash, taskVars
  <2>2. periodic'.pc \notin {"remind", "save"}
    BY <2>1 DEF NotRunning
  <2> QED
    BY <1>1, <2>1, <2>2, SameTracker, SameWork, OtherStep
<1> QED
  BY <1>2, <1>3, <1>4 DEF Fault

\* Whom the periodic tasks serve never changes.
MarketSafe == MarketInv /\ scope \in Scopes

\* The invariant holds at first.
LEMMA MarketInit == Init => MarketSafe
<1> SUFFICES ASSUME Init PROVE MarketInv /\ scope \in Scopes
  BY DEF MarketSafe
<1>1. RewardsInv
  BY RewardsInit
<1>2. /\ tracker = [u \in Users |-> NoTracker] /\ campaign = NoCampaign /\ queue = {}
      /\ worker = [t \in Workers |-> Idle] /\ periodic = NotRunning /\ faults = 0
      /\ scope \in Scopes
  BY DEF Init
<1>3. Queued = {} /\ \A u \in Users : Sending(u) = {}
  BY <1>2 DEF Queued, Sending, MaySend
<1>4. IsFiniteSet({}) /\ Cardinality({}) = 0
  BY FS_EmptySet
<1>5. tracker \in [Users -> Trackers] /\ campaign \in Campaigns
  BY <1>2 DEF NoTracker, Trackers, NoCampaign, Campaigns
<1>6. MarketTypes
  BY <1>3, <1>4, <1>5 DEF MarketTypes
<1>7. RemindersOK
  BY <1>2, RewardAssumption DEF RemindersOK, Saving, NoTracker, NotRunning
<1>8. CampaignOK
  <2>1. \A u \in Users : Cardinality(Queued) = 0 /\ Cardinality(Sending(u)) = 0
    BY <1>3, <1>4
  <2> QED
    BY <1>2, <2>1 DEF CampaignOK, NoCampaign
<1> QED
  BY <1>1, <1>2, <1>6, <1>7, <1>8 DEF MarketInv

\* The invariant is inductive.
LEMMA MarketNext == MarketSafe /\ [Next]_vars => MarketSafe'
<1> SUFFICES ASSUME MarketInv, scope \in Scopes, [Next]_vars PROVE MarketInv' /\ scope' \in Scopes
  BY DEF MarketSafe
<1>1. scope' = scope
  BY DEF Next, CustomerStep, Fault, TaskStep, CampaignStep, CLVStep, HabitsStep, SegmentStep,
         ReminderStep, vars
<1> SUFFICES MarketInv'
  BY <1>1
<1>2. RewardsInv'
  BY RewardsNext DEF MarketInv
<1>3. scope.followed \subseteq Users
  BY ScopesAssumption
<1>4. faults \in Nat
  BY DEF MarketInv, RewardsInv, Types
<1>5. CASE CustomerStep
  BY <1>2, <1>3, <1>5, CustomerMarket
<1>6. CASE Fault
  BY <1>2, <1>6, FaultMarket
<1>7. CASE SendCampaign
  BY <1>2, <1>7, SendCampaignMarket
<1>8. ASSUME NEW t \in Workers, TaskStep(t) PROVE MarketInv'
  <2>1. UNCHANGED campaign
    BY <1>8 DEF TaskStep
  <2>2. ASSUME NEW m \in queue, TakeTask(t, m) PROVE MarketInv'
    BY <1>2, <2>1, <2>2, TakeTaskMarket
  <2>3. CASE \/ AwardRead(t) \/ AwardCommit(t) \/ Redeem(t) \/ ReadReferral(t) \/ ReadAccount(t)
             \/ WriteAccount(t) \/ ReadAttributions(t) \/ FinalizeCommit(t) \/ Acknowledge(t)
    <3>1. NoneAdded /\ UNCHANGED <<tracker, periodic, faults>>
      BY <2>1, <2>3, OrderTaskAdds
    <3> QED
      BY <1>2, <1>4, <2>1, <3>1, SameTracker, OtherStep
  <2> QED
    BY <1>8, <2>2, <2>3 DEF TaskStep
<1>9. ASSUME NEW t \in Workers, CampaignStep(t) PROVE MarketInv'
  BY <1>2, <1>9, StartCampaignMarket, EndCampaignMarket, SendPromotionMarket DEF CampaignStep
<1>10. ASSUME NEW u \in scope.followed, CLVStep(u) \/ HabitsStep(u) \/ SegmentStep(u) PROVE MarketInv'
  BY <1>2, <1>10, PeriodicMarket
<1>11. ASSUME NEW u \in scope.followed, ReminderStep(u) PROVE MarketInv'
  <2>1. u \in Users
    BY <1>3
  <2> QED
    BY <1>2, <1>11, <2>1, ReadTrackerMarket, RemindMarket, SaveTrackerMarket DEF ReminderStep
<1>12. CASE UNCHANGED vars
  <2>1. UNCHANGED <<tracker, queue, worker, campaign, periodic, faults>>
    BY <1>12 DEF vars, taskVars
  <2> QED
    BY <1>2, <1>4, <2>1, SameTracker, SameWork, OtherStep
<1> QED
  BY <1>5, <1>6, <1>7, <1>8, <1>9, <1>10, <1>11, <1>12 DEF Next

\* process_abandoned_cart_reminders and send_promotion_campaign_task: a customer gets no
\* more reminders than MaxReminders, and no campaign more often than staff sent it off
\* before a run of it had ended, but once more for each worker that died.
THEOREM MarketingIsExcused == Spec => []MarketingExcused
<1>1. MarketSafe => MarketingExcused
  <2> SUFFICES ASSUME MarketInv, NEW u \in Users
               PROVE  /\ tracker[u].sent <= MaxReminders + faults
                      /\ campaign.sent[u] <= campaign.early + faults
    BY DEF MarketingExcused, MarketSafe
  <2>1. CampaignNumbers
    BY NumbersTyped
  <2>2. campaign.sent[u] <= campaign.early + faults
    BY <2>1 DEF MarketInv, CampaignOK, CampaignNumbers
  <2>3. /\ tracker[u].sent \in Nat /\ tracker[u].reminders \in Nat
        /\ faults \in Nat /\ MaxReminders \in Nat
        /\ tracker[u].reminders <= MaxReminders
        /\ tracker[u].sent <= tracker[u].reminders + faults + Saving(u)
    BY RewardAssumption DEF MarketInv, MarketTypes, RemindersOK, RewardsInv, Types, Trackers
  <2>4. CASE periodic.pc = "save" /\ periodic.user = u
    <3>1. periodic.reminders = tracker[u].reminders /\ periodic.reminders < MaxReminders
      BY <2>4 DEF MarketInv, RemindersOK
    <3> QED
      BY <2>2, <2>3, <2>4, <3>1 DEF Saving
  <2>5. CASE ~(periodic.pc = "save" /\ periodic.user = u)
    BY <2>2, <2>3, <2>5 DEF Saving
  <2> QED
    BY <2>4, <2>5
<1> QED
  BY <1>1, MarketInit, MarketNext, PTL DEF Spec

=============================================================================
