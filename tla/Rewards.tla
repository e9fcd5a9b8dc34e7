------------------------------ MODULE Rewards ------------------------------
(***************************************************************************)
(* What follows from a payment: loyalty points, the coupon's redemption,   *)
(* the referral's reward, revenue attribution, the customer's value and    *)
(* segment, the reminders of carts left behind and the campaigns to a      *)
(* segment (apps/loyalty, apps/growth).                                    *)
(*                                                                         *)
(* The work is done by Celery tasks that may run twice (Lifecycle starts   *)
(* them again when it is retried, and a message whose worker dies comes    *)
(* back) and in parallel.  Each task is one transaction under READ         *)
(* COMMITTED, modelled in the steps between which another transaction may  *)
(* commit: what it has read may be old when it writes.  A write to a row   *)
(* that an open transaction has written waits until that one ends.         *)
(*                                                                         *)
(* Operators marked "Defect" are faulty variants of the definition below   *)
(* them, kept to show that a property notices the fault.                   *)
(***************************************************************************)
EXTENDS Pricing

CONSTANTS
    Users,        \* registered customers
    Orders,       \* orders they may place
    Owner,        \* the customer of each order
    Subtotal,     \* the goods of each order
    Referrer,     \* whose referral code a customer enters
    Workers,      \* task workers
    Reward,       \* REFERRAL_REWARD_POINTS
    MaxReminders, \* ABANDONED_CART_MAX_REMINDERS
    VipOrders,    \* paid orders that make a customer of high value a regular (3)
    CampaignSegment, \* whom the campaign is for; NoSegment: everybody
    NoSegment,
    LastOrder,    \* bound: the age of a customer's last order, which stays, see Pricing
    Scopes,       \* bound: the parts of all this that run together, see "scope"
    NoOrder

\* ReferralCode: whose code it is that a customer has.
ReferralCodes == [Users -> Users]

ASSUME UsersAssumption ==
    /\ Owner \in [Orders -> Users] /\ Subtotal \in [Orders -> Nat]
    /\ Referrer \in ReferralCodes
    /\ LastOrder \in [Users -> 0..2]
ASSUME RewardAssumption == Reward \in Nat /\ MaxReminders \in Nat /\ VipOrders \in Nat
ASSUME NoOrderAssumption == NoOrder \notin Orders
ASSUME SegmentAssumption == CampaignSegment \in Segments \cup {NoSegment}
ASSUME ScopesAssumption ==
    Scopes \subseteq [orders : SUBSET Orders, followed : SUBSET Users, workers : SUBSET Workers,
                      faults : Nat, clicks : Nat]

VARIABLES
    orders,     \* the Order rows: state, coupon, discounts and total
    account,    \* LoyaltyAccount per user: points (and lifetime points) and tier
    ledger,     \* the EARN rows of each account, added up
    earn,       \* the orders EARN rows carry, with what the row is for
    redeemed,   \* orders with a CouponRedemption
    usage,      \* the coupon's usage_count
    referral,   \* the Referral of each user as the referred one
    attributed, \* RevenueAttribution rows per order and source
    clv,        \* CustomerCLVProfile per user: the paid orders its figures were computed from
    segment,    \* CustomerSegmentMembership rows per user
    habits,     \* CustomerIntelligenceProfile per user
    tracker,    \* AbandonedCartTracker per user, with the cart it follows
    campaign,   \* a PromotionCampaign: its status; how often it was sent off, and how often
                \* before a run of it had ended; what each customer got
    queue,      \* messages at the broker
    worker,     \* what each worker is doing
    periodic,   \* the periodic task under way
    faults,     \* workers that have died and events handled twice
    scope       \* chosen once: the orders placed, the customers whose carts are followed and
                \* whom the periodic tasks serve, the workers there are, the faults at most,
                \* and how often the campaign is sent off

taskVars == <<queue, worker>>
loyaltyVars == <<account, ledger, earn>>
growthVars == <<redeemed, usage, referral, attributed>>
profileVars == <<clv, segment, habits>>
vars == <<orders, loyaltyVars, growthVars, profileVars, tracker, campaign, taskVars, periodic,
          faults, scope>>

-----------------------------------------------------------------------------
(* The tables. *)

\* LoyaltyAccount: lifetime_points only grow together with the points, and nothing
\* is redeemed.
LoyaltyAccounts == [points : Nat, tier : {"normal", "gold"}]
NewAccount == [points |-> 0, tier |-> calculate_tier(0)]

\* LoyaltyTransaction: the EARN rows, each with the order it carries.
EarnRows == Orders \X {"award", "referral"}

\* CouponRedemption: one per order, by its unique constraint.
Redemptions(u) == {o \in redeemed : Owner[o] = u}

\* Referral: a customer is referred once (unique); "none" if there is no row.
ReferralStatuses == {"none", "pending", "rewarded"}

\* RevenueAttribution: how many rows an order has for a source, which no constraint
\* limits.
Sources == {"coupon", "referral", "promotion", "sms"}
NotAttributed == [s \in Sources |-> 0]

\* CustomerCLVProfile: of its figures, the orders they were computed from.
CLVProfiles == SUBSET Orders

\* CustomerSegmentMembership: the segments of a customer; nothing keeps them to one.
Memberships == SUBSET Segments

\* CustomerIntelligenceProfile: the same, and two of the tags.
HabitProfiles == [orders : SUBSET Orders, vip : BOOLEAN, sensitive : BOOLEAN]
NoHabits == [orders |-> {}, vip |-> FALSE, sensitive |-> FALSE]

\* AbandonedCartTracker with the cart it follows, and "sent": the reminders that went out.
Trackers == [status : {"none", "active", "reminded", "recovered", "expired"}, filled : BOOLEAN,
             reminders : Nat, recovered : Orders \cup {NoOrder}, sent : Nat]
NoTracker == [status |-> "none", filled |-> FALSE, reminders |-> 0, recovered |-> NoOrder,
              sent |-> 0]

\* PromotionCampaign, with what is told of it under "campaign".
Campaigns == [status : {"draft", "sent"}, clicks : Nat, early : Nat, ended : BOOLEAN,
              sent : [Users -> Nat]]

NotPlaced == [state |-> "none", coupon |-> FALSE, referral |-> FALSE, promotion |-> 0, total |-> 0]

Paid(o) == orders[o].state = "paid"

PaidOrders(u) == {o \in Orders : Owner[o] = u /\ Paid(o)}

Revenue(os) == Total([o \in os |-> orders[o].total], os)

IsVip(u) == account[u].tier = "gold" \/ Revenue(clv[u]) >= HighRevenue

-----------------------------------------------------------------------------
(* Checkout with coupon, promotions and referral code, and what becomes of *)
(* the order.                                                              *)

\* CouponService.validate.
validate(u, subtotal) ==
    /\ usage < Coupon.limit_global
    /\ subtotal >= Coupon.min_order
    /\ Coupon.first_order => PaidOrders(u) = {}
    /\ Cardinality(Redemptions(u)) < Coupon.limit_per_user

\* ReferralService.validate_for_checkout, then attach_pending_referral.
validate_for_checkout(u) == Referrer[u] # u /\ referral[u] = "none"

\* The checkout empties the cart, and the tracker follows.
sync_empty(u) ==
    tracker' = [tracker EXCEPT ![u].filled = FALSE,
                               ![u].status = IF @ = "active" THEN "expired" ELSE @]

PlaceOrder(o, coupon, weekend) ==
    LET u == Owner[o]
        discount == IF coupon THEN calculate_discount(Subtotal[o]) ELSE 0
        promotion == evaluate(Subtotal[o], IsVip(u), weekend)
        refer == validate_for_checkout(u)
    IN  /\ o \in scope.orders /\ orders[o] = NotPlaced
        /\ u \in scope.followed => tracker[u].filled
        /\ coupon => validate(u, Subtotal[o])
        /\ orders' = [orders EXCEPT ![o] =
              [state |-> "pending", coupon |-> coupon, referral |-> refer, promotion |-> promotion,
               total |-> total_after(Subtotal[o], discount, promotion)]]
        /\ referral' = [referral EXCEPT ![u] = IF refer THEN "pending" ELSE @]
        /\ sync_empty(u)
        /\ UNCHANGED <<loyaltyVars, redeemed, usage, attributed, profileVars, taskVars,
                       periodic, faults>>

\* The tasks the lifecycle event of a payment starts.
Message(task, o, copy) == [task |-> task, order |-> o, copy |-> copy]

Publish(o, copy) ==
    queue' = queue \cup {Message(task, o, copy) : task \in {"award", "finalize"}}

\* The event also marks the customer's cart as recovered.
mark_abandoned_cart_recovered(o) ==
    tracker' = [tracker EXCEPT ![Owner[o]].recovered =
                    IF tracker[Owner[o]].status = "none" THEN @ ELSE o,
                ![Owner[o]].status = IF @ = "none" THEN @ ELSE "recovered"]

PayOrder(o) ==
    /\ orders[o].state = "pending"
    /\ orders' = [orders EXCEPT ![o].state = "paid"]
    /\ mark_abandoned_cart_recovered(o)
    /\ Publish(o, 0)
    /\ UNCHANGED <<loyaltyVars, growthVars, profileVars, worker, periodic, faults>>

\* The lifecycle task is retried after it has started these.
PublishAgain(o) ==
    /\ orders[o].state \in {"paid", "refunded"} /\ faults < scope.faults
    /\ faults' = faults + 1
    /\ Publish(o, faults')
    /\ mark_abandoned_cart_recovered(o)
    /\ UNCHANGED <<orders, loyaltyVars, growthVars, profileVars, worker, periodic>>

RefundOrder(o) ==
    /\ Paid(o)
    /\ orders' = [orders EXCEPT ![o].state = "refunded"]
    /\ UNCHANGED <<loyaltyVars, growthVars, profileVars, tracker, taskVars, periodic, faults>>

-----------------------------------------------------------------------------
(* The workers. *)

Idle == [pc |-> "idle"]

At(t, task, pc) == worker[t].pc = pc /\ worker[t].message.task = task

OrderOf(t) == worker[t].message.order

Step(t, pc) == worker' = [worker EXCEPT ![t].pc = pc]

TakeTask(t, m) ==
    /\ t \in scope.workers /\ worker[t] = Idle /\ m \in queue
    /\ queue' = queue \ {m}
    /\ worker' = [worker EXCEPT ![t] = [pc |-> "start", message |-> m, points |-> 0,
                                        created |-> FALSE, reward |-> FALSE, missing |-> {},
                                        paid |-> {}, todo |-> {}]]
    /\ UNCHANGED <<orders, loyaltyVars, growthVars, profileVars, tracker,
                   periodic, faults>>

\* The message is acknowledged when the task has ended.
Acknowledge(t) ==
    /\ worker[t].pc = "done"
    /\ worker' = [worker EXCEPT ![t] = Idle]
    /\ UNCHANGED <<orders, loyaltyVars, growthVars, profileVars, tracker, queue,
                   periodic, faults>>

\* Defect: a message is acknowledged when it is taken.
CrashAfterAck(t) ==
    /\ worker[t] # Idle /\ faults < scope.faults
    /\ faults' = faults + 1
    /\ worker' = [worker EXCEPT ![t] = Idle]
    /\ UNCHANGED <<orders, loyaltyVars, growthVars, profileVars, tracker, queue, periodic>>

\* An open transaction is rolled back and the message comes back (acks_late).
Crash(t) ==
    /\ worker[t] # Idle /\ faults < scope.faults
    /\ faults' = faults + 1
    /\ queue' = queue \cup {worker[t].message}
    /\ worker' = [worker EXCEPT ![t] = Idle]
    /\ UNCHANGED <<orders, loyaltyVars, growthVars, profileVars, tracker, periodic>>

\* Accounts an open transaction has written: another write waits.
AccountLocked(u) ==
    \E t \in Workers : /\ worker[t].pc \in {"attribute", "commit"} /\ worker[t].reward
                       /\ Referrer[Owner[OrderOf(t)]] = u

Earned(o) == points_for_order_total(orders[o].total)

\* award_points_for_order up to the read of the account.
AwardRead(t) ==
    LET o == OrderOf(t)
    IN  /\ At(t, "award", "start")
        /\ IF Paid(o) /\ {e \in earn : e[1] = o} = {} /\ Earned(o) > 0
           THEN worker' = [worker EXCEPT ![t].pc = "write", ![t].points = account[Owner[o]].points]
           ELSE Step(t, "done")
        /\ UNCHANGED <<orders, loyaltyVars, growthVars, profileVars, tracker, queue,
                       periodic, faults>>

\* Defect: the account is saved and the EARN row is forgotten.
AwardWithoutRow(t) ==
    LET o == OrderOf(t)
        points == worker[t].points + Earned(o)
    IN  /\ At(t, "award", "write") /\ ~AccountLocked(Owner[o])
        /\ account' = [account EXCEPT ![Owner[o]] =
                          [points |-> points, tier |-> calculate_tier(points)]]
        /\ Step(t, "done")
        /\ UNCHANGED <<orders, ledger, earn, growthVars, profileVars, tracker, queue,
                       periodic, faults>>

\* The account is saved with the points that were read plus the new ones.
AwardCommit(t) ==
    LET o == OrderOf(t)
        u == Owner[o]
        points == worker[t].points + Earned(o)
    IN  /\ At(t, "award", "write") /\ ~AccountLocked(u)
        /\ account' = [account EXCEPT ![u] = [points |-> points, tier |-> calculate_tier(points)]]
        /\ ledger' = [ledger EXCEPT ![u] = @ + Earned(o)]
        /\ earn' = earn \cup {<<o, "award">>}
        /\ Step(t, "done")
        /\ UNCHANGED <<orders, growthVars, profileVars, tracker, queue, periodic,
                       faults>>

\* An open transaction has inserted the order's redemption and counted it, which
\* locks the coupon's row.
CouponLocked == \E t \in Workers : worker[t].pc # "idle" /\ worker[t].created

\* Defect: every run of the task takes the coupon for unused.
RedeemAgain(t) ==
    /\ At(t, "finalize", "start")
    /\ worker' = [worker EXCEPT ![t].pc = "referral", ![t].created = orders[OrderOf(t)].coupon]
    /\ UNCHANGED <<orders, loyaltyVars, growthVars, profileVars, tracker, queue,
                   periodic, faults>>

\* CouponService.redeem: get_or_create of the order's redemption (unique), and the
\* count goes up in the database when it was created.
Redeem(t) ==
    LET o == OrderOf(t)
    IN  /\ At(t, "finalize", "start")
        /\ orders[o].coupon /\ o \notin redeemed => ~CouponLocked
        /\ worker' = [worker EXCEPT ![t].pc = "referral",
                                    ![t].created = orders[o].coupon /\ o \notin redeemed]
        /\ UNCHANGED <<orders, loyaltyVars, growthVars, profileVars, tracker, queue,
                       periodic, faults>>

\* ReferralService.finalize_on_payment looks for a pending referral.
ReadReferral(t) ==
    LET o == OrderOf(t)
    IN  /\ At(t, "finalize", "referral")
        /\ LET reward == /\ Paid(o)
                         /\ \/ referral[Owner[o]] = "pending"
                            \/ referral[Owner[o]] = "none" /\ orders[o].referral
           IN  worker' = [worker EXCEPT ![t].pc = IF reward THEN "account" ELSE "attribute",
                                        ![t].reward = reward]
        /\ UNCHANGED <<orders, loyaltyVars, growthVars, profileVars, tracker, queue,
                       periodic, faults>>

ReferralLocked(t) ==
    \E s \in Workers \ {t} : /\ worker[s].pc \in {"write", "attribute", "commit"}
                             /\ worker[s].message.task = "finalize" /\ worker[s].reward
                             /\ Owner[OrderOf(s)] = Owner[OrderOf(t)]

\* The referral is saved as completed, then the referrer's account is read,
ReadAccount(t) ==
    /\ At(t, "finalize", "account")
    /\ ~ReferralLocked(t)
    /\ worker' = [worker EXCEPT ![t].pc = "write",
                                ![t].points = account[Referrer[Owner[OrderOf(t)]]].points]
    /\ UNCHANGED <<orders, loyaltyVars, growthVars, profileVars, tracker, queue,
                   periodic, faults>>

\* and saved.
WriteAccount(t) ==
    /\ At(t, "finalize", "write")
    /\ ~AccountLocked(Referrer[Owner[OrderOf(t)]])
    /\ Step(t, "attribute")
    /\ UNCHANGED <<orders, loyaltyVars, growthVars, profileVars, tracker, queue,
                   periodic, faults>>

\* AttributionService.record_for_order: the sources that contributed to the order.
Contributing(o) ==
    LET u == Owner[o]
        discounted == orders[o].coupon /\ calculate_discount(Subtotal[o]) > 0
    IN  {s \in Sources : \/ s = "coupon" /\ discounted
                         \/ s = "referral" /\ orders[o].referral
                         \/ s = "promotion" /\ orders[o].promotion > 0
                         \/ s = "sms" /\ tracker[u].status = "recovered" /\ tracker[u].recovered = o}

\* get_or_create finds the rows that are committed; CLVService reads the paid orders.
ReadAttributions(t) ==
    LET o == OrderOf(t)
    IN  /\ At(t, "finalize", "attribute")
        /\ worker' = [worker EXCEPT ![t].pc = "commit",
              ![t].missing = {s \in Contributing(o) : attributed[o][s] = 0},
              ![t].paid = PaidOrders(Owner[o])]
        /\ UNCHANGED <<orders, loyaltyVars, growthVars, profileVars, tracker, queue,
                       periodic, faults>>

\* GrowthCheckoutFacade.finalize_on_payment commits all of it at once.
FinalizeCommit(t) ==
    LET o == OrderOf(t)
        u == Owner[o]
        r == Referrer[u]
        w == worker[t]
    IN  /\ At(t, "finalize", "commit")
        /\ redeemed' = IF w.created THEN redeemed \cup {o} ELSE redeemed
        /\ usage' = IF w.created THEN usage + 1 ELSE usage
        /\ account' = [account EXCEPT ![r].points = IF w.reward THEN w.points + Reward ELSE @]
        /\ ledger' = [ledger EXCEPT ![r] = IF w.reward THEN @ + Reward ELSE @]
        /\ earn' = IF w.reward THEN earn \cup {<<o, "referral">>} ELSE earn
        /\ referral' = [referral EXCEPT ![u] = IF w.reward THEN "rewarded" ELSE @]
        /\ attributed' = [attributed EXCEPT ![o] =
                             [s \in Sources |-> IF s \in w.missing THEN @[s] + 1 ELSE @[s]]]
        /\ clv' = [clv EXCEPT ![u] = w.paid]
        /\ worker' = [worker EXCEPT ![t].pc = "done", ![t].created = FALSE, ![t].reward = FALSE]
        /\ UNCHANGED <<orders, segment, habits, tracker, queue, periodic, faults>>

-----------------------------------------------------------------------------
(* Campaigns: a message to every customer of a segment. *)

NoCampaign == [status |-> "draft", clicks |-> 0, early |-> 0, ended |-> FALSE,
               sent |-> [u \in Users |-> 0]]

OthersUnchanged == UNCHANGED <<orders, loyaltyVars, growthVars, profileVars, tracker, periodic, faults>>

\* send_campaign_sms: staff may choose the action again at any time.
SendCampaign ==
    /\ campaign.clicks < scope.clicks
    /\ campaign' = [campaign EXCEPT !.clicks = @ + 1, !.early = IF campaign.ended THEN @ ELSE @ + 1]
    /\ queue' = queue \cup {Message("campaign", NoOrder, campaign'.clicks)}
    /\ UNCHANGED worker
    /\ OthersUnchanged

Audience == {u \in Users : CampaignSegment = NoSegment \/ CampaignSegment \in segment[u]}

\* send_promotion_campaign_task reads the campaign, and its customers in one query,
StartCampaign(t) ==
    /\ At(t, "campaign", "start")
    /\ worker' = [worker EXCEPT ![t].pc = IF campaign.status = "sent" THEN "done" ELSE "send",
                                ![t].todo = Audience]
    /\ UNCHANGED <<campaign, queue>>
    /\ OthersUnchanged

\* sends to one after the other, which the quiet hours and the daily limit may
\* suppress: the dedupe_key finds no earlier message, see Messages,
SendPromotion(t, u, suppressed) ==
    /\ At(t, "campaign", "send") /\ u \in worker[t].todo
    /\ worker' = [worker EXCEPT ![t].todo = @ \ {u}]
    /\ campaign' = [campaign EXCEPT !.sent[u] = IF suppressed THEN @ ELSE @ + 1]
    /\ UNCHANGED queue
    /\ OthersUnchanged

\* Defect: the campaign stays a draft.
EndWithoutStatus(t) ==
    /\ At(t, "campaign", "send") /\ worker[t].todo = {}
    /\ campaign' = [campaign EXCEPT !.ended = TRUE]
    /\ Step(t, "done")
    /\ UNCHANGED queue
    /\ OthersUnchanged

\* and saves the campaign as sent, even if no message was.
EndCampaign(t) ==
    /\ At(t, "campaign", "send") /\ worker[t].todo = {}
    /\ campaign' = [campaign EXCEPT !.status = "sent", !.ended = TRUE]
    /\ Step(t, "done")
    /\ UNCHANGED queue
    /\ OthersUnchanged

-----------------------------------------------------------------------------
(* Carts that are filled and left, and the periodic tasks: for one         *)
(* customer after the other, each write its own transaction.               *)

\* Bound: a cart is filled for an order that is yet to come.
MayFill(u) == \E o \in scope.orders : Owner[o] = u /\ orders[o] = NotPlaced

\* Defect: activity in the cart starts the reminders anew.
FillCartAfresh(u) ==
    /\ MayFill(u)
    /\ tracker' = [tracker EXCEPT ![u].filled = TRUE, ![u].status = "active", ![u].reminders = 0]
    /\ UNCHANGED <<orders, loyaltyVars, growthVars, profileVars, taskVars, periodic, faults>>

\* sync_abandoned_cart_tracker on a cart with items; the reminders are not reset.
FillCart(u) ==
    /\ MayFill(u)
    /\ tracker' = [tracker EXCEPT ![u].filled = TRUE, ![u].status = "active"]
    /\ UNCHANGED <<orders, loyaltyVars, growthVars, profileVars, taskVars, periodic, faults>>

EmptyCart(u) ==
    /\ tracker[u].filled
    /\ sync_empty(u)
    /\ UNCHANGED <<orders, loyaltyVars, growthVars, profileVars, taskVars, periodic, faults>>

NotRunning == [pc |-> "idle"]

\* CLVService.calculate_for_user, from refresh_all: read the paid orders,
ReadRevenue(u) ==
    /\ periodic = NotRunning
    /\ periodic' = [pc |-> "clv", user |-> u, paid |-> PaidOrders(u)]
    /\ UNCHANGED <<orders, loyaltyVars, growthVars, profileVars, tracker, taskVars, faults>>

\* then write the profile.
WriteRevenue(u) ==
    /\ periodic.pc = "clv" /\ periodic.user = u
    /\ clv' = [clv EXCEPT ![u] = periodic.paid]
    /\ periodic' = NotRunning
    /\ UNCHANGED <<orders, loyaltyVars, growthVars, segment, habits, tracker, taskVars, faults>>

\* classify_user_segment of the customer as the database has her.
Segment(u) ==
    classify_user_segment(Cardinality(PaidOrders(u)), Revenue(PaidOrders(u)), account[u].tier, LastOrder[u])

\* Defect: a customer who has a segment keeps it.
KeepMemberships(u) ==
    /\ periodic = NotRunning /\ segment[u] = {}
    /\ periodic' = [pc |-> "membership", user |-> u, segment |-> Segment(u)]
    /\ UNCHANGED <<orders, loyaltyVars, growthVars, profileVars, tracker, taskVars, faults>>

\* refresh_customer_segments: leave the membership alone when it is right, or delete
\* it,
DeleteMemberships(u) ==
    /\ periodic = NotRunning /\ segment[u] # {Segment(u)}
    /\ segment' = [segment EXCEPT ![u] = {}]
    /\ periodic' = [pc |-> "membership", user |-> u, segment |-> Segment(u)]
    /\ UNCHANGED <<orders, loyaltyVars, growthVars, clv, habits, tracker, taskVars, faults>>

\* and create the right one.
CreateMembership(u) ==
    /\ periodic.pc = "membership" /\ periodic.user = u
    /\ segment' = [segment EXCEPT ![u] = @ \cup {periodic.segment}]
    /\ periodic' = NotRunning
    /\ UNCHANGED <<orders, loyaltyVars, growthVars, clv, habits, tracker, taskVars, faults>>

\* Orders with a discount, paid or not.
Discounted(u) ==
    {o \in Orders : Owner[o] = u /\ orders[o].coupon /\ calculate_discount(Subtotal[o]) > 0}

\* CustomerIntelligenceService.update_user: the orders its figures come from, and two
\* of its tags.  The value of the customer is the one CLVService has recorded.
Habits(u) ==
    LET paid == PaidOrders(u)
        discounted == Cardinality(Discounted(u))
    IN  [orders |-> paid,
         vip |-> Revenue(clv[u]) >= HighRevenue /\ Cardinality(paid) >= VipOrders,
         sensitive |-> \/ Cardinality(Redemptions(u)) >= 2
                       \/ paid # {} /\ 2 * discounted >= Cardinality(paid)]

\* update_customer_intelligence_task, half an hour after the customers' values:
ReadHabits(u) ==
    /\ periodic = NotRunning
    /\ periodic' = [pc |-> "habits", user |-> u, habits |-> Habits(u)]
    /\ UNCHANGED <<orders, loyaltyVars, growthVars, profileVars, tracker, taskVars, faults>>

WriteHabits(u) ==
    /\ periodic.pc = "habits" /\ periodic.user = u
    /\ habits' = [habits EXCEPT ![u] = periodic.habits]
    /\ periodic' = NotRunning
    /\ UNCHANGED <<orders, loyaltyVars, growthVars, clv, segment, tracker, taskVars, faults>>

\* process_abandoned_cart_reminders fetches the trackers,
ReadTracker(u) ==
    /\ periodic = NotRunning
    /\ tracker[u].status \in {"active", "reminded"} /\ tracker[u].reminders < MaxReminders
    /\ periodic' = [pc |-> "remind", user |-> u, reminders |-> tracker[u].reminders]
    /\ UNCHANGED <<orders, loyaltyVars, growthVars, profileVars, tracker, taskVars, faults>>

\* looks at each one's cart and sends the reminder when the cart was left for long
\* enough,
Remind(u, due) ==
    /\ periodic.pc = "remind" /\ periodic.user = u
    /\ tracker' = [tracker EXCEPT
          ![u].status = IF tracker[u].filled THEN @ ELSE "expired",
          ![u].sent = IF tracker[u].filled /\ due THEN @ + 1 ELSE @]
    /\ periodic' = IF tracker[u].filled /\ due THEN [periodic EXCEPT !.pc = "save"] ELSE NotRunning
    /\ UNCHANGED <<orders, loyaltyVars, growthVars, profileVars, taskVars, faults>>

\* and then saves the tracker: the count it has fetched plus one, and REMINDED
\* whatever the status is by now.
SaveTracker(u) ==
    /\ periodic.pc = "save" /\ periodic.user = u
    /\ tracker' = [tracker EXCEPT ![u].reminders = periodic.reminders + 1, ![u].status = "reminded"]
    /\ periodic' = NotRunning
    /\ UNCHANGED <<orders, loyaltyVars, growthVars, profileVars, taskVars, faults>>

PeriodicCrash ==
    /\ periodic # NotRunning /\ faults < scope.faults
    /\ faults' = faults + 1
    /\ periodic' = NotRunning
    /\ UNCHANGED <<orders, loyaltyVars, growthVars, profileVars, tracker, taskVars>>

-----------------------------------------------------------------------------
Init ==
    /\ orders = [o \in Orders |-> NotPlaced]
    /\ account = [u \in Users |-> NewAccount]
    /\ ledger = [u \in Users |-> 0]
    /\ earn = {} /\ redeemed = {} /\ usage = 0
    /\ referral = [u \in Users |-> "none"]
    /\ attributed = [o \in Orders |-> NotAttributed]
    /\ clv = [u \in Users |-> {}]
    /\ segment = [u \in Users |-> {}]
    /\ habits = [u \in Users |-> NoHabits]
    /\ tracker = [u \in Users |-> NoTracker]
    /\ campaign = NoCampaign
    /\ queue = {}
    /\ worker = [t \in Workers |-> Idle]
    /\ periodic = NotRunning
    /\ faults = 0
    /\ scope \in Scopes

CustomerStep ==
    /\ UNCHANGED <<campaign, scope>>
    /\ \/ \E o \in Orders, coupon, weekend \in BOOLEAN : PlaceOrder(o, coupon, weekend)
       \/ \E o \in Orders : PayOrder(o) \/ RefundOrder(o)
       \/ \E u \in scope.followed : FillCart(u) \/ EmptyCart(u)

TaskStep(t) ==
    /\ UNCHANGED <<campaign, scope>>
    /\ \/ AwardRead(t) \/ AwardCommit(t)
       \/ Redeem(t) \/ ReadReferral(t) \/ ReadAccount(t) \/ WriteAccount(t)
       \/ ReadAttributions(t) \/ FinalizeCommit(t) \/ Acknowledge(t)
       \/ \E m \in queue : TakeTask(t, m)

CLVStep(u) == UNCHANGED <<campaign, scope>> /\ (ReadRevenue(u) \/ WriteRevenue(u))

HabitsStep(u) == UNCHANGED <<campaign, scope>> /\ (ReadHabits(u) \/ WriteHabits(u))

SegmentStep(u) == UNCHANGED <<campaign, scope>> /\ (DeleteMemberships(u) \/ CreateMembership(u))

ReminderStep(u) ==
    /\ UNCHANGED <<campaign, scope>>
    /\ ReadTracker(u) \/ SaveTracker(u) \/ \E due \in BOOLEAN : Remind(u, due)

CampaignStep(t) ==
    /\ UNCHANGED scope
    /\ \/ StartCampaign(t) \/ EndCampaign(t)
       \/ \E u \in Users, suppressed \in BOOLEAN : SendPromotion(t, u, suppressed)

Fault ==
    /\ UNCHANGED <<campaign, scope>>
    /\ \/ \E o \in Orders : PublishAgain(o)
       \/ \E t \in Workers : Crash(t)
       \/ PeriodicCrash

Next ==
    \/ CustomerStep \/ Fault
    \/ SendCampaign /\ UNCHANGED scope
    \/ \E t \in Workers : TaskStep(t) \/ CampaignStep(t)
    \/ \E u \in scope.followed : CLVStep(u) \/ HabitsStep(u) \/ SegmentStep(u) \/ ReminderStep(u)

Spec == Init /\ [][Next]_vars

\* Workers go on with what they have.  Beat starts each periodic task again and again,
\* and in a run of it every customer has her turn.
FairSpec ==
    /\ Spec
    /\ \A t \in Workers : WF_vars(TaskStep(t) \/ CampaignStep(t))
    /\ \A u \in UNION {s.followed : s \in Scopes} :
          /\ SF_vars(u \in scope.followed /\ CLVStep(u))
          /\ SF_vars(u \in scope.followed /\ SegmentStep(u))
          /\ SF_vars(u \in scope.followed /\ HabitsStep(u))
          /\ WF_vars(periodic.pc # "idle" /\ periodic.user = u /\ ReminderStep(u))

-----------------------------------------------------------------------------
(* Properties. *)

Messages == [task : {"award", "finalize"}, order : Orders, copy : Nat]
            \cup [task : {"campaign"}, order : {NoOrder}, copy : Nat]

Running == [pc : {"start", "send", "referral", "account", "write", "attribute", "commit", "done"},
            message : Messages, points : Nat, created : BOOLEAN, reward : BOOLEAN,
            missing : SUBSET Sources, paid : SUBSET Orders, todo : SUBSET Users]

\* Every variable has its type.
TypeOK ==
    /\ orders \in [Orders -> [state : {"none", "pending", "paid", "refunded"}, coupon : BOOLEAN,
                              referral : BOOLEAN, promotion : Nat, total : Nat]]
    /\ account \in [Users -> LoyaltyAccounts]
    /\ ledger \in [Users -> Nat]
    /\ earn \subseteq EarnRows
    /\ redeemed \subseteq Orders /\ usage \in Nat
    /\ referral \in [Users -> ReferralStatuses]
    /\ attributed \in [Orders -> [Sources -> Nat]]
    /\ clv \in [Users -> CLVProfiles]
    /\ segment \in [Users -> Memberships]
    /\ habits \in [Users -> HabitProfiles]
    /\ tracker \in [Users -> Trackers]
    /\ campaign \in Campaigns
    /\ queue \subseteq Messages
    /\ worker \in [Workers -> Running \cup {Idle}]
    /\ faults \in 0..scope.faults /\ scope \in Scopes

\* The coupon's counter says how often it was redeemed: an order counts once however
\* often, and however parallel, its finalize task runs.
UsageCountsRedemptions == usage = Cardinality(redeemed)

\* A customer never has points the ledger does not justify.  Two tasks that add to
\* one account at the same time may lose points, not make them.
PointsWithinLedger == \A u \in Users : account[u].points <= ledger[u]

\* The revenue of an order with a coupon is attributed to each source once although
\* no constraint says so: its redemption, which is unique, comes first and makes a
\* second run of the task wait for the first.  Only "sms" may follow in a later run,
\* or in two at a time: a reminder may have gone out since.
AttributedOnce ==
    \A o \in Orders : orders[o].coupon =>
        \A s \in Sources \ {"sms"} : attributed[o][s] <= 1

\* Marketing is not repeated without an excuse.  A customer gets at most MaxReminders
\* reminders of a cart, and one more for each worker that died, however often the cart
\* is emptied, bought and filled again.  A campaign reaches her once for each time
\* staff sent it off before a run of it had ended, and for each worker that died:
\* sending it off later sends nothing.
MarketingExcused ==
    \A u \in Users : /\ tracker[u].sent <= MaxReminders + faults
                     /\ campaign.sent[u] <= campaign.early + faults

\* The referral of a customer whose order is paid and stays paid is rewarded.
ReferralRewarded ==
    \A u \in Users : (scope.workers # {} /\ referral[u] = "pending" /\ PaidOrders(u) # {}) ~>
                         (referral[u] = "rewarded" \/ PaidOrders(u) = {})

\* Whatever stale value a task has written over a newer one, and wherever a run was
\* cut off, the periodic tasks set the revenue, the tags and the one segment of a
\* customer right, although each starts from what another has written.
NightlySettles ==
    <>[](\A u \in scope.followed :
            /\ clv[u] = PaidOrders(u)
            /\ segment[u] = {Segment(u)}
            /\ habits[u] = Habits(u))

=============================================================================
