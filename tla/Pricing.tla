------------------------------ MODULE Pricing ------------------------------
(***************************************************************************)
(* What an order costs and what it earns (apps/growth/coupon_service.py,   *)
(* promotion_service.py, checkout_integration.py, clv_service.py and       *)
(* apps/loyalty/services.py): the discounts of a checkout, the points, the *)
(* tiers and the segments that follow from what a customer has paid.       *)
(* Amounts are whole units of money.                                       *)
(***************************************************************************)
EXTENDS Sums, Sequences

CONSTANTS
    Coupon,          \* the coupon: discount, limits and conditions
    Rules,           \* the active promotion rules, by priority and id
    PointsPerUnit,   \* LOYALTY_POINTS_PER_1000_TOMAN and
    PointsUnit,      \* the amount it is given for
    GoldThreshold,   \* LOYALTY_GOLD_THRESHOLD
    HighRevenue      \* CLVService.HIGH_THRESHOLD, also the spend of a VIP

RuleTypes == {"weekend_discount", "vip_discount", "category_discount", "buy_x_get_y"}

\* The rows of Coupon and PromotionRule, with what the discounts depend on.
Coupons == [percentage : BOOLEAN, value : Nat, max_discount : Nat, min_order : Nat,
            limit_global : Nat, limit_per_user : Nat, first_order : BOOLEAN]
PromotionRules == [type : RuleTypes, value : Nat]

ASSUME CouponAssumption == Coupon \in Coupons
ASSUME RulesAssumption == Rules \in Seq(PromotionRules)

ASSUME AmountsAssumption ==
    /\ PointsPerUnit \in Nat /\ PointsUnit \in Nat \ {0}
    /\ GoldThreshold \in Nat /\ HighRevenue \in Nat

Smaller(a, b) == IF a <= b THEN a ELSE b

PercentOf(amount, percent) == (amount * percent) \div 100

\* CouponService.calculate_discount.
calculate_discount(subtotal) ==
    Smaller(IF Coupon.percentage THEN PercentOf(subtotal, Coupon.value)
            ELSE Smaller(Coupon.value, subtotal),
            Coupon.max_discount)

\* PromotionRuleService._apply_rule: on a cart that meets the conditions of the rules
\* for categories and quantities, whose value is then a sum of money.
apply_rule(rule, subtotal, vip, weekend) ==
    CASE rule.type = "weekend_discount" -> IF weekend THEN PercentOf(subtotal, rule.value) ELSE 0
      [] rule.type = "vip_discount"     -> IF vip THEN PercentOf(subtotal, rule.value) ELSE 0
      [] OTHER                          -> rule.value

\* evaluate: rules are tried in turn until one applies that is not for VIPs; VIP
\* discounts before it are added up.
evaluate(subtotal, vip, weekend) ==
    LET gives == [i \in DOMAIN Rules |-> apply_rule(Rules[i], subtotal, vip, weekend)]
        stops(i) == gives[i] > 0 /\ Rules[i].type # "vip_discount"
        tried == {i \in DOMAIN Rules : \A j \in 1..(i - 1) : ~stops(j)}
    IN  Smaller(Total(gives, tried), subtotal)

\* GrowthCheckoutFacade.prepare and apply_to_order: the discounts are recorded in
\* full, their sum is limited to the subtotal.
total_after(subtotal, discount, promotion) == subtotal - Smaller(subtotal, discount + promotion)

points_for_order_total(total) == (total \div PointsUnit) * PointsPerUnit

\* Only the highest tier tells: "normal" stands for silver, too.
calculate_tier(lifetime_points) == IF lifetime_points >= GoldThreshold THEN "gold" ELSE "normal"

Segments == {"new", "active", "vip", "at_risk", "dormant"}

\* classify_user_segment; "idle" is the age of the last paid order: up to 45 days,
\* up to 90, or more.
classify_user_segment(order_count, spend, tier, idle) ==
    CASE order_count = 0 -> "new"
      [] order_count # 0 /\ (tier = "gold" \/ spend >= HighRevenue) -> "vip"
      [] OTHER -> CASE idle = 2 -> "dormant" [] idle = 1 -> "at_risk" [] OTHER -> "active"

=============================================================================
