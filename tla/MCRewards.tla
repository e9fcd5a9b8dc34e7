----------------------------- MODULE MCRewards -----------------------------
(***************************************************************************)
(* A customer who was referred and the one who referred her.  First an     *)
(* order of each: the reward for the one and the points for the other meet *)
(* in one account.  Then an order whose tasks run twice and in parallel.   *)
(* Then an order among the reminders and the periodic tasks, with its own  *)
(* tasks, or with workers that die.  Last a campaign that is sent off      *)
(* twice.                                                                  *)
(***************************************************************************)
EXTENDS Rewards, TLC

CONSTANTS o1, o2, buyer, friend, t1, t2

MCOwner == [o \in Orders |-> IF o = o1 THEN buyer ELSE friend]
MCSubtotal == [o \in Orders |-> IF o = o1 THEN 10 ELSE 20]
MCReferrer == buyer :> friend @@ friend :> friend

MCLastOrder == [u \in Users |-> 1]

MCCoupon == [percentage |-> TRUE, value |-> 50, max_discount |-> 5, min_order |-> 10,
             limit_global |-> 1, limit_per_user |-> 1, first_order |-> TRUE]

MCScopes ==
    {[orders |-> {o1, o2}, followed |-> {}, workers |-> {t1, t2}, faults |-> 0, clicks |-> 0],
     [orders |-> {o1}, followed |-> {}, workers |-> {t1, t2}, faults |-> 1, clicks |-> 0],
     [orders |-> {o1}, followed |-> {buyer}, workers |-> {t1}, faults |-> 0, clicks |-> 0],
     [orders |-> {o1}, followed |-> {buyer}, workers |-> {}, faults |-> 1, clicks |-> 0],
     [orders |-> {}, followed |-> {buyer}, workers |-> {t1, t2}, faults |-> 1, clicks |-> 2]}

MCRules == <<[type |-> "vip_discount", value |-> 10], [type |-> "buy_x_get_y", value |-> 7]>>

=============================================================================
