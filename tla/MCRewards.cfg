CONSTANTS
    o1 = o1
    o2 = o2
    buyer = buyer
    friend = friend
    t1 = t1
    t2 = t2
    NoOrder = NoOrder
    NoSegment = NoSegment
    CampaignSegment = "new"
    Users = {buyer, friend}
    Orders = {o1, o2}
    Owner <- MCOwner
    Subtotal <- MCSubtotal
    Referrer <- MCReferrer
    Coupon <- MCCoupon
    Rules <- MCRules
    Workers = {t1, t2}
    PointsPerUnit = 1
    PointsUnit = 5
    GoldThreshold = 3
    HighRevenue = 20
    Reward = 2
    MaxReminders = 1
    VipOrders = 1
    Scopes <- MCScopes
    LastOrder <- MCLastOrder
SPECIFICATION FairSpec
CHECK_DEADLOCK FALSE
INVARIANTS UsageCountsRedemptions PointsWithinLedger AttributedOnce MarketingExcused
PROPERTIES ReferralRewarded NightlySettles
