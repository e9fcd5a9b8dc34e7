CONSTANTS
    o1 = o1
    o2 = o2
    o3 = o3
    o4 = o4
    o5 = o5
    Online = {o1}
    Stripe = {o2}
    Counter = {o3, o5}
    Cod = {o4}
    created_at <- MCcreated_at
    localdate <- MClocaldate
    MaxPayments = 2
    Scopes <- MCScopes
    DASHBOARD_LIMIT = 1
    DEFAULT_LOOKUP_LIMIT = 1
    PICKUP_LIST_LIMIT = 1
SPECIFICATION DeskFairSpec
INVARIANTS DeskTypeOK PaidOnRecord ClosedHoldsNothing SoldIsOnScreen
PROPERTIES PaidOnce OnlyStaffCancelPaid PendingEnds NeverBackwards
