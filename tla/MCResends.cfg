CONSTANTS
    o1 = o1
    o2 = o2
    w1 = w1
    w2 = w2
    t1 = t1
    t2 = t2
    Orders = {o1, o2}
    Phoned = {o1, o2}
    Cod = {o2}
    Operations <- MCCodOperations
    Web = {w1}
    Tasks = {t1}
    ActiveTemplates = {"payment_success"}
    SmsPerDay = 1
    DedupeWindow = 1
    MaxAttempts = 1
    MaxRetries = 1
    MaxFaults = 1
    MaxResends = 2
SPECIFICATION Spec
CHECK_DEADLOCK FALSE
INVARIANTS ResendsBounded
