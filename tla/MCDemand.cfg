CONSTANTS
    o1 = o1
    o2 = o2
    cake = cake
    bread = bread
    NoCapacity = NoCapacity
    Products = {cake, bread}
    Orders = {o1, o2}
    Basket <- MCBasket
    Week = 2
    LastDay = 2
    Parts <- MCParts
    OrderDays <- MCOrderDays
    Stocks = {2}
    Capacities = {1}
    LowStock = 1
    DefaultDemand = 1
    max_retries = 0
    Workers = 2
    MaxRefunds = 1
    MaxOwed = 2
    MaxFaults = 1
SPECIFICATION FairSpec
CHECK_DEADLOCK FALSE
INVARIANTS PairsWhole BakeFollowsSales
PROPERTIES BakePlanned
