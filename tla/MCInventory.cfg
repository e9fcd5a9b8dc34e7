CONSTANTS
    bread = bread
    coffee = coffee
    c1 = c1
    o1 = o1
    Products = {bread, coffee}
    Carts = {c1}
    Orders = {o1}
    Tracked = {bread}
    Preorder = {}
    InitialStock <- MCInitialStock
    MaxQty = 2
    StockEntries = {1, 3}
    CapacityEntries = {1}
    MaxDays = 1
    MinCapacity = 2
    UntrackedCapacity = 2
    LastToday = 1
SPECIFICATION Spec
INVARIANTS TypeOK ReservedIsHeld CapacityIsHeld
PROPERTIES OnlyStaffOversell BookedWithinCapacity ConfirmedHoldsAreKept ImplementsLedger
