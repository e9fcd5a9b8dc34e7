CONSTANTS
    bread = bread
    c1 = c1
    o1 = o1
    Products = {bread}
    Carts = {c1}
    Orders = {o1}
    Tracked = {bread}
    Preorder = {bread}
    InitialStock <- MCInitialStock
    MaxQty = 2
    StockEntries = {1}
    CapacityEntries = {3}
    MaxDays = 2
    MinCapacity = 2
    UntrackedCapacity = 2
    LastToday = 1
    MaxSaves = 1
    CounterEntries = {0}
    RowEntries <- MCRowEntries
SPECIFICATION FormFairSpec
PROPERTIES GapsNeverWiden OverdueHoldsEnd
