CONSTANTS
    bread = bread
    c1 = c1
    c2 = c2
    coffee = coffee
    o1 = o1
    o2 = o2
    w1 = w1
    w2 = w2
    w3 = w3
    NoOrder = NoOrder
    Products = {bread}
    Carts = {c1, c2}
    Orders = {o1, o2}
    Workers = {w1, w2}
    Tracked = {bread}
    Preorder = {bread}
    InitialStock <- MCInitialStock
    MaxQty = 2
    StockEntries = {}
    CapacityEntries = {}
    MaxDays = 1
    MinCapacity = 4
    UntrackedCapacity = 2
    LastToday = 0
SPECIFICATION StoreSpec
SYMMETRY Symmetry
INVARIANT NeverOversold
