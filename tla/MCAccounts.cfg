CONSTANTS
    bread = bread
    ann = ann
    eva = eva
    o1 = o1
    w1 = w1
    w2 = w2
    tab = tab
    NoOrder = NoOrder
    NoKey = NoKey
    Guest = Guest
    Unused = Unused
    Deleted = Deleted
    Absent = Absent
    Products = {bread}
    Carts = {ann, eva, 1, 2}
    Orders = {o1}
    Workers = {w1, w2}
    Tracked = {}
    Preorder = {}
    InitialStock <- MCInitialStock
    MaxQty = 1
    StockEntries = {}
    CapacityEntries = {}
    MaxDays = 1
    MinCapacity = 1
    UntrackedCapacity = 1
    LastToday = 0
    Browsers = {tab}
    Users = {ann, eva}
    StaffUsers = {eva}
    Keys = {1, 2}
    MaxAccess = 1
    MaxVisits = 5
SPECIFICATION AccountsSpec
CHECK_DEADLOCK FALSE
INVARIANTS AccessIsOwn
PROPERTIES SessionsKeepTheirUser CartsStayApart
SYMMETRY Interchangeable
