SPECIFICATION Spec
CONSTANTS
    o1 = o1
    o2 = o2
    a = a
    b = b
    Orders <- MCOrders
    Products <- MCProducts
    Cart <- MCCart
    Stock <- MCStock
    Troubled = {o1}
    Totals <- MCTotals
    VipLevels = {0, 1, 2, 3}
    MaxRetries = 1
    MaxPayments = 2
    MaxFaults = 1
INVARIANTS
    SoldIsPaid
    AnswersAreTrue
    LeaksAreKnown
    CountersAreUnits
    QuietIsDecided
    ChargeIsExact
CHECK_DEADLOCK FALSE
