CONSTANTS
    Ids = {o1, o2, o3}
    Prices = {1, 2}
    SubmitTypes = {"MARKET", "LIMIT", "IOC", "FOK"}
    Quantities = {1, 2}
    ModifyQtys = {0, 1}
    FreshIds = TRUE
    MaxOrders = 3
SPECIFICATION MCSpec
CHECK_DEADLOCK FALSE
PROPERTIES CallsAreAtomic CallReturns
