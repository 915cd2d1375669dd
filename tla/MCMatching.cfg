CONSTANTS
    Ids = {o1, o2, o3, o4}
    Prices = {1, 2}
    SubmitTypes = {"LIMIT", "FOK"}
    Quantities = {1, 2}
    ModifyQtys = {2}
    FreshIds = TRUE
    MaxOrders = 4
SYMMETRY Symmetry
SPECIFICATION Spec
CHECK_DEADLOCK FALSE
INVARIANTS Uncrossed BookIndexed FillOrKill LevelTotals
PROPERTIES PriceTimePriority TradesPaidByMakers ExhaustsLiquidity
