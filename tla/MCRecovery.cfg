CONSTANTS
    Ids = {o1, o2, o3}
    Prices = {1, 2}
    SubmitTypes = {"LIMIT"}
    TriggerTypes = {"STOP_LOSS"}
    TriggerQtys = {1}
    Quantities = {1, 2}
    ModifyQtys = {3}
    Threads = {t1}
    Clients = {}
    Feeds = {}
    MaxSubscriptions = 0
    MaxUpdates = 3
    MaxLog = 5
    HistoryCap = 1
    MaxDepth = 2
    WalEnabled = TRUE
SPECIFICATION MCSpec
CHECK_DEADLOCK FALSE
INVARIANTS ReplayReconstructs SaveLoadPreserves RestartsInThePast TradeIdsUnique ReplayOverSaved
