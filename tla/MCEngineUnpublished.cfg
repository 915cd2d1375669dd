CONSTANTS
    Ids = {o1, o2, o3}
    Prices = {1, 2}
    SubmitTypes = {"MARKET", "LIMIT"}
    TriggerTypes = {"STOP_LOSS"}
    Quantities = {1, 2}
    TriggerQtys = {1}
    ModifyQtys = {}
    Threads = {t1}
    Clients = {c1}
    Feeds = {"trades"}
    MaxSubscriptions = 1
    MaxUpdates = 3
    HistoryCap = 2
    MaxDepth = 1
    WalEnabled = FALSE
SPECIFICATION Spec
CHECK_DEADLOCK FALSE
INVARIANTS EveryTradePublished
