CONSTANTS
    Ids = {o1, o2, o3}
    Prices = {1, 2}
    SubmitTypes = {"MARKET", "LIMIT"}
    TriggerTypes = {}
    Quantities = {1}
    TriggerQtys = {1}
    ModifyQtys = {}
    Threads = {t1, t2}
    Clients = {c1}
    Feeds = {"market"}
    MaxSubscriptions = 1
    MaxUpdates = 3
    HistoryCap = 2
    MaxDepth = 1
    WalEnabled = FALSE
SPECIFICATION Spec
CHECK_DEADLOCK FALSE
INVARIANTS FeedCurrent
