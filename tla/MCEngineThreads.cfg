CONSTANTS
    Ids = {o1, o2, o3}
    Prices = {1}
    SubmitTypes = {"LIMIT"}
    TriggerTypes = {"STOP_LOSS"}
    Quantities = {1, 2}
    TriggerQtys = {1}
    ModifyQtys = {0}
    Threads = {t1, t2}
    Clients = {c1}
    Feeds = {"trades"}
    MaxSubscriptions = 1
    MaxUpdates = 3
    HistoryCap = 1
    MaxDepth = 1
    WalEnabled = FALSE
SPECIFICATION FairSpec
CHECK_DEADLOCK FALSE
INVARIANTS NoTradeMissed HistoryIsTail ArmedOrActive BookUsable
PROPERTIES TriggersFire
