CONSTANTS
    Ids = {o1, o2, o3}
    Prices = {1, 2}
    SubmitTypes = {"MARKET", "LIMIT"}
    TriggerTypes = {"STOP_LOSS", "STOP_LIMIT", "TAKE_PROFIT"}
    Quantities = {1, 2}
    TriggerQtys = {1}
    ModifyQtys = {1}
    Threads = {t1}
    Clients = {c1}
    Feeds = {"market", "trades"}
    MaxSubscriptions = 1
    MaxUpdates = 4
    HistoryCap = 2
    MaxDepth = 1
    WalEnabled = FALSE
SPECIFICATION Spec
CHECK_DEADLOCK FALSE
INVARIANTS TypeOK FeedFollowsBook TradesInOrder BookSound
PROPERTIES TriggersLeaveByFiring
