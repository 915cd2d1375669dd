CONSTANTS
    Users = {"worker", "collector"}
    Sessions = {s1, s2}
    NoSession = NoSession
SPECIFICATION Spec
CHECK_DEADLOCK FALSE
INVARIANTS TypeOK NothingUsedAfterItsEnd SessionsDieFirst
PROPERTIES SignalStops ClosedAreFreed
