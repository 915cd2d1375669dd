CONSTANTS
    Size = 4
    Items = {a, b}
    NoItem = none
    MaxItems = 6
SPECIFICATION FairSpec
CHECK_DEADLOCK FALSE
INVARIANTS NoTornItem
PROPERTIES ImplementsQueue SizeIsSafe Delivered
