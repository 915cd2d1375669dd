CONSTANTS
    BlockSize = 2
    MaxBlocks = 3
    SizeT = 8
SPECIFICATION Spec
CHECK_DEADLOCK FALSE
INVARIANTS EachSlotOnce LinearUse OneBlockIsSafe StatsExact
