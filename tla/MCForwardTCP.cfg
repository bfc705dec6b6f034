CONSTANT MaxData = 2
SPECIFICATION ForwardFairSpec
INVARIANTS NoTruncation EndAfterData
PROPERTIES BothClosed AllDelivered
CHECK_DEADLOCK FALSE
