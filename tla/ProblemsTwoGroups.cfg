CONSTANTS
    Leaves <- TwoGroups
    Values <- MCValues
    Objects <- MCObjects
    Within <- MCWithin
    MaxDepth = 2
    MaxHeight = 5
    MaxLeaves = 2
    Backends = {"b1", "b2"}
    Leaky = {"b2"}
    HardLimit = 3
    Limit = 1
    Offsets = {0, 1}
    AskedSize = 1
SPECIFICATION Spec
INVARIANT AppliesAllConditions
CHECK_DEADLOCK FALSE
