CONSTANTS
    Leaves <- MCLeaves
    Values <- MCValues
    Objects <- MCObjects
    Within <- MCWithin
    MaxDepth = 2
    MaxHeight = 5
    MaxLeaves = 3
    Backends = {"b1", "b2"}
    Leaky = {"b2"}
    HardLimit = 3
    Limit = 1
    Offsets = {0, 1}
    AskedSize = 2
SPECIFICATION Spec
INVARIANTS NothingMissed ExactWhenDistinct NarrowingKeepsAlerts OnlyMembersReported NoProblemUnreported
CHECK_DEADLOCK FALSE
