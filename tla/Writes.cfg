CONSTANTS
    c1 = c1
    c2 = c2
    Calls = {c1, c2}
    Hosts <- MCHosts
    HostOf <- MCHostOf
    ParentOf <- MCParentOf
    HostGroup = {1}
    ServiceGroup = {3, 5}
    Requests <- MCRequests
    Starts <- MCStarts
    PageSize = 2
    HardLimit = 4
    MaxChanges = 1
    None = None
SPECIFICATION Spec
INVARIANTS OnlyIntendedTouched DoneMeansDone NothingSkipped HostBeforeServices
PROPERTIES EveryWriteEnds
CHECK_DEADLOCK FALSE
