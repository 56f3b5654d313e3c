CONSTANTS
    Names <- MCNames
    Monitored <- MCMonitored
    States <- MCStates
    Kinds <- MCKinds
    Backends <- MCBackends
    Cap = 2
    Page = 1
    Membership <- MCMembership
    Topologies <- MCTopologies
    MaxRows = 3
    LateRows = 1
    MaxTime = 2
    PageTime = 0
SPECIFICATION Spec
INVARIANTS IncidentsAreOutages SettledPast PagesLeaveNoGap CountsAreExact TimelineMatchesReplay BurstsAreExact RootsExplain
CHECK_DEADLOCK FALSE
