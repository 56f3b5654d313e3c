CONSTANTS
    c1 = c1
    c2 = c2
    Calls = {c1, c2}
    Downtimes <- MCDowntimes
    Late = {1}
    Of <- MCOf
    Requests <- RightlyRouted
    None = None
SPECIFICATION Spec
INVARIANTS DowntimesTypeOK OnlyMeantDeleted NothingOverlooked
PROPERTIES ReportedGoesAway EveryDeletionEnds
CHECK_DEADLOCK FALSE
