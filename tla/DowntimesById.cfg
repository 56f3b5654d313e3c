CONSTANTS
    c1 = c1
    c2 = c2
    Calls = {c1}
    Downtimes <- MCDowntimes
    Late = {1}
    Of <- MCOf
    Requests <- ByIdAlone
    None = None
SPECIFICATION Spec
PROPERTIES ReportedGoesAway
CHECK_DEADLOCK FALSE
