\* Two users over a pool of one client, every kind of tool call.
SPECIFICATION Spec
\* The server stops for good once it is shut down.
CHECK_DEADLOCK FALSE
CONSTANTS
    NoClient = NoClient
    Absent = Absent
    Requests = {r1, r2}
    Ids = {c1, c2, c3, c4}
    Headers <- TwoUsers
    Base <- BaseConfig
    Knobs <- EveryKnob
    ToolCalls <- EveryKind
    MaxClients = 1
    MaxRetries = 1
    MaxTargets = 2
SYMMETRY Symmetry
INVARIANTS
    GatewayTypeOK
    ChangesAreLogged
    ReadOnlyHolds
