CONSTANTS
    Id = {r1}
    Pub = {p1}
    MaxRequests = 2
    Call = {stop1, stop2}
SPECIFICATION StopSpec
INVARIANTS
    RefreshIsPending
PROPERTIES
    DisposeResolves
    LoneStopSettles
CHECK_DEADLOCK FALSE
