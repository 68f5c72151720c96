CONSTANTS
    Socket = {s1, s2}
    Chain = {chain1}
    MaxAttempts = 2
SPECIFICATION Spec
INVARIANTS
    PromisesMatchState
    SocketMatchesState
PROPERTIES
    CallsSettle
    ReconnectionEnds
CHECK_DEADLOCK FALSE
