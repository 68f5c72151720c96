CONSTANTS
    MaxAttempt = 4
SPECIFICATION AttemptSpec
INVARIANTS
    OneAttemptOutcome
PROPERTIES
    RequestSettles
CHECK_DEADLOCK FALSE
