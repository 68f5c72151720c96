CONSTANTS
    CallerInvites = 2
    CalleeInvites = 1
    HasRollback = TRUE
SPECIFICATION Spec
INVARIANTS
    OneNegotiation
    AgreeWhenQuiet
PROPERTIES
    ReinviteSettles
CHECK_DEADLOCK FALSE
