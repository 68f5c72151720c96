CONSTANTS
    Tag = {0, 1, 2}
    MaxSending = 1
    MaxServed = 2
SPECIFICATION ExchangeSpec
INVARIANTS
    TimersMatchState
    OneOutcome
    ResponsesFitState
    OneCallAtATime
PROPERTIES
    AnsweredEnds
    ImplementsContract
CHECK_DEADLOCK FALSE
