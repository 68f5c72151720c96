CONSTANTS
    Fork = {f1, f2}
    None = None
    MaxProgress = 2
    FirstRSeq = {0, 1}
SPECIFICATION Spec
INVARIANTS
    AcceptWaitsForPrack
    OneAnswerPerOffer
    NoEarlyHandlerLeft
PROPERTIES
    AcceptEnds
CHECK_DEADLOCK FALSE
