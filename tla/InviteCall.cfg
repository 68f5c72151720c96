CONSTANTS
    Callee = c
    Fork = {f}
    MaxSending = 2
SPECIFICATION Spec
INVARIANTS
    NoStrayDialog
    CanceledStaysDown
    OneFinalAnswer
PROPERTIES
    EveryAcceptIsAcked
    HangupCompletes
    CancelEndsTheCall
CHECK_DEADLOCK FALSE
