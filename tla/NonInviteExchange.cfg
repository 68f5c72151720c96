CONSTANTS
    MaxSending = 1
    MaxServed = 3
SPECIFICATION Spec
INVARIANTS
    OneAnswerPerTransaction
PROPERTIES
    ClientEnds
    ImplementsContract
