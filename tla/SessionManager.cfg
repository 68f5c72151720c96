CONSTANTS
    Id = {r1, r2}
    Chain = {c1}
    MaxAttempts = 2
SPECIFICATION Spec
CHECK_DEADLOCK FALSE
INVARIANTS
    RegistrationIsPursued
    ConnectionIsPursued
