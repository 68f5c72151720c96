CONSTANTS
    Side = {a, b}
SPECIFICATION HoldSpec
CHECK_DEADLOCK FALSE
INVARIANTS
    HoldIsHonoured
    MediaComesBack
    TracksFollowHold
