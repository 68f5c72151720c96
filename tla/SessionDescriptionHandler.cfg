CONSTANTS
    Device = {mic1, mic2}
    Stream = {m1, m2, m3}
    MaxStray = 1
SPECIFICATION HandlerSpec
CHECK_DEADLOCK FALSE
INVARIANTS
    OneIsWaitedFor
PROPERTY WaitForIceEnds
