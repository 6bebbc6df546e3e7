\* Durations the host's timers can hold.
CONSTANTS
    Durations = {0, 1, 2, 3}
    DelayRange = 8
    MaxWait = 4
SPECIFICATION Spec
INVARIANTS
    NoOrphanTimer
    NoLostWakeup
PROPERTIES
    ImplementsContract
CHECK_DEADLOCK FALSE
