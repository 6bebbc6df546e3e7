\* Two calls, four tasks, two permits, a signal that never answers: queueing, hand-over,
\* timeouts and aborts in every state.
CONSTANTS
    Calls = {c1, c2}
    MaxSignals = 2
    MaxConcurrency = 2
    Hangs = {2}
SPECIFICATION Spec
INVARIANTS
    PermitConservation
    OneOutcomeEach
PROPERTIES
    CallsEnd
    PermitsRecovered
    ImplementsContract
CHECK_DEADLOCK FALSE
