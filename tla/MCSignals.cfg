SPECIFICATION RouterSpec
CONSTANTS
    Unit = 1200
    Inputs <- AllInputs
    NativePermits = 40
    WasmPermits = 20
    WasmUsize = 30
INVARIANTS
    ConfidenceInRange
    EvidenceNeverHurts
    FuzzyWithinDistance
    SequenceFound
    SpansClaimed
    FailoverKeepsWidth
    LanesCoverVectors
    BindingsAgree
    NeverSilent
CHECK_DEADLOCK FALSE
