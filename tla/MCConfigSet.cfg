SPECIFICATION Spec
CONSTANTS
    Procs = {p1, p2}
    Keys = {"max_concurrency", "keyword_strategy"}
    TypedKeys = {"max_concurrency"}
    Values = {1, 2}
    None = 0
SYMMETRY Symmetry
INVARIANTS
    LoadsUnlessInterrupted
    SettingsKept
PROPERTIES
    OnlyHandsRepair
