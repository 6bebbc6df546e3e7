SPECIFICATION Spec
CONSTANTS
    MaxSize = 3
    MaxText = 6
    Tiers = 2
    DenyLists <- MCDenyLists
CHECK_DEADLOCK FALSE
INVARIANTS ChunksSound WordsKept ChunkingInvisible
