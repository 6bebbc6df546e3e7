SPECIFICATION Spec
CONSTANTS
    MaxSize = 2
    MaxText = 4
    Tiers = 1
    DenyLists <- MCDenyLists
CHECK_DEADLOCK FALSE
INVARIANT CutsBetweenCharacters
