\* Three evaluations over three texts, two of which have the same hash.
CONSTANTS
    t1 = t1
    t2 = t2
    t3 = t3
    Requests = {r1, r2, r3}
    Prompts = {t1, t2, t3}
    Hash <- Colliding
SPECIFICATION CacheSpec
INVARIANT
    ResultsJudged
PROPERTY
    SettledForEver
CHECK_DEADLOCK FALSE
