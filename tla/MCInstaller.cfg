SPECIFICATION FairSpec
CONSTANTS
    r1 = r1
    v1 = v1
    v2 = v2
    Runs <- OneRun
    Versions <- OneVersion
    Nested <- Flat
    MaxCrashes = 2
    MaxFailures = 3
INVARIANTS OnlyVerified MarkerTrue
PROPERTY Converges
