SPECIFICATION Spec
CONSTANTS
    r1 = r1
    v1 = v1
    v2 = v2
    Runs <- OneRun
    Versions <- TwoVersions
    Nested <- Flat
    MaxCrashes = 1
    MaxFailures = 0
PROPERTY SkippedMeansInstalled
