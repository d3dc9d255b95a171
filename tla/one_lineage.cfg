SPECIFICATION Spec
CONSTANTS
    Pods = {0, 1, 2}
    Replicas = 3
    Primaries = 2
    HasSeed = TRUE
    HasSecondary = TRUE
    FailedStartLeaves = {"stopped", "broken"}
    Faults = {"appStops", "appBreaks", "podDies", "status", "start", "stop", "operator", "appDemoted"}
    MaxFaults = 1
    MaxSeq = 1
INVARIANTS OneLineage OneLineageInv SeedsSeeAll
PROPERTY NewestSeeded
