SPECIFICATION FairSpec
CONSTANTS
    Pods = {0, 1, 2}
    Replicas = 3
    Primaries = 2
    HasSeed = TRUE
    HasSecondary = TRUE
    FailedStartLeaves = {"stopped", "broken"}
    Faults = {"appStops", "appBreaks", "operator", "status", "appDemoted"}
    MaxFaults = 1
    MaxSeq = 1
INVARIANTS NoRollback 
PROPERTIES Converges SizeReached
