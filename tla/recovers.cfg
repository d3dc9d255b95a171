SPECIFICATION FairSpec
CONSTANTS
    Pods = {0, 1, 2}
    Replicas = 3
    Primaries = 3
    HasSeed = TRUE
    HasSecondary = FALSE
    FailedStartLeaves = {"stopped", "broken"}
    Faults = {"appStops", "appBreaks", "podDies", "start", "operator"}
    MaxFaults = 1
    MaxSeq = 0
 
PROPERTIES HealthyLeftAlone  ServiceRestored
