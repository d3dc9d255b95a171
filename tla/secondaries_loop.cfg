SPECIFICATION FairSpec
CONSTANTS
    Pods = {0, 1, 2}
    Replicas = 3
    Primaries = 1
    HasSeed = TRUE
    HasSecondary = TRUE
    FailedStartLeaves = {"stopped", "broken"}
    Faults = {}
    MaxFaults = 0
    MaxSeq = 0
PROPERTY SizeReached
