SPECIFICATION Spec
CONSTANTS
    Pods = {0, 1, 2}
    Replicas = 3
    Primaries = 2
    HasSeed = TRUE
    HasSecondary = TRUE
    FailedStartLeaves = {"stopped", "broken", "primary", "secondary", "starting"}
    Faults = {"appStops", "appBreaks", "podDies", "status", "start", "stop", "operator", "get", "sequence", "delete", "tag", "appDemoted"}
    MaxFaults = 1
    MaxSeq = 0
INVARIANT MembersConsistent
