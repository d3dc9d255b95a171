SPECIFICATION FairSpec
CONSTANTS
    Specs <- PauseSpecs
    Views = {v1, v2}
    Established = FALSE
    EventCap = 2
    WatchCap = 2
    MaxChanges = 3
    MaxCrashes = 1
    Faults = {"update", "setup", "create", "sts", "list", "podDies"}
    MaxFaults = 1
INVARIANTS SpecKept RunningHasSts LifecycleInv PausedBlocks
PROPERTIES FailedIsFinal StsFollowsSpec CreatedOrFailed
CHECK_DEADLOCK FALSE
