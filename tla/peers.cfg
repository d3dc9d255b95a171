SPECIFICATION FairSpec
CONSTANTS
    Pods = {0, 1, 2}
    Selected = {0, 1}
    ChaosLevels = {0, 1, 2}
    MaxRounds = 2
    MaxFaults = 1
INVARIANTS PeersInv IdsDistinct
PROPERTIES RoundsEnd ListsAgree
CHECK_DEADLOCK FALSE
