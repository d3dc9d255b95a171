SPECIFICATION FairSpec
CONSTANTS
    Pods = {x, y}
    Desired = 2
    WatchCap = 2
    MaxChanges = 2
    MaxFaults = 1
INVARIANTS StatusInv ComparesWithServer OneOfEach
PROPERTIES Reported
