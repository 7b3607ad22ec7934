\* A lease turns stale while its WATCH is opened.
CONSTANTS
    Owners = {o1}
    Addresses = {1}
    Selections = {{1}}
    Capacity = 1
    Slots = {1, 2}
    MaxGeneration = 2
    MaxEpoch = 0
    MaxLifecycle = 2
    MaxChanges = 0
    MaxFailures = 0
    MaxDisturbances = 3
SYMMETRY Perms
SPECIFICATION Spec
CHECK_DEADLOCK FALSE
INVARIANTS
    WatchesAreRetried
