\* Two owners of one or two addresses that share one watch slot, and one
\* policy change, lifecycle event or failure at any moment.
CONSTANTS
    Owners = {o1, o2}
    Addresses = {1, 2}
    Selections = {{}, {1}, {1, 2}}
    Capacity = 1
    Slots = {1, 2}
    MaxGeneration = 1
    MaxEpoch = 1
    MaxLifecycle = 1
    MaxChanges = 1
    MaxFailures = 1
    MaxDisturbances = 1
SYMMETRY Perms
SPECIFICATION Spec
CHECK_DEADLOCK FALSE
INVARIANTS
    TypeOK
    CapacityShared
    NoLeakedSupervisor
    WaitersAreReleased
    ChangesAreKept
