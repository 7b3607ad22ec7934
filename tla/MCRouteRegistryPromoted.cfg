\* An owner gives up its watch while another owner's address is deferred.
CONSTANTS
    Owners = {o1, o2}
    Addresses = {1, 2}
    Selections = {{}, {1}, {2}}
    Capacity = 1
    Slots = {1, 2}
    MaxGeneration = 2
    MaxEpoch = 0
    MaxLifecycle = 1
    MaxChanges = 0
    MaxFailures = 0
    MaxDisturbances = 3
SYMMETRY Perms
SPECIFICATION Spec
CHECK_DEADLOCK FALSE
INVARIANTS
    PromotedAreStarted
