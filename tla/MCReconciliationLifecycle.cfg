\* One name created, changed, deleted and created again.
CONSTANTS
    Keys = {k1}
    MaxVersions = 4
    MaxPolicy = 1
    MaxSource = 1
    MaxFaults = 2
    Restarts = FALSE
    Denying = {}
SPECIFICATION Spec
INVARIANTS
    RestsConverged
    RestsWithoutOrphans
    LeaseIsFree
PROPERTIES
    StatusAdvances
