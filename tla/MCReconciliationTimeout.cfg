\* A deadline that expires while the status is published.
CONSTANTS
    Keys = {k1}
    MaxVersions = 2
    MaxPolicy = 1
    MaxSource = 1
    MaxFaults = 1
    Restarts = FALSE
    Denying = {}
SPECIFICATION Spec
INVARIANTS
    TimeoutsAreRetried
