\* A policy that comes to deny the sources, sources that change, a restart.
CONSTANTS
    Keys = {k1}
    MaxVersions = 2
    MaxPolicy = 2
    MaxSource = 2
    MaxFaults = 1
    Restarts = TRUE
    Denying = {2}
SPECIFICATION FairSpec
INVARIANTS
    TypeOK
    RestsConverged
    RoutesOfCurrentEpoch
PROPERTIES
    Converges
