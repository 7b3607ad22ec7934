\* Three callers, two keys and room for one entry.
CONSTANTS
    Keys = {k1, k2}
    GroupVersions = {"v1"}
    GroupVersion <- MCGroupVersion
    Callers = {c1, c2, c3}
    None = None
    Capacity = 1
    MaxInvalidations = 1
SYMMETRY Perms
SPECIFICATION Spec
INVARIANTS
    TypeOK
    NoStaleAnswer
    SingleFlight
    WaitersHaveOwner
