SPECIFICATION FairSpec
CONSTANTS
    Kinds = {"Pod", "Node", "pod"}
    NormalizedKinds = {"Pod", "Node"}
    ClusterKinds = {"Node"}
    Namespaces = {1, 2}
    DefaultSystem = {2}
    Owner = 1
    Policies <- MCPolicies
    Sources <- MCSources
    Objects = {1, 2, 3, 4}
    Home <- MCHome
    Size <- MCSize
    PageLimit = 1
    MaxResources = 2
    MaxInputBytes = 3
    MaxChurn = 1
INVARIANTS TypeOK OnlyPermittedReads SourceAtomic CeilingsExact RevocationStops
PROPERTIES Terminates
CHECK_DEADLOCK FALSE
