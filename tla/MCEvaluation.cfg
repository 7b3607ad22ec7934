SPECIFICATION Spec
CONSTANTS
    Kinds = {"Pod", "Node", "Gone"}
    NormalizedKinds = {"Pod", "Node", "Gone"}
    ClusterKinds = {"Node"}
    Namespaces = {1, 2}
    DefaultSystem = {2}
    Owner = 1
    Defaults <- MCDefaults
    AdmissionLimits = {"sources", "namespaces", "fields", "operators", "operands", "aggregations", "groupBy", "members", "spec"}
    Digits = 1
    MinInt <- MCMinInt
    MaxInt = 20
    StringFacts <- MCStringFacts
    DefaultPrecision = 1
    Facets <- MCFacets
    Policies <- MCPolicies
    Worlds <- MCWorlds
    Served = {"Pod", "Node"}
    Overrides <- MCOverrides
    ReadFailures = {"ReadForbidden", "ListExpired"}
    MaxAttempts = 2
    MaxChanges = 1
INVARIANTS TypeOK ReadyIsComplete AggregatesAgree AdmittedIsAccepted TransientIsRetried
PROPERTIES StatusBounded ConditionTransitions
CHECK_DEADLOCK FALSE
