------------------------------ MODULE Planner ------------------------------
(***************************************************************************)
(* The planner of sources as a pure function (internal/selection/planner.go): *)
(* a source, once discovery has resolved its kind, becomes exact targets.   *)
(*                                                                          *)
(* A source has the kind of its resource, an optional list of namespaces,   *)
(* and whether its selectors parse.  A target is its namespace.             *)
(***************************************************************************)
EXTENDS AccessPolicy, Sequences

CONSTANT
    Owner              \* the namespace of the Facet

ASSUME OwnerAssumption == Owner \in Namespaces

(* deriveTargets.                                                           *)
ValidNamespaces(names) ==
    /\ \A i \in DOMAIN names : names[i] \in Namespaces
    /\ \A i, j \in DOMAIN names : names[i] = names[j] => i = j

ValidScope(src) ==
    IF src.kind \in ClusterKinds THEN src.namespaces = {}
    ELSE \A names \in src.namespaces : ValidNamespaces(names)

DeriveTargets(src) ==
    IF src.kind \in ClusterKinds THEN {Cluster}
    ELSE IF src.namespaces = {} THEN {Owner}
    ELSE UNION {{names[i] : i \in DOMAIN names} : names \in src.namespaces}

(* Plan, after discovery: the selectors, then the targets.  The InvalidSource *)
(* of a source without identifier, apiVersion or kind is left out: the CRD's *)
(* schema admits none, and discovery never returns half a resource.         *)
PlanReason(src) ==
    IF ~src.selectors THEN "InvalidSelector"
    ELSE IF ~ValidScope(src) THEN "InvalidNamespaceScope"
    ELSE ""
=============================================================================
