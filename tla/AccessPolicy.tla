---------------------------- MODULE AccessPolicy ----------------------------
(***************************************************************************)
(* The installation access policy as a pure function (internal/accesspolicy *)
(* loader.go, compiler.go, evaluator.go): a fresh read of the singleton     *)
(* becomes a snapshot, either a compiled policy or a terminal deny-all      *)
(* state, and a snapshot decides one exact target.                          *)
(*                                                                          *)
(* A resource type (API group and kind) is a member of Kinds.  A namespace  *)
(* is the rank of its name in the order the planner sorts targets by; rank  *)
(* 0 is the empty namespace of a cluster-scoped target.  An optional field  *)
(* is a set of at most one value.                                           *)
(***************************************************************************)
EXTENDS Naturals

CONSTANTS
    Kinds,             \* resource types a source may name
    NormalizedKinds,   \* those that match kindPattern
    ClusterKinds,      \* those that discovery reports as cluster-scoped
    Namespaces,        \* namespace names that are DNS-1123 labels
    DefaultSystem      \* kube-system, kube-public, kube-node-lease

Cluster == 0

ASSUME PolicyAssumption ==
    /\ NormalizedKinds \subseteq Kinds /\ ClusterKinds \subseteq Kinds
    /\ Namespaces \subseteq Nat \ {Cluster}
    /\ DefaultSystem \subseteq Namespaces

Modes == {"Explicit", "All", "AllNonSystem"}

(* A policy object: whether Validate finds no issue in its name, mode,      *)
(* namespace lists and resource rules, whether it is within the limits on   *)
(* policies, and what it allows.                                            *)
PolicyObject ==
    [wellFormed : BOOLEAN, fits : BOOLEAN, mode : Modes, include : SUBSET Namespaces,
     exclude : SUBSET Namespaces, system : {{}} \cup {{s} : s \in SUBSET Namespaces},
     kinds : SUBSET Kinds, allowClusterScoped : BOOLEAN]

----------------------------------------------------------------------------
(* Compile: an omitted systemNamespaces list receives the default set; a    *)
(* present empty one stays empty.                                           *)
SystemOf(policy) == IF policy.system = {} THEN DefaultSystem ELSE UNION policy.system

Compile(policy) == [policy EXCEPT !.system = {SystemOf(policy)}]

DenyAll(reason) == [terminal |-> reason, policy |-> {}]

(* Compile's Validate: no issue in the name, mode, lists or rules.          *)
Validate(policy) == policy.wellFormed

(* LoadWithValidation, on what the read of the singleton returned: the      *)
(* object, nothing (NotFound), or any other error.  The runtime gives the   *)
(* admission limits to validate with; the webhook, through Load, does not.  *)
LoadWithValidation(read, object, limited) ==
    IF read = "failed" THEN DenyAll("PolicyUnavailable")
    ELSE IF object = {} THEN DenyAll("PolicyMissing")
    ELSE LET policy == CHOOSE p \in object : TRUE
         IN  IF (limited /\ ~policy.fits) \/ ~Validate(policy) THEN DenyAll("PolicyInvalid")
             ELSE [terminal |-> "", policy |-> {Compile(policy)}]

(* validateRequest: the planner has already made a namespaced target carry a *)
(* valid namespace.                                                         *)
ValidateRequest(request) ==
    /\ request.kind \in NormalizedKinds
    /\ request.kind \notin ClusterKinds => request.namespace \in Namespaces

AllowedNamespace(policy, namespace) ==
    CASE policy.mode = "Explicit"     -> namespace \in policy.include
      [] policy.mode = "All"          -> TRUE
      [] policy.mode = "AllNonSystem" ->
             namespace \in policy.include \/ namespace \notin UNION policy.system

(* Mutant: an included namespace is allowed before exclusions are looked at. *)
DecideIncludedFirst(policy, request) ==
    IF ~ValidateRequest(request) THEN "InvalidRequest"
    ELSE IF request.kind \notin policy.kinds THEN "ResourceDenied"
    ELSE IF request.kind \in ClusterKinds
         THEN IF policy.allowClusterScoped THEN "Allowed" ELSE "ClusterScopeDenied"
    ELSE IF request.namespace \in policy.include THEN "Allowed"
    ELSE IF request.namespace \in policy.exclude THEN "NamespaceDenied"
    ELSE IF AllowedNamespace(policy, request.namespace) THEN "Allowed"
    ELSE "NamespaceDenied"

(* The decision on a compiled policy, in the order of Snapshot.Evaluate.    *)
Decide(policy, request) ==
    IF ~ValidateRequest(request) THEN "InvalidRequest"
    ELSE IF request.kind \notin policy.kinds THEN "ResourceDenied"
    ELSE IF request.kind \in ClusterKinds
         THEN IF policy.allowClusterScoped THEN "Allowed" ELSE "ClusterScopeDenied"
    ELSE IF request.namespace \in policy.exclude THEN "NamespaceDenied"
    ELSE IF AllowedNamespace(policy, request.namespace) THEN "Allowed"
    ELSE "NamespaceDenied"

Evaluate(snapshot, request) ==
    IF snapshot.terminal # "" THEN snapshot.terminal
    ELSE Decide(CHOOSE p \in snapshot.policy : TRUE, request)

----------------------------------------------------------------------------
(* What a policy object lets an installation observe, stated as a set and    *)
(* not by the order of the evaluator's tests.                               *)
Ceiling(policy) ==
    LET namespaces ==
            CASE policy.mode = "Explicit"     -> policy.include
              [] policy.mode = "All"          -> Namespaces
              [] policy.mode = "AllNonSystem" ->
                     (Namespaces \ SystemOf(policy)) \cup policy.include
        observable == policy.kinds \cap NormalizedKinds
    IN  IF ~policy.fits \/ ~Validate(policy) THEN {}
        ELSE [kind : observable \ ClusterKinds, namespace : namespaces \ policy.exclude]
             \cup (IF policy.allowClusterScoped
                   THEN [kind : observable \cap ClusterKinds, namespace : {Cluster}]
                   ELSE {})
=============================================================================
