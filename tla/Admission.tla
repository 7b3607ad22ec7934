----------------------------- MODULE Admission -----------------------------
(***************************************************************************)
(* Admission (internal/admission): what the validating webhooks answer to a *)
(* proposed Facet.  The stages run in order, and one that finds an issue    *)
(* keeps the next from running: budgets, the semantics of the declarations, *)
(* the plan of every source, the policy.                                    *)
(*                                                                          *)
(* A Facet is the sequence of its sources; source identifiers are unique    *)
(* DNS labels by the CRD's schema.  A source says besides what the plans    *)
(* look at whether its descriptor is valid (its apiVersion is a             *)
(* group-version) and how long the longest list of its selector is.  served *)
(* are the kinds that discovery finds.                                      *)
(***************************************************************************)
EXTENDS Planner, StatusConditions

(* The canonical size of a specification, in entries of its lists.          *)
SpecSize(sources) ==
    Sum([i \in DOMAIN sources |->
            1 + Len(sources[i].fields) + Len(sources[i].aggregations) + sources[i].members])

(* ValidateFacetBudgetsWithLimits.  One limit stands for those on a         *)
(* selector's labels, expressions and values.                               *)
WithinBudgets(sources, profile) ==
    /\ Len(sources) <= profile.sources
    /\ SpecSize(sources) <= profile.spec
    /\ \A s \in ToSet(sources) :
          /\ \A names \in s.namespaces : Len(names) <= profile.namespaces
          /\ Len(s.fields) <= profile.fields
          /\ \A f \in ToSet(s.fields) :
                /\ Len(f.operators) <= profile.operators
                /\ \A d \in ToSet(f.operators) : Len(d.values) <= profile.operands
          /\ Len(s.aggregations) <= profile.aggregations
          /\ \A d \in ToSet(s.aggregations) : Len(d.groupBy) <= profile.groupBy
          /\ s.members <= profile.members

----------------------------------------------------------------------------
(* validateSourceDeclarations for operators: a failure of a field without a *)
(* type is left to the typed plan.                                          *)
OperatorIssue(source) ==
    \E f \in OperatorFailures(source.fields) :
        f.index >= 0 /\ TypeOf(source.fields, f.name) # ""

(* The same for an aggregation: a failure of a grouping field is left to    *)
(* validateGroupingFields.                                                  *)
AggregationIssue(source) ==
    \E d \in ToSet(source.aggregations) :
        \/ TargetReason(d, source.fields) # ""
        \/ /\ GroupFailures(d, source.fields) = {}
           /\ AggregateReason(d, source.fields) # ""

(* Mutant: the grouping fields are taken as the aggregation plan has them.  *)
NoGroupingIssue(source) == FALSE

(* validateGroupingFields.                                                  *)
GroupingIssue(source) ==
    \E d \in ToSet(source.aggregations) : GroupFailures(d, source.fields) # {}

ValidDeclarations(source) ==
    /\ ExtractionFailures(source.fields) = {}
    /\ TypedFailures(source.fields) = {}
    /\ ~OperatorIssue(source) /\ ~AggregationIssue(source) /\ ~GroupingIssue(source)

(* ValidateFacetSemantics.                                                  *)
ValidSemantics(sources) ==
    \A s \in ToSet(sources) :
        /\ s.descriptor /\ s.kind \in NormalizedKinds
        /\ \A names \in s.namespaces : ValidNamespaces(names)
        /\ s.selectors
        /\ ValidDeclarations(s)

(* Discovery, then the planner: the reason a source has no plan.            *)
(* UnknownType stands for a kind that is ambiguous too.                     *)
SourceReason(source, reachable, served) ==
    IF ~source.descriptor THEN "InvalidDescriptor"
    ELSE IF ~reachable THEN "DiscoveryUnavailable"
    ELSE IF source.kind \notin served THEN "UnknownType"
    ELSE PlanReason(source)

(* Result.Class of what stopped the proposal, or "Allowed".                 *)
ValidateFacet(sources, profile, reachable, served, snapshot) ==
    LET failing == {s \in ToSet(sources) : SourceReason(s, reachable, served) # ""}
        denied  == \E s \in ToSet(sources) : \E t \in DeriveTargets(s) :
                       Evaluate(snapshot, [kind |-> s.kind, namespace |-> t]) # "Allowed"
    IN  IF ~WithinBudgets(sources, profile) THEN "Invalid"
        ELSE IF ~ValidSemantics(sources) THEN "Invalid"
        ELSE IF failing # {} THEN IF reachable THEN "Invalid" ELSE "Unavailable"
        ELSE IF snapshot.terminal = "PolicyUnavailable" THEN "Unavailable"
        ELSE IF snapshot.terminal # "" THEN "Forbidden"
        ELSE IF denied THEN "Forbidden"
        ELSE "Allowed"
=============================================================================
