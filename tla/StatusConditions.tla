-------------------------- MODULE StatusConditions --------------------------
(***************************************************************************)
(* The status of a Facet (internal/status, and composeBoundedStatus of      *)
(* internal/reconciliation/status.go): the outcome of one evaluation becomes *)
(* five conditions, a summary and a result that fit the status limit, merged *)
(* with the conditions that the persisted status already has.               *)
(*                                                                          *)
(* A condition keeps of its message the ordinal of the source it names, 0   *)
(* for none; the counts in the messages of Ready and Degraded are those of   *)
(* the summary, and the hash is a function of the result.  An assessment is *)
(* what one source is found to be in its configuration, authorization and   *)
(* resolution.  The size of a status is its conditions and the weight of    *)
(* its result.                                                              *)
(***************************************************************************)
EXTENDS Aggregation

Canonical == <<"Accepted", "Authorized", "SourcesResolved", "Ready", "Degraded">>

IsCanonical(type) == type \in ToSet(Canonical)

Condition(type, status, reason, generation, ordinal) ==
    [type |-> type, status |-> status, reason |-> reason, generation |-> generation,
     source |-> ordinal, since |-> 0]

----------------------------------------------------------------------------
(* A source's published result: BuildResult omits the rejected resources.   *)
Published(outcome) ==
    [outcome EXCEPT !.resources = Keep(@, LAMBDA r : r.state # "rejected")]

(* evaluationTimedOutSourceResult and other source errors.                  *)
SourceError(reason) ==
    [err |-> reason, fieldErrors |-> {}, resources |-> <<>>, aggregates |-> <<>>]

SourceHasErrors(source) ==
    \/ source.err # "" \/ source.fieldErrors # {}
    \/ \E r \in ToSet(source.resources) :
           r.reason # "" \/ \E f \in ToSet(r.fields) : f.state = "error"
    \/ \E a \in ToSet(source.aggregates) : a.state # "values"

HasResultErrors(result) == \E s \in ToSet(result) : SourceHasErrors(s)

(* summaryForResult.                                                        *)
Summary(result) ==
    [successful |-> Cardinality({i \in DOMAIN result : result[i].err = ""}),
     failed     |-> Cardinality({i \in DOMAIN result : result[i].err # ""}),
     matched    |-> Sum([i \in DOMAIN result |-> Len(result[i].resources)])]

SourceWeight(source) ==
    1 + Cardinality(source.fieldErrors)
      + Sum([i \in DOMAIN source.resources |-> OperatorWeight(source.resources[i])])
      + Sum([i \in DOMAIN source.aggregates |-> AggregateWeight(source.aggregates[i])])

ResultWeight(result) == Sum([i \in DOMAIN result |-> SourceWeight(result[i])])

----------------------------------------------------------------------------
(* The conditions.  scoped is whether they name the source they are about,  *)
(* which the compact ones do not.                                           *)
Ordinal(index, scoped) == IF scoped THEN index ELSE 0

(* acceptedCondition and compactAcceptedCondition.                          *)
AcceptedCondition(generation, sources, scoped) ==
    LET bad == SelectInSeq(sources, LAMBDA s : s.configuration = "invalid")
    IN  IF bad = 0 THEN Condition("Accepted", "True", "ConfigurationAccepted", generation, 0)
        ELSE Condition("Accepted", "False", "InvalidConfiguration", generation,
                       Ordinal(bad, scoped))

(* authorizationConditionForOutcome.                                        *)
AuthorizationStatus(outcome) ==
    CASE outcome = "allowed" -> "True"
      [] outcome \in {"unavailable", "not-evaluated"} -> "Unknown"
      [] OTHER -> "False"

(* authorizedCondition and compactAuthorizationCondition: the policy's own  *)
(* state comes before what the sources met.                                 *)
AuthorizedCondition(generation, evaluation, scoped) ==
    LET bad     == SelectInSeq(evaluation.sources, LAMBDA s : s.authorization # "allowed")
        outcome == IF evaluation.global # {} THEN CHOOSE o \in evaluation.global : TRUE
                   ELSE IF bad = 0 THEN "allowed"
                   ELSE evaluation.sources[bad].authorization
        ordinal == IF evaluation.global # {} THEN 0 ELSE Ordinal(bad, scoped)
    IN  Condition("Authorized", AuthorizationStatus(outcome), outcome, generation, ordinal)

(* resolutionCondition and compactResolutionCondition.                      *)
ResolutionCondition(generation, sources, scoped) ==
    LET bad == SelectInSeq(sources, LAMBDA s : s.resolution # "resolved")
    IN  IF bad = 0 THEN Condition("SourcesResolved", "True", "resolved", generation, 0)
        ELSE Condition("SourcesResolved",
                       IF sources[bad].resolution = "failed" THEN "False" ELSE "Unknown",
                       sources[bad].resolution, generation, Ordinal(bad, scoped))

(* evaluationCondition and degradedCondition.                               *)
ReadyCondition(generation, ready, reason) ==
    Condition("Ready", IF ready THEN "True" ELSE "False", reason, generation, 0)

DegradedCondition(generation, ready, reason) ==
    Condition("Degraded", IF ready THEN "False" ELSE "True", reason, generation, 0)

(* desiredConditions.                                                       *)
DesiredConditions(generation, evaluation) ==
    LET degraded == HasResultErrors(evaluation.result)
        reason   == IF degraded THEN "EvaluationDegraded" ELSE "EvaluationSucceeded"
    IN  <<AcceptedCondition(generation, evaluation.sources, TRUE),
          AuthorizedCondition(generation, evaluation, TRUE),
          ResolutionCondition(generation, evaluation.sources, TRUE),
          ReadyCondition(generation, ~degraded, reason),
          DegradedCondition(generation, ~degraded, reason)>>

(* compactLimitConditions.                                                  *)
CompactLimitConditions(generation, evaluation) ==
    <<AcceptedCondition(generation, evaluation.sources, FALSE),
      AuthorizedCondition(generation, evaluation, FALSE),
      ResolutionCondition(generation, evaluation.sources, FALSE),
      ReadyCondition(generation, FALSE, "ResultLimitExceeded"),
      DegradedCondition(generation, FALSE, "ResultLimitExceeded")>>

(* configurationBudgetConditions.                                           *)
ConfigurationBudgetConditions(generation) ==
    <<Condition("Accepted", "False", "ConfigurationBudgetExceeded", generation, 0),
      Condition("Authorized", "Unknown", "not-evaluated", generation, 0),
      Condition("SourcesResolved", "Unknown", "not-evaluated", generation, 0),
      ReadyCondition(generation, FALSE, "ConfigurationBudgetExceeded"),
      DegradedCondition(generation, FALSE, "EvaluationUnavailable")>>

----------------------------------------------------------------------------
(* apimeta.SetStatusCondition, external: the time of the last transition is *)
(* kept while the status stays.                                             *)
SetStatusCondition(persisted, desired, now) ==
    LET i == SelectInSeq(persisted, LAMBDA c : c.type = desired.type)
    IN  [desired EXCEPT !.since =
            IF i # 0 /\ persisted[i].status = desired.status THEN persisted[i].since ELSE now]

(* Mutant: a condition is replaced whole.                                   *)
MergeReplaces(persisted, desired, now) ==
    [i \in DOMAIN desired |-> [desired[i] EXCEPT !.since = now]]
        \o Keep(persisted, LAMBDA c : ~IsCanonical(c.type))

(* mergeConditions: the canonical conditions in their order, the first of   *)
(* each that was persisted deciding its transition time, then the others as *)
(* they were.                                                               *)
MergeConditions(persisted, desired, now) ==
    [i \in DOMAIN desired |-> SetStatusCondition(persisted, desired[i], now)]
        \o Keep(persisted, LAMBDA c : ~IsCanonical(c.type))

(* The result, if there is one, and what DeriveResult derives of it.        *)
Status(generation, conditions, result) ==
    [generation |-> generation, conditions |-> conditions, result |-> result,
     summary |-> {Summary(r) : r \in result}]

(* Compose.  evaluation.terminal is "result", "limit" or "budget".          *)
Compose(generation, persisted, evaluation, now) ==
    CASE evaluation.terminal = "budget" ->
             Status(generation, MergeConditions(persisted,
                        ConfigurationBudgetConditions(generation), now), {})
      [] evaluation.terminal = "limit" ->
             Status(generation, MergeConditions(persisted,
                        CompactLimitConditions(generation, evaluation), now), {})
      [] evaluation.terminal = "result" ->
             Status(generation, MergeConditions(persisted,
                        DesiredConditions(generation, evaluation), now), {evaluation.result})

(* The size of a status.                                                    *)
StatusWeight(status) ==
    Len(status.conditions)
        + (IF status.result = {} THEN 0 ELSE ResultWeight(CHOOSE r \in status.result : TRUE))

(* ValidateCompactStatusLimit, at startup: the compact status of a Facet    *)
(* without conditions of others fits.                                       *)
ValidCompactLimit(limit) == Len(Canonical) <= limit

(* Mutant: a status that is too large is published as it is.                *)
ComposeUnbounded(generation, persisted, evaluation, now, limit) ==
    {Compose(generation, persisted, evaluation, now)}

(* composeBoundedStatus: the status that fits, or none (StatusLimitInvalid). *)
ComposeBounded(generation, persisted, evaluation, now, limit) ==
    LET composed == Compose(generation, persisted, evaluation, now)
        compact  == Compose(generation, persisted,
                            [evaluation EXCEPT !.terminal = "limit"], now)
        fits(s)  == StatusWeight(s) <= limit
    IN  IF fits(composed) THEN {composed}
        ELSE IF evaluation.terminal # "budget" /\ fits(compact) THEN {compact}
        ELSE {}
=============================================================================
