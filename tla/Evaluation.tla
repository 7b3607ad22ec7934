----------------------------- MODULE Evaluation -----------------------------
(***************************************************************************)
(* What one reconciliation of a Facet computes (reconcileKey of             *)
(* internal/reconciliation/pipeline.go with everything it calls): the       *)
(* configuration is checked, every source is planned, authorized and read,  *)
(* its objects are extracted, typed, filtered and aggregated, and the       *)
(* status is composed and published, while the deadline may pass and the    *)
(* lease may be revoked at any moment, objects and the policy change, reads *)
(* fail, other writers add conditions, and the manager restarts with other  *)
(* limits.                                                                  *)
(*                                                                          *)
(* One Facet, one generation: generations, leases and the triggers of       *)
(* attempts are Reconciliation's, routes RouteRegistry's, and the pages of  *)
(* a read Selection's.  The stages of a source that only compute are one    *)
(* step: the checks between them see the deadline or the revocation that    *)
(* the step before or after sees.  BuildResultChecked cannot fail on what   *)
(* the stages produce.                                                      *)
(***************************************************************************)
EXTENDS Admission

CONSTANTS
    Facets,            \* the sources of each Facet
    Policies,          \* installation policies, as optional objects
    Worlds,            \* the cluster's objects of each kind, by namespace
    Served,            \* the kinds that discovery finds
    Overrides,         \* limits that the manager is started with
    ReadFailures,      \* reasons for which a read may fail
    MaxAttempts, MaxChanges   \* bounds

IsList(s) == s \in Seq(ToSet(s))

(* What the CRD's schema guarantees of a source: a field has a type of the  *)
(* enumeration, or none.                                                    *)
IsSource(s) ==
    /\ IsList(s.fields) /\ IsList(s.aggregations)
    /\ \A f \in ToSet(s.fields) :
          f.name \in Nat /\ f.type \in SupportedTypes \cup {""} /\ IsList(f.operators)
    /\ \A d \in ToSet(s.aggregations) : d.name \in Nat

(* The reasons of listTarget and of the lister below it.                    *)
ReadReasons ==
    {"AuthorizationStale", "ReadInterrupted", "ListExpired", "ReadForbidden",
     "UnsupportedSelector", "ReadUnavailable", "InvalidObject", "SelectionLimitExceeded"}

ASSUME EvaluationAssumption ==
    /\ Served \subseteq Kinds
    /\ IsList(Facets) /\ \A sources \in ToSet(Facets) :
          IsList(sources) /\ \A s \in ToSet(sources) : IsSource(s)
    /\ IsList(Policies) /\ Policies # <<>>
    /\ IsList(Worlds) /\ Worlds # <<>>
    /\ \A w \in ToSet(Worlds), k \in Served :
          /\ IsList(w[k])
          /\ \A i, j \in DOMAIN w[k] :
                i < j => w[k][i].namespace <= w[k][j].namespace /\ w[k][i].id < w[k][j].id
    /\ ReadFailures \subseteq ReadReasons
    /\ {MaxAttempts, MaxChanges} \subseteq Nat

Generation == 1

VARIABLES
    profile,           \* the effective limits
    facet,             \* index of the Facet's sources, 0 while it does not exist
    policy, world,     \* what the cluster holds
    changes,           \* changes of it, and restarts
    status,            \* the persisted status
    writes,            \* status updates sent
    pc, attempts,
    expired,           \* evaluationCtx has
    onLease,           \* publicationCtx is leaseCtx
    index,             \* the source being planned or read
    snapshot, planned, selected, results, completed,
    terminal,          \* "budget" or "result"
    retryable,         \* an error is to be returned besides the publication
    outcome,           \* of the last attempt: none, done, error
    published,         \* ghost: the last attempt confirmed or wrote the status
    basis,             \* ghost: what it had read of every source
    admitted           \* ghost: the limits the webhook admitted the Facet with

cluster == <<facet, policy, world, changes, admitted>>

stored == <<status, writes>>

work == <<onLease, index, snapshot, planned, selected, results, completed, terminal,
          retryable>>

ended == <<outcome, published, basis>>

vars == <<profile, cluster, stored, pc, attempts, expired, work, ended>>

Sources == IF facet = 0 THEN <<>> ELSE Facets[facet]

NoSnapshot == [terminal |-> "", policy |-> {}]

Nothing == [err |-> "", resources |-> <<>>]

Steps == {"stopped", "idle", "validate", "load", "plan", "routes", "read", "evaluate",
          "compose", "publish"}

(* The types, and what one step leaves for the next.                        *)
TypeOK ==
    /\ pc \in Steps /\ outcome \in {"none", "done", "error"}
    /\ facet \in 0 .. Len(Facets) /\ policy \in 1 .. Len(Policies) /\ world \in 1 .. Len(Worlds)
    /\ {expired, onLease, retryable, published} \subseteq BOOLEAN
    /\ pc \notin {"stopped", "idle", "validate"} => Len(planned) = Len(Sources)
    /\ pc \in {"plan", "read", "evaluate"} => index \in DOMAIN Sources
    /\ completed \subseteq DOMAIN Sources
    /\ pc = "compose" => completed = DOMAIN Sources
    /\ writes <= attempts

Init ==
    /\ profile = Defaults
    /\ facet = 0 /\ policy = 1 /\ world = 1 /\ changes = 0
    /\ status = Status(0, <<>>, {}) /\ writes = 0
    /\ pc = "stopped" /\ attempts = 0
    /\ expired = FALSE /\ onLease = FALSE /\ index = 0
    /\ snapshot = NoSnapshot /\ planned = <<>> /\ selected = <<>> /\ results = <<>>
    /\ completed = {} /\ terminal = "result" /\ retryable = FALSE
    /\ outcome = "none" /\ published = FALSE /\ basis = <<>>
    /\ admitted = {}

(* Nothing is left of an attempt.                                           *)
Reset ==
    /\ expired' = FALSE /\ onLease' = FALSE /\ index' = 0
    /\ snapshot' = NoSnapshot /\ planned' = <<>> /\ selected' = <<>> /\ results' = <<>>
    /\ completed' = {} /\ terminal' = "result" /\ retryable' = FALSE

----------------------------------------------------------------------------
(* The environment.                                                         *)

(* The manager starts, or starts again whatever it was doing: it resolves   *)
(* its limits and refuses those that cannot hold a compact status.          *)
Start ==
    /\ IF pc = "stopped" THEN UNCHANGED changes
       ELSE changes < MaxChanges /\ changes' = changes + 1
    /\ \E o \in Overrides :
          IF \E p \in Resolve(o) : ValidCompactLimit(p.status)
          THEN pc' = "idle" /\ profile' \in Resolve(o)
          ELSE pc' = "stopped" /\ UNCHANGED profile
    /\ Reset
    /\ outcome' = "none" /\ published' = FALSE /\ basis' = <<>>
    /\ UNCHANGED <<facet, policy, world, admitted, stored, attempts>>

(* A Facet is created: through the webhook, or past it while it is not      *)
(* registered.                                                              *)
Create ==
    /\ facet = 0 /\ pc = "idle"
    /\ facet' \in 1 .. Len(Facets)
    /\ admitted' = IF ValidateFacet(Facets[facet'], profile, TRUE, Served,
                           LoadWithValidation("succeeded", Policies[policy], FALSE)) = "Allowed"
                   THEN {profile} ELSE {}
    /\ UNCHANGED <<profile, policy, world, changes, stored, pc, attempts, expired, work, ended>>

(* Objects change, or the policy does: where an attempt is about to read    *)
(* them, or the policy before the webhook reads it.  Nothing can tell at    *)
(* which moment before that they changed.                                   *)
Change ==
    /\ changes < MaxChanges /\ changes' = changes + 1
    /\ \/ pc = "read" /\ world' \in 1 .. Len(Worlds) \ {world} /\ UNCHANGED policy
       \/ pc \in {"idle", "load"} /\ policy' \in 1 .. Len(Policies) \ {policy} /\ UNCHANGED world
    /\ UNCHANGED <<profile, facet, admitted, stored, pc, attempts, expired, work, ended>>

(* Another writer adds a condition to the status, at any moment before it   *)
(* is read and written.                                                     *)
Annotate ==
    /\ pc = "publish"
    /\ changes < MaxChanges /\ changes' = changes + 1
    /\ status' = [status EXCEPT !.conditions =
                     Append(@, [Condition("Foreign", "True", "Foreign", 0, 0)
                                    EXCEPT !.since = attempts])]
    /\ UNCHANGED <<profile, facet, policy, world, admitted, writes, pc, attempts, expired,
                   work, ended>>

Running == pc \notin {"stopped", "idle"}

Expire ==
    /\ Running /\ ~expired
    /\ expired' = TRUE
    /\ UNCHANGED <<profile, cluster, stored, pc, attempts, work, ended>>

----------------------------------------------------------------------------
(* The attempt ends and returns.                                            *)
End(returned) ==
    /\ pc' = "idle" /\ outcome' = returned
    /\ Reset
    /\ UNCHANGED <<profile, cluster, attempts>>

(* An attempt for whatever reason: the object is read, the lease acquired.  *)
Begin ==
    /\ pc = "idle" /\ facet # 0 /\ attempts < MaxAttempts
    /\ pc' = "validate" /\ attempts' = attempts + 1
    /\ outcome' = "none" /\ published' = FALSE /\ basis' = <<>>
    /\ UNCHANGED <<profile, cluster, stored, expired, work>>

(* The lease is revoked, and the next evaluationState or the publisher sees *)
(* it: nothing is published and nothing retried, for what revoked the lease *)
(* starts another attempt.                                                  *)
Abandon ==
    /\ Running
    /\ End("done")
    /\ UNCHANGED <<stored, published, basis>>

(* configurationOutcome.                                                    *)
ConfigurationOutcome(source) ==
    IF /\ ExtractionFailures(source.fields) = {}
       /\ TypedFailures(source.fields) = {}
       /\ OperatorFailures(source.fields) = {}
       /\ \A d \in ToSet(source.aggregations) : AggregateReason(d, source.fields) = ""
    THEN "accepted" ELSE "invalid"

(* A budget rejection, published under the lease alone; else every source   *)
(* is assessed by its declarations.  The deadline is not looked at yet.     *)
ValidateBudgets ==
    /\ pc = "validate"
    /\ planned' = [i \in DOMAIN Sources |->
                      [assessment |-> [configuration |-> ConfigurationOutcome(Sources[i]),
                                       authorization |-> "not-evaluated",
                                       resolution |-> "not-evaluated"],
                       err |-> "", canExecute |-> FALSE]]
    /\ selected' = [i \in DOMAIN Sources |-> Nothing]
    /\ results' = [i \in DOMAIN Sources |-> SourceError("")]
    /\ IF WithinBudgets(Sources, profile)
       THEN /\ pc' = IF Sources = <<>> THEN "routes" ELSE "load"
            /\ UNCHANGED <<onLease, terminal, retryable>>
       ELSE /\ pc' = "publish" /\ onLease' = TRUE
            /\ terminal' = "budget" /\ retryable' = TRUE
    /\ UNCHANGED <<profile, cluster, stored, attempts, expired, index, snapshot, completed,
                   ended>>

(* Mutant: a source without a result is left out of the status' errors.     *)
FinishTimedOutSilently ==
    /\ pc \in {"load", "plan", "routes", "read", "evaluate"} /\ expired
    /\ pc' = "publish" /\ onLease' = TRUE /\ retryable' = TRUE
    /\ UNCHANGED <<profile, cluster, stored, attempts, expired, index, snapshot, planned,
                   selected, completed, terminal, results, ended>>

(* finishTimedOutEvaluation: what is completed is published, the other      *)
(* sources have timed out, and the attempt is repeated.                     *)
FinishTimedOut ==
    /\ pc \in {"load", "plan", "routes", "read", "evaluate"} /\ expired
    /\ results' = [i \in DOMAIN Sources |->
                      IF i \in completed THEN results[i] ELSE SourceError("EvaluationTimedOut")]
    /\ pc' = "publish" /\ onLease' = TRUE /\ retryable' = TRUE
    /\ UNCHANGED <<profile, cluster, stored, attempts, expired, index, snapshot, planned,
                   selected, completed, terminal, ended>>

Live(step) == pc = step /\ ~expired

(* accesspolicy.LoadWithValidation, for a Facet that has a source.          *)
Load ==
    /\ Live("load")
    /\ \E read \in {"succeeded", "failed"} :
          snapshot' = LoadWithValidation(read, Policies[policy], TRUE)
    /\ retryable' = (snapshot'.terminal = "PolicyUnavailable")
    /\ pc' = "plan" /\ index' = 1
    /\ UNCHANGED <<profile, cluster, stored, attempts, expired, onLease, planned, selected,
                   results, completed, terminal, ended>>

----------------------------------------------------------------------------
(* authorizationOutcomeForDecision.                                         *)
AuthorizationOutcome(decision) ==
    CASE decision = "Allowed"           -> "allowed"
      [] decision = "PolicyMissing"     -> "policy-missing"
      [] decision = "PolicyInvalid"     -> "policy-invalid"
      [] decision = "PolicyUnavailable" -> "unavailable"
      [] OTHER                          -> "denied"

(* assessmentForPlanningError.                                              *)
Unplanned(entry, reason) ==
    CASE reason = "DiscoveryUnavailable" ->
             [entry EXCEPT !.assessment.authorization = "unavailable",
                           !.assessment.resolution = "unavailable", !.err = "InvalidSource"]
      [] reason = "UnknownType" ->
             [entry EXCEPT !.assessment.resolution = "failed", !.err = "InvalidSource"]
      [] reason \in {"InvalidSelector", "InvalidNamespaceScope"} ->
             [entry EXCEPT !.assessment.configuration = "invalid",
                           !.assessment.resolution = "resolved", !.err = reason]
      [] OTHER ->
             [entry EXCEPT !.assessment.configuration = "invalid", !.err = "InvalidSource"]

(* EvaluateBatch and BindCapabilities: one target that is denied keeps the  *)
(* source from being read.                                                  *)
Authorized(entry, source) ==
    LET decision(t) == Evaluate(snapshot, [kind |-> source.kind, namespace |-> t])
        denied      == {t \in DeriveTargets(source) : decision(t) # "Allowed"}
    IN  IF denied = {}
        THEN [entry EXCEPT !.assessment.resolution = "resolved",
                           !.assessment.authorization = "allowed", !.canExecute = TRUE]
        ELSE [entry EXCEPT !.assessment.resolution = "resolved",
                           !.assessment.authorization = AuthorizationOutcome(decision(Max(denied))),
                           !.err = "AuthorizationDenied"]

(* Mutant: the loop runs once too often.                                    *)
AdvanceBeyond(step, after) ==
    IF index <= Len(Sources) THEN pc' = step /\ index' = index + 1
    ELSE pc' = after /\ index' = 0

(* The next iteration of a loop over the sources, or what follows it.       *)
Advance(step, after) ==
    IF index < Len(Sources) THEN pc' = step /\ index' = index + 1
    ELSE pc' = after /\ index' = 0

(* The planning loop's body.  A source whose operators do not compile is    *)
(* neither planned nor read.                                                *)
Plan ==
    /\ Live("plan")
    /\ LET source == Sources[index]
           entry  == planned[index]
       IN  \E reachable \in BOOLEAN :
              LET reason == SourceReason(source, reachable, Served)
              IN  IF OperatorFailures(source.fields) # {}
                  THEN UNCHANGED <<planned, retryable>>
                  ELSE IF reason # ""
                  THEN /\ planned' = [planned EXCEPT ![index] = Unplanned(entry, reason)]
                       /\ retryable' = (retryable \/ reason = "DiscoveryUnavailable")
                  ELSE /\ planned' = [planned EXCEPT ![index] = Authorized(entry, source)]
                       /\ UNCHANGED retryable
    /\ Advance("plan", "routes")
    /\ UNCHANGED <<profile, cluster, stored, attempts, expired, onLease, snapshot, selected,
                   results, completed, terminal, ended>>

(* Routes.Replace: what fails there ends the attempt without a status.      *)
ReplaceRoutes ==
    /\ Live("routes")
    /\ IF Sources = <<>> THEN pc' = "compose" /\ UNCHANGED index
       ELSE pc' = "read" /\ index' = 1
    /\ UNCHANGED <<profile, cluster, stored, attempts, expired, onLease, snapshot, planned,
                   selected, results, completed, terminal, retryable, ended>>

RoutesFail == Live("routes") /\ End("error") /\ UNCHANGED <<stored, published, basis>>

----------------------------------------------------------------------------
(* What a read of the source returns now: the objects of its targets, in    *)
(* the order of their namespaces.                                           *)
ObjectsOf(source) ==
    Keep(Worlds[world][source.kind], LAMBDA o : o.namespace \in DeriveTargets(source))

(* Mutant: only an unavailable read is repeated.                            *)
RetryableUnavailable(reason) == reason = "ReadUnavailable"

(* retryableSelectionError.                                                 *)
RetryableSelection(reason) == reason \in {"ReadUnavailable", "ListExpired"}

(* Executor.Execute, for a source that may be read.                         *)
Read ==
    /\ Live("read")
    /\ LET source == Sources[index]
           entry  == planned[index]
       IN  IF entry.canExecute
           THEN \/ /\ selected' = [selected EXCEPT ![index] =
                                      [err |-> "", resources |-> ObjectsOf(source)]]
                   /\ UNCHANGED <<planned, retryable>>
                \/ \E reason \in ReadFailures :
                      /\ selected' = [selected EXCEPT ![index].err = reason]
                      /\ planned' = IF reason # "ReadForbidden" THEN planned
                                    ELSE [planned EXCEPT ![index].assessment.authorization
                                              = "read-forbidden"]
                      /\ retryable' = (retryable \/ RetryableSelection(reason))
           ELSE /\ selected' = [selected EXCEPT ![index].err = entry.err]
                /\ UNCHANGED <<planned, retryable>>
    /\ pc' = "evaluate"
    /\ UNCHANGED <<profile, cluster, stored, attempts, expired, onLease, index, snapshot,
                   results, completed, terminal, ended>>

(* Extraction, conversion, operators and aggregation of what was read.      *)
Outcome(source, read) ==
    LET values    == profile.values
        extracted == Extract(source.fields, read, values)
        typed     == Convert(source.fields, extracted, values)
        operated  == Operate(source.fields, typed, values)
    IN  Published(Aggregate(source, operated, profile))

(* The rest of the read loop's body: a source is completed or left undone.  *)
EvaluateSource ==
    /\ Live("evaluate")
    /\ results' = [results EXCEPT ![index] = Outcome(Sources[index], selected[index])]
    /\ completed' = completed \cup {index}
    /\ Advance("read", "compose")
    /\ UNCHANGED <<profile, cluster, stored, attempts, expired, onLease, snapshot, planned,
                   selected, terminal, retryable, ended>>

(* Every source is completed: a deadline that has passed only decides under *)
(* which context the status is published.                                   *)
AllCompleted ==
    /\ pc = "compose"
    /\ pc' = "publish" /\ onLease' = expired
    /\ UNCHANGED <<profile, cluster, stored, attempts, expired, index, snapshot, planned,
                   selected, results, completed, terminal, retryable, ended>>

----------------------------------------------------------------------------
(* globalAuthorizationOutcome.                                              *)
GlobalAuthorization ==
    IF snapshot.terminal = "" THEN {} ELSE {AuthorizationOutcome(snapshot.terminal)}

Evaluated ==
    [terminal |-> terminal, result |-> results, global |-> GlobalAuthorization,
     sources |-> [i \in DOMAIN planned |-> planned[i].assessment]]

(* What is read back of a status that was written: its records are built    *)
(* anew.                                                                    *)
DecodedMatches(matches) == [i \in DOMAIN matches |-> Decoded(matches[i])]

DecodedField(f) ==
    [name |-> f.name, type |-> f.type, state |-> f.state,
     matches |-> DecodedMatches(f.matches), reason |-> f.reason]

DecodedResource(r) ==
    [id |-> r.id, state |-> r.state, reason |-> r.reason,
     fields |-> [j \in DOMAIN r.fields |-> DecodedField(r.fields[j])]]

DecodedValue(v) ==
    [type |-> v.type, state |-> v.state, reason |-> v.reason,
     matches |-> [i \in DOMAIN v.matches |->
         [match |-> Decoded(v.matches[i].match),
          contributors |-> v.matches[i].contributors]]]

DecodedGroup(g) ==
    [keys |-> DecodedMatches(g.keys), value |-> DecodedValue(g.value),
     contributors |-> g.contributors]

DecodedAggregate(a) ==
    [name |-> a.name, state |-> a.state, reason |-> a.reason, failures |-> a.failures,
     groups |-> [j \in DOMAIN a.groups |-> DecodedGroup(a.groups[j])]]

DecodedSource(source) ==
    [source EXCEPT !.resources  = [i \in DOMAIN @ |-> DecodedResource(@[i])],
                   !.aggregates = [i \in DOMAIN @ |-> DecodedAggregate(@[i])]]

DecodedStatus(s) ==
    [s EXCEPT !.result = {[i \in DOMAIN r |-> DecodedSource(r[i])] : r \in @}]

PublicationDone == expired /\ ~onLease

Ended == IF retryable THEN "error" ELSE "done"

(* The deadline passes while the status is being published.                 *)
PublishInterrupted ==
    /\ pc = "publish" /\ PublicationDone
    /\ End("done")
    /\ UNCHANGED <<stored, published, basis>>

(* The Facet cannot be read again, or the update fails.                     *)
PublishFails ==
    /\ pc = "publish" /\ ~PublicationDone
    /\ End("error")
    /\ UNCHANGED <<stored, published, basis>>

(* Publish: the status composed from the persisted conditions is written    *)
(* when it differs from the persisted status.                               *)
Publish ==
    /\ pc = "publish" /\ ~PublicationDone
    /\ LET candidates == ComposeBounded(Generation, status.conditions, Evaluated, attempts,
                                        profile.status)
       IN  IF candidates = {}
           THEN End("error") /\ UNCHANGED <<stored, published, basis>>
           ELSE /\ \E candidate \in candidates :
                      IF candidate = status THEN UNCHANGED stored
                      ELSE status' = DecodedStatus(candidate) /\ writes' = writes + 1
                /\ published' = TRUE /\ basis' = selected
                /\ End(Ended)

Next ==
    \/ Start \/ Create \/ Change \/ Annotate \/ Expire
    \/ Begin \/ Abandon \/ ValidateBudgets \/ FinishTimedOut \/ Load \/ Plan
    \/ ReplaceRoutes \/ RoutesFail \/ Read \/ EvaluateSource \/ AllCompleted
    \/ PublishInterrupted \/ PublishFails \/ Publish

Spec == Init /\ [][Next]_vars

----------------------------------------------------------------------------
(* Properties.                                                              *)

Shows(type, value) ==
    \E c \in ToSet(status.conditions) : c.type = type /\ c.status = value

(* The operators of the source reject this object.                          *)
Rejects(source, object) ==
    LET extracted == EvaluateResource(ExtractionPlan(source.fields), object)
    IN  EvaluateOperators(source.fields, ConvertResource(source.fields, extracted)).state
            = "rejected"

(* A Facet that reports Ready hides nothing: its configuration is accepted, *)
(* its kinds are resolved, every target was authorized, every source was    *)
(* read and counts as successful, and every object read is in the result    *)
(* without an error, unless an operator rejects it or the source declares   *)
(* no field.                                                                *)
ReadyIsComplete ==
    published /\ Shows("Ready", "True") =>
        /\ Shows("Accepted", "True") /\ Shows("SourcesResolved", "True")
        /\ \/ Shows("Authorized", "True")
           \/ \A s \in ToSet(Sources) : DeriveTargets(s) = {}
        /\ \A s \in status.summary : s.failed = 0 /\ s.successful = Len(Sources)
        /\ \A i \in DOMAIN Sources : \E r \in status.result :
              /\ basis[i].err = "" /\ ~SourceHasErrors(r[i])
              /\ Sources[i].fields # <<>> =>
                    \A o \in ToSet(basis[i].resources) :
                        \/ \E shown \in ToSet(r[i].resources) : shown.id = o.id
                        \/ Rejects(Sources[i], o)

(* A resource that the aggregate can use: it is accepted, its target field   *)
(* has no error and each of its grouping fields holds exactly one value.    *)
Usable(d, resource) ==
    /\ resource.state = "accepted"
    /\ FieldOf(resource, d.field).state # "error"
    /\ \A k \in DOMAIN d.groupBy :
          \E m \in ToSet(FieldOf(resource, d.groupBy[k]).matches) :
              ~IsNull(m) /\ FieldOf(resource, d.groupBy[k]).matches = <<m>>

(* The positions <<resource, match>> of the values that these resources     *)
(* contribute, what is held there, and by whom.                             *)
At(d, resources, p) == FieldOf(resources[p[1]], d.field).matches[p[2]]

IdAt(resources, p) == resources[p[1]].id

KeysAt(d, resources, p) ==
    [k \in DOMAIN d.groupBy |-> FieldOf(resources[p[1]], d.groupBy[k]).matches[1]]

Positions(d, resources) ==
    LET matches(i) == FieldOf(resources[i], d.field).matches
    IN  UNION {{<<i, j>> : j \in {k \in DOMAIN matches(i) : ~IsNull(matches(i)[k])}} :
               i \in {i \in DOMAIN resources : Usable(d, resources[i])}}

(* The order of contributions: by provenance, then by match.                *)
Before(resources, p, q) ==
    \/ IdAt(resources, p) < IdAt(resources, q)
    \/ p[1] = q[1] /\ p[2] < q[2]

(* shown is total / n in whole steps, rounded in this mode: a multiple of   *)
(* the step, less than one of them away on the side the mode asks for, or   *)
(* no further than the other neighbour, and of two that are equally far the *)
(* even one or the one away from zero.                                      *)
IsRounded(shown, total, n, step, mode) ==
    LET error == shown * n - total
        within(limit) == -limit <= error /\ error <= limit
        outward == IF total < 0 THEN error <= 0 ELSE error >= 0
        inward  == IF total < 0 THEN error >= 0 ELSE error <= 0
    IN  /\ shown % step = 0
        /\ CASE mode = "towardZero"   -> inward /\ within(n * step - 1)
             [] mode = "awayFromZero" -> outward /\ within(n * step - 1)
             [] OTHER ->
                    /\ 2 * error >= -(n * step) /\ 2 * error <= n * step
                    /\ 2 * error = n * step \/ 2 * error = -(n * step) =>
                          IF mode = "halfEven" THEN shown % (2 * step) = 0 ELSE outward

(* ids are those who hold the values at these positions, each once and in   *)
(* order; none where the declaration does not ask for them.                 *)
Credits(d, resources, ids, positions) ==
    IF d.provenance
    THEN /\ ToSet(ids) = {IdAt(resources, p) : p \in positions}
         /\ \A i, j \in DOMAIN ids : i < j => ids[i] < ids[j]
    ELSE ids = <<>>

(* The value of a group is what its function means on the values at these   *)
(* positions: all of them in order, the first occurrence of each in order,  *)
(* the one that no other precedes or follows, one that is held and that no  *)
(* other is below or above, their number, sum or rounded mean.              *)
Agrees(d, resources, group, positions) ==
    LET shown   == group.value.matches
        at(p)   == At(d, resources, p)
        before(p, q) == Before(resources, p, q)
        equal(p) == {q \in positions : at(q) = at(p)}
        total   == MapThenSumSet(LAMBDA p : at(p).v, positions)
        place(p, S) == 1 + Cardinality({q \in S : before(q, p)})
        lists(S) == /\ Len(shown) = Cardinality(S)
                    /\ \A p \in S : shown[place(p, S)].match = at(p)
        credits(S, of(_)) ==
            \A p \in S : Credits(d, resources, shown[place(p, S)].contributors, of(p))
        earliest == {p \in positions : \A q \in equal(p) : ~before(q, p)}
        is(v)    == Len(shown) = 1 /\ shown[1].match.v = v
        empty    == positions = {} /\ d.function \notin {"count", "sum", "collect", "distinct"}
    IN  /\ Credits(d, resources, group.contributors, positions)
        /\ group.value.state = IF empty THEN "absent" ELSE "values"
        /\ CASE d.function = "collect"  -> lists(positions) /\ credits(positions, LAMBDA p : {p})
             [] d.function = "distinct" -> lists(earliest) /\ credits(earliest, equal)
             [] d.function = "first"    ->
                    lists({p \in positions : \A q \in positions : ~before(q, p)})
             [] d.function = "last"     ->
                    lists({p \in positions : \A q \in positions : ~before(p, q)})
             [] d.function = "count"    -> is(Cardinality(positions) * One)
             [] d.function = "sum"      -> is(total)
             [] empty                   -> shown = <<>>
             [] d.function = "average"  ->
                    /\ Len(shown) = 1
                    /\ IsRounded(shown[1].match.v, total, Cardinality(positions),
                                 10 ^ (Digits - Precision(d)), Rounding(d))
             [] d.function = "min" ->
                    \E p \in positions : shown[1].match = at(p) /\ is(at(p).v)
                                          /\ \A q \in positions : at(p).v <= at(q).v
             [] d.function = "max" ->
                    \E p \in positions : shown[1].match = at(p) /\ is(at(p).v)
                                          /\ \A q \in positions : at(p).v >= at(q).v

(* The values at these positions, in groups, are more than a limit allows:  *)
(* groups, values, values shown, or resources named beside them.            *)
BeyondLimits(d, resources, positions) ==
    LET keys(p)   == KeysAt(d, resources, p)
        perGroup  == {<<keys(p), IdAt(resources, p)>> : p \in positions}
        values    == {<<keys(p), At(d, resources, p)>> : p \in positions}
        perValue  == {<<keys(p), At(d, resources, p), IdAt(resources, p)>> : p \in positions}
        groups    == {keys(p) : p \in positions} \cup (IF d.groupBy = <<>> THEN {<<>>} ELSE {})
        n(S)      == Cardinality(S)
        named     == n(perGroup) + (CASE d.function = "collect"  -> n(positions)
                                      [] d.function = "distinct" -> n(perValue)
                                      [] OTHER -> 0)
    IN  \/ n(groups) > profile.groups \/ n(positions) > profile.contributions
        \/ d.function = "collect" /\ n(positions) > profile.collected
        \/ d.function = "distinct" /\ n(values) > profile.distinct
        \/ d.provenance /\ named > profile.provenance

(* The reasons for which an aggregate that is planned may fail as a whole:  *)
(* a limit, a sum that its type cannot hold, and two Booleans of which the  *)
(* least or greatest is asked: compatibleFunction admits min and max for    *)
(* every type that can be a key, strings and Booleans included, though      *)
(* R4.AC4 lists integer, number, timestamp, duration and quantity only and  *)
(* R2.AC11 wants planning to fail for the others.                           *)
FailureReasons(d, type, resources, positions) ==
    LET in(keys) == {p \in positions : KeysAt(d, resources, p) = keys}
        groups   == {in(KeysAt(d, resources, p)) : p \in positions}
        total(S) == MapThenSumSet(LAMBDA p : At(d, resources, p).v, S)
    IN  IF BeyondLimits(d, resources, positions) THEN {"CardinalityExceeded"}
        ELSE IF d.function = "sum" /\ \E S \in groups : ~Representable(type, total(S))
        THEN {"Overflow"}
        ELSE IF /\ d.function \in {"min", "max"} /\ type = "boolean"
                /\ \E S \in groups : Cardinality(S) > 1
        THEN {"InvalidInput"}
        ELSE {}

(* An aggregate says of the resources published beside it what its function *)
(* means (R4.AC5 to AC24 of cross-namespace-aggregation/requirements.md):   *)
(* it reports exactly the resources it cannot use, every value of the       *)
(* others counts in exactly one group, that of its resource's keys, and the *)
(* value of each group agrees with its function, order and provenance       *)
(* included.  It fails exactly where its plan is refused or FailureReasons  *)
(* has a reason, and then shows nothing.                                    *)
AggregatesAgree ==
    \A i \in completed : \A a \in ToSet(results[i].aggregates) :
        LET resources == results[i].resources
            fields    == Sources[i].fields
            d         == Sources[i].aggregations[SelectInSeq(Sources[i].aggregations,
                                                             LAMBDA b : b.name = a.name)]
            all       == Positions(d, resources)
            in(g)     == {p \in all : KeysAt(d, resources, p) = g.keys}
            reasons   == IF AggregateReason(d, fields) # "" THEN {AggregateReason(d, fields)}
                         ELSE FailureReasons(d, TypeOf(fields, d.field), resources, all)
        IN  IF a.state = "error"
            THEN a.reason \in reasons /\ a.groups = <<>>
            ELSE /\ reasons = {}
                 /\ {f.id : f \in ToSet(a.failures)}
                        = {r.id : r \in {r \in ToSet(resources) : ~Usable(d, r)}}
                 /\ (a.state = "values") = (a.failures = <<>>)
                 /\ all = UNION {in(g) : g \in ToSet(a.groups)}
                 /\ \A j, k \in DOMAIN a.groups : a.groups[j].keys = a.groups[k].keys => j = k
                 /\ \A g \in ToSet(a.groups) : Agrees(d, resources, g, in(g))

(* What the webhook has admitted the runtime accepts: it never reports the  *)
(* configuration invalid, nor, while the limits are those of the admission, *)
(* over budget.                                                             *)
AdmittedIsAccepted ==
    published /\ admitted # {} =>
        \A c \in ToSet(status.conditions) :
            c.type = "Accepted" /\ c.status = "False" =>
                c.reason = "ConfigurationBudgetExceeded" /\ profile \notin admitted

(* A status that blames what may pass (the deadline, an unavailable policy, *)
(* discovery or read, an expired list) is left by an attempt that returns   *)
(* an error, so that the Facet is evaluated again.                          *)
TransientIsRetried ==
    LET transient ==
            \/ \E c \in ToSet(status.conditions) : IsCanonical(c.type) /\ c.reason = "unavailable"
            \/ \E r \in status.result : \E s \in ToSet(r) :
                   s.err \in {"EvaluationTimedOut", "ReadUnavailable", "ListExpired"}
    IN  published /\ transient => outcome = "error"

(* A written status fits the limit; a result is only left out of it where   *)
(* it does not fit or the configuration exceeds its budget.                 *)
WriteBounded ==
    writes' # writes =>
        /\ StatusWeight(status') <= profile.status
        /\ status'.result = {} =>
              \/ terminal = "budget"
              \/ ~(Len(status'.conditions) + ResultWeight(results) <= profile.status)

(* Every write of a status keeps WriteBounded.                              *)
StatusBounded == [][WriteBounded]_vars

(* A condition's transition time moves exactly when its status changes, and *)
(* the conditions of other writers are kept as they are, in their order.    *)
TransitionExact ==
    /\ \A c \in ToSet(status.conditions), d \in ToSet(status'.conditions) :
          c.type = d.type /\ IsCanonical(c.type) => (c.since = d.since) = (c.status = d.status)
    /\ LET foreign(s) == Keep(s.conditions, LAMBDA c : ~IsCanonical(c.type))
       IN  IsPrefix(foreign(status), foreign(status'))

(* No step, a publication or another writer's, breaks TransitionExact.      *)
ConditionTransitions == [][TransitionExact]_vars

(* R8.AC2 of end-to-end-scenarios/requirements.md: an attempt that leaves   *)
(* the result unchanged issues no status write.                             *)
UnchangedIsNotWritten == [][writes' # writes => status' # status]_vars
=============================================================================
