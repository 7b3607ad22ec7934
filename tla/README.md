# KubeFacet: specifications, model checks and proofs

KubeFacet is a Kubernetes controller. A `Facet` names sources: a resource
type, namespaces and selectors. The controller reads the matching objects
within an installation-wide access policy, extracts, converts, filters and
aggregates values, and writes the result into the Facet's status. It
recomputes when the Facet, the policy or an observed object changes.

This directory holds TLA+ models of the parts in which goroutines, events and
failures meet and of what an evaluation computes, the TLC runs that check them on small instances, and TLAPS proofs
of what matters most for every instance. `PROJECT.json` lists the components,
the runs, the source lines behind every definition, the hazards and the
theorems. Paths below are relative to `src/internal/`.

## 1. Inventory

| Part | State it keeps | Operations | What makes it correct |
| --- | --- | --- | --- |
| Trigger source (`reconciliation/trigger.go`) | bounded pending set, overload marker, one-slot wake channel, enqueue-all intent, worker flag | `Enqueue`, `RequestEnqueueAll`, drain goroutine, intent worker, `Start` | no trigger is lost at the bound, on a failed list, or between two critical sections |
| Freshness tracker (`reconciliation/tracker.go`) | per Facet: tracked identity, active lease; policy epoch | `Observe`, `ObserveDelete`, `MarkAbsent`, `InvalidateAll`, `Acquire`, release | a superseded attempt is cancelled and cannot publish; one lease per key |
| Event handlers (`reconciliation/events.go`) | none | Facet and policy create/update/delete | tracker first, then routes, then triggers |
| Pipeline (`reconciliation/pipeline.go`) | one attempt per key | `Reconcile`: read, lease, policy, plan, authorize, routes, reads, evaluate, publish | every way out either publishes, retries, or relies on a trigger that exists |
| Publisher (`reconciliation/status.go`) | none | `Publish` | only a current lease writes, onto the object it was computed for |
| Route registry (`reconciliation/routes.go`) | owner and address tables, supervisors, deferred addresses | `Replace`, `RemoveOwner`, `RemoveAll`, supervisor loop | shared watches, bounded in number, never leaked; a change is never forgotten |
| Discovery resolver (`discovery/resolver.go`) | cache, refreshes under way, versions | `Resolve`, `Invalidate*` | one request per miss, no answer older than an invalidation |
| Access policy (`accesspolicy/`) | none (fresh read per attempt) | load, compile, evaluate | fail closed; exclusion wins |
| Authorization (`authorization/`) | none | `EvaluateBatch`, `Capability.IsCurrent` | a capability per allowed exact target, fresh at each use |
| Selection (`selection/`) | a source's budget and lists | `Plan`, `BindCapabilities`, `Execute`, `listTarget` | all or nothing, exact ceilings, one restart |
| Extraction (`extraction/`) | none | compile paths, evaluate them over an object | an object that does not fit fails alone; produced values are bounded per source |
| Typed output (`typedoutput/`) | none | plan types, convert, compare, exact arithmetic, rounding | absent, null, value and error stay apart; exact until projected |
| Operators (`operators/`) | none | compile, filter and transform each resource | rejected, failed and accepted resources stay apart |
| Aggregation (`aggregation/`) | none | plan, group, reduce | every value counts in exactly one group or is reported; limits refuse, never truncate |
| Status conditions (`status/`) | none | conditions, summary, compact statuses, merge | Ready hides nothing; transition times move with transitions |
| Limits (`limits/`), admission (`admission/`) | none | profile resolution, accountant; validation in the webhook and the runtime | what the webhook admits the runtime accepts |
| Observability, manager application, purge, local probe | metrics; process and job state | | |

How they interact: watch events reach the handlers, which update the tracker,
remove routes and hand keys to the trigger source; the trigger source feeds the
controller's queue; an attempt acquires a lease, asks discovery, policy and
authorization, registers its routes, reads, evaluates and publishes under the
lease; supervisors turn events of observed objects into triggers. Handlers,
attempts, supervisors and workers run concurrently and share the tracker, the
registry, the trigger source and the discovery cache, each behind its own
mutex. The locks are never held across a call into another component, so every
pair of critical sections is a place where another goroutine may step in.

What is hard: those gaps; watch events that are older than direct reads;
failures and deadlines in the middle of an attempt; revocation while a read,
a watch or a write is under way; capacity limits; continuation tokens that
expire. `PROJECT.json` lists each hazard at its line.

## 2. The modules

Each critical section, and each step between two of them, is one action.

**TriggerSource** models `trigger.go`. `facets` is what a direct list returns.
`Enqueue` adds a key, or sets `overloaded` when `pending` is full. The drainer
takes the token, then the set, then adds key by key; an overload makes it call
`RequestEnqueueAll`. That call sets `requested` (`SetIntent`) and starts the
worker in a second critical section (`SpawnWorker`). The worker lists, adds,
and on failure restores the intent and backs off. Backoff delays are left out.

**TriggerDelivery** is what the rest of the runtime relies on: a set of
accepted triggers that some structure carries, and the queue. A step
accepts triggers or moves some of the carried ones into the queue, and nothing else
takes a trigger away. TriggerSource implements it under the mapping
`carried <- {k : Carried(k)}`, where `Carried` collects every place in which a
trigger may be: pending set, drainer's hands, overload marker, intent,
worker. Reconciliation uses this interface: its `owed` is `carried`.

**Reconciliation** composes `tracker.go`, `events.go`, `pipeline.go` and
`status.go` with the API server. `history[k]` is the sequence of API states of a
name, `observed[k]` how far the informer got; direct reads see the end of the
history. A handler runs its steps in the code's order. `attempt[k]` is one
`Reconcile` with a program counter per stage. Its early returns, its
deadline, `finishTimedOutEvaluation`, and the classes of errors that are
retried, published or dropped are kept. What a source evaluates to is
abstracted to the versions it was computed from: generation, policy, source. A
status write is answered, or applied and its answer lost: to an error, which is
retried, or to a context that ends meanwhile, which is not. A
successful result, an interrupted one and a timed-out candidate are told apart.
The trigger source appears through what TriggerSource shows: a key in `owed`
reaches the queue. A route is the lease it was made for. `Restart` is the death
of the process at any point (a crash, a lost leader election): everything but
the cluster is gone, the new informers list, possibly from a lagging cache, and
deliver what exists as created, the policy too, and `TriggerSource.Start`
enqueues every Facet. A status write the old process had sent has by then been
accepted or refused; one process at a time is active, as leader election keeps it.

**RouteRegistry** models `routes.go` in detail: owner bindings, one supervisor
per address, capacity and `deferred`, `Replace` with the re-check of the lease
under the lock, starting and waiting outside it, the supervisor's loop
(permit, open, recover, stream, report, recheck, backoff), `stop` and
`RemoveAll`. `unread` is a ghost: which owner has not read which change. A
reconcile that finds its Facet gone removes the routes and marks the key absent
in two steps. The `Enqueue` that follows a removal or an event outside the lock
is part of the step before it: it only adds to what is owed, and a trigger that
comes later is one of the delays the model allows anyway.

**DiscoveryCache** models `resolver.go`. A resolution is abstracted to how many
invalidations had happened when it was read. Which idle entry is evicted and
when one expires are left open, so the results hold for every choice.

**AccessPolicy**, **Planner** and **Selection** model one source's way from the policy
object to its resources. AccessPolicy is a set of operators; its `Ceiling`, the
reference that reads are held against, states the policy as a set of targets
and is not written from the evaluator. Planner holds the target derivation
that selection and admission share. In Selection the executor's check of
context and capability, the adapter's second check, the send and the answer
are separate steps. A continuation token is the part of the list's snapshot
not yet sent. Objects come and go, tokens expire and leases are revoked at
any point.

**Extraction, TypedOutput, Operators, Aggregation, StatusConditions, Limits**
and **Admission** are operators, one module per package, each extending the
one before it in the pipeline. An object is a tree of maps, lists and scalars; a path
is a sequence of tokens, of which some do not parse; a text carries the value
it denotes and the types it is a form of (`forms`), so that conversion decides
by type without spelling. Numbers are integers in units of 10^-`Digits`, and an
integer must lie in `MinInt .. MaxInt`, the int64 range of the code. A
timestamp's unit is a fraction of a second that `Decoded`, the JSON round trip
of `metav1.Time`, drops. Byte sizes are weights: the number of matches, keys and
records that would be encoded. What a text denotes, of a duration or a quantity
too, is given with it: parsing is not modelled, its verdicts are (a form that
does not parse, a value that is not whole, out of range, or a decimal too large
to be kept). Outcomes keep the code's distinctions: a field
is absent, holds values or failed; a resource is accepted, rejected or
unsuccessful; an aggregate has a value, none or an error, and lists the
resources it left out.

**Evaluation** runs whole attempts of `reconcileKey` over these operators, for one
Facet and one generation: `Start` (the manager resolves its limits), `Create`
(through the webhook or past it), then validate, load, plan source by source, routes,
read and evaluate source by source, compose, publish, with `FinishTimedOut`,
`Abandon` and the publication's failures as alternatives of the stages where the
code has them. The objects of a kind are given by namespace, the order in which the
executor lists its targets. Objects, the policy, foreign conditions and the manager's limits
change in between. Reconciliation has the interleavings of the same attempt
and one verdict for its data; Evaluation has the data and no concurrent
handler. `Rejects`, `Usable`, `Positions`, `Before`, `Credits`, `IsRounded`,
`Agrees`, `BeyondLimits` and `FailureReasons` are the reference definitions its
properties compare with. They speak of positions (a resource, a match of it)
and never of the reducers' folds: `Agrees` states what each aggregation
function means, with first and last by position, a minimum and a maximum as a
value that is held, collected and distinct values in the order of provenance
with those who hold them, and `IsRounded` what each rounding mode does, by
multiplication instead of division. `FailureReasons` says when an aggregate
whose plan is accepted may fail as a whole, and for which reason. The objects
of a namespace are unique and in the order of their identifiers, which is what
`deduplicateAndSort` (`selection/executor.go:394`) leaves. `IsSource` is what the schema of the CRD guarantees of a
source: its lists are lists, a field has one of the enumerated types or none.
Names are their ranks in the order the code sorts by.

## 3. The runs

Where the model stops for good (bounds used up, an attempt over) the
configuration turns the deadlock check off: RouteRegistry, Selection and
Evaluation. The others never deadlock: a periodic trigger or another call stays
possible.

| Run | Instance | Shows |
| --- | --- | --- |
| `trigger` | 2 Facets, pending capacity 1, one outside caller | `NoTriggerLost`, `IngressAwake`, `IntentServed`: each debt has a carrier at every step; `ImplementsDelivery`: no step drops a carried trigger; `TriggersDelivered`: and it is paid |
| `reconciliation_lifecycle` | 1 name, 4 API states, 2 faults | at rest the status is that of the present spec (`RestsConverged`), nothing of a deleted Facet remains (`RestsWithoutOrphans`), the lease is free (`LeaseIsFree`), no write takes the status back (`StatusAdvances`) |
| `reconciliation_policy` | 2 API states, 2 policies (the second denies), 2 source versions, 1 fault or restart, fair | the same under policy changes and a restart, `RoutesOfCurrentEpoch`, and `Converges` |
| `routes` | 2 owners of one or both of 2 addresses, 1 slot, one policy change, lifecycle event or failure | `CapacityShared`, `NoLeakedSupervisor`, `WaitersAreReleased`, `ChangesAreKept` |
| `discovery` | 3 callers, 2 keys of one group/version, capacity 1, each key invalidated once | `NoStaleAnswer`, `SingleFlight`, `WaitersHaveOwner` |
| `selection` | 2 namespaces, 4 objects, pages of 1, ceilings of 2 objects and 3 bytes, 29 policies, 10 sources | `OnlyPermittedReads`, `SourceAtomic`, `CeilingsExact`, `RevocationStops`, `Terminates` |
| `evaluation` | 22 Facets of up to 3 sources, 4 objects in 2 states of the cluster, 4 policies, 4 sets of limits, 2 attempts, 1 change | `ReadyIsComplete`, `AggregatesAgree`, `AdmittedIsAccepted`, `TransientIsRetried`, `StatusBounded`, `ConditionTransitions` |

Five runs show a disagreement between the code and the repository's own
documents; each is a finding in `PROJECT.json` with the quoted line.

- `routes_promoted`: a `Replace` that frees a slot registers a supervisor for
  another owner's address and starts none.
- `routes_retried`: a supervisor that sees a stale lease while it opens its
  watch returns for good, and a later `Replace` keeps it.
- `reconciliation_timeout`: a deadline that expires inside `Publish` is
  neither published nor retried.
- `reconciliation_list_timeout`: a LIST timed out by the API server is
  published as interrupted and not retried.
- `status_rewritten`: a result that holds a timestamp never equals its own
  stored form (location and, where the value has one, the fraction of a second differ), so every attempt
  writes the status again.

The periodic safety reconciliation repairs the first four in time.
`AggregatesAgree` accepts a failed aggregate only for a refused plan, a limit
that is exceeded, a sum that its type cannot hold, or two Booleans under `min`
or `max`. The passing
properties say what holds besides: `ChangesAreKept` excuses a registered
supervisor that is off or dead, `RestsConverged` and `Quiet` excuse a status
lost to a deadline in `Publish` and accept the interrupted outcome,
`ConditionTransitions` holds of rewritten statuses too.

**Why the bounds are enough.** The state of one Facet interacts with that of
another only in the trigger source, the registry and the discovery cache, and
there two Facets, owners or keys are used. A life of four API states
(absent, created, changed or deleted, recreated) contains every pair of
neighbouring lives. A fault is a failed call, an
expired deadline or, where `Restarts` is TRUE, the death of the controller; two
give a second failure while the first is being handled. Two supervisors per address cover a successor started
while its predecessor stops. One slot for two addresses is the smallest
instance with deferral and promotion. One invalidation per key with three callers gives a
displaced refresh with waiters and its successor. Three objects of a target in
pages of one give a restart before, between and after accepted pages, and the
ceilings are met exactly and passed by one. Evaluation's Facets are a
catalogue: one source with every aggregation function, one with each class of
operators, one at the edges (an overflowing sum, a minimum of booleans, a
field that fails alone), one of timestamps, an unknown kind, no sources, no
fields, no namespaces, three sources in one Facet (over the default budget),
and twelve that each one stage of the planners or one budget refuses. The four
policies are one that allows all, one that denies a namespace, one that is
over the manager's budgets (the webhook loads it, the runtime does not) and none. The two states of the
cluster hold nulls, negative halves, empty lists, missing keys and values of the
wrong type, a decimal too long to be kept, and matches out of order and twice
in one resource. Two attempts are needed for a merge with an earlier status, one change
for a difference between them. The limits are those where everything
fits, where only the compact status does, where not even that does, and one
above the structural ceiling. Each property is violated when one definition is
replaced by a plausible mistake (the mutants).

**Fairness.** TriggerSource: weak fairness of each goroutine, which the Go
scheduler gives, and strong fairness of a successful list: the API server does
not fail it for ever. Reconciliation: weak fairness of handlers, attempts, the ingress, route
events, the policy handler and the safety ticker; none of users and faults, which
are bounded. Selection: weak fairness of the attempt's steps, since every
request is answered or ended by the deadline. Evaluation states safety only;
that a retried attempt comes is Reconciliation's `Converges`.

## 4. The proofs

For every set of Facets, callers, owners, addresses, policies, sources and
objects, every capacity, ceiling and profile of limits and every bound; the
assumptions are those of the `ASSUME`s next to the constants.

- **TriggerSource_proofs.** `TypeCorrect` (with the bound of the pending set),
  `TriggersAreCarried`, `NoLostWakeup`, `IntentsAreServed`, and
  `DeliveryImplemented`. The invariants are
  not inductive alone. `WorkerFlag` ties the running flag to the worker,
  without which an intent could be left to a worker that has ended;
  `StartOrder` says the drainer does not exist before `Start` launches it;
  `OwedExist` that debts are to existing Facets only, so a successful list
  pays them all. `DeliveryImplemented` is the refinement: under the same
  inductive invariant every action of TriggerSource is a step of
  TriggerDelivery or leaves its variables alone. `CarriesOn` is the argument: a
  step that moves a trigger from one structure to another, or takes the
  intent and lists, leaves it carried or in the queue.
- **Reconciliation_proofs.** `TypeCorrect`, `OneLeasePerKey`,
  `PolicyChangeRevokes`, across restarts too. `LeaseHeld` (the active lease is the attempt's own)
  gives the first; the second needs that `Install` compares the lease's epoch
  with the tracker's inside the registry's critical section.
- **ReconciliationRest_proofs.** `RestIsConverged`, `RestHasNoOrphans` and
  `StatusIsMonotone`. The argument goes key by key. A Facet is *settled* once all
  its events are handled and no trigger for it is left: whoever disturbs the
  attempt of a settled Facet leaves a trigger, so it is not settled any more. While
  it is, the attempt holds the stored object and a current, uncancelled lease
  (`SettledInv`); unless it is to be retried, what it has computed and installed
  is fresh (`EvalInv`); and so is what it leaves behind when it ends
  (`RestInv`). `AbsentInv` is the counterpart for a Facet that is gone: somebody
  is still to remove its routes. The steps of other keys are handled once, by a
  frame lemma (`Same`).
- **RouteRegistry_proofs.** `TypeCorrect`, `CapacityIsShared`,
  `NoSupervisorLeaks`, `WaitersReleased`, `NoChangeIsLost`. A critical section is
  seen from two sides: what it does to each slot (`SlotTurn`) and to each
  address (`WatchTurn`). A slot only ever advances along the supervisor's loop,
  or a supervisor is born in a free one, whichever slots are chosen.
  `SupervisorInv` holds the promises of a supervisor (its first attempt is open until it is
  answered, what fell out of its stream is recovered), `OwnerInv` those of a
  caller: the one it waits for was started, its lease is the one its bindings
  are held under, and a supervisor that promises nothing yet has only owners that
  are busy. Capacity is counting: the lowest lacking addresses are promoted, as many as
  there is room (`RankedSuffice`).
- **DiscoveryCache_proofs.** `TypeCorrect`, `AnswersAreFresh`,
  `OneRequestPerVersion`, `WaitersAreServed`. `Registration` is the heart: a
  refresh of the current version is registered, so an invalidation that
  looks only at the cache and at the registered refreshes reaches every
  result that is still to be used. `EntriesFresh`, `RefreshFresh` and
  `ResultsFresh` carry freshness from the request to the answer.
- **Selection_proofs.** `RevocationStopsReads`: a superseded lease has a
  cancelled context, and a request sent after the revocation leaves the loop
  at the check that ends it (`Revoked`). `ReadsArePermitted`: what the
  evaluator allows lies in the ceiling (`AllowedIsPermitted`), and from the
  binding on every target is allowed (`Covered`). `TypeCorrect`,
  `SourceIsAtomic`, `CeilingsAreExact`: `Progress` says that the objects counted are
  those collected from the targets already done and the pages of the present list, and
  the bytes counted are theirs, which the rollback of a restarted list
  restores. The size of a set of objects is the number of its byte positions
  (`Bytes`), so that adding disjoint sets is a fact about cardinality.
- **Evaluation_proofs.** For every Facet, policy, cluster and profile. Three
  invariants, each on top of the one before.
  - `Inv` gives `TypeCorrect`, `TransientsAreRetried` and
    `AdmittedStaysAccepted`. `Control` and `Loops` say which step finds what.
    `Blames` makes the second inductive: whatever entry, read or result
    names something that may pass, `retryable` is already set; the lemmas
    `...Blames` follow an error through extraction, conversion, operators and
    aggregation and show that none of them makes up such a reason, and
    `CandidateReports` that the conditions, the full and the compact ones, say
    `unavailable` only of what was. `Webhook` makes the third inductive:
    the webhook's checks (`ValidateFacet`) imply those that the runtime makes in
    another order in another place (`AllowedIsValid`), within the budgets of the
    limits it was admitted with. `Records` keeps the status a record whose
    conditions are a list, through merges, foreign writers and the JSON round trip.
  - `Progress` gives `ReadyHidesNothing` (`ReadyIsComplete`). A publication says
    Ready only if no result has an error, so one has to know what a
    result without an error stands for. `Settled`: a source that is not completed
    has an error by the time of the publication. `Honest`: a result without one
    is the outcome of a read that succeeded. `WasRead` and `Granted`: such a read
    was preceded by a plan with every target allowed and the kind
    resolved. `OutcomeComplete` then follows the objects of the read through
    the stages: `ExtractClean`, `ConvertClean`, `OperateClean` and `AggregateClean`
    say that a stage without an error has dropped nothing, the planned fields are
    the declared ones (`SortedList`: sorting by name loses none), so an object is
    either shown or rejected by an operator. `CandidateReady` ties this to the
    conditions and the summary, `DecodedComplete` to what is read back.
  - `Times` gives `TransitionsAreExact` (`ConditionTransitions`) and
    `StatusStaysBounded` (`StatusBounded`). The persisted list is the five
    conditions in their order, or none of them, and then those of others (`Split`),
    and the five were set before the time that comes (`Dated`): a time that is
    written now differs from every earlier one, without which a
    transition could go unseen. `MergedIsOrdered` and `ForeignIsRest` compute what
    `mergeConditions` returns. The bound rests on `CandidateShape` (what
    `composeBoundedStatus` returns, and when it drops the result), on
    `MergedLength` (the compact status has as many conditions as the full one), and
    on the lemmas `Decoded...Weight`: a status weighs as much when it is read back.
  - `RoundingIsExact` needs no invariant: the `Round` of the model is `IsRounded`
    for every value, divisor, precision and mode. `UnitsAssumption`, that the
    powers of ten are positive, is there because the provers do not know `^`.
- **NaturalSets** has the facts about the least and greatest number of a set
  that RouteRegistry (addresses), Selection (namespaces) and Evaluation (the
  first position of a list with some property) rest on.

Only model-checked: the liveness properties (`TriggersDelivered`,
`Converges`, `Terminates`), as temporal reasoning with fairness is out of the
prover's reach; and `AggregatesAgree`, which says what folds over the
contributions of a group compute (sums, extremes, distinct values): its proof
would be an induction over data. Of it the rounding of averages is proved. The
properties of the runs that expect a violation are false and have no theorem.

## 5. Not modelled

Left out for good: observability (no decision reads it), generated code,
charts, scripts and the development CLI. The manager's assembly, certificates and
lifecycle jobs and the purge are sequential jobs around the API server that share no state with
the runtime; they would be modules of their own. Also left out: the contents of
discovery documents, the characters of paths, selectors and regular
expressions, message texts, the authorization evidence records, the result
hash, and time itself (backoff, cache expiry and deadlines may happen at any
moment). The resolver's `Invalidate*` methods are modelled although only tests
call them. The branch of `reconcileKey` for a result that cannot be built
(`ResultUnavailable`) is in Reconciliation; in Evaluation no stage produces one.
Refusals that only a miswired process meets are left out (nil dependencies,
a second `Start`), and so are those of values the schema or the JSON decoder
excludes: a source without identifier or kind, an object that cannot be encoded.

Assumed of what is outside: the informer shows every Facet that existed, if only
by its deletion (a relist that skips a whole life would leave that Facet's routes
to the next event of an object they watch), and a caller of the resolver that waits
for another's request looks at its own context only while it waits
(`discovery/resolver.go:440`).

Met while modelling, and not the subject of a run:

- `compatibleFunction` (`aggregation/planner.go:180`) plans `min` and `max` for
  every type that can be a group key, strings and Booleans included.
  `.walden/specs/cross-namespace-aggregation/requirements.md:117` allows them "for
  `integer`, `number`, `timestamp`, `duration`, and `quantity` fields" (R4.AC4),
  and line 80 (R2.AC11) wants planning to fail for an incompatible type. A string
  has an order and its extremes are shown. A Boolean has none
  (`typedoutput/operator_bridge.go:133`): the aggregate is shown while one value
  contributes and is `InvalidInput` with two. `FailureReasons` states exactly
  that, so `AggregatesAgree` holds of it and of no other failure.
- The runtime loads the policy with the budget validator, the webhook without it
  (`accesspolicy.Load`), so a policy over budget is usable at admission and
  invalid at run time. Admission and Evaluation follow both.
- An empty `namespaces.names` past the webhook has no target: the source is read
  as empty and Ready may be True beside Authorized False.
- `CompactStatusSize` measures a status without foreign conditions; with
  enough of them even the compact status does not fit and nothing is published.
- A source without fields publishes no resources.
- The aggregates of a source whose operators do not compile are computed over no
  resources beside its field errors.
- `purgeCollectionObjects` (`purge/purge.go`) deletes a namespaced object through
  the collection of all namespaces; a not-found answer counts as already absent,
  and the wait for an empty collection can only end by its timeout.

## 6. Plan

1. The purge and the manager's lifecycle jobs as a small module, if a run can be
   shared.
2. `AggregatesAgree` for every source, with a prover that can do induction over
   sequences; the lemmas about lists in Evaluation_proofs are a start.
