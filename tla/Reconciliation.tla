--------------------------- MODULE Reconciliation ---------------------------
(***************************************************************************)
(* The reconciliation of Facets: the freshness tracker, the lifecycle and   *)
(* policy event handlers, Runtime.Reconcile and StatusPublisher.Publish     *)
(* (internal/reconciliation/{tracker,events,pipeline,status}.go), against    *)
(* an API server whose reads are direct and whose events arrive late        *)
(* through an informer.                                                     *)
(*                                                                          *)
(* The trigger ingress is used through what it promises (TriggerSource):    *)
(* a Facet in owed reaches the work queue, a trigger for a Facet that is    *)
(* gone may lapse.  The route registry is used through one lease per owner: *)
(* the one its bindings carry.                                              *)
(***************************************************************************)
EXTENDS Naturals, Sequences, FiniteSets

CONSTANTS
    Keys,           \* Facet names
    MaxVersions,    \* bound: API states of a name, the initial absence included
    MaxPolicy,      \* bound: versions of the installation policy
    MaxSource,      \* bound: versions of the observed resources
    MaxFaults,      \* bound: failed API calls, expired deadlines and restarts
    Restarts,       \* bound: whether the faults include restarts
    Denying         \* the versions of the policy that deny the sources

ASSUME BoundsAssumption ==
    /\ MaxVersions \in Nat \ {0}
    /\ MaxPolicy \in Nat \ {0}
    /\ MaxSource \in Nat \ {0}
    /\ MaxFaults \in Nat
    /\ Restarts \in BOOLEAN
    /\ Denying \subseteq 1 .. MaxPolicy

VARIABLES
    history,    \* history[k]: the successive API states of Facet k
    status,     \* status[k]: the status stored with it
    observed,   \* observed[k]: how far the informer has delivered history[k]
    policy,     \* the version of the installation policy
    policySeen, \* the version the policy informer has delivered, 0 before the first
    source,     \* the version of the observed resources
    notify,     \* Facets whose watch has an undelivered source event
    tracked,    \* FreshnessTracker.states
    epoch,      \* FreshnessTracker.epoch
    routes,     \* routes[k]: the lease the bindings of owner k were made for
    handler,    \* handler[k]: the lifecycle handler's progress with an event of k
    policyPC,   \* the policy handler's goroutine
    owed,       \* triggers accepted by the ingress and not yet queued
    queue,      \* the controller's work queue
    attempt,    \* attempt[k]: the Reconcile call for k, under its gate
    missed,     \* ghost: Facets whose last attempt was skipped for a deadline
    faults      \* faults so far, see MaxFaults

vars == <<history, status, observed, policy, policySeen, source, notify,
          tracked, epoch, routes, handler, policyPC, owed, queue, attempt,
          missed, faults>>

cluster  == <<history, policy, source>>
informer == <<observed, policySeen, handler, policyPC>>

----------------------------------------------------------------------------
Absent == [uid |-> 0, gen |-> 0, deleting |-> FALSE, valid |-> TRUE]

Object == [uid : Nat, gen : Nat, deleting : BOOLEAN, valid : BOOLEAN]

Lease == [uid : Nat, gen : Nat, epoch : 0 .. MaxPolicy]

NoLease == [uid |-> 0, gen |-> 0, epoch |-> 0]

Tracked == [uid : Nat, gen : Nat, deleting : BOOLEAN, absent : BOOLEAN,
            policyEpoch : 0 .. MaxPolicy, active : Lease]

(* What a status says: the evaluation it reports and what that read. *)
Outcomes == {"none", "result", "degraded", "interrupted", "timedOut",
             "unavailable", "rejected"}

Status == [gen : Nat, policy : 0 .. MaxPolicy, source : 0 .. MaxSource,
           outcome : Outcomes]

NoStatus == [gen |-> 0, policy |-> 0, source |-> 0, outcome |-> "none"]

(* The stages of an attempt at which the code checks evaluationState. *)
Stages == {"load", "replace", "evaluate"}

PCs == Stages \cup {"idle", "get", "observe", "remove", "absent", "acquire",
                    "validate", "install", "await", "compose", "publish",
                    "compare", "write"}

Attempt == [pc : PCs, object : Object, lease : Lease, cancelled : BOOLEAN,
            expired : BOOLEAN, retry : BOOLEAN, context : {"evaluation", "lease"},
            read : Nat, candidate : Status]

Idle == [pc |-> "idle", object |-> Absent, lease |-> NoLease,
         cancelled |-> FALSE, expired |-> FALSE, retry |-> FALSE,
         context |-> "evaluation", read |-> 0, candidate |-> NoStatus]

TypeOK ==
    /\ history \in [Keys -> Seq(Object) \ {<<>>}]
    /\ status \in [Keys -> Status]
    /\ observed \in [Keys -> Nat \ {0}]
    /\ policy \in 1 .. MaxPolicy /\ policySeen \in 0 .. MaxPolicy
    /\ source \in 1 .. MaxSource
    /\ notify \in SUBSET Keys
    /\ tracked \in [Keys -> Tracked]
    /\ epoch \in 0 .. MaxPolicy
    /\ routes \in [Keys -> Lease]
    /\ handler \in [Keys -> {"idle", "remove", "enqueue"}]
    /\ policyPC \in {"idle", "remove", "request"}
    /\ owed \in SUBSET Keys
    /\ queue \in SUBSET Keys
    /\ attempt \in [Keys -> Attempt]
    /\ missed \in SUBSET Keys
    /\ faults \in 0 .. MaxFaults

(* NewFreshnessTracker: an identity nothing is known of. *)
Untracked == [uid |-> 0, gen |-> 0, deleting |-> FALSE, absent |-> FALSE,
              policyEpoch |-> 0, active |-> NoLease]

Stored(k) == history[k][Len(history[k])]

Existing == {k \in Keys : Stored(k) # Absent}

(* An empty cluster; the policy's first event is behind the controller (it  *)
(* is ahead of it after a Restart).                                         *)
Init ==
    /\ history = [k \in Keys |-> <<Absent>>]
    /\ status = [k \in Keys |-> NoStatus]
    /\ observed = [k \in Keys |-> 1]
    /\ policy = 1 /\ policySeen = 1
    /\ source = 1
    /\ notify = {}
    /\ tracked = [k \in Keys |-> Untracked]
    /\ epoch = 0
    /\ routes = [k \in Keys |-> NoLease]
    /\ handler = [k \in Keys |-> "idle"]
    /\ policyPC = "idle"
    /\ owed = {}
    /\ queue = {}
    /\ attempt = [k \in Keys |-> Idle]
    /\ missed = {}
    /\ faults = 0

----------------------------------------------------------------------------
(* The cluster: the API server's Facets, the policy, the observed           *)
(* resources and the clock.                                                 *)

Append1(k, o) == history' = [history EXCEPT ![k] = Append(@, o)]

Bounded(k) == Len(history[k]) < MaxVersions

OutsideCluster == <<observed, policySeen, tracked, epoch, routes, handler,
                    policyPC, owed, queue, attempt, missed, faults>>

CreateFacet(k) ==
    /\ Bounded(k)
    /\ Stored(k) = Absent
    /\ \E valid \in BOOLEAN :
         Append1(k, [uid |-> Len(history[k]), gen |-> 1, deleting |-> FALSE,
                     valid |-> valid])
    /\ status' = [status EXCEPT ![k] = NoStatus]
    /\ UNCHANGED <<policy, source, notify, OutsideCluster>>

UpdateFacet(k) ==
    /\ Bounded(k)
    /\ Stored(k) # Absent /\ ~Stored(k).deleting
    /\ \E valid \in BOOLEAN :
         Append1(k, [Stored(k) EXCEPT !.gen = @ + 1, !.valid = valid])
    /\ UNCHANGED <<status, policy, source, notify, OutsideCluster>>

(* A deletion that a foreign finalizer holds up. *)
MarkDeleting(k) ==
    /\ Bounded(k)
    /\ Stored(k) # Absent /\ ~Stored(k).deleting
    /\ Append1(k, [Stored(k) EXCEPT !.gen = @ + 1, !.deleting = TRUE])
    /\ UNCHANGED <<status, policy, source, notify, OutsideCluster>>

DeleteFacet(k) ==
    /\ Bounded(k)
    /\ Stored(k) # Absent
    /\ Append1(k, Absent)
    /\ status' = [status EXCEPT ![k] = NoStatus]
    /\ UNCHANGED <<policy, source, notify, OutsideCluster>>

ChangePolicy ==
    /\ policy < MaxPolicy
    /\ policy' = policy + 1
    /\ UNCHANGED <<history, status, source, notify, OutsideCluster>>

(* Every established watch has an event for the change. *)
ChangeSource ==
    /\ source < MaxSource
    /\ source' = source + 1
    /\ notify' = {k \in Keys : routes[k] # NoLease}
    /\ UNCHANGED <<history, status, policy, OutsideCluster>>

Fault == faults < MaxFaults /\ faults' = faults + 1

----------------------------------------------------------------------------
(* FreshnessTracker *)

IsLeaseCurrent(k, lease) ==
    /\ tracked[k].uid = lease.uid
    /\ tracked[k].gen = lease.gen
    /\ ~tracked[k].deleting
    /\ ~tracked[k].absent
    /\ tracked[k].policyEpoch = lease.epoch
    /\ epoch = lease.epoch

(* cancelActive cancels the context of the attempt that holds the lease. *)
Cancelled(k) ==
    IF tracked[k].active # NoLease
    THEN [attempt[k] EXCEPT !.cancelled = TRUE]
    ELSE attempt[k]

changedIdentity(k, object) ==
    \/ tracked[k].uid # object.uid
    \/ tracked[k].gen # object.gen
    \/ tracked[k].deleting # object.deleting
    \/ tracked[k].absent

Observe(k, object) ==
    /\ tracked' = [tracked EXCEPT
         ![k] = [uid |-> object.uid, gen |-> object.gen,
                 deleting |-> object.deleting, absent |-> FALSE,
                 policyEpoch |-> epoch,
                 active |-> IF changedIdentity(k, object) THEN NoLease
                                                          ELSE @.active]]
    /\ attempt' = IF changedIdentity(k, object)
                  THEN [attempt EXCEPT ![k] = Cancelled(k)]
                  ELSE attempt

MarkedAbsent(k, uid) ==
    [tracked EXCEPT ![k] = [@ EXCEPT !.uid = uid, !.deleting = TRUE,
                                     !.absent = TRUE, !.policyEpoch = epoch,
                                     !.active = NoLease]]

ObserveDelete(k, uid) ==
    /\ tracked' = MarkedAbsent(k, uid)
    /\ attempt' = [attempt EXCEPT ![k] = Cancelled(k)]

(* Mutant: the epoch is advanced by the event and once more by the sweep. *)
InvalidateTwice ==
    /\ epoch' = epoch + 2
    /\ tracked' = [k \in Keys |-> [tracked[k] EXCEPT !.policyEpoch = epoch + 2,
                                                     !.active = NoLease]]
    /\ attempt' = [k \in Keys |-> Cancelled(k)]

InvalidateAll ==
    /\ epoch' = epoch + 1
    /\ tracked' = [k \in Keys |-> [tracked[k] EXCEPT !.policyEpoch = epoch + 1,
                                                     !.active = NoLease]]
    /\ attempt' = [k \in Keys |-> Cancelled(k)]

(* RouteRegistry, as its callers see it. *)
RemoveOwner(k) ==
    /\ routes' = [routes EXCEPT ![k] = NoLease]
    /\ notify' = notify \ {k}

RemoveAll ==
    /\ routes' = [k \in Keys |-> NoLease]
    /\ notify' = {}

----------------------------------------------------------------------------
(* LifecycleHandler.  The informer delivers the states of a name in order   *)
(* and may skip some (a relist), though not a Facet's whole life; its one   *)
(* goroutine handles an event at a time: Observe, then RemoveOwner where a  *)
(* deletion or another UID calls for it, then enqueue.                      *)

facetLifecycleChanged(old, new) ==
    \/ old.uid # new.uid
    \/ old.gen # new.gen
    \/ ~old.deleting /\ new.deleting

HandleEvent(k, old, new) ==
    \/ /\ new = Absent /\ old # Absent                              \* Delete
       /\ ObserveDelete(k, old.uid)
       /\ handler' = [handler EXCEPT ![k] = "remove"]
    \/ /\ new # Absent                                      \* Create, Update
       /\ Observe(k, new)
       /\ handler' = [handler EXCEPT
            ![k] = IF new.deleting \/ (old # Absent /\ old.uid # new.uid)
                   THEN "remove" ELSE "enqueue"]

DeliverEvent(k) ==
    /\ \A j \in Keys : handler[j] = "idle"
    /\ \E v \in observed[k] + 1 .. Len(history[k]) :
         /\ facetLifecycleChanged(history[k][observed[k]], history[k][v])
         /\ observed' = [observed EXCEPT ![k] = v]
         /\ HandleEvent(k, history[k][observed[k]], history[k][v])
    /\ UNCHANGED <<cluster, status, policySeen, notify, epoch, routes,
                   policyPC, owed, queue, missed, faults>>

HandlerRemove(k) ==
    /\ handler[k] = "remove"
    /\ RemoveOwner(k)
    /\ handler' = [handler EXCEPT ![k] = "enqueue"]
    /\ UNCHANGED <<cluster, status, observed, policySeen, tracked, epoch,
                   policyPC, owed, queue, attempt, missed, faults>>

HandlerEnqueue(k) ==
    /\ handler[k] = "enqueue"
    /\ owed' = owed \cup {k}
    /\ handler' = [handler EXCEPT ![k] = "idle"]
    /\ UNCHANGED <<cluster, status, observed, policySeen, notify, tracked,
                   epoch, routes, policyPC, queue, attempt, missed, faults>>

----------------------------------------------------------------------------
(* PolicyHandler.changed: InvalidateAll, RemoveAll, RequestEnqueueAll. *)

DeliverPolicy ==
    /\ policyPC = "idle"
    /\ policySeen < policy
    /\ policySeen' \in policySeen + 1 .. policy
    /\ InvalidateAll
    /\ policyPC' = "remove"
    /\ UNCHANGED <<cluster, status, observed, notify, routes, handler, owed,
                   queue, missed, faults>>

PolicyRemoveAll ==
    /\ policyPC = "remove"
    /\ RemoveAll
    /\ policyPC' = "request"
    /\ UNCHANGED <<cluster, status, observed, policySeen, tracked, epoch,
                   handler, owed, queue, attempt, missed, faults>>

(* Mutant: a policy change only triggers the Facets that have routes. *)
PolicyRequestRouted ==
    /\ policyPC = "request"
    /\ owed' = owed \cup {k \in Keys : routes[k] # NoLease}
    /\ policyPC' = "idle"
    /\ UNCHANGED <<cluster, status, observed, policySeen, notify, tracked,
                   epoch, routes, handler, queue, attempt, missed, faults>>

PolicyRequest ==
    /\ policyPC = "request"
    /\ owed' = owed \cup Existing
    /\ policyPC' = "idle"
    /\ UNCHANGED <<cluster, status, observed, policySeen, notify, tracked,
                   epoch, routes, handler, queue, attempt, missed, faults>>

----------------------------------------------------------------------------
(* The ingress and the watches, as promised by TriggerSource and            *)
(* RouteRegistry.                                                           *)

OutsideIngress == <<cluster, status, informer, tracked, epoch, attempt, missed,
                    faults>>

QueueTrigger(k) ==
    /\ k \in owed
    /\ owed' = owed \ {k}
    /\ queue' = queue \cup {k}
    /\ UNCHANGED <<notify, routes, OutsideIngress>>

(* An overloaded ingress recovers by listing, which finds no deleted Facet. *)
LapseTrigger(k) ==
    /\ k \in owed \ Existing
    /\ owed' = owed \ {k}
    /\ UNCHANGED <<notify, routes, queue, OutsideIngress>>

SafetyTick ==
    /\ owed' = owed \cup Existing
    /\ UNCHANGED <<notify, routes, queue, OutsideIngress>>

(* routeEvent: a stale binding is pruned, a current one triggers its owner. *)
RouteEvent(k) ==
    /\ k \in notify
    /\ notify' = notify \ {k}
    /\ IF IsLeaseCurrent(k, routes[k])
       THEN owed' = owed \cup {k} /\ UNCHANGED routes
       ELSE routes' = [routes EXCEPT ![k] = NoLease] /\ UNCHANGED owed
    /\ UNCHANGED <<queue, OutsideIngress>>

----------------------------------------------------------------------------
(* Runtime.Reconcile.  Begin takes the key's gate; Finish releases the      *)
(* lease and the gate, and an error puts the key back on the queue.         *)

Move(k, pc) == attempt' = [attempt EXCEPT ![k].pc = pc]

(* Mutant: the path of an expired deadline returns without releasing. *)
ReleaseUnlessExpired(k) ==
    tracked' = [tracked EXCEPT
        ![k].active = IF @ = attempt[k].lease /\ ~attempt[k].expired
                      THEN NoLease ELSE @]

(* release: the lease is given up unless cancelActive took it first. *)
Release(k) ==
    tracked' = [tracked EXCEPT
        ![k].active = IF @ = attempt[k].lease THEN NoLease ELSE @]

Finish(k, retry) ==
    /\ Release(k)
    /\ attempt' = [attempt EXCEPT ![k] = Idle]
    /\ queue' = IF retry THEN queue \cup {k} ELSE queue

OutsideAttempt == <<cluster, informer, epoch, owed>>

Begin(k) ==
    /\ k \in queue
    /\ attempt[k].pc = "idle"
    /\ queue' = queue \ {k}
    /\ missed' = missed \ {k}
    /\ Move(k, "get")
    /\ UNCHANGED <<OutsideAttempt, status, notify, tracked, routes, faults>>

(* Mutant: the routes of a Facet that is gone are left to the handler. *)
GetLeavesRoutes(k) ==
    /\ attempt[k].pc = "get"
    /\ attempt' = [attempt EXCEPT
         ![k].pc = IF Stored(k) = Absent THEN "absent"
                   ELSE IF Stored(k).deleting THEN "observe"
                   ELSE "acquire",
         ![k].object = Stored(k)]
    /\ UNCHANGED <<OutsideAttempt, status, notify, tracked, routes, queue,
                   missed, faults>>

Get(k) ==
    /\ attempt[k].pc = "get"
    /\ attempt' = [attempt EXCEPT
         ![k].pc = IF Stored(k) = Absent THEN "remove"
                   ELSE IF Stored(k).deleting THEN "observe"
                   ELSE "acquire",
         ![k].object = Stored(k)]
    /\ UNCHANGED <<OutsideAttempt, status, notify, tracked, routes, queue,
                   missed, faults>>

GetFails(k) ==
    /\ attempt[k].pc = "get"
    /\ Fault
    /\ Finish(k, TRUE)
    /\ UNCHANGED <<OutsideAttempt, status, notify, routes, missed>>

(* Gone or going: Observe a deletion, drop the routes, mark the key absent. *)
ObserveDeleting(k) ==
    /\ attempt[k].pc = "observe"
    /\ tracked' = [tracked EXCEPT
         ![k] = [@ EXCEPT !.uid = attempt[k].object.uid,
                          !.gen = attempt[k].object.gen, !.deleting = TRUE,
                          !.absent = FALSE, !.policyEpoch = epoch,
                          !.active = NoLease]]
    /\ Move(k, "remove")
    /\ UNCHANGED <<OutsideAttempt, status, notify, routes, queue, missed,
                   faults>>

RemoveRoutes(k) ==
    /\ attempt[k].pc = "remove"
    /\ RemoveOwner(k)
    /\ Move(k, "absent")
    /\ UNCHANGED <<OutsideAttempt, status, tracked, queue, missed, faults>>

MarkAbsent(k) ==
    /\ attempt[k].pc = "absent"
    /\ tracked' = MarkedAbsent(k, tracked[k].uid)
    /\ attempt' = [attempt EXCEPT ![k] = Idle]
    /\ UNCHANGED <<OutsideAttempt, status, notify, routes, queue, missed,
                   faults>>

(* Acquire refuses a second lease for the key; otherwise it overwrites the  *)
(* tracked identity with what Get returned.                                 *)
Acquire(k) ==
    LET object == attempt[k].object
        lease == [uid |-> object.uid, gen |-> object.gen, epoch |-> epoch]
    IN  /\ attempt[k].pc = "acquire"
        /\ IF tracked[k].active # NoLease
           THEN Finish(k, TRUE)
           ELSE /\ tracked' = [tracked EXCEPT
                     ![k] = [uid |-> object.uid, gen |-> object.gen,
                             deleting |-> FALSE, absent |-> FALSE,
                             policyEpoch |-> epoch, active |-> lease]]
                /\ attempt' = [attempt EXCEPT ![k].pc = "validate",
                                              ![k].lease = lease]
                /\ UNCHANGED queue
        /\ UNCHANGED <<OutsideAttempt, status, notify, routes, missed, faults>>

(* The evaluation deadline, which WithTimeout arms after Acquire. *)
Expire(k) ==
    /\ attempt[k].lease # NoLease
    /\ ~attempt[k].expired
    /\ Fault
    /\ attempt' = [attempt EXCEPT ![k].expired = TRUE]
    /\ UNCHANGED <<OutsideAttempt, status, notify, tracked, routes, queue,
                   missed>>

(* evaluationState *)
Interrupted(k) ==
    attempt[k].cancelled \/ ~IsLeaseCurrent(k, attempt[k].lease)

TimedOut(k) == ~Interrupted(k) /\ attempt[k].expired

Proceeds(k) == ~Interrupted(k) /\ ~attempt[k].expired

StageInterrupted(k) ==
    /\ attempt[k].pc \in Stages \cup {"validate", "compose"}
    /\ Interrupted(k)
    /\ Finish(k, FALSE)
    /\ UNCHANGED <<OutsideAttempt, status, notify, routes, missed, faults>>

(* A status without a result, published through the lease's own context,    *)
(* which has no deadline, and followed by an error that retries.            *)
Verdict(k, outcome) ==
    [attempt[k] EXCEPT !.pc = "publish", !.context = "lease", !.retry = TRUE,
                       !.candidate.outcome = outcome,
                       !.candidate.gen = attempt[k].lease.gen]

(* Mutant: a published timeout is reported as success. *)
TimeoutCandidateDone(k) == [Verdict(k, "timedOut") EXCEPT !.retry = FALSE]

(* finishTimedOutEvaluation *)
TimeoutCandidate(k) == Verdict(k, "timedOut")

StageTimesOut(k) ==
    /\ attempt[k].pc \in Stages
    /\ TimedOut(k)
    /\ attempt' = [attempt EXCEPT ![k] = TimeoutCandidate(k)]
    /\ UNCHANGED <<OutsideAttempt, status, notify, tracked, routes, queue,
                   missed, faults>>

(* A spec over budget loses its routes and has its rejection published. *)
Validate(k) ==
    /\ attempt[k].pc = "validate"
    /\ ~Interrupted(k)
    /\ IF attempt[k].object.valid
       THEN Move(k, "load") /\ UNCHANGED <<routes, notify>>
       ELSE /\ RemoveOwner(k)
            /\ attempt' = [attempt EXCEPT ![k] = Verdict(k, "rejected")]
    /\ UNCHANGED <<OutsideAttempt, status, tracked, queue, missed, faults>>

(* The policy is read afresh; an unavailable one degrades the result. *)
LoadPolicy(k) ==
    /\ attempt[k].pc = "load"
    /\ Proceeds(k)
    /\ \/ /\ attempt' = [attempt EXCEPT ![k].pc = "replace",
                                        ![k].candidate.policy = policy]
          /\ UNCHANGED faults
       \/ /\ Fault
          /\ attempt' = [attempt EXCEPT ![k].pc = "replace", ![k].retry = TRUE]
    /\ UNCHANGED <<OutsideAttempt, status, notify, tracked, routes, queue,
                   missed>>

(* Replace: checked on entry and again under the registry's lock, which     *)
(* keeps RemoveOwner and RemoveAll out until the bindings are in.           *)
Replace(k) ==
    /\ attempt[k].pc = "replace"
    /\ Proceeds(k)
    /\ Move(k, "install")
    /\ UNCHANGED <<OutsideAttempt, status, notify, tracked, routes, queue,
                   missed, faults>>

Allowed(k) == attempt[k].candidate.policy \in 1 .. MaxPolicy \ Denying

(* Mutant: the lease is not checked again under the registry's lock. *)
InstallUnchecked(k) ==
    /\ attempt[k].pc = "install"
    /\ IF Allowed(k)
       THEN routes' = [routes EXCEPT ![k] = attempt[k].lease] /\ UNCHANGED notify
       ELSE RemoveOwner(k)
    /\ Move(k, "await")
    /\ UNCHANGED <<OutsideAttempt, status, tracked, queue, missed, faults>>

Install(k) ==
    /\ attempt[k].pc = "install"
    /\ IsLeaseCurrent(k, attempt[k].lease)
    /\ IF Allowed(k)
       THEN routes' = [routes EXCEPT ![k] = attempt[k].lease] /\ UNCHANGED notify
       ELSE RemoveOwner(k)
    /\ Move(k, "await")
    /\ UNCHANGED <<OutsideAttempt, status, tracked, queue, missed, faults>>

InstallStale(k) ==
    /\ attempt[k].pc = "install"
    /\ ~IsLeaseCurrent(k, attempt[k].lease)
    /\ Finish(k, FALSE)
    /\ UNCHANGED <<OutsideAttempt, status, notify, routes, missed, faults>>

(* Waiting for the first WATCH attempt of each route. *)
WatchReady(k) ==
    /\ attempt[k].pc = "await"
    /\ Move(k, "evaluate")
    /\ UNCHANGED <<OutsideAttempt, status, notify, tracked, routes, queue,
                   missed, faults>>

(* The wait ends with the context: pruneStaleOwner, then evaluationState. *)
WaitFails(k) ==
    /\ attempt[k].pc = "await"
    /\ attempt[k].cancelled \/ attempt[k].expired
    /\ IF IsLeaseCurrent(k, routes[k])
       THEN UNCHANGED <<routes, notify>>
       ELSE RemoveOwner(k)
    /\ IF Interrupted(k)
       THEN Finish(k, FALSE)
       ELSE /\ attempt' = [attempt EXCEPT ![k] = TimeoutCandidate(k)]
            /\ UNCHANGED <<tracked, queue>>
    /\ UNCHANGED <<OutsideAttempt, status, missed, faults>>

(* List, extract, convert, operate, aggregate: the result of every source,  *)
(* of some, or of none (the result could not be built).  A source that      *)
(* failed is retried, except for one whose LIST the server timed out:       *)
(* mapListError calls that ReadInterrupted, retryableSelectionError final.  *)
Evaluated(k, outcome) ==
    [attempt[k] EXCEPT
        !.pc = IF outcome = "unavailable" THEN "publish" ELSE "compose",
        !.retry = attempt[k].retry \/ outcome \in {"degraded", "unavailable"},
        !.candidate = [attempt[k].candidate EXCEPT
            !.gen = attempt[k].lease.gen,
            !.source = IF outcome = "unavailable" \/ ~Allowed(k)
                       THEN 0 ELSE source,
            !.outcome = IF outcome = "result" /\ attempt[k].retry
                        THEN "degraded" ELSE outcome]]

Evaluate(k) ==
    /\ attempt[k].pc = "evaluate"
    /\ Proceeds(k)
    /\ \E outcome \in {"result", "degraded", "interrupted", "unavailable"} :
         /\ outcome = "interrupted" => Allowed(k)
         /\ outcome # "result" => Fault
         /\ outcome = "result" => UNCHANGED faults
         /\ attempt' = [attempt EXCEPT ![k] = Evaluated(k, outcome)]
    /\ UNCHANGED <<OutsideAttempt, status, notify, tracked, routes, queue,
                   missed>>

(* A complete result outlives the evaluation deadline. *)
Compose(k) ==
    /\ attempt[k].pc = "compose"
    /\ ~Interrupted(k)
    /\ attempt' = [attempt EXCEPT
         ![k].pc = "publish",
         ![k].context = IF attempt[k].expired THEN "lease" ELSE "evaluation"]
    /\ UNCHANGED <<OutsideAttempt, status, notify, tracked, routes, queue,
                   missed, faults>>

----------------------------------------------------------------------------
(* StatusPublisher.Publish: read, compare, write, each under the lease.     *)

ContextDone(k) ==
    \/ attempt[k].cancelled
    \/ attempt[k].context = "evaluation" /\ attempt[k].expired

(* A stale lease or an ended context: Reconcile reports no error, except    *)
(* for a result that could not be built.                                    *)
Skip(k) ==
    /\ Finish(k, attempt[k].candidate.outcome = "unavailable")
    /\ missed' = IF ~Interrupted(k)
                    /\ attempt[k].candidate.outcome # "unavailable"
                 THEN missed \cup {k} ELSE missed

OutsidePublish == <<OutsideAttempt, notify, routes>>

(* Mutant: only the UID of the object read is compared with the lease. *)
MatchesUID(k) == Stored(k).uid = attempt[k].lease.uid

Matches(k) ==
    /\ Stored(k).uid = attempt[k].lease.uid
    /\ Stored(k).gen = attempt[k].lease.gen

PublishRead(k) ==
    /\ attempt[k].pc = "publish"
    /\ ~ContextDone(k)
    /\ IsLeaseCurrent(k, attempt[k].lease)
    /\ Stored(k) # Absent /\ ~Stored(k).deleting
    /\ Matches(k)
    /\ attempt' = [attempt EXCEPT ![k].pc = "compare",
                                  ![k].read = Len(history[k])]
    /\ UNCHANGED <<OutsidePublish, status, tracked, queue, missed, faults>>

PublishSkips(k) ==
    /\ \/ attempt[k].pc \in {"publish", "compare"}
          /\ (ContextDone(k) \/ ~IsLeaseCurrent(k, attempt[k].lease))
       \/ attempt[k].pc = "publish"
          /\ Stored(k) # Absent /\ ~Stored(k).deleting /\ ~Matches(k)
       \/ attempt[k].pc = "write" /\ ContextDone(k)
    /\ Skip(k)
    /\ UNCHANGED <<OutsidePublish, status, faults>>

(* A Facet being deleted keeps its status. *)
PublishDeleting(k) ==
    /\ attempt[k].pc = "publish"
    /\ ~ContextDone(k)
    /\ IsLeaseCurrent(k, attempt[k].lease)
    /\ Stored(k).deleting
    /\ Finish(k, attempt[k].retry)
    /\ UNCHANGED <<OutsidePublish, status, missed, faults>>

PublishFails(k) ==
    /\ \/ attempt[k].pc = "publish" /\ ~ContextDone(k)
          /\ IsLeaseCurrent(k, attempt[k].lease)
          /\ (Fault \/ (Stored(k) = Absent /\ UNCHANGED faults))
       \/ attempt[k].pc = "compare" /\ Fault       \* composeBoundedStatus
       \/ attempt[k].pc = "write"
          /\ (Fault \/ (attempt[k].read # Len(history[k]) /\ UNCHANGED faults))
    /\ Finish(k, TRUE)
    /\ UNCHANGED <<OutsidePublish, status, missed>>

(* Mutant: a status of the same generation is taken to be up to date. *)
PublishComparesGeneration(k) ==
    /\ attempt[k].pc = "compare"
    /\ IsLeaseCurrent(k, attempt[k].lease)
    /\ \/ /\ status[k].gen = attempt[k].candidate.gen
          /\ Finish(k, attempt[k].retry)
       \/ /\ status[k].gen # attempt[k].candidate.gen
          /\ ~ContextDone(k)
          /\ Move(k, "write")
          /\ UNCHANGED <<tracked, queue>>
    /\ UNCHANGED <<OutsidePublish, status, missed, faults>>

PublishCompare(k) ==
    /\ attempt[k].pc = "compare"
    /\ IsLeaseCurrent(k, attempt[k].lease)
    /\ \/ /\ status[k] = attempt[k].candidate
          /\ Finish(k, attempt[k].retry)
       \/ /\ status[k] # attempt[k].candidate
          /\ ~ContextDone(k)
          /\ Move(k, "write")
          /\ UNCHANGED <<tracked, queue>>
    /\ UNCHANGED <<OutsidePublish, status, missed, faults>>

(* The server accepts the update of the version that was read, even when    *)
(* the lease or its context ended after the last check.  Its answer may be  *)
(* lost, or come after the context has ended.                               *)
PublishWrite(k) ==
    /\ attempt[k].pc = "write"
    /\ attempt[k].read = Len(history[k])
    /\ status' = [status EXCEPT ![k] = attempt[k].candidate]
    /\ \/ Finish(k, attempt[k].retry) /\ UNCHANGED <<missed, faults>>
       \/ Fault /\ Finish(k, TRUE) /\ UNCHANGED missed
       \/ ContextDone(k) /\ Skip(k) /\ UNCHANGED faults
    /\ UNCHANGED OutsidePublish

----------------------------------------------------------------------------
(* The process dies and another takes over, by leader election or as a new  *)
(* pod: only what the API server stores is left.  The new informers list    *)
(* (from a server cache that may lag behind) and deliver every object as    *)
(* created, the policy too, and TriggerSource.Start enqueues every Facet.   *)

Restart ==
    /\ Restarts
    /\ Fault
    /\ observed' \in [Keys -> 1 .. MaxVersions]
    /\ \A k \in Keys : /\ observed'[k] \in DOMAIN history[k]
                       /\ history[k][observed'[k]] = Absent
    /\ policySeen' = 0
    /\ notify' = {}
    /\ tracked' = [k \in Keys |-> Untracked]
    /\ epoch' = 0
    /\ routes' = [k \in Keys |-> NoLease]
    /\ handler' = [k \in Keys |-> "idle"]
    /\ policyPC' = "idle"
    /\ owed' = Existing
    /\ queue' = {}
    /\ attempt' = [k \in Keys |-> Idle]
    /\ missed' = {}
    /\ UNCHANGED <<cluster, status>>

----------------------------------------------------------------------------
ClusterStep(k) == CreateFacet(k) \/ UpdateFacet(k) \/ MarkDeleting(k)
                  \/ DeleteFacet(k)

HandlerStep(k) == DeliverEvent(k) \/ HandlerRemove(k) \/ HandlerEnqueue(k)

PolicyStep == DeliverPolicy \/ PolicyRemoveAll \/ PolicyRequest

AttemptStep(k) ==
    \/ Begin(k) \/ Get(k) \/ GetFails(k)
    \/ ObserveDeleting(k) \/ RemoveRoutes(k) \/ MarkAbsent(k)
    \/ Acquire(k)
    \/ StageInterrupted(k) \/ StageTimesOut(k)
    \/ Validate(k) \/ LoadPolicy(k) \/ Replace(k)
    \/ Install(k) \/ InstallStale(k) \/ WatchReady(k) \/ WaitFails(k)
    \/ Evaluate(k) \/ Compose(k)
    \/ PublishRead(k) \/ PublishSkips(k) \/ PublishDeleting(k)
    \/ PublishFails(k) \/ PublishCompare(k) \/ PublishWrite(k)

Next ==
    \/ \E k \in Keys : \/ ClusterStep(k) \/ HandlerStep(k) \/ AttemptStep(k)
                       \/ QueueTrigger(k) \/ LapseTrigger(k) \/ RouteEvent(k)
                       \/ Expire(k)
    \/ ChangePolicy \/ ChangeSource \/ PolicyStep \/ SafetyTick \/ Restart

(* The goroutines run, the informers deliver, the ingress hands over what   *)
(* it owes and the safety ticker ticks.  Users and faults promise nothing.  *)
Fairness ==
    /\ \A k \in Keys : /\ WF_vars(HandlerStep(k)) /\ WF_vars(AttemptStep(k))
                       /\ WF_vars(QueueTrigger(k)) /\ WF_vars(RouteEvent(k))
    /\ WF_vars(PolicyStep)
    /\ WF_vars(SafetyTick)

Spec == Init /\ [][Next]_vars

FairSpec == Spec /\ Fairness

----------------------------------------------------------------------------
(* Nothing is under way for k: no event undelivered, none being handled, no *)
(* trigger accepted or queued, no attempt, and no attempt lost to a deadline. *)
Quiet(k) ==
    /\ observed[k] = Len(history[k]) /\ handler[k] = "idle"
    /\ policySeen = policy /\ policyPC = "idle"
    /\ k \notin notify \cup owed \cup queue \cup missed
    /\ attempt[k].pc = "idle"

Fresh(k) ==
    [gen |-> Stored(k).gen, policy |-> policy,
     source |-> IF policy \in Denying THEN 0 ELSE source, outcome |-> "result"]

(* The controller only rests when it is done: with nothing under way for a   *)
(* live Facet its status was computed from its present spec, the present     *)
(* policy and the present sources, and its routes carry a current lease (or  *)
(* are gone, if the policy denies them).  Every skipped, cancelled or        *)
(* interrupted attempt therefore left a trigger behind.  The status may be   *)
(* the failure of a LIST that the server timed out, which is not retried.    *)
RestsConverged ==
    \A k \in Keys :
        Quiet(k) /\ Stored(k) # Absent /\ ~Stored(k).deleting =>
            /\ \E outcome \in {"result", "interrupted"} :
                 status[k] = [Fresh(k) EXCEPT !.outcome = outcome]
            /\ IF policy \in Denying
               THEN routes[k] = NoLease
               ELSE routes[k] # NoLease /\ IsLeaseCurrent(k, routes[k])

(* ... and with nothing under way for a Facet that is deleted or being       *)
(* deleted, it owns no route.                                                *)
RestsWithoutOrphans ==
    \A k \in Keys :
        Quiet(k) /\ (Stored(k) = Absent \/ Stored(k).deleting)
            => routes[k] = NoLease

(* A policy change revokes every route: once RemoveAll has run, no binding   *)
(* of an earlier epoch is left or can still be installed by an attempt that  *)
(* was under way.                                                            *)
RoutesOfCurrentEpoch ==
    policyPC # "remove" =>
        \A k \in Keys : routes[k] # NoLease => routes[k].epoch = epoch

(* A gate and a release are enough for one lease per key: an attempt never   *)
(* finds the lease of an earlier one still active.                           *)
LeaseIsFree ==
    \A k \in Keys : attempt[k].lease = NoLease => tracked[k].active = NoLease

(* The status never goes back: a write carries the generation of the object  *)
(* it replaces the status of, and a result never replaces one made with a    *)
(* later policy or later sources for the same generation.                    *)
StatusAdvances ==
    [][\A k \in Keys : status'[k] # status[k] /\ history'[k] = history[k] =>
        /\ status'[k].gen = Stored(k).gen
        /\ status[k].gen = status'[k].gen /\ status'[k].outcome = "result"
              => /\ status'[k].policy >= status[k].policy
                 /\ status[k].policy = status'[k].policy
                       => status'[k].source >= status[k].source]_vars

(* Once users and faults stop, every live Facet within budget comes to show  *)
(* its fresh status and keeps it, through the safety ticks that follow.      *)
Converges ==
    \A k \in Keys :
        <>[](Stored(k) # Absent /\ ~Stored(k).deleting /\ Stored(k).valid
                => status[k] = Fresh(k))

(* An evaluation that times out is retried: no attempt with a current lease  *)
(* is given up for its deadline without a trigger left behind.               *)
TimeoutsAreRetried == \A k \in missed : k \in owed \cup queue

(* A LIST that the API server times out is retried: with a published failure *)
(* of that kind, the Facet has an attempt under way or a trigger.            *)
ListTimeoutsAreRetried ==
    \A k \in Keys : status[k].outcome = "interrupted" =>
        attempt[k].pc # "idle" \/ k \in owed \cup queue
============================================================================
