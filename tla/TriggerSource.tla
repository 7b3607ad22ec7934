--------------------------- MODULE TriggerSource ---------------------------
(***************************************************************************)
(* The bounded trigger ingress of the reconciliation controller            *)
(* (internal/reconciliation/trigger.go).  Event handlers and watch         *)
(* supervisors hand in identity-only triggers (Enqueue); one goroutine     *)
(* drains them to the controller's work queue (drainPending).  When the    *)
(* pending set is full a trigger is dropped and an overload intent kept,   *)
(* which the drainer turns into an enqueue-all request.  Enqueue-all       *)
(* requests (policy changes, the safety ticker, startup, overload) are     *)
(* served by at most one worker that lists every Facet and retries a       *)
(* failed list after a backoff.                                            *)
(*                                                                         *)
(* Each critical section of s.mu is one action; what the code does outside *)
(* the lock is a separate action.  The order in which one batch of keys is *)
(* added to the queue is left open (the code sorts it).  The queue itself  *)
(* is write-only here: queue.Add(k) is the step that takes k out of owed.  *)
(***************************************************************************)
EXTENDS Naturals, FiniteSets

CONSTANTS
    Keys,       \* the namespaced names a Facet can have
    Capacity,   \* pendingCapacity
    Callers     \* the goroutines that request an enqueue-all from outside

ASSUME KeysAssumption == IsFiniteSet(Keys)
ASSUME CapacityAssumption == Capacity \in Nat \ {0}
ASSUME CallersAssumption == Callers \cap {"startup", "drainer"} = {}

(* The callers of RequestEnqueueAll: Start itself, the drainer on overload, *)
(* and the goroutines of the policy handler and the safety ticker.          *)
Requesters == Callers \cup {"startup", "drainer"}

VARIABLES
    facets,      \* the Facets the API server holds, which a direct List returns
    started,     \* s.started
    startup,     \* where Start is: "idle", "launch", "request", "again", "done"
    preRequest,  \* Start's local copy of s.requested
    pending,     \* s.pending
    wake,        \* whether the one-slot channel s.wake holds a token
    overloaded,  \* s.overloaded
    requested,   \* s.requested
    running,     \* s.running
    spawning,    \* callers between setting s.requested and startEnqueueWorker
    drainer,     \* drainPending: pc, its local keys and its local overloaded
    worker,      \* drainEnqueueIntents: pc and the keys it has yet to add
    stopped,     \* the controller context is cancelled
    owed         \* ghost: the Facets triggered, one by one or by an enqueue-all
                 \* request, since they were last put on the queue

vars == <<facets, started, startup, preRequest, pending, wake, overloaded,
          requested, running, spawning, drainer, worker, stopped, owed>>

starting == <<started, startup, preRequest>>
ingress  == <<pending, wake, overloaded>>

TypeOK ==
    /\ facets \in SUBSET Keys
    /\ started \in BOOLEAN
    /\ startup \in {"idle", "launch", "request", "again", "done"}
    /\ preRequest \in BOOLEAN
    /\ pending \in SUBSET Keys /\ Cardinality(pending) <= Capacity
    /\ wake \in BOOLEAN
    /\ overloaded \in BOOLEAN
    /\ requested \in BOOLEAN
    /\ running \in BOOLEAN
    /\ spawning \in SUBSET Requesters
    /\ drainer \in [pc : {"off", "wait", "lock", "add", "exit"},
                    keys : SUBSET Keys, recover : BOOLEAN]
    /\ worker \in [pc : {"off", "check", "list", "add", "backoff"},
                   keys : SUBSET Keys]
    /\ stopped \in BOOLEAN
    /\ owed \in SUBSET Keys

Init ==
    /\ facets = {}
    /\ started = FALSE
    /\ startup = "idle"
    /\ preRequest = FALSE
    /\ pending = {}
    /\ wake = FALSE
    /\ overloaded = FALSE
    /\ requested = FALSE
    /\ running = FALSE
    /\ spawning = {}
    /\ drainer = [pc |-> "off", keys |-> {}, recover |-> FALSE]
    /\ worker = [pc |-> "off", keys |-> {}]
    /\ stopped = FALSE
    /\ owed = {}

----------------------------------------------------------------------------
(* The environment: the API server, the queue's consumer and shutdown.      *)

FacetCreated(k) ==
    /\ k \notin facets
    /\ facets' = facets \cup {k}
    /\ UNCHANGED <<starting, ingress, requested, running, spawning, drainer,
                   worker, stopped, owed>>

(* A trigger is owed to the Facet it was raised for and lapses with it. *)
FacetDeleted(k) ==
    /\ k \in facets
    /\ facets' = facets \ {k}
    /\ owed' = owed \ {k}
    /\ UNCHANGED <<starting, ingress, requested, running, spawning, drainer,
                   worker, stopped>>

Stop ==
    /\ ~stopped
    /\ stopped' = TRUE
    /\ UNCHANGED <<facets, starting, ingress, requested, running, spawning,
                   drainer, worker, owed>>

----------------------------------------------------------------------------
(* Enqueue: coalesce, or record overload, or add; the last two signal.     *)

signalWakeLocked == wake' = TRUE

(* Mutant: the pending set takes one more key than its capacity. *)
AcceptOneMore(k) ==
    \/ k \in pending /\ UNCHANGED ingress
    \/ /\ k \notin pending
       /\ Cardinality(pending) > Capacity
       /\ overloaded' = TRUE
       /\ signalWakeLocked
       /\ UNCHANGED pending
    \/ /\ k \notin pending
       /\ Cardinality(pending) <= Capacity
       /\ pending' = pending \cup {k}
       /\ signalWakeLocked
       /\ UNCHANGED overloaded

AcceptTrigger(k) ==
    \/ /\ k \in pending
       /\ UNCHANGED ingress
    \/ /\ k \notin pending
       /\ Cardinality(pending) >= Capacity
       /\ overloaded' = TRUE
       /\ signalWakeLocked
       /\ UNCHANGED pending
    \/ /\ k \notin pending
       /\ Cardinality(pending) < Capacity
       /\ pending' = pending \cup {k}
       /\ signalWakeLocked
       /\ UNCHANGED overloaded

Enqueue(k) ==
    /\ AcceptTrigger(k)
    /\ owed' = owed \cup ({k} \cap facets)
    /\ UNCHANGED <<facets, starting, requested, running, spawning, drainer,
                   worker, stopped>>

----------------------------------------------------------------------------
(* RequestEnqueueAll is two critical sections: set the intent, then start  *)
(* the worker unless one runs.                                             *)

SetIntent(r) ==
    /\ r \notin spawning
    /\ requested' = TRUE
    /\ spawning' = IF started THEN spawning \cup {r} ELSE spawning
    /\ owed' = owed \cup facets

(* Mutant: no worker is started while an overload is recorded. *)
startWorkerOnce ==
    IF ~started \/ running \/ overloaded
    THEN UNCHANGED <<running, worker>>
    ELSE /\ running' = TRUE
         /\ worker' = [pc |-> "check", keys |-> {}]

startEnqueueWorker ==
    IF ~started \/ running
    THEN UNCHANGED <<running, worker>>
    ELSE /\ running' = TRUE
         /\ worker' = [pc |-> "check", keys |-> {}]

(* The policy handler, or a tick of schedule. *)
RequestEnqueueAll(r) ==
    /\ SetIntent(r)
    /\ UNCHANGED <<facets, starting, ingress, running, drainer, worker, stopped>>

SpawnWorker(r) ==
    /\ r \in spawning
    /\ startEnqueueWorker
    /\ spawning' = spawning \ {r}
    /\ UNCHANGED <<facets, starting, ingress, requested, drainer, stopped, owed>>

----------------------------------------------------------------------------
(* Start: mark started, launch the goroutines, request an enqueue-all, and *)
(* start the worker once more when an intent preceded it.  The refusals    *)
(* (nothing to watch with, or a second start) end the whole manager and    *)
(* are left out: setup wires every part and starts the source once.        *)

Start ==
    /\ ~started
    /\ started' = TRUE
    /\ preRequest' = requested
    /\ startup' = "launch"
    /\ UNCHANGED <<facets, ingress, requested, running, spawning, drainer,
                   worker, stopped, owed>>

StartGoroutines ==
    /\ startup = "launch"
    /\ startup' = "request"
    /\ drainer' = [drainer EXCEPT !.pc = "wait"]
    /\ UNCHANGED <<facets, started, preRequest, ingress, requested, running,
                   spawning, worker, stopped, owed>>

StartRequest ==
    /\ startup = "request"
    /\ SetIntent("startup")
    /\ startup' = "again"
    /\ UNCHANGED <<facets, started, preRequest, ingress, running, drainer,
                   worker, stopped>>

StartAgain ==
    /\ startup = "again"
    /\ "startup" \notin spawning
    /\ IF preRequest THEN startEnqueueWorker ELSE UNCHANGED <<running, worker>>
    /\ startup' = "done"
    /\ UNCHANGED <<facets, started, preRequest, ingress, requested, spawning,
                   drainer, stopped, owed>>

----------------------------------------------------------------------------
(* drainPending *)

(* The drainer itself runs startEnqueueWorker (SpawnWorker) before it waits. *)
DrainWake ==
    /\ drainer.pc = "wait"
    /\ "drainer" \notin spawning
    /\ wake
    /\ wake' = FALSE
    /\ drainer' = [drainer EXCEPT !.pc = "lock"]
    /\ UNCHANGED <<facets, starting, pending, overloaded, requested, running,
                   spawning, worker, stopped, owed>>

(* Mutant: the taken overload flag is cleared but not remembered. *)
DrainTakeForgetsOverload ==
    /\ drainer.pc = "lock"
    /\ drainer' = [pc |-> "add", keys |-> pending, recover |-> FALSE]
    /\ pending' = {}
    /\ overloaded' = FALSE
    /\ UNCHANGED <<facets, starting, wake, requested, running, spawning,
                   worker, stopped, owed>>

DrainTake ==
    /\ drainer.pc = "lock"
    /\ drainer' = [pc |-> "add", keys |-> pending, recover |-> overloaded]
    /\ pending' = {}
    /\ overloaded' = FALSE
    /\ UNCHANGED <<facets, starting, wake, requested, running, spawning,
                   worker, stopped, owed>>

DrainAdd(k) ==
    /\ drainer.pc = "add"
    /\ k \in drainer.keys
    /\ owed' = owed \ {k}
    /\ drainer' = [drainer EXCEPT !.keys = @ \ {k}]
    /\ UNCHANGED <<facets, starting, ingress, requested, running, spawning,
                   worker, stopped>>

(* Mutant: the drainer empties the wake channel once its batch is added. *)
DrainDoneDropsToken ==
    /\ drainer.pc = "add"
    /\ drainer.keys = {}
    /\ IF drainer.recover
       THEN SetIntent("drainer")
       ELSE UNCHANGED <<requested, spawning, owed>>
    /\ drainer' = [drainer EXCEPT !.pc = "wait", !.recover = FALSE]
    /\ wake' = FALSE
    /\ UNCHANGED <<facets, starting, pending, overloaded, running, worker,
                   stopped>>

(* Mutant: an overload is left to the enqueue-all that runs already. *)
DrainDoneTrustsWorker ==
    /\ drainer.pc = "add"
    /\ drainer.keys = {}
    /\ IF drainer.recover /\ ~running
       THEN SetIntent("drainer")
       ELSE UNCHANGED <<requested, spawning, owed>>
    /\ drainer' = [drainer EXCEPT !.pc = "wait", !.recover = FALSE]
    /\ UNCHANGED <<facets, starting, ingress, running, worker, stopped>>

DrainDone ==
    /\ drainer.pc = "add"
    /\ drainer.keys = {}
    /\ IF drainer.recover
       THEN SetIntent("drainer")
       ELSE UNCHANGED <<requested, spawning, owed>>
    /\ drainer' = [drainer EXCEPT !.pc = "wait", !.recover = FALSE]
    /\ UNCHANGED <<facets, starting, ingress, running, worker, stopped>>

DrainExit ==
    /\ drainer.pc = "wait"
    /\ "drainer" \notin spawning
    /\ stopped
    /\ drainer' = [drainer EXCEPT !.pc = "exit"]
    /\ UNCHANGED <<facets, starting, ingress, requested, running, spawning,
                   worker, stopped, owed>>

----------------------------------------------------------------------------
(* drainEnqueueIntents *)

WorkerCheck ==
    /\ worker.pc = "check"
    /\ IF requested
       THEN /\ requested' = FALSE
            /\ worker' = [worker EXCEPT !.pc = "list"]
            /\ UNCHANGED running
       ELSE /\ running' = FALSE
            /\ worker' = [worker EXCEPT !.pc = "off"]
            /\ UNCHANGED requested
    /\ UNCHANGED <<facets, starting, ingress, spawning, drainer, stopped, owed>>

WorkerList ==
    /\ worker.pc = "list"
    /\ worker' = [pc |-> "add", keys |-> facets]
    /\ UNCHANGED <<facets, starting, ingress, requested, running, spawning,
                   drainer, stopped, owed>>

WorkerAdd(k) ==
    /\ worker.pc = "add"
    /\ k \in worker.keys
    /\ owed' = owed \ {k}
    /\ worker' = [worker EXCEPT !.keys = @ \ {k}]
    /\ UNCHANGED <<facets, starting, ingress, requested, running, spawning,
                   drainer, stopped>>

WorkerListed ==
    /\ worker.pc = "add"
    /\ worker.keys = {}
    /\ worker' = [worker EXCEPT !.pc = "check"]
    /\ UNCHANGED <<facets, starting, ingress, requested, running, spawning,
                   drainer, stopped, owed>>

(* A failed List ends the worker after shutdown and backs off before. *)
WorkerListFails ==
    /\ worker.pc = "list"
    /\ IF stopped
       THEN running' = FALSE /\ worker' = [worker EXCEPT !.pc = "off"]
       ELSE worker' = [worker EXCEPT !.pc = "backoff"] /\ UNCHANGED running
    /\ UNCHANGED <<facets, starting, ingress, requested, spawning, drainer,
                   stopped, owed>>

(* Mutant: the intent consumed by a failed list is not restored. *)
WorkerRetryForgets ==
    /\ worker.pc = "backoff"
    /\ worker' = [worker EXCEPT !.pc = "check"]
    /\ UNCHANGED <<facets, starting, ingress, requested, running, spawning,
                   drainer, stopped, owed>>

WorkerRetry ==
    /\ worker.pc = "backoff"
    /\ requested' = TRUE
    /\ worker' = [worker EXCEPT !.pc = "check"]
    /\ UNCHANGED <<facets, starting, ingress, running, spawning, drainer,
                   stopped, owed>>

WorkerCancelled ==
    /\ worker.pc = "backoff"
    /\ stopped
    /\ running' = FALSE
    /\ worker' = [worker EXCEPT !.pc = "off"]
    /\ UNCHANGED <<facets, starting, ingress, requested, spawning, drainer,
                   stopped, owed>>

----------------------------------------------------------------------------
StartStep == Start \/ StartGoroutines \/ StartRequest \/ StartAgain
DrainStep == DrainWake \/ DrainTake \/ DrainDone \/ DrainExit
WorkerStep == WorkerCheck \/ WorkerList \/ WorkerListed \/ WorkerListFails
              \/ WorkerRetry \/ WorkerCancelled

Next ==
    \/ \E k \in Keys : \/ FacetCreated(k) \/ FacetDeleted(k)
                       \/ Enqueue(k) \/ DrainAdd(k) \/ WorkerAdd(k)
    \/ \E r \in Callers : RequestEnqueueAll(r)
    \/ \E r \in Requesters : SpawnWorker(r)
    \/ Stop
    \/ StartStep
    \/ DrainStep
    \/ WorkerStep

(* The Go scheduler runs every goroutine that can run, and the manager     *)
(* starts the source.  WorkerList is strongly fair: the API server does    *)
(* not fail the list for ever.                                             *)
Fairness ==
    /\ WF_vars(StartStep)
    /\ WF_vars(DrainStep)
    /\ \A k \in Keys : WF_vars(DrainAdd(k)) /\ WF_vars(WorkerAdd(k))
    /\ \A r \in Requesters : WF_vars(SpawnWorker(r))
    /\ WF_vars(WorkerStep)
    /\ SF_vars(WorkerList)

Spec == Init /\ [][Next]_vars

FairSpec == Spec /\ Fairness

----------------------------------------------------------------------------
(* Where the debt to a key can be carried: in the pending set, in the      *)
(* drainer's hands, or in an enqueue-all that has yet to list it or add it. *)
Carried(k) ==
    \/ k \in pending
    \/ overloaded
    \/ drainer.pc = "add" /\ (k \in drainer.keys \/ drainer.recover)
    \/ requested
    \/ worker.pc \in {"list", "backoff"}
    \/ worker.pc = "add" /\ k \in worker.keys

(* No trigger is ever lost while the controller runs: a Facet triggered by   *)
(* Enqueue or by RequestEnqueueAll and not queued since is still carried by  *)
(* drainPending or drainEnqueueIntents, overload, failed lists and           *)
(* coalescing notwithstanding.                                               *)
NoTriggerLost == ~stopped => \A k \in owed : Carried(k)

(* The ingress keeps the promise of TriggerDelivery: a Facet that anything   *)
(* in Enqueue, drainPending or drainEnqueueIntents carries leaves them only  *)
(* through queue.Add, by deletion or after shutdown, and a trigger makes     *)
(* them carry its Facet.                                                     *)
Delivery == INSTANCE TriggerDelivery WITH carried <- {k \in facets : Carried(k)}

ImplementsDelivery == Delivery!Spec

(* No lost wake-up: whatever Enqueue leaves behind, the wake channel holds a *)
(* token or drainPending has just taken it and is about to look.             *)
IngressAwake ==
    (pending # {} \/ overloaded) /\ drainer.pc # "exit"
        => wake \/ drainer.pc = "lock"

(* An enqueue-all intent always has somebody left to serve it: the worker,   *)
(* a caller about to run startEnqueueWorker, or Start.                       *)
IntentServed ==
    requested /\ started /\ ~stopped =>
        \/ running
        \/ spawning # {}
        \/ startup \in {"launch", "request"}

(* Every trigger reaches the work queue unless the controller stops or the  *)
(* Facet is deleted first.                                                   *)
TriggersDelivered == \A k \in Keys : k \in owed ~> (k \notin owed \/ stopped)
============================================================================
