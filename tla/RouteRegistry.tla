--------------------------- MODULE RouteRegistry ---------------------------
(***************************************************************************)
(* The route registry and its watch supervisors                             *)
(* (internal/reconciliation/routes.go).  Owners (Facets) bind watch         *)
(* addresses under a freshness lease; an address that is bound has at most  *)
(* one registered supervisor, at most Capacity addresses have one, and a    *)
(* supervisor's goroutine keeps a metadata WATCH open and triggers the      *)
(* owners of its address.                                                   *)
(*                                                                          *)
(* Each critical section of r.mu is one action.  The stop() and start calls *)
(* a section leaves to its caller are made outside the lock: they wait in   *)
(* stopping and starting, and any goroutine may run in between.  The two    *)
(* indexes byOwner and byTarget hold the same bindings and are one variable *)
(* here; a source is identified with its address.  The registry is started  *)
(* before the first Reconcile, so r.started is true throughout.  The        *)
(* freshness tracker is a generation per owner and the policy epoch.        *)
(***************************************************************************)
EXTENDS Naturals, FiniteSets, Functions

CONSTANTS
    Owners,         \* Facet keys
    Addresses,      \* watch addresses: numbers, in the order of watchAddressLess
    Capacity,       \* maxActiveWatches
    Selections,     \* the sets of addresses a Facet's sources may resolve to
    Slots,          \* bound: supervisors alive or referred to at one time
    MaxGeneration,  \* bound: generations of a Facet
    MaxEpoch,       \* bound: policy changes
    MaxLifecycle,   \* bound: lifecycle events handled and deletions read
    MaxChanges,     \* bound: changes of the observed resources
    MaxFailures,    \* bound: failed or ended WATCHes, expired deadlines
    MaxDisturbances \* bound: policy changes, lifecycle events, failures together

ASSUME RegistryAssumption ==
    /\ Addresses \subseteq Nat /\ Addresses # {} /\ IsFiniteSet(Addresses)
    /\ Selections \subseteq SUBSET Addresses
    /\ Slots \subseteq Nat \ {0} /\ IsFiniteSet(Slots)
    /\ Capacity \in Nat \ {0}
    /\ MaxGeneration \in Nat \ {0}
    /\ {MaxEpoch, MaxLifecycle, MaxChanges, MaxFailures,
        MaxDisturbances} \subseteq Nat

VARIABLES
    current,    \* current[o]: the generation tracked for o, 0 when it is absent
    epoch,      \* FreshnessTracker.epoch
    bindings,   \* byOwner, byTarget: the lease and the addresses of an owner
    watches,    \* r.watches: the supervisor registered for an address, or 0
    deferred,   \* r.deferred
    sup,        \* sup[i]: a watchSupervisor and its goroutine
    stopping,   \* supervisors a critical section has left to stop()
    starting,   \* supervisors a critical section has left to startSupervisor
    caller,     \* caller[o]: the Reconcile call of o, in Replace and after
    removing,   \* owners the lifecycle handler is about to RemoveOwner
    revoking,   \* the policy handler is about to RemoveAll
    owed,       \* owners triggered and not yet reconciled
    unread,     \* ghost: <<o, a>> where a changed since o last read it
    lifecycle, changes, failures     \* see the bounds

tracker  == <<current, epoch>>
registry == <<bindings, watches, deferred>>
calls    == <<removing, revoking>>
counts   == <<lifecycle, changes, failures>>

vars == <<tracker, registry, sup, stopping, starting, caller, calls, owed,
          unread, counts>>

----------------------------------------------------------------------------
Lease == [gen : 0 .. MaxGeneration, epoch : 0 .. MaxEpoch]

NoLease == [gen |-> 0, epoch |-> 0]

Unbound == [lease |-> NoLease, addrs |-> {}]

(* The goroutine of a supervisor (run):                                     *)
(*   off      not started              permit   about to call currentPermit *)
(*   watch    in watcher.Watch         opened   has a stream, not yet vetted *)
(*   recover  about to tell its owners stream   in consume                  *)
(*   report   has failed               recheck  about to renew its permit   *)
(*   backoff  waiting                  dead     returned                    *)
Supervisor == [addr : Addresses,
               pc : {"off", "permit", "watch", "opened", "recover", "stream",
                     "report", "recheck", "backoff", "dead"},
               cancelled : BOOLEAN,  \* stop() has cancelled its context
               first : BOOLEAN,      \* firstAttempt: ready is still open
               recovery : BOOLEAN,   \* recoveryPending
               timedOut : BOOLEAN,   \* the establishment timer has fired
               event : BOOLEAN]      \* an event waits in the stream

Caller == [pc : {"idle", "remove", "absent", "replace", "start", "wait"},
           lease : Lease, todo : SUBSET Slots]

Resting == [pc |-> "idle", lease |-> NoLease, todo |-> {}]

TypeOK ==
    /\ current \in [Owners -> 0 .. MaxGeneration]
    /\ epoch \in 0 .. MaxEpoch
    /\ bindings \in [Owners -> [lease : Lease, addrs : SUBSET Addresses]]
    /\ watches \in [Addresses -> Slots \cup {0}]
    /\ deferred \in SUBSET Addresses
    /\ sup \in [Slots -> Supervisor]
    /\ stopping \in SUBSET Slots /\ starting \in SUBSET Slots
    /\ caller \in [Owners -> Caller]
    /\ removing \in SUBSET Owners /\ revoking \in BOOLEAN
    /\ owed \in SUBSET Owners
    /\ unread \in SUBSET (Owners \X Addresses)
    /\ lifecycle \in 0 .. MaxLifecycle
    /\ changes \in 0 .. MaxChanges /\ failures \in 0 .. MaxFailures

(* Mutant: a supervisor for a deferred address starts without recovery. *)
NewSupervisorFresh(a, recovery) ==
    [addr |-> a, pc |-> "off", cancelled |-> FALSE, first |-> FALSE,
     recovery |-> FALSE, timedOut |-> FALSE, event |-> FALSE]

NewSupervisor(a, recovery) ==
    [addr |-> a, pc |-> "off", cancelled |-> FALSE, first |-> FALSE,
     recovery |-> recovery, timedOut |-> FALSE, event |-> FALSE]

Init ==
    /\ current = [o \in Owners |-> 1]
    /\ epoch = 0
    /\ bindings = [o \in Owners |-> Unbound]
    /\ watches = [a \in Addresses |-> 0]
    /\ deferred = {}
    /\ sup = [i \in Slots |-> NewSupervisor(CHOOSE a \in Addresses : TRUE, FALSE)]
    /\ stopping = {} /\ starting = {}
    /\ caller = [o \in Owners |-> Resting]
    /\ removing = {} /\ revoking = FALSE
    /\ owed = Owners
    /\ unread = {}
    /\ lifecycle = 0 /\ changes = 0 /\ failures = 0

(* There is room for one more policy change, lifecycle event or failure. *)
Undisturbed == epoch + lifecycle + failures < MaxDisturbances

Fail == failures < MaxFailures /\ Undisturbed /\ failures' = failures + 1

(* FreshnessTracker.IsCurrent, IsLeaseCurrent *)
IsCurrent(o, lease) == lease = [gen |-> current[o], epoch |-> epoch]
                       /\ current[o] # 0

----------------------------------------------------------------------------
(* Critical sections.  Bindings are taken out (kept is what remains), then  *)
(* put in (new), then free capacity is offered (ensureWatchCapacityLocked). *)

BoundIn(b) == UNION {b[o].addrs : o \in Owners}

Registered == {watches[a] : a \in Addresses} \ {0}

(* A supervisor nobody refers to any more; its slot may be used again. *)
FreeSlots ==
    {i \in Slots \ (Registered \cup stopping \cup starting) :
        /\ sup[i].pc \in {"off", "dead"}
        /\ \A o \in Owners : i \notin caller[o].todo}

(* removeBindingLocked: the last binding of an address takes its supervisor *)
(* with it.                                                                 *)
WatchesKept(kept) ==
    [a \in Addresses |-> IF a \in BoundIn(kept) THEN watches[a] ELSE 0]

(* ... and its deferral.  What RemoveAll has left in r.deferred stays.      *)
StillDeferred(kept) == deferred \ (BoundIn(bindings) \ BoundIn(kept))

(* Mutant: the capacity is compared once too often. *)
PromotedOneMore(kept, new) ==
    LET w == WatchesKept(kept)
        lacking == {a \in BoundIn(new) : w[a] = 0}
        taken == Cardinality({a \in Addresses : w[a] # 0})
    IN  {a \in lacking : Cardinality({b \in lacking : b < a}) + taken <= Capacity}

(* ensureWatchCapacityLocked: the lowest addresses without a supervisor. *)
Promoted(kept, new) ==
    LET w == WatchesKept(kept)
        lacking == {a \in BoundIn(new) : w[a] = 0}
        taken == Cardinality({a \in Addresses : w[a] # 0})
    IN  {a \in lacking : Cardinality({b \in lacking : b < a}) + taken < Capacity}

(* Each promoted address takes a free slot of its own. *)
SlotChoices(kept, new) == Injection(Promoted(kept, new), FreeSlots)

SlotsSuffice(kept, new) == SlotChoices(kept, new) # {}

NewSlots(kept, new) == CHOOSE slot \in SlotChoices(kept, new) : TRUE

(* The section as a whole: slot says which supervisors are new, own is sup  *)
(* with the caller's own step done.                                         *)
Section(kept, new, slot, own) ==
    LET w == WatchesKept(kept)
    IN  /\ bindings' = new
        /\ watches' = [a \in Addresses |->
             IF a \in DOMAIN slot THEN slot[a] ELSE w[a]]
        /\ sup' = [i \in Slots |->
             IF \E a \in DOMAIN slot : slot[a] = i
             THEN LET a == CHOOSE a \in DOMAIN slot : slot[a] = i
                  IN  NewSupervisor(a, a \in StillDeferred(kept))
             ELSE own[i]]
        /\ stopping' = stopping \cup (Registered \ {w[a] : a \in Addresses})
        /\ unread' = {p \in unread : p[2] \in new[p[1]].addrs}

(* ... followed by the caller's starting what was promoted. *)
RemovalSection(kept, own) ==
    LET slot == NewSlots(kept, kept)
    IN  /\ SlotsSuffice(kept, kept)
        /\ Section(kept, kept, slot, own)
        /\ deferred' = StillDeferred(kept) \ DOMAIN slot
        /\ starting' = starting \cup {slot[a] : a \in DOMAIN slot}

(* pruneStaleLocked *)
Pruned(a) ==
    [o \in Owners |->
        IF a \in bindings[o].addrs /\ ~IsCurrent(o, bindings[o].lease)
        THEN [bindings[o] EXCEPT !.addrs = @ \ {a}]
        ELSE bindings[o]]

Without(o) == [bindings EXCEPT ![o] = Unbound]

OwnersOf(b, a) == {o \in Owners : a \in b[o].addrs}

----------------------------------------------------------------------------
(* The tracker and the observed resources. *)

(* A lifecycle event: Observe, or ObserveDelete with RemoveOwner to follow. *)
ObserveFacet(o) ==
    /\ lifecycle < MaxLifecycle /\ Undisturbed
    /\ lifecycle' = lifecycle + 1
    /\ \E gen \in 0 .. MaxGeneration :
         /\ gen # current[o]
         /\ current' = [current EXCEPT ![o] = gen]
         /\ removing' = IF gen = 0 THEN removing \cup {o} ELSE removing
         /\ owed' = IF gen = 0 THEN owed ELSE owed \cup {o}
    /\ UNCHANGED <<epoch, registry, sup, stopping, starting, caller, revoking,
                   unread, changes, failures>>

(* Mutant: the epoch is advanced twice for one policy event. *)
InvalidateTwice ==
    /\ epoch < MaxEpoch /\ Undisturbed /\ ~revoking
    /\ epoch' = epoch + 2
    /\ revoking' = TRUE
    /\ UNCHANGED <<current, registry, sup, stopping, starting, caller, removing,
                   owed, unread, counts>>

InvalidateAll ==
    /\ epoch < MaxEpoch /\ Undisturbed /\ ~revoking
    /\ epoch' = epoch + 1
    /\ revoking' = TRUE
    /\ UNCHANGED <<current, registry, sup, stopping, starting, caller, removing,
                   owed, unread, counts>>

(* Only a stream that is open carries the event. *)
ChangeSource(a) ==
    /\ changes < MaxChanges
    /\ changes' = changes + 1
    /\ unread' = unread \cup {<<o, a>> : o \in OwnersOf(bindings, a)}
    /\ sup' = [i \in Slots |->
         IF sup[i].addr = a /\ sup[i].pc \in {"opened", "recover", "stream"}
         THEN [sup[i] EXCEPT !.event = TRUE] ELSE sup[i]]
    /\ UNCHANGED <<tracker, registry, stopping, starting, caller, calls, owed,
                   lifecycle, failures>>

----------------------------------------------------------------------------
(* RemoveOwner and RemoveAll, from the event handlers, with the Enqueue or   *)
(* RequestEnqueueAll that follows the critical section.                      *)

RemoveOwner(o) ==
    /\ o \in removing
    /\ RemovalSection(Without(o), sup)
    /\ removing' = removing \ {o}
    /\ owed' = owed \cup {o}
    /\ UNCHANGED <<tracker, caller, revoking, counts>>

(* Mutant: the supervisors are dropped and not stopped. *)
RemoveAllUnstopped ==
    /\ revoking
    /\ revoking' = FALSE
    /\ bindings' = [o \in Owners |-> Unbound]
    /\ watches' = [a \in Addresses |-> 0]
    /\ unread' = {}
    /\ owed' = Owners
    /\ UNCHANGED <<tracker, deferred, sup, stopping, starting, caller, removing,
                   counts>>

(* RemoveAll keeps r.deferred; RequestEnqueueAll follows it. *)
RemoveAll ==
    /\ revoking
    /\ revoking' = FALSE
    /\ bindings' = [o \in Owners |-> Unbound]
    /\ watches' = [a \in Addresses |-> 0]
    /\ stopping' = stopping \cup Registered
    /\ unread' = {}
    /\ owed' = Owners
    /\ UNCHANGED <<tracker, deferred, sup, starting, caller, removing, counts>>

----------------------------------------------------------------------------
(* Reconcile: Acquire, Replace, the reading of the sources. *)

Begin(o) ==
    /\ o \in owed /\ caller[o].pc = "idle"
    /\ owed' = owed \ {o}
    /\ \/ /\ caller' = [caller EXCEPT ![o].pc = "remove"]
          /\ UNCHANGED current
          /\ lifecycle < MaxLifecycle /\ Undisturbed /\ lifecycle' = lifecycle + 1
       \/ \E gen \in 1 .. MaxGeneration :
            /\ UNCHANGED lifecycle
            /\ current' = [current EXCEPT ![o] = gen]
            /\ caller' = [caller EXCEPT
                 ![o].pc = "replace",
                 ![o].lease = [gen |-> gen, epoch |-> epoch]]
    /\ UNCHANGED <<epoch, registry, sup, stopping, starting, calls, unread,
                   changes, failures>>

(* The Facet is gone: RemoveOwner, then MarkAbsent. *)
RemoveGone(o) ==
    /\ caller[o].pc = "remove"
    /\ RemovalSection(Without(o), sup)
    /\ caller' = [caller EXCEPT ![o] = [Resting EXCEPT !.pc = "absent"]]
    /\ UNCHANGED <<tracker, calls, owed, counts>>

MarkAbsent(o) ==
    /\ caller[o].pc = "absent"
    /\ current' = [current EXCEPT ![o] = 0]
    /\ caller' = [caller EXCEPT ![o] = Resting]
    /\ UNCHANGED <<epoch, registry, sup, stopping, starting, calls, owed, unread,
                   counts>>

(* Replace: only a binding of the same lease and address is kept.  The      *)
(* supervisors of the owner's own addresses are started next; those that    *)
(* were promoted for other addresses are not.                               *)
Replace(o) ==
    /\ caller[o].pc = "replace"
    /\ IsCurrent(o, caller[o].lease)
    /\ \E addrs \in Selections :
         LET lease == caller[o].lease
             kept == IF bindings[o].lease = lease
                     THEN [bindings EXCEPT ![o].addrs = @ \cap addrs]
                     ELSE Without(o)
             new == [bindings EXCEPT
                       ![o] = IF addrs = {} THEN Unbound
                              ELSE [lease |-> lease, addrs |-> addrs]]
             slot == NewSlots(kept, new)
         IN  /\ SlotsSuffice(kept, new)
             /\ Section(kept, new, slot, sup)
             /\ deferred' = (StillDeferred(kept) \ DOMAIN slot)
                            \cup {a \in addrs : watches'[a] = 0}
             /\ caller' = [caller EXCEPT
                  ![o].pc = "start",
                  ![o].todo = {watches'[a] : a \in addrs} \ {0}]
    /\ UNCHANGED <<tracker, starting, calls, owed, counts>>

ReplaceStale(o) ==
    /\ caller[o].pc = "replace"
    /\ ~IsCurrent(o, caller[o].lease)
    /\ caller' = [caller EXCEPT ![o] = Resting]
    /\ UNCHANGED <<tracker, registry, sup, stopping, starting, calls, owed,
                   unread, counts>>

(* Mutant: the start does not check that the supervisor is registered. *)
StartedUnchecked(i) ==
    IF sup[i].pc = "off"
    THEN [sup EXCEPT ![i].pc = "permit", ![i].first = TRUE]
    ELSE sup

(* startWithReady, for a supervisor that is still registered. *)
Started(i) ==
    IF i \in Registered /\ sup[i].pc = "off"
    THEN [sup EXCEPT ![i].pc = "permit", ![i].first = TRUE]
    ELSE sup

(* The supervisors are started in the order of their addresses. *)
Lowest(addr) ==
    CHOOSE i \in DOMAIN addr : \A j \in DOMAIN addr : addr[i] <= addr[j]

NextToStart(o) == Lowest([i \in caller[o].todo |-> sup[i].addr])

StartAndWait(o) ==
    /\ caller[o].pc = "start" /\ caller[o].todo # {}
    /\ sup' = Started(NextToStart(o))
    /\ IF NextToStart(o) \in Registered /\ sup'[NextToStart(o)].first
       THEN caller' = [caller EXCEPT ![o].pc = "wait"]
       ELSE caller' = [caller EXCEPT ![o].todo = @ \ {NextToStart(o)}]
    /\ UNCHANGED <<tracker, registry, stopping, starting, calls, owed, unread,
                   counts>>

WatchReady(o) ==
    /\ caller[o].pc = "wait"
    /\ ~sup[NextToStart(o)].first
    /\ caller' = [caller EXCEPT ![o].pc = "start",
                                ![o].todo = @ \ {NextToStart(o)}]
    /\ UNCHANGED <<tracker, registry, sup, stopping, starting, calls, owed,
                   unread, counts>>

(* The wait ends with the caller's context, cancelled or past its deadline: *)
(* pruneStaleOwner, and a retry unless the attempt is obsolete.             *)
WaitEnds(o) ==
    /\ caller[o].pc = "wait"
    /\ IF IsCurrent(o, caller[o].lease)
       THEN Fail /\ owed' = owed \cup {o}
       ELSE UNCHANGED <<failures, owed>>
    /\ RemovalSection(IF IsCurrent(o, bindings[o].lease) THEN bindings
                      ELSE Without(o), sup)
    /\ caller' = [caller EXCEPT ![o] = Resting]
    /\ UNCHANGED <<tracker, calls, lifecycle, changes>>

(* An attempt that is still current reads every source. *)
Evaluate(o) ==
    /\ caller[o].pc = "start" /\ caller[o].todo = {}
    /\ unread' = IF IsCurrent(o, caller[o].lease)
                 THEN {p \in unread : p[1] # o} ELSE unread
    /\ caller' = [caller EXCEPT ![o] = Resting]
    /\ UNCHANGED <<tracker, registry, sup, stopping, starting, calls, owed,
                   counts>>

----------------------------------------------------------------------------
(* The calls made outside the lock. *)

OutsideCalls == <<tracker, registry, caller, calls, owed, unread, counts>>

StopSupervisor(i) ==
    /\ i \in stopping
    /\ stopping' = stopping \ {i}
    /\ sup' = [sup EXCEPT ![i].cancelled = sup[i].pc \notin {"off", "dead"},
                          ![i].first = FALSE]
    /\ UNCHANGED <<starting, OutsideCalls>>

StartSupervisor(i) ==
    /\ i \in starting
    /\ starting' = starting \ {i}
    /\ sup' = Started(i)
    /\ UNCHANGED <<stopping, OutsideCalls>>

----------------------------------------------------------------------------
(* watchSupervisor.run *)

(* Mutant: the goroutine returns without closing ready. *)
DeadSilently(i) == [sup[i] EXCEPT !.pc = "dead"]

Dead(i) == [NewSupervisor(sup[i].addr, FALSE) EXCEPT !.pc = "dead"]

Become(i, s) == [sup EXCEPT ![i] = s]

OutsideRun == <<tracker, caller, calls, lifecycle, changes>>

Unlocked == <<registry, stopping, starting, owed, unread>>

(* routeEvent: prune, then trigger the owners that remain.  Enqueue comes    *)
(* after the unlock; being only an addition to what is owed, it is the same  *)
(* a little later.                                                           *)
RouteEvent(i, s) ==
    /\ RemovalSection(Pruned(sup[i].addr), Become(i, s))
    /\ owed' = owed \cup OwnersOf(bindings', sup[i].addr)

(* The loop's head: return when cancelled or without a current binding. *)
RunPermit(i) ==
    /\ sup[i].pc = "permit"
    /\ IF sup[i].cancelled
       THEN sup' = Become(i, Dead(i)) /\ UNCHANGED Unlocked
       ELSE LET kept == Pruned(sup[i].addr)
            IN  /\ RemovalSection(kept, Become(i,
                     IF sup[i].addr \in BoundIn(kept)
                     THEN [sup[i] EXCEPT !.pc = "watch"] ELSE Dead(i)))
                /\ UNCHANGED owed
    /\ UNCHANGED <<OutsideRun, failures>>

(* The establishment timer releases the waiters and cancels the WATCH. *)
EstablishmentTimeout(i) ==
    /\ sup[i].pc = "watch" /\ ~sup[i].timedOut
    /\ Fail
    /\ sup' = Become(i, [sup[i] EXCEPT !.timedOut = TRUE, !.first = FALSE])
    /\ UNCHANGED <<OutsideRun, Unlocked>>

WatchOpens(i) ==
    /\ sup[i].pc = "watch" /\ ~sup[i].timedOut
    /\ sup' = Become(i, [sup[i] EXCEPT !.pc = "opened", !.first = FALSE])
    /\ UNCHANGED <<OutsideRun, Unlocked, failures>>

WatchFails(i) ==
    /\ sup[i].pc = "watch"
    /\ IF sup[i].timedOut \/ sup[i].cancelled THEN UNCHANGED failures ELSE Fail
    /\ sup' = Become(i, IF sup[i].cancelled THEN Dead(i)
                        ELSE [sup[i] EXCEPT !.pc = "report", !.first = FALSE,
                                            !.timedOut = FALSE,
                                            !.recovery = TRUE])
    /\ UNCHANGED <<OutsideRun, Unlocked>>

(* supervisorCurrent *)
SupervisorCurrent(i) ==
    /\ watches[sup[i].addr] = i
    /\ \E o \in OwnersOf(bindings, sup[i].addr) : IsCurrent(o, bindings[o].lease)

(* A stream nobody needs is closed and the goroutine returns; otherwise     *)
(* takeRecoveryPending.                                                     *)
RunOpened(i) ==
    /\ sup[i].pc = "opened"
    /\ sup' = Become(i,
         IF sup[i].cancelled \/ ~SupervisorCurrent(i) THEN Dead(i)
         ELSE [sup[i] EXCEPT !.pc = IF sup[i].recovery THEN "recover" ELSE "stream",
                             !.recovery = FALSE])
    /\ UNCHANGED <<OutsideRun, Unlocked, failures>>

RunRecover(i) ==
    /\ sup[i].pc = "recover"
    /\ RouteEvent(i, [sup[i] EXCEPT !.pc = "stream"])
    /\ UNCHANGED <<OutsideRun, failures>>

ConsumeEvent(i) ==
    /\ sup[i].pc = "stream" /\ sup[i].event
    /\ RouteEvent(i, [sup[i] EXCEPT !.event = FALSE])
    /\ UNCHANGED <<OutsideRun, failures>>

(* Mutant: a reconnection is taken for a continuation. *)
StreamEndsForgets(i) ==
    /\ sup[i].pc = "stream"
    /\ IF sup[i].cancelled THEN UNCHANGED failures ELSE Fail
    /\ \E pc \in {"report", "recheck"} :
         sup' = Become(i, IF sup[i].cancelled THEN Dead(i)
                          ELSE [sup[i] EXCEPT !.pc = pc, !.event = FALSE])
    /\ UNCHANGED <<OutsideRun, Unlocked>>

(* The stream closes (no error), fails, or its context is cancelled. *)
StreamEnds(i) ==
    /\ sup[i].pc = "stream"
    /\ IF sup[i].cancelled THEN UNCHANGED failures ELSE Fail
    /\ \E pc \in {"report", "recheck"} :
         sup' = Become(i, IF sup[i].cancelled THEN Dead(i)
                          ELSE [sup[i] EXCEPT !.pc = pc, !.recovery = TRUE,
                                              !.event = FALSE])
    /\ UNCHANGED <<OutsideRun, Unlocked>>

RunReport(i) ==
    /\ sup[i].pc = "report"
    /\ RouteEvent(i, [sup[i] EXCEPT !.pc = "recheck"])
    /\ UNCHANGED <<OutsideRun, failures>>

RunRecheck(i) ==
    /\ sup[i].pc = "recheck"
    /\ LET kept == Pruned(sup[i].addr)
       IN  RemovalSection(kept, Become(i,
             IF sup[i].addr \in BoundIn(kept)
             THEN [sup[i] EXCEPT !.pc = "backoff"] ELSE Dead(i)))
    /\ UNCHANGED <<OutsideRun, owed, failures>>

RunBackoff(i) ==
    /\ sup[i].pc = "backoff"
    /\ sup' = Become(i, IF sup[i].cancelled THEN Dead(i)
                        ELSE [sup[i] EXCEPT !.pc = "permit"])
    /\ UNCHANGED <<OutsideRun, Unlocked, failures>>

----------------------------------------------------------------------------
RunStep(i) ==
    \/ RunPermit(i) \/ WatchOpens(i) \/ WatchFails(i) \/ EstablishmentTimeout(i)
    \/ RunOpened(i) \/ RunRecover(i) \/ ConsumeEvent(i) \/ StreamEnds(i)
    \/ RunReport(i) \/ RunRecheck(i) \/ RunBackoff(i)

ReconcileStep(o) ==
    \/ Begin(o) \/ RemoveGone(o) \/ MarkAbsent(o) \/ Replace(o) \/ ReplaceStale(o)
    \/ StartAndWait(o) \/ WatchReady(o) \/ WaitEnds(o) \/ Evaluate(o)

Next ==
    \/ \E o \in Owners : ObserveFacet(o) \/ RemoveOwner(o) \/ ReconcileStep(o)
    \/ \E a \in Addresses : ChangeSource(a)
    \/ \E i \in Slots : StopSupervisor(i) \/ StartSupervisor(i) \/ RunStep(i)
    \/ InvalidateAll \/ RemoveAll

Spec == Init /\ [][Next]_vars

----------------------------------------------------------------------------
Alive(i) == sup[i].pc \notin {"off", "dead"}

(* The watch capacity is never exceeded and never left unused: an address    *)
(* with a binding lacks a supervisor only when all of them are taken, and    *)
(* only an address with a binding has one.                                   *)
CapacityShared ==
    LET watched == {a \in Addresses : watches[a] # 0}
    IN  /\ Cardinality(watched) <= Capacity
        /\ watched \subseteq BoundIn(bindings)
        /\ Cardinality(watched) < Capacity => BoundIn(bindings) \subseteq watched

(* No supervisor is left running: one that is no longer registered has been  *)
(* cancelled or is about to be, however its start raced its removal.         *)
NoLeakedSupervisor ==
    \A i \in Slots :
        Alive(i) /\ i \notin Registered => sup[i].cancelled \/ i \in stopping

(* Replace never waits in vain: the supervisor whose first attempt it waits  *)
(* for is still making it, or has already let it go.                         *)
WaitersAreReleased ==
    \A o \in Owners :
        caller[o].pc = "wait" /\ sup[NextToStart(o)].first
            => sup[NextToStart(o)].pc \in {"permit", "watch"}

(* No change of a source is forgotten: an owner that has not read it is     *)
(* triggered, being reconciled, or bound to an address whose supervisor will *)
(* tell it: by the event in its stream, by its recovery once it is           *)
(* reconnected, or, for an address without a supervisor, by the recovery     *)
(* that r.deferred promises.                                                 *)
Tells(i) ==
    \/ sup[i].event \/ sup[i].recovery \/ sup[i].timedOut \/ sup[i].first
    \/ sup[i].pc \in {"off", "recover", "dead"}

ChangesAreKept ==
    \A p \in unread :
        LET o == p[1]  a == p[2]
        IN  IsCurrent(o, bindings[o].lease) =>
              \/ o \in owed \cup removing \/ revoking
              \/ caller[o].pc # "idle"
              \/ IF watches[a] = 0 THEN a \in deferred ELSE Tells(watches[a])

(* A supervisor that is given capacity is started.                          *)
PromotedAreStarted ==
    \A i \in Registered :
        sup[i].pc = "off" => i \in starting \/ \E o \in Owners : i \in caller[o].todo

(* A WATCH that terminates is retried: the registered supervisor of an      *)
(* address that a resting owner relies on has not returned.                  *)
WatchesAreRetried ==
    \A o \in Owners : \A a \in bindings[o].addrs :
        /\ IsCurrent(o, bindings[o].lease)
        /\ caller[o].pc = "idle" /\ o \notin owed
        /\ watches[a] # 0
        => sup[watches[a]].pc # "dead"
============================================================================
