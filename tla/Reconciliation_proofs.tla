----------------------- MODULE Reconciliation_proofs -----------------------
(***************************************************************************)
(* For any set of Facets, any number of versions, policies and faults: one  *)
(* lease per key, and no route of a revoked policy epoch.                   *)
(***************************************************************************)
EXTENDS Reconciliation, TLAPS

(* The tracker's epoch is at most the number of policy events it was told of. *)
EpochBound == epoch <= policySeen /\ policySeen <= policy

(* The active lease of a key is the one its attempt holds. *)
LeaseHeld == \A k \in Keys : tracked[k].active \in {NoLease, attempt[k].lease}

IndInv == TypeOK /\ EpochBound /\ LeaseHeld /\ RoutesOfCurrentEpoch

----------------------------------------------------------------------------
(* The initial values of the records are of their types. *)
LEMMA ConstantsTyped ==
    /\ Absent \in Object
    /\ NoLease \in Lease
    /\ NoStatus \in Status
    /\ Idle \in Attempt
    /\ Untracked \in Tracked
<1>1. Absent \in Object BY DEF Absent, Object
<1>2. NoLease \in Lease BY BoundsAssumption DEF NoLease, Lease
<1>3. NoStatus \in Status BY BoundsAssumption DEF NoStatus, Status, Outcomes
<1>4. Idle \in Attempt BY <1>1, <1>2, <1>3 DEF Idle, Attempt, PCs, Stages
<1>5. Untracked \in Tracked
  BY <1>2, BoundsAssumption DEF Untracked, Tracked
<1> QED BY <1>1, <1>2, <1>3, <1>4, <1>5

(* Both fields of an attempt that any other goroutine may change. *)
LEMMA CancelledTyped ==
    ASSUME NEW k \in Keys, attempt[k] \in Attempt PROVE Cancelled(k) \in Attempt
BY DEF Cancelled, Attempt

(* Moving to another program counter keeps the attempt's type. *)
LEMMA MoveTyped ==
    ASSUME NEW k \in Keys, NEW pc \in PCs, attempt \in [Keys -> Attempt],
           Move(k, pc)
    PROVE  attempt' \in [Keys -> Attempt]
<1>1. [attempt[k] EXCEPT !.pc = pc] \in Attempt BY DEF Attempt
<1> QED BY <1>1 DEF Move

(* Finish releases the lease and the gate. *)
LEMMA FinishTyped ==
    ASSUME NEW k \in Keys, NEW retry, TypeOK, Finish(k, retry)
    PROVE  /\ tracked' \in [Keys -> Tracked]
           /\ attempt' \in [Keys -> Attempt]
           /\ queue' \in SUBSET Keys
<1>1. tracked' \in [Keys -> Tracked]
  <2>1. tracked[k] \in Tracked BY DEF TypeOK
  <2>2. [tracked[k] EXCEPT !.active = NoLease] \in Tracked
    BY <2>1, ConstantsTyped DEF Tracked
  <2>3. [tracked[k] EXCEPT !.active = tracked[k].active] = tracked[k]
    BY <2>1 DEF Tracked
  <2> QED BY <2>1, <2>2, <2>3 DEF TypeOK, Finish, Release
<1>2. attempt' \in [Keys -> Attempt] BY ConstantsTyped DEF TypeOK, Finish
<1>3. queue' \in SUBSET Keys BY DEF TypeOK, Finish
<1> QED BY <1>1, <1>2, <1>3

(* RemoveOwner and RemoveAll leave no binding behind. *)
LEMMA RemovalTyped ==
    ASSUME TypeOK, RemoveAll \/ \E k \in Keys : RemoveOwner(k)
    PROVE  routes' \in [Keys -> Lease] /\ notify' \in SUBSET Keys
BY ConstantsTyped DEF TypeOK, RemoveAll, RemoveOwner

(* Observe, ObserveDelete and MarkAbsent record a typed identity. *)
LEMMA ObserveTyped ==
    ASSUME NEW k \in Keys, NEW object \in Object, TypeOK, Observe(k, object)
    PROVE  tracked' \in [Keys -> Tracked] /\ attempt' \in [Keys -> Attempt]
<1>1. attempt' \in [Keys -> Attempt] BY CancelledTyped DEF TypeOK, Observe
<1>2. tracked' \in [Keys -> Tracked]
  BY ConstantsTyped DEF TypeOK, Observe, Tracked, Object
<1> QED BY <1>1, <1>2

(* ObserveDelete and MarkAbsent keep the tracked states typed. *)
LEMMA MarkedAbsentTyped ==
    ASSUME NEW k \in Keys, NEW uid \in Nat, TypeOK
    PROVE  MarkedAbsent(k, uid) \in [Keys -> Tracked]
BY ConstantsTyped DEF TypeOK, MarkedAbsent, Tracked

(* Every API state of a name is an object. *)
LEMMA HistoryTyped ==
    ASSUME TypeOK, NEW k \in Keys
    PROVE  /\ Len(history[k]) \in Nat \ {0}
           /\ \A v \in 1 .. Len(history[k]) : history[k][v] \in Object
           /\ Stored(k) \in Object
<1>1. history[k] \in Seq(Object) /\ history[k] # <<>> BY DEF TypeOK
<1>2. Len(history[k]) \in Nat \ {0} BY <1>1
<1>3. \A v \in 1 .. Len(history[k]) : history[k][v] \in Object BY <1>1
<1> QED BY <1>2, <1>3 DEF Stored

(* A user's change of a live Facet. *)
LEMMA ChangedTyped ==
    ASSUME NEW o \in Object, NEW valid \in BOOLEAN
    PROVE  /\ [o EXCEPT !.gen = @ + 1, !.valid = valid] \in Object
           /\ [o EXCEPT !.gen = @ + 1, !.deleting = TRUE] \in Object
<1>1. o.gen + 1 \in Nat BY DEF Object
<1>2. [o EXCEPT !.gen = o.gen + 1, !.valid = valid] \in Object
  BY <1>1 DEF Object
<1>3. [o EXCEPT !.gen = o.gen + 1, !.deleting = TRUE] \in Object
  BY <1>1 DEF Object
<1> QED BY <1>2, <1>3

(* The API server only ever appends a state. *)
LEMMA AppendTyped ==
    ASSUME TypeOK, NEW k \in Keys, NEW o \in Object, Append1(k, o)
    PROVE  history' \in [Keys -> Seq(Object) \ {<<>>}]
<1>1. history[k] \in Seq(Object) BY DEF TypeOK
<1>2. Append(history[k], o) \in Seq(Object) BY <1>1
<1>3. Len(Append(history[k], o)) = Len(history[k]) + 1 BY <1>1
<1>4. Len(history[k]) \in Nat /\ Len(<<>>) = 0 BY <1>1
<1>5. Append(history[k], o) # <<>> BY <1>3, <1>4
<1> QED BY <1>2, <1>5 DEF TypeOK, Append1

----------------------------------------------------------------------------
(* Every step keeps the types, and the epoch behind the policy. *)

(* The users' steps. *)
LEMMA ClusterTyped ==
    ASSUME TypeOK, EpochBound,
           ChangePolicy \/ ChangeSource \/ \E k \in Keys : ClusterStep(k)
    PROVE  TypeOK' /\ EpochBound'
<1> USE DEF OutsideCluster
<1>1. CASE ChangePolicy
  BY <1>1, BoundsAssumption DEF ChangePolicy, TypeOK, EpochBound
<1>2. CASE ChangeSource
  BY <1>2, BoundsAssumption DEF ChangeSource, TypeOK, EpochBound
<1>3. ASSUME NEW k \in Keys, ClusterStep(k) PROVE TypeOK' /\ EpochBound'
  <2>1. history' \in [Keys -> Seq(Object) \ {<<>>}]
    <3>1. CASE CreateFacet(k)
      <4>1. PICK valid \in BOOLEAN :
              Append1(k, [uid |-> Len(history[k]), gen |-> 1,
                          deleting |-> FALSE, valid |-> valid])
        BY <3>1 DEF CreateFacet
      <4>2. [uid |-> Len(history[k]), gen |-> 1, deleting |-> FALSE,
             valid |-> valid] \in Object
        BY HistoryTyped DEF Object
      <4> QED BY <4>1, <4>2, AppendTyped
    <3>2. CASE UpdateFacet(k)
      <4>1. PICK valid \in BOOLEAN :
              Append1(k, [Stored(k) EXCEPT !.gen = @ + 1, !.valid = valid])
        BY <3>2 DEF UpdateFacet
      <4>2. [Stored(k) EXCEPT !.gen = @ + 1, !.valid = valid] \in Object
        BY HistoryTyped, ChangedTyped
      <4> QED BY <4>1, <4>2, AppendTyped
    <3>3. CASE MarkDeleting(k)
      <4>1. [Stored(k) EXCEPT !.gen = @ + 1, !.deleting = TRUE] \in Object
        BY HistoryTyped, ChangedTyped
      <4> QED BY <3>3, <4>1, AppendTyped DEF MarkDeleting
    <3>4. CASE DeleteFacet(k)
      BY <3>4, AppendTyped, ConstantsTyped DEF DeleteFacet
    <3> QED BY <1>3, <3>1, <3>2, <3>3, <3>4 DEF ClusterStep
  <2>2. status' \in [Keys -> Status]
    BY <1>3, ConstantsTyped DEF ClusterStep, CreateFacet, UpdateFacet,
       MarkDeleting, DeleteFacet, TypeOK
  <2>3. UNCHANGED <<policy, source, notify, OutsideCluster>>
    BY <1>3 DEF ClusterStep, CreateFacet, UpdateFacet, MarkDeleting, DeleteFacet
  <2> QED BY <2>1, <2>2, <2>3 DEF TypeOK, EpochBound
<1> QED BY <1>1, <1>2, <1>3

(* The lifecycle handler. *)
LEMMA HandlerTyped ==
    ASSUME TypeOK, EpochBound, NEW k \in Keys, HandlerStep(k)
    PROVE  TypeOK' /\ EpochBound'
<1> USE DEF cluster
<1>1. CASE DeliverEvent(k)
  <2>1. PICK v \in observed[k] + 1 .. Len(history[k]) :
          /\ facetLifecycleChanged(history[k][observed[k]], history[k][v])
          /\ observed' = [observed EXCEPT ![k] = v]
          /\ HandleEvent(k, history[k][observed[k]], history[k][v])
    BY <1>1 DEF DeliverEvent
  <2> DEFINE old == history[k][observed[k]]
             new == history[k][v]
  <2>2. /\ observed[k] \in 1 .. Len(history[k]) /\ v \in Nat \ {0}
        /\ old \in Object /\ new \in Object
    BY HistoryTyped DEF TypeOK
  <2>3. tracked' \in [Keys -> Tracked] /\ attempt' \in [Keys -> Attempt]
    <3>1. CASE new # Absent
      BY <2>1, <2>2, <3>1, ObserveTyped DEF HandleEvent
    <3>2. CASE new = Absent
      <4>1. old.uid \in Nat BY <2>2 DEF Object
      <4>2. ObserveDelete(k, old.uid) BY <2>1, <3>2 DEF HandleEvent
      <4> QED BY <4>1, <4>2, MarkedAbsentTyped, CancelledTyped
              DEF ObserveDelete, TypeOK
    <3> QED BY <3>1, <3>2
  <2>4. handler' \in [Keys -> {"idle", "remove", "enqueue"}]
    BY <2>1 DEF HandleEvent, TypeOK
  <2>5. observed' \in [Keys -> Nat \ {0}] BY <2>1, <2>2 DEF TypeOK
  <2> QED BY <1>1, <2>3, <2>4, <2>5 DEF DeliverEvent, TypeOK, EpochBound
<1>2. CASE HandlerRemove(k)
  BY <1>2, RemovalTyped DEF HandlerRemove, TypeOK, EpochBound
<1>3. CASE HandlerEnqueue(k)
  BY <1>3 DEF HandlerEnqueue, TypeOK, EpochBound
<1> QED BY <1>1, <1>2, <1>3 DEF HandlerStep

(* The policy handler. *)
LEMMA PolicyTyped ==
    ASSUME TypeOK, EpochBound, PolicyStep PROVE TypeOK' /\ EpochBound'
<1> USE DEF cluster
<1>1. CASE DeliverPolicy
  <2>1. attempt' \in [Keys -> Attempt]
    BY <1>1, CancelledTyped DEF DeliverPolicy, InvalidateAll, TypeOK
  <2>2. epoch' \in 0 .. MaxPolicy /\ policySeen' \in 0 .. MaxPolicy
        /\ EpochBound'
    <3>1. epoch' = epoch + 1 /\ policySeen' \in policySeen + 1 .. policy
          /\ policy' = policy
      BY <1>1 DEF DeliverPolicy, InvalidateAll
    <3>2. policy \in 1 .. MaxPolicy /\ policySeen \in 0 .. MaxPolicy
          /\ epoch \in 0 .. MaxPolicy /\ MaxPolicy \in Nat
      BY BoundsAssumption DEF TypeOK
    <3> QED BY <3>1, <3>2 DEF EpochBound
  <2>3. tracked' \in [Keys -> Tracked]
    <3>1. ASSUME NEW k \in Keys
          PROVE [tracked[k] EXCEPT !.policyEpoch = epoch + 1,
                                   !.active = NoLease] \in Tracked
      <4>1. epoch + 1 \in 0 .. MaxPolicy
        BY <1>1, <2>2 DEF DeliverPolicy, InvalidateAll
      <4>2. tracked[k] \in Tracked BY DEF TypeOK
      <4> QED BY <4>1, <4>2, ConstantsTyped DEF Tracked
    <3> QED BY <1>1, <3>1 DEF DeliverPolicy, InvalidateAll
  <2> QED BY <1>1, <2>1, <2>2, <2>3 DEF DeliverPolicy, TypeOK
<1>2. CASE PolicyRemoveAll
  BY <1>2, RemovalTyped DEF PolicyRemoveAll, TypeOK, EpochBound
<1>3. CASE PolicyRequest
  BY <1>3 DEF PolicyRequest, Existing, TypeOK, EpochBound
<1> QED BY <1>1, <1>2, <1>3 DEF PolicyStep

(* A new process starts from nothing but the cluster. *)
LEMMA RestartTyped ==
    ASSUME TypeOK, EpochBound, Restart PROVE TypeOK' /\ EpochBound'
<1> USE DEF cluster
<1>1. /\ observed' \in [Keys -> Nat \ {0}]
      /\ faults' \in 0 .. MaxFaults
      /\ policySeen' \in 0 .. MaxPolicy /\ epoch' \in 0 .. MaxPolicy
  BY BoundsAssumption DEF Restart, Fault, TypeOK
<1>2. /\ tracked' \in [Keys -> Tracked] /\ attempt' \in [Keys -> Attempt]
      /\ routes' \in [Keys -> Lease]
  BY ConstantsTyped DEF Restart
<1>3. EpochBound' BY DEF Restart, EpochBound, TypeOK
<1> QED BY <1>1, <1>2, <1>3 DEF Restart, Existing, TypeOK

(* The ingress and the watches. *)
LEMMA IngressTyped ==
    ASSUME TypeOK, EpochBound,
           SafetyTick \/ \E k \in Keys : QueueTrigger(k) \/ LapseTrigger(k)
                                       \/ RouteEvent(k)
    PROVE  TypeOK' /\ EpochBound'
<1> USE DEF cluster, informer, OutsideIngress
<1>1. CASE SafetyTick BY <1>1 DEF SafetyTick, Existing, TypeOK, EpochBound
<1>2. ASSUME NEW k \in Keys, QueueTrigger(k) PROVE TypeOK' /\ EpochBound'
  BY <1>2 DEF QueueTrigger, TypeOK, EpochBound
<1>3. ASSUME NEW k \in Keys, LapseTrigger(k) PROVE TypeOK' /\ EpochBound'
  BY <1>3 DEF LapseTrigger, TypeOK, EpochBound
<1>4. ASSUME NEW k \in Keys, RouteEvent(k) PROVE TypeOK' /\ EpochBound'
  <2>1. routes' \in [Keys -> Lease]
    BY <1>4, ConstantsTyped DEF RouteEvent, TypeOK
  <2>2. owed' \in SUBSET Keys BY <1>4 DEF RouteEvent, TypeOK
  <2>3. notify' \in SUBSET Keys BY <1>4 DEF RouteEvent, TypeOK
  <2>4. UNCHANGED <<queue, OutsideIngress>> BY <1>4 DEF RouteEvent
  <2> QED BY <2>1, <2>2, <2>3, <2>4 DEF TypeOK, EpochBound
<1> QED BY <1>1, <1>2, <1>3, <1>4

(* A step of an attempt, action by action: what it leaves to tracked,        *)
(* attempt, routes, notify, queue, status, missed and faults.               *)
LEMMA AttemptTyped ==
    ASSUME TypeOK, EpochBound, NEW k \in Keys, AttemptStep(k) \/ Expire(k)
    PROVE  TypeOK' /\ EpochBound'
<1> USE DEF cluster, informer, OutsideAttempt, OutsidePublish
<1> DEFINE Cores == /\ tracked' \in [Keys -> Tracked]
                    /\ attempt' \in [Keys -> Attempt]
           Rest == /\ UNCHANGED OutsideAttempt
                   /\ status' \in [Keys -> Status]
                   /\ notify' \in SUBSET Keys /\ routes' \in [Keys -> Lease]
                   /\ queue' \in SUBSET Keys /\ missed' \in SUBSET Keys
                   /\ faults' \in 0 .. MaxFaults
<1>0. Cores /\ Rest => TypeOK' /\ EpochBound'
  BY DEF TypeOK, EpochBound
<1>a. attempt[k] \in Attempt /\ tracked[k] \in Tracked BY DEF TypeOK
<1>b. attempt[k].object \in Object /\ attempt[k].lease \in Lease
      /\ attempt[k].candidate \in Status
  BY <1>a DEF Attempt
<1>f. Fault => faults' \in 0 .. MaxFaults
  BY BoundsAssumption DEF Fault, TypeOK
<1> HIDE DEF Cores, Rest
<1>1. CASE Begin(k)
  <2>1. Cores BY <1>1, MoveTyped DEF Begin, Cores, TypeOK, PCs
  <2>2. Rest BY <1>1 DEF Begin, Rest, TypeOK
  <2> QED BY <1>0, <2>1, <2>2
<1>2. CASE Get(k)
  <2>1. Cores
    <3> DEFINE pc == IF Stored(k) = Absent THEN "remove"
                     ELSE IF Stored(k).deleting THEN "observe" ELSE "acquire"
    <3>1. pc \in PCs BY DEF PCs
    <3>2. [attempt[k] EXCEPT !.pc = pc, !.object = Stored(k)] \in Attempt
      <4> HIDE DEF pc
      <4> QED BY <1>a, <3>1, HistoryTyped DEF Attempt
    <3> QED BY <1>2, <3>2 DEF Get, Cores, TypeOK
  <2>2. Rest BY <1>2 DEF Get, Rest, TypeOK
  <2> QED BY <1>0, <2>1, <2>2
<1>3. CASE GetFails(k)
  <2>1. Cores /\ Rest
    BY <1>3, <1>f, FinishTyped DEF GetFails, Cores, Rest, TypeOK
  <2> QED BY <1>0, <2>1
<1>4. CASE ObserveDeleting(k)
  <2>1. tracked' \in [Keys -> Tracked]
    <3>1. [tracked[k] EXCEPT !.uid = attempt[k].object.uid,
             !.gen = attempt[k].object.gen, !.deleting = TRUE,
             !.absent = FALSE, !.policyEpoch = epoch, !.active = NoLease]
          \in Tracked
      <4>1. attempt[k].object.uid \in Nat /\ attempt[k].object.gen \in Nat
        BY <1>b DEF Object
      <4> QED BY <1>a, <4>1, ConstantsTyped DEF Tracked, TypeOK
    <3> QED BY <1>4, <3>1 DEF ObserveDeleting, TypeOK
  <2>2. attempt' \in [Keys -> Attempt]
    BY <1>4, MoveTyped DEF ObserveDeleting, TypeOK, PCs
  <2>3. Rest BY <1>4 DEF ObserveDeleting, Rest, TypeOK
  <2> QED BY <1>0, <2>1, <2>2, <2>3 DEF Cores
<1>5. CASE RemoveRoutes(k)
  <2>1. Cores BY <1>5, MoveTyped DEF RemoveRoutes, Cores, TypeOK, PCs
  <2>2. Rest BY <1>5, RemovalTyped DEF RemoveRoutes, Rest, TypeOK
  <2> QED BY <1>0, <2>1, <2>2
<1>6. CASE MarkAbsent(k)
  <2>1. Cores
    BY <1>6, <1>a, MarkedAbsentTyped, ConstantsTyped
       DEF MarkAbsent, Cores, Tracked, TypeOK
  <2>2. Rest BY <1>6 DEF MarkAbsent, Rest, TypeOK
  <2> QED BY <1>0, <2>1, <2>2
<1>7. CASE Acquire(k)
  <2> DEFINE object == attempt[k].object
             lease == [uid |-> object.uid, gen |-> object.gen, epoch |-> epoch]
  <2>1. CASE tracked[k].active # NoLease
    <3>1. Finish(k, TRUE) BY <1>7, <2>1 DEF Acquire
    <3>2. Cores /\ Rest
      BY <1>7, <3>1, FinishTyped DEF Acquire, Cores, Rest, TypeOK
    <3> QED BY <1>0, <3>2
  <2>2. CASE tracked[k].active = NoLease
    <3>1. object.uid \in Nat /\ object.gen \in Nat /\ epoch \in 0 .. MaxPolicy
      BY <1>b DEF Object, TypeOK
    <3>2. lease \in Lease BY <3>1 DEF Lease
    <3>3. [attempt[k] EXCEPT !.pc = "validate", !.lease = lease] \in Attempt
      <4> HIDE DEF lease
      <4> QED BY <1>a, <3>2 DEF Attempt, PCs
    <3>4. [uid |-> object.uid, gen |-> object.gen, deleting |-> FALSE,
           absent |-> FALSE, policyEpoch |-> epoch, active |-> lease]
          \in Tracked
      <4> HIDE DEF lease
      <4> QED BY <3>1, <3>2 DEF Tracked
    <3>5. /\ tracked' = [tracked EXCEPT
               ![k] = [uid |-> object.uid, gen |-> object.gen,
                       deleting |-> FALSE, absent |-> FALSE,
                       policyEpoch |-> epoch, active |-> lease]]
          /\ attempt' = [attempt EXCEPT ![k].pc = "validate",
                                        ![k].lease = lease]
      BY <1>7, <2>2 DEF Acquire
    <3>c. Cores
      <4> HIDE DEF object, lease
      <4> QED BY <3>3, <3>4, <3>5 DEF Cores, TypeOK
    <3>6. Rest BY <1>7, <2>2 DEF Acquire, Rest, TypeOK
    <3> QED BY <1>0, <3>c, <3>6
  <2> QED BY <2>1, <2>2
<1>8. CASE StageInterrupted(k) \/ InstallStale(k) \/ PublishDeleting(k)
  <2>1. Cores /\ Rest
    BY <1>8, FinishTyped
       DEF StageInterrupted, InstallStale, PublishDeleting, Cores, Rest, TypeOK
  <2> QED BY <1>0, <2>1
<1>t. ASSUME NEW outcome \in Outcomes PROVE Verdict(k, outcome) \in Attempt
  <2>1. [attempt[k].candidate EXCEPT !.outcome = outcome,
                                     !.gen = attempt[k].lease.gen] \in Status
    BY <1>b DEF Status, Lease
  <2>2. Verdict(k, outcome) =
          [attempt[k] EXCEPT !.pc = "publish", !.context = "lease",
             !.retry = TRUE,
             !.candidate = [attempt[k].candidate EXCEPT
                !.outcome = outcome, !.gen = attempt[k].lease.gen]]
    BY <1>a, <1>b DEF Verdict, Attempt, Status
  <2> QED BY <1>a, <2>1, <2>2 DEF Attempt, PCs
<1>u. TimeoutCandidate(k) \in Attempt BY <1>t DEF TimeoutCandidate, Outcomes
<1>9. CASE StageTimesOut(k)
  <2>1. Cores BY <1>9, <1>u DEF StageTimesOut, Cores, TypeOK
  <2>2. Rest BY <1>9 DEF StageTimesOut, Rest, TypeOK
  <2> QED BY <1>0, <2>1, <2>2
<1>10. CASE Validate(k)
  <2>1. CASE attempt[k].object.valid
    <3>1. Cores BY <1>10, <2>1, MoveTyped
                DEF Validate, Cores, TypeOK, PCs, Stages
    <3>2. Rest BY <1>10, <2>1 DEF Validate, Rest, TypeOK
    <3> QED BY <1>0, <3>1, <3>2
  <2>2. CASE ~attempt[k].object.valid
    <3>1. Verdict(k, "rejected") \in Attempt BY <1>t DEF Outcomes
    <3>2. Cores BY <1>10, <2>2, <3>1 DEF Validate, Cores, TypeOK
    <3>3. Rest BY <1>10, <2>2, RemovalTyped DEF Validate, Rest, TypeOK
    <3> QED BY <1>0, <3>2, <3>3
  <2> QED BY <2>1, <2>2
<1>11. CASE LoadPolicy(k)
  <2>1. CASE attempt' = [attempt EXCEPT ![k].pc = "replace",
                                        ![k].candidate.policy = policy]
             /\ UNCHANGED faults
    <3>1. [attempt[k].candidate EXCEPT !.policy = policy] \in Status
      <4>1. policy \in 0 .. MaxPolicy BY BoundsAssumption DEF TypeOK
      <4> QED BY <1>b, <4>1 DEF Status
    <3>2. [attempt[k] EXCEPT !.pc = "replace",
             !.candidate = [attempt[k].candidate EXCEPT !.policy = policy]]
          \in Attempt
      BY <1>a, <3>1 DEF Attempt, PCs, Stages
    <3>3. Cores BY <1>11, <2>1, <3>2 DEF LoadPolicy, Cores, TypeOK
    <3>4. Rest BY <1>11, <2>1 DEF LoadPolicy, Rest, TypeOK
    <3> QED BY <1>0, <3>3, <3>4
  <2>2. CASE Fault /\ attempt' = [attempt EXCEPT ![k].pc = "replace",
                                                 ![k].retry = TRUE]
    <3>1. [attempt[k] EXCEPT !.pc = "replace", !.retry = TRUE] \in Attempt
      BY <1>a DEF Attempt, PCs, Stages
    <3>2. Cores BY <1>11, <2>2, <3>1 DEF LoadPolicy, Cores, TypeOK
    <3>3. Rest BY <1>11, <2>2, <1>f DEF LoadPolicy, Rest, TypeOK
    <3> QED BY <1>0, <3>2, <3>3
  <2> QED BY <1>11, <2>1, <2>2 DEF LoadPolicy
<1>12. CASE Replace(k) \/ WatchReady(k)
  <2>1. Cores BY <1>12, MoveTyped DEF Replace, WatchReady, Cores, TypeOK, PCs,
                                      Stages
  <2>2. Rest BY <1>12 DEF Replace, WatchReady, Rest, TypeOK
  <2> QED BY <1>0, <2>1, <2>2
<1>13. CASE Install(k)
  <2>1. Cores BY <1>13, MoveTyped DEF Install, Cores, TypeOK, PCs
  <2>2. routes' \in [Keys -> Lease] /\ notify' \in SUBSET Keys
    BY <1>13, <1>b, RemovalTyped DEF Install, TypeOK
  <2>3. Rest BY <1>13, <2>2 DEF Install, Rest, TypeOK
  <2> QED BY <1>0, <2>1, <2>3
<1>14. CASE WaitFails(k)
  <2>1. Cores /\ queue' \in SUBSET Keys
    BY <1>14, <1>u, FinishTyped DEF WaitFails, Cores, TypeOK
  <2>2. routes' \in [Keys -> Lease] /\ notify' \in SUBSET Keys
    BY <1>14, RemovalTyped DEF WaitFails, TypeOK
  <2>3. Rest BY <1>14, <2>1, <2>2 DEF WaitFails, Rest, TypeOK
  <2> QED BY <1>0, <2>1, <2>3
<1>15. CASE Evaluate(k)
  <2>1. PICK outcome \in {"result", "degraded", "interrupted", "unavailable"} :
          /\ outcome # "result" => Fault
          /\ outcome = "result" => UNCHANGED faults
          /\ attempt' = [attempt EXCEPT ![k] = Evaluated(k, outcome)]
    BY <1>15 DEF Evaluate
  <2> DEFINE read == IF outcome = "unavailable" \/ ~Allowed(k) THEN 0 ELSE source
             result == IF outcome = "result" /\ attempt[k].retry
                       THEN "degraded" ELSE outcome
             pc == IF outcome = "unavailable" THEN "publish" ELSE "compose"
             retry == attempt[k].retry
                         \/ outcome \in {"degraded", "unavailable"}
             c == [attempt[k].candidate EXCEPT !.gen = attempt[k].lease.gen,
                                               !.source = read,
                                               !.outcome = result]
  <2>2. read \in 0 .. MaxSource /\ result \in Outcomes /\ pc \in PCs
    BY BoundsAssumption DEF TypeOK, Outcomes, PCs
  <2>3. c \in Status
    <3>1. attempt[k].lease.gen \in Nat BY <1>b DEF Lease
    <3> HIDE DEF read, result
    <3> QED BY <1>b, <2>2, <3>1 DEF Status
  <2>4. retry \in BOOLEAN OBVIOUS
  <2>5. Evaluated(k, outcome) \in Attempt
    <3>1. Evaluated(k, outcome) =
            [attempt[k] EXCEPT !.pc = pc, !.retry = retry, !.candidate = c]
      BY DEF Evaluated
    <3> HIDE DEF pc, retry, c
    <3> QED BY <1>a, <2>2, <2>3, <2>4, <3>1 DEF Attempt
  <2>7. Cores BY <1>15, <2>1, <2>5 DEF Evaluate, Cores, TypeOK
  <2>8. Rest BY <1>15, <2>1, <1>f DEF Evaluate, Rest, TypeOK
  <2> QED BY <1>0, <2>7, <2>8
<1>16. CASE Compose(k)
  <2> DEFINE context == IF attempt[k].expired THEN "lease" ELSE "evaluation"
  <2>a. context \in {"evaluation", "lease"} OBVIOUS
  <2>1. [attempt[k] EXCEPT !.pc = "publish", !.context = context] \in Attempt
    <3> HIDE DEF context
    <3> QED BY <1>a, <2>a DEF Attempt, PCs
  <2>2. Cores
    <3>1. attempt' = [attempt EXCEPT ![k].pc = "publish", ![k].context = context]
          /\ tracked' = tracked
      BY <1>16 DEF Compose
    <3> HIDE DEF context
    <3> QED BY <2>1, <3>1 DEF Cores, TypeOK
  <2>3. Rest BY <1>16 DEF Compose, Rest, TypeOK
  <2> QED BY <1>0, <2>2, <2>3
<1>17. CASE PublishRead(k)
  <2>1. [attempt[k] EXCEPT !.pc = "compare", !.read = Len(history[k])] \in Attempt
    BY <1>a, HistoryTyped DEF Attempt, PCs
  <2>2. Cores BY <1>17, <2>1 DEF PublishRead, Cores, TypeOK
  <2>3. Rest BY <1>17 DEF PublishRead, Rest, TypeOK
  <2> QED BY <1>0, <2>2, <2>3
<1>18. CASE PublishSkips(k)
  <2>1. Cores BY <1>18, FinishTyped DEF PublishSkips, Skip, Cores
  <2>2. Rest BY <1>18, FinishTyped DEF PublishSkips, Skip, Rest, TypeOK
  <2> QED BY <1>0, <2>1, <2>2
<1>19. CASE PublishFails(k)
  <2>1. Cores BY <1>19, FinishTyped DEF PublishFails, Cores
  <2>2. faults' \in 0 .. MaxFaults BY <1>19, <1>f DEF PublishFails, TypeOK
  <2>3. Rest BY <1>19, <2>2, FinishTyped DEF PublishFails, Rest, TypeOK
  <2> QED BY <1>0, <2>1, <2>3
<1>20. CASE PublishCompare(k)
  <2>1. CASE Finish(k, attempt[k].retry)
    <3>1. Cores /\ Rest
      BY <1>20, <2>1, FinishTyped DEF PublishCompare, Cores, Rest, TypeOK
    <3> QED BY <1>0, <3>1
  <2>2. CASE Move(k, "write") /\ UNCHANGED <<tracked, queue>>
    <3>1. Cores BY <2>2, MoveTyped DEF Cores, TypeOK, PCs
    <3>2. Rest BY <1>20, <2>2 DEF PublishCompare, Rest, TypeOK
    <3> QED BY <1>0, <3>1, <3>2
  <2> QED BY <1>20, <2>1, <2>2 DEF PublishCompare
<1>21. CASE PublishWrite(k)
  <2>1. PICK retry \in BOOLEAN : Finish(k, retry)
    <3>1. attempt[k].retry \in BOOLEAN BY <1>a DEF Attempt
    <3> QED BY <1>21, <3>1 DEF PublishWrite, Skip
  <2>2. Cores BY <2>1, FinishTyped DEF Cores
  <2>3. faults' \in 0 .. MaxFaults /\ missed' \in SUBSET Keys
    BY <1>21, <1>f DEF PublishWrite, Skip, TypeOK
  <2>4. status' \in [Keys -> Status] BY <1>21, <1>b DEF PublishWrite, TypeOK
  <2>5. Rest BY <1>21, <2>1, <2>3, <2>4, FinishTyped DEF PublishWrite, Rest, TypeOK
  <2> QED BY <1>0, <2>2, <2>5
<1>22. CASE Expire(k)
  <2>1. [attempt[k] EXCEPT !.expired = TRUE] \in Attempt BY <1>a DEF Attempt
  <2>2. Cores BY <1>22, <2>1 DEF Expire, Cores, TypeOK
  <2>3. Rest BY <1>22, <1>f DEF Expire, Rest, TypeOK
  <2> QED BY <1>0, <2>2, <2>3
<1> QED
  BY <1>1, <1>2, <1>3, <1>4, <1>5, <1>6, <1>7, <1>8, <1>9, <1>10, <1>11,
     <1>12, <1>13, <1>14, <1>15, <1>16, <1>17, <1>18, <1>19, <1>20, <1>21,
     <1>22 DEF AttemptStep

----------------------------------------------------------------------------
(* One lease per key. *)

(* Finish clears the active lease: it can only be the attempt's own. *)
LEMMA FinishReleases ==
    ASSUME TypeOK, LeaseHeld, NEW k \in Keys, NEW retry, Finish(k, retry)
    PROVE  LeaseHeld'
<1>1. tracked[k] \in Tracked /\ tracked[k].active \in {NoLease, attempt[k].lease}
  BY DEF TypeOK, LeaseHeld
<1>2. tracked'[k].active = NoLease
  BY <1>1 DEF TypeOK, Finish, Release, Tracked
<1>3. \A j \in Keys \ {k} : tracked'[j] = tracked[j] /\ attempt'[j] = attempt[j]
  BY DEF TypeOK, Finish, Release
<1> QED BY <1>2, <1>3 DEF LeaseHeld

(* A step that keeps every lease, or only drops active leases. *)
LEMMA LeaseKept ==
    ASSUME LeaseHeld,
           \A k \in Keys : /\ tracked'[k].active \in {NoLease, tracked[k].active}
                           /\ attempt'[k].lease = attempt[k].lease
    PROVE  LeaseHeld'
BY DEF LeaseHeld

(* Cancelling an attempt leaves its lease to its release. *)
LEMMA CancelledKeepsLease ==
    ASSUME NEW k \in Keys, attempt[k] \in Attempt
    PROVE  Cancelled(k).lease = attempt[k].lease
BY DEF Cancelled, Attempt

(* Whatever the tracker is told, it never invents an active lease. *)
LEMMA NextLeaseHeld ==
    ASSUME TypeOK, LeaseHeld, [Next]_vars PROVE LeaseHeld'
<1> USE DEF cluster, informer, OutsideCluster, OutsideIngress, OutsideAttempt,
            OutsidePublish
<1>a. \A k \in Keys : attempt[k] \in Attempt /\ tracked[k] \in Tracked
  BY DEF TypeOK
<1>1. CASE UNCHANGED <<tracked, attempt>> BY <1>1 DEF LeaseHeld
<1>2. ASSUME NEW k \in Keys, DeliverEvent(k) PROVE LeaseHeld'
  <2>1. PICK v \in observed[k] + 1 .. Len(history[k]) :
          HandleEvent(k, history[k][observed[k]], history[k][v])
    BY <1>2 DEF DeliverEvent
  <2>2. \A j \in Keys \ {k} : tracked'[j] = tracked[j] /\ attempt'[j] = attempt[j]
    BY <2>1 DEF HandleEvent, ObserveDelete, Observe, MarkedAbsent, TypeOK
  <2>3. attempt'[k].lease = attempt[k].lease
    BY <1>a, <2>1, CancelledKeepsLease
       DEF HandleEvent, ObserveDelete, Observe, TypeOK
  <2>4. tracked'[k].active \in {NoLease, tracked[k].active}
    <3>1. CASE ObserveDelete(k, history[k][observed[k]].uid)
      BY <1>a, <3>1 DEF ObserveDelete, MarkedAbsent, TypeOK, Tracked
    <3>2. CASE Observe(k, history[k][v])
      BY <1>a, <3>2 DEF Observe, TypeOK, Tracked
    <3> QED BY <2>1, <3>1, <3>2 DEF HandleEvent
  <2> QED BY <2>2, <2>3, <2>4, LeaseKept
<1>3. CASE DeliverPolicy
  <2>1. \A k \in Keys : attempt'[k].lease = attempt[k].lease
    BY <1>3, <1>a, CancelledKeepsLease DEF DeliverPolicy, InvalidateAll
  <2>2. \A k \in Keys : tracked'[k].active = NoLease
    BY <1>3, <1>a DEF DeliverPolicy, InvalidateAll, Tracked
  <2> QED BY <2>1, <2>2, LeaseKept
<1>4. ASSUME NEW k \in Keys, AttemptStep(k) \/ Expire(k) PROVE LeaseHeld'
  <2>m. ASSUME NEW pc, Move(k, pc), tracked' = tracked PROVE LeaseHeld'
    BY <1>a, <2>m, LeaseKept DEF Move, TypeOK, Attempt
  <2>n. ASSUME NEW a, a.lease = attempt[k].lease, tracked' = tracked,
               attempt' = [attempt EXCEPT ![k] = a]
        PROVE  LeaseHeld'
    BY <2>n, LeaseKept DEF TypeOK
  <2>1. CASE Begin(k) \/ RemoveRoutes(k) \/ Replace(k) \/ WatchReady(k)
             \/ Install(k)
    BY <2>1, <2>m DEF Begin, RemoveRoutes, Replace, WatchReady, Install
  <2>2. CASE Get(k)
    BY <1>a, <2>2, LeaseKept DEF Get, TypeOK, Attempt
  <2>3. CASE GetFails(k) \/ StageInterrupted(k) \/ InstallStale(k)
             \/ PublishSkips(k) \/ PublishDeleting(k) \/ PublishFails(k)
             \/ PublishWrite(k)
    BY <2>3, FinishReleases
       DEF GetFails, StageInterrupted, InstallStale, PublishSkips, Skip,
           PublishDeleting, PublishFails, PublishWrite
  <2>4. CASE ObserveDeleting(k)
    <3>1. \A j \in Keys : tracked'[j].active \in {NoLease, tracked[j].active}
      BY <1>a, <2>4 DEF ObserveDeleting, TypeOK, Tracked
    <3>2. \A j \in Keys : attempt'[j].lease = attempt[j].lease
      BY <1>a, <2>4 DEF ObserveDeleting, Move, TypeOK, Attempt
    <3> QED BY <3>1, <3>2, LeaseKept
  <2>5. CASE MarkAbsent(k)
    <3>1. tracked'[k].active = NoLease
      BY <1>a, <2>5 DEF MarkAbsent, MarkedAbsent, TypeOK, Tracked
    <3>2. \A j \in Keys \ {k} : tracked'[j] = tracked[j]
                                /\ attempt'[j] = attempt[j]
      BY <2>5 DEF MarkAbsent, MarkedAbsent, TypeOK
    <3> QED BY <3>1, <3>2 DEF LeaseHeld
  <2>6. CASE Acquire(k)
    <3>1. CASE tracked[k].active # NoLease
      BY <2>6, <3>1, FinishReleases DEF Acquire
    <3>2. CASE tracked[k].active = NoLease
      <4>1. tracked'[k].active = attempt'[k].lease
        BY <1>a, <2>6, <3>2 DEF Acquire, TypeOK, Attempt
      <4>2. \A j \in Keys \ {k} : tracked'[j] = tracked[j]
                                  /\ attempt'[j] = attempt[j]
        BY <2>6, <3>2 DEF Acquire, TypeOK
      <4> QED BY <4>1, <4>2 DEF LeaseHeld
    <3> QED BY <3>1, <3>2
  <2>v. ASSUME NEW outcome PROVE Verdict(k, outcome).lease = attempt[k].lease
    BY <1>a DEF Verdict, Attempt
  <2>7. CASE StageTimesOut(k)
    BY <2>7, <2>v, <2>n DEF StageTimesOut, TimeoutCandidate
  <2>8. CASE Validate(k) BY <2>8, <2>v, <2>m, <2>n DEF Validate
  <2>9. CASE LoadPolicy(k)
    <3>1. \A j \in Keys : attempt'[j].lease = attempt[j].lease
      <4>1. CASE attempt' = [attempt EXCEPT ![k].pc = "replace",
                                            ![k].candidate.policy = policy]
        BY <1>a, <4>1 DEF TypeOK, Attempt
      <4>2. CASE attempt' = [attempt EXCEPT ![k].pc = "replace",
                                            ![k].retry = TRUE]
        BY <1>a, <4>2 DEF TypeOK, Attempt
      <4> QED BY <2>9, <4>1, <4>2 DEF LoadPolicy
    <3> QED BY <2>9, <3>1, LeaseKept DEF LoadPolicy
  <2>10. CASE WaitFails(k)
    BY <2>10, <2>v, <2>n, FinishReleases DEF WaitFails, TimeoutCandidate
  <2>11. CASE Evaluate(k)
    <3>1. \A outcome : Evaluated(k, outcome).lease = attempt[k].lease
      BY <1>a DEF Evaluated, Attempt
    <3> QED BY <2>11, <3>1, <2>n DEF Evaluate
  <2>12. CASE Compose(k) \/ PublishRead(k) \/ Expire(k)
    <3>1. CASE Compose(k)
      <4>1. \A j \in Keys : attempt'[j].lease = attempt[j].lease
        BY <1>a, <3>1 DEF Compose, TypeOK, Attempt
      <4> QED BY <3>1, <4>1, LeaseKept DEF Compose
    <3>2. CASE PublishRead(k)
      <4>1. \A j \in Keys : attempt'[j].lease = attempt[j].lease
        BY <1>a, <3>2 DEF PublishRead, TypeOK, Attempt
      <4> QED BY <3>2, <4>1, LeaseKept DEF PublishRead
    <3>3. CASE Expire(k)
      <4>1. \A j \in Keys : attempt'[j].lease = attempt[j].lease
        BY <1>a, <3>3 DEF Expire, TypeOK, Attempt
      <4> QED BY <3>3, <4>1, LeaseKept DEF Expire
    <3> QED BY <2>12, <3>1, <3>2, <3>3
  <2>13. CASE PublishCompare(k)
    BY <2>13, <2>m, FinishReleases DEF PublishCompare
  <2> QED
    BY <1>4, <2>1, <2>2, <2>3, <2>4, <2>5, <2>6, <2>7, <2>8, <2>9, <2>10,
       <2>11, <2>12, <2>13 DEF AttemptStep
<1>5. \/ UNCHANGED <<tracked, attempt>>
      \/ \E k \in Keys : DeliverEvent(k) \/ AttemptStep(k) \/ Expire(k)
      \/ DeliverPolicy \/ Restart
  BY DEF Next, vars, ClusterStep, CreateFacet, UpdateFacet, MarkDeleting,
         DeleteFacet, HandlerStep, HandlerRemove, HandlerEnqueue, QueueTrigger,
         LapseTrigger, RouteEvent, ChangePolicy, ChangeSource, PolicyStep,
         PolicyRemoveAll, PolicyRequest, SafetyTick
<1>6. CASE Restart
  BY <1>6 DEF Restart, Untracked, LeaseHeld
<1> QED BY <1>1, <1>2, <1>3, <1>4, <1>5, <1>6

----------------------------------------------------------------------------
(* Routes of the current epoch. *)

(* The lease of a binding is checked under the registry's lock (Install), so *)
(* a binding of an earlier epoch cannot enter behind the policy handler.     *)
LEMMA NextRoutes ==
    ASSUME TypeOK, RoutesOfCurrentEpoch, [Next]_vars
    PROVE  RoutesOfCurrentEpoch'
<1> USE DEF cluster, informer, OutsideCluster, OutsideIngress, OutsideAttempt,
            OutsidePublish
<1>1. CASE UNCHANGED <<policyPC, epoch, routes>>
  BY <1>1 DEF RoutesOfCurrentEpoch
<1>2. CASE DeliverPolicy BY <1>2 DEF DeliverPolicy, RoutesOfCurrentEpoch
<1>3. CASE PolicyRemoveAll
  BY <1>3 DEF PolicyRemoveAll, RemoveAll, RoutesOfCurrentEpoch
<1>4. CASE PolicyRequest BY <1>4 DEF PolicyRequest, RoutesOfCurrentEpoch
<1>5. ASSUME NEW k \in Keys, UNCHANGED <<policyPC, epoch>>,
             routes' = [routes EXCEPT ![k] = NoLease]
      PROVE  RoutesOfCurrentEpoch'
  BY <1>5 DEF RoutesOfCurrentEpoch, TypeOK
<1>6. ASSUME NEW k \in Keys, Install(k) PROVE RoutesOfCurrentEpoch'
  <2>1. CASE routes' = [routes EXCEPT ![k] = attempt[k].lease]
    BY <1>6, <2>1 DEF Install, IsLeaseCurrent, RoutesOfCurrentEpoch, TypeOK
  <2>2. CASE RemoveOwner(k) BY <1>5, <1>6, <2>2 DEF Install, RemoveOwner
  <2> QED BY <1>6, <2>1, <2>2 DEF Install
<1>7. ASSUME NEW k \in Keys,
             HandlerRemove(k) \/ RouteEvent(k) \/ RemoveRoutes(k) \/ Validate(k)
             \/ WaitFails(k)
      PROVE  RoutesOfCurrentEpoch'
  <2>1. UNCHANGED <<policyPC, epoch>>
    BY <1>7 DEF HandlerRemove, RouteEvent, RemoveRoutes, Validate, WaitFails
  <2>2. routes' = routes \/ routes' = [routes EXCEPT ![k] = NoLease]
    BY <1>7 DEF HandlerRemove, RouteEvent, RemoveRoutes, Validate, WaitFails,
                RemoveOwner
  <2> QED BY <1>1, <1>5, <2>1, <2>2
<1>8. \/ UNCHANGED <<policyPC, epoch, routes>>
      \/ DeliverPolicy \/ PolicyRemoveAll \/ PolicyRequest \/ Restart
      \/ \E k \in Keys : \/ Install(k) \/ HandlerRemove(k) \/ RouteEvent(k)
                         \/ RemoveRoutes(k) \/ Validate(k) \/ WaitFails(k)
  <2>1. ASSUME NEW k \in Keys, AttemptStep(k)
        PROVE  \/ UNCHANGED <<policyPC, epoch, routes>>
               \/ Install(k) \/ RemoveRoutes(k) \/ Validate(k) \/ WaitFails(k)
    BY <2>1 DEF AttemptStep, Begin, Get, GetFails, ObserveDeleting, MarkAbsent,
       Acquire, StageInterrupted, StageTimesOut, LoadPolicy, Replace,
       InstallStale, WatchReady, Evaluate, Compose, PublishRead, PublishSkips,
       PublishDeleting, PublishFails, PublishCompare, PublishWrite
  <2>2. ASSUME NEW k \in Keys, ClusterStep(k) \/ HandlerStep(k) \/ Expire(k)
               \/ QueueTrigger(k) \/ LapseTrigger(k)
        PROVE  UNCHANGED <<policyPC, epoch, routes>> \/ HandlerRemove(k)
    BY <2>2 DEF ClusterStep, CreateFacet, UpdateFacet, MarkDeleting,
       DeleteFacet, HandlerStep, DeliverEvent, HandlerEnqueue, Expire,
       QueueTrigger, LapseTrigger
  <2>3. CASE ChangePolicy \/ ChangeSource \/ SafetyTick \/ UNCHANGED vars
    BY <2>3 DEF ChangePolicy, ChangeSource, SafetyTick, vars
  <2> QED BY <2>1, <2>2, <2>3 DEF Next, PolicyStep
<1>9. CASE Restart BY <1>9 DEF Restart, RoutesOfCurrentEpoch
<1> QED BY <1>1, <1>2, <1>3, <1>4, <1>6, <1>7, <1>8, <1>9

----------------------------------------------------------------------------
(* The empty tracker, registry and queue satisfy the invariant. *)
LEMMA InitIndInv == Init => IndInv
<1> SUFFICES ASSUME Init PROVE IndInv
  OBVIOUS
<1>1. TypeOK
  <2>1. Untracked \in Tracked BY ConstantsTyped
  <2>2. <<Absent>> \in Seq(Object) \ {<<>>} BY ConstantsTyped
  <2>3. 1 \in 1 .. MaxPolicy /\ 1 \in 1 .. MaxSource
        /\ 0 \in 0 .. MaxPolicy /\ 0 \in 0 .. MaxFaults
    BY BoundsAssumption
  <2> QED BY <2>1, <2>2, <2>3, ConstantsTyped DEF Init, TypeOK
<1>2. EpochBound BY DEF Init, EpochBound
<1>3. LeaseHeld BY DEF Init, LeaseHeld, Untracked
<1>4. RoutesOfCurrentEpoch BY DEF Init, RoutesOfCurrentEpoch
<1> QED BY <1>1, <1>2, <1>3, <1>4 DEF IndInv

(* Every step preserves it. *)
LEMMA Inductive == IndInv /\ [Next]_vars => IndInv'
<1> SUFFICES ASSUME IndInv, [Next]_vars PROVE IndInv'
  OBVIOUS
<1>1. TypeOK' /\ EpochBound'
  <2> USE DEF IndInv
  <2>1. CASE UNCHANGED vars
    BY <2>1 DEF vars, TypeOK, EpochBound
  <2>2. CASE Next
    BY <2>2, ClusterTyped, HandlerTyped, PolicyTyped, IngressTyped,
       AttemptTyped, RestartTyped DEF Next
  <2> QED BY <2>1, <2>2
<1>2. LeaseHeld' BY NextLeaseHeld DEF IndInv
<1>3. RoutesOfCurrentEpoch' BY NextRoutes DEF IndInv
<1> QED BY <1>1, <1>2, <1>3 DEF IndInv

(* Type correctness, the policy epoch never ahead of the policy included. *)
THEOREM TypeCorrect == Spec => []TypeOK
<1>1. IndInv => TypeOK BY DEF IndInv
<1> QED BY <1>1, InitIndInv, Inductive, PTL DEF Spec

(* An attempt never finds the lease of an earlier one still active: the gate *)
(* of Reconcile and the release of Acquire are enough for one lease per key, *)
(* so the error path of Acquire is never taken.                              *)
THEOREM OneLeasePerKey == Spec => []LeaseIsFree
<1>1. IndInv => LeaseIsFree BY DEF IndInv, LeaseHeld, LeaseIsFree
<1> QED BY <1>1, InitIndInv, Inductive, PTL DEF Spec

(* Outside the policy handler's RemoveAll no binding is of an earlier policy *)
(* epoch, however the attempts under way interleave with the policy event.   *)
THEOREM PolicyChangeRevokes == Spec => []RoutesOfCurrentEpoch
<1>1. IndInv => RoutesOfCurrentEpoch BY DEF IndInv
<1> QED BY <1>1, InitIndInv, Inductive, PTL DEF Spec
=============================================================================
