--------------------- MODULE ReconciliationRest_proofs ---------------------
(***************************************************************************)
(* The controller only rests when it is done, for any set of Facets and any *)
(* number of versions, policies, sources, faults and restarts.              *)
(*                                                                          *)
(* A Facet is settled once every event about it is handled and no trigger   *)
(* for it is left.  From then on no one can disturb the attempt under way   *)
(* without leaving a trigger: it holds the stored object and a current      *)
(* lease (SettledInv), what it computes and installs is fresh (EvalInv),    *)
(* and so is what it leaves behind (RestInv).                               *)
(***************************************************************************)
EXTENDS Reconciliation_proofs

(* What a key has to wait for before it is settled. *)
Behind(k) ==
    \/ observed[k] # Len(history[k]) \/ handler[k] # "idle"
    \/ policySeen # policy \/ policyPC # "idle"
    \/ k \in owed \cup queue

Settled(k) == Stored(k) # Absent /\ ~Behind(k)

Unleased == {"idle", "get", "observe", "remove", "absent", "acquire"}

Publishing == {"compose", "publish", "compare", "write"}

(* The informer is within the history, in which every Facet has a UID. *)
HistoryInv(k) ==
    /\ observed[k] \in 1 .. Len(history[k])
    /\ \A v \in 1 .. Len(history[k]) :
         history[k][v] = Absent \/ history[k][v].uid # 0

(* From Acquire to Finish the attempt holds a lease of the object that Get  *)
(* returned, and whoever takes the lease away cancels the attempt.          *)
LeaseInv(k) ==
    /\ attempt[k].pc \in Unleased =>
         /\ attempt[k].lease = NoLease
         /\ ~attempt[k].cancelled
         /\ attempt[k].candidate = NoStatus
    /\ attempt[k].pc \notin Unleased =>
         /\ attempt[k].lease.uid = attempt[k].object.uid
         /\ attempt[k].lease.gen = attempt[k].object.gen
         /\ attempt[k].lease.epoch <= epoch
         /\ ~attempt[k].cancelled => tracked[k].active = attempt[k].lease
    /\ attempt[k].pc \notin Unleased \ {"acquire"} =>
         attempt[k].object.uid # 0 /\ ~attempt[k].object.deleting
    /\ attempt[k].pc \in {"observe", "remove", "absent"} =>
         attempt[k].object = Absent \/ attempt[k].object.deleting
    /\ attempt[k].pc = "absent" => routes[k] = NoLease

(* The attempt of a settled Facet works on the stored object, under a       *)
(* current lease that nobody has cancelled.                                 *)
SettledInv(k) ==
    Settled(k) =>
        /\ attempt[k].pc \notin {"idle", "get"} => attempt[k].object = Stored(k)
        /\ attempt[k].pc \notin Unleased =>
             ~attempt[k].cancelled /\ IsLeaseCurrent(k, attempt[k].lease)

(* The routes that a policy calls for. *)
RoutesAgree(k) ==
    IF policy \in Denying
    THEN routes[k] = NoLease
    ELSE routes[k] # NoLease /\ IsLeaseCurrent(k, routes[k])

(* A status made from the present spec, policy and sources; a later change  *)
(* of the sources has an event under way.                                   *)
Reports(k, s) ==
    /\ s.gen = Stored(k).gen /\ s.policy = policy
    /\ s.outcome \in {"result", "interrupted"}
    /\ IF policy \in Denying THEN s.source = 0
                             ELSE s.source = source \/ k \in notify

(* What an attempt that will not be retried has done so far is fresh. *)
EvalInv(k) ==
    Settled(k) /\ ~attempt[k].retry =>
        /\ attempt[k].pc \in {"replace", "install", "await", "evaluate"} \cup Publishing
             => attempt[k].candidate.policy = policy
        /\ attempt[k].pc \in {"await", "evaluate"} \cup Publishing => RoutesAgree(k)
        /\ attempt[k].pc \in Publishing => Reports(k, attempt[k].candidate)

(* What the last attempt left behind is fresh. *)
RestInv(k) ==
    Settled(k) /\ attempt[k].pc = "idle" /\ k \notin missed =>
        IF Stored(k).deleting
        THEN routes[k] = NoLease
        ELSE RoutesAgree(k) /\ Reports(k, status[k])

(* The routes of a Facet that is known to be gone have someone to drop them. *)
AbsentInv(k) ==
    Stored(k) = Absent /\ observed[k] = Len(history[k]) =>
        /\ attempt[k].pc \notin Unleased /\ IsLeaseCurrent(k, attempt[k].lease)
             => ~attempt[k].cancelled /\ attempt[k].pc \notin {"compare", "write"}
        /\ routes[k] # NoLease =>
             \/ handler[k] = "remove" \/ policyPC = "remove"
             \/ k \in queue \cup missed
             \/ attempt[k].pc \in {"get", "observe", "remove"}
             \/ /\ attempt[k].pc \in {"await", "evaluate", "compose", "publish"}
                /\ IsLeaseCurrent(k, attempt[k].lease)

----------------------------------------------------------------------------
(* The steps of other keys. *)

(* Nothing that concerns k changes. *)
Same(k) ==
    /\ history'[k] = history[k] /\ status'[k] = status[k]
    /\ observed'[k] = observed[k] /\ handler'[k] = handler[k]
    /\ tracked'[k] = tracked[k] /\ routes'[k] = routes[k]
    /\ attempt'[k] = attempt[k]
    /\ UNCHANGED <<policy, policySeen, source, epoch, policyPC>>
    /\ k \in owed' <=> k \in owed
    /\ k \in queue' <=> k \in queue
    /\ k \in notify' <=> k \in notify
    /\ k \in missed' <=> k \in missed

OwnStep(k) ==
    \/ ClusterStep(k) \/ HandlerStep(k) \/ AttemptStep(k) \/ QueueTrigger(k)
    \/ LapseTrigger(k) \/ RouteEvent(k) \/ Expire(k)

GlobalStep == ChangePolicy \/ ChangeSource \/ PolicyStep \/ SafetyTick \/ Restart

(* A step of one Facet leaves every other Facet alone. *)
LEMMA OthersAreLeft ==
    ASSUME TypeOK, NEW k \in Keys, NEW j \in Keys \ {k}, OwnStep(j)
    PROVE  Same(k)
<1> USE DEF Same, TypeOK, cluster, informer, OutsideCluster, OutsideIngress,
            OutsideAttempt, OutsidePublish
<1>1. CASE ClusterStep(j)
  BY <1>1 DEF ClusterStep, CreateFacet, UpdateFacet, MarkDeleting, DeleteFacet,
     Append1
<1>2. CASE HandlerStep(j)
  <2>1. CASE DeliverEvent(j)
    BY <2>1 DEF DeliverEvent, HandleEvent, Observe, ObserveDelete, MarkedAbsent
  <2>2. CASE HandlerRemove(j) \/ HandlerEnqueue(j)
    BY <2>2 DEF HandlerRemove, RemoveOwner, HandlerEnqueue
  <2> QED BY <1>2, <2>1, <2>2 DEF HandlerStep
<1>3. CASE QueueTrigger(j) \/ LapseTrigger(j) \/ RouteEvent(j) \/ Expire(j)
  BY <1>3 DEF QueueTrigger, LapseTrigger, RouteEvent, Expire
<1>4. CASE AttemptStep(j)
  <2>1. CASE Begin(j) \/ Get(j) \/ GetFails(j)
    BY <2>1 DEF Begin, Get, GetFails, Move, Finish, Release
  <2>2. CASE ObserveDeleting(j) \/ RemoveRoutes(j) \/ MarkAbsent(j) \/ Acquire(j)
    BY <2>2 DEF ObserveDeleting, RemoveRoutes, MarkAbsent, MarkedAbsent, Acquire,
       RemoveOwner, Move, Finish, Release
  <2>3. CASE StageInterrupted(j) \/ StageTimesOut(j) \/ Validate(j)
             \/ LoadPolicy(j) \/ Replace(j)
    BY <2>3 DEF StageInterrupted, StageTimesOut, Validate, LoadPolicy, Replace,
       RemoveOwner, Move, Finish, Release
  <2>4. CASE Install(j) \/ InstallStale(j) \/ WatchReady(j) \/ WaitFails(j)
    BY <2>4 DEF Install, InstallStale, WatchReady, WaitFails, RemoveOwner, Move,
       Finish, Release
  <2>5. CASE Evaluate(j) \/ Compose(j) \/ PublishRead(j) \/ PublishSkips(j)
    BY <2>5 DEF Evaluate, Compose, PublishRead, PublishSkips, Skip, Finish, Release
  <2>6. CASE PublishDeleting(j) \/ PublishFails(j) \/ PublishCompare(j)
             \/ PublishWrite(j)
    BY <2>6 DEF PublishDeleting, PublishFails, PublishCompare, PublishWrite, Skip,
       Move, Finish, Release
  <2> QED BY <1>4, <2>1, <2>2, <2>3, <2>4, <2>5, <2>6 DEF AttemptStep
<1> QED BY <1>1, <1>2, <1>3, <1>4 DEF OwnStep

(* Every step is k's own, everyone's, or nothing to k. *)
LEMMA StepsOfKey ==
    ASSUME TypeOK, NEW k \in Keys, [Next]_vars
    PROVE  Same(k) \/ OwnStep(k) \/ GlobalStep
<1>1. CASE UNCHANGED vars BY <1>1 DEF vars, Same
<1>2. CASE Next BY <1>2, OthersAreLeft DEF Next, OwnStep, GlobalStep
<1> QED BY <1>1, <1>2

----------------------------------------------------------------------------
(* What the steps of an attempt do to the fields of their key. *)

(* The controller's goroutine leaves the cluster and the informers alone. *)
LEMMA AttemptFrame ==
    ASSUME NEW k \in Keys, AttemptStep(k) \/ Expire(k)
    PROVE  UNCHANGED <<history, policy, source, observed, policySeen, handler,
                       policyPC, epoch, owed>>
<1> USE DEF cluster, informer, OutsideAttempt, OutsidePublish
<1>1. CASE Begin(k) \/ Get(k) \/ GetFails(k) \/ ObserveDeleting(k)
           \/ RemoveRoutes(k) \/ MarkAbsent(k) \/ Acquire(k) \/ Expire(k)
  BY <1>1 DEF Begin, Get, GetFails, ObserveDeleting, RemoveRoutes, MarkAbsent,
     Acquire, Expire
<1>2. CASE StageInterrupted(k) \/ StageTimesOut(k) \/ Validate(k)
           \/ LoadPolicy(k) \/ Replace(k) \/ Install(k) \/ InstallStale(k)
           \/ WatchReady(k) \/ WaitFails(k)
  BY <1>2 DEF StageInterrupted, StageTimesOut, Validate, LoadPolicy, Replace,
     Install, InstallStale, WatchReady, WaitFails
<1>3. CASE Evaluate(k) \/ Compose(k) \/ PublishRead(k) \/ PublishSkips(k)
           \/ PublishDeleting(k) \/ PublishFails(k) \/ PublishCompare(k)
           \/ PublishWrite(k)
  BY <1>3 DEF Evaluate, Compose, PublishRead, PublishSkips, PublishDeleting,
     PublishFails, PublishCompare, PublishWrite
<1> QED BY <1>1, <1>2, <1>3 DEF AttemptStep

(* Moving on changes the program counter only. *)
LEMMA MoveEffect ==
    ASSUME TypeOK, NEW k \in Keys, NEW pc, Move(k, pc)
    PROVE  /\ attempt'[k].pc = pc
           /\ attempt'[k].object = attempt[k].object
           /\ attempt'[k].lease = attempt[k].lease
           /\ attempt'[k].cancelled = attempt[k].cancelled
           /\ attempt'[k].retry = attempt[k].retry
           /\ attempt'[k].read = attempt[k].read
           /\ attempt'[k].candidate = attempt[k].candidate
<1>1. attempt[k] \in Attempt /\ attempt \in [Keys -> Attempt] BY DEF TypeOK
<1> QED BY <1>1 DEF Move, Attempt

(* Finish leaves an idle attempt, a released lease and, after an error, a   *)
(* trigger; the identity that the tracker knows stays.                      *)
LEMMA FinishEffect ==
    ASSUME TypeOK, NEW k \in Keys, NEW retry, Finish(k, retry)
    PROVE  /\ attempt'[k] = Idle
           /\ k \in queue' <=> (k \in queue \/ retry)
           /\ tracked'[k].uid = tracked[k].uid
           /\ tracked'[k].gen = tracked[k].gen
           /\ tracked'[k].deleting = tracked[k].deleting
           /\ tracked'[k].absent = tracked[k].absent
           /\ tracked'[k].policyEpoch = tracked[k].policyEpoch
<1>1. tracked[k] \in Tracked /\ tracked \in [Keys -> Tracked]
      /\ attempt \in [Keys -> Attempt]
  BY DEF TypeOK
<1>2. attempt'[k] = Idle BY <1>1 DEF Finish
<1>3. k \in queue' <=> (k \in queue \/ retry) BY DEF Finish
<1> QED BY <1>1, <1>2, <1>3 DEF Finish, Release, Tracked

(* The fields of an idle attempt. *)
LEMMA IdleFields ==
    /\ Idle.pc = "idle" /\ Idle.object = Absent /\ Idle.lease = NoLease
    /\ Idle.cancelled = FALSE /\ Idle.retry = FALSE
    /\ Idle.candidate = NoStatus
BY DEF Idle

(* A verdict is published through the lease's context and retried. *)
LEMMA VerdictFields ==
    ASSUME NEW k \in Keys, NEW outcome, attempt[k] \in Attempt, NEW v,
           v = Verdict(k, outcome)
    PROVE  /\ v.pc = "publish" /\ v.retry
           /\ v.object = attempt[k].object /\ v.lease = attempt[k].lease
           /\ v.cancelled = attempt[k].cancelled /\ v.read = attempt[k].read
           /\ v.candidate.outcome = outcome
           /\ v.candidate.gen = attempt[k].lease.gen
           /\ v.candidate.policy = attempt[k].candidate.policy
           /\ v.candidate.source = attempt[k].candidate.source
<1>1. attempt[k].candidate \in Status BY DEF Attempt
<1>2. v.candidate = [[attempt[k].candidate EXCEPT !.outcome = outcome]
                        EXCEPT !.gen = attempt[k].lease.gen]
  BY DEF Verdict, Attempt
<1>3. /\ v.candidate.outcome = outcome
      /\ v.candidate.gen = attempt[k].lease.gen
      /\ v.candidate.policy = attempt[k].candidate.policy
      /\ v.candidate.source = attempt[k].candidate.source
  BY <1>1, <1>2 DEF Status
<1>4. v.pc = "publish" BY DEF Verdict, Attempt
<1>5. v.retry BY DEF Verdict, Attempt
<1>6. v.cancelled = attempt[k].cancelled BY DEF Verdict, Attempt
<1>7. v.object = attempt[k].object BY DEF Verdict, Attempt
<1>8. v.lease = attempt[k].lease BY DEF Verdict, Attempt
<1>9. v.read = attempt[k].read BY DEF Verdict, Attempt
<1> QED BY <1>3, <1>4, <1>5, <1>6, <1>7, <1>8, <1>9

(* What Evaluate computes. *)
LEMMA EvaluatedFields ==
    ASSUME NEW k \in Keys, NEW outcome, attempt[k] \in Attempt, NEW v,
           v = Evaluated(k, outcome)
    PROVE  /\ v.pc = IF outcome = "unavailable" THEN "publish" ELSE "compose"
           /\ v.retry = (attempt[k].retry \/ outcome \in {"degraded", "unavailable"})
           /\ v.object = attempt[k].object /\ v.lease = attempt[k].lease
           /\ v.cancelled = attempt[k].cancelled /\ v.read = attempt[k].read
           /\ v.candidate.gen = attempt[k].lease.gen
           /\ v.candidate.policy = attempt[k].candidate.policy
           /\ v.candidate.source =
                IF outcome = "unavailable" \/ ~Allowed(k) THEN 0 ELSE source
           /\ v.candidate.outcome =
                IF outcome = "result" /\ attempt[k].retry THEN "degraded" ELSE outcome
<1>1. attempt[k].candidate \in Status BY DEF Attempt
<1> DEFINE
  pc == IF outcome = "unavailable" THEN "publish" ELSE "compose"
  from == IF outcome = "unavailable" \/ ~Allowed(k) THEN 0 ELSE source
  shown == IF outcome = "result" /\ attempt[k].retry THEN "degraded" ELSE outcome
  again == attempt[k].retry \/ outcome \in {"degraded", "unavailable"}
  made == [[[attempt[k].candidate EXCEPT !.gen = attempt[k].lease.gen]
              EXCEPT !.source = from] EXCEPT !.outcome = shown]
<1>2. v = [attempt[k] EXCEPT !.pc = pc, !.retry = again, !.candidate = made]
  BY Zenon DEF Evaluated
<1>3. again \in BOOLEAN BY DEF Attempt
<1> HIDE DEF pc, from, shown, again
<1>4. /\ made.gen = attempt[k].lease.gen /\ made.source = from
      /\ made.outcome = shown /\ made.policy = attempt[k].candidate.policy
  BY <1>1 DEF Status
<1> HIDE DEF made
<1>5. v.pc = pc /\ v.candidate = made BY <1>2, <1>3 DEF Attempt
<1>6. v.retry = again BY <1>2, <1>3 DEF Attempt
<1>7. v.cancelled = attempt[k].cancelled BY <1>2, <1>3 DEF Attempt
<1>8. /\ v.object = attempt[k].object /\ v.lease = attempt[k].lease
      /\ v.read = attempt[k].read
  BY <1>2, <1>3 DEF Attempt
<1> QED BY <1>4, <1>5, <1>6, <1>7, <1>8 DEF pc, from, shown, again

(* The fields that a step of the attempt seldom changes. *)
Kept(k) ==
    /\ attempt'[k].object = attempt[k].object
    /\ attempt'[k].lease = attempt[k].lease
    /\ attempt'[k].cancelled = attempt[k].cancelled

(* Get fetches the stored object. *)
LEMMA GetEffect ==
    ASSUME TypeOK, NEW k \in Keys, Get(k)
    PROVE  /\ attempt'[k].pc = IF Stored(k) = Absent THEN "remove"
                               ELSE IF Stored(k).deleting THEN "observe"
                               ELSE "acquire"
           /\ attempt'[k].object = Stored(k)
           /\ attempt'[k].lease = attempt[k].lease
           /\ attempt'[k].cancelled = attempt[k].cancelled
           /\ attempt'[k].retry = attempt[k].retry
           /\ attempt'[k].candidate = attempt[k].candidate
<1>1. attempt[k] \in Attempt /\ attempt \in [Keys -> Attempt] BY DEF TypeOK
<1> DEFINE pc == IF Stored(k) = Absent THEN "remove"
                 ELSE IF Stored(k).deleting THEN "observe" ELSE "acquire"
<1>2. attempt' = [attempt EXCEPT ![k].pc = pc, ![k].object = Stored(k)]
  BY DEF Get
<1> HIDE DEF pc
<1>3. /\ attempt'[k].pc = pc /\ attempt'[k].object = Stored(k)
      /\ attempt'[k].lease = attempt[k].lease
      /\ attempt'[k].candidate = attempt[k].candidate
  BY <1>1, <1>2 DEF Attempt
<1>4. /\ attempt'[k].cancelled = attempt[k].cancelled
      /\ attempt'[k].retry = attempt[k].retry
  BY <1>1, <1>2 DEF Attempt
<1> QED BY <1>3, <1>4 DEF pc

(* Acquire makes the lease of the object and the present epoch. *)
LEMMA AcquireEffect ==
    ASSUME TypeOK, NEW k \in Keys, Acquire(k), tracked[k].active = NoLease
    PROVE  /\ attempt'[k].pc = "validate"
           /\ attempt'[k].lease.uid = attempt[k].object.uid
           /\ attempt'[k].lease.gen = attempt[k].object.gen
           /\ attempt'[k].lease.epoch = epoch
           /\ tracked'[k].uid = attempt[k].object.uid
           /\ tracked'[k].gen = attempt[k].object.gen
           /\ ~tracked'[k].deleting /\ ~tracked'[k].absent
           /\ tracked'[k].policyEpoch = epoch
           /\ tracked'[k].active = attempt'[k].lease
           /\ attempt'[k].object = attempt[k].object
           /\ attempt'[k].cancelled = attempt[k].cancelled
           /\ attempt'[k].retry = attempt[k].retry
           /\ attempt'[k].candidate = attempt[k].candidate
           /\ queue' = queue
<1>1. attempt[k] \in Attempt /\ attempt \in [Keys -> Attempt]
      /\ tracked \in [Keys -> Tracked]
  BY DEF TypeOK
<1> DEFINE lease == [uid |-> attempt[k].object.uid,
                     gen |-> attempt[k].object.gen, epoch |-> epoch]
<1>2. /\ attempt' = [attempt EXCEPT ![k].pc = "validate", ![k].lease = lease]
      /\ tracked' = [tracked EXCEPT
           ![k] = [uid |-> attempt[k].object.uid, gen |-> attempt[k].object.gen,
                   deleting |-> FALSE, absent |-> FALSE,
                   policyEpoch |-> epoch, active |-> lease]]
      /\ queue' = queue
  BY DEF Acquire
<1> HIDE DEF lease
<1>3. /\ attempt'[k].pc = "validate" /\ attempt'[k].lease = lease
      /\ attempt'[k].object = attempt[k].object
      /\ attempt'[k].candidate = attempt[k].candidate
  BY <1>1, <1>2 DEF Attempt
<1>4. /\ attempt'[k].cancelled = attempt[k].cancelled
      /\ attempt'[k].retry = attempt[k].retry
  BY <1>1, <1>2 DEF Attempt
<1>5. lease.uid = attempt[k].object.uid /\ lease.gen = attempt[k].object.gen
      /\ lease.epoch = epoch
  BY DEF lease
<1>6. tracked'[k] = [uid |-> attempt[k].object.uid, gen |-> attempt[k].object.gen,
                     deleting |-> FALSE, absent |-> FALSE,
                     policyEpoch |-> epoch, active |-> lease]
  BY <1>1, <1>2
<1>7. /\ tracked'[k].uid = attempt[k].object.uid
      /\ tracked'[k].gen = attempt[k].object.gen
      /\ ~tracked'[k].deleting /\ ~tracked'[k].absent
      /\ tracked'[k].policyEpoch = epoch /\ tracked'[k].active = lease
  BY <1>6
<1> QED BY <1>2, <1>3, <1>4, <1>5, <1>7

(* LoadPolicy takes the present policy, or leaves the attempt to a retry. *)
LEMMA LoadEffect ==
    ASSUME TypeOK, NEW k \in Keys, LoadPolicy(k)
    PROVE  /\ attempt'[k].pc = "replace" /\ Kept(k)
           /\ attempt'[k].read = attempt[k].read
           /\ attempt'[k].candidate.gen = attempt[k].candidate.gen
           /\ attempt'[k].candidate.source = attempt[k].candidate.source
           /\ attempt'[k].candidate.outcome = attempt[k].candidate.outcome
           /\ \/ /\ attempt'[k].retry = attempt[k].retry
                 /\ attempt'[k].candidate.policy = policy
              \/ /\ attempt'[k].retry = TRUE
                 /\ attempt'[k].candidate.policy = attempt[k].candidate.policy
<1>1. attempt[k] \in Attempt /\ attempt \in [Keys -> Attempt]
      /\ attempt[k].candidate \in Status
  BY DEF TypeOK, Attempt
<1>2. CASE attempt' = [attempt EXCEPT ![k].pc = "replace",
                                      ![k].candidate.policy = policy]
  <2>1. attempt'[k].candidate = [attempt[k].candidate EXCEPT !.policy = policy]
    BY <1>1, <1>2 DEF Attempt
  <2>2. /\ attempt'[k].candidate.policy = policy
        /\ attempt'[k].candidate.gen = attempt[k].candidate.gen
        /\ attempt'[k].candidate.source = attempt[k].candidate.source
        /\ attempt'[k].candidate.outcome = attempt[k].candidate.outcome
    BY <1>1, <2>1 DEF Status
  <2>3. attempt'[k].pc = "replace" /\ attempt'[k].read = attempt[k].read
    BY <1>1, <1>2 DEF Attempt
  <2>4. Kept(k) BY <1>1, <1>2 DEF Attempt, Kept
  <2>5. attempt'[k].retry = attempt[k].retry BY <1>1, <1>2 DEF Attempt
  <2> QED BY <2>2, <2>3, <2>4, <2>5
<1>3. CASE attempt' = [attempt EXCEPT ![k].pc = "replace", ![k].retry = TRUE]
  <2>1. /\ attempt'[k].pc = "replace" /\ attempt'[k].read = attempt[k].read
        /\ attempt'[k].candidate = attempt[k].candidate
    BY <1>1, <1>3 DEF Attempt
  <2>2. Kept(k) BY <1>1, <1>3 DEF Attempt, Kept
  <2>3. attempt'[k].retry = TRUE BY <1>1, <1>3 DEF Attempt
  <2> QED BY <2>1, <2>2, <2>3
<1> QED BY <1>2, <1>3 DEF LoadPolicy

(* Compose, the publisher's read and the deadline only note what they saw. *)
LEMMA NotingEffect ==
    ASSUME TypeOK, NEW k \in Keys, Compose(k) \/ PublishRead(k) \/ Expire(k)
    PROVE  /\ Kept(k)
           /\ attempt'[k].retry = attempt[k].retry
           /\ attempt'[k].candidate = attempt[k].candidate
           /\ attempt'[k].pc = IF Compose(k) THEN "publish"
                               ELSE IF PublishRead(k) THEN "compare"
                               ELSE attempt[k].pc
           /\ attempt'[k].read = IF PublishRead(k) THEN Len(history[k])
                                                   ELSE attempt[k].read
<1>1. attempt[k] \in Attempt /\ attempt \in [Keys -> Attempt] BY DEF TypeOK
<1>2. CASE Compose(k)
  <2> DEFINE context == IF attempt[k].expired THEN "lease" ELSE "evaluation"
  <2>1. attempt' = [attempt EXCEPT ![k].pc = "publish", ![k].context = context]
    BY <1>2 DEF Compose
  <2>2. ~PublishRead(k) BY <1>2 DEF Compose, PublishRead
  <2> HIDE DEF context
  <2>3. /\ attempt'[k].pc = "publish" /\ attempt'[k].read = attempt[k].read
        /\ attempt'[k].candidate = attempt[k].candidate
    BY <1>1, <2>1 DEF Attempt
  <2>4. Kept(k) BY <1>1, <2>1 DEF Attempt, Kept
  <2>5. attempt'[k].retry = attempt[k].retry BY <1>1, <2>1 DEF Attempt
  <2> QED BY <1>2, <2>2, <2>3, <2>4, <2>5
<1>3. CASE PublishRead(k)
  <2>1. attempt' = [attempt EXCEPT ![k].pc = "compare", ![k].read = Len(history[k])]
    BY <1>3 DEF PublishRead
  <2>2. ~Compose(k) BY <1>3 DEF Compose, PublishRead
  <2>3. /\ attempt'[k].pc = "compare" /\ attempt'[k].read = Len(history[k])
        /\ attempt'[k].candidate = attempt[k].candidate
    BY <1>1, <2>1 DEF Attempt
  <2>4. Kept(k) BY <1>1, <2>1 DEF Attempt, Kept
  <2>5. attempt'[k].retry = attempt[k].retry BY <1>1, <2>1 DEF Attempt
  <2> QED BY <1>3, <2>2, <2>3, <2>4, <2>5
<1>4. CASE Expire(k) /\ ~Compose(k) /\ ~PublishRead(k)
  <2>1. attempt' = [attempt EXCEPT ![k].expired = TRUE] BY <1>4 DEF Expire
  <2>3. /\ attempt'[k].pc = attempt[k].pc /\ attempt'[k].read = attempt[k].read
        /\ attempt'[k].candidate = attempt[k].candidate
    BY <1>1, <2>1 DEF Attempt
  <2>4. Kept(k) BY <1>1, <2>1 DEF Attempt, Kept
  <2>5. attempt'[k].retry = attempt[k].retry BY <1>1, <2>1 DEF Attempt
  <2> QED BY <1>4, <2>3, <2>4, <2>5
<1> QED BY <1>2, <1>3, <1>4

----------------------------------------------------------------------------
(* The history and the informer. *)

(* A cluster step appends one state; what it appends is no nameless object. *)
LEMMA ClusterEffect ==
    ASSUME TypeOK, NEW k \in Keys, HistoryInv(k), ClusterStep(k)
    PROVE  \E o \in Object :
             /\ o = Absent \/ o.uid # 0
             /\ history' = [history EXCEPT ![k] = Append(history[k], o)]
             /\ UNCHANGED <<policy, source, notify, OutsideCluster>>
<1>1. Stored(k) \in Object /\ Len(history[k]) \in Nat \ {0}
      /\ (Stored(k) = Absent \/ Stored(k).uid # 0)
  BY HistoryTyped DEF Stored, HistoryInv
<1>2. CASE CreateFacet(k)
  <2>1. PICK valid \in BOOLEAN :
          Append1(k, [uid |-> Len(history[k]), gen |-> 1, deleting |-> FALSE,
                      valid |-> valid])
    BY <1>2 DEF CreateFacet
  <2> DEFINE o == [uid |-> Len(history[k]), gen |-> 1, deleting |-> FALSE,
                   valid |-> valid]
  <2>2. o \in Object /\ o.uid # 0 BY <1>1 DEF Object
  <2> QED BY <1>2, <2>1, <2>2 DEF Append1, CreateFacet
<1>3. CASE UpdateFacet(k)
  <2>1. PICK valid \in BOOLEAN :
          Append1(k, [Stored(k) EXCEPT !.gen = @ + 1, !.valid = valid])
    BY <1>3 DEF UpdateFacet
  <2> DEFINE o == [Stored(k) EXCEPT !.gen = @ + 1, !.valid = valid]
  <2>2. o \in Object BY <1>1, ChangedTyped
  <2>3. o.uid = Stored(k).uid BY <1>1 DEF Object
  <2> QED BY <1>1, <1>3, <2>1, <2>2, <2>3 DEF Append1, UpdateFacet
<1>4. CASE MarkDeleting(k)
  <2> DEFINE o == [Stored(k) EXCEPT !.gen = @ + 1, !.deleting = TRUE]
  <2>2. o \in Object BY <1>1, ChangedTyped
  <2>3. o.uid = Stored(k).uid BY <1>1 DEF Object
  <2> QED BY <1>1, <1>4, <2>2, <2>3 DEF Append1, MarkDeleting
<1>5. CASE DeleteFacet(k)
  BY <1>5, ConstantsTyped DEF DeleteFacet, Append1
<1> QED BY <1>2, <1>3, <1>4, <1>5 DEF ClusterStep

(* Events are delivered of states that are there, and none is nameless. *)
LEMMA HistoryStep ==
    ASSUME TypeOK, NEW k \in Keys, HistoryInv(k), [Next]_vars
    PROVE  HistoryInv(k)'
<1>a. /\ history \in [Keys -> Seq(Object) \ {<<>>}]
      /\ history[k] \in Seq(Object) /\ Len(history[k]) \in Nat \ {0}
      /\ observed \in [Keys -> Nat \ {0}]
  BY HistoryTyped DEF TypeOK
<1>1. CASE history'[k] = history[k] /\ observed'[k] = observed[k]
  BY <1>1 DEF HistoryInv
<1>2. CASE ClusterStep(k)
  <2>1. PICK o \in Object :
          /\ o = Absent \/ o.uid # 0
          /\ history' = [history EXCEPT ![k] = Append(history[k], o)]
          /\ UNCHANGED OutsideCluster
    BY <1>2, ClusterEffect
  <2>2. history'[k] = Append(history[k], o) /\ observed' = observed
    BY <1>a, <2>1 DEF OutsideCluster
  <2>3. Len(Append(history[k], o)) = Len(history[k]) + 1 BY <1>a
  <2>4. \A v \in 1 .. Len(history[k]) : Append(history[k], o)[v] = history[k][v]
    BY <1>a
  <2>5. Append(history[k], o)[Len(history[k]) + 1] = o BY <1>a
  <2>6. observed'[k] \in 1 .. Len(history'[k])
    BY <1>a, <2>2, <2>3 DEF HistoryInv
  <2>7. ASSUME NEW v \in 1 .. Len(history'[k])
        PROVE  history'[k][v] = Absent \/ history'[k][v].uid # 0
    <3>1. v \in 1 .. Len(history[k]) \/ v = Len(history[k]) + 1
      BY <1>a, <2>2, <2>3
    <3> QED BY <2>1, <2>2, <2>4, <2>5, <3>1 DEF HistoryInv
  <2> QED BY <2>6, <2>7 DEF HistoryInv
<1>3. CASE DeliverEvent(k)
  <2>1. PICK v \in observed[k] + 1 .. Len(history[k]) :
          observed' = [observed EXCEPT ![k] = v]
    BY <1>3 DEF DeliverEvent
  <2>2. v \in 1 .. Len(history[k]) BY <1>a DEF HistoryInv
  <2> QED BY <1>3, <1>a, <2>1, <2>2 DEF DeliverEvent, cluster, HistoryInv
<1>4. CASE Restart
  <2>1. history' = history /\ observed'[k] \in DOMAIN history[k]
    BY <1>4 DEF Restart, cluster
  <2> QED BY <1>a, <2>1 DEF HistoryInv
<1>5. \/ history'[k] = history[k] /\ observed'[k] = observed[k]
      \/ ClusterStep(k) \/ DeliverEvent(k) \/ Restart
  <2>1. CASE Same(k) BY <2>1 DEF Same
  <2>2. CASE OwnStep(k)
    BY <2>2, AttemptFrame DEF OwnStep, HandlerStep, HandlerRemove,
       HandlerEnqueue, QueueTrigger, LapseTrigger, RouteEvent, OutsideIngress,
       cluster, informer
  <2>3. CASE GlobalStep
    BY <2>3 DEF GlobalStep, ChangePolicy, ChangeSource, PolicyStep,
       DeliverPolicy, PolicyRemoveAll, PolicyRequest, SafetyTick,
       OutsideCluster, OutsideIngress, cluster, informer
  <2> QED BY <2>1, <2>2, <2>3, StepsOfKey
<1> QED BY <1>1, <1>2, <1>3, <1>4, <1>5

----------------------------------------------------------------------------
(* The lease and the attempt that holds it. *)

(* cancelActive only raises the flag, and only where a lease is active. *)
LEMMA CancelledFields ==
    ASSUME NEW k \in Keys, attempt[k] \in Attempt, NEW v, v = Cancelled(k)
    PROVE  /\ v.pc = attempt[k].pc /\ v.object = attempt[k].object
           /\ v.lease = attempt[k].lease /\ v.candidate = attempt[k].candidate
           /\ v.read = attempt[k].read
           /\ v.cancelled = (attempt[k].cancelled \/ tracked[k].active # NoLease)
           /\ v.retry = attempt[k].retry
<1>1. CASE tracked[k].active # NoLease
  <2>1. v = [attempt[k] EXCEPT !.cancelled = TRUE] BY <1>1 DEF Cancelled
  <2>2. v.cancelled = TRUE BY <2>1 DEF Attempt
  <2>3. v.retry = attempt[k].retry BY <2>1 DEF Attempt
  <2>4. /\ v.pc = attempt[k].pc /\ v.object = attempt[k].object
        /\ v.lease = attempt[k].lease /\ v.candidate = attempt[k].candidate
        /\ v.read = attempt[k].read
    BY <2>1 DEF Attempt
  <2> QED BY <1>1, <2>2, <2>3, <2>4
<1>2. CASE tracked[k].active = NoLease
  <2>1. v = attempt[k] BY <1>2 DEF Cancelled
  <2>2. attempt[k].cancelled \in BOOLEAN BY DEF Attempt
  <2> QED BY <1>2, <2>1, <2>2
<1> QED BY <1>1, <1>2

(* The epochs of the tracker and of a lease are numbers. *)
LEMMA EpochsTyped ==
    ASSUME TypeOK, NEW k \in Keys
    PROVE  /\ attempt[k] \in Attempt /\ attempt[k].lease \in Lease
           /\ attempt[k].lease.epoch \in Nat /\ epoch \in Nat
BY BoundsAssumption DEF TypeOK, Attempt, Lease

(* Whoever drops the active lease cancels the attempt. *)
LEMMA LeaseTaken ==
    ASSUME TypeOK, LeaseHeld, NEW k \in Keys, LeaseInv(k),
           attempt'[k] = Cancelled(k), tracked'[k].active = NoLease,
           epoch' \in Nat, epoch <= epoch', routes'[k] = routes[k]
    PROVE  LeaseInv(k)'
<1>a. attempt[k] \in Attempt /\ attempt[k].lease.epoch \in Nat /\ epoch \in Nat
  BY EpochsTyped
<1>1. /\ attempt'[k].pc = attempt[k].pc
      /\ attempt'[k].object = attempt[k].object
      /\ attempt'[k].lease = attempt[k].lease
      /\ attempt'[k].candidate = attempt[k].candidate
      /\ attempt'[k].cancelled = (attempt[k].cancelled \/ tracked[k].active # NoLease)
  BY <1>a, CancelledFields
<1>2. attempt[k].pc \in Unleased => tracked[k].active = NoLease
  BY DEF LeaseHeld, LeaseInv
<1>3. attempt[k].pc \notin Unleased => attempt'[k].cancelled
  <2>1. attempt[k].pc \notin Unleased => attempt[k].lease.uid # 0
    BY DEF LeaseInv, Unleased
  <2>2. attempt[k].pc \notin Unleased => attempt[k].lease # NoLease
    BY <2>1 DEF NoLease
  <2> QED BY <1>1, <2>2 DEF LeaseInv
<1>4. attempt[k].lease.epoch <= epoch => attempt[k].lease.epoch <= epoch'
  BY <1>a
<1> QED BY <1>1, <1>2, <1>3, <1>4 DEF LeaseInv

(* The fields of Idle satisfy the invariant. *)
LEMMA IdleLease ==
    ASSUME NEW k \in Keys, attempt'[k] = Idle PROVE LeaseInv(k)'
BY IdleFields DEF LeaseInv, Unleased

(* The steps of an attempt that end it ... *)
Ends(k) ==
    /\ attempt'[k] = Idle
    /\ \/ GetFails(k) \/ MarkAbsent(k)
       \/ Acquire(k) /\ tracked[k].active # NoLease
       \/ StageInterrupted(k) \/ InstallStale(k) \/ WaitFails(k)
       \/ PublishSkips(k) \/ PublishDeleting(k) \/ PublishFails(k)
       \/ PublishCompare(k) \/ PublishWrite(k)

(* ... that go on under the same lease ... *)
Continues(k) ==
    /\ attempt[k].pc \notin Unleased /\ attempt'[k].pc \notin Unleased
    /\ Kept(k) /\ tracked'[k] = tracked[k]

(* ... and that come before it. *)
Prepares(k) ==
    \/ Begin(k) \/ Get(k)
    \/ (ObserveDeleting(k) \/ RemoveRoutes(k)) /\ attempt'[k].object = attempt[k].object
    \/ Acquire(k) /\ tracked[k].active = NoLease

(* There are no others. *)
LEMMA AttemptKinds ==
    ASSUME TypeOK, NEW k \in Keys, LeaseInv(k), AttemptStep(k) \/ Expire(k)
    PROVE  Ends(k) \/ Continues(k) \/ Prepares(k)
<1>b. attempt[k] \in Attempt BY DEF TypeOK
<1>1. CASE Begin(k) \/ Get(k) BY <1>1 DEF Prepares
<1>2. CASE ObserveDeleting(k) \/ RemoveRoutes(k)
  BY <1>2, MoveEffect DEF Prepares, ObserveDeleting, RemoveRoutes
<1>3. CASE GetFails(k) \/ StageInterrupted(k) \/ InstallStale(k)
           \/ PublishSkips(k) \/ PublishDeleting(k) \/ PublishFails(k)
           \/ PublishWrite(k)
  <2>1. attempt'[k] = Idle
    BY <1>3, FinishEffect DEF GetFails, StageInterrupted, InstallStale,
       PublishSkips, Skip, PublishDeleting, PublishFails, PublishWrite
  <2> QED BY <1>3, <2>1 DEF Ends
<1>4. CASE MarkAbsent(k)
  <2>1. attempt'[k] = Idle BY <1>4 DEF MarkAbsent, TypeOK
  <2> QED BY <1>4, <2>1 DEF Ends
<1>5. CASE Acquire(k)
  BY <1>5, FinishEffect DEF Acquire, Ends, Prepares
<1>6. CASE StageTimesOut(k)
  <2>1. attempt'[k] = Verdict(k, "timedOut")
    BY <1>6 DEF StageTimesOut, TimeoutCandidate, TypeOK
  <2>2. Kept(k) /\ attempt'[k].pc = "publish"
    BY <1>b, <2>1, VerdictFields DEF Kept
  <2> QED BY <1>6, <2>2 DEF StageTimesOut, Stages, Unleased, Continues
<1>7. CASE Validate(k)
  <2>1. CASE Move(k, "load")
    BY <1>7, <2>1, MoveEffect DEF Validate, Kept, Unleased, Continues
  <2>2. CASE attempt' = [attempt EXCEPT ![k] = Verdict(k, "rejected")]
    <3>1. attempt'[k] = Verdict(k, "rejected") BY <2>2 DEF TypeOK
    <3>2. Kept(k) /\ attempt'[k].pc = "publish"
      BY <1>b, <3>1, VerdictFields DEF Kept
    <3> QED BY <1>7, <3>2 DEF Validate, Unleased, Continues
  <2> QED BY <1>7, <2>1, <2>2 DEF Validate
<1>8. CASE LoadPolicy(k)
  BY <1>8, LoadEffect DEF LoadPolicy, Unleased, Continues
<1>9. CASE Replace(k) \/ Install(k) \/ WatchReady(k)
  BY <1>9, MoveEffect
     DEF Replace, Install, WatchReady, Kept, Unleased, Continues
<1>10. CASE WaitFails(k)
  <2>1. CASE Finish(k, FALSE) BY <1>10, <2>1, FinishEffect DEF Ends
  <2>2. CASE attempt' = [attempt EXCEPT ![k] = TimeoutCandidate(k)]
             /\ UNCHANGED tracked
    <3>1. attempt'[k] = Verdict(k, "timedOut")
      BY <2>2 DEF TimeoutCandidate, TypeOK
    <3>2. Kept(k) /\ attempt'[k].pc = "publish"
      BY <1>b, <3>1, VerdictFields DEF Kept
    <3> QED BY <1>10, <2>2, <3>2 DEF WaitFails, Unleased, Continues
  <2> QED BY <1>10, <2>1, <2>2 DEF WaitFails
<1>11. CASE Evaluate(k)
  <2>1. PICK outcome : attempt'[k] = Evaluated(k, outcome)
    BY <1>11 DEF Evaluate, TypeOK
  <2>2. Kept(k) /\ attempt'[k].pc \in {"publish", "compose"}
    BY <1>b, <2>1, EvaluatedFields DEF Kept
  <2> QED BY <1>11, <2>2 DEF Evaluate, Unleased, Continues
<1>12. CASE Compose(k) \/ PublishRead(k)
  BY <1>12, NotingEffect DEF Compose, PublishRead, Unleased, Continues
<1>13. CASE Expire(k) /\ ~Compose(k) /\ ~PublishRead(k)
  <2>1. attempt[k].pc \notin Unleased BY <1>13 DEF Expire, LeaseInv
  <2> QED BY <1>13, <2>1, NotingEffect DEF Expire, Continues
<1>14. CASE PublishCompare(k)
  <2>1. CASE Finish(k, attempt[k].retry) BY <1>14, <2>1, FinishEffect DEF Ends
  <2>2. CASE Move(k, "write") /\ UNCHANGED tracked
    BY <1>14, <2>2, MoveEffect DEF PublishCompare, Kept, Unleased, Continues
  <2> QED BY <1>14, <2>1, <2>2 DEF PublishCompare
<1> QED BY <1>1, <1>2, <1>3, <1>4, <1>5, <1>6, <1>7, <1>8, <1>9, <1>10, <1>11,
           <1>12, <1>13, <1>14 DEF AttemptStep

(* Every step of the attempt keeps the invariant. *)
LEMMA AttemptLease ==
    ASSUME TypeOK, LeaseHeld, NEW k \in Keys, HistoryInv(k), LeaseInv(k),
           AttemptStep(k) \/ Expire(k)
    PROVE  LeaseInv(k)'
<1>a. epoch' = epoch BY AttemptFrame
<1>b. Stored(k) \in Object /\ (Stored(k) = Absent \/ Stored(k).uid # 0)
  BY HistoryTyped DEF HistoryInv, Stored
<1>1. CASE Ends(k) BY <1>1, IdleLease DEF Ends
<1>2. CASE Continues(k)
  BY <1>2, <1>a DEF Continues, LeaseInv, Kept, Unleased
<1>3. CASE Begin(k)
  BY <1>3, MoveEffect DEF Begin, LeaseInv, Unleased
<1>4. CASE Get(k)
  <2>1. /\ attempt'[k].lease = NoLease /\ ~attempt'[k].cancelled
        /\ attempt'[k].candidate = NoStatus /\ attempt'[k].object = Stored(k)
    BY <1>4, GetEffect DEF Get, LeaseInv, Unleased
  <2>2. Absent.deleting = FALSE BY DEF Absent
  <2>3. \/ attempt'[k].pc = "remove" /\ Stored(k) = Absent
        \/ attempt'[k].pc = "observe" /\ Stored(k).deleting
        \/ attempt'[k].pc = "acquire" /\ Stored(k) # Absent /\ ~Stored(k).deleting
    BY <1>4, GetEffect
  <2> QED BY <1>b, <2>1, <2>2, <2>3 DEF LeaseInv, Unleased
<1>5. CASE ObserveDeleting(k)
  BY <1>5, MoveEffect DEF ObserveDeleting, LeaseInv, Unleased
<1>6. CASE RemoveRoutes(k)
  BY <1>6, MoveEffect DEF RemoveRoutes, RemoveOwner, LeaseInv, Unleased, TypeOK
<1>7. CASE Acquire(k) /\ tracked[k].active = NoLease
  <2>1. /\ attempt'[k].lease.uid = attempt[k].object.uid
        /\ attempt'[k].lease.gen = attempt[k].object.gen
        /\ attempt'[k].lease.epoch = epoch
        /\ tracked'[k].active = attempt'[k].lease
    BY <1>7, AcquireEffect
  <2>2. epoch <= epoch BY BoundsAssumption DEF TypeOK
  <2>3. attempt'[k].pc = "validate" /\ attempt'[k].object = attempt[k].object
    BY <1>7, AcquireEffect
  <2> QED BY <1>7, <1>a, <2>1, <2>2, <2>3 DEF Acquire, LeaseInv, Unleased
<1> QED BY <1>1, <1>2, <1>3, <1>4, <1>5, <1>6, <1>7, AttemptKinds DEF Prepares

(* ... and so does every step of anyone else. *)
LEMMA LeaseStep ==
    ASSUME TypeOK, TypeOK', LeaseHeld, NEW k \in Keys, HistoryInv(k), LeaseInv(k),
           [Next]_vars
    PROVE  LeaseInv(k)'
<1> USE DEF OutsideCluster, OutsideIngress, cluster, informer
<1>a. epoch \in Nat /\ epoch' \in Nat BY BoundsAssumption DEF TypeOK
<1>1. CASE /\ attempt'[k] = attempt[k] /\ tracked'[k].active = tracked[k].active
           /\ epoch' = epoch /\ routes'[k] \in {routes[k], NoLease}
  BY <1>1 DEF LeaseInv
<1>2. CASE DeliverEvent(k)
  <2>1. PICK v \in observed[k] + 1 .. Len(history[k]) :
          HandleEvent(k, history[k][observed[k]], history[k][v])
    BY <1>2 DEF DeliverEvent
  <2>2. epoch' = epoch /\ routes' = routes BY <1>2 DEF DeliverEvent
  <2>3. tracked[k] \in Tracked /\ tracked \in [Keys -> Tracked]
        /\ attempt \in [Keys -> Attempt]
    BY DEF TypeOK
  <2>4. CASE ObserveDelete(k, history[k][observed[k]].uid)
    <3>1. attempt'[k] = Cancelled(k) /\ tracked'[k].active = NoLease
      BY <2>3, <2>4 DEF ObserveDelete, MarkedAbsent, Tracked
    <3> QED BY <1>a, <2>2, <3>1, LeaseTaken
  <2>5. CASE Observe(k, history[k][v])
    <3>1. CASE changedIdentity(k, history[k][v])
      <4>1. attempt'[k] = Cancelled(k) /\ tracked'[k].active = NoLease
        BY <2>3, <2>5, <3>1 DEF Observe
      <4> QED BY <1>a, <2>2, <4>1, LeaseTaken
    <3>2. CASE ~changedIdentity(k, history[k][v])
      BY <1>1, <2>2, <2>3, <2>5, <3>2 DEF Observe
    <3> QED BY <3>1, <3>2
  <2> QED BY <2>1, <2>4, <2>5 DEF HandleEvent
<1>3. CASE DeliverPolicy
  <2>1. tracked[k] \in Tracked BY DEF TypeOK
  <2>2. attempt'[k] = Cancelled(k) /\ tracked'[k].active = NoLease
    BY <1>3, <2>1 DEF DeliverPolicy, InvalidateAll, Tracked
  <2>3. epoch' = epoch + 1 /\ routes' = routes
    BY <1>3 DEF DeliverPolicy, InvalidateAll
  <2>4. epoch <= epoch' BY <1>a, <2>3
  <2> QED BY <1>a, <2>2, <2>3, <2>4, LeaseTaken
<1>4. CASE Restart BY <1>4, IdleLease DEF Restart
<1>5. \/ /\ attempt'[k] = attempt[k] /\ tracked'[k].active = tracked[k].active
         /\ epoch' = epoch /\ routes'[k] \in {routes[k], NoLease}
      \/ DeliverEvent(k) \/ DeliverPolicy \/ Restart
      \/ AttemptStep(k) \/ Expire(k)
  <2>1. CASE Same(k) BY <2>1 DEF Same
  <2>2. CASE ClusterStep(k)
    BY <2>2, ClusterEffect
  <2>3. CASE OwnStep(k) /\ ~ClusterStep(k)
    BY <2>3 DEF OwnStep, HandlerStep, HandlerRemove, HandlerEnqueue,
       RemoveOwner, QueueTrigger, LapseTrigger, RouteEvent, TypeOK
  <2>4. CASE GlobalStep
    BY <2>4 DEF GlobalStep, ChangePolicy, ChangeSource, PolicyStep,
       PolicyRemoveAll, RemoveAll, PolicyRequest, SafetyTick
  <2> QED BY <2>1, <2>2, <2>3, <2>4, StepsOfKey
<1> QED BY <1>1, <1>2, <1>3, <1>4, <1>5, AttemptLease

----------------------------------------------------------------------------
(* How a Facet comes to be settled. *)

(* Of all the steps that are not the controller's own, only a change of the  *)
(* sources and the event of a stale binding leave a Facet settled.           *)
LEMMA SettledStep ==
    ASSUME TypeOK, EpochBound, NEW k \in Keys, HistoryInv(k), [Next]_vars,
           Settled(k)'
    PROVE  \/ Same(k) \/ ChangeSource \/ AttemptStep(k) \/ Expire(k)
           \/ RouteEvent(k) /\ ~IsLeaseCurrent(k, routes[k])
<1> USE DEF OutsideCluster, OutsideIngress, cluster, informer
<1>s. /\ observed'[k] = Len(history'[k]) /\ handler'[k] = "idle"
      /\ policySeen' = policy' /\ policyPC' = "idle"
      /\ k \notin owed' /\ k \notin queue' /\ Stored(k)' # Absent
  BY DEF Settled, Behind
<1>1. CASE ClusterStep(k)
  <2>1. PICK o \in Object :
          /\ history' = [history EXCEPT ![k] = Append(history[k], o)]
          /\ UNCHANGED OutsideCluster
    BY <1>1, ClusterEffect
  <2>2. history[k] \in Seq(Object) /\ Len(history[k]) \in Nat BY DEF TypeOK
  <2>3. Len(Append(history[k], o)) = Len(history[k]) + 1 BY <2>2
  <2>4. observed' = observed /\ history'[k] = Append(history[k], o)
    BY <2>1 DEF TypeOK
  <2>5. observed[k] \in 1 .. Len(history[k]) BY DEF HistoryInv
  <2> QED BY <1>s, <2>2, <2>3, <2>4, <2>5
<1>2. CASE HandlerStep(k)
  <2>1. CASE DeliverEvent(k)
    <3>1. handler'[k] # "idle" BY <2>1 DEF DeliverEvent, HandleEvent, TypeOK
    <3> QED BY <1>s, <3>1
  <2>2. CASE HandlerRemove(k) \/ HandlerEnqueue(k)
    BY <1>s, <2>2 DEF HandlerRemove, HandlerEnqueue, TypeOK
  <2> QED BY <1>2, <2>1, <2>2 DEF HandlerStep
<1>3. CASE QueueTrigger(k) BY <1>s, <1>3 DEF QueueTrigger
<1>4. CASE LapseTrigger(k)
  BY <1>s, <1>4 DEF LapseTrigger, Existing, Stored
<1>5. CASE RouteEvent(k) BY <1>s, <1>5 DEF RouteEvent
<1>6. CASE ChangePolicy
  <2>1. policy' = policy + 1 /\ policySeen' = policySeen BY <1>6 DEF ChangePolicy
  <2>2. policy \in Nat /\ policySeen \in Nat BY BoundsAssumption DEF TypeOK
  <2> QED BY <1>s, <2>1, <2>2 DEF EpochBound
<1>7. CASE PolicyStep
  BY <1>s, <1>7 DEF PolicyStep, DeliverPolicy, PolicyRemoveAll, PolicyRequest,
     Existing, Stored
<1>8. CASE SafetyTick BY <1>s, <1>8 DEF SafetyTick, Existing, Stored
<1>9. CASE Restart BY <1>s, <1>9 DEF Restart, Existing, Stored
<1> QED BY <1>1, <1>2, <1>3, <1>4, <1>5, <1>6, <1>7, <1>8, <1>9, StepsOfKey
        DEF OwnStep, GlobalStep

(* It was settled before, unless an attempt has just taken the last trigger, *)
(* and it is the same object under the same policy.                          *)
LEMMA SettledBefore ==
    ASSUME TypeOK, EpochBound, NEW k \in Keys, HistoryInv(k), [Next]_vars,
           Settled(k)'
    PROVE  /\ Settled(k) \/ Begin(k)
           /\ Stored(k)' = Stored(k) /\ UNCHANGED <<policy, epoch>>
<1> USE DEF OutsideCluster, OutsideIngress, cluster, informer
<1>1. CASE Same(k)
  BY <1>1 DEF Same, Settled, Behind, Stored
<1>2. CASE ChangeSource
  BY <1>2 DEF ChangeSource, Settled, Behind, Stored
<1>3. CASE RouteEvent(k) /\ ~IsLeaseCurrent(k, routes[k])
  BY <1>3 DEF RouteEvent, Settled, Behind, Stored
<1>4. CASE AttemptStep(k) \/ Expire(k)
  <2>1. UNCHANGED <<history, policy, observed, policySeen, handler, policyPC,
                    epoch, owed>>
    BY <1>4, AttemptFrame
  <2>2. k \in queue => k \in queue' \/ Begin(k)
    <3>1. CASE Get(k) \/ GetFails(k) \/ ObserveDeleting(k) \/ RemoveRoutes(k)
               \/ MarkAbsent(k) \/ Acquire(k) \/ Expire(k)
      BY <3>1 DEF Get, GetFails, ObserveDeleting, RemoveRoutes, MarkAbsent,
         Acquire, Expire, Finish
    <3>2. CASE StageInterrupted(k) \/ StageTimesOut(k) \/ Validate(k)
               \/ LoadPolicy(k) \/ Replace(k) \/ Install(k) \/ InstallStale(k)
               \/ WatchReady(k) \/ WaitFails(k)
      BY <3>2 DEF StageInterrupted, StageTimesOut, Validate, LoadPolicy, Replace,
         Install, InstallStale, WatchReady, WaitFails, Finish
    <3>3. CASE Evaluate(k) \/ Compose(k) \/ PublishRead(k) \/ PublishSkips(k)
               \/ PublishDeleting(k) \/ PublishFails(k) \/ PublishCompare(k)
               \/ PublishWrite(k)
      BY <3>3 DEF Evaluate, Compose, PublishRead, PublishSkips, Skip,
         PublishDeleting, PublishFails, PublishCompare, PublishWrite, Finish
    <3> QED BY <1>4, <3>1, <3>2, <3>3 DEF AttemptStep
  <2> QED BY <2>1, <2>2 DEF Settled, Behind, Stored
<1> QED BY <1>1, <1>2, <1>3, <1>4, SettledStep

----------------------------------------------------------------------------
(* The attempt of a settled Facet. *)

(* A settled Facet's attempt works on what is stored, under a current lease. *)
LEMMA SettledInvStep ==
    ASSUME TypeOK, EpochBound, NEW k \in Keys, HistoryInv(k), LeaseInv(k),
           SettledInv(k), [Next]_vars
    PROVE  SettledInv(k)'
<1> SUFFICES ASSUME Settled(k)'
             PROVE  /\ attempt'[k].pc \notin {"idle", "get"}
                         => attempt'[k].object = Stored(k)
                    /\ attempt'[k].pc \notin Unleased
                         => ~attempt'[k].cancelled /\ IsLeaseCurrent(k, attempt[k].lease)'
  BY SettledBefore DEF SettledInv
<1>1. Settled(k) \/ Begin(k) BY SettledBefore
<1>2. Stored(k)' = Stored(k) /\ epoch' = epoch BY SettledBefore
<1>3. CASE ~(AttemptStep(k) \/ Expire(k))
  <2>1. attempt'[k] = attempt[k] /\ tracked'[k] = tracked[k]
    BY <1>3, SettledStep DEF Same, ChangeSource, RouteEvent, OutsideCluster,
       OutsideIngress
  <2>2. Settled(k) BY <1>1, <1>3 DEF AttemptStep
  <2> QED BY <1>2, <2>1, <2>2 DEF SettledInv, IsLeaseCurrent
<1>4. CASE AttemptStep(k) \/ Expire(k)
  <2>1. CASE Ends(k) BY <2>1, IdleFields DEF Ends, Unleased
  <2>2. CASE Continues(k)
    <3>1. Settled(k) BY <1>1, <2>2 DEF Continues, Begin, Unleased
    <3> QED BY <1>2, <2>2, <3>1
            DEF Continues, Kept, SettledInv, IsLeaseCurrent, Unleased
  <2>3. CASE Begin(k) BY <2>3, MoveEffect DEF Begin, Unleased
  <2>4. CASE Get(k) BY <1>2, <2>4, GetEffect DEF Get, Unleased
  <2>5. CASE (ObserveDeleting(k) \/ RemoveRoutes(k))
             /\ attempt'[k].object = attempt[k].object
    <3>1. Settled(k) BY <1>1, <2>5 DEF ObserveDeleting, RemoveRoutes, Begin
    <3> QED BY <2>5, <3>1, MoveEffect
            DEF ObserveDeleting, RemoveRoutes, SettledInv, Unleased
  <2>6. CASE Acquire(k) /\ tracked[k].active = NoLease
    <3>1. Settled(k) /\ attempt[k].pc = "acquire"
      BY <1>1, <2>6 DEF Acquire, Begin
    <3>2. ~attempt[k].cancelled BY <3>1 DEF LeaseInv, Unleased
    <3>3. attempt[k].object = Stored(k) BY <3>1 DEF SettledInv
    <3>4. IsLeaseCurrent(k, attempt[k].lease)'
      BY <1>2, <2>6, AcquireEffect DEF IsLeaseCurrent
    <3>5. attempt'[k].object = Stored(k) /\ ~attempt'[k].cancelled
      BY <2>6, <3>2, <3>3, AcquireEffect
    <3> QED BY <3>4, <3>5
  <2> QED BY <1>4, <2>1, <2>2, <2>3, <2>4, <2>5, <2>6, AttemptKinds DEF Prepares
<1> QED BY <1>3, <1>4

----------------------------------------------------------------------------
(* What a settled Facet's attempt computes and leaves behind. *)

(* A change of the sources has an event for every Facet with routes, and the *)
(* event of a binding that the policy calls for is not taken for a stale one. *)
LEMMA FreshnessKept ==
    ASSUME TypeOK, NEW k \in Keys, NEW s,
           Stored(k)' = Stored(k), UNCHANGED <<policy, epoch>>,
           \/ Same(k) \/ ChangeSource
           \/ RouteEvent(k) /\ ~IsLeaseCurrent(k, routes[k])
    PROVE  /\ attempt'[k] = attempt[k] /\ status'[k] = status[k]
           /\ k \in missed' <=> k \in missed
           /\ RoutesAgree(k) => RoutesAgree(k)'
           /\ routes[k] = NoLease => routes'[k] = NoLease
           /\ RoutesAgree(k) /\ Reports(k, s)
                => /\ s.gen = Stored(k).gen /\ s.policy = policy
                   /\ s.outcome \in {"result", "interrupted"}
                   /\ IF policy \in Denying THEN s.source = 0
                      ELSE s.source = source' \/ k \in notify'
<1> USE DEF OutsideCluster, OutsideIngress, cluster, informer
<1>1. CASE Same(k)
  BY <1>1 DEF Same, RoutesAgree, Reports, IsLeaseCurrent
<1>2. CASE ChangeSource
  BY <1>2 DEF ChangeSource, RoutesAgree, Reports, IsLeaseCurrent
<1>3. CASE RouteEvent(k) /\ ~IsLeaseCurrent(k, routes[k])
  <2>1. /\ attempt' = attempt /\ status' = status /\ missed' = missed
        /\ source' = source /\ routes'[k] = NoLease
    BY <1>3 DEF RouteEvent, TypeOK
  <2>2. RoutesAgree(k) => policy \in Denying BY <1>3 DEF RoutesAgree
  <2> QED BY <2>1, <2>2 DEF RoutesAgree, Reports
<1> QED BY <1>1, <1>2, <1>3

(* A step that leaves the routes, the tracker and the sources alone. *)
LEMMA RoutesAgreeKept ==
    ASSUME NEW k \in Keys, RoutesAgree(k), routes'[k] = routes[k],
           tracked'[k] = tracked[k], UNCHANGED <<policy, epoch>>
    PROVE  RoutesAgree(k)'
BY DEF RoutesAgree, IsLeaseCurrent

(* The stages of an attempt whose spec is within budget. *)
Evaluating == {"replace", "install", "await", "evaluate"} \cup Publishing

(* As long as the attempt will not be retried, what it has is fresh. *)
LEMMA EvalInvStep ==
    ASSUME TypeOK, EpochBound, NEW k \in Keys, HistoryInv(k), LeaseInv(k),
           SettledInv(k), EvalInv(k), [Next]_vars
    PROVE  EvalInv(k)'
<1> DEFINE Goal ==
      /\ attempt'[k].pc \in Evaluating => attempt'[k].candidate.policy = policy
      /\ attempt'[k].pc \in {"await", "evaluate"} \cup Publishing => RoutesAgree(k)'
      /\ attempt'[k].pc \in Publishing =>
           /\ attempt'[k].candidate.gen = Stored(k).gen
           /\ attempt'[k].candidate.policy = policy
           /\ attempt'[k].candidate.outcome \in {"result", "interrupted"}
           /\ IF policy \in Denying THEN attempt'[k].candidate.source = 0
              ELSE attempt'[k].candidate.source = source' \/ k \in notify'
<1> SUFFICES ASSUME Settled(k)', ~attempt'[k].retry PROVE Goal
  BY SettledBefore DEF EvalInv, Reports, Evaluating
<1>1. Settled(k) \/ Begin(k) BY SettledBefore
<1>2. Stored(k)' = Stored(k) /\ policy' = policy /\ epoch' = epoch
  BY SettledBefore
<1>3. CASE ~(AttemptStep(k) \/ Expire(k))
  <2>1. Settled(k) BY <1>1, <1>3 DEF AttemptStep
  <2>2. \/ Same(k) \/ ChangeSource
        \/ RouteEvent(k) /\ ~IsLeaseCurrent(k, routes[k])
    BY <1>3, SettledStep
  <2>3. attempt'[k] = attempt[k] BY <1>2, <2>2, FreshnessKept
  <2>4. RoutesAgree(k) => RoutesAgree(k)' BY <1>2, <2>2, FreshnessKept
  <2>5. RoutesAgree(k) /\ Reports(k, attempt[k].candidate)
          => /\ attempt[k].candidate.gen = Stored(k).gen
             /\ attempt[k].candidate.policy = policy
             /\ attempt[k].candidate.outcome \in {"result", "interrupted"}
             /\ IF policy \in Denying THEN attempt[k].candidate.source = 0
                ELSE attempt[k].candidate.source = source' \/ k \in notify'
    BY <1>2, <2>2, FreshnessKept
  <2> QED BY <2>1, <2>3, <2>4, <2>5 DEF EvalInv, Evaluating
<1>4. CASE Ends(k) BY <1>4, IdleFields DEF Ends, Evaluating, Publishing
<1>5. CASE (AttemptStep(k) \/ Expire(k)) /\ Prepares(k)
  BY <1>5, MoveEffect, GetEffect, AcquireEffect
     DEF Prepares, Begin, ObserveDeleting, RemoveRoutes, Evaluating, Publishing
<1>6. CASE (AttemptStep(k) \/ Expire(k)) /\ Continues(k)
  <2>a. attempt[k] \in Attempt /\ source' = source
    BY <1>6, AttemptFrame DEF TypeOK
  <2>b. Settled(k) BY <1>1, <1>6 DEF Continues, Begin, Unleased
  <2>c. /\ ~attempt[k].cancelled /\ IsLeaseCurrent(k, attempt[k].lease)
        /\ attempt[k].object = Stored(k)
        /\ attempt[k].lease.gen = Stored(k).gen
        /\ attempt[k].lease # NoLease
    BY <1>6, <2>b DEF Continues, SettledInv, LeaseInv, NoLease, Unleased
  <2>d. tracked'[k] = tracked[k] BY <1>6 DEF Continues
  <2>e. ASSUME attempt'[k].retry = attempt[k].retry,
               attempt'[k].candidate = attempt[k].candidate,
               routes' = routes, notify' = notify,
               attempt'[k].pc \in Evaluating => attempt[k].pc \in Evaluating,
               attempt'[k].pc \in {"await", "evaluate"} \cup Publishing
                 => attempt[k].pc \in {"await", "evaluate"} \cup Publishing,
               attempt'[k].pc \in Publishing => attempt[k].pc \in Publishing
        PROVE  Goal
    <3>1. RoutesAgree(k) => RoutesAgree(k)'
      BY <1>2, <2>d, <2>e, RoutesAgreeKept
    <3> QED BY <2>a, <2>b, <2>e, <3>1 DEF EvalInv, Reports, Evaluating
  <2>f. ASSUME NEW outcome, attempt'[k] = Verdict(k, outcome) PROVE FALSE
    BY <2>a, <2>f, VerdictFields
  <2>1. CASE StageTimesOut(k)
    BY <2>1, <2>f DEF StageTimesOut, TimeoutCandidate, TypeOK
  <2>2. CASE Validate(k)
    <3>1. CASE Move(k, "load")
      BY <3>1, MoveEffect DEF Evaluating, Publishing
    <3>2. CASE attempt' = [attempt EXCEPT ![k] = Verdict(k, "rejected")]
      BY <2>f, <3>2 DEF TypeOK
    <3> QED BY <2>2, <3>1, <3>2 DEF Validate
  <2>3. CASE LoadPolicy(k)
    BY <2>3, LoadEffect DEF Evaluating, Publishing
  <2>4. CASE Replace(k)
    BY <2>4, <2>e, MoveEffect DEF Replace, Evaluating, Publishing
  <2>5. CASE Install(k)
    <3>1. /\ attempt[k].candidate.policy = policy /\ attempt'[k].pc = "await"
          /\ attempt'[k].candidate = attempt[k].candidate
      BY <2>5, <2>b, MoveEffect DEF Install, EvalInv
    <3>2. Allowed(k) <=> policy \notin Denying
      BY <3>1 DEF Allowed, TypeOK
    <3>3. RoutesAgree(k)'
      <4>1. CASE policy \in Denying
        BY <1>2, <2>5, <3>2, <4>1 DEF Install, RemoveOwner, RoutesAgree, TypeOK
      <4>2. CASE policy \notin Denying
        <5>1. routes'[k] = attempt[k].lease
          BY <2>5, <3>2, <4>2 DEF Install, TypeOK
        <5> QED BY <1>2, <2>c, <2>d, <4>2, <5>1 DEF RoutesAgree, IsLeaseCurrent
      <4> QED BY <4>1, <4>2
    <3> QED BY <3>1, <3>3 DEF Publishing, Evaluating
  <2>6. CASE WatchReady(k)
    BY <2>6, <2>e, MoveEffect DEF WatchReady, Evaluating, Publishing
  <2>7. CASE WaitFails(k)
    <3>1. CASE Finish(k, FALSE)
      BY <1>6, <3>1, FinishEffect, IdleFields DEF Continues, Unleased
    <3>2. CASE attempt' = [attempt EXCEPT ![k] = TimeoutCandidate(k)]
      BY <2>f, <3>2 DEF TimeoutCandidate, TypeOK
    <3> QED BY <2>7, <3>1, <3>2 DEF WaitFails
  <2>8. CASE Evaluate(k)
    <3>1. PICK outcome \in {"result", "degraded", "interrupted", "unavailable"} :
            attempt'[k] = Evaluated(k, outcome)
      BY <2>8 DEF Evaluate, TypeOK
    <3>2. ~attempt[k].retry /\ outcome \in {"result", "interrupted"}
          /\ attempt'[k].candidate.outcome = outcome
      <4>1. attempt'[k].retry
              = (attempt[k].retry \/ outcome \in {"degraded", "unavailable"})
        BY <2>a, <3>1, EvaluatedFields
      <4>2. ~attempt[k].retry /\ outcome \notin {"degraded", "unavailable"}
        BY <4>1
      <4> QED BY <2>a, <3>1, <4>2, EvaluatedFields
    <3>3. attempt[k].candidate.policy = policy /\ RoutesAgree(k)
      BY <2>8, <2>b, <3>2 DEF Evaluate, EvalInv
    <3>4. Allowed(k) <=> policy \notin Denying
      BY <3>3 DEF Allowed, TypeOK
    <3>5. /\ attempt'[k].candidate.gen = Stored(k).gen
          /\ attempt'[k].candidate.policy = policy
          /\ attempt'[k].candidate.source = IF policy \in Denying THEN 0 ELSE source
      BY <2>a, <2>c, <3>1, <3>2, <3>3, <3>4, EvaluatedFields
    <3>6. RoutesAgree(k)'
      BY <1>2, <2>8, <2>d, <3>3, RoutesAgreeKept DEF Evaluate
    <3> QED BY <2>a, <3>2, <3>5, <3>6
  <2>9. CASE Compose(k)
    BY <2>9, <2>e, NotingEffect DEF Compose, PublishRead, Evaluating, Publishing
  <2>10. CASE PublishRead(k)
    BY <2>10, <2>e, NotingEffect
       DEF Compose, PublishRead, OutsidePublish, Evaluating, Publishing
  <2>11. CASE Expire(k) /\ ~Compose(k) /\ ~PublishRead(k)
    BY <2>11, <2>e, NotingEffect DEF Expire
  <2>12. CASE PublishCompare(k)
    <3>1. CASE Finish(k, attempt[k].retry)
      BY <1>6, <3>1, FinishEffect, IdleFields DEF Continues, Unleased
    <3>2. CASE Move(k, "write")
      BY <2>12, <2>e, <3>2, MoveEffect
         DEF PublishCompare, OutsidePublish, Evaluating, Publishing
    <3> QED BY <2>12, <3>1, <3>2 DEF PublishCompare
  <2>13. ASSUME Begin(k) \/ Get(k) \/ GetFails(k) \/ ObserveDeleting(k)
                \/ RemoveRoutes(k) \/ MarkAbsent(k) \/ Acquire(k)
         PROVE  FALSE
    BY <1>6, <2>13 DEF Continues, Unleased, Begin, Get, GetFails,
       ObserveDeleting, RemoveRoutes, MarkAbsent, Acquire
  <2>14. ASSUME StageInterrupted(k) \/ InstallStale(k) \/ PublishSkips(k)
                \/ PublishDeleting(k) \/ PublishFails(k) \/ PublishWrite(k)
         PROVE  FALSE
    BY <1>6, <2>14, FinishEffect, IdleFields DEF Continues, Unleased,
       StageInterrupted, InstallStale, PublishSkips, Skip, PublishDeleting,
       PublishFails, PublishWrite
  <2> QED BY <1>6, <2>1, <2>2, <2>3, <2>4, <2>5, <2>6, <2>7, <2>8, <2>9, <2>10,
             <2>11, <2>12, <2>13, <2>14 DEF AttemptStep
<1> QED BY <1>3, <1>4, <1>5, <1>6, AttemptKinds

(* The attempt of a settled Facet ends by a retry, by a skip for its         *)
(* deadline, or with fresh routes and a fresh status.                        *)
LEMMA RestInvStep ==
    ASSUME TypeOK, EpochBound, NEW k \in Keys, HistoryInv(k), LeaseInv(k),
           SettledInv(k), EvalInv(k), RestInv(k), [Next]_vars
    PROVE  RestInv(k)'
<1> DEFINE Goal ==
      IF Stored(k).deleting
      THEN routes'[k] = NoLease
      ELSE /\ RoutesAgree(k)'
           /\ status'[k].gen = Stored(k).gen /\ status'[k].policy = policy
           /\ status'[k].outcome \in {"result", "interrupted"}
           /\ IF policy \in Denying THEN status'[k].source = 0
              ELSE status'[k].source = source' \/ k \in notify'
<1> SUFFICES ASSUME Settled(k)', attempt'[k].pc = "idle", k \notin missed'
             PROVE  Goal
  BY SettledBefore DEF RestInv, Reports
<1>1. Settled(k) \/ Begin(k) BY SettledBefore
<1>2. Stored(k)' = Stored(k) /\ policy' = policy /\ epoch' = epoch
  BY SettledBefore
<1>3. k \notin queue' /\ Stored(k) # Absent BY <1>2 DEF Settled, Behind
<1>4. CASE ~(AttemptStep(k) \/ Expire(k))
  <2>1. Settled(k) BY <1>1, <1>4 DEF AttemptStep
  <2>2. \/ Same(k) \/ ChangeSource
        \/ RouteEvent(k) /\ ~IsLeaseCurrent(k, routes[k])
    BY <1>4, SettledStep
  <2>3. /\ attempt'[k] = attempt[k] /\ status'[k] = status[k]
        /\ k \in missed' <=> k \in missed
        /\ RoutesAgree(k) => RoutesAgree(k)'
        /\ routes[k] = NoLease => routes'[k] = NoLease
    BY <1>2, <2>2, FreshnessKept
  <2>4. RoutesAgree(k) /\ Reports(k, status[k])
          => /\ status[k].gen = Stored(k).gen /\ status[k].policy = policy
             /\ status[k].outcome \in {"result", "interrupted"}
             /\ IF policy \in Denying THEN status[k].source = 0
                ELSE status[k].source = source' \/ k \in notify'
    BY <1>2, <2>2, FreshnessKept
  <2> QED BY <2>1, <2>3, <2>4 DEF RestInv
<1>5. CASE (AttemptStep(k) \/ Expire(k)) /\ Continues(k)
  BY <1>5 DEF Continues, Unleased
<1>6. CASE (AttemptStep(k) \/ Expire(k)) /\ Prepares(k)
  BY <1>6, MoveEffect, GetEffect, AcquireEffect
     DEF Prepares, Begin, ObserveDeleting, RemoveRoutes
<1>7. CASE (AttemptStep(k) \/ Expire(k)) /\ Ends(k)
  <2>a. attempt[k] \in Attempt /\ source' = source
    BY <1>7, AttemptFrame DEF TypeOK
  <2>b. Settled(k)
    BY <1>1, <1>7, MoveEffect, IdleFields DEF Begin, Ends
  <2>c. attempt[k].pc \notin Unleased =>
          /\ ~Interrupted(k) /\ attempt[k].object = Stored(k)
          /\ ~Stored(k).deleting
    BY <2>b DEF SettledInv, LeaseInv, Unleased, Interrupted
  <2>d. ASSUME attempt[k].pc \in Publishing, ~attempt[k].retry,
               status'[k] = attempt[k].candidate, routes' = routes,
               notify' = notify, Finish(k, attempt[k].retry)
        PROVE  Goal
    <3>1. RoutesAgree(k) /\ Reports(k, attempt[k].candidate)
      BY <2>b, <2>d DEF EvalInv
    <3>2. RoutesAgree(k)'
      BY <1>2, <2>d, <3>1, FinishEffect DEF RoutesAgree, IsLeaseCurrent
    <3>3. ~Stored(k).deleting BY <2>c, <2>d DEF Publishing, Unleased
    <3> QED BY <2>a, <2>d, <3>1, <3>2, <3>3 DEF Reports
  <2>1. CASE GetFails(k) \/ PublishFails(k)
    BY <1>3, <2>1, FinishEffect DEF GetFails, PublishFails
  <2>2. CASE MarkAbsent(k)
    BY <1>3, <2>2, <2>b DEF MarkAbsent, LeaseInv, SettledInv
  <2>3. CASE Acquire(k) /\ tracked[k].active # NoLease
    BY <1>3, <2>3, FinishEffect DEF Acquire
  <2>4. CASE StageInterrupted(k)
    BY <2>4, <2>c DEF StageInterrupted, Stages, Unleased
  <2>5. CASE InstallStale(k)
    BY <2>5, <2>c DEF InstallStale, Unleased, Interrupted
  <2>6. CASE WaitFails(k)
    <3>1. ~Interrupted(k) BY <2>6, <2>c DEF WaitFails, Unleased
    <3>2. attempt'[k] = Verdict(k, "timedOut")
      BY <2>6, <3>1 DEF WaitFails, TimeoutCandidate, TypeOK
    <3> QED BY <2>a, <3>2, VerdictFields
  <2>7. CASE PublishSkips(k)
    <3>1. ~Interrupted(k) BY <2>7, <2>c DEF PublishSkips, Unleased
    <3>2. CASE attempt[k].candidate.outcome = "unavailable"
      BY <1>3, <2>7, <3>2, FinishEffect DEF PublishSkips, Skip
    <3>3. CASE attempt[k].candidate.outcome # "unavailable"
      BY <2>7, <3>1, <3>3 DEF PublishSkips, Skip
    <3> QED BY <3>2, <3>3
  <2>8. CASE PublishDeleting(k)
    BY <2>8, <2>c DEF PublishDeleting, Unleased
  <2>9. CASE PublishCompare(k)
    <3>1. CASE Move(k, "write") BY <3>1, MoveEffect
    <3>2. CASE status[k] = attempt[k].candidate /\ Finish(k, attempt[k].retry)
      <4>1. ~attempt[k].retry BY <1>3, <3>2, FinishEffect
      <4> QED BY <2>9, <2>d, <3>2, <4>1
              DEF PublishCompare, OutsidePublish, Publishing
    <3> QED BY <2>9, <3>1, <3>2 DEF PublishCompare
  <2>10. CASE PublishWrite(k)
    <3>1. CASE Finish(k, attempt[k].retry)
      <4>1. ~attempt[k].retry BY <1>3, <3>1, FinishEffect
      <4>2. status'[k] = attempt[k].candidate
        BY <2>10 DEF PublishWrite, TypeOK
      <4> QED BY <2>10, <2>d, <3>1, <4>1, <4>2
              DEF PublishWrite, OutsidePublish, Publishing
    <3>2. CASE Finish(k, TRUE) BY <1>3, <3>2, FinishEffect
    <3>3. CASE Skip(k)
      <4>1. ~Interrupted(k) BY <2>10, <2>c DEF PublishWrite, Unleased
      <4>2. CASE attempt[k].candidate.outcome = "unavailable"
        BY <1>3, <3>3, <4>2, FinishEffect DEF Skip
      <4>3. CASE attempt[k].candidate.outcome # "unavailable"
        BY <3>3, <4>1, <4>3 DEF Skip
      <4> QED BY <4>2, <4>3
    <3> QED BY <2>10, <3>1, <3>2, <3>3 DEF PublishWrite
  <2> QED BY <1>7, <2>1, <2>2, <2>3, <2>4, <2>5, <2>6, <2>7, <2>8, <2>9, <2>10
          DEF Ends
<1> QED BY <1>4, <1>5, <1>6, <1>7, AttemptKinds

----------------------------------------------------------------------------
(* The routes of a Facet that is gone. *)

(* The controller's own steps. *)
LEMMA AttemptAbsent ==
    ASSUME TypeOK, NEW k \in Keys, HistoryInv(k), LeaseInv(k), AbsentInv(k),
           AttemptStep(k) \/ Expire(k)
    PROVE  AbsentInv(k)'
<1>a. UNCHANGED <<history, observed, epoch, handler, policyPC>> BY AttemptFrame
<1>b. attempt[k] \in Attempt BY DEF TypeOK
<1> SUFFICES ASSUME Stored(k) = Absent, observed[k] = Len(history[k])
             PROVE  AbsentInv(k)'
  BY <1>a DEF AbsentInv, Stored
<1> DEFINE Current == IsLeaseCurrent(k, attempt[k].lease)
           Waiting == handler[k] = "remove" \/ policyPC = "remove"
<1>1. attempt[k].pc \notin Unleased /\ Current
        => ~attempt[k].cancelled /\ attempt[k].pc \notin {"compare", "write"}
  BY DEF AbsentInv
<1>2. routes[k] # NoLease =>
        \/ Waiting \/ k \in queue \cup missed
        \/ attempt[k].pc \in {"get", "observe", "remove"}
        \/ attempt[k].pc \in {"await", "evaluate", "compose", "publish"} /\ Current
  BY DEF AbsentInv
<1>3. CASE Ends(k)
  <2>a. attempt'[k].pc = "idle" BY <1>3, IdleFields DEF Ends
  <2>b. ASSUME routes'[k] # NoLease => Waiting \/ k \in queue' \cup missed'
        PROVE  AbsentInv(k)'
    BY <1>a, <2>a, <2>b DEF AbsentInv, Unleased
  <2>c. ASSUME routes' = routes \/ routes'[k] = NoLease, missed' = missed,
               NEW retry, Finish(k, retry),
               attempt[k].pc \notin {"get", "observe", "remove"},
               ~(attempt[k].pc \in {"await", "evaluate", "compose", "publish"} /\ Current)
        PROVE  AbsentInv(k)'
    BY <1>2, <2>b, <2>c DEF Finish
  <2>1. CASE GetFails(k) \/ PublishFails(k)
    BY <2>1, <2>b, FinishEffect DEF GetFails, PublishFails
  <2>2. CASE MarkAbsent(k) BY <2>2, <2>b DEF MarkAbsent, LeaseInv
  <2>3. CASE Acquire(k) /\ tracked[k].active # NoLease
    BY <2>3, <2>c DEF Acquire
  <2>4. CASE StageInterrupted(k)
    BY <1>1, <2>4, <2>c DEF StageInterrupted, Interrupted, Stages, Unleased
  <2>5. CASE InstallStale(k) BY <2>5, <2>c DEF InstallStale
  <2>6. CASE WaitFails(k)
    <3>1. CASE Interrupted(k)
      <4>1. ~Current BY <1>1, <2>6, <3>1 DEF WaitFails, Interrupted, Unleased
      <4>2. routes' = routes \/ routes'[k] = NoLease
        BY <2>6 DEF WaitFails, RemoveOwner, TypeOK
      <4> QED BY <2>6, <2>c, <3>1, <4>1, <4>2 DEF WaitFails
    <3>2. CASE ~Interrupted(k)
      <4>1. attempt'[k] = Verdict(k, "timedOut")
        BY <2>6, <3>2 DEF WaitFails, TimeoutCandidate, TypeOK
      <4> QED BY <1>b, <2>a, <4>1, VerdictFields
    <3> QED BY <3>1, <3>2
  <2>7. CASE PublishSkips(k)
    <3>1. CASE k \in missed' \/ k \in queue' BY <2>b, <3>1
    <3>2. CASE ~Interrupted(k) /\ k \notin missed'
      <4>1. attempt[k].candidate.outcome = "unavailable"
        BY <2>7, <3>2 DEF PublishSkips, Skip
      <4> QED BY <2>7, <2>b, <4>1, FinishEffect DEF PublishSkips, Skip
    <3>3. CASE Interrupted(k)
      <4>1. ~Current
        BY <1>1, <2>7, <3>3 DEF PublishSkips, Interrupted, Unleased
      <4> QED BY <2>7, <2>c, <3>3, <4>1
              DEF PublishSkips, Skip, OutsidePublish
    <3> QED BY <3>1, <3>2, <3>3
  <2>8. CASE PublishDeleting(k) BY <2>8 DEF PublishDeleting, Absent
  <2>9. CASE PublishCompare(k) BY <1>1, <2>9 DEF PublishCompare, Unleased
  <2>10. CASE PublishWrite(k)
    <3>1. attempt[k].pc = "write" /\ ~Current
      BY <1>1, <2>10 DEF PublishWrite, Unleased
    <3>2. missed' = missed /\ routes' = routes
      BY <2>10, <3>1 DEF PublishWrite, Skip, Interrupted, OutsidePublish
    <3>3. PICK retry : Finish(k, retry) BY <2>10 DEF PublishWrite, Skip
    <3> QED BY <2>c, <3>1, <3>2, <3>3
  <2> QED BY <1>3, <2>1, <2>2, <2>3, <2>4, <2>5, <2>6, <2>7, <2>8, <2>9, <2>10
          DEF Ends
<1>4. CASE Continues(k) /\ ~Ends(k)
  <2>a. /\ tracked'[k] = tracked[k]
        /\ attempt'[k].lease = attempt[k].lease
        /\ attempt'[k].cancelled = attempt[k].cancelled
        /\ attempt[k].pc \notin Unleased
    BY <1>4 DEF Continues, Kept
  <2>b. IsLeaseCurrent(k, attempt[k].lease)' <=> Current
    BY <1>a, <2>a DEF IsLeaseCurrent
  <2>c. ASSUME attempt'[k].pc \notin {"compare", "write"},
               \/ routes'[k] = NoLease
               \/ /\ attempt'[k].pc \in {"await", "evaluate", "compose", "publish"}
                  /\ Current
               \/ /\ routes' = routes /\ queue' = queue /\ missed' = missed
                  /\ attempt[k].pc \in {"await", "evaluate", "compose", "publish"}
                       => attempt'[k].pc \in {"await", "evaluate", "compose", "publish"}
        PROVE  AbsentInv(k)'
    BY <1>1, <1>2, <1>a, <2>a, <2>b, <2>c DEF AbsentInv, Unleased
  <2>1. CASE StageTimesOut(k)
    <3>1. attempt'[k] = Verdict(k, "timedOut")
      BY <2>1 DEF StageTimesOut, TimeoutCandidate, TypeOK
    <3>2. attempt'[k].pc = "publish" BY <1>b, <3>1, VerdictFields
    <3> QED BY <2>1, <2>c, <3>2 DEF StageTimesOut, TimedOut, Interrupted
  <2>2. CASE Validate(k)
    <3>1. CASE Move(k, "load") /\ UNCHANGED <<routes, notify>>
      BY <2>2, <2>c, <3>1, MoveEffect DEF Validate
    <3>2. CASE /\ attempt' = [attempt EXCEPT ![k] = Verdict(k, "rejected")]
               /\ RemoveOwner(k)
      <4>1. attempt'[k] = Verdict(k, "rejected") /\ routes'[k] = NoLease
        BY <3>2 DEF RemoveOwner, TypeOK
      <4>2. attempt'[k].pc = "publish" BY <1>b, <4>1, VerdictFields
      <4> QED BY <2>c, <4>1, <4>2
    <3> QED BY <2>2, <3>1, <3>2 DEF Validate
  <2>3. CASE LoadPolicy(k)
    BY <2>3, <2>c, LoadEffect DEF LoadPolicy
  <2>4. CASE Replace(k) \/ WatchReady(k)
    BY <2>4, <2>c, MoveEffect DEF Replace, WatchReady
  <2>5. CASE Install(k)
    BY <2>5, <2>c, MoveEffect DEF Install
  <2>6. CASE WaitFails(k)
    <3>1. ~Interrupted(k)
      BY <1>4, <2>6, FinishEffect, IdleFields DEF WaitFails, Continues, Unleased
    <3>2. attempt'[k] = Verdict(k, "timedOut")
      BY <2>6, <3>1 DEF WaitFails, TimeoutCandidate, TypeOK
    <3>3. attempt'[k].pc = "publish" BY <1>b, <3>2, VerdictFields
    <3> QED BY <2>c, <3>1, <3>3 DEF Interrupted
  <2>7. CASE Evaluate(k)
    <3>1. PICK outcome : attempt'[k] = Evaluated(k, outcome)
      BY <2>7 DEF Evaluate, TypeOK
    <3>2. attempt'[k].pc \in {"compose", "publish"}
      BY <1>b, <3>1, EvaluatedFields
    <3> QED BY <2>7, <2>c, <3>2 DEF Evaluate
  <2>8. CASE Compose(k)
    <3>1. attempt'[k].pc = "publish" BY <2>8, NotingEffect
    <3> QED BY <2>8, <2>c, <3>1 DEF Compose
  <2>9. CASE PublishRead(k) BY <2>9 DEF PublishRead
  <2>10. CASE Expire(k) /\ ~Compose(k) /\ ~PublishRead(k)
    <3>1. attempt'[k].pc = attempt[k].pc BY <2>10, NotingEffect
    <3>2. routes' = routes /\ queue' = queue /\ missed' = missed
      BY <2>10 DEF Expire
    <3> QED BY <1>1, <1>2, <1>a, <2>a, <2>b, <3>1, <3>2 DEF AbsentInv, Unleased
  <2>11. CASE PublishCompare(k)
    BY <1>1, <2>11 DEF PublishCompare, Unleased
  <2>12. ASSUME Begin(k) \/ Get(k) \/ GetFails(k) \/ ObserveDeleting(k)
                \/ RemoveRoutes(k) \/ MarkAbsent(k) \/ Acquire(k)
         PROVE  FALSE
    BY <2>a, <2>12 DEF Unleased, Begin, Get, GetFails, ObserveDeleting,
       RemoveRoutes, MarkAbsent, Acquire
  <2>13. ASSUME StageInterrupted(k) \/ InstallStale(k) \/ PublishSkips(k)
                \/ PublishDeleting(k) \/ PublishFails(k) \/ PublishWrite(k)
         PROVE  FALSE
    BY <1>4, <2>13, FinishEffect, IdleFields DEF Continues, Unleased,
       StageInterrupted, InstallStale, PublishSkips, Skip, PublishDeleting,
       PublishFails, PublishWrite
  <2> QED BY <2>1, <2>2, <2>3, <2>4, <2>5, <2>6, <2>7, <2>8, <2>9, <2>10,
             <2>11, <2>12, <2>13 DEF AttemptStep
<1>5. CASE Begin(k) BY <1>5, MoveEffect DEF Begin, AbsentInv, Unleased
<1>6. CASE Get(k) BY <1>6, GetEffect DEF AbsentInv, Unleased
<1>7. CASE ObserveDeleting(k)
  BY <1>7, MoveEffect DEF ObserveDeleting, AbsentInv, Unleased
<1>8. CASE RemoveRoutes(k)
  BY <1>8, MoveEffect DEF RemoveRoutes, RemoveOwner, AbsentInv, Unleased, TypeOK
<1>9. CASE Acquire(k) /\ tracked[k].active = NoLease
  <2>1. /\ attempt'[k].pc = "validate" /\ queue' = queue
        /\ attempt'[k].cancelled = attempt[k].cancelled
    BY <1>9, AcquireEffect
  <2>2. attempt[k].pc = "acquire" /\ routes' = routes /\ missed' = missed
    BY <1>9 DEF Acquire
  <2>3. ~attempt[k].cancelled BY <2>2 DEF LeaseInv, Unleased
  <2> QED BY <1>2, <1>a, <2>1, <2>2, <2>3 DEF AbsentInv
<1> QED BY <1>3, <1>4, <1>5, <1>6, <1>7, <1>8, <1>9, AttemptKinds DEF Prepares

(* ... and everyone else's. *)
LEMMA AbsentStep ==
    ASSUME TypeOK, TypeOK', NEW k \in Keys, HistoryInv(k), LeaseInv(k),
           AbsentInv(k), [Next]_vars
    PROVE  AbsentInv(k)'
<1> USE DEF OutsideCluster, OutsideIngress, cluster, informer
<1>1. ASSUME history'[k] = history[k], observed'[k] = observed[k],
             attempt'[k] = attempt[k], tracked'[k] = tracked[k], epoch' = epoch,
             routes'[k] \in {routes[k], NoLease},
             handler[k] = "remove" => handler'[k] = "remove" \/ routes'[k] = NoLease,
             policyPC = "remove" => policyPC' = "remove" \/ routes'[k] = NoLease,
             k \in queue => k \in queue', k \in missed => k \in missed'
      PROVE  AbsentInv(k)'
  BY <1>1 DEF AbsentInv, IsLeaseCurrent, Stored
<1>2. CASE Same(k) BY <1>1, <1>2 DEF Same
<1>3. CASE ClusterStep(k)
  <2>1. PICK o \in Object :
          /\ history' = [history EXCEPT ![k] = Append(history[k], o)]
          /\ UNCHANGED OutsideCluster
    BY <1>3, ClusterEffect
  <2>2. history[k] \in Seq(Object) /\ Len(history[k]) \in Nat BY DEF TypeOK
  <2>3. Len(Append(history[k], o)) = Len(history[k]) + 1 BY <2>2
  <2>4. observed' = observed /\ history'[k] = Append(history[k], o)
    BY <2>1 DEF TypeOK
  <2>5. observed[k] \in 1 .. Len(history[k]) BY DEF HistoryInv
  <2>6. observed'[k] # Len(history'[k]) BY <2>2, <2>3, <2>4, <2>5
  <2> QED BY <2>6 DEF AbsentInv
<1>4. CASE DeliverEvent(k)
  <2>1. PICK v \in observed[k] + 1 .. Len(history[k]) :
          /\ observed' = [observed EXCEPT ![k] = v]
          /\ HandleEvent(k, history[k][observed[k]], history[k][v])
    BY <1>4 DEF DeliverEvent
  <2>2. history' = history /\ observed'[k] = v BY <1>4, <2>1 DEF DeliverEvent, TypeOK
  <2>3. CASE v = Len(history[k]) /\ Stored(k) = Absent
    <3>1. /\ ObserveDelete(k, history[k][observed[k]].uid)
          /\ handler' = [handler EXCEPT ![k] = "remove"]
      BY <2>1, <2>3 DEF HandleEvent, Stored
    <3>2. tracked[k] \in Tracked /\ tracked \in [Keys -> Tracked] BY DEF TypeOK
    <3>3. tracked'[k].absent
      BY <3>1, <3>2 DEF ObserveDelete, MarkedAbsent, Tracked
    <3>4. handler'[k] = "remove" BY <3>1 DEF TypeOK
    <3> QED BY <3>3, <3>4 DEF AbsentInv, IsLeaseCurrent
  <2>4. CASE ~(v = Len(history[k]) /\ Stored(k) = Absent)
    BY <2>2, <2>4 DEF AbsentInv, Stored
  <2> QED BY <2>3, <2>4
<1>5. CASE HandlerRemove(k)
  BY <1>1, <1>5 DEF HandlerRemove, RemoveOwner, TypeOK
<1>6. CASE HandlerEnqueue(k) BY <1>1, <1>6 DEF HandlerEnqueue
<1>7. CASE QueueTrigger(k) \/ LapseTrigger(k) \/ RouteEvent(k)
  BY <1>1, <1>7 DEF QueueTrigger, LapseTrigger, RouteEvent, TypeOK
<1>8. CASE ChangePolicy \/ ChangeSource \/ SafetyTick \/ PolicyRequest
  BY <1>1, <1>8 DEF ChangePolicy, ChangeSource, SafetyTick, PolicyRequest
<1>9. CASE PolicyRemoveAll
  BY <1>1, <1>9 DEF PolicyRemoveAll, RemoveAll
<1>10. CASE DeliverPolicy
  <2>1. policyPC' = "remove" /\ epoch' = epoch + 1 /\ attempt'[k] = Cancelled(k)
    BY <1>10 DEF DeliverPolicy, InvalidateAll
  <2>2. attempt[k] \in Attempt /\ attempt[k].lease.epoch \in Nat /\ epoch \in Nat
    BY EpochsTyped
  <2>3. attempt'[k].pc = attempt[k].pc /\ attempt'[k].lease = attempt[k].lease
    BY <2>1, <2>2, CancelledFields
  <2>4. attempt[k].pc \notin Unleased => attempt[k].lease.epoch <= epoch
    BY DEF LeaseInv
  <2>5. attempt'[k].pc \notin Unleased => epoch' # attempt'[k].lease.epoch
    BY <2>1, <2>2, <2>3, <2>4
  <2> QED BY <2>1, <2>5 DEF AbsentInv, IsLeaseCurrent
<1>11. CASE Restart
  BY <1>11, IdleFields DEF Restart, AbsentInv, Unleased
<1> QED BY <1>2, <1>3, <1>4, <1>5, <1>6, <1>7, <1>8, <1>9, <1>10, <1>11,
           AttemptAbsent, StepsOfKey
        DEF OwnStep, HandlerStep, GlobalStep, PolicyStep

----------------------------------------------------------------------------
(* The stored status and the one that is to replace it. *)

(* A status is of the past or the present. *)
StatusInv(k) ==
    /\ status[k].policy <= policy /\ status[k].source <= source
    /\ status[k].policy \in Denying => status[k].source = 0

(* So is a candidate, which is never behind the status it would replace with *)
(* a result: the policy and the sources were read while the gate was held.   *)
CandidateInv(k) ==
    /\ attempt[k].pc \in Unleased \cup {"validate", "load"} =>
         attempt[k].candidate.policy = 0
    /\ attempt[k].pc \notin Publishing =>
         attempt[k].candidate.source = 0 /\ attempt[k].candidate.outcome = "none"
    /\ attempt[k].candidate.policy <= policy
    /\ attempt[k].candidate.source <= source
    /\ attempt[k].candidate.policy \in Denying => attempt[k].candidate.source = 0
    /\ attempt[k].pc \in Evaluating /\ ~attempt[k].retry =>
         /\ status[k].policy <= attempt[k].candidate.policy
         /\ attempt[k].candidate.policy # 0
    /\ attempt[k].candidate.outcome = "result" =>
         /\ ~attempt[k].retry
         /\ Allowed(k) => status[k].source <= attempt[k].candidate.source
    /\ attempt[k].pc \in Publishing =>
         attempt[k].candidate.gen = attempt[k].lease.gen
    /\ attempt[k].pc \in {"compare", "write"} =>
         /\ attempt[k].read <= Len(history[k])
         /\ attempt[k].read = Len(history[k]) => attempt[k].lease.gen = Stored(k).gen

(* Versions are numbers. *)
LEMMA VersionsTyped ==
    ASSUME TypeOK, NEW k \in Keys
    PROVE  /\ policy \in Nat \ {0} /\ source \in Nat
           /\ status[k].policy \in Nat /\ status[k].source \in Nat
           /\ attempt[k] \in Attempt
           /\ attempt[k].candidate.policy \in 0 .. MaxPolicy
           /\ attempt[k].candidate.policy \in Nat
           /\ attempt[k].candidate.source \in Nat
           /\ attempt[k].read \in Nat
           /\ Len(history[k]) \in Nat
<1>1. policy \in Nat \ {0} /\ source \in Nat BY BoundsAssumption DEF TypeOK
<1>2. status[k] \in Status /\ attempt[k] \in Attempt BY DEF TypeOK
<1>3. attempt[k].candidate \in Status /\ attempt[k].read \in Nat
  BY <1>2 DEF Attempt
<1>4. \A s \in Status : s.policy \in 0 .. MaxPolicy /\ s.policy \in Nat /\ s.source \in Nat
  BY BoundsAssumption DEF Status
<1> QED BY <1>1, <1>2, <1>3, <1>4, HistoryTyped

(* A candidate is made of nothing at first. *)
LEMMA NoStatusFields ==
    NoStatus.policy = 0 /\ NoStatus.source = 0 /\ NoStatus.outcome = "none"
BY DEF NoStatus

(* The steps of anyone but the attempt: time goes by, the Facet is replaced. *)
LEMMA CandidateKept ==
    ASSUME TypeOK, TypeOK', NEW k \in Keys, StatusInv(k), CandidateInv(k),
           status'[k] = status[k] \/ status'[k] = NoStatus,
           policy <= policy', source <= source',
           \/ history'[k] = history[k]
           \/ Len(history'[k]) = Len(history[k]) + 1,
           attempt'[k] = attempt[k] \/ attempt'[k] = Cancelled(k)
    PROVE  StatusInv(k)' /\ CandidateInv(k)'
<1>1. /\ attempt'[k].pc = attempt[k].pc
      /\ attempt'[k].lease = attempt[k].lease
      /\ attempt'[k].candidate = attempt[k].candidate
      /\ attempt'[k].read = attempt[k].read
      /\ attempt'[k].retry = attempt[k].retry
  BY VersionsTyped, CancelledFields
<1>2. /\ policy \in Nat /\ source \in Nat /\ policy' \in Nat /\ source' \in Nat
      /\ status[k].policy \in Nat /\ status[k].source \in Nat
      /\ attempt[k].candidate.policy \in Nat
      /\ attempt[k].candidate.source \in Nat
      /\ attempt[k].read \in Nat /\ Len(history[k]) \in Nat
      /\ Len(history'[k]) \in Nat
  BY VersionsTyped, BoundsAssumption, HistoryTyped DEF TypeOK
<1>3. StatusInv(k)' BY <1>2, NoStatusFields DEF StatusInv
<1>4. /\ status'[k].policy = status[k].policy \/ status'[k].policy = 0
      /\ status'[k].source = status[k].source \/ status'[k].source = 0
  BY NoStatusFields
<1>5. attempt[k].pc \in {"compare", "write"} =>
        /\ attempt[k].read <= Len(history'[k])
        /\ attempt[k].read = Len(history'[k]) => attempt[k].lease.gen = Stored(k)'.gen
  BY <1>2 DEF CandidateInv, Stored
<1>6. Allowed(k)' <=> Allowed(k) BY <1>1 DEF Allowed
<1>7. CandidateInv(k)' BY <1>1, <1>2, <1>4, <1>5, <1>6 DEF CandidateInv
<1> QED BY <1>3, <1>7

(* The idle attempt has no candidate. *)
LEMMA IdleCandidate ==
    ASSUME TypeOK', NEW k \in Keys, attempt'[k] = Idle PROVE CandidateInv(k)'
<1>1. /\ attempt'[k].pc = "idle" /\ attempt'[k].candidate = NoStatus
  BY IdleFields
<1>2. policy' \in Nat /\ source' \in Nat BY BoundsAssumption DEF TypeOK
<1>3. 0 <= policy' /\ 0 <= source' BY <1>2
<1>4. 0 \notin Denying BY BoundsAssumption
<1> QED BY <1>1, <1>3, <1>4, NoStatusFields
        DEF CandidateInv, Publishing, Evaluating, Unleased

(* The status is left alone by all the controller's steps but one. *)
LEMMA StatusFrame ==
    ASSUME NEW k \in Keys, AttemptStep(k) \/ Expire(k), ~PublishWrite(k)
    PROVE  status' = status
<1>1. CASE Begin(k) \/ Get(k) \/ GetFails(k) \/ ObserveDeleting(k)
           \/ RemoveRoutes(k) \/ MarkAbsent(k) \/ Acquire(k) \/ Expire(k)
  BY <1>1 DEF Begin, Get, GetFails, ObserveDeleting, RemoveRoutes, MarkAbsent,
     Acquire, Expire
<1>2. CASE StageInterrupted(k) \/ StageTimesOut(k) \/ Validate(k)
           \/ LoadPolicy(k) \/ Replace(k) \/ Install(k) \/ InstallStale(k)
           \/ WatchReady(k) \/ WaitFails(k)
  BY <1>2 DEF StageInterrupted, StageTimesOut, Validate, LoadPolicy, Replace,
     Install, InstallStale, WatchReady, WaitFails
<1>3. CASE Evaluate(k) \/ Compose(k) \/ PublishRead(k) \/ PublishSkips(k)
           \/ PublishDeleting(k) \/ PublishFails(k) \/ PublishCompare(k)
  BY <1>3 DEF Evaluate, Compose, PublishRead, PublishSkips, PublishDeleting,
     PublishFails, PublishCompare
<1> QED BY <1>1, <1>2, <1>3 DEF AttemptStep

(* The controller's own steps. *)
LEMMA AttemptCandidate ==
    ASSUME TypeOK, TypeOK', NEW k \in Keys, HistoryInv(k), LeaseInv(k),
           StatusInv(k), CandidateInv(k), AttemptStep(k) \/ Expire(k)
    PROVE  StatusInv(k)' /\ CandidateInv(k)'
<1>a. UNCHANGED <<history, policy, source>> BY AttemptFrame
<1>b. /\ attempt[k] \in Attempt /\ policy \in Nat \ {0} /\ source \in Nat
      /\ status[k].policy \in Nat /\ status[k].source \in Nat
      /\ attempt[k].candidate.policy \in 0 .. MaxPolicy
      /\ Len(history[k]) \in Nat
  BY VersionsTyped
<1>c. StatusInv(k)'
  <2>1. CASE PublishWrite(k)
    <3>1. status'[k] = attempt[k].candidate BY <2>1 DEF PublishWrite, TypeOK
    <3> QED BY <1>a, <3>1 DEF StatusInv, CandidateInv
  <2>2. CASE ~PublishWrite(k)
    BY <1>a, <2>2, StatusFrame DEF StatusInv
  <2> QED BY <2>1, <2>2
<1> SUFFICES CandidateInv(k)' BY <1>c
<1>1. CASE Ends(k) BY <1>1, IdleCandidate DEF Ends
<1>2. CASE ~Ends(k)
  <2>a. status' = status
    <3>1. ASSUME PublishWrite(k) PROVE FALSE
      <4>1. attempt'[k] = Idle BY <3>1, FinishEffect DEF PublishWrite, Skip
      <4> QED BY <1>2, <3>1, <4>1 DEF Ends
    <3> QED BY <3>1, StatusFrame
  <2>b. ASSUME attempt'[k].lease = attempt[k].lease \/ attempt'[k].pc \notin Publishing,
               attempt'[k].candidate = attempt[k].candidate,
               attempt'[k].retry = attempt[k].retry,
               attempt'[k].read = attempt[k].read \/ attempt'[k].pc \notin {"compare", "write"},
               attempt'[k].pc \in Unleased \cup {"validate", "load"}
                 => attempt[k].pc \in Unleased \cup {"validate", "load"},
               attempt'[k].pc \in Evaluating => attempt[k].pc \in Evaluating,
               attempt'[k].pc \in Publishing <=> attempt[k].pc \in Publishing,
               attempt'[k].pc \in {"compare", "write"}
                 => attempt[k].pc \in {"compare", "write"}
        PROVE  CandidateInv(k)'
    <3>1. Allowed(k)' <=> Allowed(k) BY <2>b DEF Allowed
    <3>2. Stored(k)' = Stored(k) /\ history' = history BY <1>a DEF Stored
    <3>3. attempt'[k].pc \in {"compare", "write"} => attempt'[k].pc \in Publishing
      BY DEF Publishing
    <3> QED BY <1>a, <2>a, <2>b, <3>1, <3>2, <3>3 DEF CandidateInv
  <2>v. ASSUME NEW outcome \in {"timedOut", "rejected"},
               attempt'[k] = Verdict(k, outcome)
        PROVE  CandidateInv(k)'
    <3>1. /\ attempt'[k].pc = "publish" /\ attempt'[k].retry
          /\ attempt'[k].lease = attempt[k].lease
          /\ attempt'[k].candidate.outcome = outcome
          /\ attempt'[k].candidate.gen = attempt[k].lease.gen
          /\ attempt'[k].candidate.policy = attempt[k].candidate.policy
          /\ attempt'[k].candidate.source = attempt[k].candidate.source
      BY <1>b, <2>v, VerdictFields
    <3>2. outcome # "result" BY <2>v
    <3> QED BY <1>a, <3>1, <3>2 DEF CandidateInv, Unleased, Publishing, Evaluating
  <2>1. CASE Begin(k)
    BY <2>1, <2>b, MoveEffect DEF Begin, Unleased, Publishing, Evaluating
  <2>2. CASE Get(k)
    <3>1. /\ attempt[k].pc = "get"
          /\ attempt'[k].pc \in {"remove", "observe", "acquire"}
          /\ attempt'[k].lease = attempt[k].lease
          /\ attempt'[k].retry = attempt[k].retry
          /\ attempt'[k].candidate = attempt[k].candidate
      BY <2>2, GetEffect DEF Get
    <3> QED BY <2>b, <3>1 DEF Unleased, Publishing, Evaluating
  <2>3. CASE ObserveDeleting(k) \/ RemoveRoutes(k)
    BY <2>3, <2>b, MoveEffect
       DEF ObserveDeleting, RemoveRoutes, Unleased, Publishing, Evaluating
  <2>4. CASE Acquire(k) /\ tracked[k].active = NoLease
    <3>1. /\ attempt'[k].pc = "validate" /\ attempt[k].pc = "acquire"
          /\ attempt'[k].retry = attempt[k].retry
          /\ attempt'[k].candidate = attempt[k].candidate
      BY <2>4, AcquireEffect DEF Acquire
    <3> QED BY <2>b, <3>1 DEF Unleased, Publishing, Evaluating
  <2>5. CASE StageTimesOut(k)
    BY <2>5, <2>v DEF StageTimesOut, TimeoutCandidate, TypeOK
  <2>6. CASE Validate(k)
    <3>1. CASE Move(k, "load")
      BY <2>6, <2>b, <3>1, MoveEffect DEF Validate, Unleased, Publishing, Evaluating
    <3>2. CASE attempt' = [attempt EXCEPT ![k] = Verdict(k, "rejected")]
      BY <2>v, <3>2 DEF TypeOK
    <3> QED BY <2>6, <3>1, <3>2 DEF Validate
  <2>7. CASE LoadPolicy(k)
    <3>1. attempt[k].pc = "load" /\ attempt'[k].pc = "replace"
      BY <2>7, LoadEffect DEF LoadPolicy
    <3>2. /\ attempt'[k].candidate.source = 0
          /\ attempt'[k].candidate.outcome = "none"
          /\ attempt[k].candidate.policy = 0
      BY <2>7, <3>1, LoadEffect DEF CandidateInv, Publishing
    <3>3. \/ attempt'[k].candidate.policy = policy
          \/ attempt'[k].retry /\ attempt'[k].candidate.policy = 0
      BY <2>7, <3>2, LoadEffect
    <3>4. /\ policy <= policy /\ 0 <= policy /\ 0 <= source /\ policy # 0
          /\ status[k].policy <= policy
      BY <1>b DEF StatusInv
    <3> QED BY <1>a, <2>a, <3>1, <3>2, <3>3, <3>4
            DEF CandidateInv, Unleased, Publishing, Evaluating
  <2>8. CASE Replace(k) \/ Install(k) \/ WatchReady(k)
    BY <2>8, <2>b, MoveEffect
       DEF Replace, Install, WatchReady, Unleased, Publishing, Evaluating
  <2>9. CASE WaitFails(k)
    <3>1. ~Interrupted(k)
      <4>1. ASSUME Interrupted(k) PROVE attempt'[k] = Idle
        BY <2>9, <4>1, FinishEffect DEF WaitFails
      <4> QED BY <1>2, <2>9, <4>1 DEF Ends
    <3> QED BY <2>9, <2>v, <3>1 DEF WaitFails, TimeoutCandidate, TypeOK
  <2>10. CASE Evaluate(k)
    <3>1. PICK outcome \in {"result", "degraded", "interrupted", "unavailable"} :
            attempt'[k] = Evaluated(k, outcome)
      BY <2>10 DEF Evaluate, TypeOK
    <3> DEFINE c == attempt'[k].candidate
    <3>2. /\ attempt'[k].pc \in {"publish", "compose"}
          /\ attempt'[k].lease = attempt[k].lease
          /\ c.gen = attempt[k].lease.gen
          /\ c.policy = attempt[k].candidate.policy
          /\ c.source = IF outcome = "unavailable" \/ ~Allowed(k) THEN 0 ELSE source
      BY <1>b, <3>1, EvaluatedFields
    <3>3. attempt'[k].retry
            = (attempt[k].retry \/ outcome \in {"degraded", "unavailable"})
      BY <1>b, <3>1, EvaluatedFields
    <3>4. c.outcome = IF outcome = "result" /\ attempt[k].retry
                      THEN "degraded" ELSE outcome
      BY <1>b, <3>1, EvaluatedFields
    <3>5. ~attempt'[k].retry => ~attempt[k].retry BY <3>3
    <3>6. c.outcome = "result" => ~attempt'[k].retry /\ outcome = "result"
      BY <3>3, <3>4
    <3>7. attempt[k].pc = "evaluate" BY <2>10 DEF Evaluate
    <3>8. c.source <= source /\ (Allowed(k) /\ outcome = "result" => c.source = source)
      BY <1>b, <3>2
    <3>9. c.policy \in Denying => c.source = 0 BY <3>2 DEF Allowed
    <3>10. Allowed(k)' <=> Allowed(k) BY <3>2 DEF Allowed
    <3>11. status[k].source <= source BY DEF StatusInv
    <3>12. ~attempt'[k].retry =>
             status[k].policy <= c.policy /\ c.policy # 0
      BY <3>2, <3>5, <3>7 DEF CandidateInv, Evaluating
    <3>13. c.policy <= policy BY <3>2 DEF CandidateInv
    <3> HIDE DEF c
    <3> QED BY <1>a, <2>a, <3>2, <3>6, <3>8, <3>9, <3>10, <3>11, <3>12, <3>13
            DEF CandidateInv, Unleased, Publishing, c
  <2>11. CASE Compose(k)
    <3>1. /\ attempt'[k].pc = "publish" /\ attempt[k].pc = "compose"
          /\ attempt'[k].lease = attempt[k].lease
          /\ attempt'[k].retry = attempt[k].retry
          /\ attempt'[k].candidate = attempt[k].candidate
      BY <2>11, NotingEffect DEF Compose, Kept
    <3> QED BY <2>b, <3>1 DEF Unleased, Publishing, Evaluating
  <2>12. CASE PublishRead(k)
    <3>1. ~Compose(k) BY <2>12 DEF Compose, PublishRead
    <3>2. /\ attempt'[k].pc = "compare" /\ attempt[k].pc = "publish"
          /\ attempt'[k].lease = attempt[k].lease
          /\ attempt'[k].retry = attempt[k].retry
          /\ attempt'[k].candidate = attempt[k].candidate
          /\ attempt'[k].read = Len(history[k])
      BY <2>12, <3>1, NotingEffect DEF PublishRead, Kept
    <3>3. attempt[k].lease.gen = Stored(k).gen BY <2>12 DEF PublishRead, Matches
    <3>4. Allowed(k)' <=> Allowed(k) BY <3>2 DEF Allowed
    <3>5. Stored(k)' = Stored(k) /\ Len(history[k]) <= Len(history[k])
      BY <1>a, <1>b DEF Stored
    <3> QED BY <1>a, <2>a, <3>2, <3>3, <3>4, <3>5
            DEF CandidateInv, Unleased, Publishing, Evaluating
  <2>13. CASE Expire(k) /\ ~Compose(k) /\ ~PublishRead(k)
    <3>1. /\ attempt'[k].pc = attempt[k].pc
          /\ attempt'[k].lease = attempt[k].lease
          /\ attempt'[k].retry = attempt[k].retry
          /\ attempt'[k].candidate = attempt[k].candidate
          /\ attempt'[k].read = attempt[k].read
      BY <2>13, NotingEffect DEF Kept
    <3> QED BY <2>b, <3>1
  <2>14. CASE PublishCompare(k)
    <3>1. ASSUME Finish(k, attempt[k].retry) PROVE FALSE
      <4>1. attempt'[k] = Idle BY <3>1, FinishEffect
      <4> QED BY <1>2, <2>14, <4>1 DEF Ends
    <3>2. Move(k, "write") BY <2>14, <3>1 DEF PublishCompare
    <3> QED BY <2>14, <2>b, <3>2, MoveEffect
            DEF PublishCompare, Unleased, Publishing, Evaluating
  <2>15. ASSUME \/ Acquire(k) /\ tracked[k].active # NoLease
                \/ GetFails(k) \/ MarkAbsent(k)
                \/ StageInterrupted(k) \/ InstallStale(k)
                \/ PublishSkips(k) \/ PublishDeleting(k) \/ PublishFails(k)
                \/ PublishWrite(k)
         PROVE  FALSE
    <3>1. attempt'[k] = Idle
      BY <2>15, FinishEffect DEF Acquire, GetFails, MarkAbsent, StageInterrupted,
         InstallStale, PublishSkips, Skip, PublishDeleting, PublishFails,
         PublishWrite, TypeOK
    <3> QED BY <1>2, <2>15, <3>1 DEF Ends
  <2> QED BY <2>1, <2>2, <2>3, <2>4, <2>5, <2>6, <2>7, <2>8, <2>9, <2>10,
             <2>11, <2>12, <2>13, <2>14, <2>15 DEF AttemptStep
<1> QED BY <1>1, <1>2

(* ... and everyone else's. *)
LEMMA CandidateStep ==
    ASSUME TypeOK, TypeOK', NEW k \in Keys, HistoryInv(k), LeaseInv(k),
           StatusInv(k), CandidateInv(k), [Next]_vars
    PROVE  StatusInv(k)' /\ CandidateInv(k)'
<1> USE DEF OutsideCluster, OutsideIngress, cluster, informer
<1>a. policy \in Nat /\ source \in Nat /\ Len(history[k]) \in Nat
      /\ policy <= policy /\ source <= source
      /\ policy <= policy + 1 /\ source <= source + 1
  BY VersionsTyped
<1>1. CASE Same(k) BY <1>1, <1>a, CandidateKept DEF Same
<1>2. CASE ClusterStep(k)
  <2>1. PICK o \in Object :
          /\ history' = [history EXCEPT ![k] = Append(history[k], o)]
          /\ UNCHANGED <<policy, source, OutsideCluster>>
    BY <1>2, ClusterEffect
  <2>2. history[k] \in Seq(Object) BY DEF TypeOK
  <2>3. history'[k] = Append(history[k], o) BY <2>1 DEF TypeOK
  <2>4. Len(history'[k]) = Len(history[k]) + 1 BY <2>2, <2>3
  <2>5. status'[k] = status[k] \/ status'[k] = NoStatus
    BY <1>2 DEF ClusterStep, CreateFacet, UpdateFacet, MarkDeleting,
       DeleteFacet, TypeOK
  <2> QED BY <1>a, <2>1, <2>4, <2>5, CandidateKept
<1>3. CASE DeliverEvent(k)
  <2>1. attempt'[k] = attempt[k] \/ attempt'[k] = Cancelled(k)
    BY <1>3 DEF DeliverEvent, HandleEvent, Observe, ObserveDelete, TypeOK
  <2> QED BY <1>3, <1>a, <2>1, CandidateKept DEF DeliverEvent
<1>4. CASE HandlerRemove(k) \/ HandlerEnqueue(k)
  BY <1>4, <1>a, CandidateKept DEF HandlerRemove, HandlerEnqueue
<1>5. CASE QueueTrigger(k) \/ LapseTrigger(k) \/ RouteEvent(k) \/ SafetyTick
  BY <1>5, <1>a, CandidateKept DEF QueueTrigger, LapseTrigger, RouteEvent, SafetyTick
<1>6. CASE ChangePolicy \/ ChangeSource
  BY <1>6, <1>a, CandidateKept DEF ChangePolicy, ChangeSource
<1>7. CASE PolicyRemoveAll \/ PolicyRequest
  BY <1>7, <1>a, CandidateKept DEF PolicyRemoveAll, PolicyRequest
<1>8. CASE DeliverPolicy
  BY <1>8, <1>a, CandidateKept DEF DeliverPolicy, InvalidateAll
<1>9. CASE Restart
  <2>1. attempt'[k] = Idle BY <1>9 DEF Restart
  <2>2. StatusInv(k)' BY <1>9 DEF Restart, StatusInv
  <2> QED BY <2>1, <2>2, IdleCandidate
<1> QED BY <1>1, <1>2, <1>3, <1>4, <1>5, <1>6, <1>7, <1>8, <1>9,
           AttemptCandidate, StepsOfKey
        DEF OwnStep, HandlerStep, GlobalStep, PolicyStep

----------------------------------------------------------------------------
(* The theorems. *)

KeyInv(k) ==
    /\ HistoryInv(k) /\ LeaseInv(k) /\ SettledInv(k) /\ EvalInv(k)
    /\ RestInv(k) /\ AbsentInv(k) /\ StatusInv(k) /\ CandidateInv(k)

AllInv == IndInv /\ \A k \in Keys : KeyInv(k)

(* An empty cluster satisfies the invariant. *)
LEMMA InitAllInv == Init => AllInv
<1> SUFFICES ASSUME Init, NEW k \in Keys PROVE KeyInv(k)
  BY InitIndInv DEF AllInv
<1>a. /\ history[k] = <<Absent>> /\ observed[k] = 1 /\ routes[k] = NoLease
      /\ attempt[k] = Idle /\ policy = 1 /\ source = 1 /\ status[k] = NoStatus
  BY DEF Init
<1>b. Len(history[k]) = 1 /\ Stored(k) = Absent BY <1>a DEF Stored
<1>c. /\ attempt[k].pc = "idle" /\ attempt[k].lease = NoLease
      /\ ~attempt[k].cancelled /\ attempt[k].candidate = NoStatus
  BY <1>a, IdleFields
<1>1. HistoryInv(k) BY <1>a, <1>b DEF HistoryInv, Stored
<1>2. LeaseInv(k) BY <1>c DEF LeaseInv, Unleased
<1>3. SettledInv(k) /\ EvalInv(k) /\ RestInv(k)
  BY <1>b DEF SettledInv, EvalInv, RestInv, Settled
<1>4. AbsentInv(k) BY <1>a, <1>c DEF AbsentInv, Unleased
<1>5. 0 \notin Denying BY BoundsAssumption
<1>6. StatusInv(k) BY <1>a, <1>5, NoStatusFields DEF StatusInv
<1>7. CandidateInv(k)
  BY <1>a, <1>c, <1>5, NoStatusFields
     DEF CandidateInv, Unleased, Publishing, Evaluating
<1> QED BY <1>1, <1>2, <1>3, <1>4, <1>6, <1>7 DEF KeyInv

(* Every step preserves it. *)
LEMMA AllInductive == AllInv /\ [Next]_vars => AllInv'
<1> SUFFICES ASSUME AllInv, [Next]_vars PROVE AllInv'
  OBVIOUS
<1>1. IndInv /\ IndInv' BY Inductive DEF AllInv
<1>2. TypeOK /\ TypeOK' /\ EpochBound /\ LeaseHeld BY <1>1 DEF IndInv
<1>3. ASSUME NEW k \in Keys PROVE KeyInv(k)'
  <2>1. /\ HistoryInv(k) /\ LeaseInv(k) /\ SettledInv(k) /\ EvalInv(k)
        /\ RestInv(k) /\ AbsentInv(k) /\ StatusInv(k) /\ CandidateInv(k)
    BY DEF AllInv, KeyInv
  <2>2. HistoryInv(k)' BY <1>2, <2>1, HistoryStep
  <2>3. LeaseInv(k)' BY <1>2, <2>1, LeaseStep
  <2>4. SettledInv(k)' BY <1>2, <2>1, SettledInvStep
  <2>5. EvalInv(k)' BY <1>2, <2>1, EvalInvStep
  <2>6. RestInv(k)' BY <1>2, <2>1, RestInvStep
  <2>7. AbsentInv(k)' BY <1>2, <2>1, AbsentStep
  <2>8. StatusInv(k)' /\ CandidateInv(k)' BY <1>2, <2>1, CandidateStep
  <2> QED BY <2>2, <2>3, <2>4, <2>5, <2>6, <2>7, <2>8 DEF KeyInv
<1> QED BY <1>1, <1>3 DEF AllInv

(* The controller only rests when it is done: with nothing under way for a  *)
(* live Facet its status and its routes are those of its present spec, the  *)
(* present policy and the present sources.                                  *)
THEOREM RestIsConverged == Spec => []RestsConverged
<1>1. ASSUME AllInv PROVE RestsConverged
  <2> SUFFICES ASSUME NEW k \in Keys, Quiet(k), Stored(k) # Absent,
                      ~Stored(k).deleting
               PROVE  /\ \E outcome \in {"result", "interrupted"} :
                           status[k] = [Fresh(k) EXCEPT !.outcome = outcome]
                      /\ IF policy \in Denying
                         THEN routes[k] = NoLease
                         ELSE routes[k] # NoLease /\ IsLeaseCurrent(k, routes[k])
    BY DEF RestsConverged
  <2>1. Settled(k) /\ attempt[k].pc = "idle" /\ k \notin missed /\ k \notin notify
    BY DEF Settled, Behind, Quiet
  <2>2. RoutesAgree(k) /\ Reports(k, status[k])
    BY <1>1, <2>1 DEF AllInv, KeyInv, RestInv
  <2>3. status[k] \in Status BY <1>1 DEF AllInv, IndInv, TypeOK
  <2>4. /\ status[k].gen = Stored(k).gen /\ status[k].policy = policy
        /\ status[k].source = IF policy \in Denying THEN 0 ELSE source
        /\ status[k].outcome \in {"result", "interrupted"}
    BY <2>1, <2>2 DEF Reports
  <2> DEFINE from == IF policy \in Denying THEN 0 ELSE source
             s == [gen |-> Stored(k).gen, policy |-> policy, source |-> from,
                   outcome |-> status[k].outcome]
  <2>5. status[k] = s
    <3> HIDE DEF from
    <3> QED BY <2>3, <2>4 DEF Status, from
  <2>6. [Fresh(k) EXCEPT !.outcome = status[k].outcome] = s BY DEF Fresh
  <2> QED BY <2>2, <2>4, <2>5, <2>6 DEF RoutesAgree
<1> QED BY <1>1, InitAllInv, AllInductive, PTL DEF Spec

(* With nothing under way for a Facet that is gone or being deleted, no      *)
(* binding of it is left, whoever of the handler, the policy handler and the *)
(* controller was the last to act.                                           *)
THEOREM RestHasNoOrphans == Spec => []RestsWithoutOrphans
<1>1. ASSUME AllInv PROVE RestsWithoutOrphans
  <2> SUFFICES ASSUME NEW k \in Keys, Quiet(k),
                      Stored(k) = Absent \/ Stored(k).deleting
               PROVE  routes[k] = NoLease
    BY DEF RestsWithoutOrphans
  <2>1. CASE Stored(k) = Absent
    BY <1>1, <2>1 DEF AllInv, KeyInv, AbsentInv, Quiet
  <2>2. CASE Stored(k) # Absent
    <3>1. Settled(k) /\ attempt[k].pc = "idle" /\ k \notin missed
      BY <2>2 DEF Settled, Behind, Quiet
    <3> QED BY <1>1, <2>2, <3>1 DEF AllInv, KeyInv, RestInv
  <2> QED BY <2>1, <2>2
<1> QED BY <1>1, InitAllInv, AllInductive, PTL DEF Spec

(* The status never goes back: a write carries the generation of the object  *)
(* whose status it replaces, and a result never replaces one made with a     *)
(* later policy, or with later sources under the same policy.                *)
THEOREM StatusIsMonotone == Spec => StatusAdvances
<1> DEFINE Advances ==
      \A k \in Keys : status'[k] # status[k] /\ history'[k] = history[k] =>
        /\ status'[k].gen = Stored(k).gen
        /\ status[k].gen = status'[k].gen /\ status'[k].outcome = "result"
              => /\ status'[k].policy >= status[k].policy
                 /\ status[k].policy = status'[k].policy
                       => status'[k].source >= status[k].source
<1>1. ASSUME AllInv, [Next]_vars PROVE Advances
  <2> SUFFICES ASSUME NEW k \in Keys, status'[k] # status[k],
                      history'[k] = history[k]
               PROVE  /\ status'[k].gen = Stored(k).gen
                      /\ status'[k].outcome = "result"
                           => /\ status'[k].policy >= status[k].policy
                              /\ status[k].policy = status'[k].policy
                                    => status'[k].source >= status[k].source
    OBVIOUS
  <2>a. TypeOK /\ HistoryInv(k) /\ StatusInv(k) /\ CandidateInv(k)
    BY <1>1 DEF AllInv, IndInv, KeyInv
  <2>1. PublishWrite(k)
    <3>1. CASE Same(k) BY <3>1 DEF Same
    <3>2. CASE ClusterStep(k)
      <4>1. PICK o \in Object :
              history' = [history EXCEPT ![k] = Append(history[k], o)]
        BY <2>a, <3>2, ClusterEffect
      <4>2. history[k] \in Seq(Object) /\ Len(history[k]) \in Nat
        BY <2>a DEF TypeOK
      <4>3. Len(history'[k]) = Len(history[k]) + 1 BY <2>a, <4>1, <4>2 DEF TypeOK
      <4> QED BY <4>2, <4>3
    <3>3. CASE OwnStep(k) /\ ~ClusterStep(k) /\ ~AttemptStep(k)
      BY <3>3 DEF OwnStep, HandlerStep, DeliverEvent, HandlerRemove,
         HandlerEnqueue, QueueTrigger, LapseTrigger, RouteEvent, Expire,
         OutsideIngress
    <3>4. CASE GlobalStep
      BY <3>4 DEF GlobalStep, ChangePolicy, ChangeSource, PolicyStep,
         DeliverPolicy, PolicyRemoveAll, PolicyRequest, SafetyTick, Restart,
         OutsideIngress
    <3> QED BY <1>1, <2>a, <3>1, <3>2, <3>3, <3>4, StepsOfKey, StatusFrame
            DEF OwnStep
  <2>2. status'[k] = attempt[k].candidate /\ attempt[k].read = Len(history[k])
        /\ attempt[k].pc = "write"
    BY <2>1, <2>a DEF PublishWrite, TypeOK
  <2>3. status'[k].gen = Stored(k).gen
    BY <2>a, <2>2 DEF CandidateInv, Publishing
  <2>4. ASSUME status'[k].outcome = "result"
        PROVE  /\ status'[k].policy >= status[k].policy
               /\ status[k].policy = status'[k].policy
                     => status'[k].source >= status[k].source
    <3>1. /\ status[k].policy <= attempt[k].candidate.policy
          /\ attempt[k].candidate.policy # 0
          /\ Allowed(k) => status[k].source <= attempt[k].candidate.source
      BY <2>a, <2>2, <2>4 DEF CandidateInv, Publishing, Evaluating
    <3>2. /\ status[k].policy \in Nat /\ status[k].source \in Nat
          /\ attempt[k].candidate.policy \in 0 .. MaxPolicy
          /\ attempt[k].candidate.policy \in Nat
          /\ attempt[k].candidate.source \in Nat
      BY <2>a, VersionsTyped
    <3>3. Allowed(k) \/ attempt[k].candidate.policy \in Denying
      BY <3>1, <3>2, BoundsAssumption DEF Allowed
    <3>4. status[k].policy \in Denying => status[k].source = 0
      BY <2>a DEF StatusInv
    <3> QED BY <2>2, <3>1, <3>2, <3>3, <3>4
  <2> QED BY <2>3, <2>4
<1>2. AllInv /\ [Next]_vars => [Advances]_vars BY <1>1
<1> QED BY <1>2, InitAllInv, AllInductive, PTL DEF Spec, StatusAdvances
=============================================================================
