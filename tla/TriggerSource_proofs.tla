----------------------- MODULE TriggerSource_proofs -----------------------
(***************************************************************************)
(* The trigger ingress loses no trigger, for every set of Facet names, any *)
(* capacity and any set of callers.                                        *)
(***************************************************************************)
EXTENDS TriggerSource, FiniteSetTheorems, TLAPS

(* The running flag is exactly the worker's being alive. *)
WorkerFlag == running <=> worker.pc # "off"

(* A trigger is owed only to a Facet that exists. *)
OwedExist == owed \subseteq facets

(* Start marks the source started first and launches the drainer second. *)
StartOrder ==
    /\ startup # "idle" => started
    /\ startup \in {"idle", "launch"} => drainer.pc = "off"

IndInv == TypeOK /\ WorkerFlag /\ OwedExist /\ StartOrder
          /\ IngressAwake /\ IntentServed /\ NoTriggerLost

(* The initial state of NewTriggerSource satisfies the inductive invariant. *)
LEMMA InitIndInv == Init => IndInv
<1> SUFFICES ASSUME Init PROVE IndInv
  OBVIOUS
<1>1. TypeOK
  <2>1. Cardinality(pending) <= Capacity
    <3>1. Cardinality({}) = 0 BY FS_EmptySet
    <3> QED BY <3>1, CapacityAssumption DEF Init
  <2> QED BY <2>1 DEF Init, TypeOK
<1>2. WorkerFlag /\ StartOrder BY DEF Init, WorkerFlag, StartOrder
<1>3. OwedExist /\ NoTriggerLost BY DEF Init, OwedExist, NoTriggerLost
<1>4. IngressAwake /\ IntentServed BY DEF Init, IngressAwake, IntentServed
<1> QED BY <1>1, <1>2, <1>3, <1>4 DEF IndInv

(* The Boolean fields and the others, typed apart: the two call for         *)
(* different provers.                                                       *)
FlagsTyped ==
    /\ started \in BOOLEAN /\ preRequest \in BOOLEAN /\ wake \in BOOLEAN
    /\ overloaded \in BOOLEAN /\ requested \in BOOLEAN
    /\ running \in BOOLEAN /\ stopped \in BOOLEAN

DataTyped ==
    /\ facets \in SUBSET Keys
    /\ startup \in {"idle", "launch", "request", "again", "done"}
    /\ pending \in SUBSET Keys
    /\ spawning \in SUBSET Requesters
    /\ drainer \in [pc : {"off", "wait", "lock", "add", "exit"},
                    keys : SUBSET Keys, recover : BOOLEAN]
    /\ worker \in [pc : {"off", "check", "list", "add", "backoff"},
                   keys : SUBSET Keys]
    /\ owed \in SUBSET Keys

PendingBounded == Cardinality(pending) <= Capacity

(* TypeOK is the conjunction of the two and the bound on the pending set. *)
LEMMA TypeSplit == TypeOK <=> FlagsTyped /\ DataTyped /\ PendingBounded
BY DEF TypeOK, FlagsTyped, DataTyped, PendingBounded

(* Every step assigns flags TRUE, FALSE or the value of another flag. *)
LEMMA NextFlagsTyped == FlagsTyped /\ [Next]_vars => FlagsTyped'
<1> SUFFICES ASSUME FlagsTyped, [Next]_vars PROVE FlagsTyped'
  OBVIOUS
<1> USE DEF FlagsTyped, starting, ingress
<1>1. ASSUME NEW k \in Keys, FacetCreated(k) \/ FacetDeleted(k) \/ Enqueue(k)
             \/ DrainAdd(k) \/ WorkerAdd(k)
      PROVE FlagsTyped'
  BY <1>1, Zenon DEF FacetCreated, FacetDeleted, Enqueue, AcceptTrigger,
                     signalWakeLocked, DrainAdd, WorkerAdd
<1>2. ASSUME NEW r \in Callers, RequestEnqueueAll(r) PROVE FlagsTyped'
  BY <1>2, Zenon DEF RequestEnqueueAll, SetIntent
<1>3. ASSUME NEW r \in Requesters, SpawnWorker(r) PROVE FlagsTyped'
  BY <1>3, Zenon DEF SpawnWorker, startEnqueueWorker
<1>4. CASE Stop BY <1>4, Zenon DEF Stop
<1>5. CASE StartStep
  BY <1>5, Zenon DEF StartStep, Start, StartGoroutines, StartRequest,
                     StartAgain, SetIntent, startEnqueueWorker
<1>6. CASE DrainStep
  BY <1>6, Zenon DEF DrainStep, DrainWake, DrainTake, DrainDone, DrainExit,
                     SetIntent
<1>7. CASE WorkerStep
  BY <1>7, Zenon DEF WorkerStep, WorkerCheck, WorkerList, WorkerListed,
                     WorkerListFails, WorkerRetry, WorkerCancelled
<1>8. CASE UNCHANGED vars BY <1>8 DEF vars
<1> QED BY <1>1, <1>2, <1>3, <1>4, <1>5, <1>6, <1>7, <1>8 DEF Next

(* The sets of keys and the two goroutines' local states stay in range. *)
LEMMA NextDataTyped == TypeOK /\ [Next]_vars => DataTyped'
<1> SUFFICES ASSUME TypeOK, [Next]_vars PROVE DataTyped'
  OBVIOUS
<1> USE DEF TypeOK, DataTyped, starting, ingress
<1>1. ASSUME NEW k \in Keys, FacetCreated(k) \/ FacetDeleted(k) \/ Enqueue(k)
             \/ DrainAdd(k) \/ WorkerAdd(k)
      PROVE DataTyped'
  <2>1. CASE FacetCreated(k) BY <2>1 DEF FacetCreated
  <2>2. CASE FacetDeleted(k) BY <2>2 DEF FacetDeleted
  <2>3. CASE Enqueue(k) BY <2>3 DEF Enqueue, AcceptTrigger
  <2>4. CASE DrainAdd(k) BY <2>4 DEF DrainAdd
  <2>5. CASE WorkerAdd(k) BY <2>5 DEF WorkerAdd
  <2> QED BY <1>1, <2>1, <2>2, <2>3, <2>4, <2>5
<1>2. ASSUME NEW r \in Callers, RequestEnqueueAll(r) PROVE DataTyped'
  BY <1>2 DEF RequestEnqueueAll, SetIntent, Requesters
<1>3. ASSUME NEW r \in Requesters, SpawnWorker(r) PROVE DataTyped'
  BY <1>3 DEF SpawnWorker, startEnqueueWorker
<1>4. CASE Stop BY <1>4 DEF Stop
<1>5. CASE StartStep
  BY <1>5 DEF StartStep, Start, StartGoroutines, StartRequest, StartAgain,
              SetIntent, Requesters, startEnqueueWorker
<1>6. CASE DrainStep
  <2>1. CASE DrainWake BY <2>1 DEF DrainWake
  <2>2. CASE DrainTake BY <2>2 DEF DrainTake
  <2>3. CASE DrainDone BY <2>3 DEF DrainDone, SetIntent, Requesters
  <2>4. CASE DrainExit BY <2>4 DEF DrainExit
  <2> QED BY <1>6, <2>1, <2>2, <2>3, <2>4 DEF DrainStep
<1>7. CASE WorkerStep
  BY <1>7 DEF WorkerStep, WorkerCheck, WorkerList, WorkerListed,
              WorkerListFails, WorkerRetry, WorkerCancelled
<1>8. CASE UNCHANGED vars BY <1>8 DEF vars
<1> QED BY <1>1, <1>2, <1>3, <1>4, <1>5, <1>6, <1>7, <1>8 DEF Next

(* Enqueue adds to the pending set only below its capacity. *)
LEMMA NextBounded == TypeOK /\ [Next]_vars => PendingBounded'
<1> SUFFICES ASSUME TypeOK, [Next]_vars PROVE PendingBounded'
  OBVIOUS
<1> USE DEF PendingBounded, starting, ingress
<1>0. /\ pending \subseteq Keys /\ Cardinality(pending) <= Capacity
      /\ IsFiniteSet(pending) /\ Cardinality(pending) \in Nat
  BY KeysAssumption, FS_Subset, FS_CardinalityType DEF TypeOK
<1>1. ASSUME NEW k \in Keys, Enqueue(k) PROVE PendingBounded'
  <2>1. CASE k \notin pending /\ Cardinality(pending) < Capacity
             /\ pending' = pending \cup {k}
    <3>1. Cardinality(pending') = Cardinality(pending) + 1
      BY <1>0, <2>1, FS_AddElement
    <3> QED BY <1>0, <2>1, <3>1, CapacityAssumption
  <2>2. CASE pending' = pending BY <1>0, <2>2
  <2> QED BY <1>1, <2>1, <2>2 DEF Enqueue, AcceptTrigger
<1>2. CASE DrainTake
  BY <1>2, FS_EmptySet, CapacityAssumption DEF DrainTake
<1>3. CASE UNCHANGED pending BY <1>0, <1>3
<1>4. \/ \E k \in Keys : Enqueue(k)
      \/ DrainTake
      \/ UNCHANGED pending
  BY DEF Next, vars, FacetCreated, FacetDeleted, DrainAdd, WorkerAdd,
         RequestEnqueueAll, SpawnWorker, Stop, StartStep, Start,
         StartGoroutines, StartRequest, StartAgain, DrainStep, DrainWake,
         DrainDone, DrainExit, WorkerStep, WorkerCheck, WorkerList,
         WorkerListed, WorkerListFails, WorkerRetry, WorkerCancelled
<1> QED BY <1>1, <1>2, <1>3, <1>4

(* Every critical section and every queue.Add preserves the type invariant. *)
LEMMA NextTypeOK == TypeOK /\ [Next]_vars => TypeOK'
<1>1. TypeOK' <=> FlagsTyped' /\ DataTyped' /\ PendingBounded'
  BY DEF TypeOK, FlagsTyped, DataTyped, PendingBounded
<1> QED BY <1>1, TypeSplit, NextFlagsTyped, NextDataTyped, NextBounded

(* The flags that tie the worker and Start to their program counters. *)
LEMMA NextFlags ==
    TypeOK /\ WorkerFlag /\ OwedExist /\ StartOrder /\ [Next]_vars
        => WorkerFlag' /\ OwedExist' /\ StartOrder'
<1> SUFFICES ASSUME TypeOK, WorkerFlag, OwedExist, StartOrder, [Next]_vars
             PROVE WorkerFlag' /\ OwedExist' /\ StartOrder'
  OBVIOUS
<1> USE DEF TypeOK, WorkerFlag, OwedExist, StartOrder, starting, ingress
<1>1. ASSUME NEW k \in Keys, FacetCreated(k) \/ FacetDeleted(k) \/ Enqueue(k)
             \/ DrainAdd(k) \/ WorkerAdd(k)
      PROVE WorkerFlag' /\ OwedExist' /\ StartOrder'
  BY <1>1 DEF FacetCreated, FacetDeleted, Enqueue, DrainAdd, WorkerAdd
<1>2. ASSUME NEW r \in Callers, RequestEnqueueAll(r)
      PROVE WorkerFlag' /\ OwedExist' /\ StartOrder'
  BY <1>2 DEF RequestEnqueueAll, SetIntent
<1>3. ASSUME NEW r \in Requesters, SpawnWorker(r)
      PROVE WorkerFlag' /\ OwedExist' /\ StartOrder'
  BY <1>3 DEF SpawnWorker, startEnqueueWorker
<1>4. CASE Stop BY <1>4 DEF Stop
<1>5. CASE StartStep
  BY <1>5 DEF StartStep, Start, StartGoroutines, StartRequest, StartAgain,
              SetIntent, startEnqueueWorker
<1>6. CASE DrainStep
  BY <1>6 DEF DrainStep, DrainWake, DrainTake, DrainDone, DrainExit, SetIntent
<1>7. CASE WorkerStep
  BY <1>7 DEF WorkerStep, WorkerCheck, WorkerList, WorkerListed,
              WorkerListFails, WorkerRetry, WorkerCancelled
<1>8. CASE UNCHANGED vars BY <1>8 DEF vars
<1> QED BY <1>1, <1>2, <1>3, <1>4, <1>5, <1>6, <1>7, <1>8 DEF Next

(* Enqueue never leaves work behind a sleeping drainer. *)
LEMMA NextAwake ==
    TypeOK /\ StartOrder /\ IngressAwake /\ [Next]_vars => IngressAwake'
<1> SUFFICES ASSUME TypeOK, StartOrder, IngressAwake, [Next]_vars
             PROVE IngressAwake'
  OBVIOUS
<1> USE DEF TypeOK, StartOrder, IngressAwake, starting, ingress
<1>1. ASSUME NEW k \in Keys, FacetCreated(k) \/ FacetDeleted(k) \/ Enqueue(k)
             \/ DrainAdd(k) \/ WorkerAdd(k)
      PROVE IngressAwake'
  <2>1. CASE FacetCreated(k) BY <2>1 DEF FacetCreated
  <2>2. CASE FacetDeleted(k) BY <2>2 DEF FacetDeleted
  <2>3. CASE Enqueue(k) BY <2>3 DEF Enqueue, AcceptTrigger, signalWakeLocked
  <2>4. CASE DrainAdd(k) BY <2>4 DEF DrainAdd
  <2>5. CASE WorkerAdd(k) BY <2>5 DEF WorkerAdd
  <2> QED BY <1>1, <2>1, <2>2, <2>3, <2>4, <2>5
<1>2. ASSUME NEW r \in Callers, RequestEnqueueAll(r) PROVE IngressAwake'
  BY <1>2 DEF RequestEnqueueAll, SetIntent
<1>3. ASSUME NEW r \in Requesters, SpawnWorker(r) PROVE IngressAwake'
  BY <1>3 DEF SpawnWorker, startEnqueueWorker
<1>4. CASE Stop BY <1>4 DEF Stop
<1>5. CASE StartStep
  BY <1>5 DEF StartStep, Start, StartGoroutines, StartRequest, StartAgain,
              SetIntent, startEnqueueWorker
<1>6. CASE DrainStep
  BY <1>6 DEF DrainStep, DrainWake, DrainTake, DrainDone, DrainExit, SetIntent
<1>7. CASE WorkerStep
  BY <1>7 DEF WorkerStep, WorkerCheck, WorkerList, WorkerListed,
              WorkerListFails, WorkerRetry, WorkerCancelled
<1>8. CASE UNCHANGED vars BY <1>8 DEF vars
<1> QED BY <1>1, <1>2, <1>3, <1>4, <1>5, <1>6, <1>7, <1>8 DEF Next

(* An intent outlives neither its worker nor the caller that must start it. *)
LEMMA NextServed ==
    TypeOK /\ WorkerFlag /\ StartOrder /\ IntentServed /\ [Next]_vars
        => IntentServed'
<1> SUFFICES ASSUME TypeOK, WorkerFlag, StartOrder, IntentServed, [Next]_vars
             PROVE IntentServed'
  OBVIOUS
<1> USE DEF TypeOK, WorkerFlag, StartOrder, IntentServed, starting, ingress
<1>1. ASSUME NEW k \in Keys, FacetCreated(k) \/ FacetDeleted(k) \/ Enqueue(k)
             \/ DrainAdd(k) \/ WorkerAdd(k)
      PROVE IntentServed'
  BY <1>1 DEF FacetCreated, FacetDeleted, Enqueue, DrainAdd, WorkerAdd
<1>2. ASSUME NEW r \in Callers, RequestEnqueueAll(r) PROVE IntentServed'
  BY <1>2 DEF RequestEnqueueAll, SetIntent
<1>3. ASSUME NEW r \in Requesters, SpawnWorker(r) PROVE IntentServed'
  BY <1>3 DEF SpawnWorker, startEnqueueWorker
<1>4. CASE Stop BY <1>4 DEF Stop
<1>5. CASE StartStep
  BY <1>5 DEF StartStep, Start, StartGoroutines, StartRequest, StartAgain,
              SetIntent, startEnqueueWorker
<1>6. CASE DrainStep
  BY <1>6 DEF DrainStep, DrainWake, DrainTake, DrainDone, DrainExit, SetIntent
<1>7. CASE WorkerStep
  BY <1>7 DEF WorkerStep, WorkerCheck, WorkerList, WorkerListed,
              WorkerListFails, WorkerRetry, WorkerCancelled
<1>8. CASE UNCHANGED vars BY <1>8 DEF vars
<1> QED BY <1>1, <1>2, <1>3, <1>4, <1>5, <1>6, <1>7, <1>8 DEF Next

(* A debt is only passed on, from Enqueue to the drainer to the worker, and  *)
(* discharged by a queue.Add of that very key.                               *)
LEMMA NextNotLost ==
    TypeOK /\ WorkerFlag /\ OwedExist /\ StartOrder /\ NoTriggerLost
        /\ [Next]_vars => NoTriggerLost'
<1> SUFFICES ASSUME TypeOK, WorkerFlag, OwedExist, StartOrder, NoTriggerLost,
                    [Next]_vars, ~stopped', NEW o \in owed'
             PROVE Carried(o)'
  BY DEF NoTriggerLost
<1>a. ~stopped
  BY DEF Next, vars, FacetCreated, FacetDeleted, Enqueue, DrainAdd, WorkerAdd,
         RequestEnqueueAll, SpawnWorker, Stop, StartStep, Start,
         StartGoroutines, StartRequest, StartAgain, DrainStep, DrainWake,
         DrainTake, DrainDone, DrainExit, WorkerStep, WorkerCheck, WorkerList,
         WorkerListed, WorkerListFails, WorkerRetry, WorkerCancelled, TypeOK
<1> USE <1>a DEF TypeOK, WorkerFlag, OwedExist, StartOrder, NoTriggerLost,
                 Carried, starting, ingress
<1>1. ASSUME NEW k \in Keys, FacetCreated(k) \/ FacetDeleted(k) \/ Enqueue(k)
             \/ DrainAdd(k) \/ WorkerAdd(k)
      PROVE Carried(o)'
  <2>1. CASE FacetCreated(k) BY <2>1 DEF FacetCreated
  <2>2. CASE FacetDeleted(k) BY <2>2 DEF FacetDeleted
  <2>3. CASE Enqueue(k) BY <2>3 DEF Enqueue, AcceptTrigger
  <2>4. CASE DrainAdd(k) BY <2>4 DEF DrainAdd
  <2>5. CASE WorkerAdd(k) BY <2>5 DEF WorkerAdd
  <2> QED BY <1>1, <2>1, <2>2, <2>3, <2>4, <2>5
<1>2. ASSUME NEW r \in Callers, RequestEnqueueAll(r) PROVE Carried(o)'
  BY <1>2 DEF RequestEnqueueAll, SetIntent
<1>3. ASSUME NEW r \in Requesters, SpawnWorker(r) PROVE Carried(o)'
  BY <1>3 DEF SpawnWorker, startEnqueueWorker
<1>4. CASE Stop BY <1>4 DEF Stop
<1>5. CASE StartStep
  BY <1>5 DEF StartStep, Start, StartGoroutines, StartRequest, StartAgain,
              SetIntent, startEnqueueWorker
<1>6. CASE DrainStep
  BY <1>6 DEF DrainStep, DrainWake, DrainTake, DrainDone, DrainExit, SetIntent
<1>7. CASE WorkerStep
  BY <1>7 DEF WorkerStep, WorkerCheck, WorkerList, WorkerListed,
              WorkerListFails, WorkerRetry, WorkerCancelled
<1>8. CASE UNCHANGED vars BY <1>8 DEF vars
<1> QED BY <1>1, <1>2, <1>3, <1>4, <1>5, <1>6, <1>7, <1>8 DEF Next

(* The inductive invariant holds in every reachable state. *)
LEMMA Inductive == Spec => []IndInv
<1>1. IndInv /\ [Next]_vars => IndInv'
  BY NextTypeOK, NextFlags, NextAwake, NextServed, NextNotLost DEF IndInv
<1> QED BY InitIndInv, <1>1, PTL DEF Spec

(* The ingress is well typed. *)
THEOREM TypeCorrect == Spec => []TypeOK
BY Inductive, PTL DEF IndInv

(* No trigger is lost: for any Facets, any pending capacity and any callers, *)
(* a triggered Facet is carried until it is put on the work queue.           *)
THEOREM TriggersAreCarried == Spec => []NoTriggerLost
BY Inductive, PTL DEF IndInv

(* The drainer is never asleep on a non-empty or overloaded pending set. *)
THEOREM NoLostWakeup == Spec => []IngressAwake
BY Inductive, PTL DEF IndInv

(* An enqueue-all intent is never left without a worker or a caller. *)
THEOREM IntentsAreServed == Spec => []IntentServed
BY Inductive, PTL DEF IndInv

----------------------------------------------------------------------------
(* The refinement: what is carried of the Facets that exist. *)
Hands == {k \in facets : Carried(k)}

(* An action that touches neither Facets nor debts, and lets go of nothing,  *)
(* is a trigger of no Facet, which may carry more, or nothing at all.        *)
LEMMA CarriesOn ==
    ASSUME TypeOK, TypeOK', UNCHANGED <<facets, owed, stopped>>, Hands \subseteq Hands'
    PROVE  Delivery!Next
<1>1. Delivery!Triggered({})
  BY DEF Delivery!Triggered, Hands
<1> QED BY <1>1 DEF Delivery!Next

(* A trigger of any Facets that exist is a step of the delivery. *)
LEMMA ATrigger ==
    ASSUME TypeOK, NEW ks, ks \subseteq facets, Delivery!Triggered(ks)
    PROVE  Delivery!Next
<1>1. ks \in SUBSET Keys BY DEF TypeOK
<1> QED BY <1>1, Zenon DEF Delivery!Next

(* Every step of the ingress is one of the delivery it promises. *)
LEMMA NextDelivers ==
    IndInv /\ IndInv' /\ [Next]_vars => [Delivery!Next]_(Delivery!vars)
<1> SUFFICES ASSUME IndInv, IndInv', [Next]_vars
             PROVE  Delivery!Next \/ UNCHANGED Delivery!vars
  OBVIOUS
<1>0. TypeOK /\ TypeOK' /\ WorkerFlag /\ OwedExist /\ OwedExist' /\ StartOrder
  BY DEF IndInv
<1>a. ASSUME NEW k, Delivery!Triggered({k} \cap facets) PROVE Delivery!Next
  BY <1>0, <1>a, ATrigger
<1>b. ASSUME Delivery!Triggered(facets) PROVE Delivery!Next
  BY <1>0, <1>b, ATrigger
<1> USE DEF TypeOK, WorkerFlag, OwedExist, StartOrder, Hands, Carried, starting, ingress
<1>1. ASSUME NEW k \in Keys, FacetCreated(k) PROVE Delivery!Next
  <2>1. Delivery!Created(k) BY <1>0, <1>1 DEF FacetCreated, Delivery!Created
  <2> QED BY <2>1 DEF Delivery!Next
<1>2. ASSUME NEW k \in Keys, FacetDeleted(k) PROVE Delivery!Next
  <2>1. Delivery!Deleted(k) BY <1>0, <1>2 DEF FacetDeleted, Delivery!Deleted
  <2> QED BY <2>1 DEF Delivery!Next
<1>3. ASSUME NEW k \in Keys, Enqueue(k) PROVE Delivery!Next
  <2>1. Delivery!Triggered({k} \cap facets)
    BY <1>0, <1>3 DEF Enqueue, AcceptTrigger, Delivery!Triggered
  <2> QED BY <2>1, <1>a
<1>4. ASSUME NEW k \in Keys, DrainAdd(k) PROVE Delivery!Next
  <2>1. Delivery!Queued(k) BY <1>0, <1>4 DEF DrainAdd, Delivery!Queued
  <2> QED BY <2>1 DEF Delivery!Next
<1>5. ASSUME NEW k \in Keys, WorkerAdd(k) PROVE Delivery!Next
  <2>1. Delivery!Queued(k) BY <1>0, <1>5 DEF WorkerAdd, Delivery!Queued
  <2> QED BY <2>1 DEF Delivery!Next
<1>6. ASSUME NEW r \in Callers, RequestEnqueueAll(r) PROVE Delivery!Next
  <2>1. Delivery!Triggered(facets)
    BY <1>0, <1>6 DEF RequestEnqueueAll, SetIntent, Delivery!Triggered
  <2> QED BY <2>1, <1>b
<1>7. ASSUME NEW r \in Requesters, SpawnWorker(r) PROVE Delivery!Next
  <2>1. UNCHANGED <<facets, owed, stopped>> /\ Hands \subseteq Hands'
    BY <1>0, <1>7 DEF SpawnWorker, startEnqueueWorker
  <2> QED BY <1>0, <2>1, CarriesOn
<1>8. CASE Stop
  <2>1. Delivery!Stop BY <1>0, <1>8 DEF Stop, Delivery!Stop
  <2> QED BY <2>1 DEF Delivery!Next
<1>9. CASE StartStep
  <2>1. CASE StartRequest
    <3>1. Delivery!Triggered(facets)
      BY <1>0, <2>1 DEF StartRequest, SetIntent, Delivery!Triggered
    <3> QED BY <3>1, <1>b
  <2>2. CASE Start \/ StartGoroutines \/ StartAgain
    <3>1. UNCHANGED <<facets, owed, stopped>> /\ Hands \subseteq Hands'
      BY <1>0, <2>2 DEF Start, StartGoroutines, StartAgain, startEnqueueWorker
    <3> QED BY <1>0, <3>1, CarriesOn
  <2> QED BY <1>9, <2>1, <2>2 DEF StartStep
<1>10. CASE DrainStep
  <2>1. CASE DrainDone /\ drainer.recover
    <3>1. Delivery!Triggered(facets)
      BY <1>0, <2>1 DEF DrainDone, SetIntent, Delivery!Triggered
    <3> QED BY <3>1, <1>b
  <2>2. CASE DrainWake \/ DrainTake \/ (DrainDone /\ ~drainer.recover) \/ DrainExit
    <3>1. UNCHANGED <<facets, owed, stopped>> /\ Hands \subseteq Hands'
      BY <1>0, <2>2 DEF DrainWake, DrainTake, DrainDone, DrainExit
    <3> QED BY <1>0, <3>1, CarriesOn
  <2> QED BY <1>10, <2>1, <2>2 DEF DrainStep
<1>11. CASE WorkerStep
  <2>1. CASE stopped /\ (WorkerListFails \/ WorkerCancelled)
    <3>1. Delivery!Dropped
      BY <1>0, <2>1 DEF WorkerListFails, WorkerCancelled, Delivery!Dropped
    <3> QED BY <3>1 DEF Delivery!Next
  <2>2. CASE WorkerCheck \/ WorkerList \/ WorkerListed \/ WorkerRetry
             \/ (WorkerListFails /\ ~stopped)
    <3>1. UNCHANGED <<facets, owed, stopped>> /\ Hands \subseteq Hands'
      BY <1>0, <2>2 DEF WorkerCheck, WorkerList, WorkerListed, WorkerRetry, WorkerListFails
    <3> QED BY <1>0, <3>1, CarriesOn
  <2>3. WorkerCancelled => stopped BY DEF WorkerCancelled
  <2> QED BY <1>11, <2>1, <2>2, <2>3 DEF WorkerStep
<1>12. CASE UNCHANGED vars
  BY <1>0, <1>12 DEF vars, Delivery!vars
<1> QED BY <1>1, <1>2, <1>3, <1>4, <1>5, <1>6, <1>7, <1>8, <1>9, <1>10, <1>11, <1>12
        DEF Next

(* The trigger ingress of trigger.go implements the delivery it promises: a *)
(* Facet in its hands leaves them only through queue.Add, deletion or       *)
(* shutdown.                                                                *)
THEOREM DeliveryImplemented == Spec => ImplementsDelivery
<1>1. Init => Delivery!Init BY DEF Init, Delivery!Init
<1>2. IndInv /\ IndInv' /\ [Next]_vars => [Delivery!Next]_(Delivery!vars)
  BY NextDelivers
<1> QED BY <1>1, <1>2, Inductive, PTL DEF Spec, Delivery!Spec, ImplementsDelivery
============================================================================
