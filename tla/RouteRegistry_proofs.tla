------------------------ MODULE RouteRegistry_proofs ------------------------
(***************************************************************************)
(* The invariants of RouteRegistry for every set of owners and addresses,   *)
(* every capacity and every bound: the capacity is shared exactly, no       *)
(* supervisor is left running, no Replace waits in vain and no change of a  *)
(* source is forgotten.                                                     *)
(***************************************************************************)
EXTENDS RouteRegistry, NaturalSets

(***************************************************************************)
(* Which supervisors are started, and which addresses promoted.             *)
(***************************************************************************)

(* supervisorsForBindingsLocked picks one of the supervisors it is given.   *)
LEMMA LowestIsOne ==
    ASSUME NEW D, D # {}, NEW addr \in [D -> Addresses]
    PROVE  Lowest(addr) \in D
<1> DEFINE S == {addr[i] : i \in D}
<1>1. S \subseteq Nat /\ S # {} /\ IsFiniteSet(S) /\ addr \in [D -> Nat]
  <2>1. S \subseteq Addresses /\ S # {}
    OBVIOUS
  <2>2. addr \in [D -> Nat] /\ S \subseteq Nat
    BY RegistryAssumption, <2>1
  <2>3. IsFiniteSet(S)
    <3> HIDE DEF S
    <3> QED
      BY <2>1, RegistryAssumption, FS_Subset
  <2> QED
    BY <2>1, <2>2, <2>3
<1>a. PICK x \in S : \A y \in S : x <= y
  <2> HIDE DEF S
  <2> QED
    BY <1>1, LowestNatural
<1>2. \E i \in D : \A j \in D : addr[i] <= addr[j]
  BY <1>1, <1>a
<1> QED
  BY <1>2 DEF Lowest

(* What ensureWatchCapacityLocked promotes: with taken supervisors in use,  *)
(* the elements of lacking whose rank leaves room.                          *)
Ranked(lacking, taken) ==
    {a \in lacking : Cardinality({b \in lacking : b < a}) + taken < Capacity}

(* It never promotes more than there is room for.                           *)
LEMMA RankedFit ==
    ASSUME NEW lacking, lacking \subseteq Addresses,
           NEW taken \in Nat, taken <= Capacity
    PROVE  Cardinality(Ranked(lacking, taken)) + taken <= Capacity
<1> DEFINE up == Ranked(lacking, taken)
<1>1. up \subseteq lacking /\ up \subseteq Nat /\ IsFiniteSet(lacking) /\ IsFiniteSet(up)
  <2>1. IsFiniteSet(lacking)
    BY RegistryAssumption, FS_Subset
  <2>2. up \subseteq lacking
    BY DEF Ranked
  <2> QED
    BY <2>1, <2>2, RegistryAssumption, FS_Subset
<1>2. CASE up = {}
  BY <1>2, FS_EmptySet
<1>3. CASE up # {}
  <2> HIDE DEF up
  <2>1. PICK m \in up : \A y \in up : y <= m
    BY <1>1, <1>3, HighestNatural
  <2> DEFINE low == {b \in lacking : b < m}
  <2>2. Cardinality(low) + taken < Capacity
    BY DEF up, Ranked
  <2>3. IsFiniteSet(low) /\ Cardinality(low) \in Nat
    BY <1>1, FS_Subset, FS_CardinalityType
  <2>4. up \ {m} \subseteq low
    BY <1>1, <2>1
  <2>5. Cardinality(up \ {m}) <= Cardinality(low)
    <3> HIDE DEF low
    <3> QED
      BY <2>3, <2>4, FS_Subset
  <2>6. Cardinality(up \ {m}) = Cardinality(up) - 1 /\ Cardinality(up) \in Nat
    BY <1>1, FS_RemoveElement, FS_CardinalityType
  <2> HIDE DEF low
  <2>7. Cardinality(up) + taken <= Capacity
    BY <2>2, <2>3, <2>5, <2>6, RegistryAssumption
  <2> QED
    BY <2>7 DEF up
<1> QED
  BY <1>2, <1>3

(* When it leaves room, it has promoted everything.                         *)
LEMMA RankedSuffice ==
    ASSUME NEW lacking, lacking \subseteq Addresses, NEW taken \in Nat,
           Cardinality(Ranked(lacking, taken)) + taken < Capacity
    PROVE  Ranked(lacking, taken) = lacking
<1> DEFINE up == Ranked(lacking, taken)
           rest == lacking \ up
<1>1. up \subseteq lacking /\ rest \subseteq Nat /\ IsFiniteSet(lacking) /\ IsFiniteSet(up)
      /\ IsFiniteSet(rest) /\ lacking \subseteq Nat
  <2>1. IsFiniteSet(lacking) /\ lacking \subseteq Nat
    BY RegistryAssumption, FS_Subset
  <2>2. up \subseteq lacking /\ rest \subseteq lacking
    BY DEF Ranked
  <2> QED
    BY <2>1, <2>2, FS_Subset
<1>2. ASSUME rest # {} PROVE FALSE
  <2> HIDE DEF rest
  <2>1. PICK m \in rest : \A y \in rest : m <= y
    BY <1>1, <1>2, LowestNatural
  <2> DEFINE low == {b \in lacking : b < m}
  <2>2. m \in lacking /\ m \notin up
    BY DEF rest
  <2>3. ~(Cardinality(low) + taken < Capacity)
    BY <2>2 DEF Ranked
  <2> HIDE DEF up
  <2>4. low \subseteq up
    <3>1. SUFFICES ASSUME NEW b \in lacking, b < m, b \notin up PROVE FALSE
      OBVIOUS
    <3>2. b \in rest /\ b \in Nat /\ m \in Nat
      BY <1>1, <3>1 DEF rest
    <3> QED
      BY <2>1, <3>1, <3>2
  <2>5. Cardinality(low) <= Cardinality(up) /\ Cardinality(low) \in Nat
        /\ Cardinality(up) \in Nat
    <3> HIDE DEF low
    <3>1. IsFiniteSet(low) /\ Cardinality(low) <= Cardinality(up)
      BY <1>1, <2>4, FS_Subset
    <3> QED
      BY <3>1, <1>1, FS_CardinalityType
  <2>6. Cardinality(up) + taken < Capacity
    BY DEF up
  <2> HIDE DEF low
  <2> QED
    BY <2>3, <2>5, <2>6, RegistryAssumption
<1> QED
  BY <1>1, <1>2

(***************************************************************************)
(* One supervisor.                                                          *)
(***************************************************************************)

(* Only a first attempt that has not been decided keeps ready open.         *)
FirstIsOpen(s) == s.first => s.pc \in {"permit", "watch"}

(* A goroutine between two streams will recover, unless this is its first   *)
(* attempt.                                                                 *)
Recovers(s) ==
    /\ s.pc = "permit" => s.first \/ s.recovery
    /\ s.pc = "watch" => s.first \/ s.recovery \/ s.timedOut
    /\ s.pc \in {"report", "recheck", "backoff"} => s.recovery

(* A supervisor that no recovery will follow and that has not begun to      *)
(* watch: it promises its owners nothing.                                   *)
Pending(s) == (s.first \/ s.pc = "off") /\ ~s.recovery

(* Tells, of a record.                                                      *)
TellsOf(s) ==
    \/ s.event \/ s.recovery \/ s.timedOut \/ s.first
    \/ s.pc \in {"off", "recover", "dead"}

(* What a step of a goroutine, from s to t, leaves true.                    *)
Moves(s, t) ==
    /\ t \in Supervisor /\ t.addr = s.addr
    /\ t.pc # "off"
    /\ FirstIsOpen(t)
    /\ t.pc # "dead" => t.cancelled = s.cancelled
    /\ Recovers(s) => Recovers(t)
    /\ Pending(t) => Pending(s)

(* A new supervisor is one.                                                 *)
LEMMA NewIsSupervisor ==
    ASSUME NEW a \in Addresses, NEW r \in BOOLEAN
    PROVE  /\ NewSupervisor(a, r) \in Supervisor
           /\ NewSupervisor(a, r).addr = a /\ NewSupervisor(a, r).pc = "off"
           /\ NewSupervisor(a, r).recovery = r /\ ~NewSupervisor(a, r).first
BY DEF NewSupervisor, Supervisor

(* A goroutine that returns closes ready.                                   *)
LEMMA DeadMoves ==
    ASSUME NEW s \in Supervisor
    PROVE  LET t == [NewSupervisor(s.addr, FALSE) EXCEPT !.pc = "dead"]
           IN  Moves(s, t) /\ TellsOf(t)
BY DEF NewSupervisor, Supervisor, Moves, FirstIsOpen, Recovers, Pending, TellsOf

(* RunPermit, RunRecheck and RunBackoff only move on.                       *)
LEMMA PcMoves ==
    ASSUME NEW s \in Supervisor, FirstIsOpen(s),
           NEW pc, <<s.pc, pc>> \in {<<"permit", "watch">>, <<"recheck", "backoff">>,
                                    <<"report", "recheck">>, <<"backoff", "permit">>}
    PROVE  LET t == [s EXCEPT !.pc = pc]
           IN  Moves(s, t) /\ (TellsOf(s) => TellsOf(t))
BY DEF Supervisor, Moves, FirstIsOpen, Recovers, Pending, TellsOf

(* RunRecover and ConsumeEvent have told the owners.                        *)
LEMMA TellingMoves ==
    ASSUME NEW s \in Supervisor, FirstIsOpen(s)
    PROVE  /\ s.pc = "recover" => Moves(s, [s EXCEPT !.pc = "stream"])
           /\ s.pc = "stream" => Moves(s, [s EXCEPT !.event = FALSE])
BY DEF Supervisor, Moves, FirstIsOpen, Recovers, Pending

(* EstablishmentTimeout.                                                    *)
LEMMA TimeoutMoves ==
    ASSUME NEW s \in Supervisor, s.pc = "watch"
    PROVE  LET t == [s EXCEPT !.timedOut = TRUE, !.first = FALSE]
           IN  Moves(s, t) /\ TellsOf(t)
BY DEF Supervisor, Moves, FirstIsOpen, Recovers, Pending, TellsOf

(* WatchOpens: the waiters of a first attempt are let go.                   *)
LEMMA OpenMoves ==
    ASSUME NEW s \in Supervisor, s.pc = "watch"
    PROVE  LET t == [s EXCEPT !.pc = "opened", !.first = FALSE]
           IN  Moves(s, t) /\ (TellsOf(s) /\ ~Pending(s) => TellsOf(t))
BY DEF Supervisor, Moves, FirstIsOpen, Recovers, Pending, TellsOf

(* WatchFails.                                                              *)
LEMMA FailMoves ==
    ASSUME NEW s \in Supervisor, s.pc = "watch"
    PROVE  LET t == [s EXCEPT !.pc = "report", !.first = FALSE, !.timedOut = FALSE,
                              !.recovery = TRUE]
           IN  Moves(s, t) /\ TellsOf(t)
BY DEF Supervisor, Moves, FirstIsOpen, Recovers, Pending, TellsOf

(* RunOpened, with takeRecoveryPending.                                     *)
LEMMA VettedMoves ==
    ASSUME NEW s \in Supervisor, FirstIsOpen(s), s.pc = "opened"
    PROVE  LET t == [s EXCEPT !.pc = IF s.recovery THEN "recover" ELSE "stream",
                              !.recovery = FALSE]
           IN  Moves(s, t) /\ (TellsOf(s) => TellsOf(t))
BY DEF Supervisor, Moves, FirstIsOpen, Recovers, Pending, TellsOf

(* StreamEnds.                                                              *)
LEMMA EndMoves ==
    ASSUME NEW s \in Supervisor, FirstIsOpen(s), s.pc = "stream",
           NEW pc \in {"report", "recheck"}
    PROVE  LET t == [s EXCEPT !.pc = pc, !.recovery = TRUE, !.event = FALSE]
           IN  Moves(s, t) /\ TellsOf(t)
BY DEF Supervisor, Moves, FirstIsOpen, Recovers, Pending, TellsOf

(* ChangeSource: the event waits in an open stream; elsewhere the recovery  *)
(* or the first attempt comes after the change.                             *)
LEMMA EventMoves ==
    ASSUME NEW s \in Supervisor, FirstIsOpen(s),
           s.pc \in {"opened", "recover", "stream"}
    PROVE  LET t == [s EXCEPT !.event = TRUE]
           IN  Moves(s, t) /\ TellsOf(t)
BY DEF Supervisor, Moves, FirstIsOpen, Recovers, Pending, TellsOf

(* A recovering goroutine whose watch is closed will route once it is open. *)
LEMMA ClosedTells ==
    ASSUME NEW s \in Supervisor, Recovers(s),
           s.pc \notin {"opened", "recover", "stream"}
    PROVE  TellsOf(s)
BY DEF Supervisor, Recovers, TellsOf

(* startWithReady.                                                          *)
LEMMA StartMoves ==
    ASSUME NEW s \in Supervisor, s.pc = "off"
    PROVE  LET t == [s EXCEPT !.pc = "permit", !.first = TRUE]
           IN  /\ t \in Supervisor /\ t.addr = s.addr /\ t.pc = "permit" /\ t.first
               /\ FirstIsOpen(t) /\ Recovers(t)
               /\ (Pending(t) => Pending(s)) /\ TellsOf(t)
BY DEF Supervisor, FirstIsOpen, Recovers, Pending, TellsOf

(***************************************************************************)
(* One critical section.                                                    *)
(***************************************************************************)

(* The supervisor registered for an address watches that address.           *)
Owned == \A a \in Addresses : watches[a] # 0 => sup[watches[a]].addr = a

(* What is about to be stopped is no longer registered.                     *)
Dropped == stopping \cap Registered = {}

(* An address without a supervisor is owed a recovery.                      *)
Deferrals == \A a \in BoundIn(bindings) : watches[a] = 0 => a \in deferred

Binding == [lease : Lease, addrs : SUBSET Addresses]

(* A slot from s to t, for a supervisor that is not new.                    *)
Advances(i, s, t) ==
    /\ t.addr = s.addr
    /\ t.pc = "off" => s.pc = "off"
    /\ FirstIsOpen(t)
    /\ i \in Registered /\ Recovers(s) => Recovers(t)
    /\ Pending(t) => Pending(s)

Contained(i, t, stops) ==
    t.pc \notin {"off", "dead"} /\ i \notin Registered => t.cancelled \/ i \in stops

(* A slot that a new supervisor takes.                                      *)
Born(a, i) ==
    /\ i \in FreeSlots
    /\ sup'[i] \in {NewSupervisor(a, TRUE), NewSupervisor(a, FALSE)}

(* A step as the slots see it ...                                           *)
SlotTurn ==
    /\ sup' \in [Slots -> Supervisor]
    /\ \A i \in Slots :
         \/ Advances(i, sup[i], sup'[i]) /\ Contained(i, sup'[i], stopping')
         \/ \E a \in Addresses : watches'[a] = i /\ Born(a, i)
    /\ \A i \in Registered \ Registered' : i \in stopping'

(* ... and as the addresses see it.                                         *)
WatchTurn ==
    /\ watches' \in [Addresses -> Slots \cup {0}]
    /\ \A a \in Addresses :
         watches'[a] \in {watches[a], 0} \/ Born(a, watches'[a])

(* The slots a section hands out.                                           *)
LEMMA SlotsAreFree ==
    ASSUME NEW kept, NEW new, SlotsSuffice(kept, new)
    PROVE  LET slot == NewSlots(kept, new)
           IN  /\ slot \in [Promoted(kept, new) -> FreeSlots]
               /\ \A a, b \in Promoted(kept, new) : slot[a] = slot[b] => a = b
<1>1. NewSlots(kept, new) \in SlotChoices(kept, new)
  BY DEF SlotsSuffice, NewSlots
<1> QED
  BY <1>1 DEF SlotChoices, Injection, IsInjective

(* What a section does to each address and each slot.                       *)
LEMMA SectionFields ==
    ASSUME TypeOK, NEW kept, NEW new \in [Owners -> Binding],
           NEW own \in [Slots -> Supervisor],
           SlotsSuffice(kept, new),
           Section(kept, new, NewSlots(kept, new), own)
    PROVE  LET up == Promoted(kept, new)
               slot == NewSlots(kept, new)
           IN  /\ up \subseteq Addresses
               /\ \A a \in up :
                    /\ watches'[a] = slot[a] /\ slot[a] \in FreeSlots
                    /\ sup'[slot[a]] = NewSupervisor(a, a \in StillDeferred(kept))
                    /\ WatchesKept(kept)[a] = 0 /\ a \in BoundIn(new)
               /\ \A a \in Addresses \ up : watches'[a] = WatchesKept(kept)[a]
               /\ \A i \in Slots : sup'[i] = own[i] \/ \E a \in up : slot[a] = i
               /\ \A i \in Slots \ FreeSlots : sup'[i] = own[i]
<1> DEFINE up == Promoted(kept, new)
           slot == NewSlots(kept, new)
           w == WatchesKept(kept)
<1>1. slot \in [up -> FreeSlots] /\ \A a, b \in up : slot[a] = slot[b] => a = b
  BY SlotsAreFree
<1>2. BoundIn(new) \subseteq Addresses
  BY DEF BoundIn, Binding
<1>3. up \subseteq Addresses /\ \A a \in up : w[a] = 0 /\ a \in BoundIn(new)
  BY <1>2 DEF Promoted
<1>4. FreeSlots \subseteq Slots
  BY DEF FreeSlots
<1>5. /\ watches' = [a \in Addresses |-> IF a \in DOMAIN slot THEN slot[a] ELSE w[a]]
      /\ sup' = [i \in Slots |->
           IF \E a \in DOMAIN slot : slot[a] = i
           THEN LET a == CHOOSE a \in DOMAIN slot : slot[a] = i
                IN  NewSupervisor(a, a \in StillDeferred(kept))
           ELSE own[i]]
  BY DEF Section
<1> HIDE DEF up, slot, w
<1>6. DOMAIN slot = up
  BY <1>1
<1>7. \A a \in up : watches'[a] = slot[a] /\ slot[a] \in FreeSlots
  BY <1>1, <1>3, <1>5, <1>6
<1>8. ASSUME NEW a \in up
      PROVE  sup'[slot[a]] = NewSupervisor(a, a \in StillDeferred(kept))
  <2>1. slot[a] \in Slots
    BY <1>4, <1>7
  <2>2. (CHOOSE b \in up : slot[b] = slot[a]) = a
    BY <1>1
  <2> QED
    BY <1>5, <1>6, <2>1, <2>2
<1>9. \A a \in Addresses \ up : watches'[a] = w[a]
  BY <1>5, <1>6
<1>10. \A i \in Slots : sup'[i] = own[i] \/ \E a \in up : slot[a] = i
  BY <1>5, <1>6
<1>11. \A i \in Slots \ FreeSlots : sup'[i] = own[i]
  BY <1>1, <1>10
<1> QED
  BY <1>3, <1>7, <1>8, <1>9, <1>10, <1>11 DEF up, slot, w

(* A registered supervisor is a slot that is not free.                      *)
LEMMA RegisteredSlots ==
    ASSUME TypeOK
    PROVE  /\ Registered \subseteq Slots \ FreeSlots
           /\ \A a \in Addresses : watches[a] # 0 => watches[a] \in Registered
           /\ FreeSlots \subseteq Slots /\ 0 \notin Slots
           /\ FreeSlots \cap stopping = {}
BY RegistryAssumption DEF TypeOK, Registered, FreeSlots

(* A section as the addresses and the slots see it.                         *)
LEMMA SectionTurn ==
    ASSUME TypeOK, Dropped, NEW kept, NEW new \in [Owners -> Binding],
           NEW own \in [Slots -> Supervisor],
           \A i \in Slots : Advances(i, sup[i], own[i]) /\ Contained(i, own[i], stopping),
           SlotsSuffice(kept, new),
           Section(kept, new, NewSlots(kept, new), own)
    PROVE  /\ SlotTurn /\ WatchTurn /\ Dropped'
           /\ stopping' \in SUBSET Slots /\ {NewSlots(kept, new)[a] : a \in DOMAIN NewSlots(kept, new)} \subseteq Slots
           /\ unread' \in SUBSET (Owners \X Addresses)
           /\ \A p \in unread' : p \in unread /\ p[2] \in bindings'[p[1]].addrs
<1> DEFINE up == Promoted(kept, new)
           slot == NewSlots(kept, new)
           w == WatchesKept(kept)
           drop == Registered \ {w[a] : a \in Addresses}
<1>1. /\ up \subseteq Addresses
      /\ \A a \in up :
           /\ watches'[a] = slot[a] /\ slot[a] \in FreeSlots
           /\ sup'[slot[a]] = NewSupervisor(a, a \in StillDeferred(kept))
           /\ w[a] = 0
      /\ \A a \in Addresses \ up : watches'[a] = w[a]
      /\ \A i \in Slots : sup'[i] = own[i] \/ \E a \in up : slot[a] = i
      /\ \A i \in Slots \ FreeSlots : sup'[i] = own[i]
  BY SectionFields
<1>2. /\ stopping' = stopping \cup drop
      /\ unread' = {p \in unread : p[2] \in new[p[1]].addrs} /\ bindings' = new
      /\ watches' = [a \in Addresses |-> watches'[a]] /\ sup' = [i \in Slots |-> sup'[i]]
  BY DEF Section
<1>3. \A a \in Addresses : w[a] \in {watches[a], 0}
  BY DEF WatchesKept
<1>4. slot \in [up -> FreeSlots]
  BY SlotsAreFree
<1>5. \A a \in Addresses : watches[a] \in Slots \cup {0}
  BY DEF TypeOK
<1>6. Registered' = {watches'[a] : a \in Addresses} \ {0}
  BY DEF Registered
<1>b. ASSUME NEW a \in up
      PROVE  sup'[slot[a]] \in {NewSupervisor(a, TRUE), NewSupervisor(a, FALSE)}
  <2>1. CASE a \in StillDeferred(kept)
    <3>1. (a \in StillDeferred(kept)) = TRUE
      BY <2>1
    <3> QED
      BY <3>1, <1>1
  <2>2. CASE a \notin StillDeferred(kept)
    <3>1. (a \in StillDeferred(kept)) = FALSE
      BY <2>2
    <3> QED
      BY <3>1, <1>1
  <2> QED
    BY <2>1, <2>2
<1> HIDE DEF up, slot, w, drop
<1>7. WatchTurn
  <2>1. ASSUME NEW a \in up PROVE Born(a, watches'[a])
    BY <1>1, <1>b, <2>1 DEF Born
  <2>2. \A a \in Addresses \ up : watches'[a] \in {watches[a], 0}
    BY <1>1, <1>3
  <2>3. \A a \in Addresses : watches'[a] \in Slots \cup {0}
    BY <1>1, <1>5, <2>2, RegisteredSlots
  <2>4. watches' \in [Addresses -> Slots \cup {0}]
    BY <1>2, <2>3
  <2> QED
    BY <2>1, <2>2, <2>4 DEF WatchTurn
<1>8. SlotTurn
  <2>1. ASSUME NEW a \in up PROVE Born(a, slot[a]) /\ watches'[a] = slot[a]
    BY <1>1, <1>b, <2>1 DEF Born
  <2>2. \A i \in Slots : sup'[i] = own[i] \/ \E a \in Addresses : watches'[a] = i /\ Born(a, i)
    BY <1>1, <2>1
  <2>3. ASSUME NEW i \in Slots PROVE sup'[i] \in Supervisor
    <3>1. CASE sup'[i] = own[i]
      BY <3>1
    <3>2. CASE \E a \in up : slot[a] = i
      <4>1. PICK a \in up : slot[a] = i
        BY <3>2
      <4>2. sup'[i] \in {NewSupervisor(a, TRUE), NewSupervisor(a, FALSE)}
        BY <4>1, <1>b
      <4> QED
        BY <4>2, <1>1, NewIsSupervisor
    <3> QED
      BY <3>1, <3>2, <1>1
  <2>4. sup' \in [Slots -> Supervisor]
    BY <1>2, <2>3
  <2>5. ASSUME NEW i \in Slots, sup'[i] = own[i]
        PROVE  Advances(i, sup[i], sup'[i]) /\ Contained(i, sup'[i], stopping')
    <3>1. Advances(i, sup[i], own[i]) /\ Contained(i, own[i], stopping)
      OBVIOUS
    <3>2. Contained(i, own[i], stopping')
      BY <3>1, <1>2 DEF Contained
    <3> QED
      BY <3>1, <3>2, <2>5
  <2>6. ASSUME NEW i \in Registered \ Registered' PROVE i \in stopping'
    <3>1. ASSUME NEW a \in Addresses, w[a] = i PROVE FALSE
      <4>1. i # 0
        BY DEF Registered
      <4>2. watches'[a] = i
        BY <3>1, <4>1, <1>1
      <4> QED
        BY <4>1, <4>2, <1>6
    <3> QED
      BY <3>1, <1>2 DEF drop
  <2> QED
    BY <2>2, <2>4, <2>5, <2>6 DEF SlotTurn
<1>9. Dropped'
  <2>1. SUFFICES ASSUME NEW i \in stopping', NEW a \in Addresses, watches'[a] = i, i # 0
                 PROVE  FALSE
    BY <1>6 DEF Dropped
  <2>2. CASE a \in up
    <3>1. i \in FreeSlots
      BY <1>1, <2>1, <2>2
    <3>2. i \notin stopping /\ i \notin Registered
      BY <3>1, RegisteredSlots
    <3> QED
      BY <3>2, <1>2, <2>1 DEF drop
  <2>3. CASE a \notin up
    <3>1. w[a] = i /\ watches[a] = i
      BY <1>1, <1>3, <2>1, <2>3
    <3>2. i \in Registered
      BY <3>1, <2>1 DEF Registered
    <3>3. i \notin stopping
      BY <3>2 DEF Dropped
    <3> QED
      BY <3>1, <3>3, <1>2, <2>1 DEF drop
  <2> QED
    BY <2>2, <2>3
<1>10. stopping' \in SUBSET Slots
  BY <1>2, RegisteredSlots DEF drop, TypeOK
<1>11. {slot[a] : a \in DOMAIN slot} \subseteq Slots
  BY <1>4, RegisteredSlots
<1>12. unread' \in SUBSET (Owners \X Addresses)
  BY <1>2 DEF TypeOK
<1> QED
  BY <1>2, <1>7, <1>8, <1>9, <1>10, <1>11, <1>12 DEF slot

(* The capacity after a section.                                            *)
LEMMA SectionCapacity ==
    ASSUME TypeOK, CapacityShared, NEW kept, NEW new \in [Owners -> Binding],
           NEW own \in [Slots -> Supervisor], BoundIn(kept) \subseteq BoundIn(new),
           SlotsSuffice(kept, new),
           Section(kept, new, NewSlots(kept, new), own)
    PROVE  CapacityShared'
<1> DEFINE up == Promoted(kept, new)
           slot == NewSlots(kept, new)
           w == WatchesKept(kept)
           had == {a \in Addresses : watches[a] # 0}
           left == {a \in Addresses : w[a] # 0}
           now == {a \in Addresses : watches'[a] # 0}
           lacking == {a \in BoundIn(new) : w[a] = 0}
           taken == Cardinality(left)
<1>1. /\ up \subseteq Addresses
      /\ \A a \in up : watches'[a] = slot[a] /\ slot[a] \in FreeSlots /\ w[a] = 0
      /\ \A a \in Addresses \ up : watches'[a] = w[a]
  BY SectionFields
<1>2. bindings' = new
  BY DEF Section
<1>3. up = Ranked(lacking, taken)
  BY DEF Promoted, Ranked
<1>4. /\ \A a \in Addresses : w[a] # 0 => watches[a] # 0 /\ a \in BoundIn(kept)
      /\ BoundIn(new) \subseteq Addresses
  BY DEF WatchesKept, BoundIn, Binding
<1>5. Cardinality(had) <= Capacity
  BY DEF CapacityShared
<1>a. CapacityShared' <=>
        /\ Cardinality(now) <= Capacity
        /\ now \subseteq BoundIn(bindings')
        /\ Cardinality(now) < Capacity => BoundIn(bindings') \subseteq now
  BY DEF CapacityShared, BoundIn
<1>6. left \subseteq had /\ left \subseteq BoundIn(new) /\ lacking \subseteq Addresses
      /\ had \subseteq Addresses /\ lacking \cup left = BoundIn(new)
      /\ lacking \cap left = {}
  BY <1>4
<1>7. now = up \cup left
  BY <1>1, RegisteredSlots
<1> HIDE DEF up, slot, w, had, left, now, lacking
<1>8. IsFiniteSet(had) /\ IsFiniteSet(left) /\ IsFiniteSet(up) /\ taken \in Nat
      /\ Cardinality(had) \in Nat /\ Cardinality(up) \in Nat /\ taken <= Cardinality(had)
  <2>1. IsFiniteSet(had) /\ IsFiniteSet(up)
    BY <1>1, <1>6, RegistryAssumption, FS_Subset
  <2>2. IsFiniteSet(left) /\ taken <= Cardinality(had)
    BY <2>1, <1>6, FS_Subset
  <2> QED
    BY <2>1, <2>2, FS_CardinalityType
<1>9. taken <= Capacity
  BY <1>5, <1>8, RegistryAssumption
<1>10. up \subseteq lacking
  BY <1>3 DEF Ranked
<1>11. Cardinality(now) = Cardinality(up) + taken
  <2>1. up \cap left = {}
    BY <1>6, <1>10
  <2>2. Cardinality(up \cup left) = Cardinality(up) + Cardinality(left) - Cardinality(up \cap left)
    BY <1>8, FS_Union
  <2>3. Cardinality(up \cap left) = 0
    BY <2>1, FS_EmptySet
  <2> QED
    BY <1>7, <1>8, <2>2, <2>3
<1>12. Cardinality(now) <= Capacity
  BY <1>3, <1>6, <1>8, <1>9, <1>11, RankedFit
<1>13. now \subseteq BoundIn(bindings')
  BY <1>2, <1>6, <1>7, <1>10
<1>14. ASSUME Cardinality(now) < Capacity PROVE BoundIn(bindings') \subseteq now
  <2>1. up = lacking
    BY <1>14, <1>3, <1>6, <1>8, <1>11, RankedSuffice
  <2> QED
    BY <2>1, <1>2, <1>6, <1>7
<1> QED
  BY <1>a, <1>12, <1>13, <1>14

(***************************************************************************)
(* The supervisors.                                                         *)
(***************************************************************************)

FirstAttempts == \A i \in Slots : FirstIsOpen(sup[i])

Recoveries == \A i \in Registered : Recovers(sup[i])

SupervisorInv ==
    Owned /\ Dropped /\ NoLeakedSupervisor /\ FirstAttempts /\ Recoveries

(* Whatever a step does to the slots, the supervisors keep their promises.  *)
LEMMA SupervisorsKept ==
    ASSUME TypeOK, SupervisorInv, SlotTurn, WatchTurn, Dropped'
    PROVE  SupervisorInv'
<1>1. /\ \A i \in Slots :
           \/ Advances(i, sup[i], sup'[i]) /\ Contained(i, sup'[i], stopping')
           \/ \E a \in Addresses : watches'[a] = i /\ Born(a, i)
      /\ \A i \in Registered \ Registered' : i \in stopping'
  BY DEF SlotTurn
<1>2. \A a \in Addresses :
         watches'[a] \in {watches[a], 0} \/ Born(a, watches'[a])
  BY DEF WatchTurn
<1>3. \A a \in Addresses, i \in Slots :
         Born(a, i) => /\ i \in FreeSlots
                       /\ sup'[i].addr = a /\ sup'[i].pc = "off" /\ ~sup'[i].first
  BY NewIsSupervisor DEF Born
<1>4. \A i \in Slots \ FreeSlots : Advances(i, sup[i], sup'[i])
  BY <1>1 DEF Born
<1>5. \A a \in Addresses : watches[a] # 0 => watches[a] \in Registered /\ watches[a] \in Slots \ FreeSlots
  BY RegisteredSlots
<1>6. Registered' = {watches'[a] : a \in Addresses} \ {0}
  BY DEF Registered
<1>7. Owned'
  <2>1. SUFFICES ASSUME NEW a \in Addresses, watches'[a] # 0
                 PROVE  sup'[watches'[a]].addr = a
    BY DEF Owned
  <2>2. CASE watches'[a] = watches[a]
    <3>1. sup[watches[a]].addr = a
      BY <2>1, <2>2 DEF SupervisorInv, Owned
    <3>2. Advances(watches[a], sup[watches[a]], sup'[watches[a]])
      BY <2>1, <2>2, <1>4, <1>5
    <3> QED
      BY <2>2, <3>1, <3>2 DEF Advances
  <2>3. CASE Born(a, watches'[a])
    BY <2>3, <1>3, RegisteredSlots DEF Born
  <2> QED
    BY <2>1, <2>2, <2>3, <1>2
<1>8. NoLeakedSupervisor'
  <2>1. SUFFICES ASSUME NEW i \in Slots, sup'[i].pc \notin {"off", "dead"}, i \notin Registered'
                 PROVE  sup'[i].cancelled \/ i \in stopping'
    BY DEF NoLeakedSupervisor, Alive
  <2>2. CASE i \in Registered
    BY <2>1, <2>2, <1>1
  <2>3. CASE i \notin Registered
    BY <2>1, <2>3, <1>1, <1>3 DEF Contained
  <2> QED
    BY <2>2, <2>3
<1>9. FirstAttempts'
  <2>1. \A i \in Slots : FirstIsOpen(sup'[i])
    BY <1>1, <1>3 DEF Advances, FirstIsOpen
  <2> QED
    BY <2>1 DEF FirstAttempts
<1>10. Recoveries'
  <2>1. SUFFICES ASSUME NEW a \in Addresses, watches'[a] # 0
                 PROVE  Recovers(sup'[watches'[a]])
    BY <1>6 DEF Recoveries
  <2>2. CASE watches'[a] = watches[a]
    <3>1. watches[a] \in Registered /\ Recovers(sup[watches[a]])
      BY <2>1, <2>2, <1>5 DEF SupervisorInv, Recoveries
    <3>2. Advances(watches[a], sup[watches[a]], sup'[watches[a]])
      BY <2>1, <2>2, <1>4, <1>5
    <3> QED
      BY <2>2, <3>1, <3>2 DEF Advances
  <2>3. CASE Born(a, watches'[a])
    <3>1. sup'[watches'[a]].pc = "off"
      BY <2>3, <1>3, RegisteredSlots DEF Born
    <3> QED
      BY <3>1 DEF Recovers
  <2> QED
    BY <2>1, <2>2, <2>3, <1>2
<1> QED
  BY <1>7, <1>8, <1>9, <1>10 DEF SupervisorInv

(***************************************************************************)
(* The owners.                                                              *)
(***************************************************************************)

(* An owner that will be reconciled, or whose bindings are about to go.     *)
Busy(o) == o \in owed \cup removing \/ revoking \/ caller[o].pc # "idle"

(* The supervisor a caller waits for has been started.                      *)
Waits(o) ==
    caller[o].pc = "wait" => caller[o].todo # {} /\ sup[NextToStart(o)].pc # "off"

(* The lease of a call is the one its bindings are held under, and a call   *)
(* that has been overtaken is followed by another.                          *)
Leased(o) ==
    /\ caller[o].pc \in {"start", "wait"} =>
         bindings[o].lease \in {caller[o].lease, NoLease}
    /\ caller[o].pc \in {"replace", "start", "wait"} =>
         /\ caller[o].lease.gen # current[o] => o \in owed \cup removing
         /\ caller[o].lease.epoch # epoch => revoking \/ bindings[o].lease = NoLease

(* A caller has still to start, or to wait for, each supervisor of its own  *)
(* addresses that promises nothing.                                         *)
Scheduled(o) ==
    \A a \in bindings[o].addrs :
        /\ caller[o].pc \in {"start", "wait"}
        /\ watches[a] # 0 /\ Pending(sup[watches[a]])
        => watches[a] \in caller[o].todo

(* Such a supervisor has only busy owners.                                  *)
Attended(o) ==
    \A a \in bindings[o].addrs :
        /\ IsCurrent(o, bindings[o].lease)
        /\ watches[a] # 0 /\ Pending(sup[watches[a]])
        => Busy(o)

OwnerInv(o) == Waits(o) /\ Leased(o) /\ Scheduled(o) /\ Attended(o)

(* What a step leaves of an owner that it is not about.                     *)
Bystander(o) ==
    /\ caller'[o] = caller[o] /\ current'[o] = current[o] /\ epoch' = epoch
    /\ o \in owed \cup removing => o \in owed' \cup removing'
    /\ revoking => revoking'
    /\ bindings'[o].addrs \subseteq bindings[o].addrs
    /\ bindings'[o].lease \in {bindings[o].lease, NoLease}

(* A supervisor that is new to an owner recovers.                           *)
NewRecovers(o) ==
    \A a \in bindings'[o].addrs :
        \/ watches'[a] \in {watches[a], 0}
        \/ Born(a, watches'[a]) /\ sup'[watches'[a]].recovery

(* The lease under which a bystander is bound is current only if it was.    *)
LEMMA BystanderLease ==
    ASSUME NEW o \in Owners, Bystander(o), IsCurrent(o, bindings[o].lease)'
    PROVE  IsCurrent(o, bindings[o].lease) /\ bindings'[o].lease = bindings[o].lease
<1>1. bindings'[o].lease = [gen |-> current'[o], epoch |-> epoch'] /\ current'[o] # 0
  BY DEF IsCurrent
<1>2. bindings'[o].lease # NoLease
  BY <1>1 DEF NoLease
<1> QED
  BY <1>1, <1>2 DEF Bystander, IsCurrent

(* A step keeps a bystander busy.                                           *)
LEMMA BystanderBusy ==
    ASSUME NEW o \in Owners, Bystander(o), Busy(o)
    PROVE  Busy(o)'
BY DEF Bystander, Busy

(* The supervisors a caller has still to start stay what they are.          *)
LEMMA TodoStays ==
    ASSUME TypeOK, SlotTurn, NEW o \in Owners
    PROVE  /\ caller[o].todo \subseteq Slots \ FreeSlots
           /\ \A i \in caller[o].todo : Advances(i, sup[i], sup'[i])
           /\ caller'[o].todo = caller[o].todo => NextToStart(o)' = NextToStart(o)
<1>1. caller[o].todo \subseteq Slots \ FreeSlots
  BY DEF TypeOK, Caller, FreeSlots
<1>2. \A i \in caller[o].todo : Advances(i, sup[i], sup'[i])
  BY <1>1 DEF SlotTurn, Born
<1>3. ASSUME caller'[o].todo = caller[o].todo
      PROVE  NextToStart(o)' = NextToStart(o)
  <2>1. [i \in caller[o].todo |-> sup'[i].addr] = [i \in caller[o].todo |-> sup[i].addr]
    BY <1>2 DEF Advances
  <2> QED
    BY <1>3, <2>1 DEF NextToStart
<1> QED
  BY <1>1, <1>2, <1>3

(* The next supervisor to start is one of those that remain.                *)
LEMMA NextIsOne ==
    ASSUME TypeOK, NEW o \in Owners, caller[o].todo # {}
    PROVE  NextToStart(o) \in caller[o].todo /\ NextToStart(o) \in Slots
<1>1. caller[o].todo \subseteq Slots
  BY DEF TypeOK, Caller
<1>2. [i \in caller[o].todo |-> sup[i].addr] \in [caller[o].todo -> Addresses]
  BY <1>1 DEF TypeOK, Supervisor
<1>3. NextToStart(o) \in caller[o].todo
  BY <1>2, LowestIsOne DEF NextToStart
<1> QED
  BY <1>1, <1>3

(* A supervisor of a bystander's address that promises nothing promised     *)
(* nothing before.                                                          *)
LEMMA PendingBefore ==
    ASSUME TypeOK, SlotTurn, NEW o \in Owners, NewRecovers(o),
           NEW a \in bindings'[o].addrs, a \in Addresses,
           watches'[a] # 0, Pending(sup'[watches'[a]])
    PROVE  watches'[a] = watches[a] /\ Pending(sup[watches[a]])
<1>1. ~(sup'[watches'[a]].recovery)
  BY DEF Pending
<1>2. watches'[a] = watches[a]
  BY <1>1 DEF NewRecovers
<1>3. watches[a] \in Slots \ FreeSlots
  BY <1>2, RegisteredSlots
<1>4. Advances(watches[a], sup[watches[a]], sup'[watches[a]])
  BY <1>3 DEF SlotTurn, Born
<1> QED
  BY <1>2, <1>4 DEF Advances

(* Whatever a step does, it keeps the invariant of its bystanders.          *)
LEMMA BystandersKept ==
    ASSUME TypeOK, SlotTurn, NEW o \in Owners, Bystander(o), NewRecovers(o), OwnerInv(o)
    PROVE  OwnerInv(o)'
<1>1. caller'[o] = caller[o]
  BY DEF Bystander
<1>2. Waits(o)'
  <2>1. SUFFICES ASSUME caller[o].pc = "wait"
                 PROVE  caller[o].todo # {} /\ sup'[NextToStart(o)'].pc # "off"
    BY <1>1 DEF Waits
  <2>2. caller[o].todo # {} /\ sup[NextToStart(o)].pc # "off"
    BY <2>1 DEF OwnerInv, Waits
  <2>3. NextToStart(o)' = NextToStart(o) /\ NextToStart(o) \in caller[o].todo
    BY <1>1, <2>2, TodoStays, NextIsOne
  <2>4. Advances(NextToStart(o), sup[NextToStart(o)], sup'[NextToStart(o)])
    BY <2>3, TodoStays
  <2> QED
    BY <2>2, <2>3, <2>4 DEF Advances
<1>3. Leased(o)'
  BY DEF OwnerInv, Leased, Bystander
<1>4. bindings'[o].addrs \subseteq bindings[o].addrs /\ bindings'[o].addrs \subseteq Addresses
  BY DEF Bystander, TypeOK
<1>5. Scheduled(o)'
  <2>1. SUFFICES ASSUME NEW a \in bindings'[o].addrs, caller[o].pc \in {"start", "wait"},
                        watches'[a] # 0, Pending(sup'[watches'[a]])
                 PROVE  watches'[a] \in caller[o].todo
    BY <1>1 DEF Scheduled, Pending
  <2>2. watches'[a] = watches[a] /\ Pending(sup[watches[a]])
    BY <2>1, <1>4, PendingBefore
  <2> QED
    BY <2>1, <2>2, <1>4 DEF OwnerInv, Scheduled
<1>6. Attended(o)'
  <2>1. SUFFICES ASSUME NEW a \in bindings'[o].addrs, IsCurrent(o, bindings[o].lease)',
                        watches'[a] # 0, Pending(sup'[watches'[a]])
                 PROVE  Busy(o)'
    BY DEF Attended, Pending
  <2>2. watches'[a] = watches[a] /\ Pending(sup[watches[a]])
    BY <2>1, <1>4, PendingBefore
  <2>3. Busy(o)
    BY <2>1, <2>2, <1>4, BystanderLease DEF OwnerInv, Attended
  <2> QED
    BY <2>3, BystanderBusy
<1> QED
  BY <1>2, <1>3, <1>5, <1>6 DEF OwnerInv

(***************************************************************************)
(* The changes.                                                             *)
(***************************************************************************)

(* Only the bound owners of an address are told of its changes.             *)
UnreadIsBound == \A p \in unread : p[2] \in bindings[p[1]].addrs

(* A resting owner that has not read a change will be told by the           *)
(* supervisor of the address.                                               *)
Told(o) ==
    \A a \in Addresses :
        /\ <<o, a>> \in unread /\ IsCurrent(o, bindings[o].lease)
        /\ ~Busy(o) /\ watches[a] # 0
        => TellsOf(sup[watches[a]])

(* The supervisors that a step does not silence.                            *)
StillTells(o) ==
    \A a \in Addresses :
        /\ <<o, a>> \in unread' /\ watches[a] # 0 /\ ~Busy(o)'
        /\ IsCurrent(o, bindings[o].lease) /\ TellsOf(sup[watches[a]])
        => TellsOf(sup'[watches[a]])

(* A turn of one watch leaves everyone else's unread changes announced.     *)
LEMMA BystandersTold ==
    ASSUME TypeOK, NEW o \in Owners, Bystander(o), WatchTurn, Told(o), StillTells(o),
           \A a \in Addresses : <<o, a>> \in unread' => <<o, a>> \in unread
    PROVE  Told(o)'
<1>1. SUFFICES ASSUME NEW a \in Addresses, <<o, a>> \in unread',
                      IsCurrent(o, bindings[o].lease)', ~(Busy(o)'), watches'[a] # 0
               PROVE  TellsOf(sup'[watches'[a]])
  BY DEF Told, TellsOf
<1>2. IsCurrent(o, bindings[o].lease) /\ ~Busy(o)
  BY <1>1, BystanderLease, BystanderBusy
<1>3. CASE watches'[a] = watches[a]
  <2>1. TellsOf(sup[watches[a]])
    BY <1>1, <1>2, <1>3 DEF Told
  <2> QED
    BY <1>1, <1>2, <1>3, <2>1 DEF StillTells
<1>4. CASE Born(a, watches'[a])
  <2>1. sup'[watches'[a]].pc = "off"
    BY <1>4, NewIsSupervisor DEF Born
  <2> QED
    BY <2>1 DEF TellsOf
<1> QED
  BY <1>1, <1>3, <1>4 DEF WatchTurn

(***************************************************************************)
(* The invariant, and the kinds of step.                                    *)
(***************************************************************************)

RegistryInv == CapacityShared /\ SupervisorInv /\ Deferrals /\ UnreadIsBound

Inv ==
    /\ TypeOK /\ RegistryInv
    /\ \A o \in Owners : OwnerInv(o) /\ Told(o)

(* What becomes of the slots that a goroutine's step, a start or a section  *)
(* proposes.                                                                *)
Proposes(own) ==
    /\ own \in [Slots -> Supervisor]
    /\ \A i \in Slots : Advances(i, sup[i], own[i]) /\ Contained(i, own[i], stopping)

(* A supervisor nothing happens to.                                         *)
LEMMA SupProposed ==
    ASSUME TypeOK, SupervisorInv
    PROVE  Proposes(sup)
<1>1. \A i \in Slots : FirstIsOpen(sup[i])
  BY DEF SupervisorInv, FirstAttempts
<1>2. \A i \in Slots : Advances(i, sup[i], sup[i])
  BY <1>1 DEF Advances
<1>3. \A i \in Slots : Contained(i, sup[i], stopping)
  BY DEF SupervisorInv, NoLeakedSupervisor, Alive, Contained
<1> QED
  BY <1>2, <1>3 DEF Proposes, TypeOK

(* A step of the goroutine of i.                                            *)
LEMMA BecomeProposed ==
    ASSUME TypeOK, SupervisorInv, NEW i \in Slots, Alive(i), NEW t, Moves(sup[i], t)
    PROVE  /\ Proposes(Become(i, t))
           /\ Become(i, t)[i] = t /\ \A j \in Slots \ {i} : Become(i, t)[j] = sup[j]
           /\ i \notin FreeSlots
<1>1. t \in Supervisor
  BY DEF Moves
<1>2. /\ Become(i, t) \in [Slots -> Supervisor]
      /\ Become(i, t)[i] = t /\ \A j \in Slots \ {i} : Become(i, t)[j] = sup[j]
  BY <1>1 DEF Become, TypeOK
<1>3. Advances(i, sup[i], t)
  BY DEF Moves, Advances
<1>4. Contained(i, t, stopping)
  <2>1. Contained(i, sup[i], stopping)
    BY SupProposed DEF Proposes
  <2> QED
    BY <2>1 DEF Moves, Alive, Contained
<1>5. \A j \in Slots : Advances(j, sup[j], Become(i, t)[j]) /\ Contained(j, Become(i, t)[j], stopping)
  BY <1>2, <1>3, <1>4, SupProposed DEF Proposes
<1>6. i \notin FreeSlots
  BY DEF FreeSlots, Alive
<1> QED
  BY <1>2, <1>5, <1>6 DEF Proposes

(* A start.                                                                 *)
LEMMA StartedProposed ==
    ASSUME TypeOK, SupervisorInv, NEW i \in Slots
    PROVE  /\ Proposes(Started(i))
           /\ \A j \in Slots : TellsOf(sup[j]) => TellsOf(Started(i)[j])
           /\ i \in Registered => Started(i)[i].pc # "off"
<1>1. CASE ~(i \in Registered /\ sup[i].pc = "off")
  BY <1>1, SupProposed DEF Started
<1>2. CASE i \in Registered /\ sup[i].pc = "off"
  <2> DEFINE t == [sup[i] EXCEPT !.pc = "permit", !.first = TRUE]
  <2>1. sup[i] \in Supervisor
    BY DEF TypeOK
  <2>2. /\ t \in Supervisor /\ t.addr = sup[i].addr /\ t.pc = "permit" /\ t.first
        /\ FirstIsOpen(t) /\ Recovers(t)
        /\ (Pending(t) => Pending(sup[i])) /\ TellsOf(t)
    BY <1>2, <2>1, StartMoves
  <2>3. Started(i) = [sup EXCEPT ![i] = t]
    BY <1>2, <2>1 DEF Started, TypeOK, Supervisor
  <2> HIDE DEF t
  <2>4. /\ Started(i) \in [Slots -> Supervisor]
        /\ Started(i)[i] = t /\ \A j \in Slots \ {i} : Started(i)[j] = sup[j]
    BY <2>2, <2>3 DEF TypeOK
  <2>5. Advances(i, sup[i], t) /\ Contained(i, t, stopping)
    BY <1>2, <2>2 DEF Advances, Contained
  <2>6. \A j \in Slots : Advances(j, sup[j], Started(i)[j]) /\ Contained(j, Started(i)[j], stopping)
    BY <2>4, <2>5, SupProposed DEF Proposes
  <2> QED
    BY <2>2, <2>4, <2>6 DEF Proposes
<1> QED
  BY <1>1, <1>2

(* A step that leaves the registry alone.                                   *)
LEMMA QuietTurn ==
    ASSUME TypeOK, RegistryInv, Proposes(sup'),
           UNCHANGED <<registry, stopping>>
    PROVE  /\ SlotTurn /\ WatchTurn
           /\ CapacityShared' /\ SupervisorInv' /\ Deferrals'
           /\ \A o \in Owners : NewRecovers(o)
<1> USE DEF registry, RegistryInv
<1>1. Registered' = Registered
  BY DEF Registered
<1>2. SlotTurn
  BY <1>1 DEF SlotTurn, Proposes
<1>3. WatchTurn
  BY DEF WatchTurn, TypeOK
<1>4. Dropped'
  BY <1>1 DEF Dropped, SupervisorInv
<1>5. SupervisorInv'
  BY <1>2, <1>3, <1>4, SupervisorsKept
<1>6. CapacityShared'
  BY DEF CapacityShared, BoundIn
<1>7. Deferrals'
  BY DEF Deferrals, BoundIn
<1>8. \A o \in Owners : NewRecovers(o)
  BY DEF NewRecovers
<1> QED
  BY <1>2, <1>3, <1>5, <1>6, <1>7, <1>8

(* What is left of the bindings when some are taken out.                    *)
Reduced(kept) ==
    /\ kept \in [Owners -> Binding]
    /\ \A o \in Owners : /\ kept[o].addrs \subseteq bindings[o].addrs
                          /\ kept[o].lease \in {bindings[o].lease, NoLease}

(* Taking one address out of the bindings only removes from them.           *)
LEMMA PrunedReduced ==
    ASSUME TypeOK, NEW a PROVE Reduced(Pruned(a))
<1>1. ASSUME NEW o \in Owners
      PROVE  /\ Pruned(a)[o] \in Binding /\ Pruned(a)[o].addrs \subseteq bindings[o].addrs
             /\ Pruned(a)[o].lease = bindings[o].lease
  <2>1. bindings[o] \in Binding
    BY DEF TypeOK, Binding
  <2>2. CASE Pruned(a)[o] = bindings[o]
    BY <2>1, <2>2 DEF Binding
  <2>3. CASE Pruned(a)[o] = [bindings[o] EXCEPT !.addrs = @ \ {a}]
    BY <2>1, <2>3 DEF Binding
  <2> QED
    BY <2>2, <2>3 DEF Pruned
<1> QED
  BY <1>1 DEF Reduced, Pruned

(* An owner without routes has an empty binding and no lease.               *)
LEMMA UnboundBinding ==
    /\ Unbound \in Binding /\ Unbound.addrs = {} /\ Unbound.lease = NoLease
    /\ NoLease \in Lease
<1>1. 0 \in 0 .. MaxGeneration /\ 0 \in 0 .. MaxEpoch
  BY RegistryAssumption
<1> QED
  BY <1>1 DEF Unbound, Binding, NoLease, Lease

(* Taking one owner out of the bindings only removes from them.             *)
LEMMA WithoutReduced ==
    ASSUME TypeOK, NEW o \in Owners
    PROVE  Reduced(Without(o)) /\ Without(o)[o] = Unbound
           /\ \A q \in Owners \ {o} : Without(o)[q] = bindings[q]
BY UnboundBinding DEF Reduced, Without, TypeOK, Binding

(* A section that only takes bindings out, as everyone sees it.             *)
LEMMA RemovalTurn ==
    ASSUME TypeOK, RegistryInv, NEW kept, Reduced(kept), NEW own, Proposes(own),
           RemovalSection(kept, own)
    PROVE  /\ SlotTurn /\ WatchTurn
           /\ RegistryInv'
           /\ \A o \in Owners : NewRecovers(o)
           /\ bindings' = kept /\ bindings' \in [Owners -> Binding]
           /\ deferred' \in SUBSET Addresses
           /\ stopping' \in SUBSET Slots /\ starting' \in SUBSET Slots
           /\ unread' \in SUBSET (Owners \X Addresses) /\ unread' \subseteq unread
           /\ \A i \in Slots \ FreeSlots : sup'[i] = own[i]
<1> DEFINE up == Promoted(kept, kept)
           slot == NewSlots(kept, kept)
           w == WatchesKept(kept)
<1>1. /\ SlotsSuffice(kept, kept) /\ Section(kept, kept, slot, own)
      /\ deferred' = StillDeferred(kept) \ DOMAIN slot
      /\ starting' = starting \cup {slot[a] : a \in DOMAIN slot}
      /\ kept \in [Owners -> Binding] /\ own \in [Slots -> Supervisor]
  BY DEF RemovalSection, Reduced, Proposes
<1>2. bindings' = kept
  BY <1>1 DEF Section
<1>3. /\ up \subseteq Addresses
      /\ \A a \in up :
           /\ watches'[a] = slot[a] /\ slot[a] \in FreeSlots
           /\ sup'[slot[a]] = NewSupervisor(a, a \in StillDeferred(kept))
           /\ w[a] = 0 /\ a \in BoundIn(kept)
      /\ \A a \in Addresses \ up : watches'[a] = w[a]
      /\ \A i \in Slots \ FreeSlots : sup'[i] = own[i]
  BY <1>1, SectionFields
<1>4. /\ SlotTurn /\ WatchTurn /\ Dropped'
      /\ stopping' \in SUBSET Slots /\ {slot[a] : a \in DOMAIN slot} \subseteq Slots
      /\ unread' \in SUBSET (Owners \X Addresses)
      /\ \A p \in unread' : p \in unread /\ p[2] \in bindings'[p[1]].addrs
  BY <1>1, SectionTurn DEF RegistryInv, SupervisorInv, Proposes
<1>5. CapacityShared'
  BY <1>1, SectionCapacity DEF RegistryInv
<1>6. SupervisorInv'
  BY <1>4, SupervisorsKept DEF RegistryInv
<1>7. DOMAIN slot = up
  BY <1>1, SlotsAreFree
<1>8. BoundIn(kept) \subseteq BoundIn(bindings) /\ BoundIn(kept) \subseteq Addresses
  BY DEF Reduced, BoundIn, Binding
<1>9. \A a \in BoundIn(kept) : w[a] = watches[a]
  BY <1>8 DEF WatchesKept
<1>10. \A a \in BoundIn(kept) : w[a] = 0 => a \in deferred
  BY <1>8, <1>9 DEF RegistryInv, Deferrals
<1>11. BoundIn(bindings') = BoundIn(kept)
  BY <1>2
<1> HIDE DEF up, slot, w
<1>12. Deferrals'
  <2>1. SUFFICES ASSUME NEW a \in BoundIn(bindings'), watches'[a] = 0 PROVE a \in deferred'
    BY DEF Deferrals, BoundIn
  <2>2. a \notin up
    BY <2>1, <1>3, RegisteredSlots
  <2>3. w[a] = 0 /\ a \in BoundIn(kept)
    BY <2>1, <2>2, <1>3, <1>8, <1>11
  <2> QED
    BY <2>2, <2>3, <1>1, <1>7, <1>10 DEF StillDeferred
<1>13. UnreadIsBound'
  BY <1>4 DEF UnreadIsBound
<1>14. ASSUME NEW o \in Owners PROVE NewRecovers(o)
  <2>1. SUFFICES ASSUME NEW a \in bindings'[o].addrs, watches'[a] \notin {watches[a], 0}
                 PROVE  Born(a, watches'[a]) /\ sup'[watches'[a]].recovery
    BY DEF NewRecovers
  <2>2. a \in BoundIn(kept) /\ a \in Addresses
    BY <1>2, <1>8 DEF BoundIn
  <2>3. a \in up
    BY <2>1, <2>2, <1>3, <1>9
  <2>4. a \in StillDeferred(kept) /\ (a \in StillDeferred(kept)) = TRUE
    BY <2>2, <2>3, <1>3, <1>10 DEF StillDeferred
  <2>5. sup'[watches'[a]] = NewSupervisor(a, TRUE) /\ watches'[a] \in FreeSlots
    BY <2>3, <2>4, <1>3
  <2>6. NewSupervisor(a, TRUE).recovery
    BY <2>2, NewIsSupervisor
  <2> QED
    BY <2>5, <2>6 DEF Born
<1>15. deferred' \in SUBSET Addresses /\ starting' \in SUBSET Slots
  BY <1>1, <1>4 DEF TypeOK, StillDeferred
<1>16. unread' \subseteq unread
  BY <1>4
<1> QED
  BY <1>1, <1>2, <1>3, <1>4, <1>5, <1>6, <1>12, <1>13, <1>14, <1>15, <1>16 DEF RegistryInv

(* Every owner is a bystander of a section that takes no lease further.     *)
LEMMA RemovalBystander ==
    ASSUME NEW kept, Reduced(kept), bindings' = kept, NEW o \in Owners,
           caller'[o] = caller[o], current'[o] = current[o], epoch' = epoch,
           o \in owed \cup removing => o \in owed' \cup removing',
           revoking => revoking'
    PROVE  Bystander(o)
BY DEF Reduced, Bystander

(* A step of a goroutine that holds the lock.                               *)
LEMMA RunSection ==
    ASSUME Inv, NEW i \in Slots, Alive(i), NEW t, Moves(sup[i], t),
           RemovalSection(Pruned(sup[i].addr), Become(i, t)),
           UNCHANGED <<OutsideRun, failures>>,
           owed \subseteq owed', owed' \subseteq Owners,
           \/ TellsOf(sup[i]) => TellsOf(t)
           \/ OwnersOf(bindings', sup[i].addr) \subseteq owed'
    PROVE  Inv'
<1> USE DEF OutsideRun, tracker, calls
<1> DEFINE kept == Pruned(sup[i].addr)
           own == Become(i, t)
<1>0. TypeOK /\ RegistryInv /\ SupervisorInv
  BY DEF Inv, RegistryInv
<1>1. Reduced(kept)
  BY <1>0, PrunedReduced
<1>2. /\ Proposes(own) /\ own[i] = t /\ \A j \in Slots \ {i} : own[j] = sup[j]
      /\ i \notin FreeSlots
  BY <1>0, BecomeProposed
<1> HIDE DEF kept, own
<1>3. /\ SlotTurn /\ WatchTurn
      /\ RegistryInv'
      /\ \A o \in Owners : NewRecovers(o)
      /\ bindings' = kept /\ bindings' \in [Owners -> Binding]
      /\ deferred' \in SUBSET Addresses
      /\ stopping' \in SUBSET Slots /\ starting' \in SUBSET Slots
      /\ unread' \in SUBSET (Owners \X Addresses) /\ unread' \subseteq unread
      /\ \A j \in Slots \ FreeSlots : sup'[j] = own[j]
  <2>1. RemovalSection(kept, own)
    BY DEF kept, own
  <2> QED
    BY <2>1, <1>0, <1>1, <1>2, RemovalTurn
<1>4. TypeOK'
  BY <1>0, <1>3 DEF TypeOK, SlotTurn, WatchTurn, Binding
<1>5. ASSUME NEW o \in Owners PROVE OwnerInv(o)' /\ Told(o)'
  <2>1. Bystander(o)
    BY <1>1, <1>3, RemovalBystander
  <2>2. OwnerInv(o) /\ Told(o)
    BY DEF Inv
  <2>3. OwnerInv(o)'
    BY <1>0, <1>3, <2>1, <2>2, BystandersKept
  <2>4. ASSUME NEW a \in Addresses, <<o, a>> \in unread', watches[a] # 0, ~(Busy(o)'),
               TellsOf(sup[watches[a]])
        PROVE  TellsOf(sup'[watches[a]])
    <3>1. watches[a] \in Slots \ FreeSlots /\ sup[watches[a]].addr = a
      BY <1>0, <2>4, RegisteredSlots DEF SupervisorInv, Owned
    <3>2. sup'[watches[a]] = own[watches[a]]
      BY <1>3, <3>1
    <3>3. CASE watches[a] # i
      BY <1>2, <2>4, <3>1, <3>2, <3>3
    <3>4. CASE watches[a] = i
      <4>1. a \in bindings'[o].addrs
        BY <1>3, <2>4 DEF RegistryInv, UnreadIsBound
      <4>2. o \in OwnersOf(bindings', sup[i].addr)
        BY <3>1, <3>4, <4>1 DEF OwnersOf
      <4>3. o \notin owed'
        BY <2>4 DEF Busy
      <4> QED
        BY <1>2, <2>4, <3>2, <3>4, <4>2, <4>3
    <3> QED
      BY <3>3, <3>4
  <2>5. StillTells(o)
    BY <2>4 DEF StillTells
  <2>6. Told(o)'
    BY <1>0, <1>3, <2>1, <2>2, <2>5, BystandersTold
  <2> QED
    BY <2>3, <2>6
<1> QED
  BY <1>3, <1>4, <1>5 DEF Inv

(* A step that leaves the registry and every owner alone.                   *)
LEMMA QuietStep ==
    ASSUME Inv, Proposes(sup'), starting' \in SUBSET Slots,
           UNCHANGED <<tracker, registry, stopping, caller, calls, owed, unread,
                       lifecycle, changes>>,
           failures' \in 0 .. MaxFailures,
           \A o \in Owners : StillTells(o)
    PROVE  Inv'
<1>0. TypeOK /\ RegistryInv
  BY DEF Inv
<1>1. /\ SlotTurn /\ WatchTurn
      /\ CapacityShared' /\ SupervisorInv' /\ Deferrals'
      /\ \A o \in Owners : NewRecovers(o)
  BY <1>0, QuietTurn
<1> USE DEF tracker, registry, calls
<1>2. UnreadIsBound'
  BY <1>0 DEF RegistryInv, UnreadIsBound
<1>3. TypeOK'
  BY <1>0, <1>1 DEF TypeOK, SlotTurn
<1>4. ASSUME NEW o \in Owners PROVE OwnerInv(o)' /\ Told(o)'
  <2>1. Bystander(o)
    BY DEF Bystander
  <2>2. OwnerInv(o) /\ Told(o)
    BY DEF Inv
  <2>3. OwnerInv(o)'
    BY <1>0, <1>1, <2>1, <2>2, BystandersKept
  <2>4. Told(o)'
    BY <1>0, <1>1, <2>1, <2>2, BystandersTold
  <2> QED
    BY <2>3, <2>4
<1> QED
  BY <1>1, <1>2, <1>3, <1>4 DEF Inv, RegistryInv

(* A step of a goroutine outside the lock.                                  *)
LEMMA QuietRun ==
    ASSUME Inv, NEW i \in Slots, Alive(i), NEW t, Moves(sup[i], t),
           TellsOf(sup[i]) /\ ~Pending(sup[i]) => TellsOf(t),
           sup' = Become(i, t),
           UNCHANGED <<OutsideRun, Unlocked>>, failures' \in 0 .. MaxFailures
    PROVE  Inv'
<1>0. TypeOK /\ RegistryInv /\ SupervisorInv
  BY DEF Inv, RegistryInv
<1>1. Proposes(sup') /\ sup'[i] = t /\ \A j \in Slots \ {i} : sup'[j] = sup[j]
  BY <1>0, BecomeProposed
<1> USE DEF OutsideRun, Unlocked
<1>2. ASSUME NEW o \in Owners PROVE StillTells(o)
  <2>1. SUFFICES ASSUME NEW a \in Addresses, <<o, a>> \in unread', watches[a] # 0,
                        ~(Busy(o)'), IsCurrent(o, bindings[o].lease),
                        TellsOf(sup[watches[a]])
                 PROVE  TellsOf(sup'[watches[a]])
    BY DEF StillTells
  <2>2. watches[a] \in Slots
    BY <1>0, <2>1, RegisteredSlots
  <2>3. CASE watches[a] # i
    BY <1>1, <2>1, <2>2, <2>3
  <2>4. CASE watches[a] = i
    <3>1. a \in bindings[o].addrs
      BY <1>0, <2>1 DEF RegistryInv, UnreadIsBound
    <3>2. ~Busy(o)
      BY <2>1 DEF Busy, calls
    <3>3. ~Pending(sup[i])
      BY <2>1, <2>4, <3>1, <3>2 DEF Inv, OwnerInv, Attended
    <3> QED
      BY <1>1, <2>1, <2>4, <3>3
  <2> QED
    BY <2>3, <2>4
<1>3. starting' \in SUBSET Slots
  BY <1>0 DEF TypeOK
<1> QED
  BY <1>1, <1>2, <1>3, QuietStep

(***************************************************************************)
(* watchSupervisor.run                                                      *)
(***************************************************************************)

(* What the goroutine of i knows of its own record.                         *)
LEMMA OwnRecord ==
    ASSUME Inv, NEW i \in Slots
    PROVE  /\ sup[i] \in Supervisor /\ FirstIsOpen(sup[i])
           /\ Moves(sup[i], Dead(i)) /\ TellsOf(Dead(i))
           /\ failures \in 0 .. MaxFailures
           /\ Fail => failures' \in 0 .. MaxFailures
<1>1. sup[i] \in Supervisor /\ FirstIsOpen(sup[i]) /\ failures \in 0 .. MaxFailures
  BY DEF Inv, TypeOK, RegistryInv, SupervisorInv, FirstAttempts
<1>2. Moves(sup[i], Dead(i)) /\ TellsOf(Dead(i))
  BY <1>1, DeadMoves DEF Dead
<1>3. Fail => failures' \in 0 .. MaxFailures
  BY <1>1, RegistryAssumption DEF Fail
<1> QED
  BY <1>1, <1>2, <1>3

(* run: the head of the loop, which returns when no owner is left.          *)
LEMMA RunPermitKept ==
    ASSUME Inv, NEW i \in Slots, RunPermit(i) PROVE Inv'
<1>0. Alive(i)
  BY DEF RunPermit, Alive
<1>1. CASE sup[i].cancelled
  BY <1>0, <1>1, OwnRecord, QuietRun DEF RunPermit
<1>2. CASE ~sup[i].cancelled
  <2>1. PICK t \in {[sup[i] EXCEPT !.pc = "watch"], Dead(i)} :
          RemovalSection(Pruned(sup[i].addr), Become(i, t))
    BY <1>2 DEF RunPermit
  <2>2. Moves(sup[i], t) /\ (TellsOf(sup[i]) => TellsOf(t))
    BY OwnRecord, PcMoves DEF RunPermit
  <2>3. owed' = owed /\ owed \subseteq Owners
    BY <1>2 DEF RunPermit, Inv, TypeOK
  <2>4. UNCHANGED <<OutsideRun, failures>>
    BY DEF RunPermit
  <2> QED
    BY <1>0, <2>1, <2>2, <2>3, <2>4, RunSection
<1> QED
  BY <1>1, <1>2

(* run: the watch is established in time.                                   *)
LEMMA WatchOpensKept ==
    ASSUME Inv, NEW i \in Slots, WatchOpens(i) PROVE Inv'
<1> DEFINE t == [sup[i] EXCEPT !.pc = "opened", !.first = FALSE]
<1>1. Alive(i) /\ sup' = Become(i, t) /\ UNCHANGED <<OutsideRun, Unlocked, failures>>
  BY DEF WatchOpens, Alive
<1>2. Moves(sup[i], t) /\ (TellsOf(sup[i]) /\ ~Pending(sup[i]) => TellsOf(t))
  BY OwnRecord, OpenMoves DEF WatchOpens
<1> HIDE DEF t
<1> QED
  BY <1>1, <1>2, OwnRecord, QuietRun

(* run: the attempt to establish the watch takes too long.                  *)
LEMMA EstablishmentTimeoutKept ==
    ASSUME Inv, NEW i \in Slots, EstablishmentTimeout(i) PROVE Inv'
<1> DEFINE t == [sup[i] EXCEPT !.timedOut = TRUE, !.first = FALSE]
<1>1. Alive(i) /\ sup' = Become(i, t) /\ UNCHANGED <<OutsideRun, Unlocked>> /\ Fail
  BY DEF EstablishmentTimeout, Alive
<1>2. Moves(sup[i], t) /\ TellsOf(t)
  BY OwnRecord, TimeoutMoves DEF EstablishmentTimeout
<1> HIDE DEF t
<1> QED
  BY <1>1, <1>2, OwnRecord, QuietRun

(* run: the attempt to establish the watch fails.                           *)
LEMMA WatchFailsKept ==
    ASSUME Inv, NEW i \in Slots, WatchFails(i) PROVE Inv'
<1> DEFINE t == IF sup[i].cancelled THEN Dead(i)
                ELSE [sup[i] EXCEPT !.pc = "report", !.first = FALSE,
                                    !.timedOut = FALSE, !.recovery = TRUE]
<1>1. Alive(i) /\ sup' = Become(i, t) /\ UNCHANGED <<OutsideRun, Unlocked>>
  BY DEF WatchFails, Alive
<1>2. Moves(sup[i], t) /\ TellsOf(t)
  BY OwnRecord, FailMoves DEF WatchFails
<1>3. failures' \in 0 .. MaxFailures
  BY OwnRecord DEF WatchFails
<1> HIDE DEF t
<1> QED
  BY <1>1, <1>2, <1>3, QuietRun

(* run: after the establishment, whether the supervisor is still current.   *)
LEMMA RunOpenedKept ==
    ASSUME Inv, NEW i \in Slots, RunOpened(i) PROVE Inv'
<1> DEFINE t == IF sup[i].cancelled \/ ~SupervisorCurrent(i) THEN Dead(i)
                ELSE [sup[i] EXCEPT !.pc = IF sup[i].recovery THEN "recover" ELSE "stream",
                                    !.recovery = FALSE]
<1>1. Alive(i) /\ sup' = Become(i, t) /\ UNCHANGED <<OutsideRun, Unlocked, failures>>
  BY DEF RunOpened, Alive
<1>2. Moves(sup[i], t) /\ (TellsOf(sup[i]) => TellsOf(t))
  BY OwnRecord, VettedMoves DEF RunOpened
<1> HIDE DEF t
<1> QED
  BY <1>1, <1>2, OwnRecord, QuietRun

(* run: the stream ends, with an error or without.                          *)
LEMMA StreamEndsKept ==
    ASSUME Inv, NEW i \in Slots, StreamEnds(i) PROVE Inv'
<1>1. Alive(i) /\ UNCHANGED <<OutsideRun, Unlocked>> /\ failures' \in 0 .. MaxFailures
  BY OwnRecord DEF StreamEnds, Alive
<1>2. PICK pc \in {"report", "recheck"} :
        sup' = Become(i, IF sup[i].cancelled THEN Dead(i)
                         ELSE [sup[i] EXCEPT !.pc = pc, !.recovery = TRUE, !.event = FALSE])
  BY DEF StreamEnds
<1> DEFINE t == IF sup[i].cancelled THEN Dead(i)
                ELSE [sup[i] EXCEPT !.pc = pc, !.recovery = TRUE, !.event = FALSE]
<1>3. Moves(sup[i], t) /\ TellsOf(t)
  BY OwnRecord, EndMoves DEF StreamEnds
<1>4. sup' = Become(i, t)
  BY <1>2
<1> HIDE DEF t
<1> QED
  BY <1>1, <1>3, <1>4, QuietRun

(* run: the wait before the next attempt.                                   *)
LEMMA RunBackoffKept ==
    ASSUME Inv, NEW i \in Slots, RunBackoff(i) PROVE Inv'
<1> DEFINE t == IF sup[i].cancelled THEN Dead(i) ELSE [sup[i] EXCEPT !.pc = "permit"]
<1>1. Alive(i) /\ sup' = Become(i, t) /\ UNCHANGED <<OutsideRun, Unlocked, failures>>
  BY DEF RunBackoff, Alive
<1>2. Moves(sup[i], t) /\ (TellsOf(sup[i]) => TellsOf(t))
  BY OwnRecord, PcMoves DEF RunBackoff
<1> HIDE DEF t
<1> QED
  BY <1>1, <1>2, OwnRecord, QuietRun

(* routeEvent reaches the owners that remain bound.                         *)
LEMMA RouteEventKept ==
    ASSUME Inv, NEW i \in Slots, Alive(i), NEW t, Moves(sup[i], t),
           RouteEvent(i, t), UNCHANGED <<OutsideRun, failures>>
    PROVE  Inv'
<1>1. /\ RemovalSection(Pruned(sup[i].addr), Become(i, t))
      /\ owed' = owed \cup OwnersOf(bindings', sup[i].addr)
  BY DEF RouteEvent
<1>2. owed \subseteq owed' /\ OwnersOf(bindings', sup[i].addr) \subseteq owed'
  BY <1>1
<1>3. owed' \subseteq Owners
  BY <1>1 DEF OwnersOf, Inv, TypeOK
<1> QED
  BY <1>1, <1>2, <1>3, RunSection

(* run: the recovered watch tells everyone bound to its address.            *)
LEMMA RunRecoverKept ==
    ASSUME Inv, NEW i \in Slots, RunRecover(i) PROVE Inv'
<1>1. Alive(i) /\ Moves(sup[i], [sup[i] EXCEPT !.pc = "stream"])
  BY OwnRecord, TellingMoves DEF RunRecover, Alive
<1> QED
  BY <1>1, RouteEventKept DEF RunRecover

(* run: an event of the stream is routed.                                   *)
LEMMA ConsumeEventKept ==
    ASSUME Inv, NEW i \in Slots, ConsumeEvent(i) PROVE Inv'
<1>1. Alive(i) /\ Moves(sup[i], [sup[i] EXCEPT !.event = FALSE])
  BY OwnRecord, TellingMoves DEF ConsumeEvent, Alive
<1> QED
  BY <1>1, RouteEventKept DEF ConsumeEvent

(* run: the lost watch is reported to everyone bound to its address.        *)
LEMMA RunReportKept ==
    ASSUME Inv, NEW i \in Slots, RunReport(i) PROVE Inv'
<1>1. Alive(i) /\ Moves(sup[i], [sup[i] EXCEPT !.pc = "recheck"])
  BY OwnRecord, PcMoves DEF RunReport, Alive
<1> QED
  BY <1>1, RouteEventKept DEF RunReport

(* run: after a loss, the owners that are no longer current are pruned.     *)
LEMMA RunRecheckKept ==
    ASSUME Inv, NEW i \in Slots, RunRecheck(i) PROVE Inv'
<1>0. Alive(i)
  BY DEF RunRecheck, Alive
<1>1. PICK t \in {[sup[i] EXCEPT !.pc = "backoff"], Dead(i)} :
        RemovalSection(Pruned(sup[i].addr), Become(i, t))
  BY DEF RunRecheck
<1>2. Moves(sup[i], t) /\ (TellsOf(sup[i]) => TellsOf(t))
  BY OwnRecord, PcMoves DEF RunRecheck
<1>3. owed' = owed /\ owed \subseteq Owners
  BY DEF RunRecheck, Inv, TypeOK
<1>4. UNCHANGED <<OutsideRun, failures>>
  BY DEF RunRecheck
<1> QED
  BY <1>0, <1>1, <1>2, <1>3, <1>4, RunSection

(***************************************************************************)
(* The calls outside the lock, and the observed resources.                  *)
(***************************************************************************)

(* start, for a supervisor promoted by someone else's section.              *)
LEMMA StartSupervisorKept ==
    ASSUME Inv, NEW i \in Slots, StartSupervisor(i) PROVE Inv'
<1>0. TypeOK /\ SupervisorInv
  BY DEF Inv, RegistryInv
<1>1. Proposes(sup') /\ \A j \in Slots : TellsOf(sup[j]) => TellsOf(sup'[j])
  BY <1>0, StartedProposed DEF StartSupervisor
<1>2. \A o \in Owners : StillTells(o)
  BY <1>0, <1>1, RegisteredSlots DEF StillTells
<1>3. starting' \in SUBSET Slots /\ failures' \in 0 .. MaxFailures
  BY <1>0 DEF StartSupervisor, OutsideCalls, counts, TypeOK
<1> QED
  BY <1>1, <1>2, <1>3, QuietStep DEF StartSupervisor, OutsideCalls, counts

(* stop() cancels a supervisor that nobody finds any more.                  *)
LEMMA StopSupervisorKept ==
    ASSUME Inv, NEW i \in Slots, StopSupervisor(i) PROVE Inv'
<1> DEFINE t == [sup[i] EXCEPT !.cancelled = sup[i].pc \notin {"off", "dead"},
                               !.first = FALSE]
<1>0. TypeOK /\ RegistryInv /\ SupervisorInv
  BY DEF Inv, RegistryInv
<1>1. sup[i] \in Supervisor
  BY <1>0 DEF TypeOK
<1>2. /\ t \in Supervisor /\ t.addr = sup[i].addr /\ t.pc = sup[i].pc
      /\ t.cancelled = (sup[i].pc \notin {"off", "dead"}) /\ ~t.first
      /\ t.recovery = sup[i].recovery
  BY <1>1 DEF Supervisor
<1>3. /\ i \in stopping /\ stopping' = stopping \ {i}
      /\ UNCHANGED <<starting, OutsideCalls>>
      /\ sup' = [sup EXCEPT ![i].cancelled = sup[i].pc \notin {"off", "dead"},
                            ![i].first = FALSE]
  BY DEF StopSupervisor
<1>4. sup' = [sup EXCEPT ![i] = t]
  BY <1>0, <1>1, <1>3 DEF TypeOK, Supervisor
<1> HIDE DEF t
<1> USE DEF OutsideCalls, tracker, registry, calls, counts
<1>5. sup' \in [Slots -> Supervisor] /\ sup'[i] = t /\ \A j \in Slots \ {i} : sup'[j] = sup[j]
  BY <1>0, <1>2, <1>4 DEF TypeOK
<1>6. i \notin Registered /\ Registered' = Registered
  BY <1>0, <1>3 DEF Registered, SupervisorInv, Dropped
<1>7. Advances(i, sup[i], t) /\ Contained(i, t, stopping')
  BY <1>2, <1>6 DEF Advances, Contained, FirstIsOpen, Pending
<1>8. SlotTurn
  <2>1. ASSUME NEW j \in Slots
        PROVE  Advances(j, sup[j], sup'[j]) /\ Contained(j, sup'[j], stopping')
    <3>1. Advances(j, sup[j], sup[j]) /\ Contained(j, sup[j], stopping)
      BY <1>0, SupProposed DEF Proposes
    <3>2. j # i => Contained(j, sup[j], stopping')
      BY <1>3, <3>1 DEF Contained
    <3> QED
      BY <1>5, <1>7, <3>1, <3>2
  <2> QED
    BY <1>5, <1>6, <2>1 DEF SlotTurn
<1>9. WatchTurn
  BY <1>0, <1>3 DEF WatchTurn, TypeOK
<1>10. Dropped'
  BY <1>0, <1>3, <1>6 DEF SupervisorInv, Dropped
<1>11. SupervisorInv'
  BY <1>0, <1>8, <1>9, <1>10, SupervisorsKept
<1>12. RegistryInv'
  BY <1>0, <1>3, <1>11 DEF RegistryInv, CapacityShared, Deferrals, UnreadIsBound, BoundIn
<1>13. TypeOK'
  BY <1>0, <1>3, <1>5 DEF TypeOK
<1>14. ASSUME NEW o \in Owners PROVE OwnerInv(o)' /\ Told(o)'
  <2>1. Bystander(o) /\ NewRecovers(o)
    BY <1>3 DEF Bystander, NewRecovers
  <2>2. OwnerInv(o) /\ Told(o)
    BY DEF Inv
  <2>3. OwnerInv(o)'
    BY <1>0, <1>8, <2>1, <2>2, BystandersKept
  <2>4. StillTells(o)
    <3>1. \A a \in Addresses : watches[a] # 0 => watches[a] \in Slots \ {i}
      BY <1>0, <1>6, RegisteredSlots
    <3> QED
      BY <1>5, <3>1 DEF StillTells
  <2>5. Told(o)'
    BY <1>0, <1>3, <1>9, <2>1, <2>2, <2>4, BystandersTold
  <2> QED
    BY <2>3, <2>5
<1> QED
  BY <1>12, <1>13, <1>14 DEF Inv

(* A source object changes: those bound to its address have it unread.      *)
LEMMA ChangeSourceKept ==
    ASSUME Inv, NEW c \in Addresses, ChangeSource(c) PROVE Inv'
<1>0. TypeOK /\ RegistryInv /\ SupervisorInv
  BY DEF Inv, RegistryInv
<1>1. /\ changes < MaxChanges /\ changes' = changes + 1
      /\ unread' = unread \cup {<<o, c>> : o \in OwnersOf(bindings, c)}
      /\ sup' = [i \in Slots |->
           IF sup[i].addr = c /\ sup[i].pc \in {"opened", "recover", "stream"}
           THEN [sup[i] EXCEPT !.event = TRUE] ELSE sup[i]]
      /\ UNCHANGED <<tracker, registry, stopping, starting, caller, calls, owed,
                     lifecycle, failures>>
  BY DEF ChangeSource
<1>2. ASSUME NEW i \in Slots
      PROVE  /\ sup'[i] \in Supervisor
             /\ Advances(i, sup[i], sup'[i]) /\ Contained(i, sup'[i], stopping)
             /\ TellsOf(sup[i]) => TellsOf(sup'[i])
             /\ sup[i].addr = c /\ i \in Registered => TellsOf(sup'[i])
  <2>1. /\ sup[i] \in Supervisor /\ FirstIsOpen(sup[i])
        /\ Advances(i, sup[i], sup[i]) /\ Contained(i, sup[i], stopping)
    BY <1>0, SupProposed DEF TypeOK, SupervisorInv, FirstAttempts, Proposes
  <2>2. CASE sup[i].addr = c /\ sup[i].pc \in {"opened", "recover", "stream"}
    <3> DEFINE t == [sup[i] EXCEPT !.event = TRUE]
    <3>1. sup'[i] = t
      BY <1>1, <2>2
    <3>2. Moves(sup[i], t) /\ TellsOf(t)
      BY <2>1, <2>2, EventMoves
    <3> HIDE DEF t
    <3>3. Advances(i, sup[i], t) /\ Contained(i, t, stopping) /\ t \in Supervisor
      BY <2>1, <2>2, <3>2 DEF Moves, Advances, Contained
    <3> QED
      BY <3>1, <3>2, <3>3
  <2>3. CASE ~(sup[i].addr = c /\ sup[i].pc \in {"opened", "recover", "stream"})
    <3>1. sup'[i] = sup[i]
      BY <1>1, <2>3
    <3>2. sup[i].addr = c /\ i \in Registered => TellsOf(sup[i])
      BY <1>0, <2>1, <2>3, ClosedTells DEF SupervisorInv, Recoveries
    <3> QED
      BY <2>1, <3>1, <3>2
  <2> QED
    BY <2>2, <2>3
<1>3. Proposes(sup')
  <2>1. sup' \in [Slots -> Supervisor]
    BY <1>1, <1>2
  <2> QED
    BY <1>2, <2>1 DEF Proposes
<1>4. /\ SlotTurn /\ WatchTurn
      /\ CapacityShared' /\ SupervisorInv' /\ Deferrals'
      /\ \A o \in Owners : NewRecovers(o)
  BY <1>0, <1>1, <1>3, QuietTurn
<1> USE DEF tracker, registry, calls
<1>5. UnreadIsBound'
  BY <1>0, <1>1 DEF RegistryInv, UnreadIsBound, OwnersOf
<1>6. TypeOK'
  <2>1. unread' \in SUBSET (Owners \X Addresses)
    BY <1>0, <1>1 DEF TypeOK, OwnersOf
  <2>2. changes' \in 0 .. MaxChanges
    BY <1>0, <1>1, RegistryAssumption DEF TypeOK
  <2> QED
    BY <1>0, <1>1, <1>4, <2>1, <2>2 DEF TypeOK, SlotTurn
<1>7. ASSUME NEW o \in Owners PROVE OwnerInv(o)' /\ Told(o)'
  <2>1. Bystander(o)
    BY <1>1 DEF Bystander
  <2>2. OwnerInv(o) /\ Told(o)
    BY DEF Inv
  <2>3. OwnerInv(o)'
    BY <1>0, <1>4, <2>1, <2>2, BystandersKept
  <2>4. Told(o)'
    <3>1. SUFFICES ASSUME NEW a \in Addresses, <<o, a>> \in unread',
                          IsCurrent(o, bindings[o].lease)', ~(Busy(o)'), watches[a] # 0
                   PROVE  TellsOf(sup'[watches[a]])
      BY <1>1 DEF Told, TellsOf
    <3>2. IsCurrent(o, bindings[o].lease) /\ ~Busy(o)
      BY <2>1, <3>1, BystanderLease, BystanderBusy
    <3>3. watches[a] \in Slots /\ watches[a] \in Registered /\ sup[watches[a]].addr = a
      BY <1>0, <3>1, RegisteredSlots DEF SupervisorInv, Owned
    <3>4. CASE a = c
      BY <1>2, <3>3, <3>4
    <3>5. CASE a # c
      <4>1. <<o, a>> \in unread
        BY <1>1, <3>1, <3>5
      <4>2. TellsOf(sup[watches[a]])
        BY <2>2, <3>1, <3>2, <4>1 DEF Told
      <4> QED
        BY <1>2, <3>3, <4>2
    <3> QED
      BY <3>4, <3>5
  <2> QED
    BY <2>3, <2>4
<1> QED
  BY <1>4, <1>5, <1>6, <1>7 DEF Inv, RegistryInv

(***************************************************************************)
(* The tracker and the Reconcile calls outside the lock.                    *)
(***************************************************************************)

(* A step of one owner that leaves the registry alone.                      *)
LEMMA CallStep ==
    ASSUME Inv, NEW o \in Owners, Proposes(sup'), UNCHANGED <<registry, stopping>>,
           unread' \subseteq unread,
           \A q \in Owners \ {o} : Bystander(q) /\ StillTells(q),
           TypeOK', OwnerInv(o)', Told(o)'
    PROVE  Inv'
<1>0. TypeOK /\ RegistryInv
  BY DEF Inv
<1>1. /\ SlotTurn /\ WatchTurn
      /\ CapacityShared' /\ SupervisorInv' /\ Deferrals'
      /\ \A q \in Owners : NewRecovers(q)
  BY <1>0, QuietTurn
<1>2. UnreadIsBound'
  BY <1>0 DEF RegistryInv, UnreadIsBound, registry
<1>3. ASSUME NEW q \in Owners \ {o} PROVE OwnerInv(q)' /\ Told(q)'
  <2>1. OwnerInv(q) /\ Told(q)
    BY DEF Inv
  <2>2. OwnerInv(q)'
    BY <1>0, <1>1, <2>1, BystandersKept
  <2>3. Told(q)'
    BY <1>0, <1>1, <2>1, BystandersTold
  <2> QED
    BY <2>2, <2>3
<1> QED
  BY <1>1, <1>2, <1>3 DEF Inv, RegistryInv

(* A call that has been overtaken is followed by another, or its bindings   *)
(* are about to go.                                                         *)
LEMMA OvertakenIsBusy ==
    ASSUME TypeOK, NEW o \in Owners, Leased(o), caller[o].pc \in {"replace", "start", "wait"},
           ~IsCurrent(o, caller[o].lease), IsCurrent(o, bindings[o].lease)
    PROVE  o \in owed \cup removing \/ revoking
<1>1. caller[o].lease \in Lease
  BY DEF TypeOK, Caller
<1>2. bindings[o].lease = [gen |-> current[o], epoch |-> epoch] /\ current[o] # 0
  BY DEF IsCurrent
<1>3. bindings[o].lease # NoLease
  BY <1>2 DEF NoLease
<1>4. caller[o].lease # [gen |-> current[o], epoch |-> epoch]
  BY <1>2 DEF IsCurrent
<1>5. caller[o].lease.gen # current[o] \/ caller[o].lease.epoch # epoch
  BY <1>1, <1>4 DEF Lease
<1> QED
  BY <1>3, <1>5 DEF Leased

(* A call that has been overtaken after Replace is not bound any more.      *)
LEMMA OvertakenIsUnbound ==
    ASSUME NEW o \in Owners, Leased(o), caller[o].pc \in {"start", "wait"},
           ~IsCurrent(o, caller[o].lease)
    PROVE  ~IsCurrent(o, bindings[o].lease)
<1>1. ~IsCurrent(o, NoLease)
  BY DEF IsCurrent, NoLease
<1> QED
  BY <1>1 DEF Leased

(* The handlers observe a new identity, or the deletion, of a Facet.        *)
LEMMA ObserveFacetKept ==
    ASSUME Inv, NEW o \in Owners, ObserveFacet(o) PROVE Inv'
<1>0. TypeOK /\ RegistryInv /\ SupervisorInv /\ OwnerInv(o)
  BY DEF Inv, RegistryInv
<1>1. PICK gen \in 0 .. MaxGeneration :
        /\ current' = [current EXCEPT ![o] = gen]
        /\ removing' = IF gen = 0 THEN removing \cup {o} ELSE removing
        /\ owed' = IF gen = 0 THEN owed ELSE owed \cup {o}
  BY DEF ObserveFacet
<1>2. /\ UNCHANGED <<epoch, registry, sup, stopping, starting, caller, revoking,
                     unread, changes, failures>>
      /\ lifecycle < MaxLifecycle /\ lifecycle' = lifecycle + 1
  BY DEF ObserveFacet
<1> USE DEF registry
<1>3. TypeOK'
  <2>1. lifecycle' \in 0 .. MaxLifecycle
    BY <1>0, <1>2, RegistryAssumption DEF TypeOK
  <2>2. current' \in [Owners -> 0 .. MaxGeneration] /\ removing' \in SUBSET Owners
        /\ owed' \in SUBSET Owners
    BY <1>0, <1>1 DEF TypeOK
  <2> QED
    BY <1>0, <1>2, <2>1, <2>2 DEF TypeOK
<1>4. o \in owed' \cup removing' /\ owed \subseteq owed' /\ removing \subseteq removing'
  BY <1>1
<1>5. Attended(o)' /\ Told(o)'
  <2>1. Busy(o)'
    BY <1>4 DEF Busy
  <2> QED
    BY <2>1 DEF Attended, Told
<1>6. Waits(o)' /\ Scheduled(o)' /\ Leased(o)'
  <2>1. NextToStart(o)' = NextToStart(o)
    BY <1>2 DEF NextToStart
  <2>2. Waits(o)'
    BY <1>0, <1>2, <2>1 DEF OwnerInv, Waits
  <2>3. Scheduled(o)'
    BY <1>0, <1>2 DEF OwnerInv, Scheduled
  <2>4. Leased(o)'
    BY <1>0, <1>2, <1>4 DEF OwnerInv, Leased
  <2> QED
    BY <2>2, <2>3, <2>4
<1>7. Proposes(sup')
  BY <1>0, <1>2, SupProposed
<1>8. \A q \in Owners \ {o} : Bystander(q) /\ StillTells(q)
  BY <1>0, <1>1, <1>2, <1>4 DEF Bystander, StillTells, TypeOK
<1>9. unread' \subseteq unread
  BY <1>2
<1> QED
  BY <1>2, <1>3, <1>5, <1>6, <1>7, <1>8, <1>9, CallStep DEF OwnerInv

(* A reconcile begins: it takes a lease and owes nothing more.              *)
LEMMA BeginKept ==
    ASSUME Inv, NEW o \in Owners, Begin(o) PROVE Inv'
<1>0. TypeOK /\ RegistryInv /\ SupervisorInv
  BY DEF Inv, RegistryInv
<1>1. /\ owed' = owed \ {o}
      /\ UNCHANGED <<epoch, registry, sup, stopping, starting, calls, unread, changes, failures>>
  BY DEF Begin
<1> USE DEF registry, calls
<1>2. caller[o] \in Caller /\ caller[o].pc = "idle"
  BY <1>0 DEF TypeOK, Begin
<1>3. /\ TypeOK'
      /\ caller'[o].pc \in {"remove", "replace"}
      /\ caller'[o].pc = "replace" =>
           caller'[o].lease.gen = current'[o] /\ caller'[o].lease.epoch = epoch
      /\ \A q \in Owners \ {o} : caller'[q] = caller[q] /\ current'[q] = current[q]
  <2>1. CASE /\ caller' = [caller EXCEPT ![o].pc = "remove"] /\ UNCHANGED current
             /\ lifecycle < MaxLifecycle /\ Undisturbed /\ lifecycle' = lifecycle + 1
    <3>1. lifecycle' \in 0 .. MaxLifecycle
      BY <1>0, <2>1, RegistryAssumption DEF TypeOK
    <3>2. [caller[o] EXCEPT !.pc = "remove"] \in Caller
      BY <1>2 DEF Caller
    <3>3. caller' = [caller EXCEPT ![o] = [caller[o] EXCEPT !.pc = "remove"]]
      BY <1>0, <2>1 DEF TypeOK
    <3>4. caller' \in [Owners -> Caller]
      BY <1>0, <3>2, <3>3 DEF TypeOK
    <3>5. caller'[o].pc = "remove" /\ \A q \in Owners \ {o} : caller'[q] = caller[q]
      BY <1>0, <1>2, <3>3 DEF TypeOK, Caller
    <3>6. TypeOK'
      BY <1>0, <1>1, <2>1, <3>1, <3>4 DEF TypeOK
    <3> QED
      BY <2>1, <3>5, <3>6
  <2>2. CASE \E gen \in 1 .. MaxGeneration :
               /\ UNCHANGED lifecycle
               /\ current' = [current EXCEPT ![o] = gen]
               /\ caller' = [caller EXCEPT
                    ![o].pc = "replace",
                    ![o].lease = [gen |-> gen, epoch |-> epoch]]
    <3>1. PICK gen \in 1 .. MaxGeneration :
               /\ UNCHANGED lifecycle
               /\ current' = [current EXCEPT ![o] = gen]
               /\ caller' = [caller EXCEPT
                    ![o].pc = "replace",
                    ![o].lease = [gen |-> gen, epoch |-> epoch]]
      BY <2>2
    <3> DEFINE ls == [gen |-> gen, epoch |-> epoch]
    <3>2. ls \in Lease /\ ls.gen = gen /\ ls.epoch = epoch
      BY <1>0 DEF Lease, TypeOK
    <3>3. caller' = [caller EXCEPT ![o] = [caller[o] EXCEPT !.pc = "replace", !.lease = ls]]
      BY <1>0, <1>2, <3>1 DEF TypeOK, Caller
    <3> HIDE DEF ls
    <3>4. [caller[o] EXCEPT !.pc = "replace", !.lease = ls] \in Caller
      BY <1>2, <3>2 DEF Caller
    <3>5. caller' \in [Owners -> Caller]
      BY <1>0, <3>3, <3>4 DEF TypeOK
    <3>6. /\ caller'[o].pc = "replace" /\ caller'[o].lease = ls
          /\ \A q \in Owners \ {o} : caller'[q] = caller[q]
      BY <1>0, <1>2, <3>3 DEF TypeOK, Caller
    <3>7. /\ current' \in [Owners -> 0 .. MaxGeneration] /\ current'[o] = gen
          /\ \A q \in Owners \ {o} : current'[q] = current[q]
      BY <1>0, <3>1, RegistryAssumption DEF TypeOK
    <3>8. TypeOK'
      BY <1>0, <1>1, <3>1, <3>5, <3>7 DEF TypeOK
    <3> QED
      BY <3>2, <3>6, <3>7, <3>8
  <2> QED
    BY <2>1, <2>2 DEF Begin
<1>4. Attended(o)' /\ Told(o)'
  <2>1. Busy(o)'
    BY <1>3 DEF Busy
  <2> QED
    BY <2>1 DEF Attended, Told
<1>5. Waits(o)' /\ Scheduled(o)' /\ Leased(o)'
  BY <1>1, <1>3 DEF Waits, Scheduled, Leased
<1>6. Proposes(sup')
  BY <1>0, <1>1, SupProposed
<1>7. \A q \in Owners \ {o} : Bystander(q) /\ StillTells(q)
  BY <1>0, <1>1, <1>3 DEF Bystander, StillTells, TypeOK
<1>8. unread' \subseteq unread
  BY <1>1
<1> QED
  BY <1>1, <1>3, <1>4, <1>5, <1>6, <1>7, <1>8, CallStep DEF OwnerInv

(* A call that ends leaves its owner at rest.                               *)
LEMMA RestingCaller ==
    /\ Resting \in Caller /\ Resting.pc = "idle" /\ Resting.todo = {}
BY UnboundBinding DEF Resting, Caller

(* Replace of a lease that is no longer current does nothing.               *)
LEMMA ReplaceStaleKept ==
    ASSUME Inv, NEW o \in Owners, ReplaceStale(o) PROVE Inv'
<1>0. TypeOK /\ RegistryInv /\ SupervisorInv /\ OwnerInv(o)
  BY DEF Inv, RegistryInv
<1>1. /\ caller[o].pc = "replace" /\ ~IsCurrent(o, caller[o].lease)
      /\ caller' = [caller EXCEPT ![o] = Resting]
      /\ UNCHANGED <<tracker, registry, sup, stopping, starting, calls, owed, unread, counts>>
  BY DEF ReplaceStale
<1> USE DEF tracker, registry, calls, counts
<1>2. /\ caller' \in [Owners -> Caller] /\ caller'[o].pc = "idle"
      /\ \A q \in Owners \ {o} : caller'[q] = caller[q]
  BY <1>0, <1>1, RestingCaller DEF TypeOK
<1>3. TypeOK'
  BY <1>0, <1>1, <1>2 DEF TypeOK
<1>4. Attended(o)' /\ Told(o)'
  <2>1. CASE IsCurrent(o, bindings[o].lease)
    <3>1. o \in owed \cup removing \/ revoking
      BY <1>0, <1>1, <2>1, OvertakenIsBusy DEF OwnerInv
    <3>2. Busy(o)'
      BY <1>1, <3>1 DEF Busy
    <3> QED
      BY <3>2 DEF Attended, Told
  <2>2. CASE ~IsCurrent(o, bindings[o].lease)
    <3>1. ~(IsCurrent(o, bindings[o].lease)')
      BY <1>1, <2>2 DEF IsCurrent
    <3> QED
      BY <3>1 DEF Attended, Told
  <2> QED
    BY <2>1, <2>2
<1>5. Waits(o)' /\ Scheduled(o)' /\ Leased(o)'
  BY <1>2 DEF Waits, Scheduled, Leased
<1>6. Proposes(sup')
  BY <1>0, <1>1, SupProposed
<1>7. \A q \in Owners \ {o} : Bystander(q) /\ StillTells(q)
  BY <1>0, <1>1, <1>2 DEF Bystander, StillTells, TypeOK
<1>8. unread' \subseteq unread
  BY <1>1
<1> QED
  BY <1>1, <1>3, <1>4, <1>5, <1>6, <1>7, <1>8, CallStep DEF OwnerInv

(* The evaluation after Replace reads the sources.                          *)
LEMMA EvaluateKept ==
    ASSUME Inv, NEW o \in Owners, Evaluate(o) PROVE Inv'
<1>0. TypeOK /\ RegistryInv /\ SupervisorInv /\ OwnerInv(o)
  BY DEF Inv, RegistryInv
<1>1. /\ caller[o].pc = "start" /\ caller[o].todo = {}
      /\ unread' = IF IsCurrent(o, caller[o].lease)
                   THEN {p \in unread : p[1] # o} ELSE unread
      /\ caller' = [caller EXCEPT ![o] = Resting]
      /\ UNCHANGED <<tracker, registry, sup, stopping, starting, calls, owed, counts>>
  BY DEF Evaluate
<1> USE DEF tracker, registry, calls, counts
<1>2. /\ caller' \in [Owners -> Caller] /\ caller'[o].pc = "idle"
      /\ \A q \in Owners \ {o} : caller'[q] = caller[q]
  BY <1>0, <1>1, RestingCaller DEF TypeOK
<1>3. TypeOK' /\ unread' \subseteq unread
  BY <1>0, <1>1, <1>2 DEF TypeOK
<1>4. Attended(o)'
  <2>1. \A a \in bindings[o].addrs : watches[a] # 0 => ~Pending(sup[watches[a]])
    BY <1>0, <1>1 DEF OwnerInv, Scheduled
  <2> QED
    BY <1>1, <2>1 DEF Attended
<1>5. Told(o)'
  <2>1. CASE IsCurrent(o, caller[o].lease)
    <3>1. \A a \in Addresses : <<o, a>> \notin unread'
      BY <1>1, <2>1
    <3> QED
      BY <3>1 DEF Told
  <2>2. CASE ~IsCurrent(o, caller[o].lease)
    <3>1. ~IsCurrent(o, bindings[o].lease)
      BY <1>0, <1>1, <2>2, OvertakenIsUnbound DEF OwnerInv
    <3>2. ~(IsCurrent(o, bindings[o].lease)')
      BY <1>1, <3>1 DEF IsCurrent
    <3> QED
      BY <3>2 DEF Told
  <2> QED
    BY <2>1, <2>2
<1>6. Waits(o)' /\ Scheduled(o)' /\ Leased(o)'
  BY <1>2 DEF Waits, Scheduled, Leased
<1>7. Proposes(sup')
  BY <1>0, <1>1, SupProposed
<1>8. \A q \in Owners \ {o} : Bystander(q) /\ StillTells(q)
  BY <1>0, <1>1, <1>2 DEF Bystander, StillTells, TypeOK
<1> QED
  BY <1>1, <1>3, <1>4, <1>5, <1>6, <1>7, <1>8, CallStep DEF OwnerInv

(* The calls that only shorten what a caller has to start, or wait.         *)
LEMMA CallerMoves ==
    ASSUME TypeOK, NEW o \in Owners, NEW pc \in {"start", "wait"}, NEW n,
           \/ caller' = [caller EXCEPT ![o].pc = pc, ![o].todo = @ \ {n}]
           \/ pc = "start" /\ caller[o].pc = "start"
              /\ caller' = [caller EXCEPT ![o].todo = @ \ {n}]
    PROVE  /\ caller' \in [Owners -> Caller] /\ caller'[o].pc = pc
           /\ caller'[o].todo = caller[o].todo \ {n}
           /\ caller'[o].lease = caller[o].lease
           /\ \A q \in Owners \ {o} : caller'[q] = caller[q]
<1>1. caller[o] \in Caller
  BY DEF TypeOK
<1> DEFINE c == [caller[o] EXCEPT !.pc = pc, !.todo = @ \ {n}]
<1>2. c \in Caller /\ c.pc = pc /\ c.todo = caller[o].todo \ {n} /\ c.lease = caller[o].lease
  BY <1>1 DEF Caller
<1>3. caller' = [caller EXCEPT ![o] = c]
  <2>1. CASE caller' = [caller EXCEPT ![o].pc = pc, ![o].todo = @ \ {n}]
    BY <1>1, <2>1 DEF TypeOK, Caller
  <2>2. CASE pc = "start" /\ caller[o].pc = "start"
             /\ caller' = [caller EXCEPT ![o].todo = @ \ {n}]
    <3>1. [caller[o] EXCEPT !.todo = @ \ {n}] = c
      BY <1>1, <2>2 DEF Caller
    <3>2. caller' = [caller EXCEPT ![o] = [caller[o] EXCEPT !.todo = @ \ {n}]]
      BY <2>2 DEF TypeOK
    <3> QED
      BY <3>1, <3>2
  <2> QED
    BY <2>1, <2>2
<1> HIDE DEF c
<1> QED
  BY <1>2, <1>3 DEF TypeOK

(* The first attempt of the supervisor waited for has ended.                *)
LEMMA WatchReadyKept ==
    ASSUME Inv, NEW o \in Owners, WatchReady(o) PROVE Inv'
<1> DEFINE n == NextToStart(o)
<1>0. TypeOK /\ RegistryInv /\ SupervisorInv /\ OwnerInv(o)
  BY DEF Inv, RegistryInv
<1>1. /\ caller[o].pc = "wait" /\ ~sup[n].first
      /\ caller' = [caller EXCEPT ![o].pc = "start", ![o].todo = @ \ {n}]
      /\ UNCHANGED <<tracker, registry, sup, stopping, starting, calls, owed, unread, counts>>
  BY DEF WatchReady
<1>2. sup[n].pc # "off"
  BY <1>0, <1>1 DEF OwnerInv, Waits
<1> HIDE DEF n
<1>3. /\ caller' \in [Owners -> Caller] /\ caller'[o].pc = "start"
      /\ caller'[o].todo = caller[o].todo \ {n} /\ caller'[o].lease = caller[o].lease
      /\ \A q \in Owners \ {o} : caller'[q] = caller[q]
  BY <1>0, <1>1, CallerMoves
<1> USE DEF tracker, registry, calls, counts
<1>4. TypeOK'
  BY <1>0, <1>1, <1>3 DEF TypeOK
<1>5. Attended(o)' /\ Told(o)'
  <2>1. Busy(o)'
    BY <1>3 DEF Busy
  <2> QED
    BY <2>1 DEF Attended, Told
<1>6. Waits(o)'
  BY <1>3 DEF Waits
<1>7. Leased(o)'
  BY <1>0, <1>1, <1>3 DEF OwnerInv, Leased
<1>8. Scheduled(o)'
  <2>1. ~Pending(sup[n])
    BY <1>1, <1>2 DEF Pending
  <2>2. \A a \in bindings[o].addrs : watches[a] # 0 /\ Pending(sup[watches[a]])
           => watches[a] \in caller[o].todo
    BY <1>0, <1>1 DEF OwnerInv, Scheduled
  <2> QED
    BY <1>1, <1>3, <2>1, <2>2 DEF Scheduled
<1>9. Proposes(sup')
  BY <1>0, <1>1, SupProposed
<1>10. \A q \in Owners \ {o} : Bystander(q) /\ StillTells(q)
  BY <1>0, <1>1, <1>3 DEF Bystander, StillTells, TypeOK
<1>11. unread' \subseteq unread
  BY <1>1
<1> QED
  BY <1>1, <1>4, <1>5, <1>6, <1>7, <1>8, <1>9, <1>10, <1>11, CallStep DEF OwnerInv

(* startAndWait starts the next supervisor of its list.                     *)
LEMMA StartAndWaitKept ==
    ASSUME Inv, NEW o \in Owners, StartAndWait(o) PROVE Inv'
<1> DEFINE n == NextToStart(o)
<1>0. TypeOK /\ RegistryInv /\ SupervisorInv /\ OwnerInv(o)
  BY DEF Inv, RegistryInv
<1>1. /\ caller[o].pc = "start" /\ caller[o].todo # {}
      /\ sup' = Started(n)
      /\ IF n \in Registered /\ sup'[n].first
         THEN caller' = [caller EXCEPT ![o].pc = "wait"]
         ELSE caller' = [caller EXCEPT ![o].todo = @ \ {n}]
      /\ UNCHANGED <<tracker, registry, stopping, starting, calls, owed, unread, counts>>
  BY DEF StartAndWait
<1>2. n \in caller[o].todo /\ n \in Slots
  BY <1>0, <1>1, NextIsOne
<1>3. /\ Proposes(sup')
      /\ \A j \in Slots : TellsOf(sup[j]) => TellsOf(sup'[j])
      /\ n \in Registered => sup'[n].pc # "off"
  BY <1>0, <1>1, <1>2, StartedProposed
<1>4. SlotTurn /\ NewRecovers(o)
  BY <1>0, <1>1, <1>3, QuietTurn
<1>5. CASE n \in Registered /\ sup'[n].first
  <2>1. caller[o] \in Caller
    BY <1>0 DEF TypeOK
  <2> DEFINE c == [caller[o] EXCEPT !.pc = "wait"]
  <2>2. c \in Caller /\ c.pc = "wait" /\ c.todo = caller[o].todo /\ c.lease = caller[o].lease
    BY <2>1 DEF Caller
  <2>3. caller' = [caller EXCEPT ![o] = c]
    BY <1>0, <1>1, <1>5 DEF TypeOK
  <2> HIDE DEF c
  <2>4. /\ caller' \in [Owners -> Caller] /\ caller'[o].pc = "wait"
        /\ caller'[o].todo = caller[o].todo /\ caller'[o].lease = caller[o].lease
        /\ \A q \in Owners \ {o} : caller'[q] = caller[q]
    BY <1>0, <2>2, <2>3 DEF TypeOK
  <2>5. Waits(o)'
    <3>1. NextToStart(o)' = n
      BY <1>0, <1>4, <2>4, TodoStays
    <3> QED
      BY <1>1, <1>3, <1>5, <2>4, <3>1 DEF Waits
  <2>6. Scheduled(o)'
    <3>1. SUFFICES ASSUME NEW a \in bindings'[o].addrs, watches'[a] # 0,
                          Pending(sup'[watches'[a]])
                   PROVE  watches'[a] \in caller[o].todo
      BY <2>4 DEF Scheduled, Pending
    <3>2. a \in Addresses /\ a \in bindings[o].addrs
      BY <1>0, <1>1 DEF TypeOK, registry
    <3>3. watches'[a] = watches[a] /\ Pending(sup[watches[a]])
      BY <1>0, <1>4, <3>1, <3>2, PendingBefore
    <3> QED
      BY <1>0, <1>1, <3>1, <3>2, <3>3 DEF OwnerInv, Scheduled
  <2> HIDE DEF n
  <2> USE DEF tracker, registry, calls, counts
  <2>7. TypeOK'
    BY <1>0, <1>1, <1>3, <2>4 DEF TypeOK, Proposes
  <2>8. Attended(o)' /\ Told(o)'
    <3>1. Busy(o)'
      BY <2>4 DEF Busy
    <3> QED
      BY <3>1 DEF Attended, Told
  <2>9. Leased(o)'
    BY <1>0, <1>1, <2>4 DEF OwnerInv, Leased
  <2>10. \A q \in Owners \ {o} : Bystander(q) /\ StillTells(q)
    BY <1>0, <1>1, <1>3, <2>4, RegisteredSlots DEF Bystander, StillTells
  <2> QED
    BY <1>1, <1>3, <2>5, <2>6, <2>7, <2>8, <2>9, <2>10, CallStep DEF OwnerInv
<1>6. CASE ~(n \in Registered /\ sup'[n].first)
  <2>1. /\ caller' \in [Owners -> Caller] /\ caller'[o].pc = "start"
        /\ caller'[o].todo = caller[o].todo \ {n} /\ caller'[o].lease = caller[o].lease
        /\ \A q \in Owners \ {o} : caller'[q] = caller[q]
    <3> HIDE DEF n
    <3> QED
      BY <1>0, <1>1, <1>6, CallerMoves
  <2> HIDE DEF n
  <2>2. Waits(o)'
    BY <2>1 DEF Waits
  <2>3. Scheduled(o)'
    <3>1. SUFFICES ASSUME NEW a \in bindings'[o].addrs, watches'[a] # 0,
                          Pending(sup'[watches'[a]])
                   PROVE  watches'[a] \in caller[o].todo \ {n}
      BY <2>1 DEF Scheduled, Pending
    <3>2. a \in Addresses /\ a \in bindings[o].addrs
      BY <1>0, <1>1 DEF TypeOK, registry
    <3>3. watches'[a] = watches[a] /\ Pending(sup[watches[a]])
      BY <1>0, <1>4, <3>1, <3>2, PendingBefore
    <3>4. watches[a] \in caller[o].todo /\ watches[a] \in Registered
      BY <1>0, <1>1, <3>1, <3>2, <3>3, RegisteredSlots DEF OwnerInv, Scheduled
    <3>5. watches[a] # n
      BY <1>3, <1>6, <3>1, <3>3, <3>4 DEF Pending
    <3> QED
      BY <3>3, <3>4, <3>5
  <2> USE DEF tracker, registry, calls, counts
  <2>7. TypeOK'
    BY <1>0, <1>1, <1>3, <2>1 DEF TypeOK, Proposes
  <2>8. Attended(o)' /\ Told(o)'
    <3>1. Busy(o)'
      BY <2>1 DEF Busy
    <3> QED
      BY <3>1 DEF Attended, Told
  <2>9. Leased(o)'
    BY <1>0, <1>1, <2>1 DEF OwnerInv, Leased
  <2>10. \A q \in Owners \ {o} : Bystander(q) /\ StillTells(q)
    BY <1>0, <1>1, <1>3, <2>1, RegisteredSlots DEF Bystander, StillTells
  <2> QED
    BY <1>1, <1>3, <2>2, <2>3, <2>7, <2>8, <2>9, <2>10, CallStep DEF OwnerInv
<1> QED
  BY <1>5, <1>6

(* A policy event leaves every owner to RemoveAll.                          *)
LEMMA InvalidateAllKept ==
    ASSUME Inv, InvalidateAll PROVE Inv'
<1>0. TypeOK /\ RegistryInv /\ SupervisorInv
  BY DEF Inv, RegistryInv
<1>1. /\ epoch < MaxEpoch /\ epoch' = epoch + 1 /\ revoking' = TRUE
      /\ UNCHANGED <<current, registry, sup, stopping, starting, caller, removing,
                     owed, unread, counts>>
  BY DEF InvalidateAll
<1>2. Proposes(sup')
  BY <1>0, <1>1, SupProposed
<1>3. CapacityShared' /\ SupervisorInv' /\ Deferrals'
  BY <1>0, <1>1, <1>2, QuietTurn
<1> USE DEF registry, counts
<1>4. UnreadIsBound'
  BY <1>0, <1>1 DEF RegistryInv, UnreadIsBound
<1>5. TypeOK'
  <2>1. epoch' \in 0 .. MaxEpoch
    BY <1>0, <1>1, RegistryAssumption DEF TypeOK
  <2> QED
    BY <1>0, <1>1, <2>1 DEF TypeOK
<1>6. ASSUME NEW o \in Owners PROVE OwnerInv(o)' /\ Told(o)'
  <2>1. OwnerInv(o)
    BY DEF Inv
  <2>2. NextToStart(o)' = NextToStart(o)
    BY <1>1 DEF NextToStart
  <2>3. Waits(o)'
    BY <1>1, <2>1, <2>2 DEF OwnerInv, Waits
  <2>4. Scheduled(o)'
    BY <1>1, <2>1 DEF OwnerInv, Scheduled
  <2>5. Leased(o)'
    BY <1>1, <2>1 DEF OwnerInv, Leased
  <2>6. Attended(o)' /\ Told(o)'
    BY <1>1 DEF Attended, Told, Busy
  <2> QED
    BY <2>3, <2>4, <2>5, <2>6 DEF OwnerInv
<1> QED
  BY <1>3, <1>4, <1>5, <1>6 DEF Inv, RegistryInv

(***************************************************************************)
(* The calls that hold the lock.                                            *)
(***************************************************************************)

(* A policy change removes every route.                                     *)
LEMMA RemoveAllKept ==
    ASSUME Inv, RemoveAll PROVE Inv'
<1>0. TypeOK /\ RegistryInv /\ SupervisorInv
  BY DEF Inv, RegistryInv
<1>1. /\ revoking' = FALSE
      /\ bindings' = [o \in Owners |-> Unbound]
      /\ watches' = [a \in Addresses |-> 0]
      /\ stopping' = stopping \cup Registered
      /\ unread' = {} /\ owed' = Owners
      /\ UNCHANGED <<tracker, deferred, sup, starting, caller, removing, counts>>
  BY DEF RemoveAll
<1> USE DEF tracker, counts
<1>2. TypeOK'
  <2>1. bindings' \in [Owners -> Binding]
    BY <1>1, UnboundBinding
  <2>2. stopping' \in SUBSET Slots
    BY <1>0, <1>1, RegisteredSlots DEF TypeOK
  <2> QED
    BY <1>0, <1>1, <2>1, <2>2 DEF TypeOK, Binding
<1>3. Registered' = {}
  BY <1>1 DEF Registered
<1>4. SlotTurn
  <2>1. \A i \in Slots : Advances(i, sup[i], sup[i]) /\ Contained(i, sup[i], stopping)
    BY <1>0, SupProposed DEF Proposes
  <2>2. \A i \in Slots : Contained(i, sup[i], stopping')
    BY <1>1, <2>1 DEF Contained
  <2> QED
    BY <1>0, <1>1, <2>1, <2>2 DEF SlotTurn, TypeOK
<1>5. WatchTurn
  BY <1>1 DEF WatchTurn
<1>6. Dropped'
  BY <1>3 DEF Dropped
<1>7. SupervisorInv'
  BY <1>0, <1>4, <1>5, <1>6, SupervisorsKept
<1>8. BoundIn(bindings') = {} /\ \A o \in Owners : bindings'[o].addrs = {} /\ bindings'[o].lease = NoLease
  BY <1>1, UnboundBinding DEF BoundIn
<1>9. CapacityShared'
  <2>1. {a \in Addresses : watches'[a] # 0} = {}
    BY <1>1
  <2>2. Cardinality({a \in Addresses : watches'[a] # 0}) = 0
    BY <2>1, FS_EmptySet
  <2>3. 0 <= Capacity
    BY RegistryAssumption
  <2> QED
    BY <2>1, <2>2, <2>3, <1>8 DEF CapacityShared, BoundIn
<1>10. Deferrals' /\ UnreadIsBound'
  BY <1>1, <1>8 DEF Deferrals, UnreadIsBound, BoundIn
<1>11. ASSUME NEW o \in Owners PROVE OwnerInv(o)' /\ Told(o)'
  <2>1. OwnerInv(o)
    BY DEF Inv
  <2>2. NextToStart(o)' = NextToStart(o)
    BY <1>1 DEF NextToStart
  <2>3. Waits(o)'
    BY <1>1, <2>1, <2>2 DEF OwnerInv, Waits
  <2>4. Scheduled(o)' /\ Attended(o)' /\ Told(o)'
    BY <1>1, <1>8 DEF Scheduled, Attended, Told
  <2>5. Leased(o)'
    BY <1>1, <1>8 DEF Leased
  <2> QED
    BY <2>3, <2>4, <2>5 DEF OwnerInv
<1> QED
  BY <1>2, <1>7, <1>9, <1>10, <1>11 DEF Inv, RegistryInv

(* A call of one owner that takes bindings out.  The owner rests afterwards *)
(* and is owed another attempt or bound to nothing, or it is a bystander    *)
(* too.                                                                     *)
LEMMA RemovalCall ==
    ASSUME Inv, NEW o \in Owners, NEW kept, Reduced(kept), RemovalSection(kept, sup),
           caller' \in [Owners -> Caller],
           current' \in [Owners -> 0 .. MaxGeneration], epoch' = epoch,
           removing' \in SUBSET Owners, revoking' = revoking, owed' \in SUBSET Owners,
           lifecycle' = lifecycle, changes' = changes, failures' \in 0 .. MaxFailures,
           \A q \in Owners \ {o} : /\ caller'[q] = caller[q] /\ current'[q] = current[q]
                                   /\ q \in owed \cup removing => q \in owed' \cup removing',
           \/ /\ caller'[o].pc \in {"idle", "absent"}
              /\ o \in owed' \/ kept[o].addrs = {}
           \/ /\ caller'[o] = caller[o] /\ current'[o] = current[o]
              /\ o \in owed \cup removing => o \in owed' \cup removing'
    PROVE  Inv'
<1>0. TypeOK /\ RegistryInv /\ SupervisorInv
  BY DEF Inv, RegistryInv
<1>1. Proposes(sup)
  BY <1>0, SupProposed
<1>2. /\ SlotTurn /\ WatchTurn
      /\ RegistryInv'
      /\ \A q \in Owners : NewRecovers(q)
      /\ bindings' = kept /\ bindings' \in [Owners -> Binding]
      /\ deferred' \in SUBSET Addresses
      /\ stopping' \in SUBSET Slots /\ starting' \in SUBSET Slots
      /\ unread' \in SUBSET (Owners \X Addresses) /\ unread' \subseteq unread
      /\ \A i \in Slots \ FreeSlots : sup'[i] = sup[i]
  BY <1>0, <1>1, RemovalTurn
<1>3. TypeOK'
  BY <1>0, <1>2 DEF TypeOK, SlotTurn, WatchTurn, Binding
<1>4. ASSUME NEW q \in Owners, caller'[q] = caller[q], current'[q] = current[q],
             q \in owed \cup removing => q \in owed' \cup removing'
      PROVE  OwnerInv(q)' /\ Told(q)'
  <2>1. Bystander(q)
    BY <1>2, <1>4, RemovalBystander
  <2>2. OwnerInv(q) /\ Told(q)
    BY DEF Inv
  <2>3. OwnerInv(q)'
    BY <1>0, <1>2, <2>1, <2>2, BystandersKept
  <2>4. StillTells(q)
    BY <1>0, <1>2, RegisteredSlots DEF StillTells
  <2>5. Told(q)'
    BY <1>0, <1>2, <2>1, <2>2, <2>4, BystandersTold
  <2> QED
    BY <2>3, <2>5
<1>5. CASE caller'[o].pc \in {"idle", "absent"} /\ (o \in owed' \/ kept[o].addrs = {})
  <2>1. Waits(o)' /\ Scheduled(o)' /\ Leased(o)'
    BY <1>5 DEF Waits, Scheduled, Leased
  <2>2. Attended(o)' /\ Told(o)'
    <3>1. CASE o \in owed'
      <4>1. Busy(o)'
        BY <3>1 DEF Busy
      <4> QED
        BY <4>1 DEF Attended, Told
    <3>2. CASE kept[o].addrs = {}
      <4>1. \A a \in Addresses : <<o, a>> \notin unread'
        BY <1>2, <3>2 DEF RegistryInv, UnreadIsBound
      <4> QED
        BY <1>2, <3>2, <4>1 DEF Attended, Told
    <3> QED
      BY <1>5, <3>1, <3>2
  <2> QED
    BY <1>2, <1>3, <1>4, <2>1, <2>2 DEF Inv, OwnerInv
<1>6. CASE /\ caller'[o] = caller[o] /\ current'[o] = current[o]
           /\ o \in owed \cup removing => o \in owed' \cup removing'
  BY <1>2, <1>3, <1>4, <1>6 DEF Inv
<1> QED
  BY <1>5, <1>6

(* The deletion of a Facet removes its routes.                              *)
LEMMA RemoveOwnerKept ==
    ASSUME Inv, NEW o \in Owners, RemoveOwner(o) PROVE Inv'
<1>0. TypeOK
  BY DEF Inv
<1>1. /\ RemovalSection(Without(o), sup)
      /\ removing' = removing \ {o} /\ owed' = owed \cup {o}
      /\ UNCHANGED <<tracker, caller, revoking, counts>>
  BY DEF RemoveOwner
<1>2. Reduced(Without(o))
  BY <1>0, WithoutReduced
<1>3. \A q \in Owners : q \in owed \cup removing => q \in owed' \cup removing'
  BY <1>1
<1>4. /\ caller' \in [Owners -> Caller] /\ current' \in [Owners -> 0 .. MaxGeneration]
      /\ removing' \in SUBSET Owners /\ owed' \in SUBSET Owners
      /\ failures' \in 0 .. MaxFailures
  BY <1>0, <1>1 DEF TypeOK, tracker, counts
<1> QED
  BY <1>1, <1>2, <1>3, <1>4, RemovalCall DEF tracker, counts

(* A reconcile that finds no Facet removes its routes.                      *)
LEMMA RemoveGoneKept ==
    ASSUME Inv, NEW o \in Owners, RemoveGone(o) PROVE Inv'
<1>0. TypeOK
  BY DEF Inv
<1>1. /\ RemovalSection(Without(o), sup)
      /\ caller' = [caller EXCEPT ![o] = [Resting EXCEPT !.pc = "absent"]]
      /\ UNCHANGED <<tracker, calls, owed, counts>>
  BY DEF RemoveGone
<1>2. Reduced(Without(o)) /\ Without(o)[o].addrs = {}
  BY <1>0, WithoutReduced, UnboundBinding
<1>3. /\ caller' \in [Owners -> Caller] /\ caller'[o].pc = "absent"
      /\ \A q \in Owners \ {o} : caller'[q] = caller[q]
  <2>1. [Resting EXCEPT !.pc = "absent"] \in Caller
        /\ [Resting EXCEPT !.pc = "absent"].pc = "absent"
    BY RestingCaller DEF Caller
  <2> QED
    BY <1>0, <1>1, <2>1 DEF TypeOK
<1>4. /\ current' \in [Owners -> 0 .. MaxGeneration]
      /\ \A q \in Owners \ {o} : current'[q] = current[q]
  BY <1>0, <1>1 DEF TypeOK, tracker
<1>5. /\ removing' \in SUBSET Owners /\ owed' \in SUBSET Owners /\ failures' \in 0 .. MaxFailures
      /\ revoking' = revoking /\ removing' = removing /\ owed' = owed
      /\ lifecycle' = lifecycle /\ changes' = changes /\ epoch' = epoch
  BY <1>0, <1>1 DEF TypeOK, calls, counts, tracker
<1> QED
  BY <1>1, <1>2, <1>3, <1>4, <1>5, RemovalCall

(* ... and then marks it absent: no lease of it is current any more.        *)
LEMMA MarkAbsentKept ==
    ASSUME Inv, NEW o \in Owners, MarkAbsent(o) PROVE Inv'
<1>0. TypeOK /\ RegistryInv /\ SupervisorInv /\ OwnerInv(o)
  BY DEF Inv, RegistryInv
<1>1. /\ current' = [current EXCEPT ![o] = 0]
      /\ caller' = [caller EXCEPT ![o] = Resting]
      /\ UNCHANGED <<epoch, registry, sup, stopping, starting, calls, owed, unread, counts>>
  BY DEF MarkAbsent
<1> USE DEF registry, calls, counts
<1>2. /\ caller' \in [Owners -> Caller] /\ caller'[o].pc = "idle"
      /\ \A q \in Owners \ {o} : caller'[q] = caller[q]
  BY <1>0, <1>1, RestingCaller DEF TypeOK
<1>3. /\ current' \in [Owners -> 0 .. MaxGeneration] /\ current'[o] = 0
      /\ \A q \in Owners \ {o} : current'[q] = current[q]
  BY <1>0, <1>1, RegistryAssumption DEF TypeOK
<1>4. TypeOK'
  BY <1>0, <1>1, <1>2, <1>3 DEF TypeOK
<1>5. Attended(o)' /\ Told(o)'
  <2>1. ~(IsCurrent(o, bindings[o].lease)')
    BY <1>3 DEF IsCurrent
  <2> QED
    BY <2>1 DEF Attended, Told
<1>6. Waits(o)' /\ Scheduled(o)' /\ Leased(o)'
  BY <1>2 DEF Waits, Scheduled, Leased
<1>7. Proposes(sup')
  BY <1>0, <1>1, SupProposed
<1>8. \A q \in Owners \ {o} : Bystander(q) /\ StillTells(q)
  BY <1>0, <1>1, <1>2, <1>3 DEF Bystander, StillTells, TypeOK
<1>9. unread' \subseteq unread
  BY <1>1
<1> QED
  BY <1>1, <1>4, <1>5, <1>6, <1>7, <1>8, <1>9, CallStep DEF OwnerInv

(* startAndWait gives up: its context is done.                              *)
LEMMA WaitEndsKept ==
    ASSUME Inv, NEW o \in Owners, WaitEnds(o) PROVE Inv'
<1> DEFINE kept == IF IsCurrent(o, bindings[o].lease) THEN bindings ELSE Without(o)
<1>0. TypeOK /\ OwnerInv(o)
  BY DEF Inv
<1>1. /\ caller[o].pc = "wait"
      /\ IF IsCurrent(o, caller[o].lease)
         THEN Fail /\ owed' = owed \cup {o}
         ELSE UNCHANGED <<failures, owed>>
      /\ RemovalSection(kept, sup)
      /\ caller' = [caller EXCEPT ![o] = Resting]
      /\ UNCHANGED <<tracker, calls, lifecycle, changes>>
  BY DEF WaitEnds
<1>2. Reduced(kept)
  <2>1. Reduced(bindings)
    BY <1>0 DEF Reduced, TypeOK, Binding
  <2> QED
    BY <1>0, <2>1, WithoutReduced
<1>3. /\ caller' \in [Owners -> Caller] /\ caller'[o].pc = "idle"
      /\ \A q \in Owners \ {o} : caller'[q] = caller[q]
  BY <1>0, <1>1, RestingCaller DEF TypeOK
<1>4. o \in owed' \/ kept[o].addrs = {}
  <2>1. CASE IsCurrent(o, caller[o].lease)
    BY <1>1, <2>1
  <2>2. CASE ~IsCurrent(o, caller[o].lease)
    <3>1. ~IsCurrent(o, bindings[o].lease)
      BY <1>0, <1>1, <2>2, OvertakenIsUnbound DEF OwnerInv
    <3> QED
      BY <1>0, <3>1, WithoutReduced, UnboundBinding
  <2> QED
    BY <2>1, <2>2
<1>5. /\ removing' \in SUBSET Owners /\ owed' \in SUBSET Owners /\ failures' \in 0 .. MaxFailures
      /\ owed \subseteq owed' /\ removing' = removing
  <2>1. failures' \in 0 .. MaxFailures
    BY <1>0, <1>1, RegistryAssumption DEF TypeOK, Fail
  <2> QED
    BY <1>0, <1>1, <2>1 DEF TypeOK, calls
<1>6. /\ current' \in [Owners -> 0 .. MaxGeneration] /\ current' = current /\ epoch' = epoch
      /\ revoking' = revoking /\ lifecycle' = lifecycle /\ changes' = changes
  BY <1>0, <1>1 DEF TypeOK, tracker, calls
<1> HIDE DEF kept
<1> QED
  BY <1>1, <1>2, <1>3, <1>4, <1>5, <1>6, RemovalCall

(* Replace.                                                                 *)
LEMMA ReplaceKept ==
    ASSUME Inv, NEW o \in Owners, Replace(o) PROVE Inv'
<1>0. TypeOK /\ RegistryInv /\ SupervisorInv /\ OwnerInv(o)
  BY DEF Inv, RegistryInv
<1> DEFINE lease == caller[o].lease
           Kept(addrs) == IF bindings[o].lease = lease
                          THEN [bindings EXCEPT ![o].addrs = @ \cap addrs]
                          ELSE Without(o)
           New(addrs) == [bindings EXCEPT
                            ![o] = IF addrs = {} THEN Unbound
                                   ELSE [lease |-> lease, addrs |-> addrs]]
<1>1. PICK addrs \in Selections :
        /\ SlotsSuffice(Kept(addrs), New(addrs))
        /\ Section(Kept(addrs), New(addrs), NewSlots(Kept(addrs), New(addrs)), sup)
        /\ deferred' = (StillDeferred(Kept(addrs))
                          \ DOMAIN NewSlots(Kept(addrs), New(addrs)))
                       \cup {a \in addrs : watches'[a] = 0}
        /\ caller' = [caller EXCEPT
             ![o].pc = "start",
             ![o].todo = {watches'[a] : a \in addrs} \ {0}]
  BY DEF Replace
<1>2. /\ caller[o].pc = "replace" /\ IsCurrent(o, lease)
      /\ UNCHANGED <<tracker, starting, calls, owed, counts>>
  BY DEF Replace
<1>3. addrs \subseteq Addresses /\ lease \in Lease /\ bindings[o] \in Binding
      /\ bindings \in [Owners -> Binding] /\ caller[o] \in Caller
  BY <1>0, RegistryAssumption DEF TypeOK, Caller, Binding
<1> DEFINE kept == Kept(addrs)
           new == New(addrs)
           slot == NewSlots(kept, new)
           up == Promoted(kept, new)
           w == WatchesKept(kept)
<1>4. /\ new \in [Owners -> Binding]
      /\ new[o].addrs = addrs /\ new[o].lease \in {lease, NoLease}
      /\ \A q \in Owners \ {o} : new[q] = bindings[q]
  <2>1. [lease |-> lease, addrs |-> addrs] \in Binding
    BY <1>3 DEF Binding
  <2> QED
    BY <1>3, <2>1, UnboundBinding
<1>5. /\ kept[o].addrs \subseteq addrs /\ kept[o].addrs \subseteq bindings[o].addrs
      /\ \A q \in Owners \ {o} : kept[q] = bindings[q]
  <2>1. CASE bindings[o].lease = lease
    <3>1. kept[o] = [bindings[o] EXCEPT !.addrs = @ \cap addrs]
      BY <1>3, <2>1
    <3>2. kept[o].addrs = bindings[o].addrs \cap addrs
      BY <1>3, <3>1 DEF Binding
    <3> QED
      BY <1>3, <2>1, <3>2
  <2>2. CASE bindings[o].lease # lease
    BY <1>0, <2>2, WithoutReduced, UnboundBinding
  <2> QED
    BY <2>1, <2>2
<1>6. /\ SlotsSuffice(kept, new) /\ Section(kept, new, slot, sup)
      /\ deferred' = (StillDeferred(kept) \ DOMAIN slot)
                     \cup {a \in addrs : watches'[a] = 0}
  BY <1>1
<1> HIDE DEF kept, new, Kept, New
<1>7. bindings' = new
  BY <1>6 DEF Section
<1>8. /\ BoundIn(kept) \subseteq BoundIn(new) /\ BoundIn(kept) \subseteq BoundIn(bindings)
      /\ BoundIn(kept) \subseteq Addresses /\ BoundIn(new) \subseteq Addresses
      /\ BoundIn(new) \subseteq BoundIn(kept) \cup addrs
  <2>1. \A q \in Owners : kept[q].addrs \subseteq new[q].addrs /\ kept[q].addrs \subseteq bindings[q].addrs
                           /\ new[q].addrs \subseteq kept[q].addrs \cup addrs
    BY <1>4, <1>5
  <2>2. BoundIn(new) \subseteq Addresses
    BY <1>4 DEF BoundIn, Binding
  <2> QED
    BY <2>1, <2>2 DEF BoundIn
<1>9. Proposes(sup) /\ sup \in [Slots -> Supervisor]
  BY <1>0, SupProposed DEF TypeOK
<1>10. /\ up \subseteq Addresses
       /\ \A a \in up :
            /\ watches'[a] = slot[a] /\ slot[a] \in FreeSlots
            /\ sup'[slot[a]] = NewSupervisor(a, a \in StillDeferred(kept))
            /\ w[a] = 0 /\ a \in BoundIn(new)
       /\ \A a \in Addresses \ up : watches'[a] = w[a]
       /\ \A i \in Slots \ FreeSlots : sup'[i] = sup[i]
  BY <1>0, <1>4, <1>6, <1>9, SectionFields
<1>11. /\ SlotTurn /\ WatchTurn /\ Dropped'
       /\ stopping' \in SUBSET Slots
       /\ unread' \in SUBSET (Owners \X Addresses)
       /\ \A p \in unread' : p \in unread /\ p[2] \in bindings'[p[1]].addrs
  BY <1>0, <1>4, <1>6, <1>9, SectionTurn DEF SupervisorInv, Proposes
<1>12. CapacityShared'
  BY <1>0, <1>4, <1>6, <1>8, <1>9, SectionCapacity DEF RegistryInv
<1>13. SupervisorInv'
  BY <1>0, <1>11, SupervisorsKept
<1>14. DOMAIN slot = up
  BY <1>6, SlotsAreFree
<1>15. \A a \in BoundIn(kept) : w[a] = watches[a] /\ (w[a] = 0 => a \in deferred)
  BY <1>0, <1>8 DEF WatchesKept, RegistryInv, Deferrals
<1> HIDE DEF up, slot, w
<1>16. Deferrals'
  <2>1. SUFFICES ASSUME NEW a \in BoundIn(new), watches'[a] = 0 PROVE a \in deferred'
    BY <1>7 DEF Deferrals, BoundIn
  <2>2. CASE a \in addrs
    BY <1>6, <2>1, <2>2
  <2>3. CASE a \notin addrs
    <3>1. a \in BoundIn(kept) /\ a \in Addresses
      BY <1>8, <2>1, <2>3
    <3>2. a \notin up
      BY <1>0, <1>10, <2>1, RegisteredSlots
    <3> QED
      BY <1>6, <1>10, <1>14, <1>15, <2>1, <3>1, <3>2 DEF StillDeferred
  <2> QED
    BY <2>2, <2>3
<1>17. UnreadIsBound'
  BY <1>11 DEF UnreadIsBound
<1>18. RegistryInv'
  BY <1>12, <1>13, <1>16, <1>17 DEF RegistryInv
<1> DEFINE todo == {watches'[a] : a \in addrs} \ {0}
<1>19. todo \subseteq Slots
  BY <1>3, <1>11 DEF WatchTurn
<1>20. /\ caller' \in [Owners -> Caller] /\ caller'[o].pc = "start"
       /\ caller'[o].todo = todo /\ caller'[o].lease = lease
       /\ \A q \in Owners \ {o} : caller'[q] = caller[q]
  <2> DEFINE c == [caller[o] EXCEPT !.pc = "start", !.todo = todo]
  <2>1. caller' = [caller EXCEPT ![o] = c]
    BY <1>0, <1>1, <1>3 DEF TypeOK, Caller
  <2> HIDE DEF todo
  <2>2. c \in Caller /\ c.pc = "start" /\ c.todo = todo /\ c.lease = lease
    BY <1>3, <1>19 DEF Caller
  <2> HIDE DEF c
  <2> QED
    BY <1>0, <2>1, <2>2 DEF TypeOK
<1> USE DEF tracker, calls, counts
<1>21. TypeOK'
  <2>1. deferred' \in SUBSET Addresses
    BY <1>0, <1>3, <1>6 DEF TypeOK, StillDeferred
  <2> QED
    BY <1>0, <1>2, <1>4, <1>7, <1>11, <1>20, <2>1 DEF TypeOK, SlotTurn, WatchTurn, Binding
<1>22. ASSUME NEW q \in Owners \ {o} PROVE OwnerInv(q)' /\ Told(q)'
  <2>1. Bystander(q)
    BY <1>2, <1>4, <1>7, <1>20 DEF Bystander
  <2>2. NewRecovers(q)
    <3>1. SUFFICES ASSUME NEW a \in bindings'[q].addrs, watches'[a] \notin {watches[a], 0}
                   PROVE  Born(a, watches'[a]) /\ sup'[watches'[a]].recovery
      BY DEF NewRecovers
    <3>2. a \in BoundIn(kept) /\ a \in Addresses
      <4>1. a \in kept[q].addrs
        BY <1>4, <1>5, <1>7, <3>1
      <4> QED
        BY <4>1, <1>8 DEF BoundIn
    <3>3. a \in up
      BY <3>1, <3>2, <1>10, <1>15
    <3>4. a \in StillDeferred(kept) /\ (a \in StillDeferred(kept)) = TRUE
      BY <3>2, <3>3, <1>10, <1>15 DEF StillDeferred
    <3>5. sup'[watches'[a]] = NewSupervisor(a, TRUE) /\ watches'[a] \in FreeSlots
      BY <3>3, <3>4, <1>10
    <3>6. NewSupervisor(a, TRUE).recovery
      BY <3>2, NewIsSupervisor
    <3> QED
      BY <3>5, <3>6 DEF Born
  <2>3. OwnerInv(q) /\ Told(q)
    BY DEF Inv
  <2>4. OwnerInv(q)'
    BY <1>0, <1>11, <2>1, <2>2, <2>3, BystandersKept
  <2>5. StillTells(q)
    BY <1>0, <1>10, RegisteredSlots DEF StillTells
  <2>6. Told(q)'
    BY <1>0, <1>11, <2>1, <2>3, <2>5, BystandersTold
  <2> QED
    BY <2>4, <2>6
<1>23. OwnerInv(o)' /\ Told(o)'
  <2>1. Busy(o)'
    BY <1>20 DEF Busy
  <2>2. Attended(o)' /\ Told(o)'
    BY <2>1 DEF Attended, Told
  <2>3. Waits(o)'
    BY <1>20 DEF Waits
  <2>4. lease.gen = current[o] /\ lease.epoch = epoch
    BY <1>2 DEF IsCurrent
  <2>5. Leased(o)'
    <3> HIDE DEF lease
    <3> QED
      BY <1>2, <1>4, <1>7, <1>20, <2>4 DEF Leased
  <2>6. Scheduled(o)'
    BY <1>4, <1>7, <1>20 DEF Scheduled
  <2> QED
    BY <2>2, <2>3, <2>5, <2>6 DEF OwnerInv
<1> QED
  BY <1>18, <1>21, <1>22, <1>23 DEF Inv

(***************************************************************************)
(* The theorems.                                                            *)
(***************************************************************************)

(* The initial states satisfy the invariant.                                *)
LEMMA InitInv == Init => Inv
<1> SUFFICES ASSUME Init PROVE Inv
  OBVIOUS
<1> DEFINE first == CHOOSE a \in Addresses : TRUE
<1>1. first \in Addresses
  BY RegistryAssumption
<1> HIDE DEF first
<1>2. /\ NewSupervisor(first, FALSE) \in Supervisor
      /\ NewSupervisor(first, FALSE).pc = "off" /\ ~NewSupervisor(first, FALSE).first
  BY <1>1, NewIsSupervisor
<1>3. sup = [i \in Slots |-> NewSupervisor(first, FALSE)]
  BY DEF Init, first
<1>4. /\ \A o \in Owners : bindings[o].addrs = {} /\ bindings[o].lease = NoLease
      /\ bindings \in [Owners -> Binding]
  BY UnboundBinding DEF Init
<1>5. caller \in [Owners -> Caller] /\ \A o \in Owners : caller[o].pc = "idle"
  BY RestingCaller DEF Init
<1>6. TypeOK
  <2>1. /\ 0 \in 0 .. MaxEpoch /\ 0 \in 0 .. MaxLifecycle /\ 0 \in 0 .. MaxChanges
        /\ 0 \in 0 .. MaxFailures /\ 1 \in 0 .. MaxGeneration
    BY RegistryAssumption
  <2>2. current \in [Owners -> 0 .. MaxGeneration]
    BY <2>1 DEF Init
  <2> QED
    BY <1>2, <1>3, <1>4, <1>5, <2>1, <2>2 DEF Init, TypeOK, Binding
<1>7. Registered = {} /\ BoundIn(bindings) = {}
  BY <1>4 DEF Init, Registered, BoundIn
<1>8. CapacityShared
  <2>1. {a \in Addresses : watches[a] # 0} = {}
    BY DEF Init
  <2>2. Cardinality({a \in Addresses : watches[a] # 0}) = 0
    BY <2>1, FS_EmptySet
  <2>3. 0 <= Capacity
    BY RegistryAssumption
  <2> QED
    BY <1>7, <2>1, <2>2, <2>3 DEF CapacityShared
<1>9. SupervisorInv
  BY <1>2, <1>3, <1>7
  DEF SupervisorInv, Owned, Dropped, NoLeakedSupervisor, Alive, FirstAttempts,
      FirstIsOpen, Recoveries, Init
<1>10. Deferrals /\ UnreadIsBound
  BY <1>7 DEF Deferrals, UnreadIsBound, Init
<1>11. \A o \in Owners : OwnerInv(o) /\ Told(o)
  BY <1>4, <1>5 DEF OwnerInv, Waits, Leased, Scheduled, Attended, Told, Init
<1> QED
  BY <1>6, <1>8, <1>9, <1>10, <1>11 DEF Inv, RegistryInv

(* A step that changes nothing.                                             *)
LEMMA StutterKept ==
    ASSUME Inv, UNCHANGED vars PROVE Inv'
<1>1. UNCHANGED <<tracker, registry, stopping, caller, calls, owed, unread, lifecycle, changes>>
      /\ sup' = sup /\ starting' = starting /\ failures' = failures
  BY DEF vars, counts
<1>2. Proposes(sup') /\ starting' \in SUBSET Slots /\ failures' \in 0 .. MaxFailures
  BY <1>1, SupProposed DEF Inv, RegistryInv, TypeOK
<1>3. \A o \in Owners : StillTells(o)
  BY <1>1 DEF StillTells
<1> QED
  BY <1>1, <1>2, <1>3, QuietStep

(* Every step keeps it, action by action.                                   *)
LEMMA InvInductive == Inv /\ [Next]_vars => Inv'
<1> SUFFICES ASSUME Inv, [Next]_vars PROVE Inv'
  OBVIOUS
<1>1. ASSUME NEW o \in Owners, ObserveFacet(o) \/ RemoveOwner(o) \/ ReconcileStep(o)
      PROVE  Inv'
  BY <1>1, ObserveFacetKept, RemoveOwnerKept, BeginKept, RemoveGoneKept,
     MarkAbsentKept, ReplaceKept, ReplaceStaleKept, StartAndWaitKept, WatchReadyKept, WaitEndsKept, EvaluateKept
  DEF ReconcileStep
<1>2. ASSUME NEW a \in Addresses, ChangeSource(a) PROVE Inv'
  BY <1>2, ChangeSourceKept
<1>3. ASSUME NEW i \in Slots, StopSupervisor(i) \/ StartSupervisor(i) \/ RunStep(i)
      PROVE  Inv'
  BY <1>3, StopSupervisorKept, StartSupervisorKept, RunPermitKept, WatchOpensKept,
     WatchFailsKept, EstablishmentTimeoutKept, RunOpenedKept, RunRecoverKept,
     ConsumeEventKept, StreamEndsKept, RunReportKept, RunRecheckKept, RunBackoffKept
  DEF RunStep
<1>4. CASE InvalidateAll
  BY <1>4, InvalidateAllKept
<1>5. CASE RemoveAll
  BY <1>5, RemoveAllKept
<1>6. CASE UNCHANGED vars
  BY <1>6, StutterKept
<1> QED
  BY <1>1, <1>2, <1>3, <1>4, <1>5, <1>6 DEF Next

(* So it holds in every reachable state.                                    *)
LEMMA SpecInv == Spec => []Inv
BY InitInv, InvInductive, PTL DEF Spec

(* What the invariant says of the states.                                   *)
LEMMA InvImplies ==
    ASSUME Inv
    PROVE  WaitersAreReleased /\ ChangesAreKept
<1>0. TypeOK /\ RegistryInv /\ SupervisorInv
  BY DEF Inv, RegistryInv
<1>1. WaitersAreReleased
  <2>1. SUFFICES ASSUME NEW o \in Owners, caller[o].pc = "wait", sup[NextToStart(o)].first
                 PROVE  sup[NextToStart(o)].pc \in {"permit", "watch"}
    BY DEF WaitersAreReleased
  <2>2. caller[o].todo # {}
    BY <2>1 DEF Inv, OwnerInv, Waits
  <2>3. NextToStart(o) \in Slots
    BY <1>0, <2>2, NextIsOne
  <2> QED
    BY <1>0, <2>1, <2>3 DEF SupervisorInv, FirstAttempts, FirstIsOpen
<1>2. ChangesAreKept
  <2>1. SUFFICES ASSUME NEW p \in unread, IsCurrent(p[1], bindings[p[1]].lease),
                        ~(p[1] \in owed \cup removing), ~revoking,
                        caller[p[1]].pc = "idle"
                 PROVE  IF watches[p[2]] = 0 THEN p[2] \in deferred
                        ELSE Tells(watches[p[2]])
    BY DEF ChangesAreKept
  <2>2. p[1] \in Owners /\ p[2] \in Addresses /\ p = <<p[1], p[2]>>
    BY <1>0 DEF TypeOK
  <2>3. p[2] \in bindings[p[1]].addrs
    BY <1>0 DEF RegistryInv, UnreadIsBound
  <2>4. CASE watches[p[2]] = 0
    <3>1. p[2] \in BoundIn(bindings)
      BY <2>2, <2>3 DEF BoundIn
    <3> QED
      BY <1>0, <2>4, <3>1 DEF RegistryInv, Deferrals
  <2>5. CASE watches[p[2]] # 0
    <3>1. TellsOf(sup[watches[p[2]]])
      BY <2>1, <2>2, <2>5 DEF Inv, Told, Busy
    <3> QED
      BY <2>5, <3>1 DEF Tells, TellsOf
  <2> QED
    BY <2>4, <2>5
<1> QED
  BY <1>1, <1>2

(* The registry, the supervisors and the calls always have their types.     *)
THEOREM TypeCorrect == Spec => []TypeOK
<1>1. Inv => TypeOK
  BY DEF Inv
<1> QED
  BY <1>1, SpecInv, PTL

(* maxActiveWatches is never exceeded and never left unused while an        *)
(* address lacks its supervisor: ensureWatchCapacityLocked, after every     *)
(* binding taken out or put in.                                             *)
THEOREM CapacityIsShared == Spec => []CapacityShared
<1>1. Inv => CapacityShared
  BY DEF Inv, RegistryInv
<1> QED
  BY <1>1, SpecInv, PTL

(* A supervisor's goroutine that the registry no longer holds has been      *)
(* cancelled or is about to be: startSupervisor and stop() may race.        *)
THEOREM NoSupervisorLeaks == Spec => []NoLeakedSupervisor
<1>1. Inv => NoLeakedSupervisor
  BY DEF Inv, RegistryInv, SupervisorInv
<1> QED
  BY <1>1, SpecInv, PTL

(* startAndWait returns: the first attempt that Replace waits for is being  *)
(* made, or has released it.                                                *)
THEOREM WaitersReleased == Spec => []WaitersAreReleased
<1>1. Inv => WaitersAreReleased
  BY InvImplies
<1> QED
  BY <1>1, SpecInv, PTL

(* routeEvent, takeRecoveryPending and r.deferred together forget no change *)
(* of a source.                                                             *)
THEOREM NoChangeIsLost == Spec => []ChangesAreKept
<1>1. Inv => ChangesAreKept
  BY InvImplies
<1> QED
  BY <1>1, SpecInv, PTL

=============================================================================
