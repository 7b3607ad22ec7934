----------------------- MODULE DiscoveryCache_proofs -----------------------
(***************************************************************************)
(* Proofs about DiscoveryCache, for any number of keys and callers and any  *)
(* capacity.  Type correctness with the bound on the cache comes first; the *)
(* other invariants are proved together, since an answer is fresh only      *)
(* because a refresh of the current version is the registered one, which    *)
(* every invalidation of its key finds and turns into one of an old version. *)
(***************************************************************************)
EXTENDS DiscoveryCache, FiniteSetTheorems, TLAPS

(* One more element makes a set at most one larger.                          *)
LEMMA AddOne ==
    ASSUME NEW S, NEW x, IsFiniteSet(S)
    PROVE  /\ IsFiniteSet(S \cup {x})
           /\ Cardinality(S \cup {x}) \in Nat
           /\ Cardinality(S \cup {x}) <= Cardinality(S) + 1
<1>1. Cardinality(S) \in Nat
  BY FS_CardinalityType
<1>2. /\ IsFiniteSet(S \cup {x})
      /\ Cardinality(S \cup {x}) = IF x \in S THEN Cardinality(S) ELSE Cardinality(S) + 1
  BY FS_AddElement
<1> QED BY <1>1, <1>2

(* The cache holds no more entries than Cached counts: a change of one key   *)
(* adds at most that key.                                                    *)
LEMMA CachedBounded ==
    ASSUME TypeOK, NEW new \in [Keys -> Entry], NEW k \in Keys,
           \A j \in Keys \ {k} : new[j].present => cache[j].present,
           \/ ~new[k].present
           \/ cache[k].present
           \/ Cardinality(Cached \ {k}) < Capacity
           \/ \E v \in Cached \ {k} : ~new[v].present
    PROVE  Cardinality({j \in Keys : new[j].present}) <= Capacity
<1> DEFINE N == {j \in Keys : new[j].present}
<1>1. IsFiniteSet(Keys) /\ Capacity \in Nat
  BY CacheAssumption
<1>2. IsFiniteSet(Cached) /\ Cardinality(Cached) \in Nat
      /\ Cardinality(Cached) <= Capacity
  BY <1>1, FS_Subset, FS_CardinalityType DEF Cached, TypeOK
<1>3. \A S, T : IsFiniteSet(T) /\ S \subseteq T => Cardinality(S) <= Cardinality(T)
                                                  /\ Cardinality(S) \in Nat
                                                  /\ IsFiniteSet(S)
                                                  /\ Cardinality(T) \in Nat
  BY FS_Subset, FS_CardinalityType
<1>4. CASE ~new[k].present \/ cache[k].present
  <2>1. N \subseteq Cached
    BY <1>4 DEF Cached
  <2>2. Cardinality(N) <= Cardinality(Cached) /\ Cardinality(N) \in Nat
    BY <2>1, <1>2, <1>3
  <2> QED BY <2>2, <1>1, <1>2
<1>5. CASE Cardinality(Cached \ {k}) < Capacity
  <2>1. N \subseteq (Cached \ {k}) \cup {k}
    BY DEF Cached
  <2>2. IsFiniteSet(Cached \ {k}) /\ Cardinality(Cached \ {k}) \in Nat
    BY <1>2, <1>3, Cached \ {k} \subseteq Cached
  <2>3. /\ IsFiniteSet((Cached \ {k}) \cup {k})
        /\ Cardinality((Cached \ {k}) \cup {k}) <= Cardinality(Cached \ {k}) + 1
    BY <2>2, AddOne
  <2>4. /\ Cardinality(N) \in Nat
        /\ Cardinality(N) <= Cardinality((Cached \ {k}) \cup {k})
        /\ Cardinality((Cached \ {k}) \cup {k}) \in Nat
    BY <2>1, <2>3, <1>3
  <2> QED BY <2>2, <2>3, <2>4, <1>1, <1>5
<1>6. CASE new[k].present /\ ~cache[k].present /\ \E v \in Cached \ {k} : ~new[v].present
  <2> PICK v \in Cached \ {k} : ~new[v].present
    BY <1>6
  <2>1. N \subseteq (Cached \ {v}) \cup {k}
    BY DEF Cached
  <2>2. /\ IsFiniteSet(Cached \ {v}) /\ Cardinality(Cached \ {v}) \in Nat
        /\ Cardinality(Cached \ {v}) = Cardinality(Cached) - 1
    BY <1>2, <1>3, FS_RemoveElement, Cached \ {v} \subseteq Cached
  <2>3. /\ IsFiniteSet((Cached \ {v}) \cup {k})
        /\ Cardinality((Cached \ {v}) \cup {k}) <= Cardinality(Cached \ {v}) + 1
    BY <2>2, AddOne
  <2>4. /\ Cardinality(N) \in Nat
        /\ Cardinality(N) <= Cardinality((Cached \ {v}) \cup {k})
        /\ Cardinality((Cached \ {v}) \cup {k}) \in Nat
    BY <2>1, <2>3, <1>3
  <2> QED BY <2>2, <2>3, <2>4, <1>1, <1>2
<1> QED BY <1>4, <1>5, <1>6

(* A cache that only loses entries stays within its capacity.                *)
LEMMA CachedShrinks ==
    ASSUME TypeOK, NEW new \in [Keys -> Entry],
           \A j \in Keys : new[j].present => cache[j].present
    PROVE  Cardinality({j \in Keys : new[j].present}) <= Capacity
<1>1. IsFiniteSet(Cached)
  BY CacheAssumption, FS_Subset DEF Cached
<1>2. {j \in Keys : new[j].present} \subseteq Cached
  BY DEF Cached
<1>3. /\ Cardinality({j \in Keys : new[j].present}) <= Cardinality(Cached)
      /\ Cardinality({j \in Keys : new[j].present}) \in Nat
      /\ Cardinality(Cached) \in Nat
  BY <1>1, <1>2, FS_Subset, FS_CardinalityType
<1> QED BY <1>3, CacheAssumption DEF TypeOK

(* Versions, entries and results of the code's making are typed.             *)
LEMMA ValuesTyped ==
    ASSUME TypeOK
    PROVE  /\ NoEntry \in Entry /\ ~NoEntry.present
           /\ NoEntry.version \in Version
           /\ Failure \in Result /\ ~Failure.ok
           /\ \A k \in Keys : CurrentVersion(k) \in Version
           /\ \A k \in Keys : Swept(k) \in [Keys -> Entry]
           /\ \A k, j \in Keys : Swept(k)[j].present => cache[j].present
<1>1. NoEntry \in Entry /\ ~NoEntry.present /\ NoEntry.version \in Version
  BY DEF NoEntry, Entry, Version
<1>2. Failure \in Result /\ ~Failure.ok
  BY DEF Failure, Result
<1>3. \A k \in Keys : CurrentVersion(k) \in Version
  BY DEF TypeOK, CurrentVersion, Version
<1>4. ASSUME NEW k \in Keys
      PROVE  Swept(k) \in [Keys -> Entry] /\ \A j \in Keys : Swept(k)[j].present => cache[j].present
  BY <1>1 DEF Swept, TypeOK
<1> QED BY <1>1, <1>2, <1>3, <1>4

(* Resolve and the actions of a call keep the types.                         *)
LEMMA ResolveTyped ==
    ASSUME TypeOK, NEW c \in Callers, NEW k \in Keys, Resolve(c, k)
    PROVE  TypeOK'
<1>1. cache' \in [Keys -> Entry] /\ Cardinality(Cached') <= Capacity
  BY ValuesTyped, CachedShrinks DEF Resolve, Cached
<1>2. [ok |-> TRUE, asOf |-> cache[k].asOf] \in Result
  BY DEF TypeOK, Entry, Result
<1>3. caller' \in [Callers -> Call]
  BY <1>2, ValuesTyped DEF Resolve, TypeOK, Call
<1> QED BY <1>1, <1>3 DEF Resolve, TypeOK, epochs

(* Every step of a Resolve call keeps the type. *)
LEMMA CallTyped ==
    ASSUME TypeOK, NEW c \in Callers, CallStep(c) \/ WaitCancelled(c)
    PROVE  TypeOK'
<1> USE DEF TypeOK, epochs
<1>0. caller[c] \in Call /\ caller[c].key \in Keys
  BY DEF Call
<1>1. ASSUME NEW r \in Result, Answer(c, r)
      PROVE  caller' \in [Callers -> Call]
  BY <1>1, <1>0 DEF Answer, Call
<1>2. ASSUME UNCHANGED cache
      PROVE  cache' \in [Keys -> Entry] /\ Cardinality(Cached') <= Capacity
  BY <1>2 DEF Cached
<1>3. CASE BeginHit(c)
  <2>1. [ok |-> TRUE, asOf |-> cache[caller[c].key].asOf] \in Result
    BY <1>0 DEF Entry, Result
  <2> QED BY <2>1, <1>1, <1>2, <1>3 DEF BeginHit
<1>4. ASSUME cache' = Swept(caller[c].key)
      PROVE  cache' \in [Keys -> Entry] /\ Cardinality(Cached') <= Capacity
  BY <1>4, <1>0, ValuesTyped, CachedShrinks DEF Cached
<1>5. CASE BeginJoin(c)
  <2>1. caller' \in [Callers -> Call]
    BY <1>5, <1>0 DEF BeginJoin, Call
  <2> QED BY <2>1, <1>4, <1>5 DEF BeginJoin
<1>6. CASE BeginOwn(c)
  <2>1. caller' \in [Callers -> Call]
    BY <1>6, <1>0, ValuesTyped DEF BeginOwn, Call
  <2>2. refreshing' \in [Keys -> Callers \cup {None}]
    BY <1>6, <1>0 DEF BeginOwn
  <2> QED BY <2>1, <2>2, <1>4, <1>6 DEF BeginOwn
<1>7. CASE Discover(c)
  <2>1. [ok |-> TRUE, asOf |-> invalidated[caller[c].key]] \in Result
    BY <1>0 DEF Result
  <2>2. PICK result \in Result :
          caller' = [caller EXCEPT ![c].pc = "finish", ![c].result = result]
    BY <2>1, <1>7, ValuesTyped DEF Discover
  <2>3. caller' \in [Callers -> Call]
    BY <2>2, <1>0 DEF Call
  <2> QED BY <2>3, <1>2, <1>7 DEF Discover
<1>8. CASE FinishRefresh(c)
  <2> DEFINE k == caller[c].key
             entry == [present |-> TRUE, expired |-> FALSE,
                       asOf |-> caller[c].result.asOf,
                       version |-> caller[c].version]
  <2>1. entry \in Entry
    BY <1>0 DEF Call, Result, Entry
  <2>2. ASSUME Retain(k, entry)
        PROVE  cache' \in [Keys -> Entry] /\ Cardinality(Cached') <= Capacity
    <3>1. CASE Cardinality(Cached \ {k}) < Capacity /\ cache' = [cache EXCEPT ![k] = entry]
      <4>1. cache' \in [Keys -> Entry] /\ \A j \in Keys \ {k} : cache'[j] = cache[j]
        BY <3>1, <2>1, <1>0
      <4> QED BY <4>1, <3>1, <1>0, CachedBounded DEF Cached
    <3>2. CASE cache' = [cache EXCEPT ![k] = NoEntry]
      <4>1. /\ cache' \in [Keys -> Entry] /\ \A j \in Keys \ {k} : cache'[j] = cache[j]
            /\ ~cache'[k].present
        BY <3>2, <1>0, ValuesTyped
      <4> QED BY <4>1, <1>0, CachedBounded DEF Cached
    <3>3. ASSUME NEW v \in Cached \ {k},
                 cache' = [cache EXCEPT ![k] = entry, ![v] = NoEntry]
          PROVE  cache' \in [Keys -> Entry] /\ Cardinality(Cached') <= Capacity
      <4>1. v \in Keys /\ v # k
        BY DEF Cached
      <4>2. /\ cache' \in [Keys -> Entry] /\ ~cache'[v].present
            /\ \A j \in Keys \ {k, v} : cache'[j] = cache[j]
        BY <4>1, <3>3, <2>1, <1>0, ValuesTyped
      <4>3. \A j \in Keys \ {k} : cache'[j].present => cache[j].present
        BY <4>2
      <4> QED BY <4>2, <4>3, <1>0, CachedBounded DEF Cached
    <3> QED BY <2>2, <3>1, <3>2, <3>3 DEF Retain
  <2>3. cache' \in [Keys -> Entry] /\ Cardinality(Cached') <= Capacity
    BY <2>2, <1>2, <1>8 DEF FinishRefresh
  <2>4. Released(c) \in [Callers -> Call]
    BY <1>0 DEF Released, Call
  <2>5. caller' \in [Callers -> Call]
    BY <2>4, <1>8 DEF FinishRefresh, Call
  <2>6. refreshing' \in [Keys -> Callers \cup {None}]
    BY <1>8, <1>0 DEF FinishRefresh
  <2> QED BY <2>3, <2>5, <2>6, <1>8 DEF FinishRefresh
<1>9. CASE Recheck(c)
  <2>1. caller[c].result \in Result
    BY <1>0 DEF Call
  <2>2. ASSUME NEW r \in Result,
               caller' = [caller EXCEPT ![c].pc = "begin", ![c].on = None,
                                        ![c].result = r]
        PROVE  caller' \in [Callers -> Call]
    BY <2>2, <1>0 DEF Call
  <2>3. caller' \in [Callers -> Call]
    BY <2>1, <2>2, <1>1, <1>9, ValuesTyped DEF Recheck
  <2> QED BY <2>3, <1>2, <1>9 DEF Recheck
<1>10. CASE WaitCancelled(c)
  BY <1>10, <1>1, <1>2, ValuesTyped DEF WaitCancelled
<1> QED BY <1>3, <1>5, <1>6, <1>7, <1>8, <1>9, <1>10 DEF CallStep

(* The invalidations and the clock keep the types.                           *)
LEMMA InvalidationTyped ==
    ASSUME TypeOK,
           \/ \E k \in Keys : Expire(k) \/ InvalidateResource(k)
           \/ \E g \in GroupVersions : InvalidateGroupVersion(g)
           \/ InvalidateAll
    PROVE  TypeOK'
<1> USE DEF TypeOK
<1>1. ASSUME NEW keys, Invalidated(keys)
      PROVE  /\ cache' \in [Keys -> Entry] /\ Cardinality(Cached') <= Capacity
             /\ invalidated' \in [Keys -> Nat]
  <2>1. cache' \in [Keys -> Entry] /\ \A j \in Keys : cache'[j].present => cache[j].present
    BY <1>1, ValuesTyped DEF Invalidated
  <2>2. Cardinality(Cached') <= Capacity
    BY <2>1, CachedShrinks DEF Cached
  <2> QED BY <2>1, <2>2, <1>1 DEF Invalidated
<1>2. ASSUME NEW k \in Keys, Expire(k)
      PROVE  TypeOK'
  <2>1. cache' \in [Keys -> Entry] /\ \A j \in Keys : cache'[j].present => cache[j].present
    BY <1>2 DEF Expire, Entry
  <2>2. Cardinality(Cached') <= Capacity
    BY <2>1, CachedShrinks DEF Cached
  <2> QED BY <2>1, <2>2, <1>2 DEF Expire, epochs
<1>3. ASSUME NEW k \in Keys, InvalidateResource(k)
      PROVE  TypeOK'
  BY <1>1, <1>3 DEF InvalidateResource
<1>4. ASSUME NEW g \in GroupVersions, InvalidateGroupVersion(g)
      PROVE  TypeOK'
  BY <1>1, <1>4 DEF InvalidateGroupVersion
<1>5. CASE InvalidateAll
  BY <1>1, <1>5 DEF InvalidateAll
<1> QED BY <1>2, <1>3, <1>4, <1>5

(* The initial state is typed and its cache empty.                           *)
LEMMA InitTyped == Init => TypeOK
<1> SUFFICES ASSUME Init PROVE TypeOK
  OBVIOUS
<1>1. NoEntry \in Entry /\ ~NoEntry.present
  BY DEF NoEntry, Entry, Version
<1>2. Cached = {}
  BY <1>1 DEF Init, Cached
<1>3. Cardinality(Cached) <= Capacity
  BY <1>2, FS_EmptySet, CacheAssumption
<1>4. ASSUME NEW k \in Keys
      PROVE  [pc |-> "idle", key |-> k, version |-> NoEntry.version, on |-> None,
              result |-> Failure, since |-> 0] \in Call
  BY DEF Call, NoEntry, Version, Failure, Result
<1>5. caller \in [Callers -> Call]
  BY <1>4 DEF Init
<1> QED BY <1>1, <1>3, <1>5 DEF Init, TypeOK

(* Every step keeps the types and the bound on the cache.                    *)
LEMMA NextTyped == TypeOK /\ [Next]_vars => TypeOK'
<1> SUFFICES ASSUME TypeOK, [Next]_vars PROVE TypeOK'
  OBVIOUS
<1>1. CASE UNCHANGED vars
  BY <1>1 DEF vars, TypeOK, Cached
<1>2. CASE Next
  BY <1>2, ResolveTyped, CallTyped, InvalidationTyped DEF Next
<1> QED BY <1>1, <1>2

(* The state of the resolver is typed and its cache never holds more than    *)
(* cacheCapacity entries, however refreshes and invalidations interleave.    *)
THEOREM TypeCorrect == Spec => []TypeOK
BY InitTyped, NextTyped, PTL DEF Spec

----------------------------------------------------------------------------
(* What is in the cache was read after the last invalidation of its key.     *)
EntriesFresh ==
    \A k \in Keys : cache[k].present => cache[k].asOf = invalidated[k]

(* No call is ahead of the invalidations.                                    *)
CallsBounded ==
    \A c \in Callers :
        /\ caller[c].since <= invalidated[caller[c].key]
        /\ InFlight(c) => /\ caller[c].version.all <= invalidationEpoch
                          /\ caller[c].version.key <= keyEpoch[caller[c].key]

(* A registered refresh is at work, and a refresh of the current version is  *)
(* registered: the invalidations that look at r.refreshing find it.          *)
Registration ==
    /\ \A k \in Keys : refreshing[k] # None =>
         InFlight(refreshing[k]) /\ caller[refreshing[k]].key = k
    /\ \A c \in Callers :
         InFlight(c) /\ caller[c].version = CurrentVersion(caller[c].key)
            => refreshing[caller[c].key] = c

(* What a refresh of the current version has read is fresh.                  *)
RefreshFresh ==
    \A c \in Callers :
        /\ caller[c].pc = "finish" /\ caller[c].result.ok
        /\ caller[c].version = CurrentVersion(caller[c].key)
        => caller[c].result.asOf = invalidated[caller[c].key]

(* A result that a call has got, or is about to, was read since it began.    *)
ResultsFresh ==
    \A c \in Callers :
        /\ caller[c].pc \in {"idle", "finish", "recheck", "woken"}
           /\ caller[c].result.ok
              => caller[c].result.asOf >= caller[c].since
        /\ caller[c].pc = "wait" /\ caller[caller[c].on].pc = "finish"
           /\ caller[caller[c].on].result.ok
              => caller[caller[c].on].result.asOf >= caller[c].since

IndInv ==
    /\ TypeOK
    /\ EntriesFresh
    /\ CallsBounded
    /\ Registration
    /\ RefreshFresh
    /\ ResultsFresh
    /\ WaitersHaveOwner
    /\ SingleFlight

(* The clock and the invalidations: a refresh that is still of the current   *)
(* version afterwards has not been invalidated.                              *)
LEMMA InvalidationFresh ==
    ASSUME IndInv,
           \/ \E k \in Keys : Expire(k) \/ InvalidateResource(k)
           \/ \E g \in GroupVersions : InvalidateGroupVersion(g)
           \/ InvalidateAll
    PROVE  IndInv'
<1> DEFINE Kept(c) == /\ caller[c].version = CurrentVersion(caller[c].key)
                      /\ invalidated'[caller[c].key] = invalidated[caller[c].key]
           Stays == \A c \in Callers :
                      InFlight(c) /\ caller[c].version = CurrentVersion(caller[c].key)'
                        => Kept(c)
           Grows == /\ invalidationEpoch' >= invalidationEpoch
                    /\ \A k \in Keys : /\ keyEpoch'[k] >= keyEpoch[k]
                                       /\ invalidated'[k] >= invalidated[k]
           Drops == \A k \in Keys : cache'[k].present =>
                      /\ cache[k].present /\ cache'[k].asOf = cache[k].asOf
                      /\ invalidated'[k] = invalidated[k]
<1>0. /\ TypeOK /\ TypeOK'
      /\ \A c \in Callers : /\ caller[c] \in Call /\ caller[c].key \in Keys
                            /\ caller[c].version \in Version /\ caller[c].since \in Nat
                            /\ caller[c].version.all \in Nat
                            /\ caller[c].version.key \in Nat
  BY InvalidationTyped DEF IndInv, TypeOK, Call, Version
<1>1. UNCHANGED <<caller, refreshing>>
  BY DEF Expire, InvalidateResource, InvalidateGroupVersion, InvalidateAll
<1>2. ASSUME NEW k \in Keys, Expire(k)
      PROVE  Stays /\ Grows /\ Drops
  <2>1. UNCHANGED <<invalidationEpoch, keyEpoch, invalidated>>
    BY <1>2 DEF Expire, epochs
  <2>2. Stays
    BY <2>1, <1>0, <1>1 DEF CurrentVersion
  <2>3. Grows
    BY <2>1, <1>0 DEF TypeOK
  <2>4. Drops
    BY <2>1, <1>0, <1>2 DEF Expire, TypeOK, Entry
  <2> QED BY <2>2, <2>3, <2>4
<1>3. ASSUME NEW keys, Invalidated(keys)
      PROVE  /\ Drops
             /\ \A k \in Keys : /\ invalidated'[k] >= invalidated[k]
                                /\ k \notin keys => invalidated'[k] = invalidated[k]
  BY <1>3, <1>0, ValuesTyped DEF Invalidated, TypeOK
<1>4. ASSUME NEW k \in Keys, InvalidateResource(k)
      PROVE  Stays /\ Grows /\ Drops
  <2>1. Invalidated({k}) /\ invalidationEpoch' = invalidationEpoch
        /\ keyEpoch' = [keyEpoch EXCEPT ![k] = @ + 1]
    BY <1>4 DEF InvalidateResource
  <2>2. Grows /\ Drops
    BY <2>1, <1>0, <1>3 DEF TypeOK
  <2>3. ASSUME NEW c \in Callers, InFlight(c),
               caller[c].version = CurrentVersion(caller[c].key)'
        PROVE  Kept(c)
    <3>1. caller[c].version.key = keyEpoch'[caller[c].key]
      BY <2>3, <1>1 DEF CurrentVersion
    <3>2. caller[c].version.key <= keyEpoch[caller[c].key]
      BY <2>3 DEF IndInv, CallsBounded
    <3>3. caller[c].key # k
      BY <3>1, <3>2, <2>1, <1>0 DEF TypeOK
    <3>4. CurrentVersion(caller[c].key)' = CurrentVersion(caller[c].key)
      BY <3>3, <2>1, <1>0, <1>1 DEF CurrentVersion, TypeOK
    <3> QED BY <3>3, <3>4, <2>1, <2>3, <1>0, <1>3
  <2> QED BY <2>2, <2>3
<1>5. ASSUME NEW g \in GroupVersions, InvalidateGroupVersion(g)
      PROVE  Stays /\ Grows /\ Drops
  <2> DEFINE kinds == {k \in Keys : GroupVersion[k] = g}
  <2>1. /\ Invalidated(kinds) /\ invalidationEpoch' = invalidationEpoch
        /\ keyEpoch' = [k \in Keys |->
             IF k \in kinds /\ (cache[k].present \/ refreshing[k] # None)
             THEN keyEpoch[k] + 1 ELSE keyEpoch[k]]
    BY <1>5 DEF InvalidateGroupVersion
  <2>2. Grows /\ Drops
    BY <2>1, <1>0, <1>3 DEF TypeOK
  <2>3. ASSUME NEW c \in Callers, InFlight(c),
               caller[c].version = CurrentVersion(caller[c].key)'
        PROVE  Kept(c)
    <3>1. caller[c].version.key = keyEpoch'[caller[c].key]
      BY <2>3, <1>1 DEF CurrentVersion
    <3>2. caller[c].version.key <= keyEpoch[caller[c].key]
      BY <2>3 DEF IndInv, CallsBounded
    <3>3. keyEpoch'[caller[c].key] = keyEpoch[caller[c].key]
      BY <3>1, <3>2, <2>1, <1>0 DEF TypeOK
    <3>4. CurrentVersion(caller[c].key)' = CurrentVersion(caller[c].key)
      BY <3>3, <2>1, <1>1 DEF CurrentVersion
    <3>5. refreshing[caller[c].key] # None
      BY <3>4, <2>3, CacheAssumption DEF IndInv, Registration
    <3>6. caller[c].key \notin kinds
      BY <3>3, <3>5, <2>1, <1>0 DEF TypeOK
    <3> QED BY <3>4, <3>6, <2>1, <2>3, <1>0, <1>3
  <2> QED BY <2>2, <2>3
<1>6. ASSUME InvalidateAll
      PROVE  Stays /\ Grows /\ Drops
  <2>1. Invalidated(Keys) /\ invalidationEpoch' = invalidationEpoch + 1
        /\ keyEpoch' = keyEpoch
    BY <1>6 DEF InvalidateAll
  <2>2. Grows /\ Drops
    BY <2>1, <1>0, <1>3 DEF TypeOK
  <2>3. ASSUME NEW c \in Callers, InFlight(c),
               caller[c].version = CurrentVersion(caller[c].key)'
        PROVE  FALSE
    <3>1. caller[c].version.all = invalidationEpoch'
      BY <2>3, <1>1 DEF CurrentVersion
    <3>2. caller[c].version.all <= invalidationEpoch
      BY <2>3 DEF IndInv, CallsBounded
    <3> QED BY <3>1, <3>2, <2>1, <1>0 DEF TypeOK
  <2> QED BY <2>2, <2>3
<1>7. Stays /\ Grows /\ Drops
  BY <1>2, <1>4, <1>5, <1>6
<1>8. EntriesFresh'
  BY <1>7, <1>0 DEF IndInv, EntriesFresh
<1>9. CallsBounded'
  <2> SUFFICES ASSUME NEW c \in Callers
               PROVE  /\ caller[c].since <= invalidated'[caller[c].key]
                      /\ InFlight(c) =>
                           /\ caller[c].version.all <= invalidationEpoch'
                           /\ caller[c].version.key <= keyEpoch'[caller[c].key]
    BY <1>1 DEF CallsBounded, InFlight
  <2> QED BY <1>0, <1>7 DEF IndInv, CallsBounded, TypeOK
<1>10. Registration'
  BY <1>0, <1>1, <1>7 DEF IndInv, Registration, InFlight
<1>11. RefreshFresh'
  <2> SUFFICES ASSUME NEW c \in Callers, caller[c].pc = "finish",
                      caller[c].result.ok,
                      caller[c].version = CurrentVersion(caller[c].key)'
               PROVE  caller[c].result.asOf = invalidated'[caller[c].key]
    BY <1>1 DEF RefreshFresh, CurrentVersion
  <2>1. InFlight(c)
    BY DEF InFlight
  <2> QED BY <2>1, <1>7 DEF IndInv, RefreshFresh
<1>12. ResultsFresh' /\ WaitersHaveOwner' /\ SingleFlight'
  BY <1>1 DEF IndInv, ResultsFresh, WaitersHaveOwner, SingleFlight, InFlight
<1> QED BY <1>0, <1>8, <1>9, <1>10, <1>11, <1>12 DEF IndInv

(* A call that returns, or has yet to find its refresh, concerns no other.   *)
LEMMA QuietStep ==
    ASSUME IndInv, TypeOK', NEW c \in Callers,
           ~InFlight(c), caller'[c].pc \in {"idle", "begin"},
           \A d \in Callers \ {c} : caller'[d] = caller[d],
           UNCHANGED <<refreshing, epochs>>,
           \A k \in Keys : cache'[k].present =>
               cache[k].present /\ cache'[k].asOf = cache[k].asOf,
           caller'[c].since <= invalidated[caller'[c].key],
           caller'[c].result.ok => caller'[c].result.asOf >= caller'[c].since
    PROVE  IndInv'
<1>0. UNCHANGED <<invalidationEpoch, keyEpoch, invalidated>>
  BY DEF epochs
<1>1. \A d \in Callers : InFlight(d)' => d # c /\ InFlight(d) /\ caller'[d] = caller[d]
  BY DEF InFlight
<1>2. \A d \in Callers : InFlight(d) => d # c /\ InFlight(d)' /\ caller'[d] = caller[d]
  BY DEF InFlight
<1>3. \A k : CurrentVersion(k)' = CurrentVersion(k)
  BY <1>0 DEF CurrentVersion
<1>4. EntriesFresh'
  BY <1>0 DEF IndInv, EntriesFresh
<1>5. CallsBounded'
  BY <1>0, <1>1 DEF IndInv, CallsBounded, InFlight
<1>6. Registration'
  <2>1. ASSUME NEW k \in Keys, refreshing'[k] # None
        PROVE  (InFlight(refreshing[k]) /\ caller[refreshing[k]].key = k)'
    <3>1. refreshing[k] \in Callers /\ InFlight(refreshing[k]) /\ caller[refreshing[k]].key = k
      BY <2>1 DEF IndInv, Registration, TypeOK
    <3> QED BY <3>1, <1>2
  <2>2. ASSUME NEW d \in Callers, InFlight(d)',
               caller'[d].version = CurrentVersion(caller[d].key)'
        PROVE  refreshing'[caller'[d].key] = d
    <3>1. InFlight(d) /\ caller'[d] = caller[d]
      BY <2>2, <1>1
    <3>2. caller[d].version = CurrentVersion(caller[d].key)
      BY <3>1, <2>2, <1>0 DEF CurrentVersion
    <3> QED BY <3>1, <3>2 DEF IndInv, Registration
  <2> QED BY <2>1, <2>2 DEF Registration
<1>7. RefreshFresh'
  <2> SUFFICES ASSUME NEW d \in Callers, caller'[d].pc = "finish", caller'[d].result.ok,
                      caller'[d].version = CurrentVersion(caller[d].key)'
               PROVE  caller'[d].result.asOf = invalidated'[caller'[d].key]
    BY DEF RefreshFresh
  <2>1. InFlight(d) /\ caller'[d] = caller[d]
    BY <1>1 DEF InFlight
  <2>2. caller[d].version = CurrentVersion(caller[d].key)
    BY <2>1, <1>0 DEF CurrentVersion
  <2> QED BY <2>1, <2>2, <1>0 DEF IndInv, RefreshFresh
<1>8. WaitersHaveOwner'
  <2> SUFFICES ASSUME NEW d \in Callers, caller'[d].pc = "wait"
               PROVE  /\ caller'[d].on \in Callers /\ InFlight(caller[d].on)'
                      /\ caller'[caller'[d].on].key = caller'[d].key
    BY DEF WaitersHaveOwner, InFlight
  <2>1. caller'[d] = caller[d]
    OBVIOUS
  <2> QED BY <2>1, <1>2 DEF IndInv, WaitersHaveOwner
<1>9. ResultsFresh'
  <2> SUFFICES ASSUME NEW d \in Callers
               PROVE  /\ caller'[d].pc \in {"idle", "finish", "recheck", "woken"}
                         /\ caller'[d].result.ok
                            => caller'[d].result.asOf >= caller'[d].since
                      /\ caller'[d].pc = "wait" /\ caller'[caller'[d].on].pc = "finish"
                         /\ caller'[caller'[d].on].result.ok
                            => caller'[caller'[d].on].result.asOf >= caller'[d].since
    BY DEF ResultsFresh
  <2>1. CASE d = c
    BY <2>1
  <2>2. CASE d # c
    <3>1. caller'[d] = caller[d]
      BY <2>2
    <3>2. caller'[d].pc = "wait" => caller'[caller[d].on] = caller[caller[d].on]
      BY <3>1, <1>2 DEF IndInv, WaitersHaveOwner
    <3> QED BY <3>1, <3>2 DEF IndInv, ResultsFresh
  <2> QED BY <2>1, <2>2
<1>10. SingleFlight'
  BY <1>1 DEF IndInv, SingleFlight, InFlight
<1> QED BY <1>4, <1>5, <1>6, <1>7, <1>8, <1>9, <1>10 DEF IndInv

(* Resolve, a hit, the end of a wait and the last comparison of the version. *)
LEMMA ReturnsFresh ==
    ASSUME IndInv, NEW c \in Callers,
           \/ \E k \in Keys : Resolve(c, k)
           \/ BeginHit(c) \/ Recheck(c) \/ WaitCancelled(c)
    PROVE  IndInv'
<1>0. TypeOK /\ TypeOK'
  BY ResolveTyped, CallTyped DEF IndInv, CallStep
<1>1. caller[c] \in Call /\ caller[c].key \in Keys
  BY <1>0 DEF TypeOK, Call
<1>2. caller[c].since <= invalidated[caller[c].key] /\ ~Failure.ok
  BY ValuesTyped, <1>0 DEF IndInv, CallsBounded
<1>3. ASSUME NEW k \in Keys
      PROVE  \A j \in Keys : Swept(k)[j].present =>
               cache[j].present /\ Swept(k)[j].asOf = cache[j].asOf
  BY <1>0, ValuesTyped DEF Swept, TypeOK
<1>4. ASSUME NEW k \in Keys, Resolve(c, k)
      PROVE  IndInv'
  <2>1. /\ caller'[c].pc \in {"idle", "begin"} /\ caller'[c].key = k
        /\ caller'[c].since = invalidated[k]
        /\ caller'[c].result.ok => Hit(k) /\ caller'[c].result.asOf = cache[k].asOf
    BY <1>4, <1>0, <1>2 DEF Resolve, TypeOK
  <2>2. caller'[c].result.ok => caller'[c].result.asOf >= caller'[c].since
    BY <2>1, <1>0 DEF Hit, IndInv, EntriesFresh, TypeOK
  <2>3. ~InFlight(c) /\ \A d \in Callers \ {c} : caller'[d] = caller[d]
    BY <1>4, <1>0 DEF Resolve, InFlight, TypeOK
  <2>4. cache' = Swept(k) /\ UNCHANGED <<refreshing, epochs>>
    BY <1>4 DEF Resolve
  <2>5. caller'[c].since <= invalidated[caller'[c].key]
    BY <2>1, <1>0 DEF TypeOK
  <2> QED BY <2>1, <2>2, <2>3, <2>4, <2>5, <1>0, <1>3, QuietStep
<1>5. ASSUME NEW r, Answer(c, r), ~InFlight(c), UNCHANGED <<cache, refreshing, epochs>>,
             r.ok => r.asOf >= caller[c].since
      PROVE  IndInv'
  <2>1. /\ caller'[c].pc = "idle" /\ caller'[c].key = caller[c].key
        /\ caller'[c].since = caller[c].since /\ caller'[c].result = r
        /\ \A d \in Callers \ {c} : caller'[d] = caller[d]
    BY <1>5, <1>0, <1>1 DEF Answer, TypeOK, Call
  <2> QED BY <2>1, <1>0, <1>2, <1>5, QuietStep
<1>6. CASE BeginHit(c)
  <2>1. cache[caller[c].key].asOf >= caller[c].since
    BY <1>6, <1>0, <1>1, <1>2 DEF BeginHit, Hit, IndInv, EntriesFresh, TypeOK, Call
  <2>2. ~InFlight(c) /\ UNCHANGED <<cache, refreshing, epochs>>
        /\ Answer(c, [ok |-> TRUE, asOf |-> cache[caller[c].key].asOf])
    BY <1>6 DEF BeginHit, InFlight
  <2> QED BY <2>1, <2>2, <1>5
<1>7. CASE Recheck(c)
  <2>1. ~InFlight(c) /\ UNCHANGED <<cache, refreshing, epochs>>
    BY <1>7 DEF Recheck, InFlight
  <2>2. caller[c].result.ok => caller[c].result.asOf >= caller[c].since
    BY <1>7 DEF Recheck, IndInv, ResultsFresh
  <2>3. CASE Answer(c, caller[c].result)
    BY <2>1, <2>2, <2>3, <1>5
  <2>4. CASE caller' = [caller EXCEPT ![c].pc = "begin", ![c].on = None,
                                      ![c].result = Failure]
    <3>1. /\ caller'[c].pc = "begin" /\ caller'[c].key = caller[c].key
          /\ caller'[c].since = caller[c].since /\ caller'[c].result = Failure
          /\ \A d \in Callers \ {c} : caller'[d] = caller[d]
      BY <2>4, <1>0, <1>1 DEF TypeOK, Call
    <3> QED BY <3>1, <2>1, <1>0, <1>2, QuietStep
  <2> QED BY <2>3, <2>4, <1>7 DEF Recheck
<1>8. CASE WaitCancelled(c)
  <2>1. ~InFlight(c) /\ UNCHANGED <<cache, refreshing, epochs>> /\ Answer(c, Failure)
    BY <1>8 DEF WaitCancelled, InFlight
  <2> QED BY <2>1, <1>2, <1>5
<1> QED BY <1>4, <1>6, <1>7, <1>8

(* Joining a refresh: it is of the current version, so what it has read, if   *)
(* it has, is fresh.                                                         *)
LEMMA JoinFresh ==
    ASSUME IndInv, NEW c \in Callers, BeginJoin(c)
    PROVE  IndInv'
<1> DEFINE k == caller[c].key
           o == refreshing[k]
<1>0. TypeOK /\ TypeOK'
  BY CallTyped DEF IndInv, CallStep
<1>1. caller[c] \in Call /\ k \in Keys
  BY <1>0 DEF TypeOK, Call
<1>2. /\ caller[c].pc = "begin" /\ o # None /\ caller[o].version = CurrentVersion(k)
      /\ UNCHANGED <<refreshing, invalidationEpoch, keyEpoch, invalidated>>
      /\ cache' = Swept(k)
  BY DEF BeginJoin, Joinable, epochs
<1>3. /\ caller'[c].pc = "wait" /\ caller'[c].on = o /\ caller'[c].key = k
      /\ caller'[c].since = caller[c].since
      /\ \A d \in Callers \ {c} : caller'[d] = caller[d]
  BY <1>0, <1>1 DEF BeginJoin, TypeOK, Call
<1>4. o \in Callers /\ o # c /\ InFlight(o) /\ caller[o].key = k /\ caller'[o] = caller[o]
  BY <1>0, <1>1, <1>2, <1>3 DEF IndInv, Registration, InFlight, TypeOK
<1>5. \A d \in Callers : InFlight(d)' <=> InFlight(d)
  BY <1>2, <1>3 DEF InFlight
<1>6. \A d \in Callers : InFlight(d) => caller'[d] = caller[d]
  BY <1>2, <1>3 DEF InFlight
<1>7. EntriesFresh'
  BY <1>0, <1>1, <1>2, ValuesTyped DEF IndInv, EntriesFresh, Swept, TypeOK
<1>8. CallsBounded'
  BY <1>2, <1>3, <1>5 DEF IndInv, CallsBounded, InFlight
<1>9. Registration'
  <2>1. \A j \in Keys : refreshing[j] # None =>
          (InFlight(refreshing[j]) /\ caller[refreshing[j]].key = j)'
    BY <1>0, <1>2, <1>5, <1>6 DEF IndInv, Registration, TypeOK
  <2>2. \A d \in Callers : InFlight(d)' /\ (caller[d].version = CurrentVersion(caller[d].key))'
          => refreshing[caller[d].key] = d /\ caller'[d] = caller[d]
    BY <1>2, <1>5, <1>6 DEF IndInv, Registration, CurrentVersion
  <2> QED BY <2>1, <2>2, <1>2 DEF Registration
<1>10. RefreshFresh'
  BY <1>2, <1>3 DEF IndInv, RefreshFresh, CurrentVersion
<1>11. WaitersHaveOwner'
  BY <1>3, <1>4, <1>5, <1>6 DEF IndInv, WaitersHaveOwner
<1>12. ResultsFresh'
  <2>1. caller[o].pc = "finish" /\ caller[o].result.ok
          => caller[o].result.asOf >= caller[c].since
    <3> HAVE caller[o].pc = "finish" /\ caller[o].result.ok
    <3>1. caller[o].result.asOf = invalidated[k]
      BY <1>2, <1>4 DEF IndInv, RefreshFresh
    <3>2. caller[c].since <= invalidated[k]
      BY DEF IndInv, CallsBounded
    <3> QED BY <3>1, <3>2, <1>0, <1>1 DEF TypeOK, Call
  <2> SUFFICES ASSUME NEW d \in Callers
               PROVE  /\ caller'[d].pc \in {"idle", "finish", "recheck", "woken"}
                         /\ caller'[d].result.ok
                            => caller'[d].result.asOf >= caller'[d].since
                      /\ caller'[d].pc = "wait" /\ caller'[caller'[d].on].pc = "finish"
                         /\ caller'[caller'[d].on].result.ok
                            => caller'[caller'[d].on].result.asOf >= caller'[d].since
    BY DEF ResultsFresh
  <2>2. CASE d = c
    BY <2>1, <2>2, <1>3, <1>4
  <2>3. CASE d # c
    <3>1. caller'[d] = caller[d]
      BY <2>3, <1>3
    <3>2. caller[d].pc = "wait" => caller'[caller[d].on] = caller[caller[d].on]
      BY <1>6 DEF IndInv, WaitersHaveOwner
    <3> QED BY <3>1, <3>2 DEF IndInv, ResultsFresh
  <2> QED BY <2>2, <2>3
<1>13. SingleFlight'
  BY <1>5, <1>6 DEF IndInv, SingleFlight
<1> QED BY <1>0, <1>7, <1>8, <1>9, <1>10, <1>11, <1>12, <1>13 DEF IndInv

(* Registering a refresh: there is none of the current version.              *)
LEMMA OwnFresh ==
    ASSUME IndInv, NEW c \in Callers, BeginOwn(c)
    PROVE  IndInv'
<1> DEFINE k == caller[c].key
<1>0. TypeOK /\ TypeOK'
  BY CallTyped DEF IndInv, CallStep
<1>1. caller[c] \in Call /\ k \in Keys /\ c # None
  BY <1>0, CacheAssumption DEF TypeOK, Call
<1>2. /\ caller[c].pc = "begin" /\ ~Joinable(k) /\ cache' = Swept(k)
      /\ UNCHANGED <<invalidationEpoch, keyEpoch, invalidated>>
      /\ refreshing'[k] = c /\ \A j \in Keys \ {k} : refreshing'[j] = refreshing[j]
  BY <1>0, <1>1 DEF BeginOwn, epochs, TypeOK
<1>3. /\ caller'[c].pc = "discover" /\ caller'[c].key = k
      /\ caller'[c].version = CurrentVersion(k)
      /\ caller'[c].since = caller[c].since
      /\ \A d \in Callers \ {c} : caller'[d] = caller[d]
  BY <1>0, <1>1 DEF BeginOwn, TypeOK, Call
<1>4. ASSUME NEW d \in Callers, InFlight(d), caller[d].key = k
      PROVE  caller[d].version # CurrentVersion(k)
  BY <1>2, <1>4, CacheAssumption DEF IndInv, Registration, Joinable
<1>5. ~InFlight(c) /\ \A d \in Callers \ {c} : InFlight(d)' <=> InFlight(d)
  BY <1>2, <1>3 DEF InFlight
<1>6. EntriesFresh'
  BY <1>0, <1>1, <1>2, ValuesTyped DEF IndInv, EntriesFresh, Swept, TypeOK
<1>7. CallsBounded'
  <2>1. (InFlight(c) => /\ caller[c].version.all <= invalidationEpoch
                        /\ caller[c].version.key <= keyEpoch[caller[c].key])'
    BY <1>0, <1>1, <1>2, <1>3 DEF CurrentVersion, TypeOK
  <2> QED BY <2>1, <1>2, <1>3, <1>5 DEF IndInv, CallsBounded
<1>8. Registration'
  <2>1. ASSUME NEW j \in Keys, refreshing'[j] # None
        PROVE  (InFlight(refreshing[j]) /\ caller[refreshing[j]].key = j)'
    <3>1. CASE j = k
      BY <3>1, <1>2, <1>3 DEF InFlight
    <3>2. CASE j # k
      BY <3>2, <2>1, <1>0, <1>2, <1>3, <1>5 DEF IndInv, Registration, TypeOK
    <3> QED BY <3>1, <3>2
  <2>2. ASSUME NEW d \in Callers, InFlight(d)',
               (caller[d].version = CurrentVersion(caller[d].key))'
        PROVE  (refreshing[caller[d].key] = d)'
    <3>1. CASE d = c
      BY <3>1, <1>2, <1>3
    <3>2. CASE d # c
      <4>1. InFlight(d) /\ caller'[d] = caller[d] /\ caller[d].key \in Keys
        BY <3>2, <2>2, <1>0, <1>3, <1>5 DEF TypeOK, Call
      <4>2. caller[d].version = CurrentVersion(caller[d].key)
        BY <4>1, <2>2, <1>2 DEF CurrentVersion
      <4>3. caller[d].key # k /\ refreshing[caller[d].key] = d
        BY <4>1, <4>2, <1>4 DEF IndInv, Registration
      <4> QED BY <4>1, <4>3, <1>2
    <3> QED BY <3>1, <3>2
  <2> QED BY <2>1, <2>2 DEF Registration
<1>9. RefreshFresh'
  BY <1>2, <1>3 DEF IndInv, RefreshFresh, CurrentVersion
<1>10. WaitersHaveOwner'
  BY <1>2, <1>3, <1>5 DEF IndInv, WaitersHaveOwner
<1>11. ResultsFresh'
  <2> SUFFICES ASSUME NEW d \in Callers
               PROVE  /\ caller'[d].pc \in {"idle", "finish", "recheck", "woken"}
                         /\ caller'[d].result.ok
                            => caller'[d].result.asOf >= caller'[d].since
                      /\ caller'[d].pc = "wait" /\ caller'[caller'[d].on].pc = "finish"
                         /\ caller'[caller'[d].on].result.ok
                            => caller'[caller'[d].on].result.asOf >= caller'[d].since
    BY DEF ResultsFresh
  <2>1. CASE d = c
    BY <2>1, <1>3
  <2>2. CASE d # c
    <3>1. caller'[d] = caller[d]
      BY <2>2, <1>3
    <3>2. caller[d].pc = "wait" => caller'[caller[d].on] = caller[caller[d].on]
      BY <1>3, <1>5 DEF IndInv, WaitersHaveOwner
    <3> QED BY <3>1, <3>2 DEF IndInv, ResultsFresh
  <2> QED BY <2>1, <2>2
<1>12. SingleFlight'
  <2> SUFFICES ASSUME NEW d \in Callers, NEW e \in Callers, d # e,
                      InFlight(d)', InFlight(e)', caller'[d].key = caller'[e].key
               PROVE  caller'[d].version # caller'[e].version
    BY DEF SingleFlight
  <2>1. CASE d # c /\ e # c
    BY <2>1, <1>3, <1>5 DEF IndInv, SingleFlight
  <2>2. CASE d = c
    BY <2>2, <1>3, <1>4, <1>5
  <2>3. CASE e = c
    BY <2>3, <1>3, <1>4, <1>5
  <2> QED BY <2>1, <2>2, <2>3
<1> QED BY <1>0, <1>6, <1>7, <1>8, <1>9, <1>10, <1>11, <1>12 DEF IndInv

(* Reading: what is read now is as fresh as any call under way asks for.     *)
LEMMA DiscoverFresh ==
    ASSUME IndInv, NEW c \in Callers, Discover(c)
    PROVE  IndInv'
<1> DEFINE k == caller[c].key
<1>0. TypeOK /\ TypeOK'
  BY CallTyped DEF IndInv, CallStep
<1>1. caller[c] \in Call /\ k \in Keys /\ ~Failure.ok
  BY <1>0, ValuesTyped DEF TypeOK, Call
<1>2. /\ caller[c].pc = "discover"
      /\ UNCHANGED <<cache, refreshing, invalidationEpoch, keyEpoch, invalidated>>
  BY DEF Discover, epochs
<1>3. PICK r : /\ r.ok => r.asOf = invalidated[k]
               /\ caller' = [caller EXCEPT ![c].pc = "finish", ![c].result = r]
  BY <1>1 DEF Discover
<1>4. /\ caller'[c].pc = "finish" /\ caller'[c].key = k /\ caller'[c].result = r
      /\ caller'[c].version = caller[c].version
      /\ caller'[c].since = caller[c].since
      /\ \A d \in Callers \ {c} : caller'[d] = caller[d]
  BY <1>0, <1>1, <1>3 DEF TypeOK, Call
<1>5. /\ \A d \in Callers : caller'[d].key = caller[d].key
      /\ \A d \in Callers : caller'[d].version = caller[d].version
      /\ \A d \in Callers : caller'[d].since = caller[d].since
      /\ \A d \in Callers : caller'[d].pc = "wait" => caller'[d] = caller[d]
  BY <1>2, <1>4
<1>f. \A d \in Callers : InFlight(d)' <=> InFlight(d)
  BY <1>2, <1>4 DEF InFlight
<1>6. \A d \in Callers :
        (CurrentVersion(caller[d].key))' = CurrentVersion(caller[d].key)
  BY <1>2, <1>5 DEF CurrentVersion
<1>7. EntriesFresh' /\ CallsBounded'
  BY <1>2, <1>5, <1>f DEF IndInv, EntriesFresh, CallsBounded
<1>8. Registration'
  <2>1. \A j \in Keys : refreshing[j] # None =>
          (InFlight(refreshing[j]) /\ caller[refreshing[j]].key = j)'
    BY <1>0, <1>2, <1>5, <1>f DEF IndInv, Registration, TypeOK
  <2> QED BY <2>1, <1>2, <1>5, <1>f, <1>6 DEF IndInv, Registration
<1>9. RefreshFresh'
  <2> SUFFICES ASSUME NEW d \in Callers, caller'[d].pc = "finish", caller'[d].result.ok,
                      (caller[d].version = CurrentVersion(caller[d].key))'
               PROVE  (caller[d].result.asOf = invalidated[caller[d].key])'
    BY DEF RefreshFresh
  <2>1. CASE d = c
    BY <2>1, <1>2, <1>3, <1>4
  <2>2. CASE d # c
    <3>1. caller'[d] = caller[d] /\ caller[d].version = CurrentVersion(caller[d].key)
      BY <2>2, <1>4, <1>5, <1>6
    <3> QED BY <3>1, <1>2 DEF IndInv, RefreshFresh
  <2> QED BY <2>1, <2>2
<1>10. WaitersHaveOwner'
  BY <1>5, <1>f DEF IndInv, WaitersHaveOwner
<1>11. ResultsFresh'
  <2>1. ASSUME NEW d \in Callers, caller[d].key = k, r.ok
        PROVE  r.asOf >= caller[d].since
    BY <2>1, <1>0, <1>1, <1>3 DEF IndInv, CallsBounded, TypeOK, Call
  <2> SUFFICES ASSUME NEW d \in Callers
               PROVE  /\ caller'[d].pc \in {"idle", "finish", "recheck", "woken"}
                         /\ caller'[d].result.ok
                            => caller'[d].result.asOf >= caller'[d].since
                      /\ caller'[d].pc = "wait" /\ caller'[caller'[d].on].pc = "finish"
                         /\ caller'[caller'[d].on].result.ok
                            => caller'[caller'[d].on].result.asOf >= caller'[d].since
    BY DEF ResultsFresh
  <2>2. CASE d = c
    BY <2>1, <2>2, <1>4
  <2>3. CASE d # c
    <3>1. caller'[d] = caller[d]
      BY <2>3, <1>4
    <3>2. ASSUME caller[d].pc = "wait", caller[d].on = c, r.ok
          PROVE  r.asOf >= caller[d].since
      BY <2>1, <3>2 DEF IndInv, WaitersHaveOwner
    <3>3. caller[d].pc = "wait" => caller[d].on \in Callers
      BY DEF IndInv, WaitersHaveOwner
    <3> QED BY <3>1, <3>2, <3>3, <1>4 DEF IndInv, ResultsFresh
  <2> QED BY <2>2, <2>3
<1>12. SingleFlight'
  BY <1>5, <1>f DEF IndInv, SingleFlight
<1> QED BY <1>0, <1>7, <1>8, <1>9, <1>10, <1>11, <1>12 DEF IndInv

(* Finishing: the entry is retained only for a refresh of the current        *)
(* version, which is fresh, and every waiter is released with a result read  *)
(* since its call began.                                                     *)
LEMMA FinishFresh ==
    ASSUME IndInv, NEW c \in Callers, FinishRefresh(c)
    PROVE  IndInv'
<1> DEFINE k == caller[c].key
           entry == [present |-> TRUE, expired |-> FALSE,
                     asOf |-> caller[c].result.asOf,
                     version |-> caller[c].version]
           Waits(d) == caller[d].pc = "wait" /\ caller[d].on = c
<1>0. TypeOK /\ TypeOK'
  BY CallTyped DEF IndInv, CallStep
<1>1. caller[c] \in Call /\ k \in Keys /\ c # None
  BY <1>0, CacheAssumption DEF TypeOK, Call
<1>2. /\ caller[c].pc = "finish"
      /\ UNCHANGED <<invalidationEpoch, keyEpoch, invalidated>>
      /\ refreshing'[k] = (IF refreshing[k] = c THEN None ELSE refreshing[k])
      /\ \A j \in Keys \ {k} : refreshing'[j] = refreshing[j]
  BY <1>0, <1>1 DEF FinishRefresh, epochs, TypeOK
<1>3. /\ caller'[c].pc \in {"recheck", "idle"}
      /\ caller'[c].key = k /\ caller'[c].result = caller[c].result
      /\ caller'[c].since = caller[c].since
  BY <1>0, <1>1, <1>2 DEF FinishRefresh, Released, TypeOK, Call
<1>4. \A d \in Callers \ {c} : ~Waits(d) => caller'[d] = caller[d]
  BY <1>0, <1>1 DEF FinishRefresh, Released, TypeOK
<1>5. \A d \in Callers \ {c} : Waits(d) =>
        /\ caller'[d].pc = "woken" /\ caller'[d].key = caller[d].key
        /\ caller'[d].since = caller[d].since
        /\ caller'[d].result = caller[c].result
  <2>1. \A d \in Callers \ {c} : caller'[d] = Released(c)[d]
    BY <1>0 DEF FinishRefresh, Released, TypeOK
  <2>2. \A d \in Callers \ {c} : Waits(d) =>
          caller'[d] = [caller[d] EXCEPT !.pc = "woken", !.result = caller[c].result,
                                         !.version = caller[c].version]
    BY <2>1 DEF Released
  <2> QED BY <2>2, <1>0 DEF TypeOK, Call
<1>6. \A d \in Callers : InFlight(d)' <=> InFlight(d) /\ d # c
  BY <1>3, <1>4, <1>5 DEF InFlight
<1>7. \A d \in Callers : InFlight(d) /\ d # c => caller'[d] = caller[d]
  BY <1>4 DEF InFlight
<1>8. EntriesFresh'
  <2>1. ASSUME Retain(k, entry), caller[c].result.ok,
               caller[c].version = CurrentVersion(k)
        PROVE  EntriesFresh'
    <3>1. caller[c].result.asOf = invalidated[k]
      BY <2>1, <1>2 DEF IndInv, RefreshFresh
    <3>2. ASSUME NEW j \in Keys, cache'[j].present
          PROVE  \/ j = k /\ cache'[j].asOf = caller[c].result.asOf
                 \/ cache[j].present /\ cache'[j].asOf = cache[j].asOf
      <4>1. CASE cache' = [cache EXCEPT ![k] = entry]
        BY <4>1, <3>2, <1>0, <1>1 DEF TypeOK
      <4>2. CASE cache' = [cache EXCEPT ![k] = NoEntry]
        BY <4>2, <3>2, <1>0, <1>1, ValuesTyped DEF TypeOK
      <4>3. ASSUME NEW v \in Cached \ {k},
                   cache' = [cache EXCEPT ![k] = entry, ![v] = NoEntry]
            PROVE  \/ j = k /\ cache'[j].asOf = caller[c].result.asOf
                   \/ cache[j].present /\ cache'[j].asOf = cache[j].asOf
        BY <4>3, <3>2, <1>0, <1>1, ValuesTyped DEF TypeOK, Cached
      <4> QED BY <4>1, <4>2, <4>3, <2>1 DEF Retain
    <3> QED BY <3>1, <3>2, <1>2 DEF IndInv, EntriesFresh
  <2>2. CASE UNCHANGED cache
    BY <2>2, <1>2 DEF IndInv, EntriesFresh
  <2> QED BY <2>1, <2>2 DEF FinishRefresh
<1>9. CallsBounded'
  <2> SUFFICES ASSUME NEW d \in Callers
               PROVE  (/\ caller[d].since <= invalidated[caller[d].key]
                       /\ InFlight(d) => /\ caller[d].version.all <= invalidationEpoch
                                         /\ caller[d].version.key <= keyEpoch[caller[d].key])'
    BY DEF CallsBounded
  <2>1. caller'[d].since = caller[d].since /\ caller'[d].key = caller[d].key
    BY <1>3, <1>4, <1>5
  <2> QED BY <2>1, <1>2, <1>6, <1>7 DEF IndInv, CallsBounded
<1>10. Registration'
  <2>1. ASSUME NEW j \in Keys, refreshing'[j] # None
        PROVE  (InFlight(refreshing[j]) /\ caller[refreshing[j]].key = j)'
    <3>1. /\ refreshing'[j] = refreshing[j] /\ refreshing[j] \in Callers
          /\ InFlight(refreshing[j]) /\ caller[refreshing[j]].key = j
      BY <2>1, <1>0, <1>2 DEF IndInv, Registration, TypeOK
    <3>2. refreshing[j] # c
      BY <3>1, <2>1, <1>2
    <3> QED BY <3>1, <3>2, <1>6, <1>7
  <2>2. ASSUME NEW d \in Callers, InFlight(d)',
               (caller[d].version = CurrentVersion(caller[d].key))'
        PROVE  (refreshing[caller[d].key] = d)'
    <3>1. InFlight(d) /\ d # c /\ caller'[d] = caller[d] /\ caller[d].key \in Keys
      BY <2>2, <1>0, <1>6, <1>7 DEF TypeOK, Call
    <3>2. caller[d].version = CurrentVersion(caller[d].key)
      BY <3>1, <2>2, <1>2 DEF CurrentVersion
    <3>3. refreshing[caller[d].key] = d
      BY <3>1, <3>2 DEF IndInv, Registration
    <3> QED BY <3>1, <3>3, <1>2
  <2> QED BY <2>1, <2>2 DEF Registration
<1>11. RefreshFresh'
  <2> SUFFICES ASSUME NEW d \in Callers, caller'[d].pc = "finish", caller'[d].result.ok,
                      (caller[d].version = CurrentVersion(caller[d].key))'
               PROVE  (caller[d].result.asOf = invalidated[caller[d].key])'
    BY DEF RefreshFresh
  <2>1. d # c /\ caller'[d] = caller[d]
    BY <1>3, <1>4, <1>5
  <2>2. caller[d].version = CurrentVersion(caller[d].key)
    BY <2>1, <1>2 DEF CurrentVersion
  <2> QED BY <2>1, <2>2, <1>2 DEF IndInv, RefreshFresh
<1>12. ASSUME NEW d \in Callers, caller'[d].pc = "wait"
       PROVE  /\ caller'[d] = caller[d] /\ caller[d].pc = "wait"
              /\ caller[d].on \in Callers /\ caller[d].on # c
              /\ InFlight(caller[d].on)
              /\ caller[caller[d].on].key = caller[d].key
  <2>1. d # c /\ ~Waits(d) /\ caller'[d] = caller[d]
    BY <1>12, <1>3, <1>4, <1>5
  <2> QED BY <2>1, <1>12 DEF IndInv, WaitersHaveOwner
<1>13. WaitersHaveOwner'
  BY <1>6, <1>7, <1>12 DEF WaitersHaveOwner
<1>14. ResultsFresh'
  <2> SUFFICES ASSUME NEW d \in Callers
               PROVE  /\ caller'[d].pc \in {"idle", "finish", "recheck", "woken"}
                         /\ caller'[d].result.ok
                            => caller'[d].result.asOf >= caller'[d].since
                      /\ caller'[d].pc = "wait" /\ caller'[caller'[d].on].pc = "finish"
                         /\ caller'[caller'[d].on].result.ok
                            => caller'[caller'[d].on].result.asOf >= caller'[d].since
    BY DEF ResultsFresh
  <2>1. CASE d = c
    BY <2>1, <1>2, <1>3 DEF IndInv, ResultsFresh
  <2>2. CASE d # c /\ Waits(d)
    BY <2>2, <1>2, <1>5 DEF IndInv, ResultsFresh
  <2>3. CASE d # c /\ ~Waits(d)
    <3>1. caller'[d] = caller[d]
      BY <2>3, <1>4
    <3>2. caller[d].pc = "wait" => caller'[caller[d].on] = caller[caller[d].on]
      BY <3>1, <1>7, <1>12
    <3> QED BY <3>1, <3>2 DEF IndInv, ResultsFresh
  <2> QED BY <2>1, <2>2, <2>3
<1>15. SingleFlight'
  BY <1>6, <1>7 DEF IndInv, SingleFlight
<1> QED BY <1>0, <1>8, <1>9, <1>10, <1>11, <1>13, <1>14, <1>15 DEF IndInv

(* The initial state: no entry, no refresh, no answer.                       *)
LEMMA InitIndInv == Init => IndInv
<1> SUFFICES ASSUME Init PROVE IndInv
  OBVIOUS
<1>0. TypeOK
  BY InitTyped
<1>1. ASSUME NEW c \in Callers
      PROVE  /\ caller[c].pc = "idle" /\ caller[c].since = 0 /\ ~caller[c].result.ok
             /\ caller[c].key \in Keys
  BY DEF Init, Failure
<1>2. \A k \in Keys : ~cache[k].present /\ refreshing[k] = None /\ invalidated[k] = 0
  BY DEF Init, NoEntry
<1> QED BY <1>0, <1>1, <1>2 DEF IndInv, EntriesFresh, CallsBounded, Registration,
            RefreshFresh, ResultsFresh, WaitersHaveOwner, SingleFlight, InFlight

(* Every step keeps the inductive invariant.                                 *)
LEMMA Inductive == IndInv /\ [Next]_vars => IndInv'
<1> SUFFICES ASSUME IndInv, [Next]_vars PROVE IndInv'
  OBVIOUS
<1>1. CASE UNCHANGED vars
  <2>1. TypeOK'
    BY <1>1, NextTyped DEF IndInv
  <2> QED BY <1>1, <2>1 DEF vars, IndInv, EntriesFresh, CallsBounded, Registration,
             RefreshFresh, ResultsFresh, WaitersHaveOwner, SingleFlight, InFlight,
             CurrentVersion
<1>2. CASE Next
  BY <1>2, InvalidationFresh, ReturnsFresh, JoinFresh, OwnFresh, DiscoverFresh,
     FinishFresh DEF Next, CallStep
<1> QED BY <1>1, <1>2

(* Resolve never answers with a resolution that was read before an           *)
(* invalidation preceding the call, be it cached, shared or its own.         *)
THEOREM AnswersAreFresh == Spec => []NoStaleAnswer
<1>1. IndInv => NoStaleAnswer
  BY DEF IndInv, ResultsFresh, NoStaleAnswer
<1> QED BY <1>1, InitIndInv, Inductive, PTL DEF Spec

(* Two discovery requests under way for one key serve different versions.    *)
THEOREM OneRequestPerVersion == Spec => []SingleFlight
<1>1. IndInv => SingleFlight
  BY DEF IndInv
<1> QED BY <1>1, InitIndInv, Inductive, PTL DEF Spec

(* Nobody waits for a refresh whose owner has gone.                          *)
THEOREM WaitersAreServed == Spec => []WaitersHaveOwner
<1>1. IndInv => WaitersHaveOwner
  BY DEF IndInv
<1> QED BY <1>1, InitIndInv, Inductive, PTL DEF Spec
============================================================================
