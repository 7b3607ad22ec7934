--------------------------- MODULE DiscoveryCache ---------------------------
(***************************************************************************)
(* The cache of the discovery resolver (internal/discovery/resolver.go).    *)
(* Callers resolve keys (an API group/version and a kind); concurrent       *)
(* misses of a key share one discovery request, the first caller being its  *)
(* owner; an invalidation advances a version, so that a request already     *)
(* under way is neither joined, nor retained, nor returned.                 *)
(*                                                                          *)
(* Each critical section of cacheMu is one action.  A refreshState is known *)
(* by its owner: it is only joined while its owner is at work, and closing  *)
(* done hands its result to the callers that wait for it.  What a resolution *)
(* says is abstracted to when it was read: after how many invalidations.    *)
(* Which idle entry a full cache evicts (the code: the least recently used) *)
(* and when an entry expires are left open.                                 *)
(***************************************************************************)
EXTENDS Naturals, FiniteSets

CONSTANTS
    Keys,               \* cache keys
    GroupVersions,      \* API group/versions
    GroupVersion,       \* the group/version of each key
    Callers,            \* the goroutines that resolve
    None,               \* no caller
    Capacity,           \* cacheCapacity
    MaxInvalidations    \* bound: invalidations of one key

ASSUME CacheAssumption ==
    /\ IsFiniteSet(Keys)
    /\ GroupVersion \in [Keys -> GroupVersions]
    /\ None \notin Callers
    /\ Capacity \in Nat \ {0}
    /\ MaxInvalidations \in Nat

VARIABLES
    cache,              \* r.cache
    refreshing,         \* r.refreshing: the owner of the registered refreshState
    invalidationEpoch,  \* r.invalidationEpoch
    keyEpoch,           \* r.keyEpoch
    caller,             \* caller[c]: the Resolve call of c
    invalidated         \* ghost: how often each key has been invalidated

vars == <<cache, refreshing, invalidationEpoch, keyEpoch, caller, invalidated>>

epochs == <<invalidationEpoch, keyEpoch, invalidated>>

----------------------------------------------------------------------------
Version == [all : Nat, key : Nat]

Entry == [present : BOOLEAN, asOf : Nat, version : Version, expired : BOOLEAN]

NoEntry == [present |-> FALSE, asOf |-> 0, version |-> [all |-> 0, key |-> 0],
            expired |-> FALSE]

Result == [ok : BOOLEAN, asOf : Nat]

Failure == [ok |-> FALSE, asOf |-> 0]

(* A call to Resolve:                                                       *)
(*   idle      returned, with result        begin   about to beginRefresh   *)
(*   wait      for the refreshState of on   woken   done is closed          *)
(*   discover  owner, sending the request   finish  about to finishRefresh  *)
(*   recheck   owner, about to compare the version again                    *)
Call == [pc : {"idle", "begin", "wait", "woken", "discover", "finish", "recheck"},
         key : Keys, version : Version, on : Callers \cup {None},
         result : Result, since : Nat]

Cached == {k \in Keys : cache[k].present}

TypeOK ==
    /\ cache \in [Keys -> Entry] /\ Cardinality(Cached) <= Capacity
    /\ refreshing \in [Keys -> Callers \cup {None}]
    /\ invalidationEpoch \in Nat
    /\ keyEpoch \in [Keys -> Nat]
    /\ caller \in [Callers -> Call]
    /\ invalidated \in [Keys -> Nat]

Init ==
    /\ cache = [k \in Keys |-> NoEntry]
    /\ refreshing = [k \in Keys |-> None]
    /\ invalidationEpoch = 0
    /\ keyEpoch = [k \in Keys |-> 0]
    /\ caller \in [Callers ->
         {[pc |-> "idle", key |-> k, version |-> NoEntry.version, on |-> None,
           result |-> Failure, since |-> 0] : k \in Keys}]
    /\ invalidated = [k \in Keys |-> 0]

(* versionLocked *)
CurrentVersion(k) == [all |-> invalidationEpoch, key |-> keyEpoch[k]]

Hit(k) == /\ cache[k].present
          /\ cache[k].version = CurrentVersion(k)
          /\ ~cache[k].expired

(* An entry of another version is deleted by whoever finds it. *)
Swept(k) ==
    IF cache[k].version # CurrentVersion(k)
    THEN [cache EXCEPT ![k] = NoEntry]
    ELSE cache

Answer(c, result) ==
    caller' = [caller EXCEPT ![c].pc = "idle", ![c].on = None, ![c].result = result]

----------------------------------------------------------------------------
(* Time and the invalidations. *)

Expire(k) ==
    /\ cache[k].present /\ ~cache[k].expired
    /\ cache' = [cache EXCEPT ![k].expired = TRUE]
    /\ UNCHANGED <<refreshing, epochs, caller>>

Invalidated(keys) ==
    /\ \A k \in keys : invalidated[k] < MaxInvalidations
    /\ invalidated' = [k \in Keys |-> IF k \in keys THEN invalidated[k] + 1
                                                    ELSE invalidated[k]]
    /\ cache' = [k \in Keys |-> IF k \in keys THEN NoEntry ELSE cache[k]]

(* Mutant: a key that is being refreshed keeps its epoch. *)
InvalidateRetained(g) ==
    LET kinds == {k \in Keys : GroupVersion[k] = g}
    IN  /\ Invalidated(kinds)
        /\ keyEpoch' = [k \in Keys |->
             IF k \in kinds /\ cache[k].present
             THEN keyEpoch[k] + 1 ELSE keyEpoch[k]]
        /\ UNCHANGED <<refreshing, invalidationEpoch, caller>>

(* Only the keys in use advance their epoch. *)
InvalidateGroupVersion(g) ==
    LET kinds == {k \in Keys : GroupVersion[k] = g}
    IN  /\ Invalidated(kinds)
        /\ keyEpoch' = [k \in Keys |->
             IF k \in kinds /\ (cache[k].present \/ refreshing[k] # None)
             THEN keyEpoch[k] + 1 ELSE keyEpoch[k]]
        /\ UNCHANGED <<refreshing, invalidationEpoch, caller>>

InvalidateResource(k) ==
    /\ Invalidated({k})
    /\ keyEpoch' = [keyEpoch EXCEPT ![k] = @ + 1]
    /\ UNCHANGED <<refreshing, invalidationEpoch, caller>>

InvalidateAll ==
    /\ Invalidated(Keys)
    /\ invalidationEpoch' = invalidationEpoch + 1
    /\ UNCHANGED <<refreshing, keyEpoch, caller>>

----------------------------------------------------------------------------
(* Resolve: a fresh entry, or a refresh. *)

Resolve(c, k) ==
    /\ caller[c].pc = "idle"
    /\ caller' = [caller EXCEPT
         ![c] = [pc |-> IF Hit(k) THEN "idle" ELSE "begin", key |-> k,
                 version |-> NoEntry.version, on |-> None,
                 result |-> IF Hit(k) THEN [ok |-> TRUE, asOf |-> cache[k].asOf]
                                      ELSE Failure,
                 since |-> invalidated[k]]]
    /\ cache' = Swept(k)
    /\ UNCHANGED <<refreshing, epochs>>

(* beginRefresh: an entry that has come in meanwhile, ... *)
BeginHit(c) ==
    LET k == caller[c].key
    IN  /\ caller[c].pc = "begin"
        /\ Hit(k)
        /\ Answer(c, [ok |-> TRUE, asOf |-> cache[k].asOf])
        /\ UNCHANGED <<cache, refreshing, epochs>>

Joinable(k) ==
    /\ refreshing[k] # None
    /\ caller[refreshing[k]].version = CurrentVersion(k)

(* ... a refresh of the same version to wait for, ... *)
BeginJoin(c) ==
    LET k == caller[c].key
    IN  /\ caller[c].pc = "begin"
        /\ ~Hit(k) /\ Joinable(k)
        /\ caller' = [caller EXCEPT ![c].pc = "wait", ![c].on = refreshing[k]]
        /\ cache' = Swept(k)
        /\ UNCHANGED <<refreshing, epochs>>

(* Mutant: a refresh of another version is left registered. *)
BeginOwnBeside(c) ==
    LET k == caller[c].key
    IN  /\ caller[c].pc = "begin"
        /\ ~Hit(k) /\ ~Joinable(k)
        /\ caller' = [caller EXCEPT ![c].pc = "discover",
                                    ![c].version = CurrentVersion(k)]
        /\ cache' = Swept(k)
        /\ refreshing' = [refreshing EXCEPT ![k] = IF @ = None THEN c ELSE @]
        /\ UNCHANGED epochs

(* ... or its own, which takes the place of one of another version. *)
BeginOwn(c) ==
    LET k == caller[c].key
    IN  /\ caller[c].pc = "begin"
        /\ ~Hit(k) /\ ~Joinable(k)
        /\ caller' = [caller EXCEPT ![c].pc = "discover",
                                    ![c].version = CurrentVersion(k)]
        /\ cache' = Swept(k)
        /\ refreshing' = [refreshing EXCEPT ![k] = c]
        /\ UNCHANGED epochs

(* resolveFromDiscovery: the resource, or an error (no match, several       *)
(* matches, a failed request, the owner's context ended).                   *)
Discover(c) ==
    /\ caller[c].pc = "discover"
    /\ \E result \in {Failure, [ok |-> TRUE, asOf |-> invalidated[caller[c].key]]} :
         caller' = [caller EXCEPT ![c].pc = "finish", ![c].result = result]
    /\ UNCHANGED <<cache, refreshing, epochs>>

(* Mutant: the cache is filled beyond its capacity. *)
RetainOneMore(k, entry) ==
    LET others == Cached \ {k}
        idle == {j \in others : refreshing[j] = None}
    IN  \/ /\ Cardinality(others) <= Capacity
           /\ cache' = [cache EXCEPT ![k] = entry]
        \/ /\ Cardinality(others) > Capacity /\ idle = {}
           /\ cache' = [cache EXCEPT ![k] = NoEntry]
        \/ /\ Cardinality(others) > Capacity
           /\ \E victim \in idle :
                cache' = [cache EXCEPT ![k] = entry, ![victim] = NoEntry]

(* retainEntryLocked: a full cache evicts an entry that is not refreshing,  *)
(* or does without the new one.                                             *)
Retain(k, entry) ==
    LET others == Cached \ {k}
        idle == {j \in others : refreshing[j] = None}
    IN  \/ /\ Cardinality(others) < Capacity
           /\ cache' = [cache EXCEPT ![k] = entry]
        \/ /\ Cardinality(others) >= Capacity /\ idle = {}
           /\ cache' = [cache EXCEPT ![k] = NoEntry]
        \/ /\ Cardinality(others) >= Capacity
           /\ \E victim \in idle :
                cache' = [cache EXCEPT ![k] = entry, ![victim] = NoEntry]

(* Mutant: a refresh that was displaced leaves its waiters waiting. *)
ReleasedIfRegistered(c) ==
    [d \in Callers |->
        IF caller[d].pc = "wait" /\ caller[d].on = c
           /\ refreshing[caller[c].key] = c
        THEN [caller[d] EXCEPT !.pc = "woken", !.result = caller[c].result,
                               !.version = caller[c].version]
        ELSE caller[d]]

(* close(state.done): the waiters have the entry, the error and the version. *)
Released(c) ==
    [d \in Callers |->
        IF caller[d].pc = "wait" /\ caller[d].on = c
        THEN [caller[d] EXCEPT !.pc = "woken", !.result = caller[c].result,
                               !.version = caller[c].version]
        ELSE caller[d]]

(* finishRefresh, and the owner's return when the request failed. *)
FinishRefresh(c) ==
    LET k == caller[c].key
        retained == /\ refreshing[k] = c
                    /\ caller[c].result.ok
                    /\ caller[c].version = CurrentVersion(k)
    IN  /\ caller[c].pc = "finish"
        /\ \/ retained /\ Retain(k, [present |-> TRUE, expired |-> FALSE,
                                     asOf |-> caller[c].result.asOf,
                                     version |-> caller[c].version])
           \/ ~retained /\ UNCHANGED cache
        /\ refreshing' = [refreshing EXCEPT ![k] = IF @ = c THEN None ELSE @]
        /\ caller' = [Released(c) EXCEPT
             ![c].pc = IF caller[c].result.ok THEN "recheck" ELSE "idle"]
        /\ UNCHANGED epochs

(* refreshVersionCurrent, by the owner and by its waiters: an answer that   *)
(* was invalidated meanwhile is resolved again.                             *)
Recheck(c) ==
    /\ caller[c].pc \in {"recheck", "woken"}
    /\ IF caller[c].version = CurrentVersion(caller[c].key)
       THEN Answer(c, caller[c].result)
       ELSE caller' = [caller EXCEPT ![c].pc = "begin", ![c].on = None,
                                     ![c].result = Failure]
    /\ UNCHANGED <<cache, refreshing, epochs>>

(* The waiting caller's own context ends. *)
WaitCancelled(c) ==
    /\ caller[c].pc = "wait"
    /\ Answer(c, Failure)
    /\ UNCHANGED <<cache, refreshing, epochs>>

----------------------------------------------------------------------------
CallStep(c) ==
    \/ BeginHit(c) \/ BeginJoin(c) \/ BeginOwn(c) \/ Discover(c)
    \/ FinishRefresh(c) \/ Recheck(c)

Next ==
    \/ \E c \in Callers : \/ \E k \in Keys : Resolve(c, k)
                          \/ CallStep(c) \/ WaitCancelled(c)
    \/ \E k \in Keys : Expire(k) \/ InvalidateResource(k)
    \/ \E g \in GroupVersions : InvalidateGroupVersion(g)
    \/ InvalidateAll

Spec == Init /\ [][Next]_vars

----------------------------------------------------------------------------
(* A resolution is never older than the call it answers: whatever entry or   *)
(* shared request Resolve returns was read after the last invalidation that  *)
(* preceded the call.                                                        *)
NoStaleAnswer ==
    \A c \in Callers :
        caller[c].pc = "idle" /\ caller[c].result.ok
            => caller[c].result.asOf >= caller[c].since

InFlight(c) == caller[c].pc \in {"discover", "finish"}

(* One request per key and version: two owners at work on one key differ in  *)
(* the version they serve, an invalidation having come between them.         *)
SingleFlight ==
    \A c, d \in Callers :
        c # d /\ InFlight(c) /\ InFlight(d) /\ caller[c].key = caller[d].key
            => caller[c].version # caller[d].version

(* A caller that waits for a refresh waits for an owner that is at work on   *)
(* its key and will close done, even when an invalidation has displaced it.  *)
WaitersHaveOwner ==
    \A c \in Callers :
        caller[c].pc = "wait" =>
            /\ caller[c].on \in Callers
            /\ InFlight(caller[c].on)
            /\ caller[caller[c].on].key = caller[c].key
============================================================================
