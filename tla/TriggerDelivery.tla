-------------------------- MODULE TriggerDelivery --------------------------
(***************************************************************************)
(* What the trigger ingress promises, whatever the queues, flags and        *)
(* goroutines it is made of: from the moment a Facet is triggered until it   *)
(* is put on the work queue, something in the ingress carries it, and       *)
(* nothing but that, its deletion or shutdown lets go of a Facet that is    *)
(* carried.  More may be carried than is owed: an enqueue-all carries every *)
(* Facet.                                                                   *)
(***************************************************************************)
CONSTANT Keys

VARIABLES
    facets,      \* the Facets that exist
    owed,        \* those triggered since they were last put on the queue
    carried,     \* those the ingress has in its hands
    stopped      \* the controller is shutting down

vars == <<facets, owed, carried, stopped>>

Init == facets = {} /\ owed = {} /\ carried = {} /\ stopped = FALSE

Created(k) ==
    /\ facets' = facets \cup {k}
    /\ carried' \in {carried, carried \cup {k}}
    /\ UNCHANGED <<owed, stopped>>

Deleted(k) ==
    /\ facets' = facets \ {k} /\ owed' = owed \ {k} /\ carried' = carried \ {k}
    /\ UNCHANGED stopped

(* One Facet is triggered, or all are; a name nobody has, none.             *)
Triggered(ks) ==
    /\ ks \subseteq facets
    /\ owed' = owed \cup ks
    /\ carried \cup ks \subseteq carried' /\ carried' \subseteq facets
    /\ UNCHANGED <<facets, stopped>>

Queued(k) ==
    /\ owed' = owed \ {k}
    /\ carried' \in {carried, carried \ {k}}
    /\ UNCHANGED <<facets, stopped>>

Stop == stopped' = TRUE /\ UNCHANGED <<facets, owed, carried>>

(* After shutdown the ingress may let go of anything.                       *)
Dropped ==
    /\ stopped
    /\ carried' \subseteq carried
    /\ UNCHANGED <<facets, owed, stopped>>

Next ==
    \/ \E k \in Keys : Created(k) \/ Deleted(k) \/ Queued(k)
    \/ \E ks \in SUBSET Keys : Triggered(ks)
    \/ Stop
    \/ Dropped

Spec == Init /\ [][Next]_vars
============================================================================
