-------------------------- MODULE MCDiscoveryCache --------------------------
(* Model-checking instance of DiscoveryCache: every key of one group/version. *)
EXTENDS DiscoveryCache, TLC

MCGroupVersion == [k \in Keys |-> "v1"]

Perms == Permutations(Keys) \cup Permutations(Callers)
============================================================================
