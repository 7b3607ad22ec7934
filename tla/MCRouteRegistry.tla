-------------------------- MODULE MCRouteRegistry --------------------------
(* Instances of RouteRegistry for TLC: the owners are interchangeable. *)
EXTENDS RouteRegistry, TLC

Perms == Permutations(Owners)
============================================================================
