----------------------------- MODULE MCSelection ----------------------------
(* Selection with two namespaces, of which 2 is a system namespace by       *)
(* default; objects 1, 2 and 3 live in 1, object 4 in 2.                     *)
EXTENDS Selection

MCHome == [o \in 1 .. 4 |-> IF o <= 3 THEN 1 ELSE 2]

MCSize == [o \in 1 .. 4 |-> IF o = 3 THEN 3 ELSE 1]

P == [wellFormed |-> TRUE, fits |-> TRUE, mode |-> "Explicit", include |-> {1, 2},
      exclude |-> {}, system |-> {}, kinds |-> {"Pod"}, allowClusterScoped |-> FALSE]

MCPolicies ==
    {{}, {[P EXCEPT !.wellFormed = FALSE]}, {[P EXCEPT !.fits = FALSE]},
     {[P EXCEPT !.kinds = {}]}}
    \cup {{[P EXCEPT !.kinds = {"Node"}, !.allowClusterScoped = b]} : b \in BOOLEAN}
    \cup {{[P EXCEPT !.mode = m, !.include = i, !.exclude = e, !.system = s]} :
             m \in Modes, i \in {{}, {2}}, e \in {{}, {2}}, s \in {{}, {{1}}}}

S == [kind |-> "Pod", namespaces |-> {}, selectors |-> TRUE, fields |-> FALSE]

MCSources ==
    {S, [S EXCEPT !.kind = "pod"], [S EXCEPT !.selectors = FALSE],
     [S EXCEPT !.kind = "Node"], [S EXCEPT !.kind = "Node", !.namespaces = {<<1>>}]}
    \cup {[S EXCEPT !.namespaces = {n}, !.fields = TRUE] :
             n \in {<<>>, <<2>>, <<2, 1>>, <<1, 1>>, <<3>>}}
=============================================================================
