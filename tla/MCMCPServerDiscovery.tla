------------------------ MODULE MCMCPServerDiscovery ------------------------
(* Instances of MCPServerDiscovery for TLC.                                *)
EXTENDS MCPServerDiscovery, TLC

CONSTANTS n1, s1, s2, k1, k2

\* Two namespaces' objects, of two kinds, that derive the same child.
Kind == s1 :> k1 @@ s2 :> k2
OneChild == [s \in Sources |-> n1]
Ranks == s1 :> 1 @@ s2 :> 2
NoSpec == <<0, "none", "none">>

\* The first spec takes everything, the second one namespace and what a
\* pattern matches there, the third is invalid.
SomeFilters ==
  [d \in Discoveries |->
     [g \in 1 .. MaxUpsets + 1 |->
        [scope |-> IF g = 2 THEN {s1} ELSE Sources, include |-> IF g = 2 THEN {{n1}} ELSE {},
         exclude |-> {}, bad |-> g = 3]]]
=============================================================================
