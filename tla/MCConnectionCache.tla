------------------------- MODULE MCConnectionCache -------------------------
(* Small instance of ConnectionCache: two dependent kinds, so that a 401   *)
(* storm has a winner and a loser of the gate, and two or three changes of *)
(* LiteLLM's answers, so that a 401 can meet a probe made before it.       *)
EXTENDS ConnectionCache, TLC

Symmetry == Permutations(Dependents)
=============================================================================
