---------------------------- MODULE MCListCache ----------------------------
(* Small instance of ListCache: three probing goroutines (a leader, a      *)
(* waiter and a newcomer that can lead between the leader's Clear and its  *)
(* Close), two mutating ones.                                              *)
EXTENDS ListCache, TLC

Symmetry == Permutations(Callers) \cup Permutations(Writers)
=============================================================================
