---------------------------- MODULE MCModelAlias ----------------------------
(* Instances of ModelAlias for TLC.                                        *)
EXTENDS ModelAlias
=============================================================================
