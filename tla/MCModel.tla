------------------------------ MODULE MCModel ------------------------------
(* Instances of Model for TLC.                                             *)
EXTENDS Model
\* A resource under Delete and a discovery's child that asks for Delete.
BothPolicies == {[owned |-> FALSE, ann |-> "other", spec |-> "Delete"],
                 [owned |-> TRUE, ann |-> "", spec |-> "Delete"]}
DeletePolicy == {[owned |-> FALSE, ann |-> "", spec |-> "Delete"]}
=============================================================================
