------------------------------ MODULE MCTeam ------------------------------
(* Small instances of Team for TLC.                                        *)
EXTENDS Team

Orphaning == {[owned |-> FALSE, ann |-> "", spec |-> s] : s \in {"", "Delete"}}
Unset == {[owned |-> FALSE, ann |-> "", spec |-> ""]}

\* The first id sorts after the named one, the second before it.
Assigned == <<3, 1, 4, 5, 6>>
=============================================================================
