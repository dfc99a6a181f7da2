---------------------------- MODULE MCMCPServer ----------------------------
(* Instances of MCPServer for TLC. *)
EXTENDS MCPServer

\* Both deletion policies.
BothPolicies == {"Delete", "Orphan"}
=============================================================================
