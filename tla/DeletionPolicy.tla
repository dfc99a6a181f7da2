--------------------------- MODULE DeletionPolicy ---------------------------
(***************************************************************************)
(* Who may leave without LiteLLM's word: the policy resolver of             *)
(* internal/controller/deletionpolicy/resolver.go and the ack-missing       *)
(* decision of internal/controller/shared_helpers.go.                       *)
(***************************************************************************)

Policies == {"Delete", "Orphan"}

\* A spec or annotation value: a policy, absent, or anything else.
Written == Policies \cup {"", "other"}

\* parse: whether the value names a policy.
Parses(v) == v \in Policies

\* Resolve: a discovery's child is Orphan; then the annotation, then the spec,
\* then Orphan.
Resolve(owned, annotation, spec) ==
  CASE owned                             -> "Orphan"
    [] ~owned /\ Parses(annotation)      -> annotation
    [] ~owned /\ ~Parses(annotation)     -> IF Parses(spec) THEN spec ELSE "Orphan"

\* Wrong variant of AckUnavailable: an unusable connection always comes back.
AckNever(reason) == FALSE

\* ackUnavailable: only the deletion of the connection is permanent.
AckUnavailable(reason) == reason = "Absent"

\* newAckMissingFn: the delete could not be confirmed; the finalizer may be
\* dropped only under Orphan, and only if retrying could never succeed.
MayDrain(policy, permanent) == policy # "Delete" /\ permanent
=============================================================================
