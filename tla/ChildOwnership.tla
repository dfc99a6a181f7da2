-------------------------- MODULE ChildOwnership --------------------------
(***************************************************************************)
(* What the two discovery reconcilers promise about the objects they        *)
(* generate, and nothing about how: who holds each child name, and the only *)
(* ways a name changes hands.  A name comes into a discovery's hands only   *)
(* when nobody holds it.  What a user adopted by removing the owner         *)
(* reference, and what another discovery generated, is never taken back:    *)
(* the object has to go first.  The one overlap the code leaves open, a     *)
(* user's own object that appears between the ownership check and the       *)
(* create, is the action Overlap.  Discovery implements this module.        *)
(***************************************************************************)
CONSTANTS Names,    \* names of generated objects
          Parents   \* discoveries, each creation of one counted apart

Nobody   == <<"nobody", 0>>    \* no object has the name
Authored == <<"authored", 0>>  \* a user wrote the object
Adopted  == <<"adopted", 0>>   \* generated, then its owner reference removed
Holders  == Parents \cup {Nobody, Authored, Adopted}

VARIABLES holder,  \* [Names -> Holders]
          dying    \* names whose object waits for its finalizer

vars == <<holder, dying>>

Init == holder = [n \in Names |-> Nobody] /\ dying = {}

Take(n, h) == holder' = [holder EXCEPT ![n] = h]

\* A discovery generates, a user writes an object.
Generate(n) == holder[n] = Nobody /\ (\E p \in Parents : Take(n, p)) /\ UNCHANGED dying
Author(n) == holder[n] = Nobody /\ Take(n, Authored) /\ UNCHANGED dying

\* A user adopts a generated object.
Adopt(n) == holder[n] \in Parents /\ Take(n, Adopted) /\ UNCHANGED dying

\* A create without a version lands on what a user wrote meanwhile.
Overlap(n) == holder[n] = Authored /\ (\E p \in Parents : Take(n, p)) /\ UNCHANGED dying

Retire(n) == /\ holder[n] # Nobody /\ n \notin dying
             /\ dying' = dying \cup {n} /\ UNCHANGED holder

Leave(n) == n \in dying /\ Take(n, Nobody) /\ dying' = dying \ {n}

Next == \E n \in Names : \/ Generate(n) \/ Author(n) \/ Adopt(n) \/ Overlap(n)
                         \/ Retire(n) \/ Leave(n)

Spec == Init /\ [][Next]_vars
=============================================================================
