-------------------------- MODULE MCModelDiscovery --------------------------
(* Instances of ModelDiscovery for TLC.                                    *)
EXTENDS ModelDiscovery

Plain == [include |-> {}, exclude |-> {}, bad |-> "no"]

\* A changing Discovery's first spec keeps everything, the second nothing, the
\* third is invalid; the others' include patterns name every model.
SomeFilters ==
  [d \in Discoveries |->
     [g \in 1 .. MaxUpsets + 1 |->
        IF d \notin Changing THEN [Plain EXCEPT !.include = {{n} : n \in Names}]
        ELSE IF g = 2 THEN [Plain EXCEPT !.exclude = Names] ELSE [Plain EXCEPT !.bad = IF g > 2 THEN "pattern" ELSE "no"]]]
=============================================================================
