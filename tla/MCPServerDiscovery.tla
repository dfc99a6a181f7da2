------------------------- MODULE MCPServerDiscovery -------------------------
(***************************************************************************)
(* The LiteLLMMCPServerDiscovery reconciler,                                *)
(* internal/controller/mcpserverdiscovery_controller.go, with the lazy      *)
(* ToolHive informer it reads, internal/toolhive/informer.go: it derives    *)
(* one LiteLLMMCPServer from each ToolHive object of the kinds and          *)
(* namespaces selected, where objects of several namespaces may ask for the *)
(* same child name.                                                        *)
(***************************************************************************)
EXTENDS Discovery

CONSTANTS Kinds,      \* ToolHive kinds
          Sources,    \* ToolHive objects
          KindOf,     \* the kind of each
          ChildOf,    \* the child name each derives
          Order,      \* the place of each in (namespace, name) order
          Filter      \* what each generation of each Discovery's spec asks for

\* scope: the objects of the kinds and namespaces selected; include, exclude
\* and bad as patterns over child names.
Filters == [scope : SUBSET Sources, include : SUBSET SUBSET Names,
            exclude : SUBSET Names, bad : BOOLEAN]

\* status.url and status.transport of an object: gone, no address yet, a
\* transport LiteLLM does not speak, or one it does.
Shapes == {"gone", "nourl", "stdio", "", "http", "streamable-http", "sse"}

ASSUME MCPServerDiscoveryAssumption ==
  /\ KindOf \in [Sources -> Kinds] /\ ChildOf \in [Sources -> Names]
  /\ Order \in [Sources -> Nat] /\ \A s, t \in Sources : Order[s] = Order[t] => s = t
  /\ Filter \in [Discoveries -> [1 .. MaxUpsets + 1 -> Filters]]

VARIABLES crds,     \* kinds whose CRD serves v1beta1 (external)
          shape,    \* the ToolHive objects (external)
          kindReady, ready,   \* the informer's registered kinds; all of them
          derived   \* the spec the reconcile in progress derived for each name

hiveVars == <<crds, shape, kindReady, ready>>
vars == <<coreVars, hiveVars, derived>>

Rendered == (Gens \X Sources \X {"http", "sse"}) \cup {UserSpec}

TypeOK ==
  /\ CoreTypeOK
  /\ \A n \in Names : {child[n].spec, seen[n].spec, derived[n]} \subseteq Rendered
  /\ crds \subseteq Kinds /\ kindReady \subseteq crds /\ ready \in BOOLEAN
  /\ ready <=> kindReady = Kinds
  /\ shape \in [Sources -> Shapes]

Init ==
  /\ CoreInit
  /\ crds \in {Kinds \ {k} : k \in Kinds}
  /\ shape \in [Sources -> {"gone", "http"}]
  /\ \A s \in Sources : KindOf[s] \notin crds => shape[s] = "gone"
  /\ kindReady = {} /\ ready = FALSE
  /\ derived = [n \in Names |-> UserSpec]

Quiet(A) == A /\ UNCHANGED <<hiveVars, derived>>

-----------------------------------------------------------------------------
(* The informer.                                                           *)

\* Start, then retryLoop every minute: each kind on its own, ready with all.
TryRegister ==
  /\ ~ready /\ kindReady # crds
  /\ kindReady' = crds
  /\ ready' = (crds = Kinds)
  /\ UNCHANGED <<coreVars, crds, shape, derived>>

-----------------------------------------------------------------------------
(* Reconcile: the source.                                                  *)

F == Filter[w.d][w.m.gen]

\* normalizeTransport.
Transport(t) == IF t = "sse" THEN "sse" ELSE "http"
Speaks(t) == t \in {"", "http", "streamable-http", "sse"}

\* Of the objects in scope that ask for one child name the last in order wins;
\* only then is it looked at: without address or transport the name is
\* passed over, and so is the loser.
Listed(f) == {s \in f.scope : shape[s] # "gone"}
Winner(f, n) == CHOOSE s \in Listed(f) : /\ ChildOf[s] = n
                                         /\ \A t \in Listed(f) : ChildOf[t] = n => Order[t] <= Order[s]
Claimed(f) == {ChildOf[s] : s \in Listed(f)}
Candidates(f) == {n \in Claimed(f) : Speaks(shape[Winner(f, n)])}

\* A name with a loser is passed over too, as NameCollision, but written.
Passed(f) == (Claimed(f) \ Candidates(f))
             \cup {ChildOf[s] : s \in {t \in Listed(f) : t # Winner(f, ChildOf[t])}}

\* filters.Apply on the candidates' child names.
Unmatched(f) == {p \in f.include : p \cap Candidates(f) = {}}
Kept(f) == (IF f.include = {} THEN Candidates(f) ELSE Candidates(f) \cap UNION f.include) \ f.exclude

\* No informer: look again in a minute.  A failed List, of the objects or of
\* the children, touches no child.  An invalid pattern or one that matches
\* nothing waits for the next refresh.
SourceFails ==
  /\ w.pc = "source"
  /\ \/ ~ready /\ WriteReady("SourceUnreachable") /\ Return(FALSE, "soon")
     \/ /\ ready /\ Fault
        /\ Stamp("SourceUnreachable") /\ UNCHANGED dropped /\ Return(TRUE, "none")
     \/ ready /\ Fault /\ UNCHANGED mdVars /\ Return(TRUE, "none")
     \/ ready /\ F.bad /\ WriteReady("InvalidConfig") /\ Return(FALSE, "refresh")
     \/ /\ ready /\ ~F.bad /\ Unmatched(F) # {}
        /\ WriteReady("UpstreamInvalid") /\ Return(FALSE, "refresh")
  /\ UNCHANGED <<childVars, hiveVars, derived>>

\* Wrong variant: the first in order wins.
DeriveServersFirst ==
  LET First(n) == CHOOSE s \in Listed(F) : /\ ChildOf[s] = n
                    /\ \A t \in Listed(F) : ChildOf[t] = n => Order[s] <= Order[t] IN
  /\ w.pc = "source" /\ ready /\ ~F.bad /\ Unmatched(F) = {}
  /\ w' = Enumerated(Kept(F), Passed(F))
  /\ derived' = [n \in Names |-> IF n \in Kept(F)
                                   THEN <<w.m.gen, First(n), Transport(shape[First(n)])>>
                                   ELSE UserSpec]
  /\ UNCHANGED <<mdVars, childVars, queue, timer, upsets, hiveVars>>

DeriveServers ==
  /\ w.pc = "source" /\ ready /\ ~F.bad /\ Unmatched(F) = {}
  /\ w' = Enumerated(Kept(F), Passed(F))
  /\ derived' = [n \in Names |-> IF n \in Kept(F)
                                   THEN <<w.m.gen, Winner(F, n), Transport(shape[Winner(F, n)])>>
                                   ELSE UserSpec]
  /\ UNCHANGED <<mdVars, childVars, queue, timer, upsets, hiveVars>>

-----------------------------------------------------------------------------
(* Reconcile: children and status.                                         *)

Classify == Quiet(ClassifyChild("skipped"))
Apply == Quiet(ApplyChild(derived[w.n], "skipped", "pending"))

Finish ==
  \/ /\ w.pc = "write" /\ w.todo = {} /\ Doomed = {}
     /\ w' = Closing(Result)
     /\ derived' = [n \in Names |-> UserSpec]
     /\ UNCHANGED <<mdVars, childVars, queue, timer, upsets, hiveVars>>
  \/ /\ w.pc = "finish"
     /\ WriteStatus(w.m.ready)
     /\ UNCHANGED <<childVars, hiveVars, derived>>

Begins(d) == Quiet(Begin(d))
Reconcile == SourceFails \/ DeriveServers \/ Classify \/ Apply \/ Finish \/ Quiet(Proceed)

-----------------------------------------------------------------------------
(* The world around.                                                       *)

\* ToolHive objects come, go and change their status; a chart is installed.
Publish(s) ==
  /\ Upset /\ KindOf[s] \in crds
  /\ \E t \in Shapes \ {shape[s]} : shape' = [shape EXCEPT ![s] = t]
  /\ UNCHANGED <<mdVars, childVars, runVars, crds, kindReady, ready, derived>>

InstallCRD(k) ==
  /\ k \notin crds /\ crds' = crds \cup {k}
  /\ UNCHANGED <<coreVars, shape, kindReady, ready, derived>>

\* A restart takes the informer with it.
Restart ==
  /\ Crash
  /\ kindReady' = {} /\ ready' = FALSE
  /\ derived' = [n \in Names |-> UserSpec]
  /\ UNCHANGED <<crds, shape>>

Outside == \/ \E s \in Sources : Publish(s)
           \/ \E k \in Kinds : InstallCRD(k)
           \/ Restart \/ Quiet(Housekeeping)

Next == Reconcile \/ Outside \/ TryRegister \/ \E d \in Discoveries : Begins(d)

Spec == Init /\ [][Next]_vars

\* The worker goes on and starves nobody in its queue, watches deliver, delays
\* and the informer's retry interval end, the garbage collector and the
\* children's reconciler get round to their work.
Fairness ==
  /\ WF_vars(Reconcile) /\ WF_vars(TryRegister)
  /\ \A d \in Discoveries : /\ SF_vars(Begins(d))
                            /\ WF_vars(Quiet(Tick(d))) /\ WF_vars(Quiet(ObserveMD(d)))
  /\ \A n \in Names : /\ WF_vars(Quiet(Observe(n))) /\ WF_vars(Quiet(ChildGone(n)))
                      /\ WF_vars(Quiet(Collect(n)))
FairSpec == Spec /\ Fairness

-----------------------------------------------------------------------------
(* Properties.                                                             *)

\* Every candidate has a child: its own, rendered from the winning object, or
\* somebody else's.  What it owns besides was passed over for cause.
Populated(d, f) ==
  LET own == {n \in Names : child[n].owner = <<d, md[d].uid>>} IN
  /\ md[d].ready = "Synced"
  /\ own \subseteq Kept(f) \cup Passed(f)
  /\ \A n \in Kept(f) : child[n] # NoChild
  /\ \A n \in own \cap Kept(f) :
       child[n].spec = <<md[d].gen, Winner(f, n), Transport(shape[Winner(f, n)])>>

\* Once ToolHive is installed and things are left alone, a Discovery says
\* what is wrong with its spec, or is Populated, or is gone with all it owned,
\* unless it lost its refresh with a status write.
Converges ==
  <>[](crds = Kinds => \A d \in Discoveries \ dropped :
         IF md[d].st = "absent" THEN \A n \in Names : child[n].owner[1] # d
         ELSE LET f == Filter[d][md[d].gen] IN
              IF f.bad THEN md[d].ready = "InvalidConfig"
              ELSE IF Unmatched(f) # {} THEN md[d].ready = "UpstreamInvalid"
              ELSE Populated(d, f))
=============================================================================
