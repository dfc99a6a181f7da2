--------------------------- MODULE ModelDiscovery ---------------------------
(***************************************************************************)
(* The LiteLLMModelDiscovery reconciler,                                    *)
(* internal/controller/modeldiscovery_controller.go and                     *)
(* modeldiscovery_aliases.go: it lists one provider's models, filters them  *)
(* and keeps one LiteLLMModel per candidate, plus the LiteLLMModelAlias     *)
(* object its alias rules ask for.  A candidate is its child name; a        *)
(* rendered spec is the Discovery's generation.                             *)
(***************************************************************************)
EXTENDS Discovery

CONSTANTS Filter,    \* what each generation of each Discovery's spec asks for
          Aliased,   \* names that spec.aliases match
          Agents     \* Discoveries of type a2a: their source is watched

\* include is a set of patterns, each the names it matches; bad tells an
\* invalid base URL from an invalid pattern, found only later.  Names are DNS-1123 subdomains: a
\* listed model whose name is not is skipped and can have no child.
Filters == [include : SUBSET SUBSET Names, exclude : SUBSET Names,
            bad : {"no", "url", "pattern"}]

ASSUME ModelDiscoveryAssumption ==
  /\ Filter \in [Discoveries -> [1 .. MaxUpsets + 1 -> Filters]]
  /\ Aliased \subseteq Names /\ Agents \subseteq Discoveries

VARIABLES upstream,   \* names the provider lists for each Discovery (external)
          source,     \* how its listing answers, or whether its Secret is there (external)
          alias       \* the alias object of each Discovery

srcVars == <<upstream, source>>
vars == <<coreVars, srcVars, alias>>

\* by is the uid of the controlling Discovery, 0 for an object a user wrote.
NoAlias == [on |-> FALSE, by |-> 0, to |-> {}]

TypeOK ==
  /\ CoreTypeOK
  /\ \A n \in Names : {child[n].spec, seen[n].spec} \subseteq Gens
  /\ upstream \in [Discoveries -> SUBSET Names]
  /\ source \in [Discoveries -> {"ok", "nosecret"}]
  /\ alias \in [Discoveries -> [on : BOOLEAN, by : Uids, to : SUBSET Names]]

Init ==
  /\ CoreInit
  /\ upstream = [d \in Discoveries |-> Names]
  /\ source = [d \in Discoveries |-> "ok"]
  /\ alias = [d \in Discoveries |-> NoAlias]

-----------------------------------------------------------------------------
(* The source: credentials, provider.List, filters.                        *)

\* filters.ApplyWithAliases: every include pattern must match something, no
\* pattern at all admits everything, excludes are taken away.
Unmatched(d, f) == {p \in f.include : p \cap upstream[d] = {}}
Kept(d, f) == (IF f.include = {} THEN upstream[d] ELSE upstream[d] \cap UNION f.include) \ f.exclude

F == Filter[w.d][w.m.gen]

\* InvalidConfig and UpstreamInvalid: nothing is requeued.  Patterns are
\* looked at once the provider has answered.
Answers == source[w.d] = "ok" /\ F.bad # "url"
Invalid == F.bad = "url" \/ (F.bad = "pattern" /\ Answers)

Misconfigured ==
  /\ w.pc = "source"
  /\ \/ Invalid /\ Park("InvalidConfig")
     \/ F.bad = "no" /\ Answers /\ Unmatched(w.d, F) # {} /\ Park("UpstreamInvalid")
  /\ UNCHANGED <<childVars, srcVars, alias>>

\* SecretNotFound is looked at again soon; an error of the listing is
\* returned, and so is one of the Secret's or the children's read, unmarked.
SourceFails ==
  /\ w.pc = "source" /\ F.bad # "url"
  /\ \/ source[w.d] = "nosecret" /\ WriteReady("SecretNotFound") /\ Return(FALSE, "soon")
     \/ /\ Answers /\ Fault
        /\ Stamp("SourceUnreachable") /\ UNCHANGED dropped /\ Return(TRUE, "none")
     \/ Fault /\ Return(TRUE, "none") /\ UNCHANGED mdVars
  /\ UNCHANGED <<childVars, srcVars, alias>>

ListModels ==
  /\ w.pc = "source" /\ F.bad = "no" /\ Answers /\ Unmatched(w.d, F) = {}
  /\ w' = Enumerated(Kept(w.d, F), {})
  /\ UNCHANGED <<mdVars, childVars, queue, timer, upsets, srcVars, alias>>

-----------------------------------------------------------------------------
(* The candidates: check the owner, then apply.                            *)

\* A candidate whose name another object still holds while it goes away is
\* tried again soon.
Classify == ClassifyChild("blocked") /\ UNCHANGED <<srcVars, alias>>
Apply == ApplyChild(w.m.gen, "blocked", "none") /\ UNCHANGED <<srcVars, alias>>

-----------------------------------------------------------------------------
(* Aliases and status.                                                     *)

Wanted == {n \in Aliased : w.out[n] = "generated"}

\* Wrong variant: an alias object nobody needs any more stays.
SyncAliasesNoPrune ==
  /\ w.pc = "write" /\ w.todo = {} /\ Doomed = {}
  /\ LET here == alias[w.d]
         mine == here.on /\ here.by = w.m.uid
         sync == IF Wanted # {} THEN [on |-> TRUE, by |-> w.m.uid, to |-> Wanted] ELSE here
     IN \/ /\ Wanted # {} /\ here.on => mine
           /\ alias' = [alias EXCEPT ![w.d] = sync]
           /\ w' = Closing(Result)
           /\ UNCHANGED upsets
        \/ /\ Wanted # {} /\ here.on /\ ~mine
           /\ w' = Closing("AliasWriteFailed")
           /\ UNCHANGED <<alias, upsets>>
        \/ /\ Fault
           /\ w' = Closing("AliasWriteFailed")
           /\ UNCHANGED alias
  /\ UNCHANGED <<mdVars, childVars, queue, timer, srcVars>>

\* syncDiscoveryAliases: refuse an alias object of somebody else's, apply
\* ours, delete ours when no entry is left.
SyncAliases ==
  /\ w.pc = "write" /\ w.todo = {} /\ Doomed = {}
  /\ LET here == alias[w.d]
         mine == here.on /\ here.by = w.m.uid
         sync == IF Wanted # {} THEN [on |-> TRUE, by |-> w.m.uid, to |-> Wanted]
                 ELSE IF mine THEN NoAlias ELSE here
     IN \/ /\ Wanted # {} /\ here.on => mine
           /\ alias' = [alias EXCEPT ![w.d] = sync]
           /\ w' = Closing(Result)
           /\ UNCHANGED upsets
        \/ /\ Wanted # {} /\ here.on /\ ~mine
           /\ w' = Closing("AliasWriteFailed")
           /\ UNCHANGED <<alias, upsets>>
        \/ /\ Fault
           /\ w' = Closing("AliasWriteFailed")
           /\ UNCHANGED alias
  /\ UNCHANGED <<mdVars, childVars, queue, timer, srcVars>>

Finish ==
  /\ w.pc = "finish"
  /\ WriteStatus(w.m.ready)
  /\ UNCHANGED <<childVars, srcVars, alias>>

Quiet(A) == A /\ UNCHANGED <<srcVars, alias>>

Reconcile == \/ Misconfigured \/ SourceFails \/ ListModels \/ Classify \/ Apply
             \/ SyncAliases \/ Finish \/ Quiet(Proceed)

-----------------------------------------------------------------------------
(* The world around.                                                       *)

\* The provider lists more or less; an a2a source is watched.
Publish(d) ==
  /\ Upset
  /\ \E n \in Names : upstream' = [upstream EXCEPT ![d] = (@ \cup {n}) \ (@ \cap {n})]
  /\ queue' = IF d \in Agents THEN queue \cup {d} ELSE queue
  /\ UNCHANGED <<mdVars, childVars, timer, w, source, alias>>

\* The Secret comes or goes, which is watched.
SourceChange(d) ==
  /\ Upset /\ d \in Changing
  /\ source' = [source EXCEPT ![d] = IF @ = "ok" THEN "nosecret" ELSE "ok"]
  /\ queue' = queue \cup {d}
  /\ UNCHANGED <<mdVars, childVars, timer, w, upstream, alias>>

\* A user writes an alias object under the generated name.
UserAlias(d) ==
  /\ Upset
  /\ Aliased # {} /\ ~alias[d].on /\ d \in Changing
  /\ alias' = [alias EXCEPT ![d] = [NoAlias EXCEPT !.on = TRUE]]
  /\ UNCHANGED <<mdVars, childVars, runVars, srcVars>>

\* The garbage collector takes an alias object whose Discovery is gone.
CollectAlias(d) ==
  /\ alias[d].by # 0 /\ (md[d].st = "absent" \/ md[d].uid # alias[d].by)
  /\ alias' = [alias EXCEPT ![d] = NoAlias]
  /\ UNCHANGED <<coreVars, srcVars>>

Outside == \/ \E d \in Discoveries : Publish(d) \/ SourceChange(d) \/ UserAlias(d) \/ CollectAlias(d)
           \/ Quiet(Crash) \/ Quiet(Housekeeping)

Next == Reconcile \/ Outside \/ \E d \in Discoveries : Quiet(Begin(d))

Spec == Init /\ [][Next]_vars

\* What is going goes: children, their Discovery's event, its alias object.
Settles == \/ \E d \in Discoveries : Quiet(ObserveMD(d)) \/ CollectAlias(d)
           \/ \E n \in Names : Quiet(ChildGone(n) \/ Collect(n))

\* The worker goes on and starves nobody in its queue, delays end, watches
\* deliver, the garbage collector and the children's reconciler get round to it.
Fairness ==
  /\ WF_vars(Reconcile) /\ WF_vars(Settles)
  /\ \A d \in Discoveries : SF_vars(Quiet(Begin(d))) /\ WF_vars(Quiet(Tick(d)))
  /\ \A n \in Names : WF_vars(Quiet(Observe(n)))
FairSpec == Spec /\ Fairness

-----------------------------------------------------------------------------
(* Properties.                                                             *)

\* The spec is invalid, the status says so, and nothing is due.
Parked(d) ==
  md[d].st = "live" /\ md[d].obs = md[d].gen /\ md[d].ready \in {"InvalidConfig", "UpstreamInvalid"}

\* "Informer re-enqueues with fresh state": whatever refuses a status write
\* brings the Discovery back.  Not so: see RefreshPending.
ConflictRequeues == \A d \in Discoveries : md[d].st = "absent" \/ Parked(d) \/ Attended(d)

\* A Discovery that does not wait for its spec to be edited has something
\* pending that brings it back to the worker, unless its last reconcile lost
\* its status write to a version that discoverySpecChanged filters out, or to
\* an error while it parked.  No edit, deletion or recreation that overtakes
\* a reconcile, no other error path and no restart ends the periodic refresh.
RefreshPending ==
  \A d \in Discoveries : md[d].st = "absent" \/ Parked(d) \/ Attended(d) \/ d \in dropped

\* Every candidate has a child, this Discovery's own as it renders it or one
\* of somebody else's; no other child is its own, and its aliases point at
\* the children it generates.
Populated(d) ==
  LET own == {n \in Names : child[n].owner = <<d, md[d].uid>>}
      want == Kept(d, Filter[d][md[d].gen]) IN
  /\ md[d].ready = IF alias[d].on /\ alias[d].by # md[d].uid /\ own \cap Aliased # {}
                     THEN "AliasWriteFailed" ELSE "Synced"
  /\ own \subseteq want
  /\ \A n \in want : child[n] # NoChild
  /\ \A n \in own : child[n].spec = md[d].gen /\ ~child[n].dying
  /\ alias[d].by = md[d].uid => alias[d].to = own \cap Aliased

\* Left alone with a source that answers, a Discovery ends up Populated, or
\* gone with everything it owned, unless it is parked or lost its refresh.
Converges ==
  <>[](\A d \in Discoveries :
         \/ source[d] # "ok" \/ Parked(d) \/ d \in dropped
         \/ md[d].st = "live" /\ Populated(d)
         \/ /\ md[d].st = "absent" /\ alias[d].by = 0
            /\ \A n \in Names : child[n].owner[1] # d)

\* Step 11: "Skipped names are STILL claimed by this Discovery - they
\* shouldn't be vanished just because the reconciler couldn't successfully
\* render them": no candidate the provider lists loses its child.
ListedNeverVanishes ==
  [][\A n \in Names :
       w.pc = "write" /\ ~child[n].dying /\ child'[n].dying /\ w'.mine # w.mine
         => n \notin w.kept]_vars
=============================================================================
