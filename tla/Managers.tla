------------------------------ MODULE Managers ------------------------------
(***************************************************************************)
(* Two managers whose Webapp controllers work on one cluster, as happens   *)
(* with more than one replica when leader election is off, its default.    *)
(* Each has caches, a work queue and a worker of its own; what they share  *)
(* is the API server.  Module WebappController stands for one of them, its *)
(* instance Other for the other.                                           *)
(***************************************************************************)
EXTENDS Convergence

VARIABLES
  cache2, stale2, held2, queue2,  \* the informers and the queue of the other
  pc2, cur2, obj2, ing2           \* and its reconcile

Other == INSTANCE Convergence WITH
  cache <- cache2, stale <- stale2, held <- held2, queue <- queue2,
  pc <- pc2, cur <- cur2, obj <- obj2, ing <- ing2

otherVars == <<cache2, stale2, held2, queue2, pc2, cur2, obj2, ing2>>
managersVars == <<vars, otherVars>>

ManagersInit == Init /\ Other!Init

\* What a step wrote outdates the cached copies of a manager that did not take it.
Written(k) == store'[k[1]][k[2]] # store[k[1]][k[2]]

CachedKeys == {k \in Keys : k[1] \in Laggy}

Outdated(s) == s \cup {k \in CachedKeys : Written(k)}

Refreshed(c) ==
  [kind \in Kinds |-> IF kind \in Laggy THEN c[kind] ELSE store'[kind]]

OtherWatches ==
  /\ stale2' = Outdated(stale2)
  /\ cache2' = Refreshed(cache2)
  /\ held2' = {k \in held2 : ~Written(k)}
  /\ UNCHANGED <<queue2, pc2, cur2, obj2, ing2>>

ThisWatches ==
  /\ stale' = Outdated(stale)
  /\ cache' = Refreshed(cache)
  /\ held' = {k \in held : ~Written(k)}
  /\ UNCHANGED <<queue, jobVars>>

\* What a call for w first gets and then writes.
Target(call, w) ==
  CASE call = "createNamespace"               -> {<<"namespace", Global>>}
    [] call = "upsertDeployment"              -> {<<"deployment", w>>}
    [] call = "upsertService"                 -> {<<"service", w>>}
    [] call \in {"deleteProxy", "upsertProxy"} -> {<<"proxy", ProxyName[w]>>}
    [] OTHER                                  -> {}

\* Both are at calls that write the same object: whoever is second may have got it
\* before the first wrote it, and is then refused.
MayCollide == Target(pc, cur) \cap Target(pc2, cur2) # {}

ThisTurn ==
  /\ \/ \E w \in Webapps : GetNothing(w) \/ Get(w)
     \/ ReconcileStep
     \/ MayCollide /\ Fails
     \/ ClusterStep
  /\ OtherWatches

OtherDeliver ==
  /\ \E kind \in Kinds : \E name \in Names(kind) : Other!Deliver(kind, name)
  /\ UNCHANGED <<pc2, cur2, obj2, ing2, faults>>

OtherTurn ==
  /\ \/ \E w \in Webapps : Other!GetNothing(w) \/ Other!Get(w)
     \/ Other!ReconcileStep
     \/ MayCollide /\ Other!Fails
     \/ OtherDeliver
  /\ ThisWatches

ManagersNext == ThisTurn \/ OtherTurn

ManagersSpec == ManagersInit /\ [][ManagersNext]_managersVars

\* Neither is misled by an outdated ingress or by an outdated deployment.
BothReadFresh ==
  /\ FreshIngressRead /\ Other!FreshIngressRead
  /\ FreshDeploymentRead /\ Other!FreshDeploymentRead

-----------------------------------------------------------------------------
\* When both managers have settled, and no Webapp was deleted, each Webapp runs as
\* specified and is reachable: neither has undone what the other did from a copy
\* that was newer, for every event reaches both and who writes late reconciles
\* again.
ManagersAgree ==
  AtRest /\ Other!AtRest /\ NothingDeleted =>
    \A w \in Webapps :
      Live(w) => Deployed(w) /\ Served(w) /\ Proxied(w) /\ Routed(w)

\* One of the two has still to reconcile w, or to make one of these calls for it.
Owed(w, calls) == Owes(w, calls) \/ Other!Owes(w, calls)

\* Neither relies on what the other is doing: as long as something of a Webapp is
\* missing, or is not of its current spec, one of the two is on the way to supply
\* it, however late the one that wrote last.  A late one can only leave behind the
\* deployment or the service of an earlier Webapp of the same name, which is then
\* collected; and what finalizeWebapp deletes may be the ingress that the other
\* one has just filled.
NothingForgotten ==
  \A w \in Webapps : Live(w) =>
    /\ Owed(w, UntilDeployed) \/ Revised(w) \/ (Reused(w) /\ store.deployment[w] = None)
    /\ Owed(w, UntilServed) \/ Served(w) \/ (Reused(w) /\ store.service[w] = None)
    /\ Owed(w, UntilProxied) \/ Proxied(w)
    /\ Owed(w, UntilRouted) \/ Routed(w) \/ ~NothingDeleted

\* Two controllers that write whole Webapps from their own cached copies still
\* leave the decisions to the users: no spec is reverted, no Webapp revived, none
\* removed unasked.
UsersDecideForBoth == [][UsersDecide]_managersVars
=============================================================================
