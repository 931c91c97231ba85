---------------------------- MODULE Convergence ----------------------------
(***************************************************************************)
(* Why a cluster at rest is as its users want it: the invariant behind     *)
(* RunsAtRest, ReachableAtRest and IngressWellFormed.  As long as          *)
(* something is missing for a Webapp, a notice of it is on its way: its    *)
(* last version has yet to reach the cache, its key waits in the queue, or *)
(* a reconcile that read this version has yet to make the call that        *)
(* supplies it.                                                            *)
(***************************************************************************)
EXTENDS WebappController

\* Some version of w will still be reconciled.
Unseen(w) == <<"webapp", w>> \in stale \/ w \in queue

\* The calls of a reconcile up to the one that supplies each thing.
UntilDeployed == Calls \ {"idle", "upsertService", "upsertProxy", "updateIngress"}
UntilServed   == UntilDeployed \cup {"upsertService"}
UntilProxied  == UntilServed \cup {"upsertProxy"}
UntilRouted   == UntilProxied \cup {"updateIngress"}

\* The reconcile of w is at one of these calls, or w is to be reconciled again.
Owes(w, calls) == Unseen(w) \/ (cur = w /\ pc \in calls)

\* What UpsertDeployment looks at: the deployment has the revision label of w.
Revised(w) ==
  /\ store.deployment[w] # None
  /\ Hash[store.deployment[w].spec] = Hash[store.webapp[w].spec]

\* A reconcile that no newer version waits behind works on the newest one.
WorksOnNewest == pc # "idle" /\ ~Unseen(cur) => obj = store.webapp[cur]

\* updateLabels writes something new, which will be noticed.
LabelsDiffer == pc = "updateLabels" => obj.label # Hash[obj.spec]

\* Only informers that lag have anything outstanding.
OnlyLaggyLag == \A kind \in Kinds : \A name \in Names(kind) :
                  <<kind, name>> \in stale => kind \in Laggy

NoticeInv == WorksOnNewest /\ LabelsDiffer /\ OnlyLaggyLag

\* The collector has no claim on what belongs to a Webapp that exists.
OwnersMatch ==
  \A kind \in {"deployment", "service"}, w \in Webapps :
    store[kind][w] # None /\ Live(w) => store[kind][w].owner = store.webapp[w].uid

RunsInv ==
  \A w \in Webapps : Live(w) =>
    /\ Owes(w, UntilDeployed) \/ Revised(w)
    /\ Owes(w, UntilServed) \/ Served(w)

\* From the call that reads it to the call that writes it, the ingress in memory
\* is the server's.
HoldsIngress ==
  pc \in {"deleteProxy", "pruneIngress"} \cup Upserts =>
    ing = store.ingress[Global]

ProxiedInv ==
  \A w \in Webapps : Live(w) => Owes(w, UntilProxied) \/ Proxied(w)

RoutedInv ==
  \A w \in Webapps : Live(w) =>
    \/ Owes(w, UntilRouted)
    \/ Routed(w) /\ ~store.webapp[w].deleting

ConvergenceInv ==
  NoticeInv /\ OwnersMatch /\ RunsInv /\ HoldsIngress /\ ProxiedInv /\ RoutedInv

\* An ingress in the shape that finalizeWebapp's index arithmetic relies on.
Shaped(ingress) ==
  ingress # None => ingress.rules # << >> /\ WellFormed(ingress.rules)

\* Wherever the ingress is kept, at the server, in the cache or in memory, it has
\* the shape that IngressWellFormed asks for.
ShapeInv ==
  Shaped(store.ingress[Global]) /\ Shaped(cache.ingress[Global]) /\ Shaped(ing)

-----------------------------------------------------------------------------
\* The name of w has been used before.
Reused(w) == births[w] > 1

\* No Webapp has gone or is to go.
NothingDeleted ==
  \A w \in Webapps : births[w] # 0 =>
    births[w] = 1 /\ Live(w) /\ ~store.webapp[w].deleting
=============================================================================
