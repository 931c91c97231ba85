-------------------------------- MODULE Drift --------------------------------
(***************************************************************************)
(* The Webapp controller in a cluster where others change or delete what   *)
(* it generated.  Only Webapps are watched, so nothing tells it: what      *)
(* repairs the cluster is the resync of the informer, which sends every    *)
(* Webapp through Reconcile again.                                         *)
(***************************************************************************)
EXTENDS WebappController

\* Someone else puts o in the place of a generated object (None: deletes it).
Meddle(kind, name, o) ==
  /\ store[kind][name] # None
  /\ ops < MaxOps
  /\ ops' = ops + 1
  /\ Put(kind, name, o)
  /\ held' = held \ {<<kind, name>>}
  /\ UNCHANGED <<queue, births>>

DeletesGenerated ==
  \E kind \in {"deployment", "service", "proxy", "ingress"} :
    \E name \in Names(kind) : Meddle(kind, name, None)

\* What was rendered from one spec is made to look like that of another.
EditsGenerated ==
  \E kind \in {"service", "proxy"}, s \in Specs :
    \E name \in Names(kind) :
      /\ store[kind][name] # None
      /\ store[kind][name].spec # s
      /\ Meddle(kind, name, [store[kind][name] EXCEPT !.spec = s])

StripsLabels ==
  /\ store.ingress[Global] # None
  /\ store.ingress[Global].revision # None
  /\ Meddle("ingress", Global, [store.ingress[Global] EXCEPT !.revision = None])

\* A resync comes every ten hours: here, when nothing else is pending.
QuietResync == pc = "idle" /\ queue = {} /\ stale = {} /\ Resync

DriftNext ==
  \/ \E w \in Webapps : GetNothing(w) \/ Get(w)
  \/ ReconcileStep
  \/ ClusterStep
  \/ QuietResync
  \/ (DeletesGenerated \/ EditsGenerated \/ StripsLabels) /\ UNCHANGED <<jobVars, faults>>

DriftSpec == Init /\ [][DriftNext]_vars

\* As long as there are Webapps to resync there is always another resync.
DriftFairSpec == DriftSpec /\ Fairness /\ WF_vars(QuietResync)

-----------------------------------------------------------------------------
\* The ingress can be written: it has labels, or is yet to be created.
Writable ==
  store.ingress[Global] # None => store.ingress[Global].revision # None

\* Once users and others stop, each Webapp that exists runs as specified and is
\* reachable, whatever was deleted, edited, lost to a stale cache or collected
\* with an earlier Webapp of that name: every reconcile restores everything.
\* Only the routes are lost with the labels of the ingress.
SelfHeals ==
  \A w \in Webapps :
    <>[](Live(w) => /\ Deployed(w) /\ Served(w) /\ Proxied(w)
                    /\ Writable => Routed(w))

\* Once users and others stop, and as long as some Webapp exists, the shared
\* ingress routes to no Webapp that is gone: what finalization left behind
\* disappears with the next rewrite of the rules.
RoutesHeal ==
  <>[](Writable /\ (\E v \in Webapps : Live(v)) =>
         \A w \in Webapps : RoutesTo(ServerRules, ProxyName[w]) => Live(w))
=============================================================================
