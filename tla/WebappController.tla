-------------------------- MODULE WebappController --------------------------
(***************************************************************************)
(* WebappReconciler: one worker that takes Webapp keys from a work queue   *)
(* and runs Reconcile on them, one API call per action.  What a reconcile  *)
(* holds in memory (the Webapp and the global ingress it read from the     *)
(* cache) outlives the cached values it was read from; a call that returns *)
(* an error, and a panic, which controller-runtime recovers, puts the key  *)
(* back into the queue and leaves what was written before in place.        *)
(***************************************************************************)
EXTENDS Cluster, IngressRules

CONSTANTS
  MaxFaults,  \* bound on failed API calls and restarts of the manager
  Resyncs     \* whether the informers resync (every 10 hours by default)

ASSUME BoundsAssumption == MaxFaults \in Nat /\ Resyncs \in BOOLEAN

VARIABLES
  pc,      \* the call Reconcile makes next
  cur,     \* the key being reconciled
  obj,     \* the Webapp in memory
  ing,     \* the ingress in memory; None when it is yet to be created
  faults   \* failed calls and restarts so far

jobVars == <<pc, cur, obj, ing>>
vars == <<clusterVars, jobVars, faults>>

Calls == {"idle", "updateLabels", "addFinalizer", "createNamespace",
          "readIngress", "deleteProxy", "pruneIngress", "removeFinalizer",
          "upsertDeployment", "upsertService", "upsertProxy", "updateIngress"}

TypeOK ==
  /\ ClusterTypeOK
  /\ pc \in Calls
  /\ cur \in Webapps \cup {None}
  /\ obj \in WebappObject \cup {None}
  /\ ing \in IngressObject \cup {None}
  /\ faults \in Nat

Init ==
  /\ ClusterInit
  /\ pc = "idle"
  /\ cur = None
  /\ obj = None
  /\ ing = None
  /\ faults = 0

-----------------------------------------------------------------------------
\* How a Reconcile ends: the result and what it held are dropped.
Drop == pc' = "idle" /\ cur' = None /\ obj' = None /\ ing' = None /\ held' = {}

\* (Mutant of Done: a Result that asks for another round.)
DoneAndRequeue == Drop /\ queue' = queue \cup {cur} /\ UNCHANGED <<births, ops, faults>>

Done  == Drop /\ UNCHANGED <<queue, births, ops, faults>>
\* (Mutant of Retry: the key is read after it was reset.)
RetryReset == Drop /\ queue' = queue \cup {cur'} /\ UNCHANGED <<births, ops, faults>>

Retry == Drop /\ queue' = queue \cup {cur} /\ UNCHANGED <<births, ops, faults>>

\* (Mutant of Fails: the error is swallowed.)
FailsSilently == Unwritten /\ Done

\* An error before or instead of a write.
Fails == Unwritten /\ Retry

\* Reconcile goes on with call c.
Go(c) == pc' = c /\ UNCHANGED <<cur, queue, births, ops, faults>>

\* How the API server answers.  An Update is refused when the copy it sends
\* is outdated (or the object gone), a Create when the object exists.
Updatable(kind, name) == <<kind, name>> \in held
Creatable(kind, name) == store[kind][name] = None

\* Validation of what the code sends: a service needs ports and cannot call two
\* of them "http", and an ingress needs a rule and a path in every rule.
ValidService(s) == QuirkOf[s] \notin {"many ports", "no ports"}
ValidRules(rules) ==
  /\ rules # << >>
  /\ \A j \in DOMAIN rules : \A i \in DOMAIN rules[j].paths :
       QuirkOf[rules[j].paths[i].spec] # "no path"

\* strconv.ParseInt accepts the ports of spec s.
Parses(s) == QuirkOf[s] # "bad port"

-----------------------------------------------------------------------------
\* (Mutant of FirstCall: the finalizer is not added.)
FirstCallUnguarded(o) ==
  IF o.label # Hash[o.spec] THEN "updateLabels" ELSE "createNamespace"

\* The call after the two gates at the start of Reconcile.
FirstCall(o) ==
  IF o.label # Hash[o.spec] THEN "updateLabels"
  ELSE IF ~o.finalizer THEN "addFinalizer"
  ELSE "createNamespace"

\* The Webapp is gone from the cache: IgnoreNotFound.
GetNothing(w) ==
  /\ pc = "idle"
  /\ w \in queue
  /\ cache.webapp[w] = None
  /\ queue' = queue \ {w}
  /\ Unwritten
  /\ UNCHANGED <<jobVars, held, births, ops, faults>>

Get(w) ==
  /\ pc = "idle"
  /\ w \in queue
  /\ cache.webapp[w] # None
  /\ queue' = queue \ {w}
  /\ cur' = w
  /\ obj' = cache.webapp[w]
  /\ held' = IF Current("webapp", w) THEN {<<"webapp", w>>} ELSE {}
  /\ pc' = FirstCall(cache.webapp[w])
  /\ Unwritten
  /\ UNCHANGED <<ing, births, ops, faults>>

\* (Mutant of UpdateLabels: the object is sent without its resourceVersion.)
ForceLabels ==
  LET labelled == [obj EXCEPT !.label = Hash[obj.spec]] IN
  /\ pc = "updateLabels"
  /\ IF store.webapp[cur] # None /\ ValidWebapp(obj)
     THEN Put("webapp", cur, labelled) /\ Done
     ELSE Fails

\* Reconcile returns after a successful label update: the event that the
\* update causes starts the next one.
UpdateLabels ==
  LET labelled == [obj EXCEPT !.label = Hash[obj.spec]] IN
  /\ pc = "updateLabels"
  /\ IF Updatable("webapp", cur) /\ ValidWebapp(obj)
     THEN Put("webapp", cur, labelled) /\ Done
     ELSE Fails

\* (Mutant of AddFinalizer: an error of Update is ignored.)
AddFinalizerOrNot ==
  LET guarded == [obj EXCEPT !.finalizer = TRUE] IN
  /\ pc = "addFinalizer"
  /\ IF Updatable("webapp", cur) /\ ValidWebapp(obj)
     THEN Put("webapp", cur, guarded) ELSE Unwritten
  /\ obj' = guarded
  /\ Go("createNamespace")
  /\ UNCHANGED <<held, ing>>

\* (Mutant of AddFinalizer: the object is sent without its resourceVersion.)
ForceFinalizer ==
  LET guarded == [obj EXCEPT !.finalizer = TRUE] IN
  /\ pc = "addFinalizer"
  /\ IF store.webapp[cur] # None /\ ValidWebapp(obj)
     THEN /\ Put("webapp", cur, guarded)
          /\ obj' = guarded
          /\ Go("createNamespace")
          /\ UNCHANGED <<held, ing>>
     ELSE Fails

\* Reconcile goes on with the object the server returned.
AddFinalizer ==
  LET guarded == [obj EXCEPT !.finalizer = TRUE] IN
  /\ pc = "addFinalizer"
  /\ IF Updatable("webapp", cur) /\ ValidWebapp(obj)
     THEN /\ Put("webapp", cur, guarded)
          /\ obj' = guarded
          /\ Go("createNamespace")
          /\ UNCHANGED <<held, ing>>
     ELSE Fails

CreateNamespace ==
  /\ pc = "createNamespace"
  /\ \/ /\ cache.namespace[Global] # None
        /\ Unwritten
        /\ Go("readIngress") /\ UNCHANGED <<held, obj, ing>>
     \/ /\ cache.namespace[Global] = None
        /\ Creatable("namespace", Global)
        /\ Put("namespace", Global, [active |-> TRUE])
        /\ Go("readIngress") /\ UNCHANGED <<held, obj, ing>>
     \/ /\ cache.namespace[Global] = None
        /\ ~Creatable("namespace", Global)
        /\ Fails

\* (Mutant of ReadIngress: finalizeWebapp is not called.)
ReadIngressOnly ==
  /\ pc = "readIngress"
  /\ ing' = cache.ingress[Global]
  /\ held' = IF Current("ingress", Global)
             THEN held \cup {<<"ingress", Global>>} ELSE held
  /\ Go(IF obj.deleting THEN "removeFinalizer" ELSE "upsertDeployment")
  /\ Unwritten
  /\ UNCHANGED obj

\* createIngress creates nothing: it reads the ingress or prepares a new one.
ReadIngress ==
  /\ pc = "readIngress"
  /\ ing' = cache.ingress[Global]
  /\ held' = IF Current("ingress", Global)
             THEN held \cup {<<"ingress", Global>>} ELSE held
  /\ Go(IF obj.deleting THEN "deleteProxy" ELSE "upsertDeployment")
  /\ Unwritten
  /\ UNCHANGED obj

-----------------------------------------------------------------------------
\* finalizeWebapp, first half.  Without a proxy service in the cache it
\* returns nil at once and the ingress is left as it is.
DeleteProxy ==
  LET p == ProxyName[cur] IN
  /\ pc = "deleteProxy"
  /\ \/ /\ cache.proxy[p] = None
        /\ Unwritten
        /\ Go("removeFinalizer") /\ UNCHANGED <<held, obj, ing>>
     \/ /\ cache.proxy[p] # None
        /\ store.proxy[p] # None
        /\ Put("proxy", p, None)
        /\ Go("pruneIngress") /\ UNCHANGED <<held, obj, ing>>
     \/ /\ cache.proxy[p] # None
        /\ store.proxy[p] = None
        /\ Fails

IngressRulesInMemory == IF ing = None THEN << >> ELSE ing.rules

\* finalizeWebapp, second half.  The Update carries the resourceVersion of the
\* ingress in memory, the Delete of an emptied ingress does not.
PruneIngress ==
  LET rules  == IngressRulesInMemory
      p      == ProxyName[cur]
      pruned == Pruned(rules, p)
      goOn   == Go("removeFinalizer") /\ UNCHANGED <<held, obj, ing>>
  IN
  /\ pc = "pruneIngress"
  /\ IF PrunePanics(rules, p) THEN Fails
     ELSE IF pruned = << >>
          THEN IF store.ingress[Global] # None
               THEN Put("ingress", Global, None) /\ goOn
               ELSE Fails
          ELSE IF Updatable("ingress", Global)
               THEN Put("ingress", Global, [ing EXCEPT !.rules = pruned]) /\ goOn
               ELSE Fails

\* Without its finalizer the deleted Webapp leaves the server.
RemoveFinalizer ==
  /\ pc = "removeFinalizer"
  /\ IF Updatable("webapp", cur) /\ ValidWebapp(obj)
     THEN Put("webapp", cur, None) /\ Done
     ELSE Fails

-----------------------------------------------------------------------------
\* A deployment is created with an owner reference; an existing one is
\* rewritten only when its revision label differs, and keeps its owner.
UpsertDeployment ==
  LET cached  == cache.deployment[cur]
      goOn    == Go("upsertService") /\ UNCHANGED <<held, obj, ing>>
  IN
  /\ pc = "upsertDeployment"
  /\ \/ /\ cached = None
        /\ IF Parses(obj.spec) /\ Creatable("deployment", cur)
           THEN /\ Put("deployment", cur, [spec |-> obj.spec, owner |-> obj.uid])
                /\ goOn
           ELSE Fails
     \/ /\ cached # None
        /\ Hash[cached.spec] # Hash[obj.spec]
        /\ IF Parses(obj.spec) /\ Current("deployment", cur)
           THEN /\ Put("deployment", cur, [cached EXCEPT !.spec = obj.spec])
                /\ goOn
           ELSE Fails
     \/ /\ cached # None
        /\ Hash[cached.spec] = Hash[obj.spec]
        /\ Unwritten
        /\ goOn

\* (Mutant of UpsertService: a service that exists is left alone.)
CreateServiceOnce ==
  /\ pc = "upsertService"
  /\ IF cache.service[cur] # None THEN Unwritten /\ Go("upsertProxy") /\ UNCHANGED <<held, obj, ing>>
     ELSE IF Creatable("service", cur) /\ Parses(obj.spec) /\ ValidService(obj.spec)
     THEN /\ Put("service", cur, [spec |-> obj.spec, owner |-> obj.uid])
          /\ Go("upsertProxy")
          /\ UNCHANGED <<held, obj, ing>>
     ELSE Fails

\* The service is always written, as a whole: its owner reference too.
UpsertService ==
  LET accepted == IF cache.service[cur] = None
                  THEN Creatable("service", cur)
                  ELSE Current("service", cur)
  IN
  /\ pc = "upsertService"
  /\ IF accepted /\ Parses(obj.spec) /\ ValidService(obj.spec)
     THEN /\ Put("service", cur, [spec |-> obj.spec, owner |-> obj.uid])
          /\ Go("upsertProxy")
          /\ UNCHANGED <<held, obj, ing>>
     ELSE Fails

\* (Mutant of UpsertProxy: a proxy service that exists is left alone.)
CreateProxyOnce ==
  LET p == ProxyName[cur]
      goOn == Go("updateIngress") /\ UNCHANGED <<held, obj, ing>>
  IN
  /\ pc = "upsertProxy"
  /\ IF cache.proxy[p] # None THEN Unwritten /\ goOn
     ELSE IF Creatable("proxy", p) /\ Parses(obj.spec)
     THEN Put("proxy", p, [target |-> cur, spec |-> obj.spec]) /\ goOn
     ELSE Fails

\* The proxy service lives in another namespace and has no owner reference.
UpsertProxy ==
  LET p == ProxyName[cur]
      accepted == IF cache.proxy[p] = None
                  THEN Creatable("proxy", p)
                  ELSE Current("proxy", p)
  IN
  /\ pc = "upsertProxy"
  /\ IF accepted /\ Parses(obj.spec)
     THEN /\ Put("proxy", p, [target |-> cur, spec |-> obj.spec])
          /\ Go("updateIngress")
          /\ UNCHANGED <<held, obj, ing>>
     ELSE Fails

-----------------------------------------------------------------------------
\* (Mutant of Listed: only the Webapp being reconciled gets its route.)
ListedAlone == {w \in {cur} : /\ cache.webapp[w] # None
                              /\ ~cache.webapp[w].deleting
                              /\ HostOf[cache.webapp[w].spec] # None}

\* updateIngress lists every Webapp in the cache that wants a route...
Listed == {w \in Webapps : /\ cache.webapp[w] # None
                           /\ ~cache.webapp[w].deleting
                           /\ HostOf[cache.webapp[w].spec] # None}

ListedHost(w) == HostOf[cache.webapp[w].spec]
ListedHosts == {ListedHost(w) : w \in Listed}

\* ...groups them by host, in the order in which the cache happens to list
\* them, and visits the hosts in the order of a Go map, which is any order.
Group(h) == {w \in Listed : ListedHost(w) = h}

WebappsByHost ==
  {groups \in [ListedHosts -> UNION {SetToSeqs(Group(h)) : h \in ListedHosts}] :
     \A h \in ListedHosts : groups[h] \in SetToSeqs(Group(h))}

PathTo(w) == [backend |-> ProxyName[w], spec |-> cache.webapp[w].spec]

RuleFor(h, group) ==
  [host |-> h, paths |-> [i \in DOMAIN group |-> PathTo(group[i])]]

RuleLists ==
  {[j \in DOMAIN hosts |-> RuleFor(hosts[j], groups[hosts[j]])] :
     hosts \in SetToSeqs(ListedHosts), groups \in WebappsByHost}

\* Ports[0] of a listed Webapp panics on an empty list, ParseInt errs on a
\* malformed one: either way no ingress is written, whoever is reconciled.
Poisoned == \E w \in Listed :
              QuirkOf[cache.webapp[w].spec] \in {"no ports", "bad port"}

\* Without labels the ingress has a nil map, and the assignment panics.
Unlabelled == ing # None /\ ing.revision = None

\* (Mutant of UpdateIngress: an ingress of this revision is left alone.)
UpdateIngressOnce ==
  /\ pc = "updateIngress"
  /\ \/ (Unlabelled \/ Poisoned) /\ Fails
     \/ /\ ~Unlabelled /\ ~Poisoned
        /\ \E rules \in RuleLists :
             LET ingress == [rules |-> rules, revision |-> Hash[obj.spec]]
                 written == Put("ingress", Global, ingress) /\ Done
             IN
             IF ing # None /\ ing.revision = Hash[obj.spec] THEN Unwritten /\ Done
             ELSE IF ~ValidRules(rules) THEN Fails
             ELSE IF ing # None
                  THEN IF Updatable("ingress", Global) THEN written ELSE Fails
                  ELSE IF Creatable("ingress", Global) THEN written
                       ELSE Unwritten /\ Done

\* The rules replace those of the ingress.  AlreadyExists from Create counts
\* as success (IgnoreAlreadyExists).
UpdateIngress ==
  /\ pc = "updateIngress"
  /\ \/ (Unlabelled \/ Poisoned) /\ Fails
     \/ /\ ~Unlabelled /\ ~Poisoned
        /\ \E rules \in RuleLists :
             LET ingress == [rules |-> rules, revision |-> Hash[obj.spec]]
                 written == Put("ingress", Global, ingress) /\ Done
             IN
             IF ~ValidRules(rules) THEN Fails
             ELSE IF ing # None
                  THEN IF Updatable("ingress", Global) THEN written ELSE Fails
                  ELSE IF Creatable("ingress", Global) THEN written
                       ELSE Unwritten /\ Done

-----------------------------------------------------------------------------
ReconcileStep ==
  \/ UpdateLabels
  \/ AddFinalizer
  \/ CreateNamespace
  \/ ReadIngress
  \/ DeleteProxy
  \/ PruneIngress
  \/ RemoveFinalizer
  \/ UpsertDeployment
  \/ UpsertService
  \/ UpsertProxy
  \/ UpdateIngress

\* A call fails at the server or on the way: Reconcile returns the error.
CallFails ==
  /\ pc # "idle"
  /\ faults < MaxFaults
  /\ faults' = faults + 1
  /\ Drop
  /\ queue' = queue \cup {cur}
  /\ Unwritten
  /\ UNCHANGED <<births, ops>>

\* The manager stops and another takes over: the caches are filled anew, and
\* the initial list of Webapps is delivered as one event for each.
Restart ==
  /\ faults < MaxFaults
  /\ faults' = faults + 1
  /\ Drop
  /\ cache' = store
  /\ stale' = {}
  /\ queue' = {w \in Webapps : store.webapp[w] # None}
  /\ UNCHANGED <<store, births, ops>>

Resync ==
  /\ Resyncs
  /\ queue' = queue \cup {w \in Webapps : cache.webapp[w] # None}
  /\ UNCHANGED <<store, cache, stale, held, births, ops, jobVars, faults>>

ClusterStep ==
  /\ \/ UserStep
     \/ \E kind \in Kinds : \E name \in Names(kind) : Deliver(kind, name)
     \/ \E kind \in {"deployment", "service"}, w \in Webapps : Collect(kind, w)
  /\ UNCHANGED <<jobVars, faults>>

Next ==
  \/ \E w \in Webapps : GetNothing(w) \/ Get(w)
  \/ ReconcileStep
  \/ CallFails
  \/ Restart
  \/ Resync
  \/ ClusterStep

Spec == Init /\ [][Next]_vars

\* The worker runs, watches and the collector make progress, and no key waits
\* in the queue for ever: it is first in, first out, with a finite back-off.
Fairness ==
  /\ WF_vars(ReconcileStep)
  /\ \A w \in Webapps : SF_vars(GetNothing(w)) /\ SF_vars(Get(w))
  /\ \A kind \in Kinds : \A name \in Names(kind) :
       WF_vars(Deliver(kind, name) /\ UNCHANGED <<jobVars, faults>>)
  /\ \A kind \in {"deployment", "service"}, w \in Webapps :
       WF_vars(Collect(kind, w) /\ UNCHANGED <<jobVars, faults>>)

FairSpec == Spec /\ Fairness

-----------------------------------------------------------------------------
(* What a converged cluster is.                                            *)

\* Nothing is left to do: no request, no event and no orphan is pending.
AtRest ==
  /\ pc = "idle" /\ queue = {} /\ stale = {}
  /\ \A kind \in {"deployment", "service"}, w \in Webapps : ~Orphaned(kind, w)

Live(w) == store.webapp[w] # None

Deployed(w) == /\ store.deployment[w] # None
               /\ store.deployment[w].spec = store.webapp[w].spec

Served(w) == /\ store.service[w] # None
             /\ store.service[w].spec = store.webapp[w].spec

Proxied(w) == store.proxy[ProxyName[w]] =
                [target |-> w, spec |-> store.webapp[w].spec]

ExposedBy(w) == /\ store.proxy[ProxyName[w]] # None
                /\ store.proxy[ProxyName[w]].target = w

ServerRules == IF store.ingress[Global] = None
               THEN << >> ELSE store.ingress[Global].rules

\* A request for the host of w finds, under that host, the path of w.
Routed(w) ==
  LET s == store.webapp[w].spec IN
  HostOf[s] # None =>
    \E j \in DOMAIN ServerRules :
      /\ ServerRules[j].host = HostOf[s]
      /\ [backend |-> ProxyName[w], spec |-> s] \in ToSet(ServerRules[j].paths)

-----------------------------------------------------------------------------
(* Safety.                                                                 *)

\* When everything has settled, each Webapp that exists runs as specified:
\* deployment and service carry its current spec.
RunsAtRest == AtRest => \A w \in Webapps : Live(w) => Deployed(w) /\ Served(w)

\* When everything has settled, each Webapp that exists is reachable: its
\* proxy service stands for it and the global ingress routes its host to it.
ReachableAtRest ==
  AtRest => \A w \in Webapps : Live(w) => Proxied(w) /\ Routed(w)

\* A proxy service, which no garbage collector owns, never outlives its Webapp:
\* as long as it exists its Webapp does, with the finalizer that ends it.
ProxyGuarded ==
  \A p \in Proxies :
    store.proxy[p] # None =>
      LET o == store.webapp[store.proxy[p].target]
      IN o # None /\ o.finalizer

\* Past the finalizer gate a reconcile that is not a finalization works for a
\* Webapp that the server still has, in the same incarnation and with the
\* finalizer, however stale the copy it read: nothing is created for a Webapp
\* that can vanish unnoticed.
FinalizerGate ==
  pc \notin {"idle", "updateLabels", "addFinalizer"} /\ ~obj.deleting =>
    LET o == store.webapp[cur]
    IN o # None /\ o.uid = obj.uid /\ o.finalizer

\* The global ingress has one rule per host and no rule without a path, the
\* shape that finalizeWebapp's index arithmetic relies on.
IngressWellFormed ==
  /\ store.ingress[Global] # None => ServerRules # << >>
  /\ WellFormed(ServerRules)

-----------------------------------------------------------------------------
(* What a step may never do.                                               *)

\* A Webapp stays as it is, is removed as asked, or keeps spec, uid and
\* deletion timestamp.
AsUsersWant(old, new) ==
  \/ new = old
  \/ old # None /\ new = None /\ old.deleting
  \/ /\ old # None
     /\ new # None
     /\ new.spec = old.spec
     /\ new.uid = old.uid
     /\ new.deleting = old.deleting

UsersDecide ==
  ops' = ops =>
    \A w \in Webapps : AsUsersWant(store.webapp[w], store'.webapp[w])

\* Only users decide what a Webapp is: the controller, which writes whole
\* objects from cached copies, never reverts a spec, never brings a Webapp
\* back and removes only those whose deletion was asked for.
OnlyUsersDecide == [][UsersDecide]_vars

-----------------------------------------------------------------------------
(* Liveness, under FairSpec.                                               *)

Sound(w) == QuirkOf[store.webapp[w].spec] = "none"

Kept(w) == Live(w) /\ ~store.webapp[w].deleting

\* What stops updateIngress for everyone: a Webapp that it cannot render or the
\* server does not accept.
StopsIngress(w) ==
  Kept(w) /\ QuirkOf[store.webapp[w].spec] \in {"no ports", "bad port", "no path"}

\* A Webapp marked for deletion is eventually gone: conflicts, panics, stale
\* caches and the specs of its neighbours delay the removal of the finalizer,
\* they do not prevent it.  Only an empty list of ports does, for then no Update
\* of the Webapp is accepted.
DeletionCompletes ==
  \A w \in Webapps :
    Live(w) /\ store.webapp[w].deleting ~>
      ~Live(w) \/ QuirkOf[store.webapp[w].spec] = "no ports"

\* A Webapp marked for deletion that has been exposed is concealed, and its route
\* does not stay behind: finalizeWebapp ends with the ingress pruned.
RoutesGoWithProxies ==
  \A w \in Webapps :
    Live(w) /\ store.webapp[w].deleting /\ ExposedBy(w) ~>
      ~RoutesTo(ServerRules, ProxyName[w])

\* Once users stop the controller stops as well, unless it has something to retry
\* for ever: a Webapp it cannot render or the server refuses, or an ingress
\* without rules because no Webapp wants a route.
EventuallySettles ==
  <>[](\/ AtRest
       \/ \E w \in Webapps : Live(w) /\ ~Sound(w)
       \/ \A w \in Webapps : Kept(w) => HostOf[store.webapp[w].spec] = None)

\* Once users stop, a Webapp with a sound spec has its deployment, service and
\* proxy service, whatever its neighbours: what a bad spec stops is the shared
\* ingress, which comes last.
SoundOnesRun ==
  \A w \in Webapps :
    <>[](Kept(w) /\ Sound(w) => Deployed(w) /\ Served(w) /\ Proxied(w))

\* Once users stop, a Webapp with a sound spec gets its route in the shared
\* ingress and keeps it, unless a neighbour that is not in deletion stops it.
SoundOnesRouted ==
  \A w \in Webapps :
    <>[](Kept(w) /\ Sound(w) /\ (\A v \in Webapps : ~StopsIngress(v))
           => Routed(w))

-----------------------------------------------------------------------------
(* What the code takes on trust from its caches.  An Update or a Create    *)
(* that an outdated answer leads to is refused by the server.  Nobody      *)
(* refuses it when the answer is a reason not to write, or to write        *)
(* without a resourceVersion: there the guarantees below hold of the       *)
(* behaviours in which the answer is not outdated, and of no others.       *)

\* The ingress that a reconcile works on (createIngress, line 411) is the server's.
FreshIngressRead == ReadIngress => Current("ingress", Global)

\* A deployment that upsertDeployment leaves as it is (196, 217) is the server's.
FreshDeploymentRead ==
  UpsertDeployment /\ Unwritten /\ pc' # "idle" => Current("deployment", cur)

\* A proxy service that finalizeWebapp does not find (161) does not exist.
FreshProxyRead ==
  DeleteProxy /\ pc' = "removeFinalizer" => Current("proxy", ProxyName[cur])

-----------------------------------------------------------------------------
(* The inductive invariant behind FinalizerGate and OnlyUsersDecide.       *)

BeforeGate   == {"idle", "updateLabels", "addFinalizer"}
Finalization == {"deleteProxy", "pruneIngress", "removeFinalizer"}
Upserts      == {"upsertDeployment", "upsertService", "upsertProxy",
                 "updateIngress"}

\* What is not stale is what the server has.
CacheInStep ==
  \A kind \in Kinds : \A name \in Names(kind) :
    Current(kind, name) => cache[kind][name] = store[kind][name]

\* Where a reconcile stands tells what it found in its copy of the Webapp.
JobOK ==
  pc # "idle" =>
    /\ cur # None
    /\ obj # None
    /\ pc \notin BeforeGate => obj.finalizer
    /\ pc \in Finalization => obj.deleting
    /\ pc \in Upserts => ~obj.deleting

\* A held copy is the server's object, and the cache, from which the copy was
\* read, cannot have fallen behind it.
HeldCurrent ==
  pc # "idle" /\ <<"webapp", cur>> \in held =>
    /\ obj = store.webapp[cur]
    /\ obj.deleting => /\ cache.webapp[cur] # None
                       /\ cache.webapp[cur].deleting

\* A copy o of w with the finalizer, and without a deletion timestamp, vouches
\* for the object at the server: the finalizer can only be removed by a
\* reconcile that read a later copy.
Vouches(o, w) ==
  o # None /\ o.finalizer /\ ~o.deleting =>
    /\ store.webapp[w] # None
    /\ store.webapp[w].uid = o.uid
    /\ store.webapp[w].finalizer

CopiesVouch ==
  /\ \A w \in Webapps : Vouches(cache.webapp[w], w)
  /\ pc \notin BeforeGate => Vouches(obj, cur)

\* What holds whoever else writes Webapps: the repository controller or another
\* manager.
CoreInv == TypeOK /\ CacheInStep /\ JobOK /\ HeldCurrent

IInv == CoreInv /\ CopiesVouch

\* What ProxyGuarded needs besides: proxies have the name their target gives
\* them, and a finalization has seen them off.
ProxyInv ==
  /\ \A p \in Proxies :
       store.proxy[p] # None => ProxyName[store.proxy[p].target] = p
  /\ pc \in {"pruneIngress", "removeFinalizer"} =>
       store.proxy[ProxyName[cur]] = None

\* A copy o of w that is marked for deletion speaks for the object at the server
\* as soon as that one is guarded: a successor of the same name gets its
\* finalizer from a reconcile that read the successor.
Dooms(o, w) ==
  o # None /\ o.deleting =>
    (store.webapp[w] # None /\ store.webapp[w].finalizer => store.webapp[w].deleting)

\* What the refinement needs besides: only guarded Webapps wait for their end,
\* and no finalization runs on account of a predecessor.
DoomInv ==
  /\ \A w \in Webapps :
       /\ store.webapp[w] # None /\ store.webapp[w].deleting => store.webapp[w].finalizer
       /\ Dooms(cache.webapp[w], w)
  /\ pc # "idle" => Dooms(obj, cur)
  /\ pc \in {"updateLabels", "addFinalizer"} /\ <<"webapp", cur>> \in held =>
       Current("webapp", cur)

-----------------------------------------------------------------------------
(* Refinement.                                                             *)

PhaseOf(w) ==
  LET o == store.webapp[w] IN
  IF o = None THEN "absent"
  ELSE IF ~o.finalizer THEN "plain"
  ELSE IF ~o.deleting THEN "guarded"
  ELSE "deleting"

Abstract == INSTANCE Lifecycle WITH
  phase   <- [w \in Webapps |-> PhaseOf(w)],
  exposed <- [w \in Webapps |-> ExposedBy(w)]

\* The controller implements Lifecycle: through conflicts, retries, restarts and
\* stale copies, a Webapp is exposed and concealed only in the order the
\* finalizer is there to enforce.
ImplementsLifecycle == Abstract!Spec
=============================================================================
