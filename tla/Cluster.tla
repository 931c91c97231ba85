------------------------------ MODULE Cluster ------------------------------
(***************************************************************************)
(* The Kubernetes cluster as the operator sees it: the objects the API     *)
(* server stores, the informer caches that every Get and List of the       *)
(* manager's client reads, the users who create, edit and delete Webapp    *)
(* objects, and the garbage collector that removes what a Webapp owned.    *)
(*                                                                         *)
(* Writes go to the server, reads come from a cache.  A cached object that *)
(* is not the server's current version is "stale"; an Update that carries  *)
(* a stale resourceVersion is refused with a conflict.  resourceVersions   *)
(* are not counted: the model only keeps whether a copy is current.        *)
(***************************************************************************)
EXTENDS Naturals, FiniteSets, Sequences

CONSTANTS
  Webapps,    \* keys (namespace/name) of Webapp objects
  Proxies,    \* names of proxy services in the global namespace
  ProxyName,  \* [Webapps -> Proxies]: the name the code derives from a Webapp
  Specs,      \* the contents a WebappSpec can have
  Hashes,     \* values of the revision label
  Hash,       \* [Specs -> Hashes]: calcHash, 8 hex digits of a SHA-256
  Hosts,      \* ingress hosts
  HostOf,     \* [Specs -> Hosts \cup {None}]: None when spec.ingress is absent
  QuirkOf,    \* [Specs -> Quirks]: what is unusual about a spec
  None,       \* no object, no value
  Laggy,      \* kinds whose informer may deliver later than the server writes
  UserOps,    \* what users do besides creating Webapps
  MaxOps      \* bound on the number of user operations

Kinds == {"webapp", "deployment", "service", "proxy", "ingress", "namespace"}

\* The only name of the kinds with a single object (the global ingress, the
\* global namespace).
Global == "global"

Names(kind) ==
  CASE kind = "webapp"     -> Webapps
    [] kind = "deployment" -> Webapps
    [] kind = "service"    -> Webapps
    [] kind = "proxy"      -> Proxies
    [] OTHER               -> {Global}

\* What the code or the API server stumbles over in a spec: several ports, an
\* empty list of ports, a port strconv.ParseInt refuses, an ingress without path.
Quirks == {"none", "many ports", "no ports", "bad port", "no path"}

WebappObject ==
  [uid: Nat, spec: Specs, label: Hashes \cup {None},
   finalizer: BOOLEAN, deleting: BOOLEAN]

\* The deployment and service of a Webapp: the spec they were rendered from
\* (their revision label is its hash) and the uid in their owner reference.
OwnedObject == [spec: Specs, owner: Nat]

\* An ExternalName service that stands for the service of one Webapp.
ProxyObject == [target: Webapps, spec: Specs]

Path == [backend: Proxies, spec: Specs]
Rule == [host: Hosts, paths: Seq(Path)]
\* revision is the label that Reconcile writes; None when the labels were removed.
IngressObject == [rules: Seq(Rule), revision: Hashes \cup {None}]

NamespaceObject == [active: {TRUE}]

ObjectsOf(kind) ==
  CASE kind = "webapp"    -> WebappObject
    [] kind = "proxy"     -> ProxyObject
    [] kind = "ingress"   -> IngressObject
    [] kind = "namespace" -> NamespaceObject
    [] OTHER              -> OwnedObject

\* The objects of a kind by name, and the objects of all kinds.
Table(kind) == [Names(kind) -> ObjectsOf(kind) \cup {None}]

AreObjects(t) == /\ t = [kind \in Kinds |-> t[kind]]
                 /\ \A kind \in Kinds : t[kind] \in Table(kind)

Keys == UNION {{kind} \X Names(kind) : kind \in Kinds}

ASSUME ConstantsAssumption ==
  /\ IsFiniteSet(Webapps)
  /\ ProxyName \in [Webapps -> Proxies]
  /\ Hash \in [Specs -> Hashes]
  /\ HostOf \in [Specs -> Hosts \cup {None}]
  /\ QuirkOf \in [Specs -> Quirks]
  /\ MaxOps \in Nat

\* None is neither an object nor one of the values it stands beside, and the
\* watch that fills the cache of Webapps is asynchronous.
ASSUME DistinctAssumption ==
  /\ None \notin Webapps \cup Hashes \cup Hosts
  /\ \A kind \in Kinds : None \notin ObjectsOf(kind)
  /\ "webapp" \in Laggy
  /\ Laggy \subseteq Kinds
  /\ UserOps \subseteq {"edit", "delete", "recreate"}

-----------------------------------------------------------------------------
VARIABLES
  store,   \* the objects at the API server, by kind and name
  cache,   \* the objects in the informer caches
  stale,   \* keys whose cached object is not the server's current version
  held,    \* keys whose copy in the running reconcile is the current version
  queue,   \* the Webapp controller's work queue
  births,  \* incarnations of each Webapp so far: the uid of the last one
  ops      \* user operations so far

clusterVars == <<store, cache, stale, held, queue, births, ops>>

ClusterTypeOK ==
  /\ AreObjects(store)
  /\ AreObjects(cache)
  /\ stale \subseteq Keys
  /\ held \subseteq Keys
  /\ queue \subseteq Webapps
  /\ births \in [Webapps -> Nat]
  /\ ops \in Nat

NoObjects == [kind \in Kinds |-> [name \in Names(kind) |-> None]]

ClusterInit ==
  /\ store = NoObjects
  /\ cache = NoObjects
  /\ stale = {}
  /\ held = {}
  /\ queue = {}
  /\ births = [w \in Webapps |-> 0]
  /\ ops = 0

-----------------------------------------------------------------------------
Unwritten == UNCHANGED <<store, cache, stale>>

\* The server stores object o (None: removes the object).  The cache of a kind
\* that never lags shows it at once.  An identical object is no new version.
Put(kind, name, o) ==
  IF store[kind][name] = o THEN Unwritten
  ELSE /\ store' = [store EXCEPT ![kind][name] = o]
       /\ IF kind \in Laggy
          THEN stale' = stale \cup {<<kind, name>>} /\ UNCHANGED cache
          ELSE cache' = [cache EXCEPT ![kind][name] = o] /\ UNCHANGED stale

Current(kind, name) == <<kind, name>> \notin stale

\* Validation of a Webapp that a controller sends: omitempty drops an empty list
\* of ports, and the CRD requires one.
ValidWebapp(o) == QuirkOf[o.spec] # "no ports"

\* An informer receives the latest version of an object; For(&Webapp{}) turns
\* the events of Webapps, and of no other kind, into requests.
Deliver(kind, name) ==
  /\ <<kind, name>> \in stale
  /\ cache' = [cache EXCEPT ![kind][name] = store[kind][name]]
  /\ stale' = stale \ {<<kind, name>>}
  /\ queue' = IF kind = "webapp" THEN queue \cup {name} ELSE queue
  /\ UNCHANGED <<store, held, births, ops>>

-----------------------------------------------------------------------------
\* A user writes Webapp w: a copy that a reconcile holds is outdated by it.
UserWrites(w, o) ==
  /\ ops < MaxOps
  /\ ops' = ops + 1
  /\ Put("webapp", w, o)
  /\ held' = held \ {<<"webapp", w>>}
  /\ UNCHANGED queue

\* Without "recreate", users wait for the remains of an earlier incarnation to
\* be collected, and for that to be known, before they reuse its name.
UserCreate(w, s) ==
  /\ store.webapp[w] = None
  /\ \/ "recreate" \in UserOps
     \/ \A kind \in {"deployment", "service"} :
           store[kind][w] = None /\ cache[kind][w] = None
  /\ births' = [births EXCEPT ![w] = @ + 1]
  /\ UserWrites(w, [uid |-> births[w] + 1, spec |-> s, label |-> None,
                    finalizer |-> FALSE, deleting |-> FALSE])

UserEdit(w, s) ==
  /\ "edit" \in UserOps
  /\ store.webapp[w] # None
  /\ store.webapp[w].spec # s
  /\ UserWrites(w, [store.webapp[w] EXCEPT !.spec = s])
  /\ UNCHANGED births

\* With a finalizer the object stays, marked with a deletion timestamp.
UserDelete(w) ==
  /\ "delete" \in UserOps
  /\ store.webapp[w] # None
  /\ ~store.webapp[w].deleting
  /\ UserWrites(w, IF store.webapp[w].finalizer
                   THEN [store.webapp[w] EXCEPT !.deleting = TRUE]
                   ELSE None)
  /\ UNCHANGED births

UserStep ==
  \E w \in Webapps :
    \/ \E s \in Specs : UserCreate(w, s) \/ UserEdit(w, s)
    \/ UserDelete(w)

-----------------------------------------------------------------------------
Orphaned(kind, w) ==
  /\ store[kind][w] # None
  /\ store.webapp[w] # None => store.webapp[w].uid # store[kind][w].owner

\* The garbage collector removes an object whose owner is gone.
Collect(kind, w) ==
  /\ kind \in {"deployment", "service"}
  /\ Orphaned(kind, w)
  /\ Put(kind, w, None)
  /\ UNCHANGED <<held, queue, births, ops>>
=============================================================================
