----------------------- MODULE WebappControllerProofs -----------------------
(***************************************************************************)
(* Theorems about WebappController, for any number of Webapps and specs.   *)
(***************************************************************************)
EXTENDS WebappController, IngressRulesProofs

-----------------------------------------------------------------------------
(* Type correctness.                                                       *)

\* The names and the objects of each kind.
LEMMA KindsOfObjects ==
  /\ Names("webapp") = Webapps /\ ObjectsOf("webapp") = WebappObject
  /\ Names("deployment") = Webapps /\ ObjectsOf("deployment") = OwnedObject
  /\ Names("service") = Webapps /\ ObjectsOf("service") = OwnedObject
  /\ Names("proxy") = Proxies /\ ObjectsOf("proxy") = ProxyObject
  /\ Names("ingress") = {Global} /\ ObjectsOf("ingress") = IngressObject
  /\ Names("namespace") = {Global} /\ ObjectsOf("namespace") = NamespaceObject
  /\ {"webapp", "deployment", "service", "proxy", "ingress", "namespace"} = Kinds
BY DEF Names, ObjectsOf, Kinds

\* What store and cache hold, kind by kind.
LEMMA ObjectsTypes ==
  ASSUME NEW t, AreObjects(t)
  PROVE  /\ t.webapp \in [Webapps -> WebappObject \cup {None}]
         /\ t.deployment \in [Webapps -> OwnedObject \cup {None}]
         /\ t.service \in [Webapps -> OwnedObject \cup {None}]
         /\ t.proxy \in [Proxies -> ProxyObject \cup {None}]
         /\ t.ingress \in [{Global} -> IngressObject \cup {None}]
         /\ t.namespace \in [{Global} -> NamespaceObject \cup {None}]
BY KindsOfObjects DEF AreObjects, Table

\* The part of the type invariant that writes are about.
ObjectsOK == AreObjects(store) /\ AreObjects(cache) /\ stale \subseteq Keys

\* A write of a well-typed object leaves store, cache and stale well-typed.
LEMMA PutTypes ==
  ASSUME ObjectsOK,
         NEW kind \in Kinds, NEW name \in Names(kind),
         NEW o \in ObjectsOf(kind) \cup {None},
         Put(kind, name, o)
  PROVE  ObjectsOK'
<1>. DEFINE table(t) == [t EXCEPT ![kind][name] = o]
<1>1. ASSUME NEW t, AreObjects(t)
      PROVE  AreObjects(table(t))
  <2>1. [t[kind] EXCEPT ![name] = o] \in Table(kind)
    BY <1>1 DEF AreObjects, Table
  <2>2. \A k \in Kinds : table(t)[k] \in Table(k)
    BY <1>1, <2>1 DEF AreObjects
  <2>. QED
    BY <1>1, <2>2 DEF AreObjects
<1>2. <<kind, name>> \in Keys
  BY DEF Keys
<1>. QED
  BY <1>1, <1>2 DEF AreObjects, Put, Unwritten, ObjectsOK
\* Webapps are finitely many, and so are the hosts they ask for.
LEMMA ListedIsFinite ==
  /\ IsFiniteSet(ListedHosts)
  /\ \A h : IsFiniteSet(Group(h))
<1>. DEFINE f == [w \in Listed |-> ListedHost(w)]
<1>1. IsFiniteSet(Listed) /\ \A h : IsFiniteSet(Group(h))
  BY ConstantsAssumption, FS_Subset DEF Listed, Group
<1>2. f \in Surjection(Listed, ListedHosts)
  BY DEF ListedHosts, Surjection
<1>. QED
  BY <1>1, <1>2, FS_Surjection

\* The rules updateIngress can come up with are rules.
LEMMA RuleListsTypes ==
  ASSUME ClusterTypeOK
  PROVE  RuleLists \subseteq Seq(Rule)
<1>1. \A w \in Listed : w \in Webapps /\ PathTo(w) \in Path
                       /\ ListedHost(w) \in Hosts
  <2>1. cache.webapp \in [Webapps -> WebappObject \cup {None}]
    BY ObjectsTypes DEF ClusterTypeOK
  <2>. QED
    BY <2>1, ConstantsAssumption
    DEF Listed, ListedHost, PathTo, Path, WebappObject
<1>2. \A h \in ListedHosts : h \in Hosts
  BY <1>1 DEF ListedHosts
<1>3. \A h : Cardinality(Group(h)) \in Nat
  BY ListedIsFinite, FS_CardinalityType
<1>4. Cardinality(ListedHosts) \in Nat
  BY ListedIsFinite, FS_CardinalityType
<1>5. ASSUME NEW h \in ListedHosts, NEW group \in SetToSeqs(Group(h))
      PROVE  RuleFor(h, group) \in Rule
  <2>1. group \in [1 .. Cardinality(Group(h)) -> Group(h)]
    BY DEF SetToSeqs
  <2>2. \A i \in 1 .. Cardinality(Group(h)) : PathTo(group[i]) \in Path
    BY <1>1, <2>1 DEF Group
  <2>3. [i \in DOMAIN group |-> PathTo(group[i])] \in Seq(Path)
    BY <1>3, <2>1, <2>2
  <2>. QED
    BY <1>2, <2>3 DEF RuleFor, Rule
<1>6. ASSUME NEW hosts \in SetToSeqs(ListedHosts), NEW groups \in WebappsByHost
      PROVE  [j \in DOMAIN hosts |-> RuleFor(hosts[j], groups[hosts[j]])]
               \in Seq(Rule)
  <2>1. hosts \in [1 .. Cardinality(ListedHosts) -> ListedHosts]
    BY DEF SetToSeqs
  <2>2. \A j \in 1 .. Cardinality(ListedHosts) :
           RuleFor(hosts[j], groups[hosts[j]]) \in Rule
    BY <1>5, <2>1 DEF WebappsByHost
  <2>. QED
    BY <1>4, <2>1, <2>2
<1>. QED
  BY <1>6 DEF RuleLists

\* What holds of a reconcile under way.
LEMMA BusyTypes ==
  ASSUME TypeOK, JobOK, pc # "idle"
  PROVE  /\ cur \in Webapps /\ obj \in WebappObject
         /\ ProxyName[cur] \in Proxies /\ Hash[obj.spec] \in Hashes
BY ConstantsAssumption DEF TypeOK, JobOK, WebappObject

\* How a reconcile ends keeps the variables other than the objects well-typed.
LEMMA DropTypes ==
  ASSUME TypeOK, JobOK, pc # "idle", ObjectsOK', Done \/ Retry
  PROVE  TypeOK'
BY BusyTypes DEF Done, Retry, Drop, TypeOK, ClusterTypeOK, Calls, ObjectsOK

\* So does going on with the next call.
LEMMA GoTypes ==
  ASSUME TypeOK, ObjectsOK', NEW c \in Calls, Go(c), UNCHANGED <<held, obj, ing>>
  PROVE  TypeOK'
BY DEF Go, TypeOK, ClusterTypeOK, ObjectsOK

\* Every call of a reconcile, every event and every user keeps the types.
LEMMA TypeStep ==
  ASSUME TypeOK, JobOK, [Next]_vars
  PROVE  TypeOK'
<1>. ObjectsOK
  BY DEF TypeOK, ClusterTypeOK, ObjectsOK
<1>u. Unwritten => ObjectsOK'
  BY DEF Unwritten, ObjectsOK, AreObjects
<1>f. Fails /\ pc # "idle" => TypeOK'
  BY <1>u, DropTypes DEF Fails
<1>c. /\ cache.webapp \in [Webapps -> WebappObject \cup {None}]
      /\ store.webapp \in [Webapps -> WebappObject \cup {None}]
      /\ cache.deployment \in [Webapps -> OwnedObject \cup {None}]
      /\ cache.ingress \in [{Global} -> IngressObject \cup {None}]
  BY ObjectsTypes DEF ObjectsOK
<1>1. ASSUME NEW w \in Webapps, GetNothing(w) \/ Get(w)
      PROVE  TypeOK'
  <2>1. ObjectsOK'
    BY <1>1, <1>u DEF GetNothing, Get
  <2>2. FirstCall(cache.webapp[w]) \in Calls
    BY DEF FirstCall, Calls
  <2>3. <<"webapp", w>> \in Keys
    BY KindsOfObjects DEF Keys
  <2>. QED
    BY <1>1, <1>c, <2>1, <2>2, <2>3
    DEF GetNothing, Get, TypeOK, ClusterTypeOK, ObjectsOK, jobVars
<1>2. CASE UpdateLabels
  <2>. DEFINE labelled == [obj EXCEPT !.label = Hash[obj.spec]]
  <2>1. pc # "idle"
    BY <1>2 DEF UpdateLabels
  <2>2. labelled \in WebappObject
    BY <2>1, BusyTypes DEF WebappObject
  <2>3. Put("webapp", cur, labelled) => ObjectsOK'
    BY <2>1, <2>2, BusyTypes, PutTypes, KindsOfObjects
  <2>. QED
    BY <1>2, <1>f, <2>1, <2>3, DropTypes DEF UpdateLabels
<1>3. CASE AddFinalizer
  <2>. DEFINE guarded == [obj EXCEPT !.finalizer = TRUE]
  <2>1. pc # "idle"
    BY <1>3 DEF AddFinalizer
  <2>2. guarded \in WebappObject
    BY <2>1, BusyTypes DEF WebappObject
  <2>3. Put("webapp", cur, guarded) => ObjectsOK'
    BY <2>1, <2>2, BusyTypes, PutTypes, KindsOfObjects
  <2>. QED
    BY <1>3, <1>f, <2>1, <2>2, <2>3
    DEF AddFinalizer, Go, TypeOK, ClusterTypeOK, ObjectsOK, Calls
<1>4. CASE CreateNamespace
  <2>1. Put("namespace", Global, [active |-> TRUE]) => ObjectsOK'
    BY PutTypes, KindsOfObjects DEF NamespaceObject
  <2>. QED
    BY <1>4, <1>f, <1>u, <2>1, GoTypes DEF CreateNamespace, Calls
<1>5. CASE ReadIngress
  <2>1. <<"ingress", Global>> \in Keys
    BY KindsOfObjects DEF Keys
  <2>. QED
    BY <1>5, <1>u, <1>c, <2>1
    DEF ReadIngress, Go, TypeOK, ClusterTypeOK, ObjectsOK, Calls
<1>6. CASE DeleteProxy
  <2>1. Put("proxy", ProxyName[cur], None) => ObjectsOK'
    BY <1>6, BusyTypes, PutTypes, KindsOfObjects DEF DeleteProxy
  <2>. QED
    BY <1>6, <1>f, <1>u, <2>1, GoTypes DEF DeleteProxy, Calls
<1>7. CASE PruneIngress
  <2>. DEFINE pruned == Pruned(IngressRulesInMemory, ProxyName[cur])
  <2>1. IngressRulesInMemory \in Seq(Rule)
    BY EmptySeq DEF IngressRulesInMemory, TypeOK, IngressObject
  <2>2. pruned \in Seq(Rule)
    BY <2>1, PrunedTypes DEF Rule
  <2>3. ing = None => pruned = << >>
    BY DEF IngressRulesInMemory, Pruned
  <2>4. pruned # << >> => [ing EXCEPT !.rules = pruned] \in IngressObject
    BY <2>2, <2>3 DEF TypeOK, IngressObject
  <2>5. /\ Put("ingress", Global, None) => ObjectsOK'
        /\ pruned # << >> /\ Put("ingress", Global, [ing EXCEPT !.rules = pruned])
             => ObjectsOK'
    BY <2>4, PutTypes, KindsOfObjects
  <2>. QED
    BY <1>7, <1>f, <2>5, GoTypes DEF PruneIngress, Calls
<1>8. CASE RemoveFinalizer
  <2>1. Put("webapp", cur, None) => ObjectsOK'
    BY <1>8, BusyTypes, PutTypes, KindsOfObjects DEF RemoveFinalizer
  <2>. QED
    BY <1>8, <1>f, <2>1, DropTypes DEF RemoveFinalizer
<1>9. CASE UpsertDeployment
  <2>1. cur \in Webapps /\ obj \in WebappObject
    BY <1>9, BusyTypes DEF UpsertDeployment
  <2>2. /\ [spec |-> obj.spec, owner |-> obj.uid] \in OwnedObject
        /\ cache.deployment[cur] # None =>
             [cache.deployment[cur] EXCEPT !.spec = obj.spec] \in OwnedObject
    BY <1>c, <2>1 DEF WebappObject, OwnedObject
  <2>3. /\ Put("deployment", cur, [spec |-> obj.spec, owner |-> obj.uid])
             => ObjectsOK'
        /\ cache.deployment[cur] # None
           /\ Put("deployment", cur, [cache.deployment[cur] EXCEPT !.spec = obj.spec])
             => ObjectsOK'
    BY <2>1, <2>2, PutTypes, KindsOfObjects
  <2>. QED
    BY <1>9, <1>f, <1>u, <2>3, GoTypes DEF UpsertDeployment, Calls
<1>10. CASE UpsertService
  <2>1. cur \in Webapps /\ [spec |-> obj.spec, owner |-> obj.uid] \in OwnedObject
    BY <1>10, BusyTypes DEF UpsertService, WebappObject, OwnedObject
  <2>2. Put("service", cur, [spec |-> obj.spec, owner |-> obj.uid]) => ObjectsOK'
    BY <2>1, PutTypes, KindsOfObjects
  <2>. QED
    BY <1>10, <1>f, <2>2, GoTypes DEF UpsertService, Calls
<1>11. CASE UpsertProxy
  <2>1. /\ ProxyName[cur] \in Proxies
        /\ [target |-> cur, spec |-> obj.spec] \in ProxyObject
    BY <1>11, BusyTypes DEF UpsertProxy, WebappObject, ProxyObject
  <2>2. Put("proxy", ProxyName[cur], [target |-> cur, spec |-> obj.spec])
          => ObjectsOK'
    BY <2>1, PutTypes, KindsOfObjects
  <2>. QED
    BY <1>11, <1>f, <2>2, GoTypes DEF UpsertProxy, Calls
<1>12. CASE UpdateIngress
  <2>1. \A rules \in RuleLists :
          [rules |-> rules, revision |-> Hash[obj.spec]] \in IngressObject
    BY <1>12, BusyTypes, RuleListsTypes DEF UpdateIngress, TypeOK, IngressObject
  <2>2. \A rules \in RuleLists :
          Put("ingress", Global, [rules |-> rules, revision |-> Hash[obj.spec]])
            => ObjectsOK'
    BY <2>1, PutTypes, KindsOfObjects
  <2>. QED
    BY <1>12, <1>f, <1>u, <2>2, DropTypes DEF UpdateIngress
<1>13. CASE CallFails
  BY <1>13, <1>u, BusyTypes
  DEF CallFails, Drop, TypeOK, ClusterTypeOK, ObjectsOK, Calls
<1>14. CASE Restart
  BY <1>14, ConstantsAssumption
  DEF Restart, Drop, TypeOK, ClusterTypeOK, AreObjects, Calls
<1>15. CASE Resync
  BY <1>15 DEF Resync, jobVars, TypeOK, ClusterTypeOK, AreObjects
<1>16. CASE ClusterStep
  <2>1. ASSUME NEW w \in Webapps, NEW o \in WebappObject \cup {None},
               UserWrites(w, o)
        PROVE  ops' \in Nat /\ ObjectsOK' /\ held' \subseteq Keys /\ queue' = queue
    BY <2>1, PutTypes, KindsOfObjects DEF UserWrites, TypeOK, ClusterTypeOK
  <2>2. CASE UserStep
    <3>1. PICK w \in Webapps :
            (\E s \in Specs : UserCreate(w, s) \/ UserEdit(w, s)) \/ UserDelete(w)
      BY <2>2 DEF UserStep
    <3>2. births[w] \in Nat /\ [births EXCEPT ![w] = @ + 1] \in [Webapps -> Nat]
      BY DEF TypeOK, ClusterTypeOK
    <3>3. ASSUME NEW s \in Specs, UserCreate(w, s)
          PROVE  \E o \in WebappObject : UserWrites(w, o)
      <4>. DEFINE created == [uid |-> births[w] + 1, spec |-> s, label |-> None,
                              finalizer |-> FALSE, deleting |-> FALSE]
      <4>1. created \in WebappObject
        BY <3>2 DEF WebappObject
      <4>2. UserWrites(w, created)
        BY <3>3 DEF UserCreate
      <4>. HIDE DEF created
      <4>. QED
        BY <4>1, <4>2
    <3>4. ASSUME NEW s \in Specs, UserEdit(w, s)
          PROVE  \E o \in WebappObject : UserWrites(w, o)
      BY <1>c, <3>4 DEF UserEdit, WebappObject
    <3>5. ASSUME UserDelete(w)
          PROVE  \E o \in WebappObject \cup {None} : UserWrites(w, o)
      BY <1>c, <3>5 DEF UserDelete, WebappObject
    <3>6. ops' \in Nat /\ ObjectsOK' /\ held' \subseteq Keys /\ queue' = queue
      BY <2>1, <3>1, <3>3, <3>4, <3>5
    <3>7. births' \in [Webapps -> Nat]
      <4>1. \/ births' = [births EXCEPT ![w] = @ + 1]
            \/ births' = births
        BY <3>1 DEF UserCreate, UserEdit, UserDelete
      <4>. QED
        BY <3>2, <4>1 DEF TypeOK, ClusterTypeOK
    <3>. QED
      BY <1>16, <3>6, <3>7
      DEF ClusterStep, jobVars, TypeOK, ClusterTypeOK, ObjectsOK
  <2>3. ASSUME NEW kind \in Kinds, NEW name \in Names(kind), Deliver(kind, name)
        PROVE  TypeOK'
    <3>1. AreObjects(cache)'
      <4>1. store[kind][name] \in ObjectsOf(kind) \cup {None}
        BY DEF ObjectsOK, AreObjects, Table
      <4>2. [cache[kind] EXCEPT ![name] = store[kind][name]] \in Table(kind)
        BY <4>1 DEF ObjectsOK, AreObjects, Table
      <4>. QED
        BY <2>3, <4>2 DEF Deliver, ObjectsOK, AreObjects
    <3>2. kind = "webapp" => name \in Webapps
      BY KindsOfObjects
    <3>. QED
      BY <1>16, <2>3, <3>1, <3>2
      DEF Deliver, ClusterStep, jobVars, TypeOK, ClusterTypeOK, ObjectsOK, AreObjects
  <2>4. ASSUME NEW kind \in {"deployment", "service"}, NEW w \in Webapps,
               Collect(kind, w)
        PROVE  TypeOK'
    <3>1. ObjectsOK'
      BY <2>4, PutTypes, KindsOfObjects DEF Collect
    <3>. QED
      BY <1>16, <2>4, <3>1
      DEF Collect, ClusterStep, jobVars, TypeOK, ClusterTypeOK, ObjectsOK
  <2>. QED
    BY <1>16, <2>2, <2>3, <2>4 DEF ClusterStep
<1>17. CASE UNCHANGED vars
  BY <1>17 DEF vars, clusterVars, jobVars, TypeOK, ClusterTypeOK, AreObjects
<1>. QED
  BY <1>1, <1>2, <1>3, <1>4, <1>5, <1>6, <1>7, <1>8, <1>9, <1>10, <1>11,
     <1>12, <1>13, <1>14, <1>15, <1>16, <1>17 DEF Next, ReconcileStep

-----------------------------------------------------------------------------
(* The finalizer gate.                                                     *)

\* A write of another kind leaves the Webapps alone; one of a Webapp reaches
\* the server and not, for now, the cache.
LEMMA PutWebapps ==
  ASSUME ObjectsOK, NEW kind \in Kinds, NEW name, NEW o, Put(kind, name, o)
  PROVE  /\ cache'.webapp = cache.webapp
         /\ kind # "webapp" => store'.webapp = store.webapp
         /\ kind = "webapp" => store'.webapp = [store.webapp EXCEPT ![name] = o]
<1>1. /\ store = [k \in Kinds |-> store[k]] /\ cache = [k \in Kinds |-> cache[k]]
      /\ "webapp" \in Kinds
      /\ store.webapp \in [Webapps -> WebappObject \cup {None}]
  BY KindsOfObjects, ObjectsTypes DEF ObjectsOK, AreObjects
<1>. QED
  BY <1>1, DistinctAssumption DEF Put, Unwritten

\* A write keeps what is not stale in step.
LEMMA PutInStep ==
  ASSUME ObjectsOK, CacheInStep,
         NEW kind \in Kinds, NEW name \in Names(kind), NEW o, Put(kind, name, o)
  PROVE  CacheInStep'
<1>1. /\ store = [k \in Kinds |-> store[k]] /\ cache = [k \in Kinds |-> cache[k]]
      /\ \A k \in Kinds : /\ store[k] = [n \in Names(k) |-> store[k][n]]
                           /\ cache[k] = [n \in Names(k) |-> cache[k][n]]
  BY DEF ObjectsOK, AreObjects, Table
<1>2. CASE Unwritten
  BY <1>2 DEF Unwritten, CacheInStep, Current
<1>3. CASE ~Unwritten
  <2>1. store' = [store EXCEPT ![kind][name] = o]
    BY <1>3 DEF Put
  <2>2. \A k \in Kinds : \A n \in Names(k) :
          <<k, n>> # <<kind, name>> => store'[k][n] = store[k][n]
    BY <1>1, <2>1
  <2>3. CASE kind \in Laggy
    <3>1. cache' = cache /\ stale' = stale \cup {<<kind, name>>}
      BY <1>3, <2>3 DEF Put
    <3>. QED
      BY <2>2, <3>1 DEF CacheInStep, Current
  <2>4. CASE kind \notin Laggy
    <3>1. cache' = [cache EXCEPT ![kind][name] = o] /\ stale' = stale
      BY <1>3, <2>4 DEF Put
    <3>2. \A k \in Kinds : \A n \in Names(k) :
            <<k, n>> # <<kind, name>> => cache'[k][n] = cache[k][n]
      BY <1>1, <3>1
    <3>3. cache'[kind][name] = store'[kind][name]
      BY <1>1, <2>1, <3>1
    <3>. QED
      BY <2>2, <3>1, <3>2, <3>3 DEF CacheInStep, Current
  <2>. QED
    BY <2>3, <2>4
<1>. QED
  BY <1>2, <1>3

WebappsSame == store'.webapp = store.webapp /\ cache'.webapp = cache.webapp

\* A step that leaves the Webapps alone keeps what holds of the copies.
LEMMA QuietStep ==
  ASSUME CoreInv, WebappsSame,
         \/ pc' = "idle"
         \/ /\ cur' = cur /\ obj' = obj
            /\ pc \notin BeforeGate
            /\ pc' # "idle"
            /\ pc' \in Finalization => obj.deleting
            /\ pc' \in Upserts => ~obj.deleting
            /\ <<"webapp", cur>> \in held' => <<"webapp", cur>> \in held
  PROVE  JobOK' /\ HeldCurrent' /\ (CopiesVouch => CopiesVouch')
<1>1. JobOK'
  BY DEF CoreInv, JobOK, BeforeGate, Finalization, Upserts
<1>2. HeldCurrent'
  BY DEF CoreInv, HeldCurrent, WebappsSame, BeforeGate
<1>3. CopiesVouch => CopiesVouch'
  BY DEF CoreInv, CopiesVouch, Vouches, WebappsSame, BeforeGate
<1>. QED
  BY <1>1, <1>2, <1>3

\* A reconcile begins with a copy of what the cache holds.
LEMMA GetStep ==
  ASSUME CoreInv, NEW w \in Webapps, Get(w)
  PROVE  JobOK' /\ HeldCurrent' /\ (CopiesVouch => CopiesVouch')
<1>1. /\ store' = store /\ cache' = cache
      /\ cur' = w /\ obj' = cache.webapp[w] /\ obj' # None
      /\ pc' = FirstCall(obj')
      /\ <<"webapp", w>> \in held' => <<"webapp", w>> \notin stale
  BY DEF Get, Unwritten, Current
<1>2. JobOK'
  BY <1>1, DistinctAssumption
  DEF JobOK, FirstCall, BeforeGate, Finalization, Upserts
<1>3. <<"webapp", w>> \notin stale => cache.webapp[w] = store.webapp[w]
  BY KindsOfObjects DEF CoreInv, CacheInStep, Current
<1>4. HeldCurrent'
  BY <1>1, <1>3 DEF HeldCurrent
<1>5. CopiesVouch => CopiesVouch'
  BY <1>1 DEF CoreInv, CopiesVouch, Vouches
<1>. QED
  BY <1>2, <1>4, <1>5

\* What a write of a Webapp does: it stores the object, leaves the other Webapps
\* alone and, as Webapps lag, is not in the cache yet.
LEMMA WebappPut ==
  ASSUME CoreInv, NEW w \in Webapps, NEW o, Put("webapp", w, o)
  PROVE  /\ store.webapp \in [Webapps -> WebappObject \cup {None}]
         /\ store'.webapp = [store.webapp EXCEPT ![w] = o]
         /\ cache'.webapp = cache.webapp
         /\ store'.webapp[w] = o
         /\ \A v \in Webapps : v # w => store'.webapp[v] = store.webapp[v]
<1>1. ObjectsOK /\ "webapp" \in Kinds
  BY KindsOfObjects DEF CoreInv, TypeOK, ClusterTypeOK, ObjectsOK
<1>2. /\ store'.webapp = [store.webapp EXCEPT ![w] = o]
      /\ cache'.webapp = cache.webapp
  BY <1>1, PutWebapps
<1>3. store.webapp \in [Webapps -> WebappObject \cup {None}]
  BY <1>1, ObjectsTypes DEF ObjectsOK
<1>. QED
  BY <1>2, <1>3

\* A reconcile rewrites its Webapp only if the copy it holds is the server's;
\* what it writes has the same uid and deletion timestamp, and the finalizer
\* if the copy has it.
LEMMA RewriteStep ==
  ASSUME CoreInv, pc # "idle", Updatable("webapp", cur),
         NEW o \in WebappObject, Put("webapp", cur, o),
         o.uid = obj.uid, o.deleting = obj.deleting, obj.finalizer => o.finalizer,
         \/ pc' = "idle"
         \/ /\ cur' = cur /\ obj' = o /\ obj'.finalizer
            /\ pc' = "createNamespace" /\ held' = held
  PROVE  JobOK' /\ HeldCurrent' /\ (CopiesVouch => CopiesVouch')
<1>1. /\ obj = store.webapp[cur] /\ obj # None /\ o # None
      /\ cur \in Webapps /\ cur # None
      /\ obj.deleting => cache.webapp[cur] # None /\ cache.webapp[cur].deleting
  BY BusyTypes, DistinctAssumption, KindsOfObjects
  DEF CoreInv, HeldCurrent, JobOK, Updatable
<1>2. cache'.webapp = cache.webapp
  BY <1>1, WebappPut
<1>3. /\ store'.webapp[cur] = o
      /\ \A w \in Webapps : w # cur => store'.webapp[w] = store.webapp[w]
  BY <1>1, WebappPut
<1>4. JobOK'
  BY <1>1 DEF JobOK, BeforeGate, Finalization, Upserts
<1>5. HeldCurrent'
  BY <1>1, <1>2, <1>3 DEF HeldCurrent
<1>6. CopiesVouch => \A w \in Webapps : Vouches(cache.webapp[w], w)'
  BY <1>1, <1>2, <1>3 DEF CoreInv, CopiesVouch, Vouches
<1>7. CopiesVouch => CopiesVouch'
  BY <1>1, <1>3, <1>6 DEF CopiesVouch, Vouches, BeforeGate
<1>. QED
  BY <1>4, <1>5, <1>7

\* The Webapp whose finalizer is removed leaves the server: the cache knows
\* that it is being deleted, and vouches for it no more.
LEMMA RemoveStep ==
  ASSUME CoreInv, RemoveFinalizer
  PROVE  JobOK' /\ HeldCurrent' /\ (CopiesVouch => CopiesVouch')
<1>1. CASE Fails
  BY <1>1, QuietStep DEF Fails, Retry, Drop, Unwritten, WebappsSame
<1>2. CASE Updatable("webapp", cur) /\ Put("webapp", cur, None) /\ Done
  <2>1. /\ pc # "idle" /\ pc \in Finalization /\ cur \in Webapps
    BY BusyTypes DEF RemoveFinalizer, CoreInv, Finalization
  <2>2. cache.webapp[cur] # None /\ cache.webapp[cur].deleting
    BY <1>2, <2>1 DEF CoreInv, JobOK, HeldCurrent, Updatable
  <2>3. cache'.webapp = cache.webapp
    BY <1>2, <2>1, WebappPut
  <2>4. \A w \in Webapps : w # cur => store'.webapp[w] = store.webapp[w]
    BY <1>2, <2>1, WebappPut
  <2>5. CopiesVouch => \A w \in Webapps : Vouches(cache.webapp[w], w)'
    BY <2>2, <2>3, <2>4 DEF CoreInv, CopiesVouch, Vouches
  <2>6. pc' = "idle"
    BY <1>2 DEF Done, Drop
  <2>. QED
    BY <2>5, <2>6 DEF JobOK, HeldCurrent, CopiesVouch, BeforeGate
<1>. QED
  BY <1>1, <1>2 DEF RemoveFinalizer

\* Users can take nothing back that a copy vouches for: an object with the
\* finalizer they can only mark as deleting.
LEMMA UserWebapps ==
  ASSUME CoreInv, UserStep
  PROVE  \E w \in Webapps :
           /\ cache'.webapp = cache.webapp
           /\ \A v \in Webapps : v # w => store'.webapp[v] = store.webapp[v]
           /\ <<"webapp", w>> \notin held' /\ held' \subseteq held
           /\ store.webapp[w] # None /\ store.webapp[w].finalizer =>
                /\ store'.webapp[w] # None
                /\ store'.webapp[w].uid = store.webapp[w].uid
                /\ store'.webapp[w].finalizer
<1>1. PICK w \in Webapps :
        (\E s \in Specs : UserCreate(w, s) \/ UserEdit(w, s)) \/ UserDelete(w)
  BY DEF UserStep
<1>2. store.webapp \in [Webapps -> WebappObject \cup {None}]
  BY ObjectsTypes DEF CoreInv, TypeOK, ClusterTypeOK
<1>3. ASSUME NEW o, UserWrites(w, o)
      PROVE  /\ cache'.webapp = cache.webapp
             /\ store'.webapp[w] = o
             /\ \A v \in Webapps : v # w => store'.webapp[v] = store.webapp[v]
             /\ <<"webapp", w>> \notin held' /\ held' \subseteq held
  BY <1>3, WebappPut DEF UserWrites
<1>4. CASE \E s \in Specs : UserCreate(w, s)
  <2>1. store.webapp[w] = None /\ \E o : UserWrites(w, o)
    BY <1>4 DEF UserCreate
  <2>. QED
    BY <1>3, <2>1
<1>5. ASSUME NEW s \in Specs, UserEdit(w, s)
      PROVE  \E o : /\ UserWrites(w, o)
                    /\ o # None
                    /\ o.uid = store.webapp[w].uid
                    /\ o.finalizer = store.webapp[w].finalizer
  <2>. DEFINE o == [store.webapp[w] EXCEPT !.spec = s]
  <2>1. UserWrites(w, o) /\ store.webapp[w] \in WebappObject
    BY <1>2, <1>5 DEF UserEdit
  <2>2. o \in WebappObject /\ o.uid = store.webapp[w].uid
        /\ o.finalizer = store.webapp[w].finalizer
    BY <2>1 DEF WebappObject
  <2>. QED
    BY <2>1, <2>2, DistinctAssumption, KindsOfObjects
<1>6. CASE UserDelete(w) /\ store.webapp[w].finalizer
  <2>. DEFINE o == [store.webapp[w] EXCEPT !.deleting = TRUE]
  <2>1. UserWrites(w, o) /\ store.webapp[w] \in WebappObject
    BY <1>2, <1>6 DEF UserDelete
  <2>2. o \in WebappObject /\ o.uid = store.webapp[w].uid
        /\ o.finalizer = store.webapp[w].finalizer
    BY <2>1 DEF WebappObject
  <2>3. o # None
    BY <2>2, DistinctAssumption, KindsOfObjects
  <2>. QED
    BY <1>3, <1>6, <2>1, <2>2, <2>3
<1>7. CASE UserDelete(w) /\ ~store.webapp[w].finalizer
  <2>1. \E o : UserWrites(w, o)
    BY <1>7 DEF UserDelete
  <2>. QED
    BY <1>3, <1>7, <2>1
<1>. QED
  BY <1>1, <1>3, <1>4, <1>5, <1>6, <1>7

\* The steps of a reconcile that do not write its Webapp.
OtherCall == \/ CreateNamespace \/ ReadIngress \/ DeleteProxy \/ PruneIngress
             \/ UpsertDeployment \/ UpsertService \/ UpsertProxy \/ UpdateIngress

\* The calls that make or remove namespace, ingress, deployment and services leave
\* the Webapps as they are, at the server and in the cache.
LEMMA OtherCallKeepsWebapps ==
  ASSUME ObjectsOK, OtherCall
  PROVE  WebappsSame
<1>1. ASSUME NEW kind \in Kinds \ {"webapp"}, NEW name, NEW o, Put(kind, name, o)
      PROVE  WebappsSame
  BY <1>1, PutWebapps DEF WebappsSame
<1>2. Unwritten \/ Fails => WebappsSame
  BY DEF Unwritten, Fails, WebappsSame
<1>3. {"deployment", "service", "proxy", "ingress", "namespace"}
        \subseteq Kinds \ {"webapp"}
  BY KindsOfObjects
<1>4. CreateNamespace => WebappsSame
  BY <1>1, <1>2, <1>3 DEF CreateNamespace
<1>5. ReadIngress => WebappsSame
  BY <1>2 DEF ReadIngress
<1>6. DeleteProxy => WebappsSame
  BY <1>1, <1>2, <1>3 DEF DeleteProxy
<1>7. PruneIngress => WebappsSame
  BY <1>1, <1>2, <1>3 DEF PruneIngress
<1>8. UpsertDeployment => WebappsSame
  BY <1>1, <1>2, <1>3 DEF UpsertDeployment
<1>9. UpsertService => WebappsSame
  BY <1>1, <1>2, <1>3 DEF UpsertService
<1>10. UpsertProxy => WebappsSame
  BY <1>1, <1>2, <1>3 DEF UpsertProxy
<1>11. UpdateIngress => WebappsSame
  BY <1>1, <1>2, <1>3 DEF UpdateIngress
<1>. QED
  BY <1>4, <1>5, <1>6, <1>7, <1>8, <1>9, <1>10, <1>11 DEF OtherCall

\* They end the reconcile, or go on past the gate in the right half of it.
LEMMA OtherCallGoesOn ==
  ASSUME CoreInv, OtherCall
  PROVE  \/ pc' = "idle"
         \/ /\ cur' = cur /\ obj' = obj
            /\ pc \notin BeforeGate
            /\ pc' # "idle"
            /\ pc' \in Finalization => obj.deleting
            /\ pc' \in Upserts => ~obj.deleting
            /\ <<"webapp", cur>> \in held' => <<"webapp", cur>> \in held
<1>. USE DEF BeforeGate, Finalization, Upserts, Go
<1>1. Fails \/ Done => pc' = "idle"
  BY DEF Fails, Retry, Done, Drop
<1>2. CASE CreateNamespace
  BY <1>1, <1>2 DEF CreateNamespace
<1>3. CASE ReadIngress
  BY <1>3 DEF ReadIngress
<1>4. CASE DeleteProxy
  BY <1>1, <1>4 DEF DeleteProxy, CoreInv, JobOK
<1>5. CASE PruneIngress
  BY <1>1, <1>5 DEF PruneIngress, CoreInv, JobOK
<1>6. CASE UpsertDeployment
  BY <1>1, <1>6 DEF UpsertDeployment, CoreInv, JobOK
<1>7. CASE UpsertService
  BY <1>1, <1>7 DEF UpsertService, CoreInv, JobOK
<1>8. CASE UpsertProxy
  BY <1>1, <1>8 DEF UpsertProxy, CoreInv, JobOK
<1>9. CASE UpdateIngress
  BY <1>1, <1>9 DEF UpdateIngress
<1>. QED
  BY <1>2, <1>3, <1>4, <1>5, <1>6, <1>7, <1>8, <1>9 DEF OtherCall

\* Every step keeps the copies in memory and in the cache in order.
LEMMA CopiesStep ==
  ASSUME CoreInv, [Next]_vars
  PROVE  JobOK' /\ HeldCurrent' /\ (CopiesVouch => CopiesVouch')
<1>. ObjectsOK
  BY DEF CoreInv, TypeOK, ClusterTypeOK, ObjectsOK
<1>1. CASE \E w \in Webapps : GetNothing(w)
  BY <1>1, QuietStep DEF GetNothing, Unwritten, WebappsSame, jobVars
<1>2. CASE \E w \in Webapps : Get(w)
  BY <1>2, GetStep
<1>3. CASE Fails /\ pc # "idle"
  BY <1>3, QuietStep DEF Fails, Retry, Drop, Unwritten, WebappsSame
<1>4. CASE UpdateLabels
  <2>. DEFINE labelled == [obj EXCEPT !.label = Hash[obj.spec]]
  <2>1. pc # "idle" /\ obj \in WebappObject /\ Hash[obj.spec] \in Hashes
    BY <1>4, BusyTypes DEF UpdateLabels, CoreInv
  <2>2. /\ labelled \in WebappObject
        /\ labelled.uid = obj.uid
        /\ labelled.deleting = obj.deleting
        /\ labelled.finalizer = obj.finalizer
    BY <2>1 DEF WebappObject
  <2>3. \/ Updatable("webapp", cur) /\ Put("webapp", cur, labelled) /\ pc' = "idle"
        \/ Fails
    BY <1>4 DEF UpdateLabels, Done, Drop
  <2>. HIDE DEF labelled
  <2>. QED
    BY <1>3, <2>1, <2>2, <2>3, RewriteStep
<1>5. CASE AddFinalizer
  <2>. DEFINE guarded == [obj EXCEPT !.finalizer = TRUE]
  <2>1. pc # "idle" /\ obj \in WebappObject
    BY <1>5, BusyTypes DEF AddFinalizer, CoreInv
  <2>2. /\ guarded \in WebappObject
        /\ guarded.uid = obj.uid
        /\ guarded.deleting = obj.deleting
        /\ guarded.finalizer
    BY <2>1 DEF WebappObject
  <2>3. \/ /\ Updatable("webapp", cur) /\ Put("webapp", cur, guarded)
           /\ cur' = cur /\ obj' = guarded
           /\ pc' = "createNamespace" /\ held' = held
        \/ Fails
    BY <1>5 DEF AddFinalizer, Go
  <2>. HIDE DEF guarded
  <2>. QED
    BY <1>3, <2>1, <2>2, <2>3, RewriteStep
<1>6. CASE RemoveFinalizer
  BY <1>6, RemoveStep
<1>7. CASE OtherCall
  BY <1>7, OtherCallKeepsWebapps, OtherCallGoesOn, QuietStep
<1>8. CASE CallFails
  BY <1>8, QuietStep DEF CallFails, Drop, Unwritten, WebappsSame
<1>9. CASE Restart
  <2>1. pc' = "idle" /\ cache' = store /\ store' = store
    BY <1>9 DEF Restart, Drop
  <2>. QED
    BY <2>1 DEF JobOK, HeldCurrent, CopiesVouch, Vouches, BeforeGate
<1>10. CASE Resync
  BY <1>10
  DEF Resync, CoreInv, JobOK, HeldCurrent, CopiesVouch, Vouches, BeforeGate, jobVars
<1>11. CASE UserStep /\ UNCHANGED jobVars
  <2>1. PICK w \in Webapps :
           /\ cache'.webapp = cache.webapp
           /\ \A v \in Webapps : v # w => store'.webapp[v] = store.webapp[v]
           /\ <<"webapp", w>> \notin held' /\ held' \subseteq held
           /\ store.webapp[w] # None /\ store.webapp[w].finalizer =>
                /\ store'.webapp[w] # None
                /\ store'.webapp[w].uid = store.webapp[w].uid
                /\ store'.webapp[w].finalizer
    BY <1>11, UserWebapps
  <2>2. JobOK'
    BY <1>11 DEF CoreInv, JobOK, jobVars
  <2>3. HeldCurrent'
    BY <1>11, <2>1, BusyTypes DEF CoreInv, HeldCurrent, jobVars
  <2>4. \A v \in Webapps : \A o : Vouches(o, v) => Vouches(o, v)'
    BY <2>1 DEF Vouches
  <2>5. pc \notin BeforeGate => cur \in Webapps
    BY BusyTypes DEF CoreInv, BeforeGate
  <2>6. /\ pc' = pc /\ cur' = cur /\ obj' = obj
        /\ \A v \in Webapps : cache'.webapp[v] = cache.webapp[v]
    BY <1>11, <2>1 DEF jobVars
  <2>7. CopiesVouch => CopiesVouch'
    BY <2>4, <2>5, <2>6 DEF CoreInv, CopiesVouch, Vouches
  <2>. QED
    BY <2>2, <2>3, <2>7
<1>12. ASSUME NEW kind \in Kinds, NEW name \in Names(kind), Deliver(kind, name),
              UNCHANGED jobVars
       PROVE  JobOK' /\ HeldCurrent' /\ (CopiesVouch => CopiesVouch')
  <2>1. /\ store' = store /\ held' = held
        /\ cache = [k \in Kinds |-> cache[k]]
        /\ cache.webapp \in [Webapps -> WebappObject \cup {None}]
        /\ cache' = [cache EXCEPT ![kind][name] = store[kind][name]]
    BY <1>12, ObjectsTypes DEF Deliver, ObjectsOK, AreObjects
  <2>2. \A w \in Webapps : \/ cache'.webapp[w] = cache.webapp[w]
                          \/ cache'.webapp[w] = store.webapp[w]
    BY <2>1, KindsOfObjects
  <2>3. JobOK'
    BY <1>12 DEF CoreInv, JobOK, jobVars
  <2>4. HeldCurrent'
    BY <1>12, <2>1, <2>2, BusyTypes DEF CoreInv, HeldCurrent, JobOK, jobVars
  <2>5. CopiesVouch => CopiesVouch'
    BY <1>12, <2>1, <2>2 DEF CoreInv, CopiesVouch, Vouches, jobVars
  <2>. QED
    BY <2>3, <2>4, <2>5
<1>13. ASSUME NEW kind \in {"deployment", "service"}, NEW w \in Webapps,
              Collect(kind, w), UNCHANGED jobVars
       PROVE  JobOK' /\ HeldCurrent' /\ (CopiesVouch => CopiesVouch')
  <2>1. WebappsSame
    BY <1>13, PutWebapps, KindsOfObjects DEF Collect, WebappsSame
  <2>2. held' = held
    BY <1>13 DEF Collect
  <2>. QED
    BY <1>13, <2>1, <2>2
    DEF CoreInv, JobOK, HeldCurrent, CopiesVouch, Vouches, WebappsSame, jobVars
<1>14. CASE UNCHANGED vars
  BY <1>14
  DEF vars, clusterVars, jobVars, CoreInv, JobOK, HeldCurrent, CopiesVouch, Vouches
<1>. QED
  BY <1>1, <1>2, <1>4, <1>5, <1>6, <1>7, <1>8, <1>9, <1>10, <1>11, <1>12, <1>13,
     <1>14 DEF Next, ReconcileStep, ClusterStep, OtherCall

\* Every step keeps what is not stale in step with the server.
LEMMA InStepStep ==
  ASSUME CoreInv, [Next]_vars
  PROVE  CacheInStep'
<1>o. ObjectsOK /\ CacheInStep
  BY DEF CoreInv, TypeOK, ClusterTypeOK, ObjectsOK
<1>p. ASSUME NEW kind \in Kinds, NEW name \in Names(kind), NEW o,
             Put(kind, name, o)
      PROVE  CacheInStep'
  BY <1>o, <1>p, PutInStep
<1>u. Unwritten => CacheInStep'
  BY <1>o DEF Unwritten, CacheInStep, Current
<1>f. Fails => CacheInStep'
  BY <1>u DEF Fails
<1>g. Global \in Names("ingress") /\ Global \in Names("namespace")
  BY KindsOfObjects
<1>c. pc # "idle" => /\ cur \in Names("webapp") /\ cur \in Names("deployment")
                    /\ cur \in Names("service") /\ ProxyName[cur] \in Names("proxy")
  BY BusyTypes, KindsOfObjects DEF CoreInv
<1>1. CASE \E w \in Webapps : GetNothing(w) \/ Get(w)
  BY <1>1, <1>u DEF GetNothing, Get
<1>2. CASE UpdateLabels \/ AddFinalizer \/ RemoveFinalizer
  BY <1>2, <1>p, <1>f, <1>c, KindsOfObjects
  DEF UpdateLabels, AddFinalizer, RemoveFinalizer
<1>3. CASE CreateNamespace
  BY <1>3, <1>p, <1>f, <1>u, <1>g, KindsOfObjects DEF CreateNamespace
<1>4. CASE ReadIngress
  BY <1>4, <1>u DEF ReadIngress
<1>5. CASE DeleteProxy
  BY <1>5, <1>p, <1>f, <1>u, <1>c, KindsOfObjects DEF DeleteProxy
<1>6. CASE PruneIngress
  BY <1>6, <1>p, <1>f, <1>g, KindsOfObjects DEF PruneIngress
<1>7. CASE UpsertDeployment
  BY <1>7, <1>p, <1>f, <1>u, <1>c, KindsOfObjects DEF UpsertDeployment
<1>8. CASE UpsertService
  BY <1>8, <1>p, <1>f, <1>c, KindsOfObjects DEF UpsertService
<1>9. CASE UpsertProxy
  BY <1>9, <1>p, <1>f, <1>c, KindsOfObjects DEF UpsertProxy
<1>10. CASE UpdateIngress
  BY <1>10, <1>p, <1>f, <1>u, <1>g, KindsOfObjects DEF UpdateIngress
<1>11. CASE CallFails
  BY <1>11, <1>u DEF CallFails
<1>12. CASE Restart
  BY <1>12 DEF Restart, CacheInStep
<1>13. CASE Resync
  BY <1>13, <1>o DEF Resync, CacheInStep, Current
<1>14. CASE UserStep
  <2>1. ASSUME NEW w \in Webapps, NEW o, UserWrites(w, o)
        PROVE  CacheInStep'
    BY <2>1, <1>p, KindsOfObjects DEF UserWrites
  <2>. QED
    BY <1>14, <2>1 DEF UserStep, UserCreate, UserEdit, UserDelete
<1>15. ASSUME NEW kind \in Kinds, NEW name \in Names(kind), Deliver(kind, name)
       PROVE  CacheInStep'
  <2>1. /\ store' = store /\ stale' = stale \ {<<kind, name>>}
        /\ cache' = [cache EXCEPT ![kind][name] = store[kind][name]]
        /\ cache = [k \in Kinds |-> cache[k]]
        /\ \A k \in Kinds : cache[k] = [n \in Names(k) |-> cache[k][n]]
    BY <1>15, <1>o DEF Deliver, ObjectsOK, AreObjects, Table
  <2>2. \A k \in Kinds : \A n \in Names(k) :
          <<k, n>> # <<kind, name>> => cache'[k][n] = cache[k][n]
    BY <2>1
  <2>3. cache'[kind][name] = store'[kind][name]
    BY <2>1
  <2>. QED
    BY <1>o, <2>1, <2>2, <2>3 DEF CacheInStep, Current
<1>16. ASSUME NEW kind \in {"deployment", "service"}, NEW w \in Webapps,
              Collect(kind, w)
       PROVE  CacheInStep'
  BY <1>16, <1>p, KindsOfObjects DEF Collect
<1>17. CASE UNCHANGED vars
  BY <1>17, <1>o DEF vars, clusterVars, CacheInStep, Current
<1>. QED
  BY <1>1, <1>2, <1>3, <1>4, <1>5, <1>6, <1>7, <1>8, <1>9, <1>10, <1>11, <1>12,
     <1>13, <1>14, <1>15, <1>16, <1>17 DEF Next, ReconcileStep, ClusterStep

\* An empty cluster satisfies the inductive invariant.
LEMMA InitIInv == Init => IInv
<1>1. \A kind \in Kinds : NoObjects[kind] \in Table(kind)
  BY DEF NoObjects, Table
<1>2. AreObjects(NoObjects)
  BY <1>1 DEF AreObjects, NoObjects
<1>3. \A w \in Webapps : NoObjects.webapp[w] = None
  BY KindsOfObjects DEF NoObjects
<1>4. Init => TypeOK
  BY <1>2 DEF Init, ClusterInit, TypeOK, ClusterTypeOK, Calls
<1>. QED
  BY <1>3, <1>4 DEF Init, ClusterInit, IInv, CoreInv, CacheInStep, JobOK, HeldCurrent,
                    CopiesVouch, Vouches, BeforeGate

\* No step of the controller, of users, informers or collector breaks CoreInv.
LEMMA CoreStep ==
  ASSUME CoreInv, [Next]_vars
  PROVE  CoreInv'
<1>1. TypeOK'
  BY TypeStep DEF CoreInv
<1>. QED
  BY <1>1, InStepStep, CopiesStep DEF CoreInv

\* Nor IInv, where the controller alone writes the Webapps of users.
LEMMA IInvStep ==
  ASSUME IInv, [Next]_vars
  PROVE  IInv'
BY CoreStep, CopiesStep DEF IInv

\* The invariant that the theorems below rest on.
THEOREM Inductive == Spec => []IInv
BY InitIInv, IInvStep, PTL DEF Spec

\* Every variable keeps its type, in particular what the controller writes to
\* the API server has the shape the other parts of the model expect.
THEOREM TypeCorrect == Spec => []TypeOK
<1>1. IInv => TypeOK
  BY DEF IInv, CoreInv
<1>. QED
  BY <1>1, Inductive, PTL

\* A reconcile that creates things works for a Webapp that the server still
\* has with the finalizer (webapp_controller.go:102-107), however many Webapps,
\* users' edits, conflicts, crashes and late events there are.
THEOREM GateHolds == Spec => []FinalizerGate
<1>1. IInv => FinalizerGate
  BY DEF IInv, CoreInv, CopiesVouch, Vouches, JobOK, FinalizerGate, BeforeGate
<1>. QED
  BY <1>1, Inductive, PTL

-----------------------------------------------------------------------------
(* What the controller does to Webapps.                                    *)

\* What the controller writes to a Webapp (webapp_controller.go:94, 104, 127) is a
\* label or a finalizer, and it writes it only over the version that it read; only
\* a Webapp in deletion loses its finalizer.
LEMMA UsersDecideStep ==
  ASSUME CoreInv, [Next]_vars
  PROVE  [UsersDecide]_vars
<1>. ObjectsOK
  BY DEF CoreInv, TypeOK, ClusterTypeOK, ObjectsOK
<1>1. ASSUME store'.webapp = store.webapp
      PROVE  UsersDecide
  BY <1>1 DEF UsersDecide, AsUsersWant
<1>2. ASSUME store' = store
      PROVE  UsersDecide
  BY <1>1, <1>2
<1>3. ASSUME NEW o, pc # "idle", Updatable("webapp", cur), Put("webapp", cur, o),
             o = None => obj.deleting,
             o # None => /\ o.spec = obj.spec
                         /\ o.uid = obj.uid
                         /\ o.deleting = obj.deleting
      PROVE  UsersDecide
  <2>1. cur \in Webapps /\ obj # None /\ obj = store.webapp[cur]
    BY <1>3, BusyTypes DEF CoreInv, JobOK, HeldCurrent, Updatable
  <2>2. /\ store'.webapp[cur] = o
        /\ \A v \in Webapps : v # cur => store'.webapp[v] = store.webapp[v]
    BY <1>3, <2>1, WebappPut
  <2>. QED
    BY <1>3, <2>1, <2>2 DEF UsersDecide, AsUsersWant
<1>4. CASE UpdateLabels
  <2>. DEFINE labelled == [obj EXCEPT !.label = Hash[obj.spec]]
  <2>1. pc # "idle" /\ obj \in WebappObject
    BY <1>4, BusyTypes DEF UpdateLabels, CoreInv
  <2>2. /\ labelled.spec = obj.spec
        /\ labelled.uid = obj.uid
        /\ labelled.deleting = obj.deleting
        /\ labelled \in WebappObject
    BY <2>1, BusyTypes DEF WebappObject, CoreInv
  <2>3. labelled # None
    BY <2>2, DistinctAssumption, KindsOfObjects
  <2>4. \/ Updatable("webapp", cur) /\ Put("webapp", cur, labelled)
        \/ store' = store
    BY <1>4 DEF UpdateLabels, Fails, Unwritten
  <2>. HIDE DEF labelled
  <2>. QED
    BY <1>2, <1>3, <2>1, <2>2, <2>3, <2>4
<1>5. CASE AddFinalizer
  <2>. DEFINE guarded == [obj EXCEPT !.finalizer = TRUE]
  <2>1. pc # "idle" /\ obj \in WebappObject
    BY <1>5, BusyTypes DEF AddFinalizer, CoreInv
  <2>2. /\ guarded.spec = obj.spec
        /\ guarded.uid = obj.uid
        /\ guarded.deleting = obj.deleting
        /\ guarded \in WebappObject
    BY <2>1 DEF WebappObject
  <2>3. guarded # None
    BY <2>2, DistinctAssumption, KindsOfObjects
  <2>4. \/ Updatable("webapp", cur) /\ Put("webapp", cur, guarded)
        \/ store' = store
    BY <1>5 DEF AddFinalizer, Fails, Unwritten
  <2>. HIDE DEF guarded
  <2>. QED
    BY <1>2, <1>3, <2>1, <2>2, <2>3, <2>4
<1>6. CASE RemoveFinalizer
  <2>1. pc # "idle" /\ obj.deleting
    BY <1>6 DEF RemoveFinalizer, CoreInv, JobOK, Finalization
  <2>2. \/ Updatable("webapp", cur) /\ Put("webapp", cur, None)
        \/ store' = store
    BY <1>6 DEF RemoveFinalizer, Fails, Unwritten
  <2>. QED
    BY <1>2, <1>3, <2>1, <2>2
<1>7. CASE OtherCall
  BY <1>1, <1>7, OtherCallKeepsWebapps DEF WebappsSame
<1>8. CASE \/ \E w \in Webapps : GetNothing(w) \/ Get(w)
           \/ CallFails \/ Restart \/ Resync
  BY <1>2, <1>8 DEF GetNothing, Get, CallFails, Restart, Resync, Unwritten
<1>9. CASE UserStep
  <2>1. ops' = ops + 1 /\ ops \in Nat
    BY <1>9 DEF UserStep, UserCreate, UserEdit, UserDelete, UserWrites,
                CoreInv, TypeOK, ClusterTypeOK
  <2>. QED
    BY <2>1 DEF UsersDecide
<1>10. CASE \E kind \in Kinds : \E name \in Names(kind) : Deliver(kind, name)
  BY <1>2, <1>10 DEF Deliver
<1>11. CASE \E kind \in {"deployment", "service"}, w \in Webapps : Collect(kind, w)
  BY <1>1, <1>11, PutWebapps, KindsOfObjects DEF Collect
<1>. QED
  BY <1>4, <1>5, <1>6, <1>7, <1>8, <1>9, <1>10, <1>11
  DEF Next, ReconcileStep, ClusterStep, OtherCall

\* The controller writes Webapps back as a whole, from copies the cache gave it
\* (webapp_controller.go:94, 104, 127); it never undoes what a user did.
THEOREM UsersDecideAlways == Spec => OnlyUsersDecide
<1>1. IInv /\ [Next]_vars => [UsersDecide]_vars
  BY UsersDecideStep DEF IInv
<1>. QED
  BY <1>1, Inductive, PTL DEF Spec, OnlyUsersDecide

-----------------------------------------------------------------------------
(* Proxy services.                                                         *)

\* A write of another kind leaves the proxies alone.
LEMMA PutProxies ==
  ASSUME ObjectsOK, NEW kind \in Kinds, NEW name, NEW o, Put(kind, name, o)
  PROVE  /\ kind # "proxy" => store'.proxy = store.proxy
         /\ kind = "proxy" => store'.proxy = [store.proxy EXCEPT ![name] = o]
<1>1. /\ store = [k \in Kinds |-> store[k]]
      /\ "proxy" \in Kinds
      /\ store.proxy \in [Proxies -> ProxyObject \cup {None}]
  BY KindsOfObjects, ObjectsTypes DEF ObjectsOK, AreObjects
<1>. QED
  BY <1>1 DEF Put, Unwritten

ProxyIInv == IInv /\ ProxyInv /\ ProxyGuarded

\* A step that leaves proxies alone, and no Webapp that has a finalizer without
\* it, keeps the proxies guarded.
LEMMA ProxiesStay ==
  ASSUME ProxyIInv, store'.proxy = store.proxy,
         \A w \in Webapps : store.webapp[w] # None /\ store.webapp[w].finalizer =>
           store'.webapp[w] # None /\ store'.webapp[w].finalizer,
         \/ pc' \notin {"pruneIngress", "removeFinalizer"}
         \/ pc' = pc /\ cur' = cur
         \/ pc = "pruneIngress" /\ cur' = cur
         \/ store.proxy[ProxyName[cur']] = None
  PROVE  ProxyInv' /\ ProxyGuarded'
<1>1. \A p \in Proxies : store.proxy[p] # None => store.proxy[p].target \in Webapps
  BY ObjectsTypes DEF ProxyIInv, IInv, CoreInv, TypeOK, ClusterTypeOK, ProxyObject
<1>2. ProxyInv'
  BY DEF ProxyIInv, ProxyInv
<1>3. ProxyGuarded'
  BY <1>1 DEF ProxyIInv, ProxyGuarded
<1>. QED
  BY <1>2, <1>3

\* UpsertProxy names a Webapp that has the finalizer.
LEMMA UpsertProxyGuards ==
  ASSUME ProxyIInv, UpsertProxy
  PROVE  ProxyInv' /\ ProxyGuarded'
<1>. DEFINE o == [target |-> cur, spec |-> obj.spec]
<1>1. ObjectsOK
  BY DEF ProxyIInv, IInv, CoreInv, TypeOK, ClusterTypeOK, ObjectsOK
<1>2. pc = "upsertProxy" /\ cur \in Webapps /\ ProxyName[cur] \in Proxies
  BY BusyTypes DEF UpsertProxy, ProxyIInv, IInv, CoreInv
<1>3. store.webapp[cur] # None /\ store.webapp[cur].finalizer
  BY <1>2 DEF ProxyIInv, IInv, CoreInv, JobOK, CopiesVouch, Vouches, BeforeGate, Upserts
<1>4. CASE Fails
  <2>1. store' = store /\ pc' = "idle"
    BY <1>4 DEF Fails, Unwritten, Retry, Drop
  <2>. QED
    BY <1>1, <2>1, ProxiesStay
<1>5. CASE Put("proxy", ProxyName[cur], o) /\ Go("updateIngress")
  <2>1. /\ store'.proxy = [store.proxy EXCEPT ![ProxyName[cur]] = o]
        /\ store'.webapp = store.webapp
        /\ store.proxy \in [Proxies -> ProxyObject \cup {None}]
    <3>1. "proxy" \in Kinds
      BY KindsOfObjects
    <3>2. /\ store'.proxy = [store.proxy EXCEPT ![ProxyName[cur]] = o]
      BY <1>1, <1>5, <3>1, PutProxies
    <3>3. store'.webapp = store.webapp
      BY <1>1, <1>5, <3>1, PutWebapps
    <3>4. store.proxy \in [Proxies -> ProxyObject \cup {None}]
      BY <1>1, ObjectsTypes DEF ObjectsOK
    <3>. QED
      BY <3>2, <3>3, <3>4
  <2>2. \A p \in Proxies : \/ store'.proxy[p] = store.proxy[p]
                           \/ p = ProxyName[cur] /\ store'.proxy[p].target = cur
    BY <1>2, <2>1
  <2>3. pc' = "updateIngress"
    BY <1>5 DEF Go
  <2>4. ProxyInv'
    BY <2>1, <2>2, <2>3 DEF ProxyIInv, ProxyInv
  <2>5. ProxyGuarded'
    BY <1>3, <2>1, <2>2 DEF ProxyIInv, ProxyGuarded
  <2>. QED
    BY <2>4, <2>5
<1>. QED
  BY <1>4, <1>5 DEF UpsertProxy

\* DeleteProxy goes on only without a proxy service, if one that it does not find
\* does not exist.
LEMMA DeleteProxyClears ==
  ASSUME ProxyIInv, FreshProxyRead, DeleteProxy
  PROVE  ProxyInv' /\ ProxyGuarded'
<1>1. ObjectsOK
  BY DEF ProxyIInv, IInv, CoreInv, TypeOK, ClusterTypeOK, ObjectsOK
<1>2. pc = "deleteProxy" /\ cur \in Webapps /\ ProxyName[cur] \in Proxies
  BY BusyTypes DEF DeleteProxy, ProxyIInv, IInv, CoreInv
<1>3. CASE Fails
  <2>1. store' = store /\ pc' = "idle"
    BY <1>3 DEF Fails, Unwritten, Retry, Drop
  <2>. QED
    BY <1>1, <2>1, ProxiesStay
<1>4. CASE cache.proxy[ProxyName[cur]] = None /\ Unwritten /\ Go("removeFinalizer")
  <2>1. store' = store /\ cur' = cur /\ pc' = "removeFinalizer"
    BY <1>4 DEF Unwritten, Go
  <2>2. Current("proxy", ProxyName[cur])
    BY <2>1 DEF FreshProxyRead
  <2>3. store.proxy[ProxyName[cur]] = None
    BY <1>2, <1>4, <2>2, KindsOfObjects DEF ProxyIInv, IInv, CoreInv, CacheInStep
  <2>. QED
    BY <1>1, <2>1, <2>3, ProxiesStay
<1>5. CASE Put("proxy", ProxyName[cur], None) /\ Go("pruneIngress")
  <2>1. /\ store'.proxy = [store.proxy EXCEPT ![ProxyName[cur]] = None]
        /\ store'.webapp = store.webapp
        /\ store.proxy \in [Proxies -> ProxyObject \cup {None}]
    <3>1. "proxy" \in Kinds
      BY KindsOfObjects
    <3>2. /\ store'.proxy = [store.proxy EXCEPT ![ProxyName[cur]] = None]
      BY <1>1, <1>5, <3>1, PutProxies
    <3>3. store'.webapp = store.webapp
      BY <1>1, <1>5, <3>1, PutWebapps
    <3>4. store.proxy \in [Proxies -> ProxyObject \cup {None}]
      BY <1>1, ObjectsTypes DEF ObjectsOK
    <3>. QED
      BY <3>2, <3>3, <3>4
  <2>2. /\ store'.proxy[ProxyName[cur]] = None
        /\ \A p \in Proxies : store'.proxy[p] # None => store'.proxy[p] = store.proxy[p]
    BY <1>2, <2>1
  <2>3. cur' = cur
    BY <1>5 DEF Go
  <2>4. ProxyInv'
    BY <2>1, <2>2, <2>3 DEF ProxyIInv, ProxyInv
  <2>5. ProxyGuarded'
    BY <2>1, <2>2 DEF ProxyIInv, ProxyGuarded
  <2>. QED
    BY <2>4, <2>5
<1>. QED
  BY <1>3, <1>4, <1>5 DEF DeleteProxy

\* The Webapp that leaves the server has no proxy service.
LEMMA RemovedIsUnproxied ==
  ASSUME ProxyIInv, RemoveFinalizer
  PROVE  ProxyInv' /\ ProxyGuarded'
<1>1. ObjectsOK
  BY DEF ProxyIInv, IInv, CoreInv, TypeOK, ClusterTypeOK, ObjectsOK
<1>2. pc = "removeFinalizer" /\ cur \in Webapps
  BY BusyTypes DEF RemoveFinalizer, ProxyIInv, IInv, CoreInv
<1>3. CASE Fails
  <2>1. store' = store /\ pc' = "idle"
    BY <1>3 DEF Fails, Unwritten, Retry, Drop
  <2>. QED
    BY <1>1, <2>1, ProxiesStay
<1>4. CASE Put("webapp", cur, None) /\ Done
  <2>1. /\ store'.proxy = store.proxy
    BY <1>1, <1>4, PutProxies, KindsOfObjects
  <2>2. \A w \in Webapps : w # cur => store'.webapp[w] = store.webapp[w]
    BY <1>2, <1>4, WebappPut DEF ProxyIInv, IInv
  <2>3. \A p \in Proxies : store.proxy[p] # None => store.proxy[p].target # cur
    BY <1>2 DEF ProxyIInv, ProxyInv
  <2>4. \A p \in Proxies : store.proxy[p] # None => store.proxy[p].target \in Webapps
    BY ObjectsTypes DEF ProxyIInv, IInv, CoreInv, TypeOK, ClusterTypeOK, ProxyObject
  <2>5. pc' = "idle"
    BY <1>4 DEF Done, Drop
  <2>6. ProxyInv'
    BY <2>1, <2>5 DEF ProxyIInv, ProxyInv
  <2>7. ProxyGuarded'
    BY <2>1, <2>2, <2>3, <2>4 DEF ProxyIInv, ProxyGuarded
  <2>. QED
    BY <2>6, <2>7
<1>. QED
  BY <1>3, <1>4 DEF RemoveFinalizer

\* A proxy service is made for a guarded Webapp only, and is gone before the guard
\* is: each step keeps this, if the cache that line 161 reads is not behind.
LEMMA ProxyStep ==
  ASSUME ProxyIInv, FreshProxyRead, [Next]_vars
  PROVE  ProxyInv' /\ ProxyGuarded'
<1>o. ObjectsOK /\ IInv
  BY DEF ProxyIInv, IInv, CoreInv, TypeOK, ClusterTypeOK, ObjectsOK
<1>u. ASSUME store' = store,
             pc' = "idle" \/ (pc' = pc /\ cur' = cur)
      PROVE  ProxyInv' /\ ProxyGuarded'
  BY <1>o, <1>u, ProxiesStay
<1>f. Fails => store' = store /\ pc' = "idle"
  BY DEF Fails, Unwritten, Retry, Drop
<1>1. CASE \E w \in Webapps : GetNothing(w)
  BY <1>1, <1>u DEF GetNothing, Unwritten, jobVars
<1>2. CASE \E w \in Webapps : Get(w)
  <2>1. store' = store /\ pc' \notin {"pruneIngress", "removeFinalizer"}
    BY <1>2 DEF Get, Unwritten, FirstCall
  <2>. QED
    BY <1>o, <2>1, ProxiesStay
<1>3. ASSUME NEW o, o # None, o.finalizer \/ ~store.webapp[cur].finalizer,
             pc # "idle", Put("webapp", cur, o),
             pc' \in {"idle", "createNamespace"}
      PROVE  ProxyInv' /\ ProxyGuarded'
  <2>1. cur \in Webapps
    BY <1>o, <1>3, BusyTypes DEF IInv, CoreInv
  <2>2. /\ store'.webapp[cur] = o
        /\ \A w \in Webapps : w # cur => store'.webapp[w] = store.webapp[w]
    BY <1>o, <1>3, <2>1, WebappPut DEF IInv
  <2>3. store'.proxy = store.proxy
    BY <1>o, <1>3, PutProxies, KindsOfObjects
  <2>4. \A w \in Webapps : store.webapp[w] # None /\ store.webapp[w].finalizer =>
          store'.webapp[w] # None /\ store'.webapp[w].finalizer
    BY <1>3, <2>2
  <2>. QED
    BY <1>3, <2>3, <2>4, ProxiesStay
<1>4. CASE UpdateLabels
  <2>. DEFINE labelled == [obj EXCEPT !.label = Hash[obj.spec]]
  <2>1. pc # "idle" /\ obj \in WebappObject
    BY <1>o, <1>4, BusyTypes DEF UpdateLabels, IInv, CoreInv
  <2>2. labelled \in WebappObject /\ labelled.finalizer = obj.finalizer
    BY <1>o, <2>1, BusyTypes DEF WebappObject, IInv, CoreInv
  <2>3. labelled # None
    BY <2>2, DistinctAssumption, KindsOfObjects
  <2>4. \/ /\ Updatable("webapp", cur) /\ Put("webapp", cur, labelled)
           /\ pc' = "idle"
        \/ Fails
    BY <1>4 DEF UpdateLabels, Done, Drop
  <2>5. Updatable("webapp", cur) => obj = store.webapp[cur]
    BY <1>o, <2>1 DEF IInv, CoreInv, HeldCurrent, Updatable
  <2>6. CASE Fails
    BY <1>u, <1>f, <2>6
  <2>7. CASE Updatable("webapp", cur) /\ Put("webapp", cur, labelled) /\ pc' = "idle"
    <3>1. labelled.finalizer \/ ~store.webapp[cur].finalizer
      BY <2>2, <2>5, <2>7
    <3>. HIDE DEF labelled
    <3>. QED
      BY <1>3, <2>1, <2>3, <2>7, <3>1
  <2>. QED
    BY <2>4, <2>6, <2>7
<1>5. CASE AddFinalizer
  <2>. DEFINE guarded == [obj EXCEPT !.finalizer = TRUE]
  <2>1. pc # "idle" /\ obj \in WebappObject
    BY <1>o, <1>5, BusyTypes DEF AddFinalizer, IInv, CoreInv
  <2>2. guarded \in WebappObject /\ guarded.finalizer
    BY <2>1 DEF WebappObject
  <2>3. guarded # None
    BY <2>2, DistinctAssumption, KindsOfObjects
  <2>4. \/ Put("webapp", cur, guarded) /\ pc' = "createNamespace"
        \/ Fails
    BY <1>5 DEF AddFinalizer, Go
  <2>5. CASE Fails
    BY <1>u, <1>f, <2>5
  <2>6. CASE Put("webapp", cur, guarded) /\ pc' = "createNamespace"
    <3>. HIDE DEF guarded
    <3>. QED
      BY <1>3, <2>1, <2>2, <2>3, <2>6
  <2>. QED
    BY <2>4, <2>5, <2>6
<1>6. CASE RemoveFinalizer
  BY <1>6, RemovedIsUnproxied
<1>7. CASE DeleteProxy
  BY <1>7, DeleteProxyClears
<1>8. CASE UpsertProxy
  BY <1>8, UpsertProxyGuards
<1>9. CASE \/ CreateNamespace \/ ReadIngress \/ PruneIngress
           \/ UpsertDeployment \/ UpsertService \/ UpdateIngress
  <2>1. ASSUME NEW kind \in Kinds \ {"webapp", "proxy"}, NEW name, NEW o,
               Put(kind, name, o)
        PROVE  /\ store'.webapp = store.webapp /\ store'.proxy = store.proxy
    BY <1>o, <2>1, PutWebapps, PutProxies
  <2>2. {"deployment", "service", "ingress", "namespace"}
          \subseteq Kinds \ {"webapp", "proxy"}
    BY KindsOfObjects
  <2>3. Unwritten \/ Fails => store' = store
    BY DEF Unwritten, Fails
  <2>4. /\ store'.webapp = store.webapp /\ store'.proxy = store.proxy
    <3>1. CASE CreateNamespace \/ ReadIngress
      BY <1>o, <2>1, <2>2, <2>3, <3>1 DEF CreateNamespace, ReadIngress
    <3>2. CASE PruneIngress
      BY <1>o, <2>1, <2>2, <2>3, <3>2 DEF PruneIngress
    <3>3. CASE UpsertDeployment \/ UpsertService
      BY <1>o, <2>1, <2>2, <2>3, <3>3 DEF UpsertDeployment, UpsertService
    <3>4. CASE UpdateIngress
      BY <1>o, <2>1, <2>2, <2>3, <3>4 DEF UpdateIngress
    <3>. QED
      BY <1>9, <3>1, <3>2, <3>3, <3>4
  <2>5. \/ pc' \notin {"pruneIngress", "removeFinalizer"}
        \/ pc = "pruneIngress" /\ cur' = cur
    BY <1>9 DEF CreateNamespace, ReadIngress, PruneIngress, UpsertDeployment,
                UpsertService, UpdateIngress, Go, Fails, Retry, Done, Drop
  <2>. QED
    BY <2>4, <2>5, ProxiesStay
<1>10. CASE CallFails
  <2>1. store' = store /\ pc' = "idle"
    BY <1>10 DEF CallFails, Drop, Unwritten
  <2>. QED
    BY <1>u, <2>1
<1>11. CASE Restart
  <2>1. store' = store /\ pc' = "idle"
    BY <1>11 DEF Restart, Drop
  <2>. QED
    BY <2>1, ProxiesStay
<1>12. CASE Resync
  BY <1>u, <1>12 DEF Resync, jobVars
<1>13. CASE UserStep /\ UNCHANGED jobVars
  <2>1. \A w \in Webapps : store.webapp[w] # None /\ store.webapp[w].finalizer =>
          store'.webapp[w] # None /\ store'.webapp[w].finalizer
    BY <1>o, <1>13, UserWebapps DEF IInv
  <2>2. ASSUME NEW w \in Webapps, NEW o, UserWrites(w, o)
        PROVE  store'.proxy = store.proxy
    BY <1>o, <2>2, PutProxies, KindsOfObjects DEF UserWrites
  <2>3. \E w \in Webapps : \E o : UserWrites(w, o)
    BY <1>13 DEF UserStep, UserCreate, UserEdit, UserDelete
  <2>. QED
    BY <1>13, <2>1, <2>2, <2>3, ProxiesStay DEF jobVars
<1>14. ASSUME NEW kind \in Kinds, NEW name \in Names(kind), Deliver(kind, name),
              UNCHANGED jobVars
       PROVE  ProxyInv' /\ ProxyGuarded'
  <2>1. store' = store
    BY <1>14 DEF Deliver
  <2>. QED
    BY <1>14, <2>1, ProxiesStay DEF jobVars
<1>15. ASSUME NEW kind \in {"deployment", "service"}, NEW w \in Webapps,
              Collect(kind, w), UNCHANGED jobVars
       PROVE  ProxyInv' /\ ProxyGuarded'
  <2>1. /\ store'.webapp = store.webapp /\ store'.proxy = store.proxy
    BY <1>o, <1>15, PutWebapps, PutProxies, KindsOfObjects DEF Collect
  <2>. QED
    BY <1>15, <2>1, ProxiesStay DEF jobVars
<1>16. CASE UNCHANGED vars
  BY <1>u, <1>16 DEF vars, clusterVars, jobVars
<1>. QED
  BY <1>1, <1>2, <1>4, <1>5, <1>6, <1>7, <1>8, <1>9, <1>10, <1>11, <1>12, <1>13,
     <1>14, <1>15, <1>16 DEF Next, ReconcileStep, ClusterStep

\* A stuttering step makes no call, so the condition is one on every step.
LEMMA FreshProxyReads == [FreshProxyRead]_vars => FreshProxyRead
BY DEF FreshProxyRead, DeleteProxy, vars, jobVars

\* As long as finalizeWebapp finds every proxy service that exists, none outlives
\* its Webapp: it is deleted before the finalizer is removed
\* (webapp_controller.go:161-191), whatever fails in between.  The condition is on
\* one line: the Get of line 161 is answered by a cache, and when it answers "not
\* found" line 162 returns nil.  Everything else may be as late as it likes, copies
\* of other proxy services included.
THEOREM ProxiesGuarded ==
  Spec /\ [][FreshProxyRead]_vars => []ProxyGuarded
<1>1. Init => ProxyIInv
  <2>1. \A p \in Proxies : NoObjects.proxy[p] = None
    BY KindsOfObjects DEF NoObjects
  <2>. QED
    BY <2>1, InitIInv DEF Init, ClusterInit, ProxyIInv, ProxyInv, ProxyGuarded
<1>2. ProxyIInv /\ IInv' /\ [Next]_vars /\ [FreshProxyRead]_vars => ProxyIInv'
  BY ProxyStep, FreshProxyReads DEF ProxyIInv
<1>3. ProxyIInv => ProxyGuarded
  BY DEF ProxyIInv
<1>. QED
  BY <1>1, <1>2, <1>3, Inductive, PTL DEF Spec

-----------------------------------------------------------------------------
(* Which object a step writes.                                             *)

\* Each Webapp has a proxy service of its own, as within one namespace.
OwnProxies == \A v, w \in Webapps : ProxyName[v] = ProxyName[w] => v = w

\* The step changes no object but this one.
OnlyWrites(kind, name) ==
  \A k \in Kinds : \A n \in Names(k) :
    store'[k][n] # store[k][n] => k = kind /\ n = name

\* A write changes the one object, and the cache or the staleness of it.
LEMMA PutStore ==
  ASSUME ObjectsOK, NEW kind \in Kinds, NEW name \in Names(kind), NEW o,
         Put(kind, name, o)
  PROVE  /\ OnlyWrites(kind, name)
         /\ store'[kind][name] = o
         /\ \A k \in Kinds \ {kind} : store'[k] = store[k] /\ cache'[k] = cache[k]
         /\ stale \subseteq stale' /\ stale' \subseteq stale \cup {<<kind, name>>}
         /\ kind \notin Laggy => stale' = stale
         /\ kind \in Laggy =>
              /\ cache' = cache
              /\ store'[kind][name] # store[kind][name] => <<kind, name>> \in stale'
<1>1. /\ store = [k \in Kinds |-> store[k]] /\ cache = [k \in Kinds |-> cache[k]]
      /\ \A k \in Kinds : store[k] = [n \in Names(k) |-> store[k][n]]
  BY DEF ObjectsOK, AreObjects, Table
<1>2. CASE store[kind][name] = o
  <2>1. store' = store /\ cache' = cache /\ stale' = stale
    BY <1>2 DEF Put, Unwritten
  <2>. QED
    BY <1>2, <2>1 DEF OnlyWrites
<1>3. CASE store[kind][name] # o
  <2>1. /\ store' = [store EXCEPT ![kind][name] = o]
        /\ \/ /\ kind \in Laggy /\ cache' = cache
              /\ stale' = stale \cup {<<kind, name>>}
           \/ /\ kind \notin Laggy /\ stale' = stale
              /\ cache' = [cache EXCEPT ![kind][name] = o]
    BY <1>3 DEF Put
  <2>2. /\ store'[kind] = [store[kind] EXCEPT ![name] = o]
        /\ \A k \in Kinds \ {kind} : store'[k] = store[k] /\ cache'[k] = cache[k]
    BY <1>1, <2>1
  <2>3. /\ store'[kind][name] = o
        /\ \A n \in Names(kind) \ {name} : store'[kind][n] = store[kind][n]
    BY <1>1, <2>2
  <2>4. OnlyWrites(kind, name)
    BY <2>2, <2>3 DEF OnlyWrites
  <2>. QED
    BY <2>1, <2>2, <2>3, <2>4
<1>. QED
  BY <1>2, <1>3

\* Each call of a reconcile writes one object at most.
LEMMA CallWrites ==
  ASSUME CoreInv
  PROVE  /\ UpdateLabels \/ AddFinalizer \/ RemoveFinalizer => OnlyWrites("webapp", cur)
         /\ CreateNamespace => OnlyWrites("namespace", Global)
         /\ ReadIngress => store' = store
         /\ DeleteProxy \/ UpsertProxy => OnlyWrites("proxy", ProxyName[cur])
         /\ PruneIngress \/ UpdateIngress => OnlyWrites("ingress", Global)
         /\ UpsertDeployment => OnlyWrites("deployment", cur)
         /\ UpsertService => OnlyWrites("service", cur)
<1>1. ASSUME NEW kind \in Kinds, NEW name \in Names(kind), NEW o, Put(kind, name, o)
      PROVE  OnlyWrites(kind, name)
  <2>. ObjectsOK
    BY DEF CoreInv, TypeOK, ClusterTypeOK, ObjectsOK
  <2>. QED
    BY <1>1, PutStore
<1>2. ASSUME NEW kind, NEW name, Unwritten \/ Fails
      PROVE  OnlyWrites(kind, name)
  BY <1>2 DEF Unwritten, Fails, OnlyWrites
<1>3. pc # "idle" => /\ cur \in Names("webapp") /\ cur \in Names("deployment")
                    /\ cur \in Names("service") /\ ProxyName[cur] \in Names("proxy")
  BY BusyTypes, KindsOfObjects DEF CoreInv
<1>4. /\ Global \in Names("ingress") /\ Global \in Names("namespace")
      /\ {"webapp", "deployment", "service", "proxy", "ingress", "namespace"} = Kinds
  BY KindsOfObjects
<1>5. UpdateLabels \/ AddFinalizer \/ RemoveFinalizer => OnlyWrites("webapp", cur)
  BY <1>1, <1>2, <1>3, <1>4 DEF UpdateLabels, AddFinalizer, RemoveFinalizer
<1>6. CreateNamespace => OnlyWrites("namespace", Global)
  BY <1>1, <1>2, <1>4 DEF CreateNamespace
<1>7. ReadIngress => store' = store
  BY DEF ReadIngress, Unwritten
<1>8. DeleteProxy \/ UpsertProxy => OnlyWrites("proxy", ProxyName[cur])
  BY <1>1, <1>2, <1>3, <1>4 DEF DeleteProxy, UpsertProxy
<1>9. PruneIngress => OnlyWrites("ingress", Global)
  BY <1>1, <1>2, <1>4 DEF PruneIngress
<1>10. UpdateIngress => OnlyWrites("ingress", Global)
  BY <1>1, <1>2, <1>4 DEF UpdateIngress
<1>11. UpsertDeployment => OnlyWrites("deployment", cur)
  BY <1>1, <1>2, <1>3, <1>4 DEF UpsertDeployment
<1>12. UpsertService => OnlyWrites("service", cur)
  BY <1>1, <1>2, <1>3, <1>4 DEF UpsertService
<1>. QED
  BY <1>5, <1>6, <1>7, <1>8, <1>9, <1>10, <1>11, <1>12

\* Who changes the objects of each kind.
LEMMA Writers ==
  ASSUME CoreInv, [Next]_vars
  PROVE  /\ \A w \in Webapps : store'.webapp[w] # store.webapp[w] =>
              \/ UserStep /\ OnlyWrites("webapp", w)
              \/ cur = w /\ (UpdateLabels \/ AddFinalizer \/ RemoveFinalizer)
         /\ \A w \in Webapps : store'.deployment[w] # store.deployment[w] =>
              Collect("deployment", w) \/ (cur = w /\ UpsertDeployment)
         /\ \A w \in Webapps : store'.service[w] # store.service[w] =>
              Collect("service", w) \/ (cur = w /\ UpsertService)
         /\ \A p \in Proxies : store'.proxy[p] # store.proxy[p] =>
              p = ProxyName[cur] /\ (DeleteProxy \/ UpsertProxy)
         /\ store'.ingress[Global] # store.ingress[Global] =>
              PruneIngress \/ UpdateIngress
<1>. DEFINE Goal ==
         /\ \A w \in Webapps : store'.webapp[w] # store.webapp[w] =>
              \/ UserStep /\ OnlyWrites("webapp", w)
              \/ cur = w /\ (UpdateLabels \/ AddFinalizer \/ RemoveFinalizer)
         /\ \A w \in Webapps : store'.deployment[w] # store.deployment[w] =>
              Collect("deployment", w) \/ (cur = w /\ UpsertDeployment)
         /\ \A w \in Webapps : store'.service[w] # store.service[w] =>
              Collect("service", w) \/ (cur = w /\ UpsertService)
         /\ \A p \in Proxies : store'.proxy[p] # store.proxy[p] =>
              p = ProxyName[cur] /\ (DeleteProxy \/ UpsertProxy)
         /\ store'.ingress[Global] # store.ingress[Global] =>
              PruneIngress \/ UpdateIngress
<1>. SUFFICES Goal
  OBVIOUS
<1>0. ASSUME store' = store
      PROVE  Goal
  BY <1>0
<1>1. ASSUME NEW kind, NEW name, OnlyWrites(kind, name)
      PROVE  /\ \A w \in Webapps : store'.webapp[w] # store.webapp[w] =>
                   kind = "webapp" /\ name = w
             /\ \A w \in Webapps : store'.deployment[w] # store.deployment[w] =>
                   kind = "deployment" /\ name = w
             /\ \A w \in Webapps : store'.service[w] # store.service[w] =>
                   kind = "service" /\ name = w
             /\ \A p \in Proxies : store'.proxy[p] # store.proxy[p] =>
                   kind = "proxy" /\ name = p
             /\ store'.ingress[Global] # store.ingress[Global] => kind = "ingress"
  BY <1>1, KindsOfObjects DEF OnlyWrites
<1>2. CASE UpdateLabels \/ AddFinalizer \/ RemoveFinalizer
  BY <1>1, <1>2, CallWrites
<1>3. CASE CreateNamespace \/ ReadIngress
  BY <1>0, <1>1, <1>3, CallWrites
<1>4. CASE DeleteProxy \/ UpsertProxy
  BY <1>1, <1>4, CallWrites
<1>5. CASE PruneIngress \/ UpdateIngress
  BY <1>1, <1>5, CallWrites
<1>6. CASE UpsertDeployment
  BY <1>1, <1>6, CallWrites
<1>7. CASE UpsertService
  BY <1>1, <1>7, CallWrites
<1>8. CASE UserStep
  <2>1. ObjectsOK
    BY DEF CoreInv, TypeOK, ClusterTypeOK, ObjectsOK
  <2>2. \E w \in Webapps : \E o : UserWrites(w, o)
    BY <1>8 DEF UserStep, UserCreate, UserEdit, UserDelete
  <2>3. \E w \in Webapps : OnlyWrites("webapp", w)
    BY <2>1, <2>2, PutStore, KindsOfObjects DEF UserWrites
  <2>. QED
    BY <1>1, <1>8, <2>3
<1>9. ASSUME NEW kind \in {"deployment", "service"}, NEW w \in Webapps,
             Collect(kind, w)
      PROVE  Goal
  <2>1. ObjectsOK
    BY DEF CoreInv, TypeOK, ClusterTypeOK, ObjectsOK
  <2>2. OnlyWrites(kind, w)
    BY <1>9, <2>1, PutStore, KindsOfObjects DEF Collect
  <2>. QED
    BY <1>1, <1>9, <2>2
<1>10. CASE \/ \E w \in Webapps : GetNothing(w) \/ Get(w)
            \/ CallFails \/ Restart \/ Resync
            \/ \E kind \in Kinds : \E name \in Names(kind) : Deliver(kind, name)
            \/ UNCHANGED vars
  <2>1. store' = store
    BY <1>10 DEF GetNothing, Get, CallFails, Restart, Resync, Deliver, Unwritten,
                 vars, clusterVars
  <2>. QED
    BY <1>0, <2>1
<1>. HIDE DEF Goal
<1>11. ReconcileStep => Goal
  BY <1>2, <1>3, <1>4, <1>5, <1>6, <1>7 DEF ReconcileStep
<1>12. ClusterStep => Goal
  BY <1>8, <1>9, <1>10 DEF ClusterStep
<1>. QED
  BY <1>10, <1>11, <1>12 DEF Next

-----------------------------------------------------------------------------
(* What another manager does to this one.                                  *)

\* Someone else writes to the server: the copies that this controller has of what
\* was written are outdated, and the reconcile that is running goes on.
WatchesWrites ==
  LET written == {k \in Keys : store'[k[1]][k[2]] # store[k[1]][k[2]]} IN
  /\ stale' = stale \cup {k \in written : k[1] \in Laggy}
  /\ cache' = [kind \in Kinds |-> IF kind \in Laggy THEN cache[kind] ELSE store'[kind]]
  /\ held' = held \ written
  /\ UNCHANGED <<queue, jobVars>>

\* Whatever is written, what holds of this controller and its copies still does.
LEMMA WatchStep ==
  ASSUME CoreInv, WatchesWrites, AreObjects(store'),
         births' \in [Webapps -> Nat], ops' \in Nat, faults' \in Nat
  PROVE  CoreInv'
<1>. DEFINE written == {k \in Keys : store'[k[1]][k[2]] # store[k[1]][k[2]]}
<1>1. /\ AreObjects(cache) /\ stale \subseteq Keys /\ held \subseteq Keys
      /\ stale' = stale \cup {k \in written : k[1] \in Laggy}
      /\ cache' = [kind \in Kinds |-> IF kind \in Laggy THEN cache[kind] ELSE store'[kind]]
      /\ held' = held \ written
      /\ queue' = queue /\ pc' = pc /\ cur' = cur /\ obj' = obj /\ ing' = ing
  BY DEF CoreInv, TypeOK, ClusterTypeOK, WatchesWrites, jobVars
<1>2. TypeOK'
  <2>1. AreObjects(cache')
    BY <1>1 DEF AreObjects
  <2>2. stale' \subseteq Keys /\ held' \subseteq Keys
    BY <1>1
  <2>. QED
    BY <1>1, <2>1, <2>2 DEF CoreInv, TypeOK, ClusterTypeOK
<1>3. CacheInStep'
  <2>. SUFFICES ASSUME NEW kind \in Kinds, NEW name \in Names(kind),
                       <<kind, name>> \notin stale'
                PROVE  cache'[kind][name] = store'[kind][name]
    BY DEF CacheInStep, Current
  <2>1. CASE kind \in Laggy
    <3>1. <<kind, name>> \in Keys
      BY DEF Keys
    <3>2. <<kind, name>> \notin stale /\ <<kind, name>> \notin written
      BY <1>1, <2>1
    <3>3. store'[kind][name] = store[kind][name]
      BY <3>1, <3>2
    <3>4. cache[kind][name] = store[kind][name]
      BY <3>2 DEF CoreInv, CacheInStep, Current
    <3>. QED
      BY <1>1, <2>1, <3>3, <3>4
  <2>. QED
    BY <1>1, <2>1
<1>4. JobOK'
  BY <1>1 DEF CoreInv, JobOK
<1>5. HeldCurrent'
  <2>1. cache'.webapp = cache.webapp
    BY <1>1, KindsOfObjects, DistinctAssumption
  <2>2. <<"webapp", cur>> \in held' =>
          /\ <<"webapp", cur>> \in held
          /\ store'.webapp[cur] = store.webapp[cur]
    BY <1>1
  <2>. QED
    BY <1>1, <2>1, <2>2 DEF CoreInv, HeldCurrent
<1>. QED
  BY <1>2, <1>3, <1>4, <1>5 DEF CoreInv

\* A reconcile that ends in an error without a write keeps the invariant, and
\* its key waits in the queue.
LEMMA FailStep ==
  ASSUME CoreInv, pc # "idle", Fails, UNCHANGED faults
  PROVE  CoreInv' /\ store' = store
<1>1. /\ store' = store /\ cache' = cache /\ stale' = stale /\ held' = {}
      /\ pc' = "idle" /\ cur' = None /\ obj' = None /\ ing' = None
      /\ queue' = queue \cup {cur} /\ births' = births /\ ops' = ops
      /\ faults' = faults
  BY DEF Fails, Unwritten, Retry, Drop
<1>2. cur \in Webapps
  BY BusyTypes DEF CoreInv
<1>. QED
  BY <1>1, <1>2
  DEF CoreInv, TypeOK, ClusterTypeOK, Calls, CacheInStep, Current, JobOK, HeldCurrent
=============================================================================
