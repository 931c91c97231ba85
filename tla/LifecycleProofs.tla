-------------------------- MODULE LifecycleProofs --------------------------
(***************************************************************************)
(* The Webapp controller implements Lifecycle, for any number of Webapps.  *)
(***************************************************************************)
EXTENDS WebappControllerProofs

-----------------------------------------------------------------------------
(* What becomes of a Webapp in a step.                                     *)

Created(old, new) == old = None /\ new # None /\ ~new.finalizer /\ ~new.deleting

Edited(old, new) ==
  /\ old # None /\ new # None
  /\ new.finalizer = old.finalizer /\ new.deleting = old.deleting

Discarded(old, new) == old # None /\ ~old.finalizer /\ new = None

Doomed(old, new) ==
  /\ old # None /\ old.finalizer /\ ~old.deleting
  /\ new # None /\ new.finalizer /\ new.deleting

Guarded(old, new) ==
  /\ old # None /\ ~old.finalizer /\ ~old.deleting
  /\ new # None /\ new.finalizer /\ ~new.deleting

Released(old, new) == old # None /\ old.finalizer /\ old.deleting /\ new = None

\* What users do to a Webapp.
LEMMA UserChanges ==
  ASSUME IInv, UserStep
  PROVE  \E w \in Webapps :
           LET old == store.webapp[w]
               new == store'.webapp[w]
           IN /\ \/ Created(old, new) \/ Edited(old, new)
                 \/ Discarded(old, new) \/ Doomed(old, new)
              /\ \A v \in Webapps : v # w => store'.webapp[v] = store.webapp[v]
              /\ held' = held \ {<<"webapp", w>>}
              /\ stale' \subseteq stale \cup {<<"webapp", w>>}
<1>. ObjectsOK
  BY DEF IInv, CoreInv, TypeOK, ClusterTypeOK, ObjectsOK
<1>1. PICK w \in Webapps :
        (\E s \in Specs : UserCreate(w, s) \/ UserEdit(w, s)) \/ UserDelete(w)
  BY DEF UserStep
<1>. DEFINE old == store.webapp[w]
            new == store'.webapp[w]
<1>2. ASSUME NEW o, UserWrites(w, o)
      PROVE  /\ new = o
             /\ \A v \in Webapps : v # w => store'.webapp[v] = store.webapp[v]
             /\ held' = held \ {<<"webapp", w>>}
             /\ stale' \subseteq stale \cup {<<"webapp", w>>}
  <2>1. /\ Put("webapp", w, o) /\ held' = held \ {<<"webapp", w>>}
        /\ "webapp" \in Kinds /\ w \in Names("webapp")
    BY <1>2, KindsOfObjects DEF UserWrites
  <2>2. stale' \subseteq stale \cup {<<"webapp", w>>}
    BY <2>1, PutStore
  <2>. QED
    BY <2>1, <2>2, WebappPut DEF IInv
<1>3. old \in WebappObject \cup {None}
  BY ObjectsTypes DEF ObjectsOK
<1>4. None \notin WebappObject
  BY DistinctAssumption, KindsOfObjects
<1>5. \E o : /\ UserWrites(w, o)
             /\ \/ Created(old, o) \/ Edited(old, o)
                \/ Discarded(old, o) \/ Doomed(old, o)
  <2>1. CASE \E s \in Specs : UserCreate(w, s)
    <3>1. PICK s \in Specs : UserCreate(w, s)
      BY <2>1
    <3>. DEFINE o == [uid |-> births[w] + 1, spec |-> s, label |-> None,
                      finalizer |-> FALSE, deleting |-> FALSE]
    <3>2. UserWrites(w, o) /\ old = None
      BY <3>1 DEF UserCreate
    <3>3. o \in WebappObject
      BY DEF IInv, CoreInv, TypeOK, ClusterTypeOK, WebappObject
    <3>4. Created(old, o)
      BY <1>4, <3>2, <3>3 DEF Created
    <3>. QED
      BY <3>2, <3>4
  <2>2. ASSUME NEW s \in Specs, UserEdit(w, s)
        PROVE  \E o : UserWrites(w, o) /\ Edited(old, o)
    <3>. DEFINE o == [old EXCEPT !.spec = s]
    <3>1. UserWrites(w, o) /\ old \in WebappObject
      BY <1>3, <2>2 DEF UserEdit
    <3>2. o \in WebappObject
      BY <3>1 DEF WebappObject
    <3>3. Edited(old, o)
      BY <1>4, <3>1, <3>2 DEF Edited, WebappObject
    <3>. QED
      BY <3>1, <3>3
  <2>3. CASE UserDelete(w) /\ old.finalizer
    <3>. DEFINE o == [old EXCEPT !.deleting = TRUE]
    <3>1. UserWrites(w, o) /\ old \in WebappObject /\ ~old.deleting
      BY <1>3, <2>3 DEF UserDelete
    <3>2. o \in WebappObject
      BY <3>1 DEF WebappObject
    <3>3. Doomed(old, o)
      BY <1>4, <2>3, <3>1, <3>2 DEF Doomed, WebappObject
    <3>. QED
      BY <3>1, <3>3
  <2>4. CASE UserDelete(w) /\ ~old.finalizer
    BY <2>4 DEF UserDelete, Discarded
  <2>. QED
    BY <1>1, <2>1, <2>2, <2>3, <2>4
<1>. QED
  BY <1>2, <1>5

\* What a reconcile does to its Webapp, if it does not fail: it holds the
\* server's copy.
LEMMA CallChanges ==
  ASSUME IInv, DoomInv, UpdateLabels \/ AddFinalizer \/ RemoveFinalizer, ~Fails
  PROVE  LET old == store.webapp[cur]
             new == store'.webapp[cur]
         IN /\ cur \in Webapps /\ pc # "idle" /\ obj = old
            /\ \A v \in Webapps : v # cur => store'.webapp[v] = store.webapp[v]
            /\ \/ UpdateLabels /\ Edited(old, new) /\ pc' = "idle"
               \/ /\ AddFinalizer /\ (Edited(old, new) \/ Guarded(old, new))
                  /\ cur' = cur /\ obj' = new /\ pc' = "createNamespace"
                  /\ cache.webapp[cur] = old
               \/ /\ RemoveFinalizer /\ Released(old, new) /\ pc' = "idle"
                  /\ pc = "removeFinalizer"
<1>1. /\ Updatable("webapp", cur) /\ pc # "idle"
      /\ cur \in Webapps /\ obj \in WebappObject /\ Hash[obj.spec] \in Hashes
  BY BusyTypes DEF UpdateLabels, AddFinalizer, RemoveFinalizer, IInv, CoreInv
<1>2. obj = store.webapp[cur]
  BY <1>1 DEF Updatable, IInv, CoreInv, HeldCurrent
<1>3. None \notin WebappObject
  BY DistinctAssumption, KindsOfObjects
<1>4. ASSUME NEW o, Put("webapp", cur, o)
      PROVE  /\ store'.webapp[cur] = o
             /\ \A v \in Webapps : v # cur => store'.webapp[v] = store.webapp[v]
  BY <1>1, <1>4, WebappPut DEF IInv
<1>5. CASE UpdateLabels
  <2>. DEFINE labelled == [obj EXCEPT !.label = Hash[obj.spec]]
  <2>1. Put("webapp", cur, labelled) /\ pc' = "idle"
    BY <1>5 DEF UpdateLabels, Done, Drop
  <2>2. labelled \in WebappObject
    BY <1>1 DEF WebappObject
  <2>3. Edited(obj, labelled)
    BY <1>1, <1>3, <2>2 DEF Edited, WebappObject
  <2>. HIDE DEF labelled
  <2>. QED
    BY <1>1, <1>2, <1>4, <1>5, <2>1, <2>3
<1>6. CASE AddFinalizer
  <2>. DEFINE guarded == [obj EXCEPT !.finalizer = TRUE]
  <2>1. /\ Put("webapp", cur, guarded) /\ cur' = cur /\ obj' = guarded
        /\ pc' = "createNamespace" /\ pc = "addFinalizer"
    BY <1>6 DEF AddFinalizer, Go
  <2>2. guarded \in WebappObject
    BY <1>1 DEF WebappObject
  <2>3. obj.deleting => obj.finalizer
    BY <1>1, <1>2, <1>3 DEF DoomInv
  <2>4. Edited(obj, guarded) \/ Guarded(obj, guarded)
    BY <1>1, <1>3, <2>2, <2>3 DEF Edited, Guarded, WebappObject
  <2>5. cache.webapp[cur] = store.webapp[cur]
    BY <1>1, <2>1, KindsOfObjects DEF DoomInv, Updatable, IInv, CoreInv, CacheInStep
  <2>. HIDE DEF guarded
  <2>. QED
    BY <1>1, <1>2, <1>4, <1>6, <2>1, <2>4, <2>5
<1>7. CASE RemoveFinalizer
  <2>1. Put("webapp", cur, None) /\ pc' = "idle" /\ pc = "removeFinalizer"
    BY <1>7 DEF RemoveFinalizer, Done, Drop
  <2>2. Released(obj, None)
    BY <1>1, <1>3, <2>1
    DEF Released, IInv, CoreInv, JobOK, BeforeGate, Finalization
  <2>. QED
    BY <1>1, <1>2, <1>4, <1>7, <2>1, <2>2
<1>. QED
  BY <1>5, <1>6, <1>7

\* The cache of Webapps keeps its copies or takes over the server's, and it does
\* so only while the server's stay as they are.
LEMMA CopiesFollow ==
  ASSUME IInv, [Next]_vars
  PROVE  \/ cache'.webapp = cache.webapp
         \/ /\ store'.webapp = store.webapp
            /\ \A w \in Webapps : cache'.webapp[w] \in {cache.webapp[w], store.webapp[w]}
<1>. ObjectsOK
  BY DEF IInv, CoreInv, TypeOK, ClusterTypeOK, ObjectsOK
<1>1. CASE UpdateLabels \/ AddFinalizer \/ RemoveFinalizer
  <2>1. cur \in Webapps
    BY <1>1, BusyTypes DEF UpdateLabels, AddFinalizer, RemoveFinalizer, IInv, CoreInv
  <2>2. Unwritten \/ \E o : Put("webapp", cur, o)
    BY <1>1 DEF UpdateLabels, AddFinalizer, RemoveFinalizer, Fails
  <2>. QED
    BY <2>1, <2>2, WebappPut DEF IInv, Unwritten
<1>2. CASE OtherCall
  BY <1>2, OtherCallKeepsWebapps DEF WebappsSame
<1>3. CASE UserStep
  BY <1>3, UserWebapps DEF IInv
<1>4. ASSUME NEW kind \in {"deployment", "service"}, NEW w \in Webapps,
             Collect(kind, w)
      PROVE  cache'.webapp = cache.webapp
  BY <1>4, PutWebapps, KindsOfObjects DEF Collect
<1>5. ASSUME NEW kind \in Kinds, NEW name \in Names(kind), Deliver(kind, name)
      PROVE  /\ store' = store
             /\ \A w \in Webapps :
                  cache'.webapp[w] \in {cache.webapp[w], store.webapp[w]}
  <2>1. /\ store' = store
        /\ cache = [k \in Kinds |-> cache[k]]
        /\ cache.webapp \in [Webapps -> WebappObject \cup {None}]
        /\ cache' = [cache EXCEPT ![kind][name] = store[kind][name]]
    BY <1>5, ObjectsTypes DEF Deliver, ObjectsOK, AreObjects
  <2>. QED
    BY <2>1, KindsOfObjects
<1>6. CASE \/ \E w \in Webapps : GetNothing(w) \/ Get(w)
           \/ CallFails \/ Restart \/ Resync \/ UNCHANGED vars
  BY <1>6 DEF GetNothing, Get, CallFails, Restart, Resync, Unwritten, vars, clusterVars
<1>. QED
  BY <1>1, <1>2, <1>3, <1>4, <1>5, <1>6 DEF Next, ReconcileStep, OtherCall, ClusterStep

-----------------------------------------------------------------------------
(* A finalization is not run on account of a predecessor.                  *)

\* A copy marked for deletion keeps speaking for the server's object, whatever
\* becomes of it, unless it is guarded.
LEMMA DoomsStep ==
  ASSUME NEW w, NEW o, Dooms(o, w),
         \/ store'.webapp[w] = store.webapp[w]
         \/ Created(store.webapp[w], store'.webapp[w])
         \/ Edited(store.webapp[w], store'.webapp[w])
         \/ Discarded(store.webapp[w], store'.webapp[w])
         \/ Doomed(store.webapp[w], store'.webapp[w])
         \/ Released(store.webapp[w], store'.webapp[w])
  PROVE  Dooms(o, w)'
BY DEF Dooms, Created, Edited, Discarded, Doomed, Released

\* Every change of a Webapp is one of the six.
LEMMA WebappChanges ==
  ASSUME IInv, DoomInv, [Next]_vars,
         NEW w \in Webapps, store'.webapp[w] # store.webapp[w]
  PROVE  LET old == store.webapp[w]
             new == store'.webapp[w]
         IN /\ \A v \in Webapps : v # w => store'.webapp[v] = store.webapp[v]
            /\ \/ /\ UserStep
                  /\ \/ Created(old, new) \/ Edited(old, new)
                     \/ Discarded(old, new) \/ Doomed(old, new)
                  /\ <<"webapp", w>> \notin held'
               \/ UpdateLabels /\ Edited(old, new) /\ pc' = "idle"
               \/ /\ AddFinalizer /\ (Edited(old, new) \/ Guarded(old, new))
                  /\ cur' = cur /\ obj' = new /\ pc' = "createNamespace"
                  /\ cur = w /\ cache.webapp[w] = old
               \/ /\ RemoveFinalizer /\ Released(old, new) /\ pc' = "idle"
                  /\ cur = w /\ pc = "removeFinalizer"
<1>1. CASE UserStep
  <2>1. PICK v \in Webapps :
           LET old == store.webapp[v]
               new == store'.webapp[v]
           IN /\ \/ Created(old, new) \/ Edited(old, new)
                 \/ Discarded(old, new) \/ Doomed(old, new)
              /\ \A u \in Webapps : u # v => store'.webapp[u] = store.webapp[u]
              /\ held' = held \ {<<"webapp", v>>}
    BY <1>1, UserChanges
  <2>2. v = w
    BY <2>1
  <2>. QED
    BY <1>1, <2>1, <2>2
<1>2. CASE cur = w /\ (UpdateLabels \/ AddFinalizer \/ RemoveFinalizer)
  <2>1. ~Fails
    BY DEF Fails, Unwritten
  <2>. QED
    BY <1>2, <2>1, CallChanges
<1>. QED
  BY <1>1, <1>2, Writers DEF IInv

\* How the reconcile comes by its copy.
LEMMA CopyInMemory ==
  ASSUME IInv, [Next]_vars, pc' # "idle"
  PROVE  \/ cur' = cur /\ obj' = obj /\ pc # "idle"
         \/ \E w \in Webapps : Get(w) /\ cur' = w /\ obj' = cache.webapp[w] /\ store' = store
         \/ AddFinalizer /\ ~Fails
<1>1. CASE \E w \in Webapps : Get(w)
  BY <1>1 DEF Get, Unwritten
<1>2. CASE OtherCall
  BY <1>2, OtherCallGoesOn DEF IInv, BeforeGate
<1>3. CASE UpdateLabels \/ RemoveFinalizer \/ CallFails \/ Restart \/ Fails
  BY <1>3
  DEF UpdateLabels, RemoveFinalizer, CallFails, Restart, Fails, Retry, Done, Drop
<1>4. CASE \/ \E w \in Webapps : GetNothing(w)
           \/ Resync \/ ClusterStep \/ UNCHANGED vars
  BY <1>4 DEF GetNothing, Resync, ClusterStep, vars, jobVars
<1>. QED
  BY <1>1, <1>2, <1>3, <1>4 DEF Next, ReconcileStep, OtherCall

\* Every step keeps finalizations to the Webapps whose deletion was asked for.
LEMMA DoomStep ==
  ASSUME IInv, DoomInv, [Next]_vars
  PROVE  DoomInv'
<1>. ObjectsOK
  BY DEF IInv, CoreInv, TypeOK, ClusterTypeOK, ObjectsOK
<1>1. ASSUME NEW w \in Webapps
      PROVE  store'.webapp[w] # None /\ store'.webapp[w].deleting
               => store'.webapp[w].finalizer
  <2>1. CASE store'.webapp[w] = store.webapp[w]
    BY <2>1 DEF DoomInv
  <2>2. CASE store'.webapp[w] # store.webapp[w]
    BY <2>2, WebappChanges
    DEF DoomInv, Created, Edited, Discarded, Doomed, Guarded, Released
  <2>. QED
    BY <2>1, <2>2
<1>2. ASSUME NEW w \in Webapps
      PROVE  Dooms(cache.webapp[w], w)'
  <2>1. CASE store'.webapp[w] = store.webapp[w]
    <3>1. cache'.webapp[w] \in {cache.webapp[w], store.webapp[w]}
      BY CopiesFollow
    <3>. QED
      BY <2>1, <3>1 DEF DoomInv, Dooms
  <2>2. CASE store'.webapp[w] # store.webapp[w]
    <3>1. cache'.webapp[w] = cache.webapp[w]
      BY <2>2, CopiesFollow
    <3>2. CASE Guarded(store.webapp[w], store'.webapp[w]) /\ AddFinalizer
      <4>1. cache.webapp[w] = store.webapp[w]
        BY <2>2, <3>2, WebappChanges
        DEF Created, Edited, Discarded, Doomed, Guarded, Released
      <4>. QED
        BY <3>1, <3>2, <4>1 DEF Dooms, Guarded
    <3>. QED
      BY <2>2, <3>1, <3>2, WebappChanges, DoomsStep DEF DoomInv, Dooms
  <2>. QED
    BY <2>1, <2>2
<1>3. ASSUME pc' # "idle"
      PROVE  Dooms(obj, cur)'
  <2>1. CASE \E w \in Webapps : /\ Get(w) /\ cur' = w
                               /\ obj' = cache.webapp[w] /\ store' = store
    BY <2>1 DEF DoomInv, Dooms
  <2>2. CASE AddFinalizer /\ ~Fails
    <3>1. cur' = cur /\ obj' = store'.webapp[cur]
      BY <1>3, <2>2, CallChanges
      DEF AddFinalizer, UpdateLabels, RemoveFinalizer
    <3>. QED
      BY <3>1 DEF Dooms
  <2>3. CASE cur' = cur /\ obj' = obj /\ pc # "idle"
    <3>1. Dooms(obj, cur) /\ cur \in Webapps
      BY <2>3, BusyTypes DEF DoomInv, IInv, CoreInv
    <3>2. CASE store'.webapp[cur] = store.webapp[cur]
      BY <2>3, <3>1, <3>2 DEF Dooms
    <3>3. CASE store'.webapp[cur] # store.webapp[cur]
      BY <1>3, <2>3, <3>1, <3>3, WebappChanges
      DEF Dooms, Created, Edited, Discarded, Doomed, Guarded
    <3>. QED
      BY <3>2, <3>3
  <2>. QED
    BY <1>3, <2>1, <2>2, <2>3, CopyInMemory
<1>4. ASSUME pc' \in {"updateLabels", "addFinalizer"}, <<"webapp", cur'>> \in held'
      PROVE  <<"webapp", cur'>> \notin stale'
  <2>1. CASE \E w \in Webapps : Get(w)
    BY <1>4, <2>1 DEF Get, Unwritten, Current
  <2>2. CASE UserStep /\ UNCHANGED jobVars
    <3>1. PICK w \in Webapps : /\ held' = held \ {<<"webapp", w>>}
                              /\ stale' \subseteq stale \cup {<<"webapp", w>>}
      BY <2>2, UserChanges
    <3>. QED
      BY <1>4, <2>2, <3>1 DEF DoomInv, Current, jobVars
  <2>3. ASSUME NEW kind \in {"deployment", "service"}, NEW w \in Webapps,
               Collect(kind, w), UNCHANGED jobVars
        PROVE  <<"webapp", cur'>> \notin stale'
    <3>1. Put(kind, w, None) /\ w \in Names(kind) /\ kind \in Kinds /\ held' = held
      BY <2>3, KindsOfObjects DEF Collect
    <3>2. stale' \subseteq stale \cup {<<kind, w>>}
      BY <3>1, PutStore
    <3>. QED
      BY <1>4, <2>3, <3>1, <3>2 DEF DoomInv, Current, jobVars
  <2>4. CASE /\ UNCHANGED jobVars
             /\ \E kind \in Kinds : \E name \in Names(kind) : Deliver(kind, name)
    BY <1>4, <2>4 DEF Deliver, DoomInv, Current, jobVars
  <2>5. CASE Resync \/ UNCHANGED vars
    BY <1>4, <2>5 DEF Resync, vars, clusterVars, jobVars, DoomInv, Current
  <2>6. ~ReconcileStep
    BY <1>4
    DEF ReconcileStep, UpdateLabels, AddFinalizer, CreateNamespace, ReadIngress,
        DeleteProxy, PruneIngress, RemoveFinalizer, UpsertDeployment,
        UpsertService, UpsertProxy, UpdateIngress, Fails, Retry, Done, Drop, Go
  <2>7. ~CallFails /\ ~Restart /\ \A w \in Webapps : ~GetNothing(w)
    BY <1>4 DEF CallFails, Restart, GetNothing, Drop, jobVars
  <2>. QED
    BY <2>1, <2>2, <2>3, <2>4, <2>5, <2>6, <2>7 DEF Next, ClusterStep
<1>. QED
  BY <1>1, <1>2, <1>3, <1>4 DEF DoomInv, Current

-----------------------------------------------------------------------------
(* Refinement.                                                             *)

\* A Webapp that changes takes a step of Lifecycle, or none.
LEMMA PhaseStep ==
  ASSUME ProxyIInv, DoomInv, [Next]_vars,
         NEW w \in Webapps, store'.webapp[w] # store.webapp[w],
         \A v \in Webapps : ExposedBy(v)' = ExposedBy(v)
  PROVE  Abstract!Next \/ \A v \in Webapps : PhaseOf(v)' = PhaseOf(v)
<1>. DEFINE old == store.webapp[w]
            new == store'.webapp[w]
            phase == [v \in Webapps |-> PhaseOf(v)]
            exposed == [v \in Webapps |-> ExposedBy(v)]
<1>1. IInv
  BY DEF ProxyIInv
<1>2. \A v \in Webapps : v # w => PhaseOf(v)' = PhaseOf(v)
  BY <1>1, WebappChanges DEF PhaseOf
<1>3. exposed' = exposed
  OBVIOUS
<1>4. ASSUME NEW from, NEW to, PhaseOf(w) = from, PhaseOf(w)' = to
      PROVE  Abstract!Moves(w, from, to)
  <2>1. phase' = [phase EXCEPT ![w] = to]
    BY <1>2, <1>4
  <2>. QED
    BY <1>3, <1>4, <2>1 DEF Abstract!Moves
<1>5. CASE Created(old, new)
  BY <1>4, <1>5 DEF Created, PhaseOf, Abstract!Next, Abstract!Create
<1>6. CASE Edited(old, new)
  BY <1>2, <1>6 DEF Edited, PhaseOf
<1>7. CASE Discarded(old, new)
  BY <1>4, <1>7 DEF Discarded, PhaseOf, Abstract!Next, Abstract!Discard
<1>8. CASE Doomed(old, new)
  BY <1>4, <1>8 DEF Doomed, PhaseOf, Abstract!Next, Abstract!AskDelete
<1>9. CASE Guarded(old, new)
  BY <1>4, <1>9 DEF Guarded, PhaseOf, Abstract!Next, Abstract!Guard
<1>10. CASE Released(old, new) /\ cur = w /\ pc = "removeFinalizer"
  <2>1. ~ExposedBy(w)
    BY <1>10 DEF ProxyIInv, ProxyInv, ExposedBy
  <2>2. Abstract!Moves(w, "deleting", "absent")
    BY <1>4, <1>10 DEF Released, PhaseOf
  <2>. QED
    BY <2>1, <2>2 DEF Abstract!Next, Abstract!Release
<1>. QED
  BY <1>1, <1>5, <1>6, <1>7, <1>8, <1>9, <1>10, WebappChanges

\* When the proxy service of a Webapp comes, its Webapp is guarded; when it goes,
\* the deletion of this Webapp was asked for, and not that of a predecessor.
LEMMA ExposureStep ==
  ASSUME ProxyIInv, DoomInv, OwnProxies, [Next]_vars,
         NEW w \in Webapps, ExposedBy(w)' # ExposedBy(w)
  PROVE  /\ w = cur /\ store'.webapp = store.webapp
         /\ \/ ExposedBy(w)' /\ PhaseOf(w) \in {"guarded", "deleting"}
            \/ ~ExposedBy(w)' /\ PhaseOf(w) = "deleting"
<1>. IInv /\ ObjectsOK
  BY DEF ProxyIInv, IInv, CoreInv, TypeOK, ClusterTypeOK, ObjectsOK
<1>0. "proxy" \in Kinds /\ Names("proxy") = Proxies
  BY KindsOfObjects
<1>1. ProxyName[w] \in Proxies
  BY ConstantsAssumption
<1>2. store'.proxy[ProxyName[w]] # store.proxy[ProxyName[w]]
  BY DEF ExposedBy
<1>3. ProxyName[w] = ProxyName[cur] /\ (DeleteProxy \/ UpsertProxy)
  BY <1>1, <1>2, Writers DEF IInv
<1>4. /\ pc # "idle" /\ pc \notin BeforeGate /\ cur \in Webapps
      /\ obj.finalizer /\ obj # None
  BY <1>3, BusyTypes DEF DeleteProxy, UpsertProxy, BeforeGate, IInv, CoreInv, JobOK
<1>5. w = cur
  BY <1>3, <1>4 DEF OwnProxies
<1>6. store'.webapp = store.webapp
  BY <1>3, OtherCallKeepsWebapps DEF OtherCall, WebappsSame
<1>7. CASE UpsertProxy
  <2>1. ~obj.deleting
    BY <1>4, <1>7 DEF UpsertProxy, IInv, CoreInv, JobOK, Upserts
  <2>2. store.webapp[w] # None /\ store.webapp[w].finalizer
    BY <1>4, <1>5, <2>1 DEF IInv, CoreInv, CopiesVouch, Vouches
  <2>3. ExposedBy(w)'
    <3>. DEFINE o == [target |-> cur, spec |-> obj.spec]
    <3>1. Put("proxy", ProxyName[cur], o)
      BY <1>2, <1>5, <1>7 DEF UpsertProxy, Fails, Unwritten
    <3>2. o \in ProxyObject
      BY <1>4, BusyTypes DEF ProxyObject, WebappObject, IInv, CoreInv
    <3>3. o # None
      BY <3>2, KindsOfObjects, DistinctAssumption
    <3>4. store'.proxy[ProxyName[w]] = o
      <4>. HIDE DEF o
      <4>1. ASSUME NEW p \in Names("proxy"), Put("proxy", p, o)
            PROVE  store'.proxy[p] = o
        BY <1>0, <4>1, PutStore
      <4>. QED
        BY <1>0, <1>1, <1>5, <3>1, <4>1
    <3>. QED
      BY <1>5, <3>3, <3>4 DEF ExposedBy
  <2>. QED
    BY <1>5, <1>6, <2>2, <2>3 DEF PhaseOf
<1>8. CASE DeleteProxy
  <2>1. store'.proxy[ProxyName[w]] = None
    <3>1. Put("proxy", ProxyName[cur], None)
      BY <1>2, <1>5, <1>8 DEF DeleteProxy, Fails, Unwritten
    <3>2. ASSUME NEW p \in Names("proxy"), Put("proxy", p, None)
          PROVE  store'.proxy[p] = None
      BY <1>0, <3>2, PutStore
    <3>. QED
      BY <1>0, <1>1, <1>5, <3>1, <3>2
  <2>2. ~ExposedBy(w)' /\ ExposedBy(w)
    BY <2>1 DEF ExposedBy
  <2>3. store.webapp[w] # None /\ store.webapp[w].finalizer
    BY <1>1, <2>2 DEF ExposedBy, ProxyIInv, ProxyGuarded
  <2>4. obj.deleting
    BY <1>4, <1>8 DEF DeleteProxy, Finalization, IInv, CoreInv, JobOK
  <2>5. store.webapp[w].deleting
    BY <1>4, <1>5, <2>3, <2>4 DEF DoomInv, Dooms
  <2>. QED
    BY <1>5, <1>6, <2>2, <2>3, <2>5 DEF PhaseOf
<1>. QED
  BY <1>3, <1>5, <1>6, <1>7, <1>8

\* Through conflicts, retries, restarts and stale copies, Webapps are guarded,
\* exposed, concealed and released in the order that the finalizer is there to
\* enforce (webapp_controller.go:102-107, 156-192), as long as no two Webapps share
\* a proxy service and finalizeWebapp finds every one that exists: where the cache
\* behind line 161 does not know it yet, the Webapp is released while exposed.
THEOREM Refines ==
  ASSUME OwnProxies
  PROVE  Spec /\ [][FreshProxyRead]_vars => ImplementsLifecycle
<1>. DEFINE phase == [w \in Webapps |-> PhaseOf(w)]
            exposed == [w \in Webapps |-> ExposedBy(w)]
            Inv == ProxyInv /\ ProxyGuarded /\ DoomInv
<1>0. Init => /\ \A w \in Webapps : store.webapp[w] = None /\ cache.webapp[w] = None
              /\ \A p \in Proxies : store.proxy[p] = None
  BY KindsOfObjects DEF Init, ClusterInit, NoObjects
<1>1. Init => Inv
  BY <1>0, KindsOfObjects
  DEF Init, ClusterInit, ProxyInv, ProxyGuarded, DoomInv, Dooms
<1>2. Inv /\ IInv /\ [Next]_vars /\ [FreshProxyRead]_vars => Inv'
  BY ProxyStep, DoomStep, FreshProxyReads DEF ProxyIInv
<1>3. Init => Abstract!Init
  BY <1>0, ConstantsAssumption DEF Abstract!Init, PhaseOf, ExposedBy
<1>4. Inv /\ IInv /\ [Next]_vars => [Abstract!Next]_<<phase, exposed>>
  <2>. SUFFICES ASSUME ProxyIInv, DoomInv, [Next]_vars
                PROVE  Abstract!Next \/ (phase' = phase /\ exposed' = exposed)
    BY DEF ProxyIInv
  <2>1. CASE \E w \in Webapps : ExposedBy(w)' # ExposedBy(w)
    <3>1. PICK w \in Webapps : ExposedBy(w)' # ExposedBy(w)
      BY <2>1
    <3>2. /\ w = cur /\ store'.webapp = store.webapp
          /\ \/ ExposedBy(w)' /\ PhaseOf(w) \in {"guarded", "deleting"}
             \/ ~ExposedBy(w)' /\ PhaseOf(w) = "deleting"
      BY <3>1, ExposureStep
    <3>3. phase' = phase
      BY <3>2 DEF PhaseOf
    <3>4. \A v \in Webapps : v # w => ExposedBy(v)' = ExposedBy(v)
      BY <3>2, ExposureStep
    <3>5. CASE ExposedBy(w)' /\ PhaseOf(w) \in {"guarded", "deleting"}
      <4>1. exposed' = [exposed EXCEPT ![w] = TRUE]
        BY <3>4, <3>5 DEF ExposedBy
      <4>2. Abstract!Expose(w)
        BY <3>3, <3>5, <4>1 DEF Abstract!Expose
      <4>. QED
        BY <4>2 DEF Abstract!Next
    <3>6. CASE ~ExposedBy(w)' /\ PhaseOf(w) = "deleting"
      <4>1. exposed' = [exposed EXCEPT ![w] = FALSE]
        BY <3>4, <3>6 DEF ExposedBy
      <4>2. Abstract!Conceal(w)
        BY <3>3, <3>6, <4>1 DEF Abstract!Conceal
      <4>. QED
        BY <4>2 DEF Abstract!Next
    <3>. QED
      BY <3>2, <3>5, <3>6
  <2>2. CASE \A w \in Webapps : ExposedBy(w)' = ExposedBy(w)
    <3>1. exposed' = exposed
      BY <2>2
    <3>2. CASE \A w \in Webapps : store'.webapp[w] = store.webapp[w]
      <4>1. phase' = phase
        BY <3>2 DEF PhaseOf
      <4>. QED
        BY <3>1, <4>1
    <3>3. CASE \E w \in Webapps : store'.webapp[w] # store.webapp[w]
      <4>1. Abstract!Next \/ \A v \in Webapps : PhaseOf(v)' = PhaseOf(v)
        BY <2>2, <3>3, PhaseStep
      <4>2. (\A v \in Webapps : PhaseOf(v)' = PhaseOf(v)) => phase' = phase
        OBVIOUS
      <4>. QED
        BY <3>1, <4>1, <4>2
    <3>. QED
      BY <3>2, <3>3
  <2>. QED
    BY <2>1, <2>2
<1>. HIDE DEF Inv
<1>. QED
  BY <1>1, <1>2, <1>3, <1>4, Inductive, PTL
  DEF Spec, ImplementsLifecycle, Abstract!Spec
=============================================================================
