------------------------- MODULE ConvergenceProofs -------------------------
(***************************************************************************)
(* Theorems about what a cluster at rest looks like, for any number of     *)
(* Webapps and specs.                                                      *)
(***************************************************************************)
EXTENDS Convergence, WebappControllerProofs

\* A stuttering step makes no call, so a condition on reads is one on every step.
LEMMA FreshReads ==
  /\ [FreshIngressRead]_vars => FreshIngressRead
  /\ [FreshDeploymentRead]_vars => FreshDeploymentRead
BY DEF FreshIngressRead, ReadIngress, FreshDeploymentRead, UpsertDeployment,
       Go, Fails, Retry, Drop, vars, jobVars

-----------------------------------------------------------------------------
(* Notices.                                                                *)

\* A call of a reconcile takes no notice away; it fails, and the key is back in
\* the queue, or goes on with the reconcile, or is the last one.
LEMMA CallEnds ==
  ASSUME CoreInv, ReconcileStep
  PROVE  /\ pc # "idle" /\ stale \subseteq stale' /\ queue \subseteq queue'
         /\ \/ Fails /\ cur \in queue' /\ pc' = "idle"
            \/ cur' = cur /\ pc' # "idle"
            \/ /\ (UpdateLabels \/ RemoveFinalizer \/ UpdateIngress)
               /\ Done /\ pc' = "idle"
<1>. ObjectsOK
  BY DEF CoreInv, TypeOK, ClusterTypeOK, ObjectsOK
<1>1. ASSUME NEW kind \in Kinds, NEW name \in Names(kind), NEW o, Put(kind, name, o)
      PROVE  stale \subseteq stale'
  BY <1>1, PutStore
<1>2. Unwritten \/ Fails => stale \subseteq stale'
  BY DEF Unwritten, Fails
<1>3. pc # "idle" => /\ cur \in Names("webapp") /\ cur \in Names("deployment")
                    /\ cur \in Names("service") /\ ProxyName[cur] \in Names("proxy")
  BY BusyTypes, KindsOfObjects DEF CoreInv
<1>4. /\ Global \in Names("ingress") /\ Global \in Names("namespace")
      /\ {"webapp", "deployment", "service", "proxy", "ingress", "namespace"} = Kinds
  BY KindsOfObjects
<1>5. /\ Fails => cur \in queue' /\ queue \subseteq queue' /\ pc' = "idle"
      /\ Done => queue' = queue /\ pc' = "idle"
      /\ \A c : Go(c) => cur' = cur /\ queue' = queue /\ pc' = c
  BY DEF Fails, Retry, Done, Drop, Go
<1>6. CASE UpdateLabels \/ RemoveFinalizer
  BY <1>1, <1>2, <1>3, <1>4, <1>5, <1>6 DEF UpdateLabels, RemoveFinalizer
<1>7. CASE AddFinalizer
  BY <1>1, <1>2, <1>3, <1>4, <1>5, <1>7 DEF AddFinalizer
<1>8. CASE CreateNamespace
  BY <1>1, <1>2, <1>4, <1>5, <1>8 DEF CreateNamespace
<1>9. CASE ReadIngress
  BY <1>2, <1>5, <1>9 DEF ReadIngress
<1>10. CASE DeleteProxy
  BY <1>1, <1>2, <1>3, <1>4, <1>5, <1>10 DEF DeleteProxy
<1>11. CASE PruneIngress
  BY <1>1, <1>2, <1>4, <1>5, <1>11 DEF PruneIngress
<1>12. CASE UpsertDeployment
  BY <1>1, <1>2, <1>3, <1>4, <1>5, <1>12 DEF UpsertDeployment
<1>13. CASE UpsertService
  BY <1>1, <1>2, <1>3, <1>4, <1>5, <1>13 DEF UpsertService
<1>14. CASE UpsertProxy
  BY <1>1, <1>2, <1>3, <1>4, <1>5, <1>14 DEF UpsertProxy
<1>15. CASE UpdateIngress
  BY <1>1, <1>2, <1>4, <1>5, <1>15 DEF UpdateIngress
<1>. QED
  BY <1>6, <1>7, <1>8, <1>9, <1>10, <1>11, <1>12, <1>13, <1>14, <1>15
  DEF ReconcileStep

\* A new version of a Webapp is noticed...
LEMMA NewVersions ==
  ASSUME CoreInv, [Next]_vars, NEW w \in Webapps, store'.webapp[w] # store.webapp[w]
  PROVE  <<"webapp", w>> \in stale'
<1>. ObjectsOK
  BY DEF CoreInv, TypeOK, ClusterTypeOK, ObjectsOK
<1>1. ASSUME NEW v \in Webapps, NEW o, Put("webapp", v, o)
      PROVE  v = w /\ <<"webapp", w>> \in stale'
  <2>1. /\ OnlyWrites("webapp", v)
        /\ store'.webapp[v] # store.webapp[v] => <<"webapp", v>> \in stale'
    BY <1>1, PutStore, KindsOfObjects, DistinctAssumption
  <2>2. v = w
    BY <2>1, KindsOfObjects DEF OnlyWrites
  <2>. QED
    BY <2>1, <2>2
<1>2. CASE cur = w /\ (UpdateLabels \/ AddFinalizer \/ RemoveFinalizer)
  BY <1>1, <1>2 DEF UpdateLabels, AddFinalizer, RemoveFinalizer, Fails, Unwritten
<1>3. CASE UserStep
  <2>1. \E v \in Webapps : \E o : UserWrites(v, o)
    BY <1>3 DEF UserStep, UserCreate, UserEdit, UserDelete
  <2>. QED
    BY <1>1, <2>1 DEF UserWrites
<1>. QED
  BY <1>2, <1>3, Writers DEF CoreInv

\* ...and no notice is lost: only a reconcile that begins takes it.
LEMMA Notices ==
  ASSUME CoreInv, [Next]_vars, NEW w \in Webapps, Unseen(w), ~Unseen(w)'
  PROVE  GetNothing(w) \/ Get(w) \/ Restart
<1>. ObjectsOK
  BY DEF CoreInv, TypeOK, ClusterTypeOK, ObjectsOK
<1>1. ~(stale \subseteq stale' /\ queue \subseteq queue')
  BY DEF Unseen
<1>2. ~ReconcileStep
  BY <1>1, CallEnds
<1>3. ~CallFails /\ ~Resync /\ ~UNCHANGED vars
  BY <1>1 DEF CallFails, Unwritten, Resync, vars, clusterVars
<1>4. ASSUME NEW v \in Webapps, GetNothing(v) \/ Get(v)
      PROVE  v = w
  BY <1>4 DEF GetNothing, Get, Unwritten, Unseen
<1>5. ~UserStep
  <2>1. ASSUME NEW v \in Webapps, NEW o, UserWrites(v, o)
        PROVE  stale \subseteq stale' /\ queue \subseteq queue'
    BY <2>1, PutStore, KindsOfObjects DEF UserWrites
  <2>. QED
    BY <1>1, <2>1 DEF UserStep, UserCreate, UserEdit, UserDelete
<1>6. ASSUME NEW kind \in {"deployment", "service"}, NEW v \in Webapps
      PROVE  ~Collect(kind, v)
  BY <1>1, PutStore, KindsOfObjects DEF Collect
<1>7. ASSUME NEW kind \in Kinds, NEW name \in Names(kind)
      PROVE  ~Deliver(kind, name)
  <2>1. SUFFICES ASSUME Deliver(kind, name)
                 PROVE  FALSE
    OBVIOUS
  <2>2. queue \subseteq queue' /\ stale' = stale \ {<<kind, name>>}
    BY <2>1 DEF Deliver
  <2>3. kind = "webapp" /\ name = w
    BY <2>2 DEF Unseen
  <2>. QED
    BY <2>1, <2>3 DEF Deliver, Unseen
<1>. QED
  BY <1>2, <1>3, <1>4, <1>5, <1>6, <1>7 DEF Next, ClusterStep

\* updateLabels writes a version that differs from the one it read.
LEMMA LabelsAreNews ==
  ASSUME CoreInv, LabelsDiffer, UpdateLabels
  PROVE  <<"webapp", cur>> \in stale' \/ cur \in queue'
<1>. DEFINE labelled == [obj EXCEPT !.label = Hash[obj.spec]]
<1>. ObjectsOK
  BY DEF CoreInv, TypeOK, ClusterTypeOK, ObjectsOK
<1>1. /\ pc = "updateLabels" /\ pc # "idle"
      /\ cur \in Webapps /\ obj \in WebappObject
  BY BusyTypes DEF UpdateLabels, CoreInv
<1>2. CASE Fails
  BY <1>2 DEF Fails, Retry
<1>3. CASE Updatable("webapp", cur) /\ Put("webapp", cur, labelled)
  <2>1. obj = store.webapp[cur]
    BY <1>1, <1>3 DEF CoreInv, HeldCurrent, Updatable
  <2>2. labelled.label # obj.label
    BY <1>1 DEF LabelsDiffer, WebappObject
  <2>3. store.webapp[cur] # labelled
    BY <2>1, <2>2
  <2>. HIDE DEF labelled
  <2>4. store'.webapp[cur] = labelled
    BY <1>1, <1>3, WebappPut DEF CoreInv
  <2>. QED
    BY <1>1, <1>3, <2>3, <2>4, PutStore, KindsOfObjects, DistinctAssumption
<1>. QED
  BY <1>2, <1>3 DEF UpdateLabels

\* How a step moves the reconcile of a Webapp that exists and that nothing is
\* noticed about: a reconcile of it begins or draws nearer to the calls that
\* supply things, makes one of them, or it is not the one being reconciled.
LEMMA JobMoves ==
  ASSUME CoreInv, NoticeInv, [Next]_vars, NEW w \in Webapps, ~Unseen(w)', Live(w)'
  PROVE  /\ store'.webapp[w] = store.webapp[w]
         /\ \/ cur' = w /\ pc' \in UntilDeployed
            \/ /\ ~Unseen(w)
               /\ ~(cur = w /\ pc # "idle") /\ ~(cur' = w /\ pc' # "idle")
            \/ /\ ~Unseen(w) /\ cur = w /\ pc # "idle" /\ obj = store.webapp[w]
               /\ \/ cur' = w /\ pc' = pc
                  \/ UpsertDeployment /\ cur' = w /\ pc' = "upsertService"
                  \/ UpsertService /\ cur' = w /\ pc' = "upsertProxy"
                  \/ UpsertProxy /\ cur' = w /\ pc' = "updateIngress"
                  \/ UpdateIngress /\ Done /\ pc' = "idle"
<1>1. store'.webapp[w] = store.webapp[w]
  BY NewVersions DEF Unseen
<1>2. CASE Unseen(w)
  <2>1. ~Restart
    BY <1>1 DEF Restart, Live, Unseen
  <2>2. ~GetNothing(w)
    <3>1. SUFFICES ASSUME GetNothing(w)
                   PROVE  FALSE
      OBVIOUS
    <3>2. <<"webapp", w>> \notin stale /\ cache.webapp[w] = None
      BY <3>1 DEF GetNothing, Unwritten, Unseen
    <3>3. store.webapp[w] = None
      BY <3>2, KindsOfObjects DEF CoreInv, CacheInStep, Current
    <3>. QED
      BY <1>1, <3>3 DEF Live
  <2>3. Get(w)
    BY <1>2, <2>1, <2>2, Notices
  <2>4. cur' = w /\ pc' \in UntilDeployed
    BY <2>3 DEF Get, FirstCall, UntilDeployed, Calls
  <2>. QED
    BY <1>1, <2>4
<1>3. CASE ~Unseen(w) /\ ~(cur = w /\ pc # "idle")
  <2>1. CASE \E v \in Webapps : GetNothing(v) \/ Get(v)
    <3>1. \A v \in Webapps : GetNothing(v) \/ Get(v) => v # w
      BY <1>3 DEF GetNothing, Get, Unseen
    <3>. QED
      BY <1>1, <1>3, <2>1, <3>1 DEF GetNothing, Get, jobVars
  <2>2. CASE ReconcileStep
    BY <1>1, <1>3, <2>2, CallEnds
  <2>3. CASE CallFails \/ Restart
    BY <1>1, <1>3, <2>3 DEF CallFails, Restart, Drop
  <2>4. CASE Resync \/ ClusterStep \/ UNCHANGED vars
    BY <1>1, <1>3, <2>4 DEF Resync, ClusterStep, jobVars, vars
  <2>. QED
    BY <2>1, <2>2, <2>3, <2>4 DEF Next
<1>4. CASE ~Unseen(w) /\ cur = w /\ pc # "idle"
  <2>1. obj = store.webapp[w]
    BY <1>4 DEF NoticeInv, WorksOnNewest
  <2>2. ~CallFails
    BY <1>4 DEF CallFails, Unseen
  <2>3. ~Restart
    BY <1>1 DEF Restart, Live, Unseen
  <2>4. CASE Resync \/ ClusterStep \/ UNCHANGED vars
    BY <1>1, <1>4, <2>1, <2>4 DEF Resync, ClusterStep, jobVars, vars
  <2>5. CASE ReconcileStep
    <3>1. ~Fails
      BY <1>4 DEF Fails, Retry, Unseen
    <3>2. ~UpdateLabels
      BY <1>4, LabelsAreNews DEF NoticeInv, Unseen
    <3>3. ~RemoveFinalizer
      <4>1. SUFFICES ASSUME RemoveFinalizer
                     PROVE  FALSE
        OBVIOUS
      <4>2. Put("webapp", w, None)
        BY <1>4, <3>1, <4>1 DEF RemoveFinalizer
      <4>. QED
        BY <4>2, WebappPut DEF CoreInv, Live
    <3>4. CASE \/ AddFinalizer \/ CreateNamespace \/ ReadIngress
               \/ DeleteProxy \/ PruneIngress
      <4>1. cur' = w /\ pc' \in UntilDeployed
        BY <1>4, <3>1, <3>4
        DEF AddFinalizer, CreateNamespace, ReadIngress, DeleteProxy, PruneIngress,
            Go, UntilDeployed, Calls
      <4>. QED
        BY <1>1, <4>1
    <3>5. CASE UpsertDeployment
      <4>1. cur' = w /\ pc' = "upsertService"
        BY <1>4, <3>1, <3>5 DEF UpsertDeployment, Go
      <4>. QED
        BY <1>1, <1>4, <2>1, <3>5, <4>1
    <3>6. CASE UpsertService
      <4>1. cur' = w /\ pc' = "upsertProxy"
        BY <1>4, <3>1, <3>6 DEF UpsertService, Go
      <4>. QED
        BY <1>1, <1>4, <2>1, <3>6, <4>1
    <3>7. CASE UpsertProxy
      <4>1. cur' = w /\ pc' = "updateIngress"
        BY <1>4, <3>1, <3>7 DEF UpsertProxy, Go
      <4>. QED
        BY <1>1, <1>4, <2>1, <3>7, <4>1
    <3>8. CASE UpdateIngress
      <4>1. Done /\ pc' = "idle"
        BY <1>4, <3>1, <3>8 DEF UpdateIngress, Done, Drop
      <4>. QED
        BY <1>1, <1>4, <2>1, <3>8, <4>1
    <3>. QED
      BY <2>5, <3>2, <3>3, <3>4, <3>5, <3>6, <3>7, <3>8 DEF ReconcileStep
  <2>6. \A v \in Webapps : ~GetNothing(v) /\ ~Get(v)
    BY <1>4 DEF GetNothing, Get
  <2>. QED
    BY <2>2, <2>3, <2>4, <2>5, <2>6 DEF Next
<1>. QED
  BY <1>2, <1>3, <1>4

\* A reconcile stays with the newest version as long as no other is noticed.
LEMMA NewestStep ==
  ASSUME CoreInv, NoticeInv, [Next]_vars
  PROVE  WorksOnNewest'
<1>. SUFFICES ASSUME pc' # "idle", ~Unseen(cur)'
              PROVE  obj' = store'.webapp[cur']
  BY DEF WorksOnNewest
<1>1. CASE \E w \in Webapps : Get(w)
  <2>1. PICK w \in Webapps : Get(w)
    BY <1>1
  <2>2. cur' = w /\ obj' = cache.webapp[w] /\ store' = store
        /\ <<"webapp", w>> \notin stale
    BY <2>1 DEF Get, Unwritten, Unseen
  <2>. QED
    BY <2>2, KindsOfObjects DEF CoreInv, CacheInStep, Current
<1>2. CASE ~(\E w \in Webapps : Get(w))
  <2>1. /\ ~Restart /\ pc # "idle" /\ cur' = cur
        /\ \A w \in Webapps : ~GetNothing(w)
    <3>1. /\ ~Restart /\ ~CallFails
          /\ \A w \in Webapps : ~GetNothing(w)
      BY DEF Restart, CallFails, Drop, GetNothing, jobVars
    <3>2. CASE ReconcileStep
      BY <3>1, <3>2, CallEnds
    <3>3. CASE Resync \/ ClusterStep \/ UNCHANGED vars
      BY <3>1, <3>3 DEF Resync, ClusterStep, vars, jobVars
    <3>. QED
      BY <1>2, <3>1, <3>2, <3>3 DEF Next
  <2>2. cur \in Webapps
    BY <2>1, BusyTypes DEF CoreInv
  <2>3. PICK w \in Webapps : w = cur
    BY <2>2
  <2>4. ~Unseen(w)'
    BY <2>1, <2>3 DEF Unseen
  <2>5. ~Unseen(w)
    BY <1>2, <2>1, <2>4, Notices
  <2>6. obj = store.webapp[w]
    BY <2>1, <2>3, <2>5 DEF NoticeInv, WorksOnNewest
  <2>7. store'.webapp[w] = store.webapp[w]
    BY <2>4, NewVersions DEF Unseen
  <2>8. CASE AddFinalizer
    <3>. DEFINE guarded == [obj EXCEPT !.finalizer = TRUE]
    <3>1. Put("webapp", cur, guarded) /\ obj' = guarded
      BY <2>8 DEF AddFinalizer, Fails, Retry, Drop
    <3>. HIDE DEF guarded
    <3>2. store'.webapp[cur] = guarded
      BY <2>2, <3>1, WebappPut DEF CoreInv
    <3>. QED
      BY <2>1, <3>1, <3>2
  <2>9. CASE ReconcileStep /\ ~AddFinalizer
    <3>1. obj' = obj
      <4>1. ~Drop
        BY DEF Drop
      <4>. QED
        BY <2>9, <4>1
        DEF ReconcileStep, UpdateLabels, CreateNamespace, ReadIngress, DeleteProxy,
            PruneIngress, RemoveFinalizer, UpsertDeployment, UpsertService,
            UpsertProxy, UpdateIngress, Fails, Retry, Done
    <3>. QED
      BY <2>1, <2>3, <2>6, <2>7, <3>1
  <2>10. CASE Resync \/ ClusterStep \/ UNCHANGED vars
    <3>1. obj' = obj
      BY <2>10 DEF Resync, ClusterStep, vars, jobVars
    <3>. QED
      BY <2>1, <2>3, <2>6, <2>7, <3>1
  <2>. QED
    BY <1>2, <2>1, <2>8, <2>9, <2>10 DEF Next, CallFails, Drop
<1>. QED
  BY <1>1, <1>2

\* A Webapp that changes is announced: its event is outstanding, or its key is
\* queued, before the reconcile that works on the old version is over.
LEMMA NoticeStep ==
  ASSUME CoreInv, NoticeInv, [Next]_vars
  PROVE  NoticeInv'
<1>. ObjectsOK
  BY DEF CoreInv, TypeOK, ClusterTypeOK, ObjectsOK
<1>1. LabelsDiffer'
  <2>1. CASE \E w \in Webapps : Get(w)
    BY <2>1 DEF Get, FirstCall, LabelsDiffer
  <2>2. CASE ReconcileStep
    <3>1. pc' # "updateLabels"
      BY <2>2
      DEF ReconcileStep, UpdateLabels, AddFinalizer, CreateNamespace, ReadIngress,
          DeleteProxy, PruneIngress, RemoveFinalizer, UpsertDeployment,
          UpsertService, UpsertProxy, UpdateIngress, Fails, Retry, Done, Drop, Go
    <3>. QED
      BY <3>1 DEF LabelsDiffer
  <2>3. CASE \/ \E w \in Webapps : GetNothing(w)
             \/ Resync \/ ClusterStep \/ UNCHANGED vars
    BY <2>3 DEF GetNothing, Resync, ClusterStep, vars, jobVars, NoticeInv, LabelsDiffer
  <2>4. CASE CallFails \/ Restart
    BY <2>4 DEF CallFails, Restart, Drop, LabelsDiffer
  <2>. QED
    BY <2>1, <2>2, <2>3, <2>4 DEF Next
<1>2. OnlyLaggyLag'
  <2>1. ASSUME stale' \subseteq stale
        PROVE  OnlyLaggyLag'
    BY <2>1 DEF NoticeInv, OnlyLaggyLag
  <2>2. ASSUME NEW kind \in Kinds, NEW name \in Names(kind), NEW o,
               Put(kind, name, o)
        PROVE  OnlyLaggyLag'
    <3>1. /\ stale' \subseteq stale \cup {<<kind, name>>}
          /\ kind \notin Laggy => stale' = stale
      BY <2>2, PutStore
    <3>. QED
      BY <3>1 DEF NoticeInv, OnlyLaggyLag
  <2>3. Unwritten \/ Fails => OnlyLaggyLag'
    BY <2>1 DEF Unwritten, Fails
  <2>4. pc # "idle" => /\ cur \in Names("webapp") /\ cur \in Names("deployment")
                      /\ cur \in Names("service")
                      /\ ProxyName[cur] \in Names("proxy")
    BY BusyTypes, KindsOfObjects DEF CoreInv
  <2>5. /\ Global \in Names("ingress") /\ Global \in Names("namespace")
        /\ {"webapp", "deployment", "service", "proxy", "ingress", "namespace"} = Kinds
    BY KindsOfObjects
  <2>6. CASE UpdateLabels \/ AddFinalizer \/ RemoveFinalizer
    BY <2>2, <2>3, <2>4, <2>5, <2>6 DEF UpdateLabels, AddFinalizer, RemoveFinalizer
  <2>7. CASE CreateNamespace \/ ReadIngress
    BY <2>2, <2>3, <2>5, <2>7 DEF CreateNamespace, ReadIngress
  <2>8. CASE DeleteProxy \/ UpsertProxy
    BY <2>2, <2>3, <2>4, <2>5, <2>8 DEF DeleteProxy, UpsertProxy
  <2>9. CASE PruneIngress
    BY <2>2, <2>3, <2>5, <2>9 DEF PruneIngress
  <2>10. CASE UpdateIngress
    BY <2>2, <2>3, <2>5, <2>10 DEF UpdateIngress
  <2>11. CASE UpsertDeployment
    BY <2>2, <2>3, <2>4, <2>5, <2>11 DEF UpsertDeployment
  <2>12. CASE UpsertService
    BY <2>2, <2>3, <2>4, <2>5, <2>12 DEF UpsertService
  <2>13. CASE UserStep
    <3>1. ASSUME NEW w \in Webapps, NEW o, UserWrites(w, o)
          PROVE  OnlyLaggyLag'
      BY <3>1, <2>2, KindsOfObjects DEF UserWrites
    <3>. QED
      BY <2>13, <3>1 DEF UserStep, UserCreate, UserEdit, UserDelete
  <2>14. ASSUME NEW kind \in {"deployment", "service"}, NEW w \in Webapps,
                Collect(kind, w)
         PROVE  OnlyLaggyLag'
    BY <2>14, <2>2, KindsOfObjects DEF Collect
  <2>15. CASE \/ \E w \in Webapps : GetNothing(w) \/ Get(w)
              \/ CallFails \/ Restart \/ Resync
              \/ \E kind \in Kinds : \E name \in Names(kind) : Deliver(kind, name)
              \/ UNCHANGED vars
    <3>1. stale' \subseteq stale
      BY <2>15 DEF GetNothing, Get, CallFails, Restart, Resync, Deliver, Unwritten,
                   vars, clusterVars
    <3>. QED
      BY <2>1, <3>1
  <2>16. CASE ReconcileStep
    BY <2>6, <2>7, <2>8, <2>9, <2>10, <2>11, <2>12, <2>16 DEF ReconcileStep
  <2>17. CASE ClusterStep
    BY <2>13, <2>14, <2>15, <2>17 DEF ClusterStep
  <2>. QED
    BY <2>15, <2>16, <2>17 DEF Next
<1>. QED
  BY <1>1, <1>2, NewestStep DEF NoticeInv

-----------------------------------------------------------------------------
(* Owners.                                                                 *)

\* A Webapp keeps its uid as long as it exists, and only users bring one into
\* existence.
LEMMA Incarnations ==
  ASSUME CoreInv, [Next]_vars, NEW w \in Webapps, Live(w)'
  PROVE  \/ Live(w) /\ store'.webapp[w].uid = store.webapp[w].uid
         \/ ~Live(w) /\ \E s \in Specs : UserCreate(w, s)
<1>. ObjectsOK
  BY DEF CoreInv, TypeOK, ClusterTypeOK, ObjectsOK
<1>1. CASE store'.webapp[w] = store.webapp[w]
  BY <1>1 DEF Live
<1>2. CASE UserStep /\ OnlyWrites("webapp", w)
  <2>1. PICK v \in Webapps :
          (\E s \in Specs : UserCreate(v, s) \/ UserEdit(v, s)) \/ UserDelete(v)
    BY <1>2 DEF UserStep
  <2>2. ASSUME NEW o, UserWrites(v, o)
        PROVE  /\ store'.webapp[v] = o
               /\ store'.webapp[w] # store.webapp[w] => v = w
    BY <2>2, WebappPut DEF CoreInv, UserWrites
  <2>3. store.webapp \in [Webapps -> WebappObject \cup {None}]
    BY ObjectsTypes DEF ObjectsOK
  <2>4. CASE \E s \in Specs : UserCreate(v, s)
    <3>1. v = w \/ store'.webapp[w] = store.webapp[w]
      BY <2>2, <2>4 DEF UserCreate
    <3>. QED
      BY <1>1, <2>4, <3>1 DEF UserCreate, Live
  <2>5. ASSUME NEW s \in Specs, UserEdit(v, s)
        PROVE  v = w => Live(w) /\ store'.webapp[w].uid = store.webapp[w].uid
    BY <2>2, <2>3, <2>5 DEF UserEdit, Live, WebappObject
  <2>6. CASE UserDelete(v)
    <3>1. store.webapp[v] \in WebappObject
      BY <2>3, <2>6 DEF UserDelete
    <3>2. \/ store'.webapp[v] = None
          \/ store'.webapp[v] = [store.webapp[v] EXCEPT !.deleting = TRUE]
      BY <2>2, <2>6 DEF UserDelete
    <3>3. v = w => Live(w) /\ store'.webapp[w].uid = store.webapp[w].uid
      BY <2>6, <3>1, <3>2 DEF UserDelete, Live, WebappObject
    <3>4. v = w \/ store'.webapp[w] = store.webapp[w]
      BY <2>2, <2>6 DEF UserDelete
    <3>. QED
      BY <1>1, <3>3, <3>4
  <2>7. CASE \E s \in Specs : UserEdit(v, s)
    <3>1. v = w \/ store'.webapp[w] = store.webapp[w]
      BY <2>2, <2>7 DEF UserEdit
    <3>. QED
      BY <1>1, <2>5, <2>7, <3>1
  <2>. QED
    BY <2>1, <2>4, <2>6, <2>7
<1>3. CASE cur = w /\ (UpdateLabels \/ AddFinalizer \/ RemoveFinalizer)
  <2>1. ops' = ops
    BY <1>3 DEF UpdateLabels, AddFinalizer, RemoveFinalizer, Fails, Retry, Done, Go
  <2>2. vars' # vars => AsUsersWant(store.webapp[w], store'.webapp[w])
    BY <2>1, UsersDecideStep DEF CoreInv, UsersDecide
  <2>3. AsUsersWant(store.webapp[w], store'.webapp[w])
    BY <2>2 DEF vars, clusterVars, AsUsersWant
  <2>. QED
    BY <1>1, <2>3 DEF AsUsersWant, Live
<1>. QED
  BY <1>1, <1>2, <1>3, Writers DEF CoreInv

\* What an upsert writes carries the uid of the Webapp in memory, or keeps the owner
\* that it has.
LEMMA UpsertOwners ==
  ASSUME CoreInv, UpsertDeployment \/ UpsertService,
         NEW kind \in {"deployment", "service"},
         store'[kind][cur] # store[kind][cur]
  PROVE  \/ store'[kind][cur].owner = obj.uid
         \/ /\ store[kind][cur] # None
            /\ store'[kind][cur].owner = store[kind][cur].owner
<1>. ObjectsOK
  BY DEF CoreInv, TypeOK, ClusterTypeOK, ObjectsOK
<1>1. pc # "idle" /\ cur \in Webapps /\ obj \in WebappObject
  BY BusyTypes DEF UpsertDeployment, UpsertService, CoreInv
<1>2. ASSUME NEW k \in {"deployment", "service"}, NEW o, Put(k, cur, o)
      PROVE  k = kind /\ store'[kind][cur] = o
  <2>1. OnlyWrites(k, cur) /\ store'[k][cur] = o
    BY <1>1, <1>2, PutStore, KindsOfObjects
  <2>. QED
    BY <1>1, <2>1, KindsOfObjects DEF OnlyWrites
<1>3. ~Unwritten /\ ~Fails
  BY DEF Unwritten, Fails
<1>4. CASE UpsertService
  <2>1. Put("service", cur, [spec |-> obj.spec, owner |-> obj.uid])
    BY <1>3, <1>4 DEF UpsertService
  <2>. QED
    BY <1>2, <2>1
<1>5. CASE /\ UpsertDeployment
           /\ Put("deployment", cur, [spec |-> obj.spec, owner |-> obj.uid])
  BY <1>2, <1>5
<1>6. CASE /\ UpsertDeployment
           /\ cache.deployment[cur] # None /\ Current("deployment", cur)
           /\ Put("deployment", cur, [cache.deployment[cur] EXCEPT !.spec = obj.spec])
  <2>1. cache.deployment[cur] \in OwnedObject
    BY <1>1, <1>6, ObjectsTypes DEF ObjectsOK
  <2>2. cache.deployment[cur] = store.deployment[cur]
    BY <1>1, <1>6, KindsOfObjects DEF CoreInv, CacheInStep
  <2>3. /\ kind = "deployment"
        /\ store'[kind][cur] = [cache.deployment[cur] EXCEPT !.spec = obj.spec]
    BY <1>2, <1>6
  <2>. QED
    BY <1>6, <2>1, <2>2, <2>3 DEF OwnedObject
<1>. QED
  BY <1>3, <1>4, <1>5, <1>6 DEF UpsertDeployment

\* Deployments and services go with the Webapp that owns them, so as long as a name
\* is not used again early, what is there belongs to the Webapp that is there.
LEMMA OwnersStep ==
  ASSUME IInv, OwnersMatch, "recreate" \notin UserOps, [Next]_vars
  PROVE  OwnersMatch'
<1>. ObjectsOK
  BY DEF IInv, CoreInv, TypeOK, ClusterTypeOK, ObjectsOK
<1>. SUFFICES ASSUME NEW kind \in {"deployment", "service"}, NEW w \in Webapps,
                     store'[kind][w] # None, Live(w)'
              PROVE  store'[kind][w].owner = store'.webapp[w].uid
  BY DEF OwnersMatch
<1>1. Live(w) /\ store'.webapp[w].uid = store.webapp[w].uid
  <2>1. ASSUME NEW s \in Specs, UserCreate(w, s)
        PROVE  FALSE
    <3>1. store[kind][w] = None /\ \E o : Put("webapp", w, o)
      BY <2>1 DEF UserCreate, UserWrites
    <3>2. store'[kind] = store[kind]
      BY <3>1, PutStore, KindsOfObjects
    <3>. QED
      BY <3>1, <3>2
  <2>. QED
    BY <2>1, Incarnations DEF IInv
<1>2. CASE store'[kind][w] = store[kind][w]
  BY <1>1, <1>2 DEF OwnersMatch
<1>3. CASE store'[kind][w] # store[kind][w]
  <2>1. \/ Collect(kind, w)
        \/ cur = w /\ (UpsertDeployment \/ UpsertService)
    BY <1>3, Writers DEF IInv
  <2>2. ~Collect(kind, w)
    <3>1. SUFFICES ASSUME Collect(kind, w)
                   PROVE  FALSE
      OBVIOUS
    <3>2. kind \in Kinds /\ w \in Names(kind) /\ Put(kind, w, None)
      BY <3>1, KindsOfObjects DEF Collect
    <3>3. store'[kind][w] = None
      BY <3>2, PutStore
    <3>. QED
      BY <3>3
  <2>3. obj.uid = store.webapp[cur].uid
    BY <2>1, <2>2
    DEF IInv, CoreInv, JobOK, CopiesVouch, Vouches, UpsertDeployment, UpsertService,
        Upserts, BeforeGate
  <2>4. store'[kind][w].owner = store.webapp[w].uid
    BY <1>1, <1>3, <2>1, <2>2, <2>3, UpsertOwners DEF OwnersMatch, IInv
  <2>. QED
    BY <1>1, <2>4
<1>. QED
  BY <1>2, <1>3

-----------------------------------------------------------------------------
(* Deployments and services.                                               *)

\* After UpsertDeployment the deployment carries the label of the newest spec, if the
\* one it leaves alone is the server's.
LEMMA DeploymentSupplied ==
  ASSUME CoreInv, FreshDeploymentRead, UpsertDeployment, pc' = "upsertService",
         obj = store.webapp[cur], store'.webapp[cur] = store.webapp[cur]
  PROVE  /\ store'.deployment[cur] # None
         /\ Hash[store'.deployment[cur].spec] = Hash[store'.webapp[cur].spec]
<1>. ObjectsOK
  BY DEF CoreInv, TypeOK, ClusterTypeOK, ObjectsOK
<1>1. cur \in Webapps /\ obj \in WebappObject
  BY BusyTypes DEF UpsertDeployment, CoreInv
<1>2. ~Fails
  BY DEF Fails, Retry, Drop
<1>3. ASSUME NEW o \in OwnedObject, Put("deployment", cur, o), o.spec = obj.spec
      PROVE  /\ store'.deployment[cur] # None
             /\ Hash[store'.deployment[cur].spec] = Hash[store'.webapp[cur].spec]
  <2>0. "deployment" \in Kinds /\ cur \in Names("deployment")
    BY <1>1, KindsOfObjects
  <2>1. store'.deployment[cur] = o
    BY <1>3, <2>0, PutStore
  <2>2. o # None
    BY KindsOfObjects, DistinctAssumption
  <2>. QED
    BY <1>3, <2>1, <2>2
<1>4. CASE Put("deployment", cur, [spec |-> obj.spec, owner |-> obj.uid])
  BY <1>1, <1>3, <1>4 DEF WebappObject, OwnedObject
<1>5. CASE /\ cache.deployment[cur] # None
           /\ Put("deployment", cur, [cache.deployment[cur] EXCEPT !.spec = obj.spec])
  <2>. DEFINE o == [cache.deployment[cur] EXCEPT !.spec = obj.spec]
  <2>1. cache.deployment[cur] \in OwnedObject
    BY <1>1, <1>5, ObjectsTypes DEF ObjectsOK
  <2>2. o \in OwnedObject /\ o.spec = obj.spec
    BY <1>1, <2>1 DEF OwnedObject, WebappObject
  <2>. HIDE DEF o
  <2>. QED
    BY <1>3, <1>5, <2>2 DEF o
<1>6. CASE /\ cache.deployment[cur] # None /\ Unwritten
           /\ Hash[cache.deployment[cur].spec] = Hash[obj.spec]
  <2>1. Current("deployment", cur)
    BY <1>6 DEF FreshDeploymentRead
  <2>2. cache.deployment[cur] = store.deployment[cur]
    BY <1>1, <2>1, KindsOfObjects DEF CoreInv, CacheInStep
  <2>. QED
    BY <1>6, <2>2 DEF Unwritten
<1>. QED
  BY <1>2, <1>4, <1>5, <1>6 DEF UpsertDeployment

\* After UpsertService the service carries the newest spec.
LEMMA ServiceSupplied ==
  ASSUME CoreInv, UpsertService, pc' = "upsertProxy",
         obj = store.webapp[cur], store'.webapp[cur] = store.webapp[cur]
  PROVE  /\ store'.service[cur] # None
         /\ store'.service[cur].spec = store'.webapp[cur].spec
<1>. DEFINE o == [spec |-> obj.spec, owner |-> obj.uid]
<1>. ObjectsOK
  BY DEF CoreInv, TypeOK, ClusterTypeOK, ObjectsOK
<1>1. cur \in Webapps /\ obj \in WebappObject
  BY BusyTypes DEF UpsertService, CoreInv
<1>2. Put("service", cur, o)
  BY DEF UpsertService, Fails, Retry, Drop
<1>3. store'.service[cur] = o
  <2>1. "service" \in Kinds /\ cur \in Names("service")
    BY <1>1, KindsOfObjects
  <2>. HIDE DEF o
  <2>. QED
    BY <1>2, <2>1, PutStore
<1>4. o \in OwnedObject
  BY <1>1 DEF OwnedObject, WebappObject
<1>5. o # None
  BY <1>4, KindsOfObjects, DistinctAssumption
<1>. QED
  BY <1>3, <1>5

\* A step that does not collect the deployment of a Webapp leaves it revised, or
\* leaves a notice that it is to be revised.
LEMMA DeploymentKept ==
  ASSUME CoreInv, NoticeInv, FreshDeploymentRead, [Next]_vars,
         NEW w \in Webapps, Live(w)', ~Collect("deployment", w),
         Live(w) => Owes(w, UntilDeployed) \/ Revised(w)
  PROVE  Owes(w, UntilDeployed)' \/ Revised(w)'
<1>. SUFFICES ASSUME ~Unseen(w)'
              PROVE  Owes(w, UntilDeployed)' \/ Revised(w)'
  BY DEF Owes
<1>1. /\ store'.webapp[w] = store.webapp[w]
      /\ Owes(w, UntilDeployed) \/ Revised(w)
  BY JobMoves DEF Live
<1>2. Revised(w) => Revised(w)' \/ (UpsertDeployment /\ cur = w)
  BY <1>1, Writers DEF CoreInv, Revised
<1>3. CASE cur' = w /\ pc' \in UntilDeployed
  BY <1>3 DEF Owes
<1>. USE DEF Owes, UntilDeployed, Calls
<1>4. CASE /\ ~Unseen(w)
           /\ ~(cur = w /\ pc # "idle") /\ ~(cur' = w /\ pc' # "idle")
  BY <1>1, <1>2, <1>4 DEF UpsertDeployment
<1>5. CASE ~Unseen(w) /\ cur = w /\ cur' = w /\ pc' = pc /\ pc # "idle"
  BY <1>1, <1>2, <1>5 DEF UpsertDeployment
<1>6. CASE /\ ~Unseen(w) /\ cur = w /\ obj = store.webapp[w]
           /\ UpsertDeployment /\ cur' = w /\ pc' = "upsertService"
  BY <1>1, <1>6, DeploymentSupplied DEF Revised
<1>7. CASE ~Unseen(w) /\ cur = w /\ (UpsertService \/ UpsertProxy \/ UpdateIngress)
  BY <1>1, <1>2, <1>7 DEF UpsertDeployment, UpsertService, UpsertProxy, UpdateIngress
<1>. QED
  BY <1>3, <1>4, <1>5, <1>6, <1>7, JobMoves

\* The same of the service.
LEMMA ServiceKept ==
  ASSUME CoreInv, NoticeInv, [Next]_vars,
         NEW w \in Webapps, Live(w)', ~Collect("service", w),
         Live(w) => Owes(w, UntilServed) \/ Served(w)
  PROVE  Owes(w, UntilServed)' \/ Served(w)'
<1>. SUFFICES ASSUME ~Unseen(w)'
              PROVE  Owes(w, UntilServed)' \/ Served(w)'
  BY DEF Owes
<1>1. /\ store'.webapp[w] = store.webapp[w]
      /\ Owes(w, UntilServed) \/ Served(w)
  BY JobMoves DEF Live
<1>2. Served(w) => Served(w)' \/ (UpsertService /\ cur = w)
  BY <1>1, Writers DEF CoreInv, Served
<1>. USE DEF Owes, UntilServed, UntilDeployed, Calls
<1>3. CASE cur' = w /\ (pc' \in UntilDeployed \/ pc' = "upsertService")
  BY <1>3
<1>4. CASE /\ ~Unseen(w)
           /\ ~(cur = w /\ pc # "idle") /\ ~(cur' = w /\ pc' # "idle")
  BY <1>1, <1>2, <1>4 DEF UpsertService
<1>5. CASE ~Unseen(w) /\ cur = w /\ cur' = w /\ pc' = pc /\ pc # "idle"
  BY <1>1, <1>2, <1>5 DEF UpsertService
<1>6. CASE /\ ~Unseen(w) /\ cur = w /\ obj = store.webapp[w]
           /\ UpsertService /\ cur' = w /\ pc' = "upsertProxy"
  BY <1>1, <1>6, ServiceSupplied DEF Served
<1>7. CASE ~Unseen(w) /\ cur = w /\ (UpsertProxy \/ UpdateIngress)
  BY <1>1, <1>2, <1>7 DEF UpsertService, UpsertProxy, UpdateIngress
<1>. QED
  BY <1>3, <1>4, <1>5, <1>6, <1>7, JobMoves

\* No step takes deployment or service away from a Webapp, or changes what they
\* should be, without leaving a notice of it.
LEMMA RunsStep ==
  ASSUME CoreInv, NoticeInv, OwnersMatch, RunsInv, FreshDeploymentRead, [Next]_vars
  PROVE  RunsInv'
<1>. SUFFICES ASSUME NEW w \in Webapps, Live(w)'
              PROVE  /\ Owes(w, UntilDeployed)' \/ Revised(w)'
                     /\ Owes(w, UntilServed)' \/ Served(w)'
  BY DEF RunsInv
<1>1. CASE Unseen(w)'
  BY <1>1 DEF Owes
<1>2. CASE ~Unseen(w)'
  <2>1. Live(w)
    BY <1>2, JobMoves DEF Live
  <2>2. ~Collect("deployment", w) /\ ~Collect("service", w)
    BY <2>1 DEF Collect, Orphaned, OwnersMatch, Live
  <2>. QED
    BY <2>2, DeploymentKept, ServiceKept DEF RunsInv
<1>. QED
  BY <1>1, <1>2

\* Whatever the hash does: when everything has settled, the deployment of each
\* Webapp that exists carries the revision label of its current spec, which is
\* all that upsertDeployment compares (webapp_controller.go:217), and its service
\* carries the spec itself.
RevisedAtRest ==
  AtRest => \A w \in Webapps : Live(w) => Revised(w) /\ Served(w)

\* Hence a Webapp at rest runs the revision that its label names, provided that a
\* name is not used again before the remains of its last Webapp are collected, and
\* that a deployment which upsertDeployment leaves alone (196, 217) is the server's:
\* an outdated one that happens to have the label hides that the current one has
\* not.
THEOREM RevisionsSettle ==
  ASSUME "recreate" \notin UserOps
  PROVE  Spec /\ [][FreshDeploymentRead]_vars => []RevisedAtRest
<1>. DEFINE Inv == NoticeInv /\ OwnersMatch /\ RunsInv
<1>1. Init => Inv
  <2>1. \A kind \in {"webapp", "deployment", "service"}, w \in Webapps :
          NoObjects[kind][w] = None
    BY KindsOfObjects DEF NoObjects
  <2>2. Init => NoticeInv
    BY DEF Init, ClusterInit, NoticeInv, WorksOnNewest, LabelsDiffer, OnlyLaggyLag
  <2>. QED
    BY <2>1, <2>2 DEF Init, ClusterInit, OwnersMatch, RunsInv, Live
<1>2. Inv /\ IInv /\ [Next]_vars /\ [FreshDeploymentRead]_vars => Inv'
  BY NoticeStep, OwnersStep, RunsStep, FreshReads DEF IInv
<1>3. Inv => RevisedAtRest
  BY DEF RunsInv, RevisedAtRest, AtRest, Owes, Unseen, UntilDeployed, UntilServed, Calls
<1>. QED
  BY <1>1, <1>2, <1>3, Inductive, PTL DEF Spec

\* When everything has settled, each Webapp that exists runs as specified, through
\* every order of edits, conflicts, crashes, stale Webapps and collections, under
\* three conditions: no two specs have the same revision label, users let the
\* remains of a Webapp go before they reuse its name, and a deployment that
\* upsertDeployment leaves alone (196, 217) is the server's.
THEOREM RunsSettle ==
  ASSUME \A s, t \in Specs : Hash[s] = Hash[t] => s = t,
         "recreate" \notin UserOps
  PROVE  Spec /\ [][FreshDeploymentRead]_vars => []RunsAtRest
<1>1. IInv /\ RevisedAtRest => RunsAtRest
  <2>. SUFFICES ASSUME IInv, RevisedAtRest, AtRest, NEW w \in Webapps, Live(w)
                PROVE  Deployed(w) /\ Served(w)
    BY DEF RunsAtRest
  <2>1. Revised(w) /\ Served(w)
    BY DEF RevisedAtRest
  <2>2. store.webapp[w].spec \in Specs /\ store.deployment[w].spec \in Specs
    BY <2>1, ObjectsTypes
    DEF IInv, CoreInv, TypeOK, ClusterTypeOK, Live, Revised, WebappObject, OwnedObject
  <2>. QED
    BY <2>1, <2>2 DEF Revised, Deployed
<1>. QED
  BY <1>1, Inductive, RevisionsSettle, PTL

-----------------------------------------------------------------------------
(* Proxy services.                                                         *)

\* After UpsertProxy the proxy service stands for the newest version.
LEMMA ProxySupplied ==
  ASSUME CoreInv, UpsertProxy, pc' = "updateIngress",
         obj = store.webapp[cur], store'.webapp[cur] = store.webapp[cur]
  PROVE  store'.proxy[ProxyName[cur]]
           = [target |-> cur, spec |-> store'.webapp[cur].spec]
<1>. ObjectsOK
  BY DEF CoreInv, TypeOK, ClusterTypeOK, ObjectsOK
<1>1. "proxy" \in Kinds /\ ProxyName[cur] \in Names("proxy")
  BY BusyTypes, KindsOfObjects DEF UpsertProxy, CoreInv
<1>. DEFINE o == [target |-> cur, spec |-> obj.spec]
<1>2. Put("proxy", ProxyName[cur], o)
  BY DEF UpsertProxy, Fails, Retry, Drop
<1>3. store'.proxy[ProxyName[cur]] = o
  <2>. HIDE DEF o
  <2>1. ASSUME NEW p \in Names("proxy"), Put("proxy", p, o)
        PROVE  store'.proxy[p] = o
    BY <1>1, <2>1, PutStore
  <2>. QED
    BY <1>1, <1>2, <2>1
<1>. QED
  BY <1>3

\* Nor does a step leave a Webapp without its proxy service and without a notice.
LEMMA ProxyKept ==
  ASSUME CoreInv, NoticeInv, OwnProxies, [Next]_vars, NEW w \in Webapps, Live(w)',
         Live(w) => Owes(w, UntilProxied) \/ Proxied(w)
  PROVE  Owes(w, UntilProxied)' \/ Proxied(w)'
<1>. SUFFICES ASSUME ~Unseen(w)'
              PROVE  Owes(w, UntilProxied)' \/ Proxied(w)'
  BY DEF Owes
<1>1. /\ store'.webapp[w] = store.webapp[w]
      /\ Owes(w, UntilProxied) \/ Proxied(w)
  BY JobMoves DEF Live
<1>2. Proxied(w) => \/ Proxied(w)'
                    \/ cur = w /\ pc \in {"deleteProxy", "upsertProxy"}
  <2>1. CASE store'.proxy[ProxyName[w]] = store.proxy[ProxyName[w]]
    BY <1>1, <2>1 DEF Proxied
  <2>2. CASE store'.proxy[ProxyName[w]] # store.proxy[ProxyName[w]]
    <3>1. ProxyName[w] = ProxyName[cur] /\ (DeleteProxy \/ UpsertProxy)
      BY <2>2, Writers, ConstantsAssumption DEF CoreInv
    <3>. QED
      BY <3>1, BusyTypes DEF DeleteProxy, UpsertProxy, OwnProxies, CoreInv
  <2>. QED
    BY <2>1, <2>2
<1>. USE DEF Owes, UntilProxied, UntilServed, UntilDeployed, Calls
<1>3. CASE cur' = w /\ pc' \in UntilDeployed
  BY <1>3
<1>4. CASE ~Unseen(w) /\ ~(cur = w /\ pc # "idle") /\ ~(cur' = w /\ pc' # "idle")
  BY <1>1, <1>2, <1>4
<1>5. CASE ~Unseen(w) /\ cur = w /\ cur' = w /\ pc' = pc /\ pc # "idle"
  BY <1>1, <1>2, <1>5
<1>6. CASE cur' = w /\ pc' \in {"upsertService", "upsertProxy"}
  BY <1>6
<1>7. CASE /\ ~Unseen(w) /\ cur = w /\ obj = store.webapp[w]
           /\ UpsertProxy /\ cur' = w /\ pc' = "updateIngress"
  BY <1>1, <1>7, ProxySupplied DEF Proxied
<1>8. CASE ~Unseen(w) /\ cur = w /\ UpdateIngress
  BY <1>1, <1>2, <1>8 DEF UpdateIngress
<1>. QED
  BY <1>3, <1>4, <1>5, <1>6, <1>7, <1>8, JobMoves

\* So every Webapp has its proxy service or a notice.
LEMMA ProxiedStep ==
  ASSUME CoreInv, NoticeInv, ProxiedInv, OwnProxies, [Next]_vars
  PROVE  ProxiedInv'
BY ProxyKept DEF ProxiedInv

-----------------------------------------------------------------------------
(* Routes.                                                                 *)

\* A write of the ingress is what the server has afterwards.
LEMMA PutIngress ==
  ASSUME CoreInv, NEW o, Put("ingress", Global, o)
  PROVE  store'.ingress[Global] = o
<1>1. "ingress" \in Kinds /\ Global \in Names("ingress")
  BY KindsOfObjects
<1>2. ObjectsOK
  BY DEF CoreInv, TypeOK, ClusterTypeOK, ObjectsOK
<1>. QED
  BY <1>1, <1>2, PutStore

\* The rules that updateIngress comes up with have a path for every Webapp it
\* lists, under the host that the Webapp asks for.
LEMMA RulesCover ==
  ASSUME NEW rules \in RuleLists, NEW w \in Listed
  PROVE  \E j \in DOMAIN rules :
           /\ rules[j].host = ListedHost(w)
           /\ \E i \in DOMAIN rules[j].paths : rules[j].paths[i] = PathTo(w)
<1>1. PICK hosts \in SetToSeqs(ListedHosts), groups \in WebappsByHost :
        rules = [j \in DOMAIN hosts |-> RuleFor(hosts[j], groups[hosts[j]])]
  BY DEF RuleLists
<1>2. ListedHost(w) \in ListedHosts /\ w \in Group(ListedHost(w))
  BY DEF ListedHosts, Group
<1>3. PICK j \in DOMAIN hosts : hosts[j] = ListedHost(w)
  BY <1>2, SeqsOfSet, ListedIsFinite
<1>4. groups[hosts[j]] \in SetToSeqs(Group(hosts[j]))
  BY <1>2, <1>3 DEF WebappsByHost
<1>5. PICK i \in DOMAIN groups[hosts[j]] : groups[hosts[j]][i] = w
  BY <1>2, <1>3, <1>4, SeqsOfSet, ListedIsFinite
<1>6. /\ j \in DOMAIN rules
      /\ rules[j] = RuleFor(hosts[j], groups[hosts[j]])
  BY <1>1
<1>7. /\ rules[j].host = ListedHost(w)
      /\ i \in DOMAIN rules[j].paths /\ rules[j].paths[i] = PathTo(w)
  BY <1>3, <1>5, <1>6 DEF RuleFor
<1>. QED
  BY <1>6, <1>7

\* When updateIngress writes the ingress, a Webapp that is not being deleted and
\* whose newest version the cache knows gets its route, whoever is reconciled.
LEMMA RouteSupplied ==
  ASSUME CoreInv, NEW w \in Webapps, Live(w), <<"webapp", w>> \notin stale,
         ~store.webapp[w].deleting, store'.webapp[w] = store.webapp[w],
         NEW rules \in RuleLists, NEW revision \in Hashes,
         Put("ingress", Global, [rules |-> rules, revision |-> revision])
  PROVE  Routed(w)'
<1>. DEFINE ingress == [rules |-> rules, revision |-> revision]
<1>. ObjectsOK
  BY DEF CoreInv, TypeOK, ClusterTypeOK, ObjectsOK
<1>1. cache.webapp[w] = store.webapp[w]
  BY KindsOfObjects DEF CoreInv, CacheInStep, Current
<1>2. store'.ingress[Global] = ingress
  <2>. HIDE DEF ingress
  <2>. QED
    BY PutIngress DEF CoreInv, ingress
<1>3. ingress # None
  <2>1. ingress \in IngressObject
    BY RuleListsTypes DEF CoreInv, TypeOK, IngressObject
  <2>. QED
    BY <2>1, KindsOfObjects, DistinctAssumption
<1>4. ServerRules' = rules
  BY <1>2, <1>3 DEF ServerRules
<1>5. CASE HostOf[store.webapp[w].spec] # None
  <2>1. w \in Listed
    BY <1>1, <1>5 DEF Listed, Live
  <2>2. PICK j \in DOMAIN rules :
           /\ rules[j].host = ListedHost(w)
           /\ \E i \in DOMAIN rules[j].paths : rules[j].paths[i] = PathTo(w)
    BY <2>1, RulesCover
  <2>3. ListedHost(w) = HostOf[store'.webapp[w].spec]
    BY <1>1 DEF ListedHost
  <2>4. PathTo(w) = [backend |-> ProxyName[w], spec |-> store'.webapp[w].spec]
    BY <1>1 DEF PathTo
  <2>. QED
    BY <1>4, <2>2, <2>3, <2>4 DEF Routed, ToSet
<1>6. CASE HostOf[store.webapp[w].spec] = None
  BY <1>6 DEF Routed
<1>. QED
  BY <1>5, <1>6

\* When finalizeWebapp prunes the ingress, the other Webapps keep their routes.
LEMMA RoutesKept ==
  ASSUME CoreInv, HoldsIngress, OwnProxies, PruneIngress,
         NEW w \in Webapps, w # cur, Routed(w), store'.webapp[w] = store.webapp[w]
  PROVE  Routed(w)'
<1>. DEFINE rules  == IngressRulesInMemory
            p      == ProxyName[cur]
            pruned == Pruned(rules, p)
<1>. ObjectsOK
  BY DEF CoreInv, TypeOK, ClusterTypeOK, ObjectsOK
<1>1. cur \in Webapps /\ ProxyName[w] # p
  BY BusyTypes DEF PruneIngress, CoreInv, OwnProxies
<1>2. ing = store.ingress[Global] /\ rules = ServerRules
  BY DEF PruneIngress, HoldsIngress, IngressRulesInMemory, ServerRules
<1>3. CASE store'.ingress[Global] = store.ingress[Global]
  BY <1>3 DEF Routed, ServerRules
<1>4. CASE HostOf[store.webapp[w].spec] = None
  BY <1>4 DEF Routed
<1>5. CASE HostOf[store.webapp[w].spec] # None
  <2>1. PICK j \in DOMAIN rules :
           /\ rules[j].host = HostOf[store.webapp[w].spec]
           /\ \E i \in DOMAIN rules[j].paths :
                rules[j].paths[i]
                  = [backend |-> ProxyName[w], spec |-> store.webapp[w].spec]
    BY <1>2, <1>5 DEF Routed, ToSet
  <2>2. PICK i \in DOMAIN rules[j].paths :
          rules[j].paths[i]
            = [backend |-> ProxyName[w], spec |-> store.webapp[w].spec]
    BY <2>1
  <2>3. rules \in Seq(Rule)
    BY EmptySeq DEF IngressRulesInMemory, CoreInv, TypeOK, IngressObject
  <2>4. /\ j \in DOMAIN pruned
        /\ pruned[j].host = rules[j].host
        /\ i \in DOMAIN pruned[j].paths
        /\ pruned[j].paths[i] = rules[j].paths[i]
    <3>1. rules[j].paths[i].backend # p
      BY <1>1, <2>2
    <3>2. rules \in Seq([host : Hosts, paths : Seq(Path)])
      BY <2>3 DEF Rule
    <3>3. Keeps(pruned, rules, j, i)
      <4>. HIDE DEF rules, p
      <4>. QED
        BY <3>1, <3>2, PrunedKeeps
    <3>. QED
      BY <3>3 DEF Keeps
  <2>5. CASE Put("ingress", Global, [ing EXCEPT !.rules = pruned]) /\ pruned # << >>
    <3>. DEFINE ingress == [ing EXCEPT !.rules = pruned]
    <3>1. ing # None
      BY <1>2, <2>1, EmptySeq DEF IngressRulesInMemory
    <3>2. ingress \in IngressObject /\ ingress.rules = pruned
      BY <2>3, <3>1, PrunedTypes DEF CoreInv, TypeOK, IngressObject, Rule
    <3>3. ingress # None
      BY <3>2, KindsOfObjects, DistinctAssumption
    <3>4. store'.ingress[Global] = ingress
      <4>. HIDE DEF ingress
      <4>. QED
        BY <2>5, PutIngress DEF CoreInv, ingress
    <3>5. ServerRules' = pruned
      BY <3>2, <3>3, <3>4 DEF ServerRules
    <3>. QED
      BY <2>1, <2>2, <2>4, <3>5 DEF Routed, ToSet
  <2>6. pruned # << >>
    BY <2>4
  <2>7. CASE Fails
    BY <1>3, <2>7 DEF Fails, Unwritten
  <2>. QED
    BY <2>5, <2>6, <2>7 DEF PruneIngress
<1>. QED
  BY <1>4, <1>5

\* A reconcile has the ingress in memory as it is, from reading it as it is to
\* writing it: no one else writes it.
LEMMA HoldsIngressStep ==
  ASSUME CoreInv, HoldsIngress, FreshIngressRead, [Next]_vars
  PROVE  HoldsIngress'
<1>. DEFINE Holds == {"deleteProxy", "pruneIngress"} \cup Upserts
<1>1. CASE ReadIngress
  <2>1. cache.ingress[Global] = store.ingress[Global]
    BY <1>1, KindsOfObjects DEF FreshIngressRead, CoreInv, CacheInStep
  <2>. QED
    BY <1>1, <2>1 DEF ReadIngress, Unwritten, HoldsIngress
<1>2. CASE \/ DeleteProxy \/ UpsertDeployment \/ UpsertService \/ UpsertProxy
  <2>1. store'.ingress[Global] = store.ingress[Global]
    BY <1>2, Writers
    DEF CoreInv, DeleteProxy, UpsertDeployment, UpsertService, UpsertProxy,
        PruneIngress, UpdateIngress
  <2>2. pc \in Holds /\ (pc' = "idle" \/ ing' = ing)
    BY <1>2
    DEF DeleteProxy, UpsertDeployment, UpsertService, UpsertProxy, Fails, Retry,
        Drop, Upserts
  <2>. QED
    BY <2>1, <2>2 DEF HoldsIngress, Upserts
<1>3. CASE \/ UpdateLabels \/ AddFinalizer \/ CreateNamespace \/ PruneIngress
           \/ RemoveFinalizer \/ UpdateIngress \/ CallFails \/ Restart
           \/ \E w \in Webapps : GetNothing(w) \/ Get(w)
  <2>1. pc' \notin Holds
    BY <1>3
    DEF UpdateLabels, AddFinalizer, CreateNamespace, PruneIngress, RemoveFinalizer,
        UpdateIngress, CallFails, Restart, GetNothing, Get, FirstCall, Go, Fails,
        Retry, Done, Drop, Upserts, jobVars
  <2>. QED
    BY <2>1 DEF HoldsIngress, Upserts
<1>4. CASE Resync \/ ClusterStep \/ UNCHANGED vars
  <2>1. pc' = pc /\ ing' = ing
    BY <1>4 DEF Resync, ClusterStep, vars, jobVars
  <2>2. pc \in Holds => store'.ingress[Global] = store.ingress[Global]
    <3>1. CASE UNCHANGED store
      BY <3>1
    <3>2. CASE ClusterStep
      <4>. ObjectsOK
        BY DEF CoreInv, TypeOK, ClusterTypeOK, ObjectsOK
      <4>1. ASSUME NEW kind \in {"webapp", "deployment", "service"},
                   NEW w \in Webapps, NEW o, Put(kind, w, o)
            PROVE  store'.ingress[Global] = store.ingress[Global]
        <5>1. kind \in Kinds /\ w \in Names(kind) /\ "ingress" \in Kinds \ {kind}
          BY <4>1, KindsOfObjects
        <5>. QED
          BY <4>1, <5>1, PutStore
      <4>2. UserStep => store'.ingress[Global] = store.ingress[Global]
        BY <4>1 DEF UserStep, UserCreate, UserEdit, UserDelete, UserWrites
      <4>3. \A kind \in {"deployment", "service"}, w \in Webapps :
              Collect(kind, w) => store'.ingress[Global] = store.ingress[Global]
        BY <4>1 DEF Collect
      <4>. QED
        BY <3>2, <4>2, <4>3 DEF ClusterStep, Deliver
    <3>. QED
      BY <1>4, <3>1, <3>2 DEF Resync, vars, clusterVars
  <2>. QED
    BY <2>1, <2>2 DEF HoldsIngress, Upserts
<1>. QED
  BY <1>1, <1>2, <1>3, <1>4 DEF Next, ReconcileStep

\* What UpdateIngress does when it does not fail.
LEMMA UpdateIngressWrites ==
  ASSUME CoreInv, HoldsIngress, UpdateIngress
  PROVE  \/ Fails
         \/ \E rules \in RuleLists, revision \in Hashes :
              Put("ingress", Global, [rules |-> rules, revision |-> revision])
<1>1. /\ pc = "updateIngress" /\ pc \in Upserts
      /\ Hash[obj.spec] \in Hashes
  BY BusyTypes DEF UpdateIngress, Upserts, CoreInv
<1>2. ing = None => Creatable("ingress", Global)
  BY <1>1 DEF HoldsIngress, Creatable
<1>. QED
  BY <1>1, <1>2 DEF UpdateIngress

\* A route does not change unless the ingress or the Webapp does.
LEMMA RouteStays ==
  ASSUME NEW w, Routed(w), store'.webapp[w] = store.webapp[w],
         store'.ingress[Global] = store.ingress[Global]
  PROVE  Routed(w)'
BY DEF Routed, ServerRules

\* A Webapp that nobody owes a route keeps it, if no finalization of another takes
\* it away, and if updateIngress does write its rules when it ends well.
LEMMA RouteKept ==
  ASSUME CoreInv, NoticeInv, [Next]_vars, NEW w \in Webapps, Live(w)',
         PruneIngress /\ w # cur /\ Routed(w) /\ store'.webapp[w] = store.webapp[w]
           => Routed(w)',
         UpdateIngress =>
           \/ Fails
           \/ \E rules \in RuleLists, revision \in Hashes :
                Put("ingress", Global, [rules |-> rules, revision |-> revision]),
         Live(w) => Owes(w, UntilRouted) \/ (Routed(w) /\ ~store.webapp[w].deleting)
  PROVE  Owes(w, UntilRouted)' \/ (Routed(w)' /\ ~store'.webapp[w].deleting)
<1>. SUFFICES ASSUME ~Unseen(w)'
              PROVE  \/ Owes(w, UntilRouted)'
                     \/ Routed(w)' /\ ~store'.webapp[w].deleting
  BY DEF Owes
<1>1. /\ store'.webapp[w] = store.webapp[w] /\ Live(w)
      /\ Owes(w, UntilRouted) \/ (Routed(w) /\ ~store.webapp[w].deleting)
  BY JobMoves DEF Live
<1>. USE DEF Owes, UntilRouted, UntilProxied, UntilServed, UntilDeployed, Calls
<1>2. CASE cur' = w /\ pc' \in UntilDeployed
  BY <1>2
<1>3. CASE ~Unseen(w) /\ ~(cur = w /\ pc # "idle") /\ ~(cur' = w /\ pc' # "idle")
  <2>1. Routed(w) /\ ~store.webapp[w].deleting
    BY <1>1, <1>3
  <2>2. CASE store'.ingress[Global] = store.ingress[Global]
    BY <1>1, <2>1, <2>2, RouteStays
  <2>3. CASE PruneIngress
    <3>1. w # cur
      BY <1>3, <2>3 DEF PruneIngress
    <3>. QED
      BY <1>1, <2>1, <2>3, <3>1
  <2>4. CASE UpdateIngress /\ store'.ingress[Global] # store.ingress[Global]
    <3>1. PICK rules \in RuleLists, revision \in Hashes :
            Put("ingress", Global, [rules |-> rules, revision |-> revision])
      BY <2>4 DEF Fails, Unwritten
    <3>2. <<"webapp", w>> \notin stale
      BY <1>3 DEF Unseen
    <3>. QED
      BY <1>1, <2>1, <3>1, <3>2, RouteSupplied
  <2>. QED
    BY <2>2, <2>3, <2>4, Writers DEF CoreInv
<1>4. CASE /\ ~Unseen(w) /\ cur = w /\ obj = store.webapp[w]
           /\ UpdateIngress /\ Done /\ pc' = "idle"
  <2>1. ~Fails
    BY <1>4 DEF Fails, Retry, Unseen
  <2>2. PICK rules \in RuleLists, revision \in Hashes :
          Put("ingress", Global, [rules |-> rules, revision |-> revision])
    BY <1>4, <2>1
  <2>3. <<"webapp", w>> \notin stale
    BY <1>4 DEF Unseen
  <2>4. ~store.webapp[w].deleting
    BY <1>4 DEF UpdateIngress, Upserts, CoreInv, JobOK
  <2>. QED
    BY <1>1, <2>2, <2>3, <2>4, RouteSupplied
<1>5. CASE cur' = w /\ pc' # "idle" /\ pc' \in Calls
  BY <1>5
<1>6. pc \in Calls
  BY DEF CoreInv, TypeOK
<1>. QED
  BY <1>2, <1>3, <1>4, <1>5, <1>6, JobMoves

\* With one manager both conditions hold: it works on the ingress as it is.
LEMMA RoutedStep ==
  ASSUME CoreInv, NoticeInv, HoldsIngress, RoutedInv, OwnProxies, [Next]_vars
  PROVE  RoutedInv'
BY RouteKept, RoutesKept, UpdateIngressWrites DEF RoutedInv

ReachInv == NoticeInv /\ ProxiedInv /\ HoldsIngress /\ RoutedInv

\* Without Webapps nothing is owed, and no reconcile holds an ingress.
LEMMA ReachInit == Init => ReachInv
<1>1. \A w \in Webapps : NoObjects.webapp[w] = None
  BY KindsOfObjects DEF NoObjects
<1>. QED
  BY <1>1
  DEF Init, ClusterInit, ReachInv, NoticeInv, WorksOnNewest, LabelsDiffer, OnlyLaggyLag,
      ProxiedInv, HoldsIngress, RoutedInv, Live, Upserts

\* No step forgets a proxy service or a route that is missing.
LEMMA ReachStep ==
  ASSUME CoreInv, ReachInv, OwnProxies, FreshIngressRead, [Next]_vars
  PROVE  ReachInv'
BY NoticeStep, ProxiedStep, HoldsIngressStep, RoutedStep DEF ReachInv

\* When nothing waits for a reconcile, nothing is missing.
LEMMA ReachSuffices == ReachInv => ReachableAtRest
BY DEF ReachInv, ProxiedInv, RoutedInv, ReachableAtRest, AtRest, Owes, Unseen,
       UntilProxied, UntilRouted, UntilServed, UntilDeployed, Calls

\* When everything has settled, each Webapp that exists is reachable through a
\* proxy service and the global ingress, whatever users do, and however many
\* reconciles fail, panic or are refused, as long as Webapps have proxy services of
\* their own and every reconcile that reads the ingress (createIngress, line 411)
\* reads the server's.  The last condition is needed: a reconcile that finds no
\* ingress where there is one drops its routes with line 150, as run lost_route
\* shows.
THEOREM ReachSettles ==
  ASSUME OwnProxies
  PROVE  Spec /\ [][FreshIngressRead]_vars => []ReachableAtRest
<1>1. IInv /\ ReachInv /\ [Next]_vars /\ [FreshIngressRead]_vars => ReachInv'
  BY ReachStep, FreshReads DEF IInv
<1>. QED
  BY <1>1, ReachInit, ReachSuffices, Inductive, PTL DEF Spec

\* The whole of ConvergenceInv, which the run converge checks, holds initially...
LEMMA ConvergenceInit == Init => ConvergenceInv
<1>1. \A kind \in {"webapp", "deployment", "service"}, w \in Webapps :
        NoObjects[kind][w] = None
  BY KindsOfObjects DEF NoObjects
<1>2. Init => OwnersMatch /\ RunsInv
  BY <1>1 DEF Init, ClusterInit, OwnersMatch, RunsInv, Live
<1>. QED
  BY <1>2, ReachInit DEF ReachInv, ConvergenceInv

\* ...and survives every step: each part rests on NoticeInv and on no other part
\* than the one named in its own lemma.
LEMMA ConvergenceStep ==
  ASSUME IInv, ConvergenceInv, OwnProxies, "recreate" \notin UserOps,
         FreshDeploymentRead, FreshIngressRead, [Next]_vars
  PROVE  ConvergenceInv'
<1>1. CoreInv
  BY DEF IInv
<1>2. ReachInv'
  BY <1>1, ReachStep DEF ConvergenceInv, ReachInv
<1>3. OwnersMatch'
  BY OwnersStep DEF ConvergenceInv
<1>4. RunsInv'
  BY <1>1, RunsStep DEF ConvergenceInv
<1>. QED
  BY <1>2, <1>3, <1>4 DEF ReachInv, ConvergenceInv

\* Whatever a Webapp lacks, its deployment, its service, its proxy service or its
\* route, at every moment someone is on the way to supply it: an event to be
\* delivered, a key in the queue, or the reconcile under way, which has the newest
\* version and the newest ingress in memory.  Where this holds the controller needs
\* neither a resync nor a second look at what it wrote (Reconcile,
\* webapp_controller.go:73-154, passes over the calls once and returns).  It holds
\* on conditions that the code does not see to: Webapps have proxy services of
\* their own, a name is not reused before the remains of its last Webapp are
\* collected, and what two reads through the cache return is the server's, that of
\* the ingress (411) and that of a deployment left alone (196).  Run lost_route shows
\* what happens where the ingress that is read is outdated.
THEOREM ConvergenceHolds ==
  ASSUME OwnProxies, "recreate" \notin UserOps
  PROVE  Spec /\ [][FreshIngressRead]_vars /\ [][FreshDeploymentRead]_vars
           => []ConvergenceInv
<1>1. /\ IInv /\ ConvergenceInv /\ [Next]_vars
      /\ [FreshIngressRead]_vars /\ [FreshDeploymentRead]_vars
      => ConvergenceInv'
  BY ConvergenceStep, FreshReads
<1>. QED
  BY <1>1, ConvergenceInit, Inductive, PTL DEF Spec

-----------------------------------------------------------------------------
(* The shape of the ingress.                                               *)

\* The rules that updateIngress comes up with have one rule per host, each with
\* the path of the Webapp that its host is there for.
LEMMA RuleListsWellFormed ==
  ASSUME NEW rules \in RuleLists
  PROVE  WellFormed(rules)
<1>1. PICK hosts \in SetToSeqs(ListedHosts), groups \in WebappsByHost :
        rules = [j \in DOMAIN hosts |-> RuleFor(hosts[j], groups[hosts[j]])]
  BY DEF RuleLists
<1>2. /\ \A j \in DOMAIN hosts : hosts[j] \in ListedHosts
      /\ \A j, k \in DOMAIN hosts : hosts[j] = hosts[k] => j = k
  BY SeqsOfSet, ListedIsFinite
<1>3. /\ DOMAIN rules = DOMAIN hosts
      /\ \A j \in DOMAIN hosts : rules[j] = RuleFor(hosts[j], groups[hosts[j]])
  BY <1>1
<1>4. ASSUME NEW j \in DOMAIN rules
      PROVE  rules[j].paths # << >>
  <2>1. hosts[j] \in ListedHosts
    BY <1>2, <1>3
  <2>2. PICK w \in Listed : hosts[j] = ListedHost(w)
    BY <2>1 DEF ListedHosts
  <2>3. w \in Group(hosts[j])
    BY <2>2 DEF Group
  <2>4. groups[hosts[j]] \in SetToSeqs(Group(hosts[j]))
    BY <2>1 DEF WebappsByHost
  <2>5. PICK i \in DOMAIN groups[hosts[j]] : groups[hosts[j]][i] = w
    BY <2>3, <2>4, SeqsOfSet, ListedIsFinite
  <2>6. i \in DOMAIN rules[j].paths
    BY <1>3, <2>5 DEF RuleFor
  <2>7. DOMAIN << >> = {}
    OBVIOUS
  <2>. QED
    BY <2>6, <2>7
<1>5. \A j, k \in DOMAIN rules : rules[j].host = rules[k].host => j = k
  BY <1>2, <1>3 DEF RuleFor
<1>. QED
  BY <1>4, <1>5 DEF WellFormed

\* What a reconcile writes as the ingress is nothing or in shape: updateIngress
\* because the server refuses an ingress without rules, finalizeWebapp because
\* it starts from an ingress in shape and deletes one it has emptied.
LEMMA IngressWrites ==
  ASSUME CoreInv, Shaped(ing), PruneIngress \/ UpdateIngress
  PROVE  \/ Unwritten
         \/ \E o : Put("ingress", Global, o) /\ Shaped(o)
<1>1. CASE Fails
  BY <1>1 DEF Fails
<1>2. ASSUME NEW rules \in RuleLists, NEW revision, ValidRules(rules)
      PROVE  Shaped([rules |-> rules, revision |-> revision])
  BY <1>2, RuleListsWellFormed DEF ValidRules, Shaped
<1>3. CASE UpdateIngress /\ ~Fails
  BY <1>2, <1>3 DEF UpdateIngress
<1>4. CASE PruneIngress /\ ~Fails
  <2>. DEFINE rules  == IngressRulesInMemory
              pruned == Pruned(rules, ProxyName[cur])
              o      == [ing EXCEPT !.rules = pruned]
  <2>1. ~PrunePanics(rules, ProxyName[cur])
    BY <1>4 DEF PruneIngress
  <2>2. CASE Put("ingress", Global, None)
    BY <2>2 DEF Shaped
  <2>3. CASE pruned # << >> /\ Put("ingress", Global, o)
    <3>1. rules \in Seq([host : Hosts, paths : Seq(Path)])
      BY EmptySeq DEF IngressRulesInMemory, CoreInv, TypeOK, IngressObject, Rule
    <3>2. WellFormed(rules)
      <4>1. DOMAIN << >> = {}
        OBVIOUS
      <4>. QED
        BY <4>1 DEF IngressRulesInMemory, Shaped, WellFormed
    <3>3. WellFormed(pruned)
      <4>. HIDE DEF rules
      <4>. QED
        BY <2>1, <3>1, <3>2, PrunedWellFormed
    <3>4. CASE ing = None
      <4>1. pruned = << >>
        BY <3>4, EmptySeq DEF IngressRulesInMemory, Pruned
      <4>. QED
        BY <2>3, <4>1
    <3>5. CASE ing # None
      <4>1. o.rules = pruned
        BY <3>5 DEF CoreInv, TypeOK, IngressObject
      <4>. QED
        BY <2>3, <3>3, <4>1 DEF Shaped
    <3>. QED
      BY <3>4, <3>5
  <2>. QED
    BY <1>4, <2>2, <2>3 DEF PruneIngress
<1>. QED
  BY <1>1, <1>3, <1>4

\* The server and the cache keep the ingress they have, unless one of the two
\* calls writes it; and an informer takes over what the server has.
LEMMA IngressStays ==
  ASSUME CoreInv, [Next]_vars, ~(PruneIngress \/ UpdateIngress)
  PROVE  /\ store'.ingress[Global] = store.ingress[Global]
         /\ cache'.ingress[Global] \in {store.ingress[Global], cache.ingress[Global]}
<1>. DEFINE Stays ==
              cache'.ingress[Global] \in {store.ingress[Global], cache.ingress[Global]}
<1>. SUFFICES Stays
  BY Writers
<1>. ObjectsOK
  BY DEF CoreInv, TypeOK, ClusterTypeOK, ObjectsOK
<1>1. ASSUME NEW kind \in Kinds \ {"ingress"}, NEW name \in Names(kind), NEW o,
             Put(kind, name, o)
      PROVE  Stays
  <2>1. "ingress" \in Kinds \ {kind}
    BY KindsOfObjects
  <2>2. cache'.ingress = cache.ingress
    BY <1>1, <2>1, PutStore
  <2>. QED
    BY <2>2
<1>2. ASSUME Unwritten \/ Fails \/ cache' = cache
      PROVE  Stays
  BY <1>2 DEF Unwritten, Fails
<1>3. pc # "idle" => /\ cur \in Names("webapp") /\ cur \in Names("deployment")
                    /\ cur \in Names("service") /\ ProxyName[cur] \in Names("proxy")
  BY BusyTypes, KindsOfObjects DEF CoreInv
<1>4. /\ Global \in Names("namespace")
      /\ {"webapp", "deployment", "service", "proxy", "namespace"}
           \subseteq Kinds \ {"ingress"}
  BY KindsOfObjects
<1>. HIDE DEF Stays
<1>5. CASE UpdateLabels \/ AddFinalizer \/ RemoveFinalizer
  BY <1>1, <1>2, <1>3, <1>4, <1>5 DEF UpdateLabels, AddFinalizer, RemoveFinalizer
<1>6. CASE CreateNamespace \/ ReadIngress
  BY <1>1, <1>2, <1>4, <1>6 DEF CreateNamespace, ReadIngress
<1>7. CASE DeleteProxy \/ UpsertProxy
  BY <1>1, <1>2, <1>3, <1>4, <1>7 DEF DeleteProxy, UpsertProxy
<1>8. CASE UpsertDeployment
  BY <1>1, <1>2, <1>3, <1>4, <1>8 DEF UpsertDeployment
<1>9. CASE UpsertService
  BY <1>1, <1>2, <1>3, <1>4, <1>9 DEF UpsertService
<1>10. CASE UserStep
  <2>1. \E w \in Webapps : \E o : Put("webapp", w, o)
    BY <1>10 DEF UserStep, UserCreate, UserEdit, UserDelete, UserWrites
  <2>. QED
    BY <1>1, <1>4, <2>1, KindsOfObjects
<1>11. ASSUME NEW kind \in {"deployment", "service"}, NEW w \in Webapps,
              Collect(kind, w)
       PROVE  Stays
  <2>1. Put(kind, w, None) /\ w \in Names(kind)
    BY <1>11, KindsOfObjects DEF Collect
  <2>. QED
    BY <1>1, <1>4, <2>1
<1>12. ASSUME NEW kind \in Kinds, NEW name \in Names(kind), Deliver(kind, name)
       PROVE  Stays
  <2>1. /\ cache = [k \in Kinds |-> cache[k]]
        /\ cache.ingress = [n \in {Global} |-> cache.ingress[n]]
    BY KindsOfObjects DEF ObjectsOK, AreObjects, Table
  <2>2. cache' = [cache EXCEPT ![kind][name] = store[kind][name]]
    BY <1>12 DEF Deliver
  <2>3. CASE kind = "ingress"
    <3>1. name = Global
      BY <2>3, KindsOfObjects
    <3>2. cache'.ingress[Global] = store.ingress[Global]
      BY <2>1, <2>2, <2>3, <3>1
    <3>. QED
      BY <3>2 DEF Stays
  <2>4. CASE kind # "ingress"
    <3>1. cache'.ingress = cache.ingress
      BY <2>1, <2>2, <2>4, KindsOfObjects
    <3>. QED
      BY <3>1 DEF Stays
  <2>. QED
    BY <2>3, <2>4
<1>13. CASE Restart
  BY <1>13 DEF Restart, Stays
<1>14. CASE \/ \E w \in Webapps : GetNothing(w) \/ Get(w)
            \/ CallFails \/ Resync \/ UNCHANGED vars
  BY <1>2, <1>14 DEF GetNothing, Get, CallFails, Resync, vars, clusterVars
<1>15. ReconcileStep => Stays
  BY <1>5, <1>6, <1>7, <1>8, <1>9 DEF ReconcileStep
<1>16. ClusterStep => Stays
  BY <1>10, <1>11, <1>12 DEF ClusterStep
<1>. QED
  BY <1>13, <1>14, <1>15, <1>16 DEF Next

\* An ingress in memory is the one it was or was read from the cache.
LEMMA IngressInMemory ==
  ASSUME [Next]_vars
  PROVE  ing' \in {ing, cache.ingress[Global], None}
<1>1. CASE ReconcileStep
  BY <1>1
  DEF ReconcileStep, UpdateLabels, AddFinalizer, CreateNamespace, ReadIngress,
      DeleteProxy, PruneIngress, RemoveFinalizer, UpsertDeployment, UpsertService,
      UpsertProxy, UpdateIngress, Fails, Retry, Done, Drop
<1>2. CASE ~ReconcileStep
  BY <1>2
  DEF Next, GetNothing, Get, CallFails, Restart, Drop, Resync, ClusterStep, vars,
      jobVars
<1>. QED
  BY <1>1, <1>2

\* Writing an ingress in shape leaves every copy in shape.
LEMMA PutKeepsShape ==
  ASSUME CoreInv, ShapeInv, NEW o, Put("ingress", Global, o), Shaped(o), Shaped(ing)'
  PROVE  ShapeInv'
<1>1. store'.ingress[Global] = o
  BY PutIngress
<1>2. cache'.ingress[Global] \in {o, cache.ingress[Global]}
  <2>1. /\ cache = [k \in Kinds |-> cache[k]] /\ "ingress" \in Kinds
        /\ cache.ingress = [n \in {Global} |-> cache.ingress[n]]
    BY KindsOfObjects DEF CoreInv, TypeOK, ClusterTypeOK, AreObjects, Table
  <2>2. cache' = cache \/ cache' = [cache EXCEPT !["ingress"][Global] = o]
    BY DEF Put, Unwritten
  <2>. QED
    BY <2>1, <2>2
<1>. QED
  BY <1>1, <1>2 DEF ShapeInv, Shaped

\* No step brings the ingress out of shape, wherever it is kept.
LEMMA ShapeStep ==
  ASSUME CoreInv, ShapeInv, [Next]_vars
  PROVE  ShapeInv'
<1>1. Shaped(ing)'
  BY IngressInMemory DEF ShapeInv, Shaped
<1>2. CASE ~(PruneIngress \/ UpdateIngress)
  BY <1>1, <1>2, IngressStays DEF ShapeInv, Shaped
<1>3. ASSUME NEW o, Put("ingress", Global, o), Shaped(o)
      PROVE  ShapeInv'
  BY <1>1, <1>3, PutKeepsShape
<1>4. CASE Unwritten
  BY <1>1, <1>4 DEF ShapeInv, Shaped, Unwritten
<1>. QED
  BY <1>2, <1>3, <1>4, IngressWrites DEF ShapeInv

\* At the start there is no ingress.
LEMMA ShapeInit == Init => ShapeInv
<1>1. NoObjects.ingress[Global] = None
  BY KindsOfObjects DEF NoObjects
<1>. QED
  BY <1>1 DEF Init, ClusterInit, ShapeInv, Shaped

\* Shape is what IngressWellFormed asks of the ingress at the server.
LEMMA ShapeSuffices == ShapeInv => IngressWellFormed
<1>1. DOMAIN << >> = {}
  OBVIOUS
<1>. QED
  BY <1>1 DEF ShapeInv, Shaped, IngressWellFormed, ServerRules, WellFormed

\* The global ingress always has one rule per host and a path in every rule: the
\* shape that finalizeWebapp's index arithmetic relies on, whatever users do,
\* however late the informers are, and whatever fails.
THEOREM IngressStaysWellFormed == Spec => []IngressWellFormed
<1>1. IInv /\ ShapeInv /\ [Next]_vars => ShapeInv'
  BY ShapeStep DEF IInv
<1>. QED
  BY <1>1, ShapeInit, ShapeSuffices, Inductive, PTL DEF Spec

\* The shape survives the writes of another manager, if what it writes has it.
LEMMA WatchKeepsShape ==
  ASSUME ShapeInv, WatchesWrites, Shaped(store'.ingress[Global])
  PROVE  ShapeInv'
<1>1. ing' = ing /\ cache'.ingress \in {cache.ingress, store'.ingress}
  BY KindsOfObjects DEF WatchesWrites, jobVars
<1>. QED
  BY <1>1 DEF ShapeInv, Shaped

\* And a reconcile that fails.
LEMMA FailKeepsShape ==
  ASSUME ShapeInv, Fails
  PROVE  ShapeInv'
BY DEF ShapeInv, Shaped, Fails, Unwritten, Retry, Drop

-----------------------------------------------------------------------------
(* Notices and routes with another manager at work.                        *)

\* What someone else writes of a Webapp will be noticed, and what is owed stays so.
LEMMA WatchedOwes ==
  ASSUME WatchesWrites \/ UNCHANGED vars
  PROVE  /\ \A w \in Webapps : store'.webapp[w] # store.webapp[w] => Unseen(w)'
         /\ \A w, calls : Owes(w, calls) => Owes(w, calls)'
<1>1. \A w \in Webapps : <<"webapp", w>> \in Keys
  BY KindsOfObjects DEF Keys
<1>2. "webapp" \in Laggy
  BY DistinctAssumption
<1>3. \A w \in Webapps : store'.webapp[w] # store.webapp[w] => <<"webapp", w>> \in stale'
  BY <1>1, <1>2 DEF WatchesWrites, vars, clusterVars
<1>4. /\ stale \subseteq stale' /\ queue' = queue /\ pc' = pc /\ cur' = cur
  BY DEF WatchesWrites, vars, clusterVars, jobVars
<1>5. ASSUME NEW w, NEW calls, Owes(w, calls)
      PROVE  Owes(w, calls)'
  BY <1>4, <1>5 DEF Owes, Unseen
<1>. QED
  BY <1>3, <1>5 DEF Unseen

\* So the notices remain complete...
LEMMA WatchedNotices ==
  ASSUME CoreInv, NoticeInv, WatchesWrites \/ UNCHANGED vars
  PROVE  NoticeInv'
<1>1. /\ stale \subseteq stale' /\ queue' = queue
      /\ pc' = pc /\ cur' = cur /\ obj' = obj
      /\ \A k \in stale' : k \in stale \/ k[1] \in Laggy
  BY DEF WatchesWrites, vars, clusterVars, jobVars
<1>2. WorksOnNewest'
  <2>. SUFFICES ASSUME pc' # "idle", ~Unseen(cur)'
                PROVE  obj' = store'.webapp[cur']
    BY DEF WorksOnNewest
  <2>1. cur \in Webapps
    BY <1>1, BusyTypes DEF CoreInv
  <2>2. PICK w \in Webapps : w = cur
    BY <2>1
  <2>3. ~Unseen(w)'
    BY <1>1, <2>2
  <2>4. store'.webapp[w] = store.webapp[w]
    BY <2>3, WatchedOwes
  <2>5. obj = store.webapp[cur]
    BY <1>1 DEF NoticeInv, WorksOnNewest, Unseen
  <2>. QED
    BY <1>1, <2>2, <2>4, <2>5
<1>3. LabelsDiffer'
  BY <1>1 DEF NoticeInv, LabelsDiffer
<1>4. OnlyLaggyLag'
  BY <1>1 DEF NoticeInv, OnlyLaggyLag
<1>. QED
  BY <1>2, <1>3, <1>4 DEF NoticeInv

\* ...also when a write of this manager is refused because the other one was first.
LEMMA FailedNotices ==
  ASSUME Fails
  PROVE  /\ NoticeInv => NoticeInv'
         /\ \A w, calls : Owes(w, calls) => Owes(w, calls)'
         /\ store' = store /\ pc' = "idle"
<1>1. /\ stale' = stale /\ store' = store /\ pc' = "idle"
      /\ queue' = queue \cup {cur}
  BY DEF Fails, Unwritten, Retry, Drop
<1>2. NoticeInv => NoticeInv'
  BY <1>1 DEF NoticeInv, WorksOnNewest, LabelsDiffer, OnlyLaggyLag
<1>3. ASSUME NEW w, NEW calls, Owes(w, calls)
      PROVE  Owes(w, calls)'
  BY <1>1, <1>3 DEF Owes, Unseen
<1>. QED
  BY <1>1, <1>2, <1>3

\* A reconcile that found no ingress, and is about to create one that the other
\* manager has created meanwhile: IgnoreAlreadyExists will make it a success.
Late == pc \in Upserts /\ ing = None /\ store.ingress[Global] # None

\* A late reconcile writes no ingress...
LEMMA LateBlocks ==
  ASSUME CoreInv, [Next]_vars, Late
  PROVE  store'.ingress[Global] = store.ingress[Global]
<1>1. ~PruneIngress
  BY DEF Late, PruneIngress, Upserts
<1>2. UpdateIngress => UNCHANGED store
  BY DEF Late, UpdateIngress, Creatable, Fails, Unwritten
<1>. QED
  BY <1>1, <1>2, Writers

\* ...and none becomes late by what it does itself.
LEMMA LateLasts ==
  ASSUME CoreInv, FreshIngressRead, [Next]_vars, Late'
  PROVE  Late
<1>1. /\ UpdateIngress => pc' = "idle"
      /\ PruneIngress => pc' \in {"idle", "removeFinalizer"}
  BY DEF UpdateIngress, PruneIngress, Fails, Retry, Done, Drop, Go
<1>2. store'.ingress[Global] = store.ingress[Global]
  BY <1>1, Writers DEF Late, Upserts
<1>3. CASE ReadIngress
  <2>1. cache.ingress[Global] = store.ingress[Global]
    BY <1>3, KindsOfObjects DEF FreshIngressRead, CoreInv, CacheInStep
  <2>. QED
    BY <1>2, <1>3, <2>1 DEF ReadIngress, Late
<1>4. CASE DeleteProxy \/ UpsertDeployment \/ UpsertService \/ UpsertProxy
  BY <1>2, <1>4
  DEF DeleteProxy, UpsertDeployment, UpsertService, UpsertProxy, Fails, Retry, Drop,
      Go, Late, Upserts
<1>5. CASE \/ UpdateLabels \/ AddFinalizer \/ CreateNamespace \/ PruneIngress
           \/ RemoveFinalizer \/ UpdateIngress \/ CallFails \/ Restart
           \/ \E w \in Webapps : GetNothing(w) \/ Get(w)
  BY <1>5
  DEF UpdateLabels, AddFinalizer, CreateNamespace, PruneIngress, RemoveFinalizer,
      UpdateIngress, CallFails, Restart, GetNothing, Get, FirstCall, Go, Fails,
      Retry, Done, Drop, Late, Upserts, jobVars
<1>6. CASE Resync \/ ClusterStep \/ UNCHANGED vars
  BY <1>2, <1>6 DEF Resync, ClusterStep, vars, jobVars, Late
<1>. QED
  BY <1>3, <1>4, <1>5, <1>6 DEF Next, ReconcileStep

\* Who creates the ingress routes all Webapps it knows of; of the others it has yet
\* to be told.
LEMMA FirstIngress ==
  ASSUME CoreInv, [Next]_vars, ~PruneIngress,
         store.ingress[Global] = None, store'.ingress[Global] # None
  PROVE  /\ pc' = "idle"
         /\ \A w \in Webapps : Live(w)' /\ ~store'.webapp[w].deleting =>
              Owes(w, UntilRouted)' \/ Routed(w)'
<1>1. UpdateIngress
  BY Writers
<1>2. PICK rules \in RuleLists, revision \in Hashes :
        Put("ingress", Global, [rules |-> rules, revision |-> revision])
  <2>1. Hash[obj.spec] \in Hashes
    BY <1>1, BusyTypes DEF UpdateIngress, CoreInv
  <2>. QED
    BY <1>1, <2>1 DEF UpdateIngress, Fails, Unwritten
<1>3. pc' = "idle" /\ stale \subseteq stale'
  BY <1>1, CallEnds DEF ReconcileStep, UpdateIngress, Fails, Done, Retry, Drop
<1>4. ASSUME NEW w \in Webapps, Live(w)', ~store'.webapp[w].deleting
      PROVE  Owes(w, UntilRouted)' \/ Routed(w)'
  <2>1. store'.webapp[w] = store.webapp[w]
    BY <1>1, CallWrites, KindsOfObjects DEF OnlyWrites
  <2>2. CASE <<"webapp", w>> \in stale
    BY <1>3, <2>2 DEF Owes, Unseen
  <2>3. CASE <<"webapp", w>> \notin stale
    BY <1>2, <1>4, <2>1, <2>3, RouteSupplied DEF Live
  <2>. QED
    BY <2>2, <2>3
<1>. QED
  BY <1>3, <1>4

-----------------------------------------------------------------------------
(* Names that have been used before.                                       *)

\* Copy o of w is of a Webapp that there has been; one that is marked for deletion
\* does not outrun the mark.
Dated(o, w) ==
  o # None =>
    /\ o.uid \in 1..births[w]
    /\ o.deleting /\ o.uid = births[w] /\ Live(w) => store.webapp[w].deleting

CopiesDated ==
  /\ \A w \in Webapps : Dated(cache.webapp[w], w)
  /\ pc # "idle" => Dated(obj, cur)

\* The Webapp that exists is the last one of its name, and what is kept for a name
\* was made for one of that name.
ServerNumbered ==
  \A w \in Webapps :
    /\ Live(w) => births[w] # 0 /\ store.webapp[w].uid = births[w]
    /\ \A kind \in {"deployment", "service"} :
         store[kind][w] # None => store[kind][w].owner \in 1..births[w]

\* The step replaces a Webapp only where none is left, and spares none that was to
\* be deleted.
Ages ==
  \A w \in Webapps :
    \/ /\ births'[w] = births[w]
       /\ Live(w)' => /\ Live(w) /\ store'.webapp[w].uid = store.webapp[w].uid
                      /\ store.webapp[w].deleting => store'.webapp[w].deleting
    \/ /\ births'[w] = births[w] + 1 /\ Live(w)'
       /\ store'.webapp[w].uid = births'[w] /\ ~store'.webapp[w].deleting

\* Where an informer's and a reconcile's copies of Webapps come from.
LEMMA CopyMoves ==
  ASSUME CoreInv, [Next]_vars
  PROVE  /\ \A w \in Webapps :
              cache'.webapp[w] \in {cache.webapp[w], store.webapp[w]}
         /\ pc' # "idle" =>
              \/ cur' \in Webapps /\ obj' = cache.webapp[cur']
              \/ /\ pc # "idle" /\ cur' = cur
                 /\ obj' \in {obj, [obj EXCEPT !.finalizer = TRUE]}
<1>. DEFINE Comes == \A w \in Webapps :
                       cache'.webapp[w] \in {cache.webapp[w], store.webapp[w]}
            Works == pc' # "idle" =>
                       \/ cur' \in Webapps /\ obj' = cache.webapp[cur']
                       \/ /\ pc # "idle" /\ cur' = cur
                          /\ obj' \in {obj, [obj EXCEPT !.finalizer = TRUE]}
<1>. SUFFICES Comes /\ Works
  OBVIOUS
<1>. ObjectsOK
  BY DEF CoreInv, TypeOK, ClusterTypeOK, ObjectsOK
<1>1. ASSUME NEW kind \in Kinds, NEW name, NEW o, Put(kind, name, o)
      PROVE  Comes
  BY <1>1, PutWebapps
<1>2. Unwritten \/ Fails \/ cache' = cache => Comes
  BY DEF Unwritten, Fails
<1>3. {"webapp", "deployment", "service", "proxy", "ingress", "namespace"} = Kinds
  BY KindsOfObjects
<1>. HIDE DEF Comes
<1>4. CASE ReconcileStep
  <2>1. Works
    BY <1>4
    DEF ReconcileStep, UpdateLabels, AddFinalizer, CreateNamespace, ReadIngress,
        DeleteProxy, PruneIngress, RemoveFinalizer, UpsertDeployment, UpsertService,
        UpsertProxy, UpdateIngress, Fails, Retry, Done, Drop, Go
  <2>2. UpdateLabels \/ AddFinalizer \/ RemoveFinalizer => Comes
    BY <1>1, <1>2, <1>3 DEF UpdateLabels, AddFinalizer, RemoveFinalizer
  <2>3. CreateNamespace \/ ReadIngress \/ DeleteProxy \/ PruneIngress => Comes
    BY <1>1, <1>2, <1>3 DEF CreateNamespace, ReadIngress, DeleteProxy, PruneIngress
  <2>4. UpsertDeployment \/ UpsertService => Comes
    BY <1>1, <1>2, <1>3 DEF UpsertDeployment, UpsertService
  <2>5. UpsertProxy \/ UpdateIngress => Comes
    BY <1>1, <1>2, <1>3 DEF UpsertProxy, UpdateIngress
  <2>. QED
    BY <1>4, <2>1, <2>2, <2>3, <2>4, <2>5 DEF ReconcileStep
<1>5. CASE ClusterStep
  <2>1. Works
    BY <1>5 DEF ClusterStep, jobVars
  <2>2. UserStep => Comes
    BY <1>1, <1>3 DEF UserStep, UserCreate, UserEdit, UserDelete, UserWrites
  <2>3. \A kind \in {"deployment", "service"}, w \in Webapps : Collect(kind, w) => Comes
    BY <1>1, <1>3 DEF Collect
  <2>4. ASSUME NEW kind \in Kinds, NEW name \in Names(kind), Deliver(kind, name)
        PROVE  Comes
    <3>1. /\ cache = [k \in Kinds |-> cache[k]]
          /\ cache.webapp = [n \in Webapps |-> cache.webapp[n]]
      BY KindsOfObjects DEF ObjectsOK, AreObjects, Table
    <3>2. cache' = [cache EXCEPT ![kind][name] = store[kind][name]]
      BY <2>4 DEF Deliver
    <3>3. CASE kind = "webapp"
      BY <3>1, <3>2, <3>3, KindsOfObjects DEF Comes
    <3>4. CASE kind # "webapp"
      <4>1. cache'.webapp = cache.webapp
        BY <3>1, <3>2, <3>4, KindsOfObjects
      <4>. QED
        BY <4>1 DEF Comes
    <3>. QED
      BY <3>3, <3>4
  <2>. QED
    BY <1>5, <2>1, <2>2, <2>3, <2>4 DEF ClusterStep
<1>6. CASE Restart
  BY <1>6 DEF Restart, Drop, Comes
<1>7. CASE \/ \E w \in Webapps : GetNothing(w) \/ Get(w)
           \/ CallFails \/ Resync \/ UNCHANGED vars
  BY <1>2, <1>7 DEF GetNothing, Get, CallFails, Drop, Resync, Unwritten, vars,
                    clusterVars, jobVars
<1>. QED
  BY <1>4, <1>5, <1>6, <1>7 DEF Next

\* Only users bring a Webapp into existence, and only where there is none.
LEMMA AgesStep ==
  ASSUME CoreInv, [Next]_vars \/ Fails
  PROVE  Ages
<1>. ObjectsOK /\ births \in [Webapps -> Nat]
  BY DEF CoreInv, TypeOK, ClusterTypeOK, ObjectsOK
<1>1. CASE UserStep
  <2>1. PICK v \in Webapps :
          (\E s \in Specs : UserCreate(v, s) \/ UserEdit(v, s)) \/ UserDelete(v)
    BY <1>1 DEF UserStep
  <2>2. ASSUME NEW o, UserWrites(v, o)
        PROVE  /\ store'.webapp[v] = o
               /\ \A w \in Webapps : w # v => store'.webapp[w] = store.webapp[w]
    BY <2>2, WebappPut DEF UserWrites
  <2>3. store.webapp \in [Webapps -> WebappObject \cup {None}]
    BY ObjectsTypes DEF ObjectsOK
  <2>4. ASSUME NEW s \in Specs, UserCreate(v, s)
        PROVE  Ages
    <3>. DEFINE o == [uid |-> births[v] + 1, spec |-> s, label |-> None,
                      finalizer |-> FALSE, deleting |-> FALSE]
    <3>1. UserWrites(v, o) /\ births' = [births EXCEPT ![v] = @ + 1]
      BY <2>4 DEF UserCreate
    <3>2. o \in WebappObject /\ o.uid = births[v] + 1 /\ ~o.deleting
      BY DEF WebappObject
    <3>3. o # None
      BY <3>2, KindsOfObjects, DistinctAssumption
    <3>. HIDE DEF o
    <3>4. /\ store'.webapp[v] = o
          /\ \A w \in Webapps : w # v => store'.webapp[w] = store.webapp[w]
      BY <2>2, <3>1
    <3>. QED
      BY <3>1, <3>2, <3>3, <3>4 DEF Ages, Live
  <2>5. ASSUME NEW s \in Specs, UserEdit(v, s)
        PROVE  Ages
    <3>. DEFINE o == [store.webapp[v] EXCEPT !.spec = s]
    <3>1. UserWrites(v, o) /\ store.webapp[v] \in WebappObject /\ births' = births
      BY <2>3, <2>5 DEF UserEdit
    <3>2. o.uid = store.webapp[v].uid /\ o.deleting = store.webapp[v].deleting
      BY <3>1 DEF WebappObject
    <3>. HIDE DEF o
    <3>3. Live(v)
      BY <2>5 DEF UserEdit, Live
    <3>4. /\ store'.webapp[v] = o
          /\ \A w \in Webapps : w # v => store'.webapp[w] = store.webapp[w]
      BY <2>2, <3>1
    <3>. QED
      BY <3>1, <3>2, <3>3, <3>4 DEF Ages, Live
  <2>6. CASE UserDelete(v)
    <3>. DEFINE o == [store.webapp[v] EXCEPT !.deleting = TRUE]
    <3>1. /\ store.webapp[v] \in WebappObject /\ births' = births
          /\ UserWrites(v, o) \/ UserWrites(v, None)
      BY <2>3, <2>6 DEF UserDelete
    <3>2. o.uid = store.webapp[v].uid /\ o.deleting
      BY <3>1 DEF WebappObject
    <3>. HIDE DEF o
    <3>3. Live(v)
      BY <2>6 DEF UserDelete, Live
    <3>4. /\ store'.webapp[v] \in {o, None}
          /\ \A w \in Webapps : w # v => store'.webapp[w] = store.webapp[w]
      BY <2>2, <3>1
    <3>. QED
      BY <3>1, <3>2, <3>3, <3>4 DEF Ages, Live
  <2>. QED
    BY <2>1, <2>4, <2>5, <2>6
<1>2. ASSUME births' = births, ops' = ops, [Next]_vars \/ Fails
      PROVE  Ages
  <2>1. \A w \in Webapps : AsUsersWant(store.webapp[w], store'.webapp[w])
    <3>1. CASE Fails \/ UNCHANGED vars
      BY <3>1, FailedNotices DEF AsUsersWant, vars, clusterVars
    <3>2. CASE [Next]_vars /\ ~UNCHANGED vars
      BY <1>2, <3>2, UsersDecideStep DEF UsersDecide
    <3>. QED
      BY <1>2, <3>1, <3>2
  <2>. QED
    BY <1>2, <2>1 DEF Ages, AsUsersWant, Live
<1>3. ~UserStep => births' = births /\ ops' = ops
  <2>1. /\ Fails \/ UNCHANGED vars => births' = births /\ ops' = ops
        /\ \A c : Go(c) => births' = births /\ ops' = ops
        /\ Done => births' = births /\ ops' = ops
    BY DEF Fails, Retry, Done, Drop, Go, vars, clusterVars
  <2>2. ReconcileStep => births' = births /\ ops' = ops
    BY <2>1
    DEF ReconcileStep, UpdateLabels, AddFinalizer, CreateNamespace, ReadIngress,
        DeleteProxy, PruneIngress, RemoveFinalizer, UpsertDeployment, UpsertService,
        UpsertProxy, UpdateIngress
  <2>3. ~UserStep /\ ClusterStep => births' = births /\ ops' = ops
    BY DEF ClusterStep, Deliver, Collect
  <2>4. \/ \E w \in Webapps : GetNothing(w) \/ Get(w)
        \/ CallFails \/ Restart \/ Resync
        => births' = births /\ ops' = ops
    BY DEF GetNothing, Get, CallFails, Restart, Resync
  <2>. QED
    BY <2>1, <2>2, <2>3, <2>4 DEF Next
<1>. QED
  BY <1>1, <1>2, <1>3

\* A copy that was dated stays so.
LEMMA DatedStep ==
  ASSUME CoreInv, Ages, NEW w \in Webapps, NEW o, Dated(o, w)
  PROVE  o # None =>
           /\ o.uid \in 1..births'[w]
           /\ o.deleting /\ o.uid = births'[w] /\ Live(w)' => store'.webapp[w].deleting
<1>1. births[w] \in Nat
  BY DEF CoreInv, TypeOK, ClusterTypeOK
<1>. QED
  BY <1>1 DEF Dated, Ages

\* So a step of the controller keeps the dates of its copies, and the numbers at the
\* server.
LEMMA DatesStep ==
  ASSUME CoreInv, ServerNumbered, CopiesDated, [Next]_vars \/ Fails
  PROVE  ServerNumbered' /\ CopiesDated'
<1>1. Ages
  BY AgesStep
<1>2. births \in [Webapps -> Nat]
  BY DEF CoreInv, TypeOK, ClusterTypeOK
<1>3. \A w \in Webapps : Dated(store.webapp[w], w)
  BY <1>2 DEF ServerNumbered, Dated, Live
<1>4. /\ \A w \in Webapps : cache'.webapp[w] \in {cache.webapp[w], store.webapp[w]}
      /\ pc' # "idle" =>
           \/ cur' \in Webapps /\ obj' = cache.webapp[cur']
           \/ /\ pc # "idle" /\ cur' = cur
              /\ obj' \in {obj, [obj EXCEPT !.finalizer = TRUE]}
  BY CopyMoves DEF Fails, Unwritten, Retry, Drop
<1>5. ASSUME NEW w \in Webapps
      PROVE  Dated(cache.webapp[w], w)'
  BY <1>1, <1>3, <1>4, DatedStep DEF CopiesDated, Dated
<1>6. ASSUME pc' # "idle"
      PROVE  Dated(obj, cur)'
  <2>1. CASE cur' \in Webapps /\ obj' = cache.webapp[cur']
    BY <1>1, <2>1, DatedStep DEF CopiesDated, Dated
  <2>2. CASE /\ pc # "idle" /\ cur' = cur
             /\ obj' \in {obj, [obj EXCEPT !.finalizer = TRUE]}
    <3>1. cur \in Webapps /\ obj \in WebappObject /\ obj # None
      BY <2>2, BusyTypes DEF CoreInv, JobOK
    <3>2. obj'.uid = obj.uid /\ obj'.deleting = obj.deleting
      BY <2>2, <3>1 DEF WebappObject
    <3>3. /\ obj.uid \in 1..births'[cur]
          /\ obj.deleting /\ obj.uid = births'[cur] /\ Live(cur)' =>
               store'.webapp[cur].deleting
      BY <1>1, <2>2, <3>1, DatedStep DEF CopiesDated
    <3>. QED
      BY <2>2, <3>2, <3>3 DEF Dated, Live
  <2>. QED
    BY <1>4, <1>6, <2>1, <2>2
<1>7. ASSUME NEW w \in Webapps, Live(w)'
      PROVE  births'[w] # 0 /\ store'.webapp[w].uid = births'[w]
  BY <1>1, <1>2, <1>7 DEF Ages, ServerNumbered
<1>8. ASSUME NEW kind \in {"deployment", "service"}, NEW w \in Webapps,
             store'[kind][w] # None
      PROVE  store'[kind][w].owner \in 1..births'[w]
  <2>1. \A uid \in 1..births[w] : uid \in 1..births'[w]
    BY <1>1, <1>2 DEF Ages
  <2>2. CASE store'[kind][w] = store[kind][w]
    BY <1>8, <2>1, <2>2 DEF ServerNumbered
  <2>3. CASE store'[kind][w] # store[kind][w]
    <3>1. [Next]_vars
      BY <2>3, FailedNotices
    <3>2. ~Collect(kind, w)
      <4>1. ASSUME Collect(kind, w)
            PROVE  store'[kind][w] = None
        <5>1. kind \in Kinds /\ w \in Names(kind) /\ Put(kind, w, None)
          BY <4>1, KindsOfObjects DEF Collect
        <5>2. ObjectsOK
          BY DEF CoreInv, TypeOK, ClusterTypeOK, ObjectsOK
        <5>. QED
          BY <5>1, <5>2, PutStore
      <4>. QED
        BY <1>8, <4>1
    <3>3. cur = w /\ (UpsertDeployment \/ UpsertService)
      BY <2>3, <3>1, <3>2, Writers
    <3>4. pc # "idle" /\ obj # None
      BY <3>3 DEF UpsertDeployment, UpsertService, CoreInv, JobOK
    <3>5. obj.uid \in 1..births[w]
      BY <3>3, <3>4 DEF CopiesDated, Dated
    <3>6. store[kind][w] # None => store[kind][w].owner \in 1..births[w]
      BY DEF ServerNumbered
    <3>. QED
      BY <2>1, <2>3, <3>3, <3>5, <3>6, UpsertOwners
  <2>. QED
    BY <2>2, <2>3
<1>9. ServerNumbered'
  BY <1>7, <1>8 DEF ServerNumbered
<1>. QED
  BY <1>5, <1>6, <1>9 DEF CopiesDated

\* The copies of a manager that watches another one write stay dated, too.
LEMMA WatchedDates ==
  ASSUME CoreInv, CopiesDated, WatchesWrites \/ UNCHANGED vars, Ages
  PROVE  CopiesDated'
<1>1. /\ cache'.webapp = cache.webapp
      /\ pc' = pc /\ cur' = cur /\ obj' = obj
  BY KindsOfObjects, DistinctAssumption DEF WatchesWrites, vars, clusterVars, jobVars
<1>2. pc # "idle" => cur \in Webapps
  BY BusyTypes DEF CoreInv
<1>3. ASSUME NEW w \in Webapps
      PROVE  Dated(cache.webapp[w], w)'
  BY <1>1, DatedStep DEF CopiesDated, Dated
<1>4. ASSUME pc' # "idle"
      PROVE  Dated(obj, cur)'
  BY <1>1, <1>2, <1>4, DatedStep DEF CopiesDated, Dated, Live
<1>. QED
  BY <1>3, <1>4 DEF CopiesDated

\* The collector has no claim on what the first Webapp of a name has.
LEMMA FirstIsKept ==
  ASSUME CoreInv, ServerNumbered, Ages, NEW w \in Webapps, Live(w)', ~Reused(w)',
         NEW kind \in {"deployment", "service"}
  PROVE  ~Reused(w) /\ ~Collect(kind, w)
<1>1. births[w] \in Nat
  BY DEF CoreInv, TypeOK, ClusterTypeOK
<1>2. ~Reused(w)
  BY <1>1 DEF Ages, Reused
<1>3. ASSUME store[kind][w] # None
      PROVE  Live(w) /\ store.webapp[w].uid = store[kind][w].owner
  <2>1. store[kind][w].owner \in 1..births[w]
    BY <1>3 DEF ServerNumbered
  <2>2. births[w] = 1 /\ store[kind][w].owner = 1
    BY <1>1, <1>2, <2>1 DEF Reused
  <2>3. Live(w)
    BY <2>2 DEF Ages, Reused
  <2>. QED
    BY <2>2, <2>3 DEF ServerNumbered
<1>. QED
  BY <1>2, <1>3 DEF Collect, Orphaned, Live

\* What has not been deleted had not been before.
LEMMA DeletedBefore ==
  ASSUME CoreInv, Ages, NothingDeleted'
  PROVE  NothingDeleted
<1>1. SUFFICES ASSUME NEW w \in Webapps, births[w] # 0
               PROVE  births[w] = 1 /\ Live(w) /\ ~store.webapp[w].deleting
  BY DEF NothingDeleted
<1>2. births[w] \in Nat
  BY DEF CoreInv, TypeOK, ClusterTypeOK
<1>3. births'[w] # 0 => births'[w] = 1 /\ Live(w)' /\ ~store'.webapp[w].deleting
  BY DEF NothingDeleted
<1>. QED
  BY <1>1, <1>2, <1>3 DEF Ages

\* As long as nothing is deleted nothing is finalized.
LEMMA NoFinalization ==
  ASSUME CoreInv, CopiesDated, NothingDeleted
  PROVE  pc \notin Finalization /\ ~PruneIngress
<1>1. ASSUME pc # "idle"
      PROVE  ~obj.deleting
  <2>1. cur \in Webapps /\ obj # None
    BY <1>1, BusyTypes DEF CoreInv, JobOK
  <2>2. births[cur] \in Nat
    BY <2>1 DEF CoreInv, TypeOK, ClusterTypeOK
  <2>3. /\ obj.uid \in 1..births[cur]
        /\ obj.deleting /\ obj.uid = births[cur] /\ Live(cur) =>
             store.webapp[cur].deleting
    BY <1>1, <2>1 DEF CopiesDated, Dated
  <2>4. births[cur] = 1 /\ Live(cur) /\ ~store.webapp[cur].deleting
    BY <2>1, <2>2, <2>3 DEF NothingDeleted
  <2>. QED
    BY <2>3, <2>4
<1>2. pc \in Finalization => pc # "idle"
  BY DEF Finalization
<1>. QED
  BY <1>1, <1>2 DEF CoreInv, JobOK, Finalization, PruneIngress

-----------------------------------------------------------------------------
(* What a turn of one of two managers keeps: a step of its controller, or a *)
(* write refused because the other one was first.                           *)

\* Its notices stay complete.
LEMMA TurnNotices ==
  ASSUME CoreInv, NoticeInv, [Next]_vars \/ Fails
  PROVE  NoticeInv'
BY NoticeStep, FailedNotices

\* It takes no deployment, service or proxy service away, and changes none but to
\* what it should be, without owing it.
LEMMA TurnSupplies ==
  ASSUME CoreInv, NoticeInv, OwnProxies, FreshDeploymentRead,
         [Next]_vars \/ Fails, NEW w \in Webapps, Live(w)'
  PROVE  /\ ~Collect("deployment", w) /\ (Live(w) => Owes(w, UntilDeployed) \/ Revised(w))
              => Owes(w, UntilDeployed)' \/ Revised(w)'
         /\ ~Collect("service", w) /\ (Live(w) => Owes(w, UntilServed) \/ Served(w))
              => Owes(w, UntilServed)' \/ Served(w)'
         /\ (Live(w) => Owes(w, UntilProxied) \/ Proxied(w))
              => Owes(w, UntilProxied)' \/ Proxied(w)'
<1>1. CASE [Next]_vars
  BY <1>1, DeploymentKept, ServiceKept, ProxyKept
<1>2. CASE Fails
  <2>1. store' = store /\ \A calls : Owes(w, calls) => Owes(w, calls)'
    BY <1>2, FailedNotices
  <2>2. /\ Live(w)
        /\ Revised(w) => Revised(w)'
        /\ Served(w) => Served(w)'
        /\ Proxied(w) => Proxied(w)'
    BY <2>1 DEF Live, Revised, Served, Proxied
  <2>. QED
    BY <2>1, <2>2
<1>. QED
  BY <1>1, <1>2

\* What it leaves missing, or alone, it does not owe: who creates a deployment or a
\* service was on the way to do so.
LEMMA TurnSuppliesOrNone ==
  ASSUME CoreInv, NoticeInv, OwnProxies, FreshDeploymentRead,
         [Next]_vars \/ Fails, NEW w \in Webapps, Live(w)'
  PROVE  /\ (Live(w) => \/ Owes(w, UntilDeployed) \/ store.deployment[w] = None
                        \/ Revised(w))
              => \/ Owes(w, UntilDeployed)' \/ store'.deployment[w] = None
                 \/ Revised(w)'
         /\ (Live(w) => \/ Owes(w, UntilServed) \/ store.service[w] = None
                        \/ Served(w))
              => \/ Owes(w, UntilServed)' \/ store'.service[w] = None
                 \/ Served(w)'
<1>1. ASSUME NEW kind \in {"deployment", "service"}, Collect(kind, w)
      PROVE  store'[kind][w] = None
  <2>1. kind \in Kinds /\ w \in Names(kind) /\ Put(kind, w, None)
    BY <1>1, KindsOfObjects DEF Collect
  <2>2. ObjectsOK
    BY DEF CoreInv, TypeOK, ClusterTypeOK, ObjectsOK
  <2>. QED
    BY <2>1, <2>2, PutStore
<1>2. ASSUME Fails, NEW kind \in {"deployment", "service"}
      PROVE  store'[kind][w] = store[kind][w]
  BY <1>2, FailedNotices
<1>3. ASSUME store.deployment[w] = None, store'.deployment[w] # None, Live(w)
      PROVE  Owes(w, UntilDeployed)
  <2>1. cur = w /\ pc = "upsertDeployment"
    BY <1>1, <1>2, <1>3, Writers DEF UpsertDeployment
  <2>. QED
    BY <2>1 DEF Owes, UntilDeployed, Calls
<1>4. ASSUME store.service[w] = None, store'.service[w] # None, Live(w)
      PROVE  Owes(w, UntilServed)
  <2>1. cur = w /\ pc = "upsertService"
    BY <1>1, <1>2, <1>4, Writers DEF UpsertService
  <2>. QED
    BY <2>1 DEF Owes, UntilServed
<1>. QED
  BY <1>1, <1>3, <1>4, TurnSupplies

\* So it leaves every Webapp what it needs or what is owed to it, but for what the
\* collector takes from one whose name has been used before.
LEMMA TurnForgetsNothing ==
  ASSUME CoreInv, NoticeInv, OwnProxies, ServerNumbered, FreshDeploymentRead,
         [Next]_vars \/ Fails, NEW w \in Webapps, Live(w)'
  PROVE  /\ (Live(w) => \/ Owes(w, UntilDeployed) \/ Revised(w)
                        \/ Reused(w) /\ store.deployment[w] = None)
              => \/ Owes(w, UntilDeployed)' \/ Revised(w)'
                 \/ Reused(w)' /\ store'.deployment[w] = None
         /\ (Live(w) => \/ Owes(w, UntilServed) \/ Served(w)
                        \/ Reused(w) /\ store.service[w] = None)
              => \/ Owes(w, UntilServed)' \/ Served(w)'
                 \/ Reused(w)' /\ store'.service[w] = None
         /\ (Live(w) => Owes(w, UntilProxied) \/ Proxied(w))
              => Owes(w, UntilProxied)' \/ Proxied(w)'
<1>1. CASE Reused(w)'
  BY <1>1, TurnSuppliesOrNone, TurnSupplies
<1>2. CASE ~Reused(w)'
  <2>1. ~Reused(w) /\ ~Collect("deployment", w) /\ ~Collect("service", w)
    BY <1>2, AgesStep, FirstIsKept
  <2>. QED
    BY <2>1, TurnSupplies
<1>. QED
  BY <1>1, <1>2

\* Unless it is late it takes no route away without owing it, as long as nothing is
\* deleted.
LEMMA TurnRoutes ==
  ASSUME CoreInv, NoticeInv, ServerNumbered, CopiesDated, NothingDeleted,
         [Next]_vars \/ Fails, ~Late,
         NEW w \in Webapps, Live(w)', Live(w) => Owes(w, UntilRouted) \/ Routed(w)
  PROVE  Owes(w, UntilRouted)' \/ Routed(w)'
<1>1. CASE [Next]_vars
  <2>1. ~PruneIngress
    BY NoFinalization
  <2>2. ASSUME UpdateIngress
        PROVE  \/ Fails
               \/ \E rules \in RuleLists, revision \in Hashes :
                    Put("ingress", Global, [rules |-> rules, revision |-> revision])
    <3>1. Hash[obj.spec] \in Hashes
      BY <2>2, BusyTypes DEF UpdateIngress, CoreInv
    <3>. QED
      BY <2>2, <3>1 DEF UpdateIngress, Late, Upserts, Creatable
  <2>3. Live(w) => Owes(w, UntilRouted) \/ (Routed(w) /\ ~store.webapp[w].deleting)
    BY DEF NothingDeleted, ServerNumbered
  <2>. QED
    BY <1>1, <2>1, <2>2, <2>3, RouteKept
<1>2. CASE Fails
  <2>1. store' = store /\ (Owes(w, UntilRouted) => Owes(w, UntilRouted)')
    BY <1>2, FailedNotices
  <2>2. Live(w) /\ (Routed(w) => Routed(w)')
    BY <2>1, RouteStays DEF Live
  <2>. QED
    BY <2>1, <2>2
<1>. QED
  BY <1>1, <1>2

\* If it is late it leaves the routes alone.
LEMMA TurnsLate ==
  ASSUME CoreInv, FreshIngressRead, [Next]_vars \/ Fails
  PROVE  /\ Late' => Late
         /\ Late => store'.ingress[Global] = store.ingress[Global]
<1>1. CASE [Next]_vars
  BY <1>1, LateLasts, LateBlocks
<1>2. CASE Fails
  BY <1>2, FailedNotices DEF Late, Upserts
<1>. QED
  BY <1>1, <1>2

\* And if it makes the other one late, by creating the ingress, it has routed
\* everyone it knows of.
LEMMA TurnCreates ==
  ASSUME CoreInv, ServerNumbered, CopiesDated, NothingDeleted',
         [Next]_vars \/ Fails, store.ingress[Global] = None, store'.ingress[Global] # None,
         NEW w \in Webapps, Live(w)'
  PROVE  Owes(w, UntilRouted)' \/ Routed(w)'
<1>1. [Next]_vars
  BY FailedNotices
<1>2. ~PruneIngress
  BY AgesStep, DeletedBefore, NoFinalization
<1>3. ~store'.webapp[w].deleting
  BY DatesStep DEF NothingDeleted, ServerNumbered
<1>. QED
  BY <1>1, <1>2, <1>3, FirstIngress
=============================================================================
