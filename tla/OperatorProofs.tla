--------------------------- MODULE OperatorProofs ---------------------------
(***************************************************************************)
(* What holds when the repository controller writes Webapps behind the     *)
(* back of the Webapp controller.                                          *)
(***************************************************************************)
EXTENDS Operator, ConvergenceProofs

\* Where a reconcile of a repository stands tells what it has in memory.
RepoJobOK ==
  rpc # "idle" =>
    /\ key # None
    /\ repo # None
    /\ rpc = "upsertWebapp" => image # None /\ image.latest # NoBuild

OperatorInv == CoreInv /\ RepoTypeOK /\ RepoJobOK

-----------------------------------------------------------------------------
(* The Webapp controller's half.                                           *)

\* A step that the Webapp controller has no part in and that writes no Webapp.
Aside ==
  /\ UNCHANGED <<store, cache, stale, held, queue, births, jobVars>>
  /\ ops' \in Nat /\ faults' \in Nat

\* Someone else makes o of Webapp w: the copies of it are outdated.
Overwrites(w, o) ==
  /\ \/ UNCHANGED <<store, stale>>
     \/ /\ store' = [store EXCEPT !.webapp[w] = o]
        /\ stale' = stale \cup {<<"webapp", w>>}
        /\ <<"webapp", w>> \notin held'
  /\ held' \subseteq held
  /\ births' \in [Webapps -> Nat]
  /\ UNCHANGED <<cache, queue, ops, jobVars, faults>>

\* What the repository controller writes is a Webapp.
LEMMA GeneratedTypes ==
  ASSUME RepoTypeOK, RepoJobOK, rpc = "upsertWebapp", NEW uid \in Nat
  PROVE  Generated(uid) \in WebappObject
<1>1. repo \in RepositoryObject /\ image \in ImageObject /\ image.latest \in Builds
  BY DEF RepoTypeOK, RepoJobOK, ImageObject
<1>2. Rendered[<<repo.spec, image.latest>>] \in Specs
  BY <1>1, RenderedAssumption DEF RepositoryObject
<1>. QED
  BY <1>2, ConstantsAssumption DEF Generated, WebappObject

\* The repository controller's write of a Webapp overwrites it: with nothing if
\* that was all that was left to do.
LEMMA UpsertWebappOverwrites ==
  ASSUME OperatorInv, UpsertWebapp, UNCHANGED <<jobVars, faults>>
  PROVE  \E w \in Webapps : \E o \in WebappObject \cup {None} : Overwrites(w, o)
<1>1. /\ rpc = "upsertWebapp" /\ key \in Webapps /\ TypeOK
      /\ births \in [Webapps -> Nat] /\ births[key] \in Nat
      /\ births' = births \/ births' = [births EXCEPT ![key] = @ + 1]
  BY DEF UpsertWebapp, OperatorInv, RepoTypeOK, RepoJobOK, CoreInv, TypeOK,
         ClusterTypeOK, CreateWebapp, UpdateWebapp, WebappUnwritten, clusterVars
<1>2. births' \in [Webapps -> Nat]
  BY <1>1
<1>3. ASSUME NEW o \in WebappObject \cup {None}, PutWebapp(o, repo.uid),
             UNCHANGED <<queue, ops>>
      PROVE  Overwrites(key, o)
  BY <1>2, <1>3 DEF PutWebapp, Unwritten, Overwrites
<1>4. CASE CreateWebapp
  <2>1. Generated(births[key] + 1) \in WebappObject
    BY <1>1, GeneratedTypes DEF OperatorInv
  <2>. QED
    BY <1>1, <1>3, <1>4, <2>1 DEF CreateWebapp
<1>5. CASE UpdateWebapp /\ cache.webapp[key] # None /\ Current("webapp", key)
  <2>1. store.webapp[key] = cache.webapp[key]
    BY <1>1, <1>5, KindsOfObjects DEF OperatorInv, CoreInv, CacheInStep
  <2>2. store.webapp[key] \in WebappObject
    BY <1>1, <1>5, <2>1, ObjectsTypes DEF TypeOK, ClusterTypeOK
  <2>3. Generated(store.webapp[key].uid) \in WebappObject
    BY <1>1, <2>2, GeneratedTypes DEF OperatorInv, WebappObject
  <2>. QED
    BY <1>1, <1>3, <1>5, <2>3 DEF UpdateWebapp
<1>6. CASE WebappUnwritten
  BY <1>1, <1>2, <1>6 DEF WebappUnwritten, clusterVars, Overwrites
<1>. QED
  BY <1>4, <1>5, <1>6 DEF UpsertWebapp

\* So does the collector's, when the repository is gone.
LEMMA CollectWebappOverwrites ==
  ASSUME OperatorInv, NEW w \in Webapps, CollectWebapp(w), UNCHANGED <<jobVars, faults>>
  PROVE  \E o \in WebappObject \cup {None} : Overwrites(w, o)
<1>. DEFINE o == IF store.webapp[w].finalizer
                 THEN [store.webapp[w] EXCEPT !.deleting = TRUE] ELSE None
<1>1. store.webapp[w] \in WebappObject
  BY ObjectsTypes
  DEF OperatorInv, CoreInv, TypeOK, ClusterTypeOK, CollectWebapp, WebappOrphaned
<1>2. o \in WebappObject \cup {None}
  BY <1>1 DEF WebappObject
<1>3. /\ Put("webapp", w, o) /\ held' = held \ {<<"webapp", w>>}
      /\ UNCHANGED <<queue, births, ops>>
  BY DEF CollectWebapp
<1>4. births \in [Webapps -> Nat]
  BY DEF OperatorInv, CoreInv, TypeOK, ClusterTypeOK
<1>5. Overwrites(w, o)
  BY <1>3, <1>4, DistinctAssumption DEF Put, Unwritten, Overwrites
<1>. QED
  BY <1>2, <1>5

\* Seen from the Webapp controller, these are all the steps there are.
LEMMA OperatorSteps ==
  ASSUME OperatorInv, [OperatorNext]_operatorVars
  PROVE  \/ [Next]_vars
         \/ Aside
         \/ \E w \in Webapps : \E o \in WebappObject \cup {None} : Overwrites(w, o)
<1>1. CASE WebappWorker
  BY <1>1 DEF WebappWorker, Next
<1>2. CASE RepoWorker
  <2>. ops \in Nat /\ faults \in Nat
    BY DEF OperatorInv, CoreInv, TypeOK, ClusterTypeOK
  <2>1. CASE UpsertWebapp /\ UNCHANGED <<jobVars, faults>>
    BY <2>1, UpsertWebappOverwrites
  <2>2. CASE UNCHANGED clusterVars /\ UNCHANGED jobVars /\ faults' \in {faults, faults + 1}
    BY <2>2 DEF Aside, clusterVars
  <2>. QED
    BY <1>2, <2>1, <2>2
    DEF RepoWorker, RepoCallFails, RepoFails, RepoStep, GetRepo, GetImage, CreateImage
<1>3. CASE Outside
  <2>. ops \in Nat /\ faults \in Nat
    BY DEF OperatorInv, CoreInv, TypeOK, ClusterTypeOK
  <2>1. CASE \E w \in Webapps : UserDelete(w)
    BY <1>3, <2>1 DEF Outside, UserStep, ClusterStep, Next
  <2>2. CASE RepoUserStep
    BY <1>3, <2>2
    DEF Outside, RepoUserStep, UserCreatesRepo, UserEditsRepo, UserDeletesRepo,
        UserWritesRepo, Aside
  <2>3. CASE \E w \in Webapps : BuildStarts(w)
    BY <1>3, <2>3 DEF Outside, BuildStarts, clusterVars, Aside
  <2>. QED
    BY <1>3, <2>1, <2>2, <2>3 DEF Outside
<1>4. CASE Background
  <2>. ops \in Nat /\ faults \in Nat /\ UNCHANGED <<jobVars, faults>>
    BY <1>4 DEF Background, OperatorInv, CoreInv, TypeOK, ClusterTypeOK
  <2>1. CASE \/ \E kind \in Kinds : \E name \in Names(kind) : Deliver(kind, name)
             \/ \E kind \in {"deployment", "service"}, w \in Webapps : Collect(kind, w)
    BY <2>1 DEF ClusterStep, Next
  <2>2. ASSUME NEW w \in Webapps, DeliverRepository(w) \/ DeliverImage(w) \/ BuildEnds(w)
        PROVE  Aside
    BY <2>2 DEF DeliverRepository, DeliverImage, BuildEnds, clusterVars, Aside
  <2>3. ASSUME NEW w \in Webapps, CollectWebapp(w)
        PROVE  \E o \in WebappObject \cup {None} : Overwrites(w, o)
    BY <2>3, CollectWebappOverwrites
  <2>. QED
    BY <1>4, <2>1, <2>2, <2>3 DEF Background
<1>5. CASE OperatorRestart \/ OperatorResync
  BY <1>5 DEF OperatorRestart, OperatorResync, Next
<1>6. CASE UNCHANGED operatorVars
  BY <1>6 DEF operatorVars
<1>. QED
  BY <1>1, <1>2, <1>3, <1>4, <1>5, <1>6 DEF OperatorNext

\* What the Webapp controller needs to know survives being overwritten.
LEMMA OverwritesKeepsCore ==
  ASSUME CoreInv, NEW w \in Webapps, NEW o \in WebappObject \cup {None}, Overwrites(w, o)
  PROVE  CoreInv'
<1>. ObjectsOK
  BY DEF CoreInv, TypeOK, ClusterTypeOK, ObjectsOK
<1>1. /\ store = [k \in Kinds |-> store[k]]
      /\ \A k \in Kinds : store[k] \in Table(k)
      /\ store.webapp \in [Webapps -> WebappObject \cup {None}]
      /\ Table("webapp") = [Webapps -> WebappObject \cup {None}]
      /\ "webapp" \in Kinds /\ <<"webapp", w>> \in Keys
  BY ObjectsTypes, KindsOfObjects DEF ObjectsOK, AreObjects, Table, Keys
<1>2. CASE UNCHANGED <<store, stale>>
  BY <1>2 DEF Overwrites, CoreInv, TypeOK, ClusterTypeOK, AreObjects, CacheInStep,
              Current, JobOK, HeldCurrent, jobVars
<1>3. CASE /\ store' = [store EXCEPT !.webapp[w] = o]
           /\ stale' = stale \cup {<<"webapp", w>>}
           /\ <<"webapp", w>> \notin held'
  <2>1. /\ store' = [k \in Kinds |-> store'[k]]
        /\ store'.webapp = [store.webapp EXCEPT ![w] = o]
        /\ \A k \in Kinds \ {"webapp"} : store'[k] = store[k]
    BY <1>1, <1>3
  <2>2. AreObjects(store')
    BY <1>1, <2>1 DEF AreObjects
  <2>3. AreObjects(cache') /\ cache' = cache
    BY DEF Overwrites, ObjectsOK, AreObjects
  <2>4. TypeOK'
    BY <1>1, <1>3, <2>2, <2>3
    DEF Overwrites, CoreInv, TypeOK, ClusterTypeOK, AreObjects, jobVars
  <2>5. \A k \in Kinds : \A n \in Names(k) :
          <<k, n>> # <<"webapp", w>> => store'[k][n] = store[k][n]
    BY <1>1, <2>1, KindsOfObjects
  <2>6. CacheInStep'
    BY <1>3, <2>3, <2>5 DEF CoreInv, CacheInStep, Current
  <2>7. JobOK'
    BY DEF Overwrites, CoreInv, JobOK, jobVars
  <2>8. HeldCurrent'
    BY <1>1, <1>3, <2>1, <2>3, BusyTypes DEF Overwrites, CoreInv, HeldCurrent, jobVars
  <2>. QED
    BY <2>4, <2>6, <2>7, <2>8 DEF CoreInv
<1>. QED
  BY <1>2, <1>3 DEF Overwrites

\* No step of the two controllers together breaks CoreInv.
LEMMA OperatorCoreStep ==
  ASSUME OperatorInv, [OperatorNext]_operatorVars
  PROVE  CoreInv'
<1>1. CASE [Next]_vars
  BY <1>1, CoreStep DEF OperatorInv
<1>2. CASE Aside
  BY <1>2
  DEF Aside, OperatorInv, CoreInv, TypeOK, ClusterTypeOK, AreObjects, CacheInStep,
      Current, JobOK, HeldCurrent, jobVars
<1>3. ASSUME NEW w \in Webapps, NEW o \in WebappObject \cup {None}, Overwrites(w, o)
      PROVE  CoreInv'
  BY <1>3, OverwritesKeepsCore DEF OperatorInv
<1>. QED
  BY <1>1, <1>2, <1>3, OperatorSteps

-----------------------------------------------------------------------------
(* The repository controller's half.                                       *)

RepoOK == RepoTypeOK /\ RepoJobOK

\* Informers, kpack and users write objects of their kind.
LEMMA RegistryTypes ==
  ASSUME RepoOK,
         \/ RepoUserStep
         \/ \E w \in Webapps : \/ DeliverRepository(w) \/ DeliverImage(w)
                               \/ BuildStarts(w) \/ BuildEnds(w)
  PROVE  RepoOK'
<1>1. ASSUME NEW w \in Webapps, DeliverRepository(w)
      PROVE  RepoOK'
  BY <1>1 DEF DeliverRepository, RepoOK, RepoTypeOK, RepoJobOK, repoJobVars
<1>2. ASSUME NEW w \in Webapps, DeliverImage(w)
      PROVE  RepoOK'
  BY <1>2 DEF DeliverImage, RepoOK, RepoTypeOK, RepoJobOK, repoJobVars
<1>3. ASSUME NEW w \in Webapps, NEW i \in ImageObject, PutImage(w, i)
      PROVE  /\ images' \in [Webapps -> ImageObject \cup {None}]
             /\ unseen' \subseteq {"repository", "image"} \X Webapps
  BY <1>3 DEF PutImage, RepoOK, RepoTypeOK
<1>4. ASSUME NEW w \in Webapps, BuildStarts(w)
      PROVE  RepoOK'
  <2>1. images[w] \in ImageObject
    BY <1>4 DEF BuildStarts, RepoOK, RepoTypeOK
  <2>2. [images[w] EXCEPT !.ready = FALSE] \in ImageObject
    BY <2>1 DEF ImageObject
  <2>3. /\ images' \in [Webapps -> ImageObject \cup {None}]
        /\ unseen' \subseteq {"repository", "image"} \X Webapps
    BY <1>3, <1>4, <2>2 DEF BuildStarts
  <2>. QED
    BY <1>4, <2>3 DEF BuildStarts, RepoOK, RepoTypeOK, RepoJobOK, repoJobVars
<1>5. ASSUME NEW w \in Webapps, BuildEnds(w)
      PROVE  RepoOK'
  <2>1. /\ images[w] \in ImageObject /\ MaxBuilds \in Nat
        /\ builds \in 0 .. MaxBuilds /\ builds < MaxBuilds /\ builds' = builds + 1
    BY <1>5, RenderedAssumption DEF BuildEnds, RepoOK, RepoTypeOK
  <2>2. builds + 1 \in Builds /\ builds' \in 0 .. MaxBuilds
    BY <2>1 DEF Builds
  <2>3. [images[w] EXCEPT !.ready = TRUE, !.latest = builds + 1] \in ImageObject
    BY <2>1, <2>2 DEF ImageObject
  <2>4. /\ images' \in [Webapps -> ImageObject \cup {None}]
        /\ unseen' \subseteq {"repository", "image"} \X Webapps
    BY <1>3, <1>5, <2>3 DEF BuildEnds
  <2>. QED
    BY <1>5, <2>2, <2>4 DEF BuildEnds, RepoOK, RepoTypeOK, RepoJobOK, repoJobVars
<1>6. ASSUME NEW w \in Webapps, NEW r \in RepositoryObject \cup {None},
             UserWritesRepo(w, r), repoUids' \in [Webapps -> Nat]
      PROVE  RepoOK'
  BY <1>6 DEF UserWritesRepo, RepoOK, RepoTypeOK, RepoJobOK, repoJobVars
<1>7. ASSUME NEW w \in Webapps, NEW s \in RepoSpecs, UserCreatesRepo(w, s)
      PROVE  RepoOK'
  <2>. DEFINE r == [uid |-> repoUids[w] + 1, spec |-> s]
  <2>1. repoUids \in [Webapps -> Nat] /\ repoUids[w] \in Nat
    BY DEF RepoOK, RepoTypeOK
  <2>2. r \in RepositoryObject
    BY <2>1 DEF RepositoryObject
  <2>3. UserWritesRepo(w, r) /\ repoUids' \in [Webapps -> Nat]
    BY <1>7, <2>1 DEF UserCreatesRepo
  <2>. HIDE DEF r
  <2>. QED
    BY <1>6, <2>2, <2>3
<1>8. ASSUME NEW w \in Webapps, NEW s \in RepoSpecs, UserEditsRepo(w, s)
      PROVE  RepoOK'
  <2>. DEFINE r == [repos[w] EXCEPT !.spec = s]
  <2>1. repos[w] \in RepositoryObject
    BY <1>8 DEF UserEditsRepo, RepoOK, RepoTypeOK
  <2>2. r \in RepositoryObject
    BY <2>1 DEF RepositoryObject
  <2>3. UserWritesRepo(w, r) /\ repoUids' \in [Webapps -> Nat]
    BY <1>8 DEF UserEditsRepo, RepoOK, RepoTypeOK
  <2>. HIDE DEF r
  <2>. QED
    BY <1>6, <2>2, <2>3
<1>9. ASSUME NEW w \in Webapps, UserDeletesRepo(w)
      PROVE  RepoOK'
  <2>1. UserWritesRepo(w, None) /\ repoUids' \in [Webapps -> Nat]
    BY <1>9 DEF UserDeletesRepo, RepoOK, RepoTypeOK
  <2>. QED
    BY <1>6, <2>1
<1>. QED
  BY <1>1, <1>2, <1>4, <1>5, <1>7, <1>8, <1>9 DEF RepoUserStep

\* A reconcile of a repository holds what the next call needs.
LEMMA RepoCallTypes ==
  ASSUME OperatorInv, RepoStep \/ RepoFails \/ \E w \in Webapps : GetRepo(w)
  PROVE  RepoOK'
<1>. RepoTypeOK /\ RepoJobOK
  BY DEF OperatorInv
<1>1. ASSUME NEW w \in Webapps, GetRepo(w)
      PROVE  RepoOK'
  <2>1. w # None
    BY DistinctAssumption
  <2>. QED
    BY <1>1, <2>1
    DEF GetRepo, RepoOK, RepoTypeOK, RepoJobOK, registryVars, repoJobVars
<1>2. CASE GetImage
  BY <1>2
  DEF GetImage, RepoGo, RepoDone, RepoDrop, IsReady, RepoOK, RepoTypeOK, RepoJobOK,
      registryVars
<1>3. CASE CreateImage
  <2>. DEFINE fresh == [spec |-> repo.spec, ready |-> FALSE, latest |-> NoBuild]
  <2>1. key \in Webapps /\ repo \in RepositoryObject
    BY <1>3 DEF CreateImage, RepoTypeOK, RepoJobOK
  <2>2. fresh \in ImageObject
    BY <2>1 DEF RepositoryObject, ImageObject
  <2>3. \/ PutImage(key, fresh) \/ PutImage(key, None)
        \/ UNCHANGED <<images, unseen>>
    BY <1>3 DEF CreateImage
  <2>. HIDE DEF fresh
  <2>4. /\ images' \in [Webapps -> ImageObject \cup {None}]
        /\ unseen' \subseteq {"repository", "image"} \X Webapps
    BY <2>1, <2>2, <2>3 DEF PutImage, RepoTypeOK
  <2>. QED
    BY <1>3, <2>1, <2>4
    DEF CreateImage, RepoRetry, RepoDrop, RepoOK, RepoTypeOK, RepoJobOK
<1>4. CASE UpsertWebapp
  <2>1. key \in Webapps /\ repo \in RepositoryObject
    BY <1>4 DEF UpsertWebapp, RepoTypeOK, RepoJobOK
  <2>2. repo.uid \in Nat
    BY <2>1 DEF RepositoryObject
  <2>3. ownerUid' \in [Webapps -> Nat]
    BY <1>4, <2>2
    DEF UpsertWebapp, CreateWebapp, UpdateWebapp, PutWebapp, WebappUnwritten, RepoTypeOK
  <2>4. RepoDone \/ RepoRetry
    BY <1>4 DEF UpsertWebapp
  <2>. QED
    BY <1>4, <2>1, <2>3, <2>4
    DEF UpsertWebapp, RepoDone, RepoRetry, RepoDrop, RepoOK, RepoTypeOK, RepoJobOK
<1>5. CASE RepoFails
  BY <1>5
  DEF RepoFails, RepoRetry, RepoDrop, RepoOK, RepoTypeOK, RepoJobOK, registryVars
<1>. QED
  BY <1>1, <1>2, <1>3, <1>4, <1>5 DEF RepoStep

\* No step of the two controllers together breaks the invariant.
LEMMA OperatorStep ==
  ASSUME OperatorInv, [OperatorNext]_operatorVars
  PROVE  OperatorInv'
<1>. RepoOK
  BY DEF OperatorInv, RepoOK
<1>u. ASSUME UNCHANGED repoVars
      PROVE  RepoOK'
  BY <1>u DEF repoVars, registryVars, repoJobVars, RepoOK, RepoTypeOK, RepoJobOK
<1>. SUFFICES RepoOK'
  BY OperatorCoreStep DEF OperatorInv, RepoOK
<1>1. CASE WebappWorker
  BY <1>u, <1>1 DEF WebappWorker
<1>2. CASE RepoWorker
  BY <1>2, RepoCallTypes DEF RepoWorker, RepoCallFails
<1>3. CASE Outside
  BY <1>u, <1>3, RegistryTypes DEF Outside
<1>4. CASE Background
  BY <1>u, <1>4, RegistryTypes DEF Background, CollectWebapp
<1>5. CASE OperatorRestart
  BY <1>5 DEF OperatorRestart, RepoDrop, RepoOK, RepoTypeOK, RepoJobOK
<1>6. CASE OperatorResync
  BY <1>6 DEF OperatorResync, registryVars, repoJobVars, RepoOK, RepoTypeOK, RepoJobOK
<1>7. CASE UNCHANGED operatorVars
  BY <1>u, <1>7 DEF operatorVars
<1>. QED
  BY <1>1, <1>2, <1>3, <1>4, <1>5, <1>6, <1>7 DEF OperatorNext

\* Both controllers start in the invariant.
LEMMA OperatorInitInv == OperatorInit => OperatorInv
<1>1. OperatorInit => CoreInv
  BY InitIInv DEF OperatorInit, IInv
<1>2. RepoInit => RepoTypeOK /\ RepoJobOK
  BY RenderedAssumption DEF RepoInit, RepoTypeOK, RepoJobOK
<1>. QED
  BY <1>1, <1>2 DEF OperatorInit, OperatorInv

\* The invariant that the theorems below rest on.
LEMMA OperatorInductive == OperatorSpec => []OperatorInv
BY OperatorInitInv, OperatorStep, PTL DEF OperatorSpec

\* With both controllers at work every variable keeps its type: in particular
\* the repository controller renders a Webapp only from an Image with a build
\* (webapprepository_controller.go), and what it stores is a Webapp for the other.
THEOREM OperatorTypeCorrect == OperatorSpec => []OperatorTypeOK
<1>1. OperatorInv => OperatorTypeOK
  BY DEF OperatorInv, CoreInv, OperatorTypeOK
<1>. QED
  BY <1>1, OperatorInductive, PTL

-----------------------------------------------------------------------------
(* The shape of the ingress.                                               *)

\* The repository controller has no part in the ingress.
LEMMA OperatorShapeStep ==
  ASSUME OperatorInv, ShapeInv, [OperatorNext]_operatorVars
  PROVE  ShapeInv'
<1>1. CASE [Next]_vars
  BY <1>1, ShapeStep DEF OperatorInv
<1>2. CASE Aside
  BY <1>2 DEF Aside, ShapeInv, Shaped, jobVars
<1>3. ASSUME NEW w \in Webapps, NEW o \in WebappObject \cup {None}, Overwrites(w, o)
      PROVE  ShapeInv'
  <2>1. store = [k \in Kinds |-> store[k]] /\ "ingress" \in Kinds
    BY KindsOfObjects DEF OperatorInv, CoreInv, TypeOK, ClusterTypeOK, AreObjects
  <2>2. store'.ingress = store.ingress /\ cache' = cache /\ ing' = ing
    BY <1>3, <2>1 DEF Overwrites, jobVars
  <2>. QED
    BY <2>2 DEF ShapeInv, Shaped
<1>. QED
  BY <1>1, <1>2, <1>3, OperatorSteps

\* The global ingress keeps its shape when Webapps are overwritten, deletion
\* timestamp, finalizer and all, while their routes are being written or taken
\* away.
THEOREM IngressWellFormedInOperator == OperatorSpec => []IngressWellFormed
<1>1. OperatorInit => ShapeInv
  BY ShapeInit DEF OperatorInit
<1>2. ShapeInv /\ OperatorInv /\ [OperatorNext]_operatorVars => ShapeInv'
  BY OperatorShapeStep
<1>. QED
  BY <1>1, <1>2, ShapeSuffices, OperatorInductive, PTL DEF OperatorSpec

-----------------------------------------------------------------------------
(* Reachability.                                                           *)

\* Whoever overwrites a Webapp gives notice of it: what is then missing for the
\* Webapp is owed by the reconcile to come.
LEMMA OverwritesKeepsReach ==
  ASSUME CoreInv, ReachInv, NEW w \in Webapps, NEW o \in WebappObject \cup {None},
         Overwrites(w, o)
  PROVE  ReachInv'
<1>1. UNCHANGED <<cache, queue, pc, cur, obj, ing>>
  BY DEF Overwrites, jobVars
<1>2. CASE UNCHANGED <<store, stale>>
  BY <1>1, <1>2
  DEF ReachInv, NoticeInv, WorksOnNewest, LabelsDiffer, OnlyLaggyLag, HoldsIngress,
      ProxiedInv, RoutedInv, Live, Owes, Unseen, Proxied, Routed, ServerRules
<1>3. CASE /\ store' = [store EXCEPT !.webapp[w] = o]
           /\ stale' = stale \cup {<<"webapp", w>>}
  <2>1. /\ store = [k \in Kinds |-> store[k]]
        /\ store.webapp \in [Webapps -> WebappObject \cup {None}]
        /\ {"webapp", "proxy", "ingress"} \subseteq Kinds
    BY ObjectsTypes, KindsOfObjects DEF CoreInv, TypeOK, ClusterTypeOK, AreObjects
  <2>2. /\ store'.webapp = [store.webapp EXCEPT ![w] = o]
        /\ store'.proxy = store.proxy /\ store'.ingress = store.ingress
    BY <1>3, <2>1
  <2>3. /\ Unseen(w)'
        /\ \A v \in Webapps \ {w} : store'.webapp[v] = store.webapp[v]
        /\ \A v \in Webapps \ {w} : Unseen(v)' <=> Unseen(v)
    BY <1>1, <1>3, <2>1, <2>2 DEF Unseen
  <2>4. NoticeInv'
    <3>1. WorksOnNewest'
      BY <1>1, <2>3, BusyTypes DEF CoreInv, ReachInv, NoticeInv, WorksOnNewest
    <3>2. LabelsDiffer'
      BY <1>1 DEF ReachInv, NoticeInv, LabelsDiffer
    <3>3. OnlyLaggyLag'
      BY <1>3, DistinctAssumption DEF ReachInv, NoticeInv, OnlyLaggyLag
    <3>. QED
      BY <3>1, <3>2, <3>3 DEF NoticeInv
  <2>5. HoldsIngress'
    BY <1>1, <2>2 DEF ReachInv, HoldsIngress
  <2>6. ProxiedInv'
    BY <1>1, <2>2, <2>3 DEF ReachInv, ProxiedInv, Live, Owes, Proxied
  <2>7. RoutedInv'
    BY <1>1, <2>2, <2>3 DEF ReachInv, RoutedInv, Live, Owes, Routed, ServerRules
  <2>. QED
    BY <2>4, <2>5, <2>6, <2>7 DEF ReachInv
<1>. QED
  BY <1>2, <1>3 DEF Overwrites

\* No step of the two controllers together forgets what is missing.
LEMMA OperatorReachStep ==
  ASSUME OperatorInv, ReachInv, OwnProxies, FreshIngressRead,
         [OperatorNext]_operatorVars
  PROVE  ReachInv'
<1>1. CASE [Next]_vars
  BY <1>1, ReachStep DEF OperatorInv
<1>2. CASE Aside
  BY <1>2
  DEF Aside, jobVars, ReachInv, NoticeInv, WorksOnNewest, LabelsDiffer, OnlyLaggyLag,
      HoldsIngress, ProxiedInv, RoutedInv, Live, Owes, Unseen, Proxied, Routed,
      ServerRules
<1>3. ASSUME NEW w \in Webapps, NEW o \in WebappObject \cup {None}, Overwrites(w, o)
      PROVE  ReachInv'
  BY <1>3, OverwritesKeepsReach DEF OperatorInv
<1>. QED
  BY <1>1, <1>2, <1>3, OperatorSteps

\* With the repository controller at work as well, each Webapp that exists when
\* everything has settled is reachable: being overwritten without a finalizer
\* (webapprepository_controller.go:98-126), in the middle of a reconcile or of a
\* finalization, costs no Webapp its proxy service or its route.  As without it
\* (ReachSettles) this takes that Webapps have proxy services of their own and that
\* the ingress that a reconcile reads (webapp_controller.go:411) is the server's:
\* otherwise run lost_route is what happens.
THEOREM ReachSettlesInOperator ==
  ASSUME OwnProxies
  PROVE  OperatorSpec /\ [][FreshIngressRead]_vars => []ReachableAtRest
<1>1. OperatorInit => ReachInv
  BY ReachInit DEF OperatorInit
<1>2. /\ ReachInv /\ OperatorInv
      /\ [OperatorNext]_operatorVars /\ [FreshIngressRead]_vars
      => ReachInv'
  BY OperatorReachStep, FreshReads
<1>. QED
  BY <1>1, <1>2, ReachSuffices, OperatorInductive, PTL DEF OperatorSpec

-----------------------------------------------------------------------------
(* Who decides on Webapps, and who owns them.                              *)

\* A step of the Webapp controller leaves each Webapp as others want it.
LEMMA WorkerObeys ==
  ASSUME OperatorInv, WebappWorker
  PROVE  \A w \in Webapps : AsUsersWant(store.webapp[w], store'.webapp[w])
<1>1. Next
  BY DEF WebappWorker, Next
<1>2. ops' = ops
  BY DEF WebappWorker, GetNothing, Get, CallFails, ReconcileStep, UpdateLabels,
         AddFinalizer, CreateNamespace, ReadIngress, DeleteProxy, PruneIngress,
         RemoveFinalizer, UpsertDeployment, UpsertService, UpsertProxy, UpdateIngress,
         Fails, Retry, Done, Go
<1>3. [UsersDecide]_vars
  BY <1>1, UsersDecideStep DEF OperatorInv
<1>. QED
  BY <1>2, <1>3 DEF UsersDecide, AsUsersWant, vars, clusterVars

\* The Webapp controller leaves decisions to the repository controller as it
\* leaves them to users (webapp_controller.go:94, 104, 127): the server refuses an
\* Update from a copy that the repository controller has overwritten
\* (webapprepository_controller.go:125-126) in the meantime.
THEOREM NothingUndoneAlways == OperatorSpec => NothingUndone
<1>. DEFINE Obeys ==
       WebappWorker =>
         \A w \in Webapps : AsUsersWant(store.webapp[w], store'.webapp[w])
<1>1. OperatorInv /\ [OperatorNext]_operatorVars => [Obeys]_operatorVars
  BY WorkerObeys
<1>. QED
  BY <1>1, OperatorInductive, PTL DEF OperatorSpec, NothingUndone

\* A repository that the server, the cache or a reconcile has is one of those that
\* users have created.
RepoUidsOK ==
  /\ \A w \in Webapps :
       /\ repos[w] # None => repos[w].uid \in 1 .. repoUids[w]
       /\ seenRepos[w] # None => seenRepos[w].uid \in 1 .. repoUids[w]
  /\ rpc # "idle" => repo.uid \in 1 .. repoUids[key]

OwnersInv == OperatorInv /\ RepoUidsOK /\ AllOwned

\* No step but the repository controller's brings a Webapp into existence or
\* changes what one runs.
LEMMA OnlyUpsertCreates ==
  ASSUME OperatorInv, [OperatorNext]_operatorVars, ~UpsertWebapp,
         NEW w \in Webapps, Live(w)'
  PROVE  Live(w) /\ store'.webapp[w].spec = store.webapp[w].spec
<1>. DEFINE Same == Live(w) /\ store'.webapp[w].spec = store.webapp[w].spec
<1>. SUFFICES Same
  OBVIOUS
<1>. ObjectsOK
  BY DEF OperatorInv, CoreInv, TypeOK, ClusterTypeOK, ObjectsOK
<1>1. CASE WebappWorker
  BY <1>1, WorkerObeys DEF AsUsersWant, Live
<1>2. CASE store'.webapp = store.webapp
  BY <1>2 DEF Live
<1>3. CASE RepoWorker
  BY <1>2, <1>3
  DEF RepoWorker, RepoCallFails, RepoFails, RepoStep, GetRepo, GetImage, CreateImage,
      clusterVars
<1>4. ASSUME NEW v \in Webapps, NEW o, Put("webapp", v, o), store.webapp[v] # None,
             \/ o = None
             \/ o = [store.webapp[v] EXCEPT !.deleting = TRUE]
      PROVE  Same
  <2>1. store.webapp[v] \in WebappObject
    BY <1>4, ObjectsTypes DEF ObjectsOK
  <2>2. o # None => o.spec = store.webapp[v].spec
    BY <1>4, <2>1 DEF WebappObject
  <2>. QED
    BY <1>4, <2>2, WebappPut DEF OperatorInv, Live
<1>5. CASE Outside
  <2>1. CASE \E v \in Webapps : UserDelete(v)
    <3>1. PICK v \in Webapps : UserDelete(v)
      BY <2>1
    <3>. QED
      BY <1>4, <3>1 DEF UserDelete, UserWrites
  <2>2. CASE RepoUserStep
    BY <1>2, <2>2
    DEF RepoUserStep, UserCreatesRepo, UserEditsRepo, UserDeletesRepo, UserWritesRepo
  <2>3. CASE \E v \in Webapps : BuildStarts(v)
    BY <1>2, <2>3 DEF BuildStarts, clusterVars
  <2>. QED
    BY <1>5, <2>1, <2>2, <2>3 DEF Outside
<1>6. CASE Background
  <2>1. CASE \E kind \in Kinds : \E name \in Names(kind) : Deliver(kind, name)
    BY <1>2, <2>1 DEF Deliver
  <2>2. CASE \E kind \in {"deployment", "service"}, v \in Webapps : Collect(kind, v)
    BY <1>2, <2>2, PutWebapps, KindsOfObjects DEF Collect
  <2>3. CASE \E v \in Webapps : DeliverRepository(v) \/ DeliverImage(v) \/ BuildEnds(v)
    BY <1>2, <2>3 DEF DeliverRepository, DeliverImage, BuildEnds, clusterVars
  <2>4. CASE \E v \in Webapps : CollectWebapp(v)
    <3>1. PICK v \in Webapps : CollectWebapp(v)
      BY <2>4
    <3>. QED
      BY <1>4, <3>1 DEF CollectWebapp, WebappOrphaned
  <2>. QED
    BY <1>6, <2>1, <2>2, <2>3, <2>4 DEF Background
<1>7. CASE OperatorRestart \/ OperatorResync
  BY <1>2, <1>7 DEF OperatorRestart, Restart, OperatorResync, Resync
<1>8. CASE UNCHANGED operatorVars
  BY <1>2, <1>8 DEF operatorVars, vars, clusterVars
<1>. QED
  BY <1>1, <1>3, <1>5, <1>6, <1>7, <1>8 DEF OperatorNext

\* Incarnations are only ever counted up, and what a copy shows has been counted.
LEMMA RepoUidsStep ==
  ASSUME OwnersInv, [OperatorNext]_operatorVars
  PROVE  /\ RepoUidsOK'
         /\ \A w \in Webapps : repoUids[w] \in Nat /\ repoUids'[w] \in Nat
                               /\ repoUids[w] <= repoUids'[w]
<1>. /\ RepoTypeOK /\ RepoJobOK /\ RepoUidsOK
     /\ \A w \in Webapps : repoUids[w] \in Nat
  BY DEF OwnersInv, OperatorInv, RepoTypeOK
<1>. DEFINE Counted ==
       /\ RepoUidsOK'
       /\ \A w \in Webapps : repoUids'[w] \in Nat /\ repoUids[w] <= repoUids'[w]
<1>. SUFFICES Counted
  OBVIOUS
<1>1. ASSUME UNCHANGED <<repos, seenRepos, repoUids>>,
             \/ rpc' = "idle"
             \/ UNCHANGED <<key, repo>> /\ (rpc' = rpc \/ rpc # "idle")
      PROVE  Counted
  BY <1>1 DEF RepoUidsOK
<1>2. CASE WebappWorker
  BY <1>1, <1>2 DEF WebappWorker, repoVars, registryVars, repoJobVars
<1>3. CASE RepoWorker
  <2>1. CASE GetImage \/ CreateImage \/ UpsertWebapp \/ RepoFails
    <3>1. UNCHANGED <<repos, seenRepos, repoUids>>
      BY <2>1 DEF GetImage, CreateImage, UpsertWebapp, RepoFails, registryVars
    <3>2. rpc' = "idle" \/ (UNCHANGED <<key, repo>> /\ rpc # "idle")
      BY <2>1 DEF GetImage, CreateImage, UpsertWebapp, RepoFails, RepoGo, RepoDone,
                  RepoRetry, RepoDrop
    <3>. QED
      BY <1>1, <3>1, <3>2
  <2>2. ASSUME NEW w \in Webapps, GetRepo(w)
        PROVE  Counted
    <3>1. UNCHANGED <<repos, seenRepos, repoUids>>
      BY <2>2 DEF GetRepo, registryVars
    <3>2. \/ UNCHANGED <<rpc, key, repo>>
          \/ key' = w /\ repo' = seenRepos[w] /\ seenRepos[w] # None
      BY <2>2 DEF GetRepo, repoJobVars
    <3>. QED
      BY <1>1, <3>1, <3>2 DEF RepoUidsOK
  <2>. QED
    BY <1>3, <2>1, <2>2 DEF RepoWorker, RepoStep, RepoCallFails
<1>4. CASE RepoUserStep
  <2>1. PICK w \in Webapps : \/ \E s \in RepoSpecs : \/ UserCreatesRepo(w, s)
                                                     \/ UserEditsRepo(w, s)
                             \/ UserDeletesRepo(w)
    BY <1>4 DEF RepoUserStep
  <2>2. /\ UNCHANGED <<seenRepos, rpc, key, repo>>
        /\ \/ repoUids' = [repoUids EXCEPT ![w] = @ + 1]
           \/ repoUids' = repoUids
        /\ \A v \in Webapps \ {w} : repos'[v] = repos[v]
    BY <2>1 DEF UserCreatesRepo, UserEditsRepo, UserDeletesRepo, UserWritesRepo,
                repoJobVars, RepoTypeOK
  <2>3. \A v \in Webapps : repoUids'[v] \in Nat /\ repoUids[v] <= repoUids'[v]
    BY <2>2 DEF RepoTypeOK
  <2>4. repos'[w] # None => repos'[w].uid \in 1 .. repoUids'[w]
    <3>1. CASE \E s \in RepoSpecs : UserCreatesRepo(w, s)
      BY <3>1 DEF UserCreatesRepo, UserWritesRepo, RepoTypeOK
    <3>2. CASE \E s \in RepoSpecs : UserEditsRepo(w, s)
      BY <3>2 DEF UserEditsRepo, UserWritesRepo, RepoTypeOK, RepositoryObject, RepoUidsOK
    <3>3. CASE UserDeletesRepo(w)
      BY <3>3 DEF UserDeletesRepo, UserWritesRepo, RepoTypeOK
    <3>. QED
      BY <2>1, <3>1, <3>2, <3>3
  <2>5. rpc # "idle" => key \in Webapps
    BY DEF RepoTypeOK, RepoJobOK
  <2>6. \A n : \A v \in Webapps : n \in 1 .. repoUids[v] => n \in 1 .. repoUids'[v]
    BY <2>3
  <2>7. \A v \in Webapps \ {w} : repos'[v] # None => repos'[v].uid \in 1 .. repoUids'[v]
    BY <2>2, <2>6 DEF RepoUidsOK
  <2>8. \A v \in Webapps : seenRepos'[v] # None => seenRepos'[v].uid \in 1 .. repoUids'[v]
    BY <2>2, <2>6 DEF RepoUidsOK
  <2>9. rpc' # "idle" => repo'.uid \in 1 .. repoUids'[key']
    BY <2>2, <2>5, <2>6 DEF RepoUidsOK
  <2>. QED
    BY <2>3, <2>4, <2>7, <2>8, <2>9 DEF RepoUidsOK
<1>5. ASSUME NEW w \in Webapps, DeliverRepository(w)
      PROVE  Counted
  BY <1>5 DEF DeliverRepository, RepoUidsOK, RepoTypeOK, repoJobVars
<1>6. CASE Outside \/ Background
  <2>1. CASE \E w \in Webapps : DeliverImage(w) \/ BuildStarts(w) \/ BuildEnds(w)
    BY <1>1, <2>1 DEF DeliverImage, BuildStarts, BuildEnds, repoJobVars
  <2>2. CASE UNCHANGED repoVars
    BY <1>1, <2>2 DEF repoVars, registryVars, repoJobVars
  <2>. QED
    BY <1>4, <1>5, <1>6, <2>1, <2>2 DEF Outside, Background, CollectWebapp
<1>7. CASE OperatorRestart
  BY <1>7 DEF OperatorRestart, RepoDrop, RepoUidsOK
<1>8. CASE OperatorResync \/ UNCHANGED operatorVars
  BY <1>1, <1>8
  DEF OperatorResync, operatorVars, repoVars, registryVars, repoJobVars
<1>. QED
  BY <1>2, <1>3, <1>6, <1>7, <1>8 DEF OperatorNext

\* Who a Webapp belongs to is only changed by who writes the whole of it.
LEMMA OwnersInvStep ==
  ASSUME OwnersInv, [OperatorNext]_operatorVars
  PROVE  OwnersInv'
<1>1. OperatorInv' /\ RepoUidsOK'
  BY OperatorStep, RepoUidsStep DEF OwnersInv
<1>2. \A w \in Webapps : \A n : n \in 1 .. repoUids[w] => n \in 1 .. repoUids'[w]
  BY RepoUidsStep
<1>3. CASE UpsertWebapp
  <2>1. /\ rpc # "idle" /\ key \in Webapps /\ repo.uid \in 1 .. repoUids[key]
        /\ ownerUid \in [Webapps -> Nat]
    BY <1>3 DEF UpsertWebapp, OwnersInv, OperatorInv, RepoTypeOK, RepoJobOK, RepoUidsOK
  <2>2. /\ store = [k \in Kinds |-> store[k]] /\ "webapp" \in Kinds
        /\ store.webapp \in [Webapps -> WebappObject \cup {None}]
    BY ObjectsTypes, KindsOfObjects
    DEF OwnersInv, OperatorInv, CoreInv, TypeOK, ClusterTypeOK, AreObjects
  <2>3. ASSUME NEW o, PutWebapp(o, repo.uid)
        PROVE  \A w \in Webapps : Live(w)' => ownerUid'[w] \in 1 .. repoUids[w]
    <3>1. CASE UNCHANGED <<store, ownerUid>>
      BY <3>1 DEF OwnersInv, AllOwned, Live
    <3>2. CASE /\ store' = [store EXCEPT !.webapp[key] = o]
               /\ ownerUid' = [ownerUid EXCEPT ![key] = repo.uid]
      <4>1. store'.webapp = [store.webapp EXCEPT ![key] = o]
        BY <2>2, <3>2
      <4>. QED
        BY <2>1, <2>2, <3>2, <4>1 DEF OwnersInv, AllOwned, Live
    <3>. QED
      BY <2>3, <3>1, <3>2 DEF PutWebapp, Unwritten
  <2>4. CASE WebappUnwritten
    BY <1>1, <1>2, <2>4 DEF WebappUnwritten, clusterVars, OwnersInv, AllOwned, Live
  <2>. QED
    BY <1>1, <1>2, <1>3, <2>3, <2>4
    DEF UpsertWebapp, CreateWebapp, UpdateWebapp, OwnersInv, AllOwned
<1>4. CASE ~UpsertWebapp
  <2>1. ownerUid' = ownerUid
    BY <1>4
    DEF OperatorNext, WebappWorker, RepoWorker, RepoCallFails, RepoFails, RepoStep,
        GetRepo, GetImage, CreateImage, Outside, RepoUserStep, UserCreatesRepo,
        UserEditsRepo, UserDeletesRepo, UserWritesRepo, BuildStarts, Background,
        DeliverRepository, DeliverImage, CollectWebapp, BuildEnds, OperatorRestart,
        OperatorResync, operatorVars, repoVars, registryVars
  <2>2. \A w \in Webapps : Live(w)' => Live(w)
    BY <1>4, OnlyUpsertCreates DEF OwnersInv
  <2>. QED
    BY <1>1, <1>2, <2>1, <2>2 DEF OwnersInv, AllOwned
<1>. QED
  BY <1>3, <1>4

\* No Webapp is without an owner that the collector can miss: a reconcile that
\* writes a Webapp from a copy of a repository that is gone, edited or created
\* anew (webapprepository_controller.go:96-127) leaves one that can be collected.
THEOREM AllOwnedAlways == OperatorSpec => []AllOwned
<1>1. OperatorInit => OwnersInv
  <2>1. \A w \in Webapps : NoObjects.webapp[w] = None
    BY KindsOfObjects DEF NoObjects
  <2>. QED
    BY <2>1, OperatorInitInv
    DEF OperatorInit, Init, ClusterInit, RepoInit, OwnersInv, RepoUidsOK, AllOwned, Live
<1>2. OwnersInv => AllOwned
  BY DEF OwnersInv
<1>. QED
  BY <1>1, <1>2, OwnersInvStep, PTL DEF OperatorSpec

-----------------------------------------------------------------------------
(* Builds.                                                                 *)

\* The latest build that a copy of an Image knows of, if it knows of one.
BuildOf(i) == IF i = None THEN {} ELSE {i.latest} \ {NoBuild}

\* What a Webapp runs is no later than what any copy of its Image knows of, and a
\* copy knows of no later build than the one it was made from; a copy without a
\* build will get one that is later than all builds so far.
BuildsInOrder ==
  /\ \A w \in Webapps :
       /\ InOrder(BuildOf(images[w]) \cup BuildOf(seenImages[w]) \cup Running(w), {builds})
       /\ InOrder(BuildOf(seenImages[w]), BuildOf(images[w]))
       /\ InOrder(Running(w), BuildOf(images[w]) \cup BuildOf(seenImages[w]))
  /\ rpc = "upsertWebapp" =>
       /\ InOrder(Running(key), BuildOf(image))
       /\ InOrder(BuildOf(image),
                   BuildOf(images[key]) \cup BuildOf(seenImages[key]) \cup {builds})

\* A Webapp spec tells which build it was rendered for.
BuildsDiffer ==
  \A p, q \in RepoSpecs \X Builds : Rendered[p] = Rendered[q] => p[2] = q[2]

\* A Webapp that is rendered from an Image runs the build that the Image names.
LEMMA RendersBuild ==
  ASSUME OperatorInv, BuildsDiffer, UpsertWebapp, NEW w \in Webapps
  PROVE  \/ Running(w)' \subseteq Running(w)
         \/ w = key /\ Running(w)' \subseteq BuildOf(image)
<1>1. /\ rpc = "upsertWebapp" /\ key \in Webapps
      /\ repo \in RepositoryObject /\ image \in ImageObject /\ image.latest \in Builds
      /\ image # None /\ image.latest # NoBuild
  BY DEF UpsertWebapp, OperatorInv, RepoTypeOK, RepoJobOK, ImageObject
<1>2. /\ store = [k \in Kinds |-> store[k]] /\ "webapp" \in Kinds
      /\ store.webapp \in [Webapps -> WebappObject \cup {None}]
  BY ObjectsTypes, KindsOfObjects DEF OperatorInv, CoreInv, TypeOK, ClusterTypeOK, AreObjects
<1>3. ASSUME NEW uid
      PROVE  \A s \in RepoSpecs, b \in Builds :
               Generated(uid).spec = Rendered[<<s, b>>] => b \in BuildOf(image)
  <2>1. repo.spec \in RepoSpecs
    BY <1>1 DEF RepositoryObject
  <2>2. Generated(uid).spec = Rendered[<<repo.spec, image.latest>>]
    BY DEF Generated
  <2>3. ASSUME NEW s \in RepoSpecs, NEW b \in Builds,
               Rendered[<<repo.spec, image.latest>>] = Rendered[<<s, b>>]
        PROVE  b = image.latest
    BY <1>1, <2>1, <2>3 DEF BuildsDiffer
  <2>. QED
    BY <1>1, <2>2, <2>3 DEF BuildOf
<1>4. ASSUME NEW o, PutWebapp(o, repo.uid), o # None => \E uid : o = Generated(uid)
      PROVE  \/ Running(w)' \subseteq Running(w)
             \/ w = key /\ Running(w)' \subseteq BuildOf(image)
  <2>1. CASE store' = store
    BY <2>1 DEF Running
  <2>2. CASE store' = [store EXCEPT !.webapp[key] = o]
    <3>1. store'.webapp = [store.webapp EXCEPT ![key] = o]
      BY <1>2, <2>2
    <3>2. CASE w # key
      BY <1>1, <1>2, <3>1, <3>2 DEF Running
    <3>3. CASE w = key
      <4>1. store'.webapp[w] = o
        BY <1>2, <3>1, <3>3
      <4>2. ASSUME NEW b \in Running(w)'
            PROVE  b \in BuildOf(image)
        <5>1. PICK t \in RepoSpecs : b \in Builds /\ o # None /\ o.spec = Rendered[<<t, b>>]
          BY <4>1 DEF Running
        <5>2. PICK uid : o = Generated(uid)
          BY <1>4, <5>1
        <5>. QED
          BY <1>3, <5>1, <5>2
      <4>. QED
        BY <3>3, <4>2
    <3>. QED
      BY <3>2, <3>3
  <2>. QED
    BY <1>4, <2>1, <2>2 DEF PutWebapp, Unwritten
<1>5. CASE WebappUnwritten
  BY <1>5 DEF WebappUnwritten, clusterVars, Running
<1>6. CASE CreateWebapp
  BY <1>4, <1>6 DEF CreateWebapp
<1>7. CASE UpdateWebapp
  BY <1>4, <1>7 DEF UpdateWebapp
<1>. QED
  BY <1>5, <1>6, <1>7 DEF UpsertWebapp

\* The other steps make no Webapp run another build.
LEMMA RunsOn ==
  ASSUME OperatorInv, [OperatorNext]_operatorVars, ~UpsertWebapp, NEW w \in Webapps
  PROVE  Running(w)' \subseteq Running(w)
BY OnlyUpsertCreates DEF Running, Live

\* Hence what a Webapp runs is kept or replaced by what the Image in memory names.
LEMMA BuildsForward ==
  ASSUME OperatorInv, BuildsDiffer, BuildsInOrder, [OperatorNext]_operatorVars,
         NEW w \in Webapps
  PROVE  InOrder(Running(w), Running(w)')
<1>1. ASSUME NEW b \in Running(w), NEW c \in Running(w)
      PROVE  b = c
  <2>1. PICK s \in RepoSpecs, t \in RepoSpecs :
          /\ b \in Builds /\ c \in Builds
          /\ Rendered[<<s, b>>] = Rendered[<<t, c>>]
    BY DEF Running
  <2>. QED
    BY <2>1 DEF BuildsDiffer
<1>2. InOrder(Running(w), Running(w))
  BY <1>1 DEF InOrder, Running, Builds
<1>3. CASE Running(w)' \subseteq Running(w)
  BY <1>2, <1>3 DEF InOrder
<1>4. CASE UpsertWebapp /\ w = key /\ Running(w)' \subseteq BuildOf(image)
  BY <1>4 DEF UpsertWebapp, BuildsInOrder, InOrder
<1>. QED
  BY <1>3, <1>4, RendersBuild, RunsOn

\* No step brings builds out of order: a build that ends is the latest of all, and
\* informers and reconciles only copy what is there.
LEMMA BuildsStep ==
  ASSUME OperatorInv, BuildsDiffer, BuildsInOrder, [OperatorNext]_operatorVars
  PROVE  BuildsInOrder'
<1>1. /\ builds \in Nat
      /\ images \in [Webapps -> ImageObject \cup {None}]
      /\ seenImages \in [Webapps -> ImageObject \cup {None}]
      /\ rpc # "idle" => key \in Webapps
  BY RenderedAssumption DEF OperatorInv, RepoTypeOK, RepoJobOK
<1>2. ASSUME UNCHANGED <<images, seenImages, builds>>, ~UpsertWebapp,
             rpc' = "upsertWebapp" => rpc = "upsertWebapp" /\ UNCHANGED <<key, image>>
      PROVE  BuildsInOrder'
  BY <1>1, <1>2, RunsOn DEF BuildsInOrder, InOrder, BuildOf
<1>3. CASE UpsertWebapp
  <2>1. /\ UNCHANGED <<images, seenImages, builds>> /\ rpc' = "idle"
        /\ rpc = "upsertWebapp"
    BY <1>3 DEF UpsertWebapp, RepoDone, RepoRetry, RepoDrop
  <2>2. ASSUME NEW w \in Webapps
        PROVE  InOrder(Running(w)',
                       BuildOf(images[w]) \cup BuildOf(seenImages[w]) \cup {builds})
    BY <1>3, <2>1, RendersBuild DEF BuildsInOrder, InOrder
  <2>. QED
    BY <2>1, <2>2 DEF BuildsInOrder, InOrder, BuildOf
<1>4. CASE GetImage
  <2>1. UNCHANGED <<images, seenImages, builds>> /\ ~UpsertWebapp
    BY <1>4 DEF GetImage, UpsertWebapp, registryVars
  <2>2. \/ rpc' # "upsertWebapp"
        \/ key' = key /\ key \in Webapps /\ image' = seenImages[key]
    BY <1>1, <1>4 DEF GetImage, RepoGo, RepoDone, RepoDrop
  <2>3. \A w \in Webapps : Running(w)' \subseteq Running(w)
    BY <2>1, RunsOn
  <2>4. \A w \in Webapps : /\ BuildOf(images[w])' = BuildOf(images[w])
                         /\ BuildOf(seenImages[w])' = BuildOf(seenImages[w])
    BY <2>1 DEF BuildOf
  <2>5. rpc' = "upsertWebapp" =>
          key' = key /\ key \in Webapps /\ BuildOf(image)' = BuildOf(seenImages[key])
    BY <2>2 DEF BuildOf
  <2>6. \A w \in Webapps :
          /\ InOrder(BuildOf(images[w]) \cup BuildOf(seenImages[w]) \cup Running(w), {builds})'
          /\ InOrder(BuildOf(seenImages[w]), BuildOf(images[w]))'
          /\ InOrder(Running(w), BuildOf(images[w]) \cup BuildOf(seenImages[w]))'
    BY <2>1, <2>3, <2>4 DEF BuildsInOrder, InOrder
  <2>7. \A w \in Webapps : InOrder(BuildOf(seenImages[w]), BuildOf(seenImages[w]))
    BY <1>1 DEF InOrder, BuildOf, ImageObject, Builds, NoBuild
  <2>8. ASSUME rpc' = "upsertWebapp"
        PROVE  /\ InOrder(Running(key), BuildOf(image))'
               /\ InOrder(BuildOf(image),
                          BuildOf(images[key]) \cup BuildOf(seenImages[key])
                            \cup {builds})'
    BY <2>1, <2>3, <2>4, <2>5, <2>7, <2>8 DEF BuildsInOrder, InOrder
  <2>. QED
    BY <2>6, <2>8 DEF BuildsInOrder
<1>5. CASE CreateImage
  <2>1. /\ UNCHANGED <<seenImages, builds>> /\ rpc' = "idle" /\ ~UpsertWebapp
        /\ key \in Webapps
        /\ \/ images' = images
           \/ \E i : images' = [images EXCEPT ![key] = i] /\ BuildOf(i) = {}
    BY <1>1, <1>5 DEF CreateImage, UpsertWebapp, RepoRetry, RepoDrop, PutImage, BuildOf
  <2>2. \A w \in Webapps : BuildOf(images'[w]) \subseteq BuildOf(images[w])
    BY <1>1, <2>1
  <2>3. \A w \in Webapps : Running(w)' \subseteq Running(w)
    BY <2>1, RunsOn
  <2>4. \A w \in Webapps : BuildOf(images[w])' \subseteq BuildOf(images[w])
    BY <2>2 DEF BuildOf
  <2>5. \A w \in Webapps : BuildOf(seenImages[w])' = BuildOf(seenImages[w])
    BY <2>1 DEF BuildOf
  <2>. QED
    BY <2>1, <2>3, <2>4, <2>5 DEF BuildsInOrder, InOrder
<1>6. ASSUME NEW v \in Webapps, DeliverImage(v), ~UpsertWebapp
      PROVE  BuildsInOrder'
  <2>1. /\ UNCHANGED <<images, builds, rpc, key, image>>
        /\ seenImages' = [seenImages EXCEPT ![v] = images[v]]
    BY <1>6 DEF DeliverImage, repoJobVars
  <2>2. \A w \in Webapps : Running(w)' \subseteq Running(w)
    BY <1>6, RunsOn
  <2>3. \A w \in Webapps : /\ BuildOf(images[w])' = BuildOf(images[w])
                         /\ BuildOf(seenImages[w])' =
                              IF w = v THEN BuildOf(images[w]) ELSE BuildOf(seenImages[w])
    BY <1>1, <2>1 DEF BuildOf
  <2>4. BuildOf(image)' = BuildOf(image)
    BY <2>1 DEF BuildOf
  <2>5. \A w \in Webapps : InOrder(BuildOf(images[w]), BuildOf(images[w]))
    BY <1>1 DEF InOrder, BuildOf, ImageObject, Builds, NoBuild
  <2>. QED
    BY <1>1, <2>1, <2>2, <2>3, <2>4, <2>5 DEF BuildsInOrder, InOrder
<1>7. ASSUME NEW v \in Webapps, BuildStarts(v), ~UpsertWebapp
      PROVE  BuildsInOrder'
  <2>1. /\ UNCHANGED <<seenImages, builds, rpc, key, image>>
        /\ images' = [images EXCEPT ![v] = [images[v] EXCEPT !.ready = FALSE]]
        /\ images[v] \in ImageObject /\ images[v] # None
    BY <1>1, <1>7 DEF BuildStarts, PutImage, repoJobVars
  <2>2. \A w \in Webapps : BuildOf(images'[w]) \subseteq BuildOf(images[w])
    BY <1>1, <2>1 DEF BuildOf, ImageObject
  <2>3. \A w \in Webapps : Running(w)' \subseteq Running(w)
    BY <1>7, RunsOn
  <2>4. \A w \in Webapps : BuildOf(images[w])' \subseteq BuildOf(images[w])
    BY <2>2 DEF BuildOf
  <2>5. /\ \A w \in Webapps : BuildOf(seenImages[w])' = BuildOf(seenImages[w])
        /\ BuildOf(image)' = BuildOf(image)
    BY <2>1 DEF BuildOf
  <2>6. /\ \A w \in Webapps :
             /\ InOrder(BuildOf(images[w]) \cup BuildOf(seenImages[w]) \cup Running(w), {builds})'
             /\ InOrder(BuildOf(seenImages[w]), BuildOf(images[w]))'
             /\ InOrder(Running(w), BuildOf(images[w]) \cup BuildOf(seenImages[w]))'
    BY <2>1, <2>3, <2>4, <2>5 DEF BuildsInOrder, InOrder
  <2>7. rpc = "upsertWebapp" =>
          /\ InOrder(Running(key), BuildOf(image))'
          /\ InOrder(BuildOf(image),
                     BuildOf(images[key]) \cup BuildOf(seenImages[key]) \cup {builds})'
    BY <1>1, <2>1, <2>3, <2>4, <2>5 DEF BuildsInOrder, InOrder
  <2>. QED
    BY <2>1, <2>6, <2>7 DEF BuildsInOrder
<1>8. ASSUME NEW v \in Webapps, BuildEnds(v), ~UpsertWebapp
      PROVE  BuildsInOrder'
  <2>1. /\ UNCHANGED <<seenImages, rpc, key, image>> /\ builds' = builds + 1
        /\ images' = [images EXCEPT ![v] =
                        [images[v] EXCEPT !.ready = TRUE, !.latest = builds + 1]]
        /\ images[v] \in ImageObject
    BY <1>1, <1>8 DEF BuildEnds, PutImage, repoJobVars
  <2>3. \A w \in Webapps : Running(w)' \subseteq Running(w)
    BY <1>8, RunsOn
  <2>4. \A w \in Webapps :
          BuildOf(images[w])' \subseteq IF w = v THEN {builds + 1} ELSE BuildOf(images[w])
    <3>1. ASSUME NEW w \in Webapps \ {v}
          PROVE  BuildOf(images[w])' = BuildOf(images[w])
      BY <1>1, <2>1, <3>1 DEF BuildOf
    <3>2. BuildOf(images[v])' \subseteq {builds + 1}
      BY <1>1, <2>1 DEF BuildOf, ImageObject
    <3>. QED
      BY <3>1, <3>2
  <2>5. /\ \A w \in Webapps : BuildOf(seenImages[w])' = BuildOf(seenImages[w])
        /\ BuildOf(image)' = BuildOf(image)
    BY <2>1 DEF BuildOf
  <2>6. /\ \A w \in Webapps : /\ Running(w) \subseteq Nat
                             /\ BuildOf(seenImages[w]) \subseteq Nat
                             /\ BuildOf(images[w]) \subseteq Nat
        /\ BuildOf(image) \subseteq Nat
    BY <1>1, RenderedAssumption
    DEF Running, BuildOf, ImageObject, Builds, NoBuild, OperatorInv, RepoTypeOK
  <2>8. \A w \in Webapps :
          /\ \A a \in Running(w) \cup BuildOf(images[w]) \cup BuildOf(seenImages[w]) :
               a <= builds
          /\ \A a \in BuildOf(seenImages[w]), b \in BuildOf(images[w]) : a <= b
          /\ \A a \in Running(w), b \in BuildOf(images[w]) \cup BuildOf(seenImages[w]) :
               a <= b
    BY DEF BuildsInOrder, InOrder
  <2>9. ASSUME NEW w \in Webapps
        PROVE  /\ InOrder(BuildOf(images[w]) \cup BuildOf(seenImages[w]) \cup Running(w),
                          {builds})'
               /\ InOrder(BuildOf(seenImages[w]), BuildOf(images[w]))'
               /\ InOrder(Running(w), BuildOf(images[w]) \cup BuildOf(seenImages[w]))'
    <3>1. InOrder(BuildOf(images[w]) \cup BuildOf(seenImages[w]) \cup Running(w), {builds})'
      BY <1>1, <2>1, <2>3, <2>4, <2>5, <2>6, <2>8 DEF InOrder
    <3>2. InOrder(BuildOf(seenImages[w]), BuildOf(images[w]))'
      BY <1>1, <2>4, <2>5, <2>6, <2>8 DEF InOrder
    <3>3. InOrder(Running(w), BuildOf(images[w]) \cup BuildOf(seenImages[w]))'
      BY <1>1, <2>3, <2>4, <2>5, <2>6, <2>8 DEF InOrder
    <3>. QED
      BY <3>1, <3>2, <3>3
  <2>10. ASSUME rpc = "upsertWebapp"
         PROVE  /\ InOrder(Running(key), BuildOf(image))'
                /\ InOrder(BuildOf(image),
                           BuildOf(images[key]) \cup BuildOf(seenImages[key])
                             \cup {builds})'
    <3>1. key \in Webapps /\ key' = key
      BY <1>1, <2>1, <2>10
    <3>2. InOrder(Running(key), BuildOf(image))'
      BY <2>3, <2>5, <2>10, <3>1 DEF BuildsInOrder, InOrder
    <3>3. \A a \in BuildOf(image) :
            /\ a <= builds /\ a <= builds + 1
            /\ \A b \in BuildOf(images[key]) : a <= b
            /\ \A b \in BuildOf(seenImages[key]) : a <= b
      BY <1>1, <2>6, <2>10 DEF BuildsInOrder, InOrder
    <3>4. /\ BuildOf(images[key])' \subseteq {builds + 1} \cup BuildOf(images[key])
          /\ BuildOf(seenImages[key])' = BuildOf(seenImages[key])
          /\ BuildOf(image)' = BuildOf(image)
      BY <2>4, <2>5, <3>1
    <3>5. \A a \in BuildOf(image)' :
            \A b \in BuildOf(images[key])' \cup BuildOf(seenImages[key])' \cup {builds'} :
              a <= b
      <4>1. SUFFICES ASSUME NEW a \in BuildOf(image),
                            NEW b \in {builds + 1} \cup BuildOf(images[key])
                                       \cup BuildOf(seenImages[key])
                     PROVE  a <= b
        <5>1. builds' = builds + 1
          BY <2>1
        <5>. QED
          BY <3>4, <5>1
      <4>2. CASE b = builds + 1
        BY <3>3, <4>2
      <4>3. CASE b \in BuildOf(images[key])
        BY <3>3, <4>3
      <4>4. CASE b \in BuildOf(seenImages[key])
        BY <3>3, <4>4
      <4>. QED
        BY <4>2, <4>3, <4>4
    <3>6. InOrder(BuildOf(image),
                  BuildOf(images[key]) \cup BuildOf(seenImages[key]) \cup {builds})'
      BY <3>5 DEF InOrder
    <3>. QED
      BY <3>2, <3>6
  <2>. QED
    BY <2>1, <2>9, <2>10 DEF BuildsInOrder
<1>9. CASE OperatorRestart
  <2>1. UNCHANGED <<images, builds>> /\ seenImages' = images /\ rpc' = "idle"
    BY <1>9 DEF OperatorRestart, RepoDrop
  <2>2. \A w \in Webapps : Running(w)' = Running(w)
    BY <1>9 DEF OperatorRestart, Restart, Running
  <2>3. \A w \in Webapps : /\ BuildOf(images[w])' = BuildOf(images[w])
                         /\ BuildOf(seenImages[w])' = BuildOf(images[w])
    BY <2>1 DEF BuildOf
  <2>4. \A w \in Webapps : InOrder(BuildOf(images[w]), BuildOf(images[w]))
    BY <1>1 DEF InOrder, BuildOf, ImageObject, Builds, NoBuild
  <2>. QED
    BY <2>1, <2>2, <2>3, <2>4 DEF BuildsInOrder, InOrder
<1>10. CASE \/ WebappWorker \/ \E w \in Webapps : GetRepo(w) \/ DeliverRepository(w)
            \/ RepoCallFails \/ RepoUserStep \/ OperatorResync
            \/ UNCHANGED repoVars \/ UNCHANGED operatorVars
  <2>1. UNCHANGED <<images, seenImages, builds>>
    BY <1>10
    DEF WebappWorker, GetRepo, DeliverRepository, RepoCallFails, RepoFails, RepoUserStep,
        UserCreatesRepo, UserEditsRepo, UserDeletesRepo, UserWritesRepo, OperatorResync,
        operatorVars, repoVars, registryVars
  <2>2. rpc' = "upsertWebapp" => rpc = "upsertWebapp" /\ UNCHANGED <<key, image>>
    BY <1>10
    DEF WebappWorker, GetRepo, DeliverRepository, RepoCallFails, RepoFails, RepoRetry,
        RepoDrop, RepoUserStep, UserCreatesRepo, UserEditsRepo, UserDeletesRepo,
        UserWritesRepo, OperatorResync, operatorVars, repoVars, repoJobVars
  <2>. QED
    BY <1>2, <1>3, <2>1, <2>2
<1>. QED
  BY <1>3, <1>4, <1>5, <1>6, <1>7, <1>8, <1>9, <1>10
  DEF OperatorNext, RepoWorker, RepoStep, Outside, Background, CollectWebapp

\* Provided that a Webapp spec tells builds apart, as the image reference in it does
\* (webapprepository_controller.go:100-106): no Webapp goes back to an earlier build,
\* though the Image is read from a cache (lines 75-88), the Webapp is overwritten some
\* calls later, and in between builds end and Images are deleted and made anew.
THEOREM BuildsNeverRollBack ==
  ASSUME BuildsDiffer
  PROVE  OperatorSpec => NeverRollsBack
<1>. DEFINE Forward == \A w \in Webapps : InOrder(Running(w), Running(w)')
<1>1. OperatorInit => BuildsInOrder
  <2>1. \A w \in Webapps : NoObjects.webapp[w] = None
    BY KindsOfObjects DEF NoObjects
  <2>. QED
    BY <2>1
    DEF OperatorInit, Init, ClusterInit, RepoInit, BuildsInOrder, InOrder, BuildOf, Running
<1>2. BuildsInOrder /\ OperatorInv /\ [OperatorNext]_operatorVars => BuildsInOrder'
  BY BuildsStep
<1>3. BuildsInOrder /\ OperatorInv /\ [OperatorNext]_operatorVars => [Forward]_operatorVars
  BY BuildsForward
<1>. QED
  BY <1>1, <1>2, <1>3, OperatorInductive, PTL DEF OperatorSpec, NeverRollsBack
=============================================================================
