------------------------ MODULE RepositoryController ------------------------
(***************************************************************************)
(* WebappRepositoryReconciler: for each WebappRepository it creates an     *)
(* Image, which kpack builds, and once the Image is ready the Webapp that  *)
(* runs it.  A repository, its Image and its Webapp share a key here (the  *)
(* code adds the suffixes "-image" and "-webapp").  The worker has a queue *)
(* of its own, into which only events of repositories put keys:            *)
(* Owns(&Image{}) looks for an owner reference that no Image carries.      *)
(***************************************************************************)
EXTENDS Cluster

CONSTANTS
  RepoSpecs,  \* the contents a WebappRepositorySpec can have
  Rendered,   \* [RepoSpecs \X Builds -> Specs]: template and image of a Webapp
  MaxBuilds   \* bound on the number of builds

Builds == 1 .. MaxBuilds
NoBuild == 0  \* an empty LatestImage

ASSUME RenderedAssumption ==
  /\ MaxBuilds \in Nat
  /\ Rendered \in [RepoSpecs \X Builds -> Specs]

RepositoryObject == [uid: Nat, spec: RepoSpecs]

\* spec is what the Image was constructed from: its revision label is the hash.
ImageObject == [spec: RepoSpecs, ready: BOOLEAN, latest: Builds \cup {NoBuild}]

VARIABLES
  repos, images,  \* repositories and Images at the API server
  seenRepos, seenImages,  \* ... and in the informer caches
  unseen,     \* <<kind, key>> of those whose latest version is not delivered
  ownerUid,   \* uid in the owner reference of each Webapp, 0 without one
  repoUids,   \* uid of the last incarnation of each repository
  repoQueue,  \* the repository controller's work queue
  rpc,        \* the call its Reconcile makes next
  key,        \* the key being reconciled
  repo,       \* the repository in memory
  image,      \* the Image in memory
  builds      \* builds that ended so far

registryVars == <<repos, images, seenRepos, seenImages, unseen, ownerUid,
                  repoUids, builds>>
repoJobVars  == <<rpc, key, repo, image>>
repoVars     == <<registryVars, repoQueue, repoJobVars>>

RepoTypeOK ==
  /\ repos \in [Webapps -> RepositoryObject \cup {None}]
  /\ images \in [Webapps -> ImageObject \cup {None}]
  /\ seenRepos \in [Webapps -> RepositoryObject \cup {None}]
  /\ seenImages \in [Webapps -> ImageObject \cup {None}]
  /\ unseen \subseteq {"repository", "image"} \X Webapps
  /\ ownerUid \in [Webapps -> Nat]
  /\ repoUids \in [Webapps -> Nat]
  /\ repoQueue \subseteq Webapps
  /\ rpc \in {"idle", "getImage", "createImage", "upsertWebapp"}
  /\ key \in Webapps \cup {None}
  /\ repo \in RepositoryObject \cup {None}
  /\ image \in ImageObject \cup {None}
  /\ builds \in 0 .. MaxBuilds

RepoInit ==
  /\ repos = [w \in Webapps |-> None]
  /\ images = repos
  /\ seenRepos = repos
  /\ seenImages = repos
  /\ unseen = {}
  /\ ownerUid = [w \in Webapps |-> 0]
  /\ repoUids = ownerUid
  /\ repoQueue = {}
  /\ rpc = "idle"
  /\ key = None
  /\ repo = None
  /\ image = None
  /\ builds = 0

-----------------------------------------------------------------------------
(* The API server, the informers, kpack and the users.                     *)

\* The server stores a version of an Image (None: removes it).
PutImage(w, i) ==
  /\ images' = [images EXCEPT ![w] = i]
  /\ unseen' = unseen \cup {<<"image", w>>}

DeliverRepository(w) ==
  /\ <<"repository", w>> \in unseen
  /\ seenRepos' = [seenRepos EXCEPT ![w] = repos[w]]
  /\ unseen' = unseen \ {<<"repository", w>>}
  /\ repoQueue' = repoQueue \cup {w}
  /\ UNCHANGED <<repos, images, seenImages, ownerUid, repoUids, builds,
                 repoJobVars, clusterVars>>

\* The event of an Image without owner reference queues nothing.
DeliverImage(w) ==
  /\ <<"image", w>> \in unseen
  /\ seenImages' = [seenImages EXCEPT ![w] = images[w]]
  /\ unseen' = unseen \ {<<"image", w>>}
  /\ UNCHANGED <<repos, images, seenRepos, ownerUid, repoUids, builds,
                 repoQueue, repoJobVars, clusterVars>>

\* kpack starts a build of an Image it has built before, and ends one.
BuildStarts(w) ==
  /\ images[w] # None
  /\ images[w].ready
  /\ builds < MaxBuilds
  /\ PutImage(w, [images[w] EXCEPT !.ready = FALSE])
  /\ UNCHANGED <<repos, seenRepos, seenImages, ownerUid, repoUids, builds,
                 repoQueue, repoJobVars, clusterVars>>

BuildEnds(w) ==
  /\ images[w] # None
  /\ ~images[w].ready
  /\ builds < MaxBuilds
  /\ builds' = builds + 1
  /\ PutImage(w, [images[w] EXCEPT !.ready = TRUE, !.latest = builds + 1])
  /\ UNCHANGED <<repos, seenRepos, seenImages, ownerUid, repoUids,
                 repoQueue, repoJobVars, clusterVars>>

\* A user writes repository w.
UserWritesRepo(w, r) ==
  /\ ops < MaxOps
  /\ ops' = ops + 1
  /\ repos' = [repos EXCEPT ![w] = r]
  /\ unseen' = unseen \cup {<<"repository", w>>}
  /\ UNCHANGED <<images, seenRepos, seenImages, ownerUid, builds, repoQueue,
                 repoJobVars, store, cache, stale, held, queue, births>>

UserCreatesRepo(w, s) ==
  /\ repos[w] = None
  /\ repoUids' = [repoUids EXCEPT ![w] = @ + 1]
  /\ UserWritesRepo(w, [uid |-> repoUids[w] + 1, spec |-> s])

UserEditsRepo(w, s) ==
  /\ "edit" \in UserOps
  /\ repos[w] # None
  /\ repos[w].spec # s
  /\ UserWritesRepo(w, [repos[w] EXCEPT !.spec = s])
  /\ UNCHANGED repoUids

UserDeletesRepo(w) ==
  /\ "delete" \in UserOps
  /\ repos[w] # None
  /\ UserWritesRepo(w, None)
  /\ UNCHANGED repoUids

RepoUserStep ==
  \E w \in Webapps :
    \/ \E s \in RepoSpecs : UserCreatesRepo(w, s) \/ UserEditsRepo(w, s)
    \/ UserDeletesRepo(w)

\* The repository that owns Webapp w is gone.
WebappOrphaned(w) ==
  /\ store.webapp[w] # None
  /\ ownerUid[w] # 0
  /\ repos[w] # None => repos[w].uid # ownerUid[w]

\* The garbage collector deletes a Webapp as a user would: with a finalizer it
\* is only marked.
CollectWebapp(w) ==
  LET o == store.webapp[w] IN
  /\ WebappOrphaned(w)
  /\ ~o.deleting
  /\ Put("webapp", w, IF o.finalizer THEN [o EXCEPT !.deleting = TRUE] ELSE None)
  /\ held' = held \ {<<"webapp", w>>}
  /\ UNCHANGED <<queue, births, ops, repoVars>>

-----------------------------------------------------------------------------
(* Reconcile.                                                              *)

RepoDrop == rpc' = "idle" /\ key' = None /\ repo' = None /\ image' = None
RepoDone  == RepoDrop /\ UNCHANGED repoQueue
\* (Mutant of RepoRetry: the key is read after it was reset.)
RepoRetryReset == RepoDrop /\ repoQueue' = repoQueue \cup {key'}
RepoRetry == RepoDrop /\ repoQueue' = repoQueue \cup {key}

\* Reconcile goes on with call c.
RepoGo(c) == rpc' = c /\ UNCHANGED <<key, repoQueue>>

\* The repository is read, or gone from the cache (IgnoreNotFound).
GetRepo(w) ==
  /\ rpc = "idle"
  /\ w \in repoQueue
  /\ repoQueue' = repoQueue \ {w}
  /\ IF seenRepos[w] = None
     THEN UNCHANGED repoJobVars
     ELSE rpc' = "getImage" /\ key' = w /\ repo' = seenRepos[w] /\ image' = None
  /\ UNCHANGED <<registryVars, clusterVars>>

IsReady(i) == i.ready /\ i.latest # NoBuild

\* (Mutant of GetImage: any build of the Image is taken for the latest.)
GetImageAnyBuild ==
  LET cached == seenImages[key] IN
  /\ rpc = "getImage"
  /\ \/ /\ cached = None
        /\ RepoGo("createImage") /\ UNCHANGED <<repo, image>>
     \/ /\ cached # None
        /\ IsReady(cached)
        /\ RepoGo("upsertWebapp") /\ UNCHANGED repo
        /\ \E b \in 1 .. cached.latest : image' = [cached EXCEPT !.latest = b]
     \/ /\ cached # None
        /\ ~IsReady(cached)
        /\ RepoDone
  /\ UNCHANGED <<registryVars, clusterVars>>

\* An existing Image is taken as it is, whatever its revision label.
GetImage ==
  LET cached == seenImages[key] IN
  /\ rpc = "getImage"
  /\ \/ /\ cached = None
        /\ RepoGo("createImage") /\ UNCHANGED <<repo, image>>
     \/ /\ cached # None
        /\ IsReady(cached)
        /\ RepoGo("upsertWebapp") /\ image' = cached /\ UNCHANGED repo
     \/ /\ cached # None
        /\ ~IsReady(cached)
        /\ RepoDone
  /\ UNCHANGED <<registryVars, clusterVars>>

\* upsertImage reads the cache again.  An Image that has turned up in between
\* with another revision is deleted; the Create that follows is refused, as it
\* carries a resourceVersion.  However it ends, Reconcile returns an error: the
\* NotFound of the first Get, when there is no other.
CreateImage ==
  LET cached == seenImages[key]
      fresh  == [spec |-> repo.spec, ready |-> FALSE, latest |-> NoBuild]
  IN
  /\ rpc = "createImage"
  /\ IF cached = None /\ images[key] = None THEN PutImage(key, fresh)
     ELSE IF cached # None /\ cached.spec # repo.spec /\ images[key] # None
     THEN PutImage(key, None)
     ELSE UNCHANGED <<images, unseen>>
  /\ RepoRetry
  /\ UNCHANGED <<repos, seenRepos, seenImages, ownerUid, repoUids, builds,
                 clusterVars>>

\* The Webapp for a repository and its Image, with the owner reference and the
\* labels but without a finalizer, whatever the Webapp had before.
Generated(uid) ==
  LET spec == Rendered[<<repo.spec, image.latest>>] IN
  [uid |-> uid, spec |-> spec, label |-> Hash[spec],
   finalizer |-> FALSE, deleting |-> FALSE]

WebappUnwritten == UNCHANGED <<clusterVars, ownerUid>>

\* (Mutant of PutWebapp: no owner reference is set.)
PutWebappUnowned(o, u) ==
  IF o = store.webapp[key]
  THEN Unwritten /\ UNCHANGED <<held, ownerUid>>
  ELSE /\ store' = [store EXCEPT !.webapp[key] = o]
       /\ stale' = stale \cup {<<"webapp", key>>}
       /\ held' = held \ {<<"webapp", key>>}
       /\ UNCHANGED <<cache, ownerUid>>

\* The server stores a new version o of the Webapp, with owner u.
PutWebapp(o, u) ==
  IF o = store.webapp[key] /\ u = ownerUid[key]
  THEN Unwritten /\ UNCHANGED <<held, ownerUid>>
  ELSE /\ store' = [store EXCEPT !.webapp[key] = o]
       /\ stale' = stale \cup {<<"webapp", key>>}
       /\ held' = held \ {<<"webapp", key>>}
       /\ ownerUid' = [ownerUid EXCEPT ![key] = u]
       /\ UNCHANGED cache

CreateWebapp ==
  /\ PutWebapp(Generated(births[key] + 1), repo.uid)
  /\ births' = [births EXCEPT ![key] = @ + 1]
  /\ UNCHANGED <<queue, ops>>

\* The Update replaces the whole object.  A Webapp in deletion loses its
\* finalizer and is gone.
UpdateWebapp ==
  /\ PutWebapp(IF store.webapp[key].deleting THEN None
               ELSE Generated(store.webapp[key].uid), repo.uid)
  /\ UNCHANGED <<queue, births, ops>>

\* (Mutant of UpsertWebapp: a Webapp that exists is left alone.)
CreateOnlyWebapp ==
  /\ rpc = "upsertWebapp"
  /\ IF /\ cache.webapp[key] = None
        /\ store.webapp[key] = None
        /\ ValidWebapp(Generated(0))
     THEN CreateWebapp /\ RepoDone
     ELSE IF cache.webapp[key] # None THEN WebappUnwritten /\ RepoDone
     ELSE WebappUnwritten /\ RepoRetry
  /\ UNCHANGED <<repos, images, seenRepos, seenImages, unseen, repoUids, builds>>

UpsertWebapp ==
  LET cached   == cache.webapp[key]
      accepted == /\ ValidWebapp(Generated(0))
                  /\ IF cached = None THEN store.webapp[key] = None
                     ELSE Current("webapp", key)
  IN
  /\ rpc = "upsertWebapp"
  /\ \/ accepted /\ cached = None /\ CreateWebapp /\ RepoDone
     \/ accepted /\ cached # None /\ UpdateWebapp /\ RepoDone
     \/ ~accepted /\ WebappUnwritten /\ RepoRetry
  /\ UNCHANGED <<repos, images, seenRepos, seenImages, unseen, repoUids, builds>>

RepoStep == GetImage \/ CreateImage \/ UpsertWebapp

\* A call fails, or the manager stops.
RepoFails ==
  /\ rpc # "idle"
  /\ RepoRetry
  /\ UNCHANGED <<registryVars, clusterVars>>
=============================================================================
