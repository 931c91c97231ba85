# Verification of the Webapp operator

This directory holds TLA+ models, TLC runs and TLAPS proofs for the Kubernetes
operator in `src/operator`: the controller that turns `Webapp` objects into
deployments, services and one shared ingress, and the controller that builds
images for `WebappRepository` objects and writes the Webapps that run them.

## The system

| component | source | state | operations |
|---|---|---|---|
| Webapp controller | `operator/internal/controller/webapp_controller.go` | none of its own between reconciles; during one: the Webapp and the global ingress it read | `Reconcile`: label gate, finalizer gate, global namespace, read ingress, finalization (delete proxy service, prune ingress, remove finalizer), upsert deployment, service, proxy service, rewrite ingress rules |
| Webapp type | `operator/api/v1alpha1/webapp_types.go` | spec (image, ports, ingress), metadata | written by users, and by both controllers |
| WebappRepository controller | `operator/internal/controller/webapprepository_controller.go` | none between reconciles | create the kpack image, create or overwrite the Webapp once it is ready |
| manager | `operator/cmd/main.go` | caches, work queues | starts both controllers, one worker each |
| API server, garbage collector, users (external) | - | the objects | reads and writes, optimistic locking, validation, finalizers, collection of owned objects |

**How they interact.** Users write Webapps at the API server. Informers deliver
events into caches, and each event of a Webapp, and of nothing else
(`For(&Webapp{})` without `Owns`, lines 521-524), puts its key into the work
queue. One worker takes a key and runs `Reconcile`, whose `Get` and `List` read
the caches and whose `Create`, `Update` and `Delete` go to the server. An error
or a (recovered) panic puts the key back. All Webapps share one ingress,
`global-webapp-ingress`, whose rules each reconcile computes anew from the list
of Webapps in the cache; the backends of that ingress are "proxy services" of
type ExternalName in the namespace `webbapps-global`. Deployment and service have
an owner reference and go with the Webapp; proxy service and ingress have none,
and the finalizer of the Webapp is what takes them away.

The repository controller has a queue and a worker of its own. It creates the
kpack `Image` of a repository and, once that is ready, the Webapp, which it
overwrites as a whole each time. The Webapp has an owner reference to the
repository, the Image has none, so that its events lead to no repository.

**What is hard about it.** Every decision is taken on cached copies; every write
can meet a conflict, a missing or an already existing object, a validation
error; whatever was written before an error stays; the next event may or may not
come. The properties that make the controller right:

* at rest, every Webapp runs its current spec and is reachable, and no route
  leads to a Webapp that is gone;
* nothing that only the finalizer cleans up is made for a Webapp without it, or
  outlives the Webapp;
* the controller never overrules users: no spec is reverted, no Webapp revived or
  removed unasked;
* deletions complete, and the controller comes to rest;
* a Webapp with a sound spec does not suffer from those of its neighbours, as far
  as the shared ingress allows;
* what others do to the generated objects is repaired;
* a second manager does no harm that lasts;
* a repository's Webapp runs the latest build and goes when the repository goes.

`PROJECT.json` lists each hazard at the line where it bites.

## Modules

| module | role |
|---|---|
| `Cluster` | API server, informer caches, users, garbage collector |
| `IngressRules` | what finalization does to the ingress rules, as functions |
| `PruneLoop` | the nested `slices.Delete` loops of `finalizeWebapp` step by step; justifies `IngressRules` |
| `Lifecycle` | abstract: the phases of a Webapp and when it may be exposed |
| `WebappController` | `Reconcile`, composed with `Cluster`; properties; refinement of `Lifecycle` |
| `RepositoryController` | `Reconcile` of repositories, with their Images, kpack and their users, on top of `Cluster` |
| `Operator` | both controllers on the same Webapps; properties of the pair |
| `Drift` | the Webapp controller while others delete and edit what it generated |
| `Managers` | two managers at once, by instantiating `Convergence`, and with it `WebappController`, a second time |
| `Convergence` | the invariant behind the properties at rest, and the shape of the ingress |
| `IngressRulesProofs`, `PruneLoopProofs` | what pruning keeps; the loops do what the closed forms say |
| `WebappControllerProofs`, `ConvergenceProofs`, `LifecycleProofs` | the Webapp controller: safety, rest, refinement |
| `OperatorProofs`, `DriftProofs`, `ManagersProofs` | what still holds with others at work |
| `MCWebapp`, `MCPruneLoop`, `MCOperator`, `MCDrift`, `MCManagers` | instances for TLC |

### Cluster

`store` holds the server's objects by kind and name, `cache` what the informers
hold. `stale` names the objects whose cached version is not the server's:
resourceVersions are only ever compared, so being current is all that is kept
of them. `held` does the same for the copies the running reconcile has in
memory: an `Update` succeeds exactly when its copy is still current. A kind
outside `Laggy` has a cache that follows the server at once; "webapp" is always
in `Laggy`. `Deliver` brings the latest version of an object: informers may
coalesce versions, and as each event only queues a key, a sequence of deliveries
that ends in the latest version does no more than delay the last one.

Users create, edit and delete Webapps up to `MaxOps` times. Without "recreate" in
`UserOps` they use a name again only after everything of the earlier Webapp is
collected. A deletion marks a Webapp that has a finalizer and removes it
otherwise; the last Update, which drops the finalizer, removes it for good.
`Collect` removes a deployment or service whose owner, by uid, is gone.

A spec is a member of `Specs`. `HostOf` gives its host (or none), `QuirkOf` what
may be unusual about it: several ports (two service ports are both called
"http"), no ports (dropped by `omitempty`, then missing), a port that does not
parse, an ingress without path. `Hash` stands for `calcHash`; theorems hold for
any function, the runs use one without collisions. A deployment, service, proxy
service or path is kept as the spec it was rendered from.

### WebappController

One action for each API call of `Reconcile`, with `pc` naming the next one:

| action | lines |
|---|---|
| `GetNothing`, `Get` (with the choice of the first gate) | 76-79, 82-85 |
| `UpdateLabels` | 87-100 |
| `AddFinalizer` | 102-107 |
| `CreateNamespace` | 387-404 |
| `ReadIngress` | 406-429 |
| `DeleteProxy`, `PruneIngress` | 156-192 |
| `RemoveFinalizer` | 126-131 |
| `UpsertDeployment` | 194-294 |
| `UpsertService` | 296-349 |
| `UpsertProxy` | 351-385 |
| `UpdateIngress` | 431-492, 150 |

A cached `Get` and the write that follows it are one action (`UpsertService`,
say). This loses nothing: the only writers besides the worker are users, who
write Webapps, whose cache always lags, and the collector, whose removal between
the two makes the write fail just as a removal before them does. `Delete` carries
no resourceVersion and `IgnoreAlreadyExists` (150) is applied to `UpdateIngress`.
The order of the rules is that of a Go map and the order of the paths that of the
cache's list: any order. `CallFails` is an error of any call. A call whose effect
took place but whose answer was lost is a success followed by `CallFails` or
`Restart` at the next call. `Restart` fills caches and queue anew.

### RepositoryController and Operator

| action | lines of `webapprepository_controller.go` |
|---|---|
| `GetRepo` | 59-73 |
| `GetImage` | 75-93 |
| `CreateImage` (`upsertImage`) | 77-84, 129-152 |
| `UpsertWebapp` (`upsertWebappWithImage`) | 96-127 |
| `DeliverRepository`, `DeliverImage` | 211-217, 155-160 |

A repository, its Image and its Webapp share one key (the code adds suffixes). A
repository is a uid and a spec from `RepoSpecs`; `Rendered` gives the Webapp's spec
for a repository's spec and a build. `unseen` does for repositories and Images
what `stale` does for the rest. kpack (external) ends and restarts builds up to
`MaxBuilds`.

The error that `Reconcile` returns after the first `Get` found no Image is that
`Get`'s own, for the `err` of line 77 is another variable: `CreateImage` always ends
in a retry. Its second `Get` may see an Image of another revision; that one is
deleted, and the `Create` that follows is refused, as the object carries a
resourceVersion. An Image found by the first `Get` is never compared with the
repository. `UpsertWebapp` sends a fresh object without finalizer; if the Webapp is
in deletion the server drops it at that moment.

`Operator` interleaves both `Next` relations. Users write repositories and may
delete Webapps; they do not create or edit the Webapp of a repository. The
collector deletes a Webapp whose repository is gone. A resync reaches both
controllers. It comes every ten hours, so `OperatorResync` waits until queues are
empty and events delivered: resyncs at other moments are in `storm`.

### PruneLoop

Go evaluates `range` once: the loop visits the original length over a backing
array that `slices.Delete` shifts and zeroes. The module runs the two loops over
all ingresses of up to three rules with up to three paths to two backends (2955
inputs) and shows that they panic exactly if `PrunePanics` and otherwise leave
`Pruned`. Longer lists add no case: what happens at a position depends on whether
an element follows it and whether it is the only one.

### Drift and Managers

`Drift` adds others who delete a deployment, service, proxy service or the ingress,
make a service or proxy service look like that of another spec, or remove the
labels of the ingress, at any moment, also between two calls of a reconcile. They
share the bound `MaxOps` with the users. Deployments are deleted but not edited: one
that is edited and keeps its revision label is never restored (217), and the model
keeps a deployment as the spec its label stands for. `QuietResync` is a `Resync` at a
moment when nothing else is pending; resyncs at other moments are in `storm`.
Failed calls and restarts are left to the other runs. An edit by others between a
cached `Get` and the write after it makes that write fail and be retried, after
which the `Get` sees the edit: as if the edit had come before the `Get`.

`Managers` has two managers, which share the server: `WebappController` is the one,
the instance `Other` (of `Convergence`, for the sake of its vocabulary), with variables of its own for caches, queue and worker, the
other. A step of one makes the copies of the other outdated (`Outdated`), shows
at once in those of its caches that do not lag (`Refreshed`), and leaves the rest of
it alone. With two writers a write can be refused because the other manager wrote
after the `Get` that precedes it. As such a `Get` and its write are one action, this
is a choice of its own: a call may fail while the other manager is at one that writes
the same object (`MayCollide`). That covers every such refusal: it changes nothing at
the server, so it may as well come just before the write that caused it.
Leader election is off unless the flag is given (`main.go`, 70 and 164); the manifests
of the repository give it, so this is a manager started otherwise, or two at a
hand-over that goes wrong.

## Runs

Passing:

| run | instance | properties |
|---|---|---|
| `converge` | 2 Webapps, 2 specs with different hosts, 4 creations, edits or deletions, 1 fault; caches of Webapps and namespaces lag | `RunsAtRest`, `ReachableAtRest`, `ConvergenceInv`, `ImplementsLifecycle` |
| `storm` | 2 Webapps, a good and a malformed spec, 3 operations of all kinds, resyncs; Webapps, deployments, proxy services and ingress lag | `TypeOK`, `IInv`, `FinalizerGate`, `IngressWellFormed`, `OnlyUsersDecide` |
| `live` | fair; 2 Webapps, a sound spec, one without ingress section and three with quirks (no ports, several ports, no path), 3 operations | `EventuallySettles`, `DeletionCompletes`, `SoundOnesRun`, `SoundOnesRouted` |
| `repair` | `Drift`, fair; 2 Webapps, 2 specs, 3 operations of users of all kinds and of others; Webapps and deployments lag | `ProxyGuarded`, `SelfHeals`, `RoutesHeal` |
| `managers` | `Managers`; 2 Webapps, a spec with a route (one host) and one without, 2 creations, edits or deletions; Webapps lag, in both managers | `ManagersAgree`, `NothingForgotten`, `IngressWellFormed`, `UsersDecideForBoth` |
| `prune_loop` | 2955 ingresses | `ClosedFormsHold`, `RightUnlessPanic` |
| `operator` | fair; 1 repository, a template with ports and one without, 2 builds, 2 operations of users, 1 fault, resyncs | `OperatorTypeOK`, `AllOwned`, `ReachableAtRest`, `NothingUndone`, `NeverRollsBack`, `WebappFollows`, `GoesWithRepository`, `GuardRestored` |

What they show:

* `converge`: routes, services and deployments agree with the specs however
  creations, edits, deletions and failures interleave; finalizing one Webapp does
  not cost another its route; the finalizer orders exposure and removal as
  `Lifecycle` asks. `ConvergenceInv`, of which the proofs are made, holds all along.
* `storm`: the inductive invariant behind the theorems holds when everything happens
  at once.
* `live`: conflicts, panics and retries come to an end, and what a bad spec can and
  cannot do to others. It never keeps a sound neighbour from its deployment, service
  and proxy service; it does keep it from its route when `updateIngress` panics
  on it (no ports) or sends an ingress that is refused (an empty path; a port that is
  no number, which `storm` has instead, makes the rendering fail), but not when only its own service is refused (several
  ports). A deletion completes whatever the neighbours, unless the deleted Webapp
  itself has lost its ports. The controller comes to rest unless such a Webapp is
  left, or no Webapp wants a route, for an ingress without rules is refused.
* `repair`: every reconcile restores everything, so each of the following lasts until
  the next resync only: objects that others deleted or edited; a deployment that a
  new Webapp adopted from its predecessor and lost to the collector (line 217 leaves
  its owner as it is); an update of the deployment skipped because a lagging cache
  shows the label that the spec has gone back to; a route left behind by a panic. The
  exception is an ingress without labels, on which `updateIngress` panics (433).
* `managers`: as each event reaches both, the one that wrote from an old copy
  reconciles again, and until all is well one of the two is on the way to what is
  missing, or still that of the spec before an edit, routes included
  (`NothingForgotten`); at rest nothing is, if nothing was deleted (`ManagersAgree`);
  optimistic locking keeps both from overruling a user, and
  neither finds the ingress in a shape that the other's pruning cannot handle.
* `prune_loop`: the closed forms the other modules use are those of the code.
* `operator`: with resyncs, the Webapp follows its repository through rebuilds and
  goes with it, even if a late reconcile creates it after the repository is gone; the
  finalizer that the repository controller drops comes back; a template without ports
  is retried and does no harm once corrected. Though the repository controller
  overwrites Webapps from stale copies, each one has an owner with which it goes
  (`AllOwned`), none loses its route for good (`ReachableAtRest`), the Webapp
  controller writes back nothing older (`NothingUndone`), and no Webapp goes back from a
  build to an earlier one (`NeverRollsBack`).

The restrictions say under which conditions the properties hold. The runs that
find a violation show what happens without them:

| run | property | what happens |
|---|---|---|
| `panic` | `RoutesGoWithProxies` (under `FairSpec`) | two Webapps share a host and the first in the list is deleted: the loops panic after the proxy service is gone; the retry finds no proxy service, skips the ingress and removes the finalizer; the route stays |
| `lost_route` | `ReachableAtRest` | the cache of ingresses lags: `AlreadyExists` of the second `Create` counts as success and the second Webapp has no route |
| `unnoticed` | `FollowsAtRest` | the Image becomes ready, no event leads to its repository, and without resyncs the Webapp is never created |
| `unguarded` | `NoRouteLeftBehind` | the repository controller overwrites the Webapp and with it the finalizer; a deletion before the finalizer is back leaves no trace for the Webapp controller, and the route stays |
| `unbuilt` | `BuiltAsSpecified` | the repository is edited after its Image was created: the Image stays that of the earlier spec, also through resyncs |

So `converge` has no lag of the ingress (`lost_route`) nor of deployments, and users
reuse a name only when the remains of the earlier Webapp are collected: without
this `RunsAtRest` fails as described under `repair`, and `repair` shows the end of
it. `operator` has resyncs (`unnoticed`), and its `WebappFollows` asks for the latest
build of the Image there is, which need not be that of the current source
(`unbuilt`). `ProxyGuarded` and `ImplementsLifecycle` are checked where the cache of
proxy services does not lag: finalization looks for the proxy service in that cache
(161). Limits that are stated without a run:

* a route can also be left behind without a panic: `updateIngress` lists all Webapps of the
  cache (434-441), whoever is reconciled, and so writes routes for those that have no
  finalizer or no proxy service yet. One that is deleted at this point leaves at once, or is
  finalized without a look at the ingress (161-163). The next reconcile of another
  Webapp takes the route away (`RoutesHeal`);
* with two managers `FinalizerGate` and `ProxyGuarded` do not hold (smaller instances of
  `Managers` violate them): one removes the finalizer while the other still has the Webapp
  as it was. So these are properties of a single active manager. Nor would `ManagersAgree`
  hold of deletions (instances with three operations violate it, in two ways): a
  reconcile that is late by a whole deletion and creation makes a deployment with the uid of
  the earlier Webapp, which is collected; and the `Delete` of an ingress that finalization
  has emptied carries no resourceVersion (188), so that it takes along the route that the
  other manager has just added, whose reconcile is over;
* namesakes in different namespaces share a proxy service (lines 351-357) and
  overwrite it in turn, so the instances have one namespace;
* two specs with the same 32-bit hash: each instance has a hash for each spec.

**Bounds.** Two Webapps are what the shared ingress needs for interference (one
is reconciled, one is listed); three operations are a creation of both and an
edit or deletion, or an edit and its reversal, four are creation of both,
deletion and an edit of the survivor; one
fault at any point meets each partial failure; conflicts, panics and retries are
not bounded. `ops` is bounded by `MaxOps` and with it `births`, `faults` by
`MaxFaults`, nothing else counts. In `managers` two operations are two creations, whose
reconciles race for the ingress in either manager, or a creation and an edit or a
deletion that one manager learns of before the other, so that a late one puts back
what was before the edit. In `operator` one repository is
enough, for the repository controller touches nothing that two of them share; two
operations are its creation and an edit, its deletion, or the deletion of its Webapp;
two builds are the first and the one a rebuild or an edit overtakes; a rebuild changes
the Webapp's spec as an edit of the template does, so one good template is enough.
There `births` counts what the controller creates too: each needs an earlier
removal, and these come from the bounded operations. Webapps are interchangeable
where a run declares symmetry: `MCProxyName` is the identity, and the safety
properties treat all Webapps alike; the runs with liveness properties declare none.

`CHECK_DEADLOCK FALSE`: a cluster with no event and no user operation left is at
rest, and a loop that panicked or ended has stopped.

**Fairness** (`FairSpec`). Weak fairness of the reconcile in progress, since every
call returns (client timeouts); of deliveries and of the collector, which run on
their own; strong fairness of `Get` and `GetNothing` for each key, as the work
queue is first in, first out, with a back-off that is finite, so that a key in the
queue is taken although the worker is busy or retrying others in between. No
fairness for users, faults, restarts and resyncs.

`DriftFairSpec` adds weak fairness of `QuietResync`: there is always another resync,
which controller-runtime guarantees with its default period of ten hours. It is
what `SelfHeals` rests on: without it an object that others deleted stays away.

`OperatorFairness` asks the same of both workers, and two things more: builds end
(weak fairness of `Background`), and there is always another resync. Without it
`WebappFollows` fails as `unnoticed` shows.

## Proofs

The theorems hold for all sets of Webapps, specs, hashes and hosts, any naming of
proxies, any set of lagging caches and any bounds, but for the hypotheses in the
last column.

| theorem | states | hypotheses |
|---|---|---|
| `WebappControllerProofs` | | |
| `TypeCorrect` | `Spec => []TypeOK` | |
| `Inductive` | `Spec => []IInv` | |
| `GateHolds` | `Spec => []FinalizerGate` | |
| `UsersDecideAlways` | `Spec => OnlyUsersDecide` | |
| `ProxiesGuarded` | `Spec => []ProxyGuarded` | `FreshProxyRead` |
| `ConvergenceProofs` | | |
| `RevisionsSettle` | `Spec => []RevisedAtRest` | no early reuse of names, `FreshDeploymentRead` |
| `RunsSettle` | `Spec => []RunsAtRest` | the same, and `Hash` tells specs apart |
| `ReachSettles` | `Spec => []ReachableAtRest` | own proxy names, `FreshIngressRead` |
| `ConvergenceHolds` | `Spec => []ConvergenceInv` | no early reuse of names, own proxy names, `FreshIngressRead`, `FreshDeploymentRead` |
| `IngressStaysWellFormed` | `Spec => []IngressWellFormed` | |
| `LifecycleProofs` | | |
| `Refines` | `Spec => ImplementsLifecycle` | own proxy names, `FreshProxyRead` |
| `PruneLoopProofs` | | |
| `LoopsPrune` | `Spec => []ClosedFormsHold` | `Inputs` are sequences of rules |
| `LoopsDoRight` | `Spec => []RightUnlessPanic` | the same |
| `DriftProofs` | | |
| `GateHoldsInDrift` | `DriftSpec => []FinalizerGate` | |
| `ProxiesGuardedInDrift` | `DriftSpec => []ProxyGuarded` | `FreshProxyRead` |
| `IngressWellFormedInDrift` | `DriftSpec => []IngressWellFormed` | |
| `OperatorProofs` | | |
| `OperatorTypeCorrect` | `OperatorSpec => []OperatorTypeOK` | |
| `NothingUndoneAlways` | `OperatorSpec => NothingUndone` | |
| `BuildsNeverRollBack` | `OperatorSpec => NeverRollsBack` | `Rendered` tells builds apart |
| `AllOwnedAlways` | `OperatorSpec => []AllOwned` | |
| `ReachSettlesInOperator` | `OperatorSpec => []ReachableAtRest` | own proxy names, `FreshIngressRead` |
| `IngressWellFormedInOperator` | `OperatorSpec => []IngressWellFormed` | |
| `ManagersProofs` | | |
| `BothTypeCorrect` | `ManagersSpec => [](TypeOK /\ Other!TypeOK)` | |
| `UsersDecideForBothAlways` | `ManagersSpec => UsersDecideForBoth` | |
| `IngressWellFormedForBoth` | `ManagersSpec => []IngressWellFormed` | |
| `NothingForgottenByBoth` | `ManagersSpec => []NothingForgotten` | own proxy names, `BothReadFresh` |
| `ManagersComeToAgree` | `ManagersSpec => []ManagersAgree` | the same, and `Hash` tells specs apart |

**Reads that are not outdated.** The code reads all objects through the cached client,
so none of the theorems may assume that a kind is never behind. Where a decision on an outdated answer
is a write, the server refuses it, and nothing has to be assumed. There are three places
where such a decision is not to write, or to write without being refused; the
theorems that depend on one speak of the behaviours in which its answer is not
outdated, `[][...]_vars`, whatever lags otherwise:

* `FreshIngressRead`: the ingress that `createIngress` finds, or does not find (411), is the
  server's. An outdated one makes `updateIngress` drop a refused `Create` (150) and
  finalization delete routes (188);
* `FreshDeploymentRead`: a deployment that `upsertDeployment` leaves as it is (196, 217) is
  the server's;
* `FreshProxyRead`: a proxy service that `finalizeWebapp` does not find (161) does not exist.

The code does not guarantee any of them, and what they exclude is real. The
run `lost_route` refutes `ReachSettles`, `ConvergenceHolds` and `ReachSettlesInOperator`
without the first, `repair` contains what comes of the second, and the third is the
hazard of line 161. `BothReadFresh` asks for the first two of either manager. In the runs that
check these properties the kinds in question do not lag, so the three hold.

The other hypotheses: early reuse of names leaves an adopted deployment to the collector,
as `repair` shows; namesakes in two namespaces (356) share a proxy name, and
two specs with one hash (500) look alike to line 217. That builds differ is what kpack's
`latestImage`, a digest, stands for; with
two that look the same nothing could be told of their order. Besides these there are the named assumptions of `Cluster`,
`WebappController`, `RepositoryController` and `PruneLoop`: finitely many Webapps,
functions with the right domains, `None` outside the values it stands beside,
lagging Webapps, rules with at least one path.

**Which copies can be relied on.** `FinalizerGate` says of a possibly stale copy that
the object still exists, and is not inductive: it needs to know why a stale copy can
be relied on. `Vouches` is the reason: a copy of a Webapp, in the cache or in memory,
that has the finalizer and no deletion timestamp, proves that the server's object
is there with the same uid and the finalizer. For only `RemoveFinalizer` takes the
finalizer away; it needs a held, that is current, copy with a deletion timestamp;
and when that copy is current the cache, from which it was read, is not behind it
(`HeldCurrent`), so no copy without the timestamp is left. `CacheInStep` ties what
is not stale to the server, `JobOK` ties the place in `Reconcile` to what its copy
contains.

`IInv` has two parts. `CopiesVouch` is true only as long as nobody else removes
finalizers. `CoreInv`, the rest, is about being current and holds whoever else
writes Webapps; it is the part that carries over to `Operator` and `Managers`, and
with it whatever is proved from it alone: types, `OnlyUsersDecide` (every Update of a
Webapp sends a held copy with another label or finalizer), `ReachableAtRest`, the
shape of the ingress.

`ProxyGuarded` needs `ProxyInv` on top: if its cache shows it (`FreshProxyRead`), `DeleteProxy`
sees the proxy service if there is one, and nothing recreates it before
`RemoveFinalizer`.

**Why a cluster at rest is right.** Each of the properties at rest becomes
inductive as "done, or somebody still owes it" (`Owes` in `Convergence`): the latest
version of the Webapp has yet to be delivered, its key is queued, or a reconcile of
this version has not yet made the call that does it. `NoticeInv` says that no notice is
lost: a reconcile that no newer version waits behind works on the newest one, and the
write of a label is a change that will be delivered. At rest nothing is owed. That
what is done stays done needs one more reason for each kind of thing:

* a deployment or service is not collected, as its owner is the Webapp
  (`OwnersMatch`; an adopted one's is not, hence no early reuse of names);
* a proxy service is deleted by a finalization of the Webapp of its name only;
* a route survives the rewrites on behalf of other Webapps, for `updateIngress` lists
  all Webapps the cache has, and one that the cache does not have yet is still to
  be noticed; it survives their finalization, as `Pruned` takes away only paths to
  the proxy named; and neither works on an old ingress (`HoldsIngress`), which is where
  the lagging ingress would break it.

`ConvergenceHolds` states this invariant itself, which says something of every state
and not only of those at rest. `RevisionsSettle` is what can be said for any hash: at rest the deployment has the
label of the current spec. `RunsSettle` adds that labels tell specs apart.

**The shape of the ingress.** `ShapeInv` asks for it at the server, in the cache and
in memory: what `updateIngress` renders has it, and `Pruned` keeps it if the loops do
not panic (`IngressRulesProofs`). `LoopsPrune` justifies these closed forms for
ingresses of any size: at each head of the two loops the rules before it are
pruned or the panic is certain, the rules after it are those of the input, and a slice
that has been shortened inside ends in a zeroed element that the `range` will visit.
`LoopsDoRight` adds that a loop that ends without a panic has done what was meant: the
rules left are those that had another path, each with the paths to other backends, all
in their order (`Wanted`). `Wanted` names them by position (`ElementsAt`), for the laws of
`SelectSeq` would need an induction over sequences.

**Refinement.** A Webapp is absent, plain, guarded or deleting in `Lifecycle`, and exposed
while it has a proxy service. That every step is one of `Lifecycle` or a stutter needs
`IInv`, `ProxyInv`, and `DoomInv` besides: a stale copy in deletion must not lead to the
removal of a finalizer, or of a proxy service, of a successor that has the same name. It
does not, since the successor gets its finalizer from a reconcile that read the
successor.

**With others at work.** `Drift`: a step of others touches no Webapp, so `IInv` and
the theorems about Webapps hold; they remove proxy services but make none for another
Webapp, and leave the rules in place.

`Operator`: whatever the repository controller, its users and the collector do to a
Webapp is an `Overwrites`: a new version at the server that no copy in memory matches.
This keeps `CoreInv` and the notices, for the new version has yet to be delivered, so
`ReachableAtRest` and `NothingUndone` follow although the finalizer comes and goes.
`FinalizerGate` does not: a copy with the finalizer vouches for nothing any more, and
`unguarded` shows what comes of it. `AllOwned` needs `RepoUidsOK`: each copy of a
repository, at the server, in the cache or in a reconcile, is one that users have
created, so its uid is among those given out. `NeverRollsBack` needs the whole chain along
which a build travels to be in order (`BuildsInOrder`): what a Webapp runs is no later than
the Image that the one worker holds, that no later than the cached Image, that no later
than kpack's, and that no later than the last build started. A copy without a build
breaks no link, for whatever it gets will be later than all builds so far.

`Managers`: the theorems of `ConvergenceProofs` are instantiated for the second
manager (`OtherProofs`). A turn of one is, for the other, a step that writes objects
behind its back (`WatchesWrites`), which keeps `CoreInv` and the shape, or a call of
its own that another's write made fail. Hence neither overrules a user, by the
resourceVersion alone. `CopiesVouch` does not hold: the other manager may remove a
finalizer that this one's copy still shows.

What one manager owes, the other one's writes do not make it forget (`WatchedOwes`): what
somebody writes of a Webapp is delivered to both. So "done, or owed" carries over with
*somebody* read as either of the two (`Owed`), and this is `NothingForgotten`, of
deployment, service, proxy service and route. What can take something done away again,
though nobody owes it then, is the other manager at work on an earlier
state of things:

* an earlier spec: whoever works from an old copy has the newer one still to come, and
  owes what he overwrites;
* an earlier Webapp of the same name. What is made for it is collected. So a *missing*
  deployment or service is excepted where the name has been used before (`Reused`), and only
  there: `ServerNumbered` and `CopiesDated` say that the uids of a Webapp, at the server and in all
  copies, are those given out for its name, so that the first Webapp of a name has
  no predecessor whose owner reference its deployment could carry. An outdated one is never
  excepted;
* a finalization, which prunes the ingress; hence the route is claimed while nothing is
  deleted (`NothingDeleted`).

The route has another gap to close: a reconcile that read no ingress, while
the other manager creates one, will find that its `Create` is refused, drop its routes,
and report success (150). `ManagersProofs` calls it `Late`. `OneCovers` is what saves the
routes. The two are never late at once, as only the other one's creation of the ingress
makes a reconcile late, and whoever creates it has thereby ended a reconcile of his own.
And while one is late the other one owes each route, or has made it: who creates the
ingress routes every Webapp its cache has, and the rest is still to be noticed.

`ManagersAgree` is what is left of this at rest, where nobody owes anything, for
histories without a deletion; with deletions it does not hold, see the end of
the section on runs.

**Only model-checked.** Liveness and with it `SelfHeals`, `WebappFollows`,
`GoesWithRepository` and the like: temporal reasoning under fairness is out of the
prover's reach. What the violating runs check does not hold, and has no proof.

## Not modelled

* Edits of deployments and of ingress rules by others, foreground deletion,
  permissions (`role.yaml` grants the manager nothing on deployments, services and
  ingresses), two managers of the repository controller.
* An error of the `Get` at line 379, which the code drops: the `Update` that follows
  sends the same object without a resourceVersion.
* Users who edit the Webapp of a repository; builds that fail for good (an Image
  that is not ready stays as it is, which `MaxBuilds` covers at the end of a run).
* Pods, traffic, status and conditions (never written), log messages.
* Flags, TLS, metrics, health checks: set-up without later behaviour.
* `webapp/` (Ktor server skeleton, Kobweb site): demo applications without state.

## What is left

Every safety property that a run shows to hold is a theorem, under the hypotheses of
the table; what remains open is the following.

1. `RunsAtRest` in `Operator`: an overwritten Webapp keeps its uid, and its successor
   may meet the deployment of its predecessor, so the property needs the condition
   under which `OwnersMatch` survives.
2. Under which condition the ingress at rest, without resyncs, routes to no Webapp that is
   gone, for a single manager: no panic (`~PrunePanics` whenever a finalization begins), no
   conflict on the ingress (188-191), and no deletion before the Webapp has its proxy
   service.
3. `ReachableAtRest` in `Drift`, as far as nobody touches proxy services and ingress
   after the last reconcile.
4. The order in which the repository controller may delete and create an Image
   (`upsertImage`): that it never deletes one that matches the repository.
