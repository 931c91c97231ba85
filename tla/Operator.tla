------------------------------ MODULE Operator ------------------------------
(***************************************************************************)
(* The manager with both controllers at work on the same Webapps: the      *)
(* repository controller creates and overwrites a Webapp, the Webapp       *)
(* controller labels, guards, deploys and finalizes it.  Users write       *)
(* repositories and may delete Webapps.                                    *)
(***************************************************************************)
EXTENDS WebappController, RepositoryController

operatorVars == <<vars, repoVars>>

OperatorInit == Init /\ RepoInit

WebappWorker ==
  /\ \/ \E w \in Webapps : GetNothing(w) \/ Get(w)
     \/ ReconcileStep
     \/ CallFails
  /\ UNCHANGED repoVars

RepoCallFails ==
  /\ RepoFails
  /\ faults < MaxFaults
  /\ faults' = faults + 1
  /\ UNCHANGED jobVars

RepoWorker ==
  \/ /\ RepoStep \/ \E w \in Webapps : GetRepo(w)
     /\ UNCHANGED <<jobVars, faults>>
  \/ RepoCallFails

\* Users write repositories and delete Webapps; kpack starts a build.
Outside ==
  /\ \/ RepoUserStep
     \/ \E w \in Webapps : BuildStarts(w)
     \/ (\E w \in Webapps : UserDelete(w)) /\ UNCHANGED repoVars
  /\ UNCHANGED <<jobVars, faults>>

\* What arrives by itself: events, the garbage collector, the end of a build.
Background ==
  /\ \/ /\ \/ \E kind \in Kinds : \E name \in Names(kind) : Deliver(kind, name)
           \/ \E kind \in {"deployment", "service"}, w \in Webapps :
                Collect(kind, w)
        /\ UNCHANGED repoVars
     \/ \E w \in Webapps :
          \/ DeliverRepository(w) \/ DeliverImage(w)
          \/ CollectWebapp(w) \/ BuildEnds(w)
  /\ UNCHANGED <<jobVars, faults>>

\* Another manager takes over: both controllers start from the server's state.
OperatorRestart ==
  /\ Restart
  /\ seenRepos' = repos
  /\ seenImages' = images
  /\ unseen' = {}
  /\ repoQueue' = {w \in Webapps : repos[w] # None}
  /\ RepoDrop
  /\ UNCHANGED <<repos, images, ownerUid, repoUids, builds>>

\* A resync delivers every cached object again, to both controllers.  It comes
\* every ten hours: here, when events have arrived and both are idle.
OperatorResync ==
  /\ Resync
  /\ pc = "idle" /\ queue = {} /\ stale = {}
  /\ rpc = "idle" /\ repoQueue = {} /\ unseen = {}
  /\ repoQueue' = repoQueue \cup {w \in Webapps : seenRepos[w] # None}
  /\ UNCHANGED <<registryVars, repoJobVars>>

OperatorNext ==
  \/ WebappWorker
  \/ RepoWorker
  \/ Outside
  \/ Background
  \/ OperatorRestart
  \/ OperatorResync

OperatorSpec == OperatorInit /\ [][OperatorNext]_operatorVars

\* Both workers run and take every key that waits in their queue; what happens
\* in the background goes on, and there is always another resync.
OperatorFairness ==
  /\ WF_operatorVars(ReconcileStep /\ UNCHANGED repoVars)
  /\ WF_operatorVars(RepoStep /\ UNCHANGED <<jobVars, faults>>)
  /\ \A w \in Webapps :
       /\ SF_operatorVars((GetNothing(w) \/ Get(w)) /\ UNCHANGED repoVars)
       /\ SF_operatorVars(GetRepo(w) /\ UNCHANGED <<jobVars, faults>>)
  /\ WF_operatorVars(Background)
  /\ WF_operatorVars(OperatorResync)

OperatorFairSpec == OperatorSpec /\ OperatorFairness

-----------------------------------------------------------------------------
(* Properties.                                                             *)

\* Types of both controllers' state.
OperatorTypeOK == TypeOK /\ RepoTypeOK

\* Every Webapp has an owner, an incarnation of its repository that has existed,
\* whatever the stale copies it was made from: so when that one is gone the
\* collector takes the Webapp along.
AllOwned ==
  \A w \in Webapps : Live(w) => ownerUid[w] \in 1 .. repoUids[w]

\* The Webapp controller never undoes what the repository controller wrote: it
\* writes back no earlier spec and no Webapp that is gone, though it sends whole
\* objects from copies that are overwritten behind its back.
NothingUndone ==
  [][WebappWorker =>
       \A w \in Webapps : AsUsersWant(store.webapp[w], store'.webapp[w])]_operatorVars

\* The builds that a Webapp may be running, by what its spec renders.
Running(w) ==
  {b \in Builds : \E s \in RepoSpecs :
     store.webapp[w] # None /\ store.webapp[w].spec = Rendered[<<s, b>>]}

\* No build of bs is later than one of cs.
InOrder(bs, cs) == \A b \in bs, c \in cs : b <= c

\* A Webapp that exists never goes back to an earlier build, however far the
\* cache of Images lags behind kpack's builds, whatever is edited, deleted or
\* created again, and though each reconcile overwrites the Webapp with what it
\* read of the Image before.
NeverRollsBack == [][\A w \in Webapps : InOrder(Running(w), Running(w)')]_operatorVars

OperatorAtRest ==
  /\ AtRest /\ rpc = "idle" /\ repoQueue = {} /\ unseen = {}
  /\ \A w \in Webapps : ~WebappOrphaned(w)

\* The Webapp that the repository and the latest build of its Image call for.
Called(w) == Rendered[<<repos[w].spec, images[w].latest>>]

\* Webapp w runs what its repository says and the latest build of its Image,
\* provided that the template makes a Webapp the API server accepts.
Follows(w) ==
  /\ repos[w] # None
  /\ images[w] # None
  /\ images[w].ready
  /\ QuirkOf[Called(w)] # "no ports"
  => Live(w) /\ store.webapp[w].spec = Called(w)

\* When everything has settled, the Webapp of a repository runs the latest
\* build: the end of a build is noticed.
FollowsAtRest == OperatorAtRest => \A w \in Webapps : Follows(w)

\* When everything has settled, the Image of a repository was made for what the
\* repository says now: an edit of its source or environment is built.
BuiltAsSpecified ==
  OperatorAtRest =>
    \A w \in Webapps :
      repos[w] # None /\ images[w] # None => images[w].spec = repos[w].spec

\* When everything has settled, the ingress routes only to Webapps that exist,
\* also when the repository controller overwrites Webapps in deletion.
NoRouteLeftBehind ==
  OperatorAtRest =>
    \A w \in Webapps : RoutesTo(ServerRules, ProxyName[w]) =>
      \E v \in Webapps : Live(v) /\ ProxyName[v] = ProxyName[w]

\* Once users and builds stop, the Webapp of each repository is there and runs
\* the latest build, for as long as there are resyncs; a template without ports,
\* which the repository's type allows, delays this until it is corrected.
WebappFollows == \A w \in Webapps : <>[]Follows(w)

\* A Webapp that the repository controller has stripped of its finalizer gets it
\* back, or is gone: the two controllers do not fight over it for ever.
GuardRestored ==
  \A w \in Webapps :
    Live(w) /\ ~store.webapp[w].finalizer ~>
      ~Live(w) \/ store.webapp[w].finalizer

\* Once users stop, no Webapp outlives its repository, even one that a late
\* reconcile creates after the repository is gone.
GoesWithRepository == \A w \in Webapps : <>[](repos[w] = None => ~Live(w))
=============================================================================
