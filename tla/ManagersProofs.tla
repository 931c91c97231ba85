--------------------------- MODULE ManagersProofs ---------------------------
(***************************************************************************)
(* Proofs about two managers.  Every lemma about one Webapp controller     *)
(* holds of the other as well: the proofs of WebappController, like the    *)
(* module itself, are instantiated with the other manager's variables.     *)
(***************************************************************************)
EXTENDS Managers, ConvergenceProofs

OtherProofs == INSTANCE ConvergenceProofs WITH
  cache <- cache2, stale <- stale2, held <- held2, queue <- queue2,
  pc <- pc2, cur <- cur2, obj <- obj2, ing <- ing2

-----------------------------------------------------------------------------
(* The two instances say the same.                                         *)

\* What the lemmas assume of the constants holds of the other manager's.
LEMMA OtherAssumptions ==
  /\ OtherProofs!IsFiniteSet(Webapps)
  /\ QuirkOf \in [Specs -> OtherProofs!Quirks]
  /\ \A kind \in OtherProofs!Kinds : None \notin OtherProofs!ObjectsOf(kind)
  /\ Laggy \subseteq OtherProofs!Kinds
BY ConstantsAssumption, DistinctAssumption
DEF IsFiniteSet, Quirks, Kinds, ObjectsOf, WebappObject, OwnedObject, ProxyObject,
    IngressObject, NamespaceObject, Rule, Path,
    OtherProofs!IsFiniteSet, OtherProofs!Quirks, OtherProofs!Kinds,
    OtherProofs!ObjectsOf, OtherProofs!WebappObject, OtherProofs!OwnedObject,
    OtherProofs!ProxyObject, OtherProofs!IngressObject, OtherProofs!NamespaceObject,
    OtherProofs!Rule, OtherProofs!Path

\* The words in which the actions are written mean the same.
LEMMA OtherWords ==
  /\ Other!Unwritten <=> OtherProofs!Unwritten
  /\ Other!Done <=> OtherProofs!Done
  /\ Other!Fails <=> OtherProofs!Fails
  /\ \A c : Other!Go(c) <=> OtherProofs!Go(c)
  /\ \A kind, name : /\ Other!Current(kind, name) <=> OtherProofs!Current(kind, name)
                     /\ Other!Updatable(kind, name) <=> OtherProofs!Updatable(kind, name)
                     /\ Other!Creatable(kind, name) <=> OtherProofs!Creatable(kind, name)
  /\ \A kind, name, o : Other!Put(kind, name, o) <=> OtherProofs!Put(kind, name, o)
  /\ Other!Global = OtherProofs!Global
BY DEF Other!Unwritten, Other!Drop, Other!Done, Other!Retry, Other!Fails, Other!Go,
       Other!Current, Other!Updatable, Other!Creatable, Other!Put, Other!Global,
       OtherProofs!Unwritten, OtherProofs!Drop, OtherProofs!Done, OtherProofs!Retry,
       OtherProofs!Fails, OtherProofs!Go, OtherProofs!Current, OtherProofs!Updatable,
       OtherProofs!Creatable, OtherProofs!Put, OtherProofs!Global

\* So do those for the rules that updateIngress and finalizeWebapp write.
LEMMA OtherRules ==
  /\ Other!RuleLists = OtherProofs!RuleLists
  /\ Other!Poisoned <=> OtherProofs!Poisoned
  /\ Other!Unlabelled <=> OtherProofs!Unlabelled
  /\ \A rules : Other!ValidRules(rules) <=> OtherProofs!ValidRules(rules)
  /\ Other!IngressRulesInMemory = OtherProofs!IngressRulesInMemory
  /\ \A rules, p : /\ Other!PrunePanics(rules, p) <=> OtherProofs!PrunePanics(rules, p)
                   /\ Other!Pruned(rules, p) = OtherProofs!Pruned(rules, p)
<1>1. \A S : Other!SetToSeqs(S) = OtherProofs!SetToSeqs(S)
  BY DEF Other!SetToSeqs, OtherProofs!SetToSeqs, Other!Cardinality, OtherProofs!Cardinality
<1>2. /\ Other!Listed = OtherProofs!Listed
      /\ \A w : Other!ListedHost(w) = OtherProofs!ListedHost(w)
      /\ \A w : Other!PathTo(w) = OtherProofs!PathTo(w)
  BY DEF Other!Listed, OtherProofs!Listed, Other!ListedHost, OtherProofs!ListedHost,
         Other!PathTo, OtherProofs!PathTo
<1>3. /\ Other!ListedHosts = OtherProofs!ListedHosts
      /\ \A h : Other!Group(h) = OtherProofs!Group(h)
  BY <1>2 DEF Other!ListedHosts, OtherProofs!ListedHosts, Other!Group, OtherProofs!Group
<1>4. Other!WebappsByHost = OtherProofs!WebappsByHost
  BY <1>1, <1>3 DEF Other!WebappsByHost, OtherProofs!WebappsByHost
<1>5. \A h, group : Other!RuleFor(h, group) = OtherProofs!RuleFor(h, group)
  BY <1>2 DEF Other!RuleFor, OtherProofs!RuleFor
<1>6. Other!RuleLists = OtherProofs!RuleLists
  BY <1>1, <1>3, <1>4, <1>5 DEF Other!RuleLists, OtherProofs!RuleLists
<1>7. Other!Poisoned <=> OtherProofs!Poisoned
  BY <1>2 DEF Other!Poisoned, OtherProofs!Poisoned
<1>8. /\ Other!Unlabelled <=> OtherProofs!Unlabelled
      /\ \A rules : Other!ValidRules(rules) <=> OtherProofs!ValidRules(rules)
      /\ Other!IngressRulesInMemory = OtherProofs!IngressRulesInMemory
  BY DEF Other!Unlabelled, OtherProofs!Unlabelled, Other!ValidRules,
         OtherProofs!ValidRules, Other!IngressRulesInMemory,
         OtherProofs!IngressRulesInMemory, Other!Global, OtherProofs!Global
<1>9. \A rules, p : /\ Other!PrunePanics(rules, p) <=> OtherProofs!PrunePanics(rules, p)
                    /\ Other!Pruned(rules, p) = OtherProofs!Pruned(rules, p)
  BY DEF Other!PrunePanics, OtherProofs!PrunePanics, Other!Pruned, OtherProofs!Pruned,
         Other!Last, OtherProofs!Last, Other!Front, OtherProofs!Front
<1>. QED
  BY <1>6, <1>7, <1>8, <1>9

\* The calls of the other manager's reconcile are those the lemmas are about.
LEMMA OtherReconciles ==
  ASSUME Other!ReconcileStep
  PROVE  OtherProofs!ReconcileStep
<1>1. Other!UpdateLabels => OtherProofs!UpdateLabels
  BY OtherWords DEF Other!UpdateLabels, OtherProofs!UpdateLabels,
                    Other!ValidWebapp, OtherProofs!ValidWebapp
<1>2. Other!AddFinalizer => OtherProofs!AddFinalizer
  BY OtherWords DEF Other!AddFinalizer, OtherProofs!AddFinalizer,
                    Other!ValidWebapp, OtherProofs!ValidWebapp
<1>3. Other!CreateNamespace => OtherProofs!CreateNamespace
  BY OtherWords DEF Other!CreateNamespace, OtherProofs!CreateNamespace
<1>4. Other!ReadIngress => OtherProofs!ReadIngress
  BY OtherWords DEF Other!ReadIngress, OtherProofs!ReadIngress
<1>5. Other!DeleteProxy => OtherProofs!DeleteProxy
  BY OtherWords DEF Other!DeleteProxy, OtherProofs!DeleteProxy
<1>6. Other!PruneIngress => OtherProofs!PruneIngress
  BY OtherWords, OtherRules DEF Other!PruneIngress, OtherProofs!PruneIngress
<1>7. Other!RemoveFinalizer => OtherProofs!RemoveFinalizer
  BY OtherWords DEF Other!RemoveFinalizer, OtherProofs!RemoveFinalizer,
                    Other!ValidWebapp, OtherProofs!ValidWebapp
<1>8. Other!UpsertDeployment => OtherProofs!UpsertDeployment
  BY OtherWords DEF Other!UpsertDeployment, OtherProofs!UpsertDeployment,
                    Other!Parses, OtherProofs!Parses
<1>9. Other!UpsertService => OtherProofs!UpsertService
  BY OtherWords DEF Other!UpsertService, OtherProofs!UpsertService,
                    Other!Parses, OtherProofs!Parses,
                    Other!ValidService, OtherProofs!ValidService
<1>10. Other!UpsertProxy => OtherProofs!UpsertProxy
  BY OtherWords DEF Other!UpsertProxy, OtherProofs!UpsertProxy,
                    Other!Parses, OtherProofs!Parses
<1>11. Other!UpdateIngress => OtherProofs!UpdateIngress
  BY OtherWords, OtherRules DEF Other!UpdateIngress, OtherProofs!UpdateIngress
<1>. QED
  BY <1>1, <1>2, <1>3, <1>4, <1>5, <1>6, <1>7, <1>8, <1>9, <1>10, <1>11
  DEF Other!ReconcileStep, OtherProofs!ReconcileStep

\* And so are the start of its reconcile and what its informers deliver.
LEMMA OtherReads ==
  /\ \A w : /\ Other!GetNothing(w) => OtherProofs!GetNothing(w)
            /\ Other!Get(w) => OtherProofs!Get(w)
  /\ OtherDeliver => OtherProofs!ClusterStep
<1>1. \A w : /\ Other!GetNothing(w) => OtherProofs!GetNothing(w)
             /\ Other!Get(w) => OtherProofs!Get(w)
  BY OtherWords DEF Other!GetNothing, OtherProofs!GetNothing, Other!Get, OtherProofs!Get,
                    Other!jobVars, OtherProofs!jobVars,
                    Other!FirstCall, OtherProofs!FirstCall
<1>2. Kinds = OtherProofs!Kinds /\ \A kind : Names(kind) = OtherProofs!Names(kind)
  BY DEF Kinds, OtherProofs!Kinds, Names, OtherProofs!Names, Global, OtherProofs!Global
<1>3. \A kind, name : Other!Deliver(kind, name) => OtherProofs!Deliver(kind, name)
  BY DEF Other!Deliver, OtherProofs!Deliver
<1>. QED
  BY <1>1, <1>2, <1>3
  DEF OtherDeliver, OtherProofs!ClusterStep, OtherProofs!jobVars

\* What holds of the other manager is what the lemmas are about.
LEMMA OtherInvariants ==
  /\ Other!TypeOK <=> OtherProofs!TypeOK
  /\ Other!CoreInv <=> OtherProofs!CoreInv
  /\ Other!Init <=> OtherProofs!Init
<1>1. /\ Other!Kinds = OtherProofs!Kinds /\ Other!Keys = OtherProofs!Keys
      /\ \A kind : Other!Names(kind) = OtherProofs!Names(kind)
      /\ \A kind : Other!Table(kind) = OtherProofs!Table(kind)
      /\ Other!WebappObject = OtherProofs!WebappObject
      /\ Other!IngressObject = OtherProofs!IngressObject
  BY DEF Other!Kinds, OtherProofs!Kinds, Other!Names, OtherProofs!Names,
         Other!Keys, OtherProofs!Keys, Other!Global, OtherProofs!Global,
         Other!Table, OtherProofs!Table, Other!ObjectsOf, OtherProofs!ObjectsOf,
         Other!WebappObject, OtherProofs!WebappObject,
         Other!OwnedObject, OtherProofs!OwnedObject,
         Other!ProxyObject, OtherProofs!ProxyObject,
         Other!NamespaceObject, OtherProofs!NamespaceObject,
         Other!IngressObject, OtherProofs!IngressObject,
         Other!Rule, OtherProofs!Rule, Other!Path, OtherProofs!Path
<1>2. \A t : Other!AreObjects(t) <=> OtherProofs!AreObjects(t)
  BY <1>1 DEF Other!AreObjects, OtherProofs!AreObjects
<1>3. Other!TypeOK <=> OtherProofs!TypeOK
  BY <1>1, <1>2 DEF Other!TypeOK, OtherProofs!TypeOK,
     Other!ClusterTypeOK, OtherProofs!ClusterTypeOK, Other!Calls, OtherProofs!Calls
<1>4. /\ Other!CacheInStep <=> OtherProofs!CacheInStep
      /\ Other!JobOK <=> OtherProofs!JobOK
      /\ Other!HeldCurrent <=> OtherProofs!HeldCurrent
  BY <1>1 DEF Other!CacheInStep, OtherProofs!CacheInStep, Other!Current,
     OtherProofs!Current, Other!JobOK, OtherProofs!JobOK, Other!BeforeGate,
     OtherProofs!BeforeGate, Other!Finalization, OtherProofs!Finalization,
     Other!Upserts, OtherProofs!Upserts, Other!HeldCurrent, OtherProofs!HeldCurrent
<1>5. Other!CoreInv <=> OtherProofs!CoreInv
  BY <1>3, <1>4 DEF Other!CoreInv, OtherProofs!CoreInv
<1>6. Other!Init <=> OtherProofs!Init
  <2>1. Other!NoObjects = OtherProofs!NoObjects
    BY <1>1 DEF Other!NoObjects, OtherProofs!NoObjects
  <2>. QED
    BY <2>1 DEF Other!Init, OtherProofs!Init, Other!ClusterInit, OtherProofs!ClusterInit
<1>. QED
  BY <1>3, <1>5, <1>6

-----------------------------------------------------------------------------
(* Turns of the two managers.                                              *)

\* Each manager's own invariant, and the shape of the ingress wherever it is kept.
ManagersInv ==
  CoreInv /\ ShapeInv /\ OtherProofs!CoreInv /\ OtherProofs!ShapeInv

\* A turn of one manager is a step of its controller, or a write refused because
\* the other one has overtaken it.
LEMMA TurnsAreSteps ==
  /\ ThisTurn => Next \/ (pc # "idle" /\ Fails)
  /\ OtherTurn => OtherProofs!Next \/ (pc2 # "idle" /\ OtherProofs!Fails)
<1>1. MayCollide => pc # "idle" /\ pc2 # "idle"
  BY DEF MayCollide, Target
<1>. QED
  BY <1>1, OtherWords, OtherReconciles, OtherReads
  DEF ThisTurn, Next, OtherTurn, OtherProofs!Next

\* What the other manager learns of a turn, and what this one does.
LEMMA TurnsAreWatched ==
  ASSUME ManagersInv
  PROVE  /\ ThisTurn => OtherProofs!WatchesWrites
         /\ OtherTurn => WatchesWrites
<1>1. Keys = OtherProofs!Keys /\ Kinds = OtherProofs!Kinds
  BY DEF Keys, OtherProofs!Keys, Kinds, OtherProofs!Kinds, Names, OtherProofs!Names,
         Global, OtherProofs!Global
<1>. DEFINE written == {k \in Keys : store'[k[1]][k[2]] # store[k[1]][k[2]]}
<1>2. \A s : Outdated(s) = s \cup {k \in written : k[1] \in Laggy}
  BY DEF Outdated, CachedKeys, Written
<1>3. held \subseteq Keys /\ held2 \subseteq Keys
      /\ {k \in held : ~Written(k)} = held \ written
      /\ {k \in held2 : ~Written(k)} = held2 \ written
  <2>1. held \subseteq Keys /\ held2 \subseteq Keys
    BY DEF ManagersInv, CoreInv, TypeOK, ClusterTypeOK, OtherProofs!CoreInv,
           OtherProofs!TypeOK, OtherProofs!ClusterTypeOK, Keys, OtherProofs!Keys,
           Kinds, OtherProofs!Kinds, Names, OtherProofs!Names, Global,
           OtherProofs!Global
  <2>. QED
    BY <2>1 DEF Written
<1>4. ThisTurn => OtherProofs!WatchesWrites
  BY <1>1, <1>2, <1>3 DEF ThisTurn, OtherWatches, Refreshed,
     OtherProofs!WatchesWrites, OtherProofs!jobVars
<1>5. OtherTurn => WatchesWrites
  BY <1>2, <1>3 DEF OtherTurn, ThisWatches, Refreshed, WatchesWrites
<1>. QED
  BY <1>4, <1>5

\* The objects at the server and its ingress look the same to both.
LEMMA SharedStore ==
  /\ \A t : AreObjects(t) <=> OtherProofs!AreObjects(t)
  /\ \A ingress : Shaped(ingress) <=> OtherProofs!Shaped(ingress)
  /\ Global = OtherProofs!Global
<1>1. /\ Kinds = OtherProofs!Kinds
      /\ \A kind : Names(kind) = OtherProofs!Names(kind)
      /\ \A kind : Table(kind) = OtherProofs!Table(kind)
  BY DEF Kinds, OtherProofs!Kinds, Names, OtherProofs!Names, Global, OtherProofs!Global,
         Table, OtherProofs!Table, ObjectsOf, OtherProofs!ObjectsOf,
         WebappObject, OtherProofs!WebappObject, OwnedObject, OtherProofs!OwnedObject,
         ProxyObject, OtherProofs!ProxyObject, NamespaceObject,
         OtherProofs!NamespaceObject, IngressObject, OtherProofs!IngressObject,
         Rule, OtherProofs!Rule, Path, OtherProofs!Path
<1>. QED
  BY <1>1 DEF AreObjects, OtherProofs!AreObjects, Shaped, OtherProofs!Shaped,
              WellFormed, OtherProofs!WellFormed, Global, OtherProofs!Global

\* The manager whose turn it is keeps its part of the invariant and leaves the
\* decisions to the users.
LEMMA ThisTurnStep ==
  ASSUME ManagersInv, ThisTurn
  PROVE  CoreInv' /\ ShapeInv' /\ UsersDecide
<1>1. CASE Next
  <2>1. CoreInv' /\ ShapeInv' /\ [UsersDecide]_vars
    BY <1>1, CoreStep, ShapeStep, UsersDecideStep DEF ManagersInv
  <2>2. UNCHANGED vars => UsersDecide
    BY DEF vars, clusterVars, UsersDecide, AsUsersWant
  <2>. QED
    BY <2>1, <2>2
<1>2. CASE pc # "idle" /\ Fails
  <2>1. UNCHANGED faults
    BY <1>2 DEF Fails, Retry
  <2>2. CoreInv' /\ ShapeInv' /\ store' = store
    BY <1>2, <2>1, FailStep, FailKeepsShape DEF ManagersInv
  <2>. QED
    BY <2>2 DEF UsersDecide, AsUsersWant
<1>. QED
  BY <1>1, <1>2, TurnsAreSteps

\* A turn of the other manager keeps its own invariants and, as a step of
\* the same code, overrules no user.
LEMMA OtherTurnStep ==
  ASSUME ManagersInv, OtherTurn
  PROVE  OtherProofs!CoreInv' /\ OtherProofs!ShapeInv' /\ UsersDecide
<1>. USE OtherAssumptions, ConstantsAssumption, DistinctAssumption, BoundsAssumption
<1>1. CASE OtherProofs!Next
  <2>1. [OtherProofs!Next]_(OtherProofs!vars)
    BY <1>1
  <2>2. OtherProofs!CoreInv' /\ OtherProofs!ShapeInv'
    BY <2>1, OtherProofs!CoreStep, OtherProofs!ShapeStep DEF ManagersInv
  <2>3. [OtherProofs!UsersDecide]_(OtherProofs!vars)
    BY <2>1, OtherProofs!UsersDecideStep DEF ManagersInv
  <2>. QED
    BY <2>2, <2>3 DEF OtherProofs!vars, OtherProofs!clusterVars, UsersDecide,
         OtherProofs!UsersDecide, AsUsersWant, OtherProofs!AsUsersWant
<1>2. CASE pc2 # "idle" /\ OtherProofs!Fails
  <2>1. UNCHANGED faults
    BY <1>2 DEF OtherProofs!Fails, OtherProofs!Retry
  <2>2. OtherProofs!CoreInv' /\ store' = store
    BY <1>2, <2>1, OtherProofs!FailStep DEF ManagersInv
  <2>3. OtherProofs!ShapeInv'
    BY <1>2, OtherProofs!FailKeepsShape DEF ManagersInv
  <2>. QED
    BY <2>2, <2>3 DEF UsersDecide, AsUsersWant
<1>. QED
  BY <1>1, <1>2, TurnsAreSteps

\* No turn of either breaks what holds of the other.
LEMMA ManagersStep ==
  ASSUME ManagersInv, [ManagersNext]_managersVars
  PROVE  ManagersInv'
<1>1. CASE ThisTurn
  <2>1. CoreInv' /\ ShapeInv'
    BY <1>1, ThisTurnStep
  <2>2. /\ OtherProofs!AreObjects(store') /\ OtherProofs!Shaped(store'.ingress[Global])
        /\ births' \in [Webapps -> Nat] /\ ops' \in Nat /\ faults' \in Nat
    BY <2>1, SharedStore DEF CoreInv, TypeOK, ClusterTypeOK, ShapeInv
  <2>3. OtherProofs!CoreInv'
    BY <1>1, <2>2, TurnsAreWatched, OtherProofs!WatchStep, OtherAssumptions,
       ConstantsAssumption, DistinctAssumption, BoundsAssumption DEF ManagersInv
  <2>4. OtherProofs!ShapeInv'
    BY <1>1, <2>2, TurnsAreWatched, SharedStore, OtherProofs!WatchKeepsShape,
       OtherAssumptions, ConstantsAssumption, DistinctAssumption, BoundsAssumption
    DEF ManagersInv
  <2>. QED
    BY <2>1, <2>3, <2>4 DEF ManagersInv
<1>2. CASE OtherTurn
  <2>1. OtherProofs!CoreInv' /\ OtherProofs!ShapeInv'
    BY <1>2, OtherTurnStep
  <2>2. /\ AreObjects(store') /\ Shaped(store'.ingress[Global])
        /\ births' \in [Webapps -> Nat] /\ ops' \in Nat /\ faults' \in Nat
    BY <2>1, SharedStore
    DEF OtherProofs!CoreInv, OtherProofs!TypeOK, OtherProofs!ClusterTypeOK,
        OtherProofs!ShapeInv
  <2>. QED
    BY <1>2, <2>1, <2>2, TurnsAreWatched, WatchStep, WatchKeepsShape DEF ManagersInv
<1>3. CASE UNCHANGED managersVars
  <2>1. CoreInv' /\ ShapeInv'
    BY <1>3, CoreStep, ShapeStep DEF ManagersInv, managersVars
  <2>2. UNCHANGED OtherProofs!vars
    BY <1>3 DEF managersVars, otherVars, vars, clusterVars, OtherProofs!vars,
                OtherProofs!clusterVars, OtherProofs!jobVars
  <2>3. OtherProofs!CoreInv' /\ OtherProofs!ShapeInv'
    BY <2>2, OtherProofs!CoreStep, OtherProofs!ShapeStep, OtherAssumptions,
       ConstantsAssumption, DistinctAssumption, BoundsAssumption DEF ManagersInv
  <2>. QED
    BY <2>1, <2>3 DEF ManagersInv
<1>. QED
  BY <1>1, <1>2, <1>3 DEF ManagersNext

\* Both start in the invariant.
LEMMA ManagersInitInv == ManagersInit => ManagersInv
<1>1. Init => CoreInv /\ ShapeInv
  BY InitIInv, ShapeInit DEF IInv
<1>2. OtherProofs!Init => OtherProofs!IInv
  BY OtherProofs!InitIInv, OtherAssumptions, ConstantsAssumption, DistinctAssumption,
     BoundsAssumption
<1>3. OtherProofs!Init => OtherProofs!ShapeInv
  BY OtherProofs!ShapeInit, OtherAssumptions, ConstantsAssumption, DistinctAssumption,
     BoundsAssumption
<1>. QED
  BY <1>1, <1>2, <1>3, OtherInvariants DEF ManagersInit, ManagersInv, OtherProofs!IInv

\* The invariant that the theorems below rest on.
LEMMA ManagersInductive == ManagersSpec => []ManagersInv
BY ManagersInitInv, ManagersStep, PTL DEF ManagersSpec

\* Without leader election every variable of both managers keeps its type
\* (cmd/main.go:70, 159-165).
THEOREM BothTypeCorrect == ManagersSpec => [](TypeOK /\ Other!TypeOK)
<1>1. ManagersInv => TypeOK /\ Other!TypeOK
  BY OtherInvariants DEF ManagersInv, CoreInv, OtherProofs!CoreInv
<1>. QED
  BY <1>1, ManagersInductive, PTL

\* Two managers that write whole Webapps from copies of their own
\* (webapp_controller.go:94, 104, 127) still leave the decisions to the users: the
\* server refuses what either sends from a copy that the other has outdated.
THEOREM UsersDecideForBothAlways == ManagersSpec => UsersDecideForBoth
<1>1. ManagersInv /\ [ManagersNext]_managersVars => [UsersDecide]_managersVars
  BY ThisTurnStep, OtherTurnStep DEF ManagersNext
<1>. QED
  BY <1>1, ManagersInductive, PTL DEF ManagersSpec, UsersDecideForBoth

\* Two managers that write the one ingress by turns keep its shape, one rule per
\* host and a path in every rule, whatever either has of it in memory.
THEOREM IngressWellFormedForBoth == ManagersSpec => []IngressWellFormed
<1>1. ManagersInv => IngressWellFormed
  BY ShapeSuffices DEF ManagersInv
<1>. QED
  BY <1>1, ManagersInductive, PTL
-----------------------------------------------------------------------------
(* Neither forgets what the other one leaves to it.                        *)

\* A step of both is a turn of one that the other watches.
ThisMoves ==
  /\ [Next]_vars \/ Fails
  /\ OtherProofs!WatchesWrites \/ UNCHANGED OtherProofs!vars

OtherMoves ==
  /\ [OtherProofs!Next]_(OtherProofs!vars) \/ OtherProofs!Fails
  /\ WatchesWrites \/ UNCHANGED vars

\* Every step is of one of these two kinds.
LEMMA SomeoneMoves ==
  ASSUME ManagersInv, [ManagersNext]_managersVars
  PROVE  ThisMoves \/ OtherMoves
<1>1. CASE UNCHANGED managersVars
  <2>1. UNCHANGED vars /\ UNCHANGED OtherProofs!vars
    BY <1>1 DEF managersVars, otherVars, vars, clusterVars, OtherProofs!vars,
                OtherProofs!clusterVars, OtherProofs!jobVars
  <2>. QED
    BY <2>1 DEF ThisMoves
<1>. QED
  BY <1>1, TurnsAreSteps, TurnsAreWatched DEF ManagersNext, ThisMoves, OtherMoves

\* Neither is misled in any step if neither is in those that move something.
LEMMA BothFresh ==
  ASSUME [BothReadFresh]_managersVars
  PROVE  /\ FreshIngressRead /\ FreshDeploymentRead
         /\ OtherProofs!FreshIngressRead /\ OtherProofs!FreshDeploymentRead
<1>1. /\ OtherProofs!ReadIngress => Other!ReadIngress
      /\ OtherProofs!UpsertDeployment => Other!UpsertDeployment
  BY OtherWords DEF Other!ReadIngress, OtherProofs!ReadIngress, Other!UpsertDeployment,
                    OtherProofs!UpsertDeployment, Other!Parses, OtherProofs!Parses
<1>2. CASE BothReadFresh
  BY <1>1, <1>2, OtherWords
  DEF BothReadFresh, Other!FreshIngressRead, OtherProofs!FreshIngressRead,
      Other!FreshDeploymentRead, OtherProofs!FreshDeploymentRead
<1>3. CASE UNCHANGED managersVars
  <2>1. pc' = pc /\ pc2' = pc2
    BY <1>3 DEF managersVars, otherVars, vars, jobVars
  <2>2. FreshIngressRead /\ FreshDeploymentRead
    BY <2>1 DEF FreshIngressRead, ReadIngress, FreshDeploymentRead, UpsertDeployment,
                Go, Fails, Retry, Drop
  <2>3. OtherProofs!FreshIngressRead /\ OtherProofs!FreshDeploymentRead
    BY <2>1 DEF OtherProofs!FreshIngressRead, OtherProofs!ReadIngress,
                OtherProofs!FreshDeploymentRead, OtherProofs!UpsertDeployment,
                OtherProofs!Go, OtherProofs!Fails, OtherProofs!Retry, OtherProofs!Drop
  <2>. QED
    BY <2>2, <2>3
<1>. QED
  BY <1>2, <1>3

\* Both call the same things owed.
LEMMA SharedTerms ==
  /\ OtherProofs!UntilDeployed = UntilDeployed /\ OtherProofs!UntilServed = UntilServed
  /\ OtherProofs!UntilProxied = UntilProxied /\ OtherProofs!UntilRouted = UntilRouted
  /\ OtherProofs!OwnProxies <=> OwnProxies
  /\ OtherProofs!Global = Global
  /\ \A w, calls : /\ Other!Owes(w, calls) <=> OtherProofs!Owes(w, calls)
                   /\ Other!Owes(w, calls)' <=> OtherProofs!Owes(w, calls)'
  /\ \A w : OtherProofs!Unseen(w)' => \A calls : OtherProofs!Owes(w, calls)'
  /\ \A w : Unseen(w)' => \A calls : Owes(w, calls)'
BY DEF UntilDeployed, UntilServed, UntilProxied, UntilRouted, Calls, Global,
       OtherProofs!UntilDeployed, OtherProofs!UntilServed, OtherProofs!UntilProxied,
       OtherProofs!UntilRouted, OtherProofs!Calls, OtherProofs!Global,
       OwnProxies, OtherProofs!OwnProxies,
       Owes, Unseen, Other!Owes, Other!Unseen, OtherProofs!Owes, OtherProofs!Unseen

\* What a Webapp has is what the server has for it, whoever asks.
LEMMA SharedObjects ==
  \A w : /\ OtherProofs!Live(w) <=> Live(w)
         /\ OtherProofs!Live(w)' <=> Live(w)'
         /\ OtherProofs!Revised(w) <=> Revised(w)
         /\ OtherProofs!Revised(w)' <=> Revised(w)'
         /\ OtherProofs!Served(w) <=> Served(w)
         /\ OtherProofs!Served(w)' <=> Served(w)'
         /\ OtherProofs!Proxied(w) <=> Proxied(w)
         /\ OtherProofs!Proxied(w)' <=> Proxied(w)'
         /\ OtherProofs!Routed(w) <=> Routed(w)
         /\ OtherProofs!Routed(w)' <=> Routed(w)'
BY DEF Live, Revised, Served, Proxied, Routed, ServerRules, Global, ToSet,
       OtherProofs!Live, OtherProofs!Revised, OtherProofs!Served, OtherProofs!Proxied,
       OtherProofs!Routed, OtherProofs!ServerRules, OtherProofs!Global,
       OtherProofs!ToSet

\* So is what there has been of a name.
LEMMA SharedAges ==
  /\ OtherProofs!Ages <=> Ages
  /\ OtherProofs!ServerNumbered <=> ServerNumbered
  /\ OtherProofs!ServerNumbered' <=> ServerNumbered'
  /\ OtherProofs!NothingDeleted <=> NothingDeleted
  /\ OtherProofs!NothingDeleted' <=> NothingDeleted'
  /\ \A w : /\ OtherProofs!Reused(w) <=> Reused(w)
            /\ OtherProofs!Reused(w)' <=> Reused(w)'
BY DEF Ages, ServerNumbered, NothingDeleted, Reused, Live, OtherProofs!Ages,
       OtherProofs!ServerNumbered, OtherProofs!NothingDeleted, OtherProofs!Reused,
       OtherProofs!Live

\* Both are aware of every version they have not reconciled.
BothNotice == NoticeInv /\ OtherProofs!NoticeInv

\* ...and remain so whoever moves.
LEMMA BothNoticeStep ==
  ASSUME ManagersInv, BothNotice, ThisMoves \/ OtherMoves
  PROVE  BothNotice'
<1>. USE OtherAssumptions, ConstantsAssumption, DistinctAssumption, BoundsAssumption
<1>1. CASE ThisMoves
  BY <1>1, TurnNotices, OtherProofs!WatchedNotices
  DEF ThisMoves, ManagersInv, BothNotice
<1>2. CASE OtherMoves
  BY <1>2, OtherProofs!TurnNotices, WatchedNotices
  DEF OtherMoves, ManagersInv, BothNotice
<1>. QED
  BY <1>1, <1>2

\* The copies of both are of Webapps that there have been.
BothDated == ServerNumbered /\ CopiesDated /\ OtherProofs!CopiesDated

\* ...and remain so whoever moves.
LEMMA BothDatedStep ==
  ASSUME ManagersInv, BothDated, ThisMoves \/ OtherMoves
  PROVE  BothDated' /\ Ages
<1>. USE OtherAssumptions, ConstantsAssumption, DistinctAssumption, BoundsAssumption
<1>1. CASE ThisMoves
  <2>1. ServerNumbered' /\ CopiesDated' /\ Ages
    BY <1>1, DatesStep, AgesStep DEF ThisMoves, ManagersInv, BothDated
  <2>2. OtherProofs!CopiesDated'
    BY <1>1, <2>1, SharedAges, OtherProofs!WatchedDates
    DEF ThisMoves, ManagersInv, BothDated
  <2>. QED
    BY <2>1, <2>2 DEF BothDated
<1>2. CASE OtherMoves
  <2>1. /\ OtherProofs!ServerNumbered' /\ OtherProofs!CopiesDated'
        /\ OtherProofs!Ages
    BY <1>2, SharedAges, OtherProofs!DatesStep, OtherProofs!AgesStep
    DEF OtherMoves, ManagersInv, BothDated
  <2>2. CopiesDated'
    BY <1>2, <2>1, SharedAges, WatchedDates DEF OtherMoves, ManagersInv, BothDated
  <2>. QED
    BY <2>1, <2>2, SharedAges DEF BothDated
<1>. QED
  BY <1>1, <1>2

\* A reconcile that is late, having found no ingress where the other one has put
\* one since, will drop its routes and report success: then everyone's route is
\* the other one's business, which cannot be late as well.
OneCovers ==
  /\ ~(Late /\ OtherProofs!Late)
  /\ \A w \in Webapps : Live(w) =>
       /\ Late => OtherProofs!Owes(w, UntilRouted) \/ Routed(w)
       /\ OtherProofs!Late => Owes(w, UntilRouted) \/ Routed(w)

AgreeInv ==
  BothNotice /\ BothDated /\ NothingForgotten /\ (NothingDeleted => OneCovers)

\* A turn of this manager leaves one of the two responsible for each Webapp.
LEMMA ThisAgrees ==
  ASSUME ManagersInv, AgreeInv, OwnProxies, FreshIngressRead, FreshDeploymentRead,
         ThisMoves
  PROVE  NothingForgotten' /\ (NothingDeleted' => OneCovers')
<1>1. /\ CoreInv /\ NoticeInv /\ ServerNumbered /\ CopiesDated
      /\ [Next]_vars \/ Fails
  BY DEF ManagersInv, AgreeInv, BothNotice, BothDated, ThisMoves
<1>2. NothingDeleted' => NothingDeleted /\ OneCovers
  BY <1>1, AgesStep, DeletedBefore DEF AgreeInv
<1>3. /\ \A w \in Webapps :
           store'.webapp[w] # store.webapp[w] => OtherProofs!Unseen(w)'
      /\ \A w, calls : OtherProofs!Owes(w, calls) => OtherProofs!Owes(w, calls)'
      /\ UNCHANGED <<pc2, ing2>>
  <2>1. UNCHANGED <<pc2, ing2>>
    BY DEF ThisMoves, OtherProofs!WatchesWrites, OtherProofs!vars, OtherProofs!jobVars
  <2>. QED
    BY <2>1, OtherProofs!WatchedOwes, OtherAssumptions, ConstantsAssumption,
       DistinctAssumption, BoundsAssumption DEF ThisMoves
<1>4. /\ Late' => Late
      /\ Late => store'.ingress[Global] = store.ingress[Global]
  BY <1>1, TurnsLate
<1>5. OtherProofs!Late' => OtherProofs!Late \/ store.ingress[Global] = None
  BY <1>3, SharedTerms DEF OtherProofs!Late
<1>6. ASSUME NothingDeleted'
      PROVE  ~(Late /\ OtherProofs!Late)'
  BY <1>2, <1>4, <1>5, <1>6 DEF OneCovers, Late
<1>7. ASSUME NothingDeleted', NEW w \in Webapps, Live(w)', Late
      PROVE  OtherProofs!Owes(w, UntilRouted)' \/ Routed(w)'
  <2>1. CASE store'.webapp[w] = store.webapp[w]
    BY <1>2, <1>3, <1>4, <1>7, <2>1, RouteStays DEF OneCovers, Live
  <2>2. CASE store'.webapp[w] # store.webapp[w]
    BY <1>3, <2>2, SharedTerms
  <2>. QED
    BY <2>1, <2>2
<1>8. ASSUME NothingDeleted', NEW w \in Webapps, Live(w)', OtherProofs!Late'
      PROVE  Owes(w, UntilRouted)' \/ Routed(w)'
  <2>1. CASE OtherProofs!Late
    <3>1. ~Late /\ (Live(w) => Owes(w, UntilRouted) \/ Routed(w))
      BY <1>2, <1>8, <2>1 DEF OneCovers
    <3>. QED
      BY <1>1, <1>2, <1>8, <3>1, TurnRoutes
  <2>2. CASE ~OtherProofs!Late
    <3>1. store.ingress[Global] = None /\ store'.ingress[Global] # None
      BY <1>5, <1>8, <2>2, SharedTerms DEF OtherProofs!Late
    <3>. QED
      BY <1>1, <1>8, <3>1, TurnCreates
  <2>. QED
    BY <2>1, <2>2
<1>9. ASSUME NothingDeleted', NEW w \in Webapps, Live(w)'
      PROVE  Owed(w, UntilRouted)' \/ Routed(w)'
  <2>1. CASE Late
    BY <1>7, <1>9, <2>1, SharedTerms DEF Owed
  <2>2. CASE ~Late
    <3>1. CASE OtherProofs!Owes(w, UntilRouted)
      BY <1>3, <3>1, SharedTerms DEF Owed
    <3>2. CASE ~OtherProofs!Owes(w, UntilRouted)
      <4>1. Live(w) => Owes(w, UntilRouted) \/ Routed(w)
        BY <1>2, <1>9, <3>2, SharedTerms DEF AgreeInv, NothingForgotten, Owed
      <4>. QED
        BY <1>1, <1>2, <1>9, <2>2, <4>1, TurnRoutes DEF Owed
    <3>. QED
      BY <3>1, <3>2
  <2>. QED
    BY <2>1, <2>2
<1>10. ASSUME NEW w \in Webapps, Live(w)'
       PROVE  /\ \/ Owed(w, UntilDeployed)' \/ Revised(w)'
                 \/ Reused(w)' /\ store'.deployment[w] = None
              /\ \/ Owed(w, UntilServed)' \/ Served(w)'
                 \/ Reused(w)' /\ store'.service[w] = None
              /\ Owed(w, UntilProxied)' \/ Proxied(w)'
  <2>1. /\ (Live(w) => \/ Owes(w, UntilDeployed) \/ Revised(w)
                       \/ Reused(w) /\ store.deployment[w] = None)
             => \/ Owes(w, UntilDeployed)' \/ Revised(w)'
                \/ Reused(w)' /\ store'.deployment[w] = None
        /\ (Live(w) => \/ Owes(w, UntilServed) \/ Served(w)
                       \/ Reused(w) /\ store.service[w] = None)
             => \/ Owes(w, UntilServed)' \/ Served(w)'
                \/ Reused(w)' /\ store'.service[w] = None
        /\ (Live(w) => Owes(w, UntilProxied) \/ Proxied(w))
             => Owes(w, UntilProxied)' \/ Proxied(w)'
    BY <1>1, <1>10, TurnForgetsNothing
  <2>. QED
    BY <1>3, <2>1, SharedTerms DEF AgreeInv, NothingForgotten, Owed
<1>11. NothingDeleted' => OneCovers'
  BY <1>4, <1>6, <1>7, <1>8 DEF OneCovers
<1>. QED
  BY <1>9, <1>10, <1>11 DEF NothingForgotten

\* So does a turn of the other one.
LEMMA OtherAgrees ==
  ASSUME ManagersInv, AgreeInv, OwnProxies, OtherProofs!FreshIngressRead,
         OtherProofs!FreshDeploymentRead, OtherMoves
  PROVE  NothingForgotten' /\ (NothingDeleted' => OneCovers')
<1>1. /\ OtherProofs!CoreInv /\ OtherProofs!NoticeInv
      /\ OtherProofs!ServerNumbered /\ OtherProofs!CopiesDated
      /\ OtherProofs!OwnProxies
      /\ [OtherProofs!Next]_(OtherProofs!vars) \/ OtherProofs!Fails
  BY SharedAges, SharedTerms
  DEF ManagersInv, AgreeInv, BothNotice, BothDated, OtherMoves
<1>2. NothingDeleted' => NothingDeleted /\ OneCovers /\ OtherProofs!NothingDeleted'
  <2>1. OtherProofs!Ages
    BY <1>1, OtherProofs!AgesStep, OtherAssumptions, ConstantsAssumption,
       DistinctAssumption, BoundsAssumption
  <2>2. OtherProofs!NothingDeleted' => OtherProofs!NothingDeleted
    BY <1>1, <2>1, OtherProofs!DeletedBefore, OtherAssumptions, ConstantsAssumption,
       DistinctAssumption, BoundsAssumption
  <2>. QED
    BY <2>2, SharedAges DEF AgreeInv
<1>3. /\ \A w \in Webapps : store'.webapp[w] # store.webapp[w] => Unseen(w)'
      /\ \A w, calls : Owes(w, calls) => Owes(w, calls)'
      /\ UNCHANGED <<pc, ing>>
  <2>1. UNCHANGED <<pc, ing>>
    BY DEF OtherMoves, WatchesWrites, vars, jobVars
  <2>. QED
    BY <2>1, WatchedOwes DEF OtherMoves
<1>4. /\ OtherProofs!Late' => OtherProofs!Late
      /\ OtherProofs!Late => store'.ingress[Global] = store.ingress[Global]
  BY <1>1, SharedTerms, OtherProofs!TurnsLate, OtherAssumptions,
     ConstantsAssumption, DistinctAssumption, BoundsAssumption
<1>5. Late' => Late \/ store.ingress[Global] = None
  BY <1>3 DEF Late
<1>6. ASSUME NothingDeleted'
      PROVE  ~(Late /\ OtherProofs!Late)'
  BY <1>2, <1>4, <1>5, <1>6, SharedTerms DEF OneCovers, OtherProofs!Late
<1>7. ASSUME NothingDeleted', NEW w \in Webapps, Live(w)', OtherProofs!Late
      PROVE  Owes(w, UntilRouted)' \/ Routed(w)'
  <2>1. CASE store'.webapp[w] = store.webapp[w]
    BY <1>2, <1>3, <1>4, <1>7, <2>1, RouteStays DEF OneCovers, Live
  <2>2. CASE store'.webapp[w] # store.webapp[w]
    BY <1>3, <2>2, SharedTerms
  <2>. QED
    BY <2>1, <2>2
<1>8. ASSUME NothingDeleted', NEW w \in Webapps, Live(w)', ~OtherProofs!Late,
             Live(w) => OtherProofs!Owes(w, UntilRouted) \/ Routed(w)
      PROVE  OtherProofs!Owes(w, UntilRouted)' \/ Routed(w)'
  <2>1. /\ OtherProofs!NothingDeleted /\ OtherProofs!Live(w)'
        /\ (OtherProofs!Live(w) =>
             OtherProofs!Owes(w, OtherProofs!UntilRouted) \/ OtherProofs!Routed(w))
    BY <1>2, <1>8, SharedTerms, SharedObjects, SharedAges
  <2>2. OtherProofs!Owes(w, OtherProofs!UntilRouted)' \/ OtherProofs!Routed(w)'
    BY <1>1, <1>8, <2>1, OtherProofs!TurnRoutes, OtherAssumptions,
       ConstantsAssumption, DistinctAssumption, BoundsAssumption
  <2>. QED
    BY <2>2, SharedTerms, SharedObjects
<1>9. ASSUME NothingDeleted', NEW w \in Webapps, Live(w)', Late'
      PROVE  OtherProofs!Owes(w, UntilRouted)' \/ Routed(w)'
  <2>1. CASE Late
    BY <1>2, <1>8, <1>9, <2>1 DEF OneCovers
  <2>2. CASE ~Late
    <3>1. /\ store.ingress[OtherProofs!Global] = None
          /\ store'.ingress[OtherProofs!Global] # None
      BY <1>5, <1>9, <2>2, SharedTerms DEF Late
    <3>2. OtherProofs!Live(w)' /\ OtherProofs!NothingDeleted'
      BY <1>2, <1>9, SharedObjects
    <3>3. OtherProofs!Owes(w, OtherProofs!UntilRouted)' \/ OtherProofs!Routed(w)'
      BY <1>1, <3>1, <3>2, OtherProofs!TurnCreates, OtherAssumptions,
         ConstantsAssumption, DistinctAssumption, BoundsAssumption
    <3>. QED
      BY <3>3, SharedTerms, SharedObjects
  <2>. QED
    BY <2>1, <2>2
<1>10. ASSUME NothingDeleted', NEW w \in Webapps, Live(w)'
       PROVE  Owed(w, UntilRouted)' \/ Routed(w)'
  <2>1. CASE OtherProofs!Late
    BY <1>7, <1>10, <2>1 DEF Owed
  <2>2. CASE ~OtherProofs!Late
    <3>1. CASE Owes(w, UntilRouted)
      BY <1>3, <3>1 DEF Owed
    <3>2. CASE ~Owes(w, UntilRouted)
      <4>1. Live(w) => OtherProofs!Owes(w, UntilRouted) \/ Routed(w)
        BY <1>2, <1>10, <3>2, SharedTerms DEF AgreeInv, NothingForgotten, Owed
      <4>. QED
        BY <1>8, <1>10, <2>2, <4>1, SharedTerms DEF Owed
    <3>. QED
      BY <3>1, <3>2
  <2>. QED
    BY <2>1, <2>2
<1>11. ASSUME NEW w \in Webapps, Live(w)'
       PROVE  /\ \/ Owed(w, UntilDeployed)' \/ Revised(w)'
                 \/ Reused(w)' /\ store'.deployment[w] = None
              /\ \/ Owed(w, UntilServed)' \/ Served(w)'
                 \/ Reused(w)' /\ store'.service[w] = None
              /\ Owed(w, UntilProxied)' \/ Proxied(w)'
  <2>1. OtherProofs!Live(w)'
    BY <1>11, SharedObjects
  <2>2. /\ (OtherProofs!Live(w) =>
              \/ OtherProofs!Owes(w, OtherProofs!UntilDeployed)
              \/ OtherProofs!Revised(w)
              \/ OtherProofs!Reused(w) /\ store.deployment[w] = None)
             => \/ OtherProofs!Owes(w, OtherProofs!UntilDeployed)'
                \/ OtherProofs!Revised(w)'
                \/ OtherProofs!Reused(w)' /\ store'.deployment[w] = None
        /\ (OtherProofs!Live(w) =>
              \/ OtherProofs!Owes(w, OtherProofs!UntilServed)
              \/ OtherProofs!Served(w)
              \/ OtherProofs!Reused(w) /\ store.service[w] = None)
             => \/ OtherProofs!Owes(w, OtherProofs!UntilServed)'
                \/ OtherProofs!Served(w)'
                \/ OtherProofs!Reused(w)' /\ store'.service[w] = None
        /\ (OtherProofs!Live(w) => \/ OtherProofs!Owes(w, OtherProofs!UntilProxied)
                                   \/ OtherProofs!Proxied(w))
             => \/ OtherProofs!Owes(w, OtherProofs!UntilProxied)'
                \/ OtherProofs!Proxied(w)'
    BY <1>1, <2>1, OtherProofs!TurnForgetsNothing, OtherAssumptions,
       ConstantsAssumption, DistinctAssumption, BoundsAssumption
  <2>. QED
    BY <1>3, <2>2, SharedTerms, SharedObjects, SharedAges
    DEF AgreeInv, NothingForgotten, Owed
<1>12. NothingDeleted' => OneCovers'
  BY <1>4, <1>6, <1>7, <1>9 DEF OneCovers
<1>. QED
  BY <1>10, <1>11, <1>12 DEF NothingForgotten

\* In the beginning there are no Webapps, and nothing to notice.
LEMMA AgreeInit == ManagersInit => AgreeInv
<1>1. ASSUME Init
      PROVE  /\ NoticeInv /\ pc = "idle"
             /\ \A kind \in {"webapp", "deployment", "service"}, w \in Webapps :
                  store[kind][w] = None /\ cache[kind][w] = None
  BY <1>1, ConvergenceInit, KindsOfObjects
  DEF ConvergenceInv, Init, ClusterInit, NoObjects
<1>2. ASSUME Init
      PROVE  NoticeInv /\ ServerNumbered /\ CopiesDated /\ ~Late /\ NothingForgotten
  BY <1>1, <1>2
  DEF ServerNumbered, CopiesDated, Dated, Live, Late, Upserts, NothingForgotten
<1>3. ASSUME OtherProofs!Init
      PROVE  OtherProofs!NoticeInv /\ OtherProofs!CopiesDated /\ ~OtherProofs!Late
  <2>1. OtherProofs!NoticeInv
    BY <1>3, OtherProofs!ConvergenceInit, OtherAssumptions, ConstantsAssumption,
       DistinctAssumption, BoundsAssumption DEF OtherProofs!ConvergenceInv
  <2>2. pc2 = "idle" /\ \A w \in Webapps : cache2.webapp[w] = None
    BY <1>3, OtherProofs!KindsOfObjects, OtherAssumptions, ConstantsAssumption,
       DistinctAssumption, BoundsAssumption
    DEF OtherProofs!Init, OtherProofs!ClusterInit, OtherProofs!NoObjects
  <2>. QED
    BY <2>1, <2>2 DEF OtherProofs!Late, OtherProofs!Upserts, OtherProofs!CopiesDated,
                      OtherProofs!Dated
<1>4. ManagersInit => Init /\ OtherProofs!Init
  BY OtherInvariants DEF ManagersInit
<1>. QED
  BY <1>2, <1>3, <1>4 DEF AgreeInv, BothNotice, BothDated, OneCovers

\* Every step leaves it so, if nobody was misled in it.
LEMMA AgreeStep ==
  ASSUME ManagersInv, AgreeInv, OwnProxies, [ManagersNext]_managersVars,
         [BothReadFresh]_managersVars
  PROVE  AgreeInv'
<1>1. BothNotice' /\ BothDated'
  BY SomeoneMoves, BothNoticeStep, BothDatedStep DEF AgreeInv
<1>2. NothingForgotten' /\ (NothingDeleted' => OneCovers')
  BY SomeoneMoves, BothFresh, ThisAgrees, OtherAgrees
<1>. QED
  BY <1>1, <1>2 DEF AgreeInv

\* As long as something of a Webapp is missing or outdated, one of two managers is
\* still to reconcile it, however late the one that wrote last: each gets the events
\* of what the other one changes, and the API server refuses a write from a copy that
\* they have outdated.  Of users nothing is assumed, but two things are excepted: the
\* deployment or service of a name that has been used before may be the
\* predecessor's, written late, and collected; and once a Webapp is deleted a route
\* may go with the ingress that finalizeWebapp deletes (webapp_controller.go:188).
\* It holds of proxy services that are named apart, and of behaviours in which no
\* outdated answer keeps either from writing: that the ingress that createIngress
\* finds (411), and the deployment that upsertDeployment leaves alone (196, 217), are
\* the server's.  Without the first the second route of a new ingress can be lost.
THEOREM NothingForgottenByBoth ==
  ASSUME OwnProxies
  PROVE  ManagersSpec /\ [][BothReadFresh]_managersVars => []NothingForgotten
<1>1. AgreeInv => NothingForgotten
  BY DEF AgreeInv
<1>2. /\ ManagersInv /\ AgreeInv
      /\ [ManagersNext]_managersVars /\ [BothReadFresh]_managersVars
      => AgreeInv'
  BY AgreeStep
<1>. QED
  BY <1>1, <1>2, AgreeInit, ManagersInductive, PTL DEF ManagersSpec

\* Where nothing is owed any more everything has been supplied.
LEMMA AgreeSuffices ==
  ASSUME \A s, t \in Specs : Hash[s] = Hash[t] => s = t, ManagersInv, AgreeInv
  PROVE  ManagersAgree
<1>. SUFFICES ASSUME AtRest, Other!AtRest, NothingDeleted, NEW w \in Webapps, Live(w)
              PROVE  Deployed(w) /\ Served(w) /\ Proxied(w) /\ Routed(w)
  BY DEF ManagersAgree
<1>1. \A calls \in {UntilDeployed, UntilServed, UntilProxied, UntilRouted} :
        ~Owed(w, calls)
  BY DEF Owed, Owes, Unseen, Other!Owes, Other!Unseen, AtRest, Other!AtRest,
         UntilDeployed, UntilServed, UntilProxied, UntilRouted
<1>2. ~Reused(w)
  BY DEF NothingDeleted, AgreeInv, BothDated, ServerNumbered, Reused
<1>3. Revised(w) /\ Served(w) /\ Proxied(w) /\ Routed(w)
  BY <1>1, <1>2 DEF AgreeInv, NothingForgotten
<1>4. /\ store.deployment[w] \in OwnedObject \cup {None}
      /\ store.webapp[w] \in WebappObject
  BY ObjectsTypes DEF ManagersInv, CoreInv, TypeOK, ClusterTypeOK, Live
<1>5. Deployed(w)
  BY <1>3, <1>4 DEF Revised, Deployed, OwnedObject, WebappObject
<1>. QED
  BY <1>3, <1>5

\* When two managers have settled, and no Webapp was deleted so far, every Webapp is
\* deployed, served, proxied and routed as it asks for
\* (webapp_controller.go:135-150), however their reconciles and the edits of users
\* interleaved.  It takes that no two specs have the same revision label, that proxy
\* services are named apart, and that neither manager was kept from writing by an
\* outdated answer: a lagging ingress in createIngress (411) or a lagging deployment
\* in upsertDeployment (196, 217).  After a deletion it need not hold: the emptied
\* ingress is deleted without a look at what the other one has put there (188), and
\* the deployment that a late reconcile created for an earlier Webapp is collected.
THEOREM ManagersComeToAgree ==
  ASSUME OwnProxies, \A s, t \in Specs : Hash[s] = Hash[t] => s = t
  PROVE  ManagersSpec /\ [][BothReadFresh]_managersVars => []ManagersAgree
<1>1. ManagersInv /\ AgreeInv => ManagersAgree
  BY AgreeSuffices
<1>2. /\ ManagersInv /\ AgreeInv
      /\ [ManagersNext]_managersVars /\ [BothReadFresh]_managersVars
      => AgreeInv'
  BY AgreeStep
<1>. QED
  BY <1>1, <1>2, AgreeInit, ManagersInductive, PTL DEF ManagersSpec
=============================================================================
