----------------------------- MODULE DriftProofs -----------------------------
(***************************************************************************)
(* What holds of the Webapp controller even when others delete and edit    *)
(* the objects it generates.                                               *)
(***************************************************************************)
EXTENDS Drift, ConvergenceProofs

Meddling ==
  /\ DeletesGenerated \/ EditsGenerated \/ StripsLabels
  /\ UNCHANGED <<jobVars, faults>>

\* Apart from the meddling, a step is one of the undisturbed controller.
LEMMA DriftSteps ==
  ASSUME [DriftNext]_vars
  PROVE  [Next]_vars \/ Meddling
BY DEF DriftNext, Next, QuietResync, Meddling

\* A generated object is deleted or some of it is changed: not what a proxy
\* service stands for, and not the rules of the ingress.
Disturbs(kind, name, o) ==
  /\ kind \in Kinds \ {"webapp"}
  /\ name \in Names(kind)
  /\ o \in ObjectsOf(kind) \cup {None}
  /\ Meddle(kind, name, o)
  /\ kind = "proxy" /\ o # None => o.target = store.proxy[name].target
  /\ kind = "ingress" /\ o # None => o.rules = store.ingress[Global].rules

\* Every meddling is of this kind.
LEMMA MeddlerWrites ==
  ASSUME ObjectsOK, Meddling
  PROVE  \E kind, name, o : Disturbs(kind, name, o)
<1>1. CASE DeletesGenerated
  <2>1. PICK kind \in {"deployment", "service", "proxy", "ingress"} :
          \E name \in Names(kind) : Meddle(kind, name, None)
    BY <1>1 DEF DeletesGenerated
  <2>2. kind \in Kinds \ {"webapp"}
    BY DEF Kinds
  <2>. QED
    BY <2>1, <2>2 DEF Disturbs
<1>2. CASE EditsGenerated
  <2>a. PICK kind \in {"service", "proxy"}, s \in Specs :
          \E name \in Names(kind) :
            /\ store[kind][name] # None
            /\ Meddle(kind, name, [store[kind][name] EXCEPT !.spec = s])
    BY <1>2 DEF EditsGenerated
  <2>1. PICK name \in Names(kind) :
          /\ store[kind][name] # None
          /\ Meddle(kind, name, [store[kind][name] EXCEPT !.spec = s])
    BY <2>a
  <2>2. kind \in Kinds \ {"webapp"} /\ kind # "ingress"
    BY DEF Kinds
  <2>3. CASE kind = "service"
    <3>1. /\ store.service[name] \in OwnedObject
          /\ ObjectsOf(kind) = OwnedObject
      BY <2>1, <2>3, ObjectsTypes, KindsOfObjects DEF ObjectsOK
    <3>2. [store.service[name] EXCEPT !.spec = s] \in ObjectsOf(kind)
      BY <3>1 DEF OwnedObject
    <3>. QED
      BY <2>1, <2>2, <2>3, <3>2 DEF Disturbs
  <2>4. CASE kind = "proxy"
    <3>1. /\ store.proxy[name] \in ProxyObject
          /\ ObjectsOf(kind) = ProxyObject
      BY <2>1, <2>4, ObjectsTypes, KindsOfObjects DEF ObjectsOK
    <3>2. /\ [store.proxy[name] EXCEPT !.spec = s] \in ObjectsOf(kind)
          /\ [store.proxy[name] EXCEPT !.spec = s].target = store.proxy[name].target
      BY <3>1 DEF ProxyObject
    <3>. QED
      BY <2>1, <2>2, <2>4, <3>2 DEF Disturbs
  <2>. QED
    BY <2>3, <2>4
<1>3. CASE StripsLabels
  <2>. DEFINE o == [store.ingress[Global] EXCEPT !.revision = None]
  <2>1. store.ingress[Global] # None /\ Meddle("ingress", Global, o)
    BY <1>3 DEF StripsLabels
  <2>2. /\ "ingress" \in Kinds \ {"webapp"} /\ Global \in Names("ingress")
        /\ ObjectsOf("ingress") = IngressObject
    BY KindsOfObjects DEF Kinds
  <2>3. store.ingress[Global] \in IngressObject
    BY <2>1, ObjectsTypes DEF ObjectsOK
  <2>4. o \in IngressObject /\ o.rules = store.ingress[Global].rules
    BY <2>3 DEF IngressObject
  <2>. QED
    BY <2>1, <2>2, <2>4 DEF Disturbs
<1>. QED
  BY <1>1, <1>2, <1>3 DEF Meddling

\* What the controller knows of Webapps does not depend on what it generated.
LEMMA MeddlingKeepsIInv ==
  ASSUME IInv, Meddling
  PROVE  IInv'
<1>. ObjectsOK
  BY DEF IInv, CoreInv, TypeOK, ClusterTypeOK, ObjectsOK
<1>1. PICK kind, name, o : Disturbs(kind, name, o)
  BY MeddlerWrites
<1>2. /\ kind \in Kinds \ {"webapp"} /\ name \in Names(kind)
      /\ o \in ObjectsOf(kind) \cup {None}
      /\ Put(kind, name, o) /\ held' \subseteq held
      /\ UNCHANGED <<queue, births>> /\ ops' = ops + 1
  BY <1>1 DEF Disturbs, Meddle
<1>3. UNCHANGED <<pc, cur, obj, ing, faults>>
  BY DEF Meddling, jobVars
<1>4. TypeOK'
  <2>1. ObjectsOK'
    BY <1>2, PutTypes
  <2>. QED
    BY <1>2, <1>3, <2>1 DEF IInv, CoreInv, TypeOK, ClusterTypeOK, ObjectsOK
<1>5. CacheInStep'
  BY <1>2, PutInStep DEF IInv, CoreInv
<1>6. WebappsSame
  BY <1>2, PutWebapps DEF WebappsSame
<1>7. JobOK' /\ HeldCurrent' /\ CopiesVouch'
  BY <1>2, <1>3, <1>6
  DEF IInv, CoreInv, JobOK, HeldCurrent, CopiesVouch, Vouches, WebappsSame
<1>. QED
  BY <1>4, <1>5, <1>7 DEF IInv, CoreInv

\* A proxy service that a meddler leaves stands for the Webapp it stood for.
LEMMA MeddlingKeepsProxies ==
  ASSUME ProxyIInv, Meddling
  PROVE  ProxyInv' /\ ProxyGuarded'
<1>. ObjectsOK
  BY DEF ProxyIInv, IInv, CoreInv, TypeOK, ClusterTypeOK, ObjectsOK
<1>1. PICK kind, name, o : Disturbs(kind, name, o)
  BY MeddlerWrites
<1>2. /\ kind \in Kinds \ {"webapp"} /\ name \in Names(kind)
      /\ o \in ObjectsOf(kind) \cup {None}
      /\ Put(kind, name, o) /\ store[kind][name] # None
      /\ kind = "proxy" /\ o # None => o.target = store.proxy[name].target
  BY <1>1 DEF Disturbs, Meddle
<1>3. pc' = pc /\ cur' = cur
  BY DEF Meddling, jobVars
<1>4. store'.webapp = store.webapp
  BY <1>2, PutWebapps
<1>5. CASE kind # "proxy"
  BY <1>2, <1>3, <1>4, <1>5, PutProxies, ProxiesStay
<1>6. CASE kind = "proxy"
  <2>1. store'.proxy = [store.proxy EXCEPT ![name] = o] /\ store.proxy[name] # None
    BY <1>2, <1>6, PutProxies
  <2>2. store.proxy \in [Proxies -> ProxyObject \cup {None}]
    BY ObjectsTypes DEF ObjectsOK
  <2>3. \A p \in Proxies :
          store'.proxy[p] # None =>
            store.proxy[p] # None /\ store'.proxy[p].target = store.proxy[p].target
    BY <1>2, <1>6, <2>1, <2>2
  <2>4. ProxyGuarded'
    BY <1>4, <2>3 DEF ProxyIInv, ProxyGuarded
  <2>5. \A p \in Proxies : store.proxy[p] = None => store'.proxy[p] = None
    BY <2>1, <2>2
  <2>6. pc \in {"pruneIngress", "removeFinalizer"} => ProxyName[cur] \in Proxies
    BY BusyTypes DEF ProxyIInv, IInv, CoreInv
  <2>7. ProxyInv'
    BY <1>3, <1>4, <2>3, <2>5, <2>6 DEF ProxyIInv, ProxyInv
  <2>. QED
    BY <2>4, <2>7
<1>. QED
  BY <1>5, <1>6

\* The rules of the ingress stay as they are, or go with it.
LEMMA MeddlingKeepsShape ==
  ASSUME CoreInv, ShapeInv, Meddling
  PROVE  ShapeInv'
<1>. ObjectsOK
  BY DEF CoreInv, TypeOK, ClusterTypeOK, ObjectsOK
<1>1. PICK kind, name, o : Disturbs(kind, name, o)
  BY MeddlerWrites
<1>2. /\ kind \in Kinds \ {"webapp"} /\ name \in Names(kind)
      /\ o \in ObjectsOf(kind) \cup {None}
      /\ Put(kind, name, o) /\ store[kind][name] # None
      /\ kind = "ingress" /\ o # None => o.rules = store.ingress[Global].rules
  BY <1>1 DEF Disturbs, Meddle
<1>3. ing' = ing
  BY DEF Meddling, jobVars
<1>4. CASE kind # "ingress"
  <2>1. "ingress" \in Kinds \ {kind}
    BY <1>4, KindsOfObjects
  <2>2. store'.ingress = store.ingress /\ cache'.ingress = cache.ingress
    BY <1>2, <2>1, PutStore
  <2>. QED
    BY <1>3, <2>2 DEF ShapeInv, Shaped
<1>5. CASE kind = "ingress"
  <2>1. name = Global
    BY <1>2, <1>5, KindsOfObjects
  <2>2. Shaped(o)
    BY <1>2, <1>5, <2>1 DEF ShapeInv, Shaped
  <2>3. Put("ingress", Global, o)
    BY <1>2, <1>5, <2>1
  <2>4. Shaped(ing)'
    BY <1>3 DEF ShapeInv, Shaped
  <2>. QED
    BY <2>2, <2>3, <2>4, PutKeepsShape
<1>. QED
  BY <1>4, <1>5

-----------------------------------------------------------------------------
\* The invariant of the undisturbed controller holds with the meddlers too, as they
\* touch no Webapp.
LEMMA DriftInductive == DriftSpec => []IInv
BY InitIInv, IInvStep, DriftSteps, MeddlingKeepsIInv, PTL DEF DriftSpec

\* Whatever others delete and edit, a reconcile that creates things works for a
\* Webapp that the server still has with the finalizer
\* (webapp_controller.go:102-107).
THEOREM GateHoldsInDrift == DriftSpec => []FinalizerGate
<1>1. IInv => FinalizerGate
  BY DEF IInv, CoreInv, CopiesVouch, Vouches, JobOK, FinalizerGate, BeforeGate
<1>. QED
  BY <1>1, DriftInductive, PTL

\* Repairs of what others changed do not leave a proxy service behind either:
\* every reconcile may create it anew (webapp_controller.go:359-385), yet only
\* for a Webapp whose finalizer will end it.  That it does end it needs what
\* ProxiesGuarded needs: a proxy service that the Get of line 161 does not find is
\* not there.  With a meddler the answer may be outdated in both directions: what
\* others deleted and finalizeWebapp still sees makes its Delete fail, which is
\* harmless.
THEOREM ProxiesGuardedInDrift ==
  DriftSpec /\ [][FreshProxyRead]_vars => []ProxyGuarded
<1>1. Init => ProxyIInv
  <2>1. \A p \in Proxies : NoObjects.proxy[p] = None
    BY KindsOfObjects DEF NoObjects
  <2>. QED
    BY <2>1, InitIInv DEF Init, ClusterInit, ProxyIInv, ProxyInv, ProxyGuarded
<1>2. ProxyIInv /\ IInv' /\ [DriftNext]_vars /\ [FreshProxyRead]_vars => ProxyIInv'
  BY ProxyStep, MeddlingKeepsProxies, DriftSteps, FreshProxyReads DEF ProxyIInv
<1>3. ProxyIInv => ProxyGuarded
  BY DEF ProxyIInv
<1>. QED
  BY <1>1, <1>2, <1>3, DriftInductive, PTL DEF DriftSpec

\* An ingress without labels or one created anew has the shape that
\* finalizeWebapp's index arithmetic relies on all the same.
THEOREM IngressWellFormedInDrift == DriftSpec => []IngressWellFormed
<1>1. ShapeInv /\ IInv /\ [DriftNext]_vars => ShapeInv'
  BY ShapeStep, MeddlingKeepsShape, DriftSteps DEF IInv
<1>. QED
  BY <1>1, ShapeInit, ShapeSuffices, DriftInductive, PTL DEF DriftSpec
=============================================================================
