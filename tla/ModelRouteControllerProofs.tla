-------------------- MODULE ModelRouteControllerProofs --------------------
(***************************************************************************)
(* Proofs about Registry and about ModelRouteController, which composes    *)
(* with it, for any models, target lists and backends, any number of       *)
(* ModelRoutes and any number of edits, faults and events of backends.     *)
(*                                                                         *)
(* RouteInv and MergedInv hold without further hypotheses; the properties  *)
(* rest on them and on an invariant of their own.                          *)
(***************************************************************************)
EXTENDS ModelRouteController, FiniteSetTheorems, SequenceTheorems, TLAPS

-----------------------------------------------------------------------------
(* Registry.                                                               *)

(* A route is registered under the model name it matches.                  *)
NamedByKey ==
  /\ \A n \in DOMAIN matchRouteRegistry : matchRouteRegistry[n].name = n
  /\ \A n \in DOMAIN routeRegistry : routeRegistry[n].name = n

(* UniqueMatch is not inductive: it follows from the merge being current   *)
(* and from each route standing under its own name.                        *)
RegistryInv == RegistryTypeOK /\ RoutesAreMerged /\ NamedByKey

-----------------------------------------------------------------------------
(* What the worker and its copy of an object may be.                       *)

Places ==
  {"config", "validator", "destinationHealthy", "register", "deleteRegister", "finalDelete",
   "status"}
Handlers ==
  {"config", "validator", "destinationHealthy", "register", "finalDelete", "finalDeleteConflict"}
Conds == Handlers \cup {NoCond}
TargetStates == Seq([backend : STRING \X STRING, status : Phases])
RouteStatus == [cond : Conds, deleted : BOOLEAN, targets : TargetStates, phase : Phases]
RouteObject ==
  [spec : RouteSpecs, gen : 0..MaxRouteEdits, finalizer : BOOLEAN,
   deletedAt : -1..MaxRouteEdits, status : RouteStatus]
Stored == RouteObject \cup {NoObject}
Busy ==
  [pc : Places, key : RouteObjects, obj : RouteObject, cond : Conds, targets : TargetStates]
Counts == [edits : 0..MaxRouteEdits, backends : Nat, faults : Nat, lostDeletes : Nat]

RouteTypeOK ==
  /\ routeApi \in [RouteObjects -> Stored]
  /\ routeCache \in [RouteObjects -> Stored]
  /\ routeQueue \subseteq RouteObjects
  /\ work \in Busy \cup {IdleWork}
  /\ backend \in [BackendKeys -> Phases \cup {"absent"}]
  /\ spent \in Counts
  /\ hadModel \in [RouteObjects -> SUBSET Models]
  /\ leftModel \in [RouteObjects -> SUBSET Models]

(* The object r, or a copy of it: its name is one the spec has had, every  *)
(* edit is older than the next one, and only what has the finalizer is     *)
(* marked as deleted.                                                      *)
Dated(r, o) ==
  o # NoObject => /\ o.spec.model \in hadModel[r]
                  /\ o.gen < spent.edits /\ o.deletedAt < spent.edits
                  /\ isModelRouteDeleted(o) => o.finalizer

Working == work.pc # "idle"

(* A copy has the spec and the deletion mark of the object it is compared  *)
(* with; the finalizer and the status may differ.                          *)
SameSpec(c, o) ==
  c # NoObject /\ c.spec = o.spec /\ c.gen = o.gen /\ c.deletedAt = o.deletedAt

(* Where the worker is says what its object is; it ends when one handler   *)
(* fails.                                                                  *)
Staged(w) ==
  /\ w.pc # "status" => w.cond = NoCond
  /\ w.pc \in {"validator", "destinationHealthy", "register"} => ~isModelRouteDeleted(w.obj)
  /\ w.pc \in {"deleteRegister", "finalDelete"} => isModelRouteDeleted(w.obj)
  /\ w.pc \notin {"config", "status"} => w.obj.finalizer

(* The worker's object is the cache's unless an event has come since, and  *)
(* then the object is queued.  Content that the API server had before it   *)
(* will never have again.                                                  *)
Copied(w) ==
  /\ w.key \notin routeQueue => SameSpec(routeCache[w.key], w.obj)
  /\ w.pc = "config" /\ routeApi[w.key] = w.obj => routeCache[w.key] = w.obj

RouteInv ==
  /\ RouteTypeOK
  /\ \A r \in RouteObjects : Dated(r, routeApi[r]) /\ Dated(r, routeCache[r])
  /\ Working => Dated(work.key, work.obj) /\ Staged(work) /\ Copied(work)

(* The slice is current, and a base route leads to the cluster of its own  *)
(* model.                                                                  *)
MergedInv ==
  /\ RoutesAreMerged /\ NamedByKey
  /\ \A m \in DOMAIN routeRegistry : routeRegistry[m].targets = InitDirectModelRoute(m)

-----------------------------------------------------------------------------
(* NoOrphanRoute.                                                          *)

\* An object that the API server keeps until a Reconcile lets it go.
Held(o) == o # NoObject /\ o.finalizer

(* A copy c of the object a: what a copy shows as held and not deleted is  *)
(* still held; what a copy shows as deleted is not held undeleted.         *)
Trails(c, a) ==
  /\ Held(c) /\ ~isModelRouteDeleted(c) => Held(a)
  /\ c # NoObject /\ isModelRouteDeleted(c) /\ Held(a) => isModelRouteDeleted(a)

(* A copy of r that shows it held and not deleted has the name of the      *)
(* object a, or one that the spec was edited away from.                    *)
NamedAs(r, c, a) ==
  Held(c) /\ ~isModelRouteDeleted(c) => c.spec.model = a.spec.model \/ c.spec.model \in leftModel[r]
Named(r, c) == NamedAs(r, c, routeApi[r])

\* Why m may be registered for r, with objs in the API server.
JustifiedAs(r, m, objs) == m \in leftModel[r] \/ (Held(objs[r]) /\ objs[r].spec.model = m)
Justified(r, m) == JustifiedAs(r, m, routeApi)

HeldInv ==
  /\ \A r \in RouteObjects : Trails(routeCache[r], routeApi[r]) /\ Named(r, routeCache[r])
  /\ Working =>
       /\ Trails(work.obj, routeApi[work.key])
       /\ Named(work.key, work.obj)
       /\ isModelRouteDeleted(work.obj) /\ Held(routeCache[work.key])
            => isModelRouteDeleted(routeCache[work.key])
       /\ work.pc = "finalDelete" => work.obj.spec.model \notin DOMAIN matchRouteRegistry
  /\ \A m \in DOMAIN matchRouteRegistry :
       /\ matchRouteRegistry[m].cfg.owner \in RouteObjects
       /\ Justified(matchRouteRegistry[m].cfg.owner, m)

-----------------------------------------------------------------------------
(* HealthyRouteIsCurrent.                                                  *)

RegisteredFrom(r, model, gen) ==
  /\ model \in DOMAIN matchRouteRegistry
  /\ matchRouteRegistry[model].cfg = [owner |-> r, gen |-> gen]

(* No worker is at r and no event of r is waiting.                         *)
AtRest(r) ==
  /\ routeCache[r] = routeApi[r] /\ r \notin routeQueue
  /\ Working => work.key # r

\* The route of a model leads to the cluster of b.
LeadsFrom(model, b) ==
  \E i \in DOMAIN matchRouteRegistry[model].targets :
    matchRouteRegistry[model].targets[i] = BackendModelOf[b]

(* The targets that are reported as not failed lead to backends.           *)
AllLead(model, states) ==
  \A i \in DOMAIN states :
    states[i].status # "Failed" /\ states[i].backend \notin Removable
      => LeadsFrom(model, states[i].backend)

(* The route of r is made from its spec, and leads where its status says.  *)
Reached(r) ==
  /\ RegisteredFrom(r, routeApi[r].spec.model, routeApi[r].gen)
  /\ Len(routeApi[r].status.targets) = Len(routeApi[r].spec.targets)
  /\ \A i \in DOMAIN routeApi[r].status.targets :
       routeApi[r].status.targets[i].backend \notin Removable
         => LeadsFrom(routeApi[r].spec.model, routeApi[r].status.targets[i].backend)

RestIsCurrent(r) ==
  (/\ RouteExists(r) /\ AtRest(r) /\ SoleRoute(r)
   /\ ~isModelRouteDeleted(routeApi[r]) /\ routeApi[r].status.phase = "Healthy")
    => Reached(r)

(* What the first lookup has found: a backend that nobody deletes is still *)
(* there when the second one looks.                                        *)
Looked(r, spec, states) ==
  /\ Len(states) = Len(spec.targets)
  /\ \A i \in DOMAIN states :
       /\ states[i].backend = getModelRouteTargets(r, spec)[i].key
       /\ states[i].status # "Failed" /\ states[i].backend \notin Removable
            => BackendExists(states[i].backend)

(* How far a worker without a failure has come: it is the only one.        *)
Progress ==
  Working /\ work.cond = NoCond =>
    /\ work.pc = "register" => Looked(work.key, work.obj.spec, work.targets)
    /\ work.pc = "status" /\ ~isModelRouteDeleted(work.obj) =>
         /\ RegisteredFrom(work.key, work.obj.spec.model, work.obj.gen)
         /\ Len(work.targets) = Len(work.obj.spec.targets)
         /\ AllLead(work.obj.spec.model, work.targets)

CurrentInv ==
  /\ \A r \in RouteObjects : RestIsCurrent(r)
  /\ Progress

-----------------------------------------------------------------------------
(* The registries by themselves, under any operations.                     *)

(* A base route that is registered under a match route of its name does    *)
(* not show in the merge: leaving the slice as it is, as                   *)
(* RegisterBaseRouteWithConfig does, is the same as merging again.         *)
LEMMA HiddenBaseRoute ==
  ASSUME NEW match, NEW base, NEW k \in DOMAIN match, NEW v
  PROVE  mergeRoutes(match, Insert(base, k, v)) = mergeRoutes(match, base)
<1>1. DOMAIN Insert(base, k, v) \ DOMAIN match = DOMAIN base \ DOMAIN match
  BY DEF Insert
<1>2. \A n \in DOMAIN base \ DOMAIN match : Insert(base, k, v)[n] = base[n]
  BY DEF Insert
<1>3. QED
  BY <1>1, <1>2 DEF mergeRoutes

(* Every route of a merge comes from one of the two registries.            *)
LEMMA MergeTyped ==
  ASSUME NEW match, NEW base,
         \A n \in DOMAIN match : match[n] \in Route,
         \A n \in DOMAIN base : base[n] \in Route
  PROVE  mergeRoutes(match, base) \subseteq Route
BY DEF mergeRoutes

(* A merge of routes that stand under their own names has one for each.    *)
LEMMA MergeIsUnique ==
  ASSUME RoutesAreMerged, NamedByKey
  PROVE  UniqueMatch
BY DEF RoutesAreMerged, NamedByKey, UniqueMatch, MatchRoute, Match, mergeRoutes

(* The inductive invariant holds in every reachable state.                 *)
THEOREM RegistryInvariant == RegistrySpec => []RegistryInv
<1>1. RegistryInit => RegistryInv
  BY RegistryAssumption DEF RegistryInit, RegistryInv, RegistryTypeOK, RoutesAreMerged, NamedByKey,
     mergeRoutes
<1>2. RegistryInv /\ [RegistryNext]_registryVars => RegistryInv'
  <2> SUFFICES ASSUME RegistryInv, [RegistryNext]_registryVars PROVE RegistryInv'
    OBVIOUS
  <2> USE RegistryAssumption DEF RegistryInv
  <2>1. ASSUME NEW n \in Models, NEW t \in Targets, NEW c \in Configs,
               RegisterMatchRouteWithConfig(n, t, c)
        PROVE  RegistryInv'
    <3>1. NewRoute(n, t, c) \in Route /\ NewRoute(n, t, c).name = n
      BY DEF NewRoute, Route, RegistryTypeOK
    <3>2. \A x \in DOMAIN matchRouteRegistry' :
            matchRouteRegistry'[x] \in Route /\ matchRouteRegistry'[x].name = x
      BY <2>1, <3>1 DEF Insert, RegisterMatchRouteWithConfig, RegistryTypeOK, NamedByKey
    <3>3. DOMAIN matchRouteRegistry' \subseteq Models
      BY <2>1 DEF Insert, RegisterMatchRouteWithConfig, RegistryTypeOK
    <3>4. routes' \subseteq Route
      BY <2>1, <3>2, MergeTyped DEF RegisterMatchRouteWithConfig, RegistryTypeOK
    <3>5. QED
      BY <2>1, <3>2, <3>3, <3>4
      DEF RegisterMatchRouteWithConfig, RegistryTypeOK, RoutesAreMerged, NamedByKey
  <2>2. ASSUME NEW n \in Models, NEW t \in Targets, NEW c \in Configs,
               RegisterBaseRouteWithConfig(n, t, c)
        PROVE  RegistryInv'
    <3>1. NewRoute(n, t, c) \in Route /\ NewRoute(n, t, c).name = n
      BY DEF NewRoute, Route, RegistryTypeOK
    <3>2. \A x \in DOMAIN routeRegistry' :
            routeRegistry'[x] \in Route /\ routeRegistry'[x].name = x
      BY <2>2, <3>1 DEF Insert, RegisterBaseRouteWithConfig, RegistryTypeOK, NamedByKey
    <3>3. DOMAIN routeRegistry' \subseteq Models
      BY <2>2 DEF Insert, RegisterBaseRouteWithConfig, RegistryTypeOK
    <3>4. routes' = mergeRoutes(matchRouteRegistry, routeRegistry')
      BY <2>2, HiddenBaseRoute DEF RegisterBaseRouteWithConfig, RoutesAreMerged
    <3>5. routes' \subseteq Route
      BY <3>2, <3>4, MergeTyped DEF RegistryTypeOK
    <3>6. QED
      BY <2>2, <3>2, <3>3, <3>4, <3>5
      DEF RegisterBaseRouteWithConfig, RegistryTypeOK, RoutesAreMerged, NamedByKey
  <2>3. ASSUME NEW n \in Models, RemoveMatchRoute(n) PROVE RegistryInv'
    <3>1. \A x \in DOMAIN matchRouteRegistry' :
            matchRouteRegistry'[x] \in Route /\ matchRouteRegistry'[x].name = x
      BY <2>3 DEF Delete, RemoveMatchRoute, RegistryTypeOK, NamedByKey
    <3>2. DOMAIN matchRouteRegistry' \subseteq Models
      BY <2>3 DEF Delete, RemoveMatchRoute, RegistryTypeOK
    <3>3. routes' \subseteq Route
      BY <2>3, <3>1, MergeTyped DEF RemoveMatchRoute, RegistryTypeOK
    <3>4. QED
      BY <2>3, <3>1, <3>2, <3>3 DEF RemoveMatchRoute, RegistryTypeOK, RoutesAreMerged, NamedByKey
  <2>4. ASSUME NEW n \in Models, RemoveBaseRoute(n) PROVE RegistryInv'
    <3>1. \A x \in DOMAIN routeRegistry' :
            routeRegistry'[x] \in Route /\ routeRegistry'[x].name = x
      BY <2>4 DEF Delete, RemoveBaseRoute, RegistryTypeOK, NamedByKey
    <3>2. DOMAIN routeRegistry' \subseteq Models
      BY <2>4 DEF Delete, RemoveBaseRoute, RegistryTypeOK
    <3>3. routes' \subseteq Route
      BY <2>4, <3>1, MergeTyped DEF RemoveBaseRoute, RegistryTypeOK
    <3>4. QED
      BY <2>4, <3>1, <3>2, <3>3 DEF RemoveBaseRoute, RegistryTypeOK, RoutesAreMerged, NamedByKey
  <2>5. ASSUME NEW n \in Models, NEW c \in Configs, UpsertAndRegisterCluster(n, c) PROVE RegistryInv'
    <3>1. DOMAIN clusters' \subseteq Models /\ clustersDetails' = clusters'
      BY <2>5 DEF Insert, UpsertAndRegisterCluster, RegistryTypeOK
    <3>2. QED
      BY <2>5, <3>1 DEF UpsertAndRegisterCluster, RegistryTypeOK, RoutesAreMerged, NamedByKey
  <2>6. ASSUME NEW n \in Models, DeleteCluster(n) PROVE RegistryInv'
    <3>1. DOMAIN clusters' \subseteq Models /\ clustersDetails' = clusters'
      BY <2>6 DEF Delete, DeleteCluster, RegistryTypeOK
    <3>2. QED
      BY <2>6, <3>1 DEF DeleteCluster, RegistryTypeOK, RoutesAreMerged, NamedByKey
  <2>7. CASE UNCHANGED registryVars
    BY <2>7 DEF registryVars, RegistryTypeOK, RoutesAreMerged, NamedByKey
  <2>8. QED
    BY <2>1, <2>2, <2>3, <2>4, <2>5, <2>6, <2>7 DEF RegistryNext
<1>3. QED
  BY <1>1, <1>2, PTL DEF RegistrySpec

(* Requests are always matched against the current merge.                  *)
THEOREM MergeIsCurrent == RegistrySpec => []RoutesAreMerged
<1>1. RegistryInv => RoutesAreMerged
  BY DEF RegistryInv
<1>2. QED
  BY <1>1, RegistryInvariant, PTL

(* A model has at most one route that can serve it.                        *)
THEOREM MatchIsUnique == RegistrySpec => []UniqueMatch
<1>1. RegistryInv => UniqueMatch
  BY MergeIsUnique DEF RegistryInv
<1>2. QED
  BY <1>1, RegistryInvariant, PTL

(* Type correctness of the registries and the merged route list.           *)
THEOREM RegistryTypeCorrect == RegistrySpec => []RegistryTypeOK
<1>1. RegistryInv => RegistryTypeOK
  BY DEF RegistryInv
<1>2. QED
  BY <1>1, RegistryInvariant, PTL

-----------------------------------------------------------------------------
(* The registries as ModelRouteController uses them.                       *)

LEMMA MatchRegistered ==
  ASSUME MergedInv, NEW n, NEW t, NEW c, RegisterMatchRouteWithConfig(n, t, c)
  PROVE  MergedInv'
<1>1. /\ matchRouteRegistry' = Insert(matchRouteRegistry, n, NewRoute(n, t, c))
      /\ routes' = mergeRoutes(matchRouteRegistry', routeRegistry) /\ routeRegistry' = routeRegistry
  BY DEF RegisterMatchRouteWithConfig
<1>2. \A m \in DOMAIN matchRouteRegistry' : matchRouteRegistry'[m].name = m
  BY <1>1 DEF Insert, NewRoute, MergedInv, NamedByKey
<1>3. QED
  BY <1>1, <1>2 DEF MergedInv, RoutesAreMerged, NamedByKey

LEMMA MatchRemoved ==
  ASSUME MergedInv, NEW n, RemoveMatchRoute(n)
  PROVE  MergedInv'
<1>1. /\ matchRouteRegistry' = Delete(matchRouteRegistry, n)
      /\ routes' = mergeRoutes(matchRouteRegistry', routeRegistry) /\ routeRegistry' = routeRegistry
  BY DEF RemoveMatchRoute
<1>2. \A m \in DOMAIN matchRouteRegistry' : matchRouteRegistry'[m].name = m
  BY <1>1 DEF Delete, MergedInv, NamedByKey
<1>3. QED
  BY <1>1, <1>2 DEF MergedInv, RoutesAreMerged, NamedByKey

LEMMA BaseRegistered ==
  ASSUME MergedInv, NEW n, NEW c, RegisterBaseRouteWithConfig(n, InitDirectModelRoute(n), c)
  PROVE  MergedInv'
<1>1. /\ routeRegistry' = Insert(routeRegistry, n, NewRoute(n, InitDirectModelRoute(n), c))
      /\ matchRouteRegistry' = matchRouteRegistry
      /\ routes' = IF n \in DOMAIN matchRouteRegistry THEN routes
                   ELSE mergeRoutes(matchRouteRegistry, routeRegistry')
  BY DEF RegisterBaseRouteWithConfig
<1>2. routes' = mergeRoutes(matchRouteRegistry, routeRegistry')
  BY <1>1, HiddenBaseRoute DEF MergedInv, RoutesAreMerged
<1>3. \A m \in DOMAIN routeRegistry' :
        routeRegistry'[m].name = m /\ routeRegistry'[m].targets = InitDirectModelRoute(m)
  BY <1>1 DEF Insert, NewRoute, MergedInv, NamedByKey
<1>4. QED
  BY <1>1, <1>2, <1>3 DEF MergedInv, RoutesAreMerged, NamedByKey

LEMMA BaseRemoved ==
  ASSUME MergedInv, NEW n, RemoveBaseRoute(n)
  PROVE  MergedInv'
<1>1. /\ routeRegistry' = Delete(routeRegistry, n) /\ matchRouteRegistry' = matchRouteRegistry
      /\ routes' = mergeRoutes(matchRouteRegistry, routeRegistry')
  BY DEF RemoveBaseRoute
<1>2. \A m \in DOMAIN routeRegistry' :
        routeRegistry'[m].name = m /\ routeRegistry'[m].targets = InitDirectModelRoute(m)
  BY <1>1 DEF Delete, MergedInv, NamedByKey
<1>3. QED
  BY <1>1, <1>2 DEF MergedInv, RoutesAreMerged, NamedByKey

LEMMA MergedSteps ==
  MergedInv /\ [ModelRouteNext]_modelRouteVars => MergedInv'
<1> SUFFICES ASSUME MergedInv, [ModelRouteNext]_modelRouteVars PROVE MergedInv'
  OBVIOUS
<1>1. ASSUME UNCHANGED registryVars PROVE MergedInv'
  BY <1>1 DEF registryVars, MergedInv, RoutesAreMerged, NamedByKey
<1>2. ASSUME NEW r \in RouteObjects,
             CreateRoute(r) \/ EditRouteSpec(r) \/ DeleteRoute(r) \/ DeliverRoute(r) \/ BeginRoute(r)
      PROVE  MergedInv'
  BY <1>1, <1>2 DEF CreateRoute, EditRouteSpec, DeleteRoute, EditRoute, DeliverRoute, BeginRoute
<1>3. ASSUME NEW b \in BackendKeys, BackendEvent(b) PROVE MergedInv'
  BY <1>1, <1>3, BaseRegistered, BaseRemoved DEF BackendEvent
<1>4. CASE WorkStep
  <2>1. CASE reconcileRegister
    BY <1>1, <2>1, MatchRegistered, MatchRemoved DEF reconcileRegister
  <2>2. CASE reconcileDeleteRegister
    BY <2>2, MatchRemoved DEF reconcileDeleteRegister
  <2>3. CASE \/ reconcileRouteConfig \/ reconcileRouteValidator \/ reconcileDestinationHealthy
             \/ reconcileRouteFinalDelete \/ UpdateRouteStatus
    BY <1>1, <2>3 DEF reconcileRouteConfig, reconcileRouteValidator, reconcileDestinationHealthy,
                      reconcileRouteFinalDelete, UpdateRouteStatus
  <2>4. QED
    BY <1>4, <2>1, <2>2, <2>3 DEF WorkStep
<1>5. CASE RouteGraceEnds
  BY <1>1, <1>5 DEF RouteGraceEnds
<1>6. CASE RestartRoutes
  BY <1>6 DEF RestartRoutes, MergedInv, RoutesAreMerged, NamedByKey, mergeRoutes
<1>7. CASE UNCHANGED modelRouteVars
  BY <1>1, <1>7 DEF modelRouteVars
<1>8. QED
  BY <1>2, <1>3, <1>4, <1>5, <1>6, <1>7 DEF ModelRouteNext

(* Whatever ModelRoutes and backends come, go and fail, the slice that     *)
(* requests are matched against is current, each of its routes stands      *)
(* under its own name, and a base route leads to its own cluster.          *)
THEOREM SliceInvariant == ModelRouteSpec => []MergedInv
<1>1. ModelRouteInit => MergedInv
  BY DEF ModelRouteInit, RegistryInit, MergedInv, RoutesAreMerged, NamedByKey, mergeRoutes
<1>2. QED
  BY <1>1, MergedSteps, PTL DEF ModelRouteSpec

(* A model has at most one route that can serve it, with the controller    *)
(* and the backends registering as they do and restarts in between.        *)
THEOREM OneRouteServes == ModelRouteSpec => []UniqueMatch
<1>1. MergedInv => UniqueMatch
  BY MergeIsUnique DEF MergedInv
<1>2. QED
  BY <1>1, SliceInvariant, PTL

-----------------------------------------------------------------------------
(* Facts about the values.                                                 *)

LEMMA NoCondIsNone == NoCond \notin Handlers
BY Zenon DEF NoCond, Handlers

LEMMA ObjectFacts ==
  ASSUME NEW o \in RouteObject
  PROVE  /\ o # NoObject /\ o.gen \in Nat /\ o.deletedAt \in Int /\ o.finalizer \in BOOLEAN
         /\ o.spec \in RouteSpecs /\ o.status \in RouteStatus /\ o.spec.model \in Models
BY ModelRouteAssumption DEF RouteObject, NoObject

LEMMA WorkFacts ==
  ASSUME RouteTypeOK
  PROVE  /\ Working => /\ work \in Busy /\ work.pc \in Places /\ work.key \in RouteObjects
                       /\ work.obj \in RouteObject /\ work.cond \in Conds
                       /\ work.targets \in TargetStates
         /\ ~Working => work = IdleWork
<1>1. work \in Busy \/ work = IdleWork
  BY DEF RouteTypeOK
<1>2. IdleWork.pc = "idle"
  BY DEF IdleWork
<1>3. ASSUME work \in Busy
      PROVE  /\ work.pc \in Places /\ work.pc # "idle" /\ work.key \in RouteObjects
             /\ work.obj \in RouteObject /\ work.cond \in Conds /\ work.targets \in TargetStates
  BY <1>3 DEF Busy, Places
<1>4. QED
  BY <1>1, <1>2, <1>3 DEF Working

LEMMA CountFacts ==
  ASSUME RouteTypeOK
  PROVE  /\ spent.edits \in Nat /\ spent.edits \in 0..MaxRouteEdits /\ spent.backends \in Nat
         /\ spent.faults \in Nat /\ spent.lostDeletes \in Nat
         /\ spent = [edits |-> spent.edits, backends |-> spent.backends,
                     faults |-> spent.faults, lostDeletes |-> spent.lostDeletes]
BY ModelRouteAssumption DEF RouteTypeOK, Counts

LEMMA EmptyIsTargetStates == <<>> \in TargetStates
BY DEF TargetStates

-----------------------------------------------------------------------------
(* An edit by a user.  What was held stays held, and nothing else comes to *)
(* be; a mark of deletion stays.                                           *)
Edited(r, o) ==
  /\ o \in Stored
  /\ spent.edits \in Nat /\ spent'.edits = spent.edits + 1 /\ spent' \in Counts
  /\ routeApi' = [routeApi EXCEPT ![r] = o]
  /\ hadModel' = [hadModel EXCEPT ![r] = IF o = NoObject THEN @ ELSE @ \cup {o.spec.model}]
  /\ leftModel' = [leftModel EXCEPT ![r] =
                     IF RenamesRoute(r, o) THEN @ \cup {routeApi[r].spec.model} ELSE @]
  /\ o # NoObject => /\ o.gen <= spent.edits /\ o.deletedAt <= spent.edits
                     /\ o.gen = spent.edits \/ o.deletedAt = spent.edits
                     /\ isModelRouteDeleted(o) => o.finalizer
  /\ Held(o) <=> Held(routeApi[r])
  /\ routeApi[r] # NoObject /\ isModelRouteDeleted(routeApi[r])
       => Held(o) /\ isModelRouteDeleted(o)
  /\ UNCHANGED <<routeCache, routeQueue, work, backend, registryVars>>

LEMMA EditCounts ==
  ASSUME RouteTypeOK, NEW r, NEW o, EditRoute(r, o)
  PROVE  /\ spent.edits \in Nat /\ spent.edits \in 0..MaxRouteEdits
         /\ spent'.edits = spent.edits + 1 /\ spent' \in Counts
         /\ routeApi' = [routeApi EXCEPT ![r] = o]
         /\ hadModel' = [hadModel EXCEPT ![r] = IF o = NoObject THEN @ ELSE @ \cup {o.spec.model}]
         /\ leftModel' = [leftModel EXCEPT ![r] =
                            IF RenamesRoute(r, o) THEN @ \cup {routeApi[r].spec.model} ELSE @]
         /\ UNCHANGED <<routeCache, routeQueue, work, backend, registryVars>>
<1>1. /\ spent.edits < MaxRouteEdits /\ spent' = [spent EXCEPT !.edits = @ + 1]
      /\ routeApi' = [routeApi EXCEPT ![r] = o]
      /\ hadModel' = [hadModel EXCEPT ![r] = IF o = NoObject THEN @ ELSE @ \cup {o.spec.model}]
      /\ leftModel' = [leftModel EXCEPT ![r] =
                         IF RenamesRoute(r, o) THEN @ \cup {routeApi[r].spec.model} ELSE @]
      /\ UNCHANGED <<routeCache, routeQueue, work, backend, registryVars>>
  BY DEF EditRoute
<1>2. spent.edits \in Nat /\ spent.edits + 1 \in 0..MaxRouteEdits /\ spent \in Counts
      /\ spent.edits \in 0..MaxRouteEdits
  BY <1>1, CountFacts, ModelRouteAssumption DEF RouteTypeOK
<1>3. spent'.edits = spent.edits + 1 /\ spent' \in Counts
  BY <1>1, <1>2 DEF Counts
<1>4. QED
  BY <1>1, <1>2, <1>3

LEMMA CreateEdits ==
  ASSUME RouteInv, NEW r \in RouteObjects, CreateRoute(r)
  PROVE  \E o : Edited(r, o)
<1>1. PICK s \in RouteSpecs :
        EditRoute(r, [spec |-> s, gen |-> spent.edits, finalizer |-> FALSE,
                      deletedAt |-> -1, status |-> NoRouteStatus])
  BY DEF CreateRoute
<1> DEFINE o == [spec |-> s, gen |-> spent.edits, finalizer |-> FALSE,
                 deletedAt |-> -1, status |-> NoRouteStatus]
<1>2. RouteTypeOK /\ EditRoute(r, o)
  BY <1>1 DEF RouteInv
<1>3. NoRouteStatus \in RouteStatus
  <2>1. NoCond \in Conds /\ "Unknown" \in Phases
    BY DEF Conds, Phases
  <2>2. QED
    BY <2>1, EmptyIsTargetStates DEF NoRouteStatus, RouteStatus
<1>4. -1 \in -1..MaxRouteEdits /\ spent.edits \in 0..MaxRouteEdits
  BY <1>2, CountFacts, ModelRouteAssumption
<1>5. o \in RouteObject
  BY <1>3, <1>4 DEF RouteObject
<1>6. o.gen = spent.edits /\ o.deletedAt = -1 /\ o.finalizer = FALSE
  OBVIOUS
<1> HIDE DEF o
<1>7. /\ spent.edits \in Nat /\ spent'.edits = spent.edits + 1 /\ spent' \in Counts
      /\ routeApi' = [routeApi EXCEPT ![r] = o]
      /\ hadModel' = [hadModel EXCEPT ![r] = IF o = NoObject THEN @ ELSE @ \cup {o.spec.model}]
      /\ leftModel' = [leftModel EXCEPT ![r] =
                         IF RenamesRoute(r, o) THEN @ \cup {routeApi[r].spec.model} ELSE @]
      /\ UNCHANGED <<routeCache, routeQueue, work, backend, registryVars>>
  BY <1>2, EditCounts
<1>8. o # NoObject /\ o \in Stored /\ routeApi[r] = NoObject
  BY <1>5, ObjectFacts DEF CreateRoute, Stored
<1>9. ~Held(o) /\ ~Held(routeApi[r]) /\ ~isModelRouteDeleted(o)
  BY <1>6, <1>8 DEF Held, isModelRouteDeleted
<1>10. o.gen <= spent.edits /\ o.deletedAt <= spent.edits
  BY <1>6, <1>7
<1>11. Edited(r, o)
  BY <1>6, <1>7, <1>8, <1>9, <1>10 DEF Edited
<1>12. QED
  BY <1>11

LEMMA EditSpecEdits ==
  ASSUME RouteInv, NEW r \in RouteObjects, EditRouteSpec(r)
  PROVE  \E o : Edited(r, o)
<1>1. PICK s \in RouteSpecs :
        EditRoute(r, [spec |-> s, gen |-> spent.edits, finalizer |-> routeApi[r].finalizer,
                      deletedAt |-> routeApi[r].deletedAt, status |-> routeApi[r].status])
  BY DEF EditRouteSpec
<1> DEFINE a == routeApi[r]
           o == [spec |-> s, gen |-> spent.edits, finalizer |-> a.finalizer,
                 deletedAt |-> a.deletedAt, status |-> a.status]
<1>2. RouteTypeOK /\ EditRoute(r, o) /\ a \in RouteObject /\ a # NoObject /\ Dated(r, a)
  BY <1>1 DEF RouteInv, RouteTypeOK, Stored, EditRouteSpec
<1>3. /\ spent.edits \in Nat /\ spent.edits \in 0..MaxRouteEdits
      /\ spent'.edits = spent.edits + 1 /\ spent' \in Counts
      /\ routeApi' = [routeApi EXCEPT ![r] = o]
      /\ hadModel' = [hadModel EXCEPT ![r] = IF o = NoObject THEN @ ELSE @ \cup {o.spec.model}]
      /\ leftModel' = [leftModel EXCEPT ![r] =
                         IF RenamesRoute(r, o) THEN @ \cup {routeApi[r].spec.model} ELSE @]
      /\ UNCHANGED <<routeCache, routeQueue, work, backend, registryVars>>
  <2> HIDE DEF o
  <2>1. QED
    BY <1>2, EditCounts
<1> HIDE DEF a
<1>4. /\ o.gen = spent.edits /\ o.deletedAt = a.deletedAt /\ o.finalizer = a.finalizer
  OBVIOUS
<1>5. o \in RouteObject
  BY <1>2, <1>3 DEF RouteObject
<1> HIDE DEF o
<1>6. o # NoObject /\ o \in Stored
  BY <1>5, ObjectFacts DEF Stored
<1>7. a.deletedAt < spent.edits /\ (isModelRouteDeleted(a) => a.finalizer)
  BY <1>2 DEF Dated
<1>8. /\ Held(o) <=> Held(a)
      /\ isModelRouteDeleted(o) <=> isModelRouteDeleted(a)
  BY <1>2, <1>4, <1>6 DEF Held, isModelRouteDeleted
<1>9. o.gen <= spent.edits /\ o.deletedAt <= spent.edits
  BY <1>2, <1>3, <1>4, <1>7, ObjectFacts
<1>10. isModelRouteDeleted(a) => Held(o)
  BY <1>2, <1>7, <1>8 DEF Held
<1>11. Edited(r, o)
  BY <1>3, <1>4, <1>6, <1>7, <1>8, <1>9, <1>10 DEF Edited, a
<1>12. QED
  BY <1>11

LEMMA DeleteEdits ==
  ASSUME RouteInv, NEW r \in RouteObjects, DeleteRoute(r)
  PROVE  \E o : Edited(r, o)
<1> DEFINE a == routeApi[r]
           marked == [a EXCEPT !.deletedAt = spent.edits]
           o == IF a.finalizer THEN marked ELSE NoObject
<1>1. /\ RouteTypeOK /\ EditRoute(r, o) /\ a \in RouteObject /\ a # NoObject /\ Dated(r, a)
      /\ ~isModelRouteDeleted(a)
  BY DEF RouteInv, RouteTypeOK, Stored, DeleteRoute
<1>2. /\ spent.edits \in Nat /\ spent.edits \in 0..MaxRouteEdits
      /\ spent'.edits = spent.edits + 1 /\ spent' \in Counts
      /\ routeApi' = [routeApi EXCEPT ![r] = o]
      /\ hadModel' = [hadModel EXCEPT ![r] = IF o = NoObject THEN @ ELSE @ \cup {o.spec.model}]
      /\ leftModel' = [leftModel EXCEPT ![r] =
                         IF RenamesRoute(r, o) THEN @ \cup {routeApi[r].spec.model} ELSE @]
      /\ UNCHANGED <<routeCache, routeQueue, work, backend, registryVars>>
  <2> HIDE DEF o
  <2>1. QED
    BY <1>1, EditCounts
<1>3. a.gen < spent.edits /\ a.gen \in Nat
  BY <1>1, ObjectFacts DEF Dated
<1> HIDE DEF a
<1>4. spent.edits \in -1..MaxRouteEdits
  BY <1>2
<1>5. marked \in RouteObject
  BY <1>1, <1>4 DEF RouteObject
<1>6. /\ marked.gen = a.gen /\ marked.deletedAt = spent.edits
      /\ marked.finalizer = a.finalizer
  BY <1>1 DEF RouteObject
<1> HIDE DEF marked
<1>7. marked # NoObject
  BY <1>5, ObjectFacts
<1>8. CASE a.finalizer
  <2>1. o = marked
    BY <1>8
  <2> HIDE DEF o
  <2>2. o.finalizer
    BY <1>6, <1>8, <2>1, Zenon
  <2>3. isModelRouteDeleted(o)
    BY <1>2, <1>6, <2>1 DEF isModelRouteDeleted
  <2>4. Held(o) /\ Held(a)
    BY <1>1, <1>7, <1>8, <2>1, <2>2, Zenon DEF Held
  <2>5. o.gen <= spent.edits /\ o.deletedAt <= spent.edits /\ o.deletedAt = spent.edits
    BY <1>2, <1>3, <1>6, <2>1
  <2>6. o \in Stored
    BY <1>5, <2>1 DEF Stored
  <2>7. Edited(r, o)
    BY <1>2, <2>2, <2>3, <2>4, <2>5, <2>6 DEF Edited, a
  <2>8. QED
    BY <2>7
<1>9. CASE ~a.finalizer
  <2>1. o = NoObject
    BY <1>9
  <2>2. ~Held(o) /\ ~Held(a) /\ o \in Stored
    BY <1>9, <2>1 DEF Held, Stored
  <2> HIDE DEF o
  <2>3. Edited(r, o)
    BY <1>1, <1>2, <2>1, <2>2 DEF Edited, a
  <2>4. QED
    BY <2>3
<1>10. QED
  BY <1>8, <1>9

(* Names are only added to the history, and a name that is edited away is. *)
LEMMA EditedHistory ==
  ASSUME RouteTypeOK, NEW r \in RouteObjects, NEW o, Edited(r, o)
  PROVE  /\ hadModel' \in [RouteObjects -> SUBSET Models]
         /\ leftModel' \in [RouteObjects -> SUBSET Models]
         /\ \A s \in RouteObjects :
              hadModel[s] \subseteq hadModel'[s] /\ leftModel[s] \subseteq leftModel'[s]
         /\ o # NoObject => o.spec.model \in hadModel'[r]
         /\ o # NoObject /\ routeApi[r] # NoObject
              => o.spec.model = routeApi[r].spec.model \/ routeApi[r].spec.model \in leftModel'[r]
<1>1. /\ hadModel \in [RouteObjects -> SUBSET Models]
      /\ leftModel \in [RouteObjects -> SUBSET Models]
      /\ routeApi[r] \in Stored /\ o \in Stored
      /\ hadModel' = [hadModel EXCEPT ![r] = IF o = NoObject THEN @ ELSE @ \cup {o.spec.model}]
      /\ leftModel' = [leftModel EXCEPT ![r] =
                         IF RenamesRoute(r, o) THEN @ \cup {routeApi[r].spec.model} ELSE @]
  BY DEF Edited, RouteTypeOK
<1>2. \A x \in Stored : x # NoObject => x.spec.model \in Models
  BY ObjectFacts DEF Stored
<1>3. /\ hadModel'[r] = IF o = NoObject THEN hadModel[r] ELSE hadModel[r] \cup {o.spec.model}
      /\ leftModel'[r] = IF RenamesRoute(r, o) THEN leftModel[r] \cup {routeApi[r].spec.model}
                         ELSE leftModel[r]
      /\ \A s \in RouteObjects \ {r} :
           hadModel'[s] = hadModel[s] /\ leftModel'[s] = leftModel[s]
  BY <1>1
<1>4. hadModel'[r] \in SUBSET Models /\ leftModel'[r] \in SUBSET Models
  BY <1>1, <1>2, <1>3 DEF RenamesRoute
<1>5. /\ hadModel' \in [RouteObjects -> SUBSET Models]
      /\ leftModel' \in [RouteObjects -> SUBSET Models]
  BY <1>1, <1>3, <1>4
<1>6. QED
  BY <1>3, <1>5 DEF RenamesRoute

(* An edit keeps RouteInv: a number used for it was not used before.       *)
LEMMA EditedKeeps ==
  ASSUME RouteInv, NEW r \in RouteObjects, NEW o, Edited(r, o)
  PROVE  RouteInv'
<1>1. RouteTypeOK' /\ \A s \in RouteObjects : hadModel[s] \subseteq hadModel'[s]
  BY EditedHistory DEF RouteInv, RouteTypeOK, Edited
<1>2. /\ spent.edits \in Nat /\ spent'.edits = spent.edits + 1
      /\ UNCHANGED <<routeCache, routeQueue, work>>
  BY DEF Edited
<1>3. ASSUME NEW s \in RouteObjects, NEW x \in Stored, Dated(s, x) PROVE Dated(s, x)'
  <2>1. CASE x = NoObject
    BY <2>1 DEF Dated
  <2>2. CASE x \in RouteObject
    BY <1>1, <1>2, <1>3, <2>2, ObjectFacts DEF Dated, isModelRouteDeleted
  <2>3. QED
    BY <2>1, <2>2 DEF Stored
<1>4. Dated(r, o)'
  <2>1. CASE o = NoObject
    BY <2>1 DEF Dated
  <2>2. CASE o \in RouteObject
    <3>1. o # NoObject /\ o.spec.model \in hadModel'[r]
      BY <2>2, ObjectFacts, EditedHistory DEF RouteInv
    <3>2. /\ o.gen < spent'.edits /\ o.deletedAt < spent'.edits
          /\ isModelRouteDeleted(o) => o.finalizer
      BY <1>2, <2>2, <3>1, ObjectFacts DEF Edited
    <3>3. QED
      BY <3>1, <3>2 DEF Dated, isModelRouteDeleted
  <2>3. QED
    BY <2>1, <2>2 DEF Edited, Stored
<1>5. ASSUME NEW s \in RouteObjects PROVE Dated(s, routeApi[s])' /\ Dated(s, routeCache[s])'
  <2>1. Dated(s, routeCache[s])'
    BY <1>2, <1>3 DEF RouteInv, RouteTypeOK
  <2>2. CASE s = r
    <3>1. routeApi'[s] = o
      BY <2>2 DEF Edited, RouteInv, RouteTypeOK
    <3>2. QED
      BY <1>4, <2>1, <2>2, <3>1 DEF Dated
  <2>3. CASE s # r
    <3>1. routeApi'[s] = routeApi[s] /\ routeApi[s] \in Stored /\ Dated(s, routeApi[s])
      BY <2>3 DEF Edited, RouteInv, RouteTypeOK
    <3>2. QED
      BY <1>3, <2>1, <3>1 DEF Dated
  <2>4. QED
    BY <2>2, <2>3
<1>6. ASSUME Working' PROVE Dated(work.key, work.obj)' /\ Staged(work) /\ Copied(work)'
  <2>1. Working
    BY <1>2, <1>6 DEF Working
  <2>2. Dated(work.key, work.obj) /\ Staged(work) /\ Copied(work)
    BY <2>1 DEF RouteInv
  <2>3. work.key \in RouteObjects /\ work.obj \in RouteObject
    BY <2>1, WorkFacts DEF RouteInv
  <2>4. Dated(work.key, work.obj)'
    BY <1>2, <1>3, <2>2, <2>3 DEF Stored, Dated
  <2>5. work.obj # o
    BY <1>2, <2>2, <2>3, ObjectFacts DEF Dated, Edited
  <2>6. routeApi'[work.key] = work.obj => routeApi[work.key] = work.obj
    BY <2>3, <2>5 DEF Edited, RouteInv, RouteTypeOK
  <2>7. Copied(work)'
    BY <1>2, <2>2, <2>6 DEF Copied, SameSpec
  <2>8. QED
    BY <2>2, <2>4, <2>7
<1>7. QED
  BY <1>1, <1>2, <1>5, <1>6 DEF RouteInv, Staged, isModelRouteDeleted

-----------------------------------------------------------------------------
(* A step of the worker: it concerns the object that the worker is at,     *)
(* whose spec the worker keeps; the worker goes on or becomes idle.        *)
OwnStep ==
  LET r == work.key IN
  /\ Working
  /\ routeApi' \in [RouteObjects -> Stored] /\ UNCHANGED <<routeCache, backend>>
  /\ \A s \in RouteObjects \ {r} : routeApi'[s] = routeApi[s]
  /\ \/ routeApi'[r] = routeApi[r]
     \/ routeApi'[r] = NoObject
     \/ /\ routeApi[r] # NoObject /\ SameSpec(routeApi'[r], routeApi[r])
        /\ routeApi[r].finalizer => routeApi'[r].finalizer
  /\ routeQueue \subseteq routeQueue' /\ routeQueue' \subseteq routeQueue \cup {r}
  /\ spent'.edits = spent.edits /\ spent' \in Counts
  /\ \/ work' = IdleWork
     \/ /\ work' \in Busy /\ work'.pc # "config"
        /\ work'.key = r /\ SameSpec(work'.obj, work.obj)
        /\ work.obj.finalizer => work'.obj.finalizer
        /\ Staged(work')

LEMMA OwnStepKeeps ==
  ASSUME RouteInv, OwnStep, UNCHANGED <<hadModel, leftModel>>
  PROVE  RouteInv'
<1> DEFINE r == work.key
<1>1. /\ Working /\ r \in RouteObjects /\ work.obj \in RouteObject
      /\ Dated(work.key, work.obj) /\ Staged(work) /\ Copied(work)
  BY WorkFacts DEF OwnStep, RouteInv
<1>2. /\ spent'.edits = spent.edits /\ routeCache' = routeCache
      /\ \A s \in RouteObjects \ {r} : routeApi'[s] = routeApi[s]
      /\ routeQueue \subseteq routeQueue' /\ routeQueue' \subseteq routeQueue \cup {r}
  BY DEF OwnStep
<1>3. RouteTypeOK'
  BY <1>1, <1>2 DEF RouteInv, RouteTypeOK, OwnStep
<1>4. Dated(r, routeApi'[r])
  <2>1. Dated(r, routeApi[r])
    BY <1>1 DEF RouteInv
  <2>2. CASE routeApi'[r] = routeApi[r]
    BY <2>1, <2>2
  <2>3. CASE routeApi'[r] = NoObject
    BY <2>3 DEF Dated
  <2>4. CASE /\ routeApi[r] # NoObject /\ SameSpec(routeApi'[r], routeApi[r])
             /\ routeApi[r].finalizer => routeApi'[r].finalizer
    BY <2>1, <2>4 DEF Dated, SameSpec, isModelRouteDeleted
  <2>5. QED
    BY <2>2, <2>3, <2>4 DEF OwnStep
<1>5. ASSUME NEW s \in RouteObjects PROVE Dated(s, routeApi[s])' /\ Dated(s, routeCache[s])'
  <2>1. Dated(s, routeApi[s]) /\ Dated(s, routeCache[s])
    BY DEF RouteInv
  <2>2. Dated(s, routeApi'[s])
    BY <1>2, <1>4, <2>1
  <2>3. QED
    BY <1>2, <2>1, <2>2 DEF Dated, isModelRouteDeleted
<1>6. ASSUME Working' PROVE Dated(work.key, work.obj)' /\ Staged(work)' /\ Copied(work)'
  <2>1. work' # IdleWork
    BY <1>6 DEF Working, IdleWork
  <2>2. /\ work' \in Busy /\ work'.pc # "config"
        /\ work'.key = r /\ SameSpec(work'.obj, work.obj)
        /\ work.obj.finalizer => work'.obj.finalizer
        /\ Staged(work')
    BY <2>1 DEF OwnStep
  <2>3. work.obj # NoObject
    BY <1>1, ObjectFacts
  <2>4. Dated(r, work'.obj)
    BY <1>1, <2>2, <2>3 DEF Dated, SameSpec, isModelRouteDeleted
  <2>5. Copied(work)'
    BY <1>1, <1>2, <2>2 DEF Copied, SameSpec
  <2>6. QED
    BY <1>2, <2>2, <2>4, <2>5 DEF Dated, Staged, isModelRouteDeleted
<1>7. QED
  BY <1>3, <1>5, <1>6 DEF RouteInv

-----------------------------------------------------------------------------
(* Every handler is such a step.                                           *)

\* The worker goes to pc with the copy obj, cond and the targets' states.
Turn(pc, obj, cond, states) ==
  /\ work' \in Busy
  /\ work'.pc = pc /\ work'.key = work.key
  /\ work'.obj = obj /\ work'.cond = cond /\ work'.targets = states

(* A record with the right fields is a place the worker can be at.         *)
LEMMA TurnTo ==
  ASSUME RouteTypeOK, Working, NEW pc \in Places, NEW obj \in RouteObject, NEW cond \in Conds,
         NEW states \in TargetStates,
         work' = [pc |-> pc, key |-> work.key, obj |-> obj, cond |-> cond, targets |-> states]
  PROVE  Turn(pc, obj, cond, states)
<1>1. work.key \in RouteObjects
  BY WorkFacts
<1>2. work' \in Busy
  BY <1>1 DEF Busy
<1>3. QED
  BY <1>2 DEF Turn

LEMMA GotoTurns ==
  ASSUME RouteTypeOK, Working, NEW pc \in Places, WorkGoto(pc)
  PROVE  Turn(pc, work.obj, work.cond, work.targets)
<1>1. work \in Busy /\ work' = [work EXCEPT !.pc = pc]
  BY WorkFacts DEF WorkGoto
<1>2. work' \in Busy
  BY <1>1 DEF Busy
<1>3. QED
  BY <1>1, <1>2 DEF Turn, Busy

LEMMA FailTurns ==
  ASSUME RouteTypeOK, Working, NEW cond \in Conds, WorkFails(cond)
  PROVE  Turn("status", work.obj, cond, work.targets)
<1>1. /\ work \in Busy /\ work' = [work EXCEPT !.pc = "status", !.cond = cond]
      /\ work.obj \in RouteObject /\ work.targets \in TargetStates
  BY WorkFacts DEF WorkFails
<1>2. "status" \in Places
  BY DEF Places
<1>3. work' = [pc |-> "status", key |-> work.key, obj |-> work.obj, cond |-> cond,
               targets |-> work.targets]
  BY <1>1 DEF Busy
<1>4. QED
  BY <1>1, <1>2, <1>3, TurnTo

LEMMA FaultCounts ==
  ASSUME RouteTypeOK, NEW what, Fault(what)
  PROVE  spent'.edits = spent.edits /\ spent' \in Counts
<1>1. spent \in Counts
      /\ spent' = [spent EXCEPT !.faults = @ + 1,
                                !.lostDeletes = IF what = "finalDelete" THEN @ + 1 ELSE @]
  BY DEF RouteTypeOK, Fault
<1>2. PICK d : d = IF what = "finalDelete" THEN spent.lostDeletes + 1 ELSE spent.lostDeletes
  OBVIOUS
<1>3. d \in Nat /\ spent.faults + 1 \in Nat /\ spent.edits \in 0..MaxRouteEdits
      /\ spent.backends \in Nat
  BY <1>2, CountFacts
<1>4. spent' = [edits |-> spent.edits, backends |-> spent.backends, faults |-> spent.faults + 1,
                lostDeletes |-> d]
  BY <1>1, <1>2 DEF Counts
<1>5. QED
  BY <1>3, <1>4 DEF Counts

(* A turn that leaves the API server, the cache and the queue alone.       *)
LEMMA QuietStep ==
  ASSUME RouteInv, Working, UNCHANGED <<routeApi, routeCache, routeQueue, backend>>,
         spent' = spent \/ \E call : RouteCallError(call),
         NEW pc \in Places \ {"config"}, NEW cond \in Conds, NEW states,
         Turn(pc, work.obj, cond, states),
         Staged([pc |-> pc, obj |-> work.obj, cond |-> cond])
  PROVE  OwnStep
<1> DEFINE s == [pc |-> pc, obj |-> work.obj, cond |-> cond]
<1>1. RouteTypeOK /\ work.obj \in RouteObject
  BY WorkFacts DEF RouteInv
<1>2. spent'.edits = spent.edits /\ spent' \in Counts
  BY <1>1, FaultCounts DEF RouteTypeOK, RouteCallError
<1>3. s.pc = pc /\ s.obj = work.obj /\ s.cond = cond /\ Staged(s)
  OBVIOUS
<1> HIDE DEF s
<1>4. Staged(work')
  BY <1>3 DEF Staged, Turn
<1>5. SameSpec(work'.obj, work.obj)
  BY <1>1, ObjectFacts DEF SameSpec, Turn
<1>6. routeApi' \in [RouteObjects -> Stored]
  BY <1>1 DEF RouteTypeOK
<1>7. QED
  BY <1>2, <1>4, <1>5, <1>6 DEF OwnStep, Turn

(* The worker ends with a failed handler.                                  *)
LEMMA FailSteps ==
  ASSUME RouteInv, Working, UNCHANGED <<routeApi, routeCache, routeQueue, backend>>,
         spent' = spent \/ \E call : RouteCallError(call),
         NEW cond \in Conds, WorkFails(cond)
  PROVE  OwnStep
<1>1. Turn("status", work.obj, cond, work.targets)
  BY FailTurns DEF RouteInv
<1>2. Staged([pc |-> "status", obj |-> work.obj, cond |-> cond])
  BY DEF Staged
<1>3. "status" \in Places \ {"config"}
  BY DEF Places
<1>4. QED
  BY <1>1, <1>2, <1>3, QuietStep

LEMMA ConfigSteps ==
  ASSUME RouteInv, reconcileRouteConfig
  PROVE  OwnStep
<1> DEFINE next == IF isModelRouteDeleted(work.obj) THEN "deleteRegister" ELSE "validator"
<1>1. /\ RouteTypeOK /\ Working /\ work.pc = "config"
      /\ UNCHANGED <<routeCache, routeQueue, backend>>
  BY DEF RouteInv, reconcileRouteConfig, WorkAt, Working
<1>2. /\ work.cond = NoCond /\ work.key \in RouteObjects /\ work.obj \in RouteObject
      /\ work \in Busy /\ work.targets \in TargetStates
  BY <1>1, WorkFacts DEF RouteInv, Staged
<1>3. NoCond \in Conds /\ "config" \in Conds /\ next \in Places \ {"config"}
  BY DEF Conds, Handlers, Places
<1>4. CASE work.obj.finalizer /\ WorkGoto(next) /\ UNCHANGED <<routeApi, spent>>
  <2>1. Turn(next, work.obj, work.cond, work.targets)
    BY <1>1, <1>3, <1>4, GotoTurns
  <2>2. Staged([pc |-> next, obj |-> work.obj, cond |-> work.cond])
    BY <1>2, <1>4 DEF Staged
  <2> HIDE DEF next
  <2>3. QED
    BY <1>1, <1>2, <1>3, <1>4, <2>1, <2>2, QuietStep
<1>5. CASE /\ ~work.obj.finalizer /\ routeApi[work.key] = work.obj
           /\ routeApi' = [routeApi EXCEPT ![work.key].finalizer = TRUE]
           /\ work' = [work EXCEPT !.pc = next, !.obj.finalizer = TRUE]
           /\ UNCHANGED spent
  <2> DEFINE o == [work.obj EXCEPT !.finalizer = TRUE]
  <2>1. /\ o \in RouteObject /\ o.finalizer = TRUE /\ o.spec = work.obj.spec
        /\ o.gen = work.obj.gen /\ o.deletedAt = work.obj.deletedAt
    BY <1>2 DEF RouteObject
  <2>2. routeApi \in [RouteObjects -> Stored]
    BY <1>1 DEF RouteTypeOK
  <2>3. work' = [pc |-> next, key |-> work.key, obj |-> o, cond |-> work.cond,
                 targets |-> work.targets]
    BY <1>2, <1>5 DEF Busy
  <2>4. routeApi'[work.key] = o /\ \A s \in RouteObjects \ {work.key} : routeApi'[s] = routeApi[s]
    BY <1>2, <1>5, <2>2
  <2>5. routeApi' = [routeApi EXCEPT ![work.key] = o]
    BY <1>5
  <2> HIDE DEF o
  <2>6. routeApi' \in [RouteObjects -> Stored]
    BY <2>1, <2>2, <2>5 DEF Stored
  <2>7. o # NoObject /\ work.obj # NoObject
    BY <1>2, <2>1, ObjectFacts
  <2>8. /\ SameSpec(o, work.obj) /\ SameSpec(routeApi'[work.key], routeApi[work.key])
        /\ isModelRouteDeleted(o) <=> isModelRouteDeleted(work.obj)
    BY <1>5, <2>1, <2>4, <2>7 DEF SameSpec, isModelRouteDeleted
  <2>9. Turn(next, o, work.cond, work.targets)
    <3> HIDE DEF next
    <3>1. QED
      BY <1>1, <1>2, <1>3, <2>1, <2>3, TurnTo
  <2>10. Staged(work')
    BY <1>2, <2>1, <2>8, <2>9 DEF Staged, Turn
  <2>11. spent'.edits = spent.edits /\ spent' \in Counts
    BY <1>1, <1>5 DEF RouteTypeOK
  <2>12. work'.obj.finalizer /\ routeApi'[work.key].finalizer
    BY <2>1, <2>4, <2>9 DEF Turn
  <2> HIDE DEF next
  <2>13. QED
    BY <1>1, <1>3, <1>5, <2>4, <2>6, <2>7, <2>8, <2>9, <2>10, <2>11, <2>12 DEF OwnStep, Turn
<1>6. CASE WorkFails("config") /\ UNCHANGED routeApi /\ (spent' = spent \/ RouteCallError("config"))
  BY <1>1, <1>3, <1>6, FailSteps
<1>7. QED
  BY <1>4, <1>5, <1>6 DEF reconcileRouteConfig

LEMMA ValidatorSteps ==
  ASSUME RouteInv, reconcileRouteValidator
  PROVE  OwnStep
<1>1. /\ RouteTypeOK /\ Working /\ work.pc = "validator"
      /\ UNCHANGED <<routeApi, routeCache, routeQueue, backend>>
      /\ spent' = spent \/ \E call : RouteCallError(call)
  BY DEF RouteInv, reconcileRouteValidator, WorkAt, Working
<1>2. /\ work.cond = NoCond /\ ~isModelRouteDeleted(work.obj) /\ work.obj.finalizer
  BY <1>1 DEF RouteInv, Staged
<1>3. NoCond \in Conds /\ "validator" \in Conds /\ "destinationHealthy" \in Places \ {"config"}
  BY DEF Conds, Handlers, Places
<1>4. CASE WorkGoto("destinationHealthy")
  <2>1. Turn("destinationHealthy", work.obj, work.cond, work.targets)
    BY <1>1, <1>3, <1>4, GotoTurns
  <2>2. Staged([pc |-> "destinationHealthy", obj |-> work.obj, cond |-> work.cond])
    BY <1>2 DEF Staged
  <2>3. QED
    BY <1>1, <1>2, <1>3, <2>1, <2>2, QuietStep
<1>5. CASE WorkFails("validator")
  BY <1>1, <1>3, <1>5, FailSteps
<1>6. QED
  BY <1>4, <1>5 DEF reconcileRouteValidator

(* The states of the targets, as reconcileDestinationHealthy finds them.   *)
LEMMA TargetFacts ==
  ASSUME RouteTypeOK, NEW r \in RouteObjects, NEW spec \in RouteSpecs
  PROVE  /\ spec.targets \in Seq([namespace : STRING, backend : STRING, weight : Seq(Int)])
         /\ DOMAIN getModelRouteTargets(r, spec) = 1..Len(spec.targets)
         /\ \A i \in 1..Len(spec.targets) :
              /\ getModelRouteTargets(r, spec)[i].key \in STRING \X STRING
              /\ TargetState(getModelRouteTargets(r, spec)[i].key)
                   \in [backend : STRING \X STRING, status : Phases]
<1>1. spec.targets \in Seq([namespace : STRING, backend : STRING, weight : Seq(Int)])
  BY ModelRouteAssumption
<1>2. DOMAIN spec.targets = 1..Len(spec.targets)
  BY <1>1
<1>3. DOMAIN getModelRouteTargets(r, spec) = 1..Len(spec.targets)
  BY <1>2 DEF getModelRouteTargets
<1>4. ASSUME NEW i \in 1..Len(spec.targets)
      PROVE  getModelRouteTargets(r, spec)[i].key \in STRING \X STRING
  <2>1. /\ spec.targets[i].namespace \in STRING /\ spec.targets[i].backend \in STRING
        /\ NamespaceOf[r] \in STRING
    <3>1. spec.targets[i] \in [namespace : STRING, backend : STRING, weight : Seq(Int)]
      BY <1>1, ElementOfSeq, Zenon
    <3>2. NamespaceOf[r] \in STRING
      BY ModelRouteAssumption
    <3>3. QED
      BY <3>1, <3>2
  <2>2. getModelRouteTargets(r, spec)[i].key =
          <<IF spec.targets[i].namespace = Unset THEN NamespaceOf[r]
            ELSE spec.targets[i].namespace, spec.targets[i].backend>>
    BY <1>2 DEF getModelRouteTargets
  <2>3. QED
    BY <2>1, <2>2
<1>5. ASSUME NEW key \in STRING \X STRING
      PROVE  TargetState(key) \in [backend : STRING \X STRING, status : Phases]
  <2>1. "Failed" \in Phases
    BY DEF Phases
  <2>2. BackendExists(key) => backend[key] \in Phases
    BY DEF BackendExists, RouteTypeOK
  <2>3. QED
    BY <2>1, <2>2 DEF TargetState
<1>6. QED
  BY <1>1, <1>3, <1>4, <1>5

LEMMA HealthyTurns ==
  ASSUME RouteInv, Working, work.pc = "destinationHealthy",
         NEW states,
         states = [i \in DOMAIN getModelRouteTargets(work.key, work.obj.spec) |->
                     TargetState(getModelRouteTargets(work.key, work.obj.spec)[i].key)],
         work' = [work EXCEPT !.pc = "register", !.targets = states]
  PROVE  Turn("register", work.obj, work.cond, states) /\ states \in TargetStates
<1>1. /\ RouteTypeOK /\ work \in Busy /\ work.obj \in RouteObject /\ work.cond \in Conds
      /\ work.key \in RouteObjects /\ work.obj.spec \in RouteSpecs
  BY WorkFacts, ObjectFacts DEF RouteInv
<1>2. /\ DOMAIN states = 1..Len(work.obj.spec.targets)
      /\ Len(work.obj.spec.targets) \in Nat
      /\ \A i \in 1..Len(work.obj.spec.targets) :
           states[i] \in [backend : STRING \X STRING, status : Phases]
  <2>1. Len(work.obj.spec.targets) \in Nat
    BY <1>1, TargetFacts
  <2>2. QED
    BY <1>1, <2>1, TargetFacts
<1>3. states \in TargetStates
  <2>1. PICK n, S : n = Len(work.obj.spec.targets)
                    /\ S = [backend : STRING \X STRING, status : Phases]
    OBVIOUS
  <2>2. n \in Nat /\ states \in [1..n -> S]
    BY <1>2, <2>1
  <2>3. states \in Seq(S)
    BY <2>2, SeqDef, Zenon
  <2>4. QED
    BY <2>1, <2>3, Zenon DEF TargetStates
<1>4. work' = [pc |-> "register", key |-> work.key, obj |-> work.obj, cond |-> work.cond,
               targets |-> states]
  <2>1. PICK t : t = states
    OBVIOUS
  <2>2. work' = [work EXCEPT !.pc = "register", !.targets = t]
    BY <2>1
  <2>3. work' = [pc |-> "register", key |-> work.key, obj |-> work.obj, cond |-> work.cond,
                 targets |-> t]
    BY <1>1, <2>2 DEF Busy
  <2>4. QED
    BY <2>1, <2>3
<1>5. "register" \in Places
  BY DEF Places
<1>6. QED
  BY <1>1, <1>3, <1>4, <1>5, TurnTo

LEMMA HealthySteps ==
  ASSUME RouteInv, reconcileDestinationHealthy
  PROVE  OwnStep
<1> DEFINE targets == getModelRouteTargets(work.key, work.obj.spec)
           states == [i \in DOMAIN targets |-> TargetState(targets[i].key)]
<1>1. /\ RouteTypeOK /\ Working /\ work.pc = "destinationHealthy"
      /\ UNCHANGED <<routeApi, routeCache, routeQueue, backend>>
      /\ spent' = spent \/ \E call : RouteCallError(call)
  BY DEF RouteInv, reconcileDestinationHealthy, WorkAt, Working
<1>2. /\ work.cond = NoCond /\ ~isModelRouteDeleted(work.obj) /\ work.obj.finalizer
  BY <1>1 DEF RouteInv, Staged
<1>3. NoCond \in Conds /\ "destinationHealthy" \in Conds /\ "register" \in Places \ {"config"}
  BY DEF Conds, Handlers, Places
<1>4. CASE work' = [work EXCEPT !.pc = "register", !.targets = states]
  <2>1. PICK t : t = states
    OBVIOUS
  <2>2. Turn("register", work.obj, work.cond, t)
    BY <1>1, <1>4, <2>1, HealthyTurns
  <2>3. Staged([pc |-> "register", obj |-> work.obj, cond |-> work.cond])
    BY <1>2 DEF Staged
  <2>4. QED
    BY <1>1, <1>2, <1>3, <2>2, <2>3, QuietStep
<1>5. CASE WorkFails("destinationHealthy")
  BY <1>1, <1>3, <1>5, FailSteps
<1>6. QED
  BY <1>4, <1>5 DEF reconcileDestinationHealthy

LEMMA RegisterSteps ==
  ASSUME RouteInv, reconcileRegister
  PROVE  OwnStep
<1>1. /\ RouteTypeOK /\ Working /\ work.pc = "register"
      /\ UNCHANGED <<routeApi, routeCache, routeQueue, backend>>
      /\ spent' = spent \/ \E call : RouteCallError(call)
      /\ WorkGoto("status") \/ WorkFails("register")
  BY DEF RouteInv, reconcileRegister, WorkAt, Working
<1>2. /\ work.cond = NoCond /\ NoCond \in Conds /\ "register" \in Conds
      /\ "status" \in Places \ {"config"}
  BY <1>1 DEF RouteInv, Staged, Conds, Handlers, Places
<1>3. CASE WorkGoto("status")
  <2>1. Turn("status", work.obj, work.cond, work.targets)
    BY <1>1, <1>2, <1>3, GotoTurns
  <2>2. Staged([pc |-> "status", obj |-> work.obj, cond |-> work.cond])
    BY DEF Staged
  <2>3. QED
    BY <1>1, <1>2, <2>1, <2>2, QuietStep
<1>4. CASE WorkFails("register")
  BY <1>1, <1>2, <1>4, FailSteps
<1>5. QED
  BY <1>1, <1>3, <1>4

LEMMA DeleteRegisterSteps ==
  ASSUME RouteInv, reconcileDeleteRegister
  PROVE  OwnStep
<1>1. /\ RouteTypeOK /\ Working /\ work.pc = "deleteRegister"
      /\ UNCHANGED <<routeApi, routeCache, routeQueue, backend, spent>> /\ WorkGoto("finalDelete")
  BY DEF RouteInv, reconcileDeleteRegister, WorkAt, Working
<1>2. /\ work.cond = NoCond /\ isModelRouteDeleted(work.obj) /\ work.obj.finalizer
      /\ NoCond \in Conds /\ "finalDelete" \in Places \ {"config"}
  BY <1>1 DEF RouteInv, Staged, Conds, Places
<1>3. Turn("finalDelete", work.obj, work.cond, work.targets)
  BY <1>1, <1>2, GotoTurns
<1>4. Staged([pc |-> "finalDelete", obj |-> work.obj, cond |-> work.cond])
  BY <1>2 DEF Staged
<1>5. QED
  BY <1>1, <1>2, <1>3, <1>4, QuietStep

LEMMA FinalDeleteSteps ==
  ASSUME RouteInv, reconcileRouteFinalDelete
  PROVE  OwnStep
<1>1. /\ RouteTypeOK /\ Working /\ work.pc = "finalDelete"
      /\ UNCHANGED <<routeCache, routeQueue, backend>>
  BY DEF RouteInv, reconcileRouteFinalDelete, WorkAt, Working
<1>2. work.key \in RouteObjects /\ work.obj \in RouteObject /\ work.cond \in Conds
  BY <1>1, WorkFacts DEF RouteInv
<1>3. /\ \A c \in {NoCond, "finalDelete", "finalDeleteConflict"} : c \in Conds
      /\ "status" \in Places \ {"config"}
  BY DEF Conds, Handlers, Places
<1>4. CASE /\ routeApi[work.key] = work.obj /\ routeApi' = [routeApi EXCEPT ![work.key] = NoObject]
           /\ WorkGoto("status") /\ UNCHANGED spent
  <2>1. Turn("status", work.obj, work.cond, work.targets)
    BY <1>1, <1>3, <1>4, GotoTurns
  <2>2. /\ routeApi' \in [RouteObjects -> Stored] /\ routeApi'[work.key] = NoObject
        /\ \A s \in RouteObjects \ {work.key} : routeApi'[s] = routeApi[s]
    BY <1>1, <1>2, <1>4 DEF RouteTypeOK, Stored
  <2>3. spent'.edits = spent.edits /\ spent' \in Counts
    BY <1>1, <1>4 DEF RouteTypeOK
  <2>4. SameSpec(work'.obj, work.obj)
    BY <1>2, <2>1, ObjectFacts DEF SameSpec, Turn
  <2>5. Staged(work')
    BY <2>1 DEF Staged, Turn
  <2>6. QED
    BY <1>1, <2>1, <2>2, <2>3, <2>4, <2>5 DEF OwnStep, Turn
<1>5. CASE /\ UNCHANGED routeApi /\ (spent' = spent \/ RouteCallError("finalDelete"))
           /\ \E c \in {NoCond, "finalDelete", "finalDeleteConflict"} : WorkFails(c)
  <2>1. PICK c \in {NoCond, "finalDelete", "finalDeleteConflict"} : WorkFails(c)
    BY <1>5
  <2>2. QED
    BY <1>1, <1>3, <1>5, <2>1, FailSteps
<1>6. QED
  BY <1>4, <1>5 DEF reconcileRouteFinalDelete

LEMMA NewStatusIsTyped ==
  ASSUME RouteInv, Working
  PROVE  NewRouteStatus \in RouteStatus
<1>1. /\ work.cond \in Conds /\ work.targets \in TargetStates
      /\ isModelRouteDeleted(work.obj) \in BOOLEAN
  BY WorkFacts, ObjectFacts DEF RouteInv, isModelRouteDeleted
<1>2. \A c, t, d : reconcileModelRoutePhase(c, t, d) \in Phases
  BY DEF reconcileModelRoutePhase, Phases
<1>3. QED
  BY <1>1, <1>2 DEF NewRouteStatus, RouteStatus

LEMMA StatusSteps ==
  ASSUME RouteInv, UpdateRouteStatus
  PROVE  OwnStep
<1>1. /\ RouteTypeOK /\ Working /\ work.pc = "status" /\ UNCHANGED <<routeCache, backend>>
      /\ work' = IdleWork
  BY DEF RouteInv, UpdateRouteStatus, WorkAt, Working
<1>2. work.key \in RouteObjects /\ NewRouteStatus \in RouteStatus
  BY <1>1, WorkFacts, NewStatusIsTyped DEF RouteInv
<1>3. routeQueue \subseteq routeQueue' /\ routeQueue' \subseteq routeQueue \cup {work.key}
  BY DEF UpdateRouteStatus
<1>4. spent'.edits = spent.edits /\ spent' \in Counts
  <2>1. spent' = spent \/ RouteCallError("status")
    BY DEF UpdateRouteStatus
  <2>2. QED
    BY <1>1, <2>1, FaultCounts DEF RouteTypeOK, RouteCallError
<1>5. CASE UNCHANGED routeApi
  BY <1>1, <1>3, <1>4, <1>5 DEF OwnStep, RouteTypeOK
<1>6. CASE /\ routeCache[work.key] # NoObject /\ routeApi[work.key] = routeCache[work.key]
           /\ routeApi' = [routeApi EXCEPT ![work.key].status = NewRouteStatus]
  <2> DEFINE a == routeApi[work.key]
             o == [a EXCEPT !.status = NewRouteStatus]
  <2>1. routeApi \in [RouteObjects -> Stored] /\ a \in RouteObject /\ a # NoObject
    BY <1>1, <1>2, <1>6 DEF RouteTypeOK, Stored
  <2>2. routeApi' = [routeApi EXCEPT ![work.key] = o]
    BY <1>6
  <2> HIDE DEF a
  <2>3. /\ o \in RouteObject /\ o.spec = a.spec /\ o.gen = a.gen /\ o.deletedAt = a.deletedAt
        /\ o.finalizer = a.finalizer
    BY <1>2, <2>1 DEF RouteObject
  <2> HIDE DEF o
  <2>4. SameSpec(o, a) /\ o \in Stored
    BY <2>3, ObjectFacts DEF SameSpec, Stored
  <2>5. /\ routeApi' \in [RouteObjects -> Stored] /\ routeApi'[work.key] = o
        /\ \A s \in RouteObjects \ {work.key} : routeApi'[s] = routeApi[s]
    BY <1>2, <2>1, <2>2, <2>4
  <2>6. a.finalizer => o.finalizer
    BY <2>3
  <2>7. QED
    BY <1>1, <1>3, <1>4, <2>1, <2>4, <2>5, <2>6 DEF OwnStep, a
<1>7. QED
  BY <1>5, <1>6 DEF UpdateRouteStatus

LEMMA StepIsOwn ==
  ASSUME RouteInv, WorkStep
  PROVE  OwnStep
BY ConfigSteps, ValidatorSteps, HealthySteps, RegisterSteps, DeleteRegisterSteps, FinalDeleteSteps,
   StatusSteps DEF WorkStep

(* The history is of what users do.                                        *)
LEMMA StepKeepsHistory ==
  ASSUME WorkStep
  PROVE  UNCHANGED <<hadModel, leftModel>>
BY DEF WorkStep, reconcileRouteConfig, reconcileRouteValidator, reconcileDestinationHealthy,
       reconcileRegister, reconcileDeleteRegister, reconcileRouteFinalDelete, UpdateRouteStatus,
       routeHistory

-----------------------------------------------------------------------------
(* The steps of the watch, the workqueue, the backends and the process.    *)

LEMMA DeliverKeeps ==
  ASSUME RouteInv, NEW r \in RouteObjects, DeliverRoute(r)
  PROVE  RouteInv'
<1>1. /\ routeCache' = [routeCache EXCEPT ![r] = routeApi[r]] /\ routeQueue' = routeQueue \cup {r}
      /\ UNCHANGED <<routeApi, work, backend, spent, hadModel, leftModel>>
      /\ routeCache \in [RouteObjects -> Stored]
  BY DEF DeliverRoute, RouteInv, RouteTypeOK, routeHistory
<1>2. RouteTypeOK'
  BY <1>1 DEF RouteInv, RouteTypeOK
<1>3. routeCache'[r] = routeApi[r] /\ \A s \in RouteObjects \ {r} : routeCache'[s] = routeCache[s]
  BY <1>1
<1>4. ASSUME NEW s \in RouteObjects PROVE Dated(s, routeApi[s])' /\ Dated(s, routeCache[s])'
  <2>1. routeCache'[s] = routeCache[s] \/ routeCache'[s] = routeApi[s]
    BY <1>3
  <2>2. QED
    BY <1>1, <2>1 DEF RouteInv, Dated, isModelRouteDeleted
<1>5. ASSUME Working' PROVE Dated(work.key, work.obj) /\ Staged(work) /\ Copied(work)'
  <2>1. Working
    BY <1>1, <1>5 DEF Working
  <2>2. Dated(work.key, work.obj) /\ Staged(work) /\ Copied(work) /\ work.key \in RouteObjects
    BY <2>1, WorkFacts DEF RouteInv
  <2>3. CASE work.key = r
    BY <1>1, <1>3, <2>2, <2>3 DEF Copied
  <2>4. CASE work.key # r
    BY <1>1, <1>3, <2>2, <2>4 DEF Copied, SameSpec
  <2>5. QED
    BY <2>2, <2>3, <2>4
<1>6. QED
  BY <1>1, <1>2, <1>4, <1>5 DEF RouteInv, Dated, Staged, isModelRouteDeleted

(* The worker takes an object of the queue, or drops one that is gone.     *)
LEMMA BeginFacts ==
  ASSUME RouteInv, NEW r \in RouteObjects, BeginRoute(r)
  PROVE  /\ UNCHANGED <<routeApi, routeCache, backend, spent, hadModel, leftModel, registryVars>>
         /\ routeQueue' = routeQueue \ {r} /\ r \in routeQueue /\ ~Working
         /\ routeCache[r] = NoObject => work' = work
         /\ routeCache[r] # NoObject =>
              /\ routeCache[r] \in RouteObject /\ work' \in Busy
              /\ work'.pc = "config" /\ work'.key = r /\ work'.obj = routeCache[r]
              /\ work'.cond = NoCond
<1> DEFINE s == [pc |-> "config", key |-> r, obj |-> routeCache[r], cond |-> NoCond,
                 targets |-> routeCache[r].status.targets]
<1>1. /\ UNCHANGED <<routeApi, routeCache, backend, spent, hadModel, leftModel, registryVars>>
      /\ routeQueue' = routeQueue \ {r} /\ r \in routeQueue /\ ~Working
      /\ routeCache[r] = NoObject => work' = work
      /\ routeCache[r] # NoObject => work' = s
  BY DEF BeginRoute, WorkAt, Working, routeHistory
<1>2. routeCache[r] # NoObject => routeCache[r] \in RouteObject
  BY DEF RouteInv, RouteTypeOK, Stored
<1>3. routeCache[r] # NoObject => s \in Busy
  <2>1. "config" \in Places /\ NoCond \in Conds
    BY DEF Places, Conds
  <2>2. routeCache[r] # NoObject => routeCache[r].status.targets \in TargetStates
    BY <1>2, ObjectFacts DEF RouteStatus
  <2>3. QED
    BY <1>2, <2>1, <2>2 DEF Busy
<1>4. s.pc = "config" /\ s.key = r /\ s.obj = routeCache[r] /\ s.cond = NoCond
  OBVIOUS
<1> HIDE DEF s
<1>5. QED
  BY <1>1, <1>2, <1>3, <1>4

LEMMA BeginKeeps ==
  ASSUME RouteInv, NEW r \in RouteObjects, BeginRoute(r)
  PROVE  RouteInv'
<1>1. /\ UNCHANGED <<routeApi, routeCache, backend, spent, hadModel, leftModel>>
      /\ routeQueue' = routeQueue \ {r} /\ ~Working
  BY BeginFacts
<1>2. ASSUME NEW s \in RouteObjects PROVE Dated(s, routeApi[s])' /\ Dated(s, routeCache[s])'
  BY <1>1 DEF RouteInv, Dated, isModelRouteDeleted
<1>3. CASE routeCache[r] = NoObject
  <2>1. work' = work
    BY <1>3, BeginFacts
  <2>2. RouteTypeOK' /\ ~Working'
    BY <1>1, <2>1 DEF RouteInv, RouteTypeOK, Working
  <2>3. QED
    BY <1>2, <2>2 DEF RouteInv
<1>4. CASE routeCache[r] # NoObject
  <2>1. /\ work' \in Busy
        /\ work'.pc = "config" /\ work'.key = r /\ work'.obj = routeCache[r] /\ work'.cond = NoCond
    BY <1>4, BeginFacts
  <2>2. RouteTypeOK'
    BY <1>1, <2>1 DEF RouteInv, RouteTypeOK
  <2>3. Dated(r, routeCache[r])
    BY DEF RouteInv
  <2>4. Dated(work.key, work.obj)' /\ Staged(work)' /\ Copied(work)'
    <3>1. Dated(work.key, work.obj)'
      BY <1>1, <2>1, <2>3 DEF Dated, isModelRouteDeleted
    <3>2. Staged(work)'
      BY <2>1 DEF Staged
    <3>3. Copied(work)'
      BY <1>1, <1>4, <2>1 DEF Copied, SameSpec
    <3>4. QED
      BY <3>1, <3>2, <3>3
  <2>5. QED
    BY <1>2, <2>2, <2>4 DEF RouteInv
<1>5. QED
  BY <1>3, <1>4

LEMMA BackendEventKeeps ==
  ASSUME RouteInv, NEW b \in BackendKeys, BackendEvent(b)
  PROVE  RouteInv'
<1>1. /\ UNCHANGED <<routeApi, routeCache, routeQueue, work, hadModel, leftModel>>
      /\ spent' = [spent EXCEPT !.backends = @ + 1]
      /\ \E s \in {"absent", "Unknown", "Healthy", "Failed"} : backend' = [backend EXCEPT ![b] = s]
  BY DEF BackendEvent, routeHistory
<1>2. backend' \in [BackendKeys -> Phases \cup {"absent"}]
  BY <1>1 DEF RouteInv, RouteTypeOK, Phases
<1>3. spent'.edits = spent.edits /\ spent' \in Counts
  <2>1. spent \in Counts /\ spent.backends \in Nat
    BY CountFacts DEF RouteInv, RouteTypeOK
  <2>2. QED
    BY <1>1, <2>1 DEF Counts
<1>4. RouteTypeOK'
  BY <1>1, <1>2, <1>3 DEF RouteInv, RouteTypeOK
<1>5. QED
  BY <1>1, <1>3, <1>4 DEF RouteInv, Dated, Working, Staged, Copied, SameSpec, isModelRouteDeleted

LEMMA RestartKeeps ==
  ASSUME RouteInv, RestartRoutes
  PROVE  RouteInv'
<1>1. /\ UNCHANGED <<routeApi, backend, hadModel, leftModel>>
      /\ routeCache' = routeApi /\ work' = IdleWork
      /\ routeQueue' = {r \in RouteObjects : routeApi[r] # NoObject} /\ Fault("restart")
  BY DEF RestartRoutes, routeHistory
<1>2. spent'.edits = spent.edits /\ spent' \in Counts
  BY <1>1, FaultCounts DEF RouteInv
<1>3. RouteTypeOK' /\ ~Working'
  BY <1>1, <1>2 DEF RouteInv, RouteTypeOK, Working, IdleWork
<1>4. ASSUME NEW s \in RouteObjects PROVE Dated(s, routeApi[s])' /\ Dated(s, routeCache[s])'
  BY <1>1, <1>2 DEF RouteInv, Dated, isModelRouteDeleted
<1>5. QED
  BY <1>3, <1>4 DEF RouteInv

LEMMA RouteStarts == ModelRouteInit => RouteInv
<1> SUFFICES ASSUME ModelRouteInit PROVE RouteInv
  OBVIOUS
<1>1. /\ routeApi = [r \in RouteObjects |-> NoObject] /\ routeCache = routeApi /\ routeQueue = {}
      /\ work = IdleWork /\ backend = [b \in BackendKeys |-> "absent"]
      /\ spent = [edits |-> 0, backends |-> 0, faults |-> 0, lostDeletes |-> 0]
      /\ hadModel = [r \in RouteObjects |-> {}] /\ leftModel = hadModel
  BY DEF ModelRouteInit
<1>2. spent \in Counts
  BY <1>1, ModelRouteAssumption DEF Counts
<1>3. RouteTypeOK /\ ~Working
  BY <1>1, <1>2 DEF RouteTypeOK, Stored, Working, IdleWork
<1>4. \A r \in RouteObjects : Dated(r, routeApi[r]) /\ Dated(r, routeCache[r])
  BY <1>1 DEF Dated
<1>5. QED
  BY <1>3, <1>4 DEF RouteInv

LEMMA RouteSteps ==
  RouteInv /\ [ModelRouteNext]_modelRouteVars => RouteInv'
<1> SUFFICES ASSUME RouteInv, [ModelRouteNext]_modelRouteVars PROVE RouteInv'
  OBVIOUS
<1>1. ASSUME NEW r \in RouteObjects, CreateRoute(r) \/ EditRouteSpec(r) \/ DeleteRoute(r)
      PROVE  RouteInv'
  <2>1. PICK o : Edited(r, o)
    BY <1>1, CreateEdits, EditSpecEdits, DeleteEdits
  <2>2. QED
    BY <2>1, EditedKeeps
<1>2. ASSUME NEW r \in RouteObjects, DeliverRoute(r) PROVE RouteInv'
  BY <1>2, DeliverKeeps
<1>3. ASSUME NEW r \in RouteObjects, BeginRoute(r) PROVE RouteInv'
  BY <1>3, BeginKeeps
<1>4. ASSUME NEW b \in BackendKeys, BackendEvent(b) PROVE RouteInv'
  BY <1>4, BackendEventKeeps
<1>5. CASE WorkStep
  BY <1>5, StepIsOwn, StepKeepsHistory, OwnStepKeeps
<1>6. ASSUME UNCHANGED <<routeApi, routeCache, routeQueue, work, backend, spent, hadModel, leftModel>>
      PROVE  RouteInv'
  BY <1>6 DEF RouteInv, RouteTypeOK, Dated, Working, Staged, Copied, SameSpec, isModelRouteDeleted
<1>7. CASE RouteGraceEnds
  BY <1>6, <1>7 DEF RouteGraceEnds, routeHistory
<1>8. CASE RestartRoutes
  BY <1>8, RestartKeeps
<1>9. CASE UNCHANGED modelRouteVars
  BY <1>6, <1>9 DEF modelRouteVars, routeControlVars, routeHistory
<1>10. QED
  BY <1>1, <1>2, <1>3, <1>4, <1>5, <1>7, <1>8, <1>9 DEF ModelRouteNext

(* The inductive invariant of the controller holds in every reachable      *)
(* state: types, the dates of the objects and their copies, and what the   *)
(* place of the worker says of the object it is at.                        *)
THEOREM RouteInvariant == ModelRouteSpec => []RouteInv
BY RouteStarts, RouteSteps, PTL DEF ModelRouteSpec

-----------------------------------------------------------------------------
(* NoOrphanRoute: the finalizer is in place as long as a route is          *)
(* registered, and what a copy shows agrees with that.                     *)

LEMMA EditedHeld ==
  ASSUME RouteInv, HeldInv, NEW r \in RouteObjects, NEW o, Edited(r, o)
  PROVE  HeldInv'
<1>1. /\ routeApi' = [routeApi EXCEPT ![r] = o]
      /\ UNCHANGED <<routeCache, work, matchRouteRegistry>>
      /\ Held(o) <=> Held(routeApi[r])
      /\ routeApi[r] # NoObject /\ isModelRouteDeleted(routeApi[r])
           => Held(o) /\ isModelRouteDeleted(o)
      /\ routeApi \in [RouteObjects -> Stored] /\ RouteTypeOK
  BY DEF Edited, registryVars, RouteInv, RouteTypeOK
<1>2. /\ routeApi'[r] = o /\ \A s \in RouteObjects \ {r} : routeApi'[s] = routeApi[s]
      /\ \A s \in RouteObjects : leftModel[s] \subseteq leftModel'[s]
      /\ o # NoObject /\ routeApi[r] # NoObject
           => o.spec.model = routeApi[r].spec.model \/ routeApi[r].spec.model \in leftModel'[r]
  BY <1>1, EditedHistory
<1>3. ASSUME NEW s \in RouteObjects
      PROVE  /\ \A x : Trails(x, routeApi[s]) => Trails(x, routeApi'[s])
             /\ \A x : Trails(x, routeApi[s]) /\ NamedAs(s, x, routeApi[s])
                        => NamedAs(s, x, routeApi[s])'
             /\ \A m : Justified(s, m) => Justified(s, m)'
  <2>1. CASE s = r
    <3>1. \A x : Trails(x, routeApi[r]) => Trails(x, o)
      BY <1>1 DEF Trails, Held
    <3>2. ASSUME NEW x, Trails(x, routeApi[r]), NamedAs(r, x, routeApi[r]), Held(x),
                 ~isModelRouteDeleted(x)
          PROVE  x.spec.model = o.spec.model \/ x.spec.model \in leftModel'[r]
      BY <1>1, <1>2, <3>2 DEF Trails, Held, NamedAs
    <3>3. ASSUME NEW m, Justified(r, m)
          PROVE  m \in leftModel'[r] \/ (Held(o) /\ o.spec.model = m)
      BY <1>1, <1>2, <3>3 DEF Held, Justified, JustifiedAs
    <3>4. QED
      BY <1>2, <2>1, <3>1, <3>2, <3>3
      DEF NamedAs, Justified, JustifiedAs, Held, isModelRouteDeleted
  <2>2. CASE s # r
    <3>1. routeApi'[s] = routeApi[s] /\ leftModel[s] \subseteq leftModel'[s]
      BY <1>2, <2>2
    <3>2. QED
      BY <3>1 DEF NamedAs, Justified, JustifiedAs, Held, isModelRouteDeleted
  <2>3. QED
    BY <2>1, <2>2
<1>4. ASSUME NEW s \in RouteObjects
      PROVE  Trails(routeCache[s], routeApi'[s]) /\ NamedAs(s, routeCache[s], routeApi[s])'
  <2>1. PICK x : x = routeCache[s]
    OBVIOUS
  <2>2. routeCache'[s] = x /\ Trails(x, routeApi[s]) /\ NamedAs(s, x, routeApi[s])
    BY <1>1, <2>1 DEF HeldInv, Named
  <2>3. Trails(x, routeApi'[s]) /\ NamedAs(s, x, routeApi[s])'
    BY <1>3, <2>2
  <2>4. QED
    BY <2>1, <2>2, <2>3 DEF NamedAs
<1>5. ASSUME Working
      PROVE  /\ Trails(work.obj, routeApi'[work.key])
             /\ NamedAs(work.key, work.obj, routeApi[work.key])'
  <2>1. work.key \in RouteObjects
    BY <1>5, WorkFacts DEF RouteInv
  <2>2. PICK s \in RouteObjects, x \in {work.obj} : x = work.obj /\ s = work.key
    BY <2>1
  <2>3. Trails(x, routeApi[s]) /\ NamedAs(s, x, routeApi[s])
    BY <1>5, <2>2 DEF HeldInv, Named
  <2>4. work'.obj = x /\ work'.key = s
    BY <1>1, <2>2
  <2>5. QED
    BY <1>3, <2>2, <2>3, <2>4
<1>6. ASSUME NEW m \in DOMAIN matchRouteRegistry
      PROVE  /\ matchRouteRegistry[m].cfg.owner \in RouteObjects
             /\ Justified(matchRouteRegistry[m].cfg.owner, m)'
  <2>1. PICK s \in RouteObjects : s = matchRouteRegistry[m].cfg.owner
    BY DEF HeldInv
  <2>2. matchRouteRegistry'[m].cfg.owner = s
    BY <1>1, <2>1
  <2>3. Justified(s, m)'
    BY <1>3, <2>1 DEF HeldInv
  <2>4. QED
    BY <2>1, <2>2, <2>3
<1>7. QED
  BY <1>1, <1>4, <1>5, <1>6
  DEF HeldInv, Working, Trails, Held, isModelRouteDeleted, Named, Justified

LEMMA DeliverHeld ==
  ASSUME RouteInv, HeldInv, NEW r \in RouteObjects, DeliverRoute(r)
  PROVE  HeldInv'
<1>1. /\ routeCache' = [routeCache EXCEPT ![r] = routeApi[r]]
      /\ UNCHANGED <<routeApi, work, matchRouteRegistry, leftModel>>
      /\ routeCache \in [RouteObjects -> Stored]
  BY DEF DeliverRoute, registryVars, routeHistory, RouteInv, RouteTypeOK
<1>2. routeCache'[r] = routeApi[r] /\ \A s \in RouteObjects \ {r} : routeCache'[s] = routeCache[s]
  BY <1>1
<1>3. ASSUME NEW s \in RouteObjects
      PROVE  Trails(routeCache'[s], routeApi[s]) /\ NamedAs(s, routeCache'[s], routeApi[s])
  <2>1. CASE s = r
    BY <1>2, <2>1 DEF Trails, Held, NamedAs
  <2>2. CASE s # r
    BY <1>2, <2>2 DEF HeldInv, Named
  <2>3. QED
    BY <2>1, <2>2
<1>4. ASSUME Working
      PROVE  isModelRouteDeleted(work.obj) /\ Held(routeCache'[work.key])
               => isModelRouteDeleted(routeCache'[work.key])
  <2>1. work.key \in RouteObjects /\ work.obj # NoObject
    BY <1>4, WorkFacts, ObjectFacts DEF RouteInv
  <2>2. CASE work.key = r
    BY <1>2, <1>4, <2>1, <2>2 DEF HeldInv, Trails
  <2>3. CASE work.key # r
    BY <1>2, <1>4, <2>1, <2>3 DEF HeldInv
  <2>4. QED
    BY <2>2, <2>3
<1>5. QED
  BY <1>1, <1>3, <1>4
  DEF HeldInv, Working, Trails, Held, isModelRouteDeleted, Named, NamedAs, Justified, JustifiedAs

LEMMA BeginHeld ==
  ASSUME RouteInv, HeldInv, NEW r \in RouteObjects, BeginRoute(r)
  PROVE  HeldInv'
<1>1. UNCHANGED <<routeApi, routeCache, matchRouteRegistry, leftModel>>
  BY BeginFacts DEF registryVars
<1>2. CASE routeCache[r] = NoObject
  <2>1. work' = work
    BY <1>2, BeginFacts
  <2>2. QED
    BY <1>1, <2>1
    DEF HeldInv, Working, Trails, Held, isModelRouteDeleted, Named, NamedAs, Justified, JustifiedAs
<1>3. CASE routeCache[r] # NoObject
  <2>1. work'.pc = "config" /\ work'.key = r /\ work'.obj = routeCache[r]
    BY <1>3, BeginFacts
  <2>2. Trails(work'.obj, routeApi[work'.key]) /\ Named(work'.key, work'.obj)
    BY <2>1 DEF HeldInv
  <2>3. QED
    BY <1>1, <2>1, <2>2
    DEF HeldInv, Trails, Held, isModelRouteDeleted, Named, NamedAs, Justified, JustifiedAs
<1>4. QED
  BY <1>2, <1>3

LEMMA RestartHeld ==
  ASSUME RouteInv, HeldInv, RestartRoutes
  PROVE  HeldInv'
<1>1. /\ routeCache' = routeApi /\ routeApi' = routeApi /\ work' = IdleWork
      /\ matchRouteRegistry' = <<>>
  BY DEF RestartRoutes
<1>2. ~Working'
  BY <1>1 DEF Working, IdleWork
<1>3. \A r \in RouteObjects : Trails(routeCache[r], routeApi[r])' /\ Named(r, routeCache[r])'
  BY <1>1 DEF Trails, Held, isModelRouteDeleted, Named, NamedAs
<1>4. DOMAIN matchRouteRegistry' = {}
  BY <1>1
<1>5. QED
  BY <1>2, <1>3, <1>4 DEF HeldInv

-----------------------------------------------------------------------------
(* A step of the worker at r keeps HeldInv if the copies of r and what is  *)
(* registered stay right.                                                  *)
Holds ==
  LET r == work.key IN
  /\ Trails(routeCache[r], routeApi'[r]) /\ NamedAs(r, routeCache[r], routeApi'[r])
  /\ Working' => Trails(work'.obj, routeApi'[r]) /\ NamedAs(r, work'.obj, routeApi'[r])
  /\ Working' /\ work'.pc = "finalDelete"
       => work'.obj.spec.model \notin DOMAIN matchRouteRegistry'
  /\ \A m \in DOMAIN matchRouteRegistry' :
       /\ matchRouteRegistry'[m].cfg.owner \in RouteObjects
       /\ JustifiedAs(matchRouteRegistry'[m].cfg.owner, m, routeApi')

LEMMA OwnStepHolds ==
  ASSUME RouteInv, HeldInv, OwnStep, UNCHANGED <<hadModel, leftModel>>, Holds
  PROVE  HeldInv'
<1> DEFINE r == work.key
<1>1. /\ Working /\ r \in RouteObjects /\ routeCache' = routeCache
      /\ \A s \in RouteObjects \ {r} : routeApi'[s] = routeApi[s]
  BY WorkFacts DEF OwnStep, RouteInv
<1>2. \A s \in RouteObjects :
        Trails(routeCache[s], routeApi'[s]) /\ NamedAs(s, routeCache[s], routeApi'[s])
  BY <1>1 DEF HeldInv, Holds, Named, NamedAs
<1>3. ASSUME Working'
      PROVE  /\ Trails(work'.obj, routeApi'[work'.key])
             /\ NamedAs(work'.key, work'.obj, routeApi'[work'.key])
             /\ isModelRouteDeleted(work'.obj) /\ Held(routeCache[work'.key])
                  => isModelRouteDeleted(routeCache[work'.key])
             /\ work'.pc = "finalDelete" => work'.obj.spec.model \notin DOMAIN matchRouteRegistry'
  <2>1. work'.key = r /\ SameSpec(work'.obj, work.obj)
    BY <1>3 DEF OwnStep, Working, IdleWork
  <2>2. isModelRouteDeleted(work'.obj) <=> isModelRouteDeleted(work.obj)
    BY <2>1 DEF SameSpec, isModelRouteDeleted
  <2>3. isModelRouteDeleted(work.obj) /\ Held(routeCache[r]) => isModelRouteDeleted(routeCache[r])
    BY <1>1 DEF HeldInv
  <2>4. QED
    BY <1>3, <2>1, <2>2, <2>3 DEF Holds
<1>4. QED
  BY <1>1, <1>2, <1>3
  DEF HeldInv, Holds, Trails, Held, isModelRouteDeleted, Named, NamedAs, Justified, JustifiedAs

(* With the API server's objects and the match routes as they were.        *)
LEMMA NothingChangesHolds ==
  ASSUME RouteInv, HeldInv, OwnStep, UNCHANGED <<routeApi, matchRouteRegistry>>,
         Working' => work'.obj = work.obj,
         Working' => work'.pc # "finalDelete"
  PROVE  Holds
<1>1. Working /\ work.key \in RouteObjects
  BY WorkFacts DEF OwnStep, RouteInv
<1>2. QED
  BY <1>1 DEF Holds, HeldInv, Named, Justified, JustifiedAs

LEMMA ConfigHolds ==
  ASSUME RouteInv, HeldInv, reconcileRouteConfig
  PROVE  Holds
<1> DEFINE next == IF isModelRouteDeleted(work.obj) THEN "deleteRegister" ELSE "validator"
<1>1. OwnStep /\ Working /\ work.pc = "config" /\ matchRouteRegistry' = matchRouteRegistry
  BY ConfigSteps DEF reconcileRouteConfig, WorkAt, Working, registryVars
<1>2. /\ RouteTypeOK /\ work.key \in RouteObjects /\ work.obj \in RouteObject /\ work \in Busy
      /\ Copied(work)
  BY <1>1, WorkFacts DEF RouteInv
<1>3. next \in Places /\ next # "finalDelete" /\ "config" \in Conds
  BY DEF Places, Conds, Handlers
<1>4. CASE WorkGoto(next) /\ UNCHANGED routeApi
  <2> HIDE DEF next
  <2>1. Turn(next, work.obj, work.cond, work.targets)
    BY <1>1, <1>2, <1>3, <1>4, GotoTurns
  <2>2. QED
    BY <1>1, <1>3, <1>4, <2>1, NothingChangesHolds DEF Turn
<1>5. CASE WorkFails("config") /\ UNCHANGED routeApi
  <2>1. Turn("status", work.obj, "config", work.targets)
    BY <1>1, <1>2, <1>3, <1>5, FailTurns
  <2>2. QED
    BY <1>1, <1>5, <2>1, NothingChangesHolds DEF Turn
<1>6. CASE /\ ~work.obj.finalizer /\ routeApi[work.key] = work.obj
           /\ routeApi' = [routeApi EXCEPT ![work.key].finalizer = TRUE]
           /\ work' = [work EXCEPT !.pc = next, !.obj.finalizer = TRUE]
  <2> DEFINE o == [work.obj EXCEPT !.finalizer = TRUE]
  <2>1. routeApi \in [RouteObjects -> Stored]
    BY <1>2 DEF RouteTypeOK
  <2>2. work'.obj = o /\ work'.pc = next
    BY <1>2, <1>6 DEF Busy
  <2>3. routeApi'[work.key] = o /\ \A s \in RouteObjects \ {work.key} : routeApi'[s] = routeApi[s]
    BY <1>2, <1>6, <2>1
  <2>4. /\ o \in RouteObject /\ o.finalizer = TRUE /\ o.deletedAt = work.obj.deletedAt
        /\ o.spec = work.obj.spec
    BY <1>2 DEF RouteObject
  <2> HIDE DEF o, next
  <2>5. Held(o) /\ (isModelRouteDeleted(o) <=> isModelRouteDeleted(work.obj))
    BY <2>4, ObjectFacts DEF Held, isModelRouteDeleted
  <2>6. /\ Trails(work.obj, o) /\ Trails(o, o)
        /\ NamedAs(work.key, work.obj, o) /\ NamedAs(work.key, o, o)
    BY <2>4, <2>5 DEF Trails, NamedAs
  <2>7. routeCache[work.key] = work.obj
    BY <1>1, <1>2, <1>6 DEF Copied
  <2>8. ASSUME NEW m \in DOMAIN matchRouteRegistry
        PROVE  JustifiedAs(matchRouteRegistry[m].cfg.owner, m, routeApi')
    <3>1. CASE matchRouteRegistry[m].cfg.owner = work.key
      <4>1. Justified(work.key, m)
        BY <3>1 DEF HeldInv
      <4>2. m \in leftModel[work.key] \/ work.obj.spec.model = m
        BY <1>6, <4>1 DEF Justified, JustifiedAs
      <4>3. m \in leftModel[work.key] \/ (Held(o) /\ o.spec.model = m)
        BY <2>4, <2>5, <4>2
      <4>4. QED
        BY <2>3, <3>1, <4>3 DEF JustifiedAs
    <3>2. CASE matchRouteRegistry[m].cfg.owner # work.key
      BY <2>3, <3>2 DEF HeldInv, Justified, JustifiedAs
    <3>3. QED
      BY <3>1, <3>2
  <2>9. QED
    BY <1>1, <1>3, <2>2, <2>3, <2>6, <2>7, <2>8 DEF Holds, HeldInv
<1>7. QED
  BY <1>4, <1>5, <1>6 DEF reconcileRouteConfig

LEMMA ValidatorHolds ==
  ASSUME RouteInv, HeldInv, reconcileRouteValidator
  PROVE  Holds
<1>1. /\ OwnStep /\ Working /\ RouteTypeOK /\ UNCHANGED <<routeApi, matchRouteRegistry>>
      /\ WorkGoto("destinationHealthy") \/ WorkFails("validator")
  BY ValidatorSteps DEF reconcileRouteValidator, WorkAt, Working, registryVars, RouteInv
<1>2. "destinationHealthy" \in Places /\ "validator" \in Conds
  BY DEF Places, Conds, Handlers
<1>3. \/ Turn("destinationHealthy", work.obj, work.cond, work.targets)
      \/ Turn("status", work.obj, "validator", work.targets)
  BY <1>1, <1>2, GotoTurns, FailTurns
<1>4. QED
  BY <1>1, <1>3, NothingChangesHolds DEF Turn

LEMMA HealthyHolds ==
  ASSUME RouteInv, HeldInv, reconcileDestinationHealthy
  PROVE  Holds
<1> DEFINE targets == getModelRouteTargets(work.key, work.obj.spec)
           states == [i \in DOMAIN targets |-> TargetState(targets[i].key)]
<1>1. /\ OwnStep /\ Working /\ RouteTypeOK /\ UNCHANGED <<routeApi, matchRouteRegistry>>
      /\ work.pc = "destinationHealthy"
  BY HealthySteps DEF reconcileDestinationHealthy, WorkAt, Working, registryVars, RouteInv
<1>2. CASE work' = [work EXCEPT !.pc = "register", !.targets = states]
  <2>1. PICK t : t = states
    OBVIOUS
  <2>2. Turn("register", work.obj, work.cond, t)
    BY <1>1, <1>2, <2>1, HealthyTurns
  <2>3. QED
    BY <1>1, <2>2, NothingChangesHolds DEF Turn
<1>3. CASE WorkFails("destinationHealthy")
  <2>1. "destinationHealthy" \in Conds
    BY DEF Conds, Handlers
  <2>2. Turn("status", work.obj, "destinationHealthy", work.targets)
    BY <1>1, <1>3, <2>1, FailTurns
  <2>3. QED
    BY <1>1, <2>2, NothingChangesHolds DEF Turn
<1>4. QED
  BY <1>2, <1>3 DEF reconcileDestinationHealthy

(* The worker's copy is held and not deleted, so the object is held.       *)
LEMMA RegisterHolds ==
  ASSUME RouteInv, HeldInv, reconcileRegister
  PROVE  Holds
<1> DEFINE model == work.obj.spec.model
<1>1. /\ OwnStep /\ Working /\ RouteTypeOK /\ routeApi' = routeApi /\ work.pc = "register"
      /\ WorkGoto("status") \/ WorkFails("register")
  BY RegisterSteps DEF reconcileRegister, WorkAt, Working, RouteInv
<1>2. work.key \in RouteObjects /\ work.obj \in RouteObject /\ Staged(work)
  BY <1>1, WorkFacts DEF RouteInv
<1>3. "status" \in Places /\ "register" \in Conds
  BY DEF Places, Conds, Handlers
<1>4. \/ Turn("status", work.obj, work.cond, work.targets)
      \/ Turn("status", work.obj, "register", work.targets)
  BY <1>1, <1>3, GotoTurns, FailTurns
<1>5. work'.obj = work.obj /\ work'.pc = "status"
  BY <1>4 DEF Turn
<1>6. JustifiedAs(work.key, model, routeApi)
  <2>1. work.obj # NoObject
    BY <1>2, ObjectFacts
  <2>2. Held(work.obj) /\ ~isModelRouteDeleted(work.obj)
    BY <1>1, <1>2, <2>1 DEF Staged, Held
  <2>3. QED
    BY <1>1, <1>2, <2>1, <2>2 DEF HeldInv, Trails, Named, NamedAs, JustifiedAs
<1>7. ASSUME NEW m \in DOMAIN matchRouteRegistry'
      PROVE  \/ m = model /\ matchRouteRegistry'[m].cfg.owner = work.key
             \/ m \in DOMAIN matchRouteRegistry /\ matchRouteRegistry'[m] = matchRouteRegistry[m]
  <2>1. \/ \E t : matchRouteRegistry' =
                    Insert(matchRouteRegistry, model,
                           NewRoute(model, t, [owner |-> work.key, gen |-> work.obj.gen]))
        \/ matchRouteRegistry' = matchRouteRegistry
        \/ matchRouteRegistry' = Delete(matchRouteRegistry, model)
    BY DEF reconcileRegister, RegisterMatchRouteWithConfig, RemoveMatchRoute, registryVars
  <2>2. QED
    BY <1>7, <2>1 DEF Insert, Delete, NewRoute
<1>8. \A m \in DOMAIN matchRouteRegistry' :
        /\ matchRouteRegistry'[m].cfg.owner \in RouteObjects
        /\ JustifiedAs(matchRouteRegistry'[m].cfg.owner, m, routeApi)
  BY <1>2, <1>6, <1>7 DEF HeldInv, Justified
<1>9. /\ Trails(routeCache[work.key], routeApi[work.key]) /\ Trails(work.obj, routeApi[work.key])
      /\ NamedAs(work.key, routeCache[work.key], routeApi[work.key])
      /\ NamedAs(work.key, work.obj, routeApi[work.key])
  BY <1>1, <1>2 DEF HeldInv, Named
<1>10. QED
  BY <1>1, <1>5, <1>8, <1>9 DEF Holds

LEMMA DeleteRegisterHolds ==
  ASSUME RouteInv, HeldInv, reconcileDeleteRegister
  PROVE  Holds
<1>1. /\ OwnStep /\ Working /\ RouteTypeOK /\ routeApi' = routeApi /\ WorkGoto("finalDelete")
      /\ matchRouteRegistry' = Delete(matchRouteRegistry, work.obj.spec.model)
  BY DeleteRegisterSteps DEF reconcileDeleteRegister, RemoveMatchRoute, WorkAt, Working, RouteInv
<1>2. work.key \in RouteObjects /\ "finalDelete" \in Places
  BY <1>1, WorkFacts DEF Places
<1>3. Turn("finalDelete", work.obj, work.cond, work.targets)
  BY <1>1, <1>2, GotoTurns
<1>4. /\ work.obj.spec.model \notin DOMAIN matchRouteRegistry'
      /\ \A m \in DOMAIN matchRouteRegistry' :
           m \in DOMAIN matchRouteRegistry /\ matchRouteRegistry'[m] = matchRouteRegistry[m]
  BY <1>1 DEF Delete
<1>5. /\ Trails(routeCache[work.key], routeApi[work.key]) /\ Trails(work.obj, routeApi[work.key])
      /\ NamedAs(work.key, routeCache[work.key], routeApi[work.key])
      /\ NamedAs(work.key, work.obj, routeApi[work.key])
  BY <1>1, <1>2 DEF HeldInv, Named
<1>6. QED
  BY <1>1, <1>3, <1>4, <1>5 DEF Holds, HeldInv, Turn, Justified

LEMMA FinalDeleteHolds ==
  ASSUME RouteInv, HeldInv, reconcileRouteFinalDelete
  PROVE  Holds
<1>1. /\ OwnStep /\ Working /\ RouteTypeOK /\ matchRouteRegistry' = matchRouteRegistry
      /\ work.pc = "finalDelete"
  BY FinalDeleteSteps DEF reconcileRouteFinalDelete, registryVars, WorkAt, Working, RouteInv
<1>2. work.key \in RouteObjects /\ work.obj \in RouteObject /\ Staged(work) /\ work.cond \in Conds
  BY <1>1, WorkFacts DEF RouteInv
<1>3. /\ \A c \in {NoCond, "finalDelete", "finalDeleteConflict"} : c \in Conds
      /\ "status" \in Places
  BY DEF Conds, Handlers, Places
<1>4. \E c \in Conds : Turn("status", work.obj, c, work.targets)
  <2>1. CASE WorkGoto("status")
    BY <1>1, <1>2, <1>3, <2>1, GotoTurns
  <2>2. CASE \E c \in {NoCond, "finalDelete", "finalDeleteConflict"} : WorkFails(c)
    <3>1. PICK c \in {NoCond, "finalDelete", "finalDeleteConflict"} : WorkFails(c)
      BY <2>2
    <3>2. c \in Conds
      BY <1>3, <3>1
    <3>3. QED
      BY <1>1, <3>1, <3>2, FailTurns
  <2>3. QED
    BY <2>1, <2>2 DEF reconcileRouteFinalDelete
<1>5. work'.obj = work.obj /\ work'.pc = "status"
  BY <1>4 DEF Turn
<1>6. CASE UNCHANGED routeApi
  BY <1>1, <1>5, <1>6, NothingChangesHolds
<1>7. CASE routeApi[work.key] = work.obj /\ routeApi' = [routeApi EXCEPT ![work.key] = NoObject]
  <2>1. /\ routeApi'[work.key] = NoObject
        /\ \A s \in RouteObjects \ {work.key} : routeApi'[s] = routeApi[s]
    BY <1>1, <1>2, <1>7 DEF RouteTypeOK
  <2>2. isModelRouteDeleted(work.obj)
    BY <1>1, <1>2 DEF Staged
  <2>3. /\ work.obj.spec.model \notin DOMAIN matchRouteRegistry
        /\ Held(routeCache[work.key]) => isModelRouteDeleted(routeCache[work.key])
    BY <1>1, <2>2 DEF HeldInv
  <2>4. /\ Trails(routeCache[work.key], NoObject) /\ Trails(work.obj, NoObject)
        /\ NamedAs(work.key, routeCache[work.key], NoObject)
        /\ NamedAs(work.key, work.obj, NoObject)
    BY <2>2, <2>3 DEF Trails, Held, NamedAs
  <2>5. \A m \in DOMAIN matchRouteRegistry :
          matchRouteRegistry[m].cfg.owner = work.key => m \in leftModel[work.key]
    BY <1>7, <2>3 DEF HeldInv, Justified, JustifiedAs
  <2>6. \A m \in DOMAIN matchRouteRegistry :
          JustifiedAs(matchRouteRegistry[m].cfg.owner, m, routeApi')
    BY <2>1, <2>5 DEF HeldInv, Justified, JustifiedAs
  <2>7. QED
    BY <1>1, <1>5, <2>1, <2>4, <2>6 DEF Holds, HeldInv
<1>8. QED
  BY <1>6, <1>7 DEF reconcileRouteFinalDelete

LEMMA StatusHolds ==
  ASSUME RouteInv, HeldInv, UpdateRouteStatus
  PROVE  Holds
<1> DEFINE r == work.key
<1>1. /\ OwnStep /\ Working /\ RouteTypeOK /\ matchRouteRegistry' = matchRouteRegistry
      /\ work' = IdleWork /\ r \in RouteObjects
  BY StatusSteps, WorkFacts DEF UpdateRouteStatus, registryVars, WorkAt, Working, RouteInv
<1>2. ~Working'
  BY <1>1 DEF Working, IdleWork
<1>3. CASE routeApi'[r] = routeApi[r]
  <2>1. routeApi' = routeApi
    BY <1>1, <1>3 DEF OwnStep, RouteTypeOK
  <2>2. QED
    BY <1>1, <1>2, <2>1, NothingChangesHolds
<1>4. CASE routeApi'[r] # routeApi[r]
  <2>1. /\ routeApi[r] = routeCache[r] /\ routeApi[r] # NoObject
        /\ routeApi' = [routeApi EXCEPT ![r].status = NewRouteStatus]
    BY <1>4 DEF UpdateRouteStatus
  <2>2. routeApi[r] \in RouteObject /\ routeApi \in [RouteObjects -> Stored]
    BY <1>1, <2>1 DEF RouteTypeOK, Stored
  <2>3. /\ routeApi'[r].gen = routeApi[r].gen /\ routeApi'[r].deletedAt = routeApi[r].deletedAt
        /\ routeApi'[r].finalizer = routeApi[r].finalizer
        /\ routeApi'[r].spec = routeApi[r].spec
        /\ \A s \in RouteObjects \ {r} : routeApi'[s] = routeApi[s]
    BY <1>1, <2>1, <2>2 DEF RouteObject
  <2>4. routeApi'[r] # NoObject
    BY <2>2, <2>3, ObjectFacts DEF NoObject
  <2>5. /\ Held(routeApi[r]) <=> Held(routeApi'[r])
        /\ isModelRouteDeleted(routeApi[r]) <=> isModelRouteDeleted(routeApi'[r])
    BY <2>1, <2>3, <2>4 DEF Held, isModelRouteDeleted
  <2>6. Trails(routeCache[r], routeApi'[r]) /\ NamedAs(r, routeCache[r], routeApi'[r])
    BY <2>1, <2>3, <2>5 DEF Trails, NamedAs
  <2>7. \A m \in DOMAIN matchRouteRegistry :
          JustifiedAs(matchRouteRegistry[m].cfg.owner, m, routeApi')
    BY <2>3, <2>5 DEF HeldInv, Justified, JustifiedAs
  <2>8. QED
    BY <1>1, <1>2, <2>6, <2>7 DEF Holds, HeldInv
<1>5. QED
  BY <1>3, <1>4

LEMMA StepHolds ==
  ASSUME RouteInv, HeldInv, WorkStep
  PROVE  HeldInv'
<1>1. OwnStep
  BY StepIsOwn
<1>2. Holds
  BY ConfigHolds, ValidatorHolds, HealthyHolds, RegisterHolds, DeleteRegisterHolds,
     FinalDeleteHolds, StatusHolds DEF WorkStep
<1>3. QED
  BY <1>1, <1>2, StepKeepsHistory, OwnStepHolds

LEMMA HeldSteps ==
  ASSUME RouteInv, HeldInv, [ModelRouteNext]_modelRouteVars
  PROVE  HeldInv'
<1>1. ASSUME NEW r \in RouteObjects, CreateRoute(r) \/ EditRouteSpec(r) \/ DeleteRoute(r)
      PROVE  HeldInv'
  <2>1. PICK o : Edited(r, o)
    BY <1>1, CreateEdits, EditSpecEdits, DeleteEdits
  <2>2. QED
    BY <2>1, EditedHeld
<1>2. ASSUME NEW r \in RouteObjects, DeliverRoute(r) PROVE HeldInv'
  BY <1>2, DeliverHeld
<1>3. ASSUME NEW r \in RouteObjects, BeginRoute(r) PROVE HeldInv'
  BY <1>3, BeginHeld
<1>4. CASE WorkStep
  BY <1>4, StepHolds
<1>5. ASSUME UNCHANGED <<routeApi, routeCache, work, matchRouteRegistry, leftModel>> PROVE HeldInv'
  BY <1>5
  DEF HeldInv, Working, Trails, Held, isModelRouteDeleted, Named, NamedAs, Justified, JustifiedAs
<1>6. ASSUME NEW b \in BackendKeys, BackendEvent(b) PROVE HeldInv'
  BY <1>5, <1>6 DEF BackendEvent, RegisterBaseRouteWithConfig, RemoveBaseRoute, registryVars,
                    routeHistory
<1>7. CASE RouteGraceEnds
  BY <1>5, <1>7 DEF RouteGraceEnds, registryVars, routeHistory
<1>8. CASE RestartRoutes
  BY <1>8, RestartHeld
<1>9. CASE UNCHANGED modelRouteVars
  BY <1>5, <1>9 DEF modelRouteVars, routeControlVars, registryVars, routeHistory
<1>10. QED
  BY <1>1, <1>2, <1>3, <1>4, <1>6, <1>7, <1>8, <1>9 DEF ModelRouteNext

(* A match route stands under the model name of the ModelRoute it was made *)
(* from, which the finalizer holds in the API server, or under a name that *)
(* this ModelRoute was edited away from.                                   *)
THEOREM HeldInvariant == ModelRouteSpec => []HeldInv
<1>1. ModelRouteInit => HeldInv
  <2> SUFFICES ASSUME ModelRouteInit PROVE HeldInv
    OBVIOUS
  <2>1. /\ \A r \in RouteObjects : routeApi[r] = NoObject /\ routeCache[r] = NoObject
        /\ ~Working /\ DOMAIN matchRouteRegistry = {}
    BY DEF ModelRouteInit, RegistryInit, Working, IdleWork
  <2>2. QED
    BY <2>1 DEF HeldInv, Trails, Held, Named, NamedAs
<1>2. RouteInv /\ HeldInv /\ [ModelRouteNext]_modelRouteVars => HeldInv'
  BY HeldSteps
<1>3. QED
  BY <1>1, <1>2, RouteInvariant, PTL DEF ModelRouteSpec

(* A match route is registered only while the ModelRoute it was made from  *)
(* exists, or under a name that ModelRoute was edited away from: for any   *)
(* number of ModelRoutes, whether or not they share model names, with      *)
(* stale caches, conflicts, errors and restarts anywhere.                  *)
THEOREM NoRouteIsOrphaned == ModelRouteSpec => []NoOrphanRoute
<1>1. HeldInv => NoOrphanRoute
  BY DEF HeldInv, NoOrphanRoute, RouteExists, Held, Justified, JustifiedAs
<1>2. QED
  BY <1>1, HeldInvariant, PTL

(* Once no ModelRoute names a model, and none was edited away from it, the *)
(* base route of its backend serves it: no match route is left over to     *)
(* hide it, and the slice is current.                                      *)
THEOREM BaseRoutesComeToLight == ModelRouteSpec => []BaseRouteComesToLight
<1>1. ASSUME MergedInv, HeldInv, NEW m \in DOMAIN routeRegistry,
             \A r \in RouteObjects :
               (RouteExists(r) => routeApi[r].spec.model # m) /\ m \notin leftModel[r]
      PROVE  routeRegistry[m] \in MatchRoute(m)
  <2>1. m \notin DOMAIN matchRouteRegistry
    BY <1>1 DEF HeldInv, Held, RouteExists, Justified, JustifiedAs
  <2>2. routeRegistry[m] \in routes
    BY <1>1, <2>1 DEF MergedInv, RoutesAreMerged, mergeRoutes
  <2>3. routeRegistry[m].name = m /\ routeRegistry[m].targets # <<>>
    BY <1>1 DEF MergedInv, NamedByKey, InitDirectModelRoute
  <2>4. QED
    BY <2>2, <2>3 DEF MatchRoute, Match
<1>2. MergedInv /\ HeldInv => BaseRouteComesToLight
  BY <1>1 DEF BaseRouteComesToLight
<1>3. QED
  BY <1>2, SliceInvariant, HeldInvariant, PTL

-----------------------------------------------------------------------------
(* HealthyRouteIsCurrent: what is registered agrees with the worker's      *)
(* progress, and only an object that no event is waiting for comes to rest.*)

(* Every target that has a backend is among the clusters of the route.     *)
LEMMA TargetsAreKept ==
  ASSUME NEW targets, NEW n \in Nat, DOMAIN targets = 1..n,
         NEW p \in 1..n, BackendExists(targets[p].key)
  PROVE  \E i \in DOMAIN mapModelRouteTargetsToBackends(targets) :
           mapModelRouteTargetsToBackends(targets)[i] = BackendModelOf[targets[p].key]
<1> DEFINE found   == {q \in DOMAIN targets : BackendExists(targets[q].key)}
           Upto(q) == {x \in found : x <= q}
           Rank(q) == Cardinality(Upto(q))
           Nth(i)  == CHOOSE q \in found : Rank(q) = i
<1>1. /\ \A i \in 1..Cardinality(found) :
           mapModelRouteTargetsToBackends(targets)[i] = BackendModelOf[targets[Nth(i)].key]
      /\ DOMAIN mapModelRouteTargetsToBackends(targets) = 1..Cardinality(found)
  BY DEF mapModelRouteTargetsToBackends
<1>2. found \subseteq 1..n /\ p \in found
  OBVIOUS
<1> HIDE DEF found
<1>3. IsFiniteSet(found)
  <2>1. IsFiniteSet(1..n)
    BY FS_Interval
  <2>2. QED
    BY <1>2, <2>1, FS_Subset
<1>4. Cardinality(found) \in Nat
  BY <1>3, FS_CardinalityType
<1>5. ASSUME NEW q \in found
      PROVE  /\ q \in Int /\ Upto(q) \subseteq found /\ q \in Upto(q) /\ IsFiniteSet(Upto(q))
             /\ Rank(q) \in 1..Cardinality(found)
  <2>1. q \in Int /\ Upto(q) \subseteq found /\ q \in Upto(q)
    BY <1>2, <1>5
  <2> HIDE DEF Upto
  <2>2. IsFiniteSet(Upto(q)) /\ Cardinality(Upto(q)) <= Cardinality(found)
    BY <1>3, <2>1, FS_Subset
  <2>3. Cardinality(Upto(q)) \in Nat /\ Cardinality(Upto(q)) # 0
    BY <2>1, <2>2, FS_CardinalityType, FS_EmptySet
  <2>4. QED
    BY <1>4, <2>1, <2>2, <2>3
<1>6. ASSUME NEW q \in found, NEW x \in found, q < x PROVE Rank(q) # Rank(x)
  <2>1. Upto(q) \subseteq Upto(x) /\ x \in Upto(x) /\ x \notin Upto(q)
    <3>1. q \in Int /\ x \in Int /\ \A y \in found : y \in Int
      BY <1>2
    <3>2. \A y \in found : y <= q => y <= x
      BY <1>6, <3>1
    <3>3. x <= x /\ ~(x <= q)
      BY <1>6, <3>1
    <3>4. QED
      BY <3>2, <3>3
  <2>2. IsFiniteSet(Upto(x))
    BY <1>5
  <2> HIDE DEF Upto
  <2>3. QED
    BY <2>1, <2>2, FS_Subset
<1> HIDE DEF Rank
<1>7. Nth(Rank(p)) = p
  <2>1. \A q \in found : Rank(q) = Rank(p) => q = p
    BY <1>2, <1>5, <1>6
  <2>2. QED
    BY <1>2, <2>1
<1>8. Rank(p) \in 1..Cardinality(found)
  BY <1>2, <1>5
<1> HIDE DEF Nth
<1>9. QED
  BY <1>1, <1>7, <1>8

(* A step of the worker at r touches only the routes of names r has had.   *)
SameElsewhere(r) ==
  \A m : m \notin hadModel[r] =>
    /\ m \in DOMAIN matchRouteRegistry' <=> m \in DOMAIN matchRouteRegistry
    /\ m \in DOMAIN matchRouteRegistry => matchRouteRegistry'[m] = matchRouteRegistry[m]

LEMMA StepStaysHome ==
  ASSUME RouteInv, WorkStep
  PROVE  SameElsewhere(work.key)
<1> DEFINE model == work.obj.spec.model
<1>1. \/ matchRouteRegistry' = matchRouteRegistry
      \/ \E v : matchRouteRegistry' = Insert(matchRouteRegistry, model, v)
      \/ matchRouteRegistry' = Delete(matchRouteRegistry, model)
  <2>1. CASE reconcileRegister
    BY <2>1 DEF reconcileRegister, RegisterMatchRouteWithConfig, RemoveMatchRoute, registryVars
  <2>2. CASE reconcileDeleteRegister
    BY <2>2 DEF reconcileDeleteRegister, RemoveMatchRoute
  <2>3. CASE \/ reconcileRouteConfig \/ reconcileRouteValidator \/ reconcileDestinationHealthy
             \/ reconcileRouteFinalDelete \/ UpdateRouteStatus
    BY <2>3 DEF reconcileRouteConfig, reconcileRouteValidator, reconcileDestinationHealthy,
                reconcileRouteFinalDelete, UpdateRouteStatus, registryVars
  <2>4. QED
    BY <2>1, <2>2, <2>3 DEF WorkStep
<1>2. model \in hadModel[work.key]
  <2>1. Working
    BY StepIsOwn DEF OwnStep
  <2>2. work.obj \in RouteObject /\ Dated(work.key, work.obj)
    BY <2>1, WorkFacts DEF RouteInv
  <2>3. QED
    BY <2>2, ObjectFacts DEF Dated
<1> HIDE DEF model
<1>3. QED
  BY <1>1, <1>2 DEF SameElsewhere, Insert, Delete

-----------------------------------------------------------------------------
(* How far the worker has come after each of its steps.                    *)

LEMMA TurnProgress ==
  ASSUME NEW pc \in Places, NEW obj, NEW cond, NEW states, Turn(pc, obj, cond, states),
         cond = NoCond => /\ pc # "register"
                          /\ pc = "status" => isModelRouteDeleted(obj)
  PROVE  Progress'
BY DEF Turn, Progress, isModelRouteDeleted

LEMMA HealthyProgress ==
  ASSUME RouteInv, reconcileDestinationHealthy
  PROVE  Progress'
<1> DEFINE targets == getModelRouteTargets(work.key, work.obj.spec)
           states == [i \in DOMAIN targets |-> TargetState(targets[i].key)]
<1>1. RouteTypeOK /\ Working /\ work.pc = "destinationHealthy" /\ backend' = backend
  BY DEF RouteInv, reconcileDestinationHealthy, WorkAt, Working
<1>2. work.key \in RouteObjects /\ work.obj.spec \in RouteSpecs
  BY <1>1, WorkFacts, ObjectFacts
<1>3. CASE work' = [work EXCEPT !.pc = "register", !.targets = states]
  <2>1. PICK t : t = states
    OBVIOUS
  <2>2. Turn("register", work.obj, work.cond, t) /\ t \in TargetStates
    BY <1>1, <1>3, <2>1, HealthyTurns
  <2>3. PICK r, spec : r = work.key /\ spec = work.obj.spec
    OBVIOUS
  <2>4. /\ spec.targets \in Seq([namespace : STRING, backend : STRING, weight : Seq(Int)])
        /\ DOMAIN getModelRouteTargets(r, spec) = 1..Len(spec.targets)
    BY <1>1, <1>2, <2>3, TargetFacts
  <2>5. Len(t) = Len(spec.targets)
    <3>1. DOMAIN t = 1..Len(spec.targets)
      BY <2>1, <2>3, <2>4
    <3>2. Len(spec.targets) \in Nat
      BY <2>4
    <3>3. QED
      BY <2>2, <3>1, <3>2 DEF TargetStates
  <2>6. ASSUME NEW i \in DOMAIN t
        PROVE  /\ t[i].backend = getModelRouteTargets(r, spec)[i].key
               /\ t[i].status # "Failed" => BackendExists(t[i].backend)
    <3>1. t[i] = TargetState(getModelRouteTargets(r, spec)[i].key)
      BY <2>1, <2>3, <2>6
    <3>2. QED
      BY <3>1 DEF TargetState
  <2>7. Looked(r, spec, t)
    BY <2>5, <2>6 DEF Looked
  <2>8. Looked(r, spec, t)'
    BY <1>1, <2>7 DEF Looked, BackendExists
  <2>9. QED
    BY <2>2, <2>3, <2>8 DEF Progress, Turn, Looked
<1>4. CASE WorkFails("destinationHealthy")
  <2>1. "destinationHealthy" \in Conds /\ "destinationHealthy" # NoCond /\ "status" \in Places
    BY NoCondIsNone DEF Conds, Handlers, Places
  <2>2. Turn("status", work.obj, "destinationHealthy", work.targets)
    BY <1>1, <1>4, <2>1, FailTurns
  <2>3. QED
    BY <2>1, <2>2, TurnProgress
<1>5. QED
  BY <1>3, <1>4 DEF reconcileDestinationHealthy

(* The second lookup finds what the first one found and nobody deletes.    *)
LEMMA RegisterProgress ==
  ASSUME RouteInv, CurrentInv, reconcileRegister
  PROVE  Progress'
<1> PICK r, spec, gen, states :
      r = work.key /\ spec = work.obj.spec /\ gen = work.obj.gen /\ states = work.targets
  OBVIOUS
<1> DEFINE targets == getModelRouteTargets(r, spec)
           led     == mapModelRouteTargetsToBackends(targets)
           model   == spec.model
<1>1. RouteTypeOK /\ Working /\ work.pc = "register" /\ work.cond = NoCond
  BY DEF RouteInv, reconcileRegister, WorkAt, Working, Staged
<1>2. r \in RouteObjects /\ spec \in RouteSpecs /\ states \in TargetStates
  BY <1>1, WorkFacts, ObjectFacts
<1>3. CASE RegisterMatchRouteWithConfig(model, led, [owner |-> r, gen |-> gen]) /\ WorkGoto("status")
  <2>1. "status" \in Places
    BY DEF Places
  <2>2. Turn("status", work.obj, work.cond, work.targets)
    BY <1>1, <1>3, <2>1, GotoTurns
  <2>3. Looked(r, spec, states)
    BY <1>1 DEF CurrentInv, Progress
  <2>4. /\ model \in DOMAIN matchRouteRegistry'
        /\ matchRouteRegistry'[model] = NewRoute(model, led, [owner |-> r, gen |-> gen])
    <3> HIDE DEF model, led
    <3>1. QED
      BY <1>3 DEF RegisterMatchRouteWithConfig, Insert
  <2>5. /\ matchRouteRegistry'[model].cfg = [owner |-> r, gen |-> gen]
        /\ matchRouteRegistry'[model].targets = led
    <3> HIDE DEF model, led
    <3>1. QED
      BY <2>4 DEF NewRoute
  <2>6. RegisteredFrom(r, model, gen)'
    BY <2>4, <2>5 DEF RegisteredFrom
  <2>7. /\ DOMAIN targets = 1..Len(spec.targets) /\ Len(spec.targets) \in Nat
        /\ DOMAIN states = 1..Len(spec.targets) /\ Len(states) = Len(spec.targets)
    <3>1. DOMAIN states = 1..Len(states)
      BY <1>2 DEF TargetStates
    <3>2. QED
      BY <1>1, <1>2, <2>3, <3>1, TargetFacts DEF Looked
  <2>8. ASSUME NEW i \in DOMAIN states, states[i].status # "Failed",
               states[i].backend \notin Removable
        PROVE  LeadsFrom(model, states[i].backend)'
    <3>1. states[i].backend = targets[i].key /\ BackendExists(targets[i].key)
      BY <2>3, <2>8 DEF Looked
    <3> HIDE DEF targets
    <3>2. \E j \in DOMAIN led : led[j] = BackendModelOf[targets[i].key]
      BY <2>7, <2>8, <3>1, TargetsAreKept
    <3> HIDE DEF led
    <3>3. QED
      BY <2>5, <3>1, <3>2 DEF LeadsFrom
  <2>9. AllLead(model, states)'
    BY <2>8 DEF AllLead
  <2>10. QED
    BY <2>2, <2>6, <2>7, <2>9 DEF Progress, Turn, RegisteredFrom, AllLead, LeadsFrom
<1>4. CASE WorkFails("register")
  <2>1. "register" \in Conds /\ "register" # NoCond /\ "status" \in Places
    BY NoCondIsNone DEF Conds, Handlers, Places
  <2>2. Turn("status", work.obj, "register", work.targets)
    BY <1>1, <1>4, <2>1, FailTurns
  <2>3. QED
    BY <2>1, <2>2, TurnProgress
<1>5. QED
  BY <1>3, <1>4 DEF reconcileRegister

LEMMA StepProgress ==
  ASSUME RouteInv, CurrentInv, WorkStep
  PROVE  Progress'
<1>1. Working /\ RouteTypeOK
  BY StepIsOwn DEF OwnStep, RouteInv
<1>2. work.obj \in RouteObject /\ work.cond \in Conds /\ Staged(work) /\ work \in Busy
  BY <1>1, WorkFacts DEF RouteInv
<1>3. NoCond \notin {"config", "validator", "finalDelete", "finalDeleteConflict"}
  BY NoCondIsNone DEF Handlers
<1>4. /\ \A p \in {"deleteRegister", "destinationHealthy", "finalDelete", "status"} : p \in Places
      /\ \A c \in {NoCond, "validator", "finalDelete", "finalDeleteConflict"} : c \in Conds
  BY DEF Places, Conds, Handlers
<1>5. CASE reconcileRouteConfig
  <2>1. \/ work'.pc \in {"deleteRegister", "validator"}
        \/ work'.pc = "status" /\ work'.cond = "config"
    BY <1>2, <1>5 DEF reconcileRouteConfig, WorkGoto, WorkFails, Busy
  <2>2. QED
    BY <1>3, <2>1 DEF Progress
<1>6. CASE reconcileRouteValidator
  <2>1. \/ Turn("destinationHealthy", work.obj, work.cond, work.targets)
        \/ Turn("status", work.obj, "validator", work.targets)
    BY <1>1, <1>4, <1>6, GotoTurns, FailTurns DEF reconcileRouteValidator
  <2>2. QED
    BY <1>3, <1>4, <2>1, TurnProgress
<1>7. CASE reconcileDestinationHealthy
  BY <1>7, HealthyProgress
<1>8. CASE reconcileRegister
  BY <1>8, RegisterProgress
<1>9. CASE reconcileDeleteRegister
  <2>1. Turn("finalDelete", work.obj, work.cond, work.targets)
    BY <1>1, <1>4, <1>9, GotoTurns DEF reconcileDeleteRegister
  <2>2. QED
    BY <1>4, <2>1, TurnProgress
<1>10. CASE reconcileRouteFinalDelete
  <2>1. isModelRouteDeleted(work.obj)
    BY <1>2, <1>10 DEF reconcileRouteFinalDelete, WorkAt, Staged
  <2>2. \E c \in Conds : Turn("status", work.obj, c, work.targets)
    <3>1. CASE WorkGoto("status")
      BY <1>1, <1>2, <1>4, <3>1, GotoTurns
    <3>2. CASE \E c \in {NoCond, "finalDelete", "finalDeleteConflict"} : WorkFails(c)
      <4>1. PICK c \in {NoCond, "finalDelete", "finalDeleteConflict"} : WorkFails(c)
        BY <3>2
      <4>2. c \in Conds
        BY <1>4, <4>1
      <4>3. QED
        BY <1>1, <4>1, <4>2, FailTurns
    <3>3. QED
      BY <1>10, <3>1, <3>2 DEF reconcileRouteFinalDelete
  <2>3. QED
    BY <1>4, <2>1, <2>2, TurnProgress
<1>11. CASE UpdateRouteStatus
  <2>1. work' = IdleWork
    BY <1>11 DEF UpdateRouteStatus
  <2>2. QED
    BY <2>1 DEF Progress, Working, IdleWork
<1>12. QED
  BY <1>5, <1>6, <1>7, <1>8, <1>9, <1>10, <1>11 DEF WorkStep

(* Only the last step makes the worker idle.                               *)
LEMMA StepBusy ==
  ASSUME RouteInv, WorkStep, ~UpdateRouteStatus
  PROVE  Working'
<1>1. work \in Busy
  BY StepIsOwn, WorkFacts DEF OwnStep, RouteInv
<1>2. work'.pc # "idle"
  BY <1>1 DEF WorkStep, reconcileRouteConfig, reconcileRouteValidator, reconcileDestinationHealthy,
              reconcileRegister, reconcileDeleteRegister, reconcileRouteFinalDelete, WorkGoto,
              WorkFails, Busy
<1>3. QED
  BY <1>2 DEF Working

-----------------------------------------------------------------------------
(* CurrentInv, step by step.                                               *)

(* What is at rest after a step was at rest before it and is still reached.*)
LEMMA RestStays ==
  ASSUME NEW s \in RouteObjects, RestIsCurrent(s), routeApi'[s] = routeApi[s],
         \A t \in RouteObjects : hadModel[t] \subseteq hadModel'[t],
         AtRest(s)' => AtRest(s), SoleRoute(s) /\ Reached(s) => Reached(s)'
  PROVE  RestIsCurrent(s)'
BY DEF RestIsCurrent, RouteExists, isModelRouteDeleted, SoleRoute

(* The route of one ModelRoute as it was, the ModelRoute too.              *)
LEMMA StillReached ==
  ASSUME NEW s, routeApi'[s] = routeApi[s], Reached(s),
         NEW m, m = routeApi[s].spec.model,
         m \in DOMAIN matchRouteRegistry =>
           /\ m \in DOMAIN matchRouteRegistry'
           /\ matchRouteRegistry'[m] = matchRouteRegistry[m]
  PROVE  Reached(s)'
<1>1. m \in DOMAIN matchRouteRegistry /\ routeApi'[s].spec.model = m
  BY DEF Reached, RegisteredFrom
<1>2. RegisteredFrom(s, routeApi[s].spec.model, routeApi[s].gen)'
  BY <1>1 DEF Reached, RegisteredFrom
<1>3. \A b : LeadsFrom(m, b) => LeadsFrom(m, b)'
  BY <1>1 DEF LeadsFrom
<1>4. QED
  BY <1>1, <1>2, <1>3 DEF Reached

(* With the match routes as they were.                                     *)
LEMMA NothingUnreached ==
  ASSUME NEW s, routeApi'[s] = routeApi[s], matchRouteRegistry' = matchRouteRegistry
  PROVE  Reached(s) => Reached(s)'
<1>1. PICK m : m = routeApi[s].spec.model
  OBVIOUS
<1>2. QED
  BY <1>1, StillReached

LEMMA EditedCurrent ==
  ASSUME RouteInv, CurrentInv, NEW r \in RouteObjects, NEW o, Edited(r, o)
  PROVE  CurrentInv'
<1>1. /\ routeApi \in [RouteObjects -> Stored] /\ routeApi' = [routeApi EXCEPT ![r] = o]
      /\ Dated(r, routeCache[r])
      /\ UNCHANGED <<routeCache, routeQueue, work, backend, matchRouteRegistry>>
      /\ \A t \in RouteObjects : hadModel[t] \subseteq hadModel'[t]
  BY EditedHistory DEF RouteInv, RouteTypeOK, Edited, registryVars
<1>2. Progress'
  BY <1>1 DEF CurrentInv, Progress, Working, Looked, BackendExists, RegisteredFrom, AllLead, LeadsFrom,
              isModelRouteDeleted
<1>3. RestIsCurrent(r)'
  <2>1. routeApi'[r] = o
    BY <1>1
  <2>2. CASE o = NoObject
    BY <2>1, <2>2 DEF RestIsCurrent, RouteExists
  <2>3. CASE o # NoObject
    <3>1. routeCache[r] # o
      <4>1. spent.edits \in Int /\ (o.gen = spent.edits \/ o.deletedAt = spent.edits)
        BY <2>3 DEF Edited
      <4>2. QED
        BY <1>1, <2>3, <4>1 DEF Dated
    <3>2. QED
      BY <1>1, <2>1, <3>1 DEF RestIsCurrent, AtRest
  <2>4. QED
    BY <2>2, <2>3
<1>4. ASSUME NEW s \in RouteObjects, s # r PROVE RestIsCurrent(s)'
  <2>1. routeApi'[s] = routeApi[s]
    BY <1>1, <1>4
  <2>2. AtRest(s)' => AtRest(s)
    BY <1>1, <2>1 DEF AtRest, Working
  <2>3. Reached(s) => Reached(s)'
    BY <1>1, <2>1, NothingUnreached
  <2>4. QED
    BY <1>1, <2>1, <2>2, <2>3, RestStays DEF CurrentInv
<1>5. QED
  BY <1>2, <1>3, <1>4 DEF CurrentInv

LEMMA DeliverCurrent ==
  ASSUME RouteInv, CurrentInv, NEW r \in RouteObjects, DeliverRoute(r)
  PROVE  CurrentInv'
<1>1. /\ routeCache \in [RouteObjects -> Stored]
      /\ routeCache' = [routeCache EXCEPT ![r] = routeApi[r]] /\ routeQueue' = routeQueue \cup {r}
      /\ UNCHANGED <<routeApi, work, backend, matchRouteRegistry, hadModel>>
  BY DEF RouteInv, RouteTypeOK, DeliverRoute, registryVars, routeHistory
<1>2. Progress'
  BY <1>1 DEF CurrentInv, Progress, Working, Looked, BackendExists, RegisteredFrom, AllLead, LeadsFrom,
              isModelRouteDeleted
<1>3. ASSUME NEW s \in RouteObjects PROVE RestIsCurrent(s)'
  <2>1. CASE s = r
    BY <1>1, <2>1 DEF RestIsCurrent, AtRest
  <2>2. CASE s # r
    <3>1. routeCache'[s] = routeCache[s]
      BY <1>1, <2>2
    <3>2. AtRest(s)' => AtRest(s)
      BY <1>1, <3>1 DEF AtRest, Working
    <3>3. Reached(s) => Reached(s)'
      BY <1>1, NothingUnreached
    <3>4. QED
      BY <1>1, <3>2, <3>3, RestStays DEF CurrentInv
  <2>3. QED
    BY <2>1, <2>2
<1>4. QED
  BY <1>2, <1>3 DEF CurrentInv

LEMMA BeginCurrent ==
  ASSUME RouteInv, CurrentInv, NEW r \in RouteObjects, BeginRoute(r)
  PROVE  CurrentInv'
<1>1. /\ UNCHANGED <<routeApi, routeCache, backend, matchRouteRegistry, hadModel>>
      /\ routeQueue' = routeQueue \ {r} /\ ~Working
  BY BeginFacts DEF registryVars
<1>2. Progress'
  <2>1. CASE routeCache[r] = NoObject
    BY <1>1, <2>1, BeginFacts DEF Progress, Working
  <2>2. CASE routeCache[r] # NoObject
    BY <2>2, BeginFacts DEF Progress
  <2>3. QED
    BY <2>1, <2>2
<1>3. ASSUME NEW s \in RouteObjects PROVE RestIsCurrent(s)'
  <2>1. CASE s = r
    <3>1. CASE routeCache[r] = NoObject
      BY <1>1, <2>1, <3>1 DEF RestIsCurrent, AtRest, RouteExists
    <3>2. CASE routeCache[r] # NoObject
      BY <2>1, <3>2, BeginFacts DEF RestIsCurrent, AtRest, Working
    <3>3. QED
      BY <3>1, <3>2
  <2>2. CASE s # r
    <3>1. AtRest(s)' => AtRest(s)
      BY <1>1, <2>2 DEF AtRest
    <3>2. Reached(s) => Reached(s)'
      BY <1>1, NothingUnreached
    <3>3. QED
      BY <1>1, <3>1, <3>2, RestStays DEF CurrentInv
  <2>3. QED
    BY <2>1, <2>2
<1>4. QED
  BY <1>2, <1>3 DEF CurrentInv

(* A backend that is not Removable never goes once it is there.            *)
LEMMA BackendEventCurrent ==
  ASSUME RouteInv, CurrentInv, NEW b \in BackendKeys, BackendEvent(b)
  PROVE  CurrentInv'
<1>1. UNCHANGED <<routeApi, routeCache, routeQueue, work, matchRouteRegistry, hadModel>>
  BY DEF BackendEvent, RegisterBaseRouteWithConfig, RemoveBaseRoute, registryVars, routeHistory
<1>2. ASSUME NEW key, key \notin Removable, BackendExists(key) PROVE BackendExists(key)'
  <2>1. backend \in [BackendKeys -> Phases \cup {"absent"}]
    BY DEF RouteInv, RouteTypeOK
  <2>2. CASE key = b
    BY <1>2, <2>1, <2>2 DEF BackendEvent, BackendExists
  <2>3. CASE key # b
    BY <1>2, <2>1, <2>3 DEF BackendEvent, BackendExists
  <2>4. QED
    BY <2>2, <2>3
<1>3. Progress'
  BY <1>1, <1>2 DEF CurrentInv, Progress, Working, Looked, RegisteredFrom, AllLead, LeadsFrom,
                    isModelRouteDeleted
<1>4. ASSUME NEW s \in RouteObjects PROVE RestIsCurrent(s)'
  <2>1. AtRest(s)' => AtRest(s)
    BY <1>1 DEF AtRest, Working
  <2>2. Reached(s) => Reached(s)'
    BY <1>1, NothingUnreached
  <2>3. QED
    BY <1>1, <2>1, <2>2, RestStays DEF CurrentInv
<1>5. QED
  BY <1>3, <1>4 DEF CurrentInv

LEMMA RestartCurrent ==
  ASSUME RestartRoutes
  PROVE  CurrentInv'
<1>1. Progress'
  BY DEF RestartRoutes, Progress, Working, IdleWork
<1>2. ASSUME NEW r \in RouteObjects PROVE RestIsCurrent(r)'
  BY DEF RestartRoutes, RestIsCurrent, AtRest, RouteExists
<1>3. QED
  BY <1>1, <1>2 DEF CurrentInv

(* A Reconcile leaves its object at rest as Healthy only when no handler   *)
(* and no target failed, the last event is the one it has seen, and the    *)
(* status is the one it came to.                                           *)
LEMMA StatusSettles ==
  ASSUME RouteInv, UpdateRouteStatus, NEW r, r = work.key,
         RouteExists(r)', AtRest(r)', ~isModelRouteDeleted(routeApi'[r]),
         routeApi'[r].status.phase = "Healthy"
  PROVE  /\ SameSpec(routeApi'[r], work.obj) /\ routeApi'[r].status.targets = work.targets
         /\ work.cond = NoCond /\ ~isModelRouteDeleted(work.obj)
         /\ \A i \in DOMAIN work.targets : work.targets[i].status # "Failed"
<1>1. Working /\ routeCache' = routeCache /\ RouteTypeOK
  BY DEF UpdateRouteStatus, WorkAt, Working, RouteInv
<1>2. Copied(work) /\ r \in RouteObjects
  BY <1>1, WorkFacts DEF RouteInv
<1>3. routeCache[r] = routeApi'[r] /\ r \notin routeQueue' /\ routeApi'[r] # NoObject
  BY <1>1 DEF AtRest, RouteExists
<1>4. r \notin routeQueue
  BY <1>3 DEF UpdateRouteStatus
<1>5. SameSpec(routeCache[r], work.obj)
  BY <1>2, <1>4 DEF Copied
<1>6. ~isModelRouteDeleted(work.obj)
  BY <1>3, <1>5 DEF SameSpec, isModelRouteDeleted
<1>7. routeCache[r].status = NewRouteStatus
  <2> SUFFICES ASSUME routeCache[r].status # NewRouteStatus PROVE FALSE
    OBVIOUS
  <2>1. \/ /\ routeApi[r] = routeCache[r]
           /\ routeApi' = [routeApi EXCEPT ![r].status = NewRouteStatus]
        \/ routeApi[r] = NoObject /\ routeApi' = routeApi
        \/ routeQueue' = routeQueue \cup {r}
    BY <1>3 DEF UpdateRouteStatus
  <2>2. CASE /\ routeApi[r] = routeCache[r]
             /\ routeApi' = [routeApi EXCEPT ![r].status = NewRouteStatus]
    <3>1. routeApi[r] \in RouteObject /\ routeApi \in [RouteObjects -> Stored]
      BY <1>1, <1>2, <1>3, <2>2 DEF RouteTypeOK, Stored
    <3>2. routeApi'[r].status = NewRouteStatus
      BY <1>2, <2>2, <3>1 DEF RouteObject
    <3>3. QED
      BY <1>3, <3>2
  <2>3. QED
    BY <1>3, <2>1, <2>2
<1>8. NewRouteStatus.phase = "Healthy" /\ NewRouteStatus.targets = work.targets
  BY <1>3, <1>7 DEF NewRouteStatus
<1>9. reconcileModelRoutePhase(work.cond, work.targets, isModelRouteDeleted(work.obj)) = "Healthy"
  BY <1>8 DEF NewRouteStatus
<1>10. work.cond = NoCond /\ \A i \in DOMAIN work.targets : work.targets[i].status # "Failed"
  BY <1>6, <1>9 DEF reconcileModelRoutePhase
<1>11. QED
  BY <1>3, <1>5, <1>6, <1>7, <1>8, <1>10

LEMMA StatusCurrent ==
  ASSUME RouteInv, CurrentInv, UpdateRouteStatus, NEW r, r = work.key
  PROVE  RestIsCurrent(r)'
<1> SUFFICES ASSUME RouteExists(r)', AtRest(r)', ~isModelRouteDeleted(routeApi'[r]),
                    routeApi'[r].status.phase = "Healthy"
             PROVE  Reached(r)'
  BY DEF RestIsCurrent, isModelRouteDeleted
<1>1. Working /\ work.pc = "status" /\ matchRouteRegistry' = matchRouteRegistry
  BY DEF UpdateRouteStatus, WorkAt, Working, registryVars
<1>2. /\ SameSpec(routeApi'[r], work.obj) /\ routeApi'[r].status.targets = work.targets
      /\ work.cond = NoCond /\ ~isModelRouteDeleted(work.obj)
      /\ \A i \in DOMAIN work.targets : work.targets[i].status # "Failed"
  BY StatusSettles
<1> PICK m : m = work.obj.spec.model
  OBVIOUS
<1>3. /\ RegisteredFrom(r, m, work.obj.gen) /\ Len(work.targets) = Len(work.obj.spec.targets)
      /\ AllLead(m, work.targets) /\ routeApi'[r].spec.model = m
  BY <1>1, <1>2 DEF CurrentInv, Progress, SameSpec
<1>4. \A b : LeadsFrom(m, b) => LeadsFrom(m, b)'
  BY <1>1 DEF LeadsFrom
<1>5. RegisteredFrom(r, routeApi[r].spec.model, routeApi[r].gen)'
  BY <1>1, <1>2, <1>3 DEF RegisteredFrom, SameSpec
<1>6. Len(routeApi'[r].status.targets) = Len(routeApi'[r].spec.targets)
  BY <1>2, <1>3 DEF SameSpec
<1>7. \A i \in DOMAIN routeApi'[r].status.targets :
        routeApi'[r].status.targets[i].backend \notin Removable
          => LeadsFrom(routeApi[r].spec.model, routeApi[r].status.targets[i].backend)'
  BY <1>2, <1>3, <1>4 DEF AllLead
<1>8. QED
  BY <1>5, <1>6, <1>7 DEF Reached

LEMMA StepCurrent ==
  ASSUME RouteInv, CurrentInv, WorkStep
  PROVE  CurrentInv'
<1> PICK r : r = work.key
  OBVIOUS
<1>1. OwnStep /\ SameElsewhere(r) /\ Progress' /\ hadModel' = hadModel
  BY StepIsOwn, StepStaysHome, StepProgress, StepKeepsHistory
<1>2. /\ Working /\ r \in RouteObjects /\ routeCache' = routeCache
      /\ routeQueue \subseteq routeQueue'
      /\ \A s \in RouteObjects \ {r} : routeApi'[s] = routeApi[s]
  BY <1>1, WorkFacts DEF OwnStep, RouteInv
<1>3. ASSUME NEW s \in RouteObjects, s # r PROVE RestIsCurrent(s)'
  <2>1. routeApi'[s] = routeApi[s]
    BY <1>2, <1>3
  <2>2. AtRest(s)' => AtRest(s)
    BY <1>2, <1>3, <2>1 DEF AtRest
  <2>3. ASSUME SoleRoute(s), Reached(s) PROVE Reached(s)'
    <3>1. PICK m : m = routeApi[s].spec.model
      OBVIOUS
    <3>2. m \notin hadModel[r]
      BY <1>2, <1>3, <2>3, <3>1 DEF SoleRoute
    <3>3. QED
      BY <1>1, <2>1, <2>3, <3>1, <3>2, StillReached DEF SameElsewhere
  <2>4. QED
    BY <1>1, <2>1, <2>2, <2>3, RestStays DEF CurrentInv
<1>4. RestIsCurrent(r)'
  <2>1. CASE UpdateRouteStatus
    BY <2>1, StatusCurrent
  <2>2. CASE ~UpdateRouteStatus
    <3>1. Working' /\ work'.key = r
      BY <1>1, <2>2, StepBusy DEF OwnStep, Working, IdleWork
    <3>2. QED
      BY <3>1 DEF RestIsCurrent, AtRest
  <2>3. QED
    BY <2>1, <2>2
<1>5. QED
  BY <1>1, <1>3, <1>4 DEF CurrentInv

LEMMA CurrentSteps ==
  ASSUME RouteInv, CurrentInv, [ModelRouteNext]_modelRouteVars
  PROVE  CurrentInv'
<1>1. ASSUME NEW r \in RouteObjects, CreateRoute(r) \/ EditRouteSpec(r) \/ DeleteRoute(r)
      PROVE  CurrentInv'
  <2>1. PICK o : Edited(r, o)
    BY <1>1, CreateEdits, EditSpecEdits, DeleteEdits
  <2>2. QED
    BY <2>1, EditedCurrent
<1>2. ASSUME NEW r \in RouteObjects, DeliverRoute(r) PROVE CurrentInv'
  BY <1>2, DeliverCurrent
<1>3. ASSUME NEW r \in RouteObjects, BeginRoute(r) PROVE CurrentInv'
  BY <1>3, BeginCurrent
<1>4. ASSUME NEW b \in BackendKeys, BackendEvent(b) PROVE CurrentInv'
  BY <1>4, BackendEventCurrent
<1>5. CASE WorkStep
  BY <1>5, StepCurrent
<1>6. ASSUME UNCHANGED <<routeApi, routeCache, routeQueue, work, backend, matchRouteRegistry, hadModel>>
      PROVE  CurrentInv'
  <2>1. Progress'
    BY <1>6 DEF CurrentInv, Progress, Working, Looked, BackendExists, RegisteredFrom, AllLead,
                LeadsFrom, isModelRouteDeleted
  <2>2. ASSUME NEW s \in RouteObjects PROVE RestIsCurrent(s)'
    <3>1. AtRest(s)' => AtRest(s)
      BY <1>6 DEF AtRest, Working
    <3>2. Reached(s) => Reached(s)'
      BY <1>6, NothingUnreached
    <3>3. QED
      BY <1>6, <3>1, <3>2, RestStays DEF CurrentInv
  <2>3. QED
    BY <2>1, <2>2 DEF CurrentInv
<1>7. CASE RouteGraceEnds
  BY <1>6, <1>7 DEF RouteGraceEnds, registryVars, routeHistory
<1>8. CASE RestartRoutes
  BY <1>8, RestartCurrent
<1>9. CASE UNCHANGED modelRouteVars
  BY <1>6, <1>9 DEF modelRouteVars, routeControlVars, registryVars, routeHistory
<1>10. QED
  BY <1>1, <1>2, <1>3, <1>4, <1>5, <1>7, <1>8, <1>9 DEF ModelRouteNext

(* A ModelRoute whose status has come to rest as Healthy, and whose model  *)
(* no other ModelRoute has named so far, is registered from its current    *)
(* spec and leads to every backend its status reports and nobody deletes:  *)
(* for any number of ModelRoutes, whatever names the others share.  What   *)
(* the first of a Reconcile's two lookups reported the second one finds    *)
(* again, and whatever the cache learns meanwhile is queued.               *)
THEOREM HealthyRoutesAreCurrent == ModelRouteSpec => []HealthyRouteIsCurrent
<1>1. ModelRouteInit => CurrentInv
  BY DEF ModelRouteInit, CurrentInv, RestIsCurrent, Progress, RouteExists, Working, IdleWork
<1>2. RouteInv /\ CurrentInv /\ [ModelRouteNext]_modelRouteVars => CurrentInv'
  BY CurrentSteps
<1>3. RouteInv /\ CurrentInv => HealthyRouteIsCurrent
  <2> SUFFICES ASSUME RouteInv, CurrentInv, NEW r \in RouteObjects,
                      RouteExists(r), RouteSettled(r), SoleRoute(r),
                      ~isModelRouteDeleted(routeApi[r]),
                      routeApi[r].status.phase = "Healthy"
               PROVE  /\ Current(r)
                      /\ Len(routeApi[r].status.targets) = Len(routeApi[r].spec.targets)
                      /\ \A i \in DOMAIN routeApi[r].status.targets :
                           routeApi[r].status.targets[i].backend \notin Removable
                             => LeadsTo(r, routeApi[r].status.targets[i].backend)
    BY DEF HealthyRouteIsCurrent
  <2>1. AtRest(r)
    BY DEF RouteSettled, AtRest, Working, IdleWork
  <2>2. Reached(r)
    BY <2>1 DEF CurrentInv, RestIsCurrent
  <2>3. QED
    BY <2>2 DEF Reached, RegisteredFrom, Current, RegisteredFor, LeadsTo, LeadsFrom
<1>4. QED
  BY <1>1, <1>2, <1>3, RouteInvariant, PTL DEF ModelRouteSpec
============================================================================
