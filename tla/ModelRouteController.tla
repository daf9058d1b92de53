----------------------- MODULE ModelRouteController -----------------------
(***************************************************************************)
(* The controller that turns ModelRoute objects into match routes          *)
(* (internal/controller/modelroute_controller.go, the ModelRoute helpers   *)
(* of common.go, the backend lookup of backends.go), composed with the     *)
(* registry it writes.                                                     *)
(*                                                                         *)
(* External parts, modelled from how the controller uses them: the API     *)
(* server with its optimistic concurrency, the informer cache, the         *)
(* workqueue with its one worker, and the backends, whose own controllers  *)
(* BackendController models: here they come, get a base route, fail and go *)
(* between any two steps of a Reconcile.  This controller watches          *)
(* ModelRoutes only: no change of a backend queues a ModelRoute.           *)
(*                                                                         *)
(* Versions are compared by content; gen is new with every edit.  An       *)
(* optional field is the empty sequence or a sequence of its value.        *)
(***************************************************************************)
EXTENDS Registry

CONSTANTS
  RouteObjects,      \* ModelRoute objects, by namespace and name
  RouteNameOf,       \* [RouteObjects -> names]: metadata.name alone
  NamespaceOf,       \* [RouteObjects -> namespaces]
  RouteSpecs,        \* the specs users write (model, targets, filter, fallback)
  BackendKeys,       \* <<namespace, name>> of the backends there may be
  BackendModelOf,    \* [BackendKeys -> Models]: GetModelName
  Removable,         \* the backends users delete
  FailingRouteCalls, \* the calls that may fail although nothing conflicts
  MaxRouteEdits,     \* bound on what users do to ModelRoutes
  MaxRouteWrites,    \* only deletions come after this many edits
  MaxRouteFaults,    \* bound on failing calls and restarts of the gateway
  MaxBackendEvents,  \* bound on what happens to the backends
  MaxDisturbances,   \* bound on edits, faults and events of backends together
  BaseConfig         \* the configuration of backends' base routes

ASSUME ModelRouteAssumption ==
  /\ NamespaceOf \in [RouteObjects -> STRING]
  /\ \A s \in RouteSpecs :
       /\ s.model \in Models
       /\ s.targets \in Seq([namespace : STRING, backend : STRING, weight : Seq(Int)])
  /\ BackendModelOf \in [BackendKeys -> Models]
  /\ Removable \subseteq BackendKeys
  /\ FailingRouteCalls \subseteq {"config", "backends", "register", "finalDelete", "status"}
  /\ {MaxRouteEdits, MaxRouteWrites, MaxRouteFaults, MaxBackendEvents, MaxDisturbances}
       \subseteq Nat
  /\ BaseConfig \in Configs

VARIABLES
  routeApi,    \* the objects in the API server, NoObject or a RouteObject
  routeCache,  \* the informer's copy of them
  routeQueue,  \* the workqueue
  work,        \* the controller's worker
  backend,     \* the backends, as the cache has them: "absent" or a status
  spent,       \* how many edits, backend events and faults there were, and
               \* how many of the faults were those of a final update
  gracePast,   \* deletions made before this edit are past graceDeletePeriod
  hadModel,    \* history: the model names the spec of an object has had
  leftModel    \* history: those among them it was edited away from

routeHistory == <<hadModel, leftModel>>
routeControlVars ==
  <<routeApi, routeCache, routeQueue, work, backend, spent, gracePast, routeHistory>>
modelRouteVars == <<routeControlVars, registryVars>>

NoObject == [gen |-> -1]
Phases == {"Unknown", "Healthy", "Failed"}

(* Status: the failing handler of the last Reconcile ("" when none failed, *)
(* the conflict of finalDelete told from its other errors, as messages are *)
(* compared), the states of the targets and the phase.                     *)
NoCond == ""
NoRouteStatus == [cond |-> NoCond, deleted |-> FALSE, targets |-> <<>>, phase |-> "Unknown"]
IdleWork == [pc |-> "idle"]

isModelRouteDeleted(obj) == obj.deletedAt >= 0
shouldForceDeleteModelRoute(obj) == isModelRouteDeleted(obj) /\ obj.deletedAt < gracePast

-----------------------------------------------------------------------------
(* From the spec of a ModelRoute to its route.                             *)

(* A string of the spec that is not set.                                   *)
Unset == ""

(* getModelRouteTargets: the namespace of the route where the target names *)
(* none; without any weight every weight is 1.                             *)
getModelRouteTargets(r, spec) ==
  LET allUnset == \A i \in DOMAIN spec.targets : spec.targets[i].weight = <<>>
      NsOf(t) == IF t.namespace = Unset THEN NamespaceOf[r] ELSE t.namespace
      Convert(t) == [key |-> <<NsOf(t), t.backend>>,
                     weight |-> IF allUnset THEN <<1>> ELSE t.weight]
  IN [i \in DOMAIN spec.targets |-> Convert(spec.targets[i])]

(* getBackendFromNamespacedName, through mapCRDTargetsToBackends.          *)
BackendExists(key) == key \in BackendKeys /\ backend[key] # "absent"

(* Mutant of mapModelRouteTargetsToBackends: the first backend only.       *)
mapModelRouteTargetsToFirst(targets) ==
  LET found == SelectSeq(targets, LAMBDA t : BackendExists(t.key))
  IN [i \in DOMAIN found \cap {1} |-> BackendModelOf[found[i].key]]

(* mapModelRouteTargetsToBackends: a target without a backend is left out, *)
(* the others lead, in their order, to the cluster named after the         *)
(* backend's model.                                                        *)
mapModelRouteTargetsToBackends(targets) ==
  LET found   == {p \in DOMAIN targets : BackendExists(targets[p].key)}
      Rank(p) == Cardinality({q \in found : q <= p})
      Nth(i)  == CHOOSE p \in found : Rank(p) = i
  IN [i \in 1..Cardinality(found) |-> BackendModelOf[targets[Nth(i)].key]]

(* toRegisterRouteConfig: a filter of another type, or one without its     *)
(* rules, is an error.                                                     *)
ConfigOK(spec) == spec.filter \in {"none", "rateLimit"}

(* reconcileValidator, the spec: targets with a backend and weights that   *)
(* are all set or all unset and none negative; delays that are not         *)
(* negative, retries that are positive.                                    *)
SpecOK(spec) ==
  LET weights == {spec.targets[i].weight : i \in DOMAIN spec.targets}
      AtLeast(low, opt) == opt = <<>> \/ opt[1] >= low
  IN
  /\ \A i \in DOMAIN spec.targets : spec.targets[i].backend # Unset
  /\ \A w \in weights : AtLeast(0, w)
  /\ weights = {<<>>} \/ <<>> \notin weights
  /\ \A f \in spec.fallback :
       AtLeast(0, f.postDelay) /\ AtLeast(0, f.preDelay) /\ AtLeast(1, f.maxRetries)

(* Another ModelRoute of the cache has the model name; two objects with    *)
(* one metadata.name are taken for the same object.                        *)
ModelNameTaken(r, model) ==
  \E other \in RouteObjects :
    /\ routeCache[other] # NoObject
    /\ routeCache[other].spec.model = model
    /\ RouteNameOf[other] # RouteNameOf[r]

(* reconcileModelRoutePhase: a deleted route is healthy; else a handler    *)
(* that failed or a failed target makes it fail.                           *)
reconcileModelRoutePhase(cond, targets, deleted) ==
  IF ~deleted /\ (cond # NoCond \/ \E i \in DOMAIN targets : targets[i].status = "Failed")
  THEN "Failed" ELSE "Healthy"

Spare == spent.edits + spent.backends + spent.faults < MaxDisturbances

ModelRouteInit ==
  /\ RegistryInit
  /\ routeApi = [r \in RouteObjects |-> NoObject]
  /\ routeCache = routeApi
  /\ routeQueue = {}
  /\ work = IdleWork
  /\ backend = [b \in BackendKeys |-> "absent"]
  /\ spent = [edits |-> 0, backends |-> 0, faults |-> 0, lostDeletes |-> 0]
  /\ gracePast = 0
  /\ hadModel = [r \in RouteObjects |-> {}] /\ leftModel = hadModel

-----------------------------------------------------------------------------
(* Users, the API server and the backends.                                 *)

RenamesRoute(r, obj) ==
  routeApi[r] # NoObject /\ obj # NoObject /\ obj.spec.model # routeApi[r].spec.model

EditRoute(r, obj) ==
  /\ spent.edits < MaxRouteEdits /\ Spare
  /\ spent' = [spent EXCEPT !.edits = @ + 1]
  /\ routeApi' = [routeApi EXCEPT ![r] = obj]
  /\ hadModel' = [hadModel EXCEPT ![r] = IF obj = NoObject THEN @ ELSE @ \cup {obj.spec.model}]
  /\ leftModel' = [leftModel EXCEPT ![r] =
                     IF RenamesRoute(r, obj) THEN @ \cup {routeApi[r].spec.model} ELSE @]
  /\ UNCHANGED <<routeCache, routeQueue, work, backend, gracePast, registryVars>>

CreateRoute(r) ==
  /\ routeApi[r] = NoObject /\ spent.edits < MaxRouteWrites
  /\ \E s \in RouteSpecs :
       EditRoute(r, [spec |-> s, gen |-> spent.edits, finalizer |-> FALSE,
                     deletedAt |-> -1, status |-> NoRouteStatus])

EditRouteSpec(r) ==
  /\ routeApi[r] # NoObject /\ spent.edits < MaxRouteWrites
  /\ \E s \in RouteSpecs :
       EditRoute(r, [spec |-> s, gen |-> spent.edits, finalizer |-> routeApi[r].finalizer,
                     deletedAt |-> routeApi[r].deletedAt, status |-> routeApi[r].status])

DeleteRoute(r) ==
  /\ routeApi[r] # NoObject
  /\ ~isModelRouteDeleted(routeApi[r])
  /\ EditRoute(r, IF routeApi[r].finalizer THEN [routeApi[r] EXCEPT !.deletedAt = spent.edits]
                  ELSE NoObject)

DeliverRoute(r) ==
  /\ routeCache[r] # routeApi[r]
  /\ routeCache' = [routeCache EXCEPT ![r] = routeApi[r]]
  /\ routeQueue' = routeQueue \cup {r}
  /\ UNCHANGED <<routeApi, work, backend, spent, gracePast, routeHistory, registryVars>>

RouteGraceEnds ==
  /\ \E r \in RouteObjects : routeApi[r] # NoObject /\ routeApi[r].deletedAt >= gracePast
  /\ gracePast' = spent.edits
  /\ UNCHANGED <<routeApi, routeCache, routeQueue, work, backend, spent, routeHistory, registryVars>>

(* A backend comes, is registered and healthy, fails, or goes; the cache   *)
(* need not show each of its states.                                       *)
BackendEvent(b) ==
  /\ spent.backends < MaxBackendEvents /\ Spare
  /\ spent' = [spent EXCEPT !.backends = @ + 1]
  /\ \/ /\ backend[b] = "absent"
        /\ backend' = [backend EXCEPT ![b] = "Unknown"]
        /\ UNCHANGED registryVars
     \/ /\ backend[b] # "Healthy"
        /\ backend' = [backend EXCEPT ![b] = "Healthy"]
        /\ RegisterBaseRouteWithConfig(BackendModelOf[b], InitDirectModelRoute(BackendModelOf[b]),
                                       BaseConfig)
     \/ /\ backend[b] # "Failed"
        /\ backend' = [backend EXCEPT ![b] = "Failed"]
        /\ UNCHANGED registryVars
     \/ /\ backend[b] # "absent" /\ b \in Removable
        /\ backend' = [backend EXCEPT ![b] = "absent"]
        /\ RemoveBaseRoute(BackendModelOf[b])
  /\ UNCHANGED <<routeApi, routeCache, routeQueue, work, gracePast, routeHistory>>

Fault(what) ==
  /\ spent.faults < MaxRouteFaults /\ Spare
  /\ spent' = [spent EXCEPT !.faults = @ + 1,
                            !.lostDeletes = IF what = "finalDelete" THEN @ + 1 ELSE @]

(* The gateway restarts; the backends are registered anew as they come.    *)
RestartRoutes ==
  /\ Fault("restart")
  /\ routeCache' = routeApi
  /\ routeQueue' = {r \in RouteObjects : routeApi[r] # NoObject}
  /\ work' = IdleWork
  /\ matchRouteRegistry' = <<>> /\ routeRegistry' = <<>> /\ routes' = {}
  /\ UNCHANGED <<routeApi, backend, gracePast, routeHistory, clusters, clustersDetails>>

-----------------------------------------------------------------------------
(* One Reconcile.                                                          *)

WorkAt(pc) == work.pc = pc
WorkGoto(pc) == work' = [work EXCEPT !.pc = pc]
WorkFails(cond) == work' = [work EXCEPT !.pc = "status", !.cond = cond]

RouteCallError(call) ==
  /\ call \in FailingRouteCalls
  /\ Fault(call)

BeginRoute(r) ==
  /\ WorkAt("idle") /\ r \in routeQueue
  /\ routeQueue' = routeQueue \ {r}
  /\ work' = IF routeCache[r] = NoObject THEN work
             ELSE [pc |-> "config", key |-> r, obj |-> routeCache[r], cond |-> NoCond,
                   targets |-> routeCache[r].status.targets]
  /\ UNCHANGED <<routeApi, routeCache, backend, spent, gracePast, routeHistory, registryVars>>

(* Mutant of reconcileRouteConfig: the update's error is not looked at.    *)
reconcileRouteConfigIgnoresError ==
  /\ WorkAt("config")
  /\ routeApi' = IF routeApi[work.key] = work.obj THEN [routeApi EXCEPT ![work.key].finalizer = TRUE]
                 ELSE routeApi
  /\ WorkGoto(IF isModelRouteDeleted(work.obj) THEN "deleteRegister" ELSE "validator")
  /\ UNCHANGED <<routeCache, routeQueue, backend, spent, gracePast, routeHistory, registryVars>>

(* reconcileConfig: the finalizer is there before the route is.            *)
reconcileRouteConfig ==
  LET next == IF isModelRouteDeleted(work.obj) THEN "deleteRegister" ELSE "validator" IN
  /\ WorkAt("config")
  /\ \/ work.obj.finalizer /\ WorkGoto(next) /\ UNCHANGED <<routeApi, spent>>
     \/ /\ ~work.obj.finalizer /\ routeApi[work.key] = work.obj
        /\ routeApi' = [routeApi EXCEPT ![work.key].finalizer = TRUE]
        /\ work' = [work EXCEPT !.pc = next, !.obj.finalizer = TRUE]
        /\ UNCHANGED spent
     \/ /\ ~work.obj.finalizer /\ routeApi[work.key] # work.obj
        /\ WorkFails("config")
        /\ UNCHANGED <<routeApi, spent>>
     \/ ~work.obj.finalizer /\ RouteCallError("config") /\ WorkFails("config") /\ UNCHANGED routeApi
  /\ UNCHANGED <<routeCache, routeQueue, backend, gracePast, routeHistory, registryVars>>

(* reconcileValidator: the route is constructed and dropped again.         *)
reconcileRouteValidator ==
  /\ WorkAt("validator")
  /\ \/ /\ IF /\ SpecOK(work.obj.spec) /\ ConfigOK(work.obj.spec)
              /\ ~ModelNameTaken(work.key, work.obj.spec.model)
           THEN WorkGoto("destinationHealthy") ELSE WorkFails("validator")
        /\ UNCHANGED spent
     \/ RouteCallError("backends") /\ WorkFails("validator")
  /\ UNCHANGED <<routeApi, routeCache, routeQueue, backend, gracePast, routeHistory, registryVars>>

(* Mutant of TargetState: a target without a backend is not yet known.     *)
TargetStateUnknown(key) ==
  [backend |-> key, status |-> IF BackendExists(key) THEN backend[key] ELSE "Unknown"]

(* The status of a target: its backend's, Failed where there is none.      *)
TargetState(key) ==
  [backend |-> key, status |-> IF BackendExists(key) THEN backend[key] ELSE "Failed"]

reconcileDestinationHealthy ==
  LET targets == getModelRouteTargets(work.key, work.obj.spec) IN
  /\ WorkAt("destinationHealthy")
  /\ \/ /\ work' = [work EXCEPT !.pc = "register",
                                !.targets = [i \in DOMAIN targets |-> TargetState(targets[i].key)]]
        /\ UNCHANGED spent
     \/ RouteCallError("backends") /\ WorkFails("destinationHealthy")
  /\ UNCHANGED <<routeApi, routeCache, routeQueue, backend, gracePast, routeHistory, registryVars>>

(* reconcileRegister: the backends are looked up again; an error of the    *)
(* lookup leaves the earlier route in place, one of the registration       *)
(* removes it.                                                             *)
reconcileRegister ==
  LET model   == work.obj.spec.model
      targets == mapModelRouteTargetsToBackends(getModelRouteTargets(work.key, work.obj.spec))
  IN
  /\ WorkAt("register")
  /\ \/ /\ RegisterMatchRouteWithConfig(model, targets, [owner |-> work.key, gen |-> work.obj.gen])
        /\ WorkGoto("status")
        /\ UNCHANGED spent
     \/ RouteCallError("backends") /\ WorkFails("register") /\ UNCHANGED registryVars
     \/ RouteCallError("register") /\ WorkFails("register") /\ RemoveMatchRoute(model)
  /\ UNCHANGED <<routeApi, routeCache, routeQueue, backend, gracePast, routeHistory>>

(* Mutant of reconcileDeleteRegister: the route is left registered.        *)
reconcileDeleteRegisterSkipped ==
  /\ WorkAt("deleteRegister")
  /\ WorkGoto("finalDelete")
  /\ UNCHANGED <<routeApi, routeCache, routeQueue, backend, spent, gracePast, routeHistory, registryVars>>

(* reconcileRegister of a deleted ModelRoute.                              *)
reconcileDeleteRegister ==
  /\ WorkAt("deleteRegister")
  /\ RemoveMatchRoute(work.obj.spec.model)
  /\ WorkGoto("finalDelete")
  /\ UNCHANGED <<routeApi, routeCache, routeQueue, backend, spent, gracePast, routeHistory>>

(* Mutant of reconcileRouteFinalDelete: conditions of an earlier Reconcile *)
(* keep the finalizer in place.                                            *)
reconcileRouteFinalDeleteOldConditions ==
  /\ WorkAt("finalDelete")
  /\ IF work.obj.status.cond = NoCond /\ routeApi[work.key] = work.obj
     THEN routeApi' = [routeApi EXCEPT ![work.key] = NoObject] /\ WorkGoto("status")
     ELSE WorkFails("finalDelete") /\ UNCHANGED routeApi
  /\ UNCHANGED <<routeCache, routeQueue, backend, spent, gracePast, routeHistory, registryVars>>

(* reconcileFinalDelete: no condition type contains "delete-", so it never *)
(* waits.  Past the grace period an error leaves no condition.             *)
reconcileRouteFinalDelete ==
  LET CondOf(c) == IF shouldForceDeleteModelRoute(work.obj) THEN NoCond ELSE c IN
  /\ WorkAt("finalDelete")
  /\ \/ /\ routeApi[work.key] = work.obj
        /\ routeApi' = [routeApi EXCEPT ![work.key] = NoObject]
        /\ WorkGoto("status")
        /\ UNCHANGED spent
     \/ /\ routeApi[work.key] # work.obj
        /\ WorkFails(CondOf("finalDeleteConflict"))
        /\ UNCHANGED <<routeApi, spent>>
     \/ RouteCallError("finalDelete") /\ WorkFails(CondOf("finalDelete")) /\ UNCHANGED routeApi
  /\ UNCHANGED <<routeCache, routeQueue, backend, gracePast, routeHistory, registryVars>>

(* The status a Reconcile ends with.                                       *)
NewRouteStatus ==
  LET deleted == isModelRouteDeleted(work.obj) IN
  [cond |-> work.cond, deleted |-> deleted, targets |-> work.targets,
   phase |-> reconcileModelRoutePhase(work.cond, work.targets, deleted)]

(* The end of Reconcile: the status is written when it differs from the    *)
(* cached one (routeStatusEqual), targets included.  A failed route is     *)
(* looked at again after 30 seconds, a conflict or an error at once; an    *)
(* object that is gone is not.                                             *)
UpdateRouteStatus ==
  LET r      == work.key
      status == NewRouteStatus
      again  == IF status.phase = "Failed" THEN {r} ELSE {}
  IN
  /\ WorkAt("status")
  /\ work' = IdleWork
  /\ \/ routeCache[r] = NoObject /\ UNCHANGED <<routeApi, routeQueue, spent>>
     \/ /\ routeCache[r] # NoObject /\ routeCache[r].status = status
        /\ routeQueue' = routeQueue \cup again
        /\ UNCHANGED <<routeApi, spent>>
     \/ /\ routeCache[r] # NoObject /\ routeCache[r].status # status
        /\ \/ /\ routeApi[r] = routeCache[r]
              /\ routeApi' = [routeApi EXCEPT ![r].status = status]
              /\ routeQueue' = routeQueue \cup again
              /\ UNCHANGED spent
           \/ routeApi[r] = NoObject /\ UNCHANGED <<routeApi, routeQueue, spent>>
           \/ /\ routeApi[r] # NoObject /\ routeApi[r] # routeCache[r]
              /\ routeQueue' = routeQueue \cup {r}
              /\ UNCHANGED <<routeApi, spent>>
           \/ /\ RouteCallError("status")
              /\ routeQueue' = routeQueue \cup {r}
              /\ UNCHANGED routeApi
  /\ UNCHANGED <<routeCache, backend, gracePast, routeHistory, registryVars>>

WorkStep ==
  \/ reconcileRouteConfig \/ reconcileRouteValidator \/ reconcileDestinationHealthy
  \/ reconcileRegister \/ reconcileDeleteRegister \/ reconcileRouteFinalDelete
  \/ UpdateRouteStatus

ModelRouteNext ==
  \/ \E r \in RouteObjects : CreateRoute(r) \/ EditRouteSpec(r) \/ DeleteRoute(r) \/ DeliverRoute(r)
                             \/ BeginRoute(r)
  \/ \E b \in BackendKeys : BackendEvent(b)
  \/ WorkStep \/ RouteGraceEnds \/ RestartRoutes

(* Watch events arrive, and not always too late for the Reconcile that the *)
(* event before them caused (its retries wait longer and longer); the      *)
(* worker goes on, and the workqueue passes no object over forever.        *)
ModelRouteFairness ==
  /\ \A r \in RouteObjects :
       /\ SF_modelRouteVars(DeliverRoute(r) /\ WorkAt("idle"))
       /\ SF_modelRouteVars(BeginRoute(r))
  /\ WF_modelRouteVars(WorkStep)

ModelRouteSpec == ModelRouteInit /\ [][ModelRouteNext]_modelRouteVars /\ ModelRouteFairness

-----------------------------------------------------------------------------

RouteExists(r) == routeApi[r] # NoObject

(* A match route is registered only while the ModelRoute it was made from  *)
(* exists: the finalizer is in place before the route, and the route is    *)
(* gone before the finalizer, whatever a stale cache, a conflict, an error *)
(* or a restart does in between.  There is one exception: a ModelRoute     *)
(* whose model name is edited leaves the route of the old name behind,     *)
(* since removal goes by the name the spec has (modelroute_controller.go:  *)
(* 157-168), and nothing removes it when the ModelRoute goes.              *)
NoOrphanRoute ==
  \A m \in DOMAIN matchRouteRegistry :
    LET owner == matchRouteRegistry[m].cfg.owner
    IN RouteExists(owner) \/ m \in leftModel[owner]

(* Nothing is under way for r.                                             *)
RouteSettled(r) ==
  /\ routeCache[r] = routeApi[r] /\ r \notin routeQueue
  /\ work = IdleWork \/ work.key # r

RegisteredFor(r) == matchRouteRegistry[routeApi[r].spec.model]

Current(r) ==
  /\ routeApi[r].spec.model \in DOMAIN matchRouteRegistry
  /\ RegisteredFor(r).cfg = [owner |-> r, gen |-> routeApi[r].gen]

LeadsTo(r, b) ==
  \E i \in DOMAIN RegisteredFor(r).targets : RegisteredFor(r).targets[i] = BackendModelOf[b]

(* No other ModelRoute has ever had the model name of r.                   *)
SoleRoute(r) ==
  \A other \in RouteObjects \ {r} : routeApi[r].spec.model \notin hadModel[other]

(* modelroute_types.go: "Status indicates the health of the ModelRoute     *)
(* CR".  A route whose status has come to rest as Healthy is registered    *)
(* from its current spec, and leads to every backend its status reports    *)
(* unless that was deleted between the two lookups of one Reconcile.  A    *)
(* ModelRoute that shares its model name is excepted: the other one,       *)
(* though refused, takes the route away when it is deleted.                *)
HealthyRouteIsCurrent ==
  \A r \in RouteObjects :
    (/\ RouteExists(r) /\ RouteSettled(r) /\ SoleRoute(r)
     /\ ~isModelRouteDeleted(routeApi[r]) /\ routeApi[r].status.phase = "Healthy")
      => /\ Current(r)
         /\ Len(routeApi[r].status.targets) = Len(routeApi[r].spec.targets)
         /\ \A i \in DOMAIN routeApi[r].status.targets :
              LET b == routeApi[r].status.targets[i].backend
              IN b \notin Removable => LeadsTo(r, b)

(* The base route of a backend serves its model again once no ModelRoute   *)
(* names the model, and no other route was hidden in the meantime.  Where  *)
(* a ModelRoute was edited away from the name it does not: the match route *)
(* that is left behind hides the base route until the gateway restarts.    *)
BaseRouteComesToLight ==
  \A m \in DOMAIN routeRegistry :
    (\A r \in RouteObjects :
       (RouteExists(r) => routeApi[r].spec.model # m) /\ m \notin leftModel[r])
      => routeRegistry[m] \in MatchRoute(m)

RouteDeleting(r) == RouteExists(r) /\ isModelRouteDeleted(routeApi[r])

(* The final update of r has failed and nothing is left to try it again:   *)
(* its error is not returned, a deleted ModelRoute is never Failed, and    *)
(* the status that is written wakes the controller only when it is a new   *)
(* one, as it is after a first failure but not after a second; past the    *)
(* grace period, where no condition is set, it may not be after the first. *)
RouteDeletionIsLost(r) ==
  /\ RouteSettled(r) /\ routeApi[r].status.deleted
  /\ spent.lostDeletes >= IF shouldForceDeleteModelRoute(routeApi[r]) THEN 1 ELSE 2

(* A ModelRoute that is deleted goes away, past conflicts, a restart,      *)
(* failing calls and a first failure of the final update; it stays only    *)
(* when that update fails again.                                           *)
RouteDeletionCompletes ==
  \A r \in RouteObjects :
    RouteDeleting(r) ~> ~RouteDeleting(r) \/ RouteDeletionIsLost(r)

(* When users and backends come to rest, every valid ModelRoute that is    *)
(* alone with its model is registered from its current spec with every     *)
(* backend it names that was never deleted, although the controller        *)
(* watches no backend: one that comes after its route is found by the      *)
(* retry of the failed route.                                              *)
RoutesConverge ==
  \A r \in RouteObjects :
    <>[]( (/\ RouteExists(r) /\ ~isModelRouteDeleted(routeApi[r]) /\ SoleRoute(r)
           /\ SpecOK(routeApi[r].spec) /\ ConfigOK(routeApi[r].spec))
            => /\ Current(r)
               /\ \A t \in {getModelRouteTargets(r, routeApi[r].spec)[i] :
                              i \in DOMAIN routeApi[r].spec.targets} :
                    BackendExists(t.key) /\ t.key \notin Removable
                      => LeadsTo(r, t.key) )
============================================================================
