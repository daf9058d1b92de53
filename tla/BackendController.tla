------------------------- MODULE BackendController -------------------------
(***************************************************************************)
(* The controllers that turn LLMBackend and ImageGenerationBackend objects *)
(* into clusters and base routes (internal/controller/                     *)
(* llmbackend_controller.go, imagegenerationbackend_controller.go and the  *)
(* status helpers of common.go), composed with the registries they write.  *)
(*                                                                         *)
(* External parts, modelled from how the controllers use them: the API     *)
(* server (finalizers, deletion, optimistic concurrency), the informer     *)
(* cache, which reads come from and which lags behind, and the workqueue.  *)
(* controller-runtime runs one worker per controller, so per kind.  The    *)
(* handlers of one Reconcile are steps of its worker: between any two of   *)
(* them users, the cache and the other controller may step.                *)
(*                                                                         *)
(* A write carries the resource version of the object it was computed from *)
(* and conflicts when the object has changed; here versions are compared   *)
(* by content, where gen is new with every edit of the spec.               *)
(***************************************************************************)
EXTENDS Registry

CONSTANTS
  Backends,     \* backend objects, by namespace and name
  KindOf,       \* [Backends -> Kinds]: which controller an object belongs to
  Kinds,        \* {"LLM", "Image"}
  NameOf,       \* [Backends -> names]: metadata.name alone
  ModelsOf,     \* [Backends -> sets of model names its spec may have]
  MaxEdits,     \* bound on what users do
  FailingCalls, \* the calls that may fail although nothing conflicts
  MaxErrors,    \* bound on such failures
  MaxRestarts   \* bound on restarts of the gateway

ASSUME ControllerAssumption ==
  /\ KindOf \in [Backends -> Kinds]
  /\ ModelsOf \in [Backends -> SUBSET Models]
  /\ FailingCalls \subseteq {"config", "validator", "register", "finalDelete", "status"}
  /\ MaxEdits \in Nat /\ MaxErrors \in Nat /\ MaxRestarts \in Nat
  /\ [owner : Backends, gen : 0..MaxEdits] \subseteq Configs
  /\ \A m \in Models : <<m>> \in Targets

VARIABLES
  api,      \* the objects in the API server, Absent or an Object
  cache,    \* the informer's copy of them
  queue,    \* the workqueues: objects to reconcile
  worker,   \* each controller's worker
  used,     \* how many edits, errors and restarts there were, and how many of
            \* the errors were those of a final update
  graceEnd, \* deletions made before this edit are past graceDeletePeriod
  had,      \* history: the model names the spec of a backend has had
  left      \* history: those among them it was edited away from

controlVars == <<api, cache, queue, worker, used, graceEnd, had, left>>
allVars == <<controlVars, registryVars>>

Absent == [gen |-> -1]

(* Status: the failing handler of the last Reconcile ("" when none has     *)
(* failed), whether it was a deletion's, and the phase.  statusEqual       *)
(* compares messages too: the one of a conflict is told from the others in *)
(* finalDelete, where it decides whether the object is looked at again.    *)
NoCond == ""
Handlers == {"config", "validator", "register", "finalDelete", "finalDeleteConflict"}
StatusOf(cond, deleting) ==
  [cond |-> cond, deleted |-> deleting,
   phase |-> IF cond # NoCond /\ ~deleting THEN "Failed" ELSE "Healthy"]
NoStatus == [cond |-> NoCond, deleted |-> FALSE, phase |-> "Unknown"]

Status ==
  [cond : Handlers \cup {NoCond}, deleted : BOOLEAN, phase : {"Unknown", "Healthy", "Failed"}]
Object ==
  [model : Models, valid : BOOLEAN, gen : 0..MaxEdits, finalizer : BOOLEAN,
   deletedAt : -1..MaxEdits, status : Status]

(* DeletionTimestamp: the number of the edit that deleted it, or -1.       *)
isBackendDeleted(obj) == obj.deletedAt >= 0
shouldForceDeleteBackend(obj) == isBackendDeleted(obj) /\ obj.deletedAt < graceEnd

Idle == [pc |-> "idle", key |-> <<>>, obj |-> Absent, cond |-> NoCond]

ControllerInit ==
  /\ RegistryInit
  /\ api = [b \in Backends |-> Absent]
  /\ cache = api
  /\ queue = {}
  /\ worker = [k \in Kinds |-> Idle]
  /\ used = [edits |-> 0, errors |-> 0, restarts |-> 0, lostDeletes |-> 0]
  /\ graceEnd = 0
  /\ had = [b \in Backends |-> {}] /\ left = had

-----------------------------------------------------------------------------
(* Users and the API server.                                               *)

Renames(b, obj) == api[b] # Absent /\ obj # Absent /\ obj.model # api[b].model

EditApi(b, obj) ==
  /\ used.edits < MaxEdits
  /\ used' = [used EXCEPT !.edits = @ + 1]
  /\ api' = [api EXCEPT ![b] = obj]
  /\ had' = [had EXCEPT ![b] = IF obj = Absent THEN @ ELSE @ \cup {obj.model}]
  /\ left' = [left EXCEPT ![b] = IF Renames(b, obj) THEN @ \cup {api[b].model} ELSE @]
  /\ UNCHANGED <<cache, queue, worker, graceEnd, registryVars>>

Create(b) ==
  /\ api[b] = Absent
  /\ \E m \in ModelsOf[b], v \in BOOLEAN :
       EditApi(b, [model |-> m, valid |-> v, gen |-> used.edits, finalizer |-> FALSE,
                   deletedAt |-> -1, status |-> NoStatus])

EditSpec(b) ==
  /\ api[b] # Absent
  /\ \E m \in ModelsOf[b], v \in BOOLEAN :
       EditApi(b, [model |-> m, valid |-> v, gen |-> used.edits, finalizer |-> api[b].finalizer,
                   deletedAt |-> api[b].deletedAt, status |-> api[b].status])

(* An object with a finalizer is only marked.                              *)
DeleteObject(b) ==
  /\ api[b] # Absent
  /\ ~isBackendDeleted(api[b])
  /\ EditApi(b, IF api[b].finalizer THEN [api[b] EXCEPT !.deletedAt = used.edits] ELSE Absent)

(* The watch brings the cache up to date and queues the object.            *)
Deliver(b) ==
  /\ cache[b] # api[b]
  /\ cache' = [cache EXCEPT ![b] = api[b]]
  /\ queue' = queue \cup {b}
  /\ UNCHANGED <<api, worker, used, graceEnd, had, left, registryVars>>

(* graceDeletePeriod passes without an edit.                               *)
GraceEnds ==
  /\ \E b \in Backends : api[b] # Absent /\ api[b].deletedAt >= graceEnd
  /\ graceEnd' = used.edits
  /\ UNCHANGED <<api, cache, queue, worker, used, had, left, registryVars>>

(* The gateway restarts: the registries are empty, the cache is read anew  *)
(* and every object in it is queued.                                       *)
Restart ==
  /\ used.restarts < MaxRestarts
  /\ used' = [used EXCEPT !.restarts = @ + 1]
  /\ cache' = api
  /\ queue' = {b \in Backends : api[b] # Absent}
  /\ worker' = [k \in Kinds |-> Idle]
  /\ matchRouteRegistry' = <<>> /\ routeRegistry' = <<>> /\ routes' = {}
  /\ clusters' = <<>> /\ clustersDetails' = <<>>
  /\ UNCHANGED <<api, graceEnd, had, left>>

-----------------------------------------------------------------------------
(* One Reconcile.                                                          *)

At(k, pc) == worker[k].pc = pc
Goto(k, pc) == worker' = [worker EXCEPT ![k].pc = pc]
Fail(k, cond) == worker' = [worker EXCEPT ![k].pc = "status", ![k].cond = cond]

(* A call fails for a reason of its own: the API server, a Secret that     *)
(* headersFrom names.                                                      *)
CallError(call) ==
  /\ call \in FailingCalls
  /\ used.errors < MaxErrors
  /\ used' = [used EXCEPT !.errors = @ + 1,
                          !.lostDeletes = IF call = "finalDelete" THEN @ + 1 ELSE @]

(* Get; an object that is gone from the cache needs nothing.               *)
Begin(b) ==
  LET k == KindOf[b] IN
  /\ At(k, "idle") /\ b \in queue
  /\ queue' = queue \ {b}
  /\ worker' = IF cache[b] = Absent THEN worker
               ELSE [worker EXCEPT ![k] = [pc |-> "config", key |-> b, obj |-> cache[b], cond |-> NoCond]]
  /\ UNCHANGED <<api, cache, used, graceEnd, had, left, registryVars>>

(* Mutant of reconcileConfig: the error of its update is not looked at.    *)
reconcileConfigIgnoresError(k) ==
  LET w == worker[k] IN
  /\ At(k, "config")
  /\ api' = IF api[w.key] = w.obj THEN [api EXCEPT ![w.key].finalizer = TRUE] ELSE api
  /\ Goto(k, IF isBackendDeleted(w.obj) THEN "rmCluster" ELSE "validator")
  /\ UNCHANGED <<cache, queue, used, graceEnd, had, left, registryVars>>

(* reconcileConfig: the finalizer is there before anything is registered.  *)
reconcileConfig(k) ==
  LET w == worker[k]
      next == IF isBackendDeleted(w.obj) THEN "rmCluster" ELSE "validator"
  IN
  /\ At(k, "config")
  /\ \/ /\ w.obj.finalizer
        /\ Goto(k, next)
        /\ UNCHANGED <<api, used>>
     \/ /\ ~w.obj.finalizer /\ api[w.key] = w.obj
        /\ api' = [api EXCEPT ![w.key].finalizer = TRUE]
        /\ worker' = [worker EXCEPT ![k].pc = next, ![k].obj.finalizer = TRUE]
        /\ UNCHANGED used
     \/ /\ ~w.obj.finalizer /\ api[w.key] # w.obj
        /\ Fail(k, "config")
        /\ UNCHANGED <<api, used>>
     \/ ~w.obj.finalizer /\ CallError("config") /\ Fail(k, "config") /\ UNCHANGED api
  /\ UNCHANGED <<cache, queue, graceEnd, had, left, registryVars>>

(* Mutant of NameTaken: the list is not looked at.                         *)
NameTakenNever(b, model) == FALSE

(* The names of other objects of the kind, as the cache lists them.  Two   *)
(* objects with one metadata.name are taken for the same object.           *)
NameTaken(b, model) ==
  \E other \in Backends :
    /\ KindOf[other] = KindOf[b]
    /\ cache[other] # Absent
    /\ cache[other].model = model
    /\ NameOf[other] # NameOf[b]

reconcileValidator(k) ==
  LET w == worker[k] IN
  /\ At(k, "validator")
  /\ \/ /\ IF w.obj.valid /\ ~NameTaken(w.key, w.obj.model)
           THEN Goto(k, "cluster") ELSE Fail(k, "validator")
        /\ UNCHANGED used
     \/ CallError("validator") /\ Fail(k, "validator")
  /\ UNCHANGED <<api, cache, queue, graceEnd, had, left, registryVars>>

(* Mutant of RegisterCluster: a cluster that is there is left alone.       *)
RegisterClusterOnce(k) ==
  LET w == worker[k] IN
  /\ At(k, "cluster")
  /\ IF w.obj.model \in DOMAIN clusters THEN UNCHANGED registryVars
     ELSE UpsertAndRegisterCluster(w.obj.model, [owner |-> w.key, gen |-> w.obj.gen])
  /\ Goto(k, "route")
  /\ UNCHANGED <<api, cache, queue, used, graceEnd, had, left>>

(* reconcileRegister, the cluster: its configuration is made again, which  *)
(* may fail and then changes nothing; when its construction fails the base *)
(* route is registered all the same and then both are removed.             *)
RegisterCluster(k) ==
  LET w == worker[k] IN
  /\ At(k, "cluster")
  /\ \/ /\ UpsertAndRegisterCluster(w.obj.model, [owner |-> w.key, gen |-> w.obj.gen])
        /\ Goto(k, "route")
        /\ UNCHANGED used
     \/ CallError("register") /\ Fail(k, "register") /\ UNCHANGED registryVars
     \/ /\ CallError("register")
        /\ worker' = [worker EXCEPT ![k].pc = "route", ![k].cond = "register"]
        /\ UNCHANGED registryVars
  /\ UNCHANGED <<api, cache, queue, graceEnd, had, left>>

RegisterRoute(k) ==
  LET w == worker[k] IN
  /\ At(k, "route")
  /\ RegisterBaseRouteWithConfig(w.obj.model, InitDirectModelRoute(w.obj.model),
                                 [owner |-> w.key, gen |-> w.obj.gen])
  /\ Goto(k, IF w.cond = NoCond THEN "status" ELSE "rmCluster")
  /\ UNCHANGED <<api, cache, queue, used, graceEnd, had, left>>

(* removeBackendFunc: by model name, whoever registered it.                *)
RemoveClusterStep(k) ==
  /\ At(k, "rmCluster")
  /\ DeleteCluster(worker[k].obj.model)
  /\ Goto(k, "rmRoute")
  /\ UNCHANGED <<api, cache, queue, used, graceEnd, had, left>>

RemoveRouteStep(k) ==
  /\ At(k, "rmRoute")
  /\ RemoveBaseRoute(worker[k].obj.model)
  /\ Goto(k, IF isBackendDeleted(worker[k].obj) THEN "finalDelete" ELSE "status")
  /\ UNCHANGED <<api, cache, queue, used, graceEnd, had, left>>

(* Mutant of reconcileFinalDelete: the conditions of an earlier Reconcile, *)
(* not reset, keep it from removing the finalizer.                         *)
reconcileFinalDeleteOldConditions(k) ==
  LET w == worker[k] IN
  /\ At(k, "finalDelete")
  /\ IF w.obj.status.cond = NoCond /\ api[w.key] = w.obj
     THEN api' = [api EXCEPT ![w.key] = Absent] /\ Goto(k, "status")
     ELSE Fail(k, "finalDelete") /\ UNCHANGED api
  /\ UNCHANGED <<cache, queue, used, graceEnd, had, left, registryVars>>

(* reconcileFinalDelete: no condition type contains "delete-", so it never *)
(* waits; without finalizers the API server drops the object.  Past the    *)
(* grace period an error leaves no condition behind.                       *)
reconcileFinalDelete(k) ==
  LET w == worker[k] IN
  /\ At(k, "finalDelete")
  /\ \/ /\ api[w.key] = w.obj
        /\ api' = [api EXCEPT ![w.key] = Absent]
        /\ Goto(k, "status")
        /\ UNCHANGED used
     \/ /\ api[w.key] # w.obj
        /\ Fail(k, IF shouldForceDeleteBackend(w.obj) THEN NoCond ELSE "finalDeleteConflict")
        /\ UNCHANGED <<api, used>>
     \/ /\ CallError("finalDelete")
        /\ Fail(k, IF shouldForceDeleteBackend(w.obj) THEN NoCond ELSE "finalDelete")
        /\ UNCHANGED api
  /\ UNCHANGED <<cache, queue, graceEnd, had, left, registryVars>>

(* Mutant of UpdateStatus: a failed backend is not tried again.            *)
UpdateStatusOnce(k) ==
  LET w      == worker[k]
      status == StatusOf(w.cond, isBackendDeleted(w.obj))
  IN
  /\ At(k, "status")
  /\ worker' = [worker EXCEPT ![k] = Idle]
  /\ IF cache[w.key] # Absent /\ api[w.key] = cache[w.key]
     THEN api' = [api EXCEPT ![w.key].status = status]
     ELSE UNCHANGED api
  /\ UNCHANGED <<cache, queue, used, graceEnd, had, left, registryVars>>

(* The end of Reconcile: the phase, and the status when it differs from    *)
(* the cached one.  A failed phase, a conflict or an error is tried again; *)
(* an object that is gone, and a failed deletion that is recorded, is not. *)
UpdateStatus(k) ==
  LET w      == worker[k]
      status == StatusOf(w.cond, isBackendDeleted(w.obj))
      again  == IF status.phase = "Failed" THEN {w.key} ELSE {}
  IN
  /\ At(k, "status")
  /\ worker' = [worker EXCEPT ![k] = Idle]
  /\ \/ /\ cache[w.key] = Absent
        /\ UNCHANGED <<api, queue, used>>
     \/ /\ cache[w.key] # Absent /\ cache[w.key].status = status
        /\ queue' = queue \cup again
        /\ UNCHANGED <<api, used>>
     \/ /\ cache[w.key] # Absent /\ cache[w.key].status # status
        /\ \/ /\ api[w.key] = cache[w.key]
              /\ api' = [api EXCEPT ![w.key].status = status]
              /\ queue' = queue \cup again
              /\ UNCHANGED used
           \/ /\ api[w.key] = Absent
              /\ UNCHANGED <<api, queue, used>>
           \/ /\ api[w.key] # Absent /\ api[w.key] # cache[w.key]
              /\ queue' = queue \cup {w.key}
              /\ UNCHANGED <<api, used>>
           \/ CallError("status") /\ queue' = queue \cup {w.key} /\ UNCHANGED api
  /\ UNCHANGED <<cache, graceEnd, had, left, registryVars>>

Step(k) ==
  \/ reconcileConfig(k) \/ reconcileValidator(k)
  \/ RegisterCluster(k) \/ RegisterRoute(k)
  \/ RemoveClusterStep(k) \/ RemoveRouteStep(k) \/ reconcileFinalDelete(k)
  \/ UpdateStatus(k)

ControllerNext ==
  \/ \E b \in Backends : Create(b) \/ EditSpec(b) \/ DeleteObject(b) \/ Deliver(b) \/ Begin(b)
  \/ \E k \in Kinds : Step(k)
  \/ GraceEnds \/ Restart

ControllerSpec == ControllerInit /\ [][ControllerNext]_allVars

(* Watch events arrive, a worker goes on, and the workqueue is a queue: an *)
(* object in it is not passed over forever.                                *)
ControllerFairness ==
  /\ \A b \in Backends : WF_allVars(Deliver(b)) /\ SF_allVars(Begin(b))
  /\ \A k \in Kinds : WF_allVars(Step(k))

FairControllerSpec == ControllerSpec /\ ControllerFairness

-----------------------------------------------------------------------------

Exists(b) == api[b] # Absent

(* A cluster is registered only while the object it was made from exists:  *)
(* the finalizer is in place before the cluster is, and the cluster is     *)
(* gone before the finalizer is, whatever the cache, a conflict, an error  *)
(* or a restart does in between.  There is one exception: a backend whose  *)
(* model name is edited leaves the cluster of the old name behind, since   *)
(* removal goes by the name the spec has (llmbackend_controller.go:        *)
(* 131-142), and nothing removes it when the backend goes.                 *)
NoOrphanCluster ==
  \A m \in DOMAIN clusters :
    Exists(clusters[m].owner) \/ m \in left[clusters[m].owner]

(* Nothing is under way for b: the cache is current and no Reconcile of it *)
(* runs or waits.                                                          *)
Settled(b) ==
  /\ cache[b] = api[b] /\ b \notin queue
  /\ \A k \in Kinds : worker[k].key # b

Served(b) ==
  /\ api[b].model \in DOMAIN clusters
  /\ clusters[api[b].model] = [owner |-> b, gen |-> api[b].gen]
  /\ api[b].model \in DOMAIN routeRegistry

(* No other backend, of either kind, has ever asked for the name b has.    *)
Alone(b) == \A c \in Backends \ {b} : api[b].model \notin had[c]

(* llmbackend_types.go: "Status indicates the health of the backend".  A   *)
(* backend whose status has come to rest as Healthy is served, from its    *)
(* current spec.  A backend that shares its name is excepted: the other    *)
(* one, though refused, takes the cluster away when it is deleted.         *)
HealthyIsServed ==
  \A b \in Backends :
    (/\ Exists(b) /\ Settled(b) /\ Alone(b)
     /\ ~isBackendDeleted(api[b]) /\ api[b].status.phase = "Healthy") => Served(b)

(* llmbackend_controller.go: "LLMBackend name '%s' must be unique          *)
(* globally".  Of two backends with one model name at most one comes to    *)
(* rest as Healthy.                                                        *)
UniqueGlobally ==
  \A b, c \in Backends :
    (/\ b # c /\ Exists(b) /\ Exists(c) /\ Settled(b) /\ Settled(c)
     /\ KindOf[b] = KindOf[c] /\ api[b].model = api[c].model
     /\ ~isBackendDeleted(api[b]) /\ ~isBackendDeleted(api[c]))
      => ~(api[b].status.phase = "Healthy" /\ api[c].status.phase = "Healthy")

Deleting(b) == Exists(b) /\ isBackendDeleted(api[b])

(* The final update of b has failed and nothing is left to try it again:   *)
(* its error is not returned, a deleted backend is never Failed, and the   *)
(* status that is written wakes the controller only when it is a new one,  *)
(* as it is after a first failure but not after a second; past the grace   *)
(* period, where no condition is set, it may not be after the first.       *)
DeletionIsLost(b) ==
  /\ Settled(b) /\ api[b].status.deleted
  /\ used.lostDeletes >= IF shouldForceDeleteBackend(api[b]) THEN 1 ELSE 2

(* A backend that is deleted goes away, past conflicts with edits made     *)
(* meanwhile, past a restart, past failing calls and past a first failure  *)
(* of the final update; it stays only when that update fails again.        *)
DeletionCompletes ==
  \A b \in Backends : Deleting(b) ~> ~Deleting(b) \/ DeletionIsLost(b)

(* When users and the API server leave it alone, the gateway ends up       *)
(* serving every valid backend that is alone with its name, from its       *)
(* current spec, and nothing of the backends that are gone but for the     *)
(* names a spec was edited away from.                                      *)
Converges ==
  <>[]( /\ \A b \in Backends :
             Exists(b) /\ ~isBackendDeleted(api[b]) /\ api[b].valid /\ Alone(b) => Served(b)
        /\ \A m \in DOMAIN routeRegistry \cup DOMAIN clusters :
             \E b \in Backends : (Exists(b) /\ api[b].model = m) \/ m \in left[b] )
============================================================================
