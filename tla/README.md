# knoway: specifications, model checking and proofs

knoway is a gateway for LLM serving. Listeners accept OpenAI-style requests, filters authenticate,
limit and account for them, a route picks a cluster, and the cluster forwards the request upstream.
Kubernetes controllers turn custom resources into clusters and routes at run time. This directory
holds TLA+ models of its parts, the TLC runs that check them and the TLAPS proofs of what matters
most. Source paths below are relative to the repository.

## The system's parts

| Part | State it keeps | Operations | What must hold | Module |
|---|---|---|---|---|
| Rate limiter, policies (`pkg/filters/ratelimit/rate_limit.go`, `internal/controller/modelroute_controller.go`) | none | match a request with a policy, build the bucket key, build policies from ModelRoute rules | a key belongs to one policy, as far as ids have no `:` | `RateLimitPolicy` |
| Rate limiter, in memory (`local.go`) | per shard: `buckets`, `lastAccessTime`; a cleanup goroutine | check a bucket (new, expired, live), evict, sweep | admission bound, no starvation, only dead or oldest buckets leave | `LocalRateLimiter` |
| Rate limiter, Redis (`redis.go`) | one hash per key in Redis | the Lua script, called by any replica | admission bound in spite of clock skew, reordering, lost messages | `RedisRateLimiter` |
| Registries (`pkg/route/manager`, `pkg/clusters/manager`) | match routes, base routes, their merge; clusters and their details | register and remove, match, list | the merge is current; one route per model | `Registry` |
| Listeners' shutdown (`pkg/listener/middlewares.go`, `manager/*/listener.go`, `cmd/gateway`) | cancel map, drained flag, drain timer, HTTP server | request in and out, drain, stop | every running request is told before the process exits; stopping ends | `Drain` |
| BootKit and the commands (`pkg/bootkit`, `cmd`) | runnables, hooks, contexts, a mutex | start, signals, stop | serve only when ready, stop what was started, end after any failure | `BootKit` |
| Backend controllers (`internal/controller`) | the objects, the informer's cache, the workqueue | one Reconcile: finalizer, validation, registration, deletion, status | no cluster without an object but under a name it was edited away from; Healthy means served; deletion and convergence | `BackendController` |
| ModelRoute controller (`modelroute_controller.go`, `backends.go`, `common.go`) | as above, and the health of the targets | one Reconcile: finalizer, validation, target health, registration, deletion, status | no match route without an object; Healthy means current; the base route comes back | `ModelRouteController` |
| Load balancing (`pkg/route/loadbalance`) | request counters | next target | weights respected, nobody on weight zero | `LoadBalance` |
| Listener handler, filters, route, cluster (`pkg/listener/common.go`, `pkg/filters/auth`, `pkg/filters/usage`, `pkg/route/route`, `pkg/clusters`) | the request being rewritten, per-request metadata | admit, parse, choose, try, retry, bill, answer, log | access, parameters, model names, bills and statuses are right through every retry | `RequestPath` |
| Streaming (`pkg/types/openai/chat_completions_stream.go`, `pkg/listener/common.go`) | reader, callbacks, end-of-stream context | next chunk, report, pipe, complete | chunks in order, the usage in the log, an end to every stream | `ChatStream` |
| OpenAI and gateway errors (`pkg/object`, `pkg/types/openai/errors.go`) | none | build, translate, recognise an upstream's error | the answer's status is the logged one | `LLMErrors` |
| Image usage (`pkg/types/openai/image_generations_*.go`) | none | parse sizes, resolve images, meter | part of what is billed | `ImageUsage` |
| Speech providers (`pkg/types/*/…/speech.go`) | CosyVoice: connection, buffer, two channels | build a request, hand an answer on, converse | all of the audio or an error; no goroutine left behind | `Speech` |

Interaction: the controllers write the registries under a lock of each registry, never under both;
requests read them. A route owns its load balancer and its rate limiters. Every component appends
start and stop hooks to BootKit, which runs them in parallel. What is hard here: requests racing a
drain; sweeps and evictions racing requests; replicas with different clocks; reconciles from a cache
that lags behind, interrupted by edits, conflicts and restarts; a request that carries the changes of
one attempt into the next; a stream that four actors end independently. `PROJECT.json` lists these as
hazards, each at its line.

## Modules

* `RateLimitPolicy`: `findMatchingPolicy`, `buildKey`, `buildRateLimitPolicies` as operators. A string
  is the sequence of its `:`-separated segments, so that joining with `:`, as `buildKey` does, is
  concatenation, and a model name or a caller's id with a `:` in it is two segments.
* `LocalRateLimiter` extends it: a request is one atomic step (the code holds the shard's mutex from
  the clock reading to the last store), split into the actions for a missing, an expired and a live
  bucket. `CleanupStart` reads the clock, `CleanupShard` sweeps one shard under its lock later.
  `birth`, `granted` and `lastGrant` are history variables. `AmbiguousKeys` are the keys charged to a caller whose id has
  a `:`; only there can two callers meet in one bucket, and the properties of buckets except them. Time is in ticks, `TicksPerSecond` of them
  to a second, because the code credits whole seconds of a nanosecond clock.
* `RedisRateLimiter`: `Send` reads the replica's clock, `Script` runs the Lua script atomically,
  in any order; a command or its answer may be lost. The script's fractions are exact: tokens are kept
  in units of `1/Window`.
* `Registry`: the two route maps, the merged list, the two cluster maps; one action per function.
  The list is a set: Go's map order is arbitrary, and `UniqueMatch` is what makes that harmless.
* `Drain`: requests walk through `WithCancellable` and the drain gate while the stop hooks run.
  Time is measured from the start of the stop.
* `BootKit` extends `Drain` with the life of the process: `callRunnable`, the hooks each runnable
  appends, `callStartHook`, the select of `Start`, signals, `stop` with its three ways to end, `Stop`
  before `Start`. `Drain`'s variable `stop` is BootKit's stop while the gateway's hooks take part.
  `Others` are the runnables next to the gateway (admin server, controllers), `Fragile` those
  whose stop hook may fail.
* `BackendController` extends `Registry`: each handler of a Reconcile is a step of the controller's
  worker (controller-runtime runs one worker per controller), and removal of the cluster and of the route are two steps,
  as they take two locks. `gen` numbers the edits and stands for what the resource version tells apart.
  API server, cache and workqueue are external and modelled from how the controllers use them:
  optimistic writes that conflict on a changed object, reads from a cache that `Deliver` updates,
  deletion that only marks an object with a finalizer. `valid` stands for what the validator and the
  construction of a cluster check. `LLMBackend` and `ImageGenerationBackend` controllers have the same
  text up to names; `Kinds` tells them apart. A user may edit the model name. `had` and `left` are history: the names a backend has had, and
  those it was edited away from.
* `ModelRouteController` extends `Registry` in the same way, with `hadModel` and `leftModel`. A spec is its model name, its targets,
  its filter and its fallback; the validator, the two lookups of the backends (health first, registration later), the
  phase, and the grace period after which errors are passed over are the code's. Backends are an
  environment that creates, fails and deletes them, with their base routes, between any two steps; the model name of a
  backend does not change here (`BackendModelOf`), that is for `BackendController`.
* `LoadBalance`: weighted round robin draws and walks; weighted least request compares ratios by
  cross-multiplication in the code's order. Both read shared state and write it back later without a lock; `NextReads` and `NextWrites` are the two steps.
  The scan of the counters is one step: the code loads them one by one, and a counter that grows during the scan makes its server look less loaded
  than it is, as one that grows between the two steps of the model does. Counters only grow, so the bound of one request per caller is the same.
* `LLMErrors`, `ImageUsage`: pure operators: error kinds with their statuses, the translation
  between the gateway's and OpenAI's errors, what an upstream's body is taken for; image sizes and
  the metering policies.
* `RequestPath` extends these three: one goroutine per request, split where it waits (auth service,
  upstream, usage service) and where it touches shared state (balancer, clusters). A body is a
  function from the members that matter to values; `SetModel`, `SetDefaultParams`,
  `SetOverrideParams` and `RemoveParamKeys` patch it as the code's JSON patches do, and the next
  attempt starts from the result; a bad image size leaves the patches of the keys that Go's map order brought before it. That the add of a default
  fails is left out: the names of parameters are JSON tags of the resources (`internal/controller/common.go:252-319`), and an add at the root of an
  object always succeeds. A route's filters are the rate limiter, which may fail itself (`LimitError`); response filters of a route are never attached
  by the controllers (`modelroute_controller.go:511-530`) and left out. Kinds: chat, completions, images, speech, the listings, OPTIONS. A streamed
  answer leaves this module with its first byte.
* `ChatStream`: the rest of a streamed answer: `NextChunk` with its deferred callbacks, the pipe, the
  client, the goroutine of the cluster that waits for the end, the access log. A line is its kind. The callbacks run with the context the code
  gives them, `eofCancelCtx`, which has no metadata of the request. A client that left fails a write sooner or later, not at once.
* `Speech`: one call of the gateway to one provider: the payload each provider's builder makes (members set in the code's order, so
  that later ones win), the refusal of CosyVoice (`ErrWebSocketOnlyProvider`), and the answer, which is handed on as it came. And one call of
  `cosyvoice.DoSpeech`: the conversation with its reader goroutine, buffer and two channels. Nothing in the repository calls `DoSpeech`
  yet; it is modelled as the package's exported function. The `ParseSpeechResponse` functions, which have no caller either, are not modelled.

Abstract specifications, and the detailed modules that implement them (checked as properties of runs):

| Promise | Module | Implemented by |
|---|---|---|
| the shutdown protocol | `Drain` | `BootKit` (`ImplementsDrain`, also proved) |
| one upstream call at a time, none after one served, one bill, one answer | `Gateway` | `RequestPath` (`ImplementsGateway`, also proved) |
| parts in order, none lost between two, nothing after the end | `Relay` | `ChatStream` (`ImplementsRelay`, also proved) |

`MC*` modules hold the small instances, `*Proofs` the theorems. Definitions such as
`SetDefaultParamsAlways`, placed before the one they resemble, are plausible slips in it: with one of them in its
place TLC refutes the property that guards against the slip.

## What the runs check

| Run | Shows |
|---|---|
| `local_buckets` | `AdmissionBound`: capacity plus rate times whole seconds. `BoundedWait`: asking often does not starve a client although fractions of a second are forgotten. `ExpiryLosesNothing`: an expired bucket would have been full. The last two are about positive rates; a rate that is truncated to zero is a divergence below |
| `local_shards` | `TrackedBucketsExist`, `BucketFollowsPolicy`, `OnlyExpiredOrOldestLeave` with policies built from a ModelRoute's rules, callers without an API key, callers whose id has a `:` and who share a bucket with others, a full shard, ties in access times and a sweep whose clock reading is old |
| `redis_buckets` | `AdmissionBound`, `DebtBound` with skewed clocks, reordering, losses, two limits |
| `bootkit` | `DrainReachesAll`, `NoSilentCut` in the whole process; `StartedAreStopped`, `ServesWhenReady`; `FailureEndsProcess`: a failure, a signal and a stop that has begun end the process, with handlers that need not return and hooks that hang; `ImplementsDrain` |
| `backend_lifecycle` | `NoOrphanCluster`, `HealthyIsServed` through edits, renames, deletion, conflicts, failing calls and a restart; `DeletionCompletes`, `Converges` under fairness |
| `backend_names` | `UniqueGlobally`, and `HealthyIsServed`, for two backends with different names that may take the same model name |
| `model_routes` | `UniqueMatch` for registries with several writers; `NoOrphanRoute`, `HealthyRouteIsCurrent`, `BaseRouteComesToLight` through edits and renames; `RouteDeletionCompletes`, `RoutesConverge` under fairness |
| `requests` | `OnlyGrantedIsServed`, `UpstreamIsAskedRight` (the client's parameters, the cluster's model, the usage of a stream), `BilledOnceForServer`, `LoggedStatusIsSent` through retries over two clusters; `WeightsRespected` (shares of the least-request balancer, no request for a drained server); `CancelledRequestEnds`; `ImplementsGateway` |
| `stream` | `StreamIsWellFormed` (order, nothing after the last word, one first chunk), `LogShowsUsage` (the log has the last usage, whichever goroutine set it); `StreamEnds` (handler and completion); `ImplementsRelay` |
| `speech` | `CompleteAudio`, `TaskProtocol`; `SpeechEnds` (the caller returns, the reader ends) |

Two runs end in a violation, each of something the repository says:

* `fallback_default`: `max_retries` is documented with "default: 3" (`api/route/v1alpha1/route.proto:54`),
  but `route.go:187` counts retries only when it is set. Without it a failing upstream is tried for ever, also after
  the client has gone or the drain has cancelled the request.
* `stream_billing`: every report of the usage filter is made in the mode of which `api/service/v1alpha1/usage_stats.proto:34-35` says
  that "each time a request is received, the usage of the request will be included". `NextChunk` runs its callbacks with `eofCancelCtx`
  (`chat_completions_stream.go:272`), made from `context.Background()` (line 223); the filter finds no metadata in it, warns and returns
  (`usage.go:88-94`). No streamed answer is ever billed, although the access log shows its usage.

### Bounds

* Local buckets: one bucket over 16 half seconds, enough for a full refill, an expiry and a second
  life; the rate 10/3 exercises truncation. Shards: three keys for two places in a shard, so one is
  evicted; `ClockStep = 0` allows equal clock readings.
* Redis: two callers, skew 2 against a window of 2 and a key that lives for 4 of 5 ticks: a reading can be
  a whole window old, and a key can run out.
* BootKit: two requests suffice for one behind and one before the gate; one other runnable can fail in every way
  there is; drain wait 1, stop timeout 3, delay 1 keep the order of the code's 30 and 60 seconds.
* Backends: three edits are create, rename and delete, or create, delete and create anew; a restart and two failing calls (one with two
  backends) can fall between any of them. Which calls may fail is chosen per run (`FailingCalls`): in the lifecycle the final update, which can
  fail twice, registration and status; with two backends the finalizer, the validator and the final update. Two model names are one to leave and
  one to come to, and with two backends one to contest.
* ModelRoutes: one route over two backends, in its own and in another namespace, one of which hides behind
  it as a base route; a valid, an invalid and a renamed spec. `MaxRouteEdits` and `MaxRouteWrites`: a deletion can come after two writes.
  `MaxRouteFaults` lets the final update fail twice, `MaxBackendEvents` lets both backends come, or one come and go; `MaxDisturbances` bounds edits, faults and
  backend events together. With one object `SoleRoute` is always true; the proof is about any number. Registries interact through equal names only, so two models suffice.
* Requests: one request of every kind next to a speech request, so that two share the balancer; the clusters differ in every
  parameter operation; two retries visit both and come back; `MaxNextCalls` bounds the counters.
  `Width64` stands for 2^64 in sizes.
* Streams: four lines hold two usages around a chunk and an end, or an error and what follows it.
* Speech: three frames; every provider with every format, markup and extra body it distinguishes.

### Fairness

`Drain` and `BootKit`: `Start` goes on, the gateway's stop hooks run and time passes. Nothing is assumed of a handler, cancelled or not:
it need not return, and runnables and hooks may hang. Controllers: watch
events arrive and a worker goes on (weak); an object in the workqueue is taken in the end (strong, since the worker is
busy in between; the workqueue is first come first served). `ModelRouteController` adds that an event does
not for ever arrive only after the Reconcile that a conflict caused (retries back off). Users, errors, restarts,
backends and the passing of the grace period are not fair. `RequestPath`: every request's goroutine goes on, and an upstream or
a service answers, at the latest when the context is cancelled; nobody is bound to cancel. `ChatStream`: the
handler and the cluster's goroutine go on; the upstream need not end, `StreamEnds` starts where it
has. A client that stays connected and stops reading is not considered: no write of the model blocks. `Speech`: both goroutines go on and the network brings an answer, an end or a failure in the end; without that
last assumption `DoSpeech` does not return, since it waits without its context.

No resync of the informer, which comes hours later, is modelled: what holds here holds without waiting for one. Two things do not, and the
properties name them. An object whose final update fails a second time stays in deletion (`DeletionIsLost`, `RouteDeletionIsLost`): while it is deleted its phase is
Healthy and the error is not returned, so only a changed status wakes the controller, and the second failure does not change it; past the grace
period, where the error is not recorded, the first may not. And an object whose model name is edited leaves the entries of the old name behind, since removal goes by the
name the spec has: `NoOrphanCluster`, `NoOrphanRoute`, `BaseRouteComesToLight` and `Converges` except names in `left` and `leftModel`.
`HealthyIsServed` and `HealthyRouteIsCurrent` except objects whose name another one has asked for as well.

`CHECK_DEADLOCK FALSE` where the system may stop: the process exits, users stop editing, requests, streams and calls end.

## What is proved

For every value of the constants that satisfies the named assumptions, by TLAPS. Type correctness, `MapIsExact`, `AbortHasCause`
and `RoutesAreMerged` are left to the proofs and not repeated in the runs; the others are also checked by the runs that name them.

* `BootKitProofs`, first part, about `Drain`: `TypeOK`, `DrainReachesAll`, `MapIsExact`, `NoSilentCut`. The inductive invariant adds
  that the drained flag is set once the hook has marked it, where the hook and the timer stand relative to each other and to the clock,
  and that a handler past the gate is in the map or was cancelled; `NoSilentCut` then follows from `TimeAssumption`:
  scheduling delay plus drain wait is less than the stop timeout.
* `BootKitProofs`, second part: the refinement `BootImplementsDrain`, and by it `NoSilentCut` and `DrainReachesAll` for the whole process;
  `BootTypeOK`, `StartedAreStopped`, `ServesWhenReady`, `AbortHasCause`. Every step of the process is a step of
  `Drain` or leaves its variables alone; that needs an invariant relating the phase of `Start` to `Drain`'s `stop`
  (not begun before "stopping", over once "ended"), the stop set to the hooks, and which start hooks run to whether the runnables have returned.
  The only assumption is that the other runnables have names of their own.
* `BackendControllerProofs`: `NoOrphanCluster`, `HealthyIsServed`, `UniqueGlobally`, for any backends of any kinds. All rest on
  `BackendInv`, which has no hypothesis: every edit has a number of its own (`Dated`), so content the API server had before it will never
  have again; where a worker is says whether its copy has the finalizer and is deleted (`Staged`); and its copy has the spec of the cached object
  unless an event came since, and then the object is queued (`Copied`). An edit by a user (`Edited`) and a step of a worker (`OwnStep`) are
  described once, and each handler is shown to be such a step.
  - `NoOrphanCluster` adds `HeldInv`: what a copy shows as held by the finalizer and not deleted is still held (`Trails`), what is registered
    stands under the name its owner has or under one it has left, and whoever is about to remove the finalizer has nothing else registered. Backends may
    be renamed and share names; the theorem has no hypothesis.
  - `HealthyIsServed` adds `ServedInv`: how far a worker without a failure has come, and that an object at rest as Healthy and alone with its name was seen
    by the Reconcile that wrote its status. No hypothesis either: that nobody else takes the registration away follows from the history of names.
  - `UniqueGlobally` adds `UniqueInv`: two backends cannot both be past the validator or at rest as Healthy with one cached name. It assumes that objects
    of a kind differ in `metadata.name` (`NamesTellApart`), since the validator compares that alone. Names may be edited and shared.
* `ModelRouteControllerProofs`, first part, about `Registry`: `RegistryTypeOK`, `RoutesAreMerged`, which needs the lemma that adding a base
  route under a match route of the same name leaves the merge as it is (the early return), and `UniqueMatch`, which needs that a route is
  filed under its own name.
* `ModelRouteControllerProofs`, second part: `UniqueMatch`, `NoOrphanRoute` and `BaseRouteComesToLight` with any number of ModelRoutes, also of one model, and
  `HealthyRouteIsCurrent`. `RouteInv` and `HeldInv` are as above; `HeldInv` says besides that a match route stands under the model of
  the ModelRoute it was made from, so that a deletion, which removes by model, removes its own, or under a model that was edited away from. `MergedInv` is `RoutesAreMerged` with
  the shape of base routes; with `HeldInv` it gives `BaseRouteComesToLight`. `HealthyRouteIsCurrent` needs `CurrentInv`: what the first
  lookup of a Reconcile reported and nobody deletes the second one finds again (`Looked`), and every target that has a backend is among the
  clusters of the route (`TargetsAreKept`, from cardinalities). The exception `SoleRoute` is needed: with two ModelRoutes of one model, TLC finds that deleting
  the second takes away the route of the first, whose status stays Healthy.
* `RedisRateLimiterProofs`: `AdmissionBound`, `DebtBound`, and that the tokens stay between that debt and the capacity. Elapsed time telescopes, negative
  or not; `DebtBound` also needs that `last_update` is never past the latest reading.
* `LocalRateLimiterProofs`: `TypeOK`, `TrackedBucketsExist`, `BucketFollowsPolicy`, `AdmissionBound`. The
  invariant relates each bucket to its history (`Good`), and `BucketFollowsPolicy` rests on `KeyDeterminesPolicy`:
  of two callers whose ids have no `:` the key determines basedOn and caller and with them the first matching policy. Ids may have one; the keys such a caller was charged to
  (`AmbiguousKeys`) are excepted, since the code joins without escaping and two policies can then meet in one bucket.
  `BoundedWait` and `ExpiryLosesNothing` need `PaceInv`: a bucket lives longer than it takes to fill (`Outlives`, from
  `TtlAssumption`: the time to live is at least twice the window, and the longest one at least a second), and
  the tokens since the last grant keep up with half the time that has passed (`Paced`), which is where the factor of two comes from. The action property
  `OnlyExpiredOrOldestLeave` needs `SpaceInv`: a sweep's clock reading is not ahead of the clock, and the buckets are finitely many, so that a full shard has an oldest one.
* `ChatStreamProofs`: `StreamIsWellFormed`, `LogShowsUsage` and the refinement `ImplementsRelay`, for streams of any length.
  `StreamInv` says for each place of the reader which positions have been written and that nothing fatal was read before
  the chunk at hand; `UsageInv` says where the last usage read is between reader, metadata and log. `Relay` speaks of the set of
  positions delivered: in that form no induction over the sequence is needed.
* `SpeechProofs`: `CompleteAudio` and `TaskProtocol`, for any calls and number of frames.
  `SpeechInv` sets the commands written against the places of the two goroutines (`Stages`, `Conversation`) and counts frames: those the
  server sent are under way, in the buffer, or in the audio (`FramesFlow`). `SpeechAssumption`: a call has a value for each member of its body.
* `RequestPathProofs`: `OnlyGrantedIsServed`, `UpstreamIsAskedRight`, `BilledOnceForServer`, `LoggedStatusIsSent`,
  `WeightsRespected` and the refinement `ImplementsGateway`. `RequestInv` is a conjunction over the requests, and the proof of
  a step is about the one that moves (`OneMoves`). Its parts: where a request is and what it cannot have yet (`Placed`), what auth
  has confirmed (`Admitted`), that a turn which served ends the loop (`Unserved`; this makes the refinement work),
  and what the clusters it met have left of its body (`Remains`). The last one is the heart of `UpstreamIsAskedRight`:
  the request is patched in place, so a retry sees what earlier clusters did, and `Remains` must be kept by a
  modifier that fails half way. It also shows why a panic has a cause: a body is lost only after a
  cluster removed the model. `RequestAssumption`: a body has a value for every key, kinds and auth outcomes are the ones the code
  distinguishes, targets name clusters.
  `WeightsRespected` is about the balancer alone (`LBInv`). The loops over the targets are recursive functions; that they are defined, what
  they add up to from any starting position, and that the scan finds a least loaded server is shown by induction.

Induction: the library's principles take a predicate, which the provers cannot instantiate. `Reaches` states induction for a *set*
of natural numbers, proved from `WFMin`, and that can be cited; `TotalsExist`, `TotalFromAnywhere` and `LeastLoadedIsLeast` rest on it.

The inductive invariants `PaceInv`, `SpaceInv`, `StreamInv`, `UsageInv`, `SpeechInv`, `RequestInv`, `BackendInv`, `HeldInv`, `ServedInv`, `UniqueInv`,
`RouteInv`, `MergedInv` and `CurrentInv` were checked by TLC on the instances of the runs before they were first proved, those of the controllers also with two
backends and with two ModelRoutes. Operators whose conditions exclude one another by order are written as IF chains rather than CASE: with CASE an
overlap would leave the choice open.

Only model-checked: every liveness property and what rests on fairness or `ENABLED`, which TLAPS does not reason about
(`FailureEndsProcess`, `DeletionCompletes`, `Converges`, `RouteDeletionCompletes`, `RoutesConverge`, `CancelledRequestEnds`,
`StreamEnds`, `SpeechEnds`). Every invariant and every other action property of the passing runs is stated by a theorem.

## Known divergences

Seen while modelling; the models follow the code. The first five were confirmed with TLC in earlier states of this project and have no run now; the runs contain the edits of names and the shared keys as exceptions of their properties.

* `local.go:85`: an expired bucket that is created anew loses its access time, eviction no longer sees it, and a
  shard outgrows "Maximum buckets per shard" (`rate_limit.go:30`).
* `local.go:50`: the rate is truncated to whole units per second, to zero for small limits
  over long windows, so a caller does not get the "Number of requests allowed in the duration window"
  (`modelroute_types.go:49`).
* `modelroute_controller.go:483`: a prefix rule is given `Match.Exact`, the empty string, as its prefix, and limits
  nobody it names ("Prefix match value", `modelroute_types.go:42`). `local_shards` has such a rule.
* `llmbackend_controller.go:195`: names "must be unique globally", but objects with one `metadata.name` in two
  namespaces are taken for the same object. The ModelRoute validator does the same.
* `llmbackend_controller.go:131`, `modelroute_controller.go:160`: removal is by model name, so deleting an object that was
  rejected as a duplicate removes what the Healthy one registered, and nothing registers it again until its next event.
* `llmbackend_controller.go:131-142`, `modelroute_controller.go:157-168`: a backend or ModelRoute whose model name is edited leaves the old name's
  entries behind until a restart, also after its deletion; a match route left behind hides the base route. A foreign finalizer keeps knoway from adding its own.
* `rate_limit.go:142`: keys are joined with `:` and not escaped, so a caller `k1:m` of model `8b` and a caller `k1` of model `m:8b` share a bucket.
* `pkg/listener/common.go:108-110` says that an error after the header "should be written as a chunk in the stream response". On an error event
  of the upstream nothing is logged or written: the reader collects it, drops the lines that follow (`chat_completions_stream.go:291-316`), and at
  the end of the body the pipe writes `data: null` (`common.go:145`). On a chunk that cannot be parsed the pipe logs the error and ends the
  stream without a chunk about it (`common.go:139-142`).
* `load_balance.go`: nothing calls `Done`, so "least request" balances requests given out, not requests under way; and
  `Desc` ands the counter with -1 instead of subtracting.
* `seedspeechv1/speech.go:116` and `cosyvoice/speech.go:276` dereference a missing `response_format`, since
  `lo.Ternary` evaluates both branches; the first turns a speech request into a recovered panic without a logged status.
* `cosyvoice/speech.go:168-176`: a reader that fails closes both channels, and a caller that selects only then may take the closed result
  for a finished task and return what audio there is with status 200; `CompleteAudio` names this case.
* Image metering with `SIZE_FROM_GREATEST` and the `user_model_name` of usage reports (the name the last attempt
  left in the request) differ from what `cluster.proto:82-90` and `usage_stats.proto:9-10` describe. Volcengine's and Koemotion's
  JSON envelopes reach the client as if they were audio, since the gateway does not call `ParseSpeechResponse` (`clusters/filters/openai/response.go:71-100`).
* The documented default duration of a rate limit is 300 seconds, the code's is one minute.

## Not modelled

* Generated code and declarations (`api`): read as documentation.
* `utils`: conversions between JSON values and Go types through their textual form, JSON paths, HTTP helpers. No property
  depends on them beyond "parses or not", which is an input of the models.
* Voice listings (static tables), the admin server's read-only endpoints, flags, environment and static configuration, the samples.
* URLs, headers, logging, tracing; durations of fallback delays.
* Conversion of a backend's spec into a cluster configuration (`processStruct`, header resolution) beyond valid or not: pure
  copying of fields.

## Plan

What is left is more model than proof. The exceptions of the controllers' properties stand where the code removes by model name; were a
removal to compare the owner and to know the old name, `left`, `leftModel`, `Alone` and `SoleRoute` could go, and the proofs show where they are used.
A backend that is renamed while a ModelRoute leads to it would need the two controllers in one module. Were `DoSpeech` to be called by the gateway,
its call would become a step of `RequestPath`.
