----------------------------- MODULE RequestPath -----------------------------
(***************************************************************************)
(* One HTTP request from the listener to the answer: the middlewares, the  *)
(* auth filter, the parsed body, the route with its load balancer and its  *)
(* fallback loop, the cluster and its default filters, the upstream, and   *)
(* the response handler.  Each request is a goroutine; it is split where   *)
(* it waits (the auth service, the upstream, the usage service) and where  *)
(* it touches shared state (the balancer, the registered clusters).        *)
(* A streamed answer leaves the module at its first byte (ChatStream).     *)
(***************************************************************************)
EXTENDS LoadBalance, LLMErrors, ImageUsage

CONSTANTS
  Keys,            \* members of a request body, "model" among them
  ClientRequests,  \* what the client of each request may send
  AuthAnswers,     \* what the auth service may answer for each
  ClusterConfigs,  \* per cluster: defaults, overrides, removes, size, meter
  Targets,         \* the clusters of the route, in the order of its targets
  RouteModels,     \* the models the registered routes match
  Fallbacks,       \* [on, hasMax, maxRetries]: the fallback a route may have
  Replies,         \* what an upstream may answer
  MaxNextCalls     \* bound: the calls of a least-request balancer followed

Absent == "absent"
NoName == ""
DefaultMaxRetries == 3

RequestKinds == {"options", "models", "voices", "chat", "completions", "image", "tts"}
AuthOutcomes == {"ok", "NotFound", "Unauthenticated", "PermissionDenied",
                 "Unavailable", "other"}

ASSUME RequestAssumption ==
  /\ {"model", "stream_options"} \subseteq Keys
  /\ \A r \in Requests :
       /\ \A c \in ClientRequests[r] : c.kind \in RequestKinds
                                        /\ c.body = [k \in Keys |-> c.body[k]]
       /\ \A a \in AuthAnswers[r] : a.outcome \in AuthOutcomes
  /\ \A b \in Balancers : Len(b.weights) = Len(Targets)
  /\ Targets \in Seq(DOMAIN ClusterConfigs) /\ Absent \notin DOMAIN ClusterConfigs
  /\ \A f \in Fallbacks : f.maxRetries \in Nat
  /\ MaxNextCalls \in Nat \ {0}

VARIABLES
  pc,          \* where each request is
  input,       \* what its client sent
  llmRequest,  \* the parsed request: model, body, size; lost after a failed patch
  authInfo,    \* metadata.AuthInfo: the answer of the auth service
  chosen,      \* the target of the current turn of the fallback loop
  attempt,     \* the last call of an upstream: its cluster and the body sent
  tried,       \* the clusters whose request modifier ran on the request
  retried,     \* retriedCount of the fallback loop
  result,      \* response and error of the last turn, then of the handler
  sent,        \* the status written to the client, 0 while there is none
  logged,      \* metadata.StatusCode, what the access log shows
  reports,     \* usage reports the usage service received, per request
  cancelled,   \* the context of the request is done
  fallback     \* the fallback of the route, fixed when it is built

perRequest == <<pc, input, llmRequest, authInfo, chosen, attempt, tried, retried,
                result, sent, logged, reports, cancelled>>
vars == <<lbVars, perRequest, fallback>>

NoRequest == [kind |-> "none"]
NoAuth    == [outcome |-> "none", valid |-> FALSE, allow |-> {}, deny |-> {}]
NoAttempt == [cluster |-> NoName, body |-> [k \in Keys |-> Absent]]
\* usage is the sizes of the images, <<>> when there is nothing to report.
Response(status, stream, usage, model) ==
  [is |-> TRUE, status |-> status, stream |-> stream, usage |-> usage,
   model |-> model, listed |-> {}]
NoResp    == [Response(0, FALSE, <<>>, NoName) EXCEPT !.is = FALSE]
Result(resp, err) == [resp |-> resp, err |-> err]
Failed(err)       == Result(NoResp, err)

Init ==
  /\ LBInit
  /\ pc = [r \in Requests |-> "new"]
  /\ input = [r \in Requests |-> NoRequest]
  /\ llmRequest = [r \in Requests |-> NoRequest]
  /\ authInfo = [r \in Requests |-> NoAuth]
  /\ chosen = [r \in Requests |-> 0]
  /\ attempt = [r \in Requests |-> NoAttempt]
  /\ tried = [r \in Requests |-> {}]
  /\ retried = [r \in Requests |-> 0]
  /\ result = [r \in Requests |-> Failed(NoError)]
  /\ sent = [r \in Requests |-> 0]
  /\ logged = [r \in Requests |-> 0]
  /\ reports = [r \in Requests |-> <<>>]
  /\ cancelled = [r \in Requests |-> FALSE]
  /\ fallback \in Fallbacks

Goto(r, label) == pc' = [pc EXCEPT ![r] = label]

\* The handler returns; its deferred filters run before the response handler.
Return(r, res) ==
  /\ result' = [result EXCEPT ![r] = res]
  /\ Goto(r, "returned")

-----------------------------------------------------------------------------
\* The auth filter.

IsDenied(model, denyModels)   == \E rule \in denyModels : model \in rule
IsGranted(model, allowModels) ==
  allowModels = {} \/ \E rule \in allowModels : model \in rule
CanAccessModel(model, info) ==
  ~IsDenied(model, info.deny) /\ IsGranted(model, info.allow)

\* What OnRequestPre fails with: the header, the RPC, the answer.
PreError(header, answer) ==
  IF header # "key" THEN ErrorMissingAPIKey
  ELSE CASE answer.outcome \in {"NotFound", "Unauthenticated", "PermissionDenied"}
              -> ErrorIncorrectAPIKey
         [] answer.outcome = "Unavailable" -> ErrorServiceUnavailable
         [] answer.outcome = "other"       -> PlainError
         [] OTHER -> IF answer.valid THEN NoError ELSE ErrorIncorrectAPIKey

\* OnCompletionRequest: the model the client named, before any cluster
\* rewrites it.
AccessError(model, info) ==
  CASE CanAccessModel(model, info) -> NoError
    [] IsDenied(model, info.deny)  -> ErrorModelAccessDenied
    [] OTHER -> ErrorModelNotFoundOrNotAccessible

\* OnImageGenerationsRequest does the same for an image request.
ImageAccessError(model, info) == AccessError(model, info)

-----------------------------------------------------------------------------
\* The parsed request and the patches a cluster applies to it in place.

\* A stream request is made to ask the upstream for its usage.
NewChatCompletionRequest(c) ==
  [kind |-> c.kind, model |-> c.body["model"], lost |-> FALSE,
   size |-> NoSize, sizeGiven |-> FALSE, voice |-> Absent, format |-> Absent,
   body |-> [k \in Keys |-> IF c.stream /\ k = "stream_options"
                            THEN "usage" ELSE c.body[k]]]

NewImageGenerationsRequest(c) ==
  [kind |-> "image", model |-> c.body["model"], lost |-> FALSE,
   voice |-> Absent, format |-> Absent,
   size |-> RequestSize(c.sizeGiven, c.size).size, sizeGiven |-> c.sizeGiven,
   body |-> c.body]

\* The fields of a speech request, the voice among them, are read here and
\* never again.
NewTextToSpeechRequest(c) ==
  [kind |-> "tts", model |-> c.body["model"], lost |-> FALSE,
   size |-> NoSize, sizeGiven |-> FALSE, voice |-> c.body["voice"],
   format |-> c.body["response_format"], body |-> c.body]

\* The parser of the listener and the error of its checks.
ParseRequest(c) ==
  CASE c.kind = "image" -> NewImageGenerationsRequest(c)
    [] c.kind = "tts"   -> NewTextToSpeechRequest(c)
    [] OTHER            -> NewChatCompletionRequest(c)

ParseError(c) ==
  IF ~c.json THEN OpenAIInvalidBody
  ELSE IF c.kind = "image" /\ ~RequestSize(c.sizeGiven, c.size).ok
       THEN OpenAIBadRequest
  ELSE IF c.body["model"] = Absent THEN OpenAIMissingModel
  ELSE NoError

Patched(outcome, q) == [outcome |-> outcome, request |-> q]

\* A replace of a member that is gone fails and the request loses its body; on
\* a lost body it dereferences nil.
SetModel(q, name) ==
  IF q.lost THEN Patched("panic", q)
  ELSE IF q.body["model"] = Absent THEN Patched("error", [q EXCEPT !.lost = TRUE])
  ELSE Patched("ok", [q EXCEPT !.model = name, !.body["model"] = name])

\* A model in the parameters becomes the model of the request.
Renamed(q) ==
  IF q.body["model"] = Absent THEN q ELSE [q EXCEPT !.model = q.body["model"]]

\* The parameters are members of the body: the controllers take their names from
\* JSON tags, and an add at the root of an object does not fail.

\* Defaults that are laid over what the client sent.
SetDefaultParamsAlways(q, params) ==
  Renamed([q EXCEPT !.body = [k \in Keys |-> IF params[k] = Absent
                                             THEN q.body[k] ELSE params[k]]])

SetDefaultParams(q, params) ==
  Renamed([q EXCEPT !.body = [k \in Keys |-> IF q.body[k] = Absent
                                             THEN params[k] ELSE q.body[k]]])

SetOverrideParams(q, params) ==
  Renamed([q EXCEPT !.body = [k \in Keys |-> IF params[k] = Absent
                                             THEN q.body[k] ELSE params[k]]])

RemoveParamKeys(q, keys) ==
  [q EXCEPT !.body = [k \in Keys |-> IF k \in keys THEN Absent ELSE q.body[k]]]

\* The parameters of the cluster, laid over the request in this order.
Params(q, config) ==
  Patched("ok", RemoveParamKeys(SetOverrideParams(
    SetDefaultParams(q, config.defaults), config.overrides), config.removes))

\* What a loop over the parameters has patched when it stops at the size: the
\* members a map happened to yield before it.
PatchedBefore(q, config, before) ==
  LET only(params) == [k \in Keys |-> IF k \in before THEN params[k] ELSE Absent]
  IN  IF config.size.how = "default"
      THEN SetDefaultParams(q, only(config.defaults))
      ELSE [SetOverrideParams(SetDefaultParams(q, config.defaults),
                              only(config.overrides)) EXCEPT !.model = q.model]

\* The size of an image request follows a "size" among the parameters; one that
\* is no size is in the body by the time it is parsed.
ImageParams(q, config, before) ==
  LET applies == /\ config.size.how # "none"
                 /\ config.size.how = "default" => ~q.sizeGiven
      parsed  == parseImageGenerationsSizeString(config.size.parts)
      sized   == [q EXCEPT !.size = parsed.size, !.sizeGiven = TRUE]
  IN  IF ~applies THEN Params(q, config)
      ELSE IF parsed.ok THEN Params(sized, config)
      ELSE Patched("badSize", PatchedBefore(sized, config, before))

\* A speech request patches its body and keeps the fields it has parsed.
SpeechParams(q, config) == Params(q, config)

\* The members a cluster has a parameter for.
ParamKeys(config) ==
  {k \in Keys : config.defaults[k] # Absent \/ config.overrides[k] # Absent}

\* The request modifier of the default filters; before is the order of a map.
RequestModifier(q, name, config, before) ==
  LET renamed == SetModel(q, name)
  IN  IF renamed.outcome # "ok" THEN renamed
      ELSE CASE q.kind = "image" -> ImageParams(renamed.request, config, before)
             [] q.kind = "tts"   -> SpeechParams(renamed.request, config)
             [] OTHER            -> Params(renamed.request, config)

\* The marshaller fails for a speech provider that has no HTTP API, one it does
\* not know, and one that cannot express the request.
MarshalError(q, config) ==
  IF q.kind # "tts" THEN NoError
  ELSE CASE config.speech = "webSocketOnly" -> PlainError
         [] config.speech \in {"unknown", "badFormat"} -> OpenAIBadRequest
         [] OTHER -> NoError

\* Volcengine dereferences the format of a request that has none.
MarshalPanics(q, config) ==
  q.kind = "tts" /\ config.speech = "volcengine" /\ q.format = Absent

\* What goes over the wire: the body, but for a speech provider with an API of
\* its own, whose request is built from the parsed fields.
MarshalUpstreamRequest(q, config) ==
  IF q.kind = "tts" /\ config.speech # "openai"
  THEN [k \in Keys |-> CASE k = "model" -> q.model
                         [] k = "voice" -> q.voice
                         [] OTHER -> Absent]
  ELSE q.body

-----------------------------------------------------------------------------
(***************************************************************************)
(* A reply: net (no answer), or content ("json", "sse", "audio", "other"), *)
(* status, json (the body parses), body (its error members), model (the    *)
(* body has one), usage and data (the images).                             *)
(***************************************************************************)

\* A chat response takes the name of the cluster, which its body must be able
\* to carry unless it is an error.
NewChatCompletionResponse(reply, cluster) ==
  LET err == unmarshalErrorResponseFromParsedBody(reply.body, reply.status)
  IN  IF ~reply.json \/ (err = NoError /\ ~reply.model) THEN Failed(PlainError)
      ELSE Result(Response(200, FALSE, reply.usage, cluster), err)

NewImageGenerationsResponse(reply, cluster, q, config) ==
  LET usage == resolveUsage(config.meter, q.size, reply.data)
      err   == unmarshalErrorResponseFromParsedBody(reply.body, reply.status)
  IN  IF ~reply.json \/ ~usage.ok THEN Failed(PlainError)
      ELSE Result(Response(200, FALSE, usage.images, cluster), err)

\* The audio is passed on with the status of the upstream.
NewAudioResponse(reply, cluster) ==
  LET err == ParseErrorResponse(reply.json, reply.body, reply.status)
  IN  IF reply.status < 400
      THEN Result(Response(IF reply.status = 0 THEN 200 ELSE reply.status,
                           FALSE, <<>>, cluster), NoError)
      ELSE IF err.type = "openai" THEN Failed(err)
      ELSE Failed([OpenAIBadGateway EXCEPT !.upstream = TRUE])

\* The unmarshaller and the modifier of the response handler.
UnmarshalResponseBody(reply, cluster, q, config) ==
  CASE q.kind = "tts" -> NewAudioResponse(reply, cluster)
    [] q.kind = "image" /\ reply.content = "json" ->
         NewImageGenerationsResponse(reply, cluster, q, config)
    [] q.kind \notin {"tts", "image"} /\ reply.content = "json" ->
         NewChatCompletionResponse(reply, cluster)
    [] q.kind \notin {"tts", "image"} /\ reply.content = "sse" ->
         Result(Response(200, TRUE, <<>>, cluster), NoError)
    [] OTHER -> IF reply.status >= 400
                THEN Failed([OpenAIBadGateway EXCEPT !.upstream = TRUE])
                ELSE Failed(PlainError)

\* DoUpstreamRequest from the answer on: an upstream that cannot be reached is
\* a bad gateway, an error that is no LLMError an internal error.
DoUpstreamRequest(reply, cluster, q, config) ==
  LET res == UnmarshalResponseBody(reply, cluster, q, config)
  IN  IF reply.net THEN Failed(ErrorBadGateway)
      ELSE IF res.err = NoError THEN res
      ELSE [res EXCEPT !.err = LLMErrorOrInternalError(res.err)]

-----------------------------------------------------------------------------
\* The actions of a request.  The variables an action names are the ones of its
\* request; the rest of the request is unchanged.

Config(r) == ClusterConfigs[Targets[chosen[r]]]

\* WithOptions, WithRejectAfterDrained: neither needs the handler.
Receive(r) ==
  /\ pc[r] = "new"
  /\ \E c \in ClientRequests[r], hasDrained \in BOOLEAN :
       /\ input' = [input EXCEPT ![r] = c]
       /\ \/ /\ c.kind = "options"
             /\ sent' = [sent EXCEPT ![r] = 204]
             /\ Goto(r, "done")
             /\ UNCHANGED result
          \/ /\ c.kind # "options" /\ hasDrained
             /\ Return(r, Failed(ErrorServiceUnavailable))
             /\ UNCHANGED sent
          \/ /\ c.kind # "options" /\ ~hasDrained
             /\ Goto(r, "auth")
             /\ UNCHANGED <<sent, result>>
  /\ UNCHANGED <<lbVars, llmRequest, authInfo, chosen, attempt, tried, retried,
                 logged, reports, cancelled, fallback>>

\* The call of the auth service; a cancelled request fails it.
OnRequestPre(r) ==
  /\ pc[r] = "auth"
  /\ \E answer \in AuthAnswers[r] :
       LET err == PreError(input[r].header, answer)
       IN  /\ cancelled[r] => answer.outcome = "other"
           /\ authInfo' = IF input[r].header = "key" /\ answer.outcome = "ok"
                          THEN [authInfo EXCEPT ![r] = answer] ELSE authInfo
           /\ IF err = NoError THEN Goto(r, "parse") /\ UNCHANGED result
              ELSE Return(r, Failed(err))
  /\ UNCHANGED <<lbVars, input, llmRequest, chosen, attempt, tried, retried, sent,
                 logged, reports, cancelled, fallback>>

\* /v1/models and /v1/audio/voices list the clusters the caller may use; the
\* voices are asked of each provider, one that fails is left out.
ListModels(r) ==
  /\ pc[r] = "parse" /\ input[r].kind \in {"models", "voices"}
  /\ \E registered \in SUBSET DOMAIN ClusterConfigs :
     \E failing \in SUBSET (IF input[r].kind = "voices" THEN registered ELSE {}) :
       LET listed == {c \in registered \ failing : CanAccessModel(c, authInfo[r])}
       IN  Return(r, Result([Response(200, FALSE, <<>>, NoName) EXCEPT !.listed = listed],
                            NoError))
  /\ UNCHANGED <<lbVars, input, llmRequest, authInfo, chosen, attempt, tried, retried,
                 sent, logged, reports, cancelled, fallback>>

\* A handler that forgets to ask the auth filter about images.
HandlerErrorImagesFree(q, info) ==
  CASE q.kind \in {"chat", "completions"} -> AccessError(q.model, info)
    [] OTHER -> NoError

\* The filters of the listener run for completions and images.
HandlerError(q, info) ==
  CASE q.kind \in {"chat", "completions"} -> AccessError(q.model, info)
    [] q.kind = "image" -> ImageAccessError(q.model, info)
    [] OTHER -> NoError

\* The filter of the route, the only one the controllers give it; it limits no
\* speech request, and an error of the limiter itself (its Redis) is passed on.
LimitError(q, limiter) ==
  CASE q.kind = "tts" \/ limiter = "allows" -> NoError
    [] limiter = "fails" -> PlainError
    [] OTHER -> ErrorRateLimitExceeded

\* The handler up to the route: parse, ask the filters, match, and ask the rate
\* limiter of the route.
MatchRoute(r) ==
  /\ pc[r] = "parse" /\ input[r].kind \notin {"models", "voices"}
  /\ \E limiter \in {"allows", "rejects", "fails"} :
       LET q   == ParseRequest(input[r])
           err == IF ParseError(input[r]) # NoError THEN ParseError(input[r])
                  ELSE IF HandlerError(q, authInfo[r]) # NoError
                       THEN HandlerError(q, authInfo[r])
                  ELSE IF q.model \notin RouteModels
                       THEN ErrorModelNotFoundOrNotAccessible
                  ELSE LimitError(q, limiter)
       IN  IF err = NoError
           THEN /\ llmRequest' = [llmRequest EXCEPT ![r] = q]
                /\ Goto(r, "select")
                /\ UNCHANGED result
           ELSE Return(r, Failed(err)) /\ UNCHANGED llmRequest
  /\ UNCHANGED <<lbVars, input, authInfo, chosen, attempt, tried, retried, sent,
                 logged, reports, cancelled, fallback>>

\* WithRecoverWithError writes the error itself; nothing is logged or reported.
Recover(r) ==
  /\ sent' = [sent EXCEPT ![r] = 500]
  /\ Goto(r, "done")

\* One turn of the fallback loop: the first target, or the balancer's.
SelectCluster(r) ==
  /\ pc[r] = "select"
  /\ IF NextPanics THEN Recover(r) /\ UNCHANGED <<lbVars, chosen>>
     ELSE /\ UNCHANGED sent
          /\ \/ /\ NeedsNoBalancer
                /\ chosen' = [chosen EXCEPT ![r] = 1]
                /\ Goto(r, "attempt")
                /\ UNCHANGED lbVars
             \/ /\ balancer.policy = "LEAST_REQUEST" =>
                     MapThenSumSet(LAMBDA t : counts[t], Servers)
                       < MaxNextCalls
                /\ NextReads(r)
                /\ Goto(r, "store")
                /\ UNCHANGED chosen
  /\ UNCHANGED <<input, llmRequest, authInfo, attempt, tried, retried, result,
                 logged, reports, cancelled, fallback>>

StoreCluster(r) ==
  /\ pc[r] = "store"
  /\ NextWrites(r)
  /\ chosen' = [chosen EXCEPT ![r] = picked[r]]
  /\ Goto(r, "attempt")
  /\ UNCHANGED <<input, llmRequest, authInfo, attempt, tried, retried, result, sent,
                 logged, reports, cancelled, fallback>>

\* maxRetries that is zero is taken as the default.
MaxRetries ==
  IF fallback.maxRetries = 0 THEN DefaultMaxRetries ELSE fallback.maxRetries

\* Without maxRetries the loop never gives up, and it does not look at the
\* context.
GivesUp(r) == ~fallback.on \/ (fallback.hasMax /\ retried[r] >= MaxRetries)

\* A loop that retries what was served.
AfterAttemptAlways(r, res) ==
  /\ result' = [result EXCEPT ![r] = res]
  /\ Goto(r, IF GivesUp(r) THEN "returned" ELSE "select")
  /\ retried' = IF ~GivesUp(r) /\ fallback.hasMax
                THEN [retried EXCEPT ![r] = @ + 1] ELSE retried

\* A loop that does not count.
AfterAttemptUncounted(r, res) ==
  /\ result' = [result EXCEPT ![r] = res]
  /\ Goto(r, IF res.err = NoError \/ GivesUp(r) THEN "returned" ELSE "select")
  /\ UNCHANGED retried

\* The end of a turn of the fallback loop.
AfterAttempt(r, res) ==
  LET ends == res.err = NoError \/ GivesUp(r)
  IN  /\ result' = [result EXCEPT ![r] = res]
      /\ Goto(r, IF ends THEN "returned" ELSE "select")
      /\ retried' = IF ~ends /\ fallback.hasMax
                    THEN [retried EXCEPT ![r] = @ + 1] ELSE retried

\* The controllers removed the cluster while the route still names it.
ClusterGone(r) ==
  /\ pc[r] = "attempt"
  /\ AfterAttempt(r, Failed(ErrorModelNotFoundOrNotAccessible))
  /\ UNCHANGED <<lbVars, input, llmRequest, authInfo, chosen, attempt, tried, sent,
                 logged, reports, cancelled, fallback>>

\* clustermanager.HandleRequest up to the upstream call.
HandleRequest(r) ==
  /\ pc[r] = "attempt"
  /\ \E before \in SUBSET ParamKeys(Config(r)) :
     LET cluster == Targets[chosen[r]]
         made    == RequestModifier(llmRequest[r], cluster, Config(r), before)
         q       == made.request
         err     == CASE made.outcome = "error"   -> ErrorInternalError
                      [] made.outcome = "badSize" -> OpenAIBadRequest
                      [] OTHER -> MarshalError(q, Config(r))
         panics  == \/ made.outcome = "panic"
                    \/ made.outcome = "ok" /\ MarshalPanics(q, Config(r))
     IN  /\ llmRequest' = [llmRequest EXCEPT ![r] = q]
         /\ tried' = [tried EXCEPT ![r] = @ \cup {cluster}]
         /\ CASE panics ->
                   Recover(r) /\ UNCHANGED <<retried, result, attempt>>
              [] ~panics /\ err # NoError ->
                   /\ AfterAttempt(r, Failed(LLMErrorOrInternalError(err)))
                   /\ UNCHANGED <<sent, attempt>>
              [] OTHER ->
                   /\ attempt' = [attempt EXCEPT ![r] =
                        [cluster |-> cluster,
                         body |-> MarshalUpstreamRequest(q, Config(r))]]
                   /\ Goto(r, "upstream")
                   /\ UNCHANGED <<sent, retried, result>>
  /\ UNCHANGED <<lbVars, input, authInfo, chosen, logged, reports, cancelled,
                 fallback>>

\* The upstream answers; the call of a cancelled request fails.  The response
\* filters of the route have nothing to do: a rate limiter has no response hook.
UpstreamAnswers(r) ==
  /\ pc[r] = "upstream"
  /\ \E reply \in Replies :
       /\ cancelled[r] => reply.net
       /\ AfterAttempt(r, DoUpstreamRequest(reply, attempt[r].cluster,
                                            llmRequest[r], Config(r)))
  /\ UNCHANGED <<lbVars, input, llmRequest, authInfo, chosen, attempt, tried, sent,
                 logged, reports, cancelled, fallback>>

\* A report that names the model of the client.
usageReportClientModel(r) ==
  [user |-> llmRequest[r].model, upstream |-> input[r].body["model"],
   usage |-> Len(result[r].resp.usage)]

\* What the usage service is told.
usageReport(r) ==
  [user |-> llmRequest[r].model, upstream |-> result[r].resp.model,
   usage |-> IF llmRequest[r].kind = "image" THEN ReportedImages(result[r].resp.usage)
             ELSE Len(result[r].resp.usage)]

\* The deferred filters of the listener: a response, an upstream's error among
\* them, that carries usage is reported; the report may be lost.
OnCompletionResponse(r) ==
  /\ pc[r] = "returned"
  /\ \/ /\ result[r].resp.usage # <<>> /\ ~result[r].resp.stream
        /\ reports' = [reports EXCEPT ![r] = Append(@, usageReport(r))]
     \/ UNCHANGED reports
  /\ Goto(r, "respond")
  /\ UNCHANGED <<lbVars, input, llmRequest, authInfo, chosen, attempt, tried, retried,
                 result, sent, logged, cancelled, fallback>>

\* A handler that logs the status of the error it was given.
ResponseHandlerLogsCause(r) ==
  LET err == NewErrorFromLLMError(result[r].err)
  IN  /\ sent' = [sent EXCEPT ![r] = IF result[r].err = NoError
                                     THEN result[r].resp.status ELSE err.status]
      /\ logged' = [logged EXCEPT ![r] = IF result[r].err = NoError
                                         THEN 200 ELSE result[r].err.status]

\* The status the client gets and the access log shows.
ResponseHandler(r) ==
  LET status == IF result[r].err = NoError THEN result[r].resp.status
                ELSE NewErrorFromLLMError(result[r].err).status
  IN  /\ sent' = [sent EXCEPT ![r] = status]
      /\ logged' = [logged EXCEPT ![r] = status]

Respond(r) ==
  /\ pc[r] = "respond"
  /\ ResponseHandler(r)
  /\ Goto(r, "done")
  /\ UNCHANGED <<lbVars, input, llmRequest, authInfo, chosen, attempt, tried, retried,
                 result, reports, cancelled, fallback>>

-----------------------------------------------------------------------------
\* The client goes away or the drain cuts the request.  The request notices only
\* where it waits, so a cancellation in between is one that comes there.
Cancel(r) ==
  /\ pc[r] \in {"auth", "upstream"} /\ ~cancelled[r]
  /\ cancelled' = [cancelled EXCEPT ![r] = TRUE]
  /\ UNCHANGED <<lbVars, pc, input, llmRequest, authInfo, chosen, attempt, tried,
                 retried, result, sent, logged, reports, fallback>>

Step(r) ==
  \/ OnRequestPre(r) \/ ListModels(r) \/ MatchRoute(r) \/ SelectCluster(r)
  \/ StoreCluster(r) \/ ClusterGone(r) \/ HandleRequest(r)
  \/ OnCompletionResponse(r) \/ Respond(r)

Next ==
  \E r \in Requests :
    Receive(r) \/ Step(r) \/ UpstreamAnswers(r) \/ Cancel(r)

\* Goroutines run, the auth service has a deadline and a cancelled call of an
\* upstream returns; an upstream need not answer otherwise, and the client of
\* the gateway sets no deadline.
Fairness ==
  \A r \in Requests : /\ WF_vars(Step(r))
                      /\ WF_vars(cancelled[r] /\ UpstreamAnswers(r))

Spec == Init /\ [][Next]_vars /\ Fairness

-----------------------------------------------------------------------------

GrantedIsServed(r) ==
  /\ attempt[r] # NoAttempt =>
       /\ authInfo[r].valid
       /\ input[r].kind # "tts" =>
            CanAccessModel(input[r].body["model"], authInfo[r])
  /\ input[r].kind \in {"models", "voices"} /\ result[r].resp.is =>
       \A c \in result[r].resp.listed :
         authInfo[r].valid /\ ~IsDenied(c, authInfo[r].deny)

\* Nobody's model is called, nor its cluster listed, before the auth service has
\* confirmed the caller and its rules admit the name the client used: fallback,
\* renaming and a registry that changes under the request do not widen it
\* (auth.go:142-208, listener/common.go:51-66).  Speech requests are not asked
\* about their model.
OnlyGrantedIsServed == \A r \in Requests : GrantedIsServed(r)

\* The values of a member that a request may have after the clusters it met: the
\* client's or an override, and anything but the client's only if it set none or
\* a cluster removed it.
MayCarry(r, k) ==
  LET overrides == {ClusterConfigs[c].overrides[k] : c \in tried[r]} \ {Absent}
      defaults  == {ClusterConfigs[c].defaults[k] : c \in tried[r]}
      removed   == \E c \in tried[r] : k \in ClusterConfigs[c].removes
  IN  {input[r].body[k]} \cup overrides \cup
        (IF removed \/ input[r].body[k] = Absent THEN {Absent} \cup defaults ELSE {})

\* What a client set reaches every upstream as it was set, through all retries,
\* unless a cluster tried so far overrides or removes it; what it did not set
\* comes from one of them (request.go:51-74 of the cluster filters).
ClientParamsRespected(r) ==
  attempt[r] # NoAttempt /\ input[r].kind # "tts" =>
    \A k \in Keys \ {"model", "stream_options"} :
      attempt[r].body[k] \in MayCarry(r, k)

\* An upstream is asked for the model its own cluster names, whatever clusters
\* the request met before (request.go:52, chat_completions_request.go:96-107).
UpstreamModelOfCluster(r) ==
  LET config == ClusterConfigs[attempt[r].cluster]
      name   == IF config.overrides["model"] = Absent THEN attempt[r].cluster
                ELSE config.overrides["model"]
  IN  attempt[r] # NoAttempt =>
        attempt[r].body["model"] \in
          {name} \cup (IF "model" \in config.removes THEN {Absent} ELSE {})

\* A stream is asked for with its usage, without which there is none to account.
StreamAsksForUsage(r) ==
  LET touches(c) == \/ "stream_options" \in ClusterConfigs[c].removes
                    \/ ClusterConfigs[c].overrides["stream_options"] # Absent
  IN  /\ attempt[r] # NoAttempt
      /\ input[r].kind \in {"chat", "completions"} /\ input[r].stream
      /\ ~ \E c \in tried[r] : touches(c)
      => attempt[r].body["stream_options"] = "usage"

\* Every attempt, the retries of a request that other clusters have patched
\* among them, asks its upstream for the right thing: the model of the cluster,
\* the parameters of the client, and the usage of a stream (request.go:51-74 of
\* the cluster filters, chat_completions_request.go:53-166).
UpstreamIsAskedRight ==
  \A r \in Requests :
    ClientParamsRespected(r) /\ UpstreamModelOfCluster(r) /\ StreamAsksForUsage(r)

OneBill(r) ==
  /\ Len(reports[r]) <= 1
  /\ \A i \in DOMAIN reports[r] : reports[r][i].upstream = attempt[r].cluster

\* The bill of an answer that is no stream names the cluster that served, and
\* there is at most one, however many attempts were made (usage.go:79-171,
\* listener/common.go:67-79).
BilledOnceForServer == \A r \in Requests : OneBill(r)

StatusIsLogged(r) ==
  pc[r] = "done" /\ logged[r] # sent[r] =>
    \/ input[r].kind = "options" /\ sent[r] = 204
    \/ /\ logged[r] = 0 /\ sent[r] = 500
       /\ \/ NextPanics
          \/ \E c \in tried[r] : "model" \in ClusterConfigs[c].removes
          \/ /\ input[r].kind = "tts"
             /\ input[r].body["response_format"] = Absent
             /\ \E c \in tried[r] : ClusterConfigs[c].speech = "volcengine"

\* The access log shows the status the client got; the exceptions are OPTIONS
\* and a panic, and a panic has one of three causes: all targets weigh nothing, a
\* cluster removed the model that a retry has to replace, or Volcengine was asked
\* for speech of no format (http.go:16-87, middlewares.go:102-129).
LoggedStatusIsSent == \A r \in Requests : StatusIsLogged(r)

\* A request whose context is done is finished in the end, after the retries it
\* still makes (route.go:114-196); a fallback without maxRetries is the exception.
CancelledRequestEnds ==
  \A r \in Requests :
    cancelled[r] /\ (fallback.on => fallback.hasMax) ~> pc[r] = "done"

\* The comment on RouteFallback.max_retries says "default: 3" (route.proto:54): a
\* fallback that leaves max_retries out gives up too, at the latest for a request
\* that is cancelled.
FallbackGivesUp ==
  \A r \in Requests : cancelled[r] ~> pc[r] = "done"

\* The request keeps the promise of the gateway: one upstream call at a time,
\* none after it is served, one bill, one answer.
PhaseOf(r) ==
  CASE pc[r] \in {"new", "auth", "parse"}       -> "waiting"
    [] pc[r] = "upstream"                       -> "calling"
    [] pc[r] = "done"                           -> "answered"
    [] pc[r] \in {"returned", "respond"} ->
         IF result[r].err = NoError THEN "served" ELSE "failed"
    [] OTHER -> IF result[r].resp.is /\ result[r].err = NoError
                THEN "served" ELSE "admitted"

Abstract == INSTANCE Gateway WITH
  phase  <- [r \in Requests |-> PhaseOf(r)],
  billed <- [r \in Requests |-> reports[r] # <<>>]

ImplementsGateway == Abstract!GatewaySpec
=============================================================================
