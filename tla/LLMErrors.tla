------------------------------ MODULE LLMErrors ------------------------------
(***************************************************************************)
(* The errors of the gateway: the neutral errors of pkg/object, the OpenAI *)
(* errors of pkg/types/openai, and how an upstream response or a speech    *)
(* provider's answer becomes one of them.  An error is a record: "plain"   *)
(* is a Go error that is no LLMError (a wrapped one included: IsLLMError   *)
(* asserts the type of the outermost error only), "base" is a              *)
(* BaseLLMError, "openai" an ErrorResponse.  Messages are left out.        *)
(***************************************************************************)
EXTENDS Integers

NoCode == ""

LLMError(type, status, code) ==
  [type |-> type, status |-> status, code |-> code, upstream |-> FALSE]

NoError    == LLMError("none", 0, NoCode)
PlainError == LLMError("plain", 0, NoCode)

IsLLMError(err) == err.type \in {"base", "openai"}

-----------------------------------------------------------------------------
\* pkg/object: one constructor per code.
ErrorModelNotFoundOrNotAccessible == LLMError("base", 404, "model_not_found")
ErrorModelAccessDenied  == LLMError("base", 403, "model_access_denied")
ErrorRateLimitExceeded  == LLMError("base", 429, "model_rate_limit_exceeded")
ErrorInsufficientQuota  == LLMError("base", 402, "insufficient_quota")
ErrorMissingAPIKey      == LLMError("base", 401, "missing_api_key")
ErrorIncorrectAPIKey    == LLMError("base", 401, "incorrect_api_key")
ErrorMissingModel       == LLMError("base", 404, "missing_model")
ErrorInternalError      == LLMError("base", 500, "internal_error")
ErrorBadGateway         == LLMError("base", 502, "bad_gateway")
ErrorServiceUnavailable == LLMError("base", 503, "service_unavailable")

\* A cluster turns whatever a filter returned into an LLMError.
LLMErrorOrInternalError(err) ==
  IF IsLLMError(err) THEN err ELSE ErrorInternalError

-----------------------------------------------------------------------------
\* pkg/types/openai: the same errors as the OpenAI API words them.
NewErrorResponse(status, code) == LLMError("openai", status, code)

OpenAIMissingAPIKey     == NewErrorResponse(401, NoCode)
OpenAIIncorrectAPIKey   == NewErrorResponse(401, "invalid_api_key")
OpenAIBadRequest        == NewErrorResponse(400, NoCode)
OpenAIMissingModel      == NewErrorResponse(400, NoCode)
OpenAIInvalidBody       == NewErrorResponse(400, NoCode)
OpenAIModelNotFoundOrNotAccessible == NewErrorResponse(404, "model_not_found")
OpenAIModelAccessDenied == NewErrorResponse(403, "model_access_denied")
OpenAIQuotaExceeded     == NewErrorResponse(402, "insufficient_quota")
OpenAIMissingParameter  == NewErrorResponse(400, "missing_required_parameter")
OpenAIInternalError     == NewErrorResponse(500, NoCode)
OpenAIBadGateway        == NewErrorResponse(502, NoCode)
OpenAIServiceUnavailable == NewErrorResponse(503, NoCode)

\* What the client is shown of an error: openai errors as they are, base
\* errors by their code (an unknown code keeps its status), plain ones as an
\* internal error.
NewErrorFromLLMError(err) ==
  IF ~IsLLMError(err) THEN OpenAIInternalError
  ELSE IF err.type = "openai" THEN err
  ELSE CASE err.code = "model_not_found" -> OpenAIModelNotFoundOrNotAccessible
         [] err.code = "model_access_denied" -> OpenAIModelAccessDenied
         [] err.code = "insufficient_quota"  -> OpenAIQuotaExceeded
         [] err.code = "missing_api_key"     -> OpenAIMissingAPIKey
         [] err.code = "incorrect_api_key"   -> OpenAIIncorrectAPIKey
         [] err.code = "missing_model"       -> OpenAIMissingModel
         [] err.code = "service_unavailable" -> OpenAIServiceUnavailable
         [] err.code = "internal_error"      -> OpenAIInternalError
         [] err.code = "bad_gateway"         -> OpenAIBadGateway
         [] OTHER -> NewErrorResponse(err.status, err.code)

-----------------------------------------------------------------------------
(***************************************************************************)
(* The body of an upstream answer: its "error" member (absent, an object,  *)
(* an object with OpenRouter's metadata.raw, or a text), whether its       *)
(* "object" member is "error" (vLLM), and its "message" member.            *)
(***************************************************************************)
UpstreamError(status, code) ==
  [NewErrorResponse(status, code) EXCEPT !.upstream = TRUE]

\* NoError is the nil error: the answer is no error.
unmarshalErrorResponseFromParsedBody(body, status) ==
  CASE body.error \in {"raw", "map"} -> UpstreamError(status, "upstream")
    [] body.error = "text"           -> UpstreamError(status, NoCode)
    [] OTHER ->
         IF status \notin 400..599 THEN NoError
         ELSE IF ~body.objectIsError THEN UpstreamError(status, NoCode)
         ELSE IF body.message = "empty" THEN NoError
         ELSE UpstreamError(status, "upstream")

\* ParseErrorResponse: the same for a body that may be no JSON at all.
ParseErrorResponse(json, body, status) ==
  IF json THEN unmarshalErrorResponseFromParsedBody(body, status)
  ELSE PlainError

\* The answer of a speech provider with an error status.
ParseUpstreamError(json, body, status) ==
  IF json /\ body.error \in {"raw", "map"}
  THEN LLMError("base", status, "upstream")
  ELSE ErrorBadGateway
=============================================================================
