-------------------------- MODULE RateLimitPolicy --------------------------
(***************************************************************************)
(* How a request is matched with a rate-limit policy, and how the rules of *)
(* a ModelRoute become policies (pkg/filters/ratelimit/rate_limit.go and   *)
(* internal/controller/modelroute_controller.go).                          *)
(*                                                                         *)
(* A string is the sequence of its ':'-separated segments, so joining two  *)
(* strings with ':' is concatenation.  HasPrefix is strings.HasPrefix.     *)
(***************************************************************************)
EXTENDS Integers, Sequences

CONSTANTS
  Empty,              \* the empty string: one empty segment
  HasPrefix(_, _),    \* strings.HasPrefix(value, prefix)
  TicksPerSecond,     \* resolution of the model's clock
  DefaultDuration     \* defaultDuration, in ticks

BaseOns == {"UNSPECIFIED", "API_KEY", "USER_ID"}

(* StringMatch as the code reads it: a nil message, a message whose oneof  *)
(* is unset, or one of its two cases.                                      *)
MatchKinds == {"nil", "unset", "exact", "prefix"}

GetExact(m)  == IF m.kind = "exact"  THEN m.value ELSE Empty
GetPrefix(m) == IF m.kind = "prefix" THEN m.value ELSE Empty

(* The part of the request a policy looks at.                              *)
BaseValue(basedOn, req) ==
  IF basedOn = "API_KEY" THEN req.apiKey ELSE req.userName

Matched(policy, value) ==
  \/ policy.match.kind = "nil"
  \/ GetExact(policy.match) = value
  \/ GetPrefix(policy.match) # Empty /\ HasPrefix(value, GetPrefix(policy.match))

Applies(policy, req) ==
  /\ policy.basedOn \in {"API_KEY", "USER_ID"}
  /\ Matched(policy, BaseValue(policy.basedOn, req))

(* The index of the first policy that applies, 0 when there is none.       *)
findMatchingPolicy(req, policies) ==
  LET applying == {i \in DOMAIN policies : Applies(policies[i], req)}
  IN  IF applying = {} THEN 0
      ELSE CHOOSE i \in applying : \A j \in applying : i <= j

(* Mutant of buildKey: the caller is left out of the key.                  *)
buildKeyPerModel(basedOn, value, model) == <<basedOn>> \o model

(* buildKey: "prefix:basedOn:value:model" without the server prefix, which *)
(* is the same for every key of one rate limiter.                          *)
buildKey(basedOn, value, model) == <<basedOn>> \o value \o model

(* The window checkBucket gets: a zero duration is the default one.        *)
Window(policy) == IF policy.duration = 0 THEN DefaultDuration ELSE policy.duration

(* The policy index a request is limited by, 0 when it is let through      *)
(* without looking at any bucket: nobody to charge, no policy, limit 0.    *)
LimitingPolicy(req, policies) ==
  LET i == findMatchingPolicy(req, policies)
  IN  IF \/ req.apiKey = Empty /\ req.userName = Empty
         \/ i = 0
         \/ policies[i].limit = 0
      THEN 0 ELSE i

(* The bucket a request is charged to under policy p.                      *)
KeyOf(req, p) == buildKey(p.basedOn, BaseValue(p.basedOn, req), req.model)

-----------------------------------------------------------------------------
(* ModelRoute rules: match is NULL or has an exact and a prefix string.    *)

CRDMatch(rule) ==
  CASE ~rule.hasMatch        -> [kind |-> "nil", value |-> Empty]
    [] rule.hasMatch /\ rule.exact # Empty -> [kind |-> "exact", value |-> rule.exact]
    [] rule.hasMatch /\ rule.exact = Empty /\ rule.prefix # Empty ->
         [kind |-> "prefix", value |-> rule.exact]
    [] OTHER                 -> [kind |-> "nil", value |-> Empty]

MapCRDRateLimitBaseOn(basedOn) ==
  CASE basedOn = "APIKey" -> "API_KEY"
    [] basedOn = "UserID" -> "USER_ID"
    [] OTHER              -> "UNSPECIFIED"

(* The CRD's duration is in seconds.  Limits are taken to fit in an int32, *)
(* so the narrowing int32(rule.Limit) does not change them.                *)
buildRateLimitPolicies(rules) ==
  [i \in DOMAIN rules |->
     [basedOn  |-> MapCRDRateLimitBaseOn(rules[i].basedOn),
      limit    |-> rules[i].limit,
      duration |-> rules[i].duration * TicksPerSecond,
      match    |-> CRDMatch(rules[i])]]
============================================================================
