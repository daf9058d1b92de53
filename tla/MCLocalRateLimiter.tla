------------------------ MODULE MCLocalRateLimiter ------------------------
(***************************************************************************)
(* Small instances of LocalRateLimiter: API keys, one user, a key and a    *)
(* model name that contain a ':'.                                          *)
(***************************************************************************)
EXTENDS LocalRateLimiter

E == <<"">>
K1 == <<"k1">>
K2 == <<"k2">>
K1M == <<"k1", "m">>
U1 == <<"u1">>
M1 == <<"m">>
M2 == <<"m", "8b">>

MCHasPrefix(v, p) == <<v, p>> \in {<<K1, <<"k">>>>, <<K2, <<"k">>>>}

Req(a, u, m) == [apiKey |-> a, userName |-> u, model |-> m]
Match(kind, v) == [kind |-> kind, value |-> v]
Policy(b, l, d, m) == [basedOn |-> b, limit |-> l, duration |-> d, match |-> m]

(* One bucket, two tokens per three seconds, and every interleaving of its *)
(* requests with the clock: the rate 10/3 is truncated.  A request without *)
(* anybody to charge is let through.                                       *)
BucketRequests == {Req(K1, U1, M1), Req(E, E, M1)}
BucketPolicies == << Policy("API_KEY", 2, 6, Match("prefix", <<"k">>)) >>

(* The rules of a ModelRoute, and the policies the controller builds from  *)
(* them.  The first has no basedOn and never applies; the third, a prefix  *)
(* rule, becomes one that only callers without an API key fall under.  The *)
(* key "k1:m" asking for "8b" shares a bucket with "k1" asking for "m:8b", *)
(* under another limit.  So there are three buckets, one of them shared.   *)
Rule(b, l, d, exact, prefix) ==
  [basedOn |-> b, limit |-> l, duration |-> d, exact |-> exact, prefix |-> prefix,
   hasMatch |-> exact # E \/ prefix # E]
ShardRequests ==
  {Req(K1, U1, M2), Req(K1M, U1, <<"8b">>), Req(K2, U1, M2), Req(E, U1, M2)}
ShardPolicies ==
  buildRateLimitPolicies(
    << Rule("None", 1, 2, E, E), Rule("APIKey", 2, 1, K1, E),
       Rule("APIKey", 1, 1, E, <<"k">>), Rule("APIKey", 1, 1, K1M, E),
       Rule("UserID", 1, 0, E, E) >>)

(* All keys share a shard.                                                 *)
MCShardOf(k) == "s1"
============================================================================
