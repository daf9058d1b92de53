------------------------- MODULE MCRedisRateLimiter -------------------------
(* Two callers on replicas whose clocks differ by two milliseconds.        *)
EXTENDS RedisRateLimiter, TLC

MCSkew == "a" :> 2 @@ "b" :> 0
============================================================================
