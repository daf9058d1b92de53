-------------------------- MODULE LocalRateLimiter --------------------------
(***************************************************************************)
(* The in-process rate limiter (pkg/filters/ratelimit/local.go): token     *)
(* buckets with fixed-point arithmetic, kept in shards with a mutex each,  *)
(* a time-to-live per bucket, eviction when a shard is full and a cleanup  *)
(* goroutine that walks the shards with a clock value read beforehand.     *)
(*                                                                         *)
(* checkBucketLocal holds the shard's mutex from its first to its last     *)
(* statement and reads the clock under it, so one call is one step.  The   *)
(* clock counts ticks; TicksPerSecond of them are a second.                *)
(***************************************************************************)
EXTENDS RateLimitPolicy, FiniteSets

CONSTANTS
  Requests,            \* [apiKey, userName, model] of the requests that arrive
  Policies,            \* pluginPolicies, in order
  Shards,              \* the shards, visited by cleanup in any fixed order
  ShardOf(_),          \* fnv32a(key) % numShards
  Precision,           \* precision: fixed-point units per token
  MaxTTL, TtlRate,     \* maxTTL (in ticks) and ttlRate
  MaxBucketsPerShard,  \* maxBucketsPerShard
  ClockStep,           \* least difference between two clock readings (0: ties)
  MaxTime              \* bound on the model's clock

ASSUME ConstantsAssumption ==
  /\ TicksPerSecond \in Nat \ {0}
  /\ DefaultDuration \in Nat \ {0}
  /\ Precision \in Nat \ {0}
  /\ MaxTTL \in Nat \ {0}
  /\ TtlRate \in Nat \ {0}
  /\ MaxBucketsPerShard \in Nat \ {0}
  /\ ClockStep \in {0, 1}
  /\ MaxTime \in Nat

(* The code's constants: twice the window, and five minutes.               *)
ASSUME TtlAssumption == TtlRate >= 2 /\ MaxTTL >= TicksPerSecond

(* Caller ids, which the auth service issues, and model names, which the   *)
(* caller chooses, are any strings: nothing keeps a ':' out of them.       *)
ASSUME RequestsAssumption ==
  \A req \in Requests :
    /\ req.apiKey \in Seq(STRING) /\ Len(req.apiKey) > 0
    /\ req.userName \in Seq(STRING) /\ Len(req.userName) > 0
    /\ req.model \in Seq(STRING)

ASSUME PoliciesAssumption ==
  /\ Policies \in Seq([basedOn : BaseOns, limit : Int, duration : Nat,
                       match : [kind : MatchKinds, value : Seq(STRING)]])

ASSUME ShardsAssumption ==
  \A req \in Requests, i \in DOMAIN Policies : ShardOf(KeyOf(req, Policies[i])) \in Shards

VARIABLES
  now,             \* time.Now(), in ticks
  buckets,         \* shard.buckets of all shards: key -> tokenBucket
  lastAccessTime,  \* shard.lastAccessTime of all shards: key -> time
  sweep,           \* the cleanup goroutine: its clock reading, shards to visit
  reply,           \* what the last request was answered
  birth,           \* history: when each live bucket was created
  granted,         \* history: requests each live bucket admitted
  lastGrant        \* history: when each live bucket last admitted one, or birth

vars == <<now, buckets, lastAccessTime, sweep, reply, birth, granted, lastGrant>>

Keys == {KeyOf(req, Policies[i]) : req \in Requests, i \in DOMAIN Policies}

Bucket == [tokens : Int, capacity : Int, rate : Int,
           lastUpdate : Nat, oldLimit : Int, expireAt : Nat]

Put(f, k, v)   == [x \in DOMAIN f \cup {k} |-> IF x = k THEN v ELSE f[x]]
Drop(f, S)     == [x \in DOMAIN f \ S |-> f[x]]
InShard(f, s)  == {k \in DOMAIN f : ShardOf(k) = s}

-----------------------------------------------------------------------------

(* Mutant of ttl: buckets live for one window only.                        *)
ttlOneWindow(window) == window

ttl(window) == IF MaxTTL >= window * TtlRate THEN MaxTTL ELSE window * TtlRate

capacityOf(limit) == limit * Precision

(* int64(float64(newCapacity) / window.Seconds()), which truncates.  A     *)
(* negative capacity gives a negative rate that never adds tokens.         *)
rateOf(limit, window) == (capacityOf(limit) * TicksPerSecond) \div window

(* Mutant of Oldest: any bucket used before t may be evicted.              *)
OldestAny(acc, s, t) == {k \in InShard(acc, s) : acc[k] < t}

(* The shard's bucket chosen by evictOldestBucket: one with the least last *)
(* access strictly before t, or none.  Map order decides between equals.   *)
Oldest(acc, s, t) ==
  LET older == {k \in InShard(acc, s) : acc[k] < t}
  IN  {k \in older : \A j \in older : acc[k] <= acc[j]}

(* initBucket's eviction, on buckets map b and access map acc.             *)
Evictions(b, acc, s, t) ==
  IF Cardinality(InShard(b, s)) >= MaxBucketsPerShard /\ Oldest(acc, s, t) # {}
  THEN {{k} : k \in Oldest(acc, s, t)}
  ELSE {{}}

NewBucket(limit, window, t) ==
  [tokens |-> capacityOf(limit), capacity |-> capacityOf(limit),
   rate |-> rateOf(limit, window), lastUpdate |-> t, oldLimit |-> limit,
   expireAt |-> t + ttl(window)]

(* updateBucket of a bucket that has not expired.                          *)
Updated(b, limit, window, t) ==
  IF b.oldLimit # limit
  THEN [b EXCEPT !.oldLimit = limit, !.capacity = capacityOf(limit),
                 !.rate = rateOf(limit, window), !.expireAt = t + ttl(window)]
  ELSE [b EXCEPT !.expireAt = t + ttl(window)]

Expired(b, t) == t > b.expireAt

(* Mutant of Refilled: the seconds credited stay on the clock.             *)
RefilledKeepsClock(b, t) ==
  LET add == ((t - b.lastUpdate) \div TicksPerSecond) * b.rate
  IN  [b EXCEPT !.tokens = IF b.tokens + add <= b.capacity
                           THEN b.tokens + add ELSE b.capacity]

(* Mutant of Refilled: the clock moves when nothing was credited, too.     *)
RefilledMovesClock(b, t) ==
  LET add == ((t - b.lastUpdate) \div TicksPerSecond) * b.rate
  IN  [b EXCEPT !.tokens = IF b.tokens + add <= b.capacity
                           THEN b.tokens + add ELSE b.capacity,
                !.lastUpdate = t]

(* The refill of tryConsume: whole seconds only; lastUpdate moves only     *)
(* when something was added.                                               *)
Refilled(b, t) ==
  LET add == ((t - b.lastUpdate) \div TicksPerSecond) * b.rate
  IN  IF add > 0
      THEN [b EXCEPT !.tokens = IF b.tokens + add <= b.capacity
                                THEN b.tokens + add ELSE b.capacity,
                     !.lastUpdate = t]
      ELSE b

CanConsume(b) == b.tokens >= Precision

Consumed(b) == IF CanConsume(b) THEN [b EXCEPT !.tokens = @ - Precision] ELSE b

-----------------------------------------------------------------------------

NoSweep == [at |-> 0, todo |-> {}]

NoReply == [kind |-> "none", req |-> <<>>, policy |-> 0]

Init ==
  /\ now = 0
  /\ buckets = <<>>
  /\ lastAccessTime = <<>>
  /\ sweep = NoSweep
  /\ reply = NoReply
  /\ birth = <<>>
  /\ granted = <<>>
  /\ lastGrant = <<>>

(* onRequest when no bucket is consulted.                                  *)
PassThrough(req) ==
  /\ LimitingPolicy(req, Policies) = 0
  /\ reply' = [kind |-> "ok", req |-> req, policy |-> 0]
  /\ UNCHANGED <<now, buckets, lastAccessTime, sweep, birth, granted, lastGrant>>

(* The end of checkBucketLocal, at time t: the fresh bucket b0 (when the   *)
(* key had none or an expired one) or the updated one is charged and       *)
(* stored; the buckets in gone leave both maps; acc is the access map.     *)
Charge(req, i, b0, isNew, gone, acc, t) ==
  LET key == KeyOf(req, Policies[i])
      b1  == Refilled(b0, t)
      ok  == CanConsume(b1)
  IN  /\ now' = t
      /\ buckets' = Put(Drop(buckets, gone), key, Consumed(b1))
      /\ lastAccessTime' = Drop(acc, gone)
      /\ reply' = [kind |-> IF ok THEN "ok" ELSE "limited", req |-> req, policy |-> i]
      /\ birth' = Put(Drop(birth, gone), key, IF isNew THEN t ELSE birth[key])
      /\ granted' = Put(Drop(granted, gone), key,
                        (IF isNew THEN 0 ELSE granted[key]) + (IF ok THEN 1 ELSE 0))
      /\ lastGrant' = Put(Drop(lastGrant, gone), key,
                          IF ok \/ isNew THEN t ELSE lastGrant[key])
      /\ UNCHANGED sweep

(* checkBucketLocal for a key that has no bucket.                          *)
CheckNew(req, i) ==
  LET p   == Policies[i]
      key == KeyOf(req, p)
      t   == now + ClockStep
      acc == Put(lastAccessTime, key, t)
  IN  /\ key \notin DOMAIN buckets
      /\ \E gone \in Evictions(buckets, acc, ShardOf(key), t) :
           Charge(req, i, NewBucket(p.limit, Window(p), t), TRUE, gone, acc, t)

(* checkBucketLocal for a key whose bucket expired: updateBucket deletes   *)
(* the key from both maps and creates the bucket anew, and the access time *)
(* it deleted is not set again.                                            *)
CheckExpired(req, i) ==
  LET p   == Policies[i]
      key == KeyOf(req, p)
      t   == now + ClockStep
      acc == Drop(Put(lastAccessTime, key, t), {key})
  IN  /\ key \in DOMAIN buckets
      /\ Expired(buckets[key], t)
      /\ \E gone \in Evictions(Drop(buckets, {key}), acc, ShardOf(key), t) :
           Charge(req, i, NewBucket(p.limit, Window(p), t), TRUE, gone, acc, t)

(* checkBucketLocal for a key whose bucket is live.                        *)
CheckLive(req, i) ==
  LET p   == Policies[i]
      key == KeyOf(req, p)
      t   == now + ClockStep
  IN  /\ key \in DOMAIN buckets
      /\ ~Expired(buckets[key], t)
      /\ Charge(req, i, Updated(buckets[key], p.limit, Window(p), t), FALSE, {},
                Put(lastAccessTime, key, t), t)

(* onRequest of a request some policy limits.                              *)
OnRequest(req) ==
  LET i == LimitingPolicy(req, Policies)
  IN  /\ i # 0
      /\ now + ClockStep <= MaxTime
      /\ CheckNew(req, i) \/ CheckExpired(req, i) \/ CheckLive(req, i)

Tick ==
  /\ now < MaxTime
  /\ now' = now + 1
  /\ reply' = NoReply
  /\ UNCHANGED <<buckets, lastAccessTime, sweep, birth, granted, lastGrant>>

(* cleanup reads the clock once, before it takes any lock ...              *)
CleanupStart ==
  /\ sweep.todo = {}
  /\ sweep' = [at |-> now, todo |-> Shards]
  /\ reply' = NoReply
  /\ UNCHANGED <<now, buckets, lastAccessTime, birth, granted, lastGrant>>

(* Mutant of CleanupShard: the access times of removed buckets stay.       *)
CleanupShardKeepsAccess(s) ==
  LET gone == {k \in InShard(buckets, s) : Expired(buckets[k], sweep.at)}
  IN  /\ s \in sweep.todo
      /\ sweep' = IF sweep.todo = {s} THEN NoSweep ELSE [sweep EXCEPT !.todo = @ \ {s}]
      /\ buckets' = Drop(buckets, gone)
      /\ birth' = Drop(birth, gone)
      /\ granted' = Drop(granted, gone)
      /\ lastGrant' = Drop(lastGrant, gone)
      /\ reply' = NoReply
      /\ UNCHANGED <<now, lastAccessTime>>

(* ... and then visits the shards one by one, under each shard's lock.     *)
CleanupShard(s) ==
  LET gone == {k \in InShard(buckets, s) : Expired(buckets[k], sweep.at)}
  IN  /\ s \in sweep.todo
      /\ sweep' = IF sweep.todo = {s} THEN NoSweep ELSE [sweep EXCEPT !.todo = @ \ {s}]
      /\ buckets' = Drop(buckets, gone)
      /\ lastAccessTime' = Drop(lastAccessTime, gone)
      /\ birth' = Drop(birth, gone)
      /\ granted' = Drop(granted, gone)
      /\ lastGrant' = Drop(lastGrant, gone)
      /\ reply' = NoReply
      /\ UNCHANGED now

Next ==
  \/ \E req \in Requests : PassThrough(req) \/ OnRequest(req)
  \/ Tick
  \/ CleanupStart
  \/ \E s \in Shards : CleanupShard(s)

Spec == Init /\ [][Next]_vars

-----------------------------------------------------------------------------
(* Type correctness of the two maps, the sweep and the history.            *)
TypeOK ==
  /\ now \in 0..MaxTime
  /\ DOMAIN buckets \subseteq Keys
  /\ \A k \in DOMAIN buckets : buckets[k] \in Bucket
  /\ DOMAIN lastAccessTime \subseteq Keys
  /\ \A k \in DOMAIN lastAccessTime : lastAccessTime[k] \in Nat
  /\ sweep \in [at : 0..MaxTime, todo : SUBSET Shards]
  /\ reply \in [kind : {"none", "ok", "limited"}, req : Requests \cup {<<>>},
                 policy : {0} \cup DOMAIN Policies]
  /\ DOMAIN birth = DOMAIN buckets
  /\ DOMAIN granted = DOMAIN buckets
  /\ DOMAIN lastGrant = DOMAIN buckets
  /\ \A k \in DOMAIN buckets :
       birth[k] \in Nat /\ granted[k] \in Nat /\ lastGrant[k] \in Nat

(* Every key with an access time has a bucket: what evictOldestBucket      *)
(* picks from lastAccessTime really frees a slot of the shard.             *)
TrackedBucketsExist == DOMAIN lastAccessTime \subseteq DOMAIN buckets

(* The keys to which a caller is charged whose id has a ':' in it.  The    *)
(* rest of such an id can be taken for the beginning of a model name, so   *)
(* another caller, under another policy, may have the same key             *)
(* (rate_limit.go:142, buildKey).                                          *)
AmbiguousKeys ==
  LET charged == {req \in Requests : LimitingPolicy(req, Policies) # 0}
      policy(req) == Policies[LimitingPolicy(req, Policies)]
  IN  {KeyOf(req, policy(req)) :
         req \in {q \in charged : Len(BaseValue(policy(q).basedOn, q)) > 1}}

(* A bucket is only ever used under the one policy it was created for, so  *)
(* its limit, capacity and rate are that policy's and updateBucket never   *)
(* has a changed limit to apply: of the policies with one basedOn, the     *)
(* first that matches a value is the same for every request with it.  The  *)
(* exception, here and below, are the ambiguous keys.                      *)
BucketFollowsPolicy ==
  \A req \in Requests :
    LET i == LimitingPolicy(req, Policies)
        p == Policies[i]
    IN  (i # 0 /\ KeyOf(req, p) \in DOMAIN buckets \ AmbiguousKeys) =>
          LET b == buckets[KeyOf(req, p)]
          IN  /\ b.oldLimit = p.limit
              /\ b.capacity = capacityOf(p.limit)
              /\ b.rate = rateOf(p.limit, Window(p))

(* What a bucket has admitted since it was created is at most its capacity *)
(* plus its rate for every whole second up to its last refill, however     *)
(* requests and clock ticks interleave; what is left of that is at least   *)
(* the tokens it still holds.                                              *)
AdmissionBound ==
  \A k \in DOMAIN buckets \ AmbiguousKeys :
    LET b == buckets[k]
    IN  Precision * granted[k] + b.tokens
          <= b.capacity + ((b.lastUpdate - birth[k]) \div TicksPerSecond) * b.rate

CeilDiv(a, b) == (a + b - 1) \div b

(* A client is not starved by asking too often: once a bucket with a       *)
(* positive rate refuses, its last admission is less than twice the time   *)
(* one token takes to refill, plus a second, ago.  (Each refill credits    *)
(* whole seconds and forgets the fraction, hence the factor of two.)       *)
BoundedWait ==
  reply.kind = "limited" =>
    LET p == Policies[reply.policy]
        k == KeyOf(reply.req, p)
        r == buckets[k].rate
    IN  (k \notin AmbiguousKeys /\ p.limit > 0 /\ r > 0) =>
          now - lastGrant[k] < (2 * CeilDiv(Precision, r) + 1) * TicksPerSecond

(* Forgetting an expired bucket gives nothing away: the refill would have  *)
(* filled it by then.  The time-to-live is twice the window because the    *)
(* rate is truncated (local.go: ttl = max(maxTTL, window*ttlRate)).        *)
ExpiryLosesNothing ==
  \A k \in DOMAIN buckets \ AmbiguousKeys :
    LET b == buckets[k]
    IN  Expired(b, now) /\ b.rate > 0 => Refilled(b, now).tokens = b.capacity

(* A bucket leaves its shard only when it has expired by now, or when the  *)
(* shard is full and no live tracked bucket was used less recently; the    *)
(* cleanup goroutine's older clock reading never removes a live bucket.    *)
OnlyExpiredOrOldestLeave ==
  [][\A k \in DOMAIN buckets \ DOMAIN buckets' :
       LET mates == InShard(buckets, ShardOf(k))
       IN  \/ Expired(buckets[k], now')
           \/ /\ Cardinality(mates) >= MaxBucketsPerShard
              /\ k \in DOMAIN lastAccessTime
              /\ \A j \in mates \cap DOMAIN lastAccessTime :
                   lastAccessTime[k] <= lastAccessTime[j] \/ Expired(buckets[j], now')]_vars
============================================================================
