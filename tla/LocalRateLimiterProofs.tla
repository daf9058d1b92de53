----------------------- MODULE LocalRateLimiterProofs -----------------------
(***************************************************************************)
(* Proofs about LocalRateLimiter, for any requests, policies, shards and   *)
(* clock: a bucket whose callers' ids have no ':' belongs to one policy    *)
(* for life, and admits no more than its policy gives it.                  *)
(***************************************************************************)
EXTENDS LocalRateLimiter, FiniteSetTheorems, SequenceTheorems, WellFoundedInduction,
        TLAPS

(* A nonempty set of natural numbers has a least element.                  *)
LEMMA LeastNatural ==
  ASSUME NEW S, S \subseteq Nat, S # {}
  PROVE  \E i \in S : \A j \in S : i <= j
<1>1. PICK i \in S : \A j \in S : ~(<<j, i>> \in OpToRel(<, Nat))
  BY WFMin, NatLessThanWellFounded
<1>2. \A j \in S : <<j, i>> \in Nat \X Nat
  OBVIOUS
<1>3. \A j \in S : ~(j < i)
  BY <1>1, <1>2 DEF OpToRel
<1>4. QED
  BY <1>3

(* The policy a request is limited by applies to it, and is the first that *)
(* does.                                                                   *)
LEMMA LimitingPolicyFacts ==
  ASSUME NEW req \in Requests, LimitingPolicy(req, Policies) # 0
  PROVE  LET i == LimitingPolicy(req, Policies)
         IN  /\ i \in DOMAIN Policies
             /\ Applies(Policies[i], req)
             /\ \A j \in DOMAIN Policies : Applies(Policies[j], req) => i <= j
<1> DEFINE A == {i \in DOMAIN Policies : Applies(Policies[i], req)}
           first == CHOOSE i \in A : \A j \in A : i <= j
<1>1. LimitingPolicy(req, Policies) = findMatchingPolicy(req, Policies)
  BY DEF LimitingPolicy
<1>2. A # {} /\ findMatchingPolicy(req, Policies) = first
  BY <1>1 DEF findMatchingPolicy
<1>3. A \subseteq Nat
  BY PoliciesAssumption
<1>4. \E i \in A : \A j \in A : i <= j
  <2> HIDE DEF A
  <2> QED
    BY <1>2, <1>3, LeastNatural
<1>5. first \in A /\ \A j \in A : first <= j
  BY <1>4
<1>6. QED
  BY <1>1, <1>2, <1>5

(* The first two segments of a key.                                        *)
LEMMA KeyHead ==
  ASSUME NEW b, NEW v \in Seq(STRING), Len(v) = 1, NEW m \in Seq(STRING)
  PROVE  buildKey(b, v, m)[1] = b /\ buildKey(b, v, m)[2] = v[1]
<1> DEFINE S == STRING \cup {b}
<1>1. <<b>> \in Seq(S) /\ v \in Seq(S) /\ m \in Seq(S)
  OBVIOUS
<1>2. /\ <<b>> \o v \in Seq(S) /\ Len(<<b>> \o v) = 2
      /\ (<<b>> \o v)[1] = b /\ (<<b>> \o v)[2] = v[1]
  <2> DEFINE g == <<b>>
  <2>1. g \in Seq(S) /\ Len(g) = 1 /\ g[1] = b /\ v \in Seq(S)
    BY <1>1
  <2> HIDE DEF S, g
  <2>2. g \o v \in Seq(S) /\ Len(g \o v) = 2 /\ (g \o v)[1] = b /\ (g \o v)[2] = v[1]
    BY <2>1, ConcatProperties
  <2>3. QED
    BY <2>2 DEF g
<1>3. /\ ((<<b>> \o v) \o m)[1] = (<<b>> \o v)[1]
      /\ ((<<b>> \o v) \o m)[2] = (<<b>> \o v)[2]
  <2> HIDE DEF S
  <2> DEFINE h == <<b>> \o v
  <2>1. h \in Seq(S) /\ Len(h) = 2 /\ m \in Seq(S)
    BY <1>1, <1>2
  <2> HIDE DEF h
  <2>2. (h \o m)[1] = h[1] /\ (h \o m)[2] = h[2]
    BY <2>1, ConcatProperties
  <2>3. QED
    BY <2>2 DEF h
<1>4. QED
  BY <1>2, <1>3 DEF buildKey

(* Two keys are equal only for one basedOn and one caller id: the id has   *)
(* no ':' and so cannot run into the model name.                           *)
LEMMA KeyInjective ==
  ASSUME NEW r1 \in Requests, NEW r2 \in Requests, NEW b1, NEW b2,
         Len(BaseValue(b1, r1)) = 1, Len(BaseValue(b2, r2)) = 1,
         buildKey(b1, BaseValue(b1, r1), r1.model) = buildKey(b2, BaseValue(b2, r2), r2.model)
  PROVE  b1 = b2 /\ BaseValue(b1, r1) = BaseValue(b2, r2)
<1> DEFINE v1 == BaseValue(b1, r1)
           v2 == BaseValue(b2, r2)
<1>1. v1 \in Seq(STRING) /\ Len(v1) = 1 /\ v2 \in Seq(STRING) /\ Len(v2) = 1
  BY RequestsAssumption DEF BaseValue
<1>2. r1.model \in Seq(STRING) /\ r2.model \in Seq(STRING)
  BY RequestsAssumption
<1>3. buildKey(b1, v1, r1.model)[1] = b1 /\ buildKey(b2, v2, r2.model)[1] = b2
  BY <1>1, <1>2, KeyHead
<1>4. buildKey(b1, v1, r1.model)[2] = v1[1] /\ buildKey(b2, v2, r2.model)[2] = v2[1]
  BY <1>1, <1>2, KeyHead
<1>5. v1 = v2
  BY <1>1, <1>3, <1>4
<1>6. QED
  BY <1>3, <1>5

(* The ids that are charged to a key that is not ambiguous have no ':'.    *)
LEMMA PlainIds ==
  ASSUME NEW req \in Requests, LimitingPolicy(req, Policies) # 0,
         KeyOf(req, Policies[LimitingPolicy(req, Policies)]) \notin AmbiguousKeys
  PROVE  Len(BaseValue(Policies[LimitingPolicy(req, Policies)].basedOn, req)) = 1
<1> DEFINE p == Policies[LimitingPolicy(req, Policies)]
           v == BaseValue(p.basedOn, req)
<1>1. v \in Seq(STRING) /\ Len(v) > 0
  BY RequestsAssumption DEF BaseValue
<1>2. ~(Len(v) > 1)
  <2> SUFFICES ASSUME Len(v) > 1 PROVE KeyOf(req, p) \in AmbiguousKeys
    OBVIOUS
  <2> DEFINE charged == {q \in Requests : LimitingPolicy(q, Policies) # 0}
             policy(q) == Policies[LimitingPolicy(q, Policies)]
             long == {q \in charged : Len(BaseValue(policy(q).basedOn, q)) > 1}
  <2>1. req \in long
    OBVIOUS
  <2>2. KeyOf(req, policy(req)) \in {KeyOf(q, policy(q)) : q \in long}
    <3> HIDE DEF long
    <3>1. QED
      BY <2>1
  <2>3. QED
    BY <2>2 DEF AmbiguousKeys
<1> HIDE DEF v
<1>3. Len(v) = 1
  <2> DEFINE n == Len(v)
  <2>1. n \in Nat /\ n > 0 /\ ~(n > 1)
    BY <1>1, <1>2, LenProperties
  <2> HIDE DEF n
  <2>2. n = 1
    BY <2>1
  <2>3. QED
    BY <2>2 DEF n
<1>4. QED
  BY <1>3 DEF v

(* Requests that share a bucket are limited by one and the same policy,    *)
(* unless an id that is charged to it has a ':' in it.                     *)
LEMMA KeyDeterminesPolicy ==
  ASSUME NEW r1 \in Requests, NEW r2 \in Requests,
         LimitingPolicy(r1, Policies) # 0, LimitingPolicy(r2, Policies) # 0,
         KeyOf(r1, Policies[LimitingPolicy(r1, Policies)])
           = KeyOf(r2, Policies[LimitingPolicy(r2, Policies)]),
         KeyOf(r1, Policies[LimitingPolicy(r1, Policies)]) \notin AmbiguousKeys
  PROVE  LimitingPolicy(r1, Policies) = LimitingPolicy(r2, Policies)
<1> DEFINE i == LimitingPolicy(r1, Policies)
           j == LimitingPolicy(r2, Policies)
<1>1. /\ i \in DOMAIN Policies /\ Applies(Policies[i], r1)
      /\ \A x \in DOMAIN Policies : Applies(Policies[x], r1) => i <= x
  BY LimitingPolicyFacts
<1>2. /\ j \in DOMAIN Policies /\ Applies(Policies[j], r2)
      /\ \A x \in DOMAIN Policies : Applies(Policies[x], r2) => j <= x
  BY LimitingPolicyFacts
<1>3. /\ Policies[i].basedOn = Policies[j].basedOn
      /\ BaseValue(Policies[i].basedOn, r1) = BaseValue(Policies[j].basedOn, r2)
  <2> HIDE DEF i, j
  <2>1. KeyOf(r1, Policies[i]) = KeyOf(r2, Policies[j])
    BY DEF i, j
  <2>2. /\ Len(BaseValue(Policies[i].basedOn, r1)) = 1
        /\ Len(BaseValue(Policies[j].basedOn, r2)) = 1
    BY PlainIds DEF i, j
  <2>3. QED
    BY <2>1, <2>2, KeyInjective DEF KeyOf
<1>4. Applies(Policies[i], r2) /\ Applies(Policies[j], r1)
  BY <1>1, <1>2, <1>3 DEF Applies
<1>5. i \in Nat /\ j \in Nat
  BY <1>1, <1>2, PoliciesAssumption
<1> HIDE DEF i, j
<1>6. i <= j /\ j <= i
  BY <1>1, <1>2, <1>4
<1>7. i = j
  BY <1>5, <1>6
<1>8. QED
  BY <1>7 DEF i, j

-----------------------------------------------------------------------------

(* Whole seconds counted piecewise are at most the whole seconds of the    *)
(* sum: the fractions that are dropped never come back.                    *)
LEMMA DivSum ==
  ASSUME NEW x \in Nat, NEW y \in Nat, NEW K \in Nat \ {0}
  PROVE  /\ x \div K \in Nat /\ y \div K \in Nat /\ (x + y) \div K \in Nat
         /\ x \div K + y \div K <= (x + y) \div K
<1> DEFINE p == x \div K
           q == y \div K
           s == (x + y) \div K
<1>1. p \in Nat /\ q \in Nat /\ s \in Nat
  OBVIOUS
<1>2. K * p <= x /\ K * q <= y /\ x + y < K * s + K
  OBVIOUS
<1> HIDE DEF p, q, s
<1>3. K * (p + q) = K * p + K * q /\ K * (s + 1) = K * s + K
  BY <1>1
<1>4. K * (p + q) < K * (s + 1)
  BY <1>1, <1>2, <1>3
<1>5. p + q < s + 1
  BY <1>1, <1>4
<1>6. QED
  BY <1>1, <1>5 DEF p, q, s

(* Premises of a refill, on plain integers: T tokens of capacity c at rate *)
(* r, born at b, last refilled at l, now t, G requests admitted.           *)
RefillBefore(T, c, r, b, l, t, G) ==
  /\ T \in Int /\ c \in Int /\ r \in Int /\ b \in Nat /\ l \in Nat /\ t \in Nat /\ G \in Nat
  /\ b <= l /\ l <= t
  /\ Precision * G + T <= c + ((l - b) \div TicksPerSecond) * r
  /\ ((t - l) \div TicksPerSecond) * r > 0

(* A refill keeps the admission bound, with the later refill time.         *)
LEMMA RefillBound ==
  ASSUME NEW T, NEW c, NEW r, NEW b, NEW l, NEW t, NEW G, RefillBefore(T, c, r, b, l, t, G)
  PROVE  Precision * G + T + ((t - l) \div TicksPerSecond) * r
           <= c + ((t - b) \div TicksPerSecond) * r
<1> USE ConstantsAssumption DEF RefillBefore
<1> DEFINE x == (l - b) \div TicksPerSecond
           y == (t - l) \div TicksPerSecond
           z == (t - b) \div TicksPerSecond
<1>1. x \in Nat /\ y \in Nat /\ z \in Nat /\ x + y <= z
  <2>1. l - b \in Nat /\ t - l \in Nat /\ (l - b) + (t - l) = t - b
    OBVIOUS
  <2>2. QED
    BY <2>1, DivSum
<1>2. Precision * G \in Int /\ Precision * G + T <= c + x * r /\ y * r > 0
  OBVIOUS
<1> HIDE DEF x, y, z
<1>3. r > 0
  BY <1>1, <1>2
<1>4. (x + y) * r = x * r + y * r /\ (x + y) * r <= z * r
  BY <1>1, <1>3
<1>5. x * r \in Int /\ y * r \in Int /\ z * r \in Int
  BY <1>1
<1>6. Precision * G + T + y * r <= c + z * r
  BY <1>2, <1>4, <1>5
<1>7. QED
  BY <1>6 DEF x, y, z

-----------------------------------------------------------------------------

(* A bucket b, born at bi, that admitted G requests, seen at time t.       *)
Good(b, bi, G, t) ==
  /\ b \in Bucket /\ bi \in Nat /\ G \in Nat /\ t \in Nat
  /\ bi <= b.lastUpdate /\ b.lastUpdate <= t
  /\ Precision * G + b.tokens
       <= b.capacity + ((b.lastUpdate - bi) \div TicksPerSecond) * b.rate

Admitted(b) == IF CanConsume(b) THEN 1 ELSE 0

(* What refilling and charging a bucket leave alone.                       *)
SameTerms(b, b2) ==
  /\ b2.capacity = b.capacity /\ b2.rate = b.rate
  /\ b2.oldLimit = b.oldLimit /\ b2.expireAt = b.expireAt

(* A refill leaves a good bucket good.                                     *)
LEMMA RefillGood ==
  ASSUME NEW b, NEW bi, NEW G, NEW t, Good(b, bi, G, t)
  PROVE  Good(Refilled(b, t), bi, G, t) /\ SameTerms(b, Refilled(b, t))
<1> USE ConstantsAssumption
<1> DEFINE add == ((t - b.lastUpdate) \div TicksPerSecond) * b.rate
<1>1. b \in Bucket /\ add \in Int
  BY DEF Good, Bucket
<1>2. CASE add > 0
  <2> DEFINE T1 == IF b.tokens + add <= b.capacity THEN b.tokens + add ELSE b.capacity
  <2>1. Refilled(b, t) = [b EXCEPT !.tokens = T1, !.lastUpdate = t]
    BY <1>2 DEF Refilled
  <2>2. RefillBefore(b.tokens, b.capacity, b.rate, bi, b.lastUpdate, t, G)
    BY <1>2 DEF RefillBefore, Good, Bucket
  <2>3. Precision * G + b.tokens + add <= b.capacity + ((t - bi) \div TicksPerSecond) * b.rate
    BY <2>2, RefillBound
  <2>4. T1 \in Int /\ T1 <= b.tokens + add /\ b.tokens \in Int /\ b.capacity \in Int
    BY <1>1 DEF Bucket
  <2>5. Precision * G \in Int /\ ((t - bi) \div TicksPerSecond) * b.rate \in Int
    BY DEF Good, Bucket
  <2> HIDE DEF add, T1
  <2>6. Precision * G + T1 <= b.capacity + ((t - bi) \div TicksPerSecond) * b.rate
    BY <1>1, <2>3, <2>4, <2>5
  <2>7. /\ Refilled(b, t) \in Bucket /\ SameTerms(b, Refilled(b, t))
        /\ Refilled(b, t).tokens = T1 /\ Refilled(b, t).lastUpdate = t
    BY <2>1, <2>4 DEF Good, Bucket, SameTerms
  <2>8. bi \in Nat /\ t \in Nat /\ G \in Nat /\ bi <= t
    BY DEF Good, Bucket
  <2>9. QED
    BY <2>6, <2>7, <2>8 DEF Good, SameTerms
<1>3. CASE ~(add > 0)
  BY <1>3 DEF Refilled, SameTerms
<1>4. QED
  BY <1>2, <1>3

(* Charging a good bucket leaves it good, with what it admitted counted.   *)
LEMMA ConsumeGood ==
  ASSUME NEW b, NEW bi, NEW G, NEW t, Good(b, bi, G, t)
  PROVE  Good(Consumed(b), bi, G + Admitted(b), t) /\ SameTerms(b, Consumed(b))
<1> USE ConstantsAssumption
<1>1. CASE CanConsume(b)
  <2>1. Consumed(b) = [b EXCEPT !.tokens = b.tokens - Precision]
    BY <1>1 DEF Consumed
  <2>2. Precision * (G + 1) = Precision * G + Precision
    BY DEF Good
  <2>3. Precision * (G + 1) + (b.tokens - Precision) = Precision * G + b.tokens
    BY <2>2 DEF Good, Bucket
  <2>4. Admitted(b) = 1
    BY <1>1 DEF Admitted
  <2>5. QED
    BY <2>1, <2>3, <2>4 DEF Good, Bucket, SameTerms
<1>2. CASE ~CanConsume(b)
  <2>1. Consumed(b) = b /\ Admitted(b) = 0
    BY <1>2 DEF Consumed, Admitted
  <2>2. QED
    BY <2>1 DEF Good, SameTerms
<1>3. QED
  BY <1>1, <1>2

(* A good bucket stays good as time passes.                                *)
LEMMA LaterGood ==
  ASSUME NEW b, NEW bi, NEW G, NEW t, Good(b, bi, G, t), NEW t2 \in Nat, t <= t2
  PROVE  Good(b, bi, G, t2)
BY DEF Good, Bucket

(* Refilling and charging any bucket leaves a bucket.                      *)
LEMMA ChargeTyped ==
  ASSUME NEW b \in Bucket, NEW t \in Nat
  PROVE  Refilled(b, t) \in Bucket /\ Consumed(Refilled(b, t)) \in Bucket
<1> USE ConstantsAssumption
<1>1. \A x \in Bucket, y \in Int : [x EXCEPT !.tokens = y] \in Bucket
  BY DEF Bucket
<1>2. Refilled(b, t) \in Bucket
  <2> DEFINE add == ((t - b.lastUpdate) \div TicksPerSecond) * b.rate
             T1  == IF b.tokens + add <= b.capacity THEN b.tokens + add ELSE b.capacity
  <2>1. b.tokens \in Int /\ b.capacity \in Int /\ add \in Int
    BY DEF Bucket
  <2>2. Refilled(b, t) = b \/ Refilled(b, t) = [b EXCEPT !.tokens = T1, !.lastUpdate = t]
    BY DEF Refilled
  <2> HIDE DEF add
  <2>3. T1 \in Int
    BY <2>1
  <2> HIDE DEF T1
  <2>4. [b EXCEPT !.tokens = T1, !.lastUpdate = t] \in Bucket
    BY <2>3 DEF Bucket
  <2>5. QED
    BY <2>2, <2>4
<1>3. Consumed(Refilled(b, t)) \in Bucket
  <2> DEFINE b1 == Refilled(b, t)
  <2>1. b1.tokens - Precision \in Int
    BY <1>2 DEF Bucket
  <2> HIDE DEF b1
  <2>2. Consumed(b1) = b1 \/ Consumed(b1) = [b1 EXCEPT !.tokens = b1.tokens - Precision]
    BY DEF Consumed
  <2>3. QED
    BY <1>1, <1>2, <2>1, <2>2 DEF b1
<1>4. QED
  BY <1>2, <1>3

(* The terms of bucket b are those of policy p.                            *)
Follows(b, p) ==
  /\ b.oldLimit = p.limit
  /\ b.capacity = capacityOf(p.limit)
  /\ b.rate = rateOf(p.limit, Window(p))

(* The window of a policy is a positive number of ticks, and the numbers   *)
(* computed from a policy have their types.                                *)
LEMMA PolicyTyped ==
  ASSUME NEW i \in DOMAIN Policies
  PROVE  /\ Window(Policies[i]) \in Nat \ {0}
         /\ Policies[i].limit \in Int
         /\ capacityOf(Policies[i].limit) \in Int
         /\ rateOf(Policies[i].limit, Window(Policies[i])) \in Int
         /\ ttl(Window(Policies[i])) \in Nat
<1> USE ConstantsAssumption
<1>1. Policies[i] \in [basedOn : BaseOns, limit : Int, duration : Nat,
                       match : [kind : MatchKinds, value : Seq(STRING)]]
  <2> DEFINE R == [basedOn : BaseOns, limit : Int, duration : Nat,
                   match : [kind : MatchKinds, value : Seq(STRING)]]
  <2>1. Policies \in Seq(R)
    BY PoliciesAssumption
  <2> HIDE DEF R
  <2>2. Policies[i] \in R
    BY <2>1
  <2>3. QED
    BY <2>2 DEF R
<1>2. Policies[i].limit \in Int /\ Policies[i].duration \in Nat
  BY <1>1
<1>3. Window(Policies[i]) \in Nat \ {0}
  BY <1>2 DEF Window
<1>4. capacityOf(Policies[i].limit) \in Int
  BY <1>2 DEF capacityOf
<1>5. ttl(Window(Policies[i])) \in Nat
  BY <1>3 DEF ttl
<1>6. capacityOf(Policies[i].limit) * TicksPerSecond \in Int
  BY <1>4
<1>7. rateOf(Policies[i].limit, Window(Policies[i])) \in Int
  BY <1>3, <1>6 DEF rateOf
<1>8. QED
  BY <1>2, <1>3, <1>4, <1>5, <1>7

(* updateBucket leaves a bucket, whatever limit it finds.                  *)
LEMMA UpdateTyped ==
  ASSUME NEW b \in Bucket, NEW i \in DOMAIN Policies, NEW t \in Nat
  PROVE  Updated(b, Policies[i].limit, Window(Policies[i]), t) \in Bucket
<1> DEFINE l == Policies[i].limit
           c == capacityOf(l)
           r == rateOf(l, Window(Policies[i]))
           e == t + ttl(Window(Policies[i]))
<1>1. l \in Int /\ c \in Int /\ r \in Int /\ e \in Nat
  BY PolicyTyped
<1>2. \/ Updated(b, l, Window(Policies[i]), t)
           = [b EXCEPT !.oldLimit = l, !.capacity = c, !.rate = r, !.expireAt = e]
      \/ Updated(b, l, Window(Policies[i]), t) = [b EXCEPT !.expireAt = e]
  BY DEF Updated
<1> HIDE DEF l, c, r, e
<1>3. /\ [b EXCEPT !.oldLimit = l, !.capacity = c, !.rate = r, !.expireAt = e] \in Bucket
      /\ [b EXCEPT !.expireAt = e] \in Bucket
  BY <1>1 DEF Bucket
<1>4. QED
  BY <1>2, <1>3 DEF l

(* A new bucket is good and follows its policy.                            *)
LEMMA NewGood ==
  ASSUME NEW i \in DOMAIN Policies, NEW t \in Nat
  PROVE  LET b == NewBucket(Policies[i].limit, Window(Policies[i]), t)
         IN  Good(b, t, 0, t) /\ Follows(b, Policies[i])
<1> USE ConstantsAssumption
<1> DEFINE c == capacityOf(Policies[i].limit)
           r == rateOf(Policies[i].limit, Window(Policies[i]))
           b == NewBucket(Policies[i].limit, Window(Policies[i]), t)
<1>1. b \in Bucket /\ b.tokens = c /\ b.capacity = c /\ b.rate = r /\ b.lastUpdate = t
      /\ b.oldLimit = Policies[i].limit
  BY PolicyTyped DEF NewBucket, Bucket
<1>2. c \in Int /\ r \in Int /\ (t - t) \div TicksPerSecond = 0 /\ Precision * 0 = 0
  BY PolicyTyped
<1> HIDE DEF c, r, b
<1>3. Good(b, t, 0, t)
  BY <1>1, <1>2 DEF Good
<1>4. QED
  BY <1>1, <1>3 DEF Follows, c, r, b

-----------------------------------------------------------------------------

(* The inductive invariant: every bucket, but for the ambiguous ones, is   *)
(* good for its history and has the terms of the policy its requests are   *)
(* limited by.                                                             *)
LocalInv ==
  /\ TypeOK
  /\ TrackedBucketsExist
  /\ BucketFollowsPolicy
  /\ \A k \in DOMAIN buckets \ AmbiguousKeys :
       Good(buckets[k], birth[k], granted[k], now)

(* The two maps after checkBucketLocal charged a bucket.                   *)
LEMMA ChargePreserves ==
  ASSUME LocalInv, NEW req \in Requests, NEW i, i = LimitingPolicy(req, Policies), i # 0,
         NEW b0, NEW isNew \in BOOLEAN, NEW gone, NEW acc, NEW t \in now..MaxTime,
         KeyOf(req, Policies[i]) \notin gone,
         DOMAIN acc \subseteq DOMAIN buckets \cup {KeyOf(req, Policies[i])},
         \A k \in DOMAIN acc : acc[k] \in Nat,
         b0 \in Bucket,
         ~isNew => KeyOf(req, Policies[i]) \in DOMAIN buckets,
         KeyOf(req, Policies[i]) \notin AmbiguousKeys =>
           /\ Follows(b0, Policies[i])
           /\ isNew => Good(b0, t, 0, t)
           /\ ~isNew => Good(b0, birth[KeyOf(req, Policies[i])],
                             granted[KeyOf(req, Policies[i])], t),
         Charge(req, i, b0, isNew, gone, acc, t)
  PROVE  LocalInv'
<1> USE ConstantsAssumption
<1> DEFINE key == KeyOf(req, Policies[i])
           b1  == Refilled(b0, t)
           b2  == Consumed(b1)
           bi  == IF isNew THEN t ELSE birth[key]
           G0  == IF isNew THEN 0 ELSE granted[key]
           G2  == G0 + Admitted(b1)
<1>1. t \in Nat /\ now \in Nat /\ now <= t /\ t \in 0..MaxTime
  BY DEF LocalInv, TypeOK
<1>2. i \in DOMAIN Policies /\ key \in Keys
  BY LimitingPolicyFacts DEF Keys
<1>3. key \notin AmbiguousKeys => Good(b0, bi, G0, t)
  OBVIOUS
<1>3a. b2 \in Bucket /\ bi \in Nat /\ G2 \in Nat
  <2>1. b2 \in Bucket
    BY <1>1, ChargeTyped
  <2>2. ~isNew => birth[key] \in Nat /\ granted[key] \in Nat
    BY DEF LocalInv, TypeOK
  <2>3. Admitted(b1) \in Nat
    BY DEF Admitted
  <2>4. QED
    BY <1>1, <2>1, <2>2, <2>3
<1>4. ASSUME key \notin AmbiguousKeys
      PROVE  Good(b2, bi, G2, t) /\ Follows(b2, Policies[i])
  <2>1. Good(b1, bi, G0, t) /\ SameTerms(b0, b1)
    BY <1>3, <1>4, RefillGood
  <2>2. Good(b2, bi, G2, t) /\ SameTerms(b1, b2)
    BY <2>1, ConsumeGood
  <2>3. QED
    BY <1>4, <2>1, <2>2 DEF SameTerms, Follows
<1>5. /\ now' = t
      /\ buckets' = Put(Drop(buckets, gone), key, b2)
      /\ lastAccessTime' = Drop(acc, gone)
      /\ birth' = Put(Drop(birth, gone), key, bi)
      /\ granted' = Put(Drop(granted, gone), key, G2)
      /\ lastGrant' = Put(Drop(lastGrant, gone), key,
                          IF CanConsume(b1) \/ isNew THEN t ELSE lastGrant[key])
      /\ reply' = [kind |-> IF CanConsume(b1) THEN "ok" ELSE "limited", req |-> req, policy |-> i]
      /\ sweep' = sweep
  BY DEF Charge, Admitted
<1> HIDE DEF b1, b2, bi, G0, G2, key
<1>6. DOMAIN buckets' = (DOMAIN buckets \ gone) \cup {key}
  BY <1>5 DEF Put, Drop
<1>7. DOMAIN birth' = DOMAIN buckets' /\ DOMAIN granted' = DOMAIN buckets'
      /\ DOMAIN lastGrant' = DOMAIN buckets'
  BY <1>5, <1>6 DEF Put, Drop, LocalInv, TypeOK
<1>8. buckets'[key] = b2 /\ birth'[key] = bi /\ granted'[key] = G2
  BY <1>5 DEF Put, Drop
<1>9. \A k \in DOMAIN buckets' : k # key =>
        /\ k \in DOMAIN buckets
        /\ buckets'[k] = buckets[k] /\ birth'[k] = birth[k] /\ granted'[k] = granted[k]
        /\ lastGrant'[k] = lastGrant[k]
  BY <1>5, <1>6 DEF Put, Drop, LocalInv, TypeOK
<1>10. \A k \in DOMAIN buckets' \ AmbiguousKeys :
         Good(buckets'[k], birth'[k], granted'[k], now')
  <2>1. \A k \in DOMAIN buckets \ AmbiguousKeys : Good(buckets[k], birth[k], granted[k], t)
    BY <1>1, LaterGood DEF LocalInv
  <2>2. QED
    BY <1>4, <1>5, <1>8, <1>9, <2>1
<1>11. lastGrant'[key] \in Nat
  <2>1. lastGrant'[key] = IF CanConsume(b1) \/ isNew THEN t ELSE lastGrant[key]
    BY <1>5 DEF Put, Drop
  <2>2. ~isNew => lastGrant[key] \in Nat
    BY DEF LocalInv, TypeOK, key
  <2>3. QED
    BY <1>1, <2>1, <2>2
<1>12. TypeOK'
  <2>1. DOMAIN buckets' \subseteq Keys /\ DOMAIN lastAccessTime' \subseteq Keys
    BY <1>2, <1>5, <1>6 DEF LocalInv, TypeOK, Drop, key
  <2>2. \A k \in DOMAIN lastAccessTime' : lastAccessTime'[k] \in Nat
    BY <1>5 DEF Drop
  <2>3. \A k \in DOMAIN buckets' : buckets'[k] \in Bucket /\ birth'[k] \in Nat /\ granted'[k] \in Nat
    BY <1>3a, <1>8, <1>9 DEF LocalInv, TypeOK
  <2>4. \A k \in DOMAIN buckets' : lastGrant'[k] \in Nat
    BY <1>9, <1>11 DEF LocalInv, TypeOK
  <2>5. reply' \in [kind : {"none", "ok", "limited"}, req : Requests \cup {<<>>},
                    policy : {0} \cup DOMAIN Policies]
    BY <1>2, <1>5
  <2>6. now' \in 0..MaxTime /\ sweep' \in [at : 0..MaxTime, todo : SUBSET Shards]
    BY <1>1, <1>5 DEF LocalInv, TypeOK
  <2>7. QED
    BY <1>7, <2>1, <2>2, <2>3, <2>4, <2>5, <2>6 DEF TypeOK
<1>13. TrackedBucketsExist'
  BY <1>5, <1>6 DEF TrackedBucketsExist, Drop, key
<1>14. BucketFollowsPolicy'
  <2> SUFFICES ASSUME NEW r2 \in Requests, LimitingPolicy(r2, Policies) # 0,
                      KeyOf(r2, Policies[LimitingPolicy(r2, Policies)])
                        \in DOMAIN buckets' \ AmbiguousKeys
               PROVE  Follows(buckets'[KeyOf(r2, Policies[LimitingPolicy(r2, Policies)])],
                              Policies[LimitingPolicy(r2, Policies)])
    BY DEF BucketFollowsPolicy, Follows
  <2> DEFINE j == LimitingPolicy(r2, Policies)
             k == KeyOf(r2, Policies[j])
  <2>1. CASE k = key
    <3>1. j = i
      BY <2>1, KeyDeterminesPolicy DEF key
    <3>2. QED
      BY <1>4, <1>8, <2>1, <3>1 DEF key
  <2>2. CASE k # key
    <3>1. Follows(buckets[k], Policies[j])
      BY <1>9, <2>2 DEF LocalInv, BucketFollowsPolicy, Follows
    <3>2. QED
      BY <1>9, <2>2, <3>1
  <2>3. QED
    BY <2>1, <2>2
<1>15. QED
  BY <1>10, <1>12, <1>13, <1>14 DEF LocalInv

(* The bucket that is evicted is tracked, and was used before time t.      *)
LEMMA EvictionFacts ==
  ASSUME NEW b, NEW acc, NEW s, NEW t, NEW gone \in Evictions(b, acc, s, t)
  PROVE  \A k \in gone : k \in DOMAIN acc /\ acc[k] < t
BY DEF Evictions, Oldest, InShard

(* The inductive invariant holds in every reachable state.                 *)
THEOREM LocalInvariant == Spec => []LocalInv
<1> USE ConstantsAssumption
<1>1. Init => LocalInv
  <2> SUFFICES ASSUME Init PROVE LocalInv
    OBVIOUS
  <2>1. /\ DOMAIN buckets = {} /\ DOMAIN lastAccessTime = {} /\ DOMAIN birth = {}
        /\ DOMAIN granted = {} /\ DOMAIN lastGrant = {}
    BY DEF Init
  <2>2. sweep \in [at : 0..MaxTime, todo : SUBSET Shards]
    BY DEF Init, NoSweep
  <2>3. reply \in [kind : {"none", "ok", "limited"}, req : Requests \cup {<<>>},
                   policy : {0} \cup DOMAIN Policies]
    BY DEF Init, NoReply
  <2>4. now \in 0..MaxTime
    BY DEF Init
  <2>5. QED
    BY <2>1, <2>2, <2>3, <2>4 DEF LocalInv, TypeOK, TrackedBucketsExist, BucketFollowsPolicy
<1>2. LocalInv /\ [Next]_vars => LocalInv'
  <2> SUFFICES ASSUME LocalInv, [Next]_vars PROVE LocalInv'
    OBVIOUS
  <2>0. now \in Nat /\ now <= MaxTime
    BY DEF LocalInv, TypeOK
  <2>1. ASSUME NEW req \in Requests, PassThrough(req) PROVE LocalInv'
    <3>1. reply' \in [kind : {"none", "ok", "limited"}, req : Requests \cup {<<>>},
                      policy : {0} \cup DOMAIN Policies]
      BY <2>1 DEF PassThrough
    <3>2. UNCHANGED <<now, buckets, lastAccessTime, sweep, birth, granted, lastGrant>>
      BY <2>1 DEF PassThrough
    <3>3. QED
      BY <3>1, <3>2 DEF LocalInv, TypeOK, TrackedBucketsExist, BucketFollowsPolicy
  <2>2. ASSUME NEW req \in Requests, OnRequest(req) PROVE LocalInv'
    <3> DEFINE i   == LimitingPolicy(req, Policies)
               p   == Policies[i]
               key == KeyOf(req, p)
               t   == now + ClockStep
    <3>1. i # 0 /\ t <= MaxTime /\ (CheckNew(req, i) \/ CheckExpired(req, i) \/ CheckLive(req, i))
      BY <2>2 DEF OnRequest
    <3>2. i \in DOMAIN Policies
      BY <3>1, LimitingPolicyFacts
    <3>3. t \in Nat /\ now <= t /\ t \in now..MaxTime
      BY <2>0, <3>1
    <3>4. /\ Good(NewBucket(p.limit, Window(p), t), t, 0, t)
          /\ Follows(NewBucket(p.limit, Window(p), t), p)
          /\ NewBucket(p.limit, Window(p), t) \in Bucket
      BY <3>2, <3>3, NewGood DEF Good
    <3> DEFINE acc1 == Put(lastAccessTime, key, t)
    <3>5. /\ DOMAIN acc1 \subseteq DOMAIN buckets \cup {key}
          /\ \A k \in DOMAIN acc1 : acc1[k] \in Nat
          /\ key \in DOMAIN acc1 /\ acc1[key] = t
      BY <3>3 DEF Put, LocalInv, TypeOK, TrackedBucketsExist
    <3>6. CASE CheckNew(req, i)
      <4>1. PICK gone \in Evictions(buckets, acc1, ShardOf(key), t) :
              Charge(req, i, NewBucket(p.limit, Window(p), t), TRUE, gone, acc1, t)
        BY <3>6 DEF CheckNew
      <4>2. key \notin gone
        BY <3>3, <3>5, <4>1, EvictionFacts
      <4> HIDE DEF acc1, t
      <4>3. QED
        BY <3>1, <3>3, <3>4, <3>5, <4>1, <4>2, ChargePreserves
    <3>7. CASE CheckExpired(req, i)
      <4> DEFINE acc2 == Drop(acc1, {key})
      <4>1. PICK gone \in Evictions(Drop(buckets, {key}), acc2, ShardOf(key), t) :
              Charge(req, i, NewBucket(p.limit, Window(p), t), TRUE, gone, acc2, t)
        BY <3>7 DEF CheckExpired
      <4>2. /\ DOMAIN acc2 \subseteq DOMAIN buckets \cup {key} /\ key \notin DOMAIN acc2
            /\ \A k \in DOMAIN acc2 : acc2[k] \in Nat
        BY <3>5 DEF Drop
      <4>3. key \notin gone
        BY <4>1, <4>2, EvictionFacts
      <4> HIDE DEF acc1, acc2, t
      <4>4. QED
        BY <3>1, <3>3, <3>4, <4>1, <4>2, <4>3, ChargePreserves
    <3>8. CASE CheckLive(req, i)
      <4> DEFINE b  == buckets[key]
                 b0 == Updated(b, p.limit, Window(p), t)
      <4>1. key \in DOMAIN buckets /\ Charge(req, i, b0, FALSE, {}, acc1, t)
        BY <3>8 DEF CheckLive
      <4>2. ASSUME key \notin AmbiguousKeys
            PROVE  Good(b0, birth[key], granted[key], t) /\ Follows(b0, p)
        <5>1. Follows(b, p)
          BY <3>1, <4>1, <4>2 DEF LocalInv, BucketFollowsPolicy, Follows
        <5>2. b0 = [b EXCEPT !.expireAt = t + ttl(Window(p))]
          BY <5>1 DEF Updated, Follows
        <5>3. Good(b, birth[key], granted[key], t)
          BY <3>3, <4>1, <4>2, LaterGood DEF LocalInv
        <5>4. t + ttl(Window(p)) \in Nat
          BY <3>2, <3>3, PolicyTyped
        <5>5. QED
          BY <5>1, <5>2, <5>3, <5>4 DEF Good, Follows, Bucket
      <4>3. b0 \in Bucket
        <5>1. b \in Bucket
          BY <4>1 DEF LocalInv, TypeOK
        <5> HIDE DEF b, t
        <5>2. QED
          BY <3>2, <3>3, <5>1, UpdateTyped
      <4> HIDE DEF acc1, t, b0
      <4>4. QED
        BY <3>1, <3>3, <3>5, <4>1, <4>2, <4>3, ChargePreserves
    <3>9. QED
      BY <3>1, <3>6, <3>7, <3>8
  <2>3. CASE Tick
    <3>1. now' \in 0..MaxTime /\ now' \in Nat /\ now <= now'
      BY <2>0, <2>3 DEF Tick
    <3>2. reply' \in [kind : {"none", "ok", "limited"}, req : Requests \cup {<<>>},
                      policy : {0} \cup DOMAIN Policies]
      BY <2>3 DEF Tick, NoReply
    <3>3. UNCHANGED <<buckets, lastAccessTime, sweep, birth, granted, lastGrant>>
      BY <2>3 DEF Tick
    <3>4. \A k \in DOMAIN buckets \ AmbiguousKeys :
            Good(buckets[k], birth[k], granted[k], now')
      BY <3>1, LaterGood DEF LocalInv
    <3>5. QED
      BY <3>1, <3>2, <3>3, <3>4 DEF LocalInv, TypeOK, TrackedBucketsExist, BucketFollowsPolicy
  <2>4. CASE CleanupStart
    <3>1. reply' \in [kind : {"none", "ok", "limited"}, req : Requests \cup {<<>>},
                      policy : {0} \cup DOMAIN Policies]
      BY <2>4 DEF CleanupStart, NoReply
    <3>2. sweep' \in [at : 0..MaxTime, todo : SUBSET Shards]
      BY <2>4 DEF CleanupStart, LocalInv, TypeOK
    <3>3. UNCHANGED <<now, buckets, lastAccessTime, birth, granted, lastGrant>>
      BY <2>4 DEF CleanupStart
    <3>4. QED
      BY <3>1, <3>2, <3>3 DEF LocalInv, TypeOK, TrackedBucketsExist, BucketFollowsPolicy
  <2>5. ASSUME NEW s \in Shards, CleanupShard(s) PROVE LocalInv'
    <3> DEFINE gone == {k \in InShard(buckets, s) : Expired(buckets[k], sweep.at)}
    <3>1. /\ buckets' = Drop(buckets, gone) /\ lastAccessTime' = Drop(lastAccessTime, gone)
          /\ birth' = Drop(birth, gone) /\ granted' = Drop(granted, gone)
          /\ lastGrant' = Drop(lastGrant, gone) /\ now' = now
      BY <2>5 DEF CleanupShard
    <3>2. reply' \in [kind : {"none", "ok", "limited"}, req : Requests \cup {<<>>},
                      policy : {0} \cup DOMAIN Policies]
      BY <2>5 DEF CleanupShard, NoReply
    <3>3. sweep' \in [at : 0..MaxTime, todo : SUBSET Shards]
      <4>1. CASE sweep.todo = {s}
        BY <4>1, <2>5 DEF CleanupShard, NoSweep
      <4>2. CASE sweep.todo # {s}
        BY <4>2, <2>5 DEF CleanupShard, LocalInv, TypeOK
      <4>3. QED
        BY <4>1, <4>2
    <3> HIDE DEF gone
    <3>4. /\ DOMAIN buckets' = DOMAIN buckets \ gone
          /\ DOMAIN lastAccessTime' = DOMAIN lastAccessTime \ gone
          /\ DOMAIN birth' = DOMAIN buckets' /\ DOMAIN granted' = DOMAIN buckets'
          /\ DOMAIN lastGrant' = DOMAIN buckets'
          /\ \A k \in DOMAIN buckets' :
               /\ k \in DOMAIN buckets /\ buckets'[k] = buckets[k] /\ birth'[k] = birth[k]
               /\ granted'[k] = granted[k] /\ lastGrant'[k] = lastGrant[k]
          /\ \A k \in DOMAIN lastAccessTime' :
               k \in DOMAIN lastAccessTime /\ lastAccessTime'[k] = lastAccessTime[k]
      BY <3>1 DEF Drop, LocalInv, TypeOK
    <3>5. TypeOK'
      BY <3>1, <3>2, <3>3, <3>4 DEF LocalInv, TypeOK
    <3>6. TrackedBucketsExist'
      BY <3>4 DEF LocalInv, TrackedBucketsExist
    <3>7. BucketFollowsPolicy'
      BY <3>4 DEF LocalInv, BucketFollowsPolicy
    <3>8. QED
      BY <3>1, <3>4, <3>5, <3>6, <3>7 DEF LocalInv
  <2>6. CASE UNCHANGED vars
    BY <2>6 DEF vars, LocalInv, TypeOK, TrackedBucketsExist, BucketFollowsPolicy
  <2>7. QED
    BY <2>1, <2>2, <2>3, <2>4, <2>5, <2>6 DEF Next
<1>3. QED
  BY <1>1, <1>2, PTL DEF Spec

(* Type correctness.                                                       *)
THEOREM LocalTypeCorrect == Spec => []TypeOK
<1>1. LocalInv => TypeOK
  BY DEF LocalInv
<1>2. QED
  BY <1>1, LocalInvariant, PTL

(* Evicting by access time always frees a bucket.                          *)
THEOREM LocalTrackedBuckets == Spec => []TrackedBucketsExist
<1>1. LocalInv => TrackedBucketsExist
  BY DEF LocalInv
<1>2. QED
  BY <1>1, LocalInvariant, PTL

(* A bucket keeps the terms of its one policy, unless a caller whose id    *)
(* has a ':' in it is charged to it: of any other two requests with one    *)
(* key, buildKey and findMatchingPolicy make two with one policy.          *)
THEOREM LocalBucketPolicy == Spec => []BucketFollowsPolicy
<1>1. LocalInv => BucketFollowsPolicy
  BY DEF LocalInv
<1>2. QED
  BY <1>1, LocalInvariant, PTL

(* A bucket admits at most its capacity and the refill of its whole        *)
(* seconds.                                                                *)
THEOREM LocalAdmissionBound == Spec => []AdmissionBound
<1>1. LocalInv => AdmissionBound
  BY DEF LocalInv, AdmissionBound, Good
<1>2. QED
  BY <1>1, LocalInvariant, PTL

-----------------------------------------------------------------------------

(* A refill after m whole seconds at the truncated rate r fills a bucket   *)
(* of capacity c, once twice the window W and a second have passed: what   *)
(* truncation takes from the rate and from the seconds is at most half of  *)
(* each.                                                                   *)
LEMMA FullAfterTtl ==
  ASSUME NEW c \in Nat, NEW K \in Nat \ {0}, NEW W \in Nat \ {0}, NEW e \in Nat,
         2 * W <= e, K <= e, (c * K) \div W > 0
  PROVE  c <= (e \div K) * ((c * K) \div W)
<1> DEFINE m == e \div K
           r == (c * K) \div W
           cK == c * K
<1>1. m \in Nat /\ K * m <= e /\ e < K * m + K
  OBVIOUS
<1>2. cK \in Nat
  OBVIOUS
<1>3. r \in Nat /\ r > 0 /\ cK < W * r + W
  <2> HIDE DEF cK
  <2>1. cK \div W \in Nat /\ cK < W * (cK \div W) + W
    BY <1>2
  <2>2. QED
    BY <2>1 DEF cK
<1> HIDE DEF m, r, cK
<1>4. m >= 1
  <2> SUFFICES ASSUME m = 0 PROVE FALSE
    BY <1>1
  <2>1. K * m = 0
    OBVIOUS
  <2>2. QED
    BY <1>1, <2>1
<1>5. SUFFICES ASSUME m * r + 1 <= c PROVE FALSE
  <2>1. m * r \in Nat
    BY <1>1, <1>3
  <2>2. QED
    BY <2>1, <1>5 DEF m, r
<1>6. K * (m * r + 1) <= cK
  <2>1. m * r + 1 \in Nat
    BY <1>1, <1>3
  <2> DEFINE x == m * r + 1
  <2>2. x \in Nat /\ x <= c
    BY <1>5, <2>1
  <2> HIDE DEF x
  <2>3. K * x <= c * K
    BY <2>2
  <2>4. QED
    BY <2>3 DEF x, cK
<1>7. 2 * (W * r + W) <= e * (r + 1)
  <2>1. 2 * (W * r + W) = (2 * W) * (r + 1)
    BY <1>3
  <2>2. (2 * W) * (r + 1) <= e * (r + 1)
    <3> DEFINE w == 2 * W
               s == r + 1
    <3>1. w \in Nat /\ s \in Nat /\ w <= e
      BY <1>3
    <3> HIDE DEF w, s
    <3>2. w * s <= e * s
      BY <3>1
    <3>3. QED
      BY <3>2 DEF w, s
  <2>3. QED
    BY <2>1, <2>2
<1>8. e * (r + 1) < (K * m + K) * (r + 1)
  <2> DEFINE u == K * m + K
             s == r + 1
  <2>1. u \in Nat /\ s \in Nat \ {0} /\ e < u
    BY <1>1, <1>3
  <2> HIDE DEF u, s
  <2>2. e * s < u * s
    BY <2>1
  <2>3. QED
    BY <2>2 DEF u, s
<1>9. (K * m + K) * (r + 1) = K * ((m + 1) * (r + 1))
  BY <1>1, <1>3
<1>10. K * (2 * (m * r + 1)) < K * ((m + 1) * (r + 1))
  <2> DEFINE x  == m * r + 1
             y  == (m + 1) * (r + 1)
             v  == W * r + W
             z  == e * (r + 1)
  <2>1. x \in Nat /\ y \in Nat /\ v \in Nat /\ z \in Nat
    BY <1>1, <1>3
  <2>2. K * x <= cK /\ cK < v /\ 2 * v <= z /\ z < K * y
    BY <1>3, <1>6, <1>7, <1>8, <1>9
  <2> HIDE DEF x, y, v, z
  <2>3. K * x \in Nat /\ K * y \in Nat /\ K * (2 * x) = 2 * (K * x)
    BY <2>1
  <2>4. K * (2 * x) < K * y
    BY <1>2, <2>1, <2>2, <2>3
  <2>5. QED
    BY <2>4 DEF x, y
<1>11. 2 * (m * r + 1) < (m + 1) * (r + 1)
  <2> DEFINE x == 2 * (m * r + 1)
             y == (m + 1) * (r + 1)
  <2>1. x \in Nat /\ y \in Nat /\ K * x < K * y
    BY <1>1, <1>3, <1>10
  <2> HIDE DEF x, y
  <2>2. x < y
    BY <2>1
  <2>3. QED
    BY <2>2 DEF x, y
<1>12. (m - 1) * (r - 1) = m * r - m - r + 1 /\ (m + 1) * (r + 1) = m * r + m + r + 1
  BY <1>1, <1>3
<1>13. (m - 1) * (r - 1) >= 0
  BY <1>1, <1>3, <1>4
<1>14. m * r \in Nat
  BY <1>1, <1>3
<1>15. QED
  BY <1>1, <1>3, <1>11, <1>12, <1>13, <1>14

(* A refill credits at least half of the time since the last one, and so   *)
(* keeps the tokens in step with the time since the last admission.        *)
LEMMA RefillPace ==
  ASSUME NEW T \in Nat, NEW r \in Nat \ {0}, NEW l \in Nat, NEW g \in Nat, NEW t \in Nat,
         NEW K \in Nat \ {0}, l <= t, (t - l) \div K > 0, r * (l - g) <= 2 * K * T
  PROVE  r * (t - g) <= 2 * K * (T + ((t - l) \div K) * r)
<1> DEFINE y == (t - l) \div K
<1>1. y \in Nat /\ y >= 1 /\ t - l < K * y + K
  OBVIOUS
<1> HIDE DEF y
<1>2. K <= K * y
  BY <1>1
<1>3. t - l <= 2 * (K * y) /\ K * y \in Nat
  BY <1>1, <1>2
<1>4. r * (t - l) <= r * (2 * (K * y))
  <2> DEFINE d == t - l
             z == 2 * (K * y)
  <2>1. d \in Nat /\ z \in Nat /\ d <= z
    BY <1>3
  <2> HIDE DEF d, z
  <2>2. r * d <= r * z
    BY <2>1
  <2>3. QED
    BY <2>2 DEF d, z
<1>5. r * (t - g) = r * (t - l) + r * (l - g)
  OBVIOUS
<1>6. 2 * K * (T + y * r) = 2 * K * T + r * (2 * (K * y))
  BY <1>1
<1>7. /\ r * (t - l) \in Int /\ r * (l - g) \in Int /\ 2 * K * T \in Int
      /\ r * (2 * (K * y)) \in Int
  BY <1>1
<1>8. r * (t - g) <= 2 * K * (T + y * r)
  BY <1>4, <1>5, <1>6, <1>7
<1>9. QED
  BY <1>8 DEF y

-----------------------------------------------------------------------------

(* Bucket b, last admitting at lg, lives at least its policy's time-to-    *)
(* live after its last refill, and its tokens keep pace with the time      *)
(* since lg: at least half of what the rate gives for it is still there.   *)
Outlives(b, p) == Follows(b, p) /\ b.lastUpdate + ttl(Window(p)) <= b.expireAt

Paced(b, lg) ==
  b.oldLimit > 0 =>
    /\ b.tokens >= 0
    /\ b.rate > 0 => b.rate * (b.lastUpdate - lg) <= 2 * TicksPerSecond * b.tokens

(* A refused request was refused by a bucket without a token, refilled     *)
(* less than a second ago.                                                 *)
RefusalIsRecent ==
  reply.kind = "limited" =>
    LET p == Policies[reply.policy]
        k == KeyOf(reply.req, p)
    IN  /\ reply.req \in Requests
        /\ reply.policy = LimitingPolicy(reply.req, Policies)
        /\ reply.policy # 0
        /\ k \in DOMAIN buckets
        /\ k \notin AmbiguousKeys =>
             /\ ~CanConsume(buckets[k])
             /\ buckets[k].rate > 0 => now - buckets[k].lastUpdate < TicksPerSecond

(* The inductive invariant of waiting and expiry, on top of LocalInv.      *)
PaceInv ==
  /\ \A k \in DOMAIN buckets \ AmbiguousKeys :
       /\ \E i \in DOMAIN Policies : Outlives(buckets[k], Policies[i])
       /\ Paced(buckets[k], lastGrant[k])
  /\ RefusalIsRecent

(* What a refill does, by the seconds y it credits.                        *)
LEMMA RefillCases ==
  ASSUME NEW b \in Bucket, NEW t \in Nat, b.lastUpdate <= t
  PROVE  LET y == (t - b.lastUpdate) \div TicksPerSecond
             b1 == Refilled(b, t)
         IN  \/ /\ y > 0 /\ b.rate > 0
                /\ b1.lastUpdate = t
                /\ b1.tokens = IF b.tokens + y * b.rate <= b.capacity
                               THEN b.tokens + y * b.rate ELSE b.capacity
             \/ /\ b1 = b
                /\ b.rate > 0 => t - b.lastUpdate < TicksPerSecond
<1> USE ConstantsAssumption
<1> DEFINE y == (t - b.lastUpdate) \div TicksPerSecond
           r == b.rate
<1>1. /\ y \in Nat /\ r \in Int /\ t - b.lastUpdate \in Nat
      /\ t - b.lastUpdate < TicksPerSecond * y + TicksPerSecond
  BY DEF Bucket
<1>2. b.tokens \in Int /\ b.capacity \in Int
  BY DEF Bucket
<1>3. CASE y * r > 0
  <2>1. /\ Refilled(b, t).lastUpdate = t
        /\ Refilled(b, t).tokens = IF b.tokens + y * r <= b.capacity
                                   THEN b.tokens + y * r ELSE b.capacity
    BY <1>3 DEF Refilled, Bucket
  <2> HIDE DEF y, r
  <2>2. y > 0 /\ r > 0
    BY <1>1, <1>3
  <2>3. QED
    BY <2>1, <2>2 DEF y, r
<1>4. CASE ~(y * r > 0)
  <2>1. Refilled(b, t) = b
    BY <1>4 DEF Refilled
  <2> HIDE DEF y, r
  <2>2. r > 0 => y = 0
    BY <1>1, <1>4
  <2>3. r > 0 => t - b.lastUpdate < TicksPerSecond
    BY <1>1, <2>2
  <2>4. QED
    BY <2>1, <2>3 DEF y, r
<1>5. QED
  BY <1>3, <1>4

(* Refilling and charging a bucket keeps it paced and within its lifetime, *)
(* and a refusal leaves it without a token, refilled within the second.    *)
LEMMA ChargePaced ==
  ASSUME NEW b, NEW bi, NEW G, NEW t, Good(b, bi, G, t), NEW lg \in Nat, Paced(b, lg),
         NEW i \in DOMAIN Policies, Follows(b, Policies[i]),
         t + ttl(Window(Policies[i])) <= b.expireAt
  PROVE  LET b1 == Refilled(b, t)
             b2 == Consumed(b1)
         IN  /\ Outlives(b2, Policies[i])
             /\ Paced(b2, IF CanConsume(b1) THEN t ELSE lg)
             /\ ~CanConsume(b1) =>
                  ~CanConsume(b2) /\ (b2.rate > 0 => t - b2.lastUpdate < TicksPerSecond)
<1> USE ConstantsAssumption
<1> DEFINE p  == Policies[i]
           K  == TicksPerSecond
           b1 == Refilled(b, t)
           b2 == Consumed(b1)
           y  == (t - b.lastUpdate) \div K
<1>1. b \in Bucket /\ t \in Nat /\ b.lastUpdate \in Nat /\ b.lastUpdate <= t
  BY DEF Good, Bucket
<1>2. /\ Good(b1, bi, G, t) /\ SameTerms(b, b1)
      /\ Good(b2, bi, G + Admitted(b1), t) /\ SameTerms(b1, b2)
  BY RefillGood, ConsumeGood
<1>3. /\ b1 \in Bucket /\ b1.lastUpdate \in Nat /\ b1.lastUpdate <= t
      /\ b2 \in Bucket
  BY <1>2 DEF Good, Bucket
<1>4. \/ /\ y > 0 /\ b.rate > 0 /\ b1.lastUpdate = t
         /\ b1.tokens = IF b.tokens + y * b.rate <= b.capacity
                        THEN b.tokens + y * b.rate ELSE b.capacity
      \/ b1 = b /\ (b.rate > 0 => t - b.lastUpdate < K)
  BY <1>1, RefillCases
<1>5. /\ b2.lastUpdate = b1.lastUpdate
      /\ b2.tokens = IF CanConsume(b1) THEN b1.tokens - Precision ELSE b1.tokens
  BY <1>3 DEF Consumed, Bucket
<1>6. /\ b.rate \in Int /\ b1.tokens \in Int /\ b.capacity \in Int /\ b.oldLimit \in Int
      /\ b.tokens \in Int /\ b2.tokens \in Int
      /\ b1.rate = b.rate /\ b2.rate = b.rate /\ b2.oldLimit = b.oldLimit
      /\ b2.capacity = b.capacity /\ b2.expireAt = b.expireAt /\ b.expireAt \in Nat
  BY <1>1, <1>2, <1>3 DEF SameTerms, Bucket
<1>7. y \in Nat
  BY <1>1
<1>8. ttl(Window(p)) \in Nat /\ p.limit \in Int
  BY PolicyTyped
<1> HIDE DEF b1, b2, y, p
<1>9. Outlives(b2, p)
  <2>1. Follows(b2, p)
    BY <1>6 DEF Follows, p
  <2>2. b2.lastUpdate + ttl(Window(p)) <= b2.expireAt
    BY <1>1, <1>3, <1>5, <1>6, <1>8 DEF p
  <2>3. QED
    BY <2>1, <2>2 DEF Outlives
<1>10. ~CanConsume(b1) => ~CanConsume(b2) /\ (b2.rate > 0 => t - b2.lastUpdate < K)
  <2>1. b1 = b => (b.rate > 0 => t - b2.lastUpdate < K) \/ b1.lastUpdate = t
    BY <1>4, <1>5
  <2>2. QED
    BY <1>1, <1>4, <1>5, <1>6 DEF CanConsume
<1>11. Paced(b2, IF CanConsume(b1) THEN t ELSE lg)
  <2> SUFFICES ASSUME b.oldLimit > 0
               PROVE  /\ b2.tokens >= 0
                      /\ b.rate > 0 =>
                           b.rate * (b2.lastUpdate - (IF CanConsume(b1) THEN t ELSE lg))
                             <= 2 * K * b2.tokens
    BY <1>6 DEF Paced
  <2>1. b.tokens >= 0 /\ (b.rate > 0 => b.rate * (b.lastUpdate - lg) <= 2 * K * b.tokens)
    BY DEF Paced
  <2>2. b.capacity >= Precision
    <3>1. b.capacity = b.oldLimit * Precision
      BY DEF Follows, capacityOf, p
    <3>2. QED
      BY <1>6, <3>1
  <2>3. b1.tokens >= 0
    <3>1. y > 0 /\ b.rate > 0 => y * b.rate >= 0 /\ y * b.rate \in Int
      BY <1>6, <1>7
    <3>2. QED
      BY <1>4, <1>6, <2>1, <2>2, <3>1
  <2>4. CASE CanConsume(b1)
    <3>1. b2.tokens = b1.tokens - Precision /\ b2.tokens >= 0
      BY <1>5, <1>6, <2>4 DEF CanConsume
    <3>2. b.rate > 0 => b.rate * (b2.lastUpdate - t) <= 0
      <4> DEFINE d == t - b2.lastUpdate
      <4>1. d \in Nat /\ b2.lastUpdate - t = -d
        BY <1>1, <1>3, <1>5
      <4> HIDE DEF d
      <4>2. b.rate > 0 => b.rate * (-d) <= 0
        BY <1>6, <4>1
      <4>3. QED
        BY <4>1, <4>2
    <3>3. 2 * K * b2.tokens >= 0
      BY <1>6, <3>1
    <3>4. QED
      <4>1. b.rate * (b2.lastUpdate - t) \in Int /\ 2 * K * b2.tokens \in Int
        BY <1>1, <1>3, <1>5, <1>6
      <4>2. QED
        BY <2>4, <3>1, <3>2, <3>3, <4>1
  <2>5. CASE ~CanConsume(b1)
    <3>1. b2.tokens = b1.tokens
      BY <1>5, <2>5
    <3>2. CASE b1 = b
      BY <1>5, <2>1, <2>5, <3>1, <3>2
    <3>3. CASE y > 0 /\ b.rate > 0 /\ b1.lastUpdate = t
               /\ b1.tokens = IF b.tokens + y * b.rate <= b.capacity
                              THEN b.tokens + y * b.rate ELSE b.capacity
      <4>1. b1.tokens = b.tokens + y * b.rate
        BY <1>6, <2>2, <2>5, <3>3 DEF CanConsume
      <4>2. b.rate * (t - lg) <= 2 * K * (b.tokens + y * b.rate)
        <5> DEFINE T == b.tokens
                   r == b.rate
                   l == b.lastUpdate
        <5>1. T \in Nat /\ r \in Nat \ {0} /\ l \in Nat /\ t \in Nat /\ l <= t
          BY <1>1, <1>6, <2>1, <3>3
        <5>2. (t - l) \div K > 0 /\ r * (l - lg) <= 2 * K * T
          BY <2>1, <3>3 DEF y
        <5> HIDE DEF T, r, l
        <5>3. r * (t - lg) <= 2 * K * (T + ((t - l) \div K) * r)
          BY <5>1, <5>2, RefillPace
        <5>4. QED
          BY <5>3 DEF T, r, l, y
      <4>3. QED
        BY <1>5, <2>3, <2>5, <3>1, <3>3, <4>1, <4>2
    <3>4. QED
      BY <1>4, <3>2, <3>3
  <2>6. QED
    BY <2>4, <2>5
<1>12. QED
  BY <1>9, <1>10, <1>11 DEF b1, b2, p

(* A bucket with its policy's terms and without debt is paced from birth.  *)
LEMMA NewPaced ==
  ASSUME NEW i \in DOMAIN Policies, NEW t \in Nat
  PROVE  LET b == NewBucket(Policies[i].limit, Window(Policies[i]), t)
         IN  Paced(b, t) /\ t + ttl(Window(Policies[i])) <= b.expireAt
<1> USE ConstantsAssumption
<1> DEFINE l == Policies[i].limit
           r == rateOf(l, Window(Policies[i]))
           b == NewBucket(l, Window(Policies[i]), t)
<1>1. /\ b.tokens = l * Precision /\ b.rate = r /\ b.lastUpdate = t /\ b.oldLimit = l
      /\ b.expireAt = t + ttl(Window(Policies[i]))
  BY DEF NewBucket, capacityOf
<1>2. l \in Int /\ r \in Int /\ ttl(Window(Policies[i])) \in Nat
  BY PolicyTyped
<1> HIDE DEF l, r, b
<1>3. l > 0 => l * Precision >= 0 /\ r * (t - t) <= 2 * TicksPerSecond * (l * Precision)
  <2> SUFFICES ASSUME l > 0
               PROVE  l * Precision >= 0 /\ r * (t - t) <= 2 * TicksPerSecond * (l * Precision)
    OBVIOUS
  <2> DEFINE c == l * Precision
  <2>1. c \in Nat
    BY <1>2
  <2> HIDE DEF c
  <2>2. c >= 0 /\ 2 * TicksPerSecond * c >= 0 /\ r * (t - t) = 0
    BY <1>2, <2>1
  <2>3. QED
    BY <2>2 DEF c
<1>4. Paced(b, t)
  BY <1>1, <1>3 DEF Paced
<1>5. QED
  BY <1>1, <1>2, <1>4 DEF b, l

(* checkBucketLocal keeps the invariant.                                   *)
LEMMA ChargeKeepsPace ==
  ASSUME LocalInv, PaceInv, LocalInv', NEW req \in Requests,
         NEW i, i = LimitingPolicy(req, Policies), i # 0,
         NEW b0, NEW isNew \in BOOLEAN, NEW gone, NEW acc, NEW t \in Nat,
         NEW bi, NEW G, NEW lg \in Nat,
         KeyOf(req, Policies[i]) \notin AmbiguousKeys =>
           /\ Good(b0, bi, G, t) /\ Follows(b0, Policies[i]) /\ Paced(b0, lg)
           /\ t + ttl(Window(Policies[i])) <= b0.expireAt,
         isNew => lg = t,
         ~isNew => lg = lastGrant[KeyOf(req, Policies[i])],
         Charge(req, i, b0, isNew, gone, acc, t)
  PROVE  PaceInv'
<1> DEFINE key == KeyOf(req, Policies[i])
           b1  == Refilled(b0, t)
           b2  == Consumed(b1)
           lg2 == IF CanConsume(b1) THEN t ELSE lg
<1>1. i \in DOMAIN Policies
  BY LimitingPolicyFacts
<1>2. key \notin AmbiguousKeys =>
        /\ Outlives(b2, Policies[i]) /\ Paced(b2, lg2)
        /\ ~CanConsume(b1) =>
             ~CanConsume(b2) /\ (b2.rate > 0 => t - b2.lastUpdate < TicksPerSecond)
  BY <1>1, ChargePaced
<1>3. /\ buckets' = Put(Drop(buckets, gone), key, b2)
      /\ lastGrant' = Put(Drop(lastGrant, gone), key,
                          IF CanConsume(b1) \/ isNew THEN t ELSE lastGrant[key])
      /\ reply' = [kind |-> IF CanConsume(b1) THEN "ok" ELSE "limited", req |-> req, policy |-> i]
      /\ now' = t
  BY DEF Charge
<1>4. lg2 = IF CanConsume(b1) \/ isNew THEN t ELSE lastGrant[key]
  OBVIOUS
<1> HIDE DEF key, b1, b2, lg2
<1>5. key \in DOMAIN buckets' /\ buckets'[key] = b2 /\ lastGrant'[key] = lg2
  BY <1>3, <1>4 DEF Put, Drop
<1>6. \A k \in DOMAIN buckets' : k # key =>
        k \in DOMAIN buckets /\ buckets'[k] = buckets[k] /\ lastGrant'[k] = lastGrant[k]
  BY <1>3 DEF Put, Drop, LocalInv, TypeOK
<1>7. \A k \in DOMAIN buckets' \ AmbiguousKeys :
        \E j \in DOMAIN Policies : Outlives(buckets'[k], Policies[j])
  BY <1>1, <1>2, <1>5, <1>6 DEF PaceInv
<1>8. \A k \in DOMAIN buckets' \ AmbiguousKeys : Paced(buckets'[k], lastGrant'[k])
  BY <1>2, <1>5, <1>6 DEF PaceInv
<1>9. RefusalIsRecent'
  <2>1. reply'.kind = "limited" => ~CanConsume(b1)
    BY <1>3
  <2>2. reply'.req = req /\ reply'.policy = i
    BY <1>3
  <2>3. QED
    BY <1>2, <1>3, <1>5, <2>1, <2>2 DEF RefusalIsRecent, key
<1>10. QED
  BY <1>7, <1>8, <1>9 DEF PaceInv, Outlives, Follows, Paced

(* The invariant of waiting and expiry holds in every reachable state.     *)
THEOREM LocalPace == Spec => []PaceInv
<1> USE ConstantsAssumption
<1>1. Init => PaceInv
  BY DEF Init, PaceInv, RefusalIsRecent, NoReply
<1>2. LocalInv /\ LocalInv' /\ PaceInv /\ [Next]_vars => PaceInv'
  <2> SUFFICES ASSUME LocalInv, LocalInv', PaceInv, [Next]_vars PROVE PaceInv'
    OBVIOUS
  <2>0. now \in Nat /\ now <= MaxTime
    BY DEF LocalInv, TypeOK
  <2>1. ASSUME NEW req \in Requests, PassThrough(req) PROVE PaceInv'
    <3>1. reply'.kind = "ok" /\ UNCHANGED <<buckets, lastGrant>>
      BY <2>1 DEF PassThrough
    <3>2. QED
      BY <3>1 DEF PaceInv, RefusalIsRecent
  <2>2. ASSUME NEW req \in Requests, OnRequest(req) PROVE PaceInv'
    <3> DEFINE i   == LimitingPolicy(req, Policies)
               p   == Policies[i]
               key == KeyOf(req, p)
               t   == now + ClockStep
               nb  == NewBucket(p.limit, Window(p), t)
    <3>1. i # 0 /\ (CheckNew(req, i) \/ CheckExpired(req, i) \/ CheckLive(req, i))
      BY <2>2 DEF OnRequest
    <3>2. i \in DOMAIN Policies
      BY <3>1, LimitingPolicyFacts
    <3>3. t \in Nat /\ now <= t
      BY <2>0
    <3>4. Good(nb, t, 0, t) /\ Follows(nb, p)
      BY <3>2, <3>3, NewGood
    <3>5. Paced(nb, t) /\ t + ttl(Window(p)) <= nb.expireAt
      BY <3>2, <3>3, NewPaced
    <3>6. CASE CheckNew(req, i)
      <4> DEFINE acc == Put(lastAccessTime, key, t)
      <4>1. PICK gone \in Evictions(buckets, acc, ShardOf(key), t) :
              Charge(req, i, nb, TRUE, gone, acc, t)
        BY <3>6 DEF CheckNew
      <4> HIDE DEF acc, t, nb
      <4>2. QED
        BY <3>1, <3>3, <3>4, <3>5, <4>1, ChargeKeepsPace
    <3>7. CASE CheckExpired(req, i)
      <4> DEFINE acc == Drop(Put(lastAccessTime, key, t), {key})
      <4>1. PICK gone \in Evictions(Drop(buckets, {key}), acc, ShardOf(key), t) :
              Charge(req, i, nb, TRUE, gone, acc, t)
        BY <3>7 DEF CheckExpired
      <4> HIDE DEF acc, t, nb
      <4>2. QED
        BY <3>1, <3>3, <3>4, <3>5, <4>1, ChargeKeepsPace
    <3>8. CASE CheckLive(req, i)
      <4> DEFINE b   == buckets[key]
                 b0  == Updated(b, p.limit, Window(p), t)
                 acc == Put(lastAccessTime, key, t)
      <4>1. key \in DOMAIN buckets /\ Charge(req, i, b0, FALSE, {}, acc, t)
        BY <3>8 DEF CheckLive
      <4>2. lastGrant[key] \in Nat
        BY <4>1 DEF LocalInv, TypeOK
      <4>3. ASSUME key \notin AmbiguousKeys
            PROVE  /\ Good(b0, birth[key], granted[key], t) /\ Follows(b0, p)
                   /\ Paced(b0, lastGrant[key]) /\ t + ttl(Window(p)) <= b0.expireAt
        <5>1. Follows(b, p)
          BY <3>1, <4>1, <4>3 DEF LocalInv, BucketFollowsPolicy, Follows
        <5>2. b0 = [b EXCEPT !.expireAt = t + ttl(Window(p))]
          BY <5>1 DEF Updated, Follows
        <5>3. Good(b, birth[key], granted[key], t) /\ Paced(b, lastGrant[key])
          BY <3>3, <4>1, <4>3, LaterGood DEF LocalInv, PaceInv
        <5>4. t + ttl(Window(p)) \in Nat
          BY <3>2, <3>3, PolicyTyped
        <5>5. /\ b0.tokens = b.tokens /\ b0.rate = b.rate /\ b0.lastUpdate = b.lastUpdate
              /\ b0.oldLimit = b.oldLimit /\ b0.expireAt = t + ttl(Window(p))
          BY <5>2, <5>3 DEF Good, Bucket
        <5>6. Good(b0, birth[key], granted[key], t) /\ Follows(b0, p)
          BY <5>1, <5>2, <5>3, <5>4 DEF Good, Follows, Bucket
        <5>7. Paced(b0, lastGrant[key]) /\ t + ttl(Window(p)) <= b0.expireAt
          BY <5>3, <5>4, <5>5 DEF Paced
        <5>8. QED
          BY <5>6, <5>7
      <4> HIDE DEF acc, t, b0
      <4>4. QED
        BY <3>1, <3>3, <4>1, <4>2, <4>3, ChargeKeepsPace
    <3>9. QED
      BY <3>1, <3>6, <3>7, <3>8
  <2>3. CASE Tick
    BY <2>3 DEF Tick, PaceInv, RefusalIsRecent, NoReply
  <2>4. CASE CleanupStart
    BY <2>4 DEF CleanupStart, PaceInv, RefusalIsRecent, NoReply
  <2>5. ASSUME NEW s \in Shards, CleanupShard(s) PROVE PaceInv'
    <3>1. PICK gone : buckets' = Drop(buckets, gone) /\ lastGrant' = Drop(lastGrant, gone)
      BY <2>5 DEF CleanupShard
    <3>2. reply'.kind = "none"
      BY <2>5 DEF CleanupShard, NoReply
    <3>3. \A k \in DOMAIN buckets' :
            k \in DOMAIN buckets /\ buckets'[k] = buckets[k] /\ lastGrant'[k] = lastGrant[k]
      BY <3>1 DEF Drop, LocalInv, TypeOK
    <3>4. QED
      BY <3>2, <3>3 DEF PaceInv, RefusalIsRecent
  <2>6. CASE UNCHANGED vars
    BY <2>6 DEF vars, PaceInv, RefusalIsRecent
  <2>7. QED
    BY <2>1, <2>2, <2>3, <2>4, <2>5, <2>6 DEF Next
<1>3. QED
  BY <1>1, <1>2, LocalInvariant, PTL DEF Spec

(* The arithmetic of waiting: T tokens, less than the P of one admission,  *)
(* put the last refill d after the last admission within twice the time a  *)
(* token takes at rate r.                                                  *)
LEMMA WaitBound ==
  ASSUME NEW T \in Nat, NEW P \in Nat \ {0}, NEW r \in Nat \ {0}, NEW K \in Nat \ {0},
         NEW d \in Int, T < P, r * d <= 2 * K * T
  PROVE  CeilDiv(P, r) \in Nat /\ d < 2 * CeilDiv(P, r) * K
<1> DEFINE n == P + r - 1
           C == n \div r
<1>1. n \in Nat /\ CeilDiv(P, r) = C
  BY DEF CeilDiv
<1>2. C \in Nat /\ P <= r * C
  <2> HIDE DEF n
  <2>1. n \div r \in Nat /\ n < r * (n \div r) + r
    BY <1>1
  <2>2. r * (n \div r) \in Nat
    BY <2>1
  <2>3. QED
    BY <2>1, <2>2 DEF n
<1> HIDE DEF C
<1>3. 2 * K * T < 2 * K * (r * C)
  <2> DEFINE u == 2 * K
             x == r * C
  <2>1. u \in Nat \ {0} /\ x \in Nat /\ T < x
    BY <1>2
  <2> HIDE DEF u, x
  <2>2. u * T < u * x
    BY <2>1
  <2>3. QED
    BY <2>2 DEF u, x
<1>4. 2 * K * (r * C) = r * (2 * C * K)
  BY <1>2
<1>5. r * d < r * (2 * C * K)
  <2>1. r * d \in Int /\ 2 * K * T \in Int /\ r * (2 * C * K) \in Int
    BY <1>2
  <2>2. QED
    BY <1>3, <1>4, <2>1
<1>6. d < 2 * C * K
  <2> DEFINE x == 2 * C * K
  <2>1. x \in Int /\ r * d < r * x
    BY <1>2, <1>5
  <2> HIDE DEF x
  <2>2. d < x
    BY <2>1
  <2>3. QED
    BY <2>2 DEF x
<1>7. QED
  BY <1>1, <1>2, <1>6

(* A client that asks too often still gets its next request through within *)
(* twice the time a token takes and a second (tryConsume's lastUpdate).    *)
THEOREM LocalBoundedWait == Spec => []BoundedWait
<1> USE ConstantsAssumption
<1>1. LocalInv /\ PaceInv => BoundedWait
  <2> DEFINE p == Policies[reply.policy]
             k == KeyOf(reply.req, p)
             b == buckets[k]
             r == b.rate
             K == TicksPerSecond
             C == CeilDiv(Precision, r)
             d == b.lastUpdate - lastGrant[k]
  <2> SUFFICES ASSUME LocalInv, PaceInv, reply.kind = "limited", k \notin AmbiguousKeys,
                      p.limit > 0, r > 0
               PROVE  now - lastGrant[k] < (2 * C + 1) * K
    BY DEF BoundedWait
  <2>1. /\ k \in DOMAIN buckets /\ ~CanConsume(b) /\ now - b.lastUpdate < K
        /\ b.oldLimit = p.limit
    BY DEF PaceInv, RefusalIsRecent, LocalInv, BucketFollowsPolicy
  <2>2. /\ b \in Bucket /\ b.tokens \in Int /\ b.lastUpdate \in Nat /\ r \in Int
        /\ lastGrant[k] \in Nat /\ now \in Nat
    BY <2>1 DEF LocalInv, TypeOK, Bucket
  <2>3. b.tokens >= 0 /\ r * d <= 2 * K * b.tokens
    BY <2>1 DEF PaceInv, Paced
  <2>4. b.tokens < Precision
    BY <2>1, <2>2 DEF CanConsume
  <2>5. C \in Nat /\ d < 2 * C * K
    <3>1. b.tokens \in Nat /\ r \in Nat \ {0} /\ d \in Int
      BY <2>2, <2>3
    <3> DEFINE T == b.tokens
    <3>2. T \in Nat /\ T < Precision /\ r * d <= 2 * K * T
      BY <2>3, <2>4, <3>1
    <3> HIDE DEF r, d, T
    <3>3. QED
      BY <3>1, <3>2, WaitBound
  <2> HIDE DEF C
  <2>6. (2 * C + 1) * K = 2 * C * K + K /\ 2 * C * K \in Int
    BY <2>5
  <2>7. QED
    BY <2>1, <2>2, <2>5, <2>6
<1>2. QED
  BY <1>1, LocalInvariant, LocalPace, PTL

(* Deleting an expired bucket and starting a full one gives the client     *)
(* nothing that the refill would not have given it.                        *)
THEOREM LocalExpiryLosesNothing == Spec => []ExpiryLosesNothing
<1> USE ConstantsAssumption, TtlAssumption
<1>1. LocalInv /\ PaceInv => ExpiryLosesNothing
  <2> SUFFICES ASSUME LocalInv, PaceInv, NEW k \in DOMAIN buckets \ AmbiguousKeys,
                      Expired(buckets[k], now), buckets[k].rate > 0
               PROVE  Refilled(buckets[k], now).tokens = buckets[k].capacity
    BY DEF ExpiryLosesNothing
  <2> DEFINE b == buckets[k]
             K == TicksPerSecond
             e == now - b.lastUpdate
             y == e \div K
  <2>1. PICK i \in DOMAIN Policies : Outlives(b, Policies[i])
    BY DEF PaceInv
  <2> DEFINE W == Window(Policies[i])
             c == b.capacity
             r == b.rate
  <2>2. /\ b \in Bucket /\ b.tokens \in Int /\ c \in Int /\ r \in Int
        /\ b.lastUpdate \in Nat /\ b.expireAt \in Nat /\ now \in Nat /\ b.lastUpdate <= now
    BY DEF LocalInv, TypeOK, Bucket, Good
  <2>3. W \in Nat \ {0} /\ ttl(W) \in Nat /\ Policies[i].limit \in Int
    BY PolicyTyped
  <2>4. e \in Nat /\ ttl(W) <= e
    BY <2>1, <2>2, <2>3 DEF Outlives, Expired
  <2>5. 2 * W <= ttl(W) /\ K <= ttl(W)
    <3> HIDE DEF W
    <3>1. 2 * W <= W * TtlRate
      BY <2>3
    <3>2. W * TtlRate \in Int
      BY <2>3
    <3>3. QED
      BY <2>3, <3>1, <3>2 DEF ttl
  <2>6. b.oldLimit = Policies[i].limit /\ c = b.oldLimit * Precision /\ r = (c * K) \div W
    BY <2>1 DEF Outlives, Follows, capacityOf, rateOf
  <2>7. c \in Nat /\ b.oldLimit > 0
    <3> HIDE DEF W, c
    <3>1. c * K \in Int /\ (c * K) \div W > 0
      BY <2>2, <2>6
    <3> DEFINE x == c * K
    <3>2. x > 0
      <4> DEFINE q == x \div W
      <4> HIDE DEF x
      <4>1. x \in Int /\ q > 0
        BY <3>1 DEF x
      <4>2. W * q <= x /\ q \in Int
        BY <2>3, <4>1
      <4> HIDE DEF q
      <4>3. W * q > 0 /\ W * q \in Int
        BY <2>3, <4>1, <4>2
      <4>4. QED
        BY <4>1, <4>2, <4>3
    <3>3. c > 0
      BY <2>2, <3>2
    <3>4. b.oldLimit > 0
      BY <2>3, <2>6, <3>3
    <3>5. QED
      BY <2>2, <3>3, <3>4
  <2>8. b.tokens >= 0
    BY <2>7 DEF PaceInv, Paced
  <2>9. c <= y * r
    <3> HIDE DEF W, c, e
    <3>1. 2 * W <= e /\ K <= e
      BY <2>3, <2>4, <2>5
    <3>2. (c * K) \div W > 0
      BY <2>6
    <3>3. QED
      BY <2>3, <2>4, <2>6, <2>7, <3>1, <3>2, FullAfterTtl
  <2>10. \/ Refilled(b, now).tokens = IF b.tokens + y * r <= c THEN b.tokens + y * r ELSE c
         \/ e < K
    BY <2>2, RefillCases
  <2>11. y \in Nat
    BY <2>4
  <2> HIDE DEF b, e, y, W, c, r
  <2>12. y * r \in Int
    BY <2>2, <2>11
  <2>13. Refilled(b, now).tokens = c
    BY <2>2, <2>3, <2>4, <2>5, <2>8, <2>9, <2>10, <2>12
  <2>14. QED
    BY <2>13 DEF b, c
<1>2. QED
  BY <1>1, LocalInvariant, LocalPace, PTL

-----------------------------------------------------------------------------

(* There are finitely many buckets, and the cleanup's clock is not ahead.  *)
SpaceInv == IsFiniteSet(DOMAIN buckets) /\ sweep.at <= now

(* A request puts one bucket back and takes time forward.                  *)
LEMMA ChargeSpace ==
  ASSUME SpaceInv, LocalInv, NEW req, NEW i, NEW b0, NEW isNew, NEW gone, NEW acc,
         NEW t \in Nat, now <= t, Charge(req, i, b0, isNew, gone, acc, t)
  PROVE  /\ SpaceInv'
         /\ DOMAIN buckets' = (DOMAIN buckets \ gone) \cup {KeyOf(req, Policies[i])}
<1> DEFINE key == KeyOf(req, Policies[i])
<1>1. DOMAIN buckets' = (DOMAIN buckets \ gone) \cup {key} /\ now' = t /\ sweep' = sweep
  BY DEF Charge, Put, Drop
<1> HIDE DEF key
<1>2. IsFiniteSet(DOMAIN buckets \ gone)
  BY FS_Subset, DOMAIN buckets \ gone \subseteq DOMAIN buckets DEF SpaceInv
<1>3. IsFiniteSet(DOMAIN buckets')
  BY <1>1, <1>2, FS_AddElement
<1>4. sweep.at \in Nat /\ now \in Nat
  BY DEF LocalInv, TypeOK
<1>5. QED
  BY <1>1, <1>3, <1>4 DEF SpaceInv, key

(* The three cases of checkBucketLocal: at time t, bucket maps charged.    *)
LEMMA RequestSpace ==
  ASSUME SpaceInv, LocalInv, NEW req \in Requests, OnRequest(req)
  PROVE  SpaceInv'
<1> USE ConstantsAssumption
<1> DEFINE i == LimitingPolicy(req, Policies)
           t == now + ClockStep
<1>1. t \in Nat /\ now <= t
  BY DEF LocalInv, TypeOK
<1>2. \E b0, isNew, gone, acc : Charge(req, i, b0, isNew, gone, acc, t)
  <2>1. CASE CheckNew(req, i)
    BY <2>1 DEF CheckNew
  <2>2. CASE CheckExpired(req, i)
    BY <2>2 DEF CheckExpired
  <2>3. CASE CheckLive(req, i)
    BY <2>3 DEF CheckLive
  <2>4. QED
    BY <2>1, <2>2, <2>3 DEF OnRequest
<1> HIDE DEF i, t
<1>3. QED
  BY <1>1, <1>2, ChargeSpace

(* What cleanup removes has expired by its own, older clock reading.       *)
LEMMA CleanupLeaves ==
  ASSUME SpaceInv, LocalInv, NEW s \in Shards, CleanupShard(s)
  PROVE  /\ SpaceInv'
         /\ \A k \in DOMAIN buckets \ DOMAIN buckets' : Expired(buckets[k], now')
<1> DEFINE gone == {k \in InShard(buckets, s) : Expired(buckets[k], sweep.at)}
<1>1. /\ DOMAIN buckets' = DOMAIN buckets \ gone /\ now' = now
      /\ sweep'.at = 0 \/ sweep'.at = sweep.at
  BY DEF CleanupShard, Drop, NoSweep, LocalInv, TypeOK
<1>2. \A k \in DOMAIN buckets : buckets[k].expireAt \in Nat
  BY DEF LocalInv, TypeOK, Bucket
<1>3. sweep.at \in Nat /\ now \in Nat /\ sweep.at <= now
  BY DEF LocalInv, TypeOK, SpaceInv
<1>4. \A k \in DOMAIN buckets \ DOMAIN buckets' : Expired(buckets[k], now')
  BY <1>1, <1>2, <1>3 DEF Expired
<1> HIDE DEF gone
<1>5. IsFiniteSet(DOMAIN buckets')
  BY <1>1, FS_Subset, DOMAIN buckets \ gone \subseteq DOMAIN buckets DEF SpaceInv
<1>6. QED
  BY <1>1, <1>3, <1>4, <1>5 DEF SpaceInv

(* The finite maps and the cleanup's clock, in every reachable state.      *)
THEOREM LocalSpace == Spec => []SpaceInv
<1> USE ConstantsAssumption
<1>1. Init => SpaceInv
  <2> SUFFICES ASSUME Init PROVE SpaceInv
    OBVIOUS
  <2>1. DOMAIN buckets = {} /\ sweep.at = 0 /\ now = 0
    BY DEF Init, NoSweep
  <2>2. QED
    BY <2>1, FS_EmptySet DEF SpaceInv
<1>2. LocalInv /\ SpaceInv /\ [Next]_vars => SpaceInv'
  <2> SUFFICES ASSUME LocalInv, SpaceInv, [Next]_vars PROVE SpaceInv'
    OBVIOUS
  <2>0. now \in Nat /\ sweep.at \in Nat
    BY DEF LocalInv, TypeOK
  <2>1. ASSUME NEW req \in Requests, PassThrough(req) PROVE SpaceInv'
    BY <2>1 DEF PassThrough, SpaceInv
  <2>2. CASE Tick
    BY <2>0, <2>2 DEF Tick, SpaceInv
  <2>3. CASE CleanupStart
    BY <2>0, <2>3 DEF CleanupStart, SpaceInv
  <2>4. CASE UNCHANGED vars
    BY <2>4 DEF vars, SpaceInv
  <2>5. QED
    BY <2>1, <2>2, <2>3, <2>4, RequestSpace, CleanupLeaves DEF Next
<1>3. QED
  BY <1>1, <1>2, LocalInvariant, PTL DEF Spec

(* What a bucket leaves its shard for.                                     *)
MayLeave(k) ==
  LET mates == InShard(buckets, ShardOf(k))
  IN  \/ Expired(buckets[k], now')
      \/ /\ Cardinality(mates) >= MaxBucketsPerShard
         /\ k \in DOMAIN lastAccessTime
         /\ \A j \in mates \cap DOMAIN lastAccessTime :
              lastAccessTime[k] <= lastAccessTime[j] \/ Expired(buckets[j], now')

(* The bucket evicted from maps b and acc, which hold what the shard's     *)
(* maps hold but for an expired key.                                       *)
LEMMA EvictedIsOldest ==
  ASSUME SpaceInv, LocalInv, NEW key, NEW t \in Nat, now' = t,
         NEW b, NEW acc,
         DOMAIN b \subseteq DOMAIN buckets,
         key \in DOMAIN buckets => Expired(buckets[key], t),
         \A j \in DOMAIN acc : j # key => j \in DOMAIN lastAccessTime,
         \A j \in DOMAIN lastAccessTime :
           j # key => j \in DOMAIN acc /\ acc[j] = lastAccessTime[j],
         key \in DOMAIN acc => acc[key] = t,
         NEW gone \in Evictions(b, acc, ShardOf(key), t), NEW k \in gone
  PROVE  MayLeave(k)
<1> DEFINE s == ShardOf(key)
           mates == InShard(buckets, s)
<1>1. /\ Cardinality(InShard(b, s)) >= MaxBucketsPerShard
      /\ k \in DOMAIN acc /\ ShardOf(k) = s /\ acc[k] < t
      /\ \A j \in DOMAIN acc : ShardOf(j) = s /\ acc[j] < t => acc[k] <= acc[j]
  BY DEF Evictions, Oldest, InShard
<1>2. k # key /\ k \in DOMAIN lastAccessTime /\ acc[k] = lastAccessTime[k]
  BY <1>1
<1>3. Cardinality(mates) >= MaxBucketsPerShard
  <2>1. InShard(b, s) \subseteq mates /\ mates \subseteq DOMAIN buckets
    BY DEF InShard
  <2> HIDE DEF mates, s
  <2>2. IsFiniteSet(mates)
    BY <2>1, FS_Subset DEF SpaceInv
  <2>3. IsFiniteSet(InShard(b, s)) /\ Cardinality(InShard(b, s)) <= Cardinality(mates)
    BY <2>1, <2>2, FS_Subset
  <2>4. Cardinality(mates) \in Nat /\ Cardinality(InShard(b, s)) \in Nat
    BY <2>2, <2>3, FS_CardinalityType
  <2>5. QED
    BY <1>1, <2>3, <2>4, ConstantsAssumption
<1>4. ASSUME NEW j \in mates \cap DOMAIN lastAccessTime
      PROVE  lastAccessTime[k] <= lastAccessTime[j] \/ Expired(buckets[j], now')
  <2>1. CASE j = key
    BY <1>4, <2>1 DEF InShard
  <2>2. CASE j # key
    <3>1. /\ j \in DOMAIN acc /\ acc[j] = lastAccessTime[j] /\ ShardOf(j) = s
          /\ lastAccessTime[j] \in Nat /\ lastAccessTime[k] \in Nat
      BY <1>2, <1>4, <2>2 DEF InShard, LocalInv, TypeOK
    <3>2. QED
      BY <1>1, <1>2, <3>1
  <2>3. QED
    BY <2>1, <2>2
<1>5. QED
  BY <1>1, <1>2, <1>3, <1>4 DEF MayLeave

(* A live bucket is never dropped but as the least recently used of a full *)
(* shard, however cleanup and requests interleave.                         *)
THEOREM LocalOnlyExpiredOrOldestLeave == Spec => OnlyExpiredOrOldestLeave
<1> USE ConstantsAssumption
<1> DEFINE Leave == \A k \in DOMAIN buckets \ DOMAIN buckets' : MayLeave(k)
<1>1. LocalInv /\ SpaceInv /\ [Next]_vars => [Leave]_vars
  <2> SUFFICES ASSUME LocalInv, SpaceInv, Next PROVE Leave
    OBVIOUS
  <2>1. ASSUME NEW req \in Requests, PassThrough(req) PROVE Leave
    BY <2>1 DEF PassThrough
  <2>2. ASSUME NEW req \in Requests, OnRequest(req) PROVE Leave
    <3> DEFINE i   == LimitingPolicy(req, Policies)
               p   == Policies[i]
               key == KeyOf(req, p)
               t   == now + ClockStep
               nb  == NewBucket(p.limit, Window(p), t)
               acc1 == Put(lastAccessTime, key, t)
               acc2 == Drop(acc1, {key})
    <3>1. t \in Nat /\ now <= t
      BY DEF LocalInv, TypeOK
    <3>2. CheckNew(req, i) \/ CheckExpired(req, i) \/ CheckLive(req, i)
      BY <2>2 DEF OnRequest
    <3>3. CASE CheckNew(req, i)
      <4>1. /\ key \notin DOMAIN buckets
            /\ \E gone \in Evictions(buckets, acc1, ShardOf(key), t) :
                 Charge(req, i, nb, TRUE, gone, acc1, t)
        BY <3>3 DEF CheckNew
      <4>2. PICK gone \in Evictions(buckets, acc1, ShardOf(key), t) :
              Charge(req, i, nb, TRUE, gone, acc1, t)
        BY <4>1
      <4>3. now' = t
        BY <4>2 DEF Charge
      <4>4. /\ \A j \in DOMAIN acc1 : j # key => j \in DOMAIN lastAccessTime
            /\ \A j \in DOMAIN lastAccessTime :
                 j # key => j \in DOMAIN acc1 /\ acc1[j] = lastAccessTime[j]
            /\ acc1[key] = t
        BY DEF Put
      <4> HIDE DEF i, key, t, nb, acc1
      <4>5. DOMAIN buckets' = (DOMAIN buckets \ gone) \cup {key}
        BY <3>1, <4>2, ChargeSpace DEF key
      <4>6. \A k \in gone : MayLeave(k)
        BY <3>1, <4>1, <4>2, <4>3, <4>4, EvictedIsOldest
      <4>7. QED
        BY <4>5, <4>6
    <3>4. CASE CheckExpired(req, i)
      <4>1. /\ key \in DOMAIN buckets /\ Expired(buckets[key], t)
            /\ \E gone \in Evictions(Drop(buckets, {key}), acc2, ShardOf(key), t) :
                 Charge(req, i, nb, TRUE, gone, acc2, t)
        BY <3>4 DEF CheckExpired
      <4>2. PICK gone \in Evictions(Drop(buckets, {key}), acc2, ShardOf(key), t) :
              Charge(req, i, nb, TRUE, gone, acc2, t)
        BY <4>1
      <4>3. now' = t
        BY <4>2 DEF Charge
      <4>4. /\ \A j \in DOMAIN acc2 : j # key => j \in DOMAIN lastAccessTime
            /\ \A j \in DOMAIN lastAccessTime :
                 j # key => j \in DOMAIN acc2 /\ acc2[j] = lastAccessTime[j]
            /\ key \notin DOMAIN acc2
        BY DEF Put, Drop
      <4>5. DOMAIN Drop(buckets, {key}) \subseteq DOMAIN buckets
        BY DEF Drop
      <4> HIDE DEF i, key, t, nb, acc1, acc2
      <4>6. DOMAIN buckets' = (DOMAIN buckets \ gone) \cup {key}
        BY <3>1, <4>2, ChargeSpace DEF key
      <4>7. \A k \in gone : MayLeave(k)
        BY <3>1, <4>1, <4>2, <4>3, <4>4, <4>5, EvictedIsOldest
      <4>8. QED
        BY <4>6, <4>7
    <3>5. CASE CheckLive(req, i)
      <4> DEFINE b0 == Updated(buckets[key], p.limit, Window(p), t)
      <4>1. Charge(req, i, b0, FALSE, {}, acc1, t)
        BY <3>5 DEF CheckLive
      <4> HIDE DEF i, key, t, acc1, b0
      <4>2. DOMAIN buckets' = (DOMAIN buckets \ {}) \cup {key}
        BY <3>1, <4>1, ChargeSpace DEF key
      <4>3. QED
        BY <4>2
    <3>6. QED
      BY <3>2, <3>3, <3>4, <3>5
  <2>3. CASE Tick
    BY <2>3 DEF Tick
  <2>4. CASE CleanupStart
    BY <2>4 DEF CleanupStart
  <2>5. ASSUME NEW s \in Shards, CleanupShard(s) PROVE Leave
    BY <2>5, CleanupLeaves DEF MayLeave
  <2>6. QED
    BY <2>1, <2>2, <2>3, <2>4, <2>5 DEF Next
<1>2. QED
  BY <1>1, LocalInvariant, LocalSpace, PTL DEF Spec, OnlyExpiredOrOldestLeave, MayLeave

============================================================================
