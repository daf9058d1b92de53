-------------------------- MODULE RequestPathProofs --------------------------
(***************************************************************************)
(* Proofs about RequestPath, for any clients, auth rules, clusters,        *)
(* weights, fallbacks and replies.  First the load balancer: its loops are *)
(* folds over the targets, so there is an induction, over sets of natural  *)
(* numbers.  Then the requests, with one invariant that every action       *)
(* keeps, and the refinement of Gateway.                                   *)
(***************************************************************************)
EXTENDS RequestPath, FiniteSetTheorems, SequenceTheorems, WellFoundedInduction, TLAPS

-----------------------------------------------------------------------------
(* Natural numbers, running totals and the scans of the load balancer.     *)

(* A nonempty set of natural numbers has a least element.                  *)
LEMMA LeastNatural ==
  ASSUME NEW S, S \subseteq Nat, S # {}
  PROVE  \E i \in S : \A j \in S : i <= j
<1>1. PICK i \in S : \A j \in S : ~(<<j, i>> \in OpToRel(<, Nat))
  BY WFMin, NatLessThanWellFounded
<1>2. \A j \in S : <<j, i>> \in Nat \X Nat
  OBVIOUS
<1>3. \A j \in S : ~(j < i)
  BY <1>1, <1>2 DEF OpToRel
<1>4. QED
  BY <1>3

(* Induction, for a set of natural numbers: the library's principle is for *)
(* a predicate, which is given here by the set of those that have it.      *)
LEMMA Reaches ==
  ASSUME NEW S, 0 \in S, \A n \in Nat : n \in S => n + 1 \in S
  PROVE  \A n \in Nat : n \in S
<1> SUFFICES ASSUME Nat \ S # {} PROVE FALSE
  OBVIOUS
<1>1. PICK i \in Nat \ S : \A j \in Nat \ S : i <= j
  <2> DEFINE T == Nat \ S
  <2>1. T \subseteq Nat /\ T # {}
    OBVIOUS
  <2> HIDE DEF T
  <2>2. \E i \in T : \A j \in T : i <= j
    BY <2>1, LeastNatural
  <2>3. QED
    BY <2>2 DEF T
<1>2. i # 0 /\ i - 1 \in Nat
  BY <1>1
<1>3. i - 1 \in S
  BY <1>1, <1>2
<1>4. (i - 1) + 1 \in S /\ (i - 1) + 1 = i
  BY <1>2, <1>3
<1>5. QED
  BY <1>1, <1>4

(* Running totals exist.                                                   *)
LEMMA TotalsExist ==
  ASSUME NEW N \in Nat, NEW w \in [1..N -> Nat]
  PROVE  \E f \in [0..N -> Nat] :
           f = [i \in 0..N |-> IF i = 0 THEN 0 ELSE f[i - 1] + w[i]]
<1> DEFINE Good(f, m) == \A i \in 0..m : f[i] = IF i = 0 THEN 0 ELSE f[i - 1] + w[i]
           Has(m) == \E f \in [0..m -> Nat] : Good(f, m)
           S == {m \in Nat : m <= N => Has(m)}
<1>1. Has(0)
  <2> DEFINE f == [i \in 0..0 |-> 0]
  <2>1. f \in [0..0 -> Nat] /\ Good(f, 0)
    OBVIOUS
  <2>2. QED
    BY <2>1
<1>2. ASSUME NEW n \in Nat, Has(n), n + 1 <= N PROVE Has(n + 1)
  <2>1. PICK f \in [0..n -> Nat] : Good(f, n)
    BY <1>2
  <2> DEFINE g == [i \in 0..(n + 1) |-> IF i <= n THEN f[i] ELSE f[n] + w[n + 1]]
  <2>2. g \in [0..(n + 1) -> Nat]
    <3>1. w[n + 1] \in Nat /\ f[n] \in Nat
      BY <1>2, <2>1
    <3>2. \A i \in 0..(n + 1) : i <= n => f[i] \in Nat
      BY <2>1
    <3>3. QED
      BY <3>1, <3>2
  <2>3. ASSUME NEW i \in 0..(n + 1)
        PROVE  g[i] = IF i = 0 THEN 0 ELSE g[i - 1] + w[i]
    <3>1. CASE i <= n
      BY <2>1, <3>1
    <3>2. CASE i = n + 1
      BY <2>1, <3>2
    <3>3. QED
      BY <3>1, <3>2
  <2>4. QED
    BY <2>2, <2>3
<1>3. Has(N)
  <2> HIDE DEF Has
  <2>1. 0 \in S
    BY <1>1
  <2>2. \A n \in Nat : n \in S => n + 1 \in S
    BY <1>2
  <2> HIDE DEF S
  <2>3. N \in S
    BY <2>1, <2>2, Reaches
  <2>4. QED
    BY <2>3 DEF S
<1>4. PICK f \in [0..N -> Nat] : Good(f, N)
  BY <1>3
<1>5. f = [i \in 0..N |-> IF i = 0 THEN 0 ELSE f[i - 1] + w[i]]
  BY <1>4
<1>6. QED
  BY <1>5

\* the i-th server from the given one on
ServerAt(from, i) == ((from + i - 2) % Len(balancer.weights)) + 1

(* What calculateTotalWeight computes.                                     *)
LEMMA WeightFromFacts ==
  ASSUME balancer.weights \in Seq(Nat), Len(balancer.weights) > 0,
         NEW from \in DOMAIN balancer.weights
  PROVE  /\ WeightFrom(from, 0) = 0
         /\ \A i \in 0..Len(balancer.weights) : WeightFrom(from, i) \in Nat
         /\ \A i \in 1..Len(balancer.weights) :
              /\ ServerAt(from, i) \in DOMAIN balancer.weights
              /\ WeightFrom(from, i) =
                   WeightFrom(from, i - 1) + balancer.weights[ServerAt(from, i)]
<1> DEFINE N == Len(balancer.weights)
           w == [i \in 1..N |-> balancer.weights[ServerAt(from, i)]]
           total == CHOOSE f : f = [i \in 0..N |->
                      IF i = 0 THEN 0 ELSE f[i - 1] + balancer.weights[ServerAt(from, i)]]
<1>1. N \in Nat /\ N > 0 /\ DOMAIN balancer.weights = 1..N
  OBVIOUS
<1>2. \A i \in 1..N : ServerAt(from, i) \in 1..N
  BY <1>1 DEF ServerAt
<1>3. w \in [1..N -> Nat] /\ \A i \in 1..N : w[i] = balancer.weights[ServerAt(from, i)]
  <2> HIDE DEF N
  <2>1. \A i \in 1..N : balancer.weights[i] \in Nat
    BY <1>1 DEF N
  <2>2. QED
    BY <1>1, <1>2, <2>1
<1>4. \A n : WeightFrom(from, n) = total[n]
  BY DEF WeightFrom, ServerAt
<1> HIDE DEF N
<1>5. PICK f \in [0..N -> Nat] :
             f = [i \in 0..N |-> IF i = 0 THEN 0 ELSE f[i - 1] + w[i]]
  <2> HIDE DEF w
  <2>1. QED
    BY <1>1, <1>3, TotalsExist
<1>6. f = [i \in 0..N |-> IF i = 0 THEN 0
                          ELSE f[i - 1] + balancer.weights[ServerAt(from, i)]]
  <2> HIDE DEF w
  <2>1. \A i \in 0..N : f[i] = IF i = 0 THEN 0 ELSE f[i - 1] + w[i]
    BY <1>5
  <2>2. \A i \in 0..N : f[i] = IF i = 0 THEN 0
                                ELSE f[i - 1] + balancer.weights[ServerAt(from, i)]
    <3> SUFFICES ASSUME NEW i \in 0..N, i # 0
                 PROVE  f[i] = f[i - 1] + balancer.weights[ServerAt(from, i)]
      BY <2>1
    <3>1. i \in 1..N
      BY <1>1
    <3>2. QED
      BY <1>3, <2>1, <3>1
  <2>3. QED
    BY <1>5, <2>2
<1>7. total = [i \in 0..N |-> IF i = 0 THEN 0
                              ELSE total[i - 1] + balancer.weights[ServerAt(from, i)]]
  BY <1>6
<1> HIDE DEF total, w
<1>8. /\ total[0] = 0
      /\ \A i \in 1..N : total[i] = total[i - 1] + balancer.weights[ServerAt(from, i)]
  <2>1. \A i \in 0..N : total[i] = IF i = 0 THEN 0
                          ELSE total[i - 1] + balancer.weights[ServerAt(from, i)]
    BY <1>7
  <2>2. 0 \in 0..N /\ \A i \in 1..N : i \in 0..N /\ i # 0
    BY <1>1
  <2>3. QED
    BY <2>1, <2>2
<1>9. \A i \in 1..N : balancer.weights[ServerAt(from, i)] \in Nat
  BY <1>2, <1>3 DEF w
<1>10. \A i \in 0..N : total[i] \in Nat
  <2> DEFINE S == {i \in Nat : i <= N => total[i] \in Nat}
  <2>1. 0 \in S
    BY <1>8
  <2>2. ASSUME NEW n \in Nat, n \in S PROVE n + 1 \in S
    <3>1. CASE n + 1 <= N
      <4>1. n + 1 \in 1..N /\ (n + 1) - 1 = n /\ total[n] \in Nat
        BY <1>1, <2>2, <3>1
      <4>2. total[n + 1] = total[n] + balancer.weights[ServerAt(from, n + 1)]
        BY <1>8, <4>1
      <4>3. QED
        BY <1>9, <4>1, <4>2
    <3>2. QED
      BY <1>1, <3>1
  <2> HIDE DEF S
  <2>3. \A n \in Nat : n \in S
    BY <2>1, <2>2, Reaches
  <2>4. QED
    BY <1>1, <2>3 DEF S
<1>11. QED
  BY <1>1, <1>2, <1>4, <1>8, <1>10 DEF N

(* The servers come in the order of the targets, round and round.          *)
LEMMA ServerAtFacts ==
  ASSUME NEW N \in Nat, N > 0, Len(balancer.weights) = N,
         NEW from \in 1..N
  PROVE  /\ ServerAt(from, 1) = from
         /\ from < N => /\ ServerAt(from + 1, N) = from
                        /\ \A i \in 1..N : ServerAt(from + 1, i) = ServerAt(from, i + 1)
<1>1. (from - 1) % N = from - 1
  OBVIOUS
<1>2. (from + N - 1) % N = from - 1
  OBVIOUS
<1>3. from + 1 - 2 = from - 1 /\ (from + 1) + N - 2 = from + N - 1
  OBVIOUS
<1>4. \A i \in 1..N : (from + 1) + i - 2 = from + (i + 1) - 2
  OBVIOUS
<1>5. ServerAt(from, 1) = from
  BY <1>1, <1>3 DEF ServerAt
<1>6. ServerAt(from + 1, N) = from
  BY <1>2, <1>3 DEF ServerAt
<1>7. \A i \in 1..N : ServerAt(from + 1, i) = ServerAt(from, i + 1)
  BY <1>4 DEF ServerAt
<1>8. QED
  BY <1>5, <1>6, <1>7

(* All servers together weigh the same wherever the count starts.          *)
LEMMA TotalFromAnywhere ==
  ASSUME balancer.weights \in Seq(Nat), Len(balancer.weights) > 0,
         NEW from \in DOMAIN balancer.weights
  PROVE  WeightFrom(from, Len(balancer.weights)) = TotalWeight
<1> DEFINE N == Len(balancer.weights)
           W(i) == balancer.weights[i]
           S == {m \in Nat : m + 1 <= N => WeightFrom(m + 1, N) = TotalWeight}
<1>1. N \in Nat /\ N > 0 /\ DOMAIN balancer.weights = 1..N /\ \A i \in 1..N : W(i) \in Nat
  OBVIOUS
<1>2. 0 \in S
  BY DEF TotalWeight
<1>3. ASSUME NEW m \in Nat, m \in S, m + 2 <= N
      PROVE  WeightFrom(m + 2, N) = WeightFrom(m + 1, N)
  <2> DEFINE a == m + 1
             b == m + 2
             T == {i \in Nat : i + 1 <= N => WeightFrom(b, i) = WeightFrom(a, i + 1) - W(a)}
  <2> HIDE DEF N
  <2>1. a \in 1..N /\ b \in 1..N /\ b = a + 1 /\ a < N
    BY <1>1, <1>3
  <2> HIDE DEF a, b
  <2>2. /\ WeightFrom(a, 0) = 0 /\ WeightFrom(b, 0) = 0
        /\ \A i \in 0..N : WeightFrom(a, i) \in Nat /\ WeightFrom(b, i) \in Nat
        /\ \A i \in 1..N : /\ WeightFrom(a, i) = WeightFrom(a, i - 1) + W(ServerAt(a, i))
                           /\ WeightFrom(b, i) = WeightFrom(b, i - 1) + W(ServerAt(b, i))
                           /\ ServerAt(a, i) \in 1..N /\ ServerAt(b, i) \in 1..N
    BY <1>1, <2>1, WeightFromFacts DEF N
  <2>3. /\ ServerAt(a, 1) = a /\ ServerAt(b, N) = a
        /\ \A i \in 1..N : ServerAt(b, i) = ServerAt(a, i + 1)
    BY <1>1, <2>1, ServerAtFacts DEF N
  <2> HIDE DEF W
  <2>4. WeightFrom(a, 1) = W(a) /\ W(a) \in Nat
    <3>1. 1 \in 1..N /\ 1 - 1 = 0
      BY <1>1
    <3>2. WeightFrom(a, 1) = WeightFrom(a, 0) + W(ServerAt(a, 1))
      BY <2>2, <3>1
    <3>3. QED
      BY <1>1, <2>1, <2>2, <2>3, <3>2
  <2>5. 0 \in T
    BY <2>2, <2>4
  <2>6. ASSUME NEW i \in Nat, i \in T PROVE i + 1 \in T
    <3> SUFFICES ASSUME (i + 1) + 1 <= N
                 PROVE  WeightFrom(b, i + 1) = WeightFrom(a, (i + 1) + 1) - W(a)
      OBVIOUS
    <3>1. /\ i + 1 \in 1..N /\ i + 2 \in 1..N /\ (i + 1) - 1 = i /\ (i + 2) - 1 = i + 1
          /\ (i + 1) + 1 = i + 2 /\ i \in 0..N /\ i + 1 \in 0..N
      BY <1>1
    <3>2. WeightFrom(b, i) = WeightFrom(a, i + 1) - W(a)
      BY <2>6, <3>1
    <3>3. WeightFrom(b, i + 1) = WeightFrom(b, i) + W(ServerAt(b, i + 1))
      BY <2>2, <3>1
    <3>4. WeightFrom(a, i + 2) = WeightFrom(a, i + 1) + W(ServerAt(a, i + 2))
      BY <2>2, <3>1
    <3>5. ServerAt(b, i + 1) = ServerAt(a, i + 2) /\ W(ServerAt(a, i + 2)) \in Nat
      BY <1>1, <2>2, <2>3, <3>1
    <3>6. WeightFrom(a, i + 1) \in Nat
      BY <2>2, <3>1
    <3>7. QED
      BY <2>4, <3>1, <3>2, <3>3, <3>4, <3>5, <3>6
  <2>7. N - 1 \in T
    <3> HIDE DEF T
    <3>1. N - 1 \in Nat
      BY <1>1
    <3>2. \A n \in Nat : n \in T
      BY <2>5, <2>6, Reaches
    <3>3. QED
      BY <3>1, <3>2
  <2>8. WeightFrom(b, N - 1) = WeightFrom(a, N) - W(a)
    BY <1>1, <2>7
  <2>9. WeightFrom(b, N) = WeightFrom(b, N - 1) + W(a) /\ WeightFrom(a, N) \in Nat
    BY <1>1, <2>2, <2>3
  <2>10. WeightFrom(b, N) = WeightFrom(a, N)
    BY <2>4, <2>8, <2>9
  <2>11. QED
    BY <2>10 DEF a, b
<1>4. ASSUME NEW m \in Nat, m \in S PROVE m + 1 \in S
  <2>1. (m + 1) + 1 = m + 2
    OBVIOUS
  <2> HIDE DEF N
  <2>2. QED
    BY <1>1, <1>3, <1>4, <2>1
<1>5. from - 1 \in S
  <2> HIDE DEF S
  <2>1. from - 1 \in Nat
    BY <1>1
  <2>2. QED
    BY <1>2, <1>4, <2>1, Reaches
<1>6. QED
  BY <1>1, <1>5

(* rand.Int gives a number below the total weight, so WeightedRoundRobin   *)
(* finds a server, and one that weighs something, wherever it starts.      *)
LEMMA FoundServerWeighs ==
  ASSUME balancer.weights \in Seq(Nat), Len(balancer.weights) > 0,
         current \in DOMAIN balancer.weights,
         NEW random \in 0..(TotalWeight - 1)
  PROVE  /\ FoundServer(random) \in DOMAIN balancer.weights
         /\ balancer.weights[FoundServer(random)] > 0
<1> DEFINE N == Len(balancer.weights)
           A == {i \in 1..N : WeightFrom(current, i) > random}
           first == CHOOSE i \in 1..N : /\ WeightFrom(current, i) > random
                                        /\ \A j \in 1..(i - 1) :
                                             WeightFrom(current, j) <= random
<1>1. N \in Nat /\ N > 0 /\ DOMAIN balancer.weights = 1..N
  OBVIOUS
<1>2. FoundServer(random) = ServerAt(current, first)
  BY DEF FoundServer, ServerAt
<1> HIDE DEF N
<1>3. /\ WeightFrom(current, 0) = 0
      /\ \A i \in 0..N : WeightFrom(current, i) \in Nat
      /\ \A i \in 1..N : /\ ServerAt(current, i) \in 1..N
                         /\ WeightFrom(current, i) = WeightFrom(current, i - 1)
                                + balancer.weights[ServerAt(current, i)]
  BY <1>1, WeightFromFacts DEF N
<1>4. WeightFrom(current, N) = TotalWeight /\ WeightFrom(current, N) \in Nat
  <2>1. N \in 0..N
    BY <1>1
  <2>2. WeightFrom(current, N) = TotalWeight
    BY TotalFromAnywhere DEF N
  <2>3. QED
    BY <1>3, <2>1, <2>2
<1>5. N \in A /\ A \subseteq Nat /\ random \in Nat
  BY <1>1, <1>4
<1>6. PICK m \in A : \A j \in A : m <= j
  <2> HIDE DEF A
  <2>1. QED
    BY <1>5, LeastNatural
<1>7. \A j \in 1..(m - 1) : WeightFrom(current, j) <= random
  <2> SUFFICES ASSUME NEW j \in 1..(m - 1) PROVE WeightFrom(current, j) <= random
    OBVIOUS
  <2>1. j \in 1..N /\ j \in 0..N /\ j < m
    BY <1>1, <1>6
  <2>2. j \notin A
    BY <1>6, <2>1
  <2>3. QED
    BY <1>3, <1>5, <2>1, <2>2
<1>8. /\ first \in 1..N /\ WeightFrom(current, first) > random
      /\ \A j \in 1..(first - 1) : WeightFrom(current, j) <= random
  BY <1>6, <1>7
<1> HIDE DEF first
<1>9. WeightFrom(current, first - 1) <= random
  <2>1. CASE first = 1
    BY <1>3, <1>5, <2>1
  <2>2. CASE first # 1
    BY <1>1, <1>8, <2>2
  <2>3. QED
    BY <2>1, <2>2
<1>10. balancer.weights[ServerAt(current, first)] > 0
  <2>1. /\ WeightFrom(current, first) \in Nat /\ WeightFrom(current, first - 1) \in Nat
        /\ ServerAt(current, first) \in 1..N
        /\ WeightFrom(current, first) =
             WeightFrom(current, first - 1) + balancer.weights[ServerAt(current, first)]
    <3>1. first \in 0..N /\ first - 1 \in 0..N
      BY <1>1, <1>8
    <3>2. QED
      BY <1>3, <1>8, <3>1
  <2>2. balancer.weights[ServerAt(current, first)] \in Nat
    BY <1>1, <2>1 DEF N
  <2> DEFINE upto == WeightFrom(current, first)
             below == WeightFrom(current, first - 1)
             own == balancer.weights[ServerAt(current, first)]
  <2>3. /\ upto \in Nat /\ below \in Nat /\ own \in Nat /\ random \in Nat
        /\ upto = below + own /\ upto > random /\ below <= random
    <3> HIDE DEF A
    <3>1. QED
      BY <1>5, <1>8, <1>9, <2>1, <2>2
  <2> HIDE DEF upto, below, own
  <2>4. own > 0
    BY <2>3
  <2>5. QED
    BY <2>4 DEF own
<1>11. QED
  BY <1>1, <1>2, <1>3, <1>8, <1>10

(* A factor may be added, and taken away.                                  *)
LEMMA Scale ==
  ASSUME NEW x \in Nat, NEW y \in Nat, NEW b \in Nat, x <= y
  PROVE  x * b <= y * b
OBVIOUS

(* A comparison of multiples is one of the numbers: the load balancer      *)
(* compares counts across weights.                                         *)
LEMMA Unscale ==
  ASSUME NEW x \in Nat, NEW y \in Nat, NEW b \in Nat, b > 0, x * b <= y * b
  PROVE  x <= y
<1> SUFFICES ASSUME y + 1 <= x PROVE FALSE
  OBVIOUS
<1>1. (y + 1) * b <= x * b
  BY Scale
<1>2. (y + 1) * b = y * b + b
  OBVIOUS
<1>3. QED
  BY <1>1, <1>2

(* Loads, compared by cross products, are ordered.                         *)
LEMMA LoadsOrdered ==
  ASSUME NEW a \in Nat, NEW b \in Nat, NEW c \in Nat,
         NEW u \in Nat, NEW v \in Nat, NEW w \in Nat, v > 0,
         a * v <= b * u, b * w <= c * v
  PROVE  a * w <= c * u
<1>1. /\ a * v \in Nat /\ b * u \in Nat /\ b * w \in Nat /\ c * v \in Nat
      /\ a * w \in Nat /\ c * u \in Nat
  OBVIOUS
<1>2. (a * v) * w <= (b * u) * w
  BY <1>1, Scale
<1>3. (b * w) * u <= (c * v) * u
  BY <1>1, Scale
<1>4. /\ (a * v) * w = (a * w) * v /\ (b * u) * w = (b * w) * u
      /\ (c * v) * u = (c * u) * v
  OBVIOUS
<1>5. (a * w) * v <= (c * u) * v
  <2> DEFINE p == (a * w) * v
             q == (b * w) * u
             t == (c * u) * v
  <2>1. p <= q /\ q <= t
    BY <1>2, <1>3, <1>4
  <2>2. p \in Nat /\ q \in Nat /\ t \in Nat
    OBVIOUS
  <2> HIDE DEF p, q, t
  <2>3. p <= t
    BY <2>1, <2>2
  <2>4. QED
    BY <2>3 DEF p, t
<1>6. QED
  BY <1>1, <1>5, Unscale

(* A scan exists, whatever it compares.                                    *)
LEMMA ScanExists ==
  ASSUME NEW N \in Nat, N > 0, NEW B \in [1..N -> SUBSET (1..N)]
  PROVE  \E f \in [1..N -> 1..N] :
           f = [i \in 1..N |-> IF i = 1 THEN 1
                               ELSE IF f[i - 1] \in B[i] THEN i ELSE f[i - 1]]
<1> DEFINE Good(f, m) == \A i \in 1..m :
                           f[i] = IF i = 1 THEN 1
                                  ELSE IF f[i - 1] \in B[i] THEN i ELSE f[i - 1]
           Has(m) == \E f \in [1..m -> 1..N] : Good(f, m)
           S == {m \in Nat : m + 1 <= N => Has(m + 1)}
<1>1. Has(1)
  <2> DEFINE f == [i \in 1..1 |-> 1]
  <2>1. f \in [1..1 -> 1..N] /\ Good(f, 1)
    OBVIOUS
  <2>2. QED
    BY <2>1
<1>2. ASSUME NEW n \in Nat, n > 0, Has(n), n + 1 <= N PROVE Has(n + 1)
  <2>1. PICK f \in [1..n -> 1..N] : Good(f, n)
    BY <1>2
  <2> DEFINE last == IF f[n] \in B[n + 1] THEN n + 1 ELSE f[n]
             g == [i \in 1..(n + 1) |-> IF i <= n THEN f[i] ELSE last]
  <2>2. g \in [1..(n + 1) -> 1..N]
    <3>1. last \in 1..N
      BY <1>2, <2>1
    <3>2. \A i \in 1..(n + 1) : i <= n => f[i] \in 1..N
      BY <2>1
    <3> HIDE DEF last
    <3>3. QED
      BY <3>1, <3>2
  <2>3. ASSUME NEW i \in 1..(n + 1)
        PROVE  g[i] = IF i = 1 THEN 1 ELSE IF g[i - 1] \in B[i] THEN i ELSE g[i - 1]
    <3>1. CASE i <= n
      <4>1. g[i] = f[i] /\ (i # 1 => g[i - 1] = f[i - 1])
        BY <1>2, <3>1
      <4>2. QED
        BY <2>1, <3>1, <4>1
    <3>2. CASE i = n + 1
      <4>1. g[i] = last /\ g[i - 1] = f[n] /\ i # 1
        BY <1>2, <3>2
      <4>2. QED
        BY <3>2, <4>1
    <3>3. QED
      BY <3>1, <3>2
  <2>4. QED
    BY <2>2, <2>3
<1>3. Has(N)
  <2> HIDE DEF Has
  <2>1. 0 \in S
    BY <1>1
  <2>2. \A n \in Nat : n \in S => n + 1 \in S
    BY <1>2
  <2> HIDE DEF S
  <2>3. N - 1 \in Nat
    OBVIOUS
  <2>4. N - 1 \in S
    BY <2>1, <2>2, <2>3, Reaches
  <2>5. QED
    BY <2>3, <2>4 DEF S
<1>4. PICK f \in [1..N -> 1..N] : Good(f, N)
  BY <1>3
<1>5. f = [i \in 1..N |-> IF i = 1 THEN 1
                          ELSE IF f[i - 1] \in B[i] THEN i ELSE f[i - 1]]
  BY <1>4
<1>6. QED
  BY <1>5

\* The comparison of the scan.
Beats(i, p) == RatioLess(i, p) \/ (RatioEqual(i, p) /\ counts[i] < counts[p])

(* WeightedLeastRequest.Next finds a server, and the load of the server it *)
(* finds, if that one weighs something, is the least.                      *)
LEMMA LeastLoadedIsLeast ==
  ASSUME balancer.weights \in Seq(Nat), Len(balancer.weights) > 0,
         counts \in [DOMAIN balancer.weights -> Nat]
  PROVE  /\ LeastLoaded \in DOMAIN balancer.weights
         /\ balancer.weights[LeastLoaded] > 0 =>
              \A t \in DOMAIN balancer.weights :
                balancer.weights[t] > 0 =>
                  counts[LeastLoaded] * balancer.weights[t]
                    <= counts[t] * balancer.weights[LeastLoaded]
<1> DEFINE N == Len(balancer.weights)
           w(i) == balancer.weights[i]
           c(i) == counts[i]
           B == [i \in 1..N |-> {p \in 1..N : Beats(i, p)}]
           scan == CHOOSE f : f = [i \in 1..N |->
                     IF i = 1 THEN 1 ELSE IF Beats(i, f[i - 1]) THEN i ELSE f[i - 1]]
<1>1. /\ N \in Nat /\ N > 0 /\ DOMAIN balancer.weights = 1..N
      /\ \A i \in 1..N : w(i) \in Nat /\ c(i) \in Nat
  OBVIOUS
<1>2. LeastLoaded = scan[N]
  BY <1>1 DEF LeastLoaded, Beats, Servers
<1> HIDE DEF N
<1>3. B \in [1..N -> SUBSET (1..N)]
  OBVIOUS
<1>4. PICK f \in [1..N -> 1..N] :
             f = [i \in 1..N |-> IF i = 1 THEN 1
                                 ELSE IF f[i - 1] \in B[i] THEN i ELSE f[i - 1]]
  <2> HIDE DEF B
  <2>1. QED
    BY <1>1, <1>3, ScanExists
<1>5. f = [i \in 1..N |-> IF i = 1 THEN 1
                          ELSE IF Beats(i, f[i - 1]) THEN i ELSE f[i - 1]]
  <2> HIDE DEF B
  <2>1. \A i \in 1..N : f[i] = IF i = 1 THEN 1
                               ELSE IF f[i - 1] \in B[i] THEN i ELSE f[i - 1]
    BY <1>4
  <2>2. \A i \in 1..N : i # 1 => i - 1 \in 1..N
    BY <1>1
  <2>3. \A i \in 1..N : i # 1 => (f[i - 1] \in B[i] <=> Beats(i, f[i - 1]))
    BY <1>4, <2>2 DEF B
  <2>4. \A i \in 1..N : f[i] = IF i = 1 THEN 1
                               ELSE IF Beats(i, f[i - 1]) THEN i ELSE f[i - 1]
    BY <2>1, <2>3
  <2>5. QED
    BY <1>4, <2>4
<1>6. scan = [i \in 1..N |-> IF i = 1 THEN 1
                             ELSE IF Beats(i, scan[i - 1]) THEN i ELSE scan[i - 1]]
  BY <1>5
<1> HIDE DEF scan, B
<1>7. /\ scan[1] = 1
      /\ \A i \in 1..N : i # 1 =>
           scan[i] = IF Beats(i, scan[i - 1]) THEN i ELSE scan[i - 1]
  <2>1. \A i \in 1..N : scan[i] = IF i = 1 THEN 1
                          ELSE IF Beats(i, scan[i - 1]) THEN i ELSE scan[i - 1]
    BY <1>6
  <2>2. 1 \in 1..N
    BY <1>1
  <2>3. QED
    BY <2>1, <2>2
<1> DEFINE Least(s, i) ==
             /\ s \in 1..N
             /\ w(s) > 0 => \A j \in 1..i : w(j) > 0 => c(s) * w(j) <= c(j) * w(s)
             /\ w(s) = 0 => c(s) = 0 \/ \A j \in 1..i : w(j) = 0
           S == {m \in Nat : m + 1 <= N => Least(scan[m + 1], m + 1)}
<1>8. Least(1, 1)
  <2>1. 1 \in 1..N /\ (\A j \in 1..1 : j = 1) /\ w(1) \in Nat /\ c(1) \in Nat
    BY <1>1
  <2>2. c(1) * w(1) <= c(1) * w(1)
    BY <2>1
  <2> HIDE DEF w, c
  <2>3. QED
    BY <2>1, <2>2
<1>9. ASSUME NEW i \in 1..N, i + 1 <= N, NEW p, Least(p, i)
      PROVE  Least(IF Beats(i + 1, p) THEN i + 1 ELSE p, i + 1)
  <2> DEFINE k == i + 1
  <2>1. /\ k \in 1..N /\ p \in 1..N /\ \A j \in 1..k : j \in 1..i \/ j = k
        /\ \A j \in 1..k : j \in 1..N
    <3>1. p \in 1..N
      BY <1>9
    <3> HIDE DEF Least
    <3>2. N \in Nat /\ i \in Nat /\ i >= 1 /\ i + 1 <= N
      BY <1>1, <1>9
    <3>3. QED
      BY <3>1, <3>2
  <2>2. /\ w(k) \in Nat /\ c(k) \in Nat /\ w(p) \in Nat /\ c(p) \in Nat
        /\ \A j \in 1..k : w(j) \in Nat /\ c(j) \in Nat
    BY <1>1, <2>1
  <2>3. Beats(k, p) <=>
          \/ w(k) > 0 /\ (IF w(p) = 0 THEN c(p) > 0 ELSE c(k) * w(p) < c(p) * w(k))
          \/ /\ IF w(k) = 0 \/ w(p) = 0
                THEN w(k) = 0 /\ w(p) = 0 /\ c(k) > 0 /\ c(p) > 0
                ELSE c(k) * w(p) = c(p) * w(k)
             /\ c(k) < c(p)
    BY DEF Beats, RatioLess, RatioEqual
  <2> HIDE DEF k, w, c
  <2>4. CASE w(p) = 0 /\ c(p) = 0
    <3>1. ~Beats(k, p)
      BY <2>2, <2>3, <2>4
    <3>2. QED
      BY <2>1, <2>4, <3>1 DEF k
  <2>5. CASE w(p) = 0 /\ c(p) # 0
    <3>1. \A j \in 1..i : w(j) = 0
      BY <1>9, <2>5
    <3>2. CASE w(k) > 0
      <4>1. Beats(k, p)
        BY <2>2, <2>3, <2>5, <3>2
      <4>2. \A j \in 1..k : w(j) > 0 => c(k) * w(j) <= c(j) * w(k)
        <5>1. c(k) * w(k) <= c(k) * w(k)
          BY <2>2
        <5>2. \A j \in 1..k : w(j) > 0 => j = k
          BY <2>1, <3>1
        <5>3. QED
          BY <5>1, <5>2
      <4>3. Least(k, k)
        BY <2>1, <2>2, <3>2, <4>2
      <4>4. QED
        BY <4>1, <4>3 DEF k
    <3>3. CASE w(k) = 0
      <4>1. \A j \in 1..k : w(j) = 0
        BY <2>1, <3>1, <3>3
      <4>2. Least(k, k) /\ Least(p, k)
        BY <2>1, <2>2, <2>5, <3>3, <4>1
      <4>3. QED
        BY <4>2 DEF k
    <3>4. QED
      BY <2>2, <3>2, <3>3
  <2>6. CASE w(p) > 0
    <3>1. \A j \in 1..i : w(j) > 0 => c(p) * w(j) <= c(j) * w(p)
      BY <1>9, <2>6
    <3>2. CASE Beats(k, p)
      <4>1. w(k) > 0 /\ c(k) * w(p) <= c(p) * w(k)
        <5>1. /\ c(k) * w(p) \in Nat /\ c(p) * w(k) \in Nat
          BY <2>2
        <5>2. QED
          BY <2>2, <2>3, <2>6, <3>2, <5>1
      <4>2. ASSUME NEW j \in 1..k, w(j) > 0 PROVE c(k) * w(j) <= c(j) * w(k)
        <5>1. CASE j = k
          BY <2>2, <5>1
        <5>2. CASE j \in 1..i
          <6>1. c(p) * w(j) <= c(j) * w(p)
            BY <3>1, <4>2, <5>2
          <6>2. w(j) \in Nat /\ c(j) \in Nat
            BY <2>2
          <6>3. QED
            BY <2>2, <2>6, <4>1, <6>1, <6>2, LoadsOrdered
        <5>3. QED
          BY <2>1, <5>1, <5>2
      <4>3. Least(k, k)
        BY <2>1, <2>2, <4>1, <4>2
      <4>4. QED
        BY <3>2, <4>3 DEF k
    <3>3. CASE ~Beats(k, p)
      <4>1. w(k) > 0 => c(p) * w(k) <= c(k) * w(p)
        <5>1. c(k) * w(p) \in Nat /\ c(p) * w(k) \in Nat
          BY <2>2
        <5>2. QED
          BY <2>2, <2>3, <2>6, <3>3, <5>1
      <4>2. \A j \in 1..k : w(j) > 0 => c(p) * w(j) <= c(j) * w(p)
        BY <2>1, <3>1, <4>1
      <4>3. Least(p, k)
        BY <2>1, <2>6, <4>2
      <4>4. QED
        BY <3>3, <4>3 DEF k
    <3>4. QED
      BY <3>2, <3>3
  <2>7. QED
    BY <2>2, <2>4, <2>5, <2>6
<1> HIDE DEF Least
<1>10. 0 \in S
  BY <1>7, <1>8
<1>11. ASSUME NEW m \in Nat, m \in S PROVE m + 1 \in S
  <2> SUFFICES ASSUME (m + 1) + 1 <= N PROVE Least(scan[(m + 1) + 1], (m + 1) + 1)
    OBVIOUS
  <2>1. /\ m + 1 \in 1..N /\ m + 1 <= N /\ (m + 1) + 1 \in 1..N /\ (m + 1) + 1 # 1
        /\ ((m + 1) + 1) - 1 = m + 1
    BY <1>1
  <2>2. Least(scan[m + 1], m + 1)
    BY <1>11, <2>1
  <2>3. scan[(m + 1) + 1] = IF Beats((m + 1) + 1, scan[m + 1]) THEN (m + 1) + 1
                            ELSE scan[m + 1]
    BY <1>7, <2>1
  <2>4. QED
    BY <1>9, <2>1, <2>2, <2>3
<1>12. Least(scan[N], N)
  <2>1. N - 1 \in Nat /\ (N - 1) + 1 = N
    BY <1>1
  <2>2. N - 1 \in S
    <3> HIDE DEF S
    <3>1. QED
      BY <1>10, <1>11, <2>1, Reaches
  <2>3. QED
    BY <2>1, <2>2
<1>13. QED
  BY <1>1, <1>2, <1>12 DEF Least

(* The balancer of the route.                                              *)
LBTypeOK ==
  /\ balancer \in Balancers
  /\ current \in Servers
  /\ counts \in [Servers -> Nat]
  /\ picked \in [Requests -> Servers \cup {0}]

LBInv == LBTypeOK /\ WeightsRespected

(* What a balancer is.                                                     *)
LEMMA BalancerFacts ==
  ASSUME balancer \in Balancers
  PROVE  /\ balancer.policy \in Policies /\ balancer.weights \in Seq(Nat)
         /\ Len(balancer.weights) \in Nat /\ Len(balancer.weights) > 0
         /\ Servers = 1..Len(balancer.weights)
         /\ \A s \in Servers : balancer.weights[s] \in Nat
BY BalancerAssumption DEF Servers

(* The requests at a server are some of the requests.                      *)
LEMMA ChoosingFinite ==
  ASSUME NEW s
  PROVE  /\ IsFiniteSet(Choosing(s)) /\ Cardinality(Choosing(s)) \in Nat
         /\ Cardinality(Choosing(s)) <= Cardinality(Requests)
         /\ Cardinality(Requests) \in Nat
<1>1. Choosing(s) \subseteq Requests /\ IsFiniteSet(Requests)
  BY BalancerAssumption DEF Choosing
<1>2. QED
  BY <1>1, FS_Subset, FS_CardinalityType

(* The balancer starts with everything at zero.                            *)
LEMMA BalancerStarts == LBInit => LBInv
<1> SUFFICES ASSUME LBInit PROVE LBInv
  OBVIOUS
<1>1. balancer \in Balancers
  BY DEF LBInit
<1>2. LBTypeOK
  BY <1>1, BalancerFacts DEF LBInit, LBTypeOK
<1>3. DrainedServerUnused
  BY DEF LBInit, DrainedServerUnused
<1>4. LeastRequestBalanced
  <2> SUFFICES ASSUME NEW s \in Servers, NEW t \in Servers
               PROVE (counts[s] + Cardinality(Choosing(s))) * balancer.weights[t]
                        <= counts[t] * balancer.weights[s]
                             + Cardinality(Requests) * balancer.weights[t]
    BY DEF LeastRequestBalanced
  <2>1. balancer.weights[t] \in Nat /\ balancer.weights[s] \in Nat
    BY <1>1, BalancerFacts
  <2>2. counts[s] = 0 /\ counts[t] = 0
    BY DEF LBInit
  <2>3. Choosing(s) = {}
    BY <1>1, BalancerFacts DEF LBInit, Choosing
  <2>4. Cardinality(Choosing(s)) = 0 /\ Cardinality(Requests) \in Nat
    BY <2>3, ChoosingFinite, FS_EmptySet
  <2>5. Cardinality(Requests) * balancer.weights[t] \in Nat
    BY <2>1, <2>4
  <2>6. QED
    BY <2>1, <2>2, <2>4, <2>5
<1>5. QED
  BY <1>2, <1>3, <1>4 DEF LBInv, WeightsRespected

(* The shares, with the products as numbers of their own.                  *)
LEMMA ShareStays ==
  ASSUME NEW a \in Nat, NEW b \in Nat, NEW u \in Nat, NEW v \in Nat, NEW n \in Nat,
         NEW k \in Nat, k <= n, a * v <= b * u
  PROVE  (a + k) * v <= b * u + n * v
<1>1. a * v \in Nat /\ b * u \in Nat /\ k * v \in Nat /\ n * v \in Nat
  OBVIOUS
<1>2. (a + k) * v = a * v + k * v
  OBVIOUS
<1>3. k * v <= n * v
  BY Scale
<1>4. QED
  BY <1>1, <1>2, <1>3

(* A server that Next finds weighs something, or is the least loaded one.  *)
LEMMA NextReadsKeeps ==
  ASSUME NEW r \in Requests, LBInv, NextReads(r)
  PROVE  LBInv'
<1>1. balancer \in Balancers /\ balancer' = balancer /\ current' = current /\ counts' = counts
  BY DEF LBInv, LBTypeOK, NextReads
<1>2. /\ balancer.weights \in Seq(Nat) /\ Len(balancer.weights) > 0
      /\ Servers = 1..Len(balancer.weights) /\ Servers = DOMAIN balancer.weights
      /\ \A s \in Servers : balancer.weights[s] \in Nat
  BY <1>1, BalancerFacts DEF Servers
<1>3. PICK p \in Servers :
             /\ picked' = [picked EXCEPT ![r] = p]
             /\ balancer.policy = "ROUND_ROBIN" => balancer.weights[p] > 0
             /\ balancer.policy = "LEAST_REQUEST" /\ balancer.weights[p] > 0 =>
                  \A t \in Servers :
                    balancer.weights[t] > 0 =>
                      counts[p] * balancer.weights[t] <= counts[t] * balancer.weights[p]
  <2>1. CASE balancer.policy = "ROUND_ROBIN"
    <3>1. PICK random \in 0..(TotalWeight - 1) :
                 picked' = [picked EXCEPT ![r] = FoundServer(random)]
      BY <2>1 DEF NextReads
    <3>2. current \in DOMAIN balancer.weights
      BY <1>2 DEF LBInv, LBTypeOK
    <3>3. FoundServer(random) \in Servers /\ balancer.weights[FoundServer(random)] > 0
      BY <1>2, <3>2, FoundServerWeighs
    <3>4. QED
      BY <2>1, <3>1, <3>3
  <2>2. CASE balancer.policy = "LEAST_REQUEST"
    <3>1. picked' = [picked EXCEPT ![r] = LeastLoaded]
      BY <2>2 DEF NextReads
    <3>2. counts \in [DOMAIN balancer.weights -> Nat]
      BY <1>2 DEF LBInv, LBTypeOK
    <3>3. /\ LeastLoaded \in Servers
          /\ balancer.weights[LeastLoaded] > 0 =>
               \A t \in Servers :
                 balancer.weights[t] > 0 =>
                   counts[LeastLoaded] * balancer.weights[t]
                     <= counts[t] * balancer.weights[LeastLoaded]
      BY <1>2, <3>2, LeastLoadedIsLeast
    <3>4. QED
      BY <2>2, <3>1, <3>3
  <2>3. QED
    BY <2>1, <2>2 DEF NextReads
<1>4. Servers' = Servers /\ picked \in [Requests -> Servers \cup {0}] /\ picked[r] = 0
  BY <1>1 DEF LBInv, LBTypeOK, NextReads, Servers
<1>5. LBTypeOK'
  BY <1>1, <1>3, <1>4 DEF LBInv, LBTypeOK
<1>6. DrainedServerUnused'
  BY <1>1, <1>3, <1>4 DEF LBInv, WeightsRespected, DrainedServerUnused
<1>7. LeastRequestBalanced'
  <2> SUFFICES ASSUME NEW s \in Servers, NEW t \in Servers,
                      balancer.policy = "LEAST_REQUEST",
                      balancer.weights[s] > 0, balancer.weights[t] > 0
               PROVE (counts[s] + Cardinality(Choosing(s)')) * balancer.weights[t]
                        <= counts[t] * balancer.weights[s]
                             + Cardinality(Requests) * balancer.weights[t]
    BY <1>1, <1>4 DEF LeastRequestBalanced
  <2>1. CASE s = p
    <3>1. counts[s] * balancer.weights[t] <= counts[t] * balancer.weights[s]
      BY <1>3, <2>1
    <3>2. /\ Cardinality(Choosing(s)') \in Nat /\ Cardinality(Requests) \in Nat
          /\ Cardinality(Choosing(s)') <= Cardinality(Requests)
      <4>1. Choosing(s)' \subseteq Requests /\ IsFiniteSet(Requests)
        BY BalancerAssumption DEF Choosing
      <4>2. QED
        BY <4>1, FS_Subset, FS_CardinalityType
    <3>3. /\ counts[s] \in Nat /\ counts[t] \in Nat
          /\ balancer.weights[s] \in Nat /\ balancer.weights[t] \in Nat
      BY <1>2 DEF LBInv, LBTypeOK
    <3>4. QED
      BY <3>1, <3>2, <3>3, ShareStays
  <2>2. CASE s # p
    <3>1. s # 0
      BY <1>2
    <3>2. Choosing(s)' = Choosing(s)
      BY <1>3, <1>4, <2>2, <3>1 DEF Choosing
    <3>3. QED
      BY <3>2 DEF LBInv, WeightsRespected, LeastRequestBalanced
  <2>3. QED
    BY <2>1, <2>2
<1>8. QED
  BY <1>5, <1>6, <1>7 DEF LBInv, WeightsRespected

(* Counting a request moves it from those that choose to those counted.    *)
LEMMA NextWritesKeeps ==
  ASSUME NEW r \in Requests, LBInv, NextWrites(r)
  PROVE  LBInv'
<1> DEFINE p == picked[r]
           N == Len(balancer.weights)
<1>1. balancer \in Balancers /\ balancer' = balancer /\ Servers' = Servers
  BY DEF LBInv, LBTypeOK, NextWrites, Servers
<1>2. /\ N \in Nat /\ N > 0 /\ Servers = 1..N
      /\ \A s \in Servers : balancer.weights[s] \in Nat
  BY <1>1, BalancerFacts
<1>3. /\ p \in Servers /\ counts \in [Servers -> Nat]
      /\ picked \in [Requests -> Servers \cup {0}]
      /\ picked' = [picked EXCEPT ![r] = 0]
  BY DEF LBInv, LBTypeOK, NextWrites
<1>4. /\ current' = IF balancer.policy = "ROUND_ROBIN" THEN (p % N) + 1 ELSE p
      /\ counts' = IF balancer.policy = "ROUND_ROBIN" THEN counts
                   ELSE [counts EXCEPT ![p] = counts[p] + 1]
  BY DEF NextWrites
<1> HIDE DEF p, N
<1>5. current' \in Servers /\ counts' \in [Servers -> Nat]
  BY <1>2, <1>3, <1>4
<1>6. LBTypeOK'
  BY <1>1, <1>3, <1>5 DEF LBTypeOK
<1>7. DrainedServerUnused'
  BY <1>1, <1>3 DEF LBInv, WeightsRespected, DrainedServerUnused
<1>8. LeastRequestBalanced'
  <2> SUFFICES ASSUME NEW s \in Servers, NEW t \in Servers,
                      balancer.policy = "LEAST_REQUEST",
                      balancer.weights[s] > 0, balancer.weights[t] > 0
               PROVE (counts'[s] + Cardinality(Choosing(s)')) * balancer.weights[t]
                        <= counts'[t] * balancer.weights[s]
                             + Cardinality(Requests) * balancer.weights[t]
    BY <1>1 DEF LeastRequestBalanced
  <2> DEFINE u == balancer.weights[s]
             v == balancer.weights[t]
             k == Cardinality(Choosing(s))
             n == Cardinality(Requests)
  <2>1. counts' = [counts EXCEPT ![p] = counts[p] + 1]
    BY <1>4
  <2>2. u \in Nat /\ v \in Nat /\ k \in Nat /\ n \in Nat /\ IsFiniteSet(Choosing(s))
    BY <1>2, ChoosingFinite
  <2>3. (counts[s] + k) * v <= counts[t] * u + n * v
    BY DEF LBInv, WeightsRespected, LeastRequestBalanced
  <2>4. counts'[s] + Cardinality(Choosing(s)') = counts[s] + k
    <3>1. s # 0
      BY <1>2
    <3>2. CASE s = p
      <4>1. Choosing(s)' = Choosing(s) \ {r} /\ r \in Choosing(s)
        BY <1>3, <3>1, <3>2 DEF Choosing, p
      <4>2. Cardinality(Choosing(s)') = k - 1
        <5> HIDE DEF k
        <5>1. Cardinality(Choosing(s) \ {r}) = Cardinality(Choosing(s)) - 1
          BY <2>2, <4>1, FS_RemoveElement
        <5>2. QED
          BY <4>1, <5>1 DEF k
      <4>3. counts'[s] = counts[s] + 1 /\ counts[s] \in Nat
        BY <1>3, <2>1, <3>2
      <4>4. QED
        BY <2>2, <4>2, <4>3
    <3>3. CASE s # p
      <4>1. Choosing(s)' = Choosing(s)
        BY <1>3, <3>1, <3>3 DEF Choosing, p
      <4>2. QED
        BY <1>3, <2>1, <3>3, <4>1
    <3>4. QED
      BY <3>2, <3>3
  <2>5. /\ counts[t] \in Nat /\ counts'[t] \in Nat /\ counts[s] \in Nat
        /\ counts[t] <= counts'[t]
    BY <1>3, <2>1
  <2> HIDE DEF u, v, k, n
  <2>6. counts[t] * u <= counts'[t] * u
    BY <2>2, <2>5, Scale
  <2>7. /\ (counts[s] + k) * v \in Nat /\ counts[t] * u \in Nat /\ n * v \in Nat
        /\ counts'[t] * u \in Nat
    BY <2>2, <2>5
  <2>8. (counts[s] + k) * v <= counts'[t] * u + n * v
    BY <2>3, <2>6, <2>7
  <2>9. QED
    BY <2>4, <2>8 DEF u, v, n
<1>9. QED
  BY <1>6, <1>7, <1>8 DEF LBInv, WeightsRespected

(* What touches no balancer keeps it.                                      *)
LEMMA BalancerUntouched ==
  ASSUME LBInv, UNCHANGED lbVars
  PROVE  LBInv'
<1>1. UNCHANGED <<balancer, current, counts, picked>>
  BY DEF lbVars
<1>2. Servers' = Servers /\ \A s : Choosing(s)' = Choosing(s)
  BY <1>1 DEF Servers, Choosing
<1>3. LBTypeOK' /\ DrainedServerUnused'
  BY <1>1, <1>2 DEF LBInv, LBTypeOK, WeightsRespected, DrainedServerUnused
<1>4. LeastRequestBalanced'
  BY <1>1, <1>2 DEF LBInv, WeightsRespected, LeastRequestBalanced
<1>5. QED
  BY <1>3, <1>4 DEF LBInv, WeightsRespected

-----------------------------------------------------------------------------
(* The requests.                                                           *)

Routed == {"select", "store", "attempt", "upstream"}
Places == Routed \cup {"new", "auth", "parse", "returned", "respond", "done"}

(* A request has one value of each variable.                               *)
Domains ==
  /\ pc = [r \in Requests |-> pc[r]]
  /\ input = [r \in Requests |-> input[r]]
  /\ llmRequest = [r \in Requests |-> llmRequest[r]]
  /\ authInfo = [r \in Requests |-> authInfo[r]]
  /\ chosen = [r \in Requests |-> chosen[r]]
  /\ attempt = [r \in Requests |-> attempt[r]]
  /\ tried = [r \in Requests |-> tried[r]]
  /\ retried = [r \in Requests |-> retried[r]]
  /\ result = [r \in Requests |-> result[r]]
  /\ sent = [r \in Requests |-> sent[r]]
  /\ logged = [r \in Requests |-> logged[r]]
  /\ reports = [r \in Requests |-> reports[r]]
  /\ cancelled = [r \in Requests |-> cancelled[r]]

(* A parsed request and its body.                                          *)
WellFormed(q) ==
  /\ q = [kind |-> q.kind, model |-> q.model, lost |-> q.lost, size |-> q.size,
          sizeGiven |-> q.sizeGiven, voice |-> q.voice, format |-> q.format,
          body |-> [k \in Keys |-> q.body[k]]]
  /\ q.lost \in BOOLEAN

(* Where a request is, and what it cannot have yet.                        *)
Placed(r) ==
  /\ pc[r] \in Places
  /\ pc[r] # "new" => input[r] \in ClientRequests[r]
  /\ pc[r] \in {"auth", "parse"} => input[r].kind # "options"
  /\ pc[r] \in {"new", "auth", "parse"} =>
       attempt[r] = NoAttempt /\ result[r] = Failed(NoError)
  /\ pc[r] \notin {"respond", "done"} => reports[r] = <<>>
  /\ pc[r] # "done" => sent[r] = 0 /\ logged[r] = 0
  /\ pc[r] \in {"attempt", "upstream"} => chosen[r] \in DOMAIN Targets

(* What the auth service has confirmed of a request under way.             *)
Admitted(r) ==
  /\ pc[r] \in Routed \cup {"parse"} => authInfo[r].valid
  /\ pc[r] \in Routed =>
       /\ input[r].kind \in {"chat", "completions", "image", "tts"}
       /\ input[r].kind # "tts" =>
            CanAccessModel(input[r].body["model"], authInfo[r])

(* A turn of the loop that ended well ends the loop.                       *)
Unserved(r) ==
  pc[r] \in Routed => ~(result[r].resp.is /\ result[r].err = NoError)

RemovesModel(r) == \E c \in tried[r] : "model" \in ClusterConfigs[c].removes
KeepsStream(r) ==
  ~ \E c \in tried[r] : \/ "stream_options" \in ClusterConfigs[c].removes
                        \/ ClusterConfigs[c].overrides["stream_options"] # Absent

(* What the clusters have left of the request.                             *)
Remains(r) ==
  LET q == llmRequest[r]
  IN  /\ WellFormed(q) /\ q.kind = input[r].kind
      /\ q.kind = "tts" => q.format = input[r].body["response_format"]
      /\ q.lost \/ q.body["model"] = Absent => RemovesModel(r)
      /\ q.kind # "tts" =>
           \A k \in Keys \ {"model", "stream_options"} : q.body[k] \in MayCarry(r, k)
      /\ q.kind \in {"chat", "completions"} /\ input[r].stream /\ KeepsStream(r)
           => q.body["stream_options"] = "usage"

Carried(r) == pc[r] \in Routed => Remains(r)

(* A response that can be billed names the cluster of the last attempt.    *)
Billable(r) ==
  pc[r] = "returned" /\ result[r].resp.usage # <<>> /\ ~result[r].resp.stream =>
    result[r].resp.model = attempt[r].cluster

(* What holds of one request.                                              *)
RequestOK(r) ==
  /\ Placed(r) /\ Admitted(r) /\ Unserved(r) /\ Carried(r) /\ Billable(r)
  /\ GrantedIsServed(r)
  /\ ClientParamsRespected(r) /\ UpstreamModelOfCluster(r) /\ StreamAsksForUsage(r)
  /\ OneBill(r) /\ StatusIsLogged(r)

(* The inductive invariant of the gateway's requests.                      *)
RequestInv == Domains /\ LBInv /\ \A r \in Requests : RequestOK(r)

-----------------------------------------------------------------------------

(* Errors are not the nil error.                                           *)
LEMMA ErrorsAreErrors ==
  /\ NoError.type = "none"
  /\ \A e \in {ErrorModelNotFoundOrNotAccessible, ErrorModelAccessDenied,
               ErrorRateLimitExceeded, ErrorMissingAPIKey, ErrorIncorrectAPIKey,
               ErrorInternalError, ErrorBadGateway, ErrorServiceUnavailable,
               PlainError, OpenAIInvalidBody, OpenAIBadRequest, OpenAIMissingModel} :
       e # NoError
  /\ \A e : LLMErrorOrInternalError(e) # NoError
<1>1. NoError.type = "none"
  BY DEF NoError, LLMError
<1>2. \A e : e.type # "none" => e # NoError
  BY <1>1
<1>3. /\ ErrorModelNotFoundOrNotAccessible.type = "base"
      /\ ErrorModelAccessDenied.type = "base" /\ ErrorRateLimitExceeded.type = "base"
      /\ ErrorMissingAPIKey.type = "base" /\ ErrorIncorrectAPIKey.type = "base"
      /\ ErrorInternalError.type = "base" /\ ErrorBadGateway.type = "base"
      /\ ErrorServiceUnavailable.type = "base"
  BY DEF LLMError, ErrorModelNotFoundOrNotAccessible, ErrorModelAccessDenied,
    ErrorRateLimitExceeded, ErrorMissingAPIKey, ErrorIncorrectAPIKey,
    ErrorInternalError, ErrorBadGateway, ErrorServiceUnavailable
<1>4. /\ PlainError.type = "plain" /\ OpenAIInvalidBody.type = "openai"
      /\ OpenAIBadRequest.type = "openai" /\ OpenAIMissingModel.type = "openai"
  BY DEF LLMError, PlainError, OpenAIInvalidBody, OpenAIBadRequest,
    OpenAIMissingModel, NewErrorResponse
<1>5. \A e : LLMErrorOrInternalError(e).type # "none"
  BY <1>3 DEF LLMErrorOrInternalError, IsLLMError
<1>6. QED
  BY <1>1, <1>2, <1>3, <1>4, <1>5

(* What the three steps of Params make of a body.                          *)
LEMMA ParamsFacts ==
  ASSUME NEW q, WellFormed(q), NEW config, q.body["model"] # Absent
  PROVE  LET p == Params(q, config)
             n == p.request
         IN  /\ p.outcome = "ok" /\ WellFormed(n)
             /\ n.kind = q.kind /\ n.format = q.format /\ n.lost = q.lost
             /\ \A k \in Keys :
                  n.body[k] = IF k \in config.removes THEN Absent
                              ELSE IF config.overrides[k] # Absent THEN config.overrides[k]
                              ELSE IF q.body[k] = Absent THEN config.defaults[k]
                              ELSE q.body[k]
             /\ n.model = IF config.overrides["model"] # Absent
                          THEN config.overrides["model"] ELSE q.body["model"]
<1> DEFINE d == SetDefaultParams(q, config.defaults)
           o == SetOverrideParams(d, config.overrides)
           n == RemoveParamKeys(o, config.removes)
<1>1. "model" \in Keys
  BY RequestAssumption
<1>2. /\ WellFormed(d) /\ d.kind = q.kind /\ d.format = q.format /\ d.lost = q.lost
      /\ \A k \in Keys : d.body[k] = IF q.body[k] = Absent THEN config.defaults[k]
                                     ELSE q.body[k]
  BY <1>1 DEF WellFormed, SetDefaultParams, Renamed
<1> HIDE DEF d
<1>3. d.body["model"] = q.body["model"]
  BY <1>1, <1>2
<1>4. /\ WellFormed(o) /\ o.kind = q.kind /\ o.format = q.format /\ o.lost = q.lost
      /\ \A k \in Keys : o.body[k] = IF config.overrides[k] = Absent THEN d.body[k]
                                     ELSE config.overrides[k]
      /\ o.model = o.body["model"]
  BY <1>1, <1>2, <1>3 DEF WellFormed, SetOverrideParams, Renamed
<1> HIDE DEF o
<1>5. /\ WellFormed(n) /\ n.kind = q.kind /\ n.format = q.format /\ n.lost = q.lost
      /\ \A k \in Keys : n.body[k] = IF k \in config.removes THEN Absent ELSE o.body[k]
      /\ n.model = o.model
  BY <1>1, <1>4 DEF WellFormed, RemoveParamKeys
<1>6. Params(q, config) = Patched("ok", n)
  BY DEF Params, d, o
<1> HIDE DEF n
<1>7. Params(q, config).outcome = "ok" /\ Params(q, config).request = n
  BY <1>6 DEF Patched
<1>8. \A k \in Keys :
        n.body[k] = IF k \in config.removes THEN Absent
                    ELSE IF config.overrides[k] # Absent THEN config.overrides[k]
                    ELSE IF q.body[k] = Absent THEN config.defaults[k]
                    ELSE q.body[k]
  BY <1>2, <1>4, <1>5
<1>9. n.model = IF config.overrides["model"] # Absent
                THEN config.overrides["model"] ELSE q.body["model"]
  BY <1>1, <1>3, <1>4, <1>5
<1>10. QED
  BY <1>5, <1>7, <1>8, <1>9

(* What a loop over parameters may have left of a member with the value v  *)
(* when it stops.                                                          *)
PartlyPatched(config, k, v, w) ==
  \/ w = v
  \/ v = Absent /\ w = config.defaults[k]
  \/ config.overrides[k] # Absent /\ w = config.overrides[k]

(* What the loops over the parameters of an image request have made of it  *)
(* when they meet a size that is none (image_generations_request.go:100).  *)
LEMMA BeforeFacts ==
  ASSUME NEW q, WellFormed(q), NEW config, NEW before
  PROVE  LET n == PatchedBefore(q, config, before)
         IN  /\ WellFormed(n)
             /\ n.kind = q.kind /\ n.format = q.format /\ n.lost = q.lost
             /\ \A k \in Keys : PartlyPatched(config, k, q.body[k], n.body[k])
<1> DEFINE only(params) == [k \in Keys |-> IF k \in before THEN params[k] ELSE Absent]
           n == PatchedBefore(q, config, before)
<1>1. "model" \in Keys
  BY RequestAssumption
<1>2. ASSUME NEW params
      PROVE  LET d == SetDefaultParams(q, params)
             IN  /\ WellFormed(d)
                 /\ d.kind = q.kind /\ d.format = q.format /\ d.lost = q.lost
                 /\ \A k \in Keys : d.body[k] = IF q.body[k] = Absent THEN params[k]
                                                ELSE q.body[k]
  BY <1>1 DEF WellFormed, SetDefaultParams, Renamed
<1>3. CASE config.size.how = "default"
  <2> DEFINE p == only(config.defaults)
             d == SetDefaultParams(q, p)
  <2>1. n = d
    BY <1>3 DEF PatchedBefore
  <2>2. /\ WellFormed(d)
        /\ d.kind = q.kind /\ d.format = q.format /\ d.lost = q.lost
        /\ \A k \in Keys : d.body[k] = IF q.body[k] = Absent THEN p[k] ELSE q.body[k]
    <3> HIDE DEF p
    <3>1. QED
      BY <1>2
  <2> HIDE DEF d, n
  <2>3. \A k \in Keys : PartlyPatched(config, k, q.body[k], d.body[k])
    BY <2>2 DEF PartlyPatched
  <2>4. QED
    BY <2>1, <2>2, <2>3 DEF n
<1>4. CASE config.size.how # "default"
  <2> DEFINE d == SetDefaultParams(q, config.defaults)
             p == only(config.overrides)
             o == SetOverrideParams(d, p)
             x == [o EXCEPT !.model = q.model]
  <2>1. n = x
    BY <1>4 DEF PatchedBefore
  <2>2. /\ WellFormed(d)
        /\ d.kind = q.kind /\ d.format = q.format /\ d.lost = q.lost
        /\ \A k \in Keys : d.body[k] = IF q.body[k] = Absent THEN config.defaults[k]
                                       ELSE q.body[k]
    BY <1>2
  <2> HIDE DEF d, n
  <2>3. \A k \in Keys : p[k] = IF k \in before THEN config.overrides[k] ELSE Absent
    OBVIOUS
  <2> HIDE DEF p
  <2>4. /\ WellFormed(o)
        /\ o.kind = q.kind /\ o.format = q.format /\ o.lost = q.lost
        /\ \A k \in Keys : o.body[k] = IF p[k] = Absent THEN d.body[k] ELSE p[k]
    BY <1>1, <2>2 DEF WellFormed, SetOverrideParams, Renamed
  <2> HIDE DEF o
  <2>5. /\ WellFormed(x) /\ x.kind = o.kind /\ x.format = o.format /\ x.lost = o.lost
        /\ x.body = o.body
    BY <2>4 DEF WellFormed
  <2> HIDE DEF x
  <2>6. \A k \in Keys : PartlyPatched(config, k, q.body[k], x.body[k])
    BY <2>2, <2>3, <2>4, <2>5 DEF PartlyPatched
  <2>7. QED
    BY <2>1, <2>4, <2>5, <2>6 DEF n
<1>5. QED
  BY <1>3, <1>4

(* A member of the parsed request that is set leaves the others alone.     *)
LEMMA SetLost ==
  ASSUME NEW q, WellFormed(q), NEW b \in BOOLEAN
  PROVE  LET n == [q EXCEPT !.lost = b]
         IN  /\ WellFormed(n) /\ n.kind = q.kind /\ n.format = q.format
             /\ n.body = q.body /\ n.lost = b
BY DEF WellFormed

(* What the request modifier of a cluster may make of a request.           *)
Made(q, name, config, m) ==
  LET n == m.request
  IN  /\ m.outcome \in {"panic", "error", "badSize", "ok"}
      /\ WellFormed(n) /\ n.kind = q.kind /\ n.format = q.format
      /\ m.outcome = "panic" => q.lost
      /\ n.lost => q.lost \/ q.body["model"] = Absent
      /\ m.outcome \in {"panic", "error"} => n.body = q.body
      /\ m.outcome = "badSize" =>
           \A k \in Keys :
             PartlyPatched(config, k, IF k = "model" THEN name ELSE q.body[k], n.body[k])
      /\ m.outcome = "ok" =>
           \A k \in Keys :
             n.body[k] = IF k \in config.removes THEN Absent
                         ELSE IF config.overrides[k] # Absent THEN config.overrides[k]
                         ELSE IF k = "model" THEN name
                         ELSE IF q.body[k] = Absent THEN config.defaults[k]
                         ELSE q.body[k]
      /\ m.outcome = "ok" =>
           n.model = IF config.overrides["model"] # Absent
                     THEN config.overrides["model"] ELSE name

(* The request modifier of the cluster filters (request.go:51-74) makes    *)
(* one of those.                                                           *)
LEMMA ModifierFacts ==
  ASSUME NEW q, WellFormed(q), NEW name, name # Absent, NEW config,
         NEW before
  PROVE  Made(q, name, config, RequestModifier(q, name, config, before))
<1> DEFINE m == RequestModifier(q, name, config, before)
           n == m.request
           set == [q EXCEPT !.model = name, !.body["model"] = name]
<1>1. "model" \in Keys
  BY RequestAssumption
<1>2. CASE q.lost
  <2>1. m = Patched("panic", q)
    BY <1>2 DEF RequestModifier, SetModel, Patched
  <2>2. m.outcome = "panic" /\ n = q
    BY <2>1 DEF Patched
  <2> HIDE DEF m
  <2>3. QED
    BY <1>2, <2>2 DEF Made, m
<1>3. CASE ~q.lost /\ q.body["model"] = Absent
  <2>1. m = Patched("error", [q EXCEPT !.lost = TRUE])
    BY <1>3 DEF RequestModifier, SetModel, Patched
  <2>2. m.outcome = "error" /\ n = [q EXCEPT !.lost = TRUE]
    BY <2>1 DEF Patched
  <2>3. WellFormed(n) /\ n.kind = q.kind /\ n.format = q.format /\ n.body = q.body
    BY <2>2, SetLost
  <2>4. QED
    BY <1>3, <2>2, <2>3 DEF Made
<1>4. CASE ~q.lost /\ q.body["model"] # Absent
  <2>1. SetModel(q, name) = Patched("ok", set)
    BY <1>4 DEF SetModel
  <2>2. /\ WellFormed(set) /\ set.kind = q.kind /\ set.format = q.format
        /\ ~set.lost /\ set.model = name
        /\ \A k \in Keys : set.body[k] = IF k = "model" THEN name ELSE q.body[k]
    <3> DEFINE named == [q EXCEPT !.model = name]
               b == [named.body EXCEPT !["model"] = name]
    <3>1. set = [named EXCEPT !.body = b]
      OBVIOUS
    <3>2. /\ WellFormed(named) /\ named.kind = q.kind /\ named.format = q.format
          /\ named.body = q.body /\ named.lost = q.lost /\ named.model = name
      BY DEF WellFormed
    <3> HIDE DEF set, named
    <3>3. q.body = [k \in Keys |-> q.body[k]]
      BY DEF WellFormed
    <3>4. /\ \A k \in Keys : b[k] = IF k = "model" THEN name ELSE q.body[k]
          /\ b = [k \in Keys |-> b[k]]
      BY <1>1, <3>2, <3>3
    <3> HIDE DEF b
    <3>5. /\ WellFormed(set) /\ set.kind = named.kind /\ set.format = named.format
          /\ set.lost = named.lost /\ set.model = named.model /\ set.body = b
      BY <3>1, <3>2, <3>4 DEF WellFormed
    <3>6. QED
      BY <1>4, <3>2, <3>4, <3>5
  <2> HIDE DEF set
  <2>3. m = CASE q.kind = "image" -> ImageParams(set, config, before)
              [] q.kind = "tts"   -> SpeechParams(set, config)
              [] OTHER            -> Params(set, config)
    <3>1. SetModel(q, name).outcome = "ok" /\ SetModel(q, name).request = set
      BY <2>1 DEF Patched
    <3>2. QED
      BY <3>1 DEF RequestModifier
  <2> HIDE DEF m
  <2>4. PICK p : /\ WellFormed(p) /\ p.kind = q.kind /\ p.format = q.format /\ ~p.lost
                 /\ p.body = set.body
                 /\ \/ m = Params(p, config)
                    \/ m = Patched("badSize", PatchedBefore(p, config, before))
    <3>1. CASE q.kind = "image"
      <4> DEFINE parsed == parseImageGenerationsSizeString(config.size.parts)
                 s2 == [set EXCEPT !.size = parsed.size, !.sizeGiven = TRUE]
      <4>1. m = ImageParams(set, config, before)
        BY <2>3, <3>1
      <4>2. \/ m = Params(set, config) \/ m = Params(s2, config)
            \/ m = Patched("badSize", PatchedBefore(s2, config, before))
        BY <4>1 DEF ImageParams
      <4>3. /\ WellFormed(s2) /\ s2.kind = q.kind /\ s2.format = q.format /\ ~s2.lost
            /\ s2.body = set.body
        <5> HIDE DEF parsed
        <5> DEFINE sized == [set EXCEPT !.size = parsed.size]
        <5>1. s2 = [sized EXCEPT !.sizeGiven = TRUE]
          OBVIOUS
        <5>2. /\ WellFormed(sized) /\ sized.kind = set.kind /\ sized.format = set.format
              /\ sized.body = set.body /\ sized.lost = set.lost
          BY <2>2 DEF WellFormed
        <5> HIDE DEF s2, sized
        <5>3. ASSUME NEW b PROVE LET x == [sized EXCEPT !.sizeGiven = b]
                                 IN /\ WellFormed(x) /\ x.kind = set.kind
                                    /\ x.format = set.format
                                    /\ x.body = set.body /\ x.lost = set.lost
          BY <5>2 DEF WellFormed
        <5>4. QED
          BY <2>2, <5>1, <5>3
      <4> HIDE DEF s2
      <4>4. QED
        BY <2>2, <4>2, <4>3
    <3>2. CASE q.kind # "image"
      <4>1. m = Params(set, config)
        BY <2>3, <3>2 DEF SpeechParams
      <4>2. QED
        BY <2>2, <4>1
    <3>3. QED
      BY <3>1, <3>2
  <2>5. CASE m = Patched("badSize", PatchedBefore(p, config, before))
    <3> DEFINE x == PatchedBefore(p, config, before)
    <3>1. m.outcome = "badSize" /\ m.request = x
      BY <2>5 DEF Patched
    <3>2. /\ WellFormed(x) /\ x.kind = p.kind /\ x.format = p.format /\ x.lost = p.lost
          /\ \A k \in Keys : PartlyPatched(config, k, p.body[k], x.body[k])
      BY <2>4, BeforeFacts
    <3> HIDE DEF x
    <3>3. \A k \in Keys : PartlyPatched(config, k, IF k = "model" THEN name ELSE q.body[k],
                                        x.body[k])
      BY <2>2, <2>4, <3>2
    <3>4. QED
      BY <1>4, <2>4, <3>1, <3>2, <3>3 DEF m, Made
  <2>6. CASE m = Params(p, config)
    <3>1. p.body["model"] = name
      BY <1>1, <2>2, <2>4
    <3> DEFINE x == Params(p, config)
    <3>2. /\ x.outcome = "ok" /\ WellFormed(x.request)
          /\ x.request.kind = p.kind /\ x.request.format = p.format
          /\ x.request.lost = p.lost
          /\ \A k \in Keys :
               x.request.body[k] =
                 IF k \in config.removes THEN Absent
                 ELSE IF config.overrides[k] # Absent THEN config.overrides[k]
                 ELSE IF p.body[k] = Absent THEN config.defaults[k]
                 ELSE p.body[k]
          /\ x.request.model = IF config.overrides["model"] # Absent
                               THEN config.overrides["model"] ELSE p.body["model"]
      BY <2>4, <3>1, ParamsFacts
    <3> HIDE DEF x
    <3>3. m = x
      BY <2>6 DEF x
    <3>4. \A k \in Keys : p.body[k] = IF k = "model" THEN name ELSE q.body[k]
      BY <2>2, <2>4
    <3>5. \A k \in Keys :
            m.request.body[k] = IF k \in config.removes THEN Absent
                                ELSE IF config.overrides[k] # Absent
                                     THEN config.overrides[k]
                                ELSE IF k = "model" THEN name
                                ELSE IF q.body[k] = Absent THEN config.defaults[k]
                                ELSE q.body[k]
      BY <3>2, <3>3, <3>4
    <3>6. /\ m.outcome = "ok" /\ WellFormed(m.request) /\ ~m.request.lost
          /\ m.request.kind = q.kind /\ m.request.format = q.format
          /\ m.request.model = IF config.overrides["model"] # Absent
                               THEN config.overrides["model"] ELSE name
      BY <2>4, <3>1, <3>2, <3>3
    <3>7. QED
      BY <3>5, <3>6 DEF m, Made
  <2>7. QED
    BY <2>4, <2>5, <2>6
<1>5. QED
  BY <1>2, <1>3, <1>4 DEF WellFormed

-----------------------------------------------------------------------------
(* A request that does not move, while the route keeps its balancer.       *)
Same(q) ==
  /\ pc'[q] = pc[q] /\ input'[q] = input[q] /\ llmRequest'[q] = llmRequest[q]
  /\ authInfo'[q] = authInfo[q] /\ chosen'[q] = chosen[q] /\ attempt'[q] = attempt[q]
  /\ tried'[q] = tried[q] /\ result'[q] = result[q] /\ sent'[q] = sent[q]
  /\ logged'[q] = logged[q] /\ reports'[q] = reports[q]

(* Whether the balancer panics is settled when it is built.                *)
LEMMA PanicsStay == balancer' = balancer => (NextPanics' <=> NextPanics)
BY DEF NextPanics, TotalWeight, WeightFrom

(* A goroutine that does not move keeps what holds of its request.         *)
LEMMA OthersKeep ==
  ASSUME NEW q, RequestOK(q), Same(q), balancer' = balancer
  PROVE  RequestOK(q)'
<1> USE DEF RequestOK, Same
<1>1. Placed(q)' /\ Admitted(q)' /\ Unserved(q)'
  BY DEF Placed, Admitted, Unserved
<1>2. MayCarry(q, "x")' = MayCarry(q, "x") /\ \A k : MayCarry(q, k)' = MayCarry(q, k)
  BY DEF MayCarry
<1>3. (RemovesModel(q)' <=> RemovesModel(q)) /\ (KeepsStream(q)' <=> KeepsStream(q))
  BY DEF RemovesModel, KeepsStream
<1>4. Carried(q)'
  BY <1>2, <1>3 DEF Carried, Remains
<1>5. Billable(q)' /\ OneBill(q)'
  BY DEF Billable, OneBill
<1>6. GrantedIsServed(q)'
  BY DEF GrantedIsServed
<1>7. ClientParamsRespected(q)'
  BY <1>2 DEF ClientParamsRespected
<1>8. UpstreamModelOfCluster(q)' /\ StreamAsksForUsage(q)'
  BY DEF UpstreamModelOfCluster, StreamAsksForUsage
<1>9. StatusIsLogged(q)'
  BY PanicsStay DEF StatusIsLogged
<1>10. QED
  BY <1>1, <1>4, <1>5, <1>6, <1>7, <1>8, <1>9

-----------------------------------------------------------------------------
(* Only one request moves.                                                 *)
Alone(r) == \A q \in Requests \ {r} : Same(q)

(* What is left to show of a step of one request.                          *)
LEMMA OneMoves ==
  ASSUME NEW r \in Requests, RequestInv, Domains', LBInv', balancer' = balancer,
         Alone(r), RequestOK(r)'
  PROVE  RequestInv' /\ Alone(r)
<1>1. ASSUME NEW q \in Requests PROVE RequestOK(q)'
  <2>1. CASE q = r
    BY <2>1
  <2>2. CASE q # r
    BY <2>2, OthersKeep DEF RequestInv, Alone
  <2>3. QED
    BY <2>1, <2>2
<1>2. QED
  BY <1>1 DEF RequestInv

(* Places are different places.                                            *)
LEMMA FailedFacts ==
  ASSUME NEW err
  PROVE  /\ Failed(err).err = err /\ ~Failed(err).resp.is
         /\ Failed(err).resp.usage = <<>> /\ Failed(err).resp = NoResp
<1>1. Failed(err).resp = NoResp /\ Failed(err).err = err
  BY DEF Failed, Result
<1>2. NoResp.is = FALSE /\ NoResp.usage = <<>>
  BY DEF NoResp, Response
<1>3. QED
  BY <1>1, <1>2

(* A request that has called no upstream has nothing to answer for.        *)
LEMMA NothingServed ==
  ASSUME NEW r, attempt'[r] = NoAttempt, ~result'[r].resp.is, reports'[r] = <<>>
  PROVE  /\ GrantedIsServed(r)' /\ ClientParamsRespected(r)'
         /\ UpstreamModelOfCluster(r)' /\ StreamAsksForUsage(r)' /\ OneBill(r)'
<1>1. NoAttempt' = NoAttempt
  BY DEF NoAttempt
<1>2. QED
  BY <1>1 DEF GrantedIsServed, ClientParamsRespected, UpstreamModelOfCluster,
    StreamAsksForUsage, OneBill

(* No request has been received: the invariant holds.                      *)
LEMMA RequestsStart == Init => RequestInv
<1> SUFFICES ASSUME Init PROVE RequestInv
  OBVIOUS
<1>1. Domains
  BY DEF Init, Domains
<1>2. LBInv
  BY BalancerStarts DEF Init
<1>3. ASSUME NEW r \in Requests PROVE RequestOK(r)
  <2>1. /\ pc[r] = "new" /\ attempt[r] = NoAttempt /\ result[r] = Failed(NoError)
        /\ reports[r] = <<>> /\ sent[r] = 0 /\ logged[r] = 0
    BY DEF Init
  <2>2. Placed(r)
    BY <2>1 DEF Placed, Places
  <2>3. ~result[r].resp.is
    BY <2>1, FailedFacts
  <2>4. Admitted(r) /\ Unserved(r) /\ Carried(r) /\ Billable(r) /\ StatusIsLogged(r)
    BY <2>1 DEF Admitted, Unserved, Carried, Billable, StatusIsLogged, Routed
  <2>5. /\ GrantedIsServed(r) /\ ClientParamsRespected(r)
        /\ UpstreamModelOfCluster(r) /\ StreamAsksForUsage(r) /\ OneBill(r)
    BY <2>1, <2>3 DEF GrantedIsServed, ClientParamsRespected, UpstreamModelOfCluster,
      StreamAsksForUsage, OneBill
  <2>6. QED
    BY <2>2, <2>4, <2>5 DEF RequestOK
<1>4. QED
  BY <1>1, <1>2, <1>3 DEF RequestInv

(* The preflight and the drain reject before the handler (WithOptions,     *)
(* WithRejectAfterDrained) and keep the invariant.                         *)
LEMMA ReceiveKeeps ==
  ASSUME NEW r \in Requests, RequestInv, Receive(r)
  PROVE  RequestInv' /\ Alone(r)
<1>0. RequestOK(r) /\ Placed(r) /\ Domains /\ LBInv
  BY DEF RequestInv, RequestOK
<1>1. Domains' /\ Alone(r)
  BY <1>0 DEF Domains, Alone, Same, Receive, Goto, Return
<1>2. LBInv' /\ balancer' = balancer
  BY <1>0, BalancerUntouched DEF Receive, lbVars
<1>3. PICK c \in ClientRequests[r] :
        /\ input'[r] = c
        /\ \/ pc'[r] = "done" /\ c.kind = "options" /\ sent'[r] = 204
              /\ result'[r] = result[r]
           \/ pc'[r] = "returned" /\ result'[r] = Failed(ErrorServiceUnavailable)
              /\ sent'[r] = sent[r]
           \/ pc'[r] = "auth" /\ c.kind # "options" /\ result'[r] = result[r]
              /\ sent'[r] = sent[r]
  BY <1>0 DEF Domains, Receive, Goto, Return
<1>4. /\ attempt'[r] = attempt[r] /\ reports'[r] = reports[r] /\ logged'[r] = logged[r]
      /\ pc[r] = "new"
  BY DEF Receive
<1>5. Placed(r)'
  BY <1>0, <1>3, <1>4 DEF Placed, Places
<1>6. Admitted(r)' /\ Unserved(r)' /\ Carried(r)' /\ StatusIsLogged(r)'
  BY <1>0, <1>3, <1>4 DEF Placed, Admitted, Unserved, Carried, StatusIsLogged, Routed
<1>7. ~result'[r].resp.is /\ result'[r].resp.usage = <<>> /\ attempt[r] = NoAttempt
      /\ reports[r] = <<>>
  BY <1>0, <1>3, <1>4, FailedFacts DEF Placed
<1>8. Billable(r)'
  BY <1>7 DEF Billable
<1>9. /\ GrantedIsServed(r)' /\ ClientParamsRespected(r)'
      /\ UpstreamModelOfCluster(r)' /\ StreamAsksForUsage(r)' /\ OneBill(r)'
  BY <1>4, <1>7, NothingServed
<1>10. RequestOK(r)'
  BY <1>5, <1>6, <1>8, <1>9 DEF RequestOK
<1>11. QED
  BY <1>1, <1>2, <1>10, OneMoves

(* An auth service that lets a request through has confirmed its key.      *)
LEMMA PreErrorFacts ==
  ASSUME NEW header, NEW answer, answer.outcome \in AuthOutcomes,
         PreError(header, answer) = NoError
  PROVE  header = "key" /\ answer.outcome = "ok" /\ answer.valid
BY ErrorsAreErrors DEF PreError, AuthOutcomes

(* The auth filter admits only a key the service has confirmed (auth.go,   *)
(* OnRequestPre).                                                          *)
LEMMA OnRequestPreKeeps ==
  ASSUME NEW r \in Requests, RequestInv, OnRequestPre(r)
  PROVE  RequestInv' /\ Alone(r)
<1>0. RequestOK(r) /\ Placed(r) /\ Domains /\ LBInv
  BY DEF RequestInv, RequestOK
<1>1. Domains' /\ Alone(r)
  <2>1. PICK answer, err :
          /\ \/ authInfo' = [authInfo EXCEPT ![r] = answer] \/ authInfo' = authInfo
          /\ \/ Goto(r, "parse") /\ UNCHANGED result
             \/ Return(r, Failed(err))
    BY DEF OnRequestPre
  <2>2. UNCHANGED <<input, llmRequest, chosen, attempt, tried, retried, sent,
                    logged, reports, cancelled>>
    BY DEF OnRequestPre
  <2>3. QED
    BY <1>0, <2>1, <2>2 DEF Domains, Alone, Same, Goto, Return
<1>2. LBInv' /\ balancer' = balancer
  BY <1>0, BalancerUntouched DEF OnRequestPre, lbVars
<1>3. /\ attempt'[r] = attempt[r] /\ reports'[r] = reports[r] /\ logged'[r] = logged[r]
      /\ sent'[r] = sent[r] /\ input'[r] = input[r] /\ pc[r] = "auth"
  BY DEF OnRequestPre
<1>4. PICK answer \in AuthAnswers[r] :
        /\ authInfo' = IF input[r].header = "key" /\ answer.outcome = "ok"
                       THEN [authInfo EXCEPT ![r] = answer] ELSE authInfo
        /\ IF PreError(input[r].header, answer) = NoError
           THEN Goto(r, "parse") /\ UNCHANGED result
           ELSE Return(r, Failed(PreError(input[r].header, answer)))
  BY DEF OnRequestPre
<1>5. \/ pc'[r] = "parse" /\ result'[r] = result[r] /\ authInfo'[r].valid
      \/ pc'[r] = "returned" /\ \E e : result'[r] = Failed(e)
  <2>1. CASE PreError(input[r].header, answer) = NoError
    <3>1. answer.outcome \in AuthOutcomes
      BY RequestAssumption
    <3>2. input[r].header = "key" /\ answer.outcome = "ok" /\ answer.valid
      BY <2>1, <3>1, PreErrorFacts
    <3>3. QED
      BY <1>0, <1>4, <2>1, <3>2 DEF Domains, Goto
  <2>2. CASE PreError(input[r].header, answer) # NoError
    <3> DEFINE e == PreError(input[r].header, answer)
    <3>1. Return(r, Failed(e))
      BY <1>4, <2>2
    <3> HIDE DEF e
    <3>2. QED
      BY <1>0, <3>1 DEF Domains, Return, Goto
  <2>3. QED
    BY <2>1, <2>2
<1>6. Placed(r)'
  BY <1>0, <1>3, <1>5 DEF Placed, Places
<1>7. Admitted(r)' /\ Unserved(r)' /\ Carried(r)' /\ StatusIsLogged(r)'
  BY <1>5 DEF Admitted, Unserved, Carried, StatusIsLogged, Routed
<1>8. ~result'[r].resp.is /\ result'[r].resp.usage = <<>> /\ attempt'[r] = NoAttempt
      /\ reports'[r] = <<>>
  BY <1>0, <1>3, <1>5, FailedFacts DEF Placed
<1>9. Billable(r)'
  BY <1>8 DEF Billable
<1>10. RequestOK(r)'
  BY <1>6, <1>7, <1>8, <1>9, NothingServed DEF RequestOK
<1>11. QED
  BY <1>1, <1>2, <1>10, OneMoves

(* The listings name only clusters the caller may use.                     *)
LEMMA ListModelsKeeps ==
  ASSUME NEW r \in Requests, RequestInv, ListModels(r)
  PROVE  RequestInv' /\ Alone(r)
<1>0. RequestOK(r) /\ Placed(r) /\ Admitted(r) /\ Domains /\ LBInv
  BY DEF RequestInv, RequestOK
<1>1. PICK res : /\ Return(r, res) /\ res.resp.usage = <<>> /\ res.err = NoError
                 /\ \A c \in res.resp.listed : CanAccessModel(c, authInfo[r])
  <2>1. PICK registered, failing :
          Return(r, Result([Response(200, FALSE, <<>>, NoName) EXCEPT !.listed =
            {c \in registered \ failing : CanAccessModel(c, authInfo[r])}], NoError))
    BY DEF ListModels
  <2> DEFINE listed == {c \in registered \ failing : CanAccessModel(c, authInfo[r])}
             resp == [Response(200, FALSE, <<>>, NoName) EXCEPT !.listed = listed]
  <2>2. \A c \in listed : CanAccessModel(c, authInfo[r])
    OBVIOUS
  <2>3. Return(r, Result(resp, NoError))
    BY <2>1
  <2> HIDE DEF listed
  <2>4. resp.usage = <<>> /\ resp.listed = listed
    BY DEF Response
  <2> HIDE DEF resp
  <2>5. Result(resp, NoError).resp = resp /\ Result(resp, NoError).err = NoError
    BY DEF Result
  <2>6. QED
    BY <2>2, <2>3, <2>4, <2>5
<1>2. Domains' /\ Alone(r)
  BY <1>0, <1>1 DEF Domains, Alone, Same, ListModels, Goto, Return
<1>3. LBInv' /\ balancer' = balancer
  BY <1>0, BalancerUntouched DEF ListModels, lbVars
<1>4. /\ attempt'[r] = attempt[r] /\ reports'[r] = reports[r] /\ logged'[r] = logged[r]
      /\ sent'[r] = sent[r] /\ input'[r] = input[r] /\ authInfo'[r] = authInfo[r]
      /\ pc[r] = "parse"
  BY DEF ListModels
<1>5. pc'[r] = "returned" /\ result'[r] = res
  BY <1>0, <1>1 DEF Domains, Return, Goto
<1>6. Placed(r)'
  BY <1>0, <1>4, <1>5 DEF Placed, Places
<1>7. Admitted(r)' /\ Unserved(r)' /\ Carried(r)' /\ StatusIsLogged(r)'
  BY <1>5 DEF Admitted, Unserved, Carried, StatusIsLogged, Routed
<1>8. Billable(r)'
  BY <1>1, <1>5 DEF Billable
<1>9. authInfo[r].valid /\ attempt'[r] = NoAttempt /\ reports'[r] = <<>>
  BY <1>0, <1>4 DEF Admitted, Placed
<1>10. GrantedIsServed(r)'
  <2>1. \A c \in result'[r].resp.listed :
          authInfo'[r].valid /\ ~IsDenied(c, authInfo'[r].deny)
    BY <1>1, <1>4, <1>5, <1>9 DEF CanAccessModel
  <2>2. QED
    BY <1>9, <2>1 DEF GrantedIsServed, NoAttempt
<1>11. /\ ClientParamsRespected(r)' /\ UpstreamModelOfCluster(r)'
       /\ StreamAsksForUsage(r)' /\ OneBill(r)'
  BY <1>9 DEF ClientParamsRespected, UpstreamModelOfCluster, StreamAsksForUsage,
    OneBill, NoAttempt
<1>12. RequestOK(r)'
  BY <1>6, <1>7, <1>8, <1>10, <1>11 DEF RequestOK
<1>13. QED
  BY <1>2, <1>3, <1>12, OneMoves

(* A request with a body over the keys is well-formed.                     *)
LEMMA ParsedRecord ==
  ASSUME NEW kind, NEW model, NEW lost \in BOOLEAN, NEW size, NEW given, NEW voice,
         NEW format, NEW body, body = [k \in Keys |-> body[k]]
  PROVE  LET q == [kind |-> kind, model |-> model, lost |-> lost, size |-> size,
                   sizeGiven |-> given, voice |-> voice, format |-> format,
                   body |-> body]
         IN  /\ WellFormed(q) /\ q.kind = kind /\ q.model = model /\ q.lost = lost
             /\ q.format = format /\ q.body = body
BY DEF WellFormed

(* What the parsers of the listener make of a body.                        *)
LEMMA ParseFacts ==
  ASSUME NEW c, c.body = [k \in Keys |-> c.body[k]],
         c.kind \in {"chat", "completions", "image", "tts"}
  PROVE  LET q == ParseRequest(c)
         IN  /\ WellFormed(q) /\ q.kind = c.kind /\ ~q.lost /\ q.model = c.body["model"]
             /\ q.kind = "tts" => q.format = c.body["response_format"]
             /\ \A k \in Keys \ {"stream_options"} : q.body[k] = c.body[k]
             /\ q.kind \in {"chat", "completions"} /\ c.stream =>
                  q.body["stream_options"] = "usage"
<1>0. "stream_options" \in Keys
  BY RequestAssumption
<1>1. CASE c.kind = "image"
  <2>1. ParseRequest(c) = NewImageGenerationsRequest(c)
    BY <1>1 DEF ParseRequest
  <2> DEFINE size == RequestSize(c.sizeGiven, c.size).size
  <2>2. NewImageGenerationsRequest(c) =
          [kind |-> "image", model |-> c.body["model"], lost |-> FALSE, size |-> size,
           sizeGiven |-> c.sizeGiven, voice |-> Absent, format |-> Absent,
           body |-> c.body]
    BY Zenon DEF NewImageGenerationsRequest
  <2> HIDE DEF size
  <2>3. PICK no \in BOOLEAN :
          /\ ~no
          /\ NewImageGenerationsRequest(c) =
               [kind |-> "image", model |-> c.body["model"], lost |-> no, size |-> size,
                sizeGiven |-> c.sizeGiven, voice |-> Absent, format |-> Absent,
                body |-> c.body]
    BY <2>2
  <2>4. LET q == NewImageGenerationsRequest(c)
        IN  /\ WellFormed(q) /\ q.kind = "image" /\ q.model = c.body["model"]
            /\ q.lost = no /\ q.format = Absent /\ q.body = c.body
    BY <2>3, ParsedRecord
  <2>5. QED
    BY <1>1, <2>1, <2>3, <2>4
<1>2. CASE c.kind = "tts"
  BY <1>2 DEF ParseRequest, NewTextToSpeechRequest, WellFormed
<1>3. CASE c.kind \in {"chat", "completions"}
  <2> DEFINE b == [k \in Keys |-> IF c.stream /\ k = "stream_options"
                                  THEN "usage" ELSE c.body[k]]
  <2>1. ParseRequest(c) =
          [kind |-> c.kind, model |-> c.body["model"], lost |-> FALSE,
           size |-> NoSize, sizeGiven |-> FALSE, voice |-> Absent, format |-> Absent,
           body |-> b]
    BY <1>3 DEF ParseRequest, NewChatCompletionRequest
  <2>2. /\ b = [k \in Keys |-> b[k]]
        /\ \A k \in Keys \ {"stream_options"} : b[k] = c.body[k]
        /\ c.stream => b["stream_options"] = "usage"
    BY <1>0
  <2> HIDE DEF b
  <2>3. PICK no \in BOOLEAN :
          /\ ~no
          /\ ParseRequest(c) =
               [kind |-> c.kind, model |-> c.body["model"], lost |-> no, size |-> NoSize,
                sizeGiven |-> no, voice |-> Absent, format |-> Absent, body |-> b]
    BY <2>1
  <2>4. LET q == ParseRequest(c)
        IN  /\ WellFormed(q) /\ q.kind = c.kind /\ q.model = c.body["model"]
            /\ q.lost = no /\ q.format = Absent /\ q.body = b
    BY <2>2, <2>3, ParsedRecord
  <2>5. QED
    BY <1>3, <2>2, <2>3, <2>4
<1>4. QED
  BY <1>1, <1>2, <1>3

(* The filters let through the models the caller may use.                  *)
LEMMA HandlerErrorFacts ==
  ASSUME NEW q, q.kind \in {"chat", "completions", "image"}, NEW info,
         HandlerError(q, info) = NoError
  PROVE  CanAccessModel(q.model, info)
<1>1. AccessError(q.model, info) = NoError
  BY DEF HandlerError, ImageAccessError
<1>2. QED
  BY <1>1, ErrorsAreErrors DEF AccessError

(* A parsed body names a model.                                            *)
LEMMA ParseErrorFacts ==
  ASSUME NEW c, ParseError(c) = NoError
  PROVE  c.body["model"] # Absent
<1>1. OpenAIInvalidBody # NoError /\ OpenAIBadRequest # NoError
      /\ OpenAIMissingModel # NoError
  BY ErrorsAreErrors
<1>2. QED
  BY <1>1 DEF ParseError

(* The handler up to the route: what is routed was parsed and, but for     *)
(* speech, is a model the caller may use.                                  *)
LEMMA MatchRouteKeeps ==
  ASSUME NEW r \in Requests, RequestInv, MatchRoute(r)
  PROVE  RequestInv' /\ Alone(r)
<1> DEFINE q == ParseRequest(input[r])
           err(limiter) ==
             IF ParseError(input[r]) # NoError THEN ParseError(input[r])
             ELSE IF HandlerError(q, authInfo[r]) # NoError
                  THEN HandlerError(q, authInfo[r])
             ELSE IF q.model \notin RouteModels
                  THEN ErrorModelNotFoundOrNotAccessible
             ELSE LimitError(q, limiter)
<1>0. RequestOK(r) /\ Placed(r) /\ Admitted(r) /\ Domains /\ LBInv
  BY DEF RequestInv, RequestOK
<1>1. PICK limiter \in {"allows", "rejects", "fails"} :
        IF err(limiter) = NoError
        THEN /\ llmRequest' = [llmRequest EXCEPT ![r] = q]
             /\ Goto(r, "select")
             /\ UNCHANGED result
        ELSE Return(r, Failed(err(limiter))) /\ UNCHANGED llmRequest
  BY DEF MatchRoute
<1>2. \/ /\ ParseError(input[r]) = NoError /\ HandlerError(q, authInfo[r]) = NoError
         /\ llmRequest' = [llmRequest EXCEPT ![r] = q]
         /\ Goto(r, "select") /\ UNCHANGED result
      \/ \E e : Return(r, Failed(e)) /\ UNCHANGED llmRequest
  <2>1. CASE err(limiter) = NoError
    <3>1. ParseError(input[r]) = NoError /\ HandlerError(q, authInfo[r]) = NoError
      BY <2>1
    <3>2. QED
      BY <1>1, <2>1, <3>1
  <2>2. CASE err(limiter) # NoError
    BY <1>1, <2>2
  <2>3. QED
    BY <2>1, <2>2
<1> HIDE DEF q, err
<1>3. Domains' /\ Alone(r)
  <2>1. UNCHANGED <<input, authInfo, chosen, attempt, tried, retried, sent, logged,
                    reports, cancelled>>
    BY DEF MatchRoute
  <2>2. QED
    BY <1>0, <1>2, <2>1 DEF Domains, Alone, Same, Goto, Return
<1>4. LBInv' /\ balancer' = balancer
  BY <1>0, BalancerUntouched DEF MatchRoute, lbVars
<1>5. /\ attempt'[r] = attempt[r] /\ reports'[r] = reports[r] /\ logged'[r] = logged[r]
      /\ sent'[r] = sent[r] /\ input'[r] = input[r] /\ authInfo'[r] = authInfo[r]
      /\ pc[r] = "parse" /\ input[r].kind \notin {"models", "voices"}
  BY DEF MatchRoute
<1>6. /\ pc'[r] = "select" \/ pc'[r] = "returned"
      /\ pc'[r] = "select" =>
           /\ ParseError(input[r]) = NoError /\ HandlerError(q, authInfo[r]) = NoError
           /\ llmRequest'[r] = q
      /\ result'[r] = result[r] \/ \E e : result'[r] = Failed(e)
  BY <1>0, <1>2 DEF Domains, Goto, Return
<1>7. Placed(r)'
  <2>1. /\ input[r] \in ClientRequests[r] /\ reports[r] = <<>> /\ sent[r] = 0
        /\ logged[r] = 0
    BY <1>0, <1>5 DEF Placed
  <2>2. pc'[r] \in {"select", "returned"}
    BY <1>6
  <2>3. QED
    BY <1>5, <2>1, <2>2 DEF Placed, Places, Routed
<1>8. ~result'[r].resp.is /\ result'[r].resp.usage = <<>> /\ attempt'[r] = NoAttempt
      /\ reports'[r] = <<>>
  BY <1>0, <1>5, <1>6, FailedFacts DEF Placed
<1>9. /\ input[r].kind \in {"chat", "completions", "image", "tts"}
      /\ input[r].body = [k \in Keys |-> input[r].body[k]]
  <2>1. input[r] \in ClientRequests[r] /\ input[r].kind # "options"
    BY <1>0, <1>5 DEF Placed
  <2>2. QED
    BY <1>5, <2>1, RequestAssumption DEF RequestKinds
<1>10. /\ WellFormed(q) /\ q.kind = input[r].kind /\ ~q.lost
       /\ q.model = input[r].body["model"]
       /\ q.kind = "tts" => q.format = input[r].body["response_format"]
       /\ \A k \in Keys \ {"stream_options"} : q.body[k] = input[r].body[k]
       /\ q.kind \in {"chat", "completions"} /\ input[r].stream =>
            q.body["stream_options"] = "usage"
  BY <1>9, ParseFacts DEF q
<1>11. Admitted(r)'
  <2>1. authInfo[r].valid
    BY <1>0, <1>5 DEF Admitted
  <2>2. pc'[r] = "select" /\ input[r].kind # "tts" =>
          CanAccessModel(input[r].body["model"], authInfo[r])
    BY <1>6, <1>9, <1>10, HandlerErrorFacts
  <2>3. QED
    BY <1>5, <1>6, <1>9, <2>1, <2>2 DEF Admitted, Routed
<1>12. Carried(r)'
  <2>1. CASE pc'[r] = "select"
    <3>1. \A k \in Keys : input[r].body[k] \in MayCarry(r, k)'
      BY <1>5 DEF MayCarry
    <3>2. "model" \in Keys /\ "model" # "stream_options"
      BY RequestAssumption
    <3>3. q.body["model"] # Absent
      BY <1>6, <1>10, <2>1, <3>2, ParseErrorFacts
    <3>4. llmRequest'[r] = q
      BY <1>6, <2>1
    <3>5. QED
      BY <1>5, <1>10, <3>1, <3>3, <3>4 DEF Carried, Remains
  <2>2. CASE pc'[r] = "returned"
    BY <2>2 DEF Carried, Routed
  <2>3. QED
    BY <1>6, <2>1, <2>2
<1>13. Unserved(r)' /\ StatusIsLogged(r)' /\ Billable(r)'
  BY <1>6, <1>8 DEF Unserved, StatusIsLogged, Billable
<1>14. RequestOK(r)'
  BY <1>7, <1>8, <1>11, <1>12, <1>13, NothingServed DEF RequestOK
<1>15. QED
  BY <1>3, <1>4, <1>14, OneMoves

-----------------------------------------------------------------------------
(* A step inside the fallback loop that only chooses.                      *)
LEMMA StillRouted ==
  ASSUME NEW r, RequestOK(r), pc[r] \in Routed, pc'[r] \in Routed,
         pc'[r] \in {"attempt", "upstream"} => chosen'[r] \in DOMAIN Targets,
         input'[r] = input[r], llmRequest'[r] = llmRequest[r],
         authInfo'[r] = authInfo[r], attempt'[r] = attempt[r], tried'[r] = tried[r],
         result'[r] = result[r], sent'[r] = sent[r], logged'[r] = logged[r],
         reports'[r] = reports[r]
  PROVE  RequestOK(r)'
<1> USE DEF RequestOK
<1>1. Placed(r)'
  BY DEF Placed, Routed, Places
<1>2. Admitted(r)' /\ Unserved(r)' /\ Billable(r)' /\ StatusIsLogged(r)'
  BY DEF Admitted, Unserved, Billable, StatusIsLogged, Routed
<1>3. \A k : MayCarry(r, k)' = MayCarry(r, k)
  BY DEF MayCarry
<1>4. (RemovesModel(r)' <=> RemovesModel(r)) /\ (KeepsStream(r)' <=> KeepsStream(r))
  BY DEF RemovesModel, KeepsStream
<1>5. Carried(r)'
  BY <1>3, <1>4 DEF Carried, Remains
<1>6. GrantedIsServed(r)' /\ OneBill(r)'
  BY DEF GrantedIsServed, OneBill
<1>7. ClientParamsRespected(r)'
  BY <1>3 DEF ClientParamsRespected
<1>8. UpstreamModelOfCluster(r)' /\ StreamAsksForUsage(r)'
  BY DEF UpstreamModelOfCluster, StreamAsksForUsage
<1>9. QED
  BY <1>1, <1>2, <1>5, <1>6, <1>7, <1>8

(* The targets are numbered, and there is one.                             *)
LEMMA TargetFacts ==
  ASSUME LBInv
  PROVE  Servers = DOMAIN Targets /\ 1 \in DOMAIN Targets
<1>1. balancer \in Balancers
  BY DEF LBInv, LBTypeOK
<1>2. Servers = 1..Len(balancer.weights) /\ Len(balancer.weights) > 0
      /\ Len(balancer.weights) \in Nat
  BY <1>1, BalancerFacts
<1>3. Len(balancer.weights) = Len(Targets) /\ DOMAIN Targets = 1..Len(Targets)
  BY <1>1, RequestAssumption
<1>4. QED
  BY <1>2, <1>3

(* A turn of the fallback loop reads the balancer, or panics when all      *)
(* targets weigh nothing.                                                  *)
LEMMA SelectClusterKeeps ==
  ASSUME NEW r \in Requests, RequestInv, SelectCluster(r)
  PROVE  RequestInv' /\ Alone(r)
<1>0. RequestOK(r) /\ Domains /\ LBInv
  BY DEF RequestInv
<1>1. /\ pc[r] = "select" /\ input' = input /\ llmRequest' = llmRequest
      /\ authInfo' = authInfo /\ attempt' = attempt /\ tried' = tried
      /\ retried' = retried /\ result' = result /\ logged' = logged
      /\ reports' = reports /\ cancelled' = cancelled
  BY DEF SelectCluster
<1>2. CASE NextPanics
  <2>1. Recover(r) /\ UNCHANGED <<lbVars, chosen>>
    BY <1>2 DEF SelectCluster
  <2>2. Domains' /\ Alone(r)
    BY <1>0, <1>1, <2>1 DEF Domains, Alone, Same, Recover, Goto
  <2>3. LBInv' /\ balancer' = balancer
    BY <1>0, <2>1, BalancerUntouched DEF lbVars
  <2>4. pc'[r] = "done" /\ sent'[r] = 500
    BY <1>0, <2>1 DEF Domains, Recover, Goto
  <2>5. NextPanics'
    BY <1>2, <2>3, PanicsStay
  <2>6. Placed(r)' /\ StatusIsLogged(r)'
    BY <1>0, <1>1, <2>1, <2>4, <2>5 DEF RequestOK, Placed, Places, StatusIsLogged
  <2>7. Admitted(r)' /\ Unserved(r)' /\ Carried(r)' /\ Billable(r)'
    BY <2>4 DEF Admitted, Unserved, Carried, Billable, Routed
  <2>8. GrantedIsServed(r)' /\ OneBill(r)'
    BY <1>0, <1>1 DEF RequestOK, GrantedIsServed, OneBill
  <2>9. \A k : MayCarry(r, k)' = MayCarry(r, k)
    BY <1>1 DEF MayCarry
  <2>10. ClientParamsRespected(r)'
    BY <1>0, <1>1, <2>9 DEF RequestOK, ClientParamsRespected
  <2>11. UpstreamModelOfCluster(r)' /\ StreamAsksForUsage(r)'
    BY <1>0, <1>1 DEF RequestOK, UpstreamModelOfCluster, StreamAsksForUsage
  <2>12. RequestOK(r)'
    BY <2>6, <2>7, <2>8, <2>10, <2>11 DEF RequestOK
  <2>13. QED
    BY <2>2, <2>3, <2>12, OneMoves
<1>3. CASE ~NextPanics
  <2>1. /\ UNCHANGED sent
        /\ \/ chosen' = [chosen EXCEPT ![r] = 1] /\ Goto(r, "attempt") /\ UNCHANGED lbVars
           \/ NextReads(r) /\ Goto(r, "store") /\ UNCHANGED chosen
    BY <1>3 DEF SelectCluster
  <2>2. Domains' /\ Alone(r)
    BY <1>0, <1>1, <2>1 DEF Domains, Alone, Same, Goto
  <2>3. LBInv' /\ balancer' = balancer
    <3>1. CASE UNCHANGED lbVars
      BY <1>0, <3>1, BalancerUntouched DEF lbVars
    <3>2. CASE NextReads(r)
      BY <1>0, <3>2, NextReadsKeeps DEF NextReads
    <3>3. QED
      BY <2>1, <3>1, <3>2
  <2>4. \/ pc'[r] = "attempt" /\ chosen'[r] = 1
        \/ pc'[r] = "store"
    BY <1>0, <2>1 DEF Domains, Goto
  <2>5. RequestOK(r)'
    BY <1>0, <1>1, <2>1, <2>4, TargetFacts, StillRouted DEF Routed
  <2>6. QED
    BY <2>2, <2>3, <2>5, OneMoves
<1>4. QED
  BY <1>2, <1>3

(* The balancer is written, and the target it found is one of the route.   *)
LEMMA StoreClusterKeeps ==
  ASSUME NEW r \in Requests, RequestInv, StoreCluster(r)
  PROVE  RequestInv' /\ Alone(r)
<1>0. RequestOK(r) /\ Domains /\ LBInv
  BY DEF RequestInv
<1>1. /\ pc[r] = "store" /\ NextWrites(r) /\ Goto(r, "attempt")
      /\ chosen' = [chosen EXCEPT ![r] = picked[r]]
      /\ UNCHANGED <<input, llmRequest, authInfo, attempt, tried, retried, result, sent,
                     logged, reports, cancelled>>
  BY DEF StoreCluster
<1>2. Domains' /\ Alone(r)
  BY <1>0, <1>1 DEF Domains, Alone, Same, Goto
<1>3. LBInv' /\ balancer' = balancer
  BY <1>0, <1>1, NextWritesKeeps DEF NextWrites
<1>4. pc'[r] = "attempt" /\ chosen'[r] = picked[r]
  BY <1>0, <1>1 DEF Domains, Goto
<1>5. picked[r] \in DOMAIN Targets
  BY <1>0, <1>1, TargetFacts DEF LBInv, LBTypeOK, NextWrites
<1>6. RequestOK(r)'
  BY <1>0, <1>1, <1>4, <1>5, StillRouted DEF Routed
<1>7. QED
  BY <1>2, <1>3, <1>6, OneMoves

(* A cancelled context changes nothing of the request.                     *)
LEMMA CancelKeeps ==
  ASSUME NEW r \in Requests, RequestInv, Cancel(r)
  PROVE  RequestInv' /\ Alone(r)
<1>0. Domains /\ LBInv /\ \A q \in Requests : RequestOK(q)
  BY DEF RequestInv
<1>1. Domains' /\ \A q \in Requests : Same(q)
  BY <1>0 DEF Domains, Same, Cancel
<1>2. LBInv' /\ balancer' = balancer
  BY <1>0, BalancerUntouched DEF Cancel, lbVars
<1>3. QED
  BY <1>0, <1>1, <1>2, OthersKeep DEF RequestInv, Alone

-----------------------------------------------------------------------------
(* Another cluster that is tried widens what a member may be.              *)
LEMMA MayCarryGrows ==
  ASSUME NEW r, NEW k, input'[r] = input[r], tried[r] \subseteq tried'[r]
  PROVE  MayCarry(r, k) \subseteq MayCarry(r, k)'
BY DEF MayCarry

(* The end of a turn of the fallback loop.                                 *)
LEMMA TurnEnds ==
  ASSUME NEW r \in Requests, NEW res, RequestOK(r), Domains,
         pc[r] \in {"attempt", "upstream"}, AfterAttempt(r, res),
         input'[r] = input[r], authInfo'[r] = authInfo[r], attempt'[r] = attempt[r],
         sent'[r] = sent[r], logged'[r] = logged[r], reports'[r] = reports[r],
         tried[r] \subseteq tried'[r], Carried(r)',
         res.resp.usage # <<>> => res.resp.model = attempt[r].cluster
  PROVE  RequestOK(r)'
<1> USE DEF RequestOK
<1>1. /\ result'[r] = res /\ pc'[r] \in {"returned", "select"}
      /\ pc'[r] = "select" => res.err # NoError
  BY DEF Domains, AfterAttempt, Goto
<1>2. Placed(r)'
  BY <1>1 DEF Placed, Places, Routed
<1>3. Admitted(r)' /\ Unserved(r)' /\ Billable(r)' /\ StatusIsLogged(r)'
  BY <1>1 DEF Admitted, Unserved, Billable, StatusIsLogged, Routed
<1>4. GrantedIsServed(r)' /\ OneBill(r)'
  BY DEF GrantedIsServed, OneBill, Admitted, Routed
<1>5. ClientParamsRespected(r)'
  <2>1. \A k : MayCarry(r, k) \subseteq MayCarry(r, k)'
    BY MayCarryGrows
  <2>2. NoAttempt' = NoAttempt
    BY DEF NoAttempt
  <2>3. QED
    BY <2>1, <2>2 DEF ClientParamsRespected
<1>6. UpstreamModelOfCluster(r)'
  BY DEF UpstreamModelOfCluster
<1>7. StreamAsksForUsage(r)'
  BY DEF StreamAsksForUsage
<1>8. QED
  BY <1>2, <1>3, <1>4, <1>5, <1>6, <1>7

(* A turn whose cluster is no longer registered fails.                     *)
LEMMA ClusterGoneKeeps ==
  ASSUME NEW r \in Requests, RequestInv, ClusterGone(r)
  PROVE  RequestInv' /\ Alone(r)
<1> DEFINE res == Failed(ErrorModelNotFoundOrNotAccessible)
<1>0. RequestOK(r) /\ Carried(r) /\ Domains /\ LBInv
  BY DEF RequestInv, RequestOK
<1>1. /\ pc[r] = "attempt" /\ AfterAttempt(r, res)
      /\ UNCHANGED <<lbVars, input, llmRequest, authInfo, chosen, attempt, tried, sent,
                     logged, reports, cancelled>>
  BY DEF ClusterGone
<1>2. res.resp.usage = <<>>
  BY FailedFacts
<1> HIDE DEF res
<1>3. Domains' /\ Alone(r)
  BY <1>0, <1>1 DEF Domains, Alone, Same, AfterAttempt, Goto
<1>4. LBInv' /\ balancer' = balancer
  BY <1>0, <1>1, BalancerUntouched DEF lbVars
<1>5. Carried(r)'
  <2>1. \A k : MayCarry(r, k)' = MayCarry(r, k)
    BY <1>1 DEF MayCarry
  <2>2. (RemovesModel(r)' <=> RemovesModel(r)) /\ (KeepsStream(r)' <=> KeepsStream(r))
    BY <1>1 DEF RemovesModel, KeepsStream
  <2>3. QED
    BY <1>0, <1>1, <2>1, <2>2 DEF Carried, Remains, Routed
<1>6. RequestOK(r)'
  BY <1>0, <1>1, <1>2, <1>5, TurnEnds
<1>7. QED
  BY <1>3, <1>4, <1>6, OneMoves

(* A response that carries usage has the name of the cluster that sent it. *)
LEMMA ResponseFacts ==
  ASSUME NEW reply, NEW cluster, NEW q, NEW config
  PROVE  LET res == DoUpstreamRequest(reply, cluster, q, config)
         IN  res.resp.usage # <<>> => res.resp.model = cluster
<1> DEFINE body == UnmarshalResponseBody(reply, cluster, q, config)
           Named(res) == \E resp, err : /\ res = Result(resp, err)
                                        /\ resp.usage # <<>> => resp.model = cluster
<1>1. ASSUME NEW e PROVE Named(Failed(e))
  BY FailedFacts DEF Failed
<1>2. ASSUME NEW status, NEW usage, NEW err
      PROVE  /\ Named(Result(Response(status, FALSE, usage, cluster), err))
             /\ Named(Result(Response(status, TRUE, usage, cluster), err))
  <2>1. /\ Response(status, FALSE, usage, cluster).model = cluster
        /\ Response(status, TRUE, usage, cluster).model = cluster
    BY DEF Response
  <2>2. QED
    BY <2>1
<1>3. ASSUME NEW res, Named(res), NEW e
      PROVE  /\ res.resp.usage # <<>> => res.resp.model = cluster
             /\ [res EXCEPT !.err = e].resp = res.resp
  BY <1>3 DEF Result
<1> HIDE DEF Named
<1>4. Named(NewAudioResponse(reply, cluster))
  <2> DEFINE e1 == ParseErrorResponse(reply.json, reply.body, reply.status)
             e2 == [OpenAIBadGateway EXCEPT !.upstream = TRUE]
             s  == IF reply.status = 0 THEN 200 ELSE reply.status
             x  == NewAudioResponse(reply, cluster)
  <2>1. x = Result(Response(s, FALSE, <<>>, cluster), NoError)
        \/ x = Failed(e1) \/ x = Failed(e2)
    BY DEF NewAudioResponse
  <2> HIDE DEF e1, e2, s, x
  <2>2. Named(x)
    BY <1>1, <1>2, <2>1
  <2>3. QED
    BY <2>2 DEF x
<1>5. Named(NewImageGenerationsResponse(reply, cluster, q, config))
  <2> DEFINE e == unmarshalErrorResponseFromParsedBody(reply.body, reply.status)
             u == resolveUsage(config.meter, q.size, reply.data).images
             x == NewImageGenerationsResponse(reply, cluster, q, config)
  <2>1. x = Result(Response(200, FALSE, u, cluster), e) \/ x = Failed(PlainError)
    BY DEF NewImageGenerationsResponse
  <2> HIDE DEF e, u, x
  <2>2. Named(x)
    BY <1>1, <1>2, <2>1
  <2>3. QED
    BY <2>2 DEF x
<1>6. Named(NewChatCompletionResponse(reply, cluster))
  <2> DEFINE e == unmarshalErrorResponseFromParsedBody(reply.body, reply.status)
             x == NewChatCompletionResponse(reply, cluster)
  <2>1. x = Result(Response(200, FALSE, reply.usage, cluster), e) \/ x = Failed(PlainError)
    BY DEF NewChatCompletionResponse
  <2> HIDE DEF e, x
  <2>2. Named(x)
    BY <1>1, <1>2, <2>1
  <2>3. QED
    BY <2>2 DEF x
<1>7. Named(body)
  <2> DEFINE e == [OpenAIBadGateway EXCEPT !.upstream = TRUE]
  <2>1. \/ body = NewAudioResponse(reply, cluster)
        \/ body = NewImageGenerationsResponse(reply, cluster, q, config)
        \/ body = NewChatCompletionResponse(reply, cluster)
        \/ body = Result(Response(200, TRUE, <<>>, cluster), NoError)
        \/ body = Failed(e) \/ body = Failed(PlainError)
    BY DEF UnmarshalResponseBody
  <2> HIDE DEF e, body
  <2>2. QED
    BY <1>1, <1>2, <1>4, <1>5, <1>6, <2>1
<1> DEFINE res == DoUpstreamRequest(reply, cluster, q, config)
           e == LLMErrorOrInternalError(body.err)
<1>8. res = Failed(ErrorBadGateway) \/ res = body \/ res = [body EXCEPT !.err = e]
  BY DEF DoUpstreamRequest
<1> HIDE DEF body, res, e
<1>9. res.resp.usage # <<>> => res.resp.model = cluster
  <2>1. CASE res = Failed(ErrorBadGateway)
    BY <2>1, FailedFacts
  <2>2. CASE res = body
    BY <1>3, <1>7, <2>2
  <2>3. CASE res = [body EXCEPT !.err = e]
    <3>1. [body EXCEPT !.err = e].resp = body.resp
      BY <1>3, <1>7
    <3>2. body.resp.usage # <<>> => body.resp.model = cluster
      BY <1>3, <1>7
    <3>3. QED
      BY <2>3, <3>1, <3>2
  <2>4. QED
    BY <1>8, <2>1, <2>2, <2>3
<1>10. QED
  BY <1>9 DEF res

(* An answer ends the turn, and a response that can be billed names the    *)
(* cluster that was called.                                                *)
LEMMA UpstreamAnswersKeeps ==
  ASSUME NEW r \in Requests, RequestInv, UpstreamAnswers(r)
  PROVE  RequestInv' /\ Alone(r)
<1>0. RequestOK(r) /\ Carried(r) /\ Domains /\ LBInv
  BY DEF RequestInv, RequestOK
<1>1. PICK reply \in Replies :
        AfterAttempt(r, DoUpstreamRequest(reply, attempt[r].cluster,
                                          llmRequest[r], Config(r)))
  BY DEF UpstreamAnswers
<1> DEFINE res == DoUpstreamRequest(reply, attempt[r].cluster, llmRequest[r], Config(r))
<1>2. AfterAttempt(r, res)
  BY <1>1
<1>3. res.resp.usage # <<>> => res.resp.model = attempt[r].cluster
  BY ResponseFacts
<1> HIDE DEF res
<1>4. /\ pc[r] = "upstream"
      /\ UNCHANGED <<lbVars, input, llmRequest, authInfo, chosen, attempt, tried, sent,
                     logged, reports, cancelled>>
  BY DEF UpstreamAnswers
<1>5. Domains' /\ Alone(r)
  BY <1>0, <1>2, <1>4 DEF Domains, Alone, Same, AfterAttempt, Goto
<1>6. LBInv' /\ balancer' = balancer
  BY <1>0, <1>4, BalancerUntouched DEF lbVars
<1>7. Carried(r)'
  <2>1. \A k : MayCarry(r, k)' = MayCarry(r, k)
    BY <1>4 DEF MayCarry
  <2>2. (RemovesModel(r)' <=> RemovesModel(r)) /\ (KeepsStream(r)' <=> KeepsStream(r))
    BY <1>4 DEF RemovesModel, KeepsStream
  <2>3. QED
    BY <1>0, <1>4, <2>1, <2>2 DEF Carried, Remains, Routed
<1>8. RequestOK(r)'
  BY <1>0, <1>2, <1>3, <1>4, <1>7, TurnEnds
<1>9. QED
  BY <1>5, <1>6, <1>8, OneMoves

(* After the loop only the bill, the answer and the log are left.          *)
LEMMA LoopIsOver ==
  ASSUME NEW r, RequestOK(r), pc'[r] \in {"respond", "done"},
         input'[r] = input[r], input[r] \in ClientRequests[r],
         authInfo'[r] = authInfo[r], attempt'[r] = attempt[r], tried'[r] = tried[r],
         result'[r] = result[r],
         pc'[r] # "done" => sent'[r] = 0 /\ logged'[r] = 0,
         OneBill(r)', StatusIsLogged(r)'
  PROVE  RequestOK(r)'
<1> USE DEF RequestOK
<1>1. Placed(r)'
  BY DEF Placed, Places
<1>2. Admitted(r)' /\ Unserved(r)' /\ Carried(r)' /\ Billable(r)'
  BY DEF Admitted, Unserved, Carried, Billable, Routed
<1>3. GrantedIsServed(r)'
  BY DEF GrantedIsServed
<1>4. \A k : MayCarry(r, k)' = MayCarry(r, k)
  BY DEF MayCarry
<1>5. ClientParamsRespected(r)'
  BY <1>4 DEF ClientParamsRespected
<1>6. UpstreamModelOfCluster(r)' /\ StreamAsksForUsage(r)'
  BY DEF UpstreamModelOfCluster, StreamAsksForUsage
<1>7. QED
  BY <1>1, <1>2, <1>3, <1>5, <1>6

(* The usage filter reports what the last turn returned, once              *)
(* (usage.go:79-171).                                                      *)
LEMMA OnCompletionResponseKeeps ==
  ASSUME NEW r \in Requests, RequestInv, OnCompletionResponse(r)
  PROVE  RequestInv' /\ Alone(r)
<1>0. RequestOK(r) /\ Placed(r) /\ Billable(r) /\ Domains /\ LBInv
  BY DEF RequestInv, RequestOK
<1> DEFINE report == usageReport(r)
<1>1. /\ pc[r] = "returned" /\ Goto(r, "respond")
      /\ \/ /\ result[r].resp.usage # <<>> /\ ~result[r].resp.stream
            /\ reports' = [reports EXCEPT ![r] = Append(reports[r], report)]
         \/ UNCHANGED reports
      /\ UNCHANGED <<lbVars, input, llmRequest, authInfo, chosen, attempt, tried, retried,
                     result, sent, logged, cancelled>>
  BY DEF OnCompletionResponse
<1>2. report.upstream = result[r].resp.model
  <2> DEFINE u == IF llmRequest[r].kind = "image"
                  THEN ReportedImages(result[r].resp.usage)
                  ELSE Len(result[r].resp.usage)
  <2>1. report = [user |-> llmRequest[r].model, upstream |-> result[r].resp.model,
                  usage |-> u]
    BY Zenon DEF usageReport
  <2> HIDE DEF u, report
  <2>2. QED
    BY <2>1
<1> HIDE DEF report
<1>3. Domains' /\ Alone(r)
  BY <1>0, <1>1 DEF Domains, Alone, Same, Goto
<1>4. LBInv' /\ balancer' = balancer
  BY <1>0, <1>1, BalancerUntouched DEF lbVars
<1>5. pc'[r] = "respond" /\ reports[r] = <<>> /\ sent[r] = 0 /\ logged[r] = 0
      /\ input[r] \in ClientRequests[r]
  BY <1>0, <1>1 DEF Domains, Goto, Placed
<1>6. \/ /\ reports'[r] = <<report>> /\ report.upstream = attempt[r].cluster
      \/ reports'[r] = <<>>
  <2>1. CASE UNCHANGED reports
    BY <1>5, <2>1
  <2>2. CASE /\ result[r].resp.usage # <<>> /\ ~result[r].resp.stream
             /\ reports' = [reports EXCEPT ![r] = Append(reports[r], report)]
    <3>1. report.upstream = attempt[r].cluster
      BY <1>0, <1>1, <1>2, <2>2 DEF Billable
    <3>2. reports'[r] = Append(<<>>, report)
      BY <1>0, <1>5, <2>2 DEF Domains
    <3>3. QED
      BY <3>1, <3>2
  <2>3. QED
    BY <1>1, <2>1, <2>2
<1>7. OneBill(r)'
  <2>1. CASE reports'[r] = <<>>
    BY <2>1 DEF OneBill
  <2>2. CASE reports'[r] = <<report>> /\ report.upstream = attempt[r].cluster
    <3>1. Len(reports'[r]) = 1 /\ reports'[r][1] = report /\ DOMAIN reports'[r] = {1}
      BY <2>2
    <3>2. QED
      BY <1>1, <2>2, <3>1 DEF OneBill
  <2>3. QED
    BY <1>6, <2>1, <2>2
<1>8. StatusIsLogged(r)'
  BY <1>5 DEF StatusIsLogged
<1>9. RequestOK(r)'
  BY <1>0, <1>1, <1>5, <1>7, <1>8, LoopIsOver
<1>10. QED
  BY <1>3, <1>4, <1>9, OneMoves

(* The response handler sends the status it logs (http.go:16-87).          *)
LEMMA RespondKeeps ==
  ASSUME NEW r \in Requests, RequestInv, Respond(r)
  PROVE  RequestInv' /\ Alone(r)
<1>0. RequestOK(r) /\ Placed(r) /\ Domains /\ LBInv
  BY DEF RequestInv, RequestOK
<1>1. PICK status : /\ sent' = [sent EXCEPT ![r] = status]
                    /\ logged' = [logged EXCEPT ![r] = status]
  BY DEF Respond, ResponseHandler
<1>2. /\ pc[r] = "respond" /\ Goto(r, "done")
      /\ UNCHANGED <<lbVars, input, llmRequest, authInfo, chosen, attempt, tried, retried,
                     result, reports, cancelled>>
  BY DEF Respond
<1>3. Domains' /\ Alone(r)
  BY <1>0, <1>1, <1>2 DEF Domains, Alone, Same, Goto
<1>4. LBInv' /\ balancer' = balancer
  BY <1>0, <1>2, BalancerUntouched DEF lbVars
<1>5. pc'[r] = "done" /\ sent'[r] = logged'[r] /\ input[r] \in ClientRequests[r]
  BY <1>0, <1>1, <1>2 DEF Domains, Goto, Placed
<1>6. OneBill(r)'
  BY <1>0, <1>2 DEF RequestOK, OneBill
<1>7. StatusIsLogged(r)'
  BY <1>5 DEF StatusIsLogged
<1>8. RequestOK(r)'
  BY <1>0, <1>2, <1>5, <1>6, <1>7, LoopIsOver
<1>9. QED
  BY <1>3, <1>4, <1>8, OneMoves

-----------------------------------------------------------------------------
(* The member a cluster leaves in a body is one the request may carry.     *)
LEMMA CarriedMember ==
  ASSUME NEW r, NEW k, NEW c, NEW v, input'[r] = input[r],
         tried'[r] = tried[r] \cup {c}, v \in MayCarry(r, k)
  PROVE  (IF k \in ClusterConfigs[c].removes THEN Absent
          ELSE IF ClusterConfigs[c].overrides[k] # Absent
               THEN ClusterConfigs[c].overrides[k]
          ELSE IF v = Absent THEN ClusterConfigs[c].defaults[k]
          ELSE v) \in MayCarry(r, k)'
<1>1. CASE k \in ClusterConfigs[c].removes
  BY <1>1 DEF MayCarry
<1>2. CASE /\ k \notin ClusterConfigs[c].removes
           /\ ClusterConfigs[c].overrides[k] # Absent
  BY <1>2 DEF MayCarry
<1>3. CASE /\ k \notin ClusterConfigs[c].removes
           /\ ClusterConfigs[c].overrides[k] = Absent /\ v = Absent
  BY <1>3 DEF MayCarry
<1>4. CASE /\ k \notin ClusterConfigs[c].removes
           /\ ClusterConfigs[c].overrides[k] = Absent /\ v # Absent
  BY <1>4, MayCarryGrows
<1>5. QED
  BY <1>1, <1>2, <1>3, <1>4

(* So may one whose patches stop half way.                                 *)
LEMMA PartlyCarried ==
  ASSUME NEW r, NEW k, NEW c, NEW v, NEW w, input'[r] = input[r],
         tried'[r] = tried[r] \cup {c}, v \in MayCarry(r, k),
         PartlyPatched(ClusterConfigs[c], k, v, w)
  PROVE  w \in MayCarry(r, k)'
<1>1. CASE w = v
  BY <1>1, MayCarryGrows
<1>2. CASE v = Absent /\ w = ClusterConfigs[c].defaults[k]
  BY <1>2 DEF MayCarry
<1>3. CASE /\ ClusterConfigs[c].overrides[k] # Absent
           /\ w = ClusterConfigs[c].overrides[k]
  BY <1>3 DEF MayCarry
<1>4. QED
  BY <1>1, <1>2, <1>3 DEF PartlyPatched

(* A cluster's modifier leaves of a request what the clusters may leave.   *)
LEMMA ModifierLeaves ==
  ASSUME NEW r, Remains(r), NEW name, name # Absent, NEW n, NEW before,
         n = RequestModifier(llmRequest[r], name, ClusterConfigs[name], before).request,
         llmRequest'[r] = n, input'[r] = input[r], tried'[r] = tried[r] \cup {name}
  PROVE  Remains(r)'
<1> DEFINE q == llmRequest[r]
           config == ClusterConfigs[name]
           m == RequestModifier(q, name, config, before)
<1>1. n = m.request
  OBVIOUS
<1>2. /\ m.outcome \in {"panic", "error", "badSize", "ok"}
      /\ WellFormed(n) /\ n.kind = q.kind /\ n.format = q.format
      /\ n.lost => q.lost \/ q.body["model"] = Absent
      /\ m.outcome \in {"panic", "error"} => n.body = q.body
      /\ m.outcome = "badSize" =>
           \A k \in Keys :
             PartlyPatched(config, k, IF k = "model" THEN name ELSE q.body[k], n.body[k])
      /\ m.outcome = "ok" =>
           \A k \in Keys :
             n.body[k] = IF k \in config.removes THEN Absent
                         ELSE IF config.overrides[k] # Absent THEN config.overrides[k]
                         ELSE IF k = "model" THEN name
                         ELSE IF q.body[k] = Absent THEN config.defaults[k]
                         ELSE q.body[k]
  <2>1. WellFormed(q)
    BY DEF Remains
  <2> HIDE DEF q, config
  <2>2. Made(q, name, config, m)
    BY <2>1, ModifierFacts
  <2> HIDE DEF m
  <2>3. QED
    BY <1>1, <2>2 DEF Made
<1> HIDE DEF m
<1>3. "model" \in Keys /\ "stream_options" \in Keys /\ "model" # "stream_options"
  BY RequestAssumption
<1>4. RemovesModel(r) => RemovesModel(r)'
  BY DEF RemovesModel
<1>5. n.lost \/ n.body["model"] = Absent => RemovesModel(r)'
  <2>1. CASE n.lost
    BY <1>2, <1>4, <2>1 DEF Remains
  <2>2. CASE n.body["model"] = Absent /\ m.outcome \in {"panic", "error"}
    BY <1>2, <1>4, <2>2 DEF Remains
  <2>3. CASE n.body["model"] = Absent /\ m.outcome = "badSize"
    BY <1>2, <1>3, <2>3 DEF PartlyPatched
  <2>4. CASE n.body["model"] = Absent /\ m.outcome = "ok"
    <3>1. "model" \in config.removes
      BY <1>2, <1>3, <2>4
    <3>2. QED
      BY <3>1 DEF RemovesModel
  <2>5. QED
    BY <1>2, <2>1, <2>2, <2>3, <2>4
<1>6. ASSUME n.kind # "tts", NEW k \in Keys \ {"model", "stream_options"}
      PROVE  n.body[k] \in MayCarry(r, k)'
  <2>1. q.body[k] \in MayCarry(r, k)
    BY <1>2, <1>6 DEF Remains
  <2>2. MayCarry(r, k) \subseteq MayCarry(r, k)'
    BY MayCarryGrows
  <2>3. CASE m.outcome = "ok"
    <3> DEFINE v == q.body[k]
    <3>1. (IF k \in ClusterConfigs[name].removes THEN Absent
           ELSE IF ClusterConfigs[name].overrides[k] # Absent
                THEN ClusterConfigs[name].overrides[k]
           ELSE IF v = Absent THEN ClusterConfigs[name].defaults[k]
           ELSE v) \in MayCarry(r, k)'
      <4>1. v \in MayCarry(r, k)
        BY <2>1
      <4> HIDE DEF v
      <4>2. QED
        BY <4>1, CarriedMember
    <3>2. QED
      BY <1>2, <2>3, <3>1
  <2>4. CASE m.outcome = "badSize"
    <3>1. PartlyPatched(config, k, q.body[k], n.body[k])
      BY <1>2, <2>4
    <3>2. QED
      BY <2>1, <3>1, PartlyCarried
  <2>5. CASE m.outcome \in {"panic", "error"}
    BY <1>2, <2>1, <2>2, <2>5
  <2>6. QED
    BY <1>2, <2>3, <2>4, <2>5
<1>7. ASSUME n.kind \in {"chat", "completions"}, input[r].stream, KeepsStream(r)'
      PROVE  n.body["stream_options"] = "usage"
  <2>1. KeepsStream(r) /\ "stream_options" \notin config.removes
        /\ config.overrides["stream_options"] = Absent
    BY <1>7 DEF KeepsStream
  <2>2. q.body["stream_options"] = "usage"
    BY <1>2, <1>7, <2>1 DEF Remains
  <2>3. "usage" # Absent
    BY DEF Absent
  <2>4. QED
    BY <1>2, <1>3, <2>1, <2>2, <2>3 DEF PartlyPatched
<1>8. n.kind = input[r].kind /\ (n.kind = "tts" => n.format = input[r].body["response_format"])
  BY <1>2 DEF Remains
<1>9. QED
  BY <1>2, <1>5, <1>6, <1>7, <1>8 DEF Remains

(* The cluster of a turn is a cluster.                                     *)
LEMMA ClusterFacts ==
  ASSUME NEW r, chosen[r] \in DOMAIN Targets
  PROVE  Targets[chosen[r]] # Absent
BY RequestAssumption

(* The cluster manager patches the request in place and calls the          *)
(* upstream, fails the turn, or panics for one of the known causes.        *)
LEMMA HandleRequestKeeps ==
  ASSUME NEW r \in Requests, RequestInv, HandleRequest(r)
  PROVE  RequestInv' /\ Alone(r)
<1>a. PICK before :
         LET cluster == Targets[chosen[r]]
             made    == RequestModifier(llmRequest[r], cluster, Config(r), before)
             q       == made.request
             err     == CASE made.outcome = "error"   -> ErrorInternalError
                          [] made.outcome = "badSize" -> OpenAIBadRequest
                          [] OTHER -> MarshalError(q, Config(r))
             panics  == \/ made.outcome = "panic"
                        \/ made.outcome = "ok" /\ MarshalPanics(q, Config(r))
         IN  /\ llmRequest' = [llmRequest EXCEPT ![r] = q]
             /\ tried' = [tried EXCEPT ![r] = @ \cup {cluster}]
             /\ CASE panics ->
                       Recover(r) /\ UNCHANGED <<retried, result, attempt>>
                  [] ~panics /\ err # NoError ->
                       /\ AfterAttempt(r, Failed(LLMErrorOrInternalError(err)))
                       /\ UNCHANGED <<sent, attempt>>
                  [] OTHER ->
                       /\ attempt' = [attempt EXCEPT ![r] =
                            [cluster |-> cluster,
                             body |-> MarshalUpstreamRequest(q, Config(r))]]
                       /\ Goto(r, "upstream")
                       /\ UNCHANGED <<sent, retried, result>>
  BY Zenon DEF HandleRequest
<1> DEFINE cluster == Targets[chosen[r]]
           config  == ClusterConfigs[cluster]
           made    == RequestModifier(llmRequest[r], cluster, config, before)
           n       == made.request
           body    == MarshalUpstreamRequest(n, config)
           err     == CASE made.outcome = "error"   -> ErrorInternalError
                        [] made.outcome = "badSize" -> OpenAIBadRequest
                        [] OTHER -> MarshalError(n, config)
           panics  == \/ made.outcome = "panic"
                      \/ made.outcome = "ok" /\ MarshalPanics(n, config)
<1>0. /\ RequestOK(r) /\ Placed(r) /\ Admitted(r) /\ Carried(r) /\ Domains /\ LBInv
      /\ pc[r] = "attempt"
  BY DEF RequestInv, RequestOK, HandleRequest
<1>1. /\ llmRequest' = [llmRequest EXCEPT ![r] = n]
      /\ tried' = [tried EXCEPT ![r] = tried[r] \cup {cluster}]
      /\ UNCHANGED <<lbVars, input, authInfo, chosen, logged, reports, cancelled>>
  BY <1>a DEF HandleRequest, Config
<1>2. \/ panics /\ Recover(r) /\ UNCHANGED <<retried, result, attempt>>
      \/ /\ ~panics /\ AfterAttempt(r, Failed(LLMErrorOrInternalError(err)))
         /\ UNCHANGED <<sent, attempt>>
      \/ /\ ~panics /\ err = NoError
         /\ attempt' = [attempt EXCEPT ![r] = [cluster |-> cluster, body |-> body]]
         /\ Goto(r, "upstream") /\ UNCHANGED <<sent, retried, result>>
  <2> DEFINE goes ==
        CASE panics -> Recover(r) /\ UNCHANGED <<retried, result, attempt>>
          [] ~panics /\ err # NoError ->
               /\ AfterAttempt(r, Failed(LLMErrorOrInternalError(err)))
               /\ UNCHANGED <<sent, attempt>>
          [] OTHER ->
               /\ attempt' = [attempt EXCEPT ![r] = [cluster |-> cluster, body |-> body]]
               /\ Goto(r, "upstream")
               /\ UNCHANGED <<sent, retried, result>>
  <2>1. goes
    BY <1>a DEF Config
  <2> HIDE DEF panics, err, body, cluster
  <2>2. CASE panics
    BY <2>1, <2>2
  <2>3. CASE ~panics /\ err # NoError
    BY <2>1, <2>3
  <2>4. CASE ~panics /\ err = NoError
    BY <2>1, <2>4
  <2>5. QED
    BY <2>2, <2>3, <2>4
<1>3. ~panics /\ err = NoError /\ made.outcome \in {"panic", "error", "badSize", "ok"}
        => made.outcome = "ok"
  <2> HIDE DEF made, n, config
  <2>1. QED
    BY ErrorsAreErrors
<1>4. cluster # Absent
  BY <1>0, ClusterFacts DEF Placed
<1>5. Remains(r)
  BY <1>0 DEF Carried, Routed
<1>6. /\ made.outcome \in {"panic", "error", "badSize", "ok"}
      /\ n.kind = llmRequest[r].kind /\ n.format = llmRequest[r].format
      /\ made.outcome = "panic" => llmRequest[r].lost
      /\ made.outcome = "ok" =>
           n.body["model"] = IF "model" \in config.removes THEN Absent
                             ELSE IF config.overrides["model"] # Absent
                                  THEN config.overrides["model"] ELSE cluster
      /\ made.outcome = "ok" =>
           n.model = IF config.overrides["model"] # Absent
                     THEN config.overrides["model"] ELSE cluster
  <2>1. WellFormed(llmRequest[r])
    BY <1>5 DEF Remains
  <2> HIDE DEF cluster, config
  <2>2. Made(llmRequest[r], cluster, config, made)
    BY <1>4, <2>1, ModifierFacts
  <2> HIDE DEF made
  <2>3. "model" \in Keys
    BY RequestAssumption
  <2>4. QED
    BY <2>2, <2>3 DEF Made
<1>7. config = ClusterConfigs[cluster] /\ made = RequestModifier(llmRequest[r], cluster, config, before)
      /\ n = made.request
  OBVIOUS
<1>8. panics => \/ llmRequest[r].lost
                \/ /\ input[r].kind = "tts" /\ input[r].body["response_format"] = Absent
                   /\ config.speech = "volcengine"
  <2> HIDE DEF made, n, config, cluster
  <2>1. /\ llmRequest[r].kind = input[r].kind
        /\ llmRequest[r].kind = "tts" =>
             llmRequest[r].format = input[r].body["response_format"]
    BY <1>5 DEF Remains
  <2>2. QED
    BY <1>6, <2>1 DEF MarshalPanics
<1> DEFINE failure == LLMErrorOrInternalError(err)
<1> HIDE DEF cluster, config, made, n, body, panics, err, failure
<1>9. \/ panics /\ Recover(r) /\ UNCHANGED <<retried, result, attempt>>
      \/ AfterAttempt(r, Failed(failure)) /\ UNCHANGED <<sent, attempt>>
      \/ /\ made.outcome = "ok"
         /\ attempt' = [attempt EXCEPT ![r] = [cluster |-> cluster, body |-> body]]
         /\ Goto(r, "upstream") /\ UNCHANGED <<sent, retried, result>>
  BY <1>2, <1>3, <1>6 DEF failure
<1>10. Domains' /\ Alone(r)
  <2>1. CASE panics /\ Recover(r) /\ UNCHANGED <<retried, result, attempt>>
    BY <1>0, <1>1, <2>1 DEF Domains, Alone, Same, Recover, Goto
  <2>2. CASE AfterAttempt(r, Failed(failure)) /\ UNCHANGED <<sent, attempt>>
    <3> DEFINE res == Failed(failure)
    <3>1. AfterAttempt(r, res)
      BY <2>2
    <3> HIDE DEF res
    <3>2. QED
      BY <1>0, <1>1, <2>2, <3>1 DEF Domains, Alone, Same, AfterAttempt, Goto
  <2>3. CASE /\ attempt' = [attempt EXCEPT ![r] = [cluster |-> cluster, body |-> body]]
             /\ Goto(r, "upstream") /\ UNCHANGED <<sent, retried, result>>
    BY <1>0, <1>1, <2>3 DEF Domains, Alone, Same, Goto
  <2>4. QED
    BY <1>9, <2>1, <2>2, <2>3
<1>11. LBInv' /\ balancer' = balancer
  BY <1>0, <1>1, BalancerUntouched DEF lbVars
<1>12. /\ llmRequest'[r] = n /\ tried'[r] = tried[r] \cup {cluster}
       /\ input'[r] = input[r] /\ authInfo'[r] = authInfo[r] /\ logged'[r] = logged[r]
       /\ reports'[r] = reports[r] /\ chosen'[r] = chosen[r]
  BY <1>0, <1>1 DEF Domains
<1>13. Remains(r)'
  BY <1>4, <1>5, <1>7, <1>12, ModifierLeaves
<1>14. Carried(r)'
  BY <1>13 DEF Carried
<1>15. \A k : MayCarry(r, k) \subseteq MayCarry(r, k)'
  BY <1>12, MayCarryGrows
<1>16. NoAttempt' = NoAttempt
  BY DEF NoAttempt
<1>17. CASE panics /\ Recover(r) /\ UNCHANGED <<retried, result, attempt>>
  <2> USE DEF RequestOK
  <2>1. pc'[r] = "done" /\ sent'[r] = 500 /\ logged'[r] = 0
    BY <1>0, <1>12, <1>17 DEF Domains, Recover, Goto, Placed
  <2>2. Placed(r)'
    BY <1>0, <1>12, <2>1 DEF Placed, Places
  <2>3. Admitted(r)' /\ Unserved(r)' /\ Billable(r)'
    BY <2>1 DEF Admitted, Unserved, Billable, Routed
  <2>4. StatusIsLogged(r)'
    <3>1. CASE llmRequest[r].lost
      <4>1. RemovesModel(r)'
        BY <1>5, <1>12, <3>1 DEF Remains, RemovesModel
      <4>2. QED
        BY <2>1, <4>1 DEF StatusIsLogged, RemovesModel
    <3>2. CASE /\ input[r].kind = "tts" /\ input[r].body["response_format"] = Absent
               /\ config.speech = "volcengine"
      BY <1>7, <1>12, <2>1, <3>2 DEF StatusIsLogged
    <3>3. QED
      BY <1>8, <1>17, <3>1, <3>2
  <2>5. GrantedIsServed(r)' /\ OneBill(r)'
    BY <1>0, <1>12, <1>17 DEF GrantedIsServed, OneBill
  <2>6. ClientParamsRespected(r)'
    BY <1>0, <1>12, <1>15, <1>16, <1>17 DEF ClientParamsRespected
  <2>7. UpstreamModelOfCluster(r)'
    BY <1>0, <1>17 DEF UpstreamModelOfCluster
  <2>8. StreamAsksForUsage(r)'
    BY <1>0, <1>12, <1>17 DEF StreamAsksForUsage
  <2>9. RequestOK(r)'
    BY <1>14, <2>2, <2>3, <2>4, <2>5, <2>6, <2>7, <2>8
  <2>10. QED
    BY <1>10, <1>11, <2>9, OneMoves
<1>18. CASE AfterAttempt(r, Failed(failure)) /\ UNCHANGED <<sent, attempt>>
  <2> DEFINE res == Failed(failure)
  <2>1. AfterAttempt(r, res) /\ res.resp.usage = <<>>
    BY <1>18, FailedFacts
  <2> HIDE DEF res
  <2>2. RequestOK(r)'
    BY <1>0, <1>12, <1>14, <1>18, <2>1, TurnEnds
  <2>3. QED
    BY <1>10, <1>11, <2>2, OneMoves
<1>19. CASE /\ made.outcome = "ok"
            /\ attempt' = [attempt EXCEPT ![r] = [cluster |-> cluster, body |-> body]]
            /\ Goto(r, "upstream") /\ UNCHANGED <<sent, retried, result>>
  <2> USE DEF RequestOK
  <2>1. /\ pc'[r] = "upstream" /\ attempt'[r] = [cluster |-> cluster, body |-> body]
        /\ result'[r] = result[r] /\ sent'[r] = sent[r]
    BY <1>0, <1>19 DEF Domains, Goto
  <2>2. attempt'[r].cluster = cluster /\ attempt'[r].body = body
    BY <2>1
  <2>3. Placed(r)'
    BY <1>0, <1>12, <2>1 DEF Placed, Places, Routed
  <2>4. Admitted(r)' /\ Unserved(r)' /\ Billable(r)' /\ StatusIsLogged(r)'
    BY <1>0, <1>12, <2>1 DEF Admitted, Unserved, Billable, StatusIsLogged, Routed
  <2>5. GrantedIsServed(r)'
    BY <1>0, <1>12 DEF GrantedIsServed, Admitted, Routed
  <2>6. OneBill(r)'
    BY <1>0, <1>12 DEF OneBill, Placed
  <2>7. n.kind = input[r].kind
    BY <1>5, <1>6 DEF Remains
  <2>8. n.kind # "tts" => body = n.body
    BY DEF body, MarshalUpstreamRequest
  <2>9. ClientParamsRespected(r)'
    BY <1>12, <1>13, <2>2, <2>7, <2>8 DEF ClientParamsRespected, Remains
  <2>10. StreamAsksForUsage(r)'
    BY <1>12, <1>13, <2>2, <2>7, <2>8 DEF StreamAsksForUsage, Remains, KeepsStream
  <2>11. UpstreamModelOfCluster(r)'
    <3> DEFINE name == IF config.overrides["model"] = Absent THEN cluster
                       ELSE config.overrides["model"]
    <3>1. "model" \in Keys
      BY RequestAssumption
    <3>2. n.model = name /\ n.body["model"] \in
            {name} \cup (IF "model" \in config.removes THEN {Absent} ELSE {})
      BY <1>6, <1>19, <3>1
    <3>3. body["model"] = n.model \/ body["model"] = n.body["model"]
      BY <3>1 DEF body, MarshalUpstreamRequest
    <3> HIDE DEF name
    <3>4. body["model"] \in {name} \cup (IF "model" \in config.removes THEN {Absent} ELSE {})
      BY <3>2, <3>3
    <3>5. QED
      BY <1>7, <2>2, <3>4 DEF UpstreamModelOfCluster, name
  <2>12. RequestOK(r)'
    BY <1>14, <2>3, <2>4, <2>5, <2>6, <2>9, <2>10, <2>11
  <2>13. QED
    BY <1>10, <1>11, <2>12, OneMoves
<1>20. QED
  BY <1>9, <1>17, <1>18, <1>19

-----------------------------------------------------------------------------
(* A step that changes nothing keeps the invariant.                        *)
LEMMA StutterKeeps ==
  ASSUME RequestInv, UNCHANGED vars
  PROVE  RequestInv'
<1>1. Domains /\ LBInv /\ \A q \in Requests : RequestOK(q)
  BY DEF RequestInv
<1>2. Domains' /\ \A q \in Requests : Same(q)
  BY <1>1 DEF Domains, Same, vars, perRequest
<1>3. LBInv' /\ balancer' = balancer
  BY <1>1, BalancerUntouched DEF vars, lbVars
<1>4. QED
  BY <1>1, <1>2, <1>3, OthersKeep DEF RequestInv

(* The invariant of the requests holds.                                    *)
THEOREM RequestInvariant == Spec => []RequestInv
<1>1. Init => RequestInv
  BY RequestsStart
<1>2. RequestInv /\ [Next]_vars => RequestInv'
  <2> SUFFICES ASSUME RequestInv, [Next]_vars PROVE RequestInv'
    OBVIOUS
  <2>1. CASE UNCHANGED vars
    BY <2>1, StutterKeeps
  <2>2. ASSUME NEW r \in Requests, Receive(r) PROVE RequestInv'
    BY <2>2, ReceiveKeeps
  <2>3. ASSUME NEW r \in Requests, OnRequestPre(r) PROVE RequestInv'
    BY <2>3, OnRequestPreKeeps
  <2>4. ASSUME NEW r \in Requests, ListModels(r) PROVE RequestInv'
    BY <2>4, ListModelsKeeps
  <2>5. ASSUME NEW r \in Requests, MatchRoute(r) PROVE RequestInv'
    BY <2>5, MatchRouteKeeps
  <2>6. ASSUME NEW r \in Requests, SelectCluster(r) PROVE RequestInv'
    BY <2>6, SelectClusterKeeps
  <2>7. ASSUME NEW r \in Requests, StoreCluster(r) PROVE RequestInv'
    BY <2>7, StoreClusterKeeps
  <2>8. ASSUME NEW r \in Requests, ClusterGone(r) PROVE RequestInv'
    BY <2>8, ClusterGoneKeeps
  <2>9. ASSUME NEW r \in Requests, HandleRequest(r) PROVE RequestInv'
    BY <2>9, HandleRequestKeeps
  <2>10. ASSUME NEW r \in Requests, UpstreamAnswers(r) PROVE RequestInv'
    BY <2>10, UpstreamAnswersKeeps
  <2>11. ASSUME NEW r \in Requests, OnCompletionResponse(r) PROVE RequestInv'
    BY <2>11, OnCompletionResponseKeeps
  <2>12. ASSUME NEW r \in Requests, Respond(r) PROVE RequestInv'
    BY <2>12, RespondKeeps
  <2>13. ASSUME NEW r \in Requests, Cancel(r) PROVE RequestInv'
    BY <2>13, CancelKeeps
  <2>14. QED
    BY <2>1, <2>2, <2>3, <2>4, <2>5, <2>6, <2>7, <2>8, <2>9, <2>10, <2>11, <2>12,
       <2>13 DEF Next, Step
<1>3. QED
  BY <1>1, <1>2, PTL DEF Spec

(* Nobody's model is called, nor its cluster listed, before the auth       *)
(* service has confirmed the caller and its rules admit the name the       *)
(* client used, through every fallback and renaming (auth.go:142-208,      *)
(* listener/common.go:51-66).                                              *)
THEOREM RequestOnlyGranted == Spec => []OnlyGrantedIsServed
<1>1. RequestInv => OnlyGrantedIsServed
  BY DEF RequestInv, RequestOK, OnlyGrantedIsServed
<1>2. QED
  BY <1>1, RequestInvariant, PTL

(* Every attempt, the retries of a request that other clusters have        *)
(* patched among them, asks its upstream for the model of its own cluster, *)
(* for the client's parameters and for the usage of a stream               *)
(* (request.go:51-74 of the cluster filters).                              *)
THEOREM RequestUpstreamAskedRight == Spec => []UpstreamIsAskedRight
<1>1. RequestInv => UpstreamIsAskedRight
  BY DEF RequestInv, RequestOK, UpstreamIsAskedRight
<1>2. QED
  BY <1>1, RequestInvariant, PTL

(* There is at most one bill, and it names the cluster that served,        *)
(* however many attempts were made (usage.go:79-171).                      *)
THEOREM RequestBilledOnce == Spec => []BilledOnceForServer
<1>1. RequestInv => BilledOnceForServer
  BY DEF RequestInv, RequestOK, BilledOnceForServer
<1>2. QED
  BY <1>1, RequestInvariant, PTL

(* The access log shows the status the client got, but for OPTIONS and for *)
(* a panic of one of three causes (http.go:16-87, middlewares.go:102-129). *)
THEOREM RequestLoggedStatus == Spec => []LoggedStatusIsSent
<1>1. RequestInv => LoggedStatusIsSent
  BY DEF RequestInv, RequestOK, LoggedStatusIsSent
<1>2. QED
  BY <1>1, RequestInvariant, PTL

(* Whatever requests race in Next, the least-request balancer keeps to the *)
(* shares of the weights and the round robin uses no drained server, for   *)
(* any weights and any number of requests (load_balance.go:80-124,         *)
(* 162-192).                                                               *)
THEOREM RequestWeightsRespected == Spec => []WeightsRespected
<1>1. RequestInv => WeightsRespected
  BY DEF RequestInv, LBInv
<1>2. QED
  BY <1>1, RequestInvariant, PTL

-----------------------------------------------------------------------------
(* The phase of a request at each place.                                   *)
LEMMA PhaseFacts ==
  ASSUME NEW r
  PROVE  /\ pc[r] \in {"new", "auth", "parse"} => PhaseOf(r) = "waiting"
         /\ pc[r] = "upstream" => PhaseOf(r) = "calling"
         /\ pc[r] = "done" => PhaseOf(r) = "answered"
         /\ pc[r] \in {"returned", "respond"} =>
              PhaseOf(r) = IF result[r].err = NoError THEN "served" ELSE "failed"
         /\ pc[r] \in {"select", "store", "attempt"} /\ Unserved(r) =>
              PhaseOf(r) = "admitted"
BY DEF PhaseOf, Unserved, Routed

(* The same after a step.                                                  *)
LEMMA NextPhaseFacts ==
  ASSUME NEW r
  PROVE  /\ pc'[r] \in {"new", "auth", "parse"} => PhaseOf(r)' = "waiting"
         /\ pc'[r] = "upstream" => PhaseOf(r)' = "calling"
         /\ pc'[r] = "done" => PhaseOf(r)' = "answered"
         /\ pc'[r] \in {"returned", "respond"} =>
              PhaseOf(r)' = IF result'[r].err = NoError THEN "served" ELSE "failed"
         /\ pc'[r] \in {"select", "store", "attempt"} /\ Unserved(r)' =>
              PhaseOf(r)' = "admitted"
<1>1. NoError' = NoError
  BY DEF NoError, LLMError
<1>2. QED
  BY <1>1 DEF PhaseOf, Unserved, Routed

(* A request that moves moves its own phase.                               *)
LEMMA PhaseMoves ==
  ASSUME NEW r \in Requests, Alone(r), reports'[r] = reports[r], NEW from, NEW to,
         PhaseOf(r) \in from, PhaseOf(r)' \in to
  PROVE  Abstract!Moves(r, from, to)
<1> DEFINE phase == [q \in Requests |-> PhaseOf(q)]
           later == [q \in Requests |-> PhaseOf(q)']
           billed == [q \in Requests |-> reports[q] # <<>>]
           after == [q \in Requests |-> reports'[q] # <<>>]
           p == PhaseOf(r)'
<1>1. \A q \in Requests \ {r} : PhaseOf(q)' = PhaseOf(q) /\ reports'[q] = reports[q]
  BY DEF Alone, Same, PhaseOf
<1>2. phase[r] \in from
  OBVIOUS
<1>3. after = billed
  BY <1>1
<1>4. \A q \in Requests : later[q] = [phase EXCEPT ![r] = p][q]
  BY <1>1
<1>5. later = [phase EXCEPT ![r] = p]
  BY <1>4
<1>6. QED
  BY <1>2, <1>3, <1>5 DEF Abstract!Moves

(* A request that stays in its phase is a step of nobody.                  *)
LEMMA PhaseStays ==
  ASSUME NEW r \in Requests, Alone(r), reports'[r] = reports[r],
         PhaseOf(r)' = PhaseOf(r)
  PROVE  UNCHANGED Abstract!gatewayVars
<1>1. \A q \in Requests : PhaseOf(q)' = PhaseOf(q) /\ reports'[q] = reports[q]
  BY DEF Alone, Same, PhaseOf
<1>2. [q \in Requests |-> PhaseOf(q)]' = [q \in Requests |-> PhaseOf(q)]
  BY <1>1
<1>3. [q \in Requests |-> reports[q] # <<>>]' = [q \in Requests |-> reports[q] # <<>>]
  BY <1>1
<1>4. QED
  BY <1>2, <1>3 DEF Abstract!gatewayVars

(* A step of the gateway that is promised, or none.                        *)
GatewayStep == Abstract!GatewayNext \/ UNCHANGED Abstract!gatewayVars

(* A request nobody has admitted is admitted, answered locally, or waits.  *)
LEMMA WaitingSteps ==
  ASSUME NEW r \in Requests, Alone(r), reports'[r] = reports[r],
         pc[r] \in {"new", "auth", "parse"}, Unserved(r)',
         pc'[r] \in {"auth", "parse", "returned", "done", "select"}
  PROVE  GatewayStep
<1>1. PhaseOf(r) = "waiting"
  BY PhaseFacts
<1>2. CASE pc'[r] \in {"auth", "parse"}
  <2>1. PhaseOf(r)' = PhaseOf(r)
    BY <1>1, <1>2, NextPhaseFacts
  <2>2. QED
    BY <2>1, PhaseStays DEF GatewayStep
<1>3. CASE pc'[r] \in {"returned", "done"}
  <2>1. PhaseOf(r)' \in {"served", "failed", "answered"}
    BY <1>3, NextPhaseFacts
  <2>2. Abstract!Moves(r, {"waiting"}, {"served", "failed", "answered"})
    BY <1>1, <2>1, PhaseMoves
  <2>3. QED
    BY <2>2 DEF GatewayStep, Abstract!GatewayNext, Abstract!Local
<1>4. CASE pc'[r] = "select"
  <2>1. PhaseOf(r)' \in {"admitted"}
    BY <1>4, NextPhaseFacts
  <2>2. Abstract!Moves(r, {"waiting"}, {"admitted"})
    BY <1>1, <2>1, PhaseMoves
  <2>3. QED
    BY <2>2 DEF GatewayStep, Abstract!GatewayNext, Abstract!Admit
<1>5. QED
  BY <1>2, <1>3, <1>4

(* An admitted request calls, gives up, or stays admitted.                 *)
LEMMA AdmittedSteps ==
  ASSUME NEW r \in Requests, Alone(r), reports'[r] = reports[r], Unserved(r),
         pc[r] \in {"select", "store", "attempt"}, Unserved(r)',
         pc'[r] \in {"select", "store", "attempt", "upstream", "done", "returned"},
         pc'[r] = "returned" => result'[r].err # NoError
  PROVE  GatewayStep
<1>1. PhaseOf(r) = "admitted"
  BY PhaseFacts
<1>2. CASE pc'[r] \in {"select", "store", "attempt"}
  <2>1. PhaseOf(r)' = PhaseOf(r)
    BY <1>1, <1>2, NextPhaseFacts
  <2>2. QED
    BY <2>1, PhaseStays DEF GatewayStep
<1>3. CASE pc'[r] \in {"returned", "done"}
  <2>1. PhaseOf(r)' \in {"failed", "answered"}
    BY <1>3, NextPhaseFacts
  <2>2. Abstract!Moves(r, {"admitted", "calling"}, {"failed", "answered"})
    BY <1>1, <2>1, PhaseMoves
  <2>3. QED
    BY <2>2 DEF GatewayStep, Abstract!GatewayNext, Abstract!GiveUp
<1>4. CASE pc'[r] = "upstream"
  <2>1. PhaseOf(r)' \in {"calling"}
    BY <1>4, NextPhaseFacts
  <2>2. Abstract!Moves(r, {"admitted"}, {"calling"})
    BY <1>1, <2>1, PhaseMoves
  <2>3. QED
    BY <2>2 DEF GatewayStep, Abstract!GatewayNext, Abstract!Call
<1>5. QED
  BY <1>2, <1>3, <1>4

(* A call serves the request, is given up, or is tried again.              *)
LEMMA CallingSteps ==
  ASSUME NEW r \in Requests, Alone(r), reports'[r] = reports[r],
         pc[r] = "upstream", Unserved(r)', pc'[r] \in {"select", "returned"}
  PROVE  GatewayStep
<1>1. PhaseOf(r) = "calling"
  BY PhaseFacts
<1>2. CASE pc'[r] = "select"
  <2>1. PhaseOf(r)' \in {"admitted"}
    BY <1>2, NextPhaseFacts
  <2>2. Abstract!Moves(r, {"calling"}, {"admitted"})
    BY <1>1, <2>1, PhaseMoves
  <2>3. QED
    BY <2>2 DEF GatewayStep, Abstract!GatewayNext, Abstract!Retry
<1>3. CASE pc'[r] = "returned" /\ result'[r].err = NoError
  <2>1. PhaseOf(r)' \in {"served"}
    BY <1>3, NextPhaseFacts
  <2>2. Abstract!Moves(r, {"calling"}, {"served"})
    BY <1>1, <2>1, PhaseMoves
  <2>3. QED
    BY <2>2 DEF GatewayStep, Abstract!GatewayNext, Abstract!Serve
<1>4. CASE pc'[r] = "returned" /\ result'[r].err # NoError
  <2>1. PhaseOf(r)' \in {"failed", "answered"}
    BY <1>4, NextPhaseFacts
  <2>2. Abstract!Moves(r, {"admitted", "calling"}, {"failed", "answered"})
    BY <1>1, <2>1, PhaseMoves
  <2>3. QED
    BY <2>2 DEF GatewayStep, Abstract!GatewayNext, Abstract!GiveUp
<1>5. QED
  BY <1>2, <1>3, <1>4

(* The bill comes between the last call and the answer, and once.          *)
LEMMA BillingStep ==
  ASSUME NEW r \in Requests, RequestInv, RequestInv', Alone(r), OnCompletionResponse(r)
  PROVE  GatewayStep
<1>1. Domains /\ Placed(r)
  BY DEF RequestInv, RequestOK
<1>2. pc[r] = "returned" /\ result'[r] = result[r] /\ pc'[r] = "respond"
      /\ reports[r] = <<>>
  BY <1>1 DEF OnCompletionResponse, Goto, Domains, Placed
<1>3. PhaseOf(r)' = PhaseOf(r) /\ PhaseOf(r) \in {"served", "failed"}
  BY <1>2, PhaseFacts, NextPhaseFacts
<1>4. CASE reports'[r] = reports[r]
  BY <1>3, <1>4, PhaseStays DEF GatewayStep
<1>5. CASE reports'[r] # reports[r]
  <2> DEFINE phase == [q \in Requests |-> PhaseOf(q)]
             billed == [q \in Requests |-> reports[q] # <<>>]
             after == [q \in Requests |-> reports'[q] # <<>>]
  <2>1. \A q \in Requests \ {r} : PhaseOf(q)' = PhaseOf(q) /\ reports'[q] = reports[q]
    BY DEF Alone, Same, PhaseOf
  <2>2. phase[r] \in {"served", "failed"} /\ ~billed[r]
    BY <1>2, <1>3
  <2>3. [q \in Requests |-> PhaseOf(q)'] = phase
    BY <1>3, <2>1
  <2>4. \A q \in Requests : after[q] = IF q = r THEN TRUE ELSE billed[q]
    BY <1>2, <1>5, <2>1
  <2>5. after = [billed EXCEPT ![r] = TRUE]
    BY <2>4
  <2>6. Abstract!Bill(r)
    BY <2>2, <2>3, <2>5 DEF Abstract!Bill
  <2>7. QED
    BY <2>6 DEF GatewayStep, Abstract!GatewayNext
<1>6. QED
  BY <1>4, <1>5

(* The response handler answers a request that was served or has failed.   *)
LEMMA AnsweringStep ==
  ASSUME NEW r \in Requests, RequestInv, Alone(r), Respond(r)
  PROVE  GatewayStep
<1>1. pc[r] = "respond" /\ pc'[r] = "done" /\ reports'[r] = reports[r]
  BY DEF Respond, Goto, RequestInv, Domains
<1>2. PhaseOf(r) \in {"served", "failed"} /\ PhaseOf(r)' \in {"answered"}
  BY <1>1, PhaseFacts, NextPhaseFacts
<1>3. Abstract!Moves(r, {"served", "failed"}, {"answered"})
  BY <1>1, <1>2, PhaseMoves
<1>4. QED
  BY <1>3 DEF GatewayStep, Abstract!GatewayNext, Abstract!Answer

(* Every step of a request is one the gateway promises, or none.           *)
LEMMA GatewaySteps ==
  ASSUME NEW r \in Requests, RequestInv,
         Receive(r) \/ Step(r) \/ UpstreamAnswers(r) \/ Cancel(r)
  PROVE  GatewayStep
<1>1. Domains /\ Unserved(r) /\ pc[r] \in Places
  BY DEF RequestInv, RequestOK, Placed
<1>2. RequestInv' /\ Alone(r)
  BY ReceiveKeeps, OnRequestPreKeeps, ListModelsKeeps, MatchRouteKeeps,
     SelectClusterKeeps, StoreClusterKeeps, ClusterGoneKeeps, HandleRequestKeeps,
     UpstreamAnswersKeeps, OnCompletionResponseKeeps, RespondKeeps, CancelKeeps DEF Step
<1>3. Unserved(r)'
  BY <1>2 DEF RequestInv, RequestOK
<1>4. CASE Receive(r)
  <2>1. /\ pc[r] = "new" /\ reports'[r] = reports[r]
        /\ pc'[r] \in {"done", "returned", "auth"}
    BY <1>1, <1>4 DEF Receive, Return, Goto, Domains
  <2>2. QED
    BY <1>2, <1>3, <2>1, WaitingSteps
<1>5. CASE OnRequestPre(r)
  <2>1. \/ Goto(r, "parse") \/ Goto(r, "returned")
    BY <1>5 DEF OnRequestPre, Return
  <2>2. pc[r] = "auth" /\ reports'[r] = reports[r] /\ pc'[r] \in {"parse", "returned"}
    BY <1>1, <1>5, <2>1 DEF OnRequestPre, Goto, Domains
  <2>3. QED
    BY <1>2, <1>3, <2>2, WaitingSteps
<1>6. CASE ListModels(r)
  <2>1. Goto(r, "returned")
    BY <1>6 DEF ListModels, Return
  <2>2. pc[r] = "parse" /\ reports'[r] = reports[r] /\ pc'[r] = "returned"
    BY <1>1, <1>6, <2>1 DEF ListModels, Goto, Domains
  <2>3. QED
    BY <1>2, <1>3, <2>2, WaitingSteps
<1>7. CASE MatchRoute(r)
  <2>1. Goto(r, "select") \/ Goto(r, "returned")
    BY <1>7 DEF MatchRoute, Return
  <2>2. pc[r] = "parse" /\ reports'[r] = reports[r] /\ pc'[r] \in {"select", "returned"}
    BY <1>1, <1>7, <2>1 DEF MatchRoute, Goto, Domains
  <2>3. QED
    BY <1>2, <1>3, <2>2, WaitingSteps
<1>8. CASE SelectCluster(r) \/ StoreCluster(r)
  <2>1. Goto(r, "done") \/ Goto(r, "attempt") \/ Goto(r, "store")
    BY <1>8 DEF SelectCluster, StoreCluster, Recover
  <2>2. /\ pc[r] \in {"select", "store"} /\ reports'[r] = reports[r]
        /\ pc'[r] \in {"done", "attempt", "store"}
    BY <1>1, <1>8, <2>1 DEF SelectCluster, StoreCluster, Goto, Domains
  <2>3. QED
    BY <1>1, <1>2, <1>3, <2>2, AdmittedSteps
<1>9. ASSUME NEW e, e # NoError, AfterAttempt(r, Failed(e))
      PROVE  /\ pc'[r] \in {"select", "returned"} /\ result'[r].err # NoError
  <2> DEFINE res == Failed(e)
  <2>1. AfterAttempt(r, res) /\ res.err = e
    BY <1>9, FailedFacts
  <2> HIDE DEF res
  <2>2. result'[r] = res /\ pc'[r] \in {"select", "returned"}
    BY <1>1, <2>1 DEF AfterAttempt, Goto, Domains
  <2>3. QED
    BY <1>9, <2>1, <2>2
<1>10. CASE ClusterGone(r)
  <2>1. /\ pc[r] = "attempt" /\ reports'[r] = reports[r]
        /\ AfterAttempt(r, Failed(ErrorModelNotFoundOrNotAccessible))
    BY <1>10 DEF ClusterGone
  <2>2. ErrorModelNotFoundOrNotAccessible # NoError
    BY ErrorsAreErrors
  <2>3. pc'[r] \in {"select", "returned"} /\ result'[r].err # NoError
    BY <1>9, <2>1, <2>2
  <2>4. QED
    BY <1>1, <1>2, <1>3, <2>1, <2>3, AdmittedSteps
<1>11. CASE HandleRequest(r)
  <2>1. pc[r] = "attempt" /\ reports'[r] = reports[r]
    BY <1>11 DEF HandleRequest
  <2>2. \/ Goto(r, "done") \/ Goto(r, "upstream")
        \/ \E e : AfterAttempt(r, Failed(LLMErrorOrInternalError(e)))
    BY <1>11 DEF HandleRequest, Recover
  <2>3. CASE Goto(r, "done") \/ Goto(r, "upstream")
    <3>1. pc'[r] \in {"done", "upstream"}
      BY <1>1, <2>3 DEF Goto, Domains
    <3>2. QED
      BY <1>1, <1>2, <1>3, <2>1, <3>1, AdmittedSteps
  <2>4. CASE \E e : AfterAttempt(r, Failed(LLMErrorOrInternalError(e)))
    <3>1. PICK e : AfterAttempt(r, Failed(LLMErrorOrInternalError(e)))
      BY <2>4
    <3> DEFINE f == LLMErrorOrInternalError(e)
    <3>2. f # NoError
      BY ErrorsAreErrors
    <3>3. AfterAttempt(r, Failed(f))
      BY <3>1
    <3> HIDE DEF f
    <3>4. pc'[r] \in {"select", "returned"} /\ result'[r].err # NoError
      BY <1>9, <3>2, <3>3
    <3>5. QED
      BY <1>1, <1>2, <1>3, <2>1, <3>4, AdmittedSteps
  <2>5. QED
    BY <2>2, <2>3, <2>4
<1>12. CASE UpstreamAnswers(r)
  <2>1. PICK res : AfterAttempt(r, res)
    BY <1>12 DEF UpstreamAnswers
  <2>2. pc[r] = "upstream" /\ reports'[r] = reports[r]
    BY <1>12 DEF UpstreamAnswers
  <2>3. pc'[r] \in {"select", "returned"}
    BY <1>1, <2>1 DEF AfterAttempt, Goto, Domains
  <2>4. QED
    BY <1>2, <1>3, <2>2, <2>3, CallingSteps
<1>13. CASE OnCompletionResponse(r)
  BY <1>2, <1>13, BillingStep
<1>14. CASE Respond(r)
  BY <1>2, <1>14, AnsweringStep
<1>15. CASE Cancel(r)
  <2>1. pc' = pc /\ result' = result /\ reports' = reports
    BY <1>15 DEF Cancel
  <2>2. PhaseOf(r)' = PhaseOf(r)
    BY <2>1 DEF PhaseOf
  <2>3. QED
    BY <1>2, <2>1, <2>2, PhaseStays DEF GatewayStep
<1>16. QED
  BY <1>4, <1>5, <1>6, <1>7, <1>8, <1>10, <1>11, <1>12, <1>13, <1>14, <1>15 DEF Step

(* The request path implements the promise of Gateway: one upstream call   *)
(* at a time, none after a request is served, one bill between the last    *)
(* call and the answer, one answer (route.go:114-196,                      *)
(* listener/common.go:51-79).                                              *)
THEOREM RequestImplementsGateway == Spec => ImplementsGateway
<1>1. Init => Abstract!GatewayInit
  <2> SUFFICES ASSUME Init PROVE Abstract!GatewayInit
    OBVIOUS
  <2>1. \A r \in Requests : pc[r] = "new" /\ reports[r] = <<>>
    BY DEF Init
  <2>2. \A r \in Requests : PhaseOf(r) = "waiting" /\ (reports[r] # <<>>) = FALSE
    BY <2>1, PhaseFacts
  <2>3. QED
    BY <2>2 DEF Abstract!GatewayInit
<1>2. RequestInv /\ [Next]_vars => [Abstract!GatewayNext]_(Abstract!gatewayVars)
  <2> SUFFICES ASSUME RequestInv, [Next]_vars PROVE GatewayStep
    BY DEF GatewayStep
  <2>1. CASE Next
    BY <2>1, GatewaySteps DEF Next
  <2>2. CASE UNCHANGED vars
    <3>1. pc' = pc /\ result' = result /\ reports' = reports
      BY <2>2 DEF vars, perRequest
    <3>2. [q \in Requests |-> PhaseOf(q)]' = [q \in Requests |-> PhaseOf(q)]
      BY <3>1 DEF PhaseOf
    <3>3. [q \in Requests |-> reports[q] # <<>>]' = [q \in Requests |-> reports[q] # <<>>]
      BY <3>1
    <3>4. QED
      BY <3>2, <3>3 DEF GatewayStep, Abstract!gatewayVars
  <2>3. QED
    BY <2>1, <2>2
<1>3. QED
  BY <1>1, <1>2, RequestInvariant, PTL DEF Spec, ImplementsGateway, Abstract!GatewaySpec
=============================================================================
