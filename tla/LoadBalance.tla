----------------------------- MODULE LoadBalance -----------------------------
(***************************************************************************)
(* The load balancers of a route.  Next reads the shared state of the      *)
(* balancer and writes it back in a later step without a lock, so requests *)
(* interleave between the two.  Servers are numbered from 1 in the order   *)
(* of the route's targets.  Nothing in the gateway calls Done, so a count  *)
(* never goes down.                                                        *)
(***************************************************************************)
EXTENDS Integers, Sequences, FiniteSets

CONSTANTS Requests,     \* the requests that call Next
          Balancers     \* the balancers a route may have: [policy, weights]

Policies == {"UNSPECIFIED", "ROUND_ROBIN", "LEAST_REQUEST"}

ASSUME BalancerAssumption ==
  /\ IsFiniteSet(Requests)
  /\ \A b \in Balancers : /\ b.policy \in Policies
                          /\ b.weights \in Seq(Nat)
                          /\ Len(b.weights) > 0

VARIABLES balancer,     \* the balancer of the route, fixed when it is built
          current,      \* WeightedRoundRobin.current, WeightedLeastRequest.current
          counts,       \* the requestCounter of each server
          picked        \* per request: the server Next found, 0 outside Next

lbVars == <<balancer, current, counts, picked>>

Servers == DOMAIN balancer.weights

LBInit ==
  /\ balancer \in Balancers
  /\ current = 1
  /\ counts = [s \in Servers |-> 0]
  /\ picked = [r \in Requests |-> 0]

-----------------------------------------------------------------------------
\* calculateTotalWeight of the n servers from the current one on.
WeightFrom(from, n) ==
  LET server(i) == ((from + i - 2) % Len(balancer.weights)) + 1
      total[i \in 0..Len(balancer.weights)] ==
        IF i = 0 THEN 0 ELSE total[i - 1] + balancer.weights[server(i)]
  IN  total[n]

TotalWeight == WeightFrom(1, Len(balancer.weights))

\* The server at which the running total first exceeds the random weight.
FoundServer(random) ==
  LET n     == Len(balancer.weights)
      first == CHOOSE i \in 1..n : /\ WeightFrom(current, i) > random
                                   /\ \A j \in 1..(i - 1) :
                                        WeightFrom(current, j) <= random
  IN  ((current + first - 2) % n) + 1

\* a.count / a.weight < b.count / b.weight on floats: a zero weight gives NaN
\* (never less, nothing less than it) or infinity.
RatioLess(a, b) ==
  LET wa == balancer.weights[a]
      wb == balancer.weights[b]
  IN  /\ wa > 0
      /\ IF wb = 0 THEN counts[b] > 0 ELSE counts[a] * wb < counts[b] * wa

RatioEqual(a, b) ==
  LET wa == balancer.weights[a]
      wb == balancer.weights[b]
  IN  IF wa = 0 \/ wb = 0
      THEN wa = 0 /\ wb = 0 /\ counts[a] > 0 /\ counts[b] > 0
      ELSE counts[a] * wb = counts[b] * wa

\* A scan that forgets the weights.
LeastLoadedUnweighted ==
  CHOOSE s \in Servers : \A t \in Servers : counts[s] <= counts[t]

\* The scan of WeightedLeastRequest.Next: the first of the least loaded ones,
\* a smaller count breaking ties.  The scan is one step here; the code loads the
\* counters one after the other.  Counters only grow, so a server chosen on an
\* older count is no further ahead of its share than WeightsRespected allows: of
\* the calls that chose it, all but one per caller were counted when the last of
\* them loaded its counter.
LeastLoaded ==
  LET scan[i \in Servers] ==
        IF i = 1 THEN 1
        ELSE IF \/ RatioLess(i, scan[i - 1])
                \/ RatioEqual(i, scan[i - 1]) /\ counts[i] < counts[scan[i - 1]]
             THEN i ELSE scan[i - 1]
  IN  scan[Len(balancer.weights)]

\* rand.Int panics when the total weight is zero.
NextPanics ==
  /\ balancer.policy = "ROUND_ROBIN"
  /\ Len(balancer.weights) > 1
  /\ TotalWeight = 0

\* A single target is returned without touching the balancer, and so is the
\* first one when the route names no policy.
NeedsNoBalancer ==
  balancer.policy = "UNSPECIFIED" \/ Len(balancer.weights) = 1

NextReads(r) ==
  /\ picked[r] = 0
  /\ ~NeedsNoBalancer /\ ~NextPanics
  /\ \/ /\ balancer.policy = "ROUND_ROBIN"
        /\ \E random \in 0..(TotalWeight - 1) :
             picked' = [picked EXCEPT ![r] = FoundServer(random)]
     \/ /\ balancer.policy = "LEAST_REQUEST"
        /\ picked' = [picked EXCEPT ![r] = LeastLoaded]
  /\ UNCHANGED <<balancer, current, counts>>

NextWrites(r) ==
  /\ picked[r] # 0
  /\ picked' = [picked EXCEPT ![r] = 0]
  /\ IF balancer.policy = "ROUND_ROBIN"
     THEN /\ current' = (picked[r] % Len(balancer.weights)) + 1
          /\ UNCHANGED counts
     ELSE /\ current' = picked[r]
          /\ counts' = [counts EXCEPT ![picked[r]] = @ + 1]
  /\ UNCHANGED balancer

-----------------------------------------------------------------------------

\* The requests that have chosen s and not yet counted themselves.
Choosing(s) == {r \in Requests : picked[r] = s}

\* However the callers of WeightedLeastRequest.Next interleave between reading
\* the counters and incrementing one, a server is never ahead of its share by
\* more than one request per caller (load_balance.go:162-192).
LeastRequestBalanced ==
  balancer.policy = "LEAST_REQUEST" =>
    \A s, t \in Servers :
      balancer.weights[s] > 0 /\ balancer.weights[t] > 0 =>
        (counts[s] + Cardinality(Choosing(s))) * balancer.weights[t]
          <= counts[t] * balancer.weights[s]
               + Cardinality(Requests) * balancer.weights[t]

\* A server of weight zero is drained: the round robin gives it no request,
\* whatever the position a racing caller left in current (load_balance.go:101).
DrainedServerUnused ==
  balancer.policy = "ROUND_ROBIN" =>
    \A r \in Requests : picked[r] # 0 => balancer.weights[picked[r]] > 0

\* Both balancers respect the weights of the targets whatever requests race in
\* Next: the least-request one keeps to the shares, the round robin to the
\* drained servers (load_balance.go:80-124, 162-192).
WeightsRespected == LeastRequestBalanced /\ DrainedServerUnused

=============================================================================
