----------------------- MODULE RedisRateLimiterProofs -----------------------
(***************************************************************************)
(* Proofs about RedisRateLimiter, for any callers, skews, limits and       *)
(* window: the two bounds hold however the readings are reordered.         *)
(***************************************************************************)
EXTENDS RedisRateLimiter, TLAPS

(* A bucket is never fuller than the capacity it is stored with: the cap   *)
(* of the refill, which a reset on a new limit carries along.              *)
TokensCapped == exists => state.tokens <= state.limit * Window

(* The readings of a live bucket do not run past the latest one, and what  *)
(* is stored was stored with the capacity it is charged at.                *)
RedisInv ==
  /\ TypeOK
  /\ exists => state.last_update <= latest
  /\ TokensCapped
  /\ AdmissionBound
  /\ DebtBound

(* Time intervals credited one after the other add up to the whole, also   *)
(* when one of them is negative.                                           *)
LEMMA Telescope ==
  ASSUME NEW a \in Int, NEW b \in Int, NEW c \in Int, NEW L \in Int
  PROVE  (b - a) * L + (c - b) * L = (c - a) * L
OBVIOUS

(* One more request at cost u.                                             *)
LEMMA OneMore ==
  ASSUME NEW u \in Int, NEW g \in Int
  PROVE  u * (g + 1) = u * g + u
OBVIOUS

(* One script call on plain integers: T tokens, last reading l, birth b,   *)
(* latest reading m, G granted at cost u each, capacity c, window w; the   *)
(* call's reading n, the latest reading m2 after it, the refilled T1.      *)
Before(T, l, b, m, G, u, c, w, n, m2, T1) ==
  /\ T \in Int /\ l \in Int /\ b \in Int /\ m \in Int /\ G \in Int /\ u \in Int
  /\ c \in Int /\ w \in Int /\ n \in Int /\ m2 \in Int /\ T1 \in Int
  /\ u >= 0 /\ c >= 0 /\ c * w >= 0
  /\ u * G + T <= c * w + (l - b) * c
  /\ T + (m - l) * c >= 0
  /\ m2 >= m /\ m2 >= n
  /\ T1 = MinOf(c * w, T + (n - l) * c)

(* The two bounds after it, whether the request is refused or allowed.     *)
After(T, l, b, m, G, u, c, w, n, m2, T1) ==
  /\ u * G + T1 <= c * w + (n - b) * c
  /\ T1 + (m2 - n) * c >= 0
  /\ T1 >= u => /\ u * (G + 1) + (T1 - u) <= c * w + (n - b) * c
                /\ (T1 - u) + (m2 - n) * c >= 0

(* A script call preserves both bounds.                                    *)
LEMMA StepBounds ==
  ASSUME NEW T, NEW l, NEW b, NEW m, NEW G, NEW u, NEW c, NEW w, NEW n, NEW m2, NEW T1,
         Before(T, l, b, m, G, u, c, w, n, m2, T1)
  PROVE  After(T, l, b, m, G, u, c, w, n, m2, T1)
<1> USE DEF Before, After
<1> DEFINE x == (l - b) * c
           y == (n - l) * c
           z == (n - b) * c
           d == (m - l) * c
           e == (m2 - n) * c
           f == (m2 - m) * c
           cw == c * w
           uG == u * G
<1>1. x \in Int /\ y \in Int /\ z \in Int /\ d \in Int /\ e \in Int /\ f \in Int
      /\ cw \in Int /\ uG \in Int
  OBVIOUS
<1>2. x + y = z
  BY Telescope
<1>3. e >= 0 /\ f >= 0
  OBVIOUS
<1>4. y + e = d + f
  <2>1. y + e = (m2 - l) * c
    BY Telescope
  <2>2. d + f = (m2 - l) * c
    BY Telescope
  <2>3. QED
    BY <2>1, <2>2
<1>5. T1 <= T + y /\ T1 <= cw /\ (T1 = T + y \/ T1 = cw)
  BY DEF MinOf
<1>6. uG + T1 <= cw + z
  <2> HIDE DEF x, y, z, d, e, f, cw, uG
  <2>1. uG + T <= cw + x
    BY DEF x, cw, uG
  <2>2. QED
    BY <1>1, <1>2, <1>5, <2>1
<1>7. T1 + e >= 0
  <2>1. T + d >= 0
    OBVIOUS
  <2>2. cw >= 0
    OBVIOUS
  <2> HIDE DEF x, y, z, d, e, f, cw, uG
  <2>3. QED
    BY <1>1, <1>3, <1>4, <1>5, <2>1, <2>2
<1>8. u * (G + 1) = uG + u
  BY OneMore
<1> HIDE DEF x, y, z, d, e, f, cw, uG
<1>9. ASSUME T1 >= u PROVE (T1 - u) + e >= 0 /\ (uG + u) + (T1 - u) <= cw + z
  BY <1>1, <1>3, <1>6, <1>9
<1>10. QED
  BY <1>6, <1>7, <1>8, <1>9 DEF z, e, cw, uG

(* The inductive invariant holds in every reachable state.                 *)
THEOREM RedisInvariant == Spec => []RedisInv
<1> USE ConstantsAssumption
<1>1. Init => RedisInv
  <2> SUFFICES ASSUME Init PROVE RedisInv
    OBVIOUS
  <2>1. Idle \in [pc : {"idle", "sent", "ok", "limited", "error"}, now : Nat, limit : Nat]
        /\ Idle.pc = "idle"
    BY DEF Idle
  <2>2. call \in [Callers -> [pc : {"idle", "sent", "ok", "limited", "error"},
                              now : Nat, limit : Nat]]
        /\ \A c \in Callers : call[c].pc # "sent"
    BY <2>1 DEF Init
  <2>3. exists = FALSE
    BY DEF Init
  <2>4. TypeOK
    <3>1. exists \in BOOLEAN
      BY <2>3
    <3>2. \A c \in Callers : call[c].pc = "sent" => call[c].limit > 0
      BY <2>2
    <3>3. limit \in [Callers -> Limits]
      BY DEF Init
    <3>4. state \in [tokens : Int, last_update : Nat, limit : Nat]
      BY DEF Init
    <3>5. clock \in Nat /\ expireAt \in Nat /\ birth \in Nat /\ granted \in Nat /\ latest \in Nat
      BY DEF Init
    <3>6. QED
      BY <2>2, <3>1, <3>2, <3>3, <3>4, <3>5 DEF TypeOK
  <2>5. QED
    BY <2>3, <2>4 DEF RedisInv, TokensCapped, AdmissionBound, DebtBound
<1>2. RedisInv /\ [Next]_vars => RedisInv'
  <2> SUFFICES ASSUME RedisInv, [Next]_vars PROVE RedisInv'
    OBVIOUS
  <2> USE DEF RedisInv
  <2>1. ASSUME NEW c \in Callers, Send(c) PROVE RedisInv'
    <3> limit[c] \in Limits
      BY DEF TypeOK
    <3> limit[c] \in Nat \ {0}
      OBVIOUS
    <3>1. clock + Skew[c] \in Nat /\ limit[c] \in Nat /\ limit[c] > 0
      BY DEF TypeOK
    <3>2. call' \in [Callers -> [pc : {"idle", "sent", "ok", "limited", "error"},
                                 now : Nat, limit : Nat]]
          /\ \A x \in Callers : call'[x].pc = "sent" => call'[x].limit > 0
      BY <2>1, <3>1 DEF Send, TypeOK
    <3>3. QED
      BY <2>1, <3>2 DEF Send, TypeOK, TokensCapped, AdmissionBound, DebtBound
  <2>2. ASSUME NEW c \in Callers, Script(c) PROVE RedisInv'
    <3> DEFINE n     == call[c].now
               cap   == call[c].limit * Precision
               fresh == ~Live \/ state.limit # cap
               st0   == IF fresh THEN init_bucket(cap, n) ELSE state
               st    == refill(st0, cap, n)
               u     == Precision * Window
    <3>1. n \in Nat /\ cap \in Nat /\ u \in Nat /\ cap * Window \in Nat
      BY <2>2 DEF Script, TypeOK
    <3>2. st0 \in [tokens : Int, last_update : Nat, limit : Nat]
      BY <3>1 DEF init_bucket, TypeOK
    <3>3. /\ st.tokens = MinOf(cap * Window, st0.tokens + (n - st0.last_update) * cap)
          /\ st.last_update = n /\ st.limit = cap
          /\ st \in [tokens : Int, last_update : Nat, limit : Nat]
      BY <3>1, <3>2 DEF refill, MinOf
    <3>4. /\ exists' = TRUE
          /\ state' = consume(st)
          /\ birth' = IF fresh THEN n ELSE birth
          /\ granted' = (IF fresh THEN 0 ELSE granted) + (IF allowed(st) THEN 1 ELSE 0)
          /\ latest' = IF fresh THEN n ELSE MaxOf(latest, n)
          /\ expireAt' = clock + script_ttl
          /\ clock' = clock /\ limit' = limit
      BY <2>2 DEF Script
    <3> HIDE DEF st
    <3>5. /\ state'.tokens = IF st.tokens >= u THEN st.tokens - u ELSE st.tokens
          /\ state'.last_update = n /\ state'.limit = cap
          /\ state' \in [tokens : Int, last_update : Nat, limit : Nat]
      BY <3>1, <3>3, <3>4 DEF consume, allowed
    <3>6. birth' \in Nat /\ latest' \in Nat /\ granted' \in Nat /\ n <= latest'
      BY <3>1, <3>4 DEF TypeOK, MaxOf
    <3>7. granted' = (IF fresh THEN 0 ELSE granted) + (IF st.tokens >= u THEN 1 ELSE 0)
      BY <3>4 DEF allowed
    <3>8. AdmissionBound' /\ DebtBound'
      <4>0. SUFFICES /\ u * granted' + state'.tokens <= cap * Window + (n - birth') * cap
                     /\ state'.tokens + (latest' - n) * cap >= 0
        BY <3>5 DEF AdmissionBound, DebtBound
      <4>1. CASE fresh
        <5>1. st.tokens = cap * Window /\ birth' = n /\ latest' = n
          BY <4>1, <3>1, <3>3, <3>4 DEF init_bucket, MinOf
        <5>2. u * 1 = u /\ u * 0 = 0 /\ (n - n) * cap = 0
          BY <3>1
        <5> HIDE DEF n, cap, u, fresh, st0
        <5>3. granted' = IF st.tokens >= u THEN 1 ELSE 0
          BY <4>1, <3>7
        <5>4. CASE st.tokens >= u
          <6>1. granted' = 1 /\ state'.tokens = cap * Window - u
            BY <5>1, <5>3, <5>4, <3>5
          <6>2. QED
            BY <5>1, <5>2, <5>4, <6>1, <3>1
        <5>5. CASE ~(st.tokens >= u)
          <6>1. granted' = 0 /\ state'.tokens = cap * Window
            BY <5>1, <5>3, <5>5, <3>5
          <6>2. QED
            BY <5>1, <5>2, <6>1, <3>1
        <5>6. QED
          BY <5>4, <5>5
      <4>2. CASE ~fresh
        <5>1. exists /\ state.limit = cap /\ st0 = state
          BY <4>2 DEF Live
        <5>2. /\ u * granted + state.tokens <= cap * Window + (state.last_update - birth) * cap
              /\ state.tokens + (latest - state.last_update) * cap >= 0
          BY <5>1 DEF AdmissionBound, DebtBound
        <5>3. birth' = birth /\ latest' >= latest /\ latest' >= n
          BY <4>2, <3>1, <3>4 DEF MaxOf, TypeOK
        <5>4. st.tokens = MinOf(cap * Window, state.tokens + (n - state.last_update) * cap)
          BY <3>3, <5>1
        <5>5. /\ state.tokens \in Int /\ state.last_update \in Int /\ birth \in Int
              /\ latest \in Int /\ granted \in Int /\ latest' \in Int /\ st.tokens \in Int
              /\ n \in Int /\ cap \in Int /\ u \in Int /\ Window \in Int
              /\ u >= 0 /\ cap >= 0 /\ cap * Window >= 0
          BY <3>1, <3>3, <3>6 DEF TypeOK
        <5>6. /\ u * granted + st.tokens <= cap * Window + (n - birth) * cap
              /\ st.tokens + (latest' - n) * cap >= 0
              /\ st.tokens >= u => /\ u * (granted + 1) + (st.tokens - u)
                                        <= cap * Window + (n - birth) * cap
                                   /\ (st.tokens - u) + (latest' - n) * cap >= 0
          <6> HIDE DEF n, cap, u, fresh, st0
          <6>1. Before(state.tokens, state.last_update, birth, latest, granted, u, cap,
                       Window, n, latest', st.tokens)
            BY <5>2, <5>3, <5>4, <5>5 DEF Before
          <6>2. After(state.tokens, state.last_update, birth, latest, granted, u, cap,
                      Window, n, latest', st.tokens)
            BY <6>1, StepBounds
          <6>3. QED
            BY <6>2 DEF After
        <5>7. granted' = granted + (IF st.tokens >= u THEN 1 ELSE 0)
          BY <4>2, <3>7
        <5> HIDE DEF n, cap, u, fresh, st0
        <5>8. CASE st.tokens >= u
          <6>1. granted' = granted + 1 /\ state'.tokens = st.tokens - u
            BY <5>7, <5>8, <3>5
          <6>2. QED
            BY <5>3, <5>6, <5>8, <6>1
        <5>9. CASE ~(st.tokens >= u)
          <6>1. granted' = granted /\ state'.tokens = st.tokens
            BY <5>5, <5>7, <5>9, <3>5
          <6>2. QED
            BY <5>3, <5>6, <6>1
        <5>10. QED
          BY <5>8, <5>9
      <4>3. QED
        BY <4>1, <4>2
    <3>9. TypeOK'
      <4>1. expireAt' \in Nat
        BY <3>4 DEF script_ttl, MaxOf, TypeOK
      <4>2. call' \in [Callers -> [pc : {"idle", "sent", "ok", "limited", "error"},
                                   now : Nat, limit : Nat]]
            /\ \A x \in Callers : call'[x].pc = "sent" => call'[x].limit > 0
        BY <2>2 DEF Script, TypeOK, Idle
      <4>3. QED
        BY <4>1, <4>2, <3>4, <3>5, <3>6 DEF TypeOK
    <3>10. TokensCapped'
      <4>1. st.tokens <= cap * Window
        BY <3>1, <3>2, <3>3 DEF MinOf
      <4>2. st.tokens \in Int
        BY <3>3
      <4> HIDE DEF n, cap, u, fresh, st0
      <4>3. state'.tokens <= cap * Window
        BY <3>1, <3>5, <4>1, <4>2
      <4>4. QED
        BY <3>5, <4>3 DEF TokensCapped
    <3>11. QED
      BY <3>5, <3>6, <3>8, <3>9, <3>10
  <2>3. ASSUME NEW c \in Callers, LoseCommand(c) PROVE RedisInv'
    BY <2>3 DEF LoseCommand, Idle, TypeOK, TokensCapped, AdmissionBound, DebtBound
  <2>4. ASSUME NEW c \in Callers, Reconfigure(c) PROVE RedisInv'
    BY <2>4 DEF Reconfigure, TypeOK, TokensCapped, AdmissionBound, DebtBound
  <2>5. CASE Tick
    BY <2>5 DEF Tick, TypeOK, TokensCapped, AdmissionBound, DebtBound
  <2>6. CASE UNCHANGED vars
    BY <2>6 DEF vars, TypeOK, TokensCapped, AdmissionBound, DebtBound
  <2>7. QED
    BY <2>1, <2>2, <2>3, <2>4, <2>5, <2>6 DEF Next
<1>3. QED
  BY <1>1, <1>2, PTL DEF Spec

(* A shared bucket never admits more than its capacity and the refill of   *)
(* the time its readings span.                                             *)
THEOREM RedisAdmissionBound == Spec => []AdmissionBound
<1>1. RedisInv => AdmissionBound
  BY DEF RedisInv
<1>2. QED
  BY <1>1, RedisInvariant, PTL

(* The debt a slow clock causes is bounded by how far it is behind.        *)
THEOREM RedisDebtBound == Spec => []DebtBound
<1>1. RedisInv => DebtBound
  BY DEF RedisInv
<1>2. QED
  BY <1>1, RedisInvariant, PTL

(* The tokens of a bucket lie between the deepest debt its readings allow  *)
(* and its capacity: refill never overfills it, also after negative        *)
(* elapsed time, a limit changed during a rollout, or a key that ran out.  *)
THEOREM RedisTokensInRange ==
  Spec => [](exists => /\ 0 - (latest - state.last_update) * state.limit <= state.tokens
                       /\ state.tokens <= state.limit * Window)
<1>1. RedisInv => (exists => /\ 0 - (latest - state.last_update) * state.limit <= state.tokens
                             /\ state.tokens <= state.limit * Window)
  <2> SUFFICES ASSUME RedisInv, exists
               PROVE  /\ 0 - (latest - state.last_update) * state.limit <= state.tokens
                      /\ state.tokens <= state.limit * Window
    OBVIOUS
  <2> DEFINE d == (latest - state.last_update) * state.limit
  <2>1. d \in Int /\ state.tokens \in Int
    BY DEF RedisInv, TypeOK
  <2>2. state.tokens + d >= 0
    BY DEF RedisInv, DebtBound
  <2>3. state.tokens <= state.limit * Window
    BY DEF RedisInv, TokensCapped
  <2> HIDE DEF d
  <2>4. 0 - d <= state.tokens
    BY <2>1, <2>2
  <2>5. QED
    BY <2>3, <2>4 DEF d
<1>2. QED
  BY <1>1, RedisInvariant, PTL
============================================================================
