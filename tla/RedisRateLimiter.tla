-------------------------- MODULE RedisRateLimiter --------------------------
(***************************************************************************)
(* The shared rate limiter (pkg/filters/ratelimit/redis.go): several       *)
(* gateway replicas run one Lua script on one key.  Redis runs a script    *)
(* atomically, but the time it works with is the caller's: each replica    *)
(* reads its own clock, which may be off by a constant skew, before the    *)
(* command travels, so readings arrive out of order and elapsed time can   *)
(* be negative.  During a rollout replicas may hold different limits.      *)
(*                                                                         *)
(* Keys do not interact, so one key is modelled.  Times are milliseconds.  *)
(* The script's fill_rate = capacity / window_ms is a fraction: tokens     *)
(* are kept here in units of 1/Window of the script's, which makes every   *)
(* value an integer without rounding.                                      *)
(***************************************************************************)
EXTENDS Integers

CONSTANTS
  Callers,    \* request handlers, each at one replica
  Skew,       \* Skew[c]: the replica clock's offset from Redis' own
  Limits,     \* the limits a replica may be configured with
  Window,     \* window_ms
  Precision,  \* ARGV[4]
  MinTTL,     \* the script's 300000
  MaxTime     \* bound on the model's clock

ASSUME ConstantsAssumption ==
  /\ Skew \in [Callers -> Nat]
  /\ Limits \subseteq Nat \ {0}
  /\ Window \in Nat \ {0}
  /\ Precision \in Nat \ {0}
  /\ MinTTL \in Nat \ {0}
  /\ MaxTime \in Nat

VARIABLES
  clock,    \* Redis' clock
  limit,    \* the limit of each caller's replica
  call,     \* each caller: idle, or with its command under way, or answered
  exists,   \* whether the key is in Redis (it may have run out meanwhile)
  state,    \* the key's hash: tokens, last_update, limit (the capacity)
  expireAt, \* when the key runs out, by Redis' clock
  birth,    \* history: the reading the bucket was initialised with
  granted,  \* history: requests this bucket allowed
  latest    \* history: the latest reading this bucket has seen

vars == <<clock, limit, call, exists, state, expireAt, birth, granted, latest>>

Idle == [pc |-> "idle", now |-> 0, limit |-> 0]

Init ==
  /\ clock = 0
  /\ limit \in [Callers -> Limits]
  /\ call = [c \in Callers |-> Idle]
  /\ exists = FALSE
  /\ state = [tokens |-> 0, last_update |-> 0, limit |-> 0]
  /\ expireAt = 0
  /\ birth = 0
  /\ granted = 0
  /\ latest = 0

(* checkBucketRedis up to the call: the clock is read, the command built.  *)
Send(c) ==
  /\ call[c].pc # "sent"
  /\ call' = [call EXCEPT ![c] = [pc |-> "sent", now |-> clock + Skew[c], limit |-> limit[c]]]
  /\ UNCHANGED <<clock, limit, exists, state, expireAt, birth, granted, latest>>

init_bucket(capacity, now) ==
  [tokens |-> capacity * Window, last_update |-> now, limit |-> capacity]

Live == exists /\ clock < expireAt

MaxOf(a, b) == IF a >= b THEN a ELSE b
MinOf(a, b) == IF a <= b THEN a ELSE b

script_ttl == MaxOf(MinTTL, 2 * Window)

(* Mutant of refill: negative elapsed time is not taken back.              *)
refill_forward(st, capacity, now) ==
  [tokens |-> MinOf(capacity * Window, st.tokens + MaxOf(0, now - st.last_update) * capacity),
   last_update |-> now, limit |-> capacity]

(* Mutant of refill: an old reading does not move last_update back.        *)
refill_monotone(st, capacity, now) ==
  [tokens |-> MinOf(capacity * Window, st.tokens + (now - st.last_update) * capacity),
   last_update |-> MaxOf(now, st.last_update), limit |-> capacity]

(* The hash after the refill, before a token is taken.                     *)
refill(st, capacity, now) ==
  [tokens |-> MinOf(capacity * Window, st.tokens + (now - st.last_update) * capacity),
   last_update |-> now, limit |-> capacity]

allowed(st) == st.tokens >= Precision * Window

consume(st) == IF allowed(st) THEN [st EXCEPT !.tokens = @ - Precision * Window] ELSE st

(* Redis runs the script of caller c's command, and answers; the answer    *)
(* may be lost, which the caller sees as an error (a failed request).      *)
Script(c) ==
  LET now      == call[c].now
      capacity == call[c].limit * Precision
      fresh    == ~Live \/ state.limit # capacity
      st       == refill(IF fresh THEN init_bucket(capacity, now) ELSE state, capacity, now)
  IN  /\ call[c].pc = "sent"
      /\ \E answer \in {IF allowed(st) THEN "ok" ELSE "limited", "error"} :
           call' = [call EXCEPT ![c] = [Idle EXCEPT !.pc = answer]]
      /\ exists' = TRUE
      /\ state' = consume(st)
      /\ expireAt' = clock + script_ttl
      /\ birth' = IF fresh THEN now ELSE birth
      /\ granted' = (IF fresh THEN 0 ELSE granted) + (IF allowed(st) THEN 1 ELSE 0)
      /\ latest' = IF fresh THEN now ELSE MaxOf(latest, now)
      /\ UNCHANGED <<clock, limit>>

(* The command never reaches Redis: the caller gets the error.             *)
LoseCommand(c) ==
  /\ call[c].pc = "sent"
  /\ call' = [call EXCEPT ![c] = [Idle EXCEPT !.pc = "error"]]
  /\ UNCHANGED <<clock, limit, exists, state, expireAt, birth, granted, latest>>

(* A replica is reconfigured.                                              *)
Reconfigure(c) ==
  /\ \E l \in Limits : l # limit[c] /\ limit' = [limit EXCEPT ![c] = l]
  /\ UNCHANGED <<clock, call, exists, state, expireAt, birth, granted, latest>>

Tick ==
  /\ clock < MaxTime
  /\ clock' = clock + 1
  /\ UNCHANGED <<limit, call, exists, state, expireAt, birth, granted, latest>>

Next ==
  \/ \E c \in Callers : Send(c) \/ Script(c) \/ LoseCommand(c) \/ Reconfigure(c)
  \/ Tick

Spec == Init /\ [][Next]_vars

-----------------------------------------------------------------------------

(* Types of the hash, the calls and the history; readings are not negative.*)
TypeOK ==
  /\ clock \in Nat
  /\ limit \in [Callers -> Limits]
  /\ call \in [Callers -> [pc : {"idle", "sent", "ok", "limited", "error"},
                           now : Nat, limit : Nat]]
  /\ \A c \in Callers : call[c].pc = "sent" => call[c].limit > 0
  /\ exists \in BOOLEAN
  /\ state \in [tokens : Int, last_update : Nat, limit : Nat]
  /\ expireAt \in Nat
  /\ birth \in Nat /\ granted \in Nat /\ latest \in Nat

(* Whatever the skews, delays and reorderings, a bucket admits no more     *)
(* than its capacity plus what the time between its first and its last     *)
(* reading refills: time that is taken back and given again is not         *)
(* credited twice.                                                         *)
AdmissionBound ==
  exists =>
    Precision * Window * granted + state.tokens
      <= state.limit * Window + (state.last_update - birth) * state.limit

(* A replica whose clock is behind can push the bucket into debt, but by   *)
(* no more than the time between its reading and the latest one: the next  *)
(* caller whose clock is up to date finds a bucket that is not in debt.    *)
DebtBound ==
  exists => state.tokens + (latest - state.last_update) * state.limit >= 0
============================================================================
