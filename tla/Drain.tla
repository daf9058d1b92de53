------------------------------- MODULE Drain -------------------------------
(***************************************************************************)
(* Graceful shutdown of a listener while requests are under way:           *)
(* pkg/listener/middlewares.go (the cancel map and the drain gate),        *)
(* pkg/listener/manager/{chat,image,tts}/listener.go (Drain, HasDrained    *)
(* and the order of the middlewares), cmd/gateway/proxy.go (the server's   *)
(* hooks) and the parallel stop hooks of pkg/bootkit/bootkit.go.           *)
(*                                                                         *)
(* A request walks through the middlewares outside in: its cancel function *)
(* is added to the map (WithCancellable), further in the drain flag is     *)
(* looked at (WithRejectAfterDrainedWithError), then the handler runs; on  *)
(* the way out it is removed from the map.                                 *)
(***************************************************************************)
EXTENDS Integers, FiniteSets

CONSTANTS
  Requests,
  DrainWaitTime,      \* constants.DefaultDrainWaitTime (30 seconds)
  StopTimeoutTime,    \* bootkit.DefaultStopTimeout (60 seconds)
  SchedulingDelay     \* the drain hook's goroutine gets to run within this time

(* The stop timeout leaves the drain wait, and the start of its goroutine, *)
(* enough time.                                                            *)
ASSUME TimeAssumption ==
  /\ DrainWaitTime \in Nat /\ StopTimeoutTime \in Nat /\ SchedulingDelay \in Nat
  /\ SchedulingDelay + DrainWaitTime < StopTimeoutTime

VARIABLES
  pc,         \* where each request is
  requestCancelMap, \* requests whose cancel function is in the map
  cancelled,  \* requests whose context is cancelled
  drained,    \* the listener's flag
  timer,      \* CancelAllAfter: off, armed, fired
  drainHook,  \* the listener's stop hook: idle, marked, waiting, done
  server,     \* the HTTP server: serving, closing (Shutdown waits), down
  stop,       \* BootKit.stop: no, running, done, timedOut, aborted
  elapsed,    \* time since the stop began
  armedAt     \* when, by that clock, the timer was armed

timeVars == <<elapsed, armedAt>>

vars == <<pc, requestCancelMap, cancelled, drained, timer, drainHook, server, stop,
          elapsed, armedAt>>

Active == {"accepted", "added", "inside", "leaving"}

Init ==
  /\ pc = [r \in Requests |-> "new"]
  /\ requestCancelMap = {}
  /\ cancelled = {}
  /\ drained = FALSE
  /\ timer = "off"
  /\ drainHook = "idle"
  /\ server = "serving"
  /\ stop = "no"
  /\ elapsed = 0
  /\ armedAt = 0

-----------------------------------------------------------------------------
(* Requests.                                                               *)

(* The server starts a goroutine for a request; after Shutdown it does not.*)
Accept(r) ==
  /\ server = "serving"
  /\ pc[r] = "new"
  /\ pc' = [pc EXCEPT ![r] = "accepted"]
  /\ UNCHANGED <<requestCancelMap, cancelled, drained, timer, drainHook, server, stop, timeVars>>

(* WithCancellable: Add.                                                   *)
Add(r) ==
  /\ pc[r] = "accepted"
  /\ pc' = [pc EXCEPT ![r] = "added"]
  /\ requestCancelMap' = requestCancelMap \cup {r}
  /\ UNCHANGED <<cancelled, drained, timer, drainHook, server, stop, timeVars>>

(* WithRejectAfterDrainedWithError: 503 once drained, else the handler.    *)
Gate(r) ==
  /\ pc[r] = "added"
  /\ pc' = [pc EXCEPT ![r] = IF drained THEN "leaving" ELSE "inside"]
  /\ UNCHANGED <<requestCancelMap, cancelled, drained, timer, drainHook, server, stop, timeVars>>

(* The handler returns: by itself, or because its context was cancelled.   *)
Finish(r) ==
  /\ pc[r] = "inside"
  /\ pc' = [pc EXCEPT ![r] = "leaving"]
  /\ UNCHANGED <<requestCancelMap, cancelled, drained, timer, drainHook, server, stop, timeVars>>

(* The deferred Remove, then the connection is idle.                       *)
Remove(r) ==
  /\ pc[r] = "leaving"
  /\ pc' = [pc EXCEPT ![r] = "done"]
  /\ requestCancelMap' = requestCancelMap \ {r}
  /\ UNCHANGED <<cancelled, drained, timer, drainHook, server, stop, timeVars>>

(* The client goes away: net/http cancels the request's context.           *)
ClientGone(r) ==
  /\ pc[r] \in Active
  /\ r \notin cancelled
  /\ cancelled' = cancelled \cup {r}
  /\ UNCHANGED <<pc, requestCancelMap, drained, timer, drainHook, server, stop, timeVars>>

-----------------------------------------------------------------------------
(* Shutdown: the stop hooks run in parallel.                               *)

BeginStop ==
  /\ stop = "no"
  /\ stop' = "running"
  /\ UNCHANGED <<pc, requestCancelMap, cancelled, drained, timer, drainHook, server, timeVars>>

(* Mutant of DrainMark: the flag is not set.                               *)
DrainMarkForgotten ==
  /\ stop = "running" /\ drainHook = "idle"
  /\ drainHook' = "marked"
  /\ UNCHANGED <<pc, requestCancelMap, cancelled, drained, timer, server, stop, timeVars>>

(* Drain, first half: the flag, under the listener's mutex.                *)
DrainMark ==
  /\ stop = "running" /\ drainHook = "idle"
  /\ drainHook' = "marked"
  /\ drained' = TRUE
  /\ UNCHANGED <<pc, requestCancelMap, cancelled, timer, server, stop, timeVars>>

(* Drain, second half: CancelAllAfter arms its timer and waits for it.     *)
DrainWait ==
  /\ drainHook = "marked"
  /\ drainHook' = "waiting"
  /\ timer' = "armed"
  /\ armedAt' = elapsed
  /\ UNCHANGED <<pc, requestCancelMap, cancelled, drained, server, stop, elapsed>>

(* The timer's callback cancels, under the map's mutex, what is in the map.*)
CancelAll ==
  /\ timer = "armed" /\ elapsed >= armedAt + DrainWaitTime
  /\ timer' = "fired"
  /\ cancelled' = cancelled \cup requestCancelMap
  /\ UNCHANGED <<pc, requestCancelMap, drained, drainHook, server, stop, timeVars>>

DrainDone ==
  /\ drainHook = "waiting" /\ timer = "fired"
  /\ drainHook' = "done"
  /\ UNCHANGED <<pc, requestCancelMap, cancelled, drained, timer, server, stop, timeVars>>

(* server.Shutdown closes the listening socket ...                         *)
ShutdownBegin ==
  /\ stop = "running" /\ server = "serving"
  /\ server' = "closing"
  /\ UNCHANGED <<pc, requestCancelMap, cancelled, drained, timer, drainHook, stop, timeVars>>

(* ... and returns when no connection is active.                           *)
ShutdownDone ==
  /\ server = "closing"
  /\ \A r \in Requests : pc[r] \notin Active
  /\ server' = "down"
  /\ UNCHANGED <<pc, requestCancelMap, cancelled, drained, timer, drainHook, stop, timeVars>>

(* callStopHooks returns when every hook has, ...                          *)
StopDone ==
  /\ stop = "running" /\ drainHook = "done" /\ server = "down"
  /\ stop' = "done"
  /\ UNCHANGED <<pc, requestCancelMap, cancelled, drained, timer, drainHook, server, timeVars>>

(* Mutant of StopTimeout: the drain wait is taken for the stop timeout.    *)
StopTimeoutShort ==
  /\ stop = "running" /\ elapsed >= DrainWaitTime
  /\ stop' = "timedOut"
  /\ UNCHANGED <<pc, requestCancelMap, cancelled, drained, timer, drainHook, server, timeVars>>

(* ... or when its context times out, ...                                  *)
StopTimeout ==
  /\ stop = "running" /\ elapsed >= StopTimeoutTime
  /\ stop' = "timedOut"
  /\ UNCHANGED <<pc, requestCancelMap, cancelled, drained, timer, drainHook, server, timeVars>>

(* ... or at once, when another hook (the admin server's, a gRPC or Redis  *)
(* connection's) fails or a second signal arrives.                         *)
Abort ==
  /\ stop = "running"
  /\ stop' = "aborted"
  /\ UNCHANGED <<pc, requestCancelMap, cancelled, drained, timer, drainHook, server, timeVars>>

(* Time passes.  A timer fires when it is due, and the drain hook's        *)
(* goroutine is not kept from running for longer than SchedulingDelay.     *)
Tick ==
  /\ stop = "running" /\ elapsed < StopTimeoutTime
  /\ timer = "off" => elapsed < SchedulingDelay
  /\ timer = "armed" => elapsed < armedAt + DrainWaitTime
  /\ elapsed' = elapsed + 1
  /\ UNCHANGED <<pc, requestCancelMap, cancelled, drained, timer, drainHook, server, stop, armedAt>>

(* Once stopping has ended the process exits and nothing happens any more. *)
Exited == stop \in {"done", "timedOut", "aborted"}

RequestStep(r) == Accept(r) \/ Add(r) \/ Gate(r) \/ Finish(r) \/ Remove(r) \/ ClientGone(r)

StopStep ==
  BeginStop \/ DrainMark \/ DrainWait \/ CancelAll \/ DrainDone
  \/ ShutdownBegin \/ ShutdownDone \/ StopDone \/ StopTimeout \/ Abort \/ Tick

Next == ~Exited /\ ((\E r \in Requests : RequestStep(r)) \/ StopStep)

Spec == Init /\ [][Next]_vars

-----------------------------------------------------------------------------

(* Types of the requests' and the hooks' places, the map and the clock.    *)
TypeOK ==
  /\ pc \in [Requests -> {"new", "done"} \cup Active]
  /\ requestCancelMap \subseteq Requests
  /\ cancelled \subseteq Requests
  /\ drained \in BOOLEAN
  /\ timer \in {"off", "armed", "fired"}
  /\ drainHook \in {"idle", "marked", "waiting", "done"}
  /\ server \in {"serving", "closing", "down"}
  /\ stop \in {"no", "running", "done", "timedOut", "aborted"}
  /\ elapsed \in 0..StopTimeoutTime
  /\ armedAt \in 0..StopTimeoutTime

(* Once the drain timer has fired, every request whose handler runs has    *)
(* been cancelled: a request that slipped past the gate before the flag    *)
(* was set was in the map by then, because it is added before the gate.    *)
DrainReachesAll ==
  timer = "fired" => \A r \in Requests : pc[r] = "inside" => r \in cancelled

(* The map holds the cancel functions of exactly the requests between Add  *)
(* and Remove: none is missed by CancelAll and none is left behind.        *)
MapIsExact ==
  requestCancelMap = {r \in Requests : pc[r] \in {"added", "inside", "leaving"}}

(* When a stop runs its course, to the end or to its timeout, the process  *)
(* does not exit under a handler that was not told: every request has been *)
(* answered or cancelled or never reached a handler.  (An aborted stop     *)
(* promises nothing.)                                                      *)
NoSilentCut ==
  stop \in {"done", "timedOut"} => \A r \in Requests : pc[r] = "inside" => r \in cancelled

============================================================================
