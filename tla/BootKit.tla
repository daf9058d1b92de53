------------------------------ MODULE BootKit ------------------------------
(***************************************************************************)
(* The life of the process: pkg/bootkit/bootkit.go and lifecycle.go, what  *)
(* cmd/main.go starts with them (cmd/gateway/proxy.go, cmd/admin/admin.go, *)
(* cmd/server/server.go), composed with the graceful shutdown of Drain.    *)
(*                                                                         *)
(* Start runs the runnables in parallel, each appends its hooks; then the  *)
(* start hooks run in parallel until one fails, all return or a signal     *)
(* comes; then the stop hooks that are registered by now run in parallel.  *)
(* main returns with Start, so the process ends with it.  Drain models the *)
(* two hooks of the gateway, the listeners' drain and the server's         *)
(* Shutdown, and its variable stop is BootKit.stop while they take part.   *)
(***************************************************************************)
EXTENDS Drain

CONSTANTS
  Others,   \* the runnables next to the gateway: the admin server, ...
  Fragile   \* those of them whose stop hook may return an error

ASSUME OthersAssumption ==
  Others \cap {"gateway", "drain", "server"} = {} /\ Fragile \subseteq Others

VARIABLES
  phase,     \* of Start: new, running, started, stopping, ended
  runnable,  \* the runnables: idle, running, ok, failed
  hooks,     \* the registered hooks
  startHook, \* their OnStart: none, running, returned, failed
  stopSet,   \* the copy of the hooks that stop works on
  stopHook,  \* OnStop of the others' hooks: none, ok, failed
  selfDone,  \* selfCtx is cancelled
  signals,   \* signals received
  outcome    \* why the process ended: none, clean, timeout, error, killed

bootVars == <<phase, runnable, hooks, startHook, stopSet, stopHook, selfDone, signals, outcome>>
processVars == <<vars, bootVars>>

Runnables == Others \cup {"gateway"}
Hooks == Others \cup {"drain", "server"}

(* The hooks a runnable appends before it returns nil: the gateway's       *)
(* listeners theirs, then the server's.                                    *)
HooksOf(r) == IF r = "gateway" THEN {"drain", "server"} ELSE {r}

BootInit ==
  /\ Init
  /\ phase = "new"
  /\ runnable = [r \in Runnables |-> "idle"]
  /\ hooks = {}
  /\ startHook = [h \in Hooks |-> "none"]
  /\ stopSet = {}
  /\ stopHook = [h \in Hooks |-> "none"]
  /\ selfDone = FALSE
  /\ signals = 0
  /\ outcome = "none"

-----------------------------------------------------------------------------
(* Starting.                                                               *)

(* Stop before Start: nothing is registered.  While Start runs it holds    *)
(* the mutex, and a Stop waits until the process has ended.                *)
StopBeforeStart ==
  /\ phase = "new" /\ ~selfDone
  /\ selfDone' = TRUE
  /\ UNCHANGED <<vars, phase, runnable, hooks, startHook, stopSet, stopHook, signals, outcome>>

(* Start, callRunnable.                                                    *)
StartRunnables ==
  /\ phase = "new"
  /\ phase' = "running"
  /\ runnable' = [r \in Runnables |-> "running"]
  /\ UNCHANGED <<vars, hooks, startHook, stopSet, stopHook, selfDone, signals, outcome>>

(* A runnable has appended its hooks and returns nil.                      *)
RunnableReturns(r) ==
  /\ runnable[r] = "running"
  /\ runnable' = [runnable EXCEPT ![r] = "ok"]
  /\ hooks' = hooks \cup HooksOf(r)
  /\ UNCHANGED <<vars, phase, startHook, stopSet, stopHook, selfDone, signals, outcome>>

(* It returns an error.  The gateway's may have registered the drain hooks *)
(* of its listeners before its address was refused.                        *)
RunnableFails(r) ==
  /\ runnable[r] = "running"
  /\ runnable' = [runnable EXCEPT ![r] = "failed"]
  /\ hooks' \in {hooks, hooks \cup (HooksOf(r) \cap {"drain"})}
  /\ UNCHANGED <<vars, phase, startHook, stopSet, stopHook, selfDone, signals, outcome>>

(* mayStop, stop: GetHooks copies the hooks registered by now.             *)
EnterStop ==
  /\ phase' = "stopping"
  /\ stopSet' = hooks
  /\ IF "server" \in hooks THEN BeginStop ELSE UNCHANGED vars
  /\ UNCHANGED <<runnable, hooks, startHook, stopHook, selfDone, signals, outcome>>

(* waitDoneOrContextDone returns an error: a runnable's first, the start   *)
(* timeout's (which comes while one still runs) or a cancelled selfCtx's.  *)
CallRunnableFails ==
  /\ phase = "running"
  /\ \/ \E r \in Runnables : runnable[r] \in {"failed", "running"}
     \/ selfDone
  /\ EnterStop

(* Mutant of CallStartHooks: the first runnable to return is enough.       *)
CallStartHooksEarly ==
  /\ phase = "running" /\ \E r \in Runnables : runnable[r] = "ok"
  /\ phase' = "started"
  /\ startHook' = [h \in Hooks |-> IF h \in hooks THEN "running" ELSE "none"]
  /\ UNCHANGED <<vars, runnable, hooks, stopSet, stopHook, selfDone, signals, outcome>>

(* callStartHook, and signal.Notify.                                       *)
CallStartHooks ==
  /\ phase = "running" /\ \A r \in Runnables : runnable[r] = "ok"
  /\ phase' = "started"
  /\ startHook' = [h \in Hooks |-> IF h \in hooks THEN "running" ELSE "none"]
  /\ UNCHANGED <<vars, runnable, hooks, stopSet, stopHook, selfDone, signals, outcome>>

(* OnStart: drain hooks have none and return at once; the others serve     *)
(* until they are stopped, or fail.                                        *)
StartHookEnds(h) ==
  /\ phase = "started" /\ startHook[h] = "running"
  /\ startHook' = [startHook EXCEPT ![h] = IF h = "drain" THEN "returned" ELSE "failed"]
  /\ UNCHANGED <<vars, phase, runnable, hooks, stopSet, stopHook, selfDone, signals, outcome>>

(* Mutant of StartEnds: a start hook that fails is only logged.            *)
StartEndsOnSignal ==
  /\ phase = "started" /\ selfDone
  /\ EnterStop

(* Start's select: an error of a start hook, the end of all, a signal.     *)
StartEnds ==
  /\ phase = "started"
  /\ \/ \E h \in hooks : startHook[h] = "failed"
     \/ \A h \in hooks : startHook[h] = "returned"
     \/ selfDone
  /\ EnterStop

(* The process ends; a stop that runs is cut off.                          *)
Kill ==
  /\ phase' = "ended"
  /\ outcome' = "killed"
  /\ IF stop = "running" THEN Abort ELSE UNCHANGED vars

(* A signal: the first one cancels selfCtx, the second one exits; before   *)
(* signal.Notify the first one ends the process as it does by default.     *)
Signal ==
  /\ phase # "ended" /\ signals < 2
  /\ signals' = signals + 1
  /\ IF (\A h \in Hooks : startHook[h] = "none") \/ signals = 1
     THEN Kill /\ UNCHANGED selfDone
     ELSE selfDone' = TRUE /\ UNCHANGED <<vars, phase, outcome>>
  /\ UNCHANGED <<runnable, hooks, startHook, stopSet, stopHook>>

-----------------------------------------------------------------------------
(* Stopping.                                                               *)

Graceful == "server" \in stopSet

(* The hooks that Drain does not model: those of the others, and a drain   *)
(* hook without a server, which has no request to wait for.                *)
PlainHooks == IF Graceful THEN stopSet \cap Others ELSE stopSet

StopHookEnds(h) ==
  /\ phase = "stopping" /\ h \in PlainHooks /\ stopHook[h] = "none"
  /\ \/ stopHook' = [stopHook EXCEPT ![h] = "ok"]
     \/ h \in Fragile /\ stopHook' = [stopHook EXCEPT ![h] = "failed"]
  /\ UNCHANGED <<vars, phase, runnable, hooks, startHook, stopSet, selfDone, signals, outcome>>

EndWith(o) ==
  /\ phase' = "ended"
  /\ outcome' = o
  /\ UNCHANGED <<runnable, hooks, startHook, stopSet, stopHook, selfDone, signals>>

(* Mutant of StopReturns: a hook's error is taken for its end.             *)
StopReturnsAnyway ==
  /\ phase = "stopping"
  /\ \A h \in PlainHooks : stopHook[h] # "none"
  /\ IF Graceful THEN StopDone ELSE UNCHANGED vars
  /\ EndWith("clean")

(* Mutant of StopReturns: the gateway's hooks are not waited for.          *)
StopReturnsEarly ==
  /\ phase = "stopping"
  /\ \A h \in PlainHooks : stopHook[h] = "ok"
  /\ stop' = IF Graceful THEN "done" ELSE stop
  /\ UNCHANGED <<pc, requestCancelMap, cancelled, drained, timer, drainHook, server, timeVars>>
  /\ EndWith("clean")

(* callStopHooks: every hook has returned nil, or there are none, ...      *)
StopReturns ==
  /\ phase = "stopping"
  /\ \A h \in PlainHooks : stopHook[h] = "ok"
  /\ IF Graceful THEN StopDone ELSE UNCHANGED vars
  /\ EndWith("clean")

(* ... one has returned an error, and the others are not waited for, ...   *)
StopFails ==
  /\ phase = "stopping"
  /\ \E h \in PlainHooks : stopHook[h] = "failed"
  /\ IF Graceful THEN Abort ELSE UNCHANGED vars
  /\ EndWith("error")

(* ... or the stop timeout has passed.                                     *)
StopTimesOut ==
  /\ phase = "stopping" /\ stopSet # {}
  /\ IF Graceful THEN StopTimeout ELSE UNCHANGED vars
  /\ EndWith("timeout")

(* The gateway's hooks at work, and its requests.                          *)
GatewayStops ==
  /\ phase = "stopping" /\ Graceful
  /\ DrainMark \/ DrainWait \/ CancelAll \/ DrainDone \/ ShutdownBegin \/ ShutdownDone \/ Tick
  /\ UNCHANGED bootVars

RequestRuns(r) ==
  /\ phase \in {"started", "stopping"} /\ startHook["server"] # "none"
  /\ RequestStep(r)
  /\ UNCHANGED bootVars

StartStep ==
  StartRunnables \/ CallRunnableFails \/ CallStartHooks \/ StartEnds
  \/ StopReturns \/ StopFails \/ StopTimesOut

BootNext ==
  \/ StopBeforeStart \/ StartStep \/ Signal \/ GatewayStops
  \/ \E r \in Runnables : RunnableReturns(r) \/ RunnableFails(r)
  \/ \E h \in Hooks : StartHookEnds(h) \/ StopHookEnds(h)
  \/ \E r \in Requests : RequestRuns(r)

(* Goroutines are scheduled and timers run.  A runnable may hang, a start  *)
(* hook does while all is well, and so may a stop hook of the others.      *)
BootFairness ==
  /\ WF_processVars(StartStep)
  /\ WF_processVars(GatewayStops)

BootSpec == BootInit /\ [][phase # "ended" /\ BootNext]_processVars /\ BootFairness

-----------------------------------------------------------------------------

(* Types of Start's state, and Drain's.                                    *)
BootTypeOK ==
  /\ phase \in {"new", "running", "started", "stopping", "ended"}
  /\ runnable \in [Runnables -> {"idle", "running", "ok", "failed"}]
  /\ hooks \subseteq Hooks
  /\ startHook \in [Hooks -> {"none", "running", "returned", "failed"}]
  /\ stopSet \subseteq hooks
  /\ stopHook \in [Hooks -> {"none", "ok", "failed"}]
  /\ signals \in 0..2
  /\ outcome \in {"none", "clean", "timeout", "error", "killed"}

(* What was started is stopped: when Start returns after a clean stop,     *)
(* every hook whose OnStart ran has stopped without an error, the hooks of *)
(* the gateway included, whichever way the stop came about.                *)
StartedAreStopped ==
  outcome = "clean" =>
    /\ startHook["drain"] # "none" => drainHook = "done"
    /\ startHook["server"] # "none" => server = "down"
    /\ \A h \in Others : startHook[h] # "none" => stopHook[h] = "ok"

(* No request reaches the gateway before every runnable has returned nil:  *)
(* with static clusters it is never asked for a model it does not have yet.*)
ServesWhenReady ==
  (\E r \in Requests : pc[r] # "new") => \A r \in Runnables : runnable[r] = "ok"

(* A stop of the gateway is cut short only for a cause: a stop hook of     *)
(* another component failed, or a signal came.                             *)
AbortHasCause ==
  stop = "aborted" => signals > 0 \/ \E h \in Others : stopHook[h] = "failed"

(* Start does its stop hooks the service Drain describes: the process as a *)
(* whole implements the shutdown protocol that is proved about there.      *)
ImplementsDrain == Spec

Disturbed ==
  \/ selfDone
  \/ phase = "running" /\ \E r \in Runnables : runnable[r] = "failed"
  \/ phase = "started" /\ \E h \in Hooks : startHook[h] = "failed"

(* A runnable or a start hook that fails, a signal, and a Stop before      *)
(* Start all end the process, whatever else hangs, and so does a stop that *)
(* has begun (bootkit.go:68-143, 156-219).                                 *)
FailureEndsProcess ==
  (Disturbed /\ phase # "new") \/ phase = "stopping" ~> phase = "ended"
============================================================================
