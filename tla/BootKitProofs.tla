--------------------------- MODULE BootKitProofs ---------------------------
(***************************************************************************)
(* Proofs about Drain and BootKit, for any set of requests and any other   *)
(* runnables: first about the shutdown protocol alone, then that the       *)
(* process implements it, so that what is shown of the protocol holds of   *)
(* the process.                                                            *)
(***************************************************************************)
EXTENDS BootKit, TLAPS

-----------------------------------------------------------------------------
(* Drain.                                                                  *)

(* The inductive invariant.  DrainReachesAll alone is not inductive: a     *)
(* step needs to know that the timer is armed only after the flag was set  *)
(* (so nothing passes the gate later), that what runs is in the map when   *)
(* the timer fires, and, from how long the drain hook and its timer can    *)
(* have taken, that a stop times out only after the timer fired.           *)
DrainInv ==
  /\ TypeOK
  /\ MapIsExact
  /\ timer # "off" => drained /\ drainHook \in {"waiting", "done"}
  /\ drainHook # "idle" => drained
  /\ drainHook = "done" => timer = "fired"
  /\ stop = "no" => elapsed = 0 /\ drainHook = "idle"
  /\ timer = "off" => elapsed <= SchedulingDelay
  /\ timer = "armed" => armedAt <= SchedulingDelay /\ elapsed <= armedAt + DrainWaitTime
  /\ stop \in {"done", "timedOut"} => timer = "fired"
  /\ DrainReachesAll

(* The inductive invariant holds in every reachable state.                 *)
THEOREM DrainInvariant == Spec => []DrainInv
<1>1. Init => DrainInv
  <2> SUFFICES ASSUME Init PROVE DrainInv
    OBVIOUS
  <2>1. MapIsExact /\ DrainReachesAll
    BY DEF Init, MapIsExact, DrainReachesAll
  <2>2. TypeOK
    <3>1. elapsed \in 0..StopTimeoutTime /\ armedAt \in 0..StopTimeoutTime
      BY TimeAssumption DEF Init
    <3>2. QED
      BY <3>1 DEF Init, TypeOK
  <2>3. QED
    BY <2>1, <2>2, TimeAssumption DEF Init, DrainInv
<1>2. DrainInv /\ [Next]_vars => DrainInv'
  <2> SUFFICES ASSUME DrainInv, [Next]_vars PROVE DrainInv'
    OBVIOUS
  <2> USE TimeAssumption DEF DrainInv, TypeOK, MapIsExact, DrainReachesAll, Exited, Active, timeVars
  <2>1. ASSUME NEW r \in Requests, Accept(r) PROVE DrainInv'
    BY <2>1 DEF Accept
  <2>2. ASSUME NEW r \in Requests, Add(r) PROVE DrainInv'
    BY <2>2 DEF Add
  <2>3. ASSUME NEW r \in Requests, Gate(r) PROVE DrainInv'
    BY <2>3 DEF Gate
  <2>4. ASSUME NEW r \in Requests, Finish(r) PROVE DrainInv'
    BY <2>4 DEF Finish
  <2>5. ASSUME NEW r \in Requests, Remove(r) PROVE DrainInv'
    BY <2>5 DEF Remove
  <2>6. ASSUME NEW r \in Requests, ClientGone(r) PROVE DrainInv'
    BY <2>6 DEF ClientGone
  <2>7. CASE BeginStop
    BY <2>7 DEF BeginStop
  <2>8. CASE DrainMark
    BY <2>8 DEF DrainMark
  <2>9. CASE DrainWait
    BY <2>9 DEF DrainWait
  <2>10. CASE CancelAll
    BY <2>10 DEF CancelAll
  <2>11. CASE DrainDone
    BY <2>11 DEF DrainDone
  <2>12. CASE ShutdownBegin
    BY <2>12 DEF ShutdownBegin
  <2>13. CASE ShutdownDone
    BY <2>13 DEF ShutdownDone
  <2>14. CASE StopDone
    BY <2>14 DEF StopDone
  <2>15. CASE StopTimeout
    BY <2>15 DEF StopTimeout
  <2>16. CASE Abort
    BY <2>16 DEF Abort
  <2>17. CASE Tick
    BY <2>17 DEF Tick
  <2>18. CASE UNCHANGED vars
    BY <2>18 DEF vars
  <2>19. QED
    BY <2>1, <2>2, <2>3, <2>4, <2>5, <2>6, <2>7, <2>8, <2>9, <2>10, <2>11, <2>12,
       <2>13, <2>14, <2>15, <2>16, <2>17, <2>18 DEF Next, RequestStep, StopStep
<1>3. QED
  BY <1>1, <1>2, PTL DEF Spec

(* Type correctness.                                                       *)
THEOREM TypeCorrect == Spec => []TypeOK
<1>1. DrainInv => TypeOK
  BY DEF DrainInv
<1>2. QED
  BY <1>1, DrainInvariant, PTL

(* After the drain timer every running handler is cancelled.               *)
THEOREM DrainCancelsAll == Spec => []DrainReachesAll
<1>1. DrainInv => DrainReachesAll
  BY DEF DrainInv
<1>2. QED
  BY <1>1, DrainInvariant, PTL

(* The cancel map is exact.                                                *)
THEOREM CancelMapExact == Spec => []MapIsExact
<1>1. DrainInv => MapIsExact
  BY DEF DrainInv
<1>2. QED
  BY <1>1, DrainInvariant, PTL

(* No handler is cut off by the exit without having been cancelled.        *)
THEOREM ExitCutsNobody == Spec => []NoSilentCut
<1>1. DrainInv => NoSilentCut
  BY DEF DrainInv, DrainReachesAll, NoSilentCut
<1>2. QED
  BY <1>1, DrainInvariant, PTL

-----------------------------------------------------------------------------
(* BootKit.                                                                *)

AllReturned == \A r \in Runnables : runnable[r] = "ok"

(* How far Start has come and how far the shutdown may be: Drain runs      *)
(* exactly while Start stops with the server's hook among those it stops.  *)
PhaseInv ==
  /\ phase \in {"new", "running", "started"} => stop = "no"
  /\ phase = "stopping" /\ "server" \in stopSet => stop = "running"
  /\ phase = "stopping" /\ "server" \notin stopSet => stop = "no"
  /\ phase # "ended" => outcome = "none"

(* Hooks are started only when every runnable has returned, hence with the *)
(* gateway's among them, and those that were started are being stopped.    *)
HooksInv ==
  /\ \A h \in Hooks : startHook[h] # "none" => AllReturned /\ h \in hooks
  /\ phase \in {"new", "running"} => \A h \in Hooks : startHook[h] = "none"
  /\ runnable["gateway"] = "ok" => "server" \in hooks
  /\ phase = "stopping" => \A h \in Hooks : startHook[h] # "none" => h \in stopSet
  /\ phase = "stopping" /\ startHook["drain"] # "none" => "server" \in stopSet

(* A request has come only if the server was started.                      *)
ServesInv == (\E r \in Requests : pc[r] # "new") => startHook["server"] # "none"

(* The inductive invariant of the process.                                 *)
BootInv ==
  /\ BootTypeOK /\ PhaseInv /\ HooksInv /\ ServesInv
  /\ StartedAreStopped /\ ServesWhenReady /\ AbortHasCause

(* The start of the process is the start of the protocol.                  *)
LEMMA BootInitInv == BootInit => BootInv /\ Init
<1> SUFFICES ASSUME BootInit PROVE BootInv /\ Init
  OBVIOUS
<1>1. BootTypeOK
  BY DEF BootInit, BootTypeOK
<1>2. QED
  BY <1>1 DEF BootInit, Init, BootInv, BootTypeOK, PhaseInv, HooksInv, ServesInv, AllReturned,
         StartedAreStopped, ServesWhenReady, AbortHasCause, Hooks, Runnables

(* A step of the process is a step of the protocol or leaves it alone.     *)
LEMMA BootStepRefines ==
  ASSUME PhaseInv, BootTypeOK, phase # "ended", BootNext
  PROVE  [Next]_vars
<1> USE DEF Next, StopStep, RequestStep
<1>0. ~Exited
  BY DEF PhaseInv, BootTypeOK, Exited
<1>1. CASE StopBeforeStart
  BY <1>1 DEF StopBeforeStart
<1>2. CASE StartRunnables
  BY <1>2 DEF StartRunnables
<1>3. CASE EnterStop
  BY <1>0, <1>3 DEF EnterStop
<1>4. CASE CallStartHooks
  BY <1>4 DEF CallStartHooks
<1>5. CASE StopReturns
  BY <1>0, <1>5 DEF StopReturns
<1>6. CASE StopFails
  BY <1>0, <1>6 DEF StopFails
<1>7. CASE StopTimesOut
  BY <1>0, <1>7 DEF StopTimesOut
<1>8. CASE Signal
  BY <1>0, <1>8 DEF Signal, Kill
<1>9. CASE GatewayStops
  BY <1>0, <1>9 DEF GatewayStops
<1>10. ASSUME NEW r \in Runnables, RunnableReturns(r) \/ RunnableFails(r) PROVE [Next]_vars
  BY <1>10 DEF RunnableReturns, RunnableFails
<1>11. ASSUME NEW h \in Hooks, StartHookEnds(h) \/ StopHookEnds(h) PROVE [Next]_vars
  BY <1>11 DEF StartHookEnds, StopHookEnds
<1>12. ASSUME NEW r \in Requests, RequestRuns(r) PROVE [Next]_vars
  BY <1>0, <1>12 DEF RequestRuns
<1>13. CallRunnableFails \/ StartEnds => EnterStop
  BY DEF CallRunnableFails, StartEnds
<1>14. QED
  BY <1>1, <1>2, <1>3, <1>4, <1>5, <1>6, <1>7, <1>8, <1>9, <1>10, <1>11, <1>12, <1>13
     DEF BootNext, StartStep

(* Every step of the process preserves the invariant.                      *)
LEMMA BootStepInv ==
  ASSUME BootInv, [phase # "ended" /\ BootNext]_processVars
  PROVE  BootInv'
<1> USE OthersAssumption DEF BootInv, BootTypeOK, PhaseInv, HooksInv, ServesInv, AllReturned,
        StartedAreStopped, ServesWhenReady, AbortHasCause, Hooks, Runnables, HooksOf
<1>1. CASE phase # "ended" /\ StopBeforeStart
  BY <1>1 DEF StopBeforeStart, vars
<1>2. CASE phase # "ended" /\ StartRunnables
  BY <1>2 DEF StartRunnables, vars
<1>3. CASE phase # "ended" /\ CallRunnableFails
  BY <1>3 DEF CallRunnableFails, EnterStop, BeginStop, vars, timeVars
<1>4. CASE phase # "ended" /\ CallStartHooks
  BY <1>4 DEF CallStartHooks, vars
<1>5. CASE phase # "ended" /\ StartEnds
  BY <1>5 DEF StartEnds, EnterStop, BeginStop, vars, timeVars
<1>6. CASE phase # "ended" /\ StopReturns
  BY <1>6 DEF StopReturns, StopDone, EndWith, Graceful, PlainHooks, vars, timeVars
<1>7. CASE phase # "ended" /\ StopFails
  BY <1>7 DEF StopFails, Abort, EndWith, Graceful, PlainHooks, vars, timeVars
<1>8. CASE phase # "ended" /\ StopTimesOut
  BY <1>8 DEF StopTimesOut, StopTimeout, EndWith, Graceful, PlainHooks, vars, timeVars
<1>9. CASE phase # "ended" /\ Signal
  BY <1>9 DEF Signal, Kill, Abort, vars, timeVars
<1>10. CASE phase # "ended" /\ GatewayStops
  BY <1>10 DEF GatewayStops, DrainMark, DrainWait, CancelAll, DrainDone, ShutdownBegin,
               ShutdownDone, Tick, bootVars, timeVars
<1>11. ASSUME NEW r \in Runnables, phase # "ended", RunnableReturns(r) PROVE BootInv'
  BY <1>11 DEF RunnableReturns, vars
<1>12. ASSUME NEW r \in Runnables, phase # "ended", RunnableFails(r) PROVE BootInv'
  BY <1>12 DEF RunnableFails, vars
<1>13. ASSUME NEW h \in Hooks, phase # "ended", StartHookEnds(h) PROVE BootInv'
  BY <1>13 DEF StartHookEnds, vars
<1>14. ASSUME NEW h \in Hooks, phase # "ended", StopHookEnds(h) PROVE BootInv'
  BY <1>14 DEF StopHookEnds, PlainHooks, Graceful, vars
<1>15. ASSUME NEW r \in Requests, phase # "ended", RequestRuns(r) PROVE BootInv'
  BY <1>15 DEF RequestRuns, RequestStep, Accept, Add, Gate, Finish, Remove, ClientGone,
               bootVars, timeVars
<1>16. CASE UNCHANGED processVars
  BY <1>16 DEF processVars, bootVars, vars
<1>17. QED
  BY <1>1, <1>2, <1>3, <1>4, <1>5, <1>6, <1>7, <1>8, <1>9, <1>10, <1>11, <1>12, <1>13,
     <1>14, <1>15, <1>16 DEF BootNext, StartStep

(* The invariant holds in every reachable state of the process.            *)
THEOREM BootInvariant == BootSpec => []BootInv
<1>1. BootInit => BootInv
  BY BootInitInv
<1>2. BootInv /\ [phase # "ended" /\ BootNext]_processVars => BootInv'
  BY BootStepInv
<1>3. QED
  BY <1>1, <1>2, PTL DEF BootSpec

(* Refinement: the process, from its start to whichever end, implements    *)
(* the shutdown protocol; a Start that never stops the gateway leaves the  *)
(* protocol where it is.                                                   *)
THEOREM BootImplementsDrain == BootSpec => ImplementsDrain
<1>1. BootInit => Init
  BY BootInitInv
<1>2. BootInv /\ [phase # "ended" /\ BootNext]_processVars => [Next]_vars
  <2> SUFFICES ASSUME BootInv, [phase # "ended" /\ BootNext]_processVars
               PROVE  [Next]_vars
    OBVIOUS
  <2>1. CASE phase # "ended" /\ BootNext
    BY <2>1, BootStepRefines DEF BootInv
  <2>2. CASE UNCHANGED processVars
    BY <2>2 DEF processVars
  <2>3. QED
    BY <2>1, <2>2
<1>3. QED
  BY <1>1, <1>2, BootInvariant, PTL DEF BootSpec, Spec, ImplementsDrain

(* The process never exits under a handler that was not cancelled, unless  *)
(* its stop was cut short.                                                 *)
THEOREM ProcessCutsNobody == BootSpec => []NoSilentCut
<1>1. BootSpec => Spec
  BY BootImplementsDrain DEF ImplementsDrain
<1>2. QED
  BY <1>1, ExitCutsNobody, PTL

(* The drain of a process reaches every running handler.                   *)
THEOREM ProcessDrainReachesAll == BootSpec => []DrainReachesAll
<1>1. BootSpec => Spec
  BY BootImplementsDrain DEF ImplementsDrain
<1>2. QED
  BY <1>1, DrainCancelsAll, PTL

(* Type correctness of Start's state.                                      *)
THEOREM BootTypeCorrect == BootSpec => []BootTypeOK
<1>1. BootInv => BootTypeOK
  BY DEF BootInv
<1>2. QED
  BY <1>1, BootInvariant, PTL

(* After a clean stop every hook that was started has been stopped.        *)
THEOREM CleanStopIsComplete == BootSpec => []StartedAreStopped
<1>1. BootInv => StartedAreStopped
  BY DEF BootInv
<1>2. QED
  BY <1>1, BootInvariant, PTL

(* The gateway serves only when every runnable has returned.               *)
THEOREM ServesOnlyWhenReady == BootSpec => []ServesWhenReady
<1>1. BootInv => ServesWhenReady
  BY DEF BootInv
<1>2. QED
  BY <1>1, BootInvariant, PTL

(* A stop is cut short only after a signal or a failed stop hook.          *)
THEOREM AbortsHaveCauses == BootSpec => []AbortHasCause
<1>1. BootInv => AbortHasCause
  BY DEF BootInv
<1>2. QED
  BY <1>1, BootInvariant, PTL
============================================================================
