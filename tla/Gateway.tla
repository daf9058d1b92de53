------------------------------- MODULE Gateway -------------------------------
(***************************************************************************)
(* What the gateway promises about one request, whatever its route and its *)
(* upstreams do: an upstream is called only for an admitted request, one   *)
(* call at a time and never again after one served it; the request is      *)
(* billed at most once, and only between the last call and the answer; it  *)
(* is answered once.                                                       *)
(***************************************************************************)
CONSTANT Requests

VARIABLES phase,     \* per request
          billed     \* per request: a usage report was delivered

gatewayVars == <<phase, billed>>

Phases == {"waiting", "admitted", "calling", "served", "failed", "answered"}

GatewayInit ==
  /\ phase = [r \in Requests |-> "waiting"]
  /\ billed = [r \in Requests |-> FALSE]

Moves(r, from, to) ==
  /\ phase[r] \in from
  /\ \E p \in to : phase' = [phase EXCEPT ![r] = p]
  /\ UNCHANGED billed

Admit(r)  == Moves(r, {"waiting"}, {"admitted"})
\* Answered by the gateway itself: an error, a preflight, a listing.
Local(r)  == Moves(r, {"waiting"}, {"served", "failed", "answered"})
Call(r)   == Moves(r, {"admitted"}, {"calling"})
GiveUp(r) == Moves(r, {"admitted", "calling"}, {"failed", "answered"})
Retry(r)  == Moves(r, {"calling"}, {"admitted"})
Serve(r)  == Moves(r, {"calling"}, {"served"})
Answer(r) == Moves(r, {"served", "failed"}, {"answered"})

Bill(r) ==
  /\ phase[r] \in {"served", "failed"} /\ ~billed[r]
  /\ billed' = [billed EXCEPT ![r] = TRUE]
  /\ UNCHANGED phase

GatewayNext ==
  \E r \in Requests :
    \/ Admit(r) \/ Local(r) \/ Call(r) \/ GiveUp(r) \/ Retry(r)
    \/ Serve(r) \/ Answer(r) \/ Bill(r)

GatewaySpec == GatewayInit /\ [][GatewayNext]_gatewayVars
=============================================================================
