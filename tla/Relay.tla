-------------------------------- MODULE Relay --------------------------------
(***************************************************************************)
(* What a stream promises its client: it gets what the upstream sent, in   *)
(* the order it was sent and each part once, up to some point, and nothing *)
(* after the stream is over.  A part is its place in what the upstream     *)
(* sends, so parts are sent in ascending order.                            *)
(***************************************************************************)
EXTENDS Naturals, Sequences, Functions

CONSTANT Parts          \* the places of what an upstream may send

VARIABLES sent, delivered, over

relayVars == <<sent, delivered, over>>

RelayInit == sent = {} /\ delivered = <<>> /\ over = FALSE

Send ==
  /\ \E p \in Parts : (\A q \in sent : q < p) /\ sent' = sent \cup {p}
  /\ UNCHANGED <<delivered, over>>

(* The first part that was sent and not yet delivered.                     *)
Deliver ==
  /\ ~over
  /\ \E p \in sent \ Range(delivered) :
       /\ \A q \in sent \ Range(delivered) : p <= q
       /\ delivered' = Append(delivered, p)
  /\ over' \in BOOLEAN
  /\ UNCHANGED sent

Finish ==
  /\ over' = TRUE
  /\ UNCHANGED <<sent, delivered>>

RelayNext == Send \/ Deliver \/ Finish

RelaySpec == RelayInit /\ [][RelayNext]_relayVars
=============================================================================
