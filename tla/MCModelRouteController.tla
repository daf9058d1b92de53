---------------------- MODULE MCModelRouteController ----------------------
(***************************************************************************)
(* A ModelRoute hides the base route of backend b1's model m1, or of b2's  *)
(* model m2; it leads to b1 and b2, with a rate limit and a fallback.  Its *)
(* spec is valid, or gives a weight to one target and none to the other.   *)
(***************************************************************************)
EXTENDS ModelRouteController

MCTargets == {<<>>, <<"m1">>, <<"m2">>, <<"m1", "m2">>}
MCBaseConfig == [owner |-> "backend", gen |-> 0]
MCConfigs == [owner : RouteObjects, gen : 0..MaxRouteEdits] \cup {MCBaseConfig}

Own == [r \in RouteObjects |-> r]
InNs == [r \in RouteObjects |-> "ns"]

B1 == <<"ns", "b1">>
B2 == <<"other", "b2">>
MCBackends == {B1, B2}
MCBackendModelOf == [b \in MCBackends |-> IF b = B1 THEN "m1" ELSE "m2"]
MCRemovable == {B1}

To(ns, b, w) == [namespace |-> ns, backend |-> b, weight |-> w]
Valid == [model |-> "m1",
          targets |-> <<To("", "b1", <<>>), To("other", "b2", <<>>)>>, filter |-> "rateLimit",
          fallback |-> {[preDelay |-> <<>>, postDelay |-> <<0>>, maxRetries |-> <<1>>]}]
Mixed == [Valid EXCEPT !.targets[1].weight = <<2>>]
Renamed == [Valid EXCEPT !.model = "m2", !.targets = <<To("", "b1", <<>>)>>]
MCSpecs == {Valid, Mixed, Renamed}
============================================================================
