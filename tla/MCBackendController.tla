------------------------ MODULE MCBackendController ------------------------
(***************************************************************************)
(* Lifecycle: one backend through creation, edits of its name too,         *)
(* deletion and creation anew.  Names: two LLMBackends that may take each  *)
(* other's model name.                                                     *)
(***************************************************************************)
EXTENDS BackendController

MCTargets == {<<m>> : m \in Models}
MCConfigs == [owner : Backends, gen : 0..MaxEdits]

LLMs == [b \in Backends |-> "LLM"]

OwnName == [b \in Backends |-> b]

AnyModel == [b \in Backends |-> Models]
============================================================================
