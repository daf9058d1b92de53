---------------------------- MODULE MCChatStream ----------------------------
(* Every kind of line, streams long enough for two usages around a chunk. *)
EXTENDS ChatStream
=============================================================================
