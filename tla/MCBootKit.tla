----------------------------- MODULE MCBootKit -----------------------------
(* Two requests, one of which never ends, and the admin server.            *)
EXTENDS BootKit
============================================================================
