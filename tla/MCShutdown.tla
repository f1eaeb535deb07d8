---------------------------- MODULE MCShutdown ----------------------------
(* Shutdown for TLC: one request, one preload, one model; its .cfg files   *)
(* give the bounds.                                                        *)
EXTENDS Shutdown
=============================================================================
