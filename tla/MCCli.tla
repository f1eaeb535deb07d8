------------------------------- MODULE MCCli -------------------------------
(* Cli for TLC; its .cfg files give the bounds.                            *)
EXTENDS Cli
============================================================================
