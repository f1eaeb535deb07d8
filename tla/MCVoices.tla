------------------------------ MODULE MCVoices ------------------------------
(* Voices for TLC. *)
EXTENDS Voices

============================================================================
