----------------------------- MODULE VoiceBook -----------------------------
(***************************************************************************)
(* What PUT /v1/voices/{name} promises to the clients of one server: every  *)
(* name is a register, a successful upload writes it in one step, and the   *)
(* answer says whether that step replaced a clip.  Temporary files, the     *)
(* conversion and the event loop are absent; Voices.tla has them.           *)
(***************************************************************************)
CONSTANTS Names, Uploads,
          Dropped,    \* the writer of a clip that was put there by hand
          None

VARIABLES
  book,   \* name -> the upload whose clip is in place, Dropped, or None
  fate    \* upload -> how far its request has come, as its client could know

vars == <<book, fate>>

Init ==
  /\ book \in [Names -> {Dropped, None}]
  /\ fate = [u \in Uploads |-> "open"]

Put(u, n) ==
  /\ fate[u] = "open"
  /\ fate' = [fate EXCEPT ![u] = IF book[n] = None THEN "new" ELSE "over"]
  /\ book' = [book EXCEPT ![n] = u]

TellNew(u) ==
  /\ fate[u] = "new"
  /\ fate' = [fate EXCEPT ![u] = "told new"]
  /\ UNCHANGED book

TellReplaced(u) ==
  /\ fate[u] = "over"
  /\ fate' = [fate EXCEPT ![u] = "told replaced"]
  /\ UNCHANGED book

Refuse(u) ==
  /\ fate[u] = "open"
  /\ fate' = [fate EXCEPT ![u] = "refused"]
  /\ UNCHANGED book

\* The server goes down: nobody hears of the uploads under way, and what was
\* put stays put.
Lose ==
  /\ \E gone \in SUBSET {u \in Uploads : fate[u] \in {"open", "new", "over"}} :
       fate' = [u \in Uploads |-> IF u \in gone THEN "lost" ELSE fate[u]]
  /\ UNCHANGED book

Next ==
  \/ \E u \in Uploads, n \in Names : Put(u, n)
  \/ \E u \in Uploads : TellNew(u) \/ TellReplaced(u) \/ Refuse(u)
  \/ Lose

Spec == Init /\ [][Next]_vars
============================================================================
