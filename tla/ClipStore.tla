----------------------------- MODULE ClipStore -----------------------------
(***************************************************************************)
(* What the bucket and the batch promise together: an object key is        *)
(* claimed once and keeps the object it was claimed with, and a run        *)
(* advertises a key only when the object there is its own.                 *)
(* Batch implements it (Batch.tla: Claims).                                *)
(***************************************************************************)
CONSTANTS Runs, Keys,
          Objects,    \* what can be stored: records with an owner
          None        \* no object

VARIABLES objects,    \* the object under each key, or None
          advertised  \* the pairs <<run, key>> a run has told its caller of

vars == <<objects, advertised>>

Owns(r, k) == objects[k] # None /\ objects[k].owner = r

Init ==
  /\ objects \in [Keys -> Objects \cup {None}]
  /\ advertised = {}

Claim(k, o) ==
  /\ objects[k] = None
  /\ objects' = [objects EXCEPT ![k] = o]
  /\ UNCHANGED advertised

Advertise(r, k) ==
  /\ Owns(r, k)
  /\ advertised' = advertised \cup {<<r, k>>}
  /\ UNCHANGED objects

Next ==
  \/ \E k \in Keys, o \in Objects : Claim(k, o)
  \/ \E r \in Runs, k \in Keys : Advertise(r, k)

Spec == Init /\ [][Next]_vars

=============================================================================
