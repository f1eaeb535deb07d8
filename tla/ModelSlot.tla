----------------------------- MODULE ModelSlot -----------------------------
(***************************************************************************)
(* What the engine promises its callers: one slot for a model, changed     *)
(* only while no generate runs in it, and every generate runs in the slot  *)
(* holding the model it asked for from its first moment to its last.       *)
(* Engine implements it (Engine.tla: Slot).                                *)
(***************************************************************************)
CONSTANTS Clients, Models, None

VARIABLES resident,   \* the model in the slot, or None
          using       \* the model each client is generating with, or None

vars == <<resident, using>>

Init ==
  /\ resident = None
  /\ using = [c \in Clients |-> None]

Unused == \A c \in Clients : using[c] = None

\* an empty slot takes a model; a swap is an Evict and a Load
Load(m) ==
  /\ Unused
  /\ resident = None
  /\ resident' = m
  /\ UNCHANGED using

Evict ==
  /\ Unused
  /\ resident' = None
  /\ UNCHANGED using

Begin(c, m) ==
  /\ Unused
  /\ resident = m
  /\ using' = [using EXCEPT ![c] = m]
  /\ UNCHANGED resident

End(c) ==
  /\ using[c] # None
  /\ using' = [using EXCEPT ![c] = None]
  /\ UNCHANGED resident

Next ==
  \/ \E m \in Models : Load(m)
  \/ Evict
  \/ \E c \in Clients, m \in Models : Begin(c, m)
  \/ \E c \in Clients : End(c)

Fairness == \A c \in Clients : WF_vars(End(c))

\* the safety part, and with it the promise that a generate ends
Safety == Init /\ [][Next]_vars
Spec == Safety /\ Fairness

=============================================================================
