----------------------------- MODULE Actuation -----------------------------
(***************************************************************************)
(* What the control loop owes the motors: a cycle drives them only if the  *)
(* controller was enabled when its turn came in that cycle, and any other  *)
(* cycle sends pure damping.                                               *)
(***************************************************************************)

VARIABLES
  enabled,  \* the controller may drive
  latched,  \* it was enabled at its turn in this cycle
  out       \* what was sent last

vars == <<enabled, latched, out>>

Init == enabled = FALSE /\ latched \in BOOLEAN /\ out = "nothing"

Switch == enabled' \in BOOLEAN /\ UNCHANGED <<latched, out>>

\* A new cycle starts out without the right to drive.
NewCycle == latched' = FALSE /\ UNCHANGED <<enabled, out>>

Latch == enabled /\ latched' = TRUE /\ UNCHANGED <<enabled, out>>

Send == out' = (IF latched THEN "drive" ELSE "damping") /\ UNCHANGED <<enabled, latched>>

Next == Switch \/ NewCycle \/ Latch \/ Send

Spec == Init /\ [][Next]_vars
=============================================================================
