------------------------------ MODULE ShiftCycle ------------------------------
(***************************************************************************)
(* What the gear node promises of its two actuators, whatever it hears: a  *)
(* push of the lever is always followed by one return stroke in the other  *)
(* direction, the ignition is cut only during a push upwards and is back   *)
(* before the lever returns, and between two strokes the motor brakes.     *)
(***************************************************************************)
VARIABLES
  stroke,   \* "rest", "push", "turn", "return" or "nudge"
  dir,      \* the direction of the last push
  motor,
  cut

vars == <<stroke, dir, motor, cut>>

Direction == {"UP", "DOWN"}
Other(d) == IF d = "UP" THEN "DOWN" ELSE "UP"

Init ==
  /\ stroke = "rest"
  /\ dir \in Direction
  /\ motor = "STOP"
  /\ cut = FALSE

Push(d) ==
  /\ stroke = "rest"
  /\ stroke' = "push"
  /\ dir' = d
  /\ motor' = d
  /\ cut' = (d = "UP")

\* The end of a push is a short stop, or the return at once.
Turn ==
  /\ stroke = "push"
  /\ stroke' = "turn"
  /\ motor' = "STOP"
  /\ cut' = FALSE
  /\ UNCHANGED dir

Return ==
  /\ stroke \in {"push", "turn"}
  /\ stroke' = "return"
  /\ motor' = Other(dir)
  /\ cut' = FALSE
  /\ UNCHANGED dir

Nudge(d) ==
  /\ stroke = "rest"
  /\ stroke' = "nudge"
  /\ motor' = d
  /\ UNCHANGED <<dir, cut>>

Rest ==
  /\ stroke \in {"return", "nudge"}
  /\ stroke' = "rest"
  /\ motor' = "STOP"
  /\ UNCHANGED <<dir, cut>>

Next ==
  \/ \E d \in Direction : Push(d) \/ Nudge(d)
  \/ Turn \/ Return \/ Rest

Spec == Init /\ [][Next]_vars

=============================================================================
