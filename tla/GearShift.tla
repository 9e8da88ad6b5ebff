------------------------------ MODULE GearShift ------------------------------
(***************************************************************************)
(* A gear shift across the car: the sensor node of GearSensor and the      *)
(* steering wheel put their messages on the CAN bus, and the gear node of  *)
(* GearNode acts on them while its receive buffer goes on filling.         *)
(***************************************************************************)
EXTENDS GearNode, GearSensor

CONSTANT MaxInputs   \* bound on the number of inputs: buttons, switches, wheel

VARIABLES
  inputs,   \* inputs so far
  said      \* history: the stop state behind each MOb's GEAR_STOP_BUTTON

vars == <<nodeVars, sensorVars, inputs, said>>

Init == NodeInit /\ SensorInit /\ inputs = 0 /\ said = [m \in MObs |-> 0]

Input == inputs < MaxInputs /\ inputs' = inputs + 1

\* The receive interrupt of the gear node.  The stamp late, for the properties
\* only, tells whether the frame came while the node was busy with another.
Deliver(id, len, data) ==
  rx' = Append(rx, [id |-> id, len |-> len, data |-> data, late |-> at # "idle"])

-----------------------------------------------------------------------------
Buttons ==
  /\ Input
  /\ PressPaddle \/ MoveLever \/ SwitchNeutral
  /\ UNCHANGED <<nodeVars, said>>

SensorSends ==
  /\ SensorStep
  /\ said' = [m \in MObs |-> IF mob'[m] # mob[m] THEN stops ELSE said[m]]
  /\ UNCHANGED <<nodeVars, inputs>>

\* The steering wheel sends its own paddles (1 is down, 2 is up) and its own
\* neutral switch, with MObs that never carry a frame without payload.
WheelSends ==
  /\ Input
  /\ \/ \E value \in {1, 2} : Deliver("PADDLE_STATUS", 1, value)
     \/ \E value \in {0, 1} : Deliver("NEUTRAL_ENABLED", 1, value)
  /\ UNCHANGED <<at, shift, motor, ignition_cut, sensorVars, said>>

\* The controller sends the busy MOb with the lowest number, and the transmit
\* interrupt frees it.
BusTransmits ==
  /\ \E m \in MObs \ Free :
       /\ \A k \in MObs \ Free : m <= k
       /\ Deliver(mob[m].id, mob[m].len, mob[m].data)
       /\ mob' = [mob EXCEPT ![m].busy = FALSE]
  /\ UNCHANGED <<at, shift, motor, ignition_cut, inputs, said>>
  /\ UNCHANGED <<pressed, stops, neutral_pin, last_state, neutral_status>>

NodeActs == NodeStep /\ UNCHANGED <<sensorVars, inputs, said>>

Next == Buttons \/ SensorSends \/ WheelSends \/ BusTransmits \/ NodeActs

Spec == Init /\ [][Next]_vars

\* The main loops and the bus run for ever, and every delay and every wait with
\* a time-out ends; nothing makes a button move.
FairSpec ==
  /\ Spec
  /\ WF_vars(SensorSends) /\ WF_vars(BusTransmits)
  /\ WF_vars((ReadIdle \/ ReadNeutral \/ Turn \/ EndNudge) /\ UNCHANGED <<sensorVars, inputs, said>>)
  /\ WF_vars((PushTimeOut \/ EndShift) /\ UNCHANGED <<sensorVars, inputs, said>>)

-----------------------------------------------------------------------------
Ids == {"PADDLE_STATUS", "NEUTRAL_ENABLED", "GEAR_STOP_BUTTON"}
Frame == [id : Ids, len : {0, 1}, data : Byte, late : BOOLEAN]

TypeOK ==
  /\ at \in {"idle", "push", "turn", "return", "settle", "abort", "neutral", "nudge"}
  /\ shift \in Direction /\ motor \in Direction \cup {"STOP"}
  /\ ignition_cut \in BOOLEAN
  /\ rx \in Seq(Frame)
  /\ pressed \subseteq {0, 1}
  /\ stops \in Byte /\ last_state \in Byte
  /\ neutral_pin \in BOOLEAN /\ neutral_status \in BOOLEAN
  /\ mob \in [MObs -> [busy : BOOLEAN, id : Ids, len : {0, 1}, data : Byte]]

\* The gear node drives its actuators as ShiftCycle describes, whatever frames
\* arrive, are garbled or stay away (GearNode/main.c:85-292).
Stroke ==
  CASE at \in {"idle", "neutral"} -> "rest"
    [] at \in {"settle", "abort"} -> "return"
    [] OTHER -> at
Cycle == INSTANCE ShiftCycle WITH stroke <- Stroke, dir <- shift, cut <- ignition_cut
ImplementsShiftCycle == Cycle!Spec

\* Back in a main loop, the motor brakes and the engine runs: no way out of a
\* shift or a nudge forgets an actuator (GearNode/main.c:173-273).
RestIsSafe ==
  at \in {"idle", "neutral"} => motor = "STOP" /\ ~ignition_cut

\* No shift answers a paddle that was moved while the node was still busy: what
\* has piled up meanwhile is thrown away with the receive buffer
\* (GearNode/main.c:164).
NoStaleShift ==
  [][at = "idle" /\ at' = "push" => ~Head(rx).late]_vars

\* The ignition comes back, and a shift comes to its end, even if the stop
\* buttons are never heard (GearNode/main.c:180-189, 200-206, 231-239, 249-255).
ShiftEnds ==
  ignition_cut \/ at \notin {"idle", "neutral"} ~> ~ignition_cut /\ at \in {"idle", "neutral"}

\* GearSensorNode/main.c:146-147 says of what GEAR_STOP_BUTTON carries:
\* "new_state = 2 if front stop-button is pressed." and "new_state = 1 if rear
\* stop-button is pressed."
StopFrameTellsButtons ==
  \A m \in MObs :
    mob[m].busy /\ mob[m].id = "GEAR_STOP_BUTTON"
      => mob[m].len = 1 /\ mob[m].data = said[m]

=============================================================================
