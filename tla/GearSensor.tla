------------------------------ MODULE GearSensor ------------------------------
(***************************************************************************)
(* The node that watches the gear lever, nodes/GearSensorNode/main.c, down *)
(* to the message objects (MObs) of its CAN controller, as can_broadcast   *)
(* of libat90/can.c fills them.                                            *)
(*                                                                         *)
(* The two paddle buttons are debounced together for 200 ms, longer than   *)
(* any pass of the main loop, so that a press is taken before the next one *)
(* can come.  The main loop looks at its inputs in turn; how far round it  *)
(* is when one changes is left to chance.                                  *)
(***************************************************************************)
EXTENDS Integers

CONSTANT NMob   \* transmit MObs; 5 in the code, the other 10 receive

ASSUME NMobAssumption == NMob \in Nat \ {0}

VARIABLES
  pressed,          \* paddle values whose button_x_pressed flag is set
  stops,            \* the stop buttons: 0, 1 for the rear, 2 for the front
  neutral_pin,      \* the input of the neutral sensor
  last_state, neutral_status,
  mob               \* the transmit MObs

sensorVars == <<pressed, stops, neutral_pin, last_state, neutral_status, mob>>

MObs == 0 .. NMob - 1

SensorInit ==
  /\ pressed = {}
  /\ stops = 0
  /\ neutral_pin = FALSE
  /\ last_state = 0
  /\ neutral_status = FALSE
  /\ mob = [m \in MObs |-> [busy |-> FALSE, id |-> "PADDLE_STATUS", len |-> 0, data |-> 0]]

\* message_info gives a payload to neither GEAR_STOP_BUTTON nor any id it omits.
MsgLength(id) == IF id \in {"PADDLE_STATUS", "NEUTRAL_ENABLED"} THEN 1 ELSE 0

\* A slip: the length is added to what the register holds.
FillAdds(m, id, value) ==
  [mob EXCEPT ![m] = [busy |-> TRUE, id |-> id,
                      len |-> @.len + MsgLength(id),
                      data |-> IF MsgLength(id) > 0 THEN value ELSE @.data]]

\* MOB_SET_DLC ors the length into the register, where only can_init clears it,
\* and a frame without payload leaves the data of the last one in the MOb.
Fill(m, id, value) ==
  [mob EXCEPT ![m] = [busy |-> TRUE, id |-> id,
                      len |-> IF MsgLength(id) > @.len THEN MsgLength(id) ELSE @.len,
                      data |-> IF MsgLength(id) > 0 THEN value ELSE @.data]]

Free == {m \in MObs : ~mob[m].busy}

\* can_broadcast takes the first free MOb; without one the message is gone, and
\* the node does not look at the result.
Broadcast(id, value) ==
  \/ Free = {} /\ UNCHANGED mob
  \/ \E m \in Free : (\A k \in Free : m <= k) /\ mob' = Fill(m, id, value)

-----------------------------------------------------------------------------
\* The interrupt of a paddle button, and its flag in the main loop.
PressPaddle ==
  /\ pressed = {}
  /\ \E value \in {0, 1} : pressed' = {value}
  /\ UNCHANGED <<stops, neutral_pin, last_state, neutral_status, mob>>

SendPaddle ==
  /\ \E value \in pressed : Broadcast("PADDLE_STATUS", value) /\ pressed' = pressed \ {value}
  /\ UNCHANGED <<stops, neutral_pin, last_state, neutral_status>>

MoveLever ==
  /\ stops' \in (0 .. 2) \ {stops}
  /\ UNCHANGED <<pressed, neutral_pin, last_state, neutral_status, mob>>

SendStop ==
  /\ stops # last_state
  /\ last_state' = stops
  /\ Broadcast("GEAR_STOP_BUTTON", stops)
  /\ UNCHANGED <<pressed, stops, neutral_pin, neutral_status>>

SwitchNeutral ==
  /\ neutral_pin' = ~neutral_pin
  /\ UNCHANGED <<pressed, stops, last_state, neutral_status, mob>>

SendNeutral ==
  /\ neutral_pin # neutral_status
  /\ neutral_status' = neutral_pin
  /\ Broadcast("NEUTRAL_ENABLED", IF neutral_pin THEN 1 ELSE 0)
  /\ UNCHANGED <<pressed, stops, neutral_pin, last_state>>

SensorStep == SendPaddle \/ SendStop \/ SendNeutral

=============================================================================
