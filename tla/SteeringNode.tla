---------------------------- MODULE SteeringNode ----------------------------
(***************************************************************************)
(* The steering wheel node, nodes/SteeringNode: the main loop, the two     *)
(* paddle interrupts, the neutral button and the message objects its       *)
(* frames wait in.                                                         *)
(*                                                                         *)
(* The interrupts set bits of one byte that the main loop reads and then   *)
(* clears in a second access.  The system clock is now modulo Width.       *)
(***************************************************************************)
EXTENDS Naturals, Sequences, FiniteSets, FiniteSetsExt

CONSTANTS
  MObs,         \* the message objects can_broadcast may take
  DEBOUNCE_TIME,
  Width,        \* number of values of the clock
  MaxTime, MaxPresses, MaxToggles, MaxFrames,   \* bounds
  RotaryPins,   \* what the four pins of the rotary switch may be
  Received      \* the frames other nodes may send: [id, value], in tenths

Ids == {"CURRENT_GEAR", "ECU_RPM", "ECU_BATTERY_V", "ECU_WATER_TEMP"}

ASSUME SteeringAssumption ==
  /\ MObs \subseteq Nat /\ IsFiniteSet(MObs)
  /\ DEBOUNCE_TIME \in Nat \ {0} /\ Width \in Nat /\ DEBOUNCE_TIME < Width
  /\ MaxTime \in Nat /\ MaxPresses \in Nat /\ MaxToggles \in Nat /\ MaxFrames \in Nat
  /\ \A f \in Received : f.id \in Ids
                         /\ f.value \in Nat
  /\ RotaryPins \subseteq 0 .. 15

Paddles == {"up", "down"}

VARIABLES
  pc,           \* where the main loop is
  now,          \* milliseconds since the start
  state,        \* paddleshift.c: the paddles pressed
  st,           \* paddle_state: what it has read of state
  last_time,    \* paddleshift.c: the clock at the last press
  button,       \* the pin of the neutral button
  last_state,   \* neutral.c: what was read of it last
  mob,          \* the frame in each message object, or None
  rb,           \* frames received and not read yet
  fstate,       \* the last value of each id
  shown         \* gear digit, warning lights, right and left display

\* What happened so far, for the properties and the bounds.
VARIABLES
  presses,      \* the times of the presses that counted
  told,         \* paddles broadcast
  merged,       \* presses of a paddle that was already waiting
  disturbed,    \* a press came between the reading and the clearing, or a
                \* broadcast found no free message object
  toggles, frames,
  came,         \* the value of the last frame of each id that came
  heard,        \* the last NEUTRAL_ENABLED on the bus
  overtaken     \* two of them waited together, or one was refused
nodeVars == <<pc, state, st, last_time, last_state, fstate, shown>>
historyVars == <<presses, told, merged, disturbed, toggles, frames, came, heard, overtaken>>
vars == <<nodeVars, now, button, mob, rb, historyVars>>

None == [id |-> "none", value |-> {}]
get_tick == now % Width

-----------------------------------------------------------------------------
(* update_warning_light, in tenths of a volt and of a degree.                *)
Warning(id, value) ==
  CASE id = "ECU_BATTERY_V" /\ value < 110 -> "BLUE"
    [] id = "ECU_BATTERY_V" /\ value < 127 -> "RED"
    [] id = "ECU_WATER_TEMP" /\ value > 1150 -> "BLUE"
    [] id = "ECU_WATER_TEMP" /\ value > 1100 -> "RED"
    [] OTHER -> "OFF"

\* rot_read: the table of main's rotary switch reverses the four bits.
rot_read(pins) == 8 * (pins % 2) + 4 * ((pins \div 2) % 2) + 2 * ((pins \div 4) % 2) + (pins \div 8)

\* What the left display shows; most positions of the switch leave it as it is.
LeftDisplay(rotary, dip) ==
  CASE rotary \in 0 .. 1 -> fstate["ECU_BATTERY_V"]
    [] rotary \in 10 .. 11 -> dip
    [] rotary \in 12 .. 13 -> fstate["ECU_RPM"] \div 100
    [] OTHER -> shown.left

Init ==
  /\ pc = "frames" /\ now = 0
  /\ state = {} /\ st = {} /\ last_time = 0
  /\ button = FALSE /\ last_state = FALSE
  /\ mob = [m \in MObs |-> None] /\ rb = <<>>
  /\ fstate = [id \in Ids |-> 0] /\ came = [id \in Ids |-> <<>>]
  /\ shown = [gear |-> 0, rpm |-> 0, battery |-> "OFF", water |-> "OFF", right |-> 0, left |-> 0]
  /\ presses = <<>> /\ told = 0 /\ merged = 0 /\ disturbed = FALSE
  /\ toggles = 0 /\ frames = 0 /\ heard = FALSE /\ overtaken = FALSE

\* can_broadcast: the lowest free message object; none free is an error that
\* the main loop does not look at.
Free == {m \in MObs : mob[m] = None}
can_broadcast(frame) ==
  mob' = IF Free = {} THEN mob ELSE [mob EXCEPT ![Min(Free)] = frame]

-----------------------------------------------------------------------------
(* The main loop.                                                            *)

\* Slip: the other frames in the ring are dropped.
HandleOne ==
  /\ pc = "frames" /\ rb # <<>>
  /\ fstate' = [fstate EXCEPT ![Head(rb).id] = Head(rb).value]
  /\ shown' = [shown EXCEPT !.water = IF Head(rb).id = "ECU_WATER_TEMP"
                                      THEN Warning(Head(rb).id, Head(rb).value) ELSE @]
  /\ rb' = <<>>
  /\ UNCHANGED <<pc, state, st, last_time, last_state, now, button, mob, historyVars>>

\* One frame of the loop over can_has_data, with what is shown of it.
HandleFrame ==
  /\ pc = "frames" /\ rb # <<>>
  /\ LET f == Head(rb) IN
       /\ fstate' = [fstate EXCEPT ![f.id] = f.value]
       /\ shown' = [shown EXCEPT
            !.gear    = IF f.id = "CURRENT_GEAR" THEN f.value ELSE @,
            !.rpm     = IF f.id = "ECU_RPM" THEN f.value ELSE @,
            !.battery = IF f.id = "ECU_BATTERY_V" THEN Warning(f.id, f.value) ELSE @,
            !.water   = IF f.id = "ECU_WATER_TEMP" THEN Warning(f.id, f.value) ELSE @]
  /\ rb' = Tail(rb)
  /\ UNCHANGED <<pc, state, st, last_time, last_state, now, button, mob, historyVars>>

\* paddle_state reads the byte ...
PaddleRead ==
  /\ pc = "frames" /\ rb = <<>>
  /\ st' = state
  /\ pc' = "clear"
  /\ UNCHANGED <<state, last_time, last_state, fstate, shown, now, button, mob, rb, historyVars>>

\* Slip: the byte is not cleared.
ClearNothing ==
  /\ pc = "clear" /\ pc' = "neutral" /\ st' = {}
  /\ IF st = {} THEN UNCHANGED <<mob, told, disturbed>>
     ELSE /\ can_broadcast([id |-> "PADDLE_STATUS", value |-> st])
          /\ told' = told + Cardinality(st) /\ disturbed' = (disturbed \/ Free = {})
  /\ UNCHANGED <<state, last_time, last_state, fstate, shown, now, button, rb,
                 presses, merged, toggles, frames, came, heard, overtaken>>

\* ... and clears it; main broadcasts what was read.
PaddleClear ==
  /\ pc = "clear"
  /\ state' = {}
  /\ IF st = {} THEN UNCHANGED <<mob, told, disturbed>>
     ELSE /\ can_broadcast([id |-> "PADDLE_STATUS", value |-> st])
          /\ told' = IF Free = {} THEN told ELSE told + Cardinality(st)
          /\ disturbed' = (disturbed \/ Free = {})
  /\ st' = {}
  /\ pc' = "neutral"
  /\ UNCHANGED <<last_time, last_state, fstate, shown, now, button, rb,
                 presses, merged, toggles, frames, came, heard, overtaken>>

\* Slip: what the button was before is broadcast.
NeutralOld ==
  /\ can_broadcast([id |-> "NEUTRAL_ENABLED", value |-> {last_state}])
  /\ overtaken' = (overtaken \/ Free = {} \/ \E m \in MObs : mob[m].id = "NEUTRAL_ENABLED")

NeutralChanged ==
  /\ can_broadcast([id |-> "NEUTRAL_ENABLED", value |-> {button}])
  /\ overtaken' = (overtaken \/ Free = {} \/ \E m \in MObs : mob[m].id = "NEUTRAL_ENABLED")

\* neutral_state_has_changed, not debounced, and the displays.
Neutral ==
  /\ pc = "neutral"
  /\ IF button # last_state THEN NeutralChanged ELSE UNCHANGED <<mob, overtaken>>
  /\ last_state' = button
  /\ \E pins \in RotaryPins :
       shown' = [shown EXCEPT !.right = fstate["ECU_WATER_TEMP"],
                              !.left = LeftDisplay(rot_read(pins), 0)]
  /\ pc' = "frames"
  /\ UNCHANGED <<state, st, last_time, fstate, now, button, rb,
                 presses, told, merged, disturbed, toggles, frames, came, heard>>

-----------------------------------------------------------------------------
(* The interrupts of the paddles, at any moment.                             *)

Elapsed == (get_tick + Width - last_time) % Width >= DEBOUNCE_TIME

Press(p) ==
  /\ Len(presses) < MaxPresses
  /\ Elapsed
  /\ state' = state \cup {p}
  /\ last_time' = get_tick
  /\ presses' = Append(presses, now)
  /\ merged' = IF p \in state THEN merged + 1 ELSE merged
  /\ disturbed' = (disturbed \/ pc = "clear")
  /\ UNCHANGED <<pc, st, last_state, fstate, shown, now, button, mob, rb,
                 told, toggles, frames, came, heard, overtaken>>

-----------------------------------------------------------------------------
(* The surroundings.                                                         *)

Tick ==
  /\ now < MaxTime /\ now' = now + 1
  /\ UNCHANGED <<nodeVars, button, mob, rb, historyVars>>

ToggleButton ==
  /\ toggles < MaxToggles /\ toggles' = toggles + 1
  /\ button' = ~button
  /\ UNCHANGED <<nodeVars, now, mob, rb, presses, told, merged, disturbed, frames, came, heard, overtaken>>

\* The controller sends the frame of the lowest message object in use.
BusSends ==
  LET used == MObs \ Free IN
  /\ used # {}
  /\ mob' = [mob EXCEPT ![Min(used)] = None]
  /\ heard' = IF mob[Min(used)].id = "NEUTRAL_ENABLED" THEN TRUE \in mob[Min(used)].value ELSE heard
  /\ UNCHANGED <<nodeVars, now, button, rb, presses, told, merged, disturbed, toggles, frames, came, overtaken>>

BusBrings ==
  /\ frames < MaxFrames /\ frames' = frames + 1
  /\ \E f \in Received : rb' = Append(rb, f) /\ came' = [came EXCEPT ![f.id] = <<f.value>>]
  /\ UNCHANGED <<nodeVars, now, button, mob, presses, told, merged, disturbed, toggles, heard, overtaken>>

MainStep == HandleFrame \/ PaddleRead \/ PaddleClear \/ Neutral
Next == MainStep \/ (\E p \in Paddles : Press(p)) \/ Tick \/ ToggleButton \/ BusSends \/ BusBrings

Spec == Init /\ [][Next]_vars /\ WF_vars(MainStep) /\ WF_vars(BusSends)

-----------------------------------------------------------------------------
TypeOK ==
  /\ pc \in {"frames", "clear", "neutral"} /\ now \in 0 .. MaxTime
  /\ state \subseteq Paddles /\ st \subseteq Paddles /\ last_time \in 0 .. (Width - 1)
  /\ button \in BOOLEAN /\ last_state \in BOOLEAN /\ heard \in BOOLEAN
  /\ \A m \in MObs : mob[m] = None \/ mob[m].id \in {"PADDLE_STATUS", "NEUTRAL_ENABLED"}
  /\ rb \in Seq(Received) /\ DOMAIN fstate = Ids
  /\ told \in Nat /\ merged \in Nat /\ disturbed \in BOOLEAN /\ overtaken \in BOOLEAN
  /\ toggles \in 0 .. MaxToggles /\ frames \in 0 .. MaxFrames /\ Len(presses) <= MaxPresses

\* Two presses that count are DEBOUNCE_TIME apart, whichever paddles they are
\* of, and also when the clock wraps between them.
Debounced ==
  \A i \in 2 .. Len(presses) : presses[i] - presses[i - 1] >= DEBOUNCE_TIME

\* Every press is broadcast once: no more paddles than presses are told, and
\* a press can be missed only between the two accesses of paddle_state or for
\* want of a message object.
PressesTold ==
  LET waiting == Cardinality(state) + Cardinality(st) IN
  /\ told + merged <= Len(presses)
  /\ ~disturbed => IF pc = "clear" THEN st = state /\ told + merged + Cardinality(st) = Len(presses)
                   ELSE told + merged + waiting = Len(presses)

\* A bounce of a paddle tells nothing and a press of it tells one thing
\* (paddleshift.c:62-97).
PaddlesRight == Debounced /\ PressesTold

\* The warning lights show the last voltage and temperature that came, as soon
\* as no frame of them waits to be read, whatever came in between.
Light(id) == IF id = "ECU_WATER_TEMP" THEN shown.water ELSE shown.battery
LightsCurrent ==
  \A id \in {"ECU_WATER_TEMP", "ECU_BATTERY_V"} :
    (\A i \in DOMAIN rb : rb[i].id # id) =>
      Light(id) = IF came[id] = <<>> THEN "OFF" ELSE Warning(id, came[id][1])

\* Once the neutral button stays as it is, the last NEUTRAL_ENABLED on the bus
\* tells it, unless two of them waited at a time (the one sent last may then be
\* the older) or one found no message object: it is not sent again.
NeutralTold ==
  (toggles = MaxToggles) ~> (overtaken \/ heard = button)
=============================================================================
