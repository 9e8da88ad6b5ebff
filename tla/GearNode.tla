------------------------------- MODULE GearNode -------------------------------
(***************************************************************************)
(* The node that shifts gears, nodes/GearNode/main.c: its main loop,       *)
(* gear_up and gear_down, and the mode in which the paddles only nudge the *)
(* lever towards neutral.                                                  *)
(*                                                                         *)
(* The two shifts mirror each other: the motor pushes the lever in one     *)
(* direction until the stop button reports the end, and returns it in the  *)
(* other until the button is released.  The variable at says where in that *)
(* course the program is; shift is the direction of the push.  Time is     *)
(* left to chance: a delay, or a wait for a frame, may end at any moment.  *)
(***************************************************************************)
EXTENDS Naturals, Sequences

VARIABLES
  at,             \* where the program is
  shift,          \* the direction of the shift in progress
  motor,          \* what gear() last set: "UP", "DOWN" or "STOP"
  ignition_cut,   \* whether the ignition is cut
  rx              \* the frames in the receive buffer of the CAN driver

nodeVars == <<at, shift, motor, ignition_cut, rx>>

Byte == 0 .. 2
Direction == {"UP", "DOWN"}
Opposite(dir) == IF dir = "UP" THEN "DOWN" ELSE "UP"

\* A frame without payload leaves message.data[0] uninitialised.
DataOf(frame) == IF frame.len = 0 THEN Byte ELSE {frame.data}

\* What GEAR_STOP_BUTTON carries when the lever is at the end of the push.
EndOf(dir) == IF dir = "UP" THEN 2 ELSE 1

NodeInit ==
  /\ at = "idle"
  /\ shift = "UP"
  /\ motor = "STOP"
  /\ ignition_cut = FALSE
  /\ rx = <<>>

-----------------------------------------------------------------------------
\* A slip: the handler returns to the main loop without can_init.
HandledNoInit == at' = "idle" /\ rx' = rx

\* The end of a message's handler in the main loop, where can_init empties the
\* receive buffer.
Handled == at' = "idle" /\ rx' = <<>>

BeginShift(dir) ==
  /\ at' = "push"
  /\ shift' = dir
  /\ motor' = dir
  /\ ignition_cut' = (dir = "UP" \/ ignition_cut)
  /\ rx' = Tail(rx)

\* Of the two shifts only gear_up touches the ignition.
UncutIgnition == ignition_cut' = (ignition_cut /\ shift # "UP")

\* The main loop takes a frame.
ReadIdle ==
  /\ at = "idle"
  /\ rx # <<>>
  /\ \E data \in DataOf(Head(rx)) :
       LET id == Head(rx).id
       IN  \/ id = "PADDLE_STATUS" /\ data = 1 /\ BeginShift("UP")
           \/ id = "PADDLE_STATUS" /\ data = 0 /\ BeginShift("DOWN")
           \/ /\ id = "NEUTRAL_ENABLED" /\ data = 1
              /\ at' = "neutral"
              /\ rx' = Tail(rx)
              /\ UNCHANGED <<shift, motor, ignition_cut>>
           \/ /\ \/ id = "PADDLE_STATUS" /\ data = 2
                 \/ id = "NEUTRAL_ENABLED" /\ data # 1
                 \/ id = "GEAR_STOP_BUTTON"
              /\ Handled
              /\ UNCHANGED <<shift, motor, ignition_cut>>

\* The stop button says data while the program waits for want.
StopSays(want) ==
  /\ Head(rx).id = "GEAR_STOP_BUTTON"
  /\ want \in DataOf(Head(rx))

StopSaysNot(want) ==
  \/ Head(rx).id # "GEAR_STOP_BUTTON"
  \/ \E data \in DataOf(Head(rx)) : data # want

\* The first wait of a shift: for the lever to reach the end.
ReadPush ==
  /\ at = "push"
  /\ rx # <<>>
  /\ rx' = Tail(rx)
  /\ \/ /\ StopSays(EndOf(shift))
        /\ at' = "turn"
        /\ motor' = "STOP"
        /\ UncutIgnition
     \/ /\ StopSaysNot(EndOf(shift))
        /\ UNCHANGED <<at, motor, ignition_cut>>
  /\ UNCHANGED shift

\* A slip: the way out of a shift that did not reach the end leaves the
\* ignition cut.
PushTimeOutCut ==
  /\ at = "push"
  /\ at' = "abort"
  /\ motor' = Opposite(shift)
  /\ UNCHANGED <<shift, ignition_cut, rx>>

\* 500 or 300 ms without the end: give up, and take the lever back for 100 ms.
PushTimeOut ==
  /\ at = "push"
  /\ at' = "abort"
  /\ motor' = Opposite(shift)
  /\ UncutIgnition
  /\ UNCHANGED <<shift, rx>>

\* A slip: after the end is reached the motor goes on in the same direction.
TurnSameWay ==
  /\ at = "turn"
  /\ at' = "return"
  /\ motor' = shift
  /\ UNCHANGED <<shift, ignition_cut, rx>>

\* The 50 ms between reaching the end and returning.
Turn ==
  /\ at = "turn"
  /\ at' = "return"
  /\ motor' = Opposite(shift)
  /\ UNCHANGED <<shift, ignition_cut, rx>>

\* The second wait: for the button to be released.
ReadReturn ==
  /\ at = "return"
  /\ rx # <<>>
  /\ rx' = Tail(rx)
  /\ \/ StopSays(0) /\ at' = "settle"
     \/ StopSaysNot(0) /\ UNCHANGED at
  /\ UNCHANGED <<shift, motor, ignition_cut>>

\* A slip: the second wait has no time-out.
NoReturnTimeOut ==
  /\ at \in {"settle", "abort"}
  /\ motor' = "STOP"
  /\ Handled
  /\ UNCHANGED <<shift, ignition_cut>>

\* 200 ms without a release, or the last delay of a shift, ends it.
EndShift ==
  /\ at \in {"return", "settle", "abort"}
  /\ motor' = "STOP"
  /\ Handled
  /\ UNCHANGED <<shift, ignition_cut>>

\* The loop of the neutral mode takes a frame.
ReadNeutral ==
  /\ at = "neutral"
  /\ rx # <<>>
  /\ \E data \in DataOf(Head(rx)) :
       LET id == Head(rx).id
       IN  \/ /\ id = "PADDLE_STATUS" /\ data \in {0, 1}
              /\ at' = "nudge"
              /\ motor' = IF data = 1 THEN "UP" ELSE "DOWN"
              /\ rx' = Tail(rx)
           \/ /\ id = "NEUTRAL_ENABLED" /\ data = 0
              /\ Handled
              /\ UNCHANGED motor
           \/ /\ \/ id = "PADDLE_STATUS" /\ data = 2
                 \/ id = "NEUTRAL_ENABLED" /\ data # 0
                 \/ id = "GEAR_STOP_BUTTON"
              /\ rx' = Tail(rx)
              /\ UNCHANGED <<at, motor>>
  /\ UNCHANGED <<shift, ignition_cut>>

\* The 30 ms of a nudge are over.
EndNudge ==
  /\ at = "nudge"
  /\ at' = "neutral"
  /\ motor' = "STOP"
  /\ UNCHANGED <<shift, ignition_cut, rx>>

NodeStep ==
  \/ ReadIdle
  \/ ReadPush \/ PushTimeOut \/ Turn \/ ReadReturn \/ EndShift
  \/ ReadNeutral \/ EndNudge

=============================================================================
