-------------------------- MODULE GearShift_proofs --------------------------
(***************************************************************************)
(* The gear node keeps its actuators safe and forgets what it was told     *)
(* while busy, for every number of MObs and of inputs.  The proofs concern *)
(* the control of the node: of the frames they use only the stamp late.    *)
(***************************************************************************)
EXTENDS GearShift, SequenceTheorems, TLAPS

Places == {"idle", "push", "turn", "return", "settle", "abort", "neutral", "nudge"}

\* The ignition is cut exactly during a push upwards, and in a main loop the
\* motor brakes.
Actuators ==
  /\ at \in Places /\ shift \in Direction /\ ignition_cut \in BOOLEAN
  /\ at = "push" => (ignition_cut <=> shift = "UP")
  /\ at # "push" => ~ignition_cut
  /\ at \in {"idle", "neutral"} => motor = "STOP"

\* What the environment does to the node: its receive buffer grows.
LEMMA OthersLeaveNode ==
  ASSUME Buttons \/ SensorSends \/ WheelSends \/ BusTransmits
  PROVE  at' = at /\ shift' = shift /\ motor' = motor /\ ignition_cut' = ignition_cut
<1>1. Buttons \/ SensorSends => UNCHANGED nodeVars
  BY Zenon DEF Buttons, SensorSends
<1> QED BY <1>1 DEF nodeVars, WheelSends, BusTransmits

\* Each step of the node preserves the invariant of the actuators.
LEMMA NodeKeepsActuators ==
  ASSUME Actuators, NodeStep
  PROVE  Actuators'
<1>1. CASE ReadIdle
  <2>1. ASSUME NEW dir \in Direction, at = "idle", BeginShift(dir) PROVE Actuators'
    <3>1. at' = "push" /\ shift' = dir /\ (ignition_cut' = (dir = "UP" \/ ignition_cut))
      BY <2>1 DEF BeginShift
    <3>2. ~ignition_cut
      BY <2>1 DEF Actuators
    <3>3. ignition_cut' \in BOOLEAN /\ (ignition_cut' <=> shift' = "UP")
      BY <3>1, <3>2, Zenon
    <3> QED BY <3>1, <3>3 DEF Actuators, Places
  <2>2. ASSUME at = "idle", at' \in {"idle", "neutral"}, UNCHANGED <<shift, motor, ignition_cut>>
        PROVE  Actuators'
    BY <2>2 DEF Actuators, Places
  <2>3. \/ \E dir \in Direction : at = "idle" /\ BeginShift(dir)
        \/ at = "idle" /\ at' \in {"idle", "neutral"} /\ UNCHANGED <<shift, motor, ignition_cut>>
    BY <1>1 DEF ReadIdle, Handled, Direction
  <2> QED BY <2>1, <2>2, <2>3
<1>2. CASE ReadPush
  <2>1. CASE UNCHANGED <<at, motor, ignition_cut>>
    BY <1>2, <2>1 DEF ReadPush, Actuators
  <2>2. CASE at' = "turn" /\ UncutIgnition
    <3>1. ignition_cut => shift = "UP"
      BY <1>2 DEF ReadPush, Actuators
    <3>2. ignition_cut' = FALSE
      BY <2>2, <3>1, Zenon DEF UncutIgnition
    <3> QED BY <1>2, <2>2, <3>2 DEF ReadPush, Actuators, Places
  <2> QED BY <1>2, <2>1, <2>2 DEF ReadPush
<1>3. CASE PushTimeOut
  BY <1>3 DEF PushTimeOut, UncutIgnition, Actuators, Places, Direction
<1>4. CASE Turn
  BY <1>4 DEF Turn, Actuators, Places
<1>5. CASE ReadReturn
  BY <1>5 DEF ReadReturn, Actuators, Places
<1>6. CASE EndShift
  BY <1>6 DEF EndShift, Handled, Actuators, Places
<1>7. CASE ReadNeutral
  BY <1>7 DEF ReadNeutral, Handled, Actuators, Places
<1>8. CASE EndNudge
  BY <1>8 DEF EndNudge, Actuators, Places
<1> QED BY <1>1, <1>2, <1>3, <1>4, <1>5, <1>6, <1>7, <1>8 DEF NodeStep

\* The invariant of the actuators holds in every reachable state.
THEOREM ActuatorsInvariance == Spec => []Actuators
<1>1. Init => Actuators
  BY DEF Init, NodeInit, Actuators, Places, Direction
<1>2. Actuators /\ [Next]_vars => Actuators'
  <2> SUFFICES ASSUME Actuators, [Next]_vars PROVE Actuators'
    OBVIOUS
  <2>1. CASE NodeActs
    BY <2>1, NodeKeepsActuators DEF NodeActs
  <2>2. CASE Buttons \/ SensorSends \/ WheelSends \/ BusTransmits
    BY <2>2, OthersLeaveNode DEF Actuators
  <2>3. CASE UNCHANGED vars
    BY <2>3 DEF vars, nodeVars, Actuators
  <2> QED BY <2>1, <2>2, <2>3 DEF Next
<1> QED BY <1>1, <1>2, PTL DEF Spec

\* Back in a main loop, the motor brakes and the engine runs
\* (GearNode/main.c:173-273).
THEOREM RestSafe == Spec => []RestIsSafe
<1>1. Actuators => RestIsSafe
  BY DEF Actuators, RestIsSafe
<1> QED BY <1>1, ActuatorsInvariance, PTL

-----------------------------------------------------------------------------
\* The node drives its actuators as ShiftCycle says (GearNode/main.c:85-292):
\* a step of the node is a step of the cycle, or changes nothing it sees.
LEMMA NodeStepsCycle ==
  ASSUME Actuators, NodeStep
  PROVE  [Cycle!Next]_(Cycle!vars)
<1> USE DEF Stroke, Places, Actuators
<1>1. CASE ReadIdle
  <2>1. ASSUME NEW dir \in Direction, at = "idle", BeginShift(dir) PROVE Cycle!Push(dir)
    BY <2>1 DEF BeginShift, Cycle!Push
  <2>2. ASSUME at = "idle", at' \in {"idle", "neutral"}, UNCHANGED <<shift, motor, ignition_cut>>
        PROVE  UNCHANGED Cycle!vars
    BY <2>2 DEF Cycle!vars
  <2>3. \/ \E dir \in Direction : at = "idle" /\ BeginShift(dir)
        \/ at = "idle" /\ at' \in {"idle", "neutral"} /\ UNCHANGED <<shift, motor, ignition_cut>>
    BY <1>1 DEF ReadIdle, Handled, Direction
  <2> QED BY <2>1, <2>2, <2>3 DEF Cycle!Next, Cycle!Direction, Direction
<1>2. CASE ReadPush
  <2>1. CASE UNCHANGED at
    BY <1>2, <2>1 DEF ReadPush, Cycle!vars
  <2>2. CASE ~UNCHANGED at
    <3>1. Cycle!Turn
      BY <1>2, <2>2 DEF ReadPush, UncutIgnition, Cycle!Turn
    <3> QED BY <3>1 DEF Cycle!Next
  <2> QED BY <2>1, <2>2
<1>3. CASE PushTimeOut
  <2>1. Cycle!Return
    BY <1>3 DEF PushTimeOut, UncutIgnition, Opposite, Cycle!Return, Cycle!Other
  <2> QED BY <2>1 DEF Cycle!Next
<1>4. CASE Turn
  <2>1. Cycle!Return
    BY <1>4 DEF Turn, Opposite, Cycle!Return, Cycle!Other
  <2> QED BY <2>1 DEF Cycle!Next
<1>5. CASE ReadReturn
  BY <1>5 DEF ReadReturn, Cycle!vars
<1>6. CASE EndShift
  <2>1. Cycle!Rest
    BY <1>6 DEF EndShift, Handled, Cycle!Rest
  <2> QED BY <2>1 DEF Cycle!Next
<1>7. CASE ReadNeutral
  <2>1. ASSUME NEW dir \in Direction, motor' = dir, at' = "nudge" PROVE Cycle!Nudge(dir)
    BY <1>7, <2>1 DEF ReadNeutral, Cycle!Nudge
  <2>2. CASE at' = "nudge"
    <3>1. motor' \in Direction
      BY <1>7, <2>2 DEF ReadNeutral, Handled, Direction
    <3> QED BY <2>1, <2>2, <3>1 DEF Cycle!Next, Cycle!Direction, Direction
  <2>3. CASE at' # "nudge"
    BY <1>7, <2>3 DEF ReadNeutral, Handled, Cycle!vars
  <2> QED BY <2>2, <2>3
<1>8. CASE EndNudge
  <2>1. Cycle!Rest
    BY <1>8 DEF EndNudge, Cycle!Rest
  <2> QED BY <2>1 DEF Cycle!Next
<1> QED BY <1>1, <1>2, <1>3, <1>4, <1>5, <1>6, <1>7, <1>8 DEF NodeStep

THEOREM ShiftsAreCycles == Spec => ImplementsShiftCycle
<1>1. Init => Cycle!Init
  BY DEF Init, NodeInit, Cycle!Init, Cycle!Direction, Stroke
<1>2. Actuators /\ [Next]_vars => [Cycle!Next]_(Cycle!vars)
  <2> SUFFICES ASSUME Actuators, [Next]_vars PROVE [Cycle!Next]_(Cycle!vars)
    OBVIOUS
  <2>1. CASE NodeActs
    BY <2>1, NodeStepsCycle DEF NodeActs
  <2>2. CASE Buttons \/ SensorSends \/ WheelSends \/ BusTransmits
    BY <2>2, OthersLeaveNode DEF Cycle!vars, Stroke
  <2>3. CASE UNCHANGED vars
    BY <2>3 DEF vars, nodeVars, Cycle!vars, Stroke
  <2> QED BY <2>1, <2>2, <2>3 DEF Next
<1> QED BY <1>1, <1>2, ActuatorsInvariance, PTL DEF Spec, Cycle!Spec, ImplementsShiftCycle

-----------------------------------------------------------------------------
\* What the node does to its receive buffer: nothing, take a frame, or empty it.
\* A frame that came before the main loop was reached is not seen by it.
LEMMA NodeBuffer ==
  ASSUME rx \in Seq(Frame), NodeStep
  PROVE  /\ rx' \in Seq(Frame)
         /\ rx' = rx \/ rx' = <<>> \/ (rx # <<>> /\ rx' = Tail(rx))
         /\ at' = "idle" => rx' = <<>>
<1>1. /\ rx' = rx \/ rx' = <<>> \/ (rx # <<>> /\ rx' = Tail(rx))
      /\ at' = "idle" => rx' = <<>>
  <2>1. CASE ReadIdle
    BY <2>1 DEF ReadIdle, BeginShift, Handled
  <2>2. CASE ReadPush
    BY <2>2 DEF ReadPush
  <2>3. CASE PushTimeOut \/ Turn \/ EndShift \/ EndNudge
    BY <2>3 DEF PushTimeOut, Turn, EndShift, EndNudge, Handled
  <2>4. CASE ReadReturn
    BY <2>4 DEF ReadReturn
  <2>5. CASE ReadNeutral
    BY <2>5 DEF ReadNeutral, Handled
  <2> QED BY <2>1, <2>2, <2>3, <2>4, <2>5 DEF NodeStep
<1>2. <<>> \in Seq(Frame)
  BY EmptySeq
<1>3. rx # <<>> => Tail(rx) \in Seq(Frame)
  BY HeadTailProperties
<1> QED BY <1>1, <1>2, <1>3

\* Broadcasting keeps the MObs well formed.
LEMMA BroadcastType ==
  ASSUME TypeOK, NEW id \in Ids, NEW value \in Byte, Broadcast(id, value)
  PROVE  mob' \in [MObs -> [busy : BOOLEAN, id : Ids, len : {0, 1}, data : Byte]]
<1> DEFINE Mob == [busy : BOOLEAN, id : Ids, len : {0, 1}, data : Byte]
<1>1. mob \in [MObs -> Mob]
  BY DEF TypeOK
<1>2. CASE UNCHANGED mob
  BY <1>1, <1>2
<1>3. ASSUME NEW m \in MObs, mob' = Fill(m, id, value) PROVE mob' \in [MObs -> Mob]
  <2>1. PICK len \in {0, 1}, data \in Byte :
          mob' = [mob EXCEPT ![m] = [busy |-> TRUE, id |-> id, len |-> len, data |-> data]]
    <3>1. mob[m] \in Mob /\ MsgLength(id) \in {0, 1}
      BY <1>1 DEF MsgLength
    <3>2. /\ (IF MsgLength(id) > mob[m].len THEN MsgLength(id) ELSE mob[m].len) \in {0, 1}
          /\ (IF MsgLength(id) > 0 THEN value ELSE mob[m].data) \in Byte
      BY <3>1
    <3> QED BY <1>3, <3>2 DEF Fill
  <2>2. [busy |-> TRUE, id |-> id, len |-> len, data |-> data] \in Mob
    OBVIOUS
  <2> QED BY <1>1, <2>1, <2>2
<1> QED BY <1>2, <1>3 DEF Broadcast, Free

\* A frame that is delivered is a frame, and is late unless the node is idle.
LEMMA DeliverBuffer ==
  ASSUME rx \in Seq(Frame), NEW id \in Ids, NEW len \in {0, 1}, NEW data \in Byte,
         Deliver(id, len, data)
  PROVE  /\ rx' \in Seq(Frame)
         /\ Len(rx') = Len(rx) + 1
         /\ \A k \in 1 .. Len(rx) : rx'[k] = rx[k]
         /\ rx'[Len(rx) + 1].late = (at # "idle")
<1>1. PICK frame : frame = [id |-> id, len |-> len, data |-> data, late |-> at # "idle"]
  OBVIOUS
<1>2. frame \in Frame
  BY <1>1 DEF Frame
<1>3. rx' = Append(rx, frame)
  BY <1>1 DEF Deliver
<1>4. frame.late = (at # "idle")
  BY <1>1
<1> QED BY <1>2, <1>3, <1>4, AppendProperties

\* The strengthening of NoStaleShift: in the main loop, no frame of the receive
\* buffer came while the node was busy.
Fresh ==
  /\ TypeOK
  /\ at = "idle" => \A k \in 1 .. Len(rx) : ~rx[k].late

LEMMA DeliverKeepsFresh ==
  ASSUME Fresh, NEW id \in Ids, NEW len \in {0, 1}, NEW data \in Byte,
         Deliver(id, len, data), at' = at
  PROVE  rx' \in Seq(Frame) /\ (at' = "idle" => \A k \in 1 .. Len(rx') : ~rx'[k].late)
<1>1. rx \in Seq(Frame)
  BY DEF Fresh, TypeOK
<1>2. /\ rx' \in Seq(Frame) /\ Len(rx') = Len(rx) + 1
      /\ \A k \in 1 .. Len(rx) : rx'[k] = rx[k]
      /\ rx'[Len(rx) + 1].late = (at # "idle")
  BY <1>1, DeliverBuffer
<1>3. Len(rx) \in Nat
  BY <1>1, LenProperties
<1>4. ASSUME at = "idle", NEW k \in 1 .. Len(rx') PROVE ~rx'[k].late
  <2>1. k \in 1 .. Len(rx) \/ k = Len(rx) + 1
    BY <1>2, <1>3
  <2>2. CASE k \in 1 .. Len(rx)
    BY <1>2, <1>4, <2>2 DEF Fresh
  <2>3. CASE k = Len(rx) + 1
    BY <1>2, <1>4, <2>3
  <2> QED BY <2>1, <2>2, <2>3
<1> QED BY <1>2, <1>4

THEOREM FreshInvariance == Spec => []Fresh
<1>1. Init => Fresh
  <2> SUFFICES ASSUME Init PROVE Fresh
    OBVIOUS
  <2>1. mob \in [MObs -> [busy : BOOLEAN, id : Ids, len : {0, 1}, data : Byte]]
    BY DEF Init, SensorInit, Ids, Byte
  <2>2. rx = <<>> /\ rx \in Seq(Frame) /\ Len(rx) = 0
    BY EmptySeq DEF Init, NodeInit
  <2>3. TypeOK
    <3>1. /\ at = "idle" /\ shift = "UP" /\ motor = "STOP" /\ ignition_cut = FALSE
          /\ pressed = {} /\ stops = 0 /\ last_state = 0
          /\ neutral_pin = FALSE /\ neutral_status = FALSE
      BY Zenon DEF Init, NodeInit, SensorInit
    <3>2. ignition_cut \in BOOLEAN /\ neutral_pin \in BOOLEAN /\ neutral_status \in BOOLEAN
      BY <3>1, Zenon
    <3>3. pressed \subseteq {0, 1} /\ stops \in Byte /\ last_state \in Byte
      BY <3>1 DEF Byte
    <3>4. at \in Places /\ shift \in Direction /\ motor \in Direction \cup {"STOP"}
      BY <3>1 DEF Places, Direction
    <3> QED BY <2>1, <2>2, <3>2, <3>3, <3>4, Zenon DEF TypeOK, Places
  <2> QED BY <2>2, <2>3 DEF Fresh
<1>2. Fresh /\ Actuators' /\ [Next]_vars => Fresh'
  <2> SUFFICES ASSUME Fresh, Actuators', [Next]_vars PROVE Fresh'
    OBVIOUS
  <2> USE DEF Fresh
  <2>1. CASE Buttons
    <3>1. pressed' \subseteq {0, 1} /\ stops' \in Byte /\ neutral_pin' \in BOOLEAN
      BY <2>1, Zenon DEF Buttons, PressPaddle, MoveLever, SwitchNeutral, TypeOK, Byte
    <3>2. UNCHANGED <<nodeVars, last_state, neutral_status, mob>>
      BY <2>1, Zenon DEF Buttons, PressPaddle, MoveLever, SwitchNeutral
    <3> QED BY <3>1, <3>2 DEF TypeOK, nodeVars
  <2>2. CASE SensorSends
    <3>1. UNCHANGED <<nodeVars, stops, neutral_pin>> /\ pressed' \subseteq pressed
      BY <2>2 DEF SensorSends, SensorStep, SendPaddle, SendStop, SendNeutral
    <3>2. last_state' \in Byte /\ neutral_status' \in BOOLEAN
      BY <2>2, Zenon DEF SensorSends, SensorStep, SendPaddle, SendStop, SendNeutral, TypeOK
    <3>3. mob' \in [MObs -> [busy : BOOLEAN, id : Ids, len : {0, 1}, data : Byte]]
      <4>1. CASE SendPaddle
        BY <4>1, BroadcastType DEF SendPaddle, TypeOK, Ids, Byte
      <4>2. CASE SendStop
        BY <4>2, BroadcastType DEF SendStop, TypeOK, Ids
      <4>3. CASE SendNeutral
        BY <4>3, BroadcastType DEF SendNeutral, Ids, Byte
      <4> QED BY <2>2, <4>1, <4>2, <4>3 DEF SensorSends, SensorStep
    <3> QED BY <3>1, <3>2, <3>3 DEF TypeOK, nodeVars
  <2>3. CASE WheelSends
    <3>1. PICK id \in Ids, data \in Byte : Deliver(id, 1, data)
      BY <2>3 DEF WheelSends, Ids, Byte
    <3>2. UNCHANGED <<at, shift, motor, ignition_cut, sensorVars>>
      BY <2>3 DEF WheelSends
    <3>3. rx' \in Seq(Frame) /\ (at' = "idle" => \A k \in 1 .. Len(rx') : ~rx'[k].late)
      BY <3>1, <3>2, DeliverKeepsFresh
    <3> QED BY <3>2, <3>3 DEF TypeOK, sensorVars
  <2>4. CASE BusTransmits
    <3>1. PICK m \in MObs : /\ Deliver(mob[m].id, mob[m].len, mob[m].data)
                            /\ mob' = [mob EXCEPT ![m].busy = FALSE]
      BY <2>4 DEF BusTransmits
    <3>2. UNCHANGED <<at, shift, motor, ignition_cut>>
          /\ UNCHANGED <<pressed, stops, neutral_pin, last_state, neutral_status>>
      BY <2>4 DEF BusTransmits
    <3>3. mob[m].id \in Ids /\ mob[m].len \in {0, 1} /\ mob[m].data \in Byte
      BY DEF TypeOK
    <3>4. rx' \in Seq(Frame) /\ (at' = "idle" => \A k \in 1 .. Len(rx') : ~rx'[k].late)
      BY <3>1, <3>2, <3>3, DeliverKeepsFresh
    <3>5. mob' \in [MObs -> [busy : BOOLEAN, id : Ids, len : {0, 1}, data : Byte]]
      BY <3>1 DEF TypeOK
    <3> QED BY <3>2, <3>4, <3>5 DEF TypeOK
  <2>5. CASE NodeActs
    <3>1. /\ rx' \in Seq(Frame)
          /\ at' = "idle" => rx' = <<>>
      BY <2>5, NodeBuffer DEF NodeActs, TypeOK
    <3>2. at' = "idle" => Len(rx') = 0
      BY <3>1, EmptySeq
    <3>3. motor' \in Direction \cup {"STOP"}
      BY <2>5 DEF NodeActs, NodeStep, ReadIdle, BeginShift, ReadPush, PushTimeOut, Turn, ReadReturn,
                  EndShift, ReadNeutral, EndNudge, Opposite, Direction, TypeOK
    <3>4. at' \in Places /\ shift' \in Direction /\ ignition_cut' \in BOOLEAN
      BY DEF Actuators
    <3>5. UNCHANGED sensorVars
      BY <2>5 DEF NodeActs
    <3> QED BY <3>1, <3>2, <3>3, <3>4, <3>5 DEF TypeOK, Places, sensorVars
  <2>6. CASE UNCHANGED vars
    BY <2>6 DEF vars, nodeVars, sensorVars, TypeOK
  <2> QED BY <2>1, <2>2, <2>3, <2>4, <2>5, <2>6 DEF Next
<1> QED BY <1>1, <1>2, ActuatorsInvariance, PTL DEF Spec

\* Every variable keeps its type.
THEOREM TypeCorrect == Spec => []TypeOK
<1>1. Fresh => TypeOK
  BY DEF Fresh
<1> QED BY <1>1, FreshInvariance, PTL

\* No shift answers what arrived while the node was busy (GearNode/main.c:164).
THEOREM NoShiftIsStale == Spec => NoStaleShift
<1>1. Fresh /\ [Next]_vars => [at = "idle" /\ at' = "push" => ~Head(rx).late]_vars
  <2> SUFFICES ASSUME Fresh, Next, at = "idle", at' = "push" PROVE ~Head(rx).late
    OBVIOUS
  <2>1. CASE NodeActs
    <3>1. rx # <<>>
      BY <2>1 DEF NodeActs, NodeStep, ReadIdle, ReadPush, PushTimeOut, Turn, ReadReturn,
                  EndShift, ReadNeutral, EndNudge
    <3>2. rx \in Seq(Frame)
      BY DEF Fresh, TypeOK
    <3>3. Len(rx) \in Nat /\ Len(rx) # 0 /\ Head(rx) = rx[1]
      BY <3>1, <3>2, EmptySeq, LenProperties, HeadTailProperties
    <3>4. 1 \in 1 .. Len(rx)
      BY <3>3
    <3> QED BY <3>3, <3>4 DEF Fresh
  <2>2. CASE Buttons \/ SensorSends \/ WheelSends \/ BusTransmits
    BY <2>2, OthersLeaveNode
  <2> QED BY <2>1, <2>2 DEF Next
<1> QED BY <1>1, FreshInvariance, PTL DEF Spec, NoStaleShift

=============================================================================
