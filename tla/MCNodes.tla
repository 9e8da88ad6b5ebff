------------------------------- MODULE MCNodes -------------------------------
(* The steering wheel node and the smaller programs of the car: the wheel speed  *)
(* counters, the heartbeat, the display, the GPS parser, the arithmetic of an     *)
(* engine value, and the drivers of the peripherals.  A behaviour is one of a     *)
(* single component; the others keep their first state.                           *)
EXTENDS SteeringNode

CONSTANTS
  Units,                                                     \* which components are checked
  Base, MaxTicks,                                            \* WheelSpeed
  Period, Check, Timeout, Slack, BeatTime, MaxLost,          \* Heartbeat
  Values, Volts, Gears,                                      \* Display
  Latitudes, MAX_SENTENCE_LEN, MaxSentences, MaxFaults,      \* Gps
  Bytes,                                                     \* EcuValue
  Timers, Prescalars, Modes, Channels, Rpms, MaxCalls        \* Peripherals

VARIABLES
  unit,
  tick, at, copy, reported, passed, late, carried,
  beatNow, timer_sen, sen_at, rec_at, alive, beatRing, timer_rec, beatPc,
  node_state, last_heartbeat, lost, silent, declared,
  digit, str, start, end, len, fields,
  line, reading, s, fix, rc, sent, faults, got,
  entry, entryLen, taken, raw_value, result,
  tccra, tccrb, adcsra, admux, ddra, porta, ocr1a, ocr2a, converting, adc,
  fault, asked, bridge, faulty, calls

Wheel == INSTANCE WheelSpeed
Beat == INSTANCE Heartbeat WITH MaxTime <- BeatTime, now <- beatNow, rb <- beatRing, pc <- beatPc
Seg7 == INSTANCE Display WITH shown <- fields
Fix == INSTANCE Gps
Ecu == INSTANCE EcuValue WITH len <- entryLen
Regs == INSTANCE Peripherals

ASSUME WheelAssumed == Wheel!WheelAssumption
ASSUME HeartbeatAssumed == Beat!HeartbeatAssumption
ASSUME MarginsAssumed == Beat!Margins
ASSUME DisplayAssumed == Seg7!DisplayAssumption
ASSUME GpsAssumed == Fix!GpsAssumption
ASSUME ValueAssumed == Ecu!ValueAssumption
ASSUME RegistersAssumed == Regs!PeripheralsAssumption

wheelVars == <<tick, at, copy, reported, passed, late, carried>>
beatVars == <<beatNow, timer_sen, sen_at, rec_at, alive, beatRing, timer_rec, beatPc,
              node_state, last_heartbeat, lost, silent, declared>>
displayVars == <<digit, str, start, end, len, fields>>
gpsVars == <<line, reading, s, fix, rc, sent, faults, got>>
ecuVars == <<entry, entryLen, taken, raw_value, result>>
regVars == <<tccra, tccrb, adcsra, admux, ddra, porta, ocr1a, ocr2a, converting, adc,
             fault, asked, bridge, faulty, calls>>

\* Frames that light a warning.
MCReceived == {[id |-> "ECU_BATTERY_V", value |-> 120], [id |-> "ECU_WATER_TEMP", value |-> 1101]}
MCModes == {{"WGM1"}, {"WGM0", "WGM3"}}

UnitInit ==
  /\ unit \in Units
  /\ Init /\ Wheel!Init /\ Beat!Init /\ Seg7!Init /\ Fix!Init /\ Ecu!Init /\ Regs!Init
  /\ unit # "value" => entry = [len |-> 1, clamped |-> FALSE]

UnitNext ==
  /\ UNCHANGED unit
  /\ \/ unit = "steering" /\ Next /\ UNCHANGED <<wheelVars, beatVars, displayVars, gpsVars, ecuVars, regVars>>
     \/ unit = "wheels" /\ Wheel!Next /\ UNCHANGED <<vars, beatVars, displayVars, gpsVars, ecuVars, regVars>>
     \/ unit = "beat" /\ Beat!Next /\ UNCHANGED <<vars, wheelVars, displayVars, gpsVars, ecuVars, regVars>>
     \/ unit = "display" /\ Seg7!Next /\ UNCHANGED <<vars, wheelVars, beatVars, gpsVars, ecuVars, regVars>>
     \/ unit = "gps" /\ Fix!Next /\ UNCHANGED <<vars, wheelVars, beatVars, displayVars, ecuVars, regVars>>
     \/ unit = "value" /\ Ecu!Next /\ UNCHANGED <<vars, wheelVars, beatVars, displayVars, gpsVars, regVars>>
     \/ unit = "registers" /\ Regs!Next /\ UNCHANGED <<vars, wheelVars, beatVars, displayVars, gpsVars, ecuVars>>

\* The fairness of SteeringNode!Spec; the other specifications have none.
UnitSpec ==
  /\ UnitInit /\ [][UnitNext]_<<unit, vars, wheelVars, beatVars, displayVars, gpsVars, ecuVars, regVars>>
  /\ WF_vars(unit = "steering" /\ MainStep) /\ WF_vars(unit = "steering" /\ BusSends)

-----------------------------------------------------------------------------
\* What the driver sees is current: the warning lights show the last voltage and
\* temperature that came, and every field of the seven segments reads as what it
\* was last given, while the others are drawn, but for a voltage of which 0.99 or
\* more is left without its whole volts (SteeringNode/main.c:63-231,
\* max7221_7seg.c).
WheelShowsTrue == TypeOK /\ LightsCurrent /\ Seg7!TypeOK /\ Seg7!FieldsReadTrue

\* A wheel's hole is counted in exactly one sample unless its interrupt comes
\* between the reading and the clearing of the counter or finds the counter full
\* (SensorFrontNode/main.c:118-131).
HolesCounted == Wheel!TypeOK /\ Wheel!HolesCounted

\* A running node is never declared unreachable, and a silent one is in time,
\* however late the loops are (heartbeat_rec/main.c, heartbeat_sen/main.c).
Reachable == Beat!TypeOK /\ Beat!AliveIsReachable /\ Beat!SilenceSeen

\* A fix that is returned was sent, and a character lost or changed costs at most
\* two sentences (gps.c).
FixesTrue == Fix!TypeOK /\ Fix!FixWasSent /\ Fix!FaultCostsTwo

\* Whatever its bytes, an engine value is read as the number they stand for,
\* with its sign (ecu.c:130-136, 139-163).
EcuValueTrue == Ecu!TypeOK /\ Ecu!ValuesSigned

\* Over registers that drivers share and change bit by bit, each timer is as the
\* driver needs it that set it up last, until that timer is set again; the ADC reads
\* the channel asked for, and the bridge is driven and diagnosed as told (timer.c,
\* pwm.c, sysclock.c, rpm.c, adc.c, vnh2sp30.c).
SettingsHold == Regs!TypeOK /\ Regs!SettingsHold

=============================================================================
