---------------------------- MODULE Peripherals -----------------------------
(***************************************************************************)
(* The drivers that set up the microcontroller's peripherals: timer.c,     *)
(* pwm.c, sysclock_init, adc.c, the H-bridge of the gear node and the      *)
(* revolution counter of the steering wheel.                               *)
(*                                                                         *)
(* A register is the set of its bits that are one.  The bits of timer n    *)
(* are named without n: timers 0 and 2 have one control register, timers 1 *)
(* and 3 two, which share their mode bits.                                 *)
(***************************************************************************)
EXTENDS Integers

CONSTANTS
  Timers,       \* subset of 0 .. 3
  Prescalars,   \* names of prescalers that a program asks for
  Modes,        \* sets of mode bits that a program asks for
  Channels,     \* numbers of ADC channels
  Rpms,         \* engine speeds (16 bits, signed)
  MaxCalls      \* bound on the calls of drivers

\* The prescalers of timer.h; timer 2 has two divisions more and no external clock.
PrescalarsOf(t) == {"stop", "1", "8", "64", "256", "1024"}
                   \cup (IF t = 2 THEN {"32", "128"} ELSE {"falling", "rising"})

PeripheralsAssumption ==
  /\ Timers \subseteq 0 .. 3
  /\ Prescalars \subseteq PrescalarsOf(1) \cup PrescalarsOf(2)
  /\ Modes \subseteq SUBSET {"WGM0", "WGM1", "WGM2", "WGM3"}
  /\ Channels \subseteq Nat /\ Rpms \subseteq Int /\ MaxCalls \in Nat

VARIABLES
  tccra, tccrb, \* control registers of the timers
  adcsra, admux,
  ddra, porta,  \* pins of the H-bridge: outputs, and those that are high
  ocr1a, ocr2a, \* compare registers: duty of the motor, and the rev counter
  converting,   \* adc_read waits for its conversion
  adc,          \* the channel asked for, and the one that ADC was converted from
  fault,        \* the halves of the H-bridge that report a fault
  asked,        \* of each timer: the driver that set it up last, or the prescaler and
                \* the mode that the program has asked for since
  bridge,       \* the last thing the H-bridge was told
  faulty,       \* the last answer of vnh2sp30_is_faulty
  calls
vars == <<tccra, tccrb, adcsra, admux, ddra, porta, ocr1a, ocr2a, converting, adc,
          fault, asked, bridge, faulty, calls>>
timers == <<tccra, tccrb>>
adcs == <<adcsra, admux, converting, adc>>
pins == <<ddra, porta, ocr1a, fault, bridge, faulty>>

CS == {"CS0", "CS1", "CS2"}
WGM_A == {"WGM0", "WGM1"}
WGM_B == {"WGM2", "WGM3"}
COM == {"COM0", "COM1"}
ADPS == {"ADPS0", "ADPS1", "ADPS2"}
REFS == {"REFS0", "REFS1"}
MUX == {"MUX0", "MUX1", "MUX2"}
TwoRegisters(t) == t \in {1, 3}
\* The bits of timer.h for a prescaler: it gives 1024 the bits of a falling edge.
PrescalarBits(t, name) ==
  CASE name = "stop" -> {} [] name = "1" -> {"CS0"} [] name = "8" -> {"CS1"}
    [] name = "32" -> {"CS0", "CS1"} [] name = "128" -> {"CS0", "CS2"}
    [] name = "64" -> IF t = 2 THEN {"CS2"} ELSE {"CS0", "CS1"}
    [] name = "256" -> IF t = 2 THEN {"CS1", "CS2"} ELSE {"CS2"}
    [] name = "1024" -> IF t = 2 THEN CS ELSE {"CS1", "CS2"}
    [] name = "falling" -> {"CS1", "CS2"} [] OTHER -> CS
\* A timer with one register has two bits for its mode.
ModeBits(t, bits) == IF TwoRegisters(t) THEN bits ELSE bits \cap WGM_A
\* A pin that reads low: an output that is low, or an input with a fault.
Half(pin) == IF pin = "DIAGA" THEN "A" ELSE "B"
Low(pin) == IF pin \in ddra THEN pin \notin porta ELSE Half(pin) \in fault

-----------------------------------------------------------------------------
\* SET_REGISTER_BITS; slip: the register is not cleared before.
SetBitsOnly(register, bits, mask) == register \cup (bits \cap mask)
SetRegisterBits(register, bits, mask) == (register \ mask) \cup (bits \cap mask)

Init ==
  /\ tccra = [t \in 0 .. 3 |-> {}] /\ tccrb = [t \in 0 .. 3 |-> {}]
  /\ adcsra = {} /\ admux = {} /\ converting = FALSE /\ adc = [channel |-> 0, mux |-> {}]
  /\ ddra = {} /\ porta = {} /\ ocr1a = 0 /\ ocr2a = 0 /\ fault = {}
  /\ asked = [t \in 0 .. 3 |-> [by |-> "nobody", prescalar |-> {}, mode |-> {}]]
  /\ bridge = "off" /\ faulty = FALSE /\ calls = 0

\* A driver sets up the whole of timer t, or it is nobody's.
SetUpBy(driver, t) ==
  asked' = [asked EXCEPT ![t] = [by |-> driver, prescalar |-> {}, mode |-> {}]]

Called == ~converting /\ calls < MaxCalls /\ calls' = calls + 1

\* The prescaler and the mode of timer t, over registers a and b.
WithPrescalar(t, bits) ==
  IF TwoRegisters(t) THEN [a |-> tccra[t], b |-> SetRegisterBits(tccrb[t], bits, CS)]
                     ELSE [a |-> SetRegisterBits(tccra[t], bits, CS), b |-> tccrb[t]]
WithMode(t, r, bits) ==
  [a |-> SetRegisterBits(r.a, bits, WGM_A),
   b |-> IF TwoRegisters(t) THEN SetRegisterBits(r.b, bits, WGM_B) ELSE r.b]
Store(t, r) == tccra' = [tccra EXCEPT ![t] = r.a] /\ tccrb' = [tccrb EXCEPT ![t] = r.b]

timer_set_prescalar(t, name) ==
  /\ Called /\ name \in PrescalarsOf(t)
  /\ Store(t, WithPrescalar(t, PrescalarBits(t, name)))
  /\ asked' = [asked EXCEPT ![t] = [by |-> "nobody", prescalar |-> {name}, mode |-> @.mode]]
  /\ UNCHANGED <<adcs, pins, ocr2a>>

timer_set_waveform_generation_mode(t, bits) ==
  /\ Called
  /\ Store(t, WithMode(t, [a |-> tccra[t], b |-> tccrb[t]], bits))
  /\ asked' = [asked EXCEPT ![t] = [by |-> "nobody", prescalar |-> @.prescalar, mode |-> {bits}]]
  /\ UNCHANGED <<adcs, pins, ocr2a>>

\* A timer made to drive a pin, with ICR as its top.
PwmInit(t, mode) ==
  LET r == WithMode(t, WithPrescalar(t, PrescalarBits(t, "64")), mode) IN
  /\ Store(t, [r EXCEPT !.a = SetRegisterBits(r.a, {"COM1"}, COM)])
  /\ SetUpBy("pwm", t)
pwm_PE5_init == Called /\ PwmInit(3, {"WGM1", "WGM2", "WGM3"}) /\ UNCHANGED <<adcs, pins, ocr2a>>

sysclock_init ==
  /\ Called
  /\ Store(3, [a |-> {}, b |-> {"WGM2", "CS0"}])
  /\ SetUpBy("clock", 3)
  /\ UNCHANGED <<adcs, pins, ocr2a>>

-----------------------------------------------------------------------------
\* The revolution counter.  rpm_init only sets bits, and CS1 twice, which is an eighth
\* of the clock where its comment says a 64th (rpm.c:46); a timer that others have
\* used keeps some of their bits.
rpm_init ==
  /\ Called
  /\ tccra' = [tccra EXCEPT ![2] = @ \cup {"WGM0", "WGM1", "CS1", "COM1"}]
  /\ SetUpBy(IF tccra[2] = {} \/ asked[2].by = "rpm" THEN "rpm" ELSE "nobody", 2)
  /\ ocr2a' = 0
  /\ UNCHANGED <<tccrb, adcs, pins>>

\* map of utils.c, whose division truncates.
Map(x, low, high, top) ==
  LET kept == IF x < low THEN low ELSE IF x > high THEN high ELSE x
  IN ((kept - low) * top) \div (high - low)

set_rpm(rpm, three_states) ==
  /\ Called
  /\ ocr2a' = IF three_states
              THEN CASE rpm > 12500 -> 255 [] rpm \in 12001 .. 12500 -> 125
                     [] rpm \in 11501 .. 12000 -> 65 [] OTHER -> 0
              ELSE Map(rpm, 3300, 13000, 175)
  /\ UNCHANGED <<timers, adcs, pins, asked>>

-----------------------------------------------------------------------------
\* A write to ADCSRA clears ADIF if it writes a one there, as the read, change
\* and write of any other bit does while ADIF is one.
Rewrite(bits) == adcsra' = bits \ {"ADIF"}
MuxOf(channel) == { b \in MUX : \/ b = "MUX0" /\ channel % 2 = 1
                                \/ b = "MUX1" /\ (channel \div 2) % 2 = 1
                                \/ b = "MUX2" /\ (channel \div 4) % 2 = 1 }

adc_init(channel, vref, prescalar) ==
  /\ Called
  /\ admux' = SetRegisterBits(SetRegisterBits(admux, MuxOf(channel), MUX), vref, REFS)
  /\ Rewrite(SetRegisterBits(adcsra, prescalar, ADPS) \cup {"ADEN"})
  /\ UNCHANGED <<timers, asked, pins, ocr2a, converting, adc>>

\* adc_readChannel: the conversion starts, ends, and its flag is seen.
adc_readChannel(channel) ==
  /\ Called /\ "ADEN" \in adcsra
  /\ admux' = SetRegisterBits(admux, MuxOf(channel), MUX)
  /\ Rewrite(adcsra \cup {"ADSC"})
  /\ converting' = TRUE /\ adc' = [adc EXCEPT !.channel = channel]
  /\ UNCHANGED <<timers, asked, pins, ocr2a>>
ConversionEnds ==
  /\ "ADSC" \in adcsra
  /\ adcsra' = (adcsra \ {"ADSC"}) \cup {"ADIF"}
  /\ adc' = [adc EXCEPT !.mux = admux \cap MUX]
  /\ UNCHANGED <<timers, asked, pins, ocr2a, admux, converting, calls>>
adc_read ==
  /\ converting /\ "ADIF" \in adcsra
  /\ Rewrite(adcsra)
  /\ converting' = FALSE
  /\ UNCHANGED <<timers, asked, pins, ocr2a, admux, adc, calls>>

-----------------------------------------------------------------------------
\* The H-bridge.  Both macros that make a diagnosis pin an input name pin A.
vnh2sp30_init ==
  /\ Called
  /\ ddra' = (ddra \cup {"INA", "INB"}) \ {"DIAGA"}
  /\ admux' = SetRegisterBits(admux, {"REFS0"}, REFS)
  /\ Rewrite(adcsra \cup ADPS \cup {"ADEN"})
  /\ PwmInit(1, {"WGM1", "WGM3"})
  /\ UNCHANGED <<porta, ocr1a, ocr2a, fault, bridge, faulty, converting, adc>>

\* The three writes of gear() and of the brakes.
Drive(direction) ==
  /\ Called
  /\ porta' = SetRegisterBits(porta,
       CASE direction = "up" -> {"INB"} [] direction = "down" -> {"INA"}
         [] direction = "vcc" -> {"INA", "INB"} [] OTHER -> {}, {"INA", "INB"})
  /\ ocr1a' = 100 * (2047 \div 100)
  /\ bridge' = direction
  /\ UNCHANGED <<timers, adcs, asked, ocr2a, ddra, fault, faulty>>

vnh2sp30_is_faulty ==
  /\ Called
  /\ faulty' = (Low("DIAGA") \/ Low("DIAGB"))
  /\ UNCHANGED <<timers, adcs, asked, ocr2a, ddra, porta, ocr1a, fault, bridge>>

vnh2sp30_reset ==
  /\ Called
  /\ ddra' = (ddra \cup {"DIAGB"}) \ {"DIAGA"}
  /\ porta' = porta \ {"INA", "INB", "DIAGA", "DIAGB"}
  /\ ocr1a' = 0 /\ bridge' = "gnd"
  /\ UNCHANGED <<timers, adcs, asked, ocr2a, fault, faulty>>

BridgeFails ==
  /\ \E h \in {"A", "B"} : fault' = fault \cup {h}
  /\ fault' # fault
  /\ UNCHANGED <<timers, adcs, asked, ocr2a, ddra, porta, ocr1a, bridge, faulty, calls>>

TimerCalls == \E t \in Timers :
  \/ \E name \in Prescalars : timer_set_prescalar(t, name)
  \/ \E bits \in Modes : timer_set_waveform_generation_mode(t, bits)
AdcCalls == \E c \in Channels :
  \/ \E v \in SUBSET REFS, p \in {{}, {"ADPS1"}} : adc_init(c, v, p)
  \/ adc_readChannel(c)
Next ==
  \/ TimerCalls \/ pwm_PE5_init \/ sysclock_init
  \/ rpm_init \/ \E rpm \in Rpms, three \in BOOLEAN : set_rpm(rpm, three)
  \/ AdcCalls \/ ConversionEnds \/ adc_read
  \/ vnh2sp30_init \/ vnh2sp30_is_faulty \/ vnh2sp30_reset \/ BridgeFails
  \/ \E d \in {"up", "down", "vcc", "gnd"} : Drive(d)
Spec == Init /\ [][Next]_vars

-----------------------------------------------------------------------------
TypeOK ==
  /\ \A t \in 0 .. 3 : tccra[t] \subseteq CS \cup WGM_A \cup COM /\ tccrb[t] \subseteq CS \cup WGM_B
  /\ adcsra \subseteq ADPS \cup {"ADEN", "ADSC", "ADIF"} /\ admux \subseteq MUX \cup REFS
  /\ ocr2a \in 0 .. 255 /\ ocr1a \in 0 .. 2047 /\ calls \in 0 .. MaxCalls

\* The inputs of the H-bridge for each thing it was told to do.
InputsOf(direction) == CASE direction = "up" -> {"INB"} [] direction = "down" -> {"INA"}
                         [] direction = "vcc" -> {"INA", "INB"} [] OTHER -> {}

\* The bits of a timer that a driver needs.
Needs(driver, t) ==
  CASE driver = "clock" -> {"CS0", "WGM2"}
    [] driver = "pwm" -> {"CS0", "CS1", "COM1", "WGM1", "WGM3"} \cup (IF t = 3 THEN {"WGM2"} ELSE {})
    [] OTHER -> {"CS1", "COM1", "WGM0", "WGM1"}
Setting(t) == tccra[t] \cup tccrb[t]

\* Drivers share registers and change them bit by bit.  Whoever used its timer before
\* (for the revolution counter: nobody), a driver has set every bit of it as it needs
\* once it is set up, and they stay so until the program or another driver sets that
\* very timer, as pwm_PE5_init does with the clock's; so do the prescaler and the mode
\* that a program asked for itself.
TimersHold == \A t \in 0 .. 3 :
  /\ asked[t].by # "nobody" => Setting(t) = Needs(asked[t].by, t)
  /\ \A name \in asked[t].prescalar : Setting(t) \cap CS = PrescalarBits(t, name)
  /\ \A bits \in asked[t].mode : Setting(t) \cap (WGM_A \cup WGM_B) = ModeBits(t, bits)

\* A value that adc_read returns is of the channel asked for.
ChannelRead == ~converting => adc.mux = MuxOf(adc.channel)

\* The inputs of the motor are those of the last direction, and a fault that is
\* reported is one unless vnh2sp30_reset has made DIAGB an output: neither it nor
\* vnh2sp30_init makes it an input again.
BridgeTrue ==
  /\ porta \cap {"INA", "INB"} = InputsOf(bridge)
  /\ faulty /\ "DIAGB" \notin ddra => fault # {}

SettingsHold == TimersHold /\ ChannelRead /\ BridgeTrue
=============================================================================
