----------------------------- MODULE WheelSpeed -----------------------------
(***************************************************************************)
(* nodes/SensorFrontNode: the wheel interrupts count 16-bit ticks, which   *)
(* the main loop reads and then clears one byte at a time.                 *)
(*                                                                         *)
(* A counter has two digits of the given base (256 in the code); the       *)
(* interrupt cannot be interrupted and increments it whole.                *)
(***************************************************************************)
EXTENDS Naturals, Sequences

CONSTANTS Base, MaxTicks
WheelAssumption == Base \in Nat \ {0, 1} /\ MaxTicks \in Nat

Wheels == {"right", "left"}

VARIABLES
  tick,         \* the counters
  at,           \* accesses of this sample done, or 0 between samples
  copy,         \* what has been read of each counter
  reported,     \* sum of the samples given to wheel_speed
  passed,       \* holes that passed
  late,         \* wheels with a tick between the first reading and the last
                \* clearing, or one that found the counter full
  carried       \* those of them where a tick of the first kind carried into the high byte
vars == <<tick, at, copy, reported, passed, late, carried>>

\* The accesses of main, in the order the compiler gives them: the low byte
\* first when reading, the high byte first when clearing.
Access(w, op, byte) == [wheel |-> w, op |-> op, byte |-> byte]
Reads == << Access("right", "read", "low"), Access("right", "read", "high"),
            Access("left", "read", "low"), Access("left", "read", "high") >>
Clears == << Access("right", "clear", "high"), Access("right", "clear", "low"),
             Access("left", "clear", "high"), Access("left", "clear", "low") >>
ClearsFirst == Clears \o Reads     \* slip
Sample == Reads \o Clears

Value(c) == c["low"] + Base * c["high"]
Zero == [w \in Wheels |-> [b \in {"low", "high"} |-> 0]]

Init ==
  /\ tick = Zero /\ copy = Zero /\ at = 0
  /\ reported = [w \in Wheels |-> 0] /\ passed = reported
  /\ late = {} /\ carried = {}

\* The interrupt of a wheel.
Increment(c) == [c EXCEPT !["low"] = (@ + 1) % Base,
                          !["high"] = IF c["low"] + 1 = Base THEN (@ + 1) % Base ELSE @]
WheelTick(w) ==
  /\ passed[w] < MaxTicks /\ passed' = [passed EXCEPT ![w] = @ + 1]
  /\ tick' = [tick EXCEPT ![w] = Increment(@)]
  /\ late' = IF at = 0 /\ Value(tick[w]) + 1 < Base * Base THEN late ELSE late \cup {w}
  /\ carried' = IF at # 0 /\ tick[w]["low"] + 1 = Base THEN carried \cup {w} ELSE carried
  /\ UNCHANGED <<at, copy, reported>>

\* The next access of a sample; the first when the interval is over.
SampleStep ==
  /\ at < Len(Sample) /\ at' = at + 1
  /\ LET a == Sample[at + 1] IN
       IF a.op = "read"
       THEN copy' = [copy EXCEPT ![a.wheel][a.byte] = tick[a.wheel][a.byte]] /\ UNCHANGED tick
       ELSE tick' = [tick EXCEPT ![a.wheel][a.byte] = 0] /\ UNCHANGED copy
  /\ UNCHANGED <<reported, passed, late, carried>>

Report ==
  /\ at = Len(Sample) /\ at' = 0
  /\ reported' = [w \in Wheels |-> reported[w] + Value(copy[w])]
  /\ UNCHANGED <<tick, copy, passed, late, carried>>

Next == SampleStep \/ Report \/ \E w \in Wheels : WheelTick(w)
Spec == Init /\ [][Next]_vars

-----------------------------------------------------------------------------
TypeOK ==
  /\ tick \in [Wheels -> [{"low", "high"} -> 0 .. (Base - 1)]]
  /\ copy \in [Wheels -> [{"low", "high"} -> 0 .. (Base - 1)]]
  /\ at \in 0 .. Len(Sample)
  /\ reported \in [Wheels -> Nat] /\ passed \in [Wheels -> 0 .. MaxTicks]
  /\ late \subseteq Wheels /\ carried \subseteq late

\* Every hole is counted in exactly one sample, if no interrupt comes between
\* the reading and the clearing of its counter or finds it full; and unless one
\* that comes between carries into the high byte, no more holes are reported than
\* have passed.
HolesCounted ==
  at = 0 => \A w \in Wheels :
    /\ w \notin late => reported[w] + Value(tick[w]) = passed[w]
    /\ w \notin carried => reported[w] + Value(tick[w]) <= passed[w]
=============================================================================
