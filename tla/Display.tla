------------------------------ MODULE Display -------------------------------
(***************************************************************************)
(* The seven-segment display of the steering wheel: the display functions  *)
(* of nodes/SteeringNode/main.c over drivers/max7221_7seg.c.               *)
(*                                                                         *)
(* A digit is the set of its lit segments.  The main loop writes the       *)
(* digits one at a time over the SPI bus; one step is one turn of the loop *)
(* in seg7_disp_str.                                                       *)
(***************************************************************************)
EXTENDS Integers, Sequences, FiniteSetsExt

CONSTANTS
  Values,       \* whole numbers displayed (16 bits)
  Volts,        \* voltages displayed, as the engine sends them: 210 to the volt
  Gears

Word == 65536

DisplayAssumption ==
  /\ \A v \in Values : v \in Nat /\ v < Word
  /\ \A v \in Volts : v \in Nat /\ v < Word \div 2
  /\ Gears \subseteq 0 .. 9

VARIABLES
  digit,        \* the digit registers of the MAX7221
  str, start, end, len,     \* the string being displayed, from its end on
  shown         \* what was displayed last in each field: its value and kind
vars == <<digit, str, start, end, len, shown>>

-----------------------------------------------------------------------------
Segments == {"A", "B", "C", "D", "E", "F", "G"}
DP == "DP"

\* The digits of seg7_disp_char, its letter n; any other is blank.
Shape(c) ==
  CASE c = "0" -> Segments \ {"G"}
    [] c = "1" -> {"B", "C"}
    [] c = "2" -> Segments \ {"C", "F"}
    [] c = "3" -> Segments \ {"E", "F"}
    [] c = "4" -> {"B", "C", "F", "G"}
    [] c = "5" -> Segments \ {"B", "E"}
    [] c = "6" -> Segments \ {"B"}
    [] c = "7" -> {"A", "B", "C"}
    [] c = "8" -> Segments
    [] c = "9" -> Segments \ {"E"}
    [] c = "n" -> Segments \ {"D", "G"}
    [] OTHER -> {}

Lit(c, decimal_point) == Shape(c) \cup IF decimal_point THEN {DP} ELSE {}

\* snprintf of "%u" and of "%u.%u".
Numeral == <<"0", "1", "2", "3", "4", "5", "6", "7", "8", "9">>
Power == <<1, 10, 100, 1000, 10000, 100000>>
Place(n, k) == Numeral[((n \div Power[k + 1]) % 10) + 1]
Places(n) == Min({k \in 1 .. 5 : n < Power[k + 1]})
Decimal(n) == [i \in 1 .. Places(n) |-> Place(n, Places(n) - i)]

\* display_left_f adds 0.01 volt to what is left of a voltage without its whole
\* volts, and takes the tenths of the sum: 10 of them from 0.99 volt on.
TenthOf(raw) == (10 * (raw % 210) + 21) \div 210
DecimalTenths(raw) == Decimal(raw \div 210) \o <<".">> \o Decimal(TenthOf(raw))

\* The voltage that is meant, in tenths.
Rounded(raw) == (10 * raw + 21) \div 210

\* The digits of each field.
Field(f) == CASE f = "left" -> 0 .. 2 [] f = "right" -> 4 .. 6 [] f = "gear" -> 3 .. 3
Fields == {"left", "right", "gear"}
Blank == [value |-> 0, kind |-> "blank"]

-----------------------------------------------------------------------------
\* seg7_init clears all digits.
Init ==
  /\ digit = [d \in 0 .. 7 |-> {}]
  /\ str = <<>> /\ start = 0 /\ end = -1 /\ len = 0
  /\ shown = [f \in Fields |-> Blank]

Idle == end < start

\* seg7_disp_str begins.
DispStr(s, f, value, kind) ==
  /\ str' = s /\ len' = Len(s)
  /\ start' = Min(Field(f)) /\ end' = Max(Field(f))
  /\ shown' = [shown EXCEPT ![f] = [value |-> value, kind |-> kind]]
  /\ UNCHANGED digit

display_right == Idle /\ \E v \in Values : DispStr(Decimal(v), "right", v, "whole")
display_left == Idle /\ \E v \in Values : DispStr(Decimal(v), "left", v, "whole")
display_left_f ==
  Idle /\ \E raw \in Volts : DispStr(DecimalTenths(raw), "left", Rounded(raw),
                                     IF TenthOf(raw) = 10 THEN "carried" ELSE "tenths")

display_gear ==
  /\ Idle
  /\ \E g \in Gears :
       /\ digit' = [digit EXCEPT ![3] = Lit(IF g = 0 THEN "n" ELSE Numeral[g + 1], FALSE)]
       /\ shown' = [shown EXCEPT !["gear"] = [value |-> g, kind |-> "whole"]]
  /\ UNCHANGED <<str, start, end, len>>

\* A dot belongs to the digit before it.
SkipDot ==
  /\ ~Idle /\ len > 0 /\ str[len] = "."
  /\ len' = len - 1
  /\ UNCHANGED <<digit, str, start, end, shown>>

DrawChar ==
  /\ ~Idle /\ len > 0 /\ str[len] # "."
  /\ digit' = [digit EXCEPT ![end] = Lit(str[len], len < Len(str) /\ str[len + 1] = ".")]
  /\ len' = len - 1 /\ end' = end - 1
  /\ UNCHANGED <<str, start, shown>>

Pad ==
  /\ ~Idle /\ len = 0
  /\ digit' = [digit EXCEPT ![end] = Lit("0", FALSE)]
  /\ end' = end - 1
  /\ UNCHANGED <<str, start, len, shown>>

Next == display_right \/ display_left \/ display_left_f \/ display_gear \/ SkipDot \/ DrawChar \/ Pad
Spec == Init /\ [][Next]_vars

-----------------------------------------------------------------------------
TypeOK ==
  /\ digit \in [0 .. 7 -> SUBSET (Segments \cup {DP})]
  /\ start \in {0, 4} /\ end \in -1 .. 6 /\ len \in 0 .. Len(str)
  /\ DOMAIN shown = Fields

\* What a reader takes a digit for: -1 if it is none.
Read(d) == LET fits == {n \in 0 .. 9 : Shape(Numeral[n + 1]) = digit[d] \ {DP}}
           IN IF fits = {} THEN -1 ELSE Max(fits)
Reads(f) == 100 * Read(Min(Field(f))) + 10 * Read(Min(Field(f)) + 1) + Read(Max(Field(f)))

Drawn(f) == shown[f] # Blank /\ (Idle \/ start # Min(Field(f)))
ReadsTrue(f) ==
  /\ Reads(f) = shown[f].value % 1000
  /\ \A d \in Field(f) :
       DP \in digit[d] <=> shown[f].kind = "tenths" /\ d = Max(Field(f)) - 1

\* Each field reads as what it was last given, its last three places of it, with
\* the point of a voltage before its tenths and nowhere else, while the other
\* fields are drawn as well: only the field being drawn may differ, and a voltage
\* of which 0.99 or more is left without its whole volts.
FieldsReadTrue ==
  /\ \A f \in {"left", "right"} : Drawn(f) /\ shown[f].kind # "carried" => ReadsTrue(f)
  /\ shown["gear"].value # 0 => Read(3) = shown["gear"].value
=============================================================================
