------------------------------ MODULE EcuValue ------------------------------
(***************************************************************************)
(* The arithmetic of ecu_read_data in ComNode/ecu.c: the bytes of a value  *)
(* become a float, and clamp looks at the bits of some of them.            *)
(*                                                                         *)
(* An int of the processor has 16 bits.  A float has a sign, 8 bits of    *)
(* exponent and 23 of fraction, read in that order as one number; the      *)
(* linear conversions that follow are left out.                            *)
(***************************************************************************)
EXTENDS Integers, Sequences

CONSTANT Bytes    \* values of the bytes that come from the ECU
ValueAssumption == Bytes \subseteq 0 .. 255

VARIABLES
  entry,      \* the entry being read: its length, and whether it is clamped
  len,        \* bytes still to read
  taken,      \* bytes read
  raw_value,  \* the float, which is a whole number until the conversion
  result      \* the float that is returned, or None
vars == <<entry, len, taken, raw_value, result>>

None == <<>>

\* Entries have one, two or four bytes; those that are clamped have two.
Entries == [len : {1, 2, 4}, clamped : {FALSE}] \cup [len : {2}, clamped : {TRUE}]

\* Power[n + 1] is two to the power n.
Power == <<1, 2, 4, 8, 16, 32, 64, 128, 256, 512, 1024, 2048, 4096, 8192, 16384, 32768, 65536,
           131072, 262144, 524288, 1048576, 2097152, 4194304, 8388608, 16777216>>

Int16(n) == ((n + 32768) % 65536) - 32768

\* A shift of an int; one by its width or more leaves nothing.
Shift(byte, n) == IF n < 16 THEN Int16(byte * Power[n + 1]) ELSE 0

Floats == [negative : BOOLEAN, exponent : 0 .. 255, fraction : 0 .. Power[24] - 1]

\* A whole number of at most 24 bits as a float.
Exponent(size) == CHOOSE e \in 0 .. 23 : Power[e + 1] <= size /\ size < Power[e + 2]
Size(n) == IF n < 0 THEN -n ELSE n
FloatBits(n) ==
  IF n = 0 THEN [negative |-> FALSE, exponent |-> 0, fraction |-> 0]
  ELSE LET e == Exponent(Size(n))
       IN [negative |-> n < 0, exponent |-> e + 127,
           fraction |-> (Size(n) - Power[e + 1]) * Power[24 - e]]

\* A slip: 1 << 15 is 32768, as it would be with ints of 32 bits.
AboveBit15(u32) == u32.negative \/ u32.exponent > 0 \/ u32.fraction > Power[16]

\* u32 > (1 << 15): that is the negative int -32768, unsigned 0xFFFF8000.
Above(u32) == u32.negative /\ u32.exponent = 255 /\ u32.fraction > 255 * Power[16]

\* -(0xFFFF - u32) takes 65535 away, which leaves the exponent alone.
clamp(u32) == IF Above(u32) THEN [u32 EXCEPT !.fraction = @ - (Power[17] - 1)] ELSE u32

-----------------------------------------------------------------------------
Init ==
  /\ entry \in Entries /\ len = entry.len
  /\ taken = <<>> /\ raw_value = 0 /\ result = None

ReadByte ==
  /\ len > 0 /\ len' = len - 1
  /\ \E byte \in Bytes : /\ raw_value' = raw_value + Shift(byte, 8 * len')
                         /\ taken' = Append(taken, byte)
  /\ UNCHANGED <<entry, result>>

Convert ==
  /\ len = 0 /\ result = None
  /\ result' = IF entry.clamped THEN clamp(FloatBits(raw_value)) ELSE FloatBits(raw_value)
  /\ UNCHANGED <<entry, len, taken, raw_value>>

\* The next entry of the table.
NextEntry ==
  /\ result # None
  /\ entry' \in Entries /\ len' = entry'.len
  /\ taken' = <<>> /\ raw_value' = 0 /\ result' = None

Next == ReadByte \/ Convert \/ NextEntry
Spec == Init /\ [][Next]_vars

-----------------------------------------------------------------------------
TypeOK ==
  /\ entry \in Entries /\ len \in 0 .. 4 /\ Len(taken) = entry.len - len
  /\ raw_value \in Int /\ Size(raw_value) < Power[17]
  /\ result = None \/ result \in Floats

\* What the bytes stand for: one byte a number from 0, two a signed number. Of
\* four bytes only the last two are left; no value of four bytes has a
\* transport rule.
Signed(b, c) == LET n == 256 * b + c IN IF n < 32768 THEN n ELSE n - 65536
Meaning(bytes) ==
  IF Len(bytes) = 1 THEN bytes[1] ELSE Signed(bytes[Len(bytes) - 1], bytes[Len(bytes)])

\* A value is what its bytes stand for, clamped or not: the sum of the shifted
\* bytes already has a sign, and clamp never finds anything to correct
\* (ecu.c:130-136, 161-163).
ValuesSigned == result # None => result = FloatBits(Meaning(taken))

=============================================================================
