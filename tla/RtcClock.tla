------------------------------ MODULE RtcClock ------------------------------
(***************************************************************************)
(* The real-time clock M41T81S: drivers/m41t81s_rtc.c over the two-wire    *)
(* bus of libat90/twi.c, as nodes/ComNode/main.c uses them.                *)
(*                                                                         *)
(* A register is the set of its bits that are 1.  The driver keeps a copy  *)
(* of the registers, changes bits in the copy and sends the whole byte.    *)
(* One step is one transfer on the bus; the clock ticks between them.      *)
(***************************************************************************)
EXTENDS Integers, Sequences

CONSTANTS
  PowerUp,      \* the registers the chip may power up with
  MaxTicks,     \* bound on the seconds that pass
  MaxFaults,    \* bound on the faults of the bus
  MaxReads      \* bound on the calls of rtc_get_time

Regs == 0 .. 19
Byte == SUBSET (0 .. 7)

RtcAssumption ==
  /\ PowerUp \subseteq [Regs -> Byte]
  /\ MaxTicks \in Nat /\ MaxFaults \in Nat /\ MaxReads \in Nat

VARIABLES
  chip,         \* the registers of the chip
  register_map, \* the driver's copy
  held,         \* whether a failed transfer has left the bus without a stop
  hung,         \* whether the program waits for a byte that will not come
  step,         \* steps of rtc_init done
  t, rc,        \* what rtc_get_time stored last, and its result
  \* what happened, for the properties and the bounds
  truth,        \* the time of the chip when it was last read
  ticks, faults, reads
vars == <<chip, register_map, held, hung, step, t, rc, truth, ticks, faults, reads>>

-----------------------------------------------------------------------------
SECONDS == 1  MINUTES == 2  HOURS == 3  DAY == 4  DATE == 5  MONTH == 6  YEAR == 7
WATCHDOG == 9  ALARM2 == 12  FLAGS == 15

Weight == <<1, 2, 4, 8, 16, 32, 64, 128>>
Num(bits) == LET w(i) == IF i \in bits THEN Weight[i + 1] ELSE 0
             IN w(0) + w(1) + w(2) + w(3) + w(4) + w(5) + w(6) + w(7)
Bits(n) == {i \in 0 .. 7 : (n \div Weight[i + 1]) % 2 = 1}
LowNibble(bits) == bits \cap 0 .. 3
HighNibbleUnshifted(bits) == bits \cap 4 .. 7     \* slip: it keeps its place
HighNibble(bits) == {i - 4 : i \in bits \cap 4 .. 7}

SetRegisterBits(register, bitset, mask) == (register \ mask) \cup (bitset \cap mask)

dec2bcd(n) == Bits(16 * (n \div 10) + (n % 10))
bcd2dec(bits) == Num(LowNibble(bits)) + 10 * Num(HighNibble(bits))

\* The bits of each register that hold the time.
Mask(r) == CASE r \in {SECONDS, MINUTES} -> 0 .. 6
             [] r \in {HOURS, DATE} -> 0 .. 5
             [] r = DAY -> 0 .. 2
             [] r = MONTH -> 0 .. 4
             [] r = YEAR -> 0 .. 7
Time(registers) == [r \in SECONDS .. YEAR |-> bcd2dec(registers[r] \cap Mask(r))]

\* The time rtc_init sets; the day of the week is not given and so 0.
InitialTime == [r \in SECONDS .. YEAR |->
  CASE r = SECONDS -> 16 [] r = MINUTES -> 15 [] r = HOURS -> 14 [] r = DAY -> 0
    [] r = DATE -> 13 [] r = MONTH -> 12 [] r = YEAR -> 11]

\* One change of rtc_init: the bits in the mask become those of the value.
Change(r, mask, value) == [reg |-> r, mask |-> mask, value |-> value]
Clear(r, mask) == Change(r, mask, {})

zero_unused_bits ==
  << Clear(2, {7}), Clear(4, 3 .. 7), Clear(5, {6, 7}), Clear(6, 5 .. 7),
     Clear(FLAGS, {0, 1, 3, 5}), Clear(16, 0 .. 7), Clear(18, 0 .. 7), Clear(19, 0 .. 3) >>
stop_watch_dog_timer == << Clear(WATCHDOG, 0 .. 5) >>
\* CEB, OUT, FT, S, OFIE, AFIE, SQW, ABE and AI: all in the register of the hours.
configure_flags == [i \in 1 .. 9 |-> Clear(HOURS, {<<7, 7, 6, 6, 7, 7, 6, 5, 4>>[i]})]
rtc_set_time(time) == [i \in 1 .. 7 |-> Change(i, Mask(i), dec2bcd(time[i]))]

HT == << Clear(ALARM2, {6}) >>
ST == << Clear(SECONDS, {7}) >>
rtc_init == zero_unused_bits \o stop_watch_dog_timer \o configure_flags
            \o HT \o rtc_set_time(InitialTime) \o ST

-----------------------------------------------------------------------------
(* Transfers.  Every error path returns without a stop condition, and the    *)
(* next start is then a repeated start, which twi_start_write refuses.       *)

Good == 248
\* A transfer ends with a result: the status without its sign if it went
\* well, its negative if not; the status of a bus error is 0.
Transfer(result) ==
  \/ /\ held /\ result = -16
     /\ UNCHANGED <<held, faults>>
  \/ /\ ~held /\ result = Good
     /\ UNCHANGED <<held, faults>>
  \/ /\ ~held /\ faults < MaxFaults
     /\ faults' = faults + 1
     /\ \/ result = -32 /\ held' = TRUE          \* not acknowledged
        \/ result = -56 /\ held' = FALSE         \* arbitration lost
        \/ result = 0 /\ held' = TRUE            \* bus error
Results == {Good, -16, -32, -56, 0}

twi_write_register(r, value) ==
  \E result \in Results :
    /\ Transfer(result)
    /\ chip' = IF result = Good THEN [chip EXCEPT ![r] = value] ELSE chip

\* What the copy holds after a read that ended with a result.  Before the first
\* byte nothing is stored; a failure of the last byte leaves it with garbage;
\* after a bus error, whose result 0 passes for a success, every byte is what
\* the data register happens to hold.  The last register is not read.
Stored(result) ==
  LET copied(n, b) == [r \in Regs |-> IF r < n THEN chip[r] ELSE IF r < 19 THEN b ELSE register_map[r]]
  IN CASE result = Good -> {copied(19, {})}
       [] result = 0 -> {copied(0, b) : b \in {{}, 0 .. 7}}
       [] OTHER -> {register_map, copied(18, 0 .. 7)}

\* Slip: a failure before the first byte is not noticed.
UpdateUnchecked(result) == result = Good /\ UNCHANGED <<held, faults>> /\ register_map' \in {register_map, chip}

update_registers(result) == Transfer(result) /\ register_map' \in Stored(result)

\* The bus is lost in the middle of a read: twi_read waits for a byte for ever.
ReadHangs ==
  /\ ~held /\ faults < MaxFaults /\ faults' = faults + 1
  /\ \E n \in {1, 5} :
       register_map' = [r \in Regs |-> IF r < n THEN chip[r] ELSE register_map[r]]
  /\ hung' = TRUE
  /\ UNCHANGED <<chip, held, step, t, rc, truth, ticks, reads>>

-----------------------------------------------------------------------------
Init ==
  /\ chip \in PowerUp
  /\ register_map = [r \in Regs |-> {}]
  /\ held = FALSE /\ hung = FALSE /\ step = 0
  /\ rc = -1 /\ t = Time(register_map) /\ truth = t
  /\ ticks = 0 /\ faults = 0 /\ reads = 0

\* rtc_init begins: its results are not looked at.
InitReads ==
  /\ step = 0 /\ ~hung
  /\ \/ /\ \E result \in Results : update_registers(result)
        /\ step' = 1
        /\ UNCHANGED <<chip, hung, t, rc, truth, ticks, reads>>
     \/ ReadHangs

InitWrites ==
  /\ step \in 1 .. Len(rtc_init)
  /\ LET c == rtc_init[step]
         value == SetRegisterBits(register_map[c.reg], c.value, c.mask)
     IN /\ register_map' = [register_map EXCEPT ![c.reg] = value]
        /\ twi_write_register(c.reg, value)
  /\ step' = step + 1
  /\ UNCHANGED <<hung, t, rc, truth, ticks, reads>>

rtc_get_time ==
  /\ step > Len(rtc_init) /\ reads < MaxReads /\ ~hung
  /\ \/ /\ reads' = reads + 1
        /\ \E result \in Results :
             /\ update_registers(result)
             /\ rc' = result
             /\ t' = IF result < 0 THEN t ELSE Time(register_map')
        /\ truth' = Time(chip)
        /\ UNCHANGED <<chip, hung, step, ticks>>
     \/ ReadHangs

\* A second passes in a clock that is not stopped; what carries over into the
\* minutes is left out: rtc_init sets 16 seconds.
Tick ==
  /\ ticks < MaxTicks /\ ticks' = ticks + 1
  /\ 7 \notin chip[SECONDS] /\ 6 \notin chip[ALARM2] /\ Time(chip)[SECONDS] < 59
  /\ chip' = [chip EXCEPT ![SECONDS] = SetRegisterBits(@, dec2bcd(Time(chip)[SECONDS] + 1), 0 .. 6)]
  /\ UNCHANGED <<register_map, held, hung, step, t, rc, truth, faults, reads>>

Next == InitReads \/ InitWrites \/ rtc_get_time \/ Tick
Spec == Init /\ [][Next]_vars

-----------------------------------------------------------------------------
TypeOK ==
  /\ chip \in [Regs -> Byte] /\ register_map \in [Regs -> Byte]
  /\ held \in BOOLEAN /\ hung \in BOOLEAN /\ step \in 0 .. (Len(rtc_init) + 1)
  /\ t \in [SECONDS .. YEAR -> 0 .. 165] /\ truth \in [SECONDS .. YEAR -> 0 .. 165]
  /\ rc \in Results \cup {-1}
  /\ ticks \in 0 .. MaxTicks /\ faults \in 0 .. MaxFaults /\ reads \in 0 .. MaxReads

\* Whatever the chip powered up with, rtc_init leaves a clock that runs from
\* the time it sets: no bit of an old time or flag stays in the way, though
\* it clears the flags of other registers in that of the hours.
InitSetsClock ==
  step > Len(rtc_init) /\ faults = 0 =>
    /\ \A r \in MINUTES .. YEAR : Time(chip)[r] = InitialTime[r]
    /\ Time(chip)[SECONDS] \in 16 .. (16 + ticks)
    /\ 7 \notin chip[SECONDS] /\ 6 \notin chip[ALARM2]
    /\ chip[WATCHDOG] \cap 0 .. 5 = {}

\* A positive result of rtc_get_time comes with the time the chip had, however
\* many transfers failed before and whatever they left in the copy.
FreshOrError == rc > 0 => t = truth
=============================================================================
