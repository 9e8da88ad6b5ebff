------------------------------ MODULE MCStorage ------------------------------
(* The log of the communication node and what lies below and beside it: the    *)
(* SD card under its driver, the real-time clock, and the BSON encoder.  A      *)
(* behaviour is one of a single component; the others keep their first state.   *)
EXTENDS LogFile

CONSTANTS
  Units,                                                           \* which of "log", "sd", "rtc", "bson"
  Kinds, Sectors, Blocks, BlockSize, Retries, Timeout, Width, MaxFaults,   \* SdCard
  PowerUp, MaxTicks, BusFaults, MaxReads,                          \* RtcClock
  Elements, Keys, Lengths, Fill, MAX_KEY_LEN, MaxElements          \* Bson

VARIABLES
  unit,
  pc, call, left, res, ms, card_type, rc, block, noinit,
  kind, mode, at, busy, store, buffered, faults, hasty, cut,
  chip, register_map, held, hung, step, t, clockRc, truth, ticks, busFaults, reads,
  phase, mem, len, size, put, key, pos, clobbered, findRc, found

Sd == INSTANCE SdCard WITH buf <- block
Rtc == INSTANCE RtcClock WITH MaxFaults <- BusFaults, rc <- clockRc, faults <- busFaults
Doc == INSTANCE Bson WITH rc <- findRc

ASSUME CardAssumed == Sd!SdAssumption
ASSUME ClockAssumed == Rtc!RtcAssumption
ASSUME DocumentAssumed == Doc!BsonAssumption

sdVars == <<pc, call, left, res, ms, card_type, rc, block, noinit,
            kind, mode, at, busy, store, buffered, faults, hasty, cut>>
rtcVars == <<chip, register_map, held, hung, step, t, clockRc, truth, ticks, busFaults, reads>>
docVars == <<phase, mem, len, size, put, key, pos, clobbered, findRc, found>>

\* Registers of the clock at power-up: all bits 0, all 1, and a clock halted
\* and stopped.
MCPowerUp == { [r \in 0 .. 19 |-> {}], [r \in 0 .. 19 |-> 0 .. 7],
               [r \in 0 .. 19 |-> IF r = 12 THEN {6} ELSE {0, 3, 4, 7}] }

\* Elements of each kind that is written its own way, with keys and values whose
\* bytes look like identifiers, and keys to look for, the last in no document.
K1 == <<1>>
K2 == <<16, 2>>
K3 == <<16, 2, 3>>
E(i, k, v) == [id |-> i, key |-> k, val |-> v]

MCElements ==
  { E(2, K1, <<16>>), E(2, K2, <<>>),                                      \* strings
    E(16, K1, <<16, 1, 0, 2>>), E(16, K3, <<2, 0, 0, 0>>),                 \* 32 bits
    E(18, K2, <<0, 0, 16, 1, 0, 0, 0, 5>>), E(1, K1, <<1, 2, 3, 4, 5, 6, 7, 8>>),   \* 64 bits, double
    E(8, K3, <<1>>), E(10, K1, <<>>),                                      \* bool, null
    E(5, K3, <<16, 1>>), E(5, K1, <<>>),                                   \* binary
    E(3, K2, <<E(8, K1, <<1>>), E(16, K1, <<16, 1, 0, 2>>)>>) }            \* document
MCKeys == {K1, K2, K3, <<7>>}

UnitInit ==
  /\ unit \in Units
  /\ Init /\ (unit # "log" => ~open)
  /\ Sd!Init /\ (unit # "sd" => kind = "MMC" /\ store = [s \in Sectors |-> "a"])
  /\ Rtc!Init /\ (unit # "rtc" => chip = [r \in Rtc!Regs |-> {}])
  /\ Doc!Init /\ (unit # "bson" => len = 5 /\ mem[1] = 0)

UnitNext ==
  /\ UNCHANGED unit
  /\ \/ unit = "log" /\ Next /\ UNCHANGED <<sdVars, rtcVars, docVars>>
     \/ unit = "sd" /\ Sd!Next /\ UNCHANGED <<vars, rtcVars, docVars>>
     \/ unit = "rtc" /\ Rtc!Next /\ UNCHANGED <<vars, sdVars, docVars>>
     \/ unit = "bson" /\ Doc!Next /\ UNCHANGED <<vars, sdVars, rtcVars>>

\* The fairness of SdCard!Spec; the other specifications have none.
UnitSpec ==
  /\ UnitInit /\ [][UnitNext]_<<unit, vars, sdVars, rtcVars, docVars>>
  /\ WF_sdVars(unit = "sd" /\ Sd!DriverStep) /\ WF_sdVars(unit = "sd" /\ Sd!CardReady)

-----------------------------------------------------------------------------
\* Every variable of the four components has its type.
TypesOK == TypeOK /\ Sd!TypeOK /\ Rtc!TypeOK /\ Doc!TypeOK

\* What the SD card driver says of a call that succeeded is true: written blocks
\* are stored, a block read is what the card holds, and an initialised card is
\* ready and addressed its own way, with commands unheard, blocks refused, late
\* answers and a card that loses its supply at any moment.  A write whose card
\* lost it while programming is reported as done all the same: the sectors it
\* was to program then, and no others, may hold anything (mmc_sdcard.c:402-510).
CardAsReported == Sd!WrittenMeansStored /\ Sd!ReadMeansStored /\ Sd!InitMeansReady

\* A sector changes only by a write that names it, or by a loss of supply while
\* the card has a block of that sector to program (mmc_sdcard.c:448-510).
OnlyAskedChanges ==
  [][\A s \in Sectors : store'[s] # store[s] /\ ~hasty =>
       \/ call.op = "write" /\ s \in Sd!Asked /\ store'[s] = call.block
       \/ s \in buffered /\ s \in cut']_sdVars

\* Every call of the SD card driver returns if a busy card becomes ready.
CallsReturn == Sd!CallsReturn

\* Whatever the chip powered up with, rtc_init leaves a clock that runs from the
\* time it sets; and whatever has failed on the bus before, a positive result of
\* rtc_get_time comes with the chip's time (m41t81s_rtc.c:340-470, twi.c:159-239).
ClockTrue == Rtc!InitSetsClock /\ Rtc!FreshOrError

\* In a document that fits its buffer find_key gives a key's element as it was
\* serialized, and refuses a key that is not there (bson.c:231-404).
FindsWhatWasPut == Doc!FindsWhatWasPut

=============================================================================
