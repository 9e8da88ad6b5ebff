# Verification of the g5-nodes firmware

TLA+ models of the firmware in `../src` (the nodes of a formula-student car:
8-bit AVR micro-controllers on a CAN bus), model-checked with TLC, with theorems
checked by TLAPS. All paths below are relative to `src/`.

    tlc -workers 2 -config MCGearShift.cfg GearShift     # a run
    tlapm GearShift_proofs.tla                           # a proof module

`PROJECT.json` lists the runs, the mutants (plausible slips of the code that
must break each property), the source lines behind every definition, the
findings, the hazards and the theorems.

## 1. The system

Every node is one processor with a main loop and interrupts; there is no
operating system. Two things run at once on a node (the main program and its
interrupt handlers, which share memory without locks), and nodes run beside each
other, joined by CAN messages. The communication node adds a radio modem, an SD
card, a real-time clock and a serial line to the engine control unit (ECU).

| Component | Source | State | Operations | Talks to | Model |
|---|---|---|---|---|---|
| byte ring | `libat90/ringbuffer.h` | buffer, start, end | `rb_push`, `rb_pop`, counting macros | used by USART and CAN | whole |
| USART driver | `libat90/usart.c` | a ring each way, interrupt enable | `putbyte`, `getc`, receive and data-register-empty interrupts | ring, shared with the interrupts | most |
| CAN driver | `libat90/can.c` | `mob_on_job`, the MObs (message objects) of the controller, `CANPAGE`, receive ring, counters | `can_init`, `can_broadcast`, `read_message`, the interrupt | the bus; ring | whole |
| system messages | `libat90/system_messages.c` | constant tables | length, subscription, transport rule of an id | CAN driver, ECU stream | what the nodes call |
| gear node | `nodes/GearNode` | place in a shift, motor, ignition, bridge pins | main loop, `gear_up`, `gear_down`, neutral mode | CAN in; motor and ignition out | whole |
| gear sensor node | `nodes/GearSensorNode` | button flags, last states | button interrupts, main loop | CAN out | whole |
| steering wheel node | `nodes/SteeringNode` | paddle byte, neutral state, lights, displays | paddle interrupts, main loop | CAN in and out; display | without the shift lights |
| seven-segment display | `drivers/max7221_7seg.c` | digit registers | digits, strings, numbers | steering wheel node | most |
| transfer protocol | `nodes/ComNode/{protocol,send_file,xbee}.c` | ongoing request, time-out, file position | packet handlers, time-outs, file sender | radio; log; card | most |
| log | `nodes/ComNode/log.c` | a 512-byte buffer, the open file | `log_init`, `log_append`, `log_sync` | FatFs and the card | writing side |
| ECU stream | `nodes/ComNode/ecu.c` | a 114-byte packet in a ring | request, read, live packet | USART; log; radio | without the linear conversions |
| SD card driver | `drivers/mmc_sdcard.c` under `diskio.c` | card type, counter of a wait | initialisation, block reads and writes, synchronisation | SPI; the card | exchange by exchange |
| two-wire bus, RTC | `libat90/twi.c`, `drivers/m41t81s_rtc.c` | a copy of the chip's registers, the bus | `rtc_init`, `rtc_get_time`, start, read, write | communication node | most |
| BSON encoder | `libat90/bson.c` | document buffer | `serialize`, `find_key` | none at present | without the bytes of a double |
| GPS node | `nodes/GPSNode` | sentence buffer | sentence building, checksum, RMC parsing | USART | most |
| wheel speed nodes | `nodes/Sensor{Front,Rear}Node` | 16-bit tick counters | tick interrupts, periodic sampling | printed | the counters of the front node |
| heartbeat examples | `examples/heartbeat_*` | last sign of life of each node | send, receive, sweep | CAN | one sender, one receiver |
| timers, PWM, clock, ADC, bridge, rev counter | `libat90/{timer,pwm,sysclock,adc}.c`, `GearNode/vnh2sp30.c`, `SteeringNode/rpm.c` | shared control registers | initialisation, start of a conversion, directions | all nodes | register bits |
| spy, scan, empty nodes; other examples; FatFs | | none to speak of | | | not modelled |

What is hard here, and so what the properties are for:

* **An interrupt between two memory accesses.** The rings have no lock: indices
  are written from both sides, `rb_push` decides about an overflow after it has
  published the byte, and `putbyte` enables an interrupt its handler disables.
  The steering wheel's paddle byte and the wheel ticks are read and then cleared.
* **An interrupt handler that interrupts itself.** `can.c:416` allows interrupts
  again inside the handler, although all MObs share one set of registers behind
  `CANPAGE`.
* **A reset with interrupts on.** The gear node calls `can_init` after every
  message, while frames come in.
* **A read-modify-write the handler falls into.** `BIT_SET(mob_on_job, ...)` in
  `can_broadcast`, and its unprotected choice of a page.
* **Waiting for messages that may not come.** A shift drives a motor and cuts the
  ignition while it waits for a stop button to be heard over CAN.
* **Stale commands and late news.** What arrives during a shift piles up behind it;
  frames that wait together leave in the order of their MObs.
* **A lossy radio.** Packets are lost, damaged or cut short; requests overlap;
  time-outs race with late answers.
* **Devices that fail half-way.** An SD card that stays busy, does not hear a
  command, refuses a block or loses its supply; a two-wire bus left without a stop.
* **Power loss** in the middle of writing the log.
* **Fixed places in data that may have lost bytes**: ECU packets, GPS
  sentences, BSON documents.

What makes each component correct: a ring is a queue that drops its oldest byte;
the USART loses, repeats and reorders nothing that its buffers could hold; the
CAN driver delivers whole frames, sends what it was asked to send and never
loses a MOb; the gear node always comes to rest with the motor stopped and the
ignition on; each press of a paddle shifts once; a transfer delivers a log complete
and in order, and a silent base is given up; engine values are read from their own
place in a packet; a crash costs a bounded part of the log; what the card
driver says of a call is true, and every call returns; a time that is reported is
the chip's; a fix that is reported was sent.

## 2. The modules

    RingBuffer --- RingQueue =====> DropOldestQueue       (=====> implements)
        |   \
        |    `---- UsartRx                          MCUsart: these three,
        `--------- UsartTx =======> ByteLine                 one per behaviour
    CanDriver --- MCCanDriver
    GearNode, GearSensor --- GearShift =====> ShiftCycle
    FileTransfer --- TransferLink --- MCTransferLink
    EcuLink --- LiveStream --- MCEcuLink
    LogFile, SdCard, RtcClock, Bson --------------- MCStorage
    SteeringNode, WheelSpeed, Heartbeat,
      Display, Gps, Peripherals, EcuValue --------- MCNodes

`MCUsart`, `MCStorage` and `MCNodes` check several components in one run.
Their variable `unit` says which component a behaviour is of; the others keep
their first state. The components share no state, so a product of them would have
more states and show nothing more.

**RingBuffer, RingQueue.** `RingBuffer` has the ring as a record `[slots, start,
end]` and one operator per inline function or macro of `ringbuffer.h`
(`Push`, `Pop`, `NextIndex`, `IsFull`, ...), with the index mask as `% Size`.
`RingQueue` applies them in any order. `DropOldestQueue` is the promise: a
bounded queue that drops its oldest element when full. `rb_peek` is not modelled: it
has no caller and changes no state. (Its comment at `ringbuffer.h:145` says it
returns an element; lines 152-158 return an index.)

**UsartTx, UsartRx.** One port of `usart.c`. The main program is a program
counter `pc` with one step per memory access to what it shares (`SpaceFound`, `StoreByte`,
`AdvanceEnd`, `TestOverflow`, `DropOldest`, `EnableInterrupt`); the interrupt is
one action that may come between any two of them. In `UsartRx` the compiler may keep
the start index in a register or fetch it again, because `getc` casts
`volatile` away: `PopReloads`. Bytes are their number in the order of sending
or arrival. `ByteLine` is the promise of the sender: it keeps the order and
leaves nothing out, but when it has drained it may replay the slots of the ring;
that is what the code
does: `putbyte` waits for room (`usart.c:195`), but when the interrupt sends the
last bytes between the two statements of `rb_push`, the indices are equal, the
empty ring is taken for an overflowing one (`ringbuffer.h:118`), and counts as full.
Both ports have the same code; the definitions hold for either.

**CanDriver.** The controller's MObs, `CANPAGE`, `mob_on_job` and the
receive ring; `isr` is the stack of activations of the handler. `Serve` reads the
status and id and allows interrupts; `StartFrame`, `PushByte`, `EndFrame` are
`receive_frame` byte by byte; `TxCompleted` gives a MOb back, and `MixedStatus` is
the handler that finds an error bit beside the completion and matches no case: a frame
received so is lost and its spy MOb stays deaf, one that was sent leaves its MOb taken
(`Outcome` decides it for each frame, received or sent). The main program
runs `can_broadcast` in steps from `FindMOb` to `EnableTx`, and `can_init` in
three (`InitRing`, `ClearSlots`, `ResetController`), when no handler is
active, and `read_message` in one step, as the code forbids interrupts there.
Frames are numbers, and a byte in the ring is a pair of its frame and its place in it.
`rb_init` is said to zero the buffer (`ringbuffer.h:102`) but clears as many
bytes as its size field has, two; `can_init` is said to clear the data of the MObs (`can.c:265`) but
does not; `alloc_err` and `no_mob_err` survive it. The model does what the code does.

**GearNode, GearSensor, GearShift, ShiftCycle.** `GearNode` is
`nodes/GearNode/main.c`: `at` is the place in the main loop or in a shift,
`shift` tells the two mirrored functions apart, and `Handled` is the `can_init`
at the end of every handler, which empties the receive buffer. `GearSensor` has
the two interrupts and three parts of the main loop of the sensor node, and
`Broadcast` fills a MOb with what the tables of `system_messages.c` say.
`GearShift` joins them by the bus and adds the steering wheel's messages.
`ShiftCycle` is the promise: push, short stop, return, rest, with the ignition cut
only during an upward push.

**SteeringNode.** The main loop goes through its places (`pc`): handle the frames
in the ring, read the paddle byte, clear it and tell the presses, look at the
neutral button. `shown` is what was displayed last. The two paddle interrupts
set bits of `state` after debouncing against the clock, `now % Width`. The MObs are those of
`can_broadcast`; the lowest leaves first. `came` keeps the last value of each id that came
in, for what the warning lights must show (`LightsCurrent`).

**Display.** A digit is the set of its lit segments; one step is one turn of
the loop in `seg7_disp_str`. A number becomes a string by its decimal places (`Place`,
`Places`), up to the five of 16 bits. A voltage is what the engine sends, 210 to the volt
(`ecu.c:182`); `TenthOf` is the sum, product and truncation of `display_left_f`, which gives 10
when 0.99 volt or more is left without the whole volts. `FieldsReadTrue` reads the digits back.

**FileTransfer, TransferLink.** `FileTransfer` is the communication node: the
packet handlers, `handle_ack`, the time-outs of the event loop and the file
sender, with bytes counted in payloads. `TransferLink` adds a base station
(external: written from what `protocol.c` expects of it) and a radio that
loses, damages and truncates.

**EcuLink.** `livestream` and `ecu_read_data`: the node recognises a packet by
nothing but the number of bytes in its ring, reads it entry by entry along the
table `ecu_packet`, and asks for the next one before it has read this one. The ECU
and the serial line are external; they lose requests and bytes, and answer
late. The table is a constant; `MCEcuLink` checks that the table of `ecu.c` is
one of those the model is about (`EcuPacketIsTable`) and runs a shorter one.

**LiveStream.** `EcuLink` with the rest of `livestream`: the transport rule of
each value (`Transport`), the fields appended to the log in a pass (`logged`), the live packet with its fields, its length and its room (`live`, `PayloadLen`), and the packet sent to a base
that has shaken hands (`sent`). Its actions are those of `EcuLink`, each
with what it does to these variables, so that the theorems about `EcuLink!Spec`
speak of every behaviour of `LiveSpec`. `MCEcuLink` checks with the rules of
`main.c` that the code's own live packets never run out of room (`LivePacketSuffices`).

**EcuValue.** How `ecu_read_data` makes a float of bytes, with ints of 16 bits,
and what `clamp` does to the bits of the float (sign, exponent and fraction). What the code relies on: the
sum of the shifted bytes is signed already. (`clamp` means to correct the sign; `1 << 15`
is negative in 16 bits, its test never succeeds, and that is as well.)

**LogFile.** `log_append` with its three ways out (`AppendFits`, `AppendSpills`,
`AppendOverruns`), `log_init`, and a power cut at any moment (`Restart`).

**SdCard.** The driver between the disk layer's calls and the card. One step is
one exchange: a command and its answer, a block, or a poll; `pc` is the driver's
place, `left` a counter that runs down, `res` the last response. The card (external)
is an MMC, an old or a new SD card, or one with sector addresses; it
may not hear a command, may refuse a block, may be busy for any time, and may
lose its supply at any moment, while it programs too: its line then goes idle, which is what
`wait_ready` waits for, and the sectors it had still to program (`buffered`) hold anything. Lines 400 (comment of `sd_init`) and 512 (`sd_sync`
polls a card it has deselected) are modelled as the code is.

**RtcClock.** `rtc_init` and `rtc_get_time` over `twi.c`, one transfer per step,
with the registers as sets of bits, weighed by `Num`; the chip powers up with any of `PowerUp`.

**Bson.** `serialize` and `find_key`, one element per step, on bytes that may
look like identifiers. The tests of the room left (`bson.c:160`, 170, 176) leave
out the head of an element, so the memory goes on behind the buffer. `BsonAssumption` says what
the elements are: keys and strings of C, values as long as their kind, numbers of one byte. `NumberAt`
has no sign: four bytes make a negative length only where the cursor has gone astray behind an
embedded document, and no property speaks of what is found there.

**Gps.** Characters come one at a time into `s`; the checksum (an exclusive or over the
five bits of a character, a recursive function over the sentence) and the places of an RMC
sentence are those of `gps.c`, with shorter numbers. `GpsAssumption` asks for a buffer that a
sentence fits in.

**WheelSpeed, Heartbeat, Peripherals.** The byte accesses of the wheel counters;
the two loops of the heartbeat examples over a bus that loses frames (`Margins` says
how the period, the sweep, the time-out and the lateness of the loops must fit together);
and the register bits set by the small drivers. In `Peripherals` a program asks for a prescaler
by its name in `timer.h`, and `PrescalarBits` gives the bits that `timer.h` gives that name;
`asked` keeps, of each timer, the driver that set it up last or the prescaler and the mode asked
for by name since, and `Needs` says which bits that driver wants: what a timer must hold is
never read from what was written.

Definitions whose comment begins "A slip" are never part of a specification.
They are faulty versions of the definition below them, against which the
properties are tried out.

## 3. What the runs show

| Run | Checks | Distinct states |
|---|---|---|
| `usart` | `RingsConsistent`: indices, types, and the counting macros at every position of the indices; `NoLostWakeup`; `NothingLost`; `ReceivedInOrder`: `getc` may ignore the result of `rb_pop`, and only an overflow loses bytes; `ImplementsLine`; `EventuallySent`; `ImplementsQueue` | 10,189 |
| `can_driver` | `TypeOK`; `ReceivedWhole`; `NoMObLost`; `SentAsAsked` | 2,363,723 |
| `gear_shift` | `TypeOK`; `RestIsSafe`; `ImplementsShiftCycle`; `NoStaleShift`; `ShiftEnds` | 375,011 |
| `transfer_link` | `DeliveredRight`: types, complete when nothing was spoiled, in order even so; `DroppedAfterFive`; `SilenceEndsRequest` | 751,909 |
| `ecu_link` | `TypeOK`; `TelemetryTrue`: values are read from their place, and the log and the base get each behind its own id; `NeverWaitsForEcu`; `EveryAnswerFits`; `StreamGoesOn` | 419,249 |
| `storage` | `TypesOK`; log: `LogInOrder`, `CrashLosesLittle`; card: `CardAsReported`, `OnlyAskedChanges`, `CallsReturn`; clock: `ClockTrue`; BSON: `FindsWhatWasPut` | 226,057 |
| `nodes` | steering wheel: `PaddlesRight`, `WheelShowsTrue` (with the display), `NeutralTold`; wheels: `HolesCounted`; heartbeat: `Reachable` (a running node stays reachable, a silent one is found out in time); GPS: `FixesTrue`; registers: `SettingsHold`; ECU values: `EcuValueTrue` | 686,038 |

Five runs end in a counterexample: what the code does differs from
what a comment in it says.

| Run | What happens |
|---|---|
| `can_nested` | On a bus where a frame can complete while another is handled, the nested handler leaves `CANPAGE` at its own MOb and puts its bytes inside the other frame's: the ring holds mixed frames. |
| `gear_stop` | `message_info` has no entry for `GEAR_STOP_BUTTON`, so its length is 0 and the message goes out without its byte, or with that of an earlier message whose length is still in the MOb's register. |
| `transfer_retry` | A repetition after a time-out sends the payload after the one that was not acknowledged. |
| `transfer_stuck` | A truncated packet leaves the reader waiting inside the event loop, and the time-out with it. |
| `sd_old_card` | An old SD card answers `SEND_IF_COND` with an error bit, which `send_cmd` does not look at: it is taken for a new one, and `sd_init` fails. The path for old cards is only reached when no answer comes at all. |

Other comments and names that the code does not keep, with no run of their own; the model
does what the code does:

* `SteeringNode/main.c:108` adds 0.01 volt "to avoid rounding errors": when 0.99 volt or more is
  left without the whole volts, the tenths come to 10 and are not carried. 11.99 V becomes "11.10", and its
  field reads 1.10.
* `SteeringNode/rpm.c:46` says "F_CPU/64 prescalar" and sets CS21 twice: `timer.h:72` names that an eighth.
* `timer.h:49`, 62 and 87 give the prescaler 1024 of timers 0, 1 and 3 the bits of an external clock on a
  falling edge (51, 64 and 89). No node asks for it.
* `pwm.c:73` says "Fast PWM" and the next line sets the phase-correct mode; `sysclock.c` speaks of
  mode 12 and sets mode 4.
* `vnh2sp30.c:45` makes the pin of DIAGA an input in the macro for DIAGB.
* `m41t81s_rtc.c:454` promises a negative result on an error; a bus error has the status 0.
* `ringbuffer.h:102`, 145 and `can.c:265`: see the sections on the ring and on the CAN driver.

### Conditions in the properties

Where the code keeps a promise only up to a point, the model marks the point
with a history variable, and the property stops there. Each of them is a real
window in the code:

* CAN: `disturbed`: a handler came between the reading and writing of
  `mob_on_job`, or after `can_broadcast` had selected its page (`NoMObLost`, `SentAsAsked`).
  `stuck`, `unmatched`: a frame got through at a second attempt. Its error bit is still in the
  status register, because interrupts for errors are not allowed; the
  handler's `switch` compares the whole register and matches no case. If the frame was sent, its MOb
  is not given back; if it was received, it is lost in silence and its spy MOb stays deaf. `NoMObLost`
  says that these MObs (`stuck`) are lost until `can_init` and no others; `ReceivedWhole` counts
  these frames (`unmatched`) beside those of the driver's counters. `torn`: a frame came into the ring between
  the emptying of the ring and the clearing of two of its bytes (`ReceivedWhole`).
* Steering wheel: `disturbed`: a press came between reading and clearing, or a
  broadcast found no MOb; `merged`: a paddle pressed again before the first
  press was told. `overtaken`: two neutral states waited together, or one found
  no MOb; after that the gear node may keep the older one for good.
* Wheels: `late`, `carried`: a hole passed between the reading and the clearing, or found
  the counter full; such a hole may be lost, and one that carries may count as 255 too many.
* Transfer: `spoiled`, `overlapped`: a packet was damaged, a time-out ran out
  or a request came too early. Delivery in order excludes overlapping requests only.
* ECU: `late`: a time-out ran out while an answer was still to come. After that the
  first 114 bytes found may be the end of one packet and the beginning of another, and
  because each packet read asks for one more, values may stay shifted as long
  as the stream goes on (`TelemetryTrue`, `EveryAnswerFits`). `NeverWaitsForEcu` and
  `StreamGoesOn` hold all the same. A value of four bytes keeps only its last two
  (`EcuValueTrue`); the code sends neither of its two such values anywhere.
* Log: `overrun`: a write failed; the code goes on writing behind its buffer, and no
  property speaks of what follows. `CrashLosesLittle` also excludes a failed synchronisation.
* SD card: `cut`: the card lost its supply with blocks of these sectors still to program; the
  write is reported as done, and only the next call finds the card idle (`CardAsReported`,
  `OnlyAskedChanges`). `hasty`: `disk_initialize` began while the card was busy. If
  `SEND_IF_COND` then goes unheard, a card of sector addresses is taken for one of byte addresses.
* BSON: `Readable`, `Intact`: keys behind an embedded document (its length is
  skipped by four bytes too many, `bson.c:283`) or a double (refused, `bson.c:341`), and a
  string behind a binary (its pointer serves as scratch space).
* Display: `carried`: a voltage of which 0.99 or more is left without its whole volts, whose
  tenths come to 10 (`WheelShowsTrue`).
* Registers: both macros that make a diagnosis pin an input name that of half A
  (`vnh2sp30.c:45`). After `vnh2sp30_reset` the pin of half B is an output at low and counts as a fault for
  good; `SettingsHold` speaks of reported faults while it is an input. `rpm_init` only or's its bits:
  `SettingsHold` speaks of the revolution counter when timer 2 was not used before. Timer 3 is the
  clock's, and `pwm_PE5_init` takes it; the property then promises the settings of the PWM. No node
  calls `vnh2sp30_reset` or `pwm_PE5_init`.
* GPS: `FixesTrue` bounds a sentence's length, and not the index of the second of the two characters stored behind
  it (`gps.c:170`), which may be one past the array; `Gps!TypeOK` admits it.

### Bounds, and why they are enough

* Rings of four slots: they fill, wrap around and drain while the program is at
  each of its steps; six bytes sent and nine received go around more
  than once. The theorems cover all sizes.
* CAN: one MOb to send and two to receive, so that MObs run out both ways; two
  frames in and two out, and one more `can_init` at any moment; a ring of seven bytes holds two frames without
  payload but no second one when either has a byte. Any frame may
  get through at a second attempt, so that both spies may go deaf and `can_init` brings them back. Three ids: with payload, without, and unwanted.
  `FastBus = FALSE` says that no frame completes while another is being handled
  (a frame takes over 100 µs even at 1 Mbit/s); `can_nested` says the opposite.
* Gear shift: two MObs and four inputs (buttons, lever, neutral switch, wheel) are
  enough for two shifts, a shift in the neutral mode, frames during a shift,
  and MObs running out. The delays and waits are nondeterministic,
  which covers every value of theirs.
* Transfer: an empty log and one of two payloads, two requests, two
  faults, one other packet. `MaxAir = 3` holds back new exchanges, never an
  answer. The time-out goes through all its six values.
* ECU: a packet of five bytes in four entries (a short value, a long one, a gap and a
  value behind it) and a ring of twelve slots: as in the code (114 and 256), two packets fit and
  less than half of a third. Packets are numbered modulo five, more than can be
  on their way at once; two faults. There is no bound on the packets: the run goes on for ever. Values
  go to both media, to one, or to the other, and a live packet of nine bytes holds one pair of the
  two and the id of the second: the case the comment at `protocol.c:201` warns of. In the code
  eight pairs of six bytes go into 63.
* ECU values: bytes on either side of the sign and of a carry, in entries of one, two and four.
* Log: a buffer of five bytes and records of two and four, so that records fit,
  exactly fill and spill at every position; 26 bytes are five buffers.
* Card: all four kinds, two blocks and three sectors (a write of two blocks has a neighbour
  it must leave alone), waits of one poll under a counter of three values, which wraps;
  one fault, which may hit any exchange of any call.
* Clock: registers all clear, all set, and halted; two bus faults (one to leave the
  bus without a stop, one after it), three readings, two seconds.
* BSON: up to three elements of eight kinds in buffers that hold none, one or two,
  or all; keys and values made of identifiers.
* Steering wheel: a debounce time of two in a clock that wraps at four, five
  milliseconds, two presses, two toggles, two frames, two MObs. Wheels: digits of
  base two and four holes, so that a carry happens in any window and a counter fills. Heartbeat: the code's 30, 10 and
  100 ms in units of 5 ms, one unit of lateness, up to two heartbeats lost in a row, 300 ms;
  with three lost the sender is declared dead, as it should be.
* GPS: sentences of up to 17 characters with a limit of 20, so that two run together
  reach it; four sentences, one fault at any character. Display: numbers of one
  to four digits in which every digit appears, voltages without and with a tenth, and one on either
  side of 0.99. Registers: any three calls, on one timer with one control register and both with two that the
  drivers use, two prescalers and the modes of the drivers.

### Fairness, and why the code justifies it

* `MCUsart!UnitSpec`: the processor goes on with `putbyte`, and the transmitter
  goes on emptying its register. Nothing makes the program call `putbyte`.
* `GearShift!FairSpec`: the main loops and the bus go on, and every delay and
  wait ends; all waits of a shift have a time-out in the code. No button is obliged
  to move, and no frame to arrive in time.
* `TransferLink!FairSpec`: the event loop reads what has arrived and finds an
  exceeded time-out; the base reads. The base need not ask, and the radio need
  not stop spoiling within its bound.
* `EcuLink!FairSpec`: a request that reaches the ECU is answered, bytes travel,
  and the event loop runs. Losses and late answers are bounded by `MaxFaults`.
* `MCStorage!UnitSpec`: the driver goes on with a call, and a busy card becomes
  ready in the end. The second is what the code needs and cannot ensure: `wait_ready`
  tests its counter only when the card has become ready (`mmc_sdcard.c:243`).
* `MCNodes!UnitSpec`: the main loop of the steering wheel goes on, and the bus
  takes the frames that wait.

Weak fairness is enough because these actions stay enabled until they are
taken. The specifications of the other components have no fairness: their
properties are about safety, and deadlock is not an error where the program may
stop being given work.

## 4. What is proved

All theorems hold for every value of the constants that the named assumptions allow: any
sizes, numbers of messages, faults and calls. Each invariant below was first
checked by TLC on the instance of its run.

* **RingBuffer_proofs** has the arithmetic of the ring: lemmas on `Pending` and on
  indices modulo `Size`, for every size. A push appends, a pop removes the head, a
  push to a full ring does both.
* **Usart_proofs.** *Sender*: `TxInv` adds to the type invariant and `NothingLost` what is
  known at each step of `putbyte` (`TxAtStep`: the byte is stored before the end
  moves; there is room until then) and when the interrupt is due
  (`WakeupDue`). `NoLostWakeup` alone is not inductive: it speaks only of
  the time between two calls. `WakeupsKept`, `NoByteLost` and `TypeCorrect` follow.
  `SenderIsLine` needs more: `SlotsHold` says which byte each slot holds, sent
  ones included, because the mistaken overflow puts them on the line again.
  *Receiver*: `RxInv` joins what `getc` has returned, the byte on its way (`Out`) and what
  waits in the ring to all that arrived, in order, until an overflow (`InOrder`); after one,
  every slot has been written (`SlotsWritten`), which is why `getc` may ignore the
  result of `rb_pop`. *Ring*: used by one caller it implements `DropOldestQueue`.
  `RingsHold`, `OrderReceived` and `RingIsQueue` state it for `MCUsart`.
* **CanDriver_proofs**, on a slow bus (`FastBus = FALSE`). `NoMObLost` speaks of a driver at rest; `IInv` says where every MOb is at
  each step of the handler, of `can_broadcast` and of `can_init` (`Jobs`: a spy listens or is being
  served; any other is free, taken by the call, sending or being served, and its
  bit in `mob_on_job` says which, or it is among the lost ones, `stuck`). `One` says that at most one activation is on
  the stack and at most one MOb waits for it, which is where the slow bus comes in. `Jobs` holds as long
  as nothing was disturbed (`Calm`); types and `One` hold always.
  For `ReceivedWhole`, `Received` says that the frame being served is the last one that came and has room (`Here`), that the ring
  is a sequence of whole frames, in the order of their arrival, and then the part received so far
  (`RingKept`, with `Complete` over sequences of any length), and which counter
  each frame is in, or that it is one of those in none (`Counted`). The two bytes that `rb_init` clears behind a frame's back
  are the window `torn`. For `SentAsAsked`, `Sent` assigns each frame that went out, and each MOb
  that is sending, a call of its own whose id and data it has.
* **TransferLink_proofs.** `IInv` says what may be on the air together (`AirBounded`, `Orderly`,
  `Undisturbed`), how it fits the state of the node's request and the place
  in the file, and that the repetitions since the base was last heard are
  `timeout_inc - 1` (`Counted`). As long as requests do not overlap, the payloads taken
  and those on the air are in order and the file has been read beyond them; when nothing
  was spoiled either, at most one packet that moves the transfer on is on the air, and
  what the base has taken is all that was sent before it. `Delivered` and `GivenUpAfterFive` follow.
* **EcuLink_proofs.** `NeverWaitsForEcu` compares the ring with the rest of the
  table; the invariant adds where in the table the node is (`Course`), and that
  what is in the ring behind the packet being read, on the line and asked for is
  one packet at most (`OneAhead`), from which `RingSuffices` follows.
  For `TelemetryTrue`, `Stream` says that, until a time-out has run out early, the ring and the line hold
  the end of the packet being read and then the beginning of the next, `ValueRead` that the bytes read so far
  are of the entry's own place, and `LInv` what the log and the live packet hold after each entry. The
  theorems are for every table that `TableAssumption` and `OffsetAssumption` describe,
  and every transport rule; `TelemetryIsTrue` for every live packet that, once no pair fits any more, has room for one
  id at most (`PayloadLen % 6 < 4`, as the code's 63 bytes): that id without a value is the case the comment
  at `protocol.c:201` warns of.
* **GearShift_proofs.** `Actuators` says, for every place of the gear node, what
  motor and ignition may be; `RestIsSafe` alone is not inductive, since it
  says nothing of the way through a shift. From it, `RestSafe` and `ShiftsAreCycles`
  (the node implements `ShiftCycle`). `Fresh` says that in the main loop no
  frame in the buffer is older than the loop; with it `TypeCorrect` and `NoShiftIsStale`,
  for any number of MObs and inputs.
* **Storage_proofs.** *Log*: `IInv` joins `LogInOrder` with the buffer's bound and
  with the fact that at most one buffer is written and not synchronised. `OrderKept`
  and `CrashBounded` follow, for every buffer size and every set of record sizes.
  *Card*: `SdInv` says, for every place of the driver, in which call it is and what has been done of it:
  `CallRuns` (call, counter and last response), `BusyMode` (when a card may be
  busy), `CardKnown` (a card of sector addresses is known for one, or not initialised), `AllHeard` (without
  faults the card is where the driver thinks), and `Reading`, `ReadingRegister` and `Writing`
  (so many blocks are done, the card stands at the next one, `AtNext`, and those behind it are
  stored, `StoredFirst`). `CardReportsTrue` and the action property `WritesOnlyAsked` follow,
  for all kinds of cards, sectors, counters and any number of faults.
  *Clock*: `ClockInv` adds to types and `ClockTrue` which registers `rtc_init` has set after so many of its steps
  (`ClockSet`): what is cleared or set stays so through the steps behind it, because each writes one register
  under its own mask; for the register of the seconds, cleared of its stop bit last, the copy must still hold
  what the chip was given (`register_map[1]`). After that the copy does not matter: a positive result has
  filled it anew. The lemmas on BCD digits are about
  every byte.
  *BSON*: `DocInv` says how the elements lie in the memory, one behind the other (`Laid`), and that the cursor of a search is at
  the beginning of one of them and has passed no key like the one it looks for (`OnTrack`), or has gone
  astray behind an embedded document or a double, where `FindsWhatWasPut` is silent. `FindsIt` is for all
  elements that `BsonAssumption` describes, and every size of the buffer.
  `TypesAreKept` puts the four invariants together for the specification that TLC runs.
* **Nodes_proofs.** *Paddles*: `Waiting` says that what `paddle_state` has read is
  still in the byte until it clears it, and counts the presses told, merged and waiting;
  `Clocked` says that `last_time` is the last press modulo `Width`. The lemma
  `ElapsedIsLess` (the difference of two clocks modulo their width is never more
  than the time between them) makes the debouncing safe across the wrap.
  *Wheels*: `WheelInv` says what the copy being taken, the counter and the reports add up
  to between any two byte accesses (`Held`, `CopyHolds`, `Counts`), in digits of any base.
  *Heartbeat*: `BeatInv` bounds how late each loop, the last heartbeat sent and the last one handled may
  be (`LoopsInTime`, `BeatsDue`, `BeatsHandled`, `Checked`). It needs `Margins`: two sweeps and the
  lost heartbeats fit into the time-out (the code's 30, 10 and 100 ms with two lost in a row and loops up to
  5 ms late). The time within which a silent node is found out contains the lateness of the
  loops twice, once for the last heartbeat and once for the sweep. *Registers*: `RegInv` says that each timer
  has exactly the bits its last driver needs (`TimersHold`), that the selected channel
  stays until a conversion has been read (`AdcHolds`), and that the pin of half A is always an input, so
  that a fault seen while that of half B is one, too, has happened (`BridgeHolds`). *ECU values*: `ValueInv` says what the bytes read so far have left in the sum;
  the exponent of a number of 17 bits or less is below the one that `clamp` looks for.
  *Warning lights*: `LightInv` says that the last frame of each kind that waits in the ring carries the value that came last, and that
  a light whose kind does not wait shows that value (`LampRight`).
  *Seven segments*: `SegInv` says, for each field, which digits of the string have been drawn and what they read as
  (`FieldRight`); its lemmas are about the decimal places of every number of 16 bits and the ten shapes, no two
  of which are alike, and about the tenths of every voltage. `WheelIsTrue` joins lights and digits; `UnitsAreTrue` carries the
  theorems above over to the specification that TLC runs.
  *GPS*: `GpsInv` says where the parser is beside the sentence that is being sent: it reads nothing (`Idling`), has what came of the
  sentence so far (`Following`), has it with one character changed or lost (`Disturbed`), or has lost the
  end of one sentence and takes the next for a part of it (`Joined`). The arithmetic is that of the exclusive or: one character
  changed changes the checksum (`SumsChanged`), and so does one lost, since none is 0 (`SumsLost`);
  a sentence that runs on into the next does not end in its own checksum. `FixesAreTrue` assumes
  one such character (`MaxFaults <= 1`), as its run does, and must: with two, TLC finds a changed place and a
  sentence cut short that pass the checksum together.

Every invariant and every action property of a passing run is stated by a theorem. Only
model-checked is liveness under fairness: `EventuallySent`, `ShiftEnds`, `SilenceEndsRequest`,
`StreamGoesOn`, `CallsReturn`, `NeutralTold`. The prover does neither it nor `ENABLED`.

What a recursive definition or a fold computes for every input cannot be proved in general with the
provers at hand, because the library's induction theorems take an operator as a parameter. No module that is proved
about declares a recursive operator; where a proof needs induction over a number (the fields of a
document one behind the other, the checksum of a sentence) it takes a least counterexample from
a theorem of `WellFoundedInduction` instead.

## 5. Abstractions

* Interrupts are atomic in `UsartTx`, `UsartRx`, `SteeringNode` and `WheelSpeed`, since the code never
  allows them there. An index is one byte in effect (no ring is larger
  than 256), so that an access to it is one step on an 8-bit processor. The order in
  which `WheelSpeed` accesses the bytes of a counter is the compiler's.
* `GearSensor!Broadcast` and the broadcasts of `SteeringNode` are one step, and
  `can_init` is one step of `GearNode`; `CanDriver` has the steps of both.
* The bus-error branches of `can.c` only count, and `CAN_INT_ALL` does not allow
  their interrupts: an error shows only as the extra bit of `MixedStatus`, on a frame sent or received.
* `read_message` reads the length at a fixed offset; in `CanDriver` that byte is
  looked up as the length of the frame it belongs to.
* The lever of the gear box cannot be at both ends, so that both stop buttons
  are never pressed together.
* The two nodes with paddles number them differently (`SteeringNode`: 1 is down
  and 2 is up; `GearSensorNode`: 0 is down and 1 is up) and both send
  `PADDLE_STATUS`. `WheelSends` says what the code sends. The gear node acts on 0 and 1.
* Time is nondeterministic in the gear box, the transfer and the ECU link: a time-out may come at any moment at
  which its wait is on, the earliest included. `SteeringNode` and `Heartbeat` have a
  clock. `Heartbeat` ends before its tick wraps (49 days): comparisons like
  `get_tick() > timer` fail then.
* In `EcuLink` a byte is its packet and its place, and in `LiveStream` a value is its bytes; `EcuValue`
  has their arithmetic. The linear conversions behind it (`ecu.c:164-200`) only scale, and the
  tick in the log is any time. An int shifted by its width or more is 0, as
  the compiler's shift loop leaves it. `ecu_init` is one step. The line loses bytes, but does not invent any.
* In `LogFile` and `FileTransfer` FatFs and the card succeed or fail; after a crash a file ends where it was
  last synchronised.
* `SdCard` has no bytes, checksums or clock rates; `read_cid` is `read_csd` with
  another command. Reading of several blocks puts each into the same place (the
  loop does not advance), writing sends the first block each time; the model
  does so, too, and the properties are about one block.
* `RtcClock` ticks within a minute: `rtc_init` sets 16 seconds.
* A character of `Gps` has five bits and the checksum two octal digits; a
  sentence has one digit for each number. A double of `Bson` is its eight bytes.
* `SteeringNode` leaves out the shift lights and the pins of the switches, output and
  input without state.

## 6. Plan

1. `GearShift` over `CanDriver` instead of its one-step bus, and `SteeringNode` as its
   wheel: a press of a paddle shifts once.
2. `LiveStream` joined with `LogFile` and with the radio of `TransferLink`: what a power
   cut or a damaged packet leaves of a record.
3. `LogFile` over `SdCard`: what a successful synchronisation promises of the card.
4. Abstract specifications: a FIFO of frames for `CanDriver`, a reliable transfer
   for `TransferLink`, an array of blocks for `SdCard`.
5. `FixesTrue` for any number of faults that are at least two sentences apart.

### Not modelled

* The spy, scan and empty nodes and the remaining examples print what they receive
  and keep no control state.
* FatFs is third-party code. Of the disk layer under it, what calls the card
  driver is in `SdCard`.
* `spi.c`, `eeprom.c`, `cpu_load` and the demultiplexer set registers or copy bytes, one call
  at a time, and share nothing.
* `clear_msg_transport`, `can_unsubscribe` and `can_unsubscribe_all` have no caller.
* `rtc_utc_datetime` has no caller.
