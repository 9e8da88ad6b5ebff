------------------------------- MODULE SdCard -------------------------------
(***************************************************************************)
(* The SD card driver of drivers/mmc_sdcard.c under the disk layer         *)
(* third_party/interface/fatfs/diskio.c, and the card it talks to.         *)
(*                                                                         *)
(* One step is one exchange: a command and its answer, a block of data, or *)
(* a poll.  A card that is busy holds its line low, which the driver reads *)
(* as the answer 0; a command the card does not hear is answered by idle   *)
(* bytes, all bits set.  An answer R1 is the set of its bits.              *)
(***************************************************************************)
EXTENDS Naturals, FiniteSets

CONSTANTS
  Kinds,        \* the cards tried: "MMC", "SD1", "SD2" (byte addresses), "HC"
  Sectors,      \* sectors in use, from 0
  Blocks,       \* contents of a block
  BlockSize,    \* SD_BLOCKSIZE
  Retries,      \* retries for the card to leave the idle state (10000)
  Timeout,      \* polls of wait_ready (500 ms * 10)
  Width,        \* number of values of its 16-bit counter
  MaxFaults     \* bound on commands not heard and on resets of the card

SdAssumption ==
  /\ Kinds \subseteq {"MMC", "SD1", "SD2", "HC"}
  /\ Sectors \subseteq Nat
  /\ BlockSize \in Nat /\ BlockSize > 1
  /\ Retries \in Nat \ {0}
  /\ Timeout \in Nat /\ Width \in Nat /\ Timeout < Width
  /\ MaxFaults \in Nat

\* The driver and the disk layer.
VARIABLES
  pc,           \* the next exchange of the call in progress, or "free"
  call,         \* the last call: operation, sector, number of blocks, block
  left,         \* blocks, or retries, still to go
  res,          \* the last R1 of the initialisation
  ms,           \* the counter of wait_ready
  card_type,    \* what the driver takes the card for
  rc,           \* result of the last call
  buf,          \* what sd_read stored
  noinit        \* STA_NOINIT of the disk layer

\* The card.
VARIABLES
  kind,         \* which card it is
  mode,         \* idle, ready, sending or receiving one or several blocks
  at,           \* the sector it is at
  busy,         \* whether it programs a block
  store,        \* its contents
  buffered,     \* sectors whose blocks it has taken and may not have programmed
  faults,       \* faults so far
  hasty,        \* whether the last disk_initialize began while it was busy
  cut           \* sectors it was to program as its supply failed, in the last call

driverVars == <<pc, call, left, res, ms, card_type, rc, buf, noinit>>
lineVars == <<mode, at, busy, store, buffered, faults>>
cardVars == <<kind, hasty, cut, lineVars>>
vars == <<driverVars, cardVars>>

Ones == {"idle", "illegal", "address", "high"}
Echo == {"high"}     \* the echo of SEND_IF_COND: 0xAA, the idle bit clear
NoBlock == "none"
Register == "csd"    \* contents of a register of the card
NoCall == [op |-> "none", sector |-> 0, n |-> 0, block |-> NoBlock]
Modes == {"idle", "ready", "send", "sendN", "sendR", "recv", "recvN"}

Init ==
  /\ pc = "free" /\ call = NoCall /\ left = 0 /\ res = {} /\ ms = 0
  /\ card_type = "none" /\ rc = 1 /\ buf = NoBlock /\ noinit = TRUE
  /\ kind \in Kinds /\ mode = "idle" /\ at = 0 /\ busy = FALSE
  /\ \E b \in Blocks : store = [s \in Sectors |-> b]
  /\ buffered = {} /\ faults = 0 /\ hasty = FALSE /\ cut = {}

-----------------------------------------------------------------------------
(* Commands.  Outcome(r, m, a) is what a card that hears a command does: it  *)
(* answers r, enters mode m, at sector a.                                    *)

Outcome(r, m, a) == [r1 |-> r, mode |-> m, at |-> a]
IdleBit == IF mode = "idle" THEN {"idle"} ELSE {}
Refused(bits) == {Outcome(IdleBit \cup bits, IF mode = "idle" THEN "idle" ELSE "ready", at)}

ByteAddressed == kind # "HC"
Address(sector) == IF card_type = "HC" THEN sector ELSE sector * BlockSize
SectorAt(address) == IF ByteAddressed THEN address \div BlockSize ELSE address

\* A transfer from or to an address, by a card that is initialised.
Transfer(address, m) ==
  IF mode = "idle" THEN Refused({"illegal"})
  ELSE IF ByteAddressed /\ address % BlockSize # 0 THEN Refused({"address"})
  ELSE IF SectorAt(address) \notin Sectors THEN Refused({"address"})
  ELSE {Outcome({}, m, SectorAt(address))}

\* ACMD41: the card may leave the idle state, with the high capacity bit if
\* it needs it; an MMC does not know the command.
OpCondOutcome(hcs) ==
  IF kind = "MMC" THEN Refused({"illegal"})
  ELSE {Outcome(IdleBit, mode, at)}
       \cup (IF kind = "HC" /\ ~hcs THEN {} ELSE {Outcome({}, "ready", at)})

GoIdleOutcome == {Outcome({"idle"}, "idle", at)}
IfCondOutcome == IF kind \in {"SD2", "HC"} /\ mode = "idle"
                 THEN {Outcome(Echo, mode, at)} ELSE Refused({"illegal"})
StayOutcome == {Outcome(IdleBit, IF mode = "idle" THEN "idle" ELSE "ready", at)}

\* A command goes unheard by a fault, or because the card takes it for data.
Unheard ==
  /\ ~busy
  /\ \/ mode = "recvN" /\ UNCHANGED faults
     \/ faults < MaxFaults /\ faults' = faults + 1

\* send_cmd(outcomes): the card hears the command, or is busy, or does not
\* hear it.  answer is what send_cmd stores as R1.
send_cmd(outcomes, answer, heard) ==
  \/ /\ ~busy /\ heard
     /\ \E o \in outcomes : answer = o.r1 /\ mode' = o.mode /\ at' = o.at
     /\ buffered' = {} /\ UNCHANGED faults
  \/ /\ busy /\ heard
     /\ answer = {}
     /\ UNCHANGED <<mode, at, buffered, faults>>
  \/ /\ ~heard /\ Unheard
     /\ answer = Ones
     /\ UNCHANGED <<mode, at, buffered>>

Answers == SUBSET {"idle", "illegal", "address"} \cup {Echo, Ones}

\* The call goes on at p, or returns r and its locals are gone.
Goto(p) == pc' = p /\ UNCHANGED <<call, rc, buf>>
Return(r) == pc' = "free" /\ rc' = r /\ left' = 0 /\ res' = {} /\ ms' = 0 /\ UNCHANGED <<call, buf>>
Locals == <<left, res, ms>>

-----------------------------------------------------------------------------
(* sd_init and disk_initialize.                                              *)

InitReturns(r) == Return(r) /\ noinit' = IF r = 0 THEN FALSE ELSE noinit
InitGoesTo(p) == Goto(p) /\ UNCHANGED noinit

disk_initialize ==
  /\ pc = "free"
  /\ pc' = "go_idle" /\ call' = [NoCall EXCEPT !.op = "init"] /\ rc' = 1 /\ buf' = NoBlock
  /\ hasty' = busy /\ cut' = {}
  /\ UNCHANGED <<Locals, card_type, noinit, kind, lineVars>>

GoIdle ==
  /\ pc = "go_idle"
  /\ \E heard \in BOOLEAN, r1 \in Answers :
       /\ send_cmd(GoIdleOutcome, r1, heard)
       /\ IF heard THEN InitGoesTo("if_cond") /\ UNCHANGED Locals ELSE InitReturns(1)
  /\ UNCHANGED <<card_type, kind, hasty, cut, busy, store>>

\* SEND_IF_COND: no answer means an old card; any other answer is taken for
\* that of a new card, whose echo is then compared.
SendIfCond ==
  /\ pc = "if_cond"
  /\ \E heard \in BOOLEAN, r1 \in Answers :
       /\ send_cmd(IfCondOutcome, r1, heard)
       /\ card_type' = IF heard THEN "SD2" ELSE "none"
       /\ IF heard /\ r1 # Echo THEN InitReturns(1)
          ELSE /\ InitGoesTo(IF heard THEN "op_cond" ELSE "old_probe")
               /\ left' = Retries /\ res' = r1 /\ UNCHANGED ms
  /\ UNCHANGED <<kind, hasty, cut, busy, store>>

\* SD_SEND_OP_COND is SEND_ACMD and then ACMD41; when SEND_ACMD is not heard
\* the answer of the command before stays in r1.
OpCond(hcs, r1, heard) ==
  \/ send_cmd(OpCondOutcome(hcs), r1, heard)
  \/ ~heard /\ Unheard /\ r1 = res /\ UNCHANGED <<mode, at, buffered>>

\* The loop that waits for the card to leave the idle state.
LeaveIdle(here, next, hcs) ==
  /\ pc = here
  /\ \E heard \in BOOLEAN, r1 \in Answers :
       /\ OpCond(hcs, r1, heard)
       /\ \/ "idle" \notin r1 /\ InitGoesTo(next) /\ UNCHANGED Locals
          \/ "idle" \in r1 /\ left = 1 /\ InitReturns(1)
          \/ /\ "idle" \in r1 /\ left > 1 /\ InitGoesTo(here)
             /\ left' = left - 1 /\ res' = r1 /\ UNCHANGED ms
  /\ UNCHANGED <<card_type, kind, hasty, cut, busy, store>>

NewLeavesIdle == LeaveIdle("op_cond", "read_ocr", TRUE)
OldLeavesIdle == LeaveIdle("old_op_cond", "set_blocklen", FALSE)

\* Slip: the capacity bit is not looked at.
ReadOcrSmall ==
  /\ pc = "read_ocr"
  /\ \E heard \in BOOLEAN, r1 \in Answers :
       /\ send_cmd(StayOutcome, r1, heard)
       /\ card_type' = "SD2"
       /\ InitReturns(IF heard THEN 0 ELSE 1)
  /\ UNCHANGED <<kind, hasty, cut, busy, store>>

\* read_ocr tests the last byte of the answer, which is 0 in every card; the
\* capacity bit is valid once the card has left the idle state.
ReadOcr ==
  /\ pc = "read_ocr"
  /\ \E heard \in BOOLEAN, r1 \in Answers :
       /\ send_cmd(StayOutcome, r1, heard)
       /\ card_type' = IF heard /\ ~busy /\ kind = "HC" /\ mode # "idle" THEN "HC" ELSE "SD2"
       /\ InitReturns(IF heard THEN 0 ELSE 1)
  /\ UNCHANGED <<kind, hasty, cut, busy, store>>

\* An old card: an error tells MMC from SD1, but both go on with ACMD41.
ProbeOld ==
  /\ pc = "old_probe"
  /\ \E heard \in BOOLEAN, r1 \in Answers :
       /\ OpCond(FALSE, r1, heard)
       /\ IF heard
          THEN /\ InitGoesTo("old_op_cond") /\ res' = r1 /\ UNCHANGED <<left, ms>>
               /\ card_type' = IF r1 \subseteq {"idle"} THEN "SD1" ELSE "MMC"
          ELSE InitReturns(1) /\ UNCHANGED card_type
  /\ UNCHANGED <<kind, hasty, cut, busy, store>>

SetBlockLen ==
  /\ pc = "set_blocklen"
  /\ \E heard \in BOOLEAN, r1 \in Answers :
       send_cmd(StayOutcome, r1, heard) /\ InitReturns(IF heard THEN 0 ELSE 1)
  /\ UNCHANGED <<card_type, kind, hasty, cut, busy, store>>

-----------------------------------------------------------------------------
(* Reading.  The file system reads and writes only what it has mounted: its  *)
(* last disk_initialize succeeded.                                           *)

Mounted == ~noinit /\ ~(call.op = "init" /\ rc # 0)
Calling(p) ==
  /\ pc = "free" /\ Mounted
  /\ pc' = p /\ rc' = 1 /\ left' = call'.n /\ buf' = NoBlock /\ cut' = {}
  /\ UNCHANGED <<res, ms, card_type, noinit, kind, hasty, lineVars>>

disk_read == \E s \in Sectors, n \in 1 .. 2 :
  /\ call' = [op |-> "read", sector |-> s, n |-> n, block |-> NoBlock]
  /\ Calling("read_cmd")

\* The command of a call, and the part of the call that follows it.
Command(here, next, one, several) ==
  /\ pc = here
  /\ \E heard \in BOOLEAN, r1 \in Answers :
       /\ send_cmd(Transfer(Address(call.sector), IF call.n > 1 THEN several ELSE one), r1, heard)
       /\ IF heard THEN Goto(next) /\ UNCHANGED Locals ELSE Return(1)
  /\ UNCHANGED <<card_type, noinit, kind, hasty, cut, busy, store>>
ReadCommand == Command("read_cmd", "recv_block", "send", "sendN")

\* read_csd: a register of the card is sent like a block.
read_csd ==
  /\ call' = [NoCall EXCEPT !.op = "csd", !.n = 1]
  /\ Calling("csd_cmd")
SendCsd ==
  /\ pc = "csd_cmd"
  /\ \E heard \in BOOLEAN, r1 \in Answers :
       /\ send_cmd(IF mode = "idle" THEN Refused({"illegal"}) ELSE {Outcome({}, "sendR", at)}, r1, heard)
       /\ IF heard THEN Goto("recv_block") /\ UNCHANGED Locals ELSE Return(1)
  /\ UNCHANGED <<card_type, noinit, kind, hasty, cut, busy, store>>

\* recv_block: the token comes and the block after it.
RecvBlock ==
  /\ pc = "recv_block" /\ mode \in {"send", "sendN", "sendR"} /\ ~busy
  /\ mode # "sendR" => at \in Sectors
  /\ buf' = IF mode = "sendR" THEN Register ELSE store[at]
  /\ at' = IF mode = "sendR" THEN at ELSE at + 1
  /\ mode' = IF mode = "sendN" THEN mode ELSE "ready"
  /\ left' = left - 1
  /\ pc' = IF left > 1 THEN pc ELSE IF call.n > 1 THEN "read_stop" ELSE "free"
  /\ rc' = IF left = 1 THEN 0 ELSE rc
  /\ UNCHANGED <<call, res, ms, card_type, noinit, kind, hasty, cut, busy, store, buffered, faults>>

\* Slip: there is no time-out.
NoTokenPolls == pc = "recv_block" /\ UNCHANGED vars

\* recv_block: no token within 200 polls.
NoToken ==
  /\ pc = "recv_block"
  /\ IF call.n > 1 THEN Goto("read_stop") /\ UNCHANGED Locals ELSE Return(1)
  /\ UNCHANGED <<card_type, noinit, cardVars>>

\* STOP_TRANSMISSION, its answer ignored; the card may be busy after it.
StopReading ==
  /\ pc = "read_stop"
  /\ \E heard \in BOOLEAN, r1 \in Answers :
       /\ send_cmd(StayOutcome, r1, heard)
       /\ busy' \in IF heard THEN {busy, TRUE} ELSE {busy}
  /\ Return(rc)
  /\ UNCHANGED <<card_type, noinit, kind, hasty, cut, store>>

-----------------------------------------------------------------------------
(* Writing.  sd_write does not advance in the caller's buffer: a call of     *)
(* several blocks sends the first of them each time.                         *)

disk_write == \E s \in Sectors, n \in 1 .. 2, b \in Blocks :
  /\ call' = [op |-> "write", sector |-> s, n |-> n, block |-> b]
  /\ Calling(IF n > 1 /\ card_type # "HC" THEN "erase_count" ELSE "write_cmd")

\* SET_WR_BLK_ERASE_COUNT, its answer ignored.
EraseCount ==
  /\ pc = "erase_count"
  /\ \E heard \in BOOLEAN, r1 \in Answers : send_cmd(StayOutcome, r1, heard)
  /\ Goto("write_cmd")
  /\ UNCHANGED <<Locals, card_type, noinit, kind, hasty, cut, busy, store>>

WriteCommand == Command("write_cmd", "send_block", "recv", "recvN")

\* send_block: a card that waits for a block takes it and is busy.
SendBlock ==
  /\ pc = "send_block" /\ mode \in {"recv", "recvN"} /\ ~busy /\ at \in Sectors
  /\ store' = [store EXCEPT ![at] = call.block]
  /\ at' = at + 1
  /\ mode' = IF mode = "recv" THEN "ready" ELSE mode
  /\ busy' = TRUE /\ buffered' = buffered \cup {at}
  /\ left' = left - 1 /\ ms' = Timeout
  /\ Goto("wait_ready")
  /\ UNCHANGED <<res, card_type, noinit, kind, hasty, cut, faults>>

\* Slip: the answer to the block is not looked at.
BlockRefusedUnseen ==
  /\ pc = "send_block"
  /\ mode' = IF mode = "recv" THEN "ready" ELSE mode
  /\ Goto("wait_ready") /\ left' = left - 1 /\ ms' = Timeout
  /\ UNCHANGED <<res, card_type, noinit, kind, hasty, cut, at, busy, store, buffered, faults>>

\* send_block: the card rejects the block, or does not answer at all.  A
\* call of several blocks ends without the token that stops the card.
BlockRefused ==
  /\ pc = "send_block"
  /\ mode' = IF mode = "recv" THEN "ready" ELSE mode
  /\ Return(1)
  /\ UNCHANGED <<card_type, noinit, kind, hasty, cut, at, busy, store, buffered, faults>>

\* send_block(NULL): the token that ends several blocks, not answered.
StopToken ==
  /\ pc = "stop_token"
  /\ mode' = IF mode = "recvN" /\ ~busy THEN "ready" ELSE mode
  /\ busy' \in IF mode = "recvN" THEN {busy, TRUE} ELSE {busy}
  /\ buffered' = IF busy' \/ mode' = "recvN" THEN buffered ELSE {}
  /\ ms' = Timeout
  /\ Goto("wait_stop")
  /\ UNCHANGED <<left, res, card_type, noinit, kind, hasty, cut, at, store, faults>>

\* wait_ready: the counter is tested only after the card is ready, and goes
\* on from 0 to the top.
PollBusy ==
  /\ pc \in {"wait_ready", "wait_stop"} /\ busy
  /\ ms' = (ms + Width - 1) % Width
  /\ UNCHANGED <<pc, call, left, res, card_type, rc, buf, noinit, cardVars>>

PollReady ==
  /\ pc \in {"wait_ready", "wait_stop"} /\ ~busy
  /\ IF ms = 0 THEN Return(1)
     ELSE IF pc = "wait_stop" \/ call.n = 1 THEN Return(0)
     ELSE Goto(IF left > 0 THEN "send_block" ELSE "stop_token") /\ UNCHANGED Locals
  /\ UNCHANGED <<card_type, noinit, cardVars>>

\* disk_ioctl(CTRL_SYNC): sd_sync polls a card it has not selected, and so
\* always finds the line idle.
disk_sync ==
  /\ pc = "free" /\ Mounted
  /\ call' = [NoCall EXCEPT !.op = "sync"] /\ rc' = 0 /\ buf' = NoBlock /\ cut' = {}
  /\ UNCHANGED <<pc, Locals, card_type, noinit, kind, hasty, lineVars>>

-----------------------------------------------------------------------------
\* A card that is done programs all it has taken, but in a write of several
\* blocks it may keep them until the token that ends it, or a command.
CardReady ==
  /\ busy /\ busy' = FALSE
  /\ buffered' = IF mode = "recvN" THEN buffered ELSE {}
  /\ UNCHANGED <<driverVars, kind, hasty, cut, mode, at, store, faults>>

\* The card loses its supply for a moment, or is pulled out and put back, while
\* it programs too: its line is then idle, which is what wait_ready waits for,
\* and the sectors it had still to program hold anything.
CardReset ==
  /\ faults < MaxFaults
  /\ faults' = faults + 1 /\ mode' = "idle" /\ busy' = FALSE
  /\ store' \in {c \in [Sectors -> Blocks] : \A s \in Sectors \ buffered : c[s] = store[s]}
  /\ buffered' = {} /\ cut' = cut \cup buffered
  /\ UNCHANGED <<driverVars, kind, hasty, at>>

DriverStep ==
  \/ GoIdle \/ SendIfCond \/ NewLeavesIdle \/ ReadOcr
  \/ ProbeOld \/ OldLeavesIdle \/ SetBlockLen
  \/ ReadCommand \/ SendCsd \/ RecvBlock \/ NoToken \/ StopReading
  \/ EraseCount \/ WriteCommand \/ SendBlock \/ BlockRefused \/ StopToken
  \/ PollBusy \/ PollReady
Calls == disk_initialize \/ disk_read \/ read_csd \/ disk_write \/ disk_sync

Next == Calls \/ DriverStep \/ CardReady \/ CardReset

Spec == Init /\ [][Next]_vars /\ WF_vars(DriverStep) /\ WF_vars(CardReady)

-----------------------------------------------------------------------------
TypeOK ==
  /\ pc \in {"free", "go_idle", "if_cond", "op_cond", "read_ocr", "old_probe", "old_op_cond",
             "set_blocklen", "read_cmd", "csd_cmd", "recv_block", "read_stop", "erase_count", "write_cmd",
             "send_block", "stop_token", "wait_ready", "wait_stop"}
  /\ call \in [op : {"none", "init", "read", "csd", "write", "sync"}, sector : Sectors \cup {0},
               n : 0 .. 2, block : Blocks \cup {NoBlock}]
  /\ left \in 0 .. (Retries + 2) /\ res \in Answers /\ ms \in 0 .. (Width - 1)
  /\ card_type \in {"none", "MMC", "SD1", "SD2", "HC"}
  /\ rc \in 0 .. 1 /\ buf \in Blocks \cup {NoBlock, Register} /\ noinit \in BOOLEAN
  /\ kind \in Kinds /\ mode \in Modes /\ at \in Nat /\ busy \in BOOLEAN
  /\ store \in [Sectors -> Blocks] /\ faults \in 0 .. MaxFaults /\ hasty \in BOOLEAN
  /\ buffered \subseteq Sectors /\ cut \subseteq Sectors

Returned(op) == pc = "free" /\ call.op = op /\ rc = 0
Asked == call.sector .. (call.sector + call.n - 1)

\* The properties leave out a card that was busy as disk_initialize began: if
\* SEND_IF_COND then goes unheard, a card of sector addresses is taken for one
\* of byte addresses.

\* A sd_write that returns 0 has stored its block in every sector asked for,
\* but those the card was to program as it lost its supply, which nothing tells
\* the driver of; and it has waited for the card, which has no block left to
\* lose: it is not busy and not left receiving.
WrittenMeansStored ==
  Returned("write") /\ ~hasty =>
    /\ \A s \in Asked : s \in Sectors /\ (store[s] = call.block \/ s \in cut)
    /\ ~busy /\ mode \notin {"recv", "recvN"} /\ buffered = {}

\* A sd_read that returns 0 holds what is in the last sector it was asked for
\* (the first is overwritten, for the loop does not advance in the buffer), and
\* a register that was read is not taken for a block.
ReadMeansStored ==
  /\ Returned("csd") => buf = Register
  /\ Returned("read") /\ ~hasty => /\ call.sector + call.n - 1 \in Sectors
                                   /\ buf = store[call.sector + call.n - 1]

\* A sd_init that returns 0, no command of it or before it unheard, leaves
\* a card that has left the idle state, and the driver knows its addresses.
InitMeansReady ==
  Returned("init") /\ faults = 0 => mode # "idle" /\ (card_type = "HC" <=> kind = "HC")

\* Whatever goes wrong, resets in the middle of a call included: the contents
\* of a sector change only by a write that names it, to the block of that write,
\* or by a loss of supply while the card has a block of that sector to program.
OnlyAskedChanges ==
  [][\A s \in Sectors : store'[s] # store[s] /\ ~hasty =>
       \/ call.op = "write" /\ s \in Asked /\ store'[s] = call.block
       \/ s \in buffered /\ s \in cut']_vars

\* Every call of the driver returns, if a busy card becomes ready.
CallsReturn == pc # "free" ~> pc = "free"

\* An old card that hears every command can be used: mmc_sdcard.c has a path
\* for SDv1 cards, which know no SEND_IF_COND.
OldCardInitialises ==
  kind = "SD1" /\ faults = 0 /\ pc = "free" /\ call.op = "init" => rc = 0

=============================================================================
