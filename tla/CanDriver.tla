------------------------------ MODULE CanDriver ------------------------------
(***************************************************************************)
(* The CAN driver of libat90/can.c: can_init, can_broadcast and            *)
(* read_message in the main loop, and the interrupt handler that serves    *)
(* the message objects (MObs) of the controller.                           *)
(*                                                                         *)
(* The registers of all MObs share one address; CANPAGE selects the MOb    *)
(* that is seen there.  The handler allows interrupts again as soon as it  *)
(* has read the status, so it may interrupt itself, and nobody puts        *)
(* CANPAGE back.  A frame is known by its number; its bytes are the two of *)
(* the id, the length, and the data, numbered in that order.               *)
(***************************************************************************)
EXTENDS Integers, Sequences, FiniteSets

CONSTANTS
  Tx, Spy,      \* the MObs can_broadcast may take, and those that receive
  Id,           \* message ids
  Subscribed,   \* those the node wants
  Length,       \* their data lengths
  RingSize,     \* size of the receive ring
  FastBus,      \* whether a frame may come while the handler runs
  MaxFrames,    \* bound on the number of frames other nodes send
  MaxSends,     \* bound on the number of frames this node sends
  MaxInits      \* bound on the number of times it calls can_init again

MObs == Tx \cup Spy

ASSUME CanAssumption ==
  /\ MObs \subseteq 0 .. 14 /\ Tx \cap Spy = {} /\ Spy # {}
  /\ Id # {} /\ Subscribed \subseteq Id
  /\ Length \in [Id -> 0 .. 8]
  /\ RingSize \in Nat \ {0}
  /\ FastBus \in BOOLEAN
  /\ MaxFrames \in Nat /\ MaxSends \in Nat /\ MaxInits \in Nat

VARIABLES
  page,         \* CANPAGE
  mob,          \* the MObs: mode, status and contents
  on_job,       \* mob_on_job
  rb,           \* the receive ring, as the queue it implements
  rx_comp, alloc_err,   \* counters of the driver
  isr,          \* the activations of the handler, the running one last
  enabled,      \* the interrupt flag of the processor
  send          \* where the main program is in can_broadcast or can_init

\* What happened so far, for the properties and the bounds.
VARIABLES
  arrived,      \* the ids of the frames other nodes have sent
  sent,         \* what this node has sent: [id, data], each as given to it
  asked,        \* the ids given to can_broadcast
  taken,        \* frames that have left the ring
  missed,       \* frames that found no MOb listening, or that nobody wants
  unmatched,    \* frames received only at a second attempt
  earlier,      \* frames counted in rx_comp before it was last reset
  inits,        \* calls of can_init after the first
  disturbed,    \* whether a handler came between the reading and the writing of
                \* mob_on_job, or after can_broadcast had selected its MOb
  stuck,        \* the MObs whose frame got through only at a second attempt, since
                \* can_init last reset them
  torn          \* whether can_init wrote into a frame that had just come

driverVars == <<page, mob, on_job, rb, rx_comp, alloc_err>>
cpuVars == <<isr, enabled, send>>
counts == <<taken, missed, unmatched, earlier, inits>>
flags == <<disturbed, torn>>
historyVars == <<arrived, sent, asked, counts, stuck, flags>>
vars == <<driverVars, cpuVars, historyVars>>

Lowest(S) == CHOOSE m \in S : \A k \in S : m <= k
Highest(S) == CHOOSE m \in S : \A k \in S : m >= k
Pending == {m \in MObs : mob[m].status # "none"}
Listening == {m \in MObs : mob[m].mode = "rx"}
Sending == {m \in MObs : mob[m].mode = "tx"}

Idle == [at |-> "idle", mob |-> 0, number |-> 0, job |-> {}]
SomeId == CHOOSE i \in Id : TRUE

\* The registers of a MOb as can_init leaves them; the data stays.
ResetMOb(m, data) ==
  [mode |-> IF m \in Spy THEN "rx" ELSE "off", status |-> "none",
   id |-> SomeId, len |-> IF m \in Spy THEN 8 ELSE 0, data |-> data]

\* The state can_init leaves.
Init ==
  /\ page = Highest(Spy)
  /\ mob = [m \in MObs |-> ResetMOb(m, 0)]
  /\ on_job = Spy
  /\ rb = <<>>
  /\ rx_comp = 0 /\ alloc_err = 0
  /\ isr = <<>>
  /\ enabled = TRUE
  /\ send = Idle
  /\ arrived = <<>> /\ sent = <<>> /\ asked = <<>>
  /\ taken = 0 /\ missed = 0 /\ unmatched = 0 /\ earlier = 0 /\ inits = 0
  /\ stuck = {}
  /\ disturbed = FALSE /\ torn = FALSE

-----------------------------------------------------------------------------
\* The controller and the bus.  On a slow bus nothing completes while another
\* frame is being handled.
BusReady == FastBus \/ (isr = <<>> /\ Pending = {})

\* A frame that met an error on the bus is repeated.  CAN_INT_ALL does not allow
\* interrupts for errors: the bit stays in the MOb, and is read together with that of
\* the frame that gets through, whether the MOb receives it or sends it.
Outcome(done, again) == IF again THEN "mixed" ELSE done

\* A frame goes to the first MOb that listens, which then listens no more.
FrameArrives ==
  /\ BusReady
  /\ Len(arrived) < MaxFrames
  /\ \E id \in Id :
       /\ arrived' = Append(arrived, id)
       /\ \/ /\ Listening = {}
             /\ missed' = missed + 1
             /\ UNCHANGED <<mob, unmatched, stuck>>
          \/ \E again \in BOOLEAN :
               LET m == Lowest(Listening)
               IN  /\ Listening # {}
                   /\ mob' = [mob EXCEPT ![m] =
                                [mode |-> "off", status |-> Outcome("rx", again), id |-> id,
                                 len |-> Length[id], data |-> Len(arrived')]]
                   /\ unmatched' = unmatched + (IF again THEN 1 ELSE 0)
                   /\ stuck' = stuck \cup (IF again THEN {m} ELSE {})
                   /\ UNCHANGED missed
  /\ UNCHANGED <<page, on_job, rb, rx_comp, alloc_err, cpuVars>>
  /\ UNCHANGED <<sent, asked, taken, earlier, inits, flags>>

FrameSent ==
  /\ BusReady
  /\ \E m \in Sending, again \in BOOLEAN :
       /\ mob' = [mob EXCEPT ![m].mode = "off", ![m].status = Outcome("tx", again)]
       /\ sent' = Append(sent, [id |-> mob[m].id, data |-> mob[m].data])
       /\ stuck' = stuck \cup (IF again THEN {m} ELSE {})
  /\ UNCHANGED <<page, on_job, rb, rx_comp, alloc_err, cpuVars>>
  /\ UNCHANGED <<arrived, asked, counts, flags>>

-----------------------------------------------------------------------------
\* The interrupt handler.  Running is the activation that runs; SetRunning(r)
\* replaces it.
Running == isr[Len(isr)]
SetRunning(r) == isr' = [isr EXCEPT ![Len(isr)] = r]
Fresh == [at |-> "loop", mob |-> 0, status |-> "none", id |-> SomeId,
          frame |-> 0, len |-> 0, next |-> 1]

Interrupt ==
  /\ enabled
  /\ Pending # {}
  /\ isr' = Append(isr, Fresh)
  /\ enabled' = FALSE
  /\ disturbed' = (disturbed \/ send.at \in {"store", "id", "data", "enable"})
  /\ UNCHANGED <<driverVars, send, arrived, sent, asked, counts, stuck, torn>>

\* The head of the loop: read the status and id of the first MOb that has an
\* interrupt, clear it, and allow interrupts.
Serve ==
  /\ isr # <<>> /\ Running.at = "loop" /\ Pending # {}
  /\ LET m == Lowest(Pending)
     IN  /\ page' = m
         /\ mob' = [mob EXCEPT ![m].status = "none"]
         /\ SetRunning([Running EXCEPT !.at = "status", !.mob = m,
                          !.status = mob[m].status, !.id = mob[m].id, !.frame = mob[m].data])
  /\ enabled' = TRUE
  /\ UNCHANGED <<on_job, rb, rx_comp, alloc_err, send, historyVars>>

ReturnFromInterrupt ==
  /\ isr # <<>> /\ Running.at = "loop" /\ Pending = {}
  /\ isr' = SubSeq(isr, 1, Len(isr) - 1)
  /\ enabled' = TRUE
  /\ UNCHANGED <<driverVars, send, historyVars>>

\* The end of the loop's body forbids interrupts; "continue" passes it by.
LoopAgain == SetRunning(Fresh) /\ enabled' = FALSE
Continue == SetRunning(Fresh) /\ UNCHANGED enabled

\* MOB_EN_RX acts on whatever MOb the page selects.
Listen == mob' = [mob EXCEPT ![page].mode = "rx"]

InBody(status) == isr # <<>> /\ Running.at = "status" /\ Running.status = status

Ignore ==
  /\ InBody("rx") /\ Running.id \notin Subscribed
  /\ Listen
  /\ Continue
  /\ missed' = missed + 1
  /\ UNCHANGED <<page, on_job, rb, rx_comp, alloc_err, send>>
  /\ UNCHANGED <<arrived, sent, asked, taken, unmatched, earlier, inits, stuck, flags>>

\* A slip: the room for the id and the length is forgotten.
HasRoomForData(len) == RingSize - 1 - Len(rb) > len

\* rb_left, against the id, the length and the data.
HasRoom(len) == RingSize - 1 - Len(rb) > 3 + len

\* A slip: a frame that finds no room leaves the MOb deaf.
NoRoomDeaf ==
  /\ InBody("rx") /\ Running.id \in Subscribed /\ ~HasRoom(mob[page].len)
  /\ UNCHANGED mob
  /\ alloc_err' = alloc_err + 1
  /\ LoopAgain
  /\ UNCHANGED <<page, on_job, rb, rx_comp, send, historyVars>>

NoRoom ==
  /\ InBody("rx") /\ Running.id \in Subscribed /\ ~HasRoom(mob[page].len)
  /\ Listen
  /\ alloc_err' = alloc_err + 1
  /\ LoopAgain
  /\ UNCHANGED <<page, on_job, rb, rx_comp, send, historyVars>>

StartFrame ==
  /\ InBody("rx") /\ Running.id \in Subscribed /\ HasRoom(mob[page].len)
  /\ SetRunning([Running EXCEPT !.at = "push", !.len = mob[page].len, !.next = 1])
  /\ UNCHANGED <<driverVars, enabled, send, historyVars>>

\* rb_push overwrites the oldest byte when the ring is full.
RbPush(byte) ==
  rb' = Append(IF Len(rb) = RingSize - 1 THEN Tail(rb) ELSE rb, byte)

\* One rb_push of receive_frame: the head comes from the handler's variables,
\* the data from the selected MOb.
PushByte ==
  /\ isr # <<>> /\ Running.at = "push" /\ Running.next <= 3 + Running.len
  /\ RbPush([frame |-> IF Running.next <= 3 THEN Running.frame ELSE mob[page].data,
             byte |-> Running.next])
  /\ SetRunning([Running EXCEPT !.next = @ + 1])
  /\ UNCHANGED <<page, mob, on_job, rx_comp, alloc_err, enabled, send, historyVars>>

EndFrame ==
  /\ isr # <<>> /\ Running.at = "push" /\ Running.next > 3 + Running.len
  /\ Listen
  /\ rx_comp' = rx_comp + 1
  /\ LoopAgain
  /\ UNCHANGED <<page, on_job, rb, alloc_err, send, historyVars>>

TxCompleted ==
  /\ InBody("tx")
  /\ on_job' = on_job \ {Running.mob}
  /\ LoopAgain
  /\ UNCHANGED <<page, mob, rb, rx_comp, alloc_err, send, historyVars>>

\* A status with two bits is none of those the switch knows: a frame received so is
\* lost, and its MOb does not listen again; one that was sent leaves its MOb taken.
MixedStatus ==
  /\ InBody("mixed")
  /\ LoopAgain
  /\ UNCHANGED <<driverVars, send, historyVars>>

\* An interrupt that is allowed is taken before anything else runs.
Preempted == enabled /\ Pending # {}

Handler ==
  /\ ~Preempted
  /\ \/ Serve \/ ReturnFromInterrupt
     \/ Ignore \/ NoRoom \/ StartFrame \/ PushByte \/ EndFrame
     \/ TxCompleted \/ MixedStatus

-----------------------------------------------------------------------------
\* The main program, which runs when no handler does.
SendStep(from, to) ==
  /\ isr = <<>>
  /\ send.at = from
  /\ send' = [send EXCEPT !.at = to]

\* A slip: the answer of find_me_a_mob that there is none is taken for a MOb.
FindMObUnchecked ==
  /\ isr = <<>> /\ send.at = "idle"
  /\ Len(asked) < MaxSends
  /\ \E id \in Id :
       /\ asked' = Append(asked, id)
       /\ LET free == MObs \ on_job
          IN  send' = [at |-> "load", mob |-> IF free = {} THEN -1 ELSE Lowest(free),
                       number |-> Len(asked'), job |-> {}]
  /\ UNCHANGED <<driverVars, isr, enabled, arrived, sent, counts, stuck, flags>>

\* can_broadcast: find_me_a_mob, or none.  An interrupt may free a lower MOb while
\* the search is on, so that any free one may be found.
FindMOb ==
  /\ isr = <<>> /\ send.at = "idle"
  /\ Len(asked) < MaxSends
  /\ \E id \in Id :
       /\ asked' = Append(asked, id)
       /\ LET free == MObs \ on_job
          IN  \/ free = {} /\ UNCHANGED send
              \/ \E m \in free :
                   send' = [at |-> "load", mob |-> m, number |-> Len(asked'), job |-> {}]
  /\ UNCHANGED <<driverVars, isr, enabled, arrived, sent, counts, stuck, flags>>

\* BIT_SET reads and writes all of mob_on_job.
LoadJobs ==
  /\ isr = <<>> /\ send.at = "load"
  /\ send' = [send EXCEPT !.at = "store", !.job = on_job]
  /\ UNCHANGED <<driverVars, isr, enabled, historyVars>>

\* A slip: the MOb is not marked as taken.
StoreNothing ==
  /\ SendStep("store", "page")
  /\ UNCHANGED <<driverVars, isr, enabled, historyVars>>

StoreJobs ==
  /\ SendStep("store", "page")
  /\ on_job' = send.job \cup {send.mob}
  /\ UNCHANGED <<page, mob, rb, rx_comp, alloc_err, isr, enabled, historyVars>>

SelectMOb ==
  /\ SendStep("page", "id")
  /\ page' = send.mob
  /\ UNCHANGED <<mob, on_job, rb, rx_comp, alloc_err, isr, enabled, historyVars>>

WriteId ==
  /\ SendStep("id", "data")
  /\ mob' = [mob EXCEPT ![page].id = asked[send.number]]
  /\ UNCHANGED <<page, on_job, rb, rx_comp, alloc_err, isr, enabled, historyVars>>

\* The length is or'ed into the four bits of the register, and a message without
\* payload leaves the data of the last one in the MOb.
Or(a, b) ==
  LET bit(k) == IF (a \div k) % 2 = 1 \/ (b \div k) % 2 = 1 THEN k ELSE 0
  IN  bit(1) + bit(2) + bit(4) + bit(8)

WriteData ==
  /\ SendStep("data", "enable")
  /\ LET len == Length[asked[send.number]]
     IN  mob' = [mob EXCEPT ![page].len = Or(@, len),
                            ![page].data = IF len > 0 THEN send.number ELSE @]
  /\ UNCHANGED <<page, on_job, rb, rx_comp, alloc_err, isr, enabled, historyVars>>

EnableTx ==
  /\ isr = <<>> /\ send.at = "enable"
  /\ send' = Idle
  /\ mob' = [mob EXCEPT ![page].mode = "tx"]
  /\ UNCHANGED <<page, on_job, rb, rx_comp, alloc_err, isr, enabled, historyVars>>

\* read_message, all of it with interrupts off.  The third byte is the length,
\* as long as the ring holds whole frames.
ReadMessage ==
  /\ isr = <<>> /\ send.at = "idle"
  /\ Len(rb) >= 3
  /\ rb' = SubSeq(rb, 4 + Length[arrived[rb[3].frame]], Len(rb))
  /\ taken' = taken + 1
  /\ UNCHANGED <<page, mob, on_job, rx_comp, alloc_err, cpuVars>>
  /\ UNCHANGED <<arrived, sent, asked, missed, unmatched, earlier, inits, stuck, flags>>

\* The frames in the ring.
FramesHeld == Cardinality({k \in DOMAIN rb : rb[k].byte = 1})

\* can_init: rb_init empties the ring while the handler may still come.
InitRing ==
  /\ SendStep("idle", "clear")
  /\ inits < MaxInits
  /\ rb' = <<>>
  /\ taken' = taken + FramesHeld
  /\ inits' = inits + 1
  /\ UNCHANGED <<page, mob, on_job, rx_comp, alloc_err, isr, enabled>>
  /\ UNCHANGED <<arrived, sent, asked, missed, unmatched, earlier, stuck, flags>>

\* Then it clears as many bytes of the buffer as the size of the ring has, which
\* is two: the id of a frame that has come meanwhile.
ClearSlots ==
  /\ SendStep("clear", "reset")
  /\ rb' = [k \in DOMAIN rb |-> IF k <= 2 THEN [rb[k] EXCEPT !.frame = 0] ELSE rb[k]]
  /\ torn' = (torn \/ rb # <<>>)
  /\ UNCHANGED <<page, mob, on_job, rx_comp, alloc_err, isr, enabled>>
  /\ UNCHANGED <<arrived, sent, asked, counts, stuck, disturbed>>

\* The rest, from the reset of the controller, which forbids its interrupts, to
\* CAN_INT_ALL.  alloc_err is not among the counters it resets.
ResetController ==
  /\ isr = <<>> /\ send.at = "reset"
  /\ send' = Idle
  /\ page' = Highest(Spy)
  /\ mob' = [m \in MObs |-> ResetMOb(m, mob[m].data)]
  /\ on_job' = Spy
  /\ rx_comp' = 0
  /\ earlier' = earlier + rx_comp
  /\ stuck' = {}
  /\ UNCHANGED <<rb, alloc_err, isr, enabled>>
  /\ UNCHANGED <<arrived, sent, asked, taken, missed, unmatched, inits, flags>>

Main ==
  /\ ~Preempted
  /\ \/ FindMOb \/ LoadJobs \/ StoreJobs
     \/ SelectMOb \/ WriteId \/ WriteData \/ EnableTx
     \/ ReadMessage
     \/ InitRing \/ ClearSlots \/ ResetController

Next == FrameArrives \/ FrameSent \/ Interrupt \/ Handler \/ Main

Spec == Init /\ [][Next]_vars

-----------------------------------------------------------------------------
TypeOK ==
  /\ page \in MObs
  /\ mob \in [MObs -> [mode : {"off", "rx", "tx"}, status : {"none", "rx", "tx", "mixed"},
                       id : Id, len : 0 .. 15, data : 0 .. MaxFrames + MaxSends]]
  /\ on_job \subseteq MObs
  /\ rb \in Seq([frame : 0 .. MaxFrames + MaxSends, byte : 1 .. 11])
  /\ Len(rb) < RingSize
  /\ rx_comp \in Nat /\ alloc_err \in Nat
  /\ \A k \in DOMAIN isr : isr[k].at \in {"loop", "status", "push"}
  /\ enabled \in BOOLEAN
  /\ send.at \in {"idle", "load", "store", "page", "id", "data", "enable", "clear", "reset"}
  /\ unmatched \in Nat /\ stuck \subseteq MObs
  /\ disturbed \in BOOLEAN /\ torn \in BOOLEAN

\* can.c:349-355 says of receive_frame: "Reads a CAN frame from the bus and
\* pushes it onto the CAN input ring-buffer. It pushes the id, data length and
\* data itself."  Whenever the main program can look, the ring is made of whole
\* frames in the order of their arrival: none is cut, mixed with another, or
\* overwritten when the ring is full (can.c:356-397), unless can_init has written
\* into one (ringbuffer.h:102).
WholeFrames ==
  ~torn /\ isr = <<>> /\ rb # <<>> =>
    LET last(b) == b.byte = 3 + Length[arrived[b.frame]]
    IN  /\ rb[1].byte = 1
        /\ last(rb[Len(rb)])
        /\ \A k \in 1 .. Len(rb) - 1 :
             \/ rb[k + 1] = [rb[k] EXCEPT !.byte = @ + 1]
             \/ /\ last(rb[k])
                /\ rb[k + 1].byte = 1
                /\ rb[k + 1].frame > rb[k].frame

AtRest == isr = <<>> /\ Pending = {}

\* What the driver's counters say, and what they do not: every frame that came is
\* one of those counted in rx_comp (since can_init or before), one counted in
\* alloc_err, or one that no counter tells of: it found nobody listening or wanting
\* it, or it got through at a second attempt only, which no case of the handler's
\* switch knows.  What rx_comp has counted is what has left the ring or is in it
\* (can.c:256-279, 356-375, 382-397, 418-456).
EveryFrameCounted ==
  AtRest =>
    /\ Len(arrived) = earlier + rx_comp + alloc_err + missed + unmatched
    /\ earlier + rx_comp = taken + FramesHeld

\* What the main program reads is what came: whole frames, and all of them but those
\* that a counter reports as lost and those just named that are lost in silence
\* (can.c:356-397, 418-456).
ReceivedWhole == WholeFrames /\ EveryFrameCounted

\* Unless the handler disturbs can_broadcast, the MObs whose frame was repeated on the
\* bus, received or sent, are lost until can_init is called again, and no others: when
\* the handler is done the other spy MObs listen, and mob_on_job holds the spies, the
\* MObs that are sending and the lost ones.  None is given out while it is in use,
\* can_init at any moment included (can.c:256-346, 409-459).
NoMObLost ==
  ~disturbed /\ AtRest =>
    /\ Listening = Spy \ stuck
    /\ on_job = Spy \cup Sending \cup stuck
         \cup (IF send.at \in {"page", "id", "data", "enable"} THEN {send.mob} ELSE {})

\* Unless the handler disturbs can_broadcast, what goes out on the bus carries
\* the id and, if there is any, the data of one call of it, and each call sends
\* once at most (can.c:288-312).
SentAsAsked ==
  ~disturbed =>
    /\ \A id \in Id : Cardinality({k \in DOMAIN sent : sent[k].id = id})
                       <= Cardinality({n \in DOMAIN asked : asked[n] = id})
    /\ \A k \in DOMAIN sent :
         Length[sent[k].id] > 0 =>
           /\ sent[k].data \in DOMAIN asked
           /\ sent[k].id = asked[sent[k].data]
           /\ \A j \in DOMAIN sent : sent[j] = sent[k] => j = k

=============================================================================
