-------------------------- MODULE CanDriver_proofs --------------------------
(***************************************************************************)
(* The CAN driver on a bus slower than the handler, for any number of MObs, *)
(* ids, frames and calls, can_init at any time included.  In three parts:   *)
(*                                                                         *)
(*   IInv      where every message object (MOb) is: none is ever lost, and *)
(*             none is given out while it is in use, but for those whose   *)
(*             frame was repeated on the bus, until can_init is called     *)
(*             again, and unless the handler disturbs can_broadcast;       *)
(*   Received  what the ring holds: whole frames and a part of the one     *)
(*             being received; and how many frames each counter stands for; *)
(*   Sent      of which call of can_broadcast each frame that was sent, and *)
(*             each that waits in a MOb, is.                               *)
(***************************************************************************)
EXTENDS CanDriver, SequenceTheorems, FiniteSetTheorems, FunctionTheorems, WellFoundedInduction,
        TLAPS

\* A set of MObs that is not empty has a lowest one.
LEMMA LowestIn ==
  ASSUME NEW S \in SUBSET Nat, S # {}
  PROVE  Lowest(S) \in S
<1> DEFINE R == {p \in Nat \X Nat : p[1] < p[2]}
<1>1. IsWellFoundedOn(R, Nat)
  BY NatLessThanWellFounded DEF OpToRel
<1> HIDE DEF R
<1>2. PICK x \in S : \A y \in S : ~(<<y, x>> \in R)
  BY <1>1, WFMin
<1>3. ASSUME NEW y \in S PROVE x <= y
  <2>1. <<y, x>> \in Nat \X Nat /\ <<y, x>>[1] = y /\ <<y, x>>[2] = x
    OBVIOUS
  <2>2. ~(<<y, x>> \in {p \in Nat \X Nat : p[1] < p[2]})
    BY <1>2, Zenon DEF R
  <2>3. ~(y < x)
    BY <2>1, <2>2
  <2> QED BY <2>3
<1> QED BY <1>3 DEF Lowest
-----------------------------------------------------------------------------
\* Records of the MObs, of an activation of the handler and of can_broadcast.
SomeIds == Id \cup {SomeId}
Bits == {"rx", "tx", "mixed"}
Status == {"none"} \cup Bits
MObRec == [mode : {"off", "rx", "tx"}, status : Status,
           id : SomeIds, len : 0 .. 15, data : 0 .. MaxFrames + MaxSends]
Activation == [at : {"loop", "status", "push"}, mob : Nat, status : Status,
               id : SomeIds, frame : Nat, len : Nat, next : Nat]
Holding == {"load", "store", "page", "id", "data", "enable"}
Places == {"idle", "clear", "reset"} \cup Holding
Call == [at : Places, mob : Nat, number : Nat, job : SUBSET MObs]

\* What was received and asked for, within the bounds.
Logs == /\ arrived \in Seq(Id) /\ Len(arrived) <= MaxFrames
        /\ asked \in Seq(Id) /\ Len(asked) <= MaxSends

Types ==
  /\ mob \in [MObs -> MObRec]
  /\ on_job \subseteq MObs
  /\ isr \in Seq(Activation) /\ Len(isr) <= 1
  /\ enabled \in BOOLEAN /\ disturbed \in BOOLEAN /\ stuck \subseteq MObs
  /\ send \in Call
  /\ Logs
  /\ send.at \in Holding => send.number \in 1 .. Len(asked) /\ send.mob \in MObs

\* The handler is in the body of its loop.
Active == isr # <<>> /\ isr[1].at # "loop"

\* One frame at a time: there is one activation at most, a MOb that waits is the
\* only one, and the page of the MOb being served is selected.
One ==
  /\ \A m, n \in MObs : mob[m].status # "none" /\ mob[n].status # "none" => m = n
  /\ isr = <<>> => enabled
  /\ isr # <<>> /\ (Active \/ enabled) => \A m \in MObs : mob[m].status = "none"
  /\ Active => /\ isr[1].mob \in MObs /\ page = isr[1].mob /\ isr[1].status # "none"
               /\ isr[1].at = "push" => isr[1].status = "rx"

\* A MOb waits for the handler or is being served by it.
Handled(m, s) == mob[m].status = s \/ (Active /\ isr[1].mob = m /\ isr[1].status = s)

\* Where every MOb is: a spy listens or is being served, another one is free,
\* taken by can_broadcast, sending, or being served; or it is stuck.
Given == IF send.at \in {"page", "id", "data", "enable"} THEN {send.mob} ELSE {}
SpiesListen == \A m \in Spy :
  /\ mob[m].mode = "rx" \/ Handled(m, "rx") \/ m \in stuck
  /\ mob[m].mode # "tx" /\ ~Handled(m, "tx")
OthersSend == \A m \in Tx : mob[m].mode # "rx" /\ ~Handled(m, "rx")
ServedAreOff == \A m \in MObs : Handled(m, "rx") \/ Handled(m, "tx") => mob[m].mode = "off"
Used(m) == m \in Spy \/ mob[m].mode = "tx" \/ Handled(m, "tx") \/ m \in stuck \/ m \in Given
JobsTrue == \A m \in MObs : m \in on_job <=> Used(m)
CallKeepsMOb ==
  /\ send.at \in {"load", "store"} => send.mob \in Tx /\ send.mob \notin on_job
  /\ send.at = "store" => send.job = on_job
  /\ send.at \in {"page", "id", "data", "enable"} =>
       send.mob \in Tx /\ mob[send.mob].mode = "off" /\ ~Handled(send.mob, "tx")
  /\ send.at \in {"store", "id", "data", "enable"} => isr = <<>>
  /\ send.at \in {"id", "data", "enable"} => page = send.mob

\* A MOb whose status has two bits is stuck, and one that is stuck neither listens nor
\* sends nor is served as one that has.
StuckOff == \A m \in MObs :
  /\ Handled(m, "mixed") => m \in stuck
  /\ m \in stuck => /\ mob[m].mode = "off" /\ m \notin Given
                    /\ ~Handled(m, "rx") /\ ~Handled(m, "tx")

Jobs == SpiesListen /\ OthersSend /\ ServedAreOff /\ JobsTrue /\ CallKeepsMOb /\ StuckOff

\* No handler came between the steps of can_broadcast.
Calm == ~disturbed

IInv == Types /\ One /\ (Calm => Jobs)

LEMMA IInvImplies == IInv => NoMObLost
<1> SUFFICES ASSUME IInv, Calm, AtRest
             PROVE  Listening = Spy \ stuck /\ on_job = Spy \cup Sending \cup stuck \cup Given
  BY DEF NoMObLost, Given, Calm
<1>1. isr = <<>> /\ \A m \in MObs : mob[m].status = "none"
  BY DEF AtRest, Pending
<1>2. \A m \in MObs : ~Handled(m, "rx") /\ ~Handled(m, "tx")
  BY <1>1 DEF Handled, Active, Status, Bits
<1>3. \A m \in MObs : mob[m].mode = "rx" <=> m \in Spy /\ m \notin stuck
  BY <1>2 DEF IInv, Jobs, SpiesListen, OthersSend, StuckOff, MObs
<1>4. Given \subseteq MObs
  BY DEF Given, IInv, Jobs, CallKeepsMOb, MObs, Status, Bits
<1>5. \A m \in MObs : m \in on_job <=> m \in Spy \/ m \in Sending \/ m \in stuck \/ m \in Given
  BY <1>2 DEF IInv, Jobs, JobsTrue, Used, Sending, Status, Bits
<1>6. on_job \subseteq MObs /\ Spy \subseteq MObs /\ Sending \subseteq MObs /\ stuck \subseteq MObs
  BY DEF IInv, Types, MObs, Sending, Holding
<1>7. Listening = Spy \ stuck
  BY <1>3, <1>6 DEF Listening
<1> QED BY <1>4, <1>5, <1>6, <1>7

LEMMA InitIInv == Init => IInv
<1> SUFFICES ASSUME Init PROVE IInv
  OBVIOUS
<1>1. Types
  <2>1. mob \in [MObs -> MObRec]
    BY CanAssumption DEF Init, ResetMOb, MObRec, SomeIds, Status, Bits
  <2>2. isr \in Seq(Activation) /\ Len(isr) = 0 /\ Logs
    BY CanAssumption DEF Init, Logs
  <2>3. send \in Call /\ send.at = "idle"
    BY DEF Init, Idle, Call, Places, Holding
  <2>4. on_job \subseteq MObs /\ enabled \in BOOLEAN /\ disturbed \in BOOLEAN /\ stuck \subseteq MObs
    BY DEF Init, MObs
  <2> QED BY <2>1, <2>2, <2>3, <2>4 DEF Types, Logs, Holding
<1>2. isr = <<>> /\ \A m \in MObs : mob[m].status = "none" /\ mob[m].mode = IF m \in Spy THEN "rx" ELSE "off"
  BY DEF Init, ResetMOb
<1>3. One
  BY <1>2 DEF One, Active, Init
<1>4. \A m \in MObs : ~Handled(m, "rx") /\ ~Handled(m, "tx") /\ ~Handled(m, "mixed")
  BY <1>2 DEF Handled, Active, Status, Bits
<1>9. stuck = {}
  BY DEF Init
<1>5. SpiesListen /\ OthersSend /\ ServedAreOff /\ StuckOff
  BY <1>2, <1>4, <1>9, CanAssumption DEF SpiesListen, OthersSend, ServedAreOff, StuckOff, Status, Bits, MObs
<1>6. send.at = "idle" /\ on_job = Spy
  BY DEF Init, Idle
<1>7. JobsTrue
  BY <1>2, <1>4, <1>6, <1>9 DEF JobsTrue, Used, Given, Status, Bits
<1>8. CallKeepsMOb
  BY <1>6 DEF CallKeepsMOb, Status, Bits
<1> QED BY <1>1, <1>3, <1>5, <1>7, <1>8 DEF IInv, Jobs

-----------------------------------------------------------------------------
(* The activations of the handler.                                           *)

LEMMA OneRuns ==
  ASSUME Types, isr # <<>>
  PROVE  Len(isr) = 1 /\ Running = isr[1] /\ isr[1] \in Activation
<1>1. isr \in Seq(Activation)
  BY DEF Types, Logs, Holding
<1>2. Len(isr) \in Nat /\ Len(isr) # 0
  BY <1>1, LenProperties, EmptySeq
<1>3. Len(isr) <= 1
  BY DEF Types, Logs, Holding
<1>4. Len(isr) = 1
  <2>1. \A n \in Nat : n <= 1 /\ n # 0 => n = 1
    OBVIOUS
  <2> QED BY <1>2, <1>3, <2>1
<1> QED BY <1>1, <1>4, ElementOfSeq DEF Running

LEMMA RunningSet ==
  ASSUME Types, isr # <<>>, NEW r \in Activation, SetRunning(r)
  PROVE  isr' \in Seq(Activation) /\ Len(isr') = 1 /\ isr' # <<>> /\ isr'[1] = r
<1>1. Len(isr) = 1 /\ isr \in Seq(Activation)
  BY OneRuns DEF Types, Logs, Holding
<1>2. isr' = [isr EXCEPT ![1] = r]
  BY <1>1 DEF SetRunning
<1> QED BY <1>1, <1>2, ExceptSeq

LEMMA FreshType == Fresh \in Activation /\ Fresh.at = "loop"
BY DEF Fresh, Activation, SomeIds, Status, Bits

\* The handler goes on in the body of its loop, with the same MOb.
LEMMA BodyKeeps ==
  ASSUME IInv, Active, NEW r \in Activation, r.at # "loop", SetRunning(r),
         r.mob = isr[1].mob, r.status = isr[1].status, r.at = "push" => r.status = "rx",
         UNCHANGED <<page, mob, on_job, enabled, send, arrived, asked, disturbed, stuck>>
  PROVE  IInv'
<1> USE DEF IInv
<1>1. isr' \in Seq(Activation) /\ Len(isr') = 1 /\ isr' # <<>> /\ isr'[1] = r
  BY RunningSet DEF Active
<1>2. Types'
  BY <1>1 DEF Types, Logs, Holding
<1>3. Active' /\ isr # <<>>
  BY <1>1 DEF Active
<1>4. One'
  BY <1>1, <1>3 DEF One
<1>5. \A m \in MObs : \A s \in Bits : Handled(m, s)' <=> Handled(m, s)
  BY <1>1, <1>3 DEF Handled, Status, Bits
<1>6. ASSUME Calm' PROVE Jobs'
  <2>1. Jobs /\ Given' = Given
    BY <1>6 DEF Given, Calm
  <2>2. SpiesListen' /\ OthersSend' /\ ServedAreOff' /\ JobsTrue' /\ StuckOff'
    BY <1>5, <2>1 DEF Jobs, SpiesListen, OthersSend, ServedAreOff, JobsTrue, Used, StuckOff, Status, Bits, MObs
  <2>3. CallKeepsMOb'
    BY <1>3, <1>5, <2>1 DEF Jobs, CallKeepsMOb, MObs, Status, Bits
  <2> QED BY <2>2, <2>3 DEF Jobs
<1> QED BY <1>2, <1>4, <1>6

\* The handler leaves the body of a received frame: the MOb listens again.
LEMMA ListenKeeps ==
  ASSUME IInv, Active, isr[1].status = "rx", Listen, SetRunning(Fresh),
         enabled' \in {enabled, FALSE},
         UNCHANGED <<page, on_job, send, arrived, asked, disturbed, stuck>>
  PROVE  IInv'
<1> USE DEF IInv
<1>1. isr' \in Seq(Activation) /\ Len(isr') = 1 /\ isr' # <<>> /\ isr'[1] = Fresh
  BY RunningSet, FreshType DEF Active
<1>2. ~Active' /\ isr # <<>>
  BY <1>1, FreshType DEF Active
<1>3. page \in MObs /\ page = isr[1].mob /\ \A m \in MObs : mob[m].status = "none"
  <2> USE DEF One
  <2>1. page \in MObs /\ page = isr[1].mob
    OBVIOUS
  <2>2. \A m \in MObs : mob[m].status = "none"
    BY <1>2
  <2> QED BY <2>1, <2>2
<1>4. /\ mob' \in [MObs -> MObRec]
      /\ \A m \in MObs : /\ mob'[m].status = "none"
                         /\ mob'[m].mode = IF m = page THEN "rx" ELSE mob[m].mode
  <2>1. mob \in [MObs -> MObRec] /\ mob' = [mob EXCEPT ![page].mode = "rx"]
    BY DEF Listen, Types, Logs, Holding
  <2>2. mob[page] \in MObRec
    BY <1>3, <2>1
  <2>3. mob' = [mob EXCEPT ![page] = [mob[page] EXCEPT !.mode = "rx"]]
    BY <2>1
  <2>4. [mob[page] EXCEPT !.mode = "rx"] \in MObRec
    BY <2>2 DEF MObRec, Status, Bits
  <2>5. \A m \in MObs : mob'[m] = IF m = page THEN [mob[page] EXCEPT !.mode = "rx"] ELSE mob[m]
    BY <1>3, <2>1, <2>3
  <2>6. mob[page].status = "none" /\ [mob[page] EXCEPT !.mode = "rx"].status = mob[page].status
                                 /\ [mob[page] EXCEPT !.mode = "rx"].mode = "rx"
    BY <1>3, <2>2 DEF MObRec, Status, Bits
  <2> QED BY <1>3, <2>1, <2>3, <2>4, <2>5, <2>6
<1>5. Types'
  <2>1. enabled' \in BOOLEAN
    BY DEF Types, Logs, Holding
  <2>2. Len(isr') <= 1 /\ isr' \in Seq(Activation)
    BY <1>1
  <2>3. (on_job \subseteq MObs /\ disturbed \in BOOLEAN /\ stuck \subseteq MObs)'
    BY DEF Types, Logs, Holding
  <2>4. (send \in Call /\ Logs
         /\ (send.at \in Holding => send.number \in 1 .. Len(asked) /\ send.mob \in MObs))'
    BY DEF Types, Logs, Holding
  <2> QED BY <1>4, <2>1, <2>2, <2>3, <2>4 DEF Types, Logs, Holding
<1>6. One'
  BY <1>1, <1>2, <1>4 DEF One
<1>7. \A m \in MObs : /\ Handled(m, "rx") <=> m = page
                     /\ ~Handled(m, "tx")
                     /\ ~Handled(m, "rx")' /\ ~Handled(m, "tx")' /\ ~Handled(m, "mixed")'
  BY <1>2, <1>3, <1>4 DEF Handled, Status, Bits
<1>8. ASSUME Calm' PROVE Jobs'
  <2>1. Jobs /\ Given' = Given
    BY <1>8 DEF Given, Calm
  <2>2. page \in Spy /\ mob[page].mode = "off"
    BY <1>3, <1>7, <2>1 DEF Jobs, OthersSend, ServedAreOff, StuckOff, Status, Bits, MObs
  <2>3. SpiesListen' /\ OthersSend' /\ ServedAreOff' /\ StuckOff'
    BY <1>4, <1>7, <2>1, <2>2, CanAssumption DEF Jobs, SpiesListen, OthersSend, ServedAreOff, StuckOff, Status, Bits, MObs
  <2>4. JobsTrue'
    BY <1>4, <1>7, <2>1, <2>2 DEF Jobs, JobsTrue, Used, Status, Bits
  <2>5. CallKeepsMOb'
    BY <1>2, <1>4, <1>7, <2>1, <2>2, CanAssumption DEF Jobs, CallKeepsMOb, MObs, Status, Bits
  <2> QED BY <2>3, <2>4, <2>5 DEF Jobs
<1> QED BY <1>5, <1>6, <1>8

-----------------------------------------------------------------------------
(* The controller and the bus.                                               *)

\* On a slow bus, a frame comes or goes only while the handler rests.
LEMMA SlowBus ==
  ASSUME FastBus = FALSE, BusReady
  PROVE  isr = <<>> /\ ~Active /\ \A m \in MObs : mob[m].status = "none"
BY DEF BusReady, Pending, Active

\* A frame fills the MOb it finds, and no other: the one served next.
LEMMA ArrivesKeeps == ASSUME FastBus = FALSE, IInv, FrameArrives PROVE IInv'
<1> USE DEF IInv
<1>1. isr = <<>> /\ ~Active /\ \A m \in MObs : mob[m].status = "none"
  BY SlowBus DEF FrameArrives
<1>2. PICK id \in Id, again \in BOOLEAN :
       /\ arrived' = Append(arrived, id)
       /\ \/ Listening = {} /\ UNCHANGED <<mob, stuck>>
          \/ /\ Listening # {}
             /\ mob' = [mob EXCEPT ![Lowest(Listening)] =
                          [mode |-> "off", status |-> Outcome("rx", again), id |-> id,
                           len |-> Length[id], data |-> Len(arrived')]]
             /\ stuck' = stuck \cup (IF again THEN {Lowest(Listening)} ELSE {})
  BY Zenon DEF FrameArrives
<1> DEFINE bits == Outcome("rx", again)
<1>11. bits \in {"rx", "mixed"} /\ (bits = "mixed" <=> again)
  BY Zenon DEF Outcome
<1>3. UNCHANGED <<page, on_job, isr, enabled, send, asked, disturbed>>
  BY DEF FrameArrives, cpuVars, flags
<1>4. arrived' \in Seq(Id) /\ Len(arrived') \in 0 .. MaxFrames
  <2>1. Len(arrived) < MaxFrames /\ arrived \in Seq(Id)
    BY DEF FrameArrives, Types, Logs
  <2> QED BY <1>2, <2>1, CanAssumption
<1>5. /\ on_job' \subseteq MObs /\ disturbed' \in BOOLEAN /\ enabled' \in BOOLEAN
      /\ isr' \in Seq(Activation) /\ Len(isr') <= 1
      /\ send' \in Call /\ asked' \in Seq(Id) /\ Len(asked') <= MaxSends
      /\ (send'.at \in Holding => send'.number \in 1 .. Len(asked') /\ send'.mob \in MObs)
  BY <1>3 DEF Types, Logs, Holding
<1>6. ~Active' /\ isr' = <<>> /\ enabled'
  BY <1>1, <1>3 DEF Active, One
<1>7. CASE Listening = {}
  <2>1. mob' = mob /\ stuck' = stuck
    BY <1>2, <1>7
  <2>2. Types'
    BY <1>4, <1>5, <2>1 DEF Types, Logs, Holding
  <2>3. One'
    BY <1>1, <1>6, <2>1 DEF One
  <2>4. \A m \in MObs : \A s \in Bits : Handled(m, s)' <=> Handled(m, s)
    BY <1>1, <1>6, <2>1 DEF Handled, Status, Bits
  <2>5. ASSUME Calm' PROVE Jobs'
    <3>1. Jobs /\ Given' = Given
      BY <1>3, <2>5 DEF Given, Calm
    <3>2. SpiesListen' /\ OthersSend' /\ ServedAreOff' /\ JobsTrue' /\ StuckOff'
      BY <1>3, <2>1, <2>4, <3>1 DEF Jobs, SpiesListen, OthersSend, ServedAreOff, JobsTrue, Used, StuckOff, Status, Bits, MObs
    <3>3. CallKeepsMOb'
      BY <1>3, <2>1, <2>4, <3>1 DEF Jobs, CallKeepsMOb, MObs, Status, Bits
    <3> QED BY <3>2, <3>3 DEF Jobs
  <2> QED BY <2>2, <2>3, <2>5
<1>8. CASE Listening # {}
  <2> DEFINE l == Lowest(Listening)
             new == [mode |-> "off", status |-> bits, id |-> id,
                     len |-> Length[id], data |-> Len(arrived')]
  <2>1. l \in MObs /\ mob[l].mode = "rx"
    <3>1. Listening \in SUBSET Nat
      BY CanAssumption DEF Listening, MObs
    <3>2. l \in Listening
      BY <1>8, <3>1, LowestIn
    <3> QED BY <3>2 DEF Listening
  <2>2. new \in MObRec /\ new.mode = "off" /\ new.status = bits
    BY <1>4, <1>11, CanAssumption DEF MObRec, SomeIds, Status, Bits
  <2>3. mob' = [mob EXCEPT ![l] = new] /\ mob \in [MObs -> MObRec]
    BY <1>2, <1>8 DEF Types, Logs, Holding
  <2>9. stuck' = stuck \cup (IF again THEN {l} ELSE {})
    BY <1>2, <1>8
  <2> HIDE DEF l, new, bits
  <2>10. stuck' \subseteq MObs
    BY <2>1, <2>9 DEF Types
  <2>4. mob' \in [MObs -> MObRec] /\ \A m \in MObs : mob'[m] = IF m = l THEN new ELSE mob[m]
    BY <2>1, <2>2, <2>3
  <2>5. Types'
    BY <1>4, <1>5, <2>4, <2>10 DEF Types, Logs, Holding
  <2>6. One'
    BY <1>1, <1>6, <2>4 DEF One
  <2>7. \A m \in MObs : /\ ~Handled(m, "rx") /\ ~Handled(m, "tx") /\ ~Handled(m, "tx")'
                        /\ Handled(m, "rx")' <=> m = l /\ ~again
                        /\ Handled(m, "mixed")' <=> m = l /\ again
    BY <1>1, <1>6, <1>11, <2>2, <2>4 DEF Handled, Status, Bits
  <2>8. ASSUME Calm' PROVE Jobs'
    <3>1. Jobs /\ Given' = Given
      BY <1>3, <2>8 DEF Given, Calm
    <3>2. l \in Spy /\ l \notin Given /\ l \notin stuck
      BY <2>1, <3>1 DEF Jobs, OthersSend, CallKeepsMOb, Given, StuckOff, MObs
    <3>3. SpiesListen' /\ OthersSend' /\ ServedAreOff' /\ StuckOff'
      BY <2>2, <2>4, <2>7, <2>9, <3>1, <3>2, CanAssumption
         DEF Jobs, SpiesListen, OthersSend, ServedAreOff, StuckOff, Status, Bits, MObs
    <3>4. JobsTrue'
      BY <1>3, <2>2, <2>4, <2>7, <2>9, <3>1, <3>2 DEF Jobs, JobsTrue, Used, Status, Bits
    <3>5. CallKeepsMOb'
      BY <1>1, <1>3, <2>4, <2>7, <3>1, <3>2, CanAssumption DEF Jobs, CallKeepsMOb, MObs, Status, Bits
    <3> QED BY <3>3, <3>4, <3>5 DEF Jobs
  <2> QED BY <2>5, <2>6, <2>8
<1> QED BY <1>7, <1>8

\* A MOb that has sent waits for the handler, and is still on its job.
LEMMA SentKeeps == ASSUME FastBus = FALSE, IInv, FrameSent PROVE IInv'
<1> USE DEF IInv
<1>1. isr = <<>> /\ ~Active /\ \A m \in MObs : mob[m].status = "none"
  BY SlowBus DEF FrameSent
<1>2. PICK l \in Sending, again \in BOOLEAN :
        /\ mob' = [mob EXCEPT ![l].mode = "off", ![l].status = Outcome("tx", again)]
        /\ stuck' = stuck \cup (IF again THEN {l} ELSE {})
  BY DEF FrameSent
<1> DEFINE bits == Outcome("tx", again)
<1>11. bits \in {"tx", "mixed"} /\ (bits = "mixed" <=> again)
  BY Zenon DEF Outcome
<1>12. mob' = [mob EXCEPT ![l].mode = "off", ![l].status = bits]
  BY <1>2
<1> HIDE DEF bits
<1>3. UNCHANGED <<page, on_job, isr, enabled, send, arrived, asked, disturbed>>
  BY DEF FrameSent, cpuVars, flags
<1>4. l \in MObs /\ mob[l].mode = "tx"
  BY DEF Sending
<1>5. /\ mob' \in [MObs -> MObRec]
      /\ \A m \in MObs : /\ m # l => mob'[m] = mob[m]
                         /\ mob'[l].mode = "off" /\ mob'[l].status = bits
  <2>1. mob \in [MObs -> MObRec] /\ mob[l] \in MObRec
    BY <1>4 DEF Types, Logs, Holding
  <2> DEFINE new == [mob[l] EXCEPT !.mode = "off", !.status = bits]
  <2>2. new \in MObRec /\ new.mode = "off" /\ new.status = bits
    BY <1>11, <2>1 DEF MObRec, Status, Bits
  <2>3. mob' = [mob EXCEPT ![l] = new]
    BY <1>4, <1>12, <2>1
  <2> HIDE DEF new
  <2> QED BY <1>4, <2>1, <2>2, <2>3
<1>6. ~Active' /\ isr' = <<>> /\ enabled'
  BY <1>1, <1>3 DEF Active, One
<1>13. stuck' \subseteq MObs
  BY <1>2, <1>4 DEF Types
<1>7. Types'
  BY <1>3, <1>5, <1>13 DEF Types, Logs, Holding
<1>8. One'
  BY <1>1, <1>5, <1>6, <1>11 DEF One
<1>9. \A m \in MObs : /\ ~Handled(m, "rx") /\ ~Handled(m, "tx") /\ ~Handled(m, "rx")'
                      /\ Handled(m, "tx")' <=> m = l /\ ~again
                      /\ Handled(m, "mixed")' <=> m = l /\ again
  BY <1>1, <1>5, <1>6, <1>11 DEF Handled, Status, Bits
<1>10. ASSUME Calm' PROVE Jobs'
  <2>1. Jobs /\ Given' = Given
    BY <1>3, <1>10 DEF Given, Calm
  <2>2. l \in Tx /\ l \in on_job /\ l \notin Given /\ l \notin stuck
    BY <1>4, <2>1 DEF Jobs, SpiesListen, JobsTrue, Used, CallKeepsMOb, Given, StuckOff, MObs, Status, Bits
  <2>3. SpiesListen' /\ OthersSend' /\ ServedAreOff' /\ StuckOff'
    BY <1>2, <1>5, <1>9, <2>1, <2>2, CanAssumption DEF Jobs, SpiesListen, OthersSend, ServedAreOff, StuckOff, Status, Bits, MObs
  <2>4. JobsTrue'
    BY <1>2, <1>3, <1>5, <1>9, <2>1, <2>2 DEF Jobs, JobsTrue, Used, Status, Bits
  <2>5. CallKeepsMOb'
    BY <1>1, <1>3, <1>4, <1>5, <1>9, <2>1, <2>2 DEF Jobs, CallKeepsMOb, MObs, Status, Bits
  <2> QED BY <2>3, <2>4, <2>5 DEF Jobs
<1> QED BY <1>7, <1>8, <1>10

-----------------------------------------------------------------------------
(* The steps of the handler.                                                 *)

\* The handler is entered once: inside it, interrupts are allowed only while no
\* MOb waits.
LEMMA InterruptKeeps == ASSUME IInv, Interrupt PROVE IInv'
<1> USE DEF IInv
<1>1. enabled /\ ~(\A m \in MObs : mob[m].status = "none")
  BY DEF Interrupt, Pending
<1>2. isr = <<>>
  BY <1>1 DEF One
<1>3. /\ isr' \in Seq(Activation) /\ Len(isr') = 1 /\ isr' # <<>> /\ isr'[1] = Fresh
      /\ enabled' = FALSE
  BY <1>2, FreshType DEF Interrupt
<1>4. UNCHANGED <<page, mob, on_job, send, arrived, asked, stuck>>
  BY DEF Interrupt, driverVars
<1>5. disturbed' \in BOOLEAN
      /\ (~disturbed' => ~disturbed /\ send.at \notin {"store", "id", "data", "enable"})
  BY Zenon DEF Interrupt
<1>6. ~Active /\ ~Active'
  BY <1>2, <1>3, FreshType DEF Active
<1>7. Types'
  <2>1. enabled' \in BOOLEAN
    BY <1>3
  <2>2. Len(isr') <= 1 /\ isr' \in Seq(Activation)
    BY <1>3
  <2>3. mob' \in [MObs -> MObRec] /\ on_job' \subseteq MObs /\ stuck' \subseteq MObs
    BY <1>4 DEF Types, Logs, Holding
  <2>4. (send \in Call /\ Logs
         /\ (send.at \in Holding => send.number \in 1 .. Len(asked) /\ send.mob \in MObs))'
    BY <1>4 DEF Types, Logs, Holding
  <2> QED BY <1>5, <2>1, <2>2, <2>3, <2>4 DEF Types, Logs, Holding
<1>8. One'
  BY <1>3, <1>4, <1>6 DEF One
<1>9. \A m \in MObs : \A s \in Bits : Handled(m, s)' <=> Handled(m, s)
  BY <1>4, <1>6 DEF Handled, Status, Bits
<1>10. ASSUME Calm' PROVE Jobs'
  <2>1. Jobs /\ Given' = Given /\ send.at \notin {"store", "id", "data", "enable"}
    BY <1>4, <1>5, <1>10 DEF Given, Calm
  <2>2. SpiesListen' /\ OthersSend' /\ ServedAreOff' /\ JobsTrue' /\ StuckOff'
    BY <1>4, <1>9, <2>1 DEF Jobs, SpiesListen, OthersSend, ServedAreOff, JobsTrue, Used, StuckOff, Status, Bits, MObs
  <2>3. CallKeepsMOb'
    BY <1>4, <1>9, <2>1 DEF Jobs, CallKeepsMOb, MObs, Status, Bits
  <2> QED BY <2>2, <2>3 DEF Jobs
<1> QED BY <1>7, <1>8, <1>10

\* The MOb that waits becomes the one that is served.
LEMMA ServeKeeps == ASSUME IInv, Serve PROVE IInv'
<1> USE DEF IInv
<1>1. isr # <<>> /\ Running = isr[1] /\ isr[1] \in Activation /\ isr[1].at = "loop"
  BY OneRuns DEF Serve
<1>2. ~Active
  BY <1>1 DEF Active
<1> DEFINE l == Lowest(Pending)
           r == [isr[1] EXCEPT !.at = "status", !.mob = l, !.status = mob[l].status,
                               !.id = mob[l].id, !.frame = mob[l].data]
<1>3. l \in MObs /\ l \in Nat /\ mob[l].status # "none"
  <2>1. Pending \in SUBSET Nat /\ Pending # {}
    BY SMTT(40), CanAssumption DEF Pending, MObs, Serve
  <2>2. l \in Pending
    BY <2>1, LowestIn
  <2> QED BY <2>1, <2>2 DEF Pending
<1>4. mob[l] \in MObRec /\ mob[l].data \in Nat
  <2>1. mob[l] \in MObRec
    BY <1>3 DEF Types
  <2>2. mob[l].data \in 0 .. MaxFrames + MaxSends
    BY <2>1 DEF MObRec
  <2> QED BY <2>1, <2>2, CanAssumption
<1>5. r \in Activation /\ r.at = "status" /\ r.mob = l /\ r.status = mob[l].status
  BY <1>1, <1>3, <1>4 DEF Activation, MObRec, Status, Bits
<1>6. page' = l /\ enabled' = TRUE /\ mob' = [mob EXCEPT ![l].status = "none"]
      /\ UNCHANGED <<on_job, send, arrived, asked, disturbed, stuck>>
  BY DEF Serve, historyVars, flags
<1>7. SetRunning(r)
  BY <1>1 DEF Serve
<1> HIDE DEF l, r
<1>8. isr' \in Seq(Activation) /\ Len(isr') = 1 /\ isr' # <<>> /\ isr'[1] = r
  BY <1>1, <1>5, <1>7, RunningSet
<1>9. Active'
  BY <1>5, <1>8 DEF Active
<1>10. /\ mob' \in [MObs -> MObRec]
       /\ \A m \in MObs : /\ mob'[m].status = IF m = l THEN "none" ELSE mob[m].status
                          /\ mob'[m].mode = mob[m].mode
  <2> DEFINE new == [mob[l] EXCEPT !.status = "none"]
  <2>1. new \in MObRec /\ new.mode = mob[l].mode /\ new.status = "none"
    BY <1>4 DEF MObRec, Status, Bits
  <2>2. mob' = [mob EXCEPT ![l] = new] /\ mob \in [MObs -> MObRec]
    BY <1>6 DEF Types, Logs, Holding
  <2> HIDE DEF new
  <2> QED BY <1>3, <2>1, <2>2
<1>11. \A m \in MObs : m # l => mob[m].status = "none"
  BY <1>3 DEF One
<1>12. Types'
  <2>1. enabled' \in BOOLEAN /\ Len(isr') <= 1
    BY <1>6, <1>8
  <2>2. (on_job \subseteq MObs /\ disturbed \in BOOLEAN /\ stuck \subseteq MObs)'
    BY <1>6 DEF Types, Logs, Holding
  <2>3. (send \in Call /\ Logs
         /\ (send.at \in Holding => send.number \in 1 .. Len(asked) /\ send.mob \in MObs))'
    BY <1>6 DEF Types, Logs, Holding
  <2> QED BY <1>8, <1>10, <2>1, <2>2, <2>3 DEF Types, Logs, Holding
<1>13. One'
  BY <1>3, <1>5, <1>6, <1>8, <1>10, <1>11 DEF One
<1>14. \A m \in MObs : \A s \in Bits : Handled(m, s)' <=> Handled(m, s)
  BY <1>2, <1>3, <1>5, <1>8, <1>9, <1>10, <1>11 DEF Handled, Status, Bits
<1>15. ASSUME Calm' PROVE Jobs'
  <2>1. Jobs /\ Given' = Given /\ send.at \notin {"store", "id", "data", "enable"}
    BY <1>1, <1>6, <1>15 DEF Given, Jobs, CallKeepsMOb, Calm, Status, Bits
  <2>2. SpiesListen' /\ OthersSend' /\ ServedAreOff' /\ JobsTrue' /\ StuckOff'
    BY <1>6, <1>10, <1>14, <2>1 DEF Jobs, SpiesListen, OthersSend, ServedAreOff, JobsTrue, Used, StuckOff, Status, Bits, MObs
  <2>3. CallKeepsMOb'
    BY <1>6, <1>10, <1>14, <2>1 DEF Jobs, CallKeepsMOb, MObs, Status, Bits
  <2> QED BY <2>2, <2>3 DEF Jobs
<1> QED BY <1>12, <1>13, <1>15

\* When it returns, no MOb waits.
LEMMA ReturnKeeps == ASSUME IInv, ReturnFromInterrupt PROVE IInv'
<1> USE DEF IInv
<1>1. isr # <<>> /\ Len(isr) = 1 /\ Running = isr[1] /\ isr[1].at = "loop"
  BY OneRuns DEF ReturnFromInterrupt
<1>2. \A m \in MObs : mob[m].status = "none"
  BY DEF ReturnFromInterrupt, Pending
<1>3. isr' = <<>> /\ enabled' = TRUE /\ UNCHANGED <<page, mob, on_job, send, arrived, asked, disturbed, stuck>>
  BY <1>1 DEF ReturnFromInterrupt, driverVars, historyVars, Types, Logs, flags, Holding
<1>4. ~Active /\ ~Active'
  BY <1>1, <1>3 DEF Active
<1>5. Types'
  BY <1>3 DEF Types, Logs, Holding
<1>6. One'
  BY <1>2, <1>3, <1>4 DEF One
<1>7. \A m \in MObs : \A s \in Bits : Handled(m, s)' <=> Handled(m, s)
  BY <1>3, <1>4 DEF Handled, Status, Bits
<1>8. ASSUME Calm' PROVE Jobs'
  <2>1. Jobs /\ Given' = Given
    BY <1>3, <1>8 DEF Given, Calm
  <2>2. SpiesListen' /\ OthersSend' /\ ServedAreOff' /\ JobsTrue' /\ StuckOff'
    BY <1>3, <1>7, <2>1 DEF Jobs, SpiesListen, OthersSend, ServedAreOff, JobsTrue, Used, StuckOff, Status, Bits, MObs
  <2>3. CallKeepsMOb'
    BY <1>3, <1>7, <2>1 DEF Jobs, CallKeepsMOb, MObs, Status, Bits
  <2> QED BY <2>2, <2>3 DEF Jobs
<1> QED BY <1>5, <1>6, <1>8

\* The handler in the body of its loop.
LEMMA BodyIsActive ==
  ASSUME IInv, NEW status, InBody(status)
  PROVE  Active /\ Running = isr[1] /\ isr[1] \in Activation /\ isr[1].status = status
BY OneRuns DEF IInv, InBody, Active

LEMMA PushIsActive ==
  ASSUME IInv, isr # <<>>, Running.at = "push"
  PROVE  Active /\ Running = isr[1] /\ isr[1] \in Activation /\ isr[1].status = "rx"
<1>1. Running = isr[1] /\ isr[1] \in Activation
  BY OneRuns DEF IInv
<1>2. Active
  BY <1>1 DEF Active
<1> QED BY <1>1, <1>2 DEF IInv, One

LEMMA IgnoreKeeps == ASSUME IInv, Ignore PROVE IInv'
<1>1. Active /\ isr[1].status = "rx"
  BY BodyIsActive DEF Ignore
<1>2. Listen /\ SetRunning(Fresh) /\ enabled' \in {enabled, FALSE}
      /\ UNCHANGED <<page, on_job, send, arrived, asked, disturbed, stuck>>
  BY DEF Ignore, Continue, flags
<1> QED BY <1>1, <1>2, ListenKeeps

LEMMA NoRoomKeeps == ASSUME IInv, NoRoom PROVE IInv'
<1>1. Active /\ isr[1].status = "rx"
  BY BodyIsActive DEF NoRoom
<1>2. Listen /\ SetRunning(Fresh) /\ enabled' \in {enabled, FALSE}
      /\ UNCHANGED <<page, on_job, send, arrived, asked, disturbed, stuck>>
  BY DEF NoRoom, LoopAgain, historyVars, flags
<1> QED BY <1>1, <1>2, ListenKeeps

LEMMA EndKeeps == ASSUME IInv, EndFrame PROVE IInv'
<1>1. Active /\ isr[1].status = "rx"
  BY PushIsActive DEF EndFrame
<1>2. Listen /\ SetRunning(Fresh) /\ enabled' \in {enabled, FALSE}
      /\ UNCHANGED <<page, on_job, send, arrived, asked, disturbed, stuck>>
  BY DEF EndFrame, LoopAgain, historyVars, flags
<1> QED BY <1>1, <1>2, ListenKeeps

LEMMA StartKeeps == ASSUME IInv, StartFrame PROVE IInv'
<1>1. Active /\ Running = isr[1] /\ isr[1] \in Activation /\ isr[1].status = "rx"
  BY BodyIsActive DEF StartFrame
<1>2. UNCHANGED <<page, mob, on_job, enabled, send, arrived, asked, disturbed, stuck>>
  BY DEF StartFrame, driverVars, historyVars, flags
<1>3. mob[page].len \in Nat
  <2>1. mob[page] \in MObRec
    BY <1>1 DEF IInv, One, Types
  <2>2. mob[page].len \in 0 .. 15
    BY <2>1 DEF MObRec
  <2> QED BY <2>2
<1> DEFINE r == [isr[1] EXCEPT !.at = "push", !.len = mob[page].len, !.next = 1]
<1>4. r \in Activation /\ r.at = "push" /\ r.mob = isr[1].mob /\ r.status = isr[1].status
  BY <1>1, <1>3 DEF Activation, Status, Bits
<1>5. SetRunning(r)
  BY <1>1 DEF StartFrame
<1> HIDE DEF r
<1> QED BY <1>1, <1>2, <1>4, <1>5, BodyKeeps

LEMMA PushKeeps == ASSUME IInv, PushByte PROVE IInv'
<1>1. Active /\ Running = isr[1] /\ isr[1] \in Activation /\ isr[1].status = "rx"
  BY PushIsActive DEF PushByte
<1>2. UNCHANGED <<page, mob, on_job, enabled, send, arrived, asked, disturbed, stuck>>
  BY DEF PushByte, historyVars, flags
<1> DEFINE r == [isr[1] EXCEPT !.next = @ + 1]
<1>3. r \in Activation /\ r.at = isr[1].at /\ r.mob = isr[1].mob /\ r.status = isr[1].status
  BY <1>1 DEF Activation, Status, Bits
<1>4. SetRunning(r) /\ isr[1].at = "push"
  BY <1>1 DEF PushByte
<1> HIDE DEF r
<1> QED BY <1>1, <1>2, <1>3, <1>4, BodyKeeps

\* The MOb that has sent is given back.
LEMMA TxKeeps == ASSUME IInv, TxCompleted PROVE IInv'
<1> USE DEF IInv
<1>1. Active /\ Running = isr[1] /\ isr[1].status = "tx"
  BY BodyIsActive DEF TxCompleted
<1> DEFINE l == isr[1].mob
<1>2. /\ on_job' = on_job \ {l} /\ SetRunning(Fresh) /\ enabled' = FALSE
      /\ UNCHANGED <<page, mob, send, arrived, asked, disturbed, stuck>>
  BY <1>1 DEF TxCompleted, LoopAgain, historyVars, flags
<1>3. isr # <<>> /\ isr' \in Seq(Activation) /\ Len(isr') = 1 /\ isr' # <<>> /\ isr'[1] = Fresh
  BY <1>1, <1>2, RunningSet, FreshType DEF Active
<1>4. ~Active'
  BY <1>3, FreshType DEF Active
<1>5. l \in MObs /\ \A m \in MObs : mob[m].status = "none"
  BY <1>1, <1>3 DEF One
<1> HIDE DEF l
<1>6. Types'
  <2>1. enabled' \in BOOLEAN
    BY <1>2
  <2>4. Len(isr') <= 1
    BY <1>3
  <2>2. on_job' \subseteq MObs /\ disturbed' \in BOOLEAN /\ stuck' \subseteq MObs /\ mob' \in [MObs -> MObRec]
    BY <1>2 DEF Types, Logs, Holding
  <2>3. (send \in Call /\ Logs
         /\ (send.at \in Holding => send.number \in 1 .. Len(asked) /\ send.mob \in MObs))'
    BY <1>2 DEF Types, Logs, Holding
  <2> QED BY <1>3, <2>1, <2>2, <2>3, <2>4 DEF Types, Logs, Holding
<1>7. One'
  BY <1>2, <1>3, <1>4, <1>5 DEF One
<1>8. \A m \in MObs : /\ Handled(m, "tx") <=> m = l
                      /\ ~Handled(m, "rx")
                      /\ ~Handled(m, "rx")' /\ ~Handled(m, "tx")' /\ ~Handled(m, "mixed")'
  BY <1>1, <1>2, <1>4, <1>5 DEF Handled, l, Status, Bits
<1>9. ASSUME Calm' PROVE Jobs'
  <2>1. Jobs /\ Given' = Given
    BY <1>2, <1>9 DEF Given, Calm
  <2>2. l \in Tx /\ mob[l].mode = "off" /\ l \notin Given /\ l \notin stuck
    BY <1>5, <1>8, <2>1 DEF Jobs, SpiesListen, ServedAreOff, CallKeepsMOb, Given, StuckOff, MObs, Status, Bits
  <2>3. SpiesListen' /\ OthersSend' /\ ServedAreOff' /\ StuckOff'
    BY <1>2, <1>8, <2>1 DEF Jobs, SpiesListen, OthersSend, ServedAreOff, StuckOff, Status, Bits, MObs
  <2>4. JobsTrue'
    BY <1>2, <1>8, <2>1, <2>2, CanAssumption DEF Jobs, JobsTrue, Used, Status, Bits
  <2>5. CallKeepsMOb'
    BY <1>2, <1>3, <1>8, <2>1 DEF Jobs, CallKeepsMOb, MObs, Status, Bits
  <2> QED BY <2>3, <2>4, <2>5 DEF Jobs
<1> QED BY <1>6, <1>7, <1>9

\* A MOb whose status the switch does not know neither listens again nor is given
\* back.
LEMMA MixedKeeps == ASSUME IInv, MixedStatus PROVE IInv'
<1> USE DEF IInv
<1>1. Active /\ isr[1].status = "mixed"
  BY BodyIsActive DEF MixedStatus
<1>2. SetRunning(Fresh) /\ enabled' = FALSE
      /\ UNCHANGED <<page, mob, on_job, send, arrived, asked, disturbed, stuck>>
  BY DEF MixedStatus, LoopAgain, driverVars, historyVars, flags
<1>3. isr # <<>> /\ isr' \in Seq(Activation) /\ Len(isr') = 1 /\ isr' # <<>> /\ isr'[1] = Fresh
  BY <1>1, <1>2, RunningSet, FreshType DEF Active
<1>4. ~Active'
  BY <1>3, FreshType DEF Active
<1>5. isr[1].mob \in MObs /\ \A m \in MObs : mob[m].status = "none"
  BY <1>1, <1>3 DEF One
<1>6. Types'
  <2>1. enabled' \in BOOLEAN
    BY <1>2
  <2>2. Len(isr') <= 1
    BY <1>3
  <2>3. (on_job \subseteq MObs /\ disturbed \in BOOLEAN /\ stuck \subseteq MObs)'
        /\ mob' \in [MObs -> MObRec]
    BY <1>2 DEF Types, Logs
  <2>4. (send \in Call /\ Logs
         /\ (send.at \in Holding => send.number \in 1 .. Len(asked) /\ send.mob \in MObs))'
    BY <1>2 DEF Types, Logs
  <2> QED BY <1>3, <2>1, <2>2, <2>3, <2>4 DEF Types, Logs
<1>7. One'
  BY <1>2, <1>3, <1>4, <1>5 DEF One
<1>9. \A m \in MObs : /\ ~Handled(m, "tx") /\ ~Handled(m, "rx")
                      /\ ~Handled(m, "rx")' /\ ~Handled(m, "tx")' /\ ~Handled(m, "mixed")'
  BY <1>1, <1>2, <1>4, <1>5 DEF Handled
<1>10. ASSUME Calm' PROVE Jobs'
  <2>1. Jobs /\ Given' = Given
    BY <1>2, <1>10 DEF Given, Calm
  <2>2. SpiesListen' /\ OthersSend' /\ ServedAreOff' /\ JobsTrue' /\ StuckOff'
    BY <1>2, <1>9, <2>1 DEF Jobs, SpiesListen, OthersSend, ServedAreOff, JobsTrue, Used, StuckOff, MObs
  <2>3. CallKeepsMOb'
    BY <1>2, <1>3, <1>9, <2>1 DEF Jobs, CallKeepsMOb, MObs
  <2> QED BY <2>2, <2>3 DEF Jobs
<1> QED BY <1>6, <1>7, <1>10

-----------------------------------------------------------------------------
(* The steps of the main program.                                            *)

\* While it runs no MOb waits for the handler.
LEMMA NoneWaits ==
  ASSUME IInv, isr = <<>>, ~Preempted
  PROVE  enabled /\ ~Active /\ \A m \in MObs : mob[m].status = "none"
BY DEF IInv, One, Preempted, Pending, Active

\* A step of it that writes no status.
LEMMA MainOne ==
  ASSUME IInv, isr = <<>>, ~Preempted, UNCHANGED <<isr, enabled>>,
         \A m \in MObs : mob'[m].status = mob[m].status
  PROVE  /\ One' /\ ~Active'
         /\ \A m \in MObs : \A s \in Bits : ~Handled(m, s) /\ ~Handled(m, s)'
<1>1. ~Active /\ ~Active' /\ enabled' /\ isr' = <<>>
      /\ \A m \in MObs : mob[m].status = "none" /\ mob'[m].status = "none"
  BY NoneWaits DEF Active
<1> QED BY <1>1 DEF One, Handled, Status, Bits

\* One that writes no MOb and not mob_on_job, and takes none for itself.
LEMMA CallGoesOn ==
  ASSUME IInv, isr = <<>>, ~Preempted,
         UNCHANGED <<mob, on_job, isr, enabled, arrived, disturbed, stuck>>,
         asked' \in Seq(Id), Len(asked') <= MaxSends,
         send' \in Call, Given' = Given,
         send'.at \in Holding => send'.number \in 1 .. Len(asked') /\ send'.mob \in MObs,
         Calm /\ Jobs => CallKeepsMOb'
  PROVE  IInv'
<1> USE DEF IInv
<1>1. One' /\ \A m \in MObs : \A s \in Bits : ~Handled(m, s) /\ ~Handled(m, s)'
  BY MainOne
<1>2. Types'
  BY DEF Types, Logs, Holding
<1>3. ASSUME Calm' PROVE Jobs'
  <2>1. Jobs /\ CallKeepsMOb'
    BY <1>3 DEF Calm
  <2>2. SpiesListen' /\ OthersSend' /\ ServedAreOff' /\ JobsTrue' /\ StuckOff'
    BY <1>1, <2>1 DEF Jobs, SpiesListen, OthersSend, ServedAreOff, JobsTrue, Used, StuckOff, Status, Bits, MObs
  <2> QED BY <2>1, <2>2 DEF Jobs
<1> QED BY <1>1, <1>2, <1>3

LEMMA FindKeeps == ASSUME IInv, FindMOb, ~Preempted PROVE IInv'
<1> USE DEF IInv
<1>1. isr = <<>> /\ send.at = "idle"
      /\ UNCHANGED <<page, mob, on_job, isr, enabled, arrived, disturbed, stuck>>
  BY DEF FindMOb, driverVars, flags
<1>2. PICK id \in Id :
        /\ asked' = Append(asked, id)
        /\ \/ UNCHANGED send
           \/ \E m \in MObs \ on_job :
                send' = [at |-> "load", mob |-> m, number |-> Len(asked'), job |-> {}]
  BY DEF FindMOb
<1>3. asked \in Seq(Id) /\ asked' \in Seq(Id) /\ Len(asked') = Len(asked) + 1 /\ Len(asked) \in Nat
  BY <1>2 DEF Types, Logs, Holding
<1>4. Len(asked') <= MaxSends /\ Len(asked') \in 1 .. Len(asked') /\ Len(asked') \in Nat
  BY <1>3, CanAssumption DEF FindMOb
<1>5. CASE UNCHANGED send
  <2>1. Calm /\ Jobs => CallKeepsMOb'
    BY <1>1, <1>5 DEF Jobs, CallKeepsMOb, Status, Bits
  <2>2. send' \in Call /\ Given' = Given /\ send'.at = "idle"
    BY <1>1, <1>5 DEF Types, Given, Holding
  <2> QED BY <1>1, <1>3, <1>4, <2>1, <2>2, CallGoesOn DEF Holding
<1>6. ASSUME NEW m \in MObs \ on_job,
             send' = [at |-> "load", mob |-> m, number |-> Len(asked'), job |-> {}]
      PROVE  IInv'
  <2>1. send'.at = "load" /\ send'.mob = m /\ send'.number = Len(asked') /\ m \in Nat
    BY <1>6, CanAssumption DEF MObs
  <2>2. send' \in Call /\ Given' = Given
    BY <1>1, <1>4, <1>6, <2>1 DEF Call, Places, Holding, Given
  <2>3. Calm /\ Jobs => CallKeepsMOb'
    BY <1>1, <1>6, <2>1 DEF Jobs, CallKeepsMOb, JobsTrue, Used, MObs, Status, Bits
  <2> QED BY <1>1, <1>3, <1>4, <2>1, <2>2, <2>3, CallGoesOn
<1> QED BY <1>2, <1>5, <1>6

LEMMA LoadKeeps == ASSUME IInv, LoadJobs, ~Preempted PROVE IInv'
<1> USE DEF IInv
<1>1. isr = <<>> /\ send.at = "load" /\ send' = [send EXCEPT !.at = "store", !.job = on_job]
      /\ UNCHANGED <<page, mob, on_job, isr, enabled, arrived, asked, disturbed, stuck>>
  BY DEF LoadJobs, driverVars, historyVars, flags
<1>2. send \in Call /\ on_job \subseteq MObs /\ asked \in Seq(Id)
      /\ send.number \in 1 .. Len(asked) /\ send.mob \in MObs
  BY <1>1 DEF Types, Logs, Holding
<1>3. /\ send' \in Call /\ send'.at = "store" /\ send'.job = on_job
      /\ send'.mob = send.mob /\ send'.number = send.number
  BY <1>1, <1>2 DEF Call, Places, Holding
<1>4. Given' = Given
  BY <1>1, <1>3 DEF Given
<1>5. Calm /\ Jobs => CallKeepsMOb'
  BY <1>1, <1>3 DEF Jobs, CallKeepsMOb, Status, Bits
<1>6. Len(asked') <= MaxSends
  BY <1>1, <1>2 DEF Types, Logs
<1> QED BY <1>1, <1>2, <1>3, <1>4, <1>5, <1>6, CallGoesOn

\* What SendStep leaves of the call.
LEMMA StepOfCall ==
  ASSUME IInv, NEW from \in Holding, NEW to \in Holding,
         SendStep(from, to), asked' = asked
  PROVE  /\ isr = <<>> /\ send.at = from /\ send' \in Call /\ send'.at = to
         /\ send'.mob = send.mob /\ send'.number = send.number /\ send'.job = send.job
         /\ send.mob \in MObs /\ send.number \in 1 .. Len(asked) /\ asked \in Seq(Id)
         /\ send.number \in 1 .. Len(asked')
         /\ send.job \subseteq MObs
<1>1. send \in Call /\ isr = <<>> /\ send.at = from /\ send' = [send EXCEPT !.at = to]
  BY DEF IInv, Types, SendStep, Holding
<1>2. send' \in Call /\ send'.at = to /\ send'.mob = send.mob /\ send'.number = send.number
      /\ send'.job = send.job /\ send.job \subseteq MObs
  BY <1>1 DEF Call, Places, Holding
<1> QED BY <1>1, <1>2 DEF IInv, Types, Logs, Holding

\* The MOb is marked as taken: it was off and nobody's.
LEMMA StoreKeeps == ASSUME IInv, StoreJobs, ~Preempted PROVE IInv'
<1> USE DEF IInv
<1>1. on_job' = send.job \cup {send.mob}
      /\ UNCHANGED <<page, mob, isr, enabled, arrived, asked, disturbed, stuck>>
  BY DEF StoreJobs, historyVars, flags
<1>2. /\ isr = <<>> /\ send.at = "store" /\ send' \in Call /\ send'.at = "page"
      /\ send'.mob = send.mob /\ send.mob \in MObs /\ send'.number \in 1 .. Len(asked')
      /\ send.job \subseteq MObs
  BY <1>1, StepOfCall DEF StoreJobs, Places, Holding
<1>3. Types'
  BY <1>1, <1>2 DEF Types, Logs, Holding
<1>4. One' /\ \A m \in MObs : \A s \in Bits : ~Handled(m, s) /\ ~Handled(m, s)'
  BY <1>1, <1>2, MainOne
<1>5. ASSUME Calm' PROVE Jobs'
  <2>1. Jobs /\ send.job = on_job /\ send.mob \in Tx /\ send.mob \notin on_job
    BY <1>1, <1>2, <1>5 DEF Jobs, CallKeepsMOb, Calm, Status, Bits
  <2>3. Given = {} /\ Given' = {send.mob}
    BY <1>2 DEF Given
  <2>7. send.mob \notin stuck
    BY <1>2, <2>1 DEF Jobs, JobsTrue, Used
  <2>2. SpiesListen' /\ OthersSend' /\ ServedAreOff' /\ StuckOff'
    BY <1>1, <1>4, <2>1, <2>3, <2>7 DEF Jobs, SpiesListen, OthersSend, ServedAreOff, StuckOff, Status, Bits, MObs
  <2>4. JobsTrue'
    BY <1>1, <1>4, <2>1, <2>3 DEF Jobs, JobsTrue, Used, Status, Bits
  <2>5. mob[send.mob].mode = "off"
    <3>1. mob[send.mob] \in MObRec
      BY <1>2 DEF Types, Logs, Holding
    <3>2. mob[send.mob].mode # "rx"
      BY <1>2, <1>4, <2>1 DEF Jobs, OthersSend
    <3>3. mob[send.mob].mode # "tx"
      BY <1>2, <2>1 DEF Jobs, JobsTrue, Used, Status, Bits
    <3> QED BY <3>1, <3>2, <3>3 DEF MObRec, Status, Bits
  <2>6. CallKeepsMOb'
    BY <1>1, <1>2, <1>4, <2>1, <2>5 DEF CallKeepsMOb, Status, Bits
  <2> QED BY <2>2, <2>4, <2>6 DEF Jobs
<1> QED BY <1>3, <1>4, <1>5

LEMMA SelectKeeps == ASSUME IInv, SelectMOb, ~Preempted PROVE IInv'
<1> USE DEF IInv
<1>1. page' = send.mob
      /\ UNCHANGED <<mob, on_job, isr, enabled, arrived, asked, disturbed, stuck>>
  BY DEF SelectMOb, historyVars, flags
<1>2. /\ isr = <<>> /\ send.at = "page" /\ send' \in Call /\ send'.at = "id"
      /\ send'.mob = send.mob /\ send.mob \in MObs /\ send'.number \in 1 .. Len(asked')
      /\ asked' \in Seq(Id) /\ Len(asked') <= MaxSends
  BY <1>1, StepOfCall DEF SelectMOb, Places, Holding, Types, Logs
<1>3. \A m \in MObs : ~Handled(m, "tx") /\ ~Handled(m, "tx")'
  BY <1>1, <1>2, MainOne DEF Bits
<1>4. Given' = Given
  BY <1>2 DEF Given
<1>5. Calm /\ Jobs => CallKeepsMOb'
  BY <1>1, <1>2, <1>3 DEF Jobs, CallKeepsMOb, Status, Bits
<1> QED BY <1>1, <1>2, <1>4, <1>5, CallGoesOn

\* Writing the id, the length and the data of a MOb.
LEMMA WriteKeeps ==
  ASSUME IInv, isr = <<>>, ~Preempted,
         UNCHANGED <<page, on_job, isr, enabled, arrived, asked, disturbed, stuck>>,
         mob' \in [MObs -> MObRec],
         \A m \in MObs : mob'[m].status = mob[m].status /\ mob'[m].mode = mob[m].mode,
         send.at \in {"id", "data"}, send' \in Call, send'.at \in {"data", "enable"},
         send'.mob = send.mob, send.mob \in MObs, send'.number \in 1 .. Len(asked')
  PROVE  IInv'
<1> USE DEF IInv
<1>1. One' /\ \A m \in MObs : \A s \in Bits : ~Handled(m, s) /\ ~Handled(m, s)'
  BY MainOne
<1>2. Types'
  BY DEF Types, Logs, Holding
<1>3. ASSUME Calm' PROVE Jobs'
  <2>1. Jobs /\ Given' = Given
    BY <1>3 DEF Given, Calm
  <2>2. SpiesListen' /\ OthersSend' /\ ServedAreOff' /\ JobsTrue' /\ StuckOff'
    BY <1>1, <2>1 DEF Jobs, SpiesListen, OthersSend, ServedAreOff, JobsTrue, Used, StuckOff, Status, Bits, MObs
  <2>3. CallKeepsMOb'
    BY <1>1, <2>1 DEF Jobs, CallKeepsMOb, Status, Bits
  <2> QED BY <2>1, <2>2, <2>3 DEF Jobs
<1> QED BY <1>1, <1>2, <1>3

LEMMA IdKeeps == ASSUME IInv, WriteId, ~Preempted PROVE IInv'
<1>1. mob' = [mob EXCEPT ![page].id = asked[send.number]]
      /\ UNCHANGED <<page, on_job, isr, enabled, arrived, asked, disturbed, stuck>>
  BY DEF WriteId, historyVars, flags
<1>2. /\ isr = <<>> /\ send.at = "id" /\ send' \in Call /\ send'.at = "data"
      /\ send'.mob = send.mob /\ send.mob \in MObs /\ send'.number \in 1 .. Len(asked')
      /\ asked[send.number] \in Id
  BY <1>1, StepOfCall DEF WriteId, Places, Holding
<1> DEFINE new(m) == IF m = page THEN [mob[m] EXCEPT !.id = asked[send.number]] ELSE mob[m]
<1>3. mob \in [MObs -> MObRec]
  BY DEF IInv, Types, Logs, Holding
<1>4. ASSUME NEW m \in MObs
      PROVE  new(m) \in MObRec /\ new(m).status = mob[m].status /\ new(m).mode = mob[m].mode
  BY <1>2, <1>3 DEF MObRec, SomeIds, Status, Bits
<1>5. mob' = [m \in MObs |-> new(m)]
  BY <1>1, <1>3
<1> HIDE DEF new
<1>6. /\ mob' \in [MObs -> MObRec]
      /\ \A m \in MObs : mob'[m].status = mob[m].status /\ mob'[m].mode = mob[m].mode
  BY <1>4, <1>5
<1> QED BY <1>1, <1>2, <1>6, WriteKeeps

LEMMA DataKeeps == ASSUME IInv, WriteData, ~Preempted PROVE IInv'
<1> DEFINE len == Length[asked[send.number]]
           new(m) == IF m = page
                     THEN [mob[m] EXCEPT !.len = Or(@, len),
                                         !.data = IF len > 0 THEN send.number ELSE @]
                     ELSE mob[m]
<1>1. /\ mob' = [mob EXCEPT ![page].len = Or(@, len),
                            ![page].data = IF len > 0 THEN send.number ELSE @]
      /\ UNCHANGED <<page, on_job, isr, enabled, arrived, asked, disturbed, stuck>>
  BY DEF WriteData, historyVars, flags
<1>2. /\ isr = <<>> /\ send.at = "data" /\ send' \in Call /\ send'.at = "enable"
      /\ send'.mob = send.mob /\ send.mob \in MObs /\ send'.number \in 1 .. Len(asked')
      /\ send.number \in 1 .. Len(asked) /\ asked \in Seq(Id)
  BY <1>1, StepOfCall DEF WriteData, Places, Holding
<1>3. mob \in [MObs -> MObRec] /\ len \in Nat /\ send.number \in 0 .. MaxFrames + MaxSends
  <2>1. asked[send.number] \in Id
    BY <1>2
  <2>3. send.number \in 0 .. MaxFrames + MaxSends
    <3>1. Len(asked) \in Nat /\ Len(asked) <= MaxSends
      BY <1>2 DEF IInv, Types, Logs
    <3> QED BY <1>2, <3>1, CanAssumption
  <2>2. len \in 0 .. 8
    BY <2>1, CanAssumption
  <2> QED BY <2>2, <2>3 DEF IInv, Types
<1>4. \A a, b : Or(a, b) \in 0 .. 15
  BY DEF Or
<1> HIDE DEF len
<1>5. ASSUME NEW m \in MObs
      PROVE  new(m) \in MObRec /\ new(m).status = mob[m].status /\ new(m).mode = mob[m].mode
  BY <1>3, <1>4 DEF MObRec, Status, Bits
<1>6. mob' = [m \in MObs |-> new(m)]
  BY <1>1, <1>3
<1> HIDE DEF new
<1>7. /\ mob' \in [MObs -> MObRec]
      /\ \A m \in MObs : mob'[m].status = mob[m].status /\ mob'[m].mode = mob[m].mode
  BY <1>5, <1>6
<1> QED BY <1>1, <1>2, <1>7, WriteKeeps

\* The MOb is sending from now on.
LEMMA EnableKeeps == ASSUME IInv, EnableTx, ~Preempted PROVE IInv'
<1> USE DEF IInv
<1>1. /\ isr = <<>> /\ send.at = "enable" /\ send' = Idle
      /\ mob' = [mob EXCEPT ![page].mode = "tx"]
      /\ UNCHANGED <<page, on_job, isr, enabled, arrived, asked, disturbed, stuck>>
  BY DEF EnableTx, historyVars, flags
<1>2. send' \in Call /\ send'.at = "idle"
  BY <1>1 DEF Idle, Call, Places, Holding
<1> DEFINE new(m) == IF m = page THEN [mob[m] EXCEPT !.mode = "tx"] ELSE mob[m]
<1>3. mob \in [MObs -> MObRec]
  BY DEF Types, Logs, Holding
<1>4. ASSUME NEW m \in MObs
      PROVE  new(m) \in MObRec /\ new(m).status = mob[m].status
             /\ new(m).mode = IF m = page THEN "tx" ELSE mob[m].mode
  BY <1>3 DEF MObRec, Status, Bits
<1>5. mob' = [m \in MObs |-> new(m)]
  BY <1>1, <1>3
<1> HIDE DEF new
<1>6. /\ mob' \in [MObs -> MObRec]
      /\ \A m \in MObs : /\ mob'[m].status = mob[m].status
                         /\ mob'[m].mode = IF m = page THEN "tx" ELSE mob[m].mode
  BY <1>4, <1>5
<1>7. Types'
  BY <1>1, <1>2, <1>6 DEF Types, Logs, Holding
<1>8. One' /\ \A m \in MObs : \A s \in Bits : ~Handled(m, s) /\ ~Handled(m, s)'
  BY <1>1, <1>6, MainOne
<1>9. ASSUME Calm' PROVE Jobs'
  <2>1. Jobs /\ page = send.mob /\ send.mob \in Tx /\ Given = {send.mob} /\ Given' = {}
    BY <1>1, <1>2, <1>9 DEF Jobs, CallKeepsMOb, Given, Calm, Status, Bits
  <2>2. SpiesListen' /\ OthersSend' /\ ServedAreOff' /\ StuckOff'
    BY <1>1, <1>6, <1>8, <2>1, CanAssumption DEF Jobs, SpiesListen, OthersSend, ServedAreOff, StuckOff, Status, Bits, MObs
  <2>3. JobsTrue'
    BY <1>1, <1>6, <1>8, <2>1 DEF Jobs, JobsTrue, Used, Status, Bits
  <2>4. CallKeepsMOb'
    BY <1>2 DEF CallKeepsMOb, Status, Bits
  <2> QED BY <2>2, <2>3, <2>4 DEF Jobs
<1> QED BY <1>7, <1>8, <1>9

\* The first two steps of can_init write the ring only.
LEMMA RingIsFree ==
  ASSUME IInv, ~Preempted, NEW from \in Places \ Holding, SendStep(from, "clear") \/ SendStep(from, "reset"),
         UNCHANGED <<mob, on_job, isr, enabled, arrived, asked, disturbed, stuck>>
  PROVE  IInv'
<1> USE DEF IInv
<1>1. isr = <<>> /\ send.at \notin Holding /\ send' \in Call /\ send'.at \in {"clear", "reset"}
  BY DEF SendStep, Types, Logs, Call, Places, Holding
<1>2. Given' = Given /\ send'.at \notin Holding
  BY <1>1 DEF Given, Holding
<1>3. asked' \in Seq(Id) /\ Len(asked') <= MaxSends
  BY DEF Types, Logs
<1>4. CallKeepsMOb'
  BY <1>1 DEF CallKeepsMOb, Status, Bits
<1> QED BY <1>1, <1>2, <1>3, <1>4, CallGoesOn

LEMMA InitRingKeeps == ASSUME IInv, InitRing, ~Preempted PROVE IInv'
<1>1. SendStep("idle", "clear")
      /\ UNCHANGED <<mob, on_job, isr, enabled, arrived, asked, disturbed, stuck>>
  BY DEF InitRing, flags
<1> QED BY <1>1, RingIsFree DEF Places, Holding

LEMMA ClearSlotsKeeps == ASSUME IInv, ClearSlots, ~Preempted PROVE IInv'
<1>1. SendStep("clear", "reset")
      /\ UNCHANGED <<mob, on_job, isr, enabled, arrived, asked, disturbed, stuck>>
  BY DEF ClearSlots
<1> QED BY <1>1, RingIsFree DEF Places, Holding

\* The last one puts every MOb where can_init wants it.
LEMMA ResetKeeps == ASSUME IInv, ResetController, ~Preempted PROVE IInv'
<1> USE DEF IInv
<1>1. /\ isr = <<>> /\ send' = Idle /\ on_job' = Spy
      /\ mob' = [m \in MObs |-> ResetMOb(m, mob[m].data)]
      /\ stuck' = {}
      /\ UNCHANGED <<isr, enabled, arrived, asked, disturbed>>
  BY DEF ResetController, flags
<1>2. send' \in Call /\ send'.at = "idle"
  BY <1>1 DEF Idle, Call, Places, Holding
<1>3. ASSUME NEW m \in MObs
      PROVE  /\ ResetMOb(m, mob[m].data) \in MObRec
             /\ ResetMOb(m, mob[m].data).status = "none"
             /\ ResetMOb(m, mob[m].data).mode = IF m \in Spy THEN "rx" ELSE "off"
  <2>1. mob[m].data \in 0 .. MaxFrames + MaxSends
    BY DEF Types, MObRec
  <2> QED BY <2>1 DEF ResetMOb, MObRec, Status, Bits, SomeIds
<1>4. /\ mob' \in [MObs -> MObRec]
      /\ \A m \in MObs : /\ mob'[m].status = "none"
                         /\ mob'[m].mode = IF m \in Spy THEN "rx" ELSE "off"
  BY <1>1, <1>3
<1>5. enabled' /\ ~Active' /\ isr' = <<>>
  BY <1>1, NoneWaits DEF Active
<1>6. Types'
  BY <1>1, <1>2, <1>4 DEF Types, Logs, Holding, MObs
<1>7. One'
  BY <1>4, <1>5 DEF One
<1>8. \A m \in MObs : ~Handled(m, "rx")' /\ ~Handled(m, "tx")' /\ ~Handled(m, "mixed")'
  BY <1>4, <1>5 DEF Handled
<1>9. SpiesListen' /\ OthersSend' /\ ServedAreOff' /\ StuckOff'
  BY <1>1, <1>4, <1>8, CanAssumption DEF SpiesListen, OthersSend, ServedAreOff, StuckOff, MObs
<1>10. JobsTrue' /\ CallKeepsMOb'
  BY <1>1, <1>2, <1>4, <1>8 DEF JobsTrue, Used, CallKeepsMOb, Given, Status, Bits
<1> QED BY <1>6, <1>7, <1>9, <1>10 DEF Jobs

\* Steps that change none of the variables the invariant speaks of.
LEMMA SameKeeps ==
  ASSUME IInv, UNCHANGED <<page, mob, on_job, isr, enabled, send, arrived, asked, disturbed, stuck>>
  PROVE  IInv'
BY DEF IInv, Types, Logs, One, Jobs, SpiesListen, OthersSend, ServedAreOff, JobsTrue, Used, CallKeepsMOb,
       StuckOff, Handled, Active, Given, Calm

LEMMA NextKeeps == ASSUME FastBus = FALSE, IInv, [Next]_vars PROVE IInv'
<1>1. CASE FrameArrives \/ FrameSent
  BY <1>1, ArrivesKeeps, SentKeeps
<1>2. CASE Interrupt
  BY <1>2, InterruptKeeps
<1>3. CASE Handler
  BY <1>3, ServeKeeps, ReturnKeeps, IgnoreKeeps, NoRoomKeeps, StartKeeps, PushKeeps, EndKeeps, TxKeeps,
         MixedKeeps DEF Handler
<1>4. CASE Main
  <2>1. CASE ReadMessage
    BY <2>1, SameKeeps DEF ReadMessage, cpuVars, flags
  <2> QED BY <1>4, <2>1, FindKeeps, LoadKeeps, StoreKeeps, SelectKeeps, IdKeeps, DataKeeps, EnableKeeps,
          InitRingKeeps, ClearSlotsKeeps, ResetKeeps DEF Main
<1>5. CASE UNCHANGED vars
  BY <1>5, SameKeeps DEF vars, driverVars, cpuVars, historyVars, flags
<1> QED BY <1>1, <1>2, <1>3, <1>4, <1>5 DEF Next

\* On a bus where no frame completes while another is handled, every MOb is
\* where the driver thinks it is (can.c:256-346, 409-459).
THEOREM Invariance == ASSUME FastBus = FALSE PROVE Spec => []IInv
<1>1. Init => IInv
  BY InitIInv
<1>2. IInv /\ [Next]_vars => IInv'
  BY NextKeeps
<1> QED BY <1>1, <1>2, PTL DEF Spec

\* There, unless the handler disturbs can_broadcast, the MObs that are lost are those
\* whose frame was repeated on the bus since can_init was last called, and none is
\* given out while it is in use, however many there are and whenever can_init is
\* called (can.c:256-346, 409-459).
THEOREM MObsKept == ASSUME FastBus = FALSE PROVE Spec => []NoMObLost
<1>1. Spec => []IInv
  BY Invariance
<1>2. IInv => NoMObLost
  BY IInvImplies
<1> QED BY <1>1, <1>2, PTL

-----------------------------------------------------------------------------
(* Sequences of whole frames.                                                *)

\* The n bytes of a sequence of whole frames: the number of the frame each belongs to
\* and its place there, for frames of the given sizes; frames come in rising order.
Complete(F, B, n, S, N) ==
  /\ \A k \in 1 .. n : F[k] \in 1 .. N /\ B[k] \in 1 .. S[F[k]]
  /\ \A k \in 1 .. n : B[k] <= k /\ k - B[k] + S[F[k]] <= n
  /\ \A k \in 1 .. n : \A j \in 1 .. S[F[k]] : F[k - B[k] + j] = F[k] /\ B[k - B[k] + j] = j
  /\ \A j, k \in 1 .. n : j < k => F[j] < F[k] \/ (F[j] = F[k] /\ j - B[j] = k - B[k])

\* More bytes: those of frame f, of size s, after the n first; fewer: without the s first.
AllBefore(F, n, f) == \A k \in 1 .. n : F[k] < f
Longer(B2, n2, B, n, s) ==
  n2 = n + s /\ (\A k \in 1 .. n : B2[k] = B[k]) /\ \A j \in 1 .. s : B2[n + j] = j
Later(F2, F, n, f, s) == (\A k \in 1 .. n : F2[k] = F[k]) /\ \A j \in 1 .. s : F2[n + j] = f
Shorter(B2, n2, B, n, s) == n2 = n - s /\ \A k \in 1 .. n2 : B2[k] = B[k + s]
AtLeastThree(S, N) == \A f \in 1 .. N : S[f] >= 3
NextWhole(F, n, s) == s + 3 <= n /\ F[s + 1] = F[s + 3] /\ F[s + 2] = F[s + 3]
SizeIs(s, S, f) == s = S[f]
FirstSize(s, F, S) == s = S[F[1]]
IsWhole(F, B, s) == \A j \in 1 .. s : F[j] = F[1] /\ B[j] = j
Firsts(B, n) == {k \in 1 .. n : B[k] = 1}
OneMore(B2, n2, B, n) == Cardinality(Firsts(B2, n2)) = Cardinality(Firsts(B, n)) + 1

LEMMA CompleteExtends ==
  ASSUME NEW n \in Nat, NEW N \in Nat, NEW S \in [1 .. N -> Nat],
         NEW F \in [1 .. n -> Nat], NEW B \in [1 .. n -> Nat], Complete(F, B, n, S, N),
         NEW f \in 1 .. N, AllBefore(F, n, f), NEW s \in Nat, SizeIs(s, S, f), NEW n2 \in Nat,
         NEW F2 \in [1 .. n2 -> Nat], NEW B2 \in [1 .. n2 -> Nat],
         Longer(B2, n2, B, n, s), Later(F2, F, n, f, s)
  PROVE  Complete(F2, B2, n2, S, N)
<1> USE DEF AllBefore, SizeIs, Longer, Later
<1>0. S[f] \in Nat
  OBVIOUS
<1>1. \A k \in 1 .. n2 : k \in 1 .. n \/ (k - n \in 1 .. S[f] /\ n + (k - n) = k)
  BY <1>0
<1>2. ASSUME NEW k \in 1 .. n
      PROVE  /\ F2[k] \in 1 .. N /\ B2[k] \in 1 .. S[F2[k]]
             /\ B2[k] <= k /\ k - B2[k] + S[F2[k]] <= n2
             /\ \A j \in 1 .. S[F2[k]] : F2[k - B2[k] + j] = F2[k] /\ B2[k - B2[k] + j] = j
  <2>1. F[k] \in 1 .. N /\ B[k] \in 1 .. S[F[k]] /\ B[k] <= k /\ k - B[k] + S[F[k]] <= n
        /\ S[F[k]] \in Nat /\ F2[k] = F[k] /\ B2[k] = B[k]
    BY DEF Complete
  <2>2. ASSUME NEW j \in 1 .. S[F[k]] PROVE F2[k - B[k] + j] = F[k] /\ B2[k - B[k] + j] = j
    <3>1. k - B[k] + j \in 1 .. n
      <4> DEFINE b == B[k]
                 z == S[F[k]]
      <4>1. b \in 1 .. z /\ b <= k /\ k - b + z <= n /\ z \in Nat /\ j \in 1 .. z
        BY <2>1
      <4> HIDE DEF b, z
      <4>2. k - b + j \in 1 .. n
        BY SMTT(40), <4>1
      <4> QED BY <4>2 DEF b
    <3>2. F[k - B[k] + j] = F[k] /\ B[k - B[k] + j] = j
      BY DEF Complete
    <3> QED BY <3>1, <3>2
  <2> QED BY SMTT(40), <1>0, <2>1, <2>2
<1>3. ASSUME NEW k \in 1 .. n2, k - n \in 1 .. S[f], n + (k - n) = k
      PROVE  /\ F2[k] \in 1 .. N /\ B2[k] \in 1 .. S[F2[k]]
             /\ B2[k] <= k /\ k - B2[k] + S[F2[k]] <= n2
             /\ \A j \in 1 .. S[F2[k]] : F2[k - B2[k] + j] = F2[k] /\ B2[k - B2[k] + j] = j
  <2>1. F2[k] = f /\ B2[k] = k - n
    BY <1>3
  <2>2. k - B2[k] = n
    BY <2>1
  <2> QED BY <1>0, <1>3, <2>1, <2>2
<1>4. ASSUME NEW j \in 1 .. n2, NEW k \in 1 .. n2, j < k
      PROVE  F2[j] < F2[k] \/ (F2[j] = F2[k] /\ j - B2[j] = k - B2[k])
  <2>1. CASE k \in 1 .. n
    BY SMTT(40), <1>4, <2>1 DEF Complete
  <2>2. CASE k \notin 1 .. n
    <3>1. F2[k] = f /\ B2[k] = k - n
      BY <1>1, <2>2
    <3>2. CASE j \in 1 .. n
      BY <3>1, <3>2
    <3>3. CASE j \notin 1 .. n
      <4>1. F2[j] = f /\ B2[j] = j - n
        BY <1>1, <3>3
      <4> QED BY <3>1, <4>1
    <3> QED BY <3>2, <3>3
  <2> QED BY <2>1, <2>2
<1>5. \A k \in 1 .. n2 :
        /\ F2[k] \in 1 .. N /\ B2[k] \in 1 .. S[F2[k]]
        /\ B2[k] <= k /\ k - B2[k] + S[F2[k]] <= n2
        /\ \A j \in 1 .. S[F2[k]] : F2[k - B2[k] + j] = F2[k] /\ B2[k - B2[k] + j] = j
  BY <1>1, <1>2, <1>3
<1> QED BY <1>4, <1>5 DEF Complete

LEMMA FirstsExtend ==
  ASSUME NEW n \in Nat, NEW s \in Nat \ {0}, NEW n2 \in Nat,
         NEW B \in [1 .. n -> Nat], NEW B2 \in [1 .. n2 -> Nat], Longer(B2, n2, B, n, s)
  PROVE  OneMore(B2, n2, B, n)
<1> USE DEF Longer, OneMore
<1>1. IsFiniteSet(Firsts(B, n))
  <2>1. IsFiniteSet(1 .. n) /\ Firsts(B, n) \subseteq 1 .. n
    BY FS_Interval DEF Firsts
  <2> QED BY <2>1, FS_Subset
<1>2. ASSUME NEW k \in 1 .. n2, k \notin 1 .. n PROVE B2[k] = 1 <=> k = n + 1
  <2>1. k - n \in 1 .. s /\ n + (k - n) = k
    BY <1>2
  <2>2. B2[n + (k - n)] = k - n
    BY <2>1
  <2> QED BY <2>1, <2>2
<1>3. n + 1 \in 1 .. n2 /\ B2[n + 1] = 1 /\ n + 1 \notin 1 .. n
  OBVIOUS
<1>4. Firsts(B2, n2) = Firsts(B, n) \cup {n + 1}
  BY <1>2, <1>3 DEF Firsts
<1>5. n + 1 \notin Firsts(B, n)
  BY DEF Firsts
<1> QED BY <1>1, <1>4, <1>5, FS_AddElement

\* The first frame, and what is left without it.
LEMMA CompleteFirst ==
  ASSUME NEW n \in Nat \ {0}, NEW N \in Nat, NEW S \in [1 .. N -> Nat],
         NEW F \in [1 .. n -> Nat], NEW B \in [1 .. n -> Nat], Complete(F, B, n, S, N),
         NEW s \in Nat, FirstSize(s, F, S)
  PROVE  F[1] \in 1 .. N /\ s \in 1 .. n /\ B[1] = 1
<1>1. 1 \in 1 .. n
  OBVIOUS
<1>2. F[1] \in 1 .. N /\ B[1] \in 1 .. S[F[1]] /\ B[1] <= 1 /\ 1 - B[1] + S[F[1]] <= n
  BY <1>1 DEF Complete
<1>3. B[1] = 1
  BY <1>2
<1> QED BY <1>2, <1>3 DEF FirstSize

LEMMA FirstBytes ==
  ASSUME NEW n \in Nat \ {0}, NEW N \in Nat, NEW S \in [1 .. N -> Nat],
         NEW F \in [1 .. n -> Nat], NEW B \in [1 .. n -> Nat], Complete(F, B, n, S, N),
         NEW s \in Nat, FirstSize(s, F, S)
  PROVE  IsWhole(F, B, s)
<1> SUFFICES ASSUME NEW j \in 1 .. s PROVE F[j] = F[1] /\ B[j] = j
  BY DEF IsWhole
<1>4. 1 \in 1 .. n
  OBVIOUS
<1>5. B[1] = 1
  BY CompleteFirst, Zenon
<1>1. 1 \in 1 .. n /\ B[1] = 1
  BY <1>4, <1>5
<1>2. F[1 - B[1] + j] = F[1] /\ B[1 - B[1] + j] = j
  BY <1>1 DEF Complete, FirstSize
<1>3. 1 - B[1] + j = j
  BY <1>1
<1> QED BY <1>2, <1>3

LEMMA AfterFirst ==
  ASSUME NEW n \in Nat \ {0}, NEW N \in Nat, NEW S \in [1 .. N -> Nat],
         NEW F \in [1 .. n -> Nat], NEW B \in [1 .. n -> Nat], Complete(F, B, n, S, N),
         NEW s \in Nat, FirstSize(s, F, S), NEW k \in 1 .. n, k > s
  PROVE  k - B[k] >= s
<1>1. F[1] \in 1 .. N /\ s \in 1 .. n /\ \A j \in 1 .. s : F[j] = F[1] /\ B[j] = j
  <2>1. F[1] \in 1 .. N /\ s \in 1 .. n
    BY CompleteFirst
  <2>2. IsWhole(F, B, s)
    BY FirstBytes
  <2> QED BY <2>1, <2>2 DEF IsWhole
<1>2. /\ F[k] \in 1 .. N /\ B[k] \in 1 .. S[F[k]] /\ B[k] <= k
      /\ \A j \in 1 .. S[F[k]] : F[k - B[k] + j] = F[k] /\ B[k - B[k] + j] = j
  BY DEF Complete
<1>3. PICK b \in Nat : b = k - B[k]
  BY <1>2
<1>4. SUFFICES ASSUME b < s PROVE FALSE
  BY <1>2, <1>3
<1>5. 1 \in 1 .. S[F[k]]
  <2>1. \A i, z \in Int : i \in 1 .. z => 1 \in 1 .. z
    OBVIOUS
  <2>2. S[F[k]] \in Int /\ B[k] \in Int
    BY <1>2
  <2> QED BY <1>2, <2>1, <2>2
<1>6. F[b + 1] = F[k] /\ B[b + 1] = 1
  BY <1>2, <1>3, <1>5
<1>7. F[b + 1] = F[1] /\ B[b + 1] = b + 1
  BY <1>1, <1>4
<1>8. F[k] = F[1] /\ b = 0
  BY <1>6, <1>7
<1>9. B[k] = k /\ B[k] \in 1 .. s
  BY <1>2, <1>3, <1>8 DEF FirstSize
<1> QED BY <1>1, <1>9

LEMMA CompleteShrinks ==
  ASSUME NEW n \in Nat \ {0}, NEW N \in Nat, NEW S \in [1 .. N -> Nat],
         NEW F \in [1 .. n -> Nat], NEW B \in [1 .. n -> Nat], Complete(F, B, n, S, N),
         NEW s \in Nat, FirstSize(s, F, S), NEW n2 \in Nat,
         NEW F2 \in [1 .. n2 -> Nat], NEW B2 \in [1 .. n2 -> Nat],
         Shorter(F2, n2, F, n, s), Shorter(B2, n2, B, n, s)
  PROVE  Complete(F2, B2, n2, S, N)
<1> USE DEF Shorter
<1>1. s \in 1 .. n
  BY CompleteFirst
<1>2. ASSUME NEW k \in 1 .. n2
      PROVE  k + s \in 1 .. n /\ k + s > s /\ F2[k] = F[k + s] /\ B2[k] = B[k + s]
  <2>1. k + s \in 1 .. n /\ k + s > s
    BY <1>1
  <2> QED BY <2>1
<1>3. ASSUME NEW k \in 1 .. n2
      PROVE  /\ F2[k] \in 1 .. N /\ B2[k] \in 1 .. S[F2[k]]
             /\ B2[k] <= k /\ k - B2[k] + S[F2[k]] <= n2
             /\ \A j \in 1 .. S[F2[k]] : F2[k - B2[k] + j] = F2[k] /\ B2[k - B2[k] + j] = j
  <2>1. PICK m \in 1 .. n : m = k + s
    BY <1>2
  <2>2. m > s /\ F2[k] = F[m] /\ B2[k] = B[m]
    BY <1>2, <2>1
  <2>3. m - B[m] >= s
    BY <2>2, AfterFirst
  <2>4. F[m] \in 1 .. N /\ B[m] \in 1 .. S[F[m]] /\ B[m] <= m /\ m - B[m] + S[F[m]] <= n
    BY DEF Complete
  <2>5. PICK z \in Nat : z = S[F[m]]
    BY <2>4
  <2>6. PICK b \in Nat : b = B[m]
    OBVIOUS
  <2>7. m - b >= s /\ m - b + z <= n /\ b \in 1 .. z
    BY <2>3, <2>4, <2>5, <2>6
  <2>8. ASSUME NEW j \in 1 .. z PROVE F2[k - b + j] = F[m] /\ B2[k - b + j] = j
    <3>1. F[m - b + j] = F[m] /\ B[m - b + j] = j
      BY <2>5, <2>6 DEF Complete
    <3>2. k - b + j \in 1 .. n2
      BY <1>1, <2>1, <2>7
    <3>3. (k - b + j) + s = m - b + j
      BY <2>1
    <3>4. F2[k - b + j] = F[(k - b + j) + s] /\ B2[k - b + j] = B[(k - b + j) + s]
      BY <1>2, <3>2
    <3> QED BY <3>1, <3>3, <3>4
  <2>9. b <= k /\ k - b + z <= n2
    BY <1>1, <2>1, <2>7
  <2> QED BY <2>2, <2>4, <2>5, <2>6, <2>8, <2>9
<1>4. ASSUME NEW j \in 1 .. n2, NEW k \in 1 .. n2, j < k
      PROVE  F2[j] < F2[k] \/ (F2[j] = F2[k] /\ j - B2[j] = k - B2[k])
  <2>1. PICK i \in 1 .. n : i = j + s /\ F2[j] = F[i] /\ B2[j] = B[i]
    BY <1>2
  <2>2. PICK m \in 1 .. n : m = k + s /\ F2[k] = F[m] /\ B2[k] = B[m]
    BY <1>2
  <2>3. F[i] < F[m] \/ (F[i] = F[m] /\ i - B[i] = m - B[m])
    BY SMTT(40), <1>4, <2>1, <2>2 DEF Complete
  <2>4. PICK x \in Nat, y \in Nat : x = B[i] /\ y = B[m]
    OBVIOUS
  <2>5. (i - x = m - y) => (j - x = k - y)
    BY <2>1, <2>2
  <2> QED BY <2>1, <2>2, <2>3, <2>4, <2>5
<1> QED BY <1>3, <1>4 DEF Complete

LEMMA FirstsShrink ==
  ASSUME NEW n \in Nat, NEW s \in 1 .. n, NEW n2 \in Nat,
         NEW B \in [1 .. n -> Nat], NEW B2 \in [1 .. n2 -> Nat],
         NEW F, IsWhole(F, B, s), Shorter(B2, n2, B, n, s)
  PROVE  OneMore(B, n, B2, n2)
<1> USE DEF Shorter, IsWhole, OneMore
<1>1. IsFiniteSet(Firsts(B2, n2))
  <2>1. IsFiniteSet(1 .. n2) /\ Firsts(B2, n2) \subseteq 1 .. n2
    BY FS_Interval DEF Firsts
  <2> QED BY <2>1, FS_Subset
<1> DEFINE R == {k \in 1 .. n : k > s /\ B[k] = 1}
           f == [k \in Firsts(B2, n2) |-> k + s]
<1>2. f \in Bijection(Firsts(B2, n2), R)
  <2>1. f \in [Firsts(B2, n2) -> R]
    BY DEF Firsts
  <2>2. \A j, k \in Firsts(B2, n2) : f[j] = f[k] => j = k
    BY DEF Firsts
  <2>3. ASSUME NEW r \in R PROVE \E k \in Firsts(B2, n2) : f[k] = r
    <3>1. r - s \in 1 .. n2 /\ (r - s) + s = r
      OBVIOUS
    <3>2. r - s \in Firsts(B2, n2)
      BY <3>1 DEF Firsts
    <3> QED BY <3>1, <3>2
  <2>4. f \in Injection(Firsts(B2, n2), R)
    BY <2>1, <2>2, Fun_IsInj
  <2>5. f \in Surjection(Firsts(B2, n2), R)
    BY <2>1, <2>3, Fun_IsSurj
  <2> QED BY <2>4, <2>5, Fun_IsBij
<1>3. IsFiniteSet(R) /\ Cardinality(R) = Cardinality(Firsts(B2, n2))
  BY <1>1, <1>2, FS_Bijection DEF ExistsBijection
<1>4. Firsts(B, n) = R \cup {1}
  BY DEF Firsts
<1>5. 1 \notin R
  OBVIOUS
<1> HIDE DEF R
<1> QED BY ZenonT(40), <1>3, <1>4, <1>5, FS_AddElement

\* Nothing is left after the first frame, or a whole frame at least.
LEMMA AnotherFirst ==
  ASSUME NEW n \in Nat \ {0}, NEW N \in Nat, NEW S \in [1 .. N -> Nat], AtLeastThree(S, N),
         NEW F \in [1 .. n -> Nat], NEW B \in [1 .. n -> Nat], Complete(F, B, n, S, N),
         NEW s \in Nat, FirstSize(s, F, S), s < n
  PROVE  NextWhole(F, n, s)
<1> USE DEF AtLeastThree, NextWhole
<1>1. PICK k \in 1 .. n : k = s + 1 /\ k > s
  OBVIOUS
<1>2. k - B[k] >= s
  BY <1>1, AfterFirst
<1>3. F[k] \in 1 .. N /\ B[k] \in 1 .. S[F[k]] /\ k - B[k] + S[F[k]] <= n
  BY DEF Complete
<1>4. B[k] = 1 /\ k - B[k] = s
  BY <1>1, <1>2, <1>3
<1>5. S[F[k]] >= 3 /\ S[F[k]] \in Nat
  BY <1>3
<1>6. \A j \in 1 .. S[F[k]] : F[s + j] = F[k]
  BY <1>4 DEF Complete
<1>7. PICK z \in Nat : z = S[F[k]]
  BY <1>5
<1>8. 1 \in 1 .. z /\ 2 \in 1 .. z /\ 3 \in 1 .. z
  BY SMTT(40), <1>5, <1>7
<1>9. F[s + 1] = F[k] /\ F[s + 2] = F[k] /\ F[s + 3] = F[k]
  BY <1>6, <1>7, <1>8
<1>10. s + z <= n
  BY <1>3, <1>4, <1>7
<1>11. s + 3 <= n
  BY <1>5, <1>7, <1>10
<1> QED BY <1>9, <1>11

\* More frames do not change those that are there.
LEMMA CompleteGrows ==
  ASSUME NEW n \in Nat, NEW N \in Nat, NEW S \in [1 .. N -> Nat],
         NEW F \in [1 .. n -> Nat], NEW B \in [1 .. n -> Nat], Complete(F, B, n, S, N),
         NEW N2 \in Nat, N <= N2, NEW S2 \in [1 .. N2 -> Nat], \A f \in 1 .. N : S2[f] = S[f]
  PROVE  Complete(F, B, n, S2, N2)
<1>1. \A k \in 1 .. n : F[k] \in 1 .. N /\ F[k] \in 1 .. N2 /\ S2[F[k]] = S[F[k]]
  BY DEF Complete
<1> QED BY ZenonT(40), <1>1 DEF Complete

\* What follows a byte: the next one of its frame, or the first of a later frame.
Follows(F, B, S, k, m) ==
  \/ F[m] = F[k] /\ B[m] = B[k] + 1
  \/ B[k] = S[F[k]] /\ B[m] = 1 /\ F[m] > F[k]
Ends(F, B, S, n) == B[n] = S[F[n]] /\ B[1] = 1

LEMMA Adjacent ==
  ASSUME NEW n \in Nat, NEW N \in Nat, NEW S \in [1 .. N -> Nat],
         NEW F \in [1 .. n -> Nat], NEW B \in [1 .. n -> Nat], Complete(F, B, n, S, N),
         NEW k \in 1 .. n, NEW m \in 1 .. n, m = k + 1
  PROVE  Follows(F, B, S, k, m)
<1> USE DEF Follows
<1>1. PICK b \in Nat, z \in Nat : b = B[k] /\ z = S[F[k]]
  BY DEF Complete
<1>2. b \in 1 .. z
  BY <1>1 DEF Complete
<1>3. CASE b < z
  <2>1. b + 1 \in 1 .. z
    BY <1>2, <1>3
  <2>2. F[k - b + (b + 1)] = F[k] /\ B[k - b + (b + 1)] = b + 1
    BY <1>1, <2>1 DEF Complete
  <2>3. k - b + (b + 1) = m
    OBVIOUS
  <2> QED BY <1>1, <2>2, <2>3
<1>4. CASE b = z
  <2>1. PICK c \in Nat, y \in Nat : c = B[m] /\ y = S[F[m]] /\ c \in 1 .. y
    BY DEF Complete
  <2>2. F[k] < F[m]
    <3>1. k < m
      OBVIOUS
    <3>2. F[k] < F[m] \/ (F[k] = F[m] /\ k - b = m - c)
      BY <1>1, <2>1, <3>1 DEF Complete
    <3>3. ASSUME F[k] = F[m], k - b = m - c PROVE FALSE
      <4>1. y = z
        BY <1>1, <2>1, <3>3
      <4>2. c = b + 1
        BY <3>3
      <4> QED BY <1>4, <2>1, <4>1, <4>2
    <3> QED BY <3>2, <3>3
  <2>3. c = 1
    <3>1. SUFFICES ASSUME c # 1 PROVE FALSE
      OBVIOUS
    <3>2. c - 1 \in 1 .. y
      BY <2>1, <3>1
    <3>3. F[m - c + (c - 1)] = F[m]
      BY <2>1, <3>2 DEF Complete
    <3>4. m - c + (c - 1) = k
      OBVIOUS
    <3> QED BY <2>2, <3>3, <3>4
  <2> QED BY <1>1, <1>4, <2>1, <2>2, <2>3
<1> QED BY <1>2, <1>3, <1>4

LEMMA LastByte ==
  ASSUME NEW n \in Nat \ {0}, NEW N \in Nat, NEW S \in [1 .. N -> Nat],
         NEW F \in [1 .. n -> Nat], NEW B \in [1 .. n -> Nat], Complete(F, B, n, S, N)
  PROVE  Ends(F, B, S, n)
<1> USE DEF Ends
<1>1. n \in 1 .. n /\ 1 \in 1 .. n
  OBVIOUS
<1>2. F[n] \in 1 .. N /\ B[n] \in 1 .. S[F[n]] /\ n - B[n] + S[F[n]] <= n
  BY <1>1 DEF Complete
<1>3. F[1] \in 1 .. N /\ B[1] \in 1 .. S[F[1]] /\ B[1] <= 1
  BY <1>1 DEF Complete
<1> QED BY <1>2, <1>3

-----------------------------------------------------------------------------
(* What the receive ring holds, and what the counters stand for.             *)

\* A byte in the ring, and the ring read as whole frames: n bytes of r, of frames that
\* came as a says.  The first two bytes may have been cleared by can_init; the third of
\* a frame always tells which it is.
RingByte == [frame : 0 .. MaxFrames + MaxSends, byte : 1 .. 11]
FramesOf(r, n) == [k \in 1 .. n |-> r[IF k <= 2 THEN 3 ELSE k].frame]
PlacesOf(r, n) == [k \in 1 .. n |-> r[k].byte]
SizesOf(a) == [f \in 1 .. Len(a) |-> 3 + Length[a[f]]]
RingOf(r, n, a) == Complete(FramesOf(r, n), PlacesOf(r, n), n, SizesOf(a), Len(a))
FrameSize(s, a, f) == s = SizesOf(a)[f]
HeldOf(r, n) == Cardinality(Firsts(PlacesOf(r, n), n))

\* A frame is waiting in a MOb or is being received; part of it may be in the ring.
Coming == \E m \in MObs : Handled(m, "rx")
Pushing == Active /\ isr[1].at = "push"
Part == IF Pushing THEN isr[1].next - 1 ELSE 0
Whole == Len(rb) - Part
Size == Length[arrived[Len(arrived)]]

\* The frame that is coming is the last one that came, and there is room for it once
\* its first byte is pushed.
Here ==
  /\ Coming => Len(arrived) > 0
  /\ \A m \in MObs : Handled(m, "rx") => mob[m].len = Size /\ mob[m].data = Len(arrived)
  /\ Active /\ isr[1].status = "rx" => isr[1].frame = Len(arrived)
  /\ Pushing => /\ isr[1].len = Size /\ isr[1].next \in 1 .. 4 + Size
                /\ Len(rb) + 4 + Size - isr[1].next < RingSize

\* The ring holds whole frames and then the part of the one that is coming.
RingKept ==
  /\ rb \in Seq(RingByte) /\ Len(rb) < RingSize
  /\ Whole \in Nat /\ (Whole = 0 \/ Whole >= 3)
  /\ RingOf(rb, Whole, arrived)
  /\ Coming => \A k \in 1 .. Whole : FramesOf(rb, Whole)[k] < Len(arrived)
  /\ ~torn => \A k \in 1 .. Whole : rb[k].frame = FramesOf(rb, Whole)[k]
  /\ \A j \in 1 .. Part : rb[Whole + j] = [frame |-> Len(arrived), byte |-> j]

\* Each frame that came is counted once, and each one in the ring too.
Counted ==
  /\ rx_comp \in Nat /\ alloc_err \in Nat /\ earlier \in Nat /\ missed \in Nat /\ unmatched \in Nat /\ taken \in Nat
  /\ Len(arrived) = earlier + rx_comp + alloc_err + missed + unmatched + (IF Coming THEN 1 ELSE 0)
  /\ earlier + rx_comp = taken + HeldOf(rb, Whole)

Received == page \in MObs /\ Here /\ RingKept /\ Counted

-----------------------------------------------------------------------------
LEMMA SizesType ==
  ASSUME NEW a \in Seq(Id)
  PROVE  /\ Len(a) \in Nat /\ SizesOf(a) \in [1 .. Len(a) -> Nat]
         /\ \A f \in 1 .. Len(a) : SizesOf(a)[f] = 3 + Length[a[f]] /\ Length[a[f]] \in 0 .. 8
         /\ \A f \in 1 .. Len(a) : SizesOf(a)[f] >= 3 /\ SizesOf(a)[f] \in Nat
<1>1. \A f \in 1 .. Len(a) : a[f] \in Id
  BY ElementOfSeq
<1>2. \A f \in 1 .. Len(a) : Length[a[f]] \in 0 .. 8
  BY <1>1, CanAssumption
<1>3. \A f \in 1 .. Len(a) : 3 + Length[a[f]] \in Nat /\ 3 + Length[a[f]] >= 3
  BY <1>2
<1>4. Len(a) \in Nat
  BY LenProperties
<1> QED BY <1>2, <1>3, <1>4 DEF SizesOf

LEMMA RingTypes ==
  ASSUME NEW r \in Seq(RingByte), NEW n \in Nat, n <= Len(r), n = 0 \/ n >= 3
  PROVE  /\ FramesOf(r, n) \in [1 .. n -> Nat] /\ PlacesOf(r, n) \in [1 .. n -> Nat]
         /\ \A k \in 1 .. n : PlacesOf(r, n)[k] = r[k].byte /\ r[k] \in RingByte
         /\ \A k \in 1 .. n : FramesOf(r, n)[k] = r[IF k <= 2 THEN 3 ELSE k].frame
<1>1. Len(r) \in Nat /\ \A k \in 1 .. Len(r) : r[k] \in RingByte
  BY LenProperties, ElementOfSeq
<1>2. \A k \in 1 .. n : k \in 1 .. Len(r) /\ (IF k <= 2 THEN 3 ELSE k) \in 1 .. Len(r)
  BY <1>1
<1>3. \A k \in 1 .. Len(r) : r[k].frame \in Nat /\ r[k].byte \in Nat
  <2>1. \A x \in RingByte : x.frame \in Nat /\ x.byte \in Nat
    BY CanAssumption DEF RingByte
  <2> QED BY <1>1, <2>1
<1>4. \A k \in 1 .. n : r[k].byte \in Nat /\ r[IF k <= 2 THEN 3 ELSE k].frame \in Nat /\ r[k] \in RingByte
  BY <1>1, <1>2, <1>3, Zenon
<1>5. FramesOf(r, n) \in [1 .. n -> Nat]
  BY <1>4 DEF FramesOf
<1>6. PlacesOf(r, n) \in [1 .. n -> Nat]
  BY <1>4 DEF PlacesOf
<1> QED BY <1>4, <1>5, <1>6 DEF FramesOf, PlacesOf

\* The bytes that are the same in two rings.
LEMMA SameRing ==
  ASSUME NEW n \in Nat, n = 0 \/ n >= 3, NEW r, NEW q,
         \A k \in 1 .. n : q[k].byte = r[k].byte /\ (k > 2 => q[k].frame = r[k].frame)
  PROVE  FramesOf(q, n) = FramesOf(r, n) /\ PlacesOf(q, n) = PlacesOf(r, n)
<1>1. \A k \in 1 .. n : (IF k <= 2 THEN 3 ELSE k) \in 1 .. n /\ (IF k <= 2 THEN 3 ELSE k) > 2
  OBVIOUS
<1>2. \A k \in 1 .. n : q[IF k <= 2 THEN 3 ELSE k].frame = r[IF k <= 2 THEN 3 ELSE k].frame
  BY <1>1, Zenon
<1> QED BY <1>2 DEF FramesOf, PlacesOf

LEMMA EmptyRing == ASSUME NEW r, NEW a PROVE RingOf(r, 0, a) /\ HeldOf(r, 0) = 0
<1>1. \A k : k \notin 1 .. 0
  OBVIOUS
<1>2. Firsts(PlacesOf(r, 0), 0) = {}
  BY <1>1 DEF Firsts
<1>3. HeldOf(r, 0) = 0
  BY <1>2, FS_EmptySet DEF HeldOf
<1>4. RingOf(r, 0, a)
  BY <1>1 DEF RingOf, Complete
<1> QED BY <1>3, <1>4

\* One more frame came: the ring is read as before.
LEMMA RingLater ==
  ASSUME NEW r \in Seq(RingByte), NEW n \in Nat, n <= Len(r), n = 0 \/ n >= 3,
         NEW a \in Seq(Id), RingOf(r, n, a), NEW id \in Id
  PROVE  RingOf(r, n, Append(a, id))
<1> DEFINE b == Append(a, id)
<1>1. b \in Seq(Id) /\ Len(b) = Len(a) + 1 /\ \A f \in 1 .. Len(a) : b[f] = a[f]
  BY AppendProperties
<1> HIDE DEF b
<1>2. Len(a) \in Nat /\ Len(b) \in Nat /\ Len(a) <= Len(b)
  BY <1>1, SizesType
<1>3. SizesOf(a) \in [1 .. Len(a) -> Nat] /\ SizesOf(b) \in [1 .. Len(b) -> Nat]
  BY <1>1, SizesType
<1>4. ASSUME NEW f \in 1 .. Len(a) PROVE SizesOf(b)[f] = SizesOf(a)[f]
  <2>1. f \in 1 .. Len(b)
    BY <1>2
  <2> QED BY <1>1, <2>1 DEF SizesOf
<1>5. FramesOf(r, n) \in [1 .. n -> Nat] /\ PlacesOf(r, n) \in [1 .. n -> Nat]
  BY RingTypes
<1>6. Complete(FramesOf(r, n), PlacesOf(r, n), n, SizesOf(b), Len(b))
  BY <1>2, <1>3, <1>4, <1>5, CompleteGrows DEF RingOf
<1> QED BY <1>6 DEF RingOf, b

FrameAt(r, n, s, f) == \A j \in 1 .. s : r[n + j].frame = f /\ r[n + j].byte = j
HoldsMore(r, n2, n, a) == RingOf(r, n2, a) /\ HeldOf(r, n2) = HeldOf(r, n) + 1 /\ n2 >= 3
MovedUp(q, n2, r, s) == \A k \in 1 .. n2 : q[k] = r[k + s]
HoldsLess(q, n2, r, n, a) ==
  /\ RingOf(q, n2, a) /\ HeldOf(r, n) = HeldOf(q, n2) + 1 /\ (n2 = 0 \/ n2 >= 3)
  /\ \A k \in 1 .. n2 : q[k].frame = FramesOf(q, n2)[k]

\* The part of a frame that is complete is a whole frame more.
LEMMA RingMore ==
  ASSUME NEW r \in Seq(RingByte), NEW n \in Nat, n = 0 \/ n >= 3,
         NEW a \in Seq(Id), RingOf(r, n, a), NEW f \in 1 .. Len(a),
         AllBefore(FramesOf(r, n), n, f),
         NEW s \in Nat, FrameSize(s, a, f), NEW n2 \in Nat, n2 = n + s, n2 <= Len(r),
         FrameAt(r, n, s, f)
  PROVE  HoldsMore(r, n2, n, a)
<1> USE DEF FrameAt, HoldsMore
<1>2. s >= 3 /\ SizesOf(a) \in [1 .. Len(a) -> Nat] /\ Len(a) \in Nat
  BY SizesType DEF FrameSize
<1>3. n2 >= 3 /\ n <= Len(r)
  BY <1>2, LenProperties
<1>4. /\ FramesOf(r, n) \in [1 .. n -> Nat] /\ PlacesOf(r, n) \in [1 .. n -> Nat]
      /\ \A k \in 1 .. n : PlacesOf(r, n)[k] = r[k].byte
      /\ \A k \in 1 .. n : FramesOf(r, n)[k] = r[IF k <= 2 THEN 3 ELSE k].frame
  BY <1>3, RingTypes
<1>5. /\ FramesOf(r, n2) \in [1 .. n2 -> Nat] /\ PlacesOf(r, n2) \in [1 .. n2 -> Nat]
      /\ \A k \in 1 .. n2 : PlacesOf(r, n2)[k] = r[k].byte
      /\ \A k \in 1 .. n2 : FramesOf(r, n2)[k] = r[IF k <= 2 THEN 3 ELSE k].frame
  BY <1>3, RingTypes
<1>6. \A k \in 1 .. n : k \in 1 .. n2
  BY <1>3
<1>7. \A k \in 1 .. n : FramesOf(r, n2)[k] = FramesOf(r, n)[k] /\ PlacesOf(r, n2)[k] = PlacesOf(r, n)[k]
  BY <1>4, <1>5, <1>6
<1>8. ASSUME NEW j \in 1 .. s PROVE FramesOf(r, n2)[n + j] = f /\ PlacesOf(r, n2)[n + j] = j
  <2>1. n + j \in 1 .. n2
    BY <1>3
  <2>2. PlacesOf(r, n2)[n + j] = j
    BY <1>5, <2>1
  <2>3. PICK i \in 1 .. s : (IF n + j <= 2 THEN 3 ELSE n + j) = n + i
    <3>1. CASE n + j <= 2
      <4>1. n = 0 /\ 3 \in 1 .. s
        BY <1>2, <3>1
      <4> QED BY <3>1, <4>1
    <3>2. CASE ~(n + j <= 2)
      BY <3>2
    <3> QED BY <3>1, <3>2
  <2>4. FramesOf(r, n2)[n + j] = r[n + i].frame
    BY <1>5, <2>1, <2>3, Zenon
  <2> QED BY <2>2, <2>4
<1>9. Complete(FramesOf(r, n), PlacesOf(r, n), n, SizesOf(a), Len(a))
  BY DEF RingOf
<1>10. AllBefore(FramesOf(r, n), n, f) /\ SizeIs(s, SizesOf(a), f)
  BY DEF SizeIs, FrameSize
<1>11. Longer(PlacesOf(r, n2), n2, PlacesOf(r, n), n, s) /\ Later(FramesOf(r, n2), FramesOf(r, n), n, f, s)
  BY <1>7, <1>8 DEF Longer, Later
<1>12. Complete(FramesOf(r, n2), PlacesOf(r, n2), n2, SizesOf(a), Len(a))
  BY <1>2, <1>4, <1>5, <1>9, <1>10, <1>11, CompleteExtends
<1>13. OneMore(PlacesOf(r, n2), n2, PlacesOf(r, n), n)
  <2>1. s \in Nat \ {0}
    BY <1>2
  <2> QED BY <1>4, <1>5, <1>11, <2>1, FirstsExtend
<1> QED BY <1>3, <1>12, <1>13 DEF RingOf, HeldOf, OneMore

\* What is left of the ring when its first frame is taken out.
LEMMA RingLess ==
  ASSUME NEW r \in Seq(RingByte), NEW n \in Nat \ {0}, n <= Len(r), n >= 3,
         NEW a \in Seq(Id), RingOf(r, n, a),
         NEW s \in Nat, FrameSize(s, a, r[3].frame),
         NEW q \in Seq(RingByte), NEW n2 \in Nat, n2 <= Len(q), n2 = n - s,
         MovedUp(q, n2, r, s)
  PROVE  HoldsLess(q, n2, r, n, a)
<1> USE DEF MovedUp, HoldsLess
<1> DEFINE F == FramesOf(r, n)
           B == PlacesOf(r, n)
           S == SizesOf(a)
           N == Len(a)
<1>1. 1 \in 1 .. n /\ 3 \in 1 .. n
  OBVIOUS
<1>2. /\ F \in [1 .. n -> Nat] /\ B \in [1 .. n -> Nat]
      /\ \A k \in 1 .. n : B[k] = r[k].byte
      /\ \A k \in 1 .. n : F[k] = r[IF k <= 2 THEN 3 ELSE k].frame
  BY <1>1, RingTypes
<1>3. /\ N \in Nat /\ S \in [1 .. N -> Nat]
      /\ \A f \in 1 .. N : S[f] >= 3 /\ S[f] = 3 + Length[a[f]]
  BY SizesType
<1>4. Complete(F, B, n, S, N)
  BY DEF RingOf
<1>5. F[1] = r[3].frame /\ F[1] \in 1 .. N
  BY <1>1, <1>2, <1>4 DEF Complete
<1>6. FirstSize(s, F, S)
  BY <1>5 DEF FirstSize, FrameSize
<1> HIDE DEF F, B, S, N
<1>7. s \in 1 .. n
  BY <1>2, <1>3, <1>4, <1>6, CompleteFirst
<1>8. n2 = 0 \/ (n2 >= 3 /\ F[s + 1] = F[s + 3] /\ F[s + 2] = F[s + 3])
  <2>1. CASE s < n
    <3>1. AtLeastThree(S, N)
      BY <1>3 DEF AtLeastThree
    <3>2. NextWhole(F, n, s)
      BY <1>2, <1>3, <1>4, <1>6, <2>1, <3>1, AnotherFirst
    <3> QED BY <3>2 DEF NextWhole
  <2>2. CASE ~(s < n)
    BY <1>7, <2>2
  <2> QED BY <2>1, <2>2
<1> DEFINE F2 == FramesOf(q, n2)
           B2 == PlacesOf(q, n2)
<1>9. /\ F2 \in [1 .. n2 -> Nat] /\ B2 \in [1 .. n2 -> Nat]
      /\ \A k \in 1 .. n2 : B2[k] = q[k].byte
      /\ \A k \in 1 .. n2 : F2[k] = q[IF k <= 2 THEN 3 ELSE k].frame
  BY <1>1, <1>8, RingTypes
<1> HIDE DEF F2, B2
<1>10. s >= 3
  BY <1>3, <1>5, <1>6 DEF FirstSize
<1>11. ASSUME NEW k \in 1 .. n2
       PROVE  k + s \in 1 .. n /\ q[k].frame = F[k + s] /\ F2[k] = F[k + s] /\ B2[k] = B[k + s]
  <2>1. k + s \in 1 .. n /\ ~(k + s <= 2)
    BY <1>7, <1>10
  <2>2. F[k + s] = r[k + s].frame /\ B[k + s] = r[k + s].byte
    BY <1>2, <2>1
  <2>3. q[k].frame = F[k + s] /\ B2[k] = B[k + s]
    BY <1>9, <2>2
  <2>4. F2[k] = F[k + s]
    <3>1. CASE ~(k <= 2)
      <4>1. F2[k] = q[k].frame
        BY <1>9, <3>1
      <4> QED BY <2>3, <4>1
    <3>2. CASE k <= 2
      <4>1. n2 >= 3 /\ F[s + 1] = F[s + 3] /\ F[s + 2] = F[s + 3]
        BY <1>8
      <4>2. 3 \in 1 .. n2 /\ 3 + s \in 1 .. n /\ ~(3 + s <= 2)
        BY <1>7, <1>10, <4>1
      <4>3. F2[k] = q[3].frame /\ q[3] = r[3 + s] /\ F[3 + s] = r[3 + s].frame
        BY <1>2, <1>9, <3>2, <4>2
      <4>4. k + s = s + 1 \/ k + s = s + 2
        BY <3>2
      <4>5. 3 + s = s + 3
        OBVIOUS
      <4>6. F[k + s] = F[s + 3]
        BY <4>1, <4>4
      <4> QED BY <4>3, <4>5, <4>6
    <3> QED BY <3>1, <3>2
  <2> QED BY <2>1, <2>3, <2>4
<1>12. Shorter(F2, n2, F, n, s) /\ Shorter(B2, n2, B, n, s)
  BY <1>11 DEF Shorter
<1>16. Complete(F2, B2, n2, S, N)
  BY <1>2, <1>3, <1>4, <1>6, <1>9, <1>12, CompleteShrinks
<1>13. OneMore(B, n, B2, n2)
  <2>1. IsWhole(F, B, s)
    BY <1>2, <1>3, <1>4, <1>6, FirstBytes
  <2> QED BY <1>2, <1>7, <1>9, <1>12, <2>1, FirstsShrink
<1>14. RingOf(q, n2, a) /\ HeldOf(r, n) = HeldOf(q, n2) + 1
  BY <1>16, <1>13 DEF RingOf, HeldOf, OneMore, F2, B2, S, N, B
<1>15. \A k \in 1 .. n2 : q[k].frame = FramesOf(q, n2)[k]
  BY <1>11 DEF F, F2
<1> QED BY <1>8, <1>14, <1>15

(* What the invariant says while no frame is coming.                         *)
LEMMA RingStays ==
  ASSUME RingKept, UNCHANGED <<rb, arrived, torn>>, Part' = Part, Coming' => Coming
  PROVE  RingKept' /\ Whole' = Whole
<1>1. Whole' = Whole
  BY DEF Whole
<1> QED BY <1>1 DEF RingKept

LEMMA CountsStay ==
  ASSUME Counted, UNCHANGED <<rb, arrived, taken>>, Whole' = Whole,
         rx_comp' \in Nat, alloc_err' \in Nat, earlier' \in Nat, missed' \in Nat, unmatched' \in Nat,
         earlier' + rx_comp' = earlier + rx_comp,
         alloc_err' + missed' + unmatched' + (IF Coming' THEN 1 ELSE 0)
           = alloc_err + missed + unmatched + (IF Coming THEN 1 ELSE 0)
  PROVE  Counted'
<1> DEFINE c == IF Coming THEN 1 ELSE 0
           d == IF Coming' THEN 1 ELSE 0
<1>1. c \in Nat /\ d \in Nat /\ alloc_err' + missed' + unmatched' + d = alloc_err + missed + unmatched + c
      /\ Len(arrived) = earlier + rx_comp + alloc_err + missed + unmatched + c
      /\ earlier + rx_comp = taken + HeldOf(rb, Whole)
      /\ rx_comp \in Nat /\ alloc_err \in Nat /\ earlier \in Nat
      /\ missed \in Nat /\ unmatched \in Nat /\ taken \in Nat
  BY DEF Counted
<1> HIDE DEF c, d
<1>2. PICK a \in Nat, b \in Nat, u \in Nat, x \in Nat, y \in Nat :
        a = alloc_err' /\ b = missed' /\ u = unmatched' /\ x = earlier' /\ y = rx_comp'
  OBVIOUS
<1>7. a + b + u + d = alloc_err + missed + unmatched + c /\ x + y = earlier + rx_comp
  BY <1>1, <1>2
<1>3. Len(arrived) = x + y + a + b + u + d
  BY <1>1, <1>7
<1>4. (Len(arrived) = earlier + rx_comp + alloc_err + missed + unmatched + (IF Coming THEN 1 ELSE 0))'
  BY <1>2, <1>3 DEF d
<1>5. (earlier + rx_comp = taken + HeldOf(rb, Whole))'
  BY <1>1
<1>6. taken' \in Nat
  BY <1>1
<1> QED BY <1>4, <1>5, <1>6 DEF Counted

\* No frame is coming before or after the step.
LEMMA Apart ==
  ASSUME Received, ~Coming, ~Coming', ~Pushing, ~Pushing', Active' => isr'[1].status # "rx",
         page' \in MObs, UNCHANGED <<rb, arrived, torn, alloc_err, missed, unmatched, taken>>,
         rx_comp' \in Nat, earlier' \in Nat, earlier' + rx_comp' = earlier + rx_comp
  PROVE  Received'
<1>1. Part' = Part
  BY DEF Part
<1>2. RingKept' /\ Whole' = Whole
  BY <1>1, RingStays DEF Received
<1>3. Counted'
  BY <1>2, CountsStay DEF Received, Counted
<1>4. Here'
  BY DEF Here, Coming
<1> QED BY <1>2, <1>3, <1>4 DEF Received

\* Nor while the main program runs.
LEMMA MainApart ==
  ASSUME IInv, Received, isr = <<>>, ~Preempted, UNCHANGED isr,
         \A m \in MObs : mob'[m].status = mob[m].status
  PROVE  ~Coming /\ ~Coming' /\ ~Pushing /\ ~Pushing' /\ ~Active /\ ~Active'
<1>1. ~Active /\ ~Active' /\ \A m \in MObs : mob[m].status = "none" /\ mob'[m].status = "none"
  BY NoneWaits DEF Active
<1> QED BY <1>1 DEF Coming, Handled, Pushing

LEMMA MainSame ==
  ASSUME IInv, Received, isr = <<>>, ~Preempted, UNCHANGED isr,
         \A m \in MObs : mob'[m].status = mob[m].status,
         page' \in MObs, UNCHANGED <<rb, arrived, torn, alloc_err, missed, unmatched, taken, rx_comp, earlier>>
  PROVE  Received'
<1>1. rx_comp' \in Nat /\ earlier' \in Nat /\ earlier' + rx_comp' = earlier + rx_comp
  BY DEF Received, Counted
<1> QED BY <1>1, MainApart, Apart

LEMMA FindReceived == ASSUME IInv, Received, FindMOb, ~Preempted PROVE Received'
BY MainSame DEF FindMOb, driverVars, counts, flags, Received

LEMMA LoadReceived == ASSUME IInv, Received, LoadJobs, ~Preempted PROVE Received'
BY MainSame DEF LoadJobs, driverVars, historyVars, counts, flags, Received

LEMMA StoreReceived == ASSUME IInv, Received, StoreJobs, ~Preempted PROVE Received'
BY MainSame DEF StoreJobs, SendStep, historyVars, counts, flags, Received

LEMMA SelectReceived == ASSUME IInv, Received, SelectMOb, ~Preempted PROVE Received'
<1>1. page' \in MObs
  BY DEF SelectMOb, SendStep, IInv, Types, Holding
<1> QED BY <1>1, MainSame DEF SelectMOb, SendStep, historyVars, counts, flags

LEMMA IdReceived == ASSUME IInv, Received, WriteId, ~Preempted PROVE Received'
<1>1. mob \in [MObs -> MObRec] /\ page \in MObs
  BY DEF IInv, Types, Received
<1>2. mob' = [mob EXCEPT ![page].id = asked[send.number]]
  BY DEF WriteId
<1>3. \A m \in MObs : mob'[m].status = mob[m].status
  BY <1>1, <1>2 DEF MObRec
<1> QED BY <1>1, <1>3, MainSame DEF WriteId, SendStep, historyVars, counts, flags

LEMMA DataReceived == ASSUME IInv, Received, WriteData, ~Preempted PROVE Received'
<1> DEFINE len == Length[asked[send.number]]
           new == [mob[page] EXCEPT !.len = Or(@, len), !.data = IF len > 0 THEN send.number ELSE @]
<1>1. mob \in [MObs -> MObRec] /\ page \in MObs
  BY DEF IInv, Types, Received
<1>2. mob' = [mob EXCEPT ![page] = new]
  BY <1>1 DEF WriteData
<1>3. new.status = mob[page].status
  BY <1>1 DEF MObRec
<1> HIDE DEF new
<1>4. \A m \in MObs : mob'[m].status = mob[m].status
  BY <1>1, <1>2, <1>3
<1> QED BY <1>1, <1>4, MainSame DEF WriteData, SendStep, historyVars, counts, flags

LEMMA EnableReceived == ASSUME IInv, Received, EnableTx, ~Preempted PROVE Received'
<1>1. mob \in [MObs -> MObRec] /\ page \in MObs
  BY DEF IInv, Types, Received
<1>2. mob' = [mob EXCEPT ![page].mode = "tx"]
  BY DEF EnableTx
<1>3. \A m \in MObs : mob'[m].status = mob[m].status
  BY <1>1, <1>2 DEF MObRec
<1> QED BY <1>1, <1>3, MainSame DEF EnableTx, historyVars, counts, flags

\* The MOb can_init selects last is one of them.
LEMMA HighestIn == Highest(Spy) \in MObs
<1> DEFINE S == {14 - m : m \in Spy}
<1>1. Spy \subseteq 0 .. 14 /\ Spy # {}
  BY CanAssumption DEF MObs
<1>2. S \in SUBSET Nat /\ S # {}
  BY <1>1
<1>3. Lowest(S) \in S
  BY <1>2, LowestIn
<1> DEFINE R == {p \in Nat \X Nat : p[1] < p[2]}
<1>4. IsWellFoundedOn(R, Nat)
  BY NatLessThanWellFounded DEF OpToRel
<1> HIDE DEF R
<1>5. PICK x \in S : \A y \in S : ~(<<y, x>> \in R)
  BY <1>2, <1>4, WFMin
<1>6. ASSUME NEW y \in S PROVE x <= y
  <2>1. <<y, x>> \in Nat \X Nat /\ <<y, x>>[1] = y /\ <<y, x>>[2] = x
    BY <1>2
  <2>2. ~(<<y, x>> \in {p \in Nat \X Nat : p[1] < p[2]})
    BY <1>5, Zenon DEF R
  <2>3. ~(y < x)
    BY <2>1, <2>2
  <2> QED BY <1>2, <2>3
<1>7. PICK m \in Spy : x = 14 - m
  OBVIOUS
<1>8. \A k \in Spy : m >= k
  <2> TAKE k \in Spy
  <2>1. 14 - k \in S
    OBVIOUS
  <2>2. 14 - m <= 14 - k
    BY <1>6, <1>7, <2>1
  <2>3. k \in Int /\ m \in Int
    BY <1>1
  <2> QED BY <2>2, <2>3
<1> HIDE DEF S
<1>9. Highest(Spy) \in Spy
  BY <1>8 DEF Highest
<1> QED BY <1>9 DEF MObs

LEMMA ResetReceived == ASSUME IInv, Received, ResetController, ~Preempted PROVE Received'
<1>1. /\ isr = <<>> /\ UNCHANGED isr /\ page' = Highest(Spy)
      /\ mob' = [m \in MObs |-> ResetMOb(m, mob[m].data)]
      /\ rx_comp' = 0 /\ earlier' = earlier + rx_comp
      /\ UNCHANGED <<rb, alloc_err, arrived, torn, missed, unmatched, taken>>
  BY DEF ResetController, flags
<1>2. \A m \in MObs : mob'[m].status = "none" /\ mob[m].status = "none"
  BY <1>1, NoneWaits DEF ResetMOb
<1>3. ~Coming /\ ~Coming' /\ ~Pushing /\ ~Pushing' /\ ~Active /\ ~Active'
  BY <1>1, <1>2, MainApart
<1>4. rx_comp' \in Nat /\ earlier' \in Nat /\ earlier' + rx_comp' = earlier + rx_comp
  BY <1>1 DEF Received, Counted
<1> QED BY <1>1, <1>3, <1>4, HighestIn, Apart

LEMMA SentReceived == ASSUME FastBus = FALSE, IInv, Received, FrameSent PROVE Received'
<1>1. isr = <<>> /\ ~Active /\ \A m \in MObs : mob[m].status = "none"
  BY SlowBus DEF FrameSent
<1>2. PICK l \in Sending, again \in BOOLEAN :
        mob' = [mob EXCEPT ![l].mode = "off", ![l].status = Outcome("tx", again)]
  BY DEF FrameSent
<1>3. PICK bits : bits # "rx" /\ mob' = [mob EXCEPT ![l].mode = "off", ![l].status = bits]
  BY <1>2 DEF Outcome
<1>4. mob \in [MObs -> MObRec] /\ l \in MObs
  BY DEF IInv, Types, Sending
<1>5. \A m \in MObs : mob'[m].status # "rx"
  <2> DEFINE new == [mob[l] EXCEPT !.mode = "off", !.status = bits]
  <2>1. new.status = bits
    BY <1>4 DEF MObRec
  <2>2. mob' = [mob EXCEPT ![l] = new]
    BY <1>3, <1>4
  <2> HIDE DEF new
  <2> QED BY <1>1, <1>3, <1>4, <2>1, <2>2
<1>6. UNCHANGED <<page, isr, rb, arrived, torn, alloc_err, missed, unmatched, taken, rx_comp, earlier>>
  BY DEF FrameSent, cpuVars, counts, flags
<1>7. ~Active' /\ ~Coming /\ ~Coming' /\ ~Pushing /\ ~Pushing'
  BY <1>1, <1>5, <1>6 DEF Active, Coming, Handled, Pushing
<1>8. rx_comp' \in Nat /\ earlier' \in Nat /\ earlier' + rx_comp' = earlier + rx_comp /\ page' \in MObs
  BY <1>6 DEF Received, Counted
<1> QED BY <1>6, <1>7, <1>8, Apart

\* The frame that comes takes a MOb, or is missed; one that was repeated takes a MOb
\* and is lost.
LEMMA ArrivesReceived == ASSUME FastBus = FALSE, IInv, Received, FrameArrives PROVE Received'
<1>1. isr = <<>> /\ ~Active /\ \A m \in MObs : mob[m].status = "none"
  BY SlowBus DEF FrameArrives
<1>2. PICK id \in Id, again \in BOOLEAN :
       /\ arrived' = Append(arrived, id)
       /\ \/ Listening = {} /\ missed' = missed + 1 /\ UNCHANGED <<mob, unmatched>>
          \/ /\ Listening # {} /\ missed' = missed
             /\ unmatched' = unmatched + (IF again THEN 1 ELSE 0)
             /\ mob' = [mob EXCEPT ![Lowest(Listening)] =
                          [mode |-> "off", status |-> Outcome("rx", again), id |-> id,
                           len |-> Length[id], data |-> Len(arrived')]]
  BY Zenon DEF FrameArrives
<1>3. UNCHANGED <<page, isr, rb, torn, alloc_err, taken, rx_comp, earlier>>
  BY DEF FrameArrives, cpuVars, flags
<1>4. ~Active' /\ ~Coming /\ ~Pushing /\ ~Pushing'
  BY <1>1, <1>3 DEF Active, Coming, Handled, Pushing
<1>5. arrived \in Seq(Id) /\ Len(arrived) \in Nat /\ Len(arrived') = Len(arrived) + 1 /\ arrived'[Len(arrived')] = id
  <2>1. arrived \in Seq(Id)
    BY DEF IInv, Types, Logs
  <2> QED BY <1>2, <2>1, AppendProperties, LenProperties
<1>6. Part = 0 /\ Part' = 0 /\ Whole' = Whole
  BY <1>3, <1>4 DEF Part, Whole
<1>7. RingKept'
  <2>1. RingKept /\ rb \in Seq(RingByte) /\ Whole \in Nat /\ Whole <= Len(rb) /\ (Whole = 0 \/ Whole >= 3)
        /\ RingOf(rb, Whole, arrived)
    <3>1. Len(rb) - 0 = Whole
      BY <1>6 DEF Whole
    <3>2. rb \in Seq(RingByte) /\ Whole \in Nat
      BY DEF Received, RingKept
    <3>3. Whole <= Len(rb)
      BY <3>1, <3>2, LenProperties
    <3> QED BY <3>3 DEF Received, RingKept
  <2>2. RingOf(rb, Whole, arrived')
    BY <1>2, <1>5, <2>1, RingLater
  <2>3. \A k \in 1 .. Whole : FramesOf(rb, Whole)[k] < Len(arrived')
    <3> TAKE k \in 1 .. Whole
    <3>1. FramesOf(rb, Whole)[k] \in 1 .. Len(arrived)
      BY <2>1 DEF RingOf, Complete
    <3> QED BY <1>5, <3>1
  <2>4. \A j : j \notin 1 .. Part'
    BY <1>6
  <2> QED BY <1>3, <1>6, <2>1, <2>2, <2>3, <2>4 DEF RingKept
<1>8. CASE Listening = {}
  <2>1. missed' = missed + 1 /\ unmatched' = unmatched /\ mob' = mob
    BY <1>2, <1>8
  <2>2. ~Coming'
    BY <1>1, <1>4, <2>1 DEF Coming, Handled
  <2>3. Here'
    BY <1>4, <2>2 DEF Here, Coming
  <2>4. Counted'
    BY <1>3, <1>4, <1>5, <1>6, <2>1, <2>2 DEF Received, Counted
  <2> QED BY <1>3, <1>7, <2>3, <2>4 DEF Received
<1>9. CASE Listening # {}
  <2> DEFINE l == Lowest(Listening)
             new == [mode |-> "off", status |-> Outcome("rx", again), id |-> id,
                     len |-> Length[id], data |-> Len(arrived')]
  <2>1. l \in MObs
    <3>1. Listening \in SUBSET Nat
      BY CanAssumption DEF Listening, MObs
    <3>2. l \in Listening
      BY <1>9, <3>1, LowestIn
    <3> QED BY <3>2 DEF Listening
  <2>2. (new.status = "rx" <=> ~again) /\ new.len = Length[id] /\ new.data = Len(arrived')
    BY DEF Outcome
  <2>3. mob' = [mob EXCEPT ![l] = new] /\ mob \in [MObs -> MObRec] /\ missed' = missed
        /\ unmatched' = unmatched + (IF again THEN 1 ELSE 0)
    BY <1>2, <1>9 DEF IInv, Types
  <2> HIDE DEF l, new
  <2>4. \A m \in MObs : mob'[m] = IF m = l THEN new ELSE mob[m]
    BY <2>1, <2>3
  <2>5. \A m \in MObs : Handled(m, "rx")' <=> m = l /\ ~again
    BY <1>1, <1>4, <2>2, <2>4 DEF Handled
  <2>6. Coming' <=> ~again
    BY <2>1, <2>5 DEF Coming
  <2>7. mob'[l].len = Length[id] /\ mob'[l].data = Len(arrived')
    BY <2>1, <2>2, <2>4
  <2>8. Len(arrived') > 0
    BY <1>5
  <2>9. Here'
    BY <1>4, <1>5, <2>5, <2>7, <2>8 DEF Here, Size
  <2>10. Counted'
    BY <1>3, <1>4, <1>5, <1>6, <2>3, <2>6 DEF Received, Counted
  <2> QED BY <1>3, <1>7, <2>9, <2>10 DEF Received
<1> QED BY <1>8, <1>9

\* The handler goes on, with the same MOb and the same frame coming.
LEMMA ComesOn ==
  ASSUME Received, Coming' <=> Coming, ~Pushing, ~Pushing', page' \in MObs, Here',
         UNCHANGED <<rb, arrived, torn, alloc_err, missed, unmatched, taken, rx_comp, earlier>>
  PROVE  Received'
<1>1. Part' = Part
  BY DEF Part
<1>2. RingKept' /\ Whole' = Whole
  BY <1>1, RingStays DEF Received
<1>3. Counted'
  BY <1>2, CountsStay DEF Received, Counted
<1> QED BY <1>2, <1>3 DEF Received

LEMMA InterruptReceived == ASSUME IInv, Received, Interrupt PROVE Received'
<1>1. enabled /\ ~(\A m \in MObs : mob[m].status = "none")
  BY DEF Interrupt, Pending
<1>2. isr = <<>>
  BY <1>1 DEF IInv, One
<1>3. isr' # <<>> /\ isr'[1] = Fresh
  BY <1>2, FreshType DEF Interrupt
<1>4. UNCHANGED <<page, mob, rb, arrived, torn, alloc_err, missed, unmatched, taken, rx_comp, earlier>>
  BY DEF Interrupt, driverVars, counts
<1>5. ~Active /\ ~Active' /\ ~Pushing /\ ~Pushing'
  BY <1>2, <1>3, FreshType DEF Active, Pushing
<1>6. \A m \in MObs : Handled(m, "rx")' <=> Handled(m, "rx")
  BY <1>4, <1>5 DEF Handled
<1>7. Coming' <=> Coming
  BY <1>6 DEF Coming
<1>8. Here'
  BY <1>4, <1>5, <1>6, <1>7 DEF Received, Here, Size
<1>9. page' \in MObs
  BY <1>4 DEF Received
<1> QED BY <1>4, <1>5, <1>7, <1>8, <1>9, ComesOn

LEMMA ServeReceived == ASSUME IInv, Received, Serve PROVE Received'
<1>1. isr # <<>> /\ Running = isr[1] /\ isr[1] \in Activation /\ isr[1].at = "loop"
  BY OneRuns DEF Serve, IInv
<1>2. ~Active
  BY <1>1 DEF Active
<1> DEFINE l == Lowest(Pending)
           r == [isr[1] EXCEPT !.at = "status", !.mob = l, !.status = mob[l].status,
                               !.id = mob[l].id, !.frame = mob[l].data]
<1>3. l \in MObs /\ mob[l].status # "none"
  <2>1. Pending \in SUBSET Nat
    BY CanAssumption DEF Pending, MObs
  <2>2. l \in Pending
    BY <2>1, LowestIn DEF Serve
  <2> QED BY <2>1, <2>2 DEF Pending
<1>4. mob[l] \in MObRec /\ mob \in [MObs -> MObRec] /\ mob[l].data \in Nat /\ l \in Nat
  <2>1. mob[l] \in MObRec /\ mob \in [MObs -> MObRec]
    BY <1>3 DEF IInv, Types
  <2>2. mob[l].data \in 0 .. MaxFrames + MaxSends
    BY <2>1 DEF MObRec
  <2> QED BY <1>3, <2>1, <2>2, CanAssumption DEF MObs
<1>16. r \in Activation
  BY <1>1, <1>4 DEF Activation, MObRec, Status, Bits
<1>5. r.at = "status" /\ r.mob = l /\ r.status = mob[l].status /\ r.frame = mob[l].data
  BY <1>1 DEF Activation
<1>6. page' = l /\ mob' = [mob EXCEPT ![l].status = "none"]
      /\ UNCHANGED <<rb, arrived, torn, alloc_err, missed, unmatched, taken, rx_comp, earlier>>
  BY DEF Serve, historyVars, counts, flags
<1>7. SetRunning(r)
  BY <1>1 DEF Serve
<1> HIDE DEF l, r
<1>8. isr' # <<>> /\ isr'[1] = r
  BY <1>1, <1>7, <1>16, RunningSet DEF IInv
<1>9. Active' /\ ~Pushing /\ ~Pushing'
  BY <1>2, <1>5, <1>8 DEF Active, Pushing
<1>10. \A m \in MObs : /\ mob'[m].status = IF m = l THEN "none" ELSE mob[m].status
                       /\ mob'[m].len = mob[m].len /\ mob'[m].data = mob[m].data
  <2> DEFINE new == [mob[l] EXCEPT !.status = "none"]
  <2>1. new.len = mob[l].len /\ new.data = mob[l].data /\ new.status = "none"
    BY <1>4 DEF MObRec
  <2>2. mob' = [mob EXCEPT ![l] = new]
    BY <1>6, <1>4
  <2> HIDE DEF new
  <2> QED BY <1>3, <1>4, <2>1, <2>2
<1>11. \A m \in MObs : m # l => mob[m].status = "none"
  BY <1>3 DEF IInv, One
<1>12. \A m \in MObs : Handled(m, "rx")' <=> Handled(m, "rx")
  BY <1>2, <1>3, <1>5, <1>8, <1>9, <1>10, <1>11 DEF Handled
<1>13. Coming' <=> Coming
  BY <1>12 DEF Coming
<1>14. isr'[1].status = "rx" => isr'[1].frame = Len(arrived')
  <2>1. r.status = "rx" => Handled(l, "rx")
    BY <1>5 DEF Handled
  <2>2. Handled(l, "rx") => mob[l].data = Len(arrived)
    BY <1>3 DEF Received, Here, Size
  <2> QED BY <1>5, <1>6, <1>8, <2>1, <2>2
<1>15. Here'
  BY <1>6, <1>9, <1>10, <1>12, <1>13, <1>14 DEF Received, Here, Size
<1> QED BY <1>3, <1>6, <1>9, <1>13, <1>15, ComesOn

LEMMA ReturnReceived == ASSUME IInv, Received, ReturnFromInterrupt PROVE Received'
<1>1. isr # <<>> /\ Len(isr) = 1 /\ Running = isr[1] /\ isr[1].at = "loop" /\ isr \in Seq(Activation)
  BY OneRuns DEF ReturnFromInterrupt, IInv, Types
<1>2. \A m \in MObs : mob[m].status = "none"
  BY DEF ReturnFromInterrupt, Pending
<1>3. isr' = <<>> /\ UNCHANGED <<page, mob, rb, arrived, torn, alloc_err, missed, unmatched, taken, rx_comp, earlier>>
  BY <1>1 DEF ReturnFromInterrupt, driverVars, historyVars, counts, flags
<1>4. ~Active /\ ~Active' /\ ~Coming /\ ~Coming' /\ ~Pushing /\ ~Pushing'
  BY <1>1, <1>2, <1>3 DEF Active, Coming, Handled, Pushing
<1>5. rx_comp' \in Nat /\ earlier' \in Nat /\ earlier' + rx_comp' = earlier + rx_comp /\ page' \in MObs
  BY <1>3 DEF Received, Counted
<1> QED BY <1>3, <1>4, <1>5, Apart

\* The handler leaves the body of its loop without a frame.
LEMMA LoopReceived ==
  ASSUME IInv, Received, Active, isr[1].status # "rx", SetRunning(Fresh),
         UNCHANGED <<page, mob, rb, arrived, torn, alloc_err, missed, unmatched, taken, rx_comp, earlier>>
  PROVE  Received'
<1>1. isr' # <<>> /\ isr'[1] = Fresh
  BY RunningSet, FreshType DEF Active, IInv
<1>2. ~Active'
  BY <1>1, FreshType DEF Active
<1>3. \A m \in MObs : mob[m].status = "none"
  BY DEF IInv, One, Active
<1>4. ~Coming /\ ~Coming' /\ ~Pushing /\ ~Pushing'
  BY <1>2, <1>3 DEF Coming, Handled, Pushing, IInv, One
<1>5. rx_comp' \in Nat /\ earlier' \in Nat /\ earlier' + rx_comp' = earlier + rx_comp /\ page' \in MObs
  BY DEF Received, Counted
<1> QED BY <1>2, <1>4, <1>5, Apart

LEMMA TxReceived == ASSUME IInv, Received, TxCompleted PROVE Received'
<1>1. Active /\ isr[1].status # "rx"
  BY BodyIsActive DEF TxCompleted
<1> QED BY <1>1, LoopReceived DEF TxCompleted, LoopAgain, historyVars, counts, flags

LEMMA MixedReceived == ASSUME IInv, Received, MixedStatus PROVE Received'
<1>1. Active /\ isr[1].status # "rx"
  BY BodyIsActive DEF MixedStatus
<1> QED BY <1>1, LoopReceived DEF MixedStatus, LoopAgain, driverVars, historyVars, counts, flags

\* The handler is done with the frame, and its MOb listens.
LEMMA FrameDone ==
  ASSUME IInv, Received, Active, isr[1].status = "rx", Listen, SetRunning(Fresh), UNCHANGED page
  PROVE  Coming /\ ~Coming' /\ ~Active' /\ ~Pushing' /\ page' \in MObs
<1>1. isr' # <<>> /\ isr'[1] = Fresh
  BY RunningSet, FreshType DEF Active, IInv
<1>2. ~Active'
  BY <1>1, FreshType DEF Active
<1>3. page \in MObs /\ isr[1].mob \in MObs /\ \A m \in MObs : mob[m].status = "none"
  BY DEF IInv, One, Active, Received
<1>4. Coming
  BY <1>3 DEF Coming, Handled
<1>5. mob \in [MObs -> MObRec] /\ mob' = [mob EXCEPT ![page].mode = "rx"]
  BY DEF IInv, Types, Listen
<1>6. \A m \in MObs : mob'[m].status = mob[m].status
  BY <1>3, <1>5 DEF MObRec
<1>7. ~Coming'
  BY <1>2, <1>3, <1>6 DEF Coming, Handled
<1> QED BY <1>2, <1>3, <1>4, <1>7 DEF Pushing

\* A frame that is not pushed is counted elsewhere.
LEMMA LostReceived ==
  ASSUME IInv, Received, Active, isr[1].at # "push", isr[1].status = "rx", Listen, SetRunning(Fresh),
         UNCHANGED <<page, rb, arrived, torn, taken, rx_comp, earlier, unmatched>>,
         \/ missed' = missed + 1 /\ UNCHANGED alloc_err
         \/ alloc_err' = alloc_err + 1 /\ UNCHANGED missed
  PROVE  Received'
<1>1. Coming /\ ~Coming' /\ ~Active' /\ ~Pushing' /\ page' \in MObs
  BY FrameDone
<1>2. Part' = Part
  BY <1>1 DEF Part, Pushing
<1>3. RingKept' /\ Whole' = Whole
  BY <1>1, <1>2, RingStays DEF Received
<1>4. Counted'
  <2>1. /\ rx_comp' \in Nat /\ alloc_err' \in Nat /\ earlier' \in Nat /\ missed' \in Nat /\ unmatched' \in Nat
        /\ earlier' + rx_comp' = earlier + rx_comp
        /\ alloc_err' + missed' + unmatched' = alloc_err + missed + unmatched + 1
    <3>1. rx_comp \in Nat /\ alloc_err \in Nat /\ earlier \in Nat /\ missed \in Nat /\ unmatched \in Nat
      BY DEF Received, Counted
    <3>2. CASE missed' = missed + 1 /\ UNCHANGED alloc_err
      BY <3>1, <3>2
    <3>3. CASE alloc_err' = alloc_err + 1 /\ UNCHANGED missed
      BY <3>1, <3>3
    <3> QED BY <3>2, <3>3
  <2>2. alloc_err' + missed' + unmatched' + (IF Coming' THEN 1 ELSE 0) = alloc_err + missed + unmatched + (IF Coming THEN 1 ELSE 0)
    <3>1. (IF Coming' THEN 1 ELSE 0) = 0 /\ (IF Coming THEN 1 ELSE 0) = 1
      BY <1>1
    <3>2. alloc_err' + missed' + unmatched' + 0 = alloc_err + missed + unmatched + 1
      BY <2>1
    <3> QED BY <3>1, <3>2
  <2> QED BY <1>3, <2>1, <2>2, CountsStay DEF Received
<1>5. Here'
  BY <1>1 DEF Here, Coming
<1> QED BY <1>1, <1>3, <1>4, <1>5 DEF Received

LEMMA InBodyAt ==
  ASSUME IInv, NEW status, InBody(status)
  PROVE  isr[1].at = "status"
BY BodyIsActive DEF InBody

LEMMA IgnoreReceived == ASSUME IInv, Received, Ignore PROVE Received'
<1>1. Active /\ isr[1].status = "rx" /\ isr[1].at # "push"
  BY BodyIsActive, InBodyAt DEF Ignore
<1>2. Listen /\ SetRunning(Fresh) /\ missed' = missed + 1
      /\ UNCHANGED <<page, rb, arrived, torn, taken, rx_comp, earlier, alloc_err, unmatched>>
  BY DEF Ignore, Continue, flags
<1> QED BY <1>1, <1>2, LostReceived

LEMMA NoRoomReceived == ASSUME IInv, Received, NoRoom PROVE Received'
<1>1. Active /\ isr[1].status = "rx" /\ isr[1].at # "push"
  BY BodyIsActive, InBodyAt DEF NoRoom
<1>2. Listen /\ SetRunning(Fresh) /\ alloc_err' = alloc_err + 1
      /\ UNCHANGED <<page, rb, arrived, torn, taken, rx_comp, earlier, missed, unmatched>>
  BY DEF NoRoom, LoopAgain, historyVars, counts, flags
<1> QED BY <1>1, <1>2, LostReceived

\* The MOb being served is the one that is selected, and nobody writes it.
LEMMA InBodyHandled ==
  ASSUME IInv, Received, Active, isr[1].status = "rx"
  PROVE  /\ page \in MObs /\ page = isr[1].mob /\ Handled(page, "rx") /\ Coming
         /\ mob[page].len = Size /\ mob[page].data = Len(arrived)
         /\ Len(arrived) \in Nat /\ Len(arrived) > 0 /\ arrived \in Seq(Id)
         /\ Size \in 0 .. 8
         /\ \A m \in MObs : mob[m].status = "none"
<1>1. page \in MObs /\ page = isr[1].mob /\ \A m \in MObs : mob[m].status = "none"
  BY DEF IInv, One, Active, Received
<1>2. Handled(page, "rx") /\ Coming
  BY <1>1 DEF Handled, Coming
<1>3. mob[page].len = Size /\ mob[page].data = Len(arrived) /\ Len(arrived) > 0
  BY <1>1, <1>2 DEF Received, Here
<1>4. arrived \in Seq(Id) /\ Len(arrived) \in Nat
  BY LenProperties DEF IInv, Types, Logs
<1>5. Size \in 0 .. 8
  <2>1. Len(arrived) \in 1 .. Len(arrived)
    BY <1>3, <1>4
  <2> QED BY <1>4, <2>1, SizesType DEF Size
<1> QED BY <1>1, <1>2, <1>3, <1>4, <1>5

\* The handler pushes nothing yet, or another byte.
LEMMA StartReceived == ASSUME IInv, Received, StartFrame PROVE Received'
<1>1. Active /\ Running = isr[1] /\ isr[1] \in Activation /\ isr[1].status = "rx" /\ isr[1].at # "push"
  BY BodyIsActive, InBodyAt DEF StartFrame
<1>2. UNCHANGED <<page, mob, rb, arrived, torn, taken, rx_comp, earlier, missed, unmatched, alloc_err>>
  BY DEF StartFrame, driverVars, historyVars, counts, flags
<1>3. /\ page \in MObs /\ page = isr[1].mob /\ Coming
      /\ mob[page].len = Size /\ Size \in 0 .. 8
  BY <1>1, InBodyHandled
<1> DEFINE r == [isr[1] EXCEPT !.at = "push", !.len = mob[page].len, !.next = 1]
<1>4. r.at = "push" /\ r.mob = isr[1].mob /\ r.status = isr[1].status /\ r.next = 1 /\ r.len = Size
      /\ r.frame = isr[1].frame
  BY <1>1, <1>3 DEF Activation
<1>5. r \in Activation
  <2>1. mob[page].len \in Nat
    BY <1>3
  <2> QED BY <1>1, <2>1 DEF Activation, Status, Bits
<1>6. SetRunning(r)
  BY <1>1 DEF StartFrame
<1> HIDE DEF r
<1>7. isr' # <<>> /\ isr'[1] = r
  BY <1>1, <1>5, <1>6, RunningSet DEF IInv, Active
<1>8. Active' /\ Pushing' /\ ~Pushing
  BY <1>1, <1>4, <1>7 DEF Active, Pushing
<1>9. \A m \in MObs : Handled(m, "rx")' <=> Handled(m, "rx")
  BY <1>1, <1>2, <1>4, <1>7, <1>8 DEF Handled
<1>10. Coming'
  BY <1>3, <1>9 DEF Coming
<1>11. Part = 0 /\ Part' = 0
  BY <1>4, <1>7, <1>8 DEF Part
<1>12. RingKept' /\ Whole' = Whole
  BY <1>2, <1>3, <1>11, RingStays DEF Received
<1>13. Counted'
  BY <1>2, <1>3, <1>10, <1>12, CountsStay DEF Received, Counted
<1>14. Len(rb) + 3 + Size < RingSize
  <2>1. RingSize - 1 - Len(rb) > 3 + Size
    BY <1>3 DEF StartFrame, HasRoom
  <2>2. Len(rb) \in Nat /\ RingSize \in Nat
    BY LenProperties, CanAssumption DEF Received, RingKept
  <2> QED BY <1>3, <2>1, <2>2
<1>15. Size' = Size
  BY <1>2 DEF Size
<1>16. (Pushing => /\ isr[1].len = Size /\ isr[1].next \in 1 .. 4 + Size
                   /\ Len(rb) + 4 + Size - isr[1].next < RingSize)'
  <2>1. Len(rb) + 4 + Size - 1 < RingSize /\ 1 \in 1 .. 4 + Size
    <3>1. Len(rb) \in Nat /\ RingSize \in Nat
      BY LenProperties, CanAssumption DEF Received, RingKept
    <3> QED BY <1>3, <1>14, <3>1
  <2> QED BY <1>2, <1>4, <1>7, <1>15, <2>1
<1>17. Here'
  BY <1>1, <1>2, <1>4, <1>7, <1>9, <1>15, <1>16, <1>3 DEF Received, Here
<1> QED BY <1>2, <1>3, <1>12, <1>13, <1>17 DEF Received

\* Each byte finds room.
LEMMA PushReceived == ASSUME IInv, Received, PushByte PROVE Received'
<1>1. Active /\ Running = isr[1] /\ isr[1] \in Activation /\ isr[1].status = "rx" /\ isr[1].at = "push"
  BY PushIsActive DEF PushByte
<1>2. UNCHANGED <<page, mob, arrived, torn, taken, rx_comp, earlier, missed, unmatched, alloc_err>>
  BY DEF PushByte, historyVars, counts, flags
<1>3. /\ page \in MObs /\ page = isr[1].mob /\ Coming
      /\ mob[page].data = Len(arrived) /\ Size \in 0 .. 8
      /\ Len(arrived) \in Nat
  BY <1>1, InBodyHandled
<1>4. Pushing
  BY <1>1 DEF Pushing
<1>5. PICK next \in Nat : next = isr[1].next
  BY <1>1 DEF Activation
<1>6. /\ isr[1].len = Size /\ next \in 1 .. 3 + Size /\ isr[1].frame = Len(arrived)
      /\ Len(rb) + 4 + Size - next < RingSize
  BY <1>1, <1>3, <1>4, <1>5 DEF Received, Here, PushByte
<1> DEFINE r == [isr[1] EXCEPT !.next = next + 1]
<1>7. r.at = "push" /\ r.mob = isr[1].mob /\ r.status = "rx" /\ r.next = next + 1 /\ r.len = Size
      /\ r.frame = Len(arrived)
  BY <1>1, <1>6 DEF Activation
<1>8. r \in Activation
  BY <1>1, <1>5 DEF Activation
<1>9. SetRunning(r)
  BY <1>1, <1>5 DEF PushByte
<1> HIDE DEF r
<1>10. isr' # <<>> /\ isr'[1] = r
  BY <1>1, <1>8, <1>9, RunningSet DEF IInv, Active
<1>11. Active' /\ Pushing'
  BY <1>7, <1>10 DEF Active, Pushing
<1>12. \A m \in MObs : Handled(m, "rx")' <=> Handled(m, "rx")
  BY <1>1, <1>2, <1>7, <1>10, <1>11 DEF Handled
<1>13. Coming'
  BY <1>3, <1>12 DEF Coming
<1>14. PICK n \in Nat : n = Whole /\ (n = 0 \/ n >= 3)
  BY DEF Received, RingKept
<1>15. rb \in Seq(RingByte) /\ Len(rb) \in Nat /\ RingSize \in Nat /\ Len(rb) < RingSize
  BY LenProperties, CanAssumption DEF Received, RingKept
<1>16. Part = next - 1 /\ n = Len(rb) - (next - 1)
  BY <1>4, <1>5, <1>14 DEF Part, Whole
<1> DEFINE x == [frame |-> Len(arrived), byte |-> next]
<1>17. rb' = Append(rb, x)
  <2>1. Len(rb) # RingSize - 1
    <3>1. PICK z \in Nat, l \in Nat : z = Size /\ l = Len(rb)
      <4>1. Size \in Nat /\ Len(rb) \in Nat
        BY <1>3, <1>15
      <4> QED BY <4>1
    <3>2. next <= 3 + z /\ l + 4 + z - next < RingSize
      BY <1>6, <3>1
    <3>3. l # RingSize - 1
      BY <1>15, <3>2
    <3> QED BY <3>1, <3>3
  <2>2. (IF next <= 3 THEN isr[1].frame ELSE mob[page].data) = Len(arrived)
    BY <1>3, <1>6
  <2>3. RbPush(x)
    BY <1>1, <1>5, <2>2 DEF PushByte
  <2> QED BY <2>1, <2>3 DEF RbPush
<1>18. x \in RingByte
  <2>1. Len(arrived) <= MaxFrames
    BY DEF IInv, Types, Logs
  <2> QED BY <1>3, <1>6, <2>1, CanAssumption DEF RingByte
<1> HIDE DEF x
<1>19. /\ rb' \in Seq(RingByte) /\ Len(rb') = Len(rb) + 1
       /\ rb'[Len(rb) + 1] = x /\ \A k \in 1 .. Len(rb) : rb'[k] = rb[k]
  BY <1>15, <1>17, <1>18, AppendProperties
<1>20. Part' = next
  BY <1>5, <1>7, <1>10, <1>11 DEF Part
<1>21. Whole' = n
  <2>1. n = (Len(rb) + 1) - next
    BY <1>15, <1>16
  <2> QED BY <1>19, <1>20, <2>1 DEF Whole
<1>22. Len(rb') + 4 + Size - (next + 1) < RingSize /\ Len(rb') < RingSize
  <2>1. Len(rb) + 1 + 4 + Size - (next + 1) < RingSize /\ Len(rb) + 1 < RingSize
    BY <1>3, <1>6, <1>15
  <2> QED BY <1>19, <2>1
<1>23. Size' = Size
  BY <1>2 DEF Size
<1>24. (Pushing => /\ isr[1].len = Size /\ isr[1].next \in 1 .. 4 + Size
                   /\ Len(rb) + 4 + Size - isr[1].next < RingSize)'
  <2>1. next + 1 \in 1 .. 4 + Size
    BY <1>3, <1>6
  <2> QED BY <1>7, <1>10, <1>22, <1>23, <2>1
<1>25. Here'
  BY <1>2, <1>3, <1>7, <1>10, <1>12, <1>23, <1>24 DEF Received, Here
<1>26. \A k \in 1 .. n : k \in 1 .. Len(rb) /\ rb'[k] = rb[k]
  BY <1>6, <1>15, <1>16, <1>19
<1>27. FramesOf(rb', n) = FramesOf(rb, n) /\ PlacesOf(rb', n) = PlacesOf(rb, n)
  BY <1>14, <1>26, SameRing
<1>28. RingOf(rb', n, arrived) /\ HeldOf(rb', n) = HeldOf(rb, n)
  BY <1>14, <1>27 DEF RingOf, HeldOf, Received, RingKept
<1>29. \A j \in 1 .. next : rb'[n + j] = [frame |-> Len(arrived), byte |-> j]
  <2> TAKE j \in 1 .. next
  <2>1. CASE j = next
    <3>1. n + j = Len(rb) + 1
      BY <1>15, <1>16, <2>1
    <3> QED BY <1>19, <2>1, <3>1 DEF x
  <2>2. CASE j # next
    <3>1. j \in 1 .. Part /\ n + j \in 1 .. Len(rb)
      BY <1>6, <1>15, <1>16, <2>2
    <3>2. rb[n + j] = [frame |-> Len(arrived), byte |-> j]
      BY <1>14, <3>1 DEF Received, RingKept
    <3> QED BY <1>19, <3>1, <3>2
  <2> QED BY <2>1, <2>2
<1>30. RingKept'
  <2>1. \A k \in 1 .. n : FramesOf(rb', n)[k] < Len(arrived)
    BY <1>3, <1>14, <1>27 DEF Received, RingKept
  <2>2. ~torn => \A k \in 1 .. n : rb'[k].frame = FramesOf(rb', n)[k]
    BY <1>14, <1>26, <1>27 DEF Received, RingKept
  <2> QED BY <1>2, <1>14, <1>19, <1>20, <1>21, <1>22, <1>28, <1>29, <2>1, <2>2 DEF RingKept
<1>31. Counted'
  BY <1>2, <1>3, <1>13, <1>14, <1>21, <1>28 DEF Received, Counted
<1> QED BY <1>2, <1>3, <1>25, <1>30, <1>31 DEF Received

\* The part of the frame that is in the ring is the whole of it.
LEMMA EndReceived == ASSUME IInv, Received, EndFrame PROVE Received'
<1>1. Active /\ Running = isr[1] /\ isr[1] \in Activation /\ isr[1].status = "rx" /\ isr[1].at = "push"
  BY PushIsActive DEF EndFrame
<1>2. /\ Listen /\ SetRunning(Fresh) /\ rx_comp' = rx_comp + 1
      /\ UNCHANGED <<page, rb, arrived, torn, taken, earlier, missed, unmatched, alloc_err>>
  BY DEF EndFrame, LoopAgain, historyVars, counts, flags
<1>3. Coming /\ ~Coming' /\ ~Active' /\ ~Pushing' /\ page' \in MObs
  BY <1>1, <1>2, FrameDone
<1>4. Size \in 0 .. 8 /\ Len(arrived) \in Nat /\ Len(arrived) > 0 /\ arrived \in Seq(Id)
  BY <1>1, InBodyHandled
<1>5. Pushing
  BY <1>1 DEF Pushing
<1>6. PICK next \in Nat : next = isr[1].next
  BY <1>1 DEF Activation
<1>7. next = 4 + Size
  <2>1. isr[1].len = Size /\ next \in 1 .. 4 + Size
    BY <1>5, <1>6 DEF Received, Here
  <2>2. next > 3 + Size
    BY <1>1, <1>6, <2>1 DEF EndFrame
  <2> QED BY <1>4, <2>1, <2>2
<1>8. PICK n \in Nat : n = Whole /\ (n = 0 \/ n >= 3)
  BY DEF Received, RingKept
<1>9. PICK s \in Nat : s = 3 + Size
  BY <1>4
<1>10. rb \in Seq(RingByte) /\ Len(rb) \in Nat /\ Len(rb) < RingSize
  BY LenProperties DEF Received, RingKept
<1>11. Part = s
  BY <1>4, <1>5, <1>6, <1>7, <1>9 DEF Part
<1>12. PICK n2 \in Nat : n2 = Len(rb) /\ n2 = n + s
  BY <1>8, <1>10, <1>11 DEF Whole
<1>13. FrameSize(s, arrived, Len(arrived)) /\ Len(arrived) \in 1 .. Len(arrived)
  <2>1. Len(arrived) \in 1 .. Len(arrived)
    BY <1>4
  <2> QED BY <1>4, <1>9, <2>1 DEF FrameSize, SizesOf, Size
<1>14. \A j \in 1 .. s : rb[n + j].frame = Len(arrived) /\ rb[n + j].byte = j
  <2>1. \A j \in 1 .. Part : rb[Whole + j] = [frame |-> Len(arrived), byte |-> j]
    BY DEF Received, RingKept
  <2>2. \A j \in 1 .. s : rb[n + j] = [frame |-> Len(arrived), byte |-> j]
    BY <1>8, <1>11, <2>1, Zenon
  <2> TAKE j \in 1 .. s
  <2>3. rb[n + j] = [frame |-> Len(arrived), byte |-> j]
    BY <2>2
  <2> QED BY <2>3
<1>15. RingOf(rb, n, arrived) /\ AllBefore(FramesOf(rb, n), n, Len(arrived))
  BY <1>3, <1>8 DEF Received, RingKept, AllBefore
<1>16. RingOf(rb, n2, arrived) /\ HeldOf(rb, n2) = HeldOf(rb, n) + 1 /\ n2 >= 3
  <2>1. n2 <= Len(rb)
    BY <1>12
  <2>2. n2 = n + s
    BY <1>12
  <2>3. FrameAt(rb, n, s, Len(arrived))
    BY <1>14 DEF FrameAt
  <2>4. PICK f \in 1 .. Len(arrived) : f = Len(arrived)
    BY <1>13
  <2>5. HoldsMore(rb, n2, n, arrived)
    BY <1>4, <1>8, <1>10, <1>13, <1>15, <2>1, <2>2, <2>3, <2>4, RingMore
  <2> QED BY <2>5 DEF HoldsMore
<1>17. Part' = 0 /\ Whole' = n2
  BY <1>2, <1>3, <1>12 DEF Part, Whole
<1>18. ~torn => \A k \in 1 .. n2 : rb[k].frame = FramesOf(rb, n2)[k]
  <2> SUFFICES ASSUME ~torn, NEW k \in 1 .. n2 PROVE rb[k].frame = FramesOf(rb, n2)[k]
    OBVIOUS
  <2>1. FramesOf(rb, n2)[k] = rb[IF k <= 2 THEN 3 ELSE k].frame
    BY DEF FramesOf
  <2>2. CASE ~(k <= 2)
    BY <2>1, <2>2
  <2>3. CASE k <= 2 /\ n = 0
    <3>1. k \in 1 .. s /\ 3 \in 1 .. s
      BY <1>4, <1>9, <2>3
    <3>2. rb[0 + k].frame = Len(arrived) /\ rb[0 + 3].frame = Len(arrived)
      BY <1>14, <2>3, <3>1
    <3>3. 0 + k = k
      OBVIOUS
    <3> QED BY <2>1, <2>3, <3>2, <3>3
  <2>4. CASE k <= 2 /\ n >= 3
    <3>1. k \in 1 .. n
      BY <2>4
    <3>2. rb[k].frame = FramesOf(rb, n)[k]
      BY <1>8, <3>1 DEF Received, RingKept
    <3>3. FramesOf(rb, n)[k] = rb[3].frame
      BY <2>4, <3>1 DEF FramesOf
    <3> QED BY <2>1, <2>4, <3>2, <3>3
  <2> QED BY <1>8, <2>2, <2>3, <2>4
<1>19. RingKept'
  <2>1. \A j : j \notin 1 .. Part'
    BY <1>17
  <2> QED BY <1>2, <1>3, <1>10, <1>16, <1>17, <1>18, <2>1 DEF RingKept
<1>20. Here'
  BY <1>3 DEF Here, Coming
<1>21. Counted'
  <2>1. /\ rx_comp \in Nat /\ alloc_err \in Nat /\ earlier \in Nat /\ missed \in Nat /\ unmatched \in Nat /\ taken \in Nat
        /\ Len(arrived) = earlier + rx_comp + alloc_err + missed + unmatched + 1
        /\ earlier + rx_comp = taken + HeldOf(rb, n)
    BY <1>3, <1>8 DEF Received, Counted
  <2>2. (IF Coming' THEN 1 ELSE 0) = 0
    BY <1>3
  <2>3. Len(arrived) = earlier + (rx_comp + 1) + alloc_err + missed + unmatched + 0
    BY <2>1
  <2>4. PICK h : h = HeldOf(rb, n)
    OBVIOUS
  <2>5. h \in Nat
    <3>1. PlacesOf(rb, n) \in [1 .. n -> Nat]
      <4>1. n <= Len(rb)
        BY <1>12
      <4> QED BY <1>8, <1>10, <4>1, RingTypes
    <3>2. IsFiniteSet(1 .. n) /\ Firsts(PlacesOf(rb, n), n) \subseteq 1 .. n
      BY FS_Interval DEF Firsts
    <3>3. IsFiniteSet(Firsts(PlacesOf(rb, n), n))
      BY <3>2, FS_Subset
    <3> QED BY <2>4, <3>3, FS_CardinalityType DEF HeldOf
  <2>6. earlier + (rx_comp + 1) = taken + (h + 1)
    BY <2>1, <2>4, <2>5
  <2>7. HeldOf(rb, n2) = h + 1
    BY <1>16, <2>4
  <2> QED BY <1>2, <1>17, <2>1, <2>2, <2>3, <2>6, <2>7 DEF Counted
<1> QED BY <1>3, <1>19, <1>20, <1>21 DEF Received

\* While the main program runs, the ring holds whole frames only.
LEMMA MainRing ==
  ASSUME IInv, Received, isr = <<>>, ~Preempted
  PROVE  /\ ~Active /\ ~Coming /\ ~Pushing /\ Part = 0 /\ Whole = Len(rb)
         /\ rb \in Seq(RingByte) /\ Len(rb) \in Nat /\ Len(rb) < RingSize
<1>1. ~Active /\ \A m \in MObs : mob[m].status = "none"
  BY NoneWaits
<1>2. ~Coming /\ ~Pushing /\ Part = 0
  BY <1>1 DEF Coming, Handled, Pushing, Part
<1>3. rb \in Seq(RingByte) /\ Len(rb) \in Nat /\ Len(rb) < RingSize
  BY LenProperties DEF Received, RingKept
<1> QED BY <1>1, <1>2, <1>3 DEF Whole

\* A step of the main program that writes the ring.
LEMMA RingWritten ==
  ASSUME IInv, Received, isr = <<>>, ~Preempted,
         UNCHANGED <<page, mob, isr, arrived, earlier, rx_comp, alloc_err, missed, unmatched>>,
         rb' \in Seq(RingByte), Len(rb') < RingSize, Len(rb') = 0 \/ Len(rb') >= 3,
         RingOf(rb', Len(rb'), arrived),
         ~torn' => \A k \in 1 .. Len(rb') : rb'[k].frame = FramesOf(rb', Len(rb'))[k],
         taken' \in Nat, taken' + HeldOf(rb', Len(rb')) = taken + HeldOf(rb, Len(rb))
  PROVE  Received'
<1>1. ~Active /\ ~Coming /\ ~Pushing /\ Part = 0 /\ Whole = Len(rb)
  BY MainRing
<1>2. ~Active' /\ ~Coming' /\ ~Pushing' /\ Part' = 0
  BY <1>1, MainApart DEF Part
<1>3. Len(rb') \in Nat /\ Whole' = Len(rb')
  BY <1>2, LenProperties DEF Whole
<1>4. RingKept'
  <2>1. \A j : j \notin 1 .. Part'
    BY <1>2
  <2> QED BY <1>2, <1>3, <2>1 DEF RingKept
<1>5. Here'
  BY <1>2 DEF Here, Coming
<1>6. Counted'
  BY <1>1, <1>2, <1>3 DEF Received, Counted
<1>7. page' \in MObs
  BY DEF Received
<1> QED BY <1>4, <1>5, <1>6, <1>7 DEF Received

\* read_message takes exactly the first frame.
LEMMA ReadReceived == ASSUME IInv, Received, ReadMessage, ~Preempted PROVE Received'
<1>1. /\ isr = <<>> /\ Len(rb) >= 3 /\ taken' = taken + 1
      /\ rb' = SubSeq(rb, 4 + Length[arrived[rb[3].frame]], Len(rb))
      /\ UNCHANGED <<page, mob, isr, arrived, torn, earlier, rx_comp, alloc_err, missed, unmatched>>
  BY DEF ReadMessage, cpuVars, flags
<1>2. /\ ~Coming /\ Whole = Len(rb)
      /\ rb \in Seq(RingByte) /\ Len(rb) \in Nat /\ Len(rb) < RingSize
  BY <1>1, MainRing
<1>3. RingOf(rb, Len(rb), arrived)
  BY <1>2 DEF Received, RingKept
<1>4. PICK n \in Nat \ {0} : n = Len(rb)
  BY <1>1, <1>2
<1>5. arrived \in Seq(Id)
  BY DEF IInv, Types, Logs
<1>6. rb[3].frame \in 1 .. Len(arrived)
  <2>1. FramesOf(rb, n)[3] \in 1 .. Len(arrived)
    BY <1>1, <1>3, <1>4 DEF RingOf, Complete
  <2> QED BY <1>1, <1>4, <2>1 DEF FramesOf
<1>7. PICK s \in Nat : s = 3 + Length[arrived[rb[3].frame]] /\ FrameSize(s, arrived, rb[3].frame)
  BY <1>5, <1>6, SizesType DEF FrameSize
<1>8. s <= n
  <2>1. Complete(FramesOf(rb, n), PlacesOf(rb, n), n, SizesOf(arrived), Len(arrived))
    BY <1>3, <1>4 DEF RingOf
  <2>2. FramesOf(rb, n) \in [1 .. n -> Nat] /\ PlacesOf(rb, n) \in [1 .. n -> Nat]
    <3>1. n <= Len(rb) /\ n >= 3 /\ n \in Nat
      BY <1>1, <1>4
    <3> QED BY <1>2, <3>1, RingTypes
  <2>3. FramesOf(rb, n)[1] = rb[3].frame
    BY <1>4 DEF FramesOf
  <2>4. FirstSize(s, FramesOf(rb, n), SizesOf(arrived))
    BY <1>7, <2>3 DEF FirstSize, FrameSize
  <2>5. Len(arrived) \in Nat /\ SizesOf(arrived) \in [1 .. Len(arrived) -> Nat]
    BY <1>5, SizesType
  <2>6. s \in 1 .. n
    BY <2>1, <2>2, <2>4, <2>5, CompleteFirst
  <2> QED BY <2>6
<1>9. PICK n2 \in Nat : n2 = n - s
  BY <1>8
<1>10. rb' = SubSeq(rb, s + 1, n)
  <2>1. \A x \in Int : 4 + x = (3 + x) + 1
    OBVIOUS
  <2>2. Length[arrived[rb[3].frame]] \in Int
    BY SMTT(40), <1>5, <1>6, SizesType
  <2> QED BY <1>1, <1>4, <1>7, <2>1, <2>2
<1>11. /\ rb' \in Seq(RingByte) /\ Len(rb') = n2
       /\ \A k \in 1 .. n2 : rb'[k] = rb[k + s]
  <2>1. \A i \in s + 1 .. n : rb[i] \in RingByte
    BY <1>2, <1>4, ElementOfSeq
  <2>2. rb' = [i \in 1 .. n2 |-> rb[i + (s + 1) - 1]]
    <3>1. n - (s + 1) + 1 = n2
      BY <1>9
    <3> QED BY <1>10, <3>1
  <2>3. \A k \in 1 .. n2 : k + (s + 1) - 1 = k + s /\ k + s \in s + 1 .. n
    BY <1>9
  <2>4. \A k \in 1 .. n2 : rb'[k] = rb[k + s] /\ rb'[k] \in RingByte
    BY <2>1, <2>2, <2>3
  <2>5. rb' \in [1 .. n2 -> RingByte]
    BY <2>2, <2>4
  <2>6. rb' \in Seq(RingByte)
    BY <2>5
  <2>7. Len(rb') = n2
    BY <2>5, <2>6, LenProperties
  <2> QED BY <2>4, <2>6, <2>7
<1>12. PICK q \in Seq(RingByte) : q = rb'
  BY <1>11
<1>13. /\ RingOf(q, n2, arrived) /\ HeldOf(rb, n) = HeldOf(q, n2) + 1 /\ (n2 = 0 \/ n2 >= 3)
       /\ \A k \in 1 .. n2 : q[k].frame = FramesOf(q, n2)[k]
  <2>1. n <= Len(rb) /\ n >= 3 /\ n2 <= Len(q) /\ n2 = n - s
    <3>1. Len(q) = n2 /\ n = Len(rb) /\ n2 = n - s
      BY <1>4, <1>9, <1>11, <1>12
    <3>2. n >= 3
      BY <1>1, <3>1
    <3> QED BY <3>1, <3>2
  <2>2. MovedUp(q, n2, rb, s)
    BY <1>11, <1>12 DEF MovedUp
  <2>3. RingOf(rb, n, arrived)
    BY <1>3, <1>4
  <2>4. HoldsLess(q, n2, rb, n, arrived)
    BY <1>2, <1>5, <1>7, <2>1, <2>2, <2>3, RingLess
  <2> QED BY <2>4 DEF HoldsLess
<1>14. HeldOf(q, n2) \in Nat
  <2>1. IsFiniteSet(1 .. n2) /\ Firsts(PlacesOf(q, n2), n2) \subseteq 1 .. n2
    BY FS_Interval DEF Firsts
  <2>2. IsFiniteSet(Firsts(PlacesOf(q, n2), n2))
    BY <2>1, FS_Subset
  <2> QED BY <2>2, FS_CardinalityType DEF HeldOf
<1>15. taken \in Nat
  BY DEF Received, Counted
<1>16. taken' \in Nat /\ taken' + HeldOf(rb', Len(rb')) = taken + HeldOf(rb, Len(rb))
  <2>1. PICK h \in Nat : h = HeldOf(q, n2)
    BY <1>14
  <2>2. (taken + 1) + h = taken + (h + 1)
    BY <1>15
  <2>3. HeldOf(rb', Len(rb')) = h /\ HeldOf(rb, Len(rb)) = h + 1
    BY <1>4, <1>11, <1>12, <1>13, <2>1
  <2>4. taken' = taken + 1
    BY <1>1
  <2>5. taken + 1 \in Nat
    BY <1>15
  <2> QED BY <2>2, <2>3, <2>4, <2>5, Zenon
<1>17. Len(rb') < RingSize
  <2>1. n < RingSize /\ RingSize \in Nat
    BY <1>2, <1>4, CanAssumption
  <2> QED BY <1>9, <1>11, <2>1
<1> QED BY <1>1, <1>11, <1>12, <1>13, <1>16, <1>17, RingWritten

LEMMA HeldIsFramesHeld == ASSUME rb \in Seq(RingByte) PROVE FramesHeld = HeldOf(rb, Len(rb))
<1>1. DOMAIN rb = 1 .. Len(rb)
  BY LenProperties
<1>2. {k \in DOMAIN rb : rb[k].byte = 1} = Firsts(PlacesOf(rb, Len(rb)), Len(rb))
  BY <1>1 DEF Firsts, PlacesOf
<1> QED BY <1>2 DEF FramesHeld, HeldOf

LEMMA InitRingReceived == ASSUME IInv, Received, InitRing, ~Preempted PROVE Received'
<1>1. /\ isr = <<>> /\ rb' = <<>> /\ taken' = taken + FramesHeld
      /\ UNCHANGED <<page, mob, isr, arrived, torn, earlier, rx_comp, alloc_err, missed, unmatched>>
  BY DEF InitRing, SendStep, flags
<1>2. rb \in Seq(RingByte) /\ Len(rb) \in Nat /\ Len(rb) < RingSize
  BY <1>1, MainRing
<1>3. rb' \in Seq(RingByte) /\ Len(rb') = 0 /\ Len(rb') < RingSize
  BY <1>1, CanAssumption
<1>4. RingOf(rb', 0, arrived) /\ HeldOf(rb', 0) = 0
  BY EmptyRing
<1>5. FramesHeld \in Nat /\ FramesHeld = HeldOf(rb, Len(rb))
  <2>1. IsFiniteSet(1 .. Len(rb)) /\ Firsts(PlacesOf(rb, Len(rb)), Len(rb)) \subseteq 1 .. Len(rb)
    BY <1>2, FS_Interval DEF Firsts
  <2>2. IsFiniteSet(Firsts(PlacesOf(rb, Len(rb)), Len(rb)))
    BY <2>1, FS_Subset
  <2> QED BY <1>2, <2>2, FS_CardinalityType, HeldIsFramesHeld DEF HeldOf
<1>6. taken \in Nat
  BY DEF Received, Counted
<1>7. taken' \in Nat /\ taken' + 0 = taken + HeldOf(rb, Len(rb))
  BY <1>1, <1>5, <1>6
<1>8. \A k : k \notin 1 .. 0
  OBVIOUS
<1> QED BY <1>1, <1>3, <1>4, <1>7, <1>8, RingWritten

LEMMA ClearReceived == ASSUME IInv, Received, ClearSlots, ~Preempted PROVE Received'
<1>1. /\ isr = <<>> /\ torn' = (torn \/ rb # <<>>)
      /\ rb' = [k \in DOMAIN rb |-> IF k <= 2 THEN [rb[k] EXCEPT !.frame = 0] ELSE rb[k]]
      /\ UNCHANGED <<page, mob, isr, arrived, earlier, rx_comp, alloc_err, missed, unmatched, taken>>
  BY DEF ClearSlots, SendStep, counts
<1>2. Whole = Len(rb) /\ rb \in Seq(RingByte) /\ Len(rb) \in Nat /\ Len(rb) < RingSize
  BY <1>1, MainRing
<1>3. PICK n \in Nat : n = Len(rb) /\ (n = 0 \/ n >= 3)
  BY <1>2 DEF Received, RingKept
<1>4. DOMAIN rb = 1 .. n /\ \A k \in 1 .. n : rb[k] \in RingByte
  BY <1>2, <1>3, LenProperties, ElementOfSeq
<1> DEFINE new(k) == IF k <= 2 THEN [rb[k] EXCEPT !.frame = 0] ELSE rb[k]
<1>5. \A k \in 1 .. n : new(k) \in RingByte /\ new(k).byte = rb[k].byte /\ (k > 2 => new(k) = rb[k])
  <2> TAKE k \in 1 .. n
  <2>1. [rb[k] EXCEPT !.frame = 0] \in RingByte /\ [rb[k] EXCEPT !.frame = 0].byte = rb[k].byte
    <3>1. MaxFrames + MaxSends \in Nat
      BY CanAssumption
    <3>2. 0 \in 0 .. MaxFrames + MaxSends
      BY <3>1
    <3> QED BY <1>4, <3>2 DEF RingByte
  <2> QED BY <1>4, <2>1
<1>6. rb' = [k \in 1 .. n |-> new(k)]
  BY <1>1, <1>4
<1> HIDE DEF new
<1>7. rb' \in [1 .. n -> RingByte]
  BY <1>5, <1>6
<1>8. rb' \in Seq(RingByte)
  BY <1>7
<1>9. Len(rb') = n
  BY <1>7, <1>8, LenProperties
<1>10. \A k \in 1 .. n : rb'[k].byte = rb[k].byte /\ (k > 2 => rb'[k].frame = rb[k].frame)
  BY <1>5, <1>6
<1>11. FramesOf(rb', n) = FramesOf(rb, n) /\ PlacesOf(rb', n) = PlacesOf(rb, n)
  BY <1>3, <1>10, SameRing
<1>12. RingOf(rb', n, arrived) /\ HeldOf(rb', n) = HeldOf(rb, n)
  BY <1>2, <1>3, <1>11 DEF RingOf, HeldOf, Received, RingKept
<1>13. ~torn' => n = 0
  BY <1>1, <1>3
<1>14. ~torn' => \A k \in 1 .. Len(rb') : rb'[k].frame = FramesOf(rb', Len(rb'))[k]
  <2>1. \A k : k \notin 1 .. 0
    OBVIOUS
  <2> QED BY <1>9, <1>13, <2>1
<1>15. taken' \in Nat /\ taken' + HeldOf(rb', Len(rb')) = taken + HeldOf(rb, Len(rb))
  BY <1>1, <1>3, <1>9, <1>12 DEF Received, Counted
<1>16. Len(rb') < RingSize /\ (Len(rb') = 0 \/ Len(rb') >= 3) /\ RingOf(rb', Len(rb'), arrived)
  BY <1>2, <1>3, <1>9, <1>12
<1> QED BY <1>1, <1>8, <1>14, <1>15, <1>16, RingWritten

LEMMA InitReceived == Init => Received
<1> SUFFICES ASSUME Init PROVE Received
  OBVIOUS
<1>1. page \in MObs
  BY HighestIn DEF Init
<1>2. isr = <<>> /\ \A m \in MObs : mob[m].status = "none"
  BY DEF Init, ResetMOb
<1>3. ~Active /\ ~Coming /\ ~Pushing
  BY <1>2 DEF Active, Coming, Pushing, Handled
<1>4. rb = <<>> /\ Len(rb) = 0 /\ rb \in Seq(RingByte)
  BY DEF Init
<1>5. Part = 0 /\ Whole = 0
  BY <1>3, <1>4 DEF Part, Whole
<1>6. \A k : k \notin 1 .. 0
  OBVIOUS
<1>7. Len(rb) < RingSize
  BY <1>4, CanAssumption
<1>8. RingKept
  BY <1>3, <1>4, <1>5, <1>6, <1>7, EmptyRing DEF RingKept
<1>9. Here
  BY <1>3 DEF Here, Coming
<1>10. Counted
  <2>1. HeldOf(rb, Whole) = 0
    BY <1>5, EmptyRing
  <2>2. /\ Len(arrived) = 0 /\ rx_comp = 0 /\ alloc_err = 0 /\ earlier = 0 /\ missed = 0 /\ unmatched = 0 /\ taken = 0
    BY DEF Init
  <2> QED BY <1>3, <2>1, <2>2 DEF Counted
<1> QED BY <1>1, <1>8, <1>9, <1>10 DEF Received

LEMMA SameReceived ==
  ASSUME Received, UNCHANGED <<page, mob, isr, rb, arrived, torn, earlier, rx_comp, alloc_err, missed, unmatched, taken>>
  PROVE  Received'
BY DEF Received, Here, RingKept, Counted, RingOf, FramesOf, PlacesOf, SizesOf, HeldOf, Coming, Handled,
       Active, Pushing, Part, Whole, Size

LEMMA NextReceived == ASSUME FastBus = FALSE, IInv, Received, [Next]_vars PROVE Received'
<1>1. CASE FrameArrives \/ FrameSent
  BY <1>1, ArrivesReceived, SentReceived
<1>2. CASE Interrupt
  BY <1>2, InterruptReceived
<1>3. CASE Handler
  BY <1>3, ServeReceived, ReturnReceived, IgnoreReceived, NoRoomReceived, StartReceived, PushReceived,
     EndReceived, TxReceived, MixedReceived DEF Handler
<1>4. CASE Main
  BY <1>4, FindReceived, LoadReceived, StoreReceived, SelectReceived, IdReceived, DataReceived,
     EnableReceived, ReadReceived, InitRingReceived, ClearReceived, ResetReceived DEF Main
<1>5. CASE UNCHANGED vars
  BY <1>5, SameReceived DEF vars, driverVars, cpuVars, historyVars, counts, flags
<1> QED BY <1>1, <1>2, <1>3, <1>4, <1>5 DEF Next

\* The bytes of the ring while no handler runs.
LEMMA ReceivedRead == ASSUME IInv, Received PROVE WholeFrames
<1> SUFFICES ASSUME ~torn, isr = <<>>, rb # <<>>
             PROVE  /\ rb[1].byte = 1
                    /\ rb[Len(rb)].byte = 3 + Length[arrived[rb[Len(rb)].frame]]
                    /\ \A k \in 1 .. Len(rb) - 1 :
                         \/ rb[k + 1] = [rb[k] EXCEPT !.byte = @ + 1]
                         \/ /\ rb[k].byte = 3 + Length[arrived[rb[k].frame]]
                            /\ rb[k + 1].byte = 1
                            /\ rb[k + 1].frame > rb[k].frame
  BY Zenon DEF WholeFrames
<1>1. Whole = Len(rb) /\ rb \in Seq(RingByte) /\ Len(rb) \in Nat /\ Len(rb) # 0
  <2>1. ~Pushing /\ Part = 0
    BY DEF Active, Pushing, Part
  <2>2. rb \in Seq(RingByte)
    BY DEF Received, RingKept
  <2>3. Len(rb) \in Nat /\ Len(rb) # 0
    BY <2>2, EmptySeq
  <2> QED BY <2>1, <2>2, <2>3 DEF Whole
<1>2. PICK n \in Nat \ {0} : n = Len(rb) /\ n >= 3
  BY <1>1 DEF Received, RingKept
<1> DEFINE F == FramesOf(rb, n)
           B == PlacesOf(rb, n)
           S == SizesOf(arrived)
           N == Len(arrived)
<1>3. /\ F \in [1 .. n -> Nat] /\ B \in [1 .. n -> Nat]
      /\ \A k \in 1 .. n : B[k] = rb[k].byte /\ rb[k] \in RingByte
  <2>1. n <= Len(rb) /\ n \in Nat
    BY <1>2
  <2> QED BY <1>1, <1>2, <2>1, RingTypes
<1>4. N \in Nat /\ S \in [1 .. N -> Nat] /\ \A f \in 1 .. N : S[f] = 3 + Length[arrived[f]]
  BY SizesType DEF IInv, Types, Logs
<1>5. Complete(F, B, n, S, N)
  BY <1>1, <1>2 DEF Received, RingKept, RingOf
<1>6. \A k \in 1 .. n : F[k] = rb[k].frame
  BY <1>1, <1>2 DEF Received, RingKept
<1>7. \A k \in 1 .. n : F[k] \in 1 .. N
  BY <1>5 DEF Complete
<1> HIDE DEF F, B, S, N
<1>8. B[n] = S[F[n]] /\ B[1] = 1
  <2>1. Ends(F, B, S, n)
    BY <1>3, <1>4, <1>5, LastByte
  <2> QED BY <2>1 DEF Ends
<1>9. 1 \in 1 .. n /\ n \in 1 .. n
  OBVIOUS
<1>10. rb[1].byte = 1
  BY <1>3, <1>8, <1>9
<1>11. ASSUME NEW k \in 1 .. n PROVE S[F[k]] = 3 + Length[arrived[rb[k].frame]]
  BY <1>4, <1>6, <1>7
<1>12. rb[n].byte = 3 + Length[arrived[rb[n].frame]]
  BY <1>3, <1>8, <1>9, <1>11
<1>13. ASSUME NEW k \in 1 .. n - 1
       PROVE  \/ rb[k + 1] = [rb[k] EXCEPT !.byte = @ + 1]
              \/ /\ rb[k].byte = 3 + Length[arrived[rb[k].frame]]
                 /\ rb[k + 1].byte = 1
                 /\ rb[k + 1].frame > rb[k].frame
  <2>1. k \in 1 .. n /\ k + 1 \in 1 .. n
    OBVIOUS
  <2>2. PICK m \in 1 .. n : m = k + 1
    BY <2>1
  <2>3. \/ F[m] = F[k] /\ B[m] = B[k] + 1
        \/ B[k] = S[F[k]] /\ B[m] = 1 /\ F[m] > F[k]
    <3>1. Follows(F, B, S, k, m)
      BY <1>3, <1>4, <1>5, <2>1, <2>2, Adjacent
    <3> QED BY <3>1 DEF Follows
  <2>4. CASE F[m] = F[k] /\ B[m] = B[k] + 1
    <3>1. rb[m].frame = rb[k].frame /\ rb[m].byte = rb[k].byte + 1
      BY <1>3, <1>6, <2>1, <2>4
    <3>2. rb[m] \in RingByte /\ rb[k] \in RingByte
      BY <1>3, <2>1
    <3>3. rb[m] = [rb[k] EXCEPT !.byte = @ + 1]
      BY <3>1, <3>2 DEF RingByte
    <3> QED BY <2>2, <3>3
  <2>5. CASE B[k] = S[F[k]] /\ B[m] = 1 /\ F[m] > F[k]
    <3>1. rb[k].byte = 3 + Length[arrived[rb[k].frame]] /\ rb[m].byte = 1 /\ rb[m].frame > rb[k].frame
      BY <1>3, <1>6, <1>11, <2>1, <2>5
    <3> QED BY <2>2, <3>1
  <2> QED BY <2>3, <2>4, <2>5
<1> QED BY <1>2, <1>10, <1>12, <1>13

LEMMA ReceivedCounts == ASSUME IInv, Received PROVE EveryFrameCounted
<1> SUFFICES ASSUME AtRest
             PROVE  /\ Len(arrived) = earlier + rx_comp + alloc_err + missed + unmatched
                    /\ earlier + rx_comp = taken + FramesHeld
  BY DEF EveryFrameCounted
<1>1. isr = <<>> /\ ~Active /\ \A m \in MObs : mob[m].status = "none"
  BY DEF AtRest, Pending, Active
<1>2. ~Coming /\ Part = 0
  BY <1>1 DEF Coming, Handled, Pushing, Part
<1>3. rb \in Seq(RingByte) /\ Len(rb) \in Nat
  BY LenProperties DEF Received, RingKept
<1>4. Whole = Len(rb)
  BY <1>2, <1>3 DEF Whole
<1>5. FramesHeld = HeldOf(rb, Whole)
  BY <1>3, <1>4, HeldIsFramesHeld
<1>6. /\ rx_comp \in Nat /\ alloc_err \in Nat /\ earlier \in Nat /\ missed \in Nat /\ unmatched \in Nat
      /\ Len(arrived) = earlier + rx_comp + alloc_err + missed + unmatched + (IF Coming THEN 1 ELSE 0)
  BY DEF Received, Counted
<1>7. Len(arrived) = earlier + rx_comp + alloc_err + missed + unmatched + 0
  BY <1>2, <1>6
<1>8. earlier + rx_comp = taken + FramesHeld
  BY <1>5 DEF Received, Counted
<1> QED BY <1>6, <1>7, <1>8

LEMMA ReceivedTypes == ASSUME IInv, Received, torn \in BOOLEAN PROVE TypeOK
<1>1. SomeIds = Id
  BY CanAssumption DEF SomeIds, SomeId
<1>2. mob \in [MObs -> [mode : {"off", "rx", "tx"}, status : {"none", "rx", "tx", "mixed"},
                        id : Id, len : 0 .. 15, data : 0 .. MaxFrames + MaxSends]]
  <2>1. Status = {"none", "rx", "tx", "mixed"}
    BY DEF Status, Bits
  <2> QED BY <1>1, <2>1 DEF IInv, Types, MObRec
<1>3. \A k \in DOMAIN isr : isr[k].at \in {"loop", "status", "push"}
  <2>1. isr \in Seq(Activation) /\ DOMAIN isr = 1 .. Len(isr)
    BY LenProperties DEF IInv, Types
  <2>2. \A k \in DOMAIN isr : isr[k] \in Activation
    BY <2>1, ElementOfSeq
  <2> QED BY <2>2 DEF Activation
<1>4. send.at \in {"idle", "load", "store", "page", "id", "data", "enable", "clear", "reset"}
  BY DEF IInv, Types, Call, Places, Holding
<1> QED BY <1>2, <1>3, <1>4 DEF TypeOK, IInv, Types, Received, RingKept, RingByte, Counted

LEMMA TornIsFlag == ASSUME torn \in BOOLEAN, [Next]_vars PROVE torn' \in BOOLEAN
<1>1. CASE ClearSlots
  BY <1>1 DEF ClearSlots
<1>2. CASE Main /\ ~ClearSlots
  BY <1>2 DEF Main, FindMOb, LoadJobs, StoreJobs, SelectMOb, WriteId, WriteData, EnableTx, ReadMessage,
     InitRing, ResetController, historyVars, flags
<1>3. CASE Handler
  BY <1>3 DEF Handler, Serve, ReturnFromInterrupt, Ignore, NoRoom, StartFrame, PushByte, EndFrame,
     TxCompleted, MixedStatus, historyVars, flags
<1>4. CASE FrameArrives \/ FrameSent \/ Interrupt
  BY <1>4 DEF FrameArrives, FrameSent, Interrupt, flags
<1>5. CASE UNCHANGED vars
  BY <1>5 DEF vars, historyVars, flags
<1> QED BY <1>1, <1>2, <1>3, <1>4, <1>5 DEF Next

RxInv == IInv /\ Received /\ torn \in BOOLEAN

\* On such a bus, what is being received, the ring and the counters agree at every
\* step of the handler; a frame that got through at a second attempt is nowhere in
\* them (can.c:256-279, 349-397, 418-456).
THEOREM ReceiverInvariance == ASSUME FastBus = FALSE PROVE Spec => []RxInv
<1>1. Init => RxInv
  BY InitIInv, InitReceived DEF RxInv, Init
<1>2. RxInv /\ [Next]_vars => RxInv'
  BY NextKeeps, NextReceived, TornIsFlag DEF RxInv
<1> QED BY <1>1, <1>2, PTL DEF Spec

\* The driver's registers, ring and counters stay in their ranges; the ring is never
\* written beyond its size (can.c:356-397, ringbuffer.h:118-127).
THEOREM TypeCorrect == ASSUME FastBus = FALSE PROVE Spec => []TypeOK
<1>1. RxInv => TypeOK
  BY ReceivedTypes DEF RxInv
<1> QED BY <1>1, ReceiverInvariance, PTL

\* Whenever the main program can look, the ring is made of whole frames in the order of
\* their arrival, unless can_init wrote into one; and when the handler has nothing left
\* to do, every frame that came is one that a counter of the driver tells of, or one
\* that found nobody listening or wanting it, or one that got through at a second
\* attempt and is lost in silence, and never two of these (can.c:256-279, 356-397,
\* 418-456).
THEOREM FramesReceivedWhole == ASSUME FastBus = FALSE PROVE Spec => []ReceivedWhole
<1>1. RxInv => ReceivedWhole
  BY ReceivedRead, ReceivedCounts DEF RxInv, ReceivedWhole
<1> QED BY <1>1, ReceiverInvariance, PTL

-----------------------------------------------------------------------------
\* What is sent, and what waits in a MOb to be sent, is of a call of can_broadcast each.
Busy == send.at \in Holding
SentFrame == [id : Id, data : Nat]
Of(n, id, data) == asked[n] = id /\ (Length[id] > 0 => data = n)
OneCallEach(by, of) ==
  /\ \A j, k \in 1 .. Len(sent) : by[j] = by[k] => j = k
  /\ \A l, m \in Sending : of[l] = of[m] => l = m
  /\ \A j \in 1 .. Len(sent), m \in Sending : by[j] # of[m]
NoneYet(by, of) ==
  Busy => /\ \A j \in 1 .. Len(sent) : by[j] # send.number
          /\ \A m \in Sending : of[m] # send.number
TrueToCall(by, of) ==
  /\ \A j \in 1 .. Len(sent) : Of(by[j], sent[j].id, sent[j].data)
  /\ \A m \in Sending : Of(of[m], mob[m].id, mob[m].data)
Calls(by, of) ==
  /\ by \in [1 .. Len(sent) -> 1 .. Len(asked)]
  /\ of \in [Sending -> 1 .. Len(asked)]
  /\ OneCallEach(by, of) /\ NoneYet(by, of) /\ TrueToCall(by, of)

\* What can_broadcast has written of the frame it is at.
Written ==
  /\ send.at \in {"data", "enable"} => mob[send.mob].id = asked[send.number]
  /\ send.at = "enable" => Of(send.number, mob[send.mob].id, mob[send.mob].data)

Sent == /\ sent \in Seq(SentFrame)
        /\ Calm => Written /\ \E by, of : Calls(by, of)

\* Steps that leave alone what is sent and the MObs that send.
LEMMA SentStays ==
  ASSUME Sent, UNCHANGED <<asked, sent>>, Calm' => Calm,
         Calm' => Sending' = Sending,
         Calm' => \A m \in Sending : mob'[m].id = mob[m].id /\ mob'[m].data = mob[m].data,
         Calm' /\ Busy' => Busy /\ send'.number = send.number,
         Calm' => Written'
  PROVE  Sent'
<1>1. sent' \in Seq(SentFrame)
  BY DEF Sent
<1>2. ASSUME Calm' PROVE \E by, of : Calls(by, of)'
  <2>1. PICK by, of : Calls(by, of)
    BY <1>2 DEF Sent
  <2>2. OneCallEach(by, of)' /\ NoneYet(by, of)'
    BY <1>2, <2>1 DEF Calls, OneCallEach, NoneYet
  <2>3. TrueToCall(by, of)'
    BY <1>2, <2>1 DEF Calls, TrueToCall, Of
  <2>4. Calls(by, of)'
    BY <1>2, <2>1, <2>2, <2>3 DEF Calls
  <2> QED BY <2>4
<1> QED BY <1>1, <1>2 DEF Sent

LEMMA HandlerSent ==
  ASSUME IInv, Sent, UNCHANGED <<asked, sent, send>>, Calm' => Calm,
         Calm' => Sending' = Sending,
         Calm' => \A m \in MObs : mob[m].mode # "rx" => mob'[m].id = mob[m].id /\ mob'[m].data = mob[m].data
  PROVE  Sent'
<1>1. \A m \in Sending : m \in MObs /\ mob[m].mode # "rx"
  BY DEF Sending
<1>2. ASSUME Calm' PROVE Written'
  <2>1. CASE send.at \in {"data", "enable"}
    <3>1. send.mob \in MObs /\ mob[send.mob].mode = "off"
      BY <1>2, <2>1 DEF IInv, Jobs, CallKeepsMOb, MObs
    <3>2. mob'[send.mob].id = mob[send.mob].id /\ mob'[send.mob].data = mob[send.mob].data
      BY <1>2, <3>1
    <3>3. Written
      BY <1>2 DEF Sent
    <3> QED BY <2>1, <3>2, <3>3 DEF Written, Of
  <2>2. CASE send.at \notin {"data", "enable"}
    BY <2>2 DEF Written
  <2> QED BY <2>1, <2>2
<1>3. Calm' /\ Busy' => Busy /\ send'.number = send.number
  BY DEF Busy
<1> QED BY <1>1, <1>2, <1>3, SentStays

\* Steps that write no MOb.
LEMMA NoMObSent ==
  ASSUME IInv, Sent, UNCHANGED <<mob, asked, sent, send>>, Calm' => Calm
  PROVE  Sent'
BY HandlerSent DEF Sending

LEMMA MainSent ==
  ASSUME Sent, UNCHANGED <<mob, asked, sent, disturbed>>, send'.at \notin {"data", "enable"},
         Busy' => Busy /\ send'.number = send.number
  PROVE  Sent'
<1>1. Sending' = Sending /\ (Calm' => Calm) /\ Written'
  BY DEF Sending, Calm, Written
<1> QED BY <1>1, SentStays

LEMMA ArrivesSent == ASSUME FastBus = FALSE, IInv, Sent, FrameArrives PROVE Sent'
<1>1. PICK id \in Id, again \in BOOLEAN :
       \/ UNCHANGED mob
       \/ /\ Listening # {}
          /\ mob' = [mob EXCEPT ![Lowest(Listening)] =
                       [mode |-> "off", status |-> Outcome("rx", again), id |-> id,
                        len |-> Length[id], data |-> Len(arrived')]]
  BY Zenon DEF FrameArrives
<1>2. UNCHANGED <<asked, sent, send>> /\ (Calm' => Calm)
  BY DEF FrameArrives, cpuVars, flags, Calm
<1>3. CASE UNCHANGED mob
  BY <1>2, <1>3, NoMObSent
<1>4. CASE /\ Listening # {}
           /\ mob' = [mob EXCEPT ![Lowest(Listening)] =
                        [mode |-> "off", status |-> Outcome("rx", again), id |-> id,
                         len |-> Length[id], data |-> Len(arrived')]]
  <2>1. Listening \in SUBSET Nat
    BY CanAssumption DEF Listening, MObs
  <2>2. PICK l \in Listening : l = Lowest(Listening)
    BY <1>4, <2>1, LowestIn
  <2>3. l \in MObs /\ mob[l].mode = "rx"
    BY DEF Listening
  <2>4. mob \in [MObs -> MObRec]
    BY DEF IInv, Types
  <2> DEFINE new == [mode |-> "off", status |-> Outcome("rx", again), id |-> id, len |-> Length[id], data |-> Len(arrived')]
  <2>5. mob' = [mob EXCEPT ![l] = new]
    BY <1>4, <2>2
  <2>6. new.mode = "off"
    OBVIOUS
  <2> HIDE DEF new
  <2>7. /\ \A m \in MObs : m # l => mob'[m] = mob[m]
        /\ mob'[l].mode = "off"
    BY <2>3, <2>4, <2>5, <2>6
  <2>8. Sending' = Sending
    BY <2>3, <2>7 DEF Sending
  <2>9. \A m \in MObs : mob[m].mode # "rx" => mob'[m].id = mob[m].id /\ mob'[m].data = mob[m].data
    BY <2>3, <2>7
  <2> QED BY <1>2, <2>8, <2>9, HandlerSent
<1> QED BY <1>1, <1>3, <1>4

\* The MOb of the received frame listens again; it was off.
LEMMA ListenSent ==
  ASSUME IInv, Sent, Active, isr[1].status = "rx", Listen, UNCHANGED <<asked, sent, send, disturbed>>
  PROVE  Sent'
<1>1. page \in MObs /\ page = isr[1].mob
  BY DEF IInv, One
<1>2. mob \in [MObs -> MObRec] /\ mob' = [mob EXCEPT ![page].mode = "rx"]
  BY DEF IInv, Types, Listen
<1>3. \A m \in MObs : /\ mob'[m].id = mob[m].id /\ mob'[m].data = mob[m].data
                      /\ m # page => mob'[m].mode = mob[m].mode
                      /\ mob'[page].mode = "rx"
  BY <1>1, <1>2 DEF MObRec
<1>4. ASSUME Calm PROVE Sending' = Sending
  <2>1. Handled(page, "rx")
    BY <1>1 DEF Handled
  <2>2. mob[page].mode = "off"
    BY <1>1, <1>4, <2>1 DEF IInv, Jobs, ServedAreOff
  <2> QED BY <1>1, <1>3, <2>2 DEF Sending
<1>5. Calm' => Calm
  BY DEF Calm
<1> QED BY <1>3, <1>4, <1>5, HandlerSent

LEMMA ServeSent == ASSUME IInv, Sent, Serve PROVE Sent'
<1>1. /\ Pending # {} /\ mob' = [mob EXCEPT ![Lowest(Pending)].status = "none"]
      /\ UNCHANGED <<asked, sent, send, disturbed>>
  BY DEF Serve, historyVars, flags
<1>2. mob \in [MObs -> MObRec]
  BY DEF IInv, Types
<1>3. \A m \in MObs : mob'[m].mode = mob[m].mode /\ mob'[m].id = mob[m].id /\ mob'[m].data = mob[m].data
  BY <1>1, <1>2 DEF MObRec
<1>4. Sending' = Sending /\ (Calm' => Calm)
  BY <1>1, <1>3 DEF Sending, Calm
<1> QED BY <1>1, <1>3, <1>4, HandlerSent

LEMMA HandlerKeepsSent == ASSUME IInv, Sent, Handler PROVE Sent'
<1>1. CASE Serve
  BY <1>1, ServeSent
<1>2. CASE Ignore \/ NoRoom
  <2>1. Active /\ isr[1].status = "rx"
    BY <1>2, BodyIsActive DEF Ignore, NoRoom
  <2> QED BY <1>2, <2>1, ListenSent DEF Ignore, NoRoom, historyVars, flags
<1>3. CASE EndFrame
  <2>1. Active /\ isr[1].status = "rx"
    BY <1>3, PushIsActive DEF EndFrame
  <2> QED BY <1>3, <2>1, ListenSent DEF EndFrame, historyVars, flags
<1>4. CASE ReturnFromInterrupt \/ StartFrame \/ PushByte \/ TxCompleted \/ MixedStatus
  BY <1>4, NoMObSent DEF ReturnFromInterrupt, StartFrame, PushByte, TxCompleted, MixedStatus, driverVars,
     historyVars, flags, Calm
<1> QED BY <1>1, <1>2, <1>3, <1>4 DEF Handler

\* Any call that is found a MOb is a new one.
LEMMA FindSent == ASSUME IInv, Sent, FindMOb PROVE Sent'
<1>1. PICK id \in Id :
        /\ asked' = Append(asked, id)
        /\ \/ UNCHANGED send
           \/ \E m \in MObs \ on_job :
                send' = [at |-> "load", mob |-> m, number |-> Len(asked'), job |-> {}]
  BY Zenon DEF FindMOb
<1>2. send.at = "idle" /\ UNCHANGED <<mob, sent, disturbed>>
  BY DEF FindMOb, driverVars, flags
<1>3. asked \in Seq(Id) /\ Len(asked) \in Nat
  BY LenProperties DEF IInv, Types, Logs
<1>4. PICK c \in Nat : c = Len(asked)
  BY <1>3
<1>5. Len(asked') = c + 1 /\ \A n \in 1 .. c : asked'[n] = asked[n]
  BY <1>1, <1>3, <1>4, AppendProperties
<1>6. send'.at \in {"idle", "load"} /\ (send'.at = "load" => send'.number = c + 1)
  BY <1>1, <1>2, <1>5
<1>7. sent' \in Seq(SentFrame) /\ Written'
  BY <1>2, <1>6 DEF Sent, Written
<1>8. ASSUME Calm PROVE \E by, of : Calls(by, of)'
  <2>1. PICK by, of : Calls(by, of)
    BY <1>8 DEF Sent
  <2>2. by \in [1 .. Len(sent) -> 1 .. c] /\ of \in [Sending -> 1 .. c]
    BY <1>4, <2>1 DEF Calls
  <2>3. Sending' = Sending
    BY <1>2 DEF Sending
  <2>4. \A n \in 1 .. c : n \in 1 .. c + 1 /\ n # c + 1
    OBVIOUS
  <2>5. by \in [1 .. Len(sent') -> 1 .. Len(asked')] /\ of \in [Sending' -> 1 .. Len(asked')]
    BY <1>2, <1>5, <2>2, <2>3, <2>4
  <2>6. OneCallEach(by, of)'
    BY <1>2, <2>1, <2>3 DEF Calls, OneCallEach
  <2>7. Busy' => send'.number = c + 1
    BY <1>6 DEF Busy, Holding
  <2>8. NoneYet(by, of)'
    BY <1>2, <2>2, <2>3, <2>4, <2>7 DEF NoneYet
  <2>9. TrueToCall(by, of)'
    BY <1>2, <1>5, <2>1, <2>2, <2>3 DEF Calls, TrueToCall, Of
  <2>10. Calls(by, of)'
    BY <2>5, <2>6, <2>8, <2>9 DEF Calls
  <2> QED BY <2>10
<1> QED BY <1>2, <1>7, <1>8 DEF Sent, Calm

\* The MOb that the main program writes is its own, and does not send yet.
LEMMA OwnMOb ==
  ASSUME IInv, Calm, send.at \in {"id", "data", "enable"}
  PROVE  page = send.mob /\ page \in MObs /\ mob[page].mode = "off" /\ page \notin Sending
BY DEF IInv, Jobs, CallKeepsMOb, MObs, Sending

LEMMA IdSent == ASSUME IInv, Sent, WriteId PROVE Sent'
<1>1. /\ mob' = [mob EXCEPT ![page].id = asked[send.number]]
      /\ send.at = "id" /\ send' = [send EXCEPT !.at = "data"]
      /\ UNCHANGED <<asked, sent, disturbed>>
  BY DEF WriteId, SendStep, historyVars, flags
<1>2. mob \in [MObs -> MObRec] /\ send \in Call
  BY DEF IInv, Types
<1>3. send'.at = "data" /\ send'.mob = send.mob /\ send'.number = send.number
  BY <1>1, <1>2 DEF Call
<1>4. ASSUME Calm
      PROVE  /\ Sending' = Sending /\ Written'
             /\ \A m \in Sending : mob'[m].id = mob[m].id /\ mob'[m].data = mob[m].data
  <2>1. page = send.mob /\ page \in MObs /\ mob[page].mode = "off" /\ page \notin Sending
    BY <1>1, <1>4, OwnMOb
  <2>2. \A m \in MObs : mob'[m].mode = mob[m].mode /\ (m # page => mob'[m] = mob[m])
    BY <1>1, <1>2, <2>1 DEF MObRec
  <2>3. mob'[page].id = asked[send.number]
    BY <1>1, <1>2, <2>1 DEF MObRec
  <2>4. Sending' = Sending /\ \A m \in Sending : m \in MObs
    BY <2>2 DEF Sending
  <2> QED BY <1>1, <1>3, <2>1, <2>2, <2>3, <2>4 DEF Written
<1>5. Busy /\ (Calm' <=> Calm)
  BY <1>1 DEF Busy, Holding, Calm
<1> QED BY <1>1, <1>3, <1>4, <1>5, SentStays

LEMMA DataSent == ASSUME IInv, Sent, WriteData PROVE Sent'
<1> DEFINE len == Length[asked[send.number]]
           new == [mob[page] EXCEPT !.len = Or(@, len), !.data = IF len > 0 THEN send.number ELSE @]
<1>1. /\ mob' = [mob EXCEPT ![page].len = Or(@, len),
                            ![page].data = IF len > 0 THEN send.number ELSE @]
      /\ send.at = "data" /\ send' = [send EXCEPT !.at = "enable"]
      /\ UNCHANGED <<asked, sent, disturbed>>
  BY DEF WriteData, SendStep, historyVars, flags
<1>2. mob \in [MObs -> MObRec] /\ send \in Call
  BY DEF IInv, Types
<1>3. send'.at = "enable" /\ send'.mob = send.mob /\ send'.number = send.number
  BY <1>1, <1>2 DEF Call
<1>4. ASSUME Calm
      PROVE  /\ Sending' = Sending /\ Written'
             /\ \A m \in Sending : mob'[m].id = mob[m].id /\ mob'[m].data = mob[m].data
  <2>1. page = send.mob /\ page \in MObs /\ mob[page].mode = "off" /\ page \notin Sending
    BY <1>1, <1>4, OwnMOb
  <2>2. mob' = [mob EXCEPT ![page] = new]
    BY <1>1, <1>2, <2>1
  <2>3. new.mode = mob[page].mode /\ new.id = mob[page].id /\ (len > 0 => new.data = send.number)
    BY <1>2, <2>1 DEF MObRec
  <2> HIDE DEF new
  <2>4. mob'[page] = new /\ \A m \in MObs : m # page => mob'[m] = mob[m]
    BY <1>2, <2>1, <2>2
  <2>5. Sending' = Sending /\ \A m \in Sending : m \in MObs
    BY <2>3, <2>4 DEF Sending
  <2>6. mob[page].id = asked[send.number]
    BY <1>1, <1>4, <2>1 DEF Sent, Written
  <2>7. Written'
    BY <1>1, <1>3, <2>1, <2>3, <2>4, <2>6 DEF Written, Of
  <2> QED BY <2>1, <2>4, <2>5, <2>7
<1>5. Busy /\ (Calm' <=> Calm)
  BY <1>1 DEF Busy, Holding, Calm
<1> QED BY <1>1, <1>3, <1>4, <1>5, SentStays

\* One more MOb sends, with the frame of the call that is now over.
LEMMA EnableSent == ASSUME IInv, Sent, EnableTx PROVE Sent'
<1>1. /\ send.at = "enable" /\ send' = Idle
      /\ mob' = [mob EXCEPT ![page].mode = "tx"]
      /\ UNCHANGED <<asked, sent, disturbed>>
  BY DEF EnableTx, historyVars, flags
<1>2. mob \in [MObs -> MObRec] /\ send.number \in 1 .. Len(asked)
  BY <1>1 DEF IInv, Types, Holding
<1>3. send'.at = "idle" /\ ~Busy' /\ Busy
  BY <1>1 DEF Idle, Busy, Holding
<1>4. sent' \in Seq(SentFrame) /\ Written'
  BY <1>1, <1>3 DEF Sent, Written
<1>5. ASSUME Calm PROVE \E by, of : Calls(by, of)'
  <2>1. page = send.mob /\ page \in MObs /\ mob[page].mode = "off" /\ page \notin Sending
    BY <1>1, <1>5, OwnMOb
  <2>2. PICK by, of : Calls(by, of)
    BY <1>5 DEF Sent
  <2>3. \A m \in MObs : /\ mob'[m].id = mob[m].id /\ mob'[m].data = mob[m].data
                        /\ m # page => mob'[m].mode = mob[m].mode
                        /\ mob'[page].mode = "tx"
    BY <1>1, <1>2, <2>1 DEF MObRec
  <2>4. Sending' = Sending \cup {page} /\ Sending \subseteq MObs
    BY <2>1, <2>3 DEF Sending
  <2>5. Of(send.number, mob[page].id, mob[page].data)
    BY <1>1, <1>5, <2>1 DEF Sent, Written
  <2>6. PICK l \in MObs : l = page
    BY <2>1
  <2>7. PICK n \in 1 .. Len(asked) : n = send.number
    BY <1>2
  <2>8. PICK on : on = [m \in Sending \cup {l} |-> IF m = l THEN n ELSE of[m]]
    OBVIOUS
  <2>9. of \in [Sending -> 1 .. Len(asked)] /\ by \in [1 .. Len(sent) -> 1 .. Len(asked)]
    BY <2>2 DEF Calls
  <2>10. /\ on \in [Sending \cup {l} -> 1 .. Len(asked)]
         /\ on[l] = n /\ \A m \in Sending : on[m] = of[m] /\ m # l
    BY <2>1, <2>6, <2>8, <2>9
  <2>11. /\ \A j \in 1 .. Len(sent) : by[j] # n
         /\ \A m \in Sending : of[m] # n
    BY <1>3, <2>2, <2>7 DEF Calls, NoneYet
  <2>12. OneCallEach(by, on)'
    BY <1>1, <2>2, <2>4, <2>6, <2>10, <2>11 DEF Calls, OneCallEach
  <2>13. NoneYet(by, on)'
    BY <1>3 DEF NoneYet
  <2>14. TrueToCall(by, on)'
    <3>1. \A j \in 1 .. Len(sent) : Of(by[j], sent[j].id, sent[j].data)'
      BY <1>1, <2>2 DEF Calls, TrueToCall, Of
    <3>2. \A m \in Sending : Of(on[m], mob[m].id, mob[m].data)'
      BY <1>1, <2>2, <2>3, <2>4, <2>10 DEF Calls, TrueToCall, Of
    <3>3. Of(on[l], mob[l].id, mob[l].data)'
      BY <1>1, <2>3, <2>5, <2>6, <2>7, <2>10 DEF Of
    <3> QED BY <1>1, <2>4, <2>6, <3>1, <3>2, <3>3 DEF TrueToCall
  <2>15. Calls(by, on)'
    BY <1>1, <2>4, <2>6, <2>9, <2>10, <2>12, <2>13, <2>14 DEF Calls
  <2> QED BY <2>15
<1> QED BY <1>1, <1>4, <1>5 DEF Sent, Calm

\* can_init gives up what waits to be sent.
LEMMA ResetSent == ASSUME IInv, Sent, ResetController PROVE Sent'
<1>1. /\ send' = Idle /\ mob' = [m \in MObs |-> ResetMOb(m, mob[m].data)]
      /\ UNCHANGED <<asked, sent, disturbed>>
  BY DEF ResetController, flags
<1>2. ~Busy' /\ Written' /\ sent' \in Seq(SentFrame)
  BY <1>1 DEF Idle, Busy, Holding, Written, Sent
<1>3. Sending' = {}
  BY <1>1 DEF Sending, ResetMOb
<1>4. ASSUME Calm PROVE \E by, of : Calls(by, of)'
  <2>1. PICK by, of : Calls(by, of)
    BY <1>4 DEF Sent
  <2>2. PICK none : none = [m \in {} |-> 1]
    OBVIOUS
  <2>3. none \in [{} -> 1 .. Len(asked)]
    BY <2>2
  <2>4. Calls(by, none)'
    BY <1>1, <1>2, <1>3, <2>1, <2>3 DEF Calls, OneCallEach, NoneYet, TrueToCall, Of
  <2> QED BY <2>4
<1> QED BY <1>1, <1>2, <1>4 DEF Sent, Calm

LEMMA MainKeepsSent == ASSUME IInv, Sent, Main PROVE Sent'
<1>1. send \in Call
  BY DEF IInv, Types
<1>2. CASE LoadJobs \/ StoreJobs \/ SelectMOb
  BY <1>1, <1>2, MainSent DEF LoadJobs, StoreJobs, SelectMOb, SendStep, driverVars, historyVars, flags, Call,
     Busy, Holding
<1>3. CASE InitRing \/ ClearSlots
  BY <1>1, <1>3, MainSent DEF InitRing, ClearSlots, SendStep, flags, Call, Busy, Holding
<1>4. CASE ReadMessage
  BY <1>4, NoMObSent DEF ReadMessage, cpuVars, flags, Calm
<1> QED BY <1>2, <1>3, <1>4, FindSent, IdSent, DataSent, EnableSent, ResetSent DEF Main

\* A MOb that sends is done: its call is that of the frame sent last.
LEMMA FrameSentSent == ASSUME IInv, Sent, FrameSent PROVE Sent'
<1>1. PICK l \in Sending, again \in BOOLEAN :
        /\ mob' = [mob EXCEPT ![l].mode = "off", ![l].status = Outcome("tx", again)]
        /\ sent' = Append(sent, [id |-> mob[l].id, data |-> mob[l].data])
  BY DEF FrameSent
<1>2. UNCHANGED <<asked, send, disturbed>>
  BY DEF FrameSent, cpuVars, flags
<1>3. mob \in [MObs -> MObRec] /\ l \in MObs /\ sent \in Seq(SentFrame)
  BY DEF IInv, Types, Sending, Sent
<1> DEFINE e == [id |-> mob[l].id, data |-> mob[l].data]
           new == [mob[l] EXCEPT !.mode = "off", !.status = Outcome("tx", again)]
<1>4. e \in SentFrame /\ e.id = mob[l].id /\ e.data = mob[l].data
  <2>1. SomeIds = Id
    BY CanAssumption DEF SomeIds, SomeId
  <2>2. \A d \in 0 .. MaxFrames + MaxSends : d \in Nat
    OBVIOUS
  <2> QED BY <1>3, <2>1, <2>2 DEF MObRec, SentFrame
<1>5. mob' = [mob EXCEPT ![l] = new] /\ new.mode = "off" /\ new.id = mob[l].id /\ new.data = mob[l].data
  BY <1>1, <1>3 DEF MObRec
<1>6. sent' = Append(sent, e)
  BY <1>1
<1> HIDE DEF e, new
<1>7. PICK c \in Nat : c = Len(sent)
  BY <1>3, LenProperties
<1>8. sent' \in Seq(SentFrame) /\ Len(sent') = c + 1 /\ sent'[c + 1] = e
      /\ \A j \in 1 .. c : sent'[j] = sent[j]
  BY <1>3, <1>4, <1>6, <1>7, AppendProperties
<1>9. \A m \in MObs : /\ mob'[m].id = mob[m].id /\ mob'[m].data = mob[m].data
                      /\ m # l => mob'[m] = mob[m]
                      /\ mob'[l].mode = "off"
  BY <1>3, <1>5
<1>10. Sending' = Sending \ {l} /\ Sending \subseteq MObs
  BY <1>3, <1>9 DEF Sending
<1>11. ASSUME Calm PROVE Written'
  <2>1. Written
    BY <1>11 DEF Sent
  <2>2. CASE send.at \in {"data", "enable"}
    <3>1. send.mob \in MObs
      BY <1>11, <2>2, OwnMOb
    <3> QED BY <1>2, <1>9, <2>1, <3>1 DEF Written, Of
  <2>3. CASE send.at \notin {"data", "enable"}
    BY <1>2, <2>3 DEF Written
  <2> QED BY <2>2, <2>3
<1>12. ASSUME Calm PROVE \E by, of : Calls(by, of)'
  <2>1. PICK by, of : Calls(by, of)
    BY <1>12 DEF Sent
  <2>2. by \in [1 .. c -> 1 .. Len(asked)] /\ of \in [Sending -> 1 .. Len(asked)]
    BY <1>7, <2>1 DEF Calls
  <2>3. PICK bn : bn = [j \in 1 .. c + 1 |-> IF j = c + 1 THEN of[l] ELSE by[j]]
    OBVIOUS
  <2>4. PICK on : on = [m \in Sending \ {l} |-> of[m]]
    OBVIOUS
  <2>5. /\ bn \in [1 .. c + 1 -> 1 .. Len(asked)] /\ bn[c + 1] = of[l]
        /\ \A j \in 1 .. c : bn[j] = by[j]
    <3>1. \A j \in 1 .. c + 1 : j # c + 1 => j \in 1 .. c
      OBVIOUS
    <3>2. \A j \in 1 .. c : j # c + 1 /\ j \in 1 .. c + 1
      OBVIOUS
    <3>3. c + 1 \in 1 .. c + 1
      OBVIOUS
    <3> QED BY <2>2, <2>3, <3>1, <3>2, <3>3
  <2>6. on \in [Sending \ {l} -> 1 .. Len(asked)] /\ \A m \in Sending \ {l} : on[m] = of[m]
    BY <2>2, <2>4
  <2>7. \A j \in 1 .. c + 1 : j \in 1 .. c \/ j = c + 1
    OBVIOUS
  <2>8. OneCallEach(bn, on)'
    <3>1. /\ \A j, k \in 1 .. c : by[j] = by[k] => j = k
          /\ \A x, m \in Sending : of[x] = of[m] => x = m
          /\ \A j \in 1 .. c, m \in Sending : by[j] # of[m]
      BY <1>7, <2>1 DEF Calls, OneCallEach
    <3>2. \A j, k \in 1 .. c + 1 : bn[j] = bn[k] => j = k
      BY <2>5, <2>7, <3>1
    <3>3. \A x, m \in Sending \ {l} : on[x] = on[m] => x = m
      BY <2>6, <3>1
    <3>4. \A j \in 1 .. c + 1, m \in Sending \ {l} : bn[j] # on[m]
      BY <2>5, <2>6, <2>7, <3>1
    <3> QED BY <1>8, <1>10, <3>2, <3>3, <3>4 DEF OneCallEach
  <2>9. NoneYet(bn, on)'
    <3>1. Busy => /\ \A j \in 1 .. c : by[j] # send.number
                  /\ \A m \in Sending : of[m] # send.number
      BY <1>7, <2>1 DEF Calls, NoneYet
    <3>2. Busy => /\ \A j \in 1 .. c + 1 : bn[j] # send.number
                  /\ \A m \in Sending \ {l} : on[m] # send.number
      BY <2>5, <2>6, <2>7, <3>1
    <3>3. Busy' <=> Busy
      BY <1>2 DEF Busy
    <3> QED BY <1>2, <1>8, <1>10, <3>2, <3>3 DEF NoneYet
  <2>10. TrueToCall(bn, on)'
    <3>1. /\ \A j \in 1 .. c : Of(by[j], sent[j].id, sent[j].data)
          /\ \A m \in Sending : Of(of[m], mob[m].id, mob[m].data)
      BY <1>7, <2>1 DEF Calls, TrueToCall
    <3>2. ASSUME NEW j \in 1 .. c + 1 PROVE Of(bn[j], sent'[j].id, sent'[j].data)
      <4>1. CASE j \in 1 .. c
        BY <1>8, <2>5, <3>1, <4>1
      <4>2. CASE j = c + 1
        BY <1>4, <1>8, <2>5, <3>1, <4>2
      <4> QED BY <2>7, <4>1, <4>2
    <3>3. \A m \in Sending \ {l} : Of(on[m], mob'[m].id, mob'[m].data)
      BY <1>9, <1>10, <2>6, <3>1
    <3> QED BY <1>2, <1>8, <1>10, <3>2, <3>3 DEF TrueToCall, Of
  <2>11. Calls(bn, on)'
    BY <1>2, <1>8, <1>10, <2>5, <2>6, <2>8, <2>9, <2>10 DEF Calls
  <2> QED BY <2>11
<1> QED BY <1>2, <1>8, <1>11, <1>12 DEF Sent, Calm

LEMMA InitSent == Init => Sent
<1> SUFFICES ASSUME Init PROVE Sent
  OBVIOUS
<1>1. sent = <<>> /\ sent \in Seq(SentFrame) /\ Len(sent) = 0 /\ send.at = "idle"
  BY DEF Init, Idle
<1>2. ~Busy /\ Written /\ \A j : j \notin 1 .. 0
  BY <1>1 DEF Busy, Holding, Written
<1>3. Sending = {}
  BY DEF Init, ResetMOb, Sending
<1>4. PICK none : none = [m \in {} |-> 1]
  OBVIOUS
<1>5. none \in [{} -> 1 .. Len(asked)] /\ none \in [1 .. 0 -> 1 .. Len(asked)]
  BY <1>2, <1>4
<1>6. Calls(none, none)
  BY <1>1, <1>2, <1>3, <1>5 DEF Calls, OneCallEach, NoneYet, TrueToCall
<1> QED BY <1>1, <1>2, <1>6 DEF Sent

LEMMA NextSent == ASSUME FastBus = FALSE, IInv, Sent, [Next]_vars PROVE Sent'
<1>1. CASE FrameArrives \/ FrameSent
  BY <1>1, ArrivesSent, FrameSentSent
<1>2. CASE Interrupt
  <2>1. Calm' => Calm
    BY <1>2 DEF Interrupt, Calm
  <2> QED BY <1>2, <2>1, NoMObSent DEF Interrupt, driverVars
<1>3. CASE UNCHANGED vars
  BY <1>3, NoMObSent DEF vars, driverVars, cpuVars, historyVars, flags, Calm
<1> QED BY <1>1, <1>2, <1>3, HandlerKeepsSent, MainKeepsSent DEF Next

\* Each frame that was sent is of another call.
LEMMA SentIsAsked == ASSUME IInv, Sent PROVE SentAsAsked
<1> SUFFICES ASSUME Calm
             PROVE  /\ \A id \in Id : Cardinality({k \in DOMAIN sent : sent[k].id = id})
                                       <= Cardinality({n \in DOMAIN asked : asked[n] = id})
                    /\ \A k \in DOMAIN sent :
                         Length[sent[k].id] > 0 =>
                           /\ sent[k].data \in DOMAIN asked
                           /\ sent[k].id = asked[sent[k].data]
                           /\ \A j \in DOMAIN sent : sent[j] = sent[k] => j = k
  BY DEF SentAsAsked, Calm
<1>1. asked \in Seq(Id) /\ DOMAIN asked = 1 .. Len(asked) /\ DOMAIN sent = 1 .. Len(sent)
  BY LenProperties DEF IInv, Types, Logs, Sent
<1>2. PICK by, of : Calls(by, of)
  BY DEF Sent
<1>3. /\ by \in [1 .. Len(sent) -> 1 .. Len(asked)]
      /\ \A j, k \in 1 .. Len(sent) : by[j] = by[k] => j = k
      /\ \A j \in 1 .. Len(sent) : Of(by[j], sent[j].id, sent[j].data)
  BY <1>2 DEF Calls, OneCallEach, TrueToCall
<1>4. ASSUME NEW id \in Id
      PROVE  Cardinality({k \in DOMAIN sent : sent[k].id = id})
               <= Cardinality({n \in DOMAIN asked : asked[n] = id})
  <2> DEFINE S == {k \in DOMAIN sent : sent[k].id = id}
             T == {n \in DOMAIN asked : asked[n] = id}
             f == [k \in S |-> by[k]]
  <2>1. \A k \in S : k \in 1 .. Len(sent) /\ by[k] \in T
    BY <1>1, <1>3 DEF Of
  <2>2. IsFiniteSet(T)
    <3>1. IsFiniteSet(1 .. Len(asked)) /\ T \subseteq 1 .. Len(asked)
      BY <1>1, LenProperties, FS_Interval
    <3> QED BY <3>1, FS_Subset
  <2> HIDE DEF S, T
  <2>3. f \in [S -> T] /\ \A j, k \in S : f[j] = f[k] => j = k
    BY <1>3, <2>1
  <2> HIDE DEF f
  <2>4. f \in Injection(S, T)
    BY <2>3 DEF Injection, IsInjective
  <2>5. Cardinality(S) <= Cardinality(T)
    BY <2>2, <2>4, FS_Injection
  <2> QED BY <2>5 DEF S, T
<1>5. ASSUME NEW k \in DOMAIN sent, Length[sent[k].id] > 0
      PROVE  /\ sent[k].data \in DOMAIN asked
             /\ sent[k].id = asked[sent[k].data]
             /\ \A j \in DOMAIN sent : sent[j] = sent[k] => j = k
  <2>1. by[k] \in 1 .. Len(asked) /\ sent[k].data = by[k] /\ asked[by[k]] = sent[k].id
    BY <1>1, <1>3, <1>5 DEF Of
  <2>2. ASSUME NEW j \in DOMAIN sent, sent[j] = sent[k] PROVE j = k
    <3>1. sent[j].data = by[j]
      BY <1>1, <1>3, <1>5, <2>2 DEF Of
    <3> QED BY <1>1, <1>3, <2>1, <2>2, <3>1
  <2> QED BY <1>1, <2>1, <2>2
<1> QED BY <1>4, <1>5

\* Unless the handler disturbs can_broadcast, every frame that goes out carries the id
\* and the data of one call of it, and each call sends once at most, for any
\* number of MObs, frames and calls (can.c:288-312).
THEOREM SendsWhatWasAsked == ASSUME FastBus = FALSE PROVE Spec => []SentAsAsked
<1>1. Init => IInv /\ Sent
  BY InitIInv, InitSent
<1>2. IInv /\ Sent /\ [Next]_vars => (IInv /\ Sent)'
  BY NextKeeps, NextSent
<1>3. IInv /\ Sent => SentAsAsked
  BY SentIsAsked
<1> QED BY <1>1, <1>2, <1>3, PTL DEF Spec
=============================================================================
