---------------------------- MODULE Nodes_proofs ----------------------------
(***************************************************************************)
(* The programs of MCNodes, for every value of their bounds: the paddles   *)
(* of the steering wheel, the wheel speed counters, the heartbeat, the     *)
(* drivers that share registers, the values of the ECU, the warning lights *)
(* and the seven segments, and the GPS parser with one character lost or   *)
(* changed.  Each has an inductive invariant of its own; they are put      *)
(* together for the specification that TLC checks.                         *)
(***************************************************************************)
EXTENDS MCNodes, SequenceTheorems, FiniteSetTheorems, WellFoundedInduction, TLAPS

\* The paddles are two.
LEMMA PaddleSets ==
  ASSUME NEW S \in SUBSET Paddles
  PROVE  IsFiniteSet(S) /\ Cardinality(S) \in Nat
<1>1. IsFiniteSet({}) /\ IsFiniteSet({} \cup {"up"}) /\ IsFiniteSet(({} \cup {"up"}) \cup {"down"})
  BY FS_EmptySet, FS_AddElement
<1>2. Paddles = ({} \cup {"up"}) \cup {"down"}
  BY DEF Paddles
<1> QED BY <1>1, <1>2, FS_Subset, FS_CardinalityType

\* One paddle more.
LEMMA PaddleAdded ==
  ASSUME NEW S \in SUBSET Paddles, NEW p \in Paddles
  PROVE  Cardinality(S \cup {p}) = IF p \in S THEN Cardinality(S) ELSE Cardinality(S) + 1
BY PaddleSets, FS_AddElement

LEMMA FewerPaddles ==
  ASSUME NEW S \in SUBSET Paddles, NEW T \in SUBSET S
  PROVE  Cardinality(T) <= Cardinality(S)
BY PaddleSets, FS_Subset

\* The clock modulo its width, across one wrap or more: what the subtraction of
\* two readings says has elapsed has elapsed at least.
LEMMA ElapsedIsLess ==
  ASSUME NEW W \in Nat \ {0}, NEW a \in Nat, NEW b \in Nat, b <= a
  PROVE  a - b >= ((a % W) + W - (b % W)) % W
<1>1. PICK qa \in Nat, ra \in 0 .. W - 1 : a = W * qa + ra /\ (a % W) = ra
  <2>1. a = (W * (a \div W)) + (a % W) /\ (a \div W) \in Nat /\ (a % W) \in 0 .. W - 1
    OBVIOUS
  <2> QED BY <2>1
<1>2. PICK qb \in Nat, rb_ \in 0 .. W - 1 : b = W * qb + rb_ /\ (b % W) = rb_
  <2>1. b = (W * (b \div W)) + (b % W) /\ (b \div W) \in Nat /\ (b % W) \in 0 .. W - 1
    OBVIOUS
  <2> QED BY <2>1
<1>3. PICK d \in Int : d = qa - qb /\ a - b = W * d + (ra - rb_)
  BY <1>1, <1>2
<1>4. CASE ra >= rb_
  <2>1. (ra + W - rb_) % W = ra - rb_
    <3>1. PICK r \in 0 .. W - 1 : r = ra - rb_
      BY <1>4
    <3>2. (r + W) % W = r
      OBVIOUS
    <3>3. r + W = ra + W - rb_
      BY <3>1
    <3> QED BY <3>1, <3>2, <3>3
  <2>2. d >= 0
    <3>1. SUFFICES ASSUME d <= -1 PROVE FALSE
      OBVIOUS
    <3>2. W * d <= -W
      BY <3>1
    <3> QED BY <3>2, <1>3
  <2>3. W * d >= 0
    BY <2>2
  <2> QED BY <2>1, <2>3, <1>1, <1>2, <1>3
<1>5. CASE ra < rb_
  <2>1. (ra + W - rb_) % W = ra + W - rb_
    <3>1. PICK r \in 0 .. W - 1 : r = ra + W - rb_
      BY <1>5
    <3>2. r % W = r
      OBVIOUS
    <3> QED BY <3>1, <3>2
  <2>2. d >= 1
    <3>1. SUFFICES ASSUME d <= 0 PROVE FALSE
      OBVIOUS
    <3>2. W * d <= 0
      BY <3>1
    <3> QED BY <3>2, <1>3, <1>5
  <2>3. W * d >= W
    BY <2>2
  <2> QED BY <2>1, <2>3, <1>1, <1>2, <1>3
<1> QED BY <1>4, <1>5

-----------------------------------------------------------------------------
\* What is known at every step of the main loop.  While paddle_state is between
\* its two accesses, what it has read is still in the byte.
Waiting ==
  /\ pc \in {"frames", "clear", "neutral"}
  /\ state \in SUBSET Paddles /\ st \in SUBSET state
  /\ pc # "clear" => st = {}
  /\ told \in Nat /\ merged \in Nat /\ disturbed \in BOOLEAN
  /\ told + merged + Cardinality(state) <= Len(presses)
  /\ ~disturbed => /\ told + merged + Cardinality(state) = Len(presses)
                   /\ pc = "clear" => st = state

\* last_time is the last press on the clock.
Clocked ==
  /\ now \in Nat /\ presses \in Seq(Nat)
  /\ \A i \in DOMAIN presses : presses[i] <= now
  /\ presses # <<>> => last_time = presses[Len(presses)] % Width

IInv == Waiting /\ Clocked /\ Debounced

LEMMA NoPaddles == Cardinality({}) = 0
BY FS_EmptySet

LEMMA IInvImplies == IInv => PaddlesRight
<1> SUFFICES ASSUME IInv PROVE PressesTold
  BY DEF IInv, PaddlesRight
<1> USE DEF IInv, Waiting
<1>1. Cardinality(state) \in Nat /\ Cardinality(st) \in Nat /\ Len(presses) \in Nat
  BY PaddleSets, LenProperties DEF Clocked
<1>2. CASE pc = "clear"
  BY <1>1, <1>2 DEF PressesTold
<1>3. CASE pc # "clear"
  <2>1. Cardinality(st) = 0
    BY <1>3, NoPaddles
  <2> QED BY <1>1, <1>3, <2>1 DEF PressesTold
<1> QED BY <1>2, <1>3

LEMMA InitIInv == Init => IInv
<1> SUFFICES ASSUME Init PROVE IInv
  OBVIOUS
<1>1. Waiting
  <2>1. Cardinality(state) = 0 /\ Len(presses) = 0
    BY NoPaddles DEF Init
  <2>2. pc = "frames" /\ state = {} /\ st = {} /\ told = 0 /\ merged = 0 /\ disturbed = FALSE
    BY DEF Init
  <2>3. state \in SUBSET Paddles /\ st \in SUBSET state
    BY <2>2
  <2>4. /\ told \in Nat /\ merged \in Nat
        /\ told + merged + Cardinality(state) <= Len(presses)
        /\ told + merged + Cardinality(state) = Len(presses)
    BY <2>1, <2>2
  <2>5. pc \in {"frames", "clear", "neutral"} /\ pc # "clear" /\ disturbed \in BOOLEAN
    BY <2>2
  <2> QED BY <2>2, <2>3, <2>4, <2>5, Zenon DEF Waiting
<1>2. Clocked /\ Debounced
  BY DEF Init, Clocked, Debounced
<1> QED BY <1>1, <1>2 DEF IInv

\* A press that counts comes late enough after the last, and leaves one paddle
\* more to tell, or one told together with it.
LEMMA PressKeeps ==
  ASSUME IInv, NEW p \in Paddles, Press(p)
  PROVE  IInv'
<1> USE DEF IInv
<1>1. presses \in Seq(Nat) /\ now \in Nat /\ presses' = Append(presses, now)
  BY DEF Clocked, Press
<1>2. /\ Len(presses) \in Nat /\ Len(presses') = Len(presses) + 1
      /\ presses' \in Seq(Nat)
      /\ \A i \in 1 .. Len(presses) : presses'[i] = presses[i]
      /\ presses'[Len(presses) + 1] = now
  BY <1>1, AppendProperties
<1>3. Waiting'
  <2>1. Cardinality(state') = IF p \in state THEN Cardinality(state) ELSE Cardinality(state) + 1
    BY PaddleAdded DEF Waiting, Press
  <2>2. Cardinality(state) \in Nat
    BY PaddleSets DEF Waiting
  <2>3. told' + merged' + Cardinality(state') = told + merged + Cardinality(state) + 1
    BY <2>1, <2>2 DEF Waiting, Press
  <2>4. pc' = pc /\ st' = st /\ told' = told /\ state' = state \cup {p} /\ merged' \in Nat
        /\ disturbed' = (disturbed \/ pc = "clear")
    BY DEF Press, Waiting
  <2>5. told' + merged' + Cardinality(state') <= Len(presses')
    BY <2>2, <2>3, <1>2 DEF Waiting
  <2>6. ~disturbed' => told' + merged' + Cardinality(state') = Len(presses') /\ pc' # "clear"
    BY <2>3, <2>4, <1>2 DEF Waiting
  <2> QED BY <2>4, <2>5, <2>6 DEF Waiting
<1>4. Clocked'
  <2>1. now' = now /\ last_time' = now % Width
    BY DEF Press, get_tick
  <2> QED BY <1>1, <1>2, <2>1 DEF Clocked
<1>5. Debounced'
  <2> SUFFICES ASSUME NEW i \in 2 .. Len(presses')
               PROVE  presses'[i] - presses'[i - 1] >= DEBOUNCE_TIME
    BY DEF Debounced
  <2>1. CASE i <= Len(presses)
    <3>1. i \in 2 .. Len(presses) /\ i \in 1 .. Len(presses) /\ i - 1 \in 1 .. Len(presses)
      BY <2>1, <1>2
    <3>2. presses'[i] = presses[i] /\ presses'[i - 1] = presses[i - 1]
      BY <3>1, <1>2
    <3> QED BY <3>1, <3>2 DEF Debounced
  <2>2. CASE i = Len(presses) + 1
    <3> DEFINE b == presses[Len(presses)]
               elapsed == ((now % Width) + Width - (b % Width)) % Width
    <3>1. b \in Nat /\ b <= now /\ last_time = b % Width
      BY <2>2, <1>1, <1>2 DEF Clocked
    <3>2. elapsed >= DEBOUNCE_TIME
      BY <3>1 DEF Press, Elapsed, get_tick
    <3>3. Width \in Nat \ {0} /\ DEBOUNCE_TIME \in Nat
      BY SteeringAssumption
    <3>4. elapsed \in Nat
      BY SMTT(40), <3>1, <3>3, <1>1
    <3>5. presses'[i] = now /\ presses'[i - 1] = b
      BY <2>2, <1>2
    <3> HIDE DEF b
    <3>6. now - b >= elapsed
      BY <3>1, <3>3, <1>1, ElapsedIsLess
    <3> HIDE DEF elapsed
    <3> QED BY <3>1, <3>2, <3>3, <3>4, <3>5, <3>6, <1>1
  <2> QED BY <2>1, <2>2, <1>2
<1> QED BY <1>3, <1>4, <1>5

\* The second access of paddle_state: a paddle read is told, if a message object
\* is free, and one that came since is gone.
LEMMA ClearKeeps ==
  ASSUME IInv, PaddleClear
  PROVE  Waiting'
<1>1. pc = "clear" /\ pc' = "neutral" /\ state' = {} /\ st' = {} /\ merged' = merged /\ presses' = presses
  BY DEF PaddleClear
<1>2. Cardinality(st) \in Nat /\ Cardinality(state) \in Nat /\ Cardinality(st) <= Cardinality(state)
      /\ Len(presses) \in Nat /\ told \in Nat /\ merged \in Nat
  BY PaddleSets, FewerPaddles, LenProperties DEF IInv, Waiting, Clocked
<1>3. CASE st = {}
  <2>1. told' = told /\ disturbed' = disturbed
    BY <1>3 DEF PaddleClear
  <2>2. ~disturbed => Cardinality(state) = 0
    BY <1>1, <1>3, NoPaddles DEF IInv, Waiting
  <2> QED BY <1>1, <1>2, <2>1, <2>2, NoPaddles DEF IInv, Waiting
<1>4. CASE st # {}
  <2>1. told' = (IF Free = {} THEN told ELSE told + Cardinality(st))
        /\ disturbed' = (disturbed \/ Free = {})
    BY <1>4 DEF PaddleClear
  <2>2. told' \in Nat /\ told' <= told + Cardinality(st) /\ disturbed' \in BOOLEAN
    BY <1>2, <2>1 DEF IInv, Waiting
  <2>3. ~disturbed' => ~disturbed /\ told' = told + Cardinality(st)
    BY <2>1
  <2>4. ~disturbed => Cardinality(st) = Cardinality(state)
    BY <1>1 DEF IInv, Waiting
  <2> QED BY <1>1, <1>2, <2>2, <2>3, <2>4, NoPaddles DEF IInv, Waiting
<1> QED BY <1>3, <1>4

\* The steps that touch neither presses nor the byte of the paddles.
Quiet == UNCHANGED <<pc, state, st, presses, told, merged, disturbed>>

LEMMA QuietKeeps == ASSUME IInv, Quiet PROVE Waiting'
BY DEF IInv, Waiting, Quiet

LEMMA ClockKeeps ==
  ASSUME IInv, now' = now \/ now' = now + 1, UNCHANGED <<last_time, presses>>
  PROVE  Clocked' /\ Debounced'
<1>1. Clocked'
  BY DEF IInv, Clocked
<1>2. Debounced'
  BY DEF IInv, Debounced
<1> QED BY <1>1, <1>2

LEMMA NextKeeps == IInv /\ [Next]_vars => IInv'
<1> SUFFICES ASSUME IInv, [Next]_vars PROVE IInv'
  OBVIOUS
<1> USE DEF IInv
<1>1. CASE HandleFrame
  BY <1>1, QuietKeeps, ClockKeeps DEF HandleFrame, Quiet, historyVars
<1>2. CASE PaddleRead
  <2>1. Waiting'
    BY <1>2 DEF PaddleRead, Waiting, historyVars
  <2> QED BY <1>2, <2>1, ClockKeeps DEF PaddleRead, historyVars
<1>3. CASE PaddleClear
  BY <1>3, ClearKeeps, ClockKeeps DEF PaddleClear
<1>4. CASE Neutral
  <2>1. Waiting'
    BY <1>4 DEF Neutral, Waiting
  <2> QED BY <1>4, <2>1, ClockKeeps DEF Neutral
<1>5. CASE \E p \in Paddles : Press(p)
  BY <1>5, PressKeeps
<1>6. CASE Tick
  BY <1>6, QuietKeeps, ClockKeeps DEF Tick, Quiet, nodeVars, historyVars
<1>7. CASE ToggleButton
  BY <1>7, QuietKeeps, ClockKeeps DEF ToggleButton, Quiet, nodeVars
<1>8. CASE BusSends
  BY <1>8, QuietKeeps, ClockKeeps DEF BusSends, Quiet, nodeVars
<1>9. CASE BusBrings
  BY <1>9, QuietKeeps, ClockKeeps DEF BusBrings, Quiet, nodeVars
<1>10. CASE UNCHANGED vars
  BY <1>10, QuietKeeps, ClockKeeps DEF vars, Quiet, nodeVars, historyVars
<1> QED BY <1>1, <1>2, <1>3, <1>4, <1>5, <1>6, <1>7, <1>8, <1>9, <1>10 DEF Next, MainStep

\* The inductive invariant: the byte of the paddles holds what was pressed and
\* not told yet.
THEOREM Invariance == Spec => []IInv
<1> QED BY InitIInv, NextKeeps, PTL DEF Spec

\* Bounces tell nothing and presses tell one thing (paddleshift.c:62-97).
THEOREM PaddlesKept == Spec => []PaddlesRight
<1> QED BY Invariance, IInvImplies, PTL

-----------------------------------------------------------------------------
(***************************************************************************)
(* The wheel counters: where the holes of a wheel are at each access of a  *)
(* sample.  Accesses First(w) + 1 and + 2 read the counter of w, First(w) + 5 *)
(* and + 6 clear it.                                                       *)
(***************************************************************************)

Digit2 == 0 .. (Base - 1)
Counters == [{"low", "high"} -> Digit2]
First(w) == IF w = "right" THEN 0 ELSE 2

\* What of a wheel is counted but not yet reported at access a, when its counter
\* is c and what has been read of it is p.
Held(w, a, c, p) ==
  IF a <= First(w) + 4 THEN Wheel!Value(c)
  ELSE IF a = First(w) + 5 THEN c["low"] + Base * p["high"]
  ELSE Wheel!Value(p) + Wheel!Value(c)

\* What has been read is still in the counter, unless a hole came since, until the
\* digit is cleared.
CopyHolds(w, L, a, c, p) ==
  /\ a \in First(w) + 1 .. First(w) + 5 =>
       /\ p["low"] <= c["low"]
       /\ w \notin L => p["low"] = c["low"]
  /\ a \in First(w) + 2 .. First(w) + 4 => p["high"] = c["high"]
  /\ a = First(w) + 5 => c["high"] = 0

\* No hole counts twice, and without a late one all of them count, when r holes
\* have been reported of the n that passed.
Counts(w, L, a, c, p, r, n) ==
  /\ r + Held(w, a, c, p) <= n
  /\ w \notin L => r + Held(w, a, c, p) = n
  /\ CopyHolds(w, L, a, c, p)

WheelInv ==
  /\ Wheel!TypeOK
  /\ \A w \in Wheel!Wheels \ carried :
       Counts(w, late, at, tick[w], copy[w], reported[w], passed[w])

LEMMA BaseIsNat == Base \in Nat /\ Base > 1 /\ MaxTicks \in Nat
BY WheelAssumed DEF Wheel!WheelAssumption

LEMMA FourAndFour ==
  ASSUME NEW A, NEW x \in Seq(A), NEW y \in Seq(A), Len(x) = 4, Len(y) = 4
  PROVE  /\ Len(x \o y) = 8
         /\ (x \o y)[1] = x[1] /\ (x \o y)[2] = x[2] /\ (x \o y)[3] = x[3] /\ (x \o y)[4] = x[4]
         /\ (x \o y)[5] = y[1] /\ (x \o y)[6] = y[2] /\ (x \o y)[7] = y[3] /\ (x \o y)[8] = y[4]
<1>1. Len(x \o y) = Len(x) + Len(y)
  BY ConcatProperties
<1>2. \A i \in 1 .. Len(x) + Len(y) : (x \o y)[i] = IF i <= Len(x) THEN x[i] ELSE y[i - Len(x)]
  BY ConcatProperties
<1>3. PICK z : z = x \o y
  OBVIOUS
<1>4. \A i \in 1 .. 4 + 4 : z[i] = IF i <= 4 THEN x[i] ELSE y[i - 4]
  BY <1>2, <1>3, Zenon
<1>5. /\ z[1] = x[1] /\ z[2] = x[2] /\ z[3] = x[3] /\ z[4] = x[4]
      /\ z[5] = y[1] /\ z[6] = y[2] /\ z[7] = y[3] /\ z[8] = y[4]
  BY <1>4
<1> QED BY <1>1, <1>3, <1>5

\* Each access of a sample is of one wheel, and a read or a clearing of one byte.
LEMMA SampleIs ==
  /\ Len(Wheel!Sample) = 8
  /\ \A i \in 1 .. 8 : Wheel!Sample[i] =
       IF i <= 4 THEN Wheel!Access(IF i <= 2 THEN "right" ELSE "left", "read",
                                   IF i \in {1, 3} THEN "low" ELSE "high")
       ELSE Wheel!Access(IF i <= 6 THEN "right" ELSE "left", "clear",
                         IF i \in {5, 7} THEN "high" ELSE "low")
<1> DEFINE A == [wheel : Wheel!Wheels, op : {"read", "clear"}, byte : {"low", "high"}]
           r == Wheel!Reads
           c == Wheel!Clears
<1>1. r \in Seq(A) /\ Len(r) = 4
  BY DEF Wheel!Reads, Wheel!Access, Wheel!Wheels
<1>2. c \in Seq(A) /\ Len(c) = 4
  BY DEF Wheel!Clears, Wheel!Access, Wheel!Wheels
<1>3. Wheel!Sample = r \o c
  BY DEF Wheel!Sample
<1>4. /\ r[1] = Wheel!Access("right", "read", "low") /\ r[2] = Wheel!Access("right", "read", "high")
      /\ r[3] = Wheel!Access("left", "read", "low") /\ r[4] = Wheel!Access("left", "read", "high")
  BY DEF Wheel!Reads
<1>5. /\ c[1] = Wheel!Access("right", "clear", "high") /\ c[2] = Wheel!Access("right", "clear", "low")
      /\ c[3] = Wheel!Access("left", "clear", "high") /\ c[4] = Wheel!Access("left", "clear", "low")
  BY DEF Wheel!Clears
<1> HIDE DEF A, r, c
<1>6. PICK z : z = Wheel!Sample
  OBVIOUS
<1>7. /\ Len(z) = 8
      /\ z[1] = r[1] /\ z[2] = r[2] /\ z[3] = r[3] /\ z[4] = r[4]
      /\ z[5] = c[1] /\ z[6] = c[2] /\ z[7] = c[3] /\ z[8] = c[4]
  BY <1>1, <1>2, <1>3, <1>6, FourAndFour
<1>8. \A i \in 1 .. 8 : i \in {1, 2, 3, 4, 5, 6, 7, 8}
  OBVIOUS
<1> QED BY <1>4, <1>5, <1>6, <1>7, <1>8

LEMMA ValueIs ==
  ASSUME NEW c \in Counters
  PROVE  /\ c["low"] \in Nat /\ c["high"] \in Nat /\ c["low"] < Base /\ c["high"] < Base
         /\ Wheel!Value(c) = c["low"] + Base * c["high"] /\ Wheel!Value(c) \in Nat
<1>1. c["low"] \in Nat /\ c["high"] \in Nat /\ c["low"] < Base /\ c["high"] < Base
  BY BaseIsNat DEF Counters, Digit2
<1>2. \A x \in Nat : Base * x \in Nat
  BY BaseIsNat
<1> QED BY <1>1, <1>2 DEF Wheel!Value

\* A hole more; a full counter starts again.
LEMMA OneHole ==
  ASSUME NEW c \in Counters
  PROVE  /\ Wheel!Increment(c) \in Counters
         /\ \/ Wheel!Value(Wheel!Increment(c)) = Wheel!Value(c) + 1
            \/ Wheel!Value(c) = Base * Base - 1 /\ Wheel!Value(Wheel!Increment(c)) = 0
         /\ c["low"] + 1 # Base =>
              /\ Wheel!Increment(c)["low"] = c["low"] + 1
              /\ Wheel!Increment(c)["high"] = c["high"]
<1> DEFINE d == Wheel!Increment(c)
<1>1. PICK l \in Nat, h \in Nat, B \in Nat : l = c["low"] /\ h = c["high"] /\ l < B /\ h < B /\ B = Base /\ B > 1
  BY BaseIsNat, ValueIs
<1>2. d = [c EXCEPT !["low"] = (l + 1) % B, !["high"] = IF l + 1 = B THEN (h + 1) % B ELSE h]
  BY <1>1 DEF Wheel!Increment, Counters
<1>3. (l + 1) % B \in 0 .. B - 1 /\ (h + 1) % B \in 0 .. B - 1 /\ h \in 0 .. B - 1
  BY <1>1
<1>4. d \in Counters
  BY <1>1, <1>2, <1>3 DEF Counters, Digit2
<1>5. d["low"] = (l + 1) % B /\ d["high"] = IF l + 1 = B THEN (h + 1) % B ELSE h
  BY <1>2 DEF Counters
<1> HIDE DEF d
<1>6. Wheel!Value(c) = l + B * h /\ Wheel!Value(d) = d["low"] + B * d["high"]
  BY <1>1, <1>4, ValueIs
<1>7. CASE l + 1 # B
  <2>1. (l + 1) % B = l + 1
    BY <1>1, <1>7
  <2>2. d["low"] = l + 1 /\ d["high"] = h
    BY <1>5, <1>7, <2>1
  <2>3. (l + 1) + B * h = (l + B * h) + 1
    BY <1>1
  <2> QED BY <1>1, <1>4, <1>6, <2>2, <2>3 DEF d
<1>8. CASE l + 1 = B /\ h + 1 # B
  <2>1. (l + 1) % B = 0 /\ (h + 1) % B = h + 1
    BY <1>1, <1>8
  <2>2. d["low"] = 0 /\ d["high"] = h + 1
    BY <1>5, <1>8, <2>1
  <2>3. 0 + B * (h + 1) = (l + B * h) + 1
    BY <1>1, <1>8
  <2> QED BY <1>1, <1>4, <1>6, <1>8, <2>2, <2>3 DEF d
<1>9. CASE l + 1 = B /\ h + 1 = B
  <2>1. (l + 1) % B = 0 /\ (h + 1) % B = 0
    BY <1>1, <1>9
  <2>2. d["low"] = 0 /\ d["high"] = 0
    BY <1>5, <1>9, <2>1
  <2>3. 0 + B * 0 = 0 /\ l + B * h = B * B - 1
    BY <1>1, <1>9
  <2> QED BY <1>1, <1>4, <1>6, <1>9, <2>2, <2>3 DEF d
<1> QED BY <1>7, <1>8, <1>9

\* A hole passes: without a carry, or between two samples.
LEMMA HoleCounts ==
  ASSUME NEW w \in Wheel!Wheels, NEW L, NEW a \in 0 .. 8,
         NEW c \in Counters, NEW p \in Counters, NEW r \in Nat, NEW n \in Nat,
         a # 0 => c["low"] + 1 # Base,
         Counts(w, L, a, c, p, r, n)
  PROVE  Counts(w, IF a = 0 /\ Wheel!Value(c) + 1 < Base * Base THEN L ELSE L \cup {w}, a,
                Wheel!Increment(c), p, r, n + 1)
<1> DEFINE d == Wheel!Increment(c)
<1>1. d \in Counters
  BY OneHole
<1>2. First(w) \in {0, 2}
  BY DEF First
<1>3. PICK v \in Nat, u \in Nat, z \in Nat : v = Wheel!Value(c) /\ u = Wheel!Value(d) /\ z = Wheel!Value(p)
  BY <1>1, ValueIs
<1>4. CASE a = 0
  <2>1. Held(w, a, c, p) = v /\ Held(w, a, d, p) = u
    BY <1>2, <1>3, <1>4 DEF Held
  <2> DEFINE K == IF a = 0 /\ v + 1 < Base * Base THEN L ELSE L \cup {w}
  <2>2. CopyHolds(w, K, a, d, p)
    BY <1>2, <1>4 DEF CopyHolds
  <2>3. r + v <= n /\ (w \notin L => r + v = n)
    BY <2>1 DEF Counts
  <2>4. PICK q \in Nat : q = Base * Base
    BY BaseIsNat
  <2>5. u = v + 1 \/ (v = q - 1 /\ u = 0)
    BY <1>3, <2>4, OneHole
  <2>6. w \notin K => u = v + 1 /\ w \notin L
    BY <1>4, <2>4, <2>5
  <2>7. r + u <= n + 1 /\ (w \notin K => r + u = n + 1)
    BY <2>3, <2>5, <2>6
  <2> HIDE DEF K
  <2>8. Counts(w, K, a, d, p, r, n + 1)
    BY <2>1, <2>2, <2>7 DEF Counts
  <2> QED BY <1>3, <2>8 DEF K
<1>5. CASE a # 0
  <2> DEFINE K == L \cup {w}
  <2>1. d["low"] = c["low"] + 1 /\ d["high"] = c["high"]
    BY <1>5, OneHole
  <2>2. PICK l \in Nat, m \in Nat, k \in Nat :
          l = c["low"] /\ m = Base * c["high"] /\ k = Base * p["high"]
    <3>1. c["low"] \in Nat /\ c["high"] \in Nat /\ p["high"] \in Nat
      BY ValueIs
    <3>2. \A x \in Nat : Base * x \in Nat
      BY BaseIsNat
    <3> QED BY <3>1, <3>2
  <2>3. v = l + m /\ u = (l + 1) + m
    BY <1>1, <1>3, <2>1, <2>2, ValueIs
  <2>4. Held(w, a, d, p) = Held(w, a, c, p) + 1 /\ Held(w, a, c, p) \in Nat
    BY <1>2, <1>3, <2>1, <2>2, <2>3 DEF Held
  <2>5. PICK h \in Nat : h = Held(w, a, c, p) /\ r + h <= n
    BY <2>4 DEF Counts
  <2>6. r + Held(w, a, d, p) <= n + 1
    BY <2>4, <2>5
  <2>7. p["low"] \in Nat /\ l \in Nat /\ l = c["low"] /\ d["low"] = l + 1
    BY <2>1, <2>2, ValueIs
  <2>8. CopyHolds(w, K, a, d, p)
    BY <2>1, <2>7 DEF Counts, CopyHolds
  <2> QED BY <1>5, <2>6, <2>8 DEF Counts
<1> QED BY <1>4, <1>5

\* What access a + 1 does to the counter c and the copy p of a wheel.
Accessed(w, a, c, p, d, q) ==
  \/ a = First(w) /\ d = c /\ q = [p EXCEPT !["low"] = c["low"]]
  \/ a = First(w) + 1 /\ d = c /\ q = [p EXCEPT !["high"] = c["high"]]
  \/ a = First(w) + 4 /\ d = [c EXCEPT !["high"] = 0] /\ q = p
  \/ a = First(w) + 5 /\ d = [c EXCEPT !["low"] = 0] /\ q = p
  \/ a \notin {First(w), First(w) + 1, First(w) + 4, First(w) + 5} /\ d = c /\ q = p

\* An access neither reports a hole nor forgets one that was not late.
LEMMA AccessCounts ==
  ASSUME NEW w \in Wheel!Wheels, NEW L, NEW a \in 0 .. 7,
         NEW c \in Counters, NEW p \in Counters, NEW d \in Counters, NEW q \in Counters,
         NEW r \in Nat, NEW n \in Nat,
         Accessed(w, a, c, p, d, q), Counts(w, L, a, c, p, r, n)
  PROVE  Counts(w, L, a + 1, d, q, r, n)
<1>1. PICK f \in {0, 2} : f = First(w)
  BY DEF First
<1>2. /\ Wheel!Value(c) = c["low"] + Base * c["high"] /\ Wheel!Value(p) = p["low"] + Base * p["high"]
      /\ Wheel!Value(d) = d["low"] + Base * d["high"] /\ Wheel!Value(q) = q["low"] + Base * q["high"]
      /\ c["low"] \in Nat /\ p["low"] \in Nat /\ d["low"] \in Nat /\ q["low"] \in Nat
  BY ValueIs
<1>3. Base * 0 = 0 /\ \A x \in Nat : Base * x \in Nat
  BY BaseIsNat
<1>4. /\ Base * c["high"] \in Nat /\ Base * p["high"] \in Nat
      /\ Base * d["high"] \in Nat /\ Base * q["high"] \in Nat
  BY <1>3, ValueIs
<1>5. DOMAIN c = {"low", "high"} /\ DOMAIN p = {"low", "high"}
  BY DEF Counters
<1>6. CASE a = f /\ d = c /\ q = [p EXCEPT !["low"] = c["low"]]
  <2>1. q["low"] = c["low"] /\ d = c
    BY <1>5, <1>6
  <2>2. Held(w, a + 1, d, q) = Held(w, a, c, p)
    BY <1>1, <1>6, <2>1 DEF Held
  <2>3. CopyHolds(w, L, a + 1, d, q)
    BY <1>1, <1>2, <1>6, <2>1 DEF CopyHolds
  <2> QED BY <2>2, <2>3 DEF Counts
<1>7. CASE a = f + 1 /\ d = c /\ q = [p EXCEPT !["high"] = c["high"]]
  <2>1. q["low"] = p["low"] /\ q["high"] = c["high"] /\ d = c
    BY <1>5, <1>7
  <2>2. Held(w, a + 1, d, q) = Held(w, a, c, p)
    BY <1>1, <1>7, <2>1 DEF Held
  <2>3. CopyHolds(w, L, a + 1, d, q)
    BY <1>1, <1>2, <1>7, <2>1 DEF CopyHolds, Counts
  <2> QED BY <2>2, <2>3 DEF Counts
<1>8. CASE a = f + 4 /\ d = [c EXCEPT !["high"] = 0] /\ q = p
  <2>1. d["low"] = c["low"] /\ d["high"] = 0 /\ q = p
    BY <1>5, <1>8
  <2>2. p["high"] = c["high"]
    BY <1>1, <1>8 DEF CopyHolds, Counts
  <2>3. Held(w, a, c, p) = c["low"] + Base * c["high"]
    BY <1>1, <1>2, <1>8 DEF Held
  <2>4. Held(w, a + 1, d, q) = c["low"] + Base * c["high"]
    BY <1>1, <1>8, <2>1, <2>2 DEF Held
  <2>5. CopyHolds(w, L, a + 1, d, q)
    BY <1>1, <1>2, <1>8, <2>1 DEF CopyHolds, Counts
  <2> QED BY <2>3, <2>4, <2>5 DEF Counts
<1>9. CASE a = f + 5 /\ d = [c EXCEPT !["low"] = 0] /\ q = p
  <2>1. d["low"] = 0 /\ d["high"] = c["high"] /\ q = p
    BY <1>5, <1>9
  <2>2. c["high"] = 0 /\ p["low"] <= c["low"] /\ (w \notin L => p["low"] = c["low"])
    BY <1>1, <1>9 DEF CopyHolds, Counts
  <2>3. PICK l \in Nat, k \in Nat, m \in Nat : l = p["low"] /\ k = c["low"] /\ m = Base * p["high"]
    BY <1>2, <1>4
  <2>4. Wheel!Value(d) = 0 /\ Wheel!Value(q) = l + m
    BY <1>2, <1>3, <2>1, <2>2, <2>3
  <2>5. Held(w, a, c, p) = k + m
    BY <1>1, <1>9, <2>3 DEF Held
  <2>6. Held(w, a + 1, d, q) = l + m
    BY <1>1, <1>9, <2>4 DEF Held
  <2>7. r + (k + m) <= n /\ (w \notin L => r + (k + m) = n)
    BY <2>5 DEF Counts
  <2>8. r + (l + m) <= n /\ (w \notin L => r + (l + m) = n)
    BY <2>2, <2>3, <2>7
  <2>9. CopyHolds(w, L, a + 1, d, q)
    BY <1>1, <1>9 DEF CopyHolds
  <2> QED BY <2>6, <2>8, <2>9 DEF Counts
<1>10. CASE a \notin {f, f + 1, f + 4, f + 5} /\ d = c /\ q = p
  <2>1. Held(w, a + 1, d, q) = Held(w, a, c, p)
    BY <1>1, <1>10 DEF Held
  <2>2. CopyHolds(w, L, a + 1, d, q)
    BY <1>1, <1>10 DEF CopyHolds, Counts
  <2> QED BY <2>1, <2>2 DEF Counts
<1> QED BY <1>1, <1>6, <1>7, <1>8, <1>9, <1>10 DEF Accessed

-----------------------------------------------------------------------------
\* The types, once more, in the form the lemmas want.
LEMMA WheelTypes ==
  Wheel!TypeOK <=>
    /\ tick \in [Wheel!Wheels -> Counters] /\ copy \in [Wheel!Wheels -> Counters]
    /\ at \in 0 .. 8
    /\ reported \in [Wheel!Wheels -> Nat] /\ passed \in [Wheel!Wheels -> 0 .. MaxTicks]
    /\ late \subseteq Wheel!Wheels /\ carried \subseteq late
BY SampleIs DEF Wheel!TypeOK, Counters, Digit2

LEMMA WheelBegins == Wheel!Init => WheelInv
<1> SUFFICES ASSUME Wheel!Init PROVE WheelInv
  OBVIOUS
<1>1. Wheel!Zero \in [Wheel!Wheels -> Counters]
  BY BaseIsNat DEF Wheel!Zero, Counters, Digit2
<1>2. Wheel!TypeOK
  BY <1>1, BaseIsNat, WheelTypes DEF Wheel!Init
<1>3. ASSUME NEW w \in Wheel!Wheels
      PROVE  Counts(w, late, at, tick[w], copy[w], reported[w], passed[w])
  <2>1. Wheel!Value(tick[w]) = 0
    BY <1>3, BaseIsNat DEF Wheel!Init, Wheel!Zero, Wheel!Value
  <2>2. at = 0 /\ reported[w] = 0 /\ passed[w] = 0
    BY <1>3 DEF Wheel!Init
  <2>3. First(w) \in {0, 2}
    BY DEF First
  <2> QED BY <2>1, <2>2, <2>3 DEF Counts, Held, CopyHolds
<1> QED BY <1>2, <1>3 DEF WheelInv

LEMMA TickKeeps ==
  ASSUME WheelInv, NEW v \in Wheel!Wheels, Wheel!WheelTick(v)
  PROVE  WheelInv'
<1>1. /\ tick \in [Wheel!Wheels -> Counters] /\ copy \in [Wheel!Wheels -> Counters]
      /\ at \in 0 .. 8
      /\ reported \in [Wheel!Wheels -> Nat] /\ passed \in [Wheel!Wheels -> 0 .. MaxTicks]
      /\ late \subseteq Wheel!Wheels /\ carried \subseteq late
  BY WheelTypes DEF WheelInv
<1>2. /\ passed[v] < MaxTicks /\ passed' = [passed EXCEPT ![v] = @ + 1]
      /\ tick' = [tick EXCEPT ![v] = Wheel!Increment(tick[v])]
      /\ at' = at /\ copy' = copy /\ reported' = reported
  BY DEF Wheel!WheelTick
<1>3. late' = IF at = 0 /\ Wheel!Value(tick[v]) + 1 < Base * Base THEN late ELSE late \cup {v}
  BY DEF Wheel!WheelTick
<1>4. carried' = IF at # 0 /\ tick[v]["low"] + 1 = Base THEN carried \cup {v} ELSE carried
  BY DEF Wheel!WheelTick
<1>5. Wheel!TypeOK'
  <2>1. Wheel!Increment(tick[v]) \in Counters
    BY <1>1, OneHole
  <2>2. passed' \in [Wheel!Wheels -> 0 .. MaxTicks]
    <3>1. passed[v] \in Nat /\ passed[v] + 1 \in 0 .. MaxTicks
      BY <1>1, <1>2, BaseIsNat
    <3> QED BY <1>1, <1>2, <3>1
  <2>3. tick' \in [Wheel!Wheels -> Counters]
    BY <1>1, <1>2, <2>1
  <2>4. late' \subseteq Wheel!Wheels /\ carried' \subseteq late'
    BY <1>1, <1>3, <1>4
  <2>5. /\ tick' \in [Wheel!Wheels -> Counters] /\ copy' \in [Wheel!Wheels -> Counters]
        /\ at' \in 0 .. 8
        /\ reported' \in [Wheel!Wheels -> Nat] /\ passed' \in [Wheel!Wheels -> 0 .. MaxTicks]
        /\ late' \subseteq Wheel!Wheels /\ carried' \subseteq late'
    BY <1>1, <1>2, <2>2, <2>3, <2>4
  <2> QED BY <2>5, SampleIs DEF Wheel!TypeOK, Counters, Digit2
<1>6. ASSUME NEW w \in Wheel!Wheels, w \notin carried'
      PROVE  Counts(w, late', at, tick'[w], copy[w], reported[w], passed'[w])
  <2>1. w \notin carried
    BY <1>4, <1>6
  <2>2. Counts(w, late, at, tick[w], copy[w], reported[w], passed[w])
    BY <2>1 DEF WheelInv
  <2>3. CASE w = v
    <3>1. at # 0 => tick[w]["low"] + 1 # Base
      BY <1>4, <1>6, <2>3
    <3>2. tick'[w] = Wheel!Increment(tick[w]) /\ passed'[w] = passed[w] + 1
      BY <1>1, <1>2, <2>3
    <3>3. tick[w] \in Counters /\ copy[w] \in Counters /\ reported[w] \in Nat /\ passed[w] \in Nat
      BY <1>1, BaseIsNat
    <3>4. PICK c \in Counters, p \in Counters, r \in Nat, n \in Nat, a \in 0 .. 8 :
            c = tick[w] /\ p = copy[w] /\ r = reported[w] /\ n = passed[w] /\ a = at
      BY <1>1, <3>3
    <3>5. Counts(w, IF a = 0 /\ Wheel!Value(c) + 1 < Base * Base THEN late ELSE late \cup {w}, a,
                 Wheel!Increment(c), p, r, n + 1)
      BY <2>2, <3>1, <3>2, <3>4, HoleCounts
    <3> QED BY <1>3, <2>3, <3>2, <3>4, <3>5
  <2>4. CASE w # v
    <3>1. tick'[w] = tick[w] /\ passed'[w] = passed[w] /\ (w \in late' <=> w \in late)
      BY <1>1, <1>2, <1>3, <2>4
    <3> QED BY <2>2, <3>1 DEF Counts, CopyHolds
  <2> QED BY <2>3, <2>4
<1> QED BY <1>2, <1>5, <1>6 DEF WheelInv

\* What a step of a sample does to each wheel.
LEMMA StepAccesses ==
  ASSUME WheelInv, Wheel!SampleStep
  PROVE  /\ at \in 0 .. 7 /\ at' = at + 1
         /\ tick' \in [Wheel!Wheels -> Counters] /\ copy' \in [Wheel!Wheels -> Counters]
         /\ \A w \in Wheel!Wheels : Accessed(w, at, tick[w], copy[w], tick'[w], copy'[w])
<1>1. /\ tick \in [Wheel!Wheels -> Counters] /\ copy \in [Wheel!Wheels -> Counters]
      /\ at \in 0 .. 8
  BY WheelTypes DEF WheelInv
<1>2. at \in 0 .. 7 /\ at' = at + 1
  BY <1>1, SampleIs DEF Wheel!SampleStep
<1>3. PICK i \in 1 .. 8 : i = at + 1
  BY <1>2
<1> DEFINE x == Wheel!Sample[i]
<1>4. x = IF i <= 4 THEN Wheel!Access(IF i <= 2 THEN "right" ELSE "left", "read",
                                      IF i \in {1, 3} THEN "low" ELSE "high")
          ELSE Wheel!Access(IF i <= 6 THEN "right" ELSE "left", "clear",
                            IF i \in {5, 7} THEN "high" ELSE "low")
  BY SampleIs
<1>5. /\ x.wheel = (IF i \in {1, 2, 5, 6} THEN "right" ELSE "left")
      /\ x.op = (IF i <= 4 THEN "read" ELSE "clear")
      /\ x.byte = (IF i \in {1, 3, 6, 8} THEN "low" ELSE "high")
  BY <1>4 DEF Wheel!Access
<1>6. IF x.op = "read"
      THEN copy' = [copy EXCEPT ![x.wheel][x.byte] = tick[x.wheel][x.byte]] /\ tick' = tick
      ELSE tick' = [tick EXCEPT ![x.wheel][x.byte] = 0] /\ copy' = copy
  BY <1>3 DEF Wheel!SampleStep
<1> HIDE DEF x
<1>7. PICK v \in Wheel!Wheels, b \in {"low", "high"} : v = x.wheel /\ b = x.byte
  BY <1>5 DEF Wheel!Wheels
<1>8. 0 \in Digit2 /\ \A w \in Wheel!Wheels : tick[w] \in Counters /\ copy[w] \in Counters
  BY <1>1, BaseIsNat DEF Digit2
<1>9. CASE i <= 4
  <2>1. copy' = [copy EXCEPT ![v] = [@ EXCEPT ![b] = tick[v][b]]] /\ tick' = tick
    BY <1>5, <1>6, <1>7, <1>9
  <2>2. [copy[v] EXCEPT ![b] = tick[v][b]] \in Counters
    BY <1>8 DEF Counters
  <2>3. copy' \in [Wheel!Wheels -> Counters]
    BY <1>1, <2>1, <2>2
  <2>4. ASSUME NEW w \in Wheel!Wheels PROVE Accessed(w, at, tick[w], copy[w], tick'[w], copy'[w])
    <3>1. CASE w = v
      <4>1. copy'[w] = [copy[w] EXCEPT ![b] = tick[w][b]] /\ tick'[w] = tick[w]
        BY <1>1, <2>1, <3>1
      <4>2. (at = First(w) /\ b = "low") \/ (at = First(w) + 1 /\ b = "high")
        BY <1>2, <1>3, <1>5, <1>7, <1>9, <3>1 DEF First
      <4> QED BY <4>1, <4>2 DEF Accessed
    <3>2. CASE w # v
      <4>1. copy'[w] = copy[w] /\ tick'[w] = tick[w]
        BY <1>1, <2>1, <3>2
      <4>2. at \notin {First(w), First(w) + 1, First(w) + 4, First(w) + 5}
        BY <1>2, <1>3, <1>5, <1>7, <1>9, <3>2 DEF First, Wheel!Wheels
      <4> QED BY <4>1, <4>2 DEF Accessed
    <3> QED BY <3>1, <3>2
  <2> QED BY <1>1, <1>2, <2>1, <2>3, <2>4
<1>10. CASE ~(i <= 4)
  <2>1. tick' = [tick EXCEPT ![v] = [@ EXCEPT ![b] = 0]] /\ copy' = copy
    BY <1>5, <1>6, <1>7, <1>10
  <2>2. [tick[v] EXCEPT ![b] = 0] \in Counters
    BY <1>8 DEF Counters
  <2>3. tick' \in [Wheel!Wheels -> Counters]
    BY <1>1, <2>1, <2>2
  <2>4. ASSUME NEW w \in Wheel!Wheels PROVE Accessed(w, at, tick[w], copy[w], tick'[w], copy'[w])
    <3>1. CASE w = v
      <4>1. tick'[w] = [tick[w] EXCEPT ![b] = 0] /\ copy'[w] = copy[w]
        BY <1>1, <2>1, <3>1
      <4>2. (at = First(w) + 4 /\ b = "high") \/ (at = First(w) + 5 /\ b = "low")
        BY <1>2, <1>3, <1>5, <1>7, <1>10, <3>1 DEF First
      <4> QED BY <4>1, <4>2 DEF Accessed
    <3>2. CASE w # v
      <4>1. copy'[w] = copy[w] /\ tick'[w] = tick[w]
        BY <1>1, <2>1, <3>2
      <4>2. at \notin {First(w), First(w) + 1, First(w) + 4, First(w) + 5}
        BY <1>2, <1>3, <1>5, <1>7, <1>10, <3>2 DEF First, Wheel!Wheels
      <4> QED BY <4>1, <4>2 DEF Accessed
    <3> QED BY <3>1, <3>2
  <2> QED BY <1>1, <1>2, <2>1, <2>3, <2>4
<1> QED BY <1>9, <1>10

LEMMA SampleKeeps == ASSUME WheelInv, Wheel!SampleStep PROVE WheelInv'
<1>1. /\ tick \in [Wheel!Wheels -> Counters] /\ copy \in [Wheel!Wheels -> Counters]
      /\ reported \in [Wheel!Wheels -> Nat] /\ passed \in [Wheel!Wheels -> 0 .. MaxTicks]
      /\ late \subseteq Wheel!Wheels /\ carried \subseteq late
  BY WheelTypes DEF WheelInv
<1>2. reported' = reported /\ passed' = passed /\ late' = late /\ carried' = carried
  BY DEF Wheel!SampleStep
<1>3. Wheel!TypeOK'
  <2>1. /\ tick' \in [Wheel!Wheels -> Counters] /\ copy' \in [Wheel!Wheels -> Counters]
        /\ at' \in 0 .. 8
    BY StepAccesses
  <2>2. /\ reported' \in [Wheel!Wheels -> Nat] /\ passed' \in [Wheel!Wheels -> 0 .. MaxTicks]
        /\ late' \subseteq Wheel!Wheels /\ carried' \subseteq late'
    BY <1>1, <1>2
  <2> QED BY <2>1, <2>2, SampleIs DEF Wheel!TypeOK, Counters, Digit2
<1>4. ASSUME NEW w \in Wheel!Wheels, w \notin carried
      PROVE  Counts(w, late, at', tick'[w], copy'[w], reported[w], passed[w])
  <2>1. Counts(w, late, at, tick[w], copy[w], reported[w], passed[w])
    BY <1>4 DEF WheelInv
  <2>2. /\ tick[w] \in Counters /\ copy[w] \in Counters /\ tick'[w] \in Counters
        /\ copy'[w] \in Counters /\ reported[w] \in Nat /\ passed[w] \in Nat
    BY <1>1, StepAccesses, BaseIsNat
  <2>3. PICK c \in Counters, p \in Counters, d \in Counters, q \in Counters, a \in 0 .. 7 :
          c = tick[w] /\ p = copy[w] /\ d = tick'[w] /\ q = copy'[w] /\ a = at /\ at' = a + 1
    BY <2>2, StepAccesses
  <2>4. Accessed(w, a, c, p, d, q) /\ Counts(w, late, a, c, p, reported[w], passed[w])
    BY <2>1, <2>3, StepAccesses
  <2>5. Counts(w, late, a + 1, d, q, reported[w], passed[w])
    BY <2>2, <2>3, <2>4, AccessCounts
  <2> QED BY <2>3, <2>5
<1> QED BY <1>2, <1>3, <1>4 DEF WheelInv

LEMMA ReportKeeps == ASSUME WheelInv, Wheel!Report PROVE WheelInv'
<1>1. /\ tick \in [Wheel!Wheels -> Counters] /\ copy \in [Wheel!Wheels -> Counters]
      /\ at = 8 /\ at' = 0
      /\ reported \in [Wheel!Wheels -> Nat] /\ passed \in [Wheel!Wheels -> 0 .. MaxTicks]
      /\ late \subseteq Wheel!Wheels /\ carried \subseteq late
  BY WheelTypes, SampleIs DEF WheelInv, Wheel!Report
<1>2. /\ reported' = [w \in Wheel!Wheels |-> reported[w] + Wheel!Value(copy[w])]
      /\ tick' = tick /\ copy' = copy /\ passed' = passed /\ late' = late /\ carried' = carried
  BY DEF Wheel!Report
<1>3. \A w \in Wheel!Wheels : Wheel!Value(copy[w]) \in Nat /\ Wheel!Value(tick[w]) \in Nat
  BY <1>1, ValueIs
<1>4. reported' \in [Wheel!Wheels -> Nat]
  <2>1. \A w \in Wheel!Wheels : reported[w] + Wheel!Value(copy[w]) \in Nat
    BY <1>1, <1>3
  <2> QED BY <1>2, <2>1
<1>5. Wheel!TypeOK'
  <2>1. /\ tick' \in [Wheel!Wheels -> Counters] /\ copy' \in [Wheel!Wheels -> Counters]
        /\ at' \in 0 .. 8
        /\ reported' \in [Wheel!Wheels -> Nat] /\ passed' \in [Wheel!Wheels -> 0 .. MaxTicks]
        /\ late' \subseteq Wheel!Wheels /\ carried' \subseteq late'
    BY <1>1, <1>2, <1>4
  <2> QED BY <2>1, SampleIs DEF Wheel!TypeOK, Counters, Digit2
<1>6. ASSUME NEW w \in Wheel!Wheels, w \notin carried
      PROVE  Counts(w, late, 0, tick[w], copy[w], reported'[w], passed[w])
  <2>1. First(w) \in {0, 2}
    BY DEF First
  <2>2. PICK r \in Nat, v \in Nat, u \in Nat, n \in Nat :
          r = reported[w] /\ v = Wheel!Value(copy[w]) /\ u = Wheel!Value(tick[w]) /\ n = passed[w]
    BY <1>1, <1>3, BaseIsNat
  <2>3. Held(w, 8, tick[w], copy[w]) = v + u /\ Held(w, 0, tick[w], copy[w]) = u
    BY <2>1, <2>2 DEF Held
  <2>4. Counts(w, late, 8, tick[w], copy[w], r, n)
    BY <1>1, <1>6, <2>2 DEF WheelInv
  <2>5. r + (v + u) <= n /\ (w \notin late => r + (v + u) = n)
    BY <2>3, <2>4 DEF Counts
  <2>6. reported'[w] = r + v
    BY <1>2, <2>2
  <2>7. (r + v) + u <= n /\ (w \notin late => (r + v) + u = n)
    BY <2>5
  <2>8. CopyHolds(w, late, 0, tick[w], copy[w])
    BY <2>1 DEF CopyHolds
  <2> QED BY <2>2, <2>3, <2>6, <2>7, <2>8 DEF Counts
<1> QED BY <1>1, <1>2, <1>5, <1>6 DEF WheelInv

LEMMA WheelStep == ASSUME WheelInv, [Wheel!Next]_(Wheel!vars) PROVE WheelInv'
<1>1. CASE Wheel!SampleStep
  BY <1>1, SampleKeeps
<1>2. CASE Wheel!Report
  BY <1>2, ReportKeeps
<1>3. CASE \E w \in Wheel!Wheels : Wheel!WheelTick(w)
  BY <1>3, TickKeeps
<1>4. CASE UNCHANGED Wheel!vars
  BY <1>4 DEF WheelInv, Wheel!vars, Wheel!TypeOK
<1> QED BY <1>1, <1>2, <1>3, <1>4 DEF Wheel!Next

LEMMA WheelImplies == WheelInv => HolesCounted
<1> SUFFICES ASSUME WheelInv, at = 0, NEW w \in Wheel!Wheels
             PROVE  /\ w \notin late => reported[w] + Wheel!Value(tick[w]) = passed[w]
                    /\ w \notin carried => reported[w] + Wheel!Value(tick[w]) <= passed[w]
  BY DEF WheelInv, HolesCounted, Wheel!HolesCounted
<1>1. carried \subseteq late
  BY WheelTypes DEF WheelInv
<1>2. w \notin carried => Counts(w, late, 0, tick[w], copy[w], reported[w], passed[w])
  BY DEF WheelInv
<1>3. Held(w, 0, tick[w], copy[w]) = Wheel!Value(tick[w])
  BY DEF Held, First
<1> QED BY <1>1, <1>2, <1>3 DEF Counts

\* Every hole of a wheel is counted in exactly one sample unless one came between
\* the reading and the clearing of its counter or found it full, for digits of any
\* base and any number of holes (SensorFrontNode/main.c).
THEOREM HolesAreCounted == Wheel!Spec => []HolesCounted
<1>1. Wheel!Spec => []WheelInv
  BY WheelBegins, WheelStep, PTL DEF Wheel!Spec
<1> QED BY <1>1, WheelImplies, PTL

-----------------------------------------------------------------------------
(***************************************************************************)
(* The heartbeat, whatever the intervals, the slack of the loops and the   *)
(* number of heartbeats lost in a row.                                     *)
(***************************************************************************)

\* How long heartbeats take of which l are lost.
Gap(l) == (l + 1) * Period

LEMMA BeatConstants ==
  /\ Period \in Nat /\ Check \in Nat /\ Timeout \in Nat /\ Slack \in Nat /\ BeatTime \in Nat /\ MaxLost \in Nat
  /\ Period > 0 /\ Check > 0 /\ Slack > 0
  /\ Slack <= Period /\ Slack <= Check
BY HeartbeatAssumed, MarginsAssumed DEF Beat!HeartbeatAssumption, Beat!Margins

LEMMA GapIs ==
  /\ \A l \in Nat : Gap(l) \in Nat /\ Gap(l + 1) = Gap(l) + Period
  /\ \A l \in 0 .. MaxLost : Gap(l) <= Gap(MaxLost)
  /\ Gap(0) = Period
  /\ Gap(MaxLost) + 2 * Slack <= Timeout
<1>1. \A l \in Nat : Gap(l) \in Nat /\ Gap(l + 1) = Gap(l) + Period
  BY BeatConstants DEF Gap
<1>2. \A l \in 0 .. MaxLost : Gap(l) <= Gap(MaxLost)
  <2> SUFFICES ASSUME NEW l \in 0 .. MaxLost PROVE (l + 1) * Period <= (MaxLost + 1) * Period
    BY DEF Gap
  <2>1. PICK d \in Nat : MaxLost = l + d
    <3>1. MaxLost - l \in Nat /\ MaxLost = l + (MaxLost - l)
      BY BeatConstants
    <3> QED BY <3>1
  <2>2. (MaxLost + 1) * Period = (l + 1) * Period + d * Period
    BY <2>1, BeatConstants
  <2>3. d * Period \in Nat /\ (l + 1) * Period \in Nat
    BY <2>1, BeatConstants
  <2> QED BY <2>2, <2>3
<1>3. Gap(0) = Period /\ Gap(MaxLost) + 2 * Slack <= Timeout
  BY BeatConstants, MarginsAssumed DEF Gap, Beat!Margins
<1> QED BY <1>1, <1>2, <1>3

\* The loops are never late by more than the slack, and their timers are ahead of
\* them, but not by more than one interval.
LoopsInTime ==
  /\ beatNow - rec_at <= Slack /\ rec_at <= timer_rec /\ timer_rec < beatNow + Check
  /\ beatPc = "read" => rec_at = beatNow
  /\ alive => beatNow - sen_at <= Slack /\ sen_at <= timer_sen

\* The sender's timer goes on from the last heartbeat that came through.
BeatsDue == timer_sen <= silent + Gap(lost) /\ timer_sen < beatNow + Period

\* The last heartbeat that came through is handled, or waits for a pass that is due.
BeatsHandled ==
  /\ beatRing = 0 /\ node_state => silent <= last_heartbeat
  /\ beatRing > 0 /\ beatPc = "top" =>
       /\ rec_at <= silent
       /\ node_state => rec_at <= last_heartbeat + Gap(MaxLost) + Slack
  /\ beatRing > 0 /\ beatPc = "read" => beatNow <= silent + Slack
  /\ node_state => last_heartbeat <= silent + Slack

\* A node that is shown passed the last check.
Checked ==
  /\ node_state => timer_rec < last_heartbeat + Timeout + Check
  /\ alive => ~declared

BeatInv == Beat!TypeOK /\ LoopsInTime /\ BeatsDue /\ BeatsHandled /\ Checked

\* While the sender runs, a heartbeat comes through in time.
LEMMA BeatComes ==
  ASSUME BeatInv, alive
  PROVE  /\ beatNow <= silent + Gap(MaxLost) + Slack
         /\ beatPc = "top" /\ node_state => beatNow - last_heartbeat <= Timeout
<1> USE DEF BeatInv
<1>1. /\ lost \in 0 .. MaxLost /\ Gap(lost) \in Nat /\ Gap(MaxLost) \in Nat /\ Gap(lost) <= Gap(MaxLost)
      /\ Gap(MaxLost) + 2 * Slack <= Timeout
  BY GapIs, BeatConstants DEF Beat!TypeOK
<1>2. /\ beatNow \in Nat /\ sen_at \in Nat /\ rec_at \in Nat /\ timer_sen \in Nat
      /\ silent \in Nat /\ last_heartbeat \in Nat /\ beatRing \in Nat
  BY BeatConstants DEF Beat!TypeOK
<1>3. beatNow <= silent + Gap(MaxLost) + Slack
  BY <1>1, <1>2, BeatConstants DEF LoopsInTime, BeatsDue
<1>4. ASSUME beatPc = "top", node_state PROVE beatNow - last_heartbeat <= Timeout
  <2>1. CASE beatRing = 0
    BY <1>1, <1>2, <1>3, <1>4, <2>1, BeatConstants DEF BeatsHandled
  <2>2. CASE beatRing > 0
    BY <1>1, <1>2, <1>4, <2>2, BeatConstants DEF BeatsHandled, LoopsInTime
  <2> QED BY <1>2, <2>1, <2>2
<1> QED BY <1>3, <1>4

\* The types, in two parts.
BeatTimes ==
  /\ beatNow \in 0 .. BeatTime
  /\ timer_sen \in 0 .. (BeatTime + Period) /\ timer_rec \in 0 .. (BeatTime + Check)
  /\ sen_at \in 0 .. beatNow /\ rec_at \in 0 .. beatNow
  /\ beatRing \in Nat /\ lost \in 0 .. MaxLost
  /\ last_heartbeat \in 0 .. beatNow /\ silent \in 0 .. beatNow
BeatFlags ==
  beatPc \in {"top", "read"} /\ alive \in BOOLEAN /\ node_state \in BOOLEAN /\ declared \in BOOLEAN

LEMMA BeatTyped == Beat!TypeOK <=> BeatTimes /\ BeatFlags
BY DEF Beat!TypeOK, BeatTimes, BeatFlags

LEMMA BeatTypedThen == Beat!TypeOK' <=> BeatTimes' /\ BeatFlags'
BY DEF Beat!TypeOK, BeatTimes, BeatFlags

LEMMA BeatNumbers ==
  ASSUME BeatInv
  PROVE  /\ beatNow \in Nat /\ sen_at \in Nat /\ rec_at \in Nat /\ timer_sen \in Nat /\ timer_rec \in Nat
         /\ silent \in Nat /\ last_heartbeat \in Nat /\ beatRing \in Nat /\ lost \in Nat
         /\ sen_at <= beatNow /\ rec_at <= beatNow /\ silent <= beatNow /\ last_heartbeat <= beatNow
         /\ beatNow <= BeatTime /\ lost <= MaxLost
         /\ alive \in BOOLEAN /\ node_state \in BOOLEAN /\ declared \in BOOLEAN
         /\ Gap(lost) \in Nat /\ Gap(MaxLost) \in Nat /\ Gap(lost) <= Gap(MaxLost)
         /\ Gap(lost + 1) = Gap(lost) + Period /\ Gap(0) = Period
BY BeatConstants, GapIs DEF BeatInv, Beat!TypeOK

LEMMA SenderPassKeeps == ASSUME BeatInv, Beat!SenderPass PROVE BeatInv'
<1>1. /\ alive /\ sen_at < beatNow /\ sen_at' = beatNow
      /\ UNCHANGED <<beatNow, rec_at, alive, timer_rec, beatPc, node_state, last_heartbeat, declared>>
  BY DEF Beat!SenderPass
<1>2. \/ /\ beatNow > timer_sen /\ timer_sen' = timer_sen + Period
         /\ beatRing' = beatRing + 1 /\ lost' = 0 /\ silent' = beatNow
      \/ /\ beatNow > timer_sen /\ timer_sen' = timer_sen + Period
         /\ lost < MaxLost /\ lost' = lost + 1 /\ beatRing' = beatRing /\ silent' = silent
      \/ ~(beatNow > timer_sen)
         /\ timer_sen' = timer_sen /\ beatRing' = beatRing /\ lost' = lost /\ silent' = silent
  BY DEF Beat!SenderPass
<1>3. Beat!TypeOK'
  <2>1. BeatTimes'
    BY <1>1, <1>2, BeatConstants, BeatNumbers, BeatTyped DEF BeatInv, BeatTimes
  <2>2. BeatFlags'
    BY <1>1, <1>2, BeatTyped DEF BeatInv, BeatFlags
  <2> QED BY <2>1, <2>2, BeatTypedThen
<1>4. LoopsInTime'
  BY <1>1, <1>2, BeatConstants, BeatNumbers DEF BeatInv, LoopsInTime
<1>5. BeatsDue'
  BY <1>1, <1>2, BeatConstants, BeatNumbers DEF BeatInv, BeatsDue
<1>6. BeatsHandled'
  <2>1. beatNow <= silent + Gap(MaxLost) + Slack
    BY <1>1, BeatComes
  <2>2. CASE beatRing' = beatRing /\ silent' = silent
    BY <1>1, <2>2 DEF BeatInv, BeatsHandled
  <2>3. CASE beatRing' = beatRing + 1 /\ silent' = beatNow
    <3>1. beatRing' > 0 /\ beatRing' # 0
      BY <2>3, BeatNumbers
    <3>2. beatRing = 0 /\ node_state => rec_at <= last_heartbeat + Gap(MaxLost) + Slack
      BY <2>1, BeatConstants, BeatNumbers DEF BeatInv, BeatsHandled
    <3>3. beatPc = "top" /\ node_state => rec_at <= last_heartbeat + Gap(MaxLost) + Slack
      BY <3>2, BeatConstants, BeatNumbers DEF BeatInv, BeatsHandled
    <3>4. rec_at <= beatNow /\ beatNow <= beatNow + Slack /\ last_heartbeat <= beatNow + Slack
      BY BeatConstants, BeatNumbers
    <3> QED BY <1>1, <2>3, <3>1, <3>3, <3>4 DEF BeatsHandled
  <2> QED BY <1>2, <2>2, <2>3
<1>7. Checked'
  BY <1>1 DEF BeatInv, Checked
<1> QED BY <1>3, <1>4, <1>5, <1>6, <1>7 DEF BeatInv

LEMMA SenderStopsKeeps == ASSUME BeatInv, Beat!SenderStops PROVE BeatInv'
<1>1. /\ alive' = FALSE
      /\ UNCHANGED <<beatNow, timer_sen, sen_at, rec_at, beatRing, timer_rec, beatPc,
                     node_state, last_heartbeat, lost, silent, declared>>
  BY DEF Beat!SenderStops
<1> QED BY <1>1 DEF BeatInv, Beat!TypeOK, LoopsInTime, BeatsDue, BeatsHandled, Checked

LEMMA ReceiverPassKeeps == ASSUME BeatInv, Beat!ReceiverPass PROVE BeatInv'
<1>1. /\ beatPc = "top" /\ rec_at < beatNow /\ rec_at' = beatNow /\ beatPc' = "read"
      /\ UNCHANGED <<beatNow, timer_sen, sen_at, alive, beatRing, last_heartbeat, lost, silent>>
  BY DEF Beat!ReceiverPass
<1> DEFINE dead == node_state /\ beatNow - last_heartbeat > Timeout
<1>2. \/ /\ beatNow > timer_rec /\ timer_rec' = timer_rec + Check
         /\ dead /\ node_state' = FALSE /\ declared' = TRUE
      \/ /\ beatNow > timer_rec /\ timer_rec' = timer_rec + Check
         /\ ~dead /\ node_state' = node_state /\ declared' = declared
      \/ /\ ~(beatNow > timer_rec) /\ timer_rec' = timer_rec
         /\ node_state' = node_state /\ declared' = declared
  <2>1. \/ /\ beatNow > timer_rec /\ timer_rec' = timer_rec + Check
           /\ node_state' = (node_state /\ ~dead) /\ declared' = (declared \/ dead)
        \/ /\ ~(beatNow > timer_rec) /\ timer_rec' = timer_rec
           /\ node_state' = node_state /\ declared' = declared
    BY DEF Beat!ReceiverPass, Beat!Dead
  <2>2. node_state \in BOOLEAN /\ declared \in BOOLEAN /\ dead \in BOOLEAN
    BY BeatNumbers
  <2> HIDE DEF dead
  <2> QED BY <2>1, <2>2
<1>3. node_state' \in BOOLEAN /\ declared' \in BOOLEAN /\ (node_state' => node_state)
  <2> HIDE DEF dead
  <2>1. \/ node_state' = FALSE /\ declared' = TRUE
        \/ node_state' = node_state /\ declared' = declared
    BY <1>2, Zenon
  <2>2. node_state \in BOOLEAN /\ declared \in BOOLEAN
    BY BeatNumbers
  <2>3. CASE node_state' = FALSE /\ declared' = TRUE
    BY <2>3
  <2>4. CASE node_state' = node_state /\ declared' = declared
    BY <2>2, <2>4
  <2> QED BY <2>1, <2>3, <2>4
<1>4. Beat!TypeOK'
  <2>1. BeatTimes'
    BY <1>1, <1>2, <1>3, BeatConstants, BeatNumbers, BeatTyped DEF BeatInv, BeatTimes
  <2>2. BeatFlags'
    BY <1>1, <1>2, <1>3, BeatTyped DEF BeatInv, BeatFlags
  <2> QED BY <2>1, <2>2, BeatTypedThen
<1>5. LoopsInTime'
  BY <1>1, <1>2, BeatConstants, BeatNumbers DEF BeatInv, LoopsInTime
<1>6. BeatsDue'
  BY <1>1 DEF BeatInv, BeatsDue
<1>7. BeatsHandled'
  <2>1. beatRing > 0 => beatNow <= silent + Slack
    BY <1>1, BeatConstants, BeatNumbers DEF BeatInv, BeatsHandled, LoopsInTime
  <2> QED BY <1>1, <1>3, <2>1 DEF BeatInv, BeatsHandled
<1>8. Checked'
  <2>1. alive /\ node_state => ~(beatNow - last_heartbeat > Timeout)
    BY <1>1, BeatComes, BeatConstants, BeatNumbers
  <2>2. alive => ~declared'
    BY <1>2, <2>1 DEF BeatInv, Checked
  <2>3. node_state' => timer_rec' < last_heartbeat + Timeout + Check
    BY <1>2, <1>3, BeatConstants, BeatNumbers DEF BeatInv, Checked
  <2> QED BY <1>1, <2>2, <2>3 DEF Checked
<1> QED BY <1>4, <1>5, <1>6, <1>7, <1>8 DEF BeatInv

LEMMA ReceiveKeeps == ASSUME BeatInv, Beat!Receive PROVE BeatInv'
<1>1. /\ beatPc = "read" /\ beatPc' = "top" /\ beatRing' = 0
      /\ UNCHANGED <<beatNow, timer_sen, sen_at, rec_at, alive, timer_rec, lost, silent, declared>>
      /\ \/ beatRing > 0 /\ last_heartbeat' = beatNow /\ node_state' = TRUE
         \/ beatRing = 0 /\ last_heartbeat' = last_heartbeat /\ node_state' = node_state
  BY BeatNumbers DEF Beat!Receive
<1>2. Beat!TypeOK'
  <2>1. BeatTimes'
    BY <1>1, BeatConstants, BeatNumbers, BeatTyped DEF BeatInv, BeatTimes
  <2>2. BeatFlags'
    BY <1>1, BeatTyped DEF BeatInv, BeatFlags
  <2> QED BY <2>1, <2>2, BeatTypedThen
<1>3. LoopsInTime' /\ BeatsDue'
  BY <1>1 DEF BeatInv, LoopsInTime, BeatsDue
<1>4. BeatsHandled'
  BY <1>1, BeatNumbers DEF BeatInv, BeatsHandled
<1>5. Checked'
  BY <1>1, BeatConstants, BeatNumbers DEF BeatInv, Checked, LoopsInTime
<1> QED BY <1>2, <1>3, <1>4, <1>5 DEF BeatInv

LEMMA PassKeeps == ASSUME BeatInv, Beat!Pass PROVE BeatInv'
<1>1. /\ beatNow < BeatTime /\ beatNow' = beatNow + 1
      /\ alive => beatNow - sen_at < Slack
      /\ beatPc = "top" /\ beatNow - rec_at < Slack
      /\ UNCHANGED <<timer_sen, sen_at, rec_at, alive, beatRing, timer_rec, beatPc,
                     node_state, last_heartbeat, lost, silent, declared>>
  BY DEF Beat!Pass
<1>2. Beat!TypeOK'
  <2>1. BeatTimes'
    BY <1>1, BeatConstants, BeatNumbers, BeatTyped DEF BeatInv, BeatTimes
  <2>2. BeatFlags'
    BY <1>1, BeatTyped DEF BeatInv, BeatFlags
  <2> QED BY <2>1, <2>2, BeatTypedThen
<1>3. LoopsInTime'
  BY <1>1, BeatConstants, BeatNumbers DEF BeatInv, LoopsInTime
<1>4. BeatsDue'
  BY <1>1, BeatConstants, BeatNumbers DEF BeatInv, BeatsDue
<1>5. BeatsHandled' /\ Checked'
  BY <1>1 DEF BeatInv, BeatsHandled, Checked
<1> QED BY <1>2, <1>3, <1>4, <1>5 DEF BeatInv

LEMMA BeatBegins == Beat!Init => BeatInv
<1> SUFFICES ASSUME Beat!Init PROVE BeatInv
  OBVIOUS
<1>1. /\ beatNow = 0 /\ timer_sen = 0 /\ sen_at = 0 /\ rec_at = 0 /\ alive = TRUE
      /\ beatRing = 0 /\ timer_rec = 0 /\ beatPc = "top"
      /\ node_state = FALSE /\ last_heartbeat = 0 /\ lost = 0 /\ silent = 0 /\ declared = FALSE
  BY DEF Beat!Init
<1>2. Beat!TypeOK
  <2>1. BeatTimes
    BY <1>1, BeatConstants DEF BeatTimes
  <2>2. BeatFlags
    BY <1>1 DEF BeatFlags
  <2> QED BY <2>1, <2>2, BeatTyped
<1> QED BY <1>1, <1>2, BeatConstants, GapIs DEF BeatInv, LoopsInTime, BeatsDue, BeatsHandled, Checked

LEMMA BeatStep == BeatInv /\ [Beat!Next]_(Beat!vars) => BeatInv'
<1> SUFFICES ASSUME BeatInv, [Beat!Next]_(Beat!vars) PROVE BeatInv'
  OBVIOUS
<1>1. CASE Beat!Next
  BY <1>1, SenderPassKeeps, SenderStopsKeeps, ReceiverPassKeeps, ReceiveKeeps, PassKeeps DEF Beat!Next
<1>2. CASE UNCHANGED Beat!vars
  BY <1>2 DEF Beat!vars, BeatInv, Beat!TypeOK, LoopsInTime, BeatsDue, BeatsHandled, Checked
<1> QED BY <1>1, <1>2

LEMMA BeatImplies == BeatInv => Reachable
<1> SUFFICES ASSUME BeatInv PROVE Reachable
  OBVIOUS
<1>1. Beat!AliveIsReachable
  BY DEF BeatInv, Checked, Beat!AliveIsReachable
<1>2. Beat!SilenceSeen
  BY BeatConstants, BeatNumbers DEF BeatInv, Checked, LoopsInTime, BeatsHandled, Beat!SilenceSeen
<1> QED BY <1>1, <1>2 DEF Reachable, BeatInv

\* A node whose sender runs is never declared unreachable, and one that is silent
\* is not shown as reachable for longer than the time-out, a check and twice the
\* slack, for all intervals within the margins.
THEOREM NodesReachable == Beat!Spec => []Reachable
<1> QED BY BeatImplies, BeatBegins, BeatStep, PTL DEF Beat!Spec

-----------------------------------------------------------------------------
(***************************************************************************)
(* The drivers that share registers, for any calls in any order.           *)
(***************************************************************************)

\* Registers a and b of timer n have these prescaler and mode bits, each where it belongs.
Has(n, a, b, cs, wgm) ==
  /\ a \subseteq Regs!CS \cup Regs!WGM_A \cup Regs!COM
  /\ b \subseteq Regs!CS \cup Regs!WGM_B
  /\ IF Regs!TwoRegisters(n) THEN a \cap Regs!CS = {} ELSE b = {}
  /\ (a \cup b) \cap Regs!CS = cs
  /\ (a \cup b) \cap (Regs!WGM_A \cup Regs!WGM_B) = wgm
CsOf(n) == (tccra[n] \cup tccrb[n]) \cap Regs!CS
WgmOf(n) == (tccra[n] \cup tccrb[n]) \cap (Regs!WGM_A \cup Regs!WGM_B)

\* Registers a and b of timer n are as q asks for.
TimerHolds(n, a, b, q) ==
  /\ Has(n, a, b, (a \cup b) \cap Regs!CS, (a \cup b) \cap (Regs!WGM_A \cup Regs!WGM_B))
  /\ q.by # "nobody" => a \cup b = Regs!Needs(q.by, n)
  /\ \A name \in q.prescalar : (a \cup b) \cap Regs!CS = Regs!PrescalarBits(n, name)
  /\ \A bits \in q.mode : (a \cup b) \cap (Regs!WGM_A \cup Regs!WGM_B) = Regs!ModeBits(n, bits)

Asked == [by : {"nobody", "clock", "pwm", "rpm"}, prescalar : SUBSET Prescalars, mode : SUBSET Modes]

TimersHold ==
  /\ tccra \in [0 .. 3 -> SUBSET (Regs!CS \cup Regs!WGM_A \cup Regs!COM)]
  /\ tccrb \in [0 .. 3 -> SUBSET (Regs!CS \cup Regs!WGM_B)]
  /\ asked \in [0 .. 3 -> Asked]
  /\ \A n \in 0 .. 3 : TimerHolds(n, tccra[n], tccrb[n], asked[n])

\* While a reading waits, its channel is selected and the conversion is on, or over
\* and of that channel.
AdcHolds ==
  /\ adcsra \subseteq Regs!ADPS \cup {"ADEN", "ADSC", "ADIF"} /\ admux \subseteq Regs!MUX \cup Regs!REFS
  /\ adc \in [channel : Nat, mux : SUBSET Regs!MUX] /\ converting \in BOOLEAN
  /\ converting => admux \cap Regs!MUX = Regs!MuxOf(adc.channel)
  /\ "ADSC" \in adcsra => converting /\ "ADIF" \notin adcsra
  /\ "ADSC" \notin adcsra => adc.mux = Regs!MuxOf(adc.channel)

\* The pins of the bridge.
BridgeHolds ==
  /\ porta \subseteq {"INA", "INB"} /\ porta = Regs!InputsOf(bridge)
  /\ "DIAGA" \notin ddra
  /\ faulty /\ "DIAGB" \notin ddra => fault # {}
  /\ ocr1a \in 0 .. 2047

RegInv == TimersHold /\ AdcHolds /\ BridgeHolds /\ ocr2a \in 0 .. 255 /\ calls \in 0 .. MaxCalls

LEMMA BitsApart ==
  /\ Regs!CS \cap (Regs!WGM_A \cup Regs!WGM_B \cup Regs!COM) = {}
  /\ (Regs!WGM_A \cup Regs!WGM_B) \cap Regs!COM = {} /\ Regs!WGM_A \cap Regs!WGM_B = {}
  /\ {"CS0", "CS1", "CS2"} = Regs!CS /\ {"WGM0", "WGM1", "WGM2", "WGM3"} = Regs!WGM_A \cup Regs!WGM_B
  /\ {"COM1"} \subseteq Regs!COM
BY DEF Regs!CS, Regs!WGM_A, Regs!WGM_B, Regs!COM

\* The bits of a field are set, and no others.
LEMMA FieldSet ==
  ASSUME NEW register, NEW bits, NEW mask
  PROVE  /\ Regs!SetRegisterBits(register, bits, mask) \cap mask = bits \cap mask
         /\ \A other : other \cap mask = {} =>
              Regs!SetRegisterBits(register, bits, mask) \cap other = register \cap other
         /\ Regs!SetRegisterBits(register, bits, mask) \subseteq register \cup mask
BY DEF Regs!SetRegisterBits

LEMMA PrescalarIs ==
  ASSUME NEW n, NEW name
  PROVE  Regs!PrescalarBits(n, name) \in SUBSET Regs!CS
<1>1. CASE n = 2
  BY <1>1 DEF Regs!PrescalarBits, Regs!CS
<1>2. CASE n # 2
  BY <1>2 DEF Regs!PrescalarBits, Regs!CS
<1> QED BY <1>1, <1>2

LEMMA PrescalarHolds ==
  ASSUME NEW n \in 0 .. 3, TimersHold, NEW bits \in SUBSET Regs!CS
  PROVE  LET r == Regs!WithPrescalar(n, bits) IN Has(n, r.a, r.b, bits, WgmOf(n))
<1>1. Has(n, tccra[n], tccrb[n], CsOf(n), WgmOf(n))
  BY DEF TimersHold, TimerHolds, CsOf, WgmOf
<1>2. CASE Regs!TwoRegisters(n)
  <2> DEFINE b == Regs!SetRegisterBits(tccrb[n], bits, Regs!CS)
  <2>1. Regs!WithPrescalar(n, bits) = [a |-> tccra[n], b |-> b]
    BY <1>2 DEF Regs!WithPrescalar
  <2>2. Has(n, tccra[n], b, bits, WgmOf(n))
    BY <1>1, <1>2, BitsApart DEF Has, Regs!SetRegisterBits
  <2> QED BY <2>1, <2>2
<1>3. CASE ~Regs!TwoRegisters(n)
  <2> DEFINE a == Regs!SetRegisterBits(tccra[n], bits, Regs!CS)
  <2>1. Regs!WithPrescalar(n, bits) = [a |-> a, b |-> tccrb[n]]
    BY <1>3 DEF Regs!WithPrescalar
  <2>2. Has(n, a, tccrb[n], bits, WgmOf(n))
    BY <1>1, <1>3, BitsApart DEF Has, Regs!SetRegisterBits
  <2> QED BY <2>1, <2>2
<1> QED BY <1>2, <1>3

LEMMA ModeHolds ==
  ASSUME NEW n \in 0 .. 3, NEW x, NEW y, NEW cs, NEW wgm, Has(n, x, y, cs, wgm),
         NEW bits \in SUBSET (Regs!WGM_A \cup Regs!WGM_B)
  PROVE  LET r == Regs!WithMode(n, [a |-> x, b |-> y], bits)
         IN Has(n, r.a, r.b, cs, Regs!ModeBits(n, bits))
<1> DEFINE a == Regs!SetRegisterBits(x, bits, Regs!WGM_A)
           b == IF Regs!TwoRegisters(n) THEN Regs!SetRegisterBits(y, bits, Regs!WGM_B) ELSE y
<1>1. Regs!WithMode(n, [a |-> x, b |-> y], bits) = [a |-> a, b |-> b]
  BY DEF Regs!WithMode
<1>2. CASE Regs!TwoRegisters(n)
  BY <1>1, <1>2, BitsApart DEF Has, Regs!ModeBits, Regs!SetRegisterBits
<1>3. CASE ~Regs!TwoRegisters(n)
  BY <1>1, <1>3, BitsApart DEF Has, Regs!ModeBits, Regs!SetRegisterBits
<1> QED BY <1>2, <1>3

\* A timer with two registers and an output.
LEMMA OutputHolds ==
  ASSUME NEW n \in {1, 3}, NEW x, NEW y, NEW cs, NEW wgm, Has(n, x, y, cs, wgm)
  PROVE  /\ Has(n, Regs!SetRegisterBits(x, {"COM1"}, Regs!COM), y, cs, wgm)
         /\ Regs!SetRegisterBits(x, {"COM1"}, Regs!COM) \cup y = cs \cup wgm \cup {"COM1"}
BY BitsApart DEF Has, Regs!SetRegisterBits

\* One timer is written.
LEMMA TimerStored ==
  ASSUME TimersHold, NEW n \in 0 .. 3, NEW a, NEW b, NEW q,
         tccra' = [tccra EXCEPT ![n] = a], tccrb' = [tccrb EXCEPT ![n] = b],
         asked' = [asked EXCEPT ![n] = q],
         q \in Asked, TimerHolds(n, a, b, q)
  PROVE  TimersHold'
<1>1. /\ a \in SUBSET (Regs!CS \cup Regs!WGM_A \cup Regs!COM)
      /\ b \in SUBSET (Regs!CS \cup Regs!WGM_B)
  BY DEF TimerHolds, Has
<1>2. /\ tccra' \in [0 .. 3 -> SUBSET (Regs!CS \cup Regs!WGM_A \cup Regs!COM)]
      /\ tccrb' \in [0 .. 3 -> SUBSET (Regs!CS \cup Regs!WGM_B)]
      /\ asked' \in [0 .. 3 -> Asked]
  BY <1>1, Zenon DEF TimersHold
<1>3. ASSUME NEW k \in 0 .. 3 PROVE TimerHolds(k, tccra'[k], tccrb'[k], asked'[k])
  <2>1. CASE k = n
    <3>1. tccra'[k] = a /\ tccrb'[k] = b /\ asked'[k] = q
      BY <2>1 DEF TimersHold
    <3> QED BY <2>1, <3>1
  <2>2. CASE k # n
    <3>1. tccra'[k] = tccra[k] /\ tccrb'[k] = tccrb[k] /\ asked'[k] = asked[k]
      BY <2>2 DEF TimersHold
    <3> QED BY <3>1 DEF TimersHold
  <2> QED BY <2>1, <2>2
<1> QED BY <1>2, <1>3 DEF TimersHold

\* What is left to ask of a timer that a driver sets up.
Whole(driver) == [by |-> driver, prescalar |-> {}, mode |-> {}]

LEMMA WholeHolds ==
  ASSUME NEW n, NEW a, NEW b, NEW cs, NEW wgm, Has(n, a, b, cs, wgm),
         NEW driver \in {"nobody", "clock", "pwm", "rpm"},
         driver # "nobody" => a \cup b = Regs!Needs(driver, n)
  PROVE  Whole(driver) \in Asked /\ TimerHolds(n, a, b, Whole(driver))
<1>1. /\ Whole(driver).by = driver /\ Whole(driver).prescalar = {} /\ Whole(driver).mode = {}
      /\ Whole(driver) \in Asked
  BY DEF Whole, Asked
<1>2. Has(n, a, b, (a \cup b) \cap Regs!CS, (a \cup b) \cap (Regs!WGM_A \cup Regs!WGM_B))
  BY DEF Has
<1> HIDE DEF Whole
<1> QED BY <1>1, <1>2 DEF TimerHolds

\* A timer with two registers drives a pin.
LEMMA PwmHolds ==
  ASSUME TimersHold, NEW n \in {1, 3}, NEW bits \in SUBSET (Regs!WGM_A \cup Regs!WGM_B), Regs!PwmInit(n, bits),
         Regs!Needs("pwm", n) = {"CS0", "CS1"} \cup bits \cup {"COM1"}
  PROVE  TimersHold'
<1>1. PICK two : two = Regs!PrescalarBits(n, "64")
  OBVIOUS
<1>2. two = {"CS0", "CS1"} /\ two \in SUBSET Regs!CS /\ n \in 0 .. 3 /\ Regs!TwoRegisters(n)
  BY <1>1 DEF Regs!PrescalarBits, Regs!CS, Regs!TwoRegisters
<1>3. PICK x : x = Regs!WithPrescalar(n, two)
  OBVIOUS
<1>4. PICK r : r = Regs!WithMode(n, x, bits)
  OBVIOUS
<1>5. Has(n, x.a, x.b, two, WgmOf(n))
  BY <1>2, <1>3, PrescalarHolds
<1>6. x = [a |-> x.a, b |-> x.b]
  BY <1>3 DEF Regs!WithPrescalar
<1>7. Has(n, r.a, r.b, two, bits)
  <2>1. r = Regs!WithMode(n, [a |-> x.a, b |-> x.b], bits)
    BY <1>4, <1>6
  <2>2. Has(n, r.a, r.b, two, Regs!ModeBits(n, bits))
    BY <1>2, <1>5, <2>1, ModeHolds
  <2> QED BY <1>2, <2>2 DEF Regs!ModeBits
<1>8. PICK a : a = Regs!SetRegisterBits(r.a, {"COM1"}, Regs!COM)
  OBVIOUS
<1>9. /\ tccra' = [tccra EXCEPT ![n] = a] /\ tccrb' = [tccrb EXCEPT ![n] = r.b]
      /\ asked' = [asked EXCEPT ![n] = Whole("pwm")]
  <2>1. r = [a |-> r.a, b |-> r.b]
    BY <1>4 DEF Regs!WithMode
  <2> QED BY <1>1, <1>3, <1>4, <1>8, <2>1 DEF Regs!PwmInit, Regs!Store, Regs!SetUpBy, Whole
<1>10. Has(n, a, r.b, two, bits) /\ a \cup r.b = two \cup bits \cup {"COM1"}
  BY <1>7, <1>8, OutputHolds
<1>11. Whole("pwm") \in Asked /\ TimerHolds(n, a, r.b, Whole("pwm"))
  <2>1. a \cup r.b = Regs!Needs("pwm", n)
    BY <1>2, <1>10
  <2> QED BY <1>10, <2>1, WholeHolds
<1> QED BY <1>2, <1>9, <1>11, TimerStored

\* A call of a timer's driver keeps the others' registers.
LEMMA TimerCallsKeep ==
  ASSUME RegInv, Regs!TimerCalls \/ Regs!pwm_PE5_init \/ Regs!sysclock_init
  PROVE  TimersHold'
<1> USE DEF RegInv
<1>1. ASSUME NEW n \in Timers, NEW name \in Prescalars, Regs!timer_set_prescalar(n, name)
      PROVE  TimersHold'
  <2>1. n \in 0 .. 3 /\ asked[n] \in Asked /\ TimerHolds(n, tccra[n], tccrb[n], asked[n])
    BY RegistersAssumed DEF Regs!PeripheralsAssumption, TimersHold
  <2>2. PICK bits, r, q : /\ bits = Regs!PrescalarBits(n, name) /\ r = Regs!WithPrescalar(n, bits)
                          /\ q = [by |-> "nobody", prescalar |-> {name}, mode |-> asked[n].mode]
    OBVIOUS
  <2>3. /\ tccra' = [tccra EXCEPT ![n] = r.a] /\ tccrb' = [tccrb EXCEPT ![n] = r.b]
        /\ asked' = [asked EXCEPT ![n] = q]
    BY <1>1, <2>1, <2>2 DEF Regs!timer_set_prescalar, Regs!Store, TimersHold
  <2>4. q.by = "nobody" /\ q.prescalar = {name} /\ q.mode = asked[n].mode /\ q \in Asked
    BY <2>1, <2>2 DEF Asked
  <2>5. Has(n, r.a, r.b, bits, WgmOf(n))
    <3>1. bits \in SUBSET Regs!CS
      BY <2>2, PrescalarIs
    <3> QED BY <2>1, <2>2, <3>1, PrescalarHolds
  <2>6. TimerHolds(n, r.a, r.b, q)
    <3>1. /\ (r.a \cup r.b) \cap Regs!CS = bits
          /\ (r.a \cup r.b) \cap (Regs!WGM_A \cup Regs!WGM_B) = WgmOf(n)
      BY <2>5 DEF Has
    <3>2. \A m \in asked[n].mode : WgmOf(n) = Regs!ModeBits(n, m)
      BY <2>1 DEF TimerHolds, WgmOf
    <3> QED BY <2>2, <2>4, <2>5, <3>1, <3>2 DEF TimerHolds
  <2> QED BY <2>1, <2>3, <2>4, <2>6, TimerStored
<1>2. ASSUME NEW n \in Timers, NEW bits \in Modes, Regs!timer_set_waveform_generation_mode(n, bits)
      PROVE  TimersHold'
  <2>1. /\ n \in 0 .. 3 /\ bits \in SUBSET (Regs!WGM_A \cup Regs!WGM_B) /\ asked[n] \in Asked
        /\ TimerHolds(n, tccra[n], tccrb[n], asked[n])
    BY RegistersAssumed, BitsApart DEF Regs!PeripheralsAssumption, TimersHold
  <2>2. PICK r, q : /\ r = Regs!WithMode(n, [a |-> tccra[n], b |-> tccrb[n]], bits)
                    /\ q = [by |-> "nobody", prescalar |-> asked[n].prescalar, mode |-> {bits}]
    OBVIOUS
  <2>3. /\ tccra' = [tccra EXCEPT ![n] = r.a] /\ tccrb' = [tccrb EXCEPT ![n] = r.b]
        /\ asked' = [asked EXCEPT ![n] = q]
    BY <1>2, <2>1, <2>2 DEF Regs!timer_set_waveform_generation_mode, Regs!Store, TimersHold
  <2>4. q.by = "nobody" /\ q.prescalar = asked[n].prescalar /\ q.mode = {bits} /\ q \in Asked
    BY <2>1, <2>2 DEF Asked
  <2>5. Has(n, r.a, r.b, CsOf(n), Regs!ModeBits(n, bits))
    <3>1. Has(n, tccra[n], tccrb[n], CsOf(n), WgmOf(n))
      BY <2>1 DEF TimerHolds, CsOf, WgmOf
    <3> QED BY <2>1, <2>2, <3>1, ModeHolds
  <2>6. TimerHolds(n, r.a, r.b, q)
    <3>1. /\ (r.a \cup r.b) \cap Regs!CS = CsOf(n)
          /\ (r.a \cup r.b) \cap (Regs!WGM_A \cup Regs!WGM_B) = Regs!ModeBits(n, bits)
      BY <2>5 DEF Has
    <3>2. \A name \in asked[n].prescalar : CsOf(n) = Regs!PrescalarBits(n, name)
      BY <2>1 DEF TimerHolds, CsOf
    <3> QED BY <2>4, <2>5, <3>1, <3>2 DEF TimerHolds
  <2> QED BY <2>1, <2>3, <2>4, <2>6, TimerStored
<1>3. CASE Regs!pwm_PE5_init
  <2>1. /\ 3 \in {1, 3} /\ {"WGM1", "WGM2", "WGM3"} \in SUBSET (Regs!WGM_A \cup Regs!WGM_B)
        /\ Regs!PwmInit(3, {"WGM1", "WGM2", "WGM3"})
    BY <1>3, BitsApart DEF Regs!pwm_PE5_init
  <2>2. Regs!Needs("pwm", 3) = {"CS0", "CS1"} \cup {"WGM1", "WGM2", "WGM3"} \cup {"COM1"}
    BY DEF Regs!Needs
  <2> QED BY <2>1, <2>2, PwmHolds
<1>4. CASE Regs!sysclock_init
  <2>1. PICK a, b : a = {} /\ b = {"WGM2", "CS0"}
    OBVIOUS
  <2>2. /\ tccra' = [tccra EXCEPT ![3] = a] /\ tccrb' = [tccrb EXCEPT ![3] = b]
        /\ asked' = [asked EXCEPT ![3] = Whole("clock")]
    BY <1>4, <2>1 DEF Regs!sysclock_init, Regs!Store, Regs!SetUpBy, Whole
  <2>3. Has(3, a, b, {"CS0"}, {"WGM2"}) /\ a \cup b = Regs!Needs("clock", 3)
    BY <2>1 DEF Has, Regs!Needs, Regs!TwoRegisters, Regs!CS, Regs!WGM_A, Regs!WGM_B, Regs!COM
  <2>4. 3 \in 0 .. 3
    OBVIOUS
  <2>5. Whole("clock") \in Asked /\ TimerHolds(3, a, b, Whole("clock"))
    BY <2>3, WholeHolds
  <2> QED BY <2>2, <2>4, <2>5, TimerStored
<1> QED BY <1>1, <1>2, <1>3, <1>4 DEF Regs!TimerCalls

LEMMA CallsCounted ==
  ASSUME RegInv, Regs!Called
  PROVE  calls' \in 0 .. MaxCalls
BY RegistersAssumed DEF RegInv, Regs!Called, Regs!PeripheralsAssumption

LEMMA TimerStep ==
  ASSUME RegInv, Regs!TimerCalls \/ Regs!pwm_PE5_init \/ Regs!sysclock_init
  PROVE  RegInv'
<1>1. /\ Regs!Called
      /\ UNCHANGED <<adcsra, admux, converting, adc, ddra, porta, ocr1a, fault, bridge, faulty, ocr2a>>
  BY DEF Regs!TimerCalls, Regs!timer_set_prescalar, Regs!timer_set_waveform_generation_mode,
       Regs!pwm_PE5_init, Regs!sysclock_init, Regs!adcs, Regs!pins
<1>2. AdcHolds' /\ BridgeHolds' /\ ocr2a' \in 0 .. 255
  BY <1>1 DEF RegInv, AdcHolds, BridgeHolds
<1> QED BY <1>1, <1>2, TimerCallsKeep, CallsCounted DEF RegInv

\* The revolution counter finds its timer as it needs it, or as nobody's.
LEMMA RpmInitKeeps == ASSUME RegInv, Regs!rpm_init PROVE RegInv'
<1> USE DEF RegInv
<1>1. /\ Regs!Called
      /\ UNCHANGED <<tccrb, adcsra, admux, converting, adc, ddra, porta, ocr1a, fault, bridge, faulty>>
      /\ ocr2a' = 0
  BY DEF Regs!rpm_init, Regs!adcs, Regs!pins
<1>2. 2 \in 0 .. 3 /\ ~Regs!TwoRegisters(2) /\ TimerHolds(2, tccra[2], tccrb[2], asked[2])
  BY DEF TimersHold, Regs!TwoRegisters
<1>3. PICK a, driver : /\ a = tccra[2] \cup {"WGM0", "WGM1", "CS1", "COM1"}
                       /\ driver = IF tccra[2] = {} \/ asked[2].by = "rpm" THEN "rpm" ELSE "nobody"
  OBVIOUS
<1>4. tccra' = [tccra EXCEPT ![2] = a] /\ tccrb' = [tccrb EXCEPT ![2] = tccrb[2]]
  BY <1>1, <1>3 DEF Regs!rpm_init, TimersHold
<1>5. asked' = [asked EXCEPT ![2] = Whole(driver)]
  BY <1>3 DEF Regs!rpm_init, Regs!SetUpBy, Whole
<1>6. Has(2, a, tccrb[2], a \cap Regs!CS, a \cap (Regs!WGM_A \cup Regs!WGM_B)) /\ tccrb[2] = {}
  BY <1>2, <1>3 DEF TimerHolds, Has, Regs!CS, Regs!WGM_A, Regs!WGM_B, Regs!COM
<1>7. driver \in {"nobody", "clock", "pwm", "rpm"} /\ (driver # "nobody" => driver = "rpm")
  BY <1>3
<1>8. driver = "rpm" => a \cup tccrb[2] = Regs!Needs("rpm", 2)
  <2>1. Regs!Needs("rpm", 2) = {"CS1", "COM1", "WGM0", "WGM1"}
    BY DEF Regs!Needs
  <2>2. asked[2].by = "rpm" => tccra[2] = {"CS1", "COM1", "WGM0", "WGM1"}
    BY <1>2, <1>6, <2>1 DEF TimerHolds
  <2> QED BY <1>3, <1>6, <2>1, <2>2
<1>9. Whole(driver) \in Asked /\ TimerHolds(2, a, tccrb[2], Whole(driver))
  BY <1>6, <1>7, <1>8, WholeHolds
<1>10. TimersHold'
  BY <1>2, <1>4, <1>5, <1>9, TimerStored
<1>11. AdcHolds' /\ BridgeHolds'
  BY <1>1 DEF AdcHolds, BridgeHolds
<1> QED BY <1>1, <1>10, <1>11, CallsCounted

\* A part of a span, scaled to a range, stays in it.
LEMMA Divided ==
  ASSUME NEW d \in Nat \ {0}, NEW n \in Nat, NEW top \in Nat, n <= top * d
  PROVE  n \div d \in 0 .. top
<1>1. PICK e \in Int : e = n \div d
  OBVIOUS
<1>2. PICK r \in 0 .. d - 1 : n = e * d + r
  BY <1>1
<1>3. e <= top
  <2>1. CASE e >= top + 1
    <3>1. e * d >= (top + 1) * d
      BY <2>1
    <3> QED BY <1>2, <3>1
  <2> QED BY <2>1
<1>4. e >= 0
  <2>1. CASE e <= -1
    <3>1. e * d <= (-1) * d
      BY <2>1
    <3> QED BY <1>2, <3>1
  <2> QED BY <2>1
<1> QED BY <1>1, <1>3, <1>4

LEMMA MapIs ==
  ASSUME NEW x \in Int, NEW low \in Int, NEW high \in Int, NEW top \in Nat, low < high
  PROVE  Regs!Map(x, low, high, top) \in 0 .. top
<1>1. PICK kept : kept = IF x < low THEN low ELSE IF x > high THEN high ELSE x
  OBVIOUS
<1>2. kept \in low .. high
  BY <1>1
<1>3. PICK z \in Nat, d \in Nat \ {0} : z = kept - low /\ d = high - low
  BY <1>2
<1>4. z <= d
  BY <1>2, <1>3
<1>5. PICK n : n = z * top
  OBVIOUS
<1>6. n \in Nat /\ n <= top * d
  BY <1>3, <1>4, <1>5
<1>7. Regs!Map(x, low, high, top) = ((kept - low) * top) \div (high - low)
  BY <1>1, Zenon DEF Regs!Map
<1>8. Regs!Map(x, low, high, top) = n \div d
  BY <1>3, <1>5, <1>7, Zenon
<1>9. n \div d \in 0 .. top
  BY <1>6, Divided
<1> QED BY <1>8, <1>9, Zenon

LEMMA SetRpmKeeps ==
  ASSUME RegInv, NEW x \in Rpms, NEW three \in BOOLEAN, Regs!set_rpm(x, three)
  PROVE  RegInv'
<1> USE DEF RegInv
<1>1. /\ Regs!Called
      /\ UNCHANGED <<tccra, tccrb, asked, adcsra, admux, converting, adc, ddra, porta, ocr1a, fault,
                     bridge, faulty>>
  BY DEF Regs!set_rpm, Regs!adcs, Regs!pins, Regs!timers
<1>2. x \in Int
  BY RegistersAssumed DEF Regs!PeripheralsAssumption
<1>3. ocr2a' \in {255, 125, 65, 0} \cup 0 .. 175
  <2>1. CASE three
    BY <1>2, <2>1 DEF Regs!set_rpm
  <2>2. CASE ~three
    <3>1. 3300 \in Int /\ 13000 \in Int /\ 175 \in Nat /\ 3300 < 13000
      OBVIOUS
    <3>2. Regs!Map(x, 3300, 13000, 175) \in 0 .. 175
      <4>1. PICK low \in Int, high \in Int, top \in Nat : low = 3300 /\ high = 13000 /\ top = 175
        BY <3>1
      <4>2. low < high
        BY <4>1
      <4>3. Regs!Map(x, low, high, top) \in 0 .. top
        BY <1>2, <4>2, MapIs
      <4> QED BY <4>1, <4>3
    <3>3. ocr2a' = Regs!Map(x, 3300, 13000, 175)
      BY <2>2 DEF Regs!set_rpm
    <3> QED BY <3>2, <3>3
  <2> QED BY <2>1, <2>2
<1>4. TimersHold' /\ AdcHolds' /\ BridgeHolds'
  BY <1>1 DEF TimersHold, AdcHolds, BridgeHolds
<1> QED BY <1>1, <1>3, <1>4, CallsCounted

-----------------------------------------------------------------------------
LEMMA AdcInitKeeps ==
  ASSUME RegInv, NEW c \in Channels, NEW v \in SUBSET Regs!REFS, NEW p \in {{}, {"ADPS1"}},
         Regs!adc_init(c, v, p)
  PROVE  RegInv'
<1> USE DEF RegInv
<1>1. /\ Regs!Called /\ ~converting
      /\ admux' \subseteq admux \cup Regs!MUX \cup Regs!REFS
      /\ adcsra' \subseteq adcsra \cup Regs!ADPS \cup {"ADEN"}
      /\ UNCHANGED <<tccra, tccrb, asked, converting, adc, ddra, porta, ocr1a, ocr2a, fault,
                     bridge, faulty>>
  BY DEF Regs!adc_init, Regs!Called, Regs!Rewrite, Regs!SetRegisterBits, Regs!pins, Regs!timers
<1>2. "ADSC" \notin adcsra /\ "ADSC" \notin adcsra'
  BY <1>1 DEF AdcHolds, Regs!ADPS
<1>3. AdcHolds'
  BY <1>1, <1>2 DEF AdcHolds
<1>4. TimersHold' /\ BridgeHolds'
  BY <1>1 DEF TimersHold, BridgeHolds
<1> QED BY <1>1, <1>3, <1>4, CallsCounted

LEMMA FieldsApart ==
  /\ Regs!MUX \cap Regs!REFS = {} /\ "ADSC" \notin Regs!ADPS /\ "ADIF" \notin Regs!ADPS
  /\ \A c : Regs!MuxOf(c) \subseteq Regs!MUX
BY DEF Regs!MUX, Regs!REFS, Regs!ADPS, Regs!MuxOf

\* A reading begins: its channel is selected and the flag of the last is gone.
LEMMA ReadChannelKeeps ==
  ASSUME RegInv, NEW c \in Channels, Regs!adc_readChannel(c)
  PROVE  RegInv'
<1> USE DEF RegInv
<1>1. /\ Regs!Called
      /\ admux' = Regs!SetRegisterBits(admux, Regs!MuxOf(c), Regs!MUX)
      /\ adcsra' = (adcsra \cup {"ADSC"}) \ {"ADIF"}
      /\ converting' = TRUE /\ adc' = [adc EXCEPT !.channel = c]
      /\ UNCHANGED <<tccra, tccrb, asked, ddra, porta, ocr1a, ocr2a, fault, bridge, faulty>>
  BY DEF Regs!adc_readChannel, Regs!Rewrite, Regs!pins, Regs!timers
<1>2. c \in Nat
  BY RegistersAssumed DEF Regs!PeripheralsAssumption
<1>3. adc' \in [channel : Nat, mux : SUBSET Regs!MUX] /\ adc'.channel = c
  BY <1>1, <1>2 DEF AdcHolds
<1>4. admux' \cap Regs!MUX = Regs!MuxOf(c) /\ admux' \subseteq Regs!MUX \cup Regs!REFS
  BY <1>1, FieldsApart DEF AdcHolds, Regs!SetRegisterBits
<1>5. AdcHolds'
  BY <1>1, <1>3, <1>4 DEF AdcHolds
<1>6. TimersHold' /\ BridgeHolds'
  BY <1>1 DEF TimersHold, BridgeHolds
<1> QED BY <1>1, <1>5, <1>6, CallsCounted

LEMMA ConversionEndsKeeps == ASSUME RegInv, Regs!ConversionEnds PROVE RegInv'
<1> USE DEF RegInv
<1>1. /\ "ADSC" \in adcsra
      /\ adcsra' = (adcsra \ {"ADSC"}) \cup {"ADIF"}
      /\ adc' = [adc EXCEPT !.mux = admux \cap Regs!MUX]
      /\ UNCHANGED <<tccra, tccrb, asked, ddra, porta, ocr1a, ocr2a, fault, bridge, faulty,
                     admux, converting, calls>>
  BY DEF Regs!ConversionEnds, Regs!pins, Regs!timers
<1>2. /\ adc' \in [channel : Nat, mux : SUBSET Regs!MUX]
      /\ adc'.channel = adc.channel /\ adc'.mux = admux \cap Regs!MUX
  BY <1>1 DEF AdcHolds
<1>3. AdcHolds'
  BY <1>1, <1>2 DEF AdcHolds
<1>4. TimersHold' /\ BridgeHolds'
  BY <1>1 DEF TimersHold, BridgeHolds
<1> QED BY <1>1, <1>3, <1>4

LEMMA AdcReadKeeps == ASSUME RegInv, Regs!adc_read PROVE RegInv'
<1> USE DEF RegInv
<1>1. /\ converting /\ "ADIF" \in adcsra /\ adcsra' = adcsra \ {"ADIF"} /\ converting' = FALSE
      /\ UNCHANGED <<tccra, tccrb, asked, ddra, porta, ocr1a, ocr2a, fault, bridge, faulty,
                     admux, adc, calls>>
  BY DEF Regs!adc_read, Regs!Rewrite, Regs!pins, Regs!timers
<1>2. AdcHolds'
  BY <1>1 DEF AdcHolds
<1>3. TimersHold' /\ BridgeHolds'
  BY <1>1 DEF TimersHold, BridgeHolds
<1> QED BY <1>1, <1>2, <1>3

-----------------------------------------------------------------------------
LEMMA BridgeInitKeeps == ASSUME RegInv, Regs!vnh2sp30_init PROVE RegInv'
<1> USE DEF RegInv
<1>1. /\ Regs!Called /\ ~converting
      /\ ddra' = (ddra \cup {"INA", "INB"}) \ {"DIAGA"}
      /\ admux' \subseteq admux \cup Regs!REFS
      /\ adcsra' \subseteq adcsra \cup Regs!ADPS \cup {"ADEN"}
      /\ Regs!PwmInit(1, {"WGM1", "WGM3"})
      /\ UNCHANGED <<porta, ocr1a, ocr2a, fault, bridge, faulty, converting, adc>>
  BY DEF Regs!vnh2sp30_init, Regs!Called, Regs!Rewrite, Regs!SetRegisterBits
<1>2. TimersHold'
  <2>1. /\ 1 \in {1, 3} /\ {"WGM1", "WGM3"} \in SUBSET (Regs!WGM_A \cup Regs!WGM_B)
        /\ Regs!Needs("pwm", 1) = {"CS0", "CS1"} \cup {"WGM1", "WGM3"} \cup {"COM1"}
    BY BitsApart DEF Regs!Needs
  <2> QED BY <1>1, <2>1, PwmHolds
<1>3. "ADSC" \notin adcsra /\ "ADSC" \notin adcsra'
  BY <1>1 DEF AdcHolds, Regs!ADPS
<1>4. AdcHolds'
  BY <1>1, <1>3 DEF AdcHolds
<1>5. BridgeHolds'
  BY <1>1 DEF BridgeHolds
<1> QED BY <1>1, <1>2, <1>4, <1>5, CallsCounted

\* The three writes that drive the motor, and the one that stops it for a reset.
LEMMA DriveKeeps ==
  ASSUME RegInv, NEW d \in {"up", "down", "vcc", "gnd"}, Regs!Drive(d)
  PROVE  RegInv'
<1> USE DEF RegInv
<1>1. /\ Regs!Called /\ bridge' = d /\ ocr1a' = 100 * (2047 \div 100)
      /\ porta' = Regs!SetRegisterBits(porta, Regs!InputsOf(d), {"INA", "INB"})
      /\ UNCHANGED <<tccra, tccrb, asked, adcsra, admux, converting, adc, ocr2a, ddra, fault, faulty>>
  BY DEF Regs!Drive, Regs!InputsOf, Regs!timers, Regs!adcs
<1>2. Regs!InputsOf(d) \subseteq {"INA", "INB"}
  BY DEF Regs!InputsOf
<1>3. porta' = Regs!InputsOf(d) /\ porta' \subseteq {"INA", "INB"}
  BY <1>1, <1>2 DEF BridgeHolds, Regs!SetRegisterBits
<1>4. BridgeHolds'
  <2>1. ocr1a' \in 0 .. 2047
    BY <1>1
  <2> QED BY <1>1, <1>3, <2>1 DEF BridgeHolds
<1>5. TimersHold' /\ AdcHolds'
  BY <1>1 DEF TimersHold, AdcHolds
<1> QED BY <1>1, <1>4, <1>5, CallsCounted

\* A fault is read at a pin that is an input: nobody makes it an output but a reset.
LEMMA FaultyKeeps == ASSUME RegInv, Regs!vnh2sp30_is_faulty PROVE RegInv'
<1> USE DEF RegInv
<1>1. /\ Regs!Called /\ faulty' = (Regs!Low("DIAGA") \/ Regs!Low("DIAGB"))
      /\ UNCHANGED <<tccra, tccrb, asked, adcsra, admux, converting, adc, ocr2a, ddra, porta, ocr1a,
                     fault, bridge>>
  BY DEF Regs!vnh2sp30_is_faulty, Regs!timers, Regs!adcs
<1>2. faulty' /\ "DIAGB" \notin ddra' => fault' # {}
  <2> SUFFICES ASSUME faulty', "DIAGB" \notin ddra PROVE fault # {}
    BY <1>1
  <2>1. CASE Regs!Low("DIAGA")
    BY <2>1 DEF BridgeHolds, Regs!Low
  <2>2. CASE Regs!Low("DIAGB")
    BY <2>2 DEF BridgeHolds, Regs!Low
  <2> QED BY <1>1, <2>1, <2>2
<1>3. BridgeHolds'
  BY <1>1, <1>2 DEF BridgeHolds
<1>4. TimersHold' /\ AdcHolds'
  BY <1>1 DEF TimersHold, AdcHolds
<1> QED BY <1>1, <1>3, <1>4, CallsCounted

LEMMA ResetKeeps == ASSUME RegInv, Regs!vnh2sp30_reset PROVE RegInv'
<1> USE DEF RegInv
<1>1. /\ Regs!Called /\ ocr1a' = 0 /\ bridge' = "gnd"
      /\ ddra' = (ddra \cup {"DIAGB"}) \ {"DIAGA"}
      /\ porta' = porta \ {"INA", "INB", "DIAGA", "DIAGB"}
      /\ UNCHANGED <<tccra, tccrb, asked, adcsra, admux, converting, adc, ocr2a, fault, faulty>>
  BY DEF Regs!vnh2sp30_reset, Regs!timers, Regs!adcs
<1>2. porta' = {} /\ Regs!InputsOf("gnd") = {}
  BY <1>1 DEF BridgeHolds, Regs!InputsOf
<1>3. BridgeHolds'
  BY <1>1, <1>2 DEF BridgeHolds
<1>4. TimersHold' /\ AdcHolds'
  BY <1>1 DEF TimersHold, AdcHolds
<1> QED BY <1>1, <1>3, <1>4, CallsCounted

LEMMA BridgeFailsKeeps == ASSUME RegInv, Regs!BridgeFails PROVE RegInv'
<1>1. /\ fault' # {}
      /\ UNCHANGED <<tccra, tccrb, asked, adcsra, admux, converting, adc, ocr2a, ddra, porta, ocr1a,
                     bridge, faulty, calls>>
  BY DEF Regs!BridgeFails, Regs!timers, Regs!adcs
<1> QED BY <1>1 DEF RegInv, TimersHold, AdcHolds, BridgeHolds

LEMMA RegistersBegin == Regs!Init => RegInv
<1> SUFFICES ASSUME Regs!Init PROVE RegInv
  OBVIOUS
<1>1. TimersHold
  <2>1. asked = [t \in 0 .. 3 |-> Whole("nobody")]
    BY DEF Regs!Init, Whole
  <2>2. ASSUME NEW n \in 0 .. 3
        PROVE  Whole("nobody") \in Asked /\ TimerHolds(n, {}, {}, Whole("nobody"))
    <3>1. Has(n, {}, {}, {}, {})
      BY DEF Has
    <3> QED BY <3>1, WholeHolds
  <2>3. \A n \in 0 .. 3 : TimerHolds(n, tccra[n], tccrb[n], asked[n])
    BY <2>1, <2>2 DEF Regs!Init
  <2>4. Whole("nobody") \in Asked
    BY <2>2
  <2> QED BY <2>1, <2>3, <2>4 DEF Regs!Init, TimersHold
<1>2. AdcHolds
  <2>1. Regs!MuxOf(0) = {}
    BY DEF Regs!MuxOf
  <2> QED BY <2>1 DEF Regs!Init, AdcHolds
<1>3. BridgeHolds
  BY DEF Regs!Init, BridgeHolds, Regs!InputsOf
<1> QED BY <1>1, <1>2, <1>3, RegistersAssumed DEF RegInv, Regs!Init, Regs!PeripheralsAssumption

LEMMA RegistersStep == RegInv /\ [Regs!Next]_(Regs!vars) => RegInv'
<1> SUFFICES ASSUME RegInv, [Regs!Next]_(Regs!vars) PROVE RegInv'
  OBVIOUS
<1>1. CASE Regs!TimerCalls \/ Regs!pwm_PE5_init \/ Regs!sysclock_init
  BY <1>1, TimerStep
<1>2. CASE Regs!rpm_init
  BY <1>2, RpmInitKeeps
<1>3. ASSUME NEW x \in Rpms, NEW three \in BOOLEAN, Regs!set_rpm(x, three) PROVE RegInv'
  BY <1>3, SetRpmKeeps
<1>4. CASE Regs!AdcCalls
  BY <1>4, AdcInitKeeps, ReadChannelKeeps DEF Regs!AdcCalls
<1>5. CASE Regs!ConversionEnds \/ Regs!adc_read
  BY <1>5, ConversionEndsKeeps, AdcReadKeeps
<1>6. CASE Regs!vnh2sp30_init \/ Regs!vnh2sp30_is_faulty \/ Regs!vnh2sp30_reset \/ Regs!BridgeFails
  BY <1>6, BridgeInitKeeps, FaultyKeeps, ResetKeeps, BridgeFailsKeeps
<1>7. ASSUME NEW d \in {"up", "down", "vcc", "gnd"}, Regs!Drive(d) PROVE RegInv'
  BY <1>7, DriveKeeps
<1>8. CASE UNCHANGED Regs!vars
  BY <1>8 DEF Regs!vars, RegInv, TimersHold, AdcHolds, BridgeHolds
<1> QED BY <1>1, <1>2, <1>3, <1>4, <1>5, <1>6, <1>7, <1>8 DEF Regs!Next

LEMMA RegistersImply == RegInv => SettingsHold
<1> SUFFICES ASSUME RegInv PROVE SettingsHold
  OBVIOUS
<1>1. Regs!TimersHold
  BY DEF RegInv, TimersHold, TimerHolds, Regs!TimersHold, Regs!Setting
<1>2. Regs!ChannelRead
  BY DEF RegInv, AdcHolds, Regs!ChannelRead
<1>3. Regs!BridgeTrue
  BY DEF RegInv, BridgeHolds, Regs!BridgeTrue
<1>4. Regs!TypeOK
  BY DEF RegInv, TimersHold, TimerHolds, Has, AdcHolds, BridgeHolds, Regs!TypeOK
<1> QED BY <1>1, <1>2, <1>3, <1>4 DEF SettingsHold, Regs!SettingsHold

\* Drivers change the shared registers bit by bit, in any order: every bit of a timer
\* is as the driver needs it that set it up last, until this timer is set again, and
\* the prescaler and mode that a program asked for itself likewise; a reading is of its
\* channel, the motor's inputs are those of the last direction, and a fault reported
\* while the pin of half B is an input is one.
THEOREM SettingsKept == Regs!Spec => []SettingsHold
<1> QED BY RegistersImply, RegistersBegin, RegistersStep, PTL DEF Regs!Spec

-----------------------------------------------------------------------------
(***************************************************************************)
(* The values of the ECU, for all bytes.                                   *)
(***************************************************************************)
LEMMA Powers ==
  /\ Ecu!Power[24] \in Nat \ {0}
  /\ \A e \in 0 .. 23 :
       /\ Ecu!Power[e + 1] \in Nat \ {0} /\ Ecu!Power[24 - e] \in Nat \ {0}
       /\ Ecu!Power[e + 2] = 2 * Ecu!Power[e + 1]
       /\ Ecu!Power[e + 1] * Ecu!Power[24 - e] = Ecu!Power[24]
BY DEF Ecu!Power

\* Its size has an exponent.
LEMMA SizeFits ==
  ASSUME NEW size \in Nat \ {0}, size < Ecu!Power[17]
  PROVE  \E e \in 0 .. 23 : Ecu!Power[e + 1] <= size /\ size < Ecu!Power[e + 2]
BY DEF Ecu!Power

LEMMA ExponentChosen ==
  ASSUME NEW size, \E e \in 0 .. 23 : Ecu!Power[e + 1] <= size /\ size < Ecu!Power[e + 2]
  PROVE  \E e \in 0 .. 23 : /\ e = Ecu!Exponent(size)
                            /\ Ecu!Power[e + 1] <= size /\ size < Ecu!Power[e + 2]
BY Zenon DEF Ecu!Exponent

\* A fraction of less than two to the power 23.
LEMMA FractionIs ==
  ASSUME NEW P \in Nat \ {0}, NEW Q \in Nat \ {0}, NEW size \in Nat, P <= size, size < 2 * P
  PROVE  (size - P) * Q \in Nat /\ (size - P) * Q < P * Q
<1>1. PICK k \in Nat : k = size - P /\ k < P
  OBVIOUS
<1>2. k * Q \in Nat /\ k * Q < P * Q
  BY <1>1
<1> QED BY <1>1, <1>2, Zenon

LEMMA FloatTyped ==
  ASSUME NEW neg \in BOOLEAN, NEW e \in 0 .. 254, NEW f \in Nat, f < Ecu!Power[24]
  PROVE  /\ [negative |-> neg, exponent |-> e, fraction |-> f] \in Ecu!Floats
         /\ ~Ecu!Above([negative |-> neg, exponent |-> e, fraction |-> f])
<1>1. Ecu!Power[24] \in Nat \ {0}
  BY Powers
<1>2. f \in 0 .. Ecu!Power[24] - 1
  BY <1>1
<1> QED BY <1>2 DEF Ecu!Floats, Ecu!Above

\* A float of a small number: its exponent is far below that of the numbers that
\* clamp corrects.
LEMMA FloatIs ==
  ASSUME NEW n \in Int, Ecu!Size(n) < Ecu!Power[17]
  PROVE  Ecu!FloatBits(n) \in Ecu!Floats /\ ~Ecu!Above(Ecu!FloatBits(n))
<1>1. CASE n = 0
  <2>1. FALSE \in BOOLEAN /\ 0 \in 0 .. 254 /\ 0 \in Nat /\ 0 < Ecu!Power[24]
    BY Powers
  <2>2. Ecu!FloatBits(n) = [negative |-> FALSE, exponent |-> 0, fraction |-> 0]
    BY <1>1, Zenon DEF Ecu!FloatBits
  <2>3. /\ [negative |-> FALSE, exponent |-> 0, fraction |-> 0] \in Ecu!Floats
        /\ ~Ecu!Above([negative |-> FALSE, exponent |-> 0, fraction |-> 0])
    BY <2>1, FloatTyped
  <2> QED BY <2>2, <2>3, Zenon
<1>2. CASE n # 0
  <2>1. PICK size \in Nat \ {0} : size = Ecu!Size(n) /\ size < Ecu!Power[17]
    BY <1>2 DEF Ecu!Size
  <2>2. PICK e \in 0 .. 23 :
          e = Ecu!Exponent(size) /\ Ecu!Power[e + 1] <= size /\ size < Ecu!Power[e + 2]
    <3>1. \E e \in 0 .. 23 : Ecu!Power[e + 1] <= size /\ size < Ecu!Power[e + 2]
      BY <2>1, SizeFits
    <3> QED BY <3>1, ExponentChosen
  <2>3. PICK P \in Nat \ {0} : P = Ecu!Power[e + 1] /\ P <= size /\ size < 2 * P
    BY <2>2, Powers
  <2>4. PICK Q \in Nat \ {0} : Q = Ecu!Power[24 - e] /\ P * Q = Ecu!Power[24]
    BY <2>2, <2>3, Powers
  <2>5. PICK f \in Nat : f = (size - P) * Q /\ f < P * Q
    BY <2>3, <2>4, FractionIs
  <2>6. f < Ecu!Power[24]
    BY <2>4, <2>5
  <2>7. PICK x \in 0 .. 254 : x = e + 127
    BY <2>2
  <2>8. (n < 0) \in BOOLEAN
    OBVIOUS
  <2>9. Ecu!FloatBits(n) = [negative |-> n < 0, exponent |-> x, fraction |-> f]
    BY <1>2, <2>1, <2>2, <2>3, <2>4, <2>5, <2>7, Zenon DEF Ecu!FloatBits
  <2>10. /\ [negative |-> n < 0, exponent |-> x, fraction |-> f] \in Ecu!Floats
         /\ ~Ecu!Above([negative |-> n < 0, exponent |-> x, fraction |-> f])
    BY <2>6, <2>8, FloatTyped, Zenon
  <2> QED BY <2>9, <2>10, Zenon
<1> QED BY <1>1, <1>2

LEMMA ClampFindsNothing ==
  ASSUME NEW n \in Int, Ecu!Size(n) < Ecu!Power[17]
  PROVE  Ecu!clamp(Ecu!FloatBits(n)) = Ecu!FloatBits(n)
BY FloatIs, Zenon DEF Ecu!clamp

\* The upper byte of a value of two bytes, shifted.
High(b) == Ecu!Int16(256 * b)

LEMMA Shifts ==
  ASSUME NEW b \in 0 .. 255
  PROVE  /\ Ecu!Shift(b, 0) = b /\ Ecu!Shift(b, 8) = High(b)
         /\ Ecu!Shift(b, 16) = 0 /\ Ecu!Shift(b, 24) = 0
<1>1. Ecu!Power[1] = 1 /\ Ecu!Power[9] = 256
  BY DEF Ecu!Power
<1>2. Ecu!Shift(b, 0) = Ecu!Int16(b * Ecu!Power[0 + 1]) /\ Ecu!Shift(b, 8) = Ecu!Int16(b * Ecu!Power[8 + 1])
  BY DEF Ecu!Shift
<1>3. Ecu!Int16(b) = b
  BY DEF Ecu!Int16
<1>4. Ecu!Shift(b, 16) = 0 /\ Ecu!Shift(b, 24) = 0
  BY DEF Ecu!Shift
<1>5. b * 1 = b /\ b * 256 = 256 * b /\ 0 + 1 = 1 /\ 8 + 1 = 9
  OBVIOUS
<1> QED BY <1>1, <1>2, <1>3, <1>4, <1>5 DEF High

Small(n) == n \in Int /\ Ecu!Size(n) < Ecu!Power[17]

LEMMA SmallIs ==
  ASSUME NEW n \in Int, -65535 <= n, n <= 65535
  PROVE  Small(n)
<1>1. Ecu!Power[17] = 65536
  BY DEF Ecu!Power
<1> QED BY <1>1 DEF Ecu!Size, Small

LEMMA WrapIs ==
  ASSUME NEW b \in 0 .. 255
  PROVE  High(b) = IF b < 128 THEN 256 * b ELSE 256 * b - 65536
BY DEF High, Ecu!Int16

\* The sum of the shifted bytes is the signed number that they stand for.
LEMMA SumSigned ==
  ASSUME NEW b \in 0 .. 255, NEW c \in 0 .. 255
  PROVE  High(b) + c = Ecu!Signed(b, c)
<1>1. CASE b < 128
  BY <1>1, WrapIs DEF Ecu!Signed
<1>2. CASE b >= 128
  BY <1>2, WrapIs DEF Ecu!Signed
<1> QED BY <1>1, <1>2

LEMMA SumSmall ==
  ASSUME NEW b \in 0 .. 255, NEW c \in 0 .. 255
  PROVE  Small(High(b)) /\ Small(Ecu!Signed(b, c)) /\ Small(b)
<1>1. PICK w \in Int : w = High(b) /\ -32768 <= w /\ w <= 32767
  BY WrapIs
<1>2. PICK z \in Int : z = Ecu!Signed(b, c) /\ -32768 <= z /\ z <= 32767
  BY DEF Ecu!Signed
<1>3. Small(w) /\ Small(z) /\ Small(b)
  BY <1>1, <1>2, SmallIs
<1> QED BY <1>1, <1>2, <1>3

LEMMA EntryLength == ASSUME NEW x \in Ecu!Entries PROVE x.len \in {1, 2, 4}
BY DEF Ecu!Entries

\* The number that the bytes read so far have left.
ValueSoFar ==
  /\ entryLen >= 2 => raw_value = 0
  /\ entryLen = 1 => raw_value = IF entry.len = 1 THEN 0 ELSE High(taken[Len(taken)])
  /\ entryLen = 0 => raw_value = Ecu!Meaning(taken)
ValueTyped ==
  /\ entry \in Ecu!Entries /\ entryLen \in 0 .. entry.len
  /\ taken \in Seq(0 .. 255) /\ Len(taken) = entry.len - entryLen
  /\ Small(raw_value)
ResultIs == result # Ecu!None => entryLen = 0 /\ result = Ecu!FloatBits(raw_value)
ValueInv == ValueTyped /\ ValueSoFar /\ ResultIs

LEMMA ReadByteKeeps == ASSUME ValueInv, Ecu!ReadByte PROVE ValueInv'
<1>1. PICK b \in Bytes : /\ raw_value' = raw_value + Ecu!Shift(b, 8 * entryLen')
                         /\ taken' = Append(taken, b)
  BY DEF Ecu!ReadByte
<1>2. entryLen > 0 /\ entryLen' = entryLen - 1 /\ UNCHANGED <<entry, result>>
  BY DEF Ecu!ReadByte
<1>3. b \in 0 .. 255
  BY ValueAssumed DEF Ecu!ValueAssumption
<1>4. PICK size \in {1, 2, 4} : entry.len = size
  BY EntryLength DEF ValueInv, ValueTyped
<1>5. PICK n \in 1 .. 4 : entryLen = n /\ n <= size
  BY <1>2, <1>4 DEF ValueInv, ValueTyped
<1>6. Len(taken) = size - n /\ taken \in Seq(0 .. 255)
  BY <1>4, <1>5 DEF ValueInv, ValueTyped
<1>7. taken' \in Seq(0 .. 255) /\ Len(taken') = size - n + 1 /\ taken'[size - n + 1] = b
  BY <1>1, <1>3, <1>6
<1>8. raw_value' = raw_value + Ecu!Shift(b, 8 * (n - 1))
  BY <1>1, <1>2, <1>5
<1>9. ResultIs' /\ entryLen' = n - 1 /\ entry' = entry
  BY <1>2, <1>5 DEF ValueInv, ResultIs
<1>10. ASSUME Small(raw_value'), ValueSoFar' PROVE ValueInv'
  BY <1>4, <1>5, <1>7, <1>9, <1>10 DEF ValueInv, ValueTyped
<1>11. CASE n >= 3
  <2>1. raw_value' = 0
    <3>1. n - 1 = 2 \/ n - 1 = 3
      BY <1>11
    <3>2. 8 * (n - 1) = 16 \/ 8 * (n - 1) = 24
      BY <3>1
    <3>3. Ecu!Shift(b, 8 * (n - 1)) = 0
      BY <1>3, <3>2, Shifts
    <3>4. raw_value = 0
      BY <1>5, <1>11 DEF ValueInv, ValueSoFar
    <3> QED BY <1>8, <3>3, <3>4
  <2>2. Small(0)
    BY SmallIs
  <2>3. n - 1 >= 2 /\ n - 1 # 1 /\ n - 1 # 0
    BY <1>11
  <2>4. ValueSoFar'
    BY <1>9, <2>1, <2>3, Zenon DEF ValueSoFar
  <2> QED BY <1>10, <2>1, <2>2, <2>4, Zenon
<1>12. CASE n = 2
  <2>1. raw_value' = High(b)
    <3>1. 8 * (n - 1) = 8 /\ High(b) \in Int
      BY <1>3, <1>12, WrapIs
    <3>2. raw_value = 0
      BY <1>5, <1>12 DEF ValueInv, ValueSoFar
    <3> QED BY <1>3, <1>8, <3>1, <3>2, Shifts
  <2>2. Small(raw_value')
    BY <1>3, <2>1, SumSmall, ZenonT(60)
  <2>3. entryLen' = 1 /\ entry'.len # 1 /\ taken'[Len(taken')] = b
    BY <1>4, <1>5, <1>7, <1>9, <1>12
  <2>4. ValueSoFar'
    BY <2>1, <2>3 DEF ValueSoFar
  <2> QED BY <1>10, <2>2, <2>4, Zenon
<1>13. CASE n = 1
  <2>1. raw_value' = raw_value + b
    <3>1. 8 * (n - 1) = 0
      BY <1>13
    <3> QED BY <1>3, <1>8, <3>1, Shifts
  <2>2. raw_value' = Ecu!Meaning(taken') /\ Small(raw_value')
    <3>1. CASE size = 1
      <4>1. raw_value' = b
        BY <1>3, <1>4, <1>5, <1>13, <2>1, <3>1 DEF ValueInv, ValueSoFar
      <4>2. Ecu!Meaning(taken') = b
        BY <1>7, <1>13, <3>1 DEF Ecu!Meaning
      <4>3. Small(b)
        BY <1>3, SmallIs
      <4> QED BY <4>1, <4>2, <4>3, Zenon
    <3>2. CASE size # 1
      <4>1. PICK c \in 0 .. 255 : c = taken[size - 1] /\ c = taken'[size - 1]
        <5>1. Len(taken) = size - 1 /\ size - 1 \in 1 .. Len(taken)
          BY <1>6, <1>13, <3>2
        <5>2. taken[size - 1] \in 0 .. 255
          <6>1. taken \in Seq(0 .. 255)
            BY <1>6
          <6> QED BY <5>1, <6>1, ElementOfSeq, Zenon
        <5>3. taken'[size - 1] = taken[size - 1]
          <6>1. \A i \in 1 .. Len(taken) : Append(taken, b)[i] = taken[i]
            BY <1>3, <1>6
          <6> QED BY <1>1, <5>1, <6>1, Zenon
        <5> QED BY <5>2, <5>3, Zenon
      <4>2. raw_value = High(c)
        BY <1>4, <1>5, <1>6, <1>13, <3>2, <4>1 DEF ValueInv, ValueSoFar
      <4>3. raw_value' = Ecu!Signed(c, b)
        <5>1. High(c) + b = Ecu!Signed(c, b)
          BY <1>3, SumSigned, Zenon
        <5> QED BY <2>1, <4>2, <5>1
      <4>4. Len(taken') = size /\ taken'[size] = b
        BY <1>7, <1>13
      <4>5. Ecu!Meaning(taken') = Ecu!Signed(c, b)
        BY <3>2, <4>1, <4>4 DEF Ecu!Meaning
      <4>6. Small(Ecu!Signed(c, b))
        BY <1>3, SumSmall, Zenon
      <4> QED BY <4>3, <4>5, <4>6, Zenon
    <3> QED BY <3>1, <3>2
  <2>3. entryLen' = 0
    BY <1>9, <1>13
  <2>4. ValueSoFar'
    BY <2>2, <2>3 DEF ValueSoFar
  <2> QED BY <1>10, <2>2, <2>4, Zenon
<1> QED BY <1>11, <1>12, <1>13

LEMMA ConvertKeeps == ASSUME ValueInv, Ecu!Convert PROVE ValueInv'
<1>1. entryLen = 0 /\ UNCHANGED <<entry, entryLen, taken, raw_value>>
  BY DEF Ecu!Convert
<1>2. result' = Ecu!FloatBits(raw_value)
  <2>1. raw_value \in Int /\ Ecu!Size(raw_value) < Ecu!Power[17]
    BY DEF ValueInv, ValueTyped, Small
  <2> QED BY <2>1, ClampFindsNothing DEF Ecu!Convert
<1> QED BY <1>1, <1>2 DEF ValueInv, ValueTyped, ValueSoFar, ResultIs

LEMMA NextEntryKeeps == ASSUME Ecu!NextEntry PROVE ValueInv'
<1>1. /\ entry' \in Ecu!Entries /\ entryLen' = entry'.len
      /\ taken' = <<>> /\ raw_value' = 0 /\ result' = Ecu!None
  BY DEF Ecu!NextEntry
<1>2. entry'.len \in {1, 2, 4} /\ Small(0)
  BY <1>1, EntryLength, SmallIs
<1> QED BY <1>1, <1>2 DEF ValueInv, ValueTyped, ValueSoFar, ResultIs

LEMMA ValueBegins == ASSUME Ecu!Init PROVE ValueInv
<1>1. /\ entry \in Ecu!Entries /\ entryLen = entry.len
      /\ taken = <<>> /\ raw_value = 0 /\ result = Ecu!None
  BY DEF Ecu!Init
<1>2. entry.len \in {1, 2, 4} /\ Small(0)
  BY <1>1, EntryLength, SmallIs
<1> QED BY <1>1, <1>2 DEF ValueInv, ValueTyped, ValueSoFar, ResultIs

LEMMA ValueStep == ValueInv /\ [Ecu!Next]_(Ecu!vars) => ValueInv'
<1> SUFFICES ASSUME ValueInv, [Ecu!Next]_(Ecu!vars) PROVE ValueInv'
  OBVIOUS
<1>1. CASE UNCHANGED Ecu!vars
  BY <1>1 DEF Ecu!vars, ValueInv, ValueTyped, ValueSoFar, ResultIs
<1> QED BY <1>1, ReadByteKeeps, ConvertKeeps, NextEntryKeeps DEF Ecu!Next

LEMMA ValueImplies == ValueInv => EcuValueTrue
<1> SUFFICES ASSUME ValueInv PROVE EcuValueTrue
  OBVIOUS
<1>1. entry.len \in {1, 2, 4}
  BY EntryLength DEF ValueInv, ValueTyped
<1>2. result # Ecu!None => result \in Ecu!Floats
  BY FloatIs DEF ValueInv, ValueTyped, ResultIs, Small
<1>3. Ecu!TypeOK
  BY <1>1, <1>2 DEF ValueInv, ValueTyped, Small, Ecu!TypeOK
<1>4. Ecu!ValuesSigned
  BY DEF ValueInv, ValueSoFar, ResultIs, Ecu!ValuesSigned
<1> QED BY <1>3, <1>4 DEF EcuValueTrue

\* Whatever bytes come, the value is the number they stand for, with its sign, and
\* clamp never corrects anything.
THEOREM ValuesAreTrue == Ecu!Spec => []EcuValueTrue
<1> QED BY ValueStep, ValueImplies, ValueBegins, PTL DEF Ecu!Spec

-----------------------------------------------------------------------------
(* The warning lights.  For each of the two frames that set a light: the last   *)
(* of them that waits is the last that came, and when none waits the light      *)
(* shows what it says.                                                          *)

Lamps == {"ECU_WATER_TEMP", "ECU_BATTERY_V"}
Waits(id) == \E i \in DOMAIN rb : rb[i].id = id
LastWaiting(id, i) == rb[i].id = id /\ \A j \in DOMAIN rb : j > i => rb[j].id # id
Says(id) == IF came[id] = <<>> THEN "OFF" ELSE Warning(id, came[id][1])

LampRight(id) ==
  /\ ~Waits(id) => Light(id) = Says(id)
  /\ came[id] = <<>> => ~Waits(id)
  /\ \A i \in DOMAIN rb : LastWaiting(id, i) => came[id] = <<rb[i].value>>

ShownFields == {"gear", "rpm", "battery", "water", "right", "left"}
SteeringTyped ==
  /\ TypeOK
  /\ DOMAIN mob = MObs /\ DOMAIN came = Ids /\ DOMAIN shown = ShownFields

LightInv == SteeringTyped /\ \A id \in Lamps : LampRight(id)

\* Nothing that the lights depend on changes.
LightsAside == UNCHANGED <<rb, came, shown.water, shown.battery>>
LEMMA LightsStay ==
  ASSUME LightInv, LightsAside
  PROVE  \A id \in Lamps : LampRight(id)'
<1>1. /\ rb' = rb /\ came' = came /\ shown'.water = shown.water /\ shown'.battery = shown.battery
  BY DEF LightsAside
<1> SUFFICES ASSUME NEW id \in Lamps PROVE LampRight(id)'
  OBVIOUS
<1>2. LampRight(id)
  BY DEF LightInv
<1>3. Light(id)' = Light(id) /\ Says(id)' = Says(id)
  BY <1>1, Zenon DEF Light, Says
<1>4. (Waits(id)' <=> Waits(id)) /\ \A i : LastWaiting(id, i)' <=> LastWaiting(id, i)
  BY <1>1 DEF Waits, LastWaiting
<1> QED BY <1>1, <1>2, <1>3, <1>4, Zenon DEF LampRight

LEMMA ComesRight ==
  ASSUME LightInv, BusBrings, NEW id \in Lamps
  PROVE  LampRight(id)'
<1>1. PICK f \in Received : rb' = Append(rb, f) /\ came' = [came EXCEPT ![f.id] = <<f.value>>]
  BY DEF BusBrings
<1>2. shown' = shown
  BY DEF BusBrings, nodeVars
<1>3. PICK n \in Nat : n = Len(rb) /\ rb \in Seq(Received)
  BY DEF LightInv, SteeringTyped, TypeOK
<1>4. /\ DOMAIN rb = 1 .. n /\ DOMAIN rb' = 1 .. n + 1 /\ rb'[n + 1] = f
      /\ \A i \in 1 .. n : rb'[i] = rb[i]
  BY <1>1, <1>3, AppendProperties
<1>5. LampRight(id) /\ DOMAIN came = Ids /\ f.id \in Ids /\ id \in Ids
  BY SteeringAssumption DEF LightInv, SteeringTyped, Lamps, Ids
<1>6. n + 1 \in 1 .. n + 1 /\ \A i \in 1 .. n : i \in 1 .. n + 1 /\ n + 1 > i
  BY <1>3
<1>7. CASE f.id = id
  <2>1. came'[id] = <<f.value>>
    BY <1>1, <1>5, <1>7
  <2>2. came'[id] # <<>>
    BY <2>1
  <2>3. Waits(id)'
    BY <1>4, <1>6, <1>7, Zenon DEF Waits
  <2>4. ASSUME NEW i \in 1 .. n + 1, LastWaiting(id, i)' PROVE i = n + 1
    <3>1. ~(n + 1 > i)
      BY <1>4, <1>6, <1>7, <2>4 DEF LastWaiting
    <3> QED BY <3>1, <1>3
  <2> QED BY <1>4, <2>1, <2>2, <2>3, <2>4, Zenon DEF LampRight
<1>8. CASE f.id # id
  <2>1. came'[id] = came[id]
    BY <1>1, <1>5, <1>8
  <2>2. Light(id)' = Light(id) /\ Says(id)' = Says(id)
    BY <1>2, <2>1, Zenon DEF Light, Says
  <2>3. Waits(id) => Waits(id)'
    BY <1>4, <1>6 DEF Waits
  <2>4. ~Waits(id) => ~Waits(id)'
    <3>1. ASSUME NEW i \in 1 .. n + 1, rb'[i].id = id PROVE i \in 1 .. n /\ rb[i].id = id
      <4>1. i # n + 1
        BY <1>4, <1>8, <3>1
      <4>2. i \in 1 .. n
        BY <4>1, <1>3
      <4> QED BY <1>4, <3>1, <4>2
    <3> QED BY <1>4, <3>1 DEF Waits
  <2>5. ASSUME NEW i \in 1 .. n + 1, LastWaiting(id, i)'
        PROVE  i \in 1 .. n /\ LastWaiting(id, i) /\ rb'[i] = rb[i]
    <3>1. i # n + 1
      BY <1>4, <1>8, <2>5 DEF LastWaiting
    <3>2. i \in 1 .. n
      BY <3>1, <1>3
    <3> QED BY <1>4, <1>6, <2>5, <3>2 DEF LastWaiting
  <2> QED BY <1>4, <1>5, <2>1, <2>2, <2>3, <2>4, <2>5, Zenon DEF LampRight
<1> QED BY <1>7, <1>8

LEMMA HandledRight ==
  ASSUME LightInv, HandleFrame, NEW id \in Lamps
  PROVE  LampRight(id)'
<1>1. PICK f : f = Head(rb)
  OBVIOUS
<1>2. rb \in Seq(Received) /\ rb # <<>> /\ DOMAIN shown = ShownFields
  BY DEF HandleFrame, LightInv, SteeringTyped, TypeOK
<1>3. PICK n \in Nat : n + 1 = Len(rb)
  <2>1. Len(rb) \in Nat /\ Len(rb) # 0
    BY <1>2, EmptySeq
  <2> QED BY <2>1
<1>4. /\ DOMAIN rb = 1 .. n + 1 /\ DOMAIN rb' = 1 .. n /\ rb[1] = f
      /\ \A i \in 1 .. n : rb'[i] = rb[i + 1]
  <2>1. rb' = Tail(rb)
    BY DEF HandleFrame
  <2> QED BY <1>1, <1>2, <1>3, <2>1, HeadTailProperties
<1>5. came' = came /\ LampRight(id)
  BY DEF HandleFrame, historyVars, LightInv
<1>6. 1 \in 1 .. n + 1 /\ \A i \in 1 .. n : i + 1 \in 1 .. n + 1 /\ i + 1 > 1
  BY <1>3
<1>7. Light(id)' = IF f.id = id THEN Warning(id, f.value) ELSE Light(id)
  <2>1. /\ shown'.battery = IF f.id = "ECU_BATTERY_V" THEN Warning(f.id, f.value) ELSE shown.battery
        /\ shown'.water = IF f.id = "ECU_WATER_TEMP" THEN Warning(f.id, f.value) ELSE shown.water
    BY <1>1, <1>2 DEF HandleFrame, ShownFields
  <2> QED BY <2>1 DEF Light, Lamps
<1>8. ASSUME NEW i \in 1 .. n + 1, i # 1 PROVE i - 1 \in 1 .. n /\ rb'[i - 1] = rb[i]
  <2>1. i - 1 \in 1 .. n /\ i - 1 + 1 = i
    BY <1>3, <1>8
  <2> QED BY <1>4, <2>1
<1>9. ASSUME NEW i \in 1 .. n, LastWaiting(id, i)'
      PROVE  LastWaiting(id, i + 1) /\ rb'[i] = rb[i + 1]
  <2>1. ASSUME NEW j \in 1 .. n + 1, j > i + 1 PROVE rb[j].id # id
    <3>1. j # 1 /\ j - 1 > i
      BY <2>1
    <3> QED BY <1>4, <1>8, <1>9, <3>1 DEF LastWaiting
  <2> QED BY <1>4, <1>9, <2>1 DEF LastWaiting
<1>10. \A i \in 1 .. n : LastWaiting(id, i)' => came[id] = <<rb'[i].value>>
  BY <1>4, <1>5, <1>6, <1>9 DEF LampRight
<1>11. came[id] = <<>> => ~Waits(id)'
  BY <1>4, <1>5, <1>6 DEF LampRight, Waits
<1>12. ASSUME ~Waits(id)' PROVE Light(id)' = Says(id)
  <2>1. ASSUME NEW i \in 1 .. n + 1, i # 1 PROVE rb[i].id # id
    BY <1>4, <1>8, <1>12, <2>1 DEF Waits
  <2>2. CASE f.id = id
    <3>1. LastWaiting(id, 1)
      BY <1>4, <2>1, <2>2 DEF LastWaiting
    <3>2. came[id] = <<f.value>>
      BY <1>4, <1>5, <1>6, <3>1 DEF LampRight
    <3>3. came[id] # <<>> /\ came[id][1] = f.value
      BY <3>2
    <3> QED BY <1>7, <2>2, <3>3, Zenon DEF Says
  <2>3. CASE f.id # id
    <3>1. ~Waits(id)
      BY <1>4, <2>1, <2>3 DEF Waits
    <3> QED BY <1>5, <1>7, <2>3, <3>1 DEF LampRight
  <2> QED BY <2>2, <2>3
<1>13. Says(id)' = Says(id)
  BY <1>5, Zenon DEF Says
<1> QED BY <1>4, <1>5, <1>10, <1>11, <1>12, <1>13, Zenon DEF LampRight

LEMMA SteeringConstants ==
  /\ Width \in Nat /\ Width > 0 /\ MaxTime \in Nat /\ MaxToggles \in Nat /\ MaxFrames \in Nat /\ MaxPresses \in Nat
BY SteeringAssumption

LEMMA LightsBegin == ASSUME Init PROVE LightInv
<1>1. TypeOK
  <2>1. rb = <<>> /\ rb \in Seq(Received) /\ presses = <<>> /\ Len(presses) = 0
    BY DEF Init
  <2>2. \A m \in MObs : mob[m] = None
    BY DEF Init
  <2>3. /\ pc = "frames" /\ now = 0 /\ state = {} /\ st = {} /\ last_time = 0
        /\ button = FALSE /\ last_state = FALSE /\ heard = FALSE
        /\ DOMAIN fstate = Ids
        /\ told = 0 /\ merged = 0 /\ disturbed = FALSE /\ overtaken = FALSE /\ toggles = 0 /\ frames = 0
    BY DEF Init
  <2>4. state \subseteq Paddles /\ st \subseteq Paddles
    BY <2>3, Zenon
  <2>5. now \in 0 .. MaxTime /\ last_time \in 0 .. Width - 1 /\ toggles \in 0 .. MaxToggles /\ frames \in 0 .. MaxFrames
        /\ Len(presses) <= MaxPresses /\ told \in Nat /\ merged \in Nat
    BY <2>1, <2>3, SteeringConstants
  <2>6. /\ button \in BOOLEAN /\ last_state \in BOOLEAN /\ heard \in BOOLEAN
        /\ disturbed \in BOOLEAN /\ overtaken \in BOOLEAN
    BY <2>3, Zenon
  <2> QED BY <2>1, <2>2, <2>3, <2>4, <2>5, <2>6, Zenon DEF TypeOK
<1>2. DOMAIN mob = MObs /\ DOMAIN came = Ids /\ DOMAIN shown = ShownFields
  BY DEF Init, ShownFields
<1>3. ASSUME NEW id \in Lamps PROVE LampRight(id)
  <2>1. rb = <<>> /\ DOMAIN rb = {}
    BY DEF Init
  <2>2. id \in Ids /\ came[id] = <<>>
    BY DEF Init, Lamps, Ids
  <2>3. Light(id) = "OFF"
    BY DEF Init, Light
  <2> QED BY <2>1, <2>2, <2>3 DEF LampRight, Waits, Says
<1> QED BY <1>1, <1>2, <1>3 DEF LightInv, SteeringTyped

\* A frame that is put into a message object, or none.
LEMMA BroadcastTyped ==
  ASSUME SteeringTyped, NEW f, f.id \in {"PADDLE_STATUS", "NEUTRAL_ENABLED"}, can_broadcast(f)
  PROVE  /\ DOMAIN mob' = MObs
         /\ \A m \in MObs : mob'[m] = None \/ mob'[m].id \in {"PADDLE_STATUS", "NEUTRAL_ENABLED"}
<1>1. DOMAIN mob = MObs /\ \A m \in MObs : mob[m] = None \/ mob[m].id \in {"PADDLE_STATUS", "NEUTRAL_ENABLED"}
  BY DEF SteeringTyped, TypeOK
<1>2. mob' = mob \/ mob' = [mob EXCEPT ![Min(Free)] = f]
  BY DEF can_broadcast
<1> HIDE DEF Min, Free
<1>3. PICK x : mob' = mob \/ mob' = [mob EXCEPT ![x] = f]
  BY <1>2
<1>4. DOMAIN mob' = MObs /\ \A m \in MObs : mob'[m] = mob[m] \/ mob'[m] = f
  BY <1>1, <1>3
<1> QED BY <1>1, <1>4

LEMMA FrameId == ASSUME NEW i, NEW v PROVE [id |-> i, value |-> v].id = i
OBVIOUS

LEMMA Truth == ASSUME NEW x, NEW h, h = (TRUE \in x) PROVE h \in BOOLEAN
OBVIOUS

LEMMA SteeringTypes ==
  ASSUME IInv, SteeringTyped, [Next]_vars
  PROVE  SteeringTyped'
<1>1. /\ pc' \in {"frames", "clear", "neutral"} /\ state' \subseteq Paddles /\ st' \subseteq Paddles
      /\ told' \in Nat /\ merged' \in Nat /\ disturbed' \in BOOLEAN
  BY NextKeeps DEF IInv, Waiting
<1>2. /\ TypeOK /\ DOMAIN mob = MObs /\ DOMAIN came = Ids /\ DOMAIN shown = ShownFields
      /\ presses \in Seq(Nat) /\ rb \in Seq(Received) /\ now \in Nat
  BY DEF SteeringTyped, TypeOK, IInv, Clocked
<1> USE SteeringConstants
<1>3. CASE HandleFrame
  <2>1. Tail(rb) \in Seq(Received)
    BY <1>2, <1>3, HeadTailProperties DEF HandleFrame
  <2>2. DOMAIN fstate' = Ids /\ DOMAIN shown' = ShownFields
    BY <1>2, <1>3 DEF HandleFrame, TypeOK
  <2> QED BY <1>1, <1>2, <1>3, <2>1, <2>2 DEF HandleFrame, TypeOK, SteeringTyped, historyVars
<1>4. CASE PaddleRead
  BY <1>1, <1>2, <1>4 DEF PaddleRead, TypeOK, SteeringTyped, historyVars
<1>5. CASE PaddleClear
  <2>1. /\ DOMAIN mob' = MObs
        /\ \A m \in MObs : mob'[m] = None \/ mob'[m].id \in {"PADDLE_STATUS", "NEUTRAL_ENABLED"}
    <3>1. PICK f : f = [id |-> "PADDLE_STATUS", value |-> st] /\ f.id = "PADDLE_STATUS"
      BY FrameId, Zenon
    <3>2. mob' = mob \/ can_broadcast(f)
      BY <1>5, <3>1 DEF PaddleClear
    <3> QED BY <1>2, <3>1, <3>2, BroadcastTyped DEF TypeOK
  <2> QED BY <1>1, <1>2, <1>5, <2>1 DEF PaddleClear, TypeOK, SteeringTyped
<1>6. CASE Neutral
  <2>1. /\ DOMAIN mob' = MObs
        /\ \A m \in MObs : mob'[m] = None \/ mob'[m].id \in {"PADDLE_STATUS", "NEUTRAL_ENABLED"}
        /\ overtaken' \in BOOLEAN
    <3>1. PICK f : f = [id |-> "NEUTRAL_ENABLED", value |-> {button}] /\ f.id = "NEUTRAL_ENABLED"
      BY FrameId, Zenon
    <3>2. mob' = mob \/ can_broadcast(f)
      BY <1>6, <3>1 DEF Neutral, NeutralChanged
    <3>3. overtaken' \in BOOLEAN
      BY <1>2, <1>6, Zenon DEF Neutral, NeutralChanged, TypeOK
    <3> QED BY <1>2, <3>1, <3>2, <3>3, BroadcastTyped DEF TypeOK
  <2>2. DOMAIN shown' = ShownFields
    BY <1>2, <1>6 DEF Neutral
  <2> QED BY <1>1, <1>2, <1>6, <2>1, <2>2 DEF Neutral, TypeOK, SteeringTyped
<1>7. CASE \E p \in Paddles : Press(p)
  <2>1. PICK p \in Paddles : Press(p)
    BY <1>7
  <2>2. last_time' \in 0 .. Width - 1
    BY <1>2, <2>1 DEF Press, get_tick
  <2>3. Len(presses') <= MaxPresses
    BY <1>2, <2>1, AppendProperties DEF Press
  <2> QED BY <1>1, <1>2, <2>1, <2>2, <2>3 DEF Press, TypeOK, SteeringTyped
<1>8. CASE Tick
  BY <1>1, <1>2, <1>8 DEF Tick, TypeOK, SteeringTyped, nodeVars, historyVars
<1>9. CASE ToggleButton
  BY <1>1, <1>2, <1>9 DEF ToggleButton, TypeOK, SteeringTyped, nodeVars
<1>10. CASE BusSends
  <2>1. /\ DOMAIN mob' = MObs
        /\ \A m \in MObs : mob'[m] = None \/ mob'[m].id \in {"PADDLE_STATUS", "NEUTRAL_ENABLED"}
    <3>1. PICK x : mob' = [mob EXCEPT ![x] = None]
      BY <1>10 DEF BusSends
    <3> QED BY <1>2, <3>1 DEF TypeOK
  <2>2. heard' \in BOOLEAN
    <3>1. heard \in BOOLEAN
      BY <1>2 DEF TypeOK
    <3>2. PICK x : heard' = (TRUE \in x) \/ heard' = heard
      BY <1>10, Zenon DEF BusSends
    <3> QED BY <3>1, <3>2, Truth
  <2> QED BY <1>1, <1>2, <1>10, <2>1, <2>2 DEF BusSends, TypeOK, SteeringTyped, nodeVars
<1>11. CASE BusBrings
  <2>1. PICK f \in Received : rb' = Append(rb, f) /\ came' = [came EXCEPT ![f.id] = <<f.value>>]
    BY <1>11 DEF BusBrings
  <2>2. rb' \in Seq(Received) /\ DOMAIN came' = Ids
    BY <1>2, <2>1, AppendProperties
  <2> QED BY <1>1, <1>2, <1>11, <2>2 DEF BusBrings, TypeOK, SteeringTyped, nodeVars
<1>12. CASE UNCHANGED vars
  BY <1>2, <1>12 DEF vars, nodeVars, historyVars, TypeOK, SteeringTyped
<1> QED BY <1>3, <1>4, <1>5, <1>6, <1>7, <1>8, <1>9, <1>10, <1>11, <1>12 DEF Next, MainStep

LEMMA LightStep ==
  ASSUME IInv, LightInv, [Next]_vars
  PROVE  LightInv'
<1>1. SteeringTyped'
  BY SteeringTypes DEF LightInv
<1>2. CASE HandleFrame
  BY <1>1, <1>2, HandledRight DEF LightInv
<1>3. CASE BusBrings
  BY <1>1, <1>3, ComesRight DEF LightInv
<1>4. CASE Neutral
  <2>1. shown'.water = shown.water /\ shown'.battery = shown.battery
    BY <1>4 DEF Neutral, LightInv, SteeringTyped, ShownFields
  <2>2. LightsAside
    BY <1>4, <2>1 DEF Neutral, LightsAside
  <2> QED BY <1>1, <2>2, LightsStay DEF LightInv
<1>5. CASE PaddleRead \/ PaddleClear \/ (\E p \in Paddles : Press(p)) \/ Tick \/ ToggleButton
           \/ BusSends \/ UNCHANGED vars
  <2>1. rb' = rb /\ came' = came /\ shown' = shown
    BY <1>5 DEF PaddleRead, PaddleClear, Press, Tick, ToggleButton, BusSends, vars, nodeVars, historyVars
  <2>2. LightsAside
    BY <2>1 DEF LightsAside
  <2> QED BY <1>1, <2>2, LightsStay DEF LightInv
<1> QED BY <1>2, <1>3, <1>4, <1>5 DEF Next, MainStep

LEMMA LightsImplied == ASSUME LightInv PROVE TypeOK /\ LightsCurrent
BY DEF LightInv, SteeringTyped, LampRight, Waits, Says, Lamps, LightsCurrent

-----------------------------------------------------------------------------
(* The seven segments.  Every digit of a field that has been drawn shows its    *)
(* place of the number; the string still holds the places to come.              *)

LEMMA DisplayConstants ==
  /\ \A v \in Values : v \in Nat /\ v < Seg7!Word
  /\ \A v \in Volts : v \in Nat /\ v < Seg7!Word
  /\ \A g \in Gears : g \in 0 .. 9
BY DisplayAssumed DEF Seg7!DisplayAssumption, Seg7!Word

LEMMA Ends ==
  /\ Seg7!Field("left") = 0 .. 2 /\ Seg7!Field("right") = 4 .. 6
  /\ Seg7!Min(Seg7!Field("left")) = 0 /\ Seg7!Max(Seg7!Field("left")) = 2
  /\ Seg7!Min(Seg7!Field("right")) = 4 /\ Seg7!Max(Seg7!Field("right")) = 6
<1>1. Seg7!Field("left") = 0 .. 2 /\ Seg7!Field("right") = 4 .. 6
  BY DEF Seg7!Field
<1>2. ASSUME NEW a \in Int PROVE Seg7!Min(a .. a + 2) = a /\ Seg7!Max(a .. a + 2) = a + 2
  <2>1. /\ a \in a .. a + 2 /\ \A y \in a .. a + 2 : a <= y
        /\ a + 2 \in a .. a + 2 /\ \A y \in a .. a + 2 : a + 2 >= y
        /\ \A x \in a .. a + 2 : x \in Int
    OBVIOUS
  <2>2. \A x \in a .. a + 2 : (x <= a => x = a \/ ~(a <= x)) /\ (x >= a + 2 => x = a + 2 \/ ~(a + 2 >= x))
    OBVIOUS
  <2> QED BY <2>1, <2>2 DEF Seg7!Min, Seg7!Max
<1>3. 0 + 2 = 2 /\ 4 + 2 = 6 /\ 0 \in Int /\ 4 \in Int
  OBVIOUS
<1>4. /\ Seg7!Min(0 .. 2) = 0 /\ Seg7!Max(0 .. 2) = 2
      /\ Seg7!Min(4 .. 6) = 4 /\ Seg7!Max(4 .. 6) = 6
  BY <1>2, <1>3, Zenon
<1> QED BY <1>1, <1>4, Zenon

\* The places of a number.
SixPowers == Seg7!Power[1] = 1 /\ Seg7!Power[2] = 10 /\ Seg7!Power[3] = 100 /\ Seg7!Power[4] = 1000
          /\ Seg7!Power[5] = 10000 /\ Seg7!Power[6] = 100000
LEMMA PowersAre == SixPowers
BY SMT DEF SixPowers, Seg7!Power

LEMMA WordIs == Seg7!Word \in Nat /\ Seg7!Power[6] \in Nat /\ Seg7!Word < Seg7!Power[6] /\ 10 < Seg7!Word
BY PowersAre, SMT DEF SixPowers, Seg7!Word

LEMMA NumeralsAre ==
  \A n \in 0 .. 9 : Seg7!Numeral[n + 1] = CASE n = 0 -> "0" [] n = 1 -> "1" [] n = 2 -> "2" [] n = 3 -> "3"
     [] n = 4 -> "4" [] n = 5 -> "5" [] n = 6 -> "6" [] n = 7 -> "7" [] n = 8 -> "8" [] n = 9 -> "9"
BY DEF Seg7!Numeral

LEMMA PlacesAre ==
  ASSUME NEW n \in Nat, n < Seg7!Power[6]
  PROVE  /\ Seg7!Places(n) \in 1 .. 5
         /\ n < Seg7!Power[Seg7!Places(n) + 1]
         /\ n < 10 => Seg7!Places(n) = 1
<1> DEFINE S == {k \in 1 .. 5 : n < Seg7!Power[k + 1]}
<1>1. 5 \in S
  OBVIOUS
<1>2. S \subseteq 1 .. 5
  OBVIOUS
<1> HIDE DEF S
<1>3. \E m \in S : \A y \in S : m <= y
  <2>1. 5 \in S /\ \A k \in S : k = 1 \/ k = 2 \/ k = 3 \/ k = 4 \/ k = 5
    BY <1>1, <1>2
  <2>2. CASE 1 \in S
    BY <2>1, <2>2
  <2>3. CASE 2 \in S /\ 1 \notin S
    BY <2>1, <2>3
  <2>4. CASE 3 \in S /\ 2 \notin S /\ 1 \notin S
    BY <2>1, <2>4
  <2>5. CASE 4 \in S /\ 3 \notin S /\ 2 \notin S /\ 1 \notin S
    BY <2>1, <2>5
  <2>6. CASE 4 \notin S /\ 3 \notin S /\ 2 \notin S /\ 1 \notin S
    BY <2>1, <2>6
  <2> QED BY <2>2, <2>3, <2>4, <2>5, <2>6
<1>4. Seg7!Min(S) \in S /\ \A y \in S : Seg7!Min(S) <= y
  BY <1>3 DEF Seg7!Min
<1>5. Seg7!Places(n) = Seg7!Min(S)
  BY DEF S, Seg7!Places
<1>6. n < 10 => 1 \in S
  BY PowersAre DEF S, SixPowers
<1>7. Seg7!Min(S) \in 1 .. 5 /\ n < Seg7!Power[Seg7!Min(S) + 1]
  BY <1>4 DEF S
<1>8. n < 10 => Seg7!Min(S) = 1
  BY <1>4, <1>6, <1>7
<1> QED BY <1>5, <1>7, <1>8

\* A place of a number is a digit, and no dot.
LEMMA PlaceIs ==
  ASSUME NEW v \in Nat, NEW k \in 0 .. 5
  PROVE  /\ Seg7!Power[k + 1] \in Nat /\ Seg7!Power[k + 1] > 0
         /\ (v \div Seg7!Power[k + 1]) % 10 \in 0 .. 9
         /\ Seg7!Place(v, k) # "."
<1>1. Seg7!Power[k + 1] \in Nat /\ Seg7!Power[k + 1] > 0
  BY PowersAre DEF SixPowers
<1>2. PICK w \in Nat : w = v \div Seg7!Power[k + 1]
  BY <1>1
<1>3. PICK n \in 0 .. 9 : n = w % 10
  OBVIOUS
<1>4. Seg7!Place(v, k) = Seg7!Numeral[n + 1]
  BY <1>2, <1>3 DEF Seg7!Place
<1>5. Seg7!Numeral[n + 1] # "."
  BY NumeralsAre
<1> QED BY <1>1, <1>2, <1>3, <1>4, <1>5

LEMMA NextPlace ==
  ASSUME NEW v \in Nat, NEW k \in 0 .. 4
  PROVE  Seg7!Place(v \div 10, k) = Seg7!Place(v, k + 1)
<1>1. (v \div 10) \div Seg7!Power[k + 1] = v \div Seg7!Power[k + 1 + 1]
  <2>1. CASE k = 0
    BY <2>1, PowersAre, SMT DEF SixPowers
  <2>2. CASE k = 1
    BY <2>2, PowersAre, SMT DEF SixPowers
  <2>3. CASE k = 2
    BY <2>3, PowersAre, SMT DEF SixPowers
  <2>4. CASE k = 3
    BY <2>4, PowersAre, SMT DEF SixPowers
  <2>5. CASE k = 4
    BY <2>5, PowersAre, SMT DEF SixPowers
  <2> QED BY <2>1, <2>2, <2>3, <2>4, <2>5
<1> QED BY <1>1 DEF Seg7!Place

LEMMA LastPlace == ASSUME NEW v \in Nat PROVE Seg7!Place(v % 10, 0) = Seg7!Place(v, 0)
<1>1. ((v % 10) \div 1) % 10 = (v \div 1) % 10
  OBVIOUS
<1> QED BY <1>1, PowersAre DEF SixPowers, Seg7!Place

LEMMA FirstPlaces ==
  ASSUME NEW v \in Nat, NEW k \in 0 .. 2, NEW p \in 1 .. 5, p <= k, v < Seg7!Power[p + 1]
  PROVE  Seg7!Place(v, k) = "0"
<1>1. v < Seg7!Power[k + 1]
  BY PowersAre DEF SixPowers
<1>2. PICK w \in Nat : w = Seg7!Power[k + 1] /\ w > 0
  BY PlaceIs
<1>3. v \div w = 0
  BY <1>1, <1>2
<1>4. 0 % 10 = 0 /\ Seg7!Numeral[0 + 1] = "0"
  BY NumeralsAre
<1> QED BY <1>2, <1>3, <1>4 DEF Seg7!Place

\* Of the string z of a value v, l characters are left when j digits are drawn.
Spells(z, v, kind, p) ==
  \/ /\ kind = "whole" /\ v < Seg7!Power[p + 1] /\ Len(z) = p
     /\ \A i \in 1 .. p : z[i] = Seg7!Place(v, p - i)
  \/ /\ kind = "tenths" /\ v < 10 * Seg7!Power[p + 1] /\ Len(z) = p + 2
     /\ \A i \in 1 .. p : z[i] = Seg7!Place(v, p - i + 1)
     /\ z[p + 1] = "." /\ z[p + 2] = Seg7!Place(v, 0)
Left(l, kind, p, j) ==
  \/ kind = "whole" /\ l = IF j < p THEN p - j ELSE 0
  \/ /\ kind = "tenths"
     /\ \/ j = 0 /\ l = p + 2
        \/ j = 1 /\ l \in {p, p + 1}
        \/ j >= 2 /\ l = IF j - 1 < p THEN p - (j - 1) ELSE 0
Spelling(z, l, v, kind, j) == \E p \in 1 .. 5 : Spells(z, v, kind, p) /\ Left(l, kind, p, j)

LEMMA CharDrawn ==
  ASSUME NEW z, NEW l, NEW v \in Nat, NEW kind, NEW j \in 0 .. 2, Spelling(z, l, v, kind, j), l > 0, z[l] # "."
  PROVE  /\ z[l] = Seg7!Place(v, j)
         /\ (l < Len(z) /\ z[l + 1] = ".") <=> (kind = "tenths" /\ j = 1)
         /\ Spelling(z, l - 1, v, kind, j + 1)
<1>1. PICK p \in 1 .. 5 : Spells(z, v, kind, p) /\ Left(l, kind, p, j)
  BY DEF Spelling
<1>2. \A k \in 0 .. 5 : Seg7!Place(v, k) # "."
  BY PlaceIs
<1>3. CASE kind = "whole"
  <2>1. Len(z) = p /\ \A i \in 1 .. p : z[i] = Seg7!Place(v, p - i)
    BY <1>1, <1>3 DEF Spells
  <2>2. l = p - j /\ j < p
    BY <1>1, <1>3 DEF Left
  <2>3. l \in 1 .. p /\ p - l = j
    BY <2>2
  <2>4. l < p => l + 1 \in 1 .. p /\ p - (l + 1) \in 0 .. 5
    BY <2>3
  <2>5. ~(l < Len(z) /\ z[l + 1] = ".")
    BY <1>2, <2>1, <2>4
  <2>6. Left(l - 1, kind, p, j + 1)
    BY <1>3, <2>2 DEF Left
  <2> QED BY <1>1, <1>3, <2>1, <2>3, <2>5, <2>6 DEF Spelling
<1>4. CASE kind = "tenths"
  <2>1. /\ Len(z) = p + 2 /\ \A i \in 1 .. p : z[i] = Seg7!Place(v, p - i + 1)
        /\ z[p + 1] = "." /\ z[p + 2] = Seg7!Place(v, 0)
    BY <1>1, <1>4 DEF Spells
  <2>2. Left(l - 1, kind, p, j + 1)
    BY <1>1, <1>4, <2>1 DEF Left
  <2>3. CASE j = 0
    <3>1. l = p + 2
      BY <1>1, <1>4, <2>3 DEF Left
    <3> QED BY <1>1, <1>4, <2>1, <2>2, <2>3, <3>1 DEF Spelling
  <2>4. CASE j = 1
    <3>1. l = p
      BY <1>1, <1>4, <2>1, <2>4 DEF Left
    <3>2. l \in 1 .. p /\ p - l + 1 = j /\ l < Len(z) /\ l + 1 = p + 1
      BY <2>1, <2>4, <3>1
    <3> QED BY <1>1, <1>4, <2>1, <2>2, <2>4, <3>2 DEF Spelling
  <2>5. CASE j = 2
    <3>1. l = p - 1 /\ 1 < p
      BY <1>1, <1>4, <2>5 DEF Left
    <3>2. l \in 1 .. p /\ p - l + 1 = j /\ l + 1 \in 1 .. p /\ p - (l + 1) + 1 \in 0 .. 5
      BY <2>5, <3>1
    <3>3. z[l + 1] # "."
      BY <1>2, <2>1, <3>2
    <3> QED BY <1>1, <1>4, <2>1, <2>2, <2>5, <3>2, <3>3 DEF Spelling
  <2> QED BY <2>3, <2>4, <2>5
<1> QED BY <1>1, <1>3, <1>4 DEF Spells

LEMMA DotSkipped ==
  ASSUME NEW z, NEW l, NEW v \in Nat, NEW kind, NEW j \in 0 .. 2, Spelling(z, l, v, kind, j), l > 0, z[l] = "."
  PROVE  Spelling(z, l - 1, v, kind, j)
<1>1. PICK p \in 1 .. 5 : Spells(z, v, kind, p) /\ Left(l, kind, p, j)
  BY DEF Spelling
<1>2. \A k \in 0 .. 5 : Seg7!Place(v, k) # "."
  BY PlaceIs
<1>3. CASE kind = "whole"
  <2>1. l \in 1 .. p /\ p - l \in 0 .. 5
    BY <1>1, <1>3 DEF Left
  <2> QED BY <1>1, <1>2, <1>3, <2>1 DEF Spells
<1>4. CASE kind = "tenths"
  <2>1. /\ \A i \in 1 .. p : z[i] = Seg7!Place(v, p - i + 1)
        /\ z[p + 2] = Seg7!Place(v, 0)
    BY <1>1, <1>4 DEF Spells
  <2>2. l # p + 2
    BY <1>2, <2>1
  <2>3. l \notin 1 .. p
    <3>1. ASSUME l \in 1 .. p PROVE FALSE
      <4>1. p - l + 1 \in 0 .. 5
        BY <3>1
      <4> QED BY <1>2, <2>1, <3>1, <4>1
    <3> QED BY <3>1
  <2>4. j = 1 /\ l = p + 1
    BY <1>1, <1>4, <2>2, <2>3 DEF Left
  <2>5. Left(l - 1, kind, p, j)
    BY <1>4, <2>4 DEF Left
  <2> QED BY <1>1, <2>5 DEF Spelling
<1> QED BY <1>1, <1>3, <1>4 DEF Spells

LEMMA ZeroPadded ==
  ASSUME NEW z, NEW v \in Nat, NEW kind, NEW j \in 0 .. 2, Spelling(z, 0, v, kind, j)
  PROVE  /\ Seg7!Place(v, j) = "0" /\ ~(kind = "tenths" /\ j = 1)
         /\ Spelling(z, 0, v, kind, j + 1)
<1>1. PICK p \in 1 .. 5 : Spells(z, v, kind, p) /\ Left(0, kind, p, j)
  BY DEF Spelling
<1>2. CASE kind = "whole"
  <2>1. p <= j /\ v < Seg7!Power[p + 1]
    BY <1>1, <1>2 DEF Left, Spells
  <2>2. Seg7!Place(v, j) = "0"
    BY <2>1, FirstPlaces
  <2>3. Left(0, kind, p, j + 1)
    BY <1>2, <2>1 DEF Left
  <2> QED BY <1>1, <1>2, <2>2, <2>3 DEF Spelling
<1>3. CASE kind = "tenths"
  <2>1. j = 2 /\ p = 1 /\ v < 10 * Seg7!Power[p + 1]
    BY <1>1, <1>3 DEF Left, Spells
  <2>2. v < Seg7!Power[2 + 1] /\ 2 \in 1 .. 5 /\ 2 \in 0 .. 2
    BY <2>1, PowersAre, SMT DEF SixPowers
  <2>3. Seg7!Place(v, j) = "0"
    BY <2>1, <2>2, FirstPlaces
  <2>4. Left(0, kind, p, j + 1)
    BY <1>3, <2>1 DEF Left
  <2> QED BY <1>1, <2>1, <2>3, <2>4 DEF Spelling
<1> QED BY <1>1, <1>2, <1>3 DEF Spells

LEMMA OneChar == ASSUME NEW X, NEW c \in X PROVE <<c>> \in Seq(X) /\ Len(<<c>>) = 1 /\ <<c>>[1] = c
OBVIOUS

LEMMA WholeSpelled ==
  ASSUME NEW v \in Nat, v < Seg7!Power[6]
  PROVE  Spelling(Seg7!Decimal(v), Len(Seg7!Decimal(v)), v, "whole", 0)
<1>1. PICK p \in 1 .. 5 : p = Seg7!Places(v) /\ v < Seg7!Power[p + 1]
  BY PlacesAre
<1>2. PICK z : z = Seg7!Decimal(v)
  OBVIOUS
<1>3. z = [i \in 1 .. p |-> Seg7!Place(v, p - i)]
  BY <1>1, <1>2 DEF Seg7!Decimal
<1>4. Len(z) = p /\ \A i \in 1 .. p : z[i] = Seg7!Place(v, p - i)
  BY <1>3
<1>5. Spells(z, v, "whole", p)
  BY <1>1, <1>4 DEF Spells
<1>6. Left(Len(z), "whole", p, 0)
  BY <1>4 DEF Left
<1> QED BY <1>2, <1>5, <1>6 DEF Spelling

\* A number of tenths, with its point.
Pointed(v) == Seg7!Decimal(v \div 10) \o <<".">> \o Seg7!Decimal(v % 10)

LEMMA TenthsSpelled ==
  ASSUME NEW v \in Nat, v < 10 * Seg7!Word
  PROVE  Spelling(Pointed(v), Len(Pointed(v)), v, "tenths", 0)
<1>1. PICK a \in Nat : a = v \div 10 /\ a < Seg7!Power[6]
  BY WordIs
<1>2. PICK p \in 1 .. 5 : p = Seg7!Places(a) /\ a < Seg7!Power[p + 1]
  BY <1>1, PlacesAre
<1>3. PICK x : x = [i \in 1 .. p |-> Seg7!Place(a, p - i)]
  OBVIOUS
<1>4. x = Seg7!Decimal(a)
  BY <1>2, <1>3 DEF Seg7!Decimal
<1>5. PICK b \in Nat : b = v % 10 /\ b < 10 /\ b < Seg7!Power[6]
  BY WordIs
<1>6. Seg7!Places(b) = 1
  BY <1>5, PlacesAre
<1>7. PICK y : y = [i \in 1 .. 1 |-> Seg7!Place(b, 1 - i)]
  OBVIOUS
<1>8. y = Seg7!Decimal(b)
  BY <1>6, <1>7 DEF Seg7!Decimal
<1> DEFINE Any == {Seg7!Place(a, k) : k \in 0 .. 5} \cup {Seg7!Place(b, 0), "."}
<1>9. /\ x \in Seq(Any) /\ Len(x) = p /\ \A i \in 1 .. p : x[i] = Seg7!Place(a, p - i)
  <2>1. \A i \in 1 .. p : p - i \in 0 .. 5
    OBVIOUS
  <2>2. \A i \in 1 .. p : Seg7!Place(a, p - i) \in Any
    BY <2>1
  <2> QED BY <1>3, <2>2
<1>10. y \in Seq(Any) /\ Len(y) = 1 /\ y[1] = Seg7!Place(b, 0)
  BY <1>7
<1>11. PICK d : d = <<".">> /\ d \in Seq(Any) /\ Len(d) = 1 /\ d[1] = "."
  <2>1. "." \in Any
    OBVIOUS
  <2> HIDE DEF Any
  <2> QED BY <2>1, OneChar, Zenon
<1> HIDE DEF Any
<1>12. PICK u : u = x \o d
  OBVIOUS
<1>13. /\ u \in Seq(Any) /\ Len(u) = p + 1 /\ \A i \in 1 .. p : u[i] = x[i]
       /\ u[p + 1] = "."
  <2>1. /\ u \in Seq(Any) /\ Len(u) = p + 1
        /\ \A k \in 1 .. p + 1 : u[k] = IF k <= p THEN x[k] ELSE d[k - p]
    BY <1>9, <1>11, <1>12, ConcatProperties
  <2>2. p + 1 \in 1 .. p + 1 /\ ~(p + 1 <= p) /\ p + 1 - p = 1
    OBVIOUS
  <2>3. \A i \in 1 .. p : i \in 1 .. p + 1 /\ i <= p
    OBVIOUS
  <2> QED BY <1>11, <2>1, <2>2, <2>3
<1>14. PICK z : z = u \o y
  OBVIOUS
<1>15. /\ z \in Seq(Any) /\ Len(z) = p + 2 /\ \A i \in 1 .. p + 1 : z[i] = u[i]
       /\ z[p + 2] = Seg7!Place(b, 0)
  <2>1. /\ z \in Seq(Any) /\ Len(z) = p + 1 + 1
        /\ \A k \in 1 .. p + 1 + 1 : z[k] = IF k <= p + 1 THEN u[k] ELSE y[k - (p + 1)]
    <3>1. PICK q \in Nat : q = p + 1
      OBVIOUS
    <3>2. Len(u) = q /\ u \in Seq(Any)
      BY <1>13, <3>1
    <3>3. /\ z \in Seq(Any) /\ Len(z) = q + 1
          /\ \A k \in 1 .. q + 1 : z[k] = IF k <= q THEN u[k] ELSE y[k - q]
      <4>1. /\ u \o y \in Seq(Any) /\ Len(u \o y) = Len(u) + Len(y)
            /\ \A k \in 1 .. Len(u) + Len(y) : (u \o y)[k] = IF k <= Len(u) THEN u[k] ELSE y[k - Len(u)]
        BY <1>10, <3>2, ConcatProperties
      <4> QED BY <1>10, <1>14, <3>2, <4>1, Zenon
    <3> QED BY <3>1, <3>3
  <2>2. p + 2 \in 1 .. p + 1 + 1 /\ ~(p + 2 <= p + 1) /\ p + 2 - (p + 1) = 1 /\ p + 1 + 1 = p + 2
    OBVIOUS
  <2>3. \A i \in 1 .. p + 1 : i \in 1 .. p + 1 + 1 /\ i <= p + 1
    OBVIOUS
  <2> QED BY <1>10, <2>1, <2>2, <2>3
<1>16. z = Pointed(v)
  BY <1>1, <1>4, <1>5, <1>8, <1>11, <1>12, <1>14, Zenon DEF Pointed
<1>17. Seg7!Place(b, 0) = Seg7!Place(v, 0)
  BY <1>5, LastPlace
<1>18. ASSUME NEW i \in 1 .. p PROVE z[i] = Seg7!Place(v, p - i + 1)
  <2>1. p - i \in 0 .. 4 /\ i \in 1 .. p + 1
    OBVIOUS
  <2>2. Seg7!Place(a, p - i) = Seg7!Place(v, p - i + 1)
    BY <1>1, <2>1, NextPlace
  <2> QED BY <1>9, <1>13, <1>15, <2>1, <2>2
<1>19. p + 1 \in 1 .. p + 1 /\ z[p + 1] = "."
  BY <1>13, <1>15
<1>20. v < 10 * Seg7!Power[p + 1]
  <2>1. PICK w \in Nat : w = Seg7!Power[p + 1]
    BY PlaceIs
  <2> QED BY <1>1, <1>2, <2>1
<1>21. Spells(z, v, "tenths", p)
  BY <1>15, <1>17, <1>18, <1>19, <1>20 DEF Spells
<1>22. Left(Len(z), "tenths", p, 0)
  BY <1>15 DEF Left
<1> QED BY <1>16, <1>21, <1>22 DEF Spelling

\* A voltage is displayed as its tenths, unless its tenth comes out as 10.
LEMMA VoltageIs ==
  ASSUME NEW raw \in Nat, raw < Seg7!Word
  PROVE  /\ Seg7!TenthOf(raw) \in 0 .. 10
         /\ Seg7!Rounded(raw) \in Nat /\ Seg7!Rounded(raw) < 10 * Seg7!Word
         /\ Seg7!TenthOf(raw) # 10 => Seg7!DecimalTenths(raw) = Pointed(Seg7!Rounded(raw))
<1>1. PICK w \in Nat, r \in 0 .. 209 : w = raw \div 210 /\ r = raw % 210 /\ raw = 210 * w + r
  OBVIOUS
<1>2. PICK d \in 0 .. 10 : d = (10 * r + 21) \div 210
  BY <1>1
<1>3. Seg7!TenthOf(raw) = d
  BY <1>1, <1>2 DEF Seg7!TenthOf
<1>4. Seg7!Rounded(raw) = 10 * w + d
  BY <1>1, <1>2 DEF Seg7!Rounded
<1>5. 10 * w + d \in Nat /\ 10 * w + d < 10 * Seg7!Word
  BY <1>1 DEF Seg7!Word
<1>6. d # 10 => (10 * w + d) \div 10 = w /\ (10 * w + d) % 10 = d
  OBVIOUS
<1>7. d # 10 => Seg7!DecimalTenths(raw) = Pointed(10 * w + d)
  BY <1>1, <1>3, <1>6 DEF Seg7!DecimalTenths, Pointed
<1> QED BY <1>3, <1>4, <1>5, <1>7

\* The length of what is displayed of a voltage.
LEMMA VoltageLength ==
  ASSUME NEW raw \in Nat, raw < Seg7!Word
  PROVE  Len(Seg7!DecimalTenths(raw)) \in Nat
<1>1. PICK a \in Nat : a = raw \div 210 /\ a < Seg7!Power[6]
  BY WordIs
<1>2. PICK b \in Nat : b = Seg7!TenthOf(raw) /\ b < Seg7!Power[6]
  BY WordIs, VoltageIs
<1> DEFINE Any == {Seg7!Place(a, k) : k \in 0 .. 5} \cup {Seg7!Place(b, k) : k \in 0 .. 5} \cup {"."}
<1>3. ASSUME NEW n \in {a, b} PROVE Seg7!Decimal(n) \in Seq(Any)
  <2>1. PICK p \in 1 .. 5 : p = Seg7!Places(n)
    BY <1>1, <1>2, PlacesAre
  <2>2. \A i \in 1 .. p : Seg7!Place(n, p - i) \in Any
    <3>1. \A i \in 1 .. p : p - i \in 0 .. 5
      OBVIOUS
    <3> QED BY <3>1
  <2>3. PICK x : x = [i \in 1 .. p |-> Seg7!Place(n, p - i)]
    OBVIOUS
  <2>4. x = Seg7!Decimal(n)
    BY <2>1, <2>3 DEF Seg7!Decimal
  <2> QED BY <2>2, <2>3, <2>4
<1>4. PICK d : d = <<".">> /\ d \in Seq(Any)
  <2>1. "." \in Any
    OBVIOUS
  <2> HIDE DEF Any
  <2> QED BY <2>1, OneChar, Zenon
<1> HIDE DEF Any
<1>5. Seg7!Decimal(a) \o d \in Seq(Any)
  BY <1>3, <1>4, ConcatProperties
<1>6. Seg7!Decimal(a) \o d \o Seg7!Decimal(b) \in Seq(Any)
  BY <1>3, <1>5, ConcatProperties
<1>7. Seg7!DecimalTenths(raw) = Seg7!Decimal(a) \o d \o Seg7!Decimal(b)
  BY <1>1, <1>2, <1>4 DEF Seg7!DecimalTenths
<1> QED BY <1>6, <1>7, LenProperties

\* Each digit has a shape of its own.
LEMMA ShapesAre ==
  ASSUME NEW n \in 0 .. 9
  PROVE  /\ Seg7!Shape(Seg7!Numeral[n + 1]) \subseteq Seg7!Segments
         /\ "A" \in Seg7!Shape(Seg7!Numeral[n + 1]) <=> n \notin {1, 4}
         /\ "B" \in Seg7!Shape(Seg7!Numeral[n + 1]) <=> n \notin {5, 6}
         /\ "C" \in Seg7!Shape(Seg7!Numeral[n + 1]) <=> n # 2
         /\ "D" \in Seg7!Shape(Seg7!Numeral[n + 1]) <=> n \notin {1, 4, 7}
         /\ "E" \in Seg7!Shape(Seg7!Numeral[n + 1]) <=> n \in {0, 2, 6, 8}
         /\ "F" \in Seg7!Shape(Seg7!Numeral[n + 1]) <=> n \notin {1, 2, 3, 7}
         /\ "G" \in Seg7!Shape(Seg7!Numeral[n + 1]) <=> n \notin {0, 1, 7}
<1>1. CASE n = 0
  BY <1>1 DEF Seg7!Numeral, Seg7!Shape, Seg7!Segments
<1>2. CASE n = 1
  BY <1>2 DEF Seg7!Numeral, Seg7!Shape, Seg7!Segments
<1>3. CASE n = 2
  BY <1>3 DEF Seg7!Numeral, Seg7!Shape, Seg7!Segments
<1>4. CASE n = 3
  BY <1>4 DEF Seg7!Numeral, Seg7!Shape, Seg7!Segments
<1>5. CASE n = 4
  BY <1>5 DEF Seg7!Numeral, Seg7!Shape, Seg7!Segments
<1>6. CASE n = 5
  BY <1>6 DEF Seg7!Numeral, Seg7!Shape, Seg7!Segments
<1>7. CASE n = 6
  BY <1>7 DEF Seg7!Numeral, Seg7!Shape, Seg7!Segments
<1>8. CASE n = 7
  BY <1>8 DEF Seg7!Numeral, Seg7!Shape, Seg7!Segments
<1>9. CASE n = 8
  BY <1>9 DEF Seg7!Numeral, Seg7!Shape, Seg7!Segments
<1>10. CASE n = 9
  BY <1>10 DEF Seg7!Numeral, Seg7!Shape, Seg7!Segments
<1> QED BY <1>1, <1>2, <1>3, <1>4, <1>5, <1>6, <1>7, <1>8, <1>9, <1>10

LEMMA DigitsDiffer ==
  ASSUME NEW m \in 0 .. 9, NEW n \in 0 .. 9,
         Seg7!Shape(Seg7!Numeral[m + 1]) = Seg7!Shape(Seg7!Numeral[n + 1])
  PROVE  m = n
<1>1. PICK x : x = Seg7!Shape(Seg7!Numeral[m + 1]) /\ x = Seg7!Shape(Seg7!Numeral[n + 1])
  OBVIOUS
<1>2. /\ "A" \in x <=> m \notin {1, 4}
      /\ "B" \in x <=> m \notin {5, 6}
      /\ "C" \in x <=> m # 2
      /\ "D" \in x <=> m \notin {1, 4, 7}
      /\ "E" \in x <=> m \in {0, 2, 6, 8}
      /\ "F" \in x <=> m \notin {1, 2, 3, 7}
      /\ "G" \in x <=> m \notin {0, 1, 7}
  BY <1>1, ShapesAre
<1>3. /\ "A" \in x <=> n \notin {1, 4}
      /\ "B" \in x <=> n \notin {5, 6}
      /\ "C" \in x <=> n # 2
      /\ "D" \in x <=> n \notin {1, 4, 7}
      /\ "E" \in x <=> n \in {0, 2, 6, 8}
      /\ "F" \in x <=> n \notin {1, 2, 3, 7}
      /\ "G" \in x <=> n \notin {0, 1, 7}
  BY <1>1, ShapesAre
<1> QED BY <1>2, <1>3

LEMMA AnyShape == ASSUME NEW c PROVE Seg7!Shape(c) \subseteq Seg7!Segments
BY DEF Seg7!Shape, Seg7!Segments

LEMMA LitIs ==
  ASSUME NEW c, NEW b \in BOOLEAN
  PROVE  /\ Seg7!Lit(c, b) \in SUBSET (Seg7!Segments \cup {Seg7!DP})
         /\ Seg7!Lit(c, b) \ {Seg7!DP} = Seg7!Shape(c)
         /\ Seg7!DP \in Seg7!Lit(c, b) <=> b
<1>1. Seg7!DP \notin Seg7!Segments
  BY DEF Seg7!DP, Seg7!Segments
<1>2. Seg7!Lit(c, b) = Seg7!Shape(c) \cup IF b THEN {Seg7!DP} ELSE {}
  BY DEF Seg7!Lit
<1> QED BY <1>1, <1>2, AnyShape

LEMMA ReadIs ==
  ASSUME NEW d, NEW n \in 0 .. 9, NEW b \in BOOLEAN, digit[d] = Seg7!Lit(Seg7!Numeral[n + 1], b)
  PROVE  Seg7!Read(d) = n /\ (Seg7!DP \in digit[d] <=> b)
<1> DEFINE fits == {m \in 0 .. 9 : Seg7!Shape(Seg7!Numeral[m + 1]) = digit[d] \ {Seg7!DP}}
<1>1. digit[d] \ {Seg7!DP} = Seg7!Shape(Seg7!Numeral[n + 1]) /\ (Seg7!DP \in digit[d] <=> b)
  BY LitIs
<1>2. n \in fits /\ \A m \in fits : m = n
  BY <1>1, DigitsDiffer
<1> HIDE DEF fits
<1>3. fits # {} /\ Seg7!Max(fits) = n
  <2>1. n >= n /\ fits # {}
    BY <1>2
  <2>2. \E x \in fits : \A y \in fits : x >= y
    BY <1>2, <2>1
  <2>3. Seg7!Max(fits) \in fits
    BY <2>2, Zenon DEF Seg7!Max
  <2> QED BY <1>2, <2>1, <2>3
<1>4. Seg7!Read(d) = IF fits = {} THEN -1 ELSE Seg7!Max(fits)
  BY DEF Seg7!Read, fits
<1> QED BY <1>1, <1>3, <1>4

Sides == {"left", "right"}
From(f) == IF f = "left" THEN 0 ELSE 4
Drawn(f, d) ==
  digit[d] = Seg7!Lit(Seg7!Place(fields[f].value, From(f) + 2 - d), fields[f].kind = "tenths" /\ d = From(f) + 1)

\* A field that was given something, other than a voltage whose tenth is 10.
Spelled(f) == fields[f] # Seg7!Blank /\ fields[f].kind # "carried"

\* What has been drawn of such a field, and what is left to draw.
FieldRight(f) ==
  \/ fields[f] = Seg7!Blank /\ (Seg7!Idle \/ start # From(f))
  \/ fields[f].kind = "carried"
  \/ /\ fields[f].value \in Nat /\ fields[f].kind \in {"whole", "tenths"}
     /\ \A d \in From(f) .. From(f) + 2 : start # From(f) \/ d > end => Drawn(f, d)
     /\ start = From(f) /\ ~Seg7!Idle =>
          Spelling(str, len, fields[f].value, fields[f].kind, start + 2 - end)

GearRight ==
  fields["gear"].value # 0 =>
    /\ fields["gear"].value \in 0 .. 9
    /\ digit[3] = Seg7!Lit(Seg7!Numeral[fields["gear"].value + 1], FALSE)

DisplayTyped ==
  /\ digit \in [0 .. 7 -> SUBSET (Seg7!Segments \cup {Seg7!DP})]
  /\ start \in {0, 4} /\ end \in start - 1 .. start + 2 /\ Len(str) \in Nat /\ len \in 0 .. Len(str)
  /\ DOMAIN fields = Seg7!Fields

SegInv == DisplayTyped /\ GearRight /\ \A f \in Sides : FieldRight(f)

LEMMA DisplayRight == ASSUME SegInv PROVE Seg7!TypeOK /\ Seg7!FieldsReadTrue
<1>1. Seg7!TypeOK
  BY DEF SegInv, DisplayTyped, Seg7!TypeOK
<1>2. fields["gear"].value # 0 => Seg7!Read(3) = fields["gear"].value
  BY ReadIs DEF SegInv, GearRight
<1>3. ASSUME NEW f \in Sides, Spelled(f), Seg7!Idle \/ start # Seg7!Min(Seg7!Field(f))
      PROVE  /\ Seg7!Reads(f) = fields[f].value % 1000
             /\ \A d \in Seg7!Field(f) : Seg7!DP \in digit[d] <=>
                  fields[f].kind = "tenths" /\ d = Seg7!Max(Seg7!Field(f)) - 1
             /\ fields[f].kind # "carried"
  <2>1. PICK a \in Nat : /\ a = From(f) /\ Seg7!Field(f) = a .. a + 2
                         /\ Seg7!Min(Seg7!Field(f)) = a /\ Seg7!Max(Seg7!Field(f)) = a + 2
    <3> DEFINE At(a) == /\ a = From(f) /\ Seg7!Field(f) = a .. a + 2
                        /\ Seg7!Min(Seg7!Field(f)) = a /\ Seg7!Max(Seg7!Field(f)) = a + 2
    <3>1. 0 + 2 = 2 /\ 4 + 2 = 6 /\ 0 \in Nat /\ 4 \in Nat /\ "left" # "right"
      OBVIOUS
    <3>2. f = "left" => At(0)
      BY <3>1, Ends, Zenon DEF From
    <3>3. f = "right" => At(4)
      BY <3>1, Ends, Zenon DEF From
    <3>4. f = "left" \/ f = "right"
      BY DEF Sides
    <3> HIDE DEF At
    <3>5. \E a \in Nat : At(a)
      BY <3>1, <3>2, <3>3, <3>4, Zenon
    <3> QED BY <3>5, Zenon DEF At
  <2>2. PICK v \in Nat : v = fields[f].value /\ \A d \in a .. a + 2 : Drawn(f, d)
    <3>1. FieldRight(f)
      BY DEF SegInv
    <3>2. fields[f].value \in Nat /\ \A d \in a .. a + 2 : start # a \/ d > end => Drawn(f, d)
      BY <1>3, <2>1, <3>1 DEF FieldRight, Spelled
    <3>3. start # a \/ (start = a /\ end < start /\ start \in Int /\ end \in Int)
      BY <1>3, <2>1 DEF Seg7!Idle, SegInv, DisplayTyped
    <3>4. \A d \in a .. a + 2 : start # a \/ d > end
      BY <3>3
    <3> QED BY <3>2, <3>4
  <2>3. ASSUME NEW k \in 0 .. 2
        PROVE  /\ Seg7!Read(a + 2 - k) = (v \div Seg7!Power[k + 1]) % 10
               /\ Seg7!DP \in digit[a + 2 - k] <=> (fields[f].kind = "tenths" /\ a + 2 - k = a + 1)
    <3>1. PICK n \in 0 .. 9 : n = (v \div Seg7!Power[k + 1]) % 10
      BY PlaceIs
    <3>2. a + 2 - k \in a .. a + 2 /\ a + 2 - (a + 2 - k) = k
      BY <2>1
    <3>3. PICK b \in BOOLEAN : b = (fields[f].kind = "tenths" /\ a + 2 - k = a + 1)
      OBVIOUS
    <3>4. digit[a + 2 - k] = Seg7!Lit(Seg7!Place(v, k), b)
      BY <2>1, <2>2, <3>2, <3>3 DEF Drawn
    <3>5. Seg7!Place(v, k) = Seg7!Numeral[n + 1]
      BY <3>1 DEF Seg7!Place
    <3>6. Seg7!Read(a + 2 - k) = n /\ (Seg7!DP \in digit[a + 2 - k] <=> b)
      BY <3>4, <3>5, ReadIs
    <3> QED BY <3>1, <3>3, <3>6
  <2>4. a + 2 - 0 = a + 2 /\ a + 2 - 1 = a + 1 /\ a + 2 - 2 = a
    OBVIOUS
  <2>5. /\ Seg7!Read(a + 2) = v % 10 /\ Seg7!Read(a + 1) = (v \div 10) % 10
        /\ Seg7!Read(a) = (v \div 100) % 10
    <3>1. /\ Seg7!Read(a + 2) = (v \div Seg7!Power[0 + 1]) % 10
          /\ Seg7!Read(a + 1) = (v \div Seg7!Power[1 + 1]) % 10
          /\ Seg7!Read(a) = (v \div Seg7!Power[2 + 1]) % 10
      BY <2>3, <2>4
    <3> QED BY <3>1, PowersAre, SMT DEF SixPowers
  <2>6. 100 * ((v \div 100) % 10) + 10 * ((v \div 10) % 10) + (v % 10) = v % 1000
    OBVIOUS
  <2>7. Seg7!Reads(f) = v % 1000
    BY <2>1, <2>5, <2>6, SMTT(40) DEF Seg7!Reads
  <2>8. ASSUME NEW d \in a .. a + 2
        PROVE  Seg7!DP \in digit[d] <=> fields[f].kind = "tenths" /\ d = a + 2 - 1
    <3>1. a + 2 - d \in 0 .. 2 /\ a + 2 - (a + 2 - d) = d
      OBVIOUS
    <3> QED BY <2>3, <2>4, <3>1
  <2> QED BY <1>3, <2>1, <2>2, <2>7, <2>8 DEF Spelled
<1>4. Seg7!FieldsReadTrue
  <2>1. ASSUME NEW f \in Sides, Seg7!Drawn(f), fields[f].kind # "carried" PROVE Seg7!ReadsTrue(f)
    BY <1>3, <2>1 DEF Seg7!Drawn, Seg7!ReadsTrue, Spelled
  <2> QED BY <1>2, <2>1 DEF Sides, Seg7!FieldsReadTrue
<1> QED BY <1>1, <1>4

\* A digit that is drawn leaves the other digits alone.
LEMMA OneDigit ==
  ASSUME DisplayTyped, NEW e \in 0 .. 7, NEW x, digit' = [digit EXCEPT ![e] = x]
  PROVE  digit'[e] = x /\ \A d \in 0 .. 7 : d # e => digit'[d] = digit[d]
BY DEF DisplayTyped

\* A step that draws: the digit at end, or none.
LEMMA DrawKeeps ==
  ASSUME SegInv, ~Seg7!Idle, NEW c, NEW b \in BOOLEAN, UNCHANGED <<str, start, fields>>,
         len' \in 0 .. Len(str), digit' = [digit EXCEPT ![end] = Seg7!Lit(c, b)], end' = end - 1,
         \A f \in Sides : start = From(f) /\ Spelled(f) =>
           /\ c = Seg7!Place(fields[f].value, start + 2 - end)
           /\ b = (fields[f].kind = "tenths" /\ start + 2 - end = 1)
           /\ Spelling(str, len', fields[f].value, fields[f].kind, start + 2 - end + 1)
  PROVE  SegInv'
<1>1. /\ DisplayTyped /\ start \in {0, 4} /\ end \in start .. start + 2 /\ end \in 0 .. 7 /\ end \in Int
      /\ end # 3
  <2>1. start \in {0, 4} /\ end \in start - 1 .. start + 2 /\ ~(end < start)
    BY DEF SegInv, DisplayTyped, Seg7!Idle
  <2> QED BY <2>1 DEF SegInv
<1>2. /\ digit'[end] = Seg7!Lit(c, b) /\ \A d \in 0 .. 7 : d # end => digit'[d] = digit[d]
  BY <1>1, OneDigit
<1>3. DisplayTyped'
  <2>1. digit' \in [0 .. 7 -> SUBSET (Seg7!Segments \cup {Seg7!DP})]
    BY <1>1, LitIs DEF DisplayTyped
  <2>2. end' \in start' - 1 .. start' + 2
    BY <1>1
  <2> QED BY <1>1, <2>1, <2>2 DEF DisplayTyped
<1>4. GearRight'
  <2>1. digit'[3] = digit[3]
    <3>1. 3 \in 0 .. 7
      OBVIOUS
    <3> QED BY <1>1, <1>2, <3>1, Zenon
  <2>2. GearRight
    BY DEF SegInv
  <2> QED BY <2>1, <2>2, Zenon DEF GearRight
<1>5. ASSUME NEW f \in Sides PROVE FieldRight(f)'
  <2>1. FieldRight(f) /\ From(f) \in {0, 4}
    BY DEF SegInv, From
  <2>2. CASE fields[f] = Seg7!Blank
    <3>1. start # From(f)
      BY <2>1, <2>2 DEF FieldRight, Seg7!Blank
    <3> QED BY <2>2, <3>1 DEF FieldRight
  <2>4. CASE fields[f].kind = "carried"
    BY <2>4 DEF FieldRight
  <2>3. CASE Spelled(f)
    <3>1. /\ fields[f].value \in Nat /\ fields[f].kind \in {"whole", "tenths"}
          /\ \A d \in From(f) .. From(f) + 2 : start # From(f) \/ d > end => Drawn(f, d)
      BY <2>1, <2>3 DEF FieldRight, Spelled
    <3>2. ASSUME NEW d \in From(f) .. From(f) + 2, start # From(f) \/ d > end - 1
          PROVE  digit'[d] = Seg7!Lit(Seg7!Place(fields[f].value, From(f) + 2 - d),
                                      fields[f].kind = "tenths" /\ d = From(f) + 1)
      <4>1. CASE d = end
        <5>1. start = From(f)
          BY <1>1, <2>1, <4>1
        <5>2. /\ c = Seg7!Place(fields[f].value, From(f) + 2 - d)
              /\ b = (fields[f].kind = "tenths" /\ start + 2 - end = 1)
          BY <2>3, <4>1, <5>1
        <5>3. (start + 2 - end = 1) <=> (d = From(f) + 1)
          BY <1>1, <4>1, <5>1
        <5>4. b = (fields[f].kind = "tenths" /\ d = From(f) + 1)
          BY <5>2, <5>3
        <5> QED BY <1>2, <4>1, <5>2, <5>4
      <4>2. CASE d # end
        <5>1. d \in 0 .. 7 /\ (start # From(f) \/ d > end)
          BY <1>1, <2>1, <3>2, <4>2
        <5> QED BY <1>2, <3>1, <4>2, <5>1 DEF Drawn
      <4> QED BY <4>1, <4>2
    <3>3. \A d \in From(f) .. From(f) + 2 : start' # From(f) \/ d > end' => Drawn(f, d)'
      BY <3>2 DEF Drawn
    <3>4. start = From(f) => Spelling(str, len', fields[f].value, fields[f].kind, start + 2 - (end - 1))
      <4>1. start + 2 - end + 1 = start + 2 - (end - 1)
        BY <1>1
      <4> QED BY <2>3, <4>1
    <3>5. start' = From(f) => Spelling(str', len', fields'[f].value, fields'[f].kind, start' + 2 - end')
      BY <3>4, Zenon
    <3>6. fields'[f].value \in Nat /\ fields'[f].kind \in {"whole", "tenths"}
      BY <3>1, Zenon
    <3> QED BY <3>3, <3>5, <3>6, Zenon DEF FieldRight
  <2> QED BY <2>2, <2>3, <2>4 DEF Spelled
<1> QED BY <1>3, <1>4, <1>5 DEF SegInv

\* What is known of the place that is drawn next.
LEMMA Drawing ==
  ASSUME SegInv, ~Seg7!Idle, NEW f \in Sides, start = From(f), Spelled(f)
  PROVE  /\ fields[f].value \in Nat /\ start + 2 - end \in 0 .. 2
         /\ Spelling(str, len, fields[f].value, fields[f].kind, start + 2 - end)
<1>1. start \in {0, 4} /\ end \in start - 1 .. start + 2 /\ ~(end < start) /\ FieldRight(f)
  BY DEF SegInv, DisplayTyped, Seg7!Idle
<1> QED BY <1>1 DEF FieldRight, Spelled

LEMMA CharKeeps == ASSUME SegInv, Seg7!DrawChar PROVE SegInv'
<1>1. /\ ~Seg7!Idle /\ len > 0 /\ str[len] # "." /\ UNCHANGED <<str, start, fields>>
      /\ digit' = [digit EXCEPT ![end] = Seg7!Lit(str[len], len < Len(str) /\ str[len + 1] = ".")]
      /\ len' = len - 1 /\ end' = end - 1
  BY DEF Seg7!DrawChar
<1>2. PICK b \in BOOLEAN : b = (len < Len(str) /\ str[len + 1] = ".")
  OBVIOUS
<1>3. len' \in 0 .. Len(str)
  <2>1. Len(str) \in Nat /\ len \in 0 .. Len(str)
    BY DEF SegInv, DisplayTyped
  <2> QED BY <1>1, <2>1
<1>4. ASSUME NEW f \in Sides, start = From(f), Spelled(f)
      PROVE  /\ str[len] = Seg7!Place(fields[f].value, start + 2 - end)
             /\ b = (fields[f].kind = "tenths" /\ start + 2 - end = 1)
             /\ Spelling(str, len', fields[f].value, fields[f].kind, start + 2 - end + 1)
  <2>1. PICK j \in 0 .. 2, v \in Nat :
          j = start + 2 - end /\ v = fields[f].value /\ Spelling(str, len, v, fields[f].kind, j)
    BY <1>1, <1>4, Drawing
  <2>2. /\ str[len] = Seg7!Place(v, j)
        /\ (len < Len(str) /\ str[len + 1] = ".") <=> (fields[f].kind = "tenths" /\ j = 1)
        /\ Spelling(str, len - 1, v, fields[f].kind, j + 1)
    <3>1. PICK z, l, k : z = str /\ l = len /\ k = fields[f].kind
      OBVIOUS
    <3>2. Spelling(z, l, v, k, j) /\ l > 0 /\ z[l] # "."
      BY <1>1, <2>1, <3>1, Zenon
    <3>3. /\ z[l] = Seg7!Place(v, j)
          /\ (l < Len(z) /\ z[l + 1] = ".") <=> (k = "tenths" /\ j = 1)
          /\ Spelling(z, l - 1, v, k, j + 1)
      BY <3>2, CharDrawn
    <3> QED BY <3>1, <3>3, Zenon
  <2>3. b = (fields[f].kind = "tenths" /\ j = 1)
    <3>1. b <=> (len < Len(str) /\ str[len + 1] = ".")
      BY <1>2
    <3>2. PICK t \in BOOLEAN : t = (fields[f].kind = "tenths" /\ j = 1)
      OBVIOUS
    <3>3. b <=> t
      BY <2>2, <3>1, <3>2
    <3> QED BY <3>2, <3>3
  <2> QED BY <1>1, <2>1, <2>2, <2>3
<1>5. digit' = [digit EXCEPT ![end] = Seg7!Lit(str[len], b)]
  BY <1>1, <1>2
<1>6. PICK c : c = str[len]
  OBVIOUS
<1>7. /\ digit' = [digit EXCEPT ![end] = Seg7!Lit(c, b)]
      /\ \A f \in Sides : start = From(f) /\ Spelled(f) =>
           /\ c = Seg7!Place(fields[f].value, start + 2 - end)
           /\ b = (fields[f].kind = "tenths" /\ start + 2 - end = 1)
           /\ Spelling(str, len', fields[f].value, fields[f].kind, start + 2 - end + 1)
  BY <1>4, <1>5, <1>6, Zenon
<1>8. ~Seg7!Idle /\ UNCHANGED <<str, start, fields>> /\ end' = end - 1
  BY <1>1
<1> QED BY <1>3, <1>7, <1>8, DrawKeeps, Zenon

LEMMA PadKeeps == ASSUME SegInv, Seg7!Pad PROVE SegInv'
<1>1. /\ ~Seg7!Idle /\ len = 0 /\ UNCHANGED <<str, start, len, fields>>
      /\ digit' = [digit EXCEPT ![end] = Seg7!Lit("0", FALSE)] /\ end' = end - 1
  BY DEF Seg7!Pad
<1>2. len' \in 0 .. Len(str)
  BY <1>1 DEF SegInv, DisplayTyped
<1>3. ASSUME NEW f \in Sides, start = From(f), Spelled(f)
      PROVE  /\ "0" = Seg7!Place(fields[f].value, start + 2 - end)
             /\ FALSE = (fields[f].kind = "tenths" /\ start + 2 - end = 1)
             /\ Spelling(str, len', fields[f].value, fields[f].kind, start + 2 - end + 1)
  <2>1. PICK j \in 0 .. 2, v \in Nat :
          j = start + 2 - end /\ v = fields[f].value /\ Spelling(str, 0, v, fields[f].kind, j)
    BY <1>1, <1>3, Drawing
  <2>2. /\ Seg7!Place(v, j) = "0" /\ ~(fields[f].kind = "tenths" /\ j = 1)
        /\ Spelling(str, 0, v, fields[f].kind, j + 1)
    BY <2>1, ZeroPadded
  <2> QED BY <1>1, <2>1, <2>2
<1>4. FALSE \in BOOLEAN
  OBVIOUS
<1> QED BY <1>1, <1>2, <1>3, <1>4, DrawKeeps

LEMMA DotKeeps == ASSUME SegInv, Seg7!SkipDot PROVE SegInv'
<1>1. /\ ~Seg7!Idle /\ len > 0 /\ str[len] = "." /\ len' = len - 1
      /\ UNCHANGED <<digit, str, start, end, fields>>
  BY DEF Seg7!SkipDot
<1>2. DisplayTyped'
  <2>1. Len(str) \in Nat /\ len \in 0 .. Len(str)
    BY DEF SegInv, DisplayTyped
  <2>2. len' \in 0 .. Len(str)
    BY <1>1, <2>1
  <2> QED BY <1>1, <2>2 DEF SegInv, DisplayTyped
<1>3. GearRight'
  BY <1>1 DEF SegInv, GearRight
<1>4. ASSUME NEW f \in Sides PROVE FieldRight(f)'
  <2>1. FieldRight(f)
    BY DEF SegInv
  <2>2. \A d : Drawn(f, d) => Drawn(f, d)'
    BY <1>1 DEF Drawn
  <2>3. Seg7!Idle' <=> Seg7!Idle
    BY <1>1 DEF Seg7!Idle
  <2>4. CASE fields[f] = Seg7!Blank
    BY <1>1, <2>1, <2>3, <2>4 DEF FieldRight, Seg7!Blank
  <2>6. CASE fields[f].kind = "carried"
    BY <1>1, <2>6 DEF FieldRight
  <2>5. CASE Spelled(f)
    <3>1. ASSUME start = From(f) PROVE Spelling(str, len - 1, fields[f].value, fields[f].kind, start + 2 - end)
      BY <1>1, <2>5, <3>1, Drawing, DotSkipped
    <3>2. start' = From(f) => Spelling(str', len', fields'[f].value, fields'[f].kind, start' + 2 - end')
      BY <1>1, <3>1, Zenon
    <3>3. /\ fields'[f].value \in Nat /\ fields'[f].kind \in {"whole", "tenths"}
          /\ \A d \in From(f) .. From(f) + 2 : start' # From(f) \/ d > end' => Drawn(f, d)'
      BY <1>1, <2>1, <2>2, <2>5, Zenon DEF FieldRight, Spelled
    <3> QED BY <3>2, <3>3, Zenon DEF FieldRight
  <2> QED BY <2>4, <2>5, <2>6 DEF Spelled
<1> QED BY <1>2, <1>3, <1>4 DEF SegInv

\* A string begins to be displayed in the field f: the other field has been drawn.
LEMMA StartKeeps ==
  ASSUME SegInv, Seg7!Idle, NEW f \in Sides, NEW v \in Nat, NEW kind \in {"whole", "tenths", "carried"}, NEW z,
         Seg7!DispStr(z, f, v, kind), Len(z) \in Nat, kind = "carried" \/ Spelling(z, Len(z), v, kind, 0)
  PROVE  SegInv'
<1>1. /\ str' = z /\ len' = Len(z) /\ digit' = digit
      /\ fields' = [fields EXCEPT ![f] = [value |-> v, kind |-> kind]]
      /\ start' = Seg7!Min(Seg7!Field(f)) /\ end' = Seg7!Max(Seg7!Field(f))
  BY DEF Seg7!DispStr
<1>2. start' = From(f) /\ end' = From(f) + 2 /\ From(f) \in {0, 4}
  <2>1. 0 + 2 = 2 /\ 4 + 2 = 6 /\ "left" # "right"
    OBVIOUS
  <2>2. CASE f = "left"
    BY <1>1, <2>1, <2>2, Ends, Zenon DEF From
  <2>3. CASE f = "right"
    BY <1>1, <2>1, <2>3, Ends, Zenon DEF From
  <2> QED BY <2>2, <2>3 DEF Sides
<1>3. Len(z) \in Nat
  OBVIOUS
<1>4. /\ DOMAIN fields = Seg7!Fields /\ f \in Seg7!Fields /\ "gear" \in Seg7!Fields /\ f # "gear"
      /\ Sides \subseteq Seg7!Fields
  BY DEF SegInv, DisplayTyped, Seg7!Fields, Sides
<1>5. /\ DOMAIN fields' = Seg7!Fields /\ fields'[f] = [value |-> v, kind |-> kind]
      /\ \A g \in Seg7!Fields : g # f => fields'[g] = fields[g]
  BY <1>1, <1>4, Zenon
<1>6. DisplayTyped'
  <2>1. digit' \in [0 .. 7 -> SUBSET (Seg7!Segments \cup {Seg7!DP})]
    BY <1>1 DEF SegInv, DisplayTyped
  <2>2. start' \in {0, 4} /\ end' \in start' - 1 .. start' + 2
    BY <1>2
  <2>3. Len(str') \in Nat /\ len' \in 0 .. Len(str')
    BY <1>1, <1>3
  <2> QED BY <1>5, <2>1, <2>2, <2>3 DEF DisplayTyped
<1>7. GearRight'
  <2>1. fields'["gear"] = fields["gear"]
    BY <1>4, <1>5
  <2>2. GearRight
    BY DEF SegInv
  <2> QED BY <1>1, <2>1, <2>2, Zenon DEF GearRight
<1>8. FieldRight(f)'
  <2>1. PICK r : r = fields'[f]
    OBVIOUS
  <2>2. r.value = v /\ r.kind = kind
    BY <1>5, <2>1
  <2>3. start' + 2 - end' = 0
    BY <1>2
  <2>4. kind # "carried" => Spelling(str', len', r.value, r.kind, start' + 2 - end')
    BY <1>1, <2>2, <2>3, Zenon
  <2>5. \A d \in From(f) .. From(f) + 2 : ~(start' # From(f) \/ d > end')
    BY <1>2
  <2>6. kind = "carried" \/ kind \in {"whole", "tenths"}
    OBVIOUS
  <2> QED BY <2>1, <2>2, <2>4, <2>5, <2>6, Zenon DEF FieldRight
<1>9. ASSUME NEW g \in Sides, g # f PROVE FieldRight(g)'
  <2>1. FieldRight(g) /\ fields'[g] = fields[g]
    BY <1>4, <1>5, <1>9 DEF SegInv
  <2>2. start' # From(g) /\ From(g) \in {0, 4}
    BY <1>2, <1>9 DEF From, Sides
  <2>3. \A d \in From(g) .. From(g) + 2 : start # From(g) \/ d > end
    <3>1. end < start /\ end \in Int /\ start \in Int
      BY DEF Seg7!Idle, SegInv, DisplayTyped
    <3> QED BY <2>2, <3>1
  <2>4. \A d : Drawn(g, d) => Drawn(g, d)'
    BY <1>1, <2>1 DEF Drawn
  <2>5. CASE fields[g] = Seg7!Blank
    BY <2>1, <2>2, <2>5 DEF FieldRight, Seg7!Blank
  <2>7. CASE fields[g].kind = "carried"
    BY <2>1, <2>7 DEF FieldRight
  <2>6. CASE Spelled(g)
    <3>1. /\ fields[g].value \in Nat /\ fields[g].kind \in {"whole", "tenths"}
          /\ \A d \in From(g) .. From(g) + 2 : Drawn(g, d)
      BY <2>1, <2>3, <2>6, Zenon DEF FieldRight, Spelled
    <3> QED BY <2>1, <2>2, <2>4, <3>1, Zenon DEF FieldRight
  <2> QED BY <2>5, <2>6, <2>7 DEF Spelled
<1> QED BY <1>6, <1>7, <1>8, <1>9 DEF SegInv

LEMMA DisplayKeeps ==
  ASSUME SegInv, Seg7!display_right \/ Seg7!display_left \/ Seg7!display_left_f
  PROVE  SegInv'
<1>1. "left" \in Sides /\ "right" \in Sides
  BY DEF Sides
<1>2. ASSUME NEW f \in Sides, NEW v \in Values, Seg7!Idle, Seg7!DispStr(Seg7!Decimal(v), f, v, "whole")
      PROVE  SegInv'
  <2>1. v \in Nat /\ v < Seg7!Power[6]
    BY DisplayConstants, WordIs
  <2>2. Spelling(Seg7!Decimal(v), Len(Seg7!Decimal(v)), v, "whole", 0)
    BY <2>1, WholeSpelled
  <2>3. Len(Seg7!Decimal(v)) \in Nat
    <3>1. PICK p \in 1 .. 5 : Spells(Seg7!Decimal(v), v, "whole", p)
      BY <2>2 DEF Spelling
    <3> QED BY <3>1 DEF Spells
  <2> QED BY <1>1, <1>2, <2>1, <2>2, <2>3, StartKeeps
<1>3. CASE Seg7!display_right
  BY <1>1, <1>2, <1>3 DEF Seg7!display_right
<1>4. CASE Seg7!display_left
  BY <1>1, <1>2, <1>4 DEF Seg7!display_left
<1>5. CASE Seg7!display_left_f
  <2>1. PICK raw \in Volts : Seg7!DispStr(Seg7!DecimalTenths(raw), "left", Seg7!Rounded(raw),
                                         IF Seg7!TenthOf(raw) = 10 THEN "carried" ELSE "tenths")
    BY <1>5 DEF Seg7!display_left_f
  <2>2. /\ Seg7!Rounded(raw) \in Nat /\ Seg7!Rounded(raw) < 10 * Seg7!Word
        /\ Seg7!TenthOf(raw) # 10 => Seg7!DecimalTenths(raw) = Pointed(Seg7!Rounded(raw))
        /\ Len(Seg7!DecimalTenths(raw)) \in Nat
    BY DisplayConstants, VoltageIs, VoltageLength
  <2>3. PICK kind : kind = IF Seg7!TenthOf(raw) = 10 THEN "carried" ELSE "tenths"
    OBVIOUS
  <2>4. PICK z, v : z = Seg7!DecimalTenths(raw) /\ v = Seg7!Rounded(raw)
    OBVIOUS
  <2>5. kind = "carried" \/ (kind = "tenths" /\ Spelling(z, Len(z), v, "tenths", 0))
    <3>1. Spelling(Pointed(v), Len(Pointed(v)), v, "tenths", 0)
      BY <2>2, <2>4, TenthsSpelled
    <3>2. CASE Seg7!TenthOf(raw) = 10
      BY <2>3, <3>2
    <3>3. CASE Seg7!TenthOf(raw) # 10
      BY <2>2, <2>3, <2>4, <3>1, <3>3
    <3> QED BY <3>2, <3>3
  <2>6. Seg7!Idle
    BY <1>5 DEF Seg7!display_left_f
  <2>7. Seg7!DispStr(z, "left", v, kind) /\ v \in Nat /\ Len(z) \in Nat
    BY <2>1, <2>2, <2>3, <2>4, Zenon
  <2> QED BY <1>1, <2>5, <2>6, <2>7, StartKeeps
<1> QED BY <1>3, <1>4, <1>5

LEMMA GearKeeps == ASSUME SegInv, Seg7!display_gear PROVE SegInv'
<1>1. PICK g \in Gears :
        /\ digit' = [digit EXCEPT ![3] = Seg7!Lit(IF g = 0 THEN "n" ELSE Seg7!Numeral[g + 1], FALSE)]
        /\ fields' = [fields EXCEPT !["gear"] = [value |-> g, kind |-> "whole"]]
  BY DEF Seg7!display_gear
<1>2. UNCHANGED <<str, start, end, len>> /\ g \in 0 .. 9 /\ 3 \in 0 .. 7 /\ FALSE \in BOOLEAN
  BY DisplayConstants DEF Seg7!display_gear
<1>3. PICK c : c = IF g = 0 THEN "n" ELSE Seg7!Numeral[g + 1]
  OBVIOUS
<1>4. DisplayTyped
  BY DEF SegInv
<1>5. digit' = [digit EXCEPT ![3] = Seg7!Lit(c, FALSE)]
  BY <1>1, <1>3
<1>6. digit'[3] = Seg7!Lit(c, FALSE) /\ \A d \in 0 .. 7 : d # 3 => digit'[d] = digit[d]
  BY <1>2, <1>4, <1>5, OneDigit, Zenon
<1>7. DOMAIN fields = Seg7!Fields /\ "gear" \in Seg7!Fields /\ Sides \subseteq Seg7!Fields /\ "gear" \notin Sides
  BY <1>4 DEF DisplayTyped, Seg7!Fields, Sides
<1>8. /\ DOMAIN fields' = Seg7!Fields /\ fields'["gear"] = [value |-> g, kind |-> "whole"]
      /\ \A f \in Seg7!Fields : f # "gear" => fields'[f] = fields[f]
  BY <1>1, <1>7, Zenon
<1>9. DisplayTyped'
  <2>1. digit' \in [0 .. 7 -> SUBSET (Seg7!Segments \cup {Seg7!DP})]
    BY <1>2, <1>4, <1>5, LitIs DEF DisplayTyped
  <2> QED BY <1>2, <1>4, <1>8, <2>1 DEF DisplayTyped
<1>10. GearRight'
  <2>1. PICK r : r = fields'["gear"]
    OBVIOUS
  <2>2. r.value = g
    BY <1>8, <2>1
  <2>3. g # 0 => c = Seg7!Numeral[g + 1]
    BY <1>3
  <2> QED BY <1>2, <1>6, <2>1, <2>2, <2>3, Zenon DEF GearRight
<1>11. ASSUME NEW f \in Sides PROVE FieldRight(f)'
  <2>1. FieldRight(f) /\ fields'[f] = fields[f]
    BY <1>7, <1>8 DEF SegInv
  <2>2. ASSUME NEW d \in From(f) .. From(f) + 2, Drawn(f, d) PROVE Drawn(f, d)'
    <3>1. d \in 0 .. 7 /\ d # 3
      BY DEF From
    <3> QED BY <1>6, <2>1, <2>2, <3>1, Zenon DEF Drawn
  <2>3. Seg7!Idle' <=> Seg7!Idle
    BY <1>2 DEF Seg7!Idle
  <2>4. CASE fields[f] = Seg7!Blank /\ (Seg7!Idle \/ start # From(f))
    BY <1>2, <2>1, <2>3, <2>4, Zenon DEF FieldRight
  <2>6. CASE fields[f].kind = "carried"
    BY <2>1, <2>6 DEF FieldRight
  <2>5. CASE ~(fields[f] = Seg7!Blank /\ (Seg7!Idle \/ start # From(f))) /\ fields[f].kind # "carried"
    <3>1. /\ fields[f].value \in Nat /\ fields[f].kind \in {"whole", "tenths"}
          /\ \A d \in From(f) .. From(f) + 2 : start # From(f) \/ d > end => Drawn(f, d)
          /\ start = From(f) /\ ~Seg7!Idle =>
               Spelling(str, len, fields[f].value, fields[f].kind, start + 2 - end)
      BY <2>1, <2>5, Zenon DEF FieldRight
    <3>2. \A d \in From(f) .. From(f) + 2 : start' # From(f) \/ d > end' => Drawn(f, d)'
      BY <1>2, <2>2, <3>1, Zenon
    <3>3. start' = From(f) /\ ~Seg7!Idle' =>
            Spelling(str', len', fields'[f].value, fields'[f].kind, start' + 2 - end')
      BY <1>2, <2>1, <2>3, <3>1, Zenon
    <3> QED BY <2>1, <3>1, <3>2, <3>3, Zenon DEF FieldRight
  <2> QED BY <2>4, <2>5, <2>6
<1> QED BY <1>9, <1>10, <1>11 DEF SegInv

LEMMA DisplayBegins == ASSUME Seg7!Init PROVE SegInv
<1>1. /\ digit = [d \in 0 .. 7 |-> {}] /\ str = <<>> /\ start = 0 /\ end = -1 /\ len = 0
      /\ fields = [f \in Seg7!Fields |-> Seg7!Blank]
  BY DEF Seg7!Init
<1>2. Seg7!Idle
  BY <1>1 DEF Seg7!Idle
<1>3. DisplayTyped
  <2>1. Len(str) \in Nat /\ len \in 0 .. Len(str)
    BY <1>1
  <2> QED BY <1>1, <2>1 DEF DisplayTyped
<1>4. \A f \in Seg7!Fields : fields[f] = Seg7!Blank
  BY <1>1
<1>5. GearRight
  <2>1. fields["gear"] = Seg7!Blank
    BY <1>4 DEF Seg7!Fields
  <2> QED BY <2>1 DEF GearRight, Seg7!Blank
<1>6. ASSUME NEW f \in Sides PROVE FieldRight(f)
  BY <1>2, <1>4 DEF Sides, Seg7!Fields, FieldRight
<1> QED BY <1>3, <1>5, <1>6 DEF SegInv

LEMMA DisplayStep == ASSUME SegInv, [Seg7!Next]_(Seg7!vars) PROVE SegInv'
<1>1. CASE UNCHANGED Seg7!vars
  BY <1>1 DEF Seg7!vars, SegInv, DisplayTyped, GearRight, FieldRight, Drawn, Seg7!Idle
<1> QED BY <1>1, DisplayKeeps, GearKeeps, CharKeeps, DotKeeps, PadKeeps DEF Seg7!Next

-----------------------------------------------------------------------------
(* All the units of a behaviour of MCNodes keep their invariants. *)

NodesInv == IInv /\ LightInv /\ SegInv /\ WheelInv /\ BeatInv /\ RegInv /\ ValueInv

LEMMA UnitsBegin == UnitInit => NodesInv
<1> SUFFICES ASSUME UnitInit PROVE NodesInv
  OBVIOUS
<1>1. Init /\ Wheel!Init /\ Beat!Init /\ Seg7!Init /\ Ecu!Init /\ Regs!Init
  BY DEF UnitInit
<1> QED BY <1>1, InitIInv, LightsBegin, DisplayBegins, WheelBegins, BeatBegins, RegistersBegin, ValueBegins DEF NodesInv

\* A step of one unit leaves the others as they are.
LEMMA OneUnitSteps ==
  ASSUME [UnitNext]_<<unit, vars, wheelVars, beatVars, displayVars, gpsVars, ecuVars, regVars>>
  PROVE  /\ [Next]_vars /\ [Wheel!Next]_(Wheel!vars) /\ [Beat!Next]_(Beat!vars)
         /\ [Seg7!Next]_(Seg7!vars) /\ [Ecu!Next]_(Ecu!vars) /\ [Regs!Next]_(Regs!vars)
<1>1. \/ /\ Next \/ UNCHANGED vars
         /\ Wheel!Next \/ UNCHANGED wheelVars
         /\ Beat!Next \/ UNCHANGED beatVars
         /\ Seg7!Next \/ UNCHANGED displayVars
         /\ Ecu!Next \/ UNCHANGED ecuVars
         /\ Regs!Next \/ UNCHANGED regVars
      \/ UNCHANGED <<unit, vars, wheelVars, beatVars, displayVars, gpsVars, ecuVars, regVars>>
  BY Zenon DEF UnitNext
<1>2. /\ Next \/ UNCHANGED vars
      /\ Wheel!Next \/ UNCHANGED wheelVars
      /\ Beat!Next \/ UNCHANGED beatVars
      /\ Seg7!Next \/ UNCHANGED displayVars
      /\ Ecu!Next \/ UNCHANGED ecuVars
      /\ Regs!Next \/ UNCHANGED regVars
  BY <1>1
<1> QED BY <1>2 DEF Wheel!vars, Beat!vars, Seg7!vars, Ecu!vars, Regs!vars,
           wheelVars, beatVars, displayVars, ecuVars, regVars

LEMMA UnitsStep ==
  ASSUME NodesInv, [UnitNext]_<<unit, vars, wheelVars, beatVars, displayVars, gpsVars, ecuVars, regVars>>
  PROVE  NodesInv'
<1>1. /\ [Next]_vars /\ [Wheel!Next]_(Wheel!vars) /\ [Beat!Next]_(Beat!vars)
      /\ [Seg7!Next]_(Seg7!vars) /\ [Ecu!Next]_(Ecu!vars) /\ [Regs!Next]_(Regs!vars)
  BY OneUnitSteps
<1>2. IInv' /\ LightInv'
  BY <1>1, NextKeeps, LightStep DEF NodesInv
<1>3. WheelInv' /\ BeatInv'
  BY <1>1, WheelStep, BeatStep DEF NodesInv
<1>4. SegInv' /\ RegInv' /\ ValueInv'
  BY <1>1, DisplayStep, RegistersStep, ValueStep DEF NodesInv
<1> QED BY <1>2, <1>3, <1>4 DEF NodesInv

\* What the driver sees is current (SteeringNode/main.c:63-231, max7221_7seg.c):
\* at any moment the two warning lights show the last voltage and temperature
\* that came and were handled, and each field of the seven segments reads as the
\* number it was last given, unless that field itself is being drawn or the number is
\* a voltage of which 0.99 or more is left without its whole volts.
THEOREM WheelIsTrue == UnitSpec => []WheelShowsTrue
<1>1. NodesInv => WheelShowsTrue
  BY LightsImplied, DisplayRight DEF NodesInv, WheelShowsTrue
<1> QED BY <1>1, UnitsBegin, UnitsStep, PTL DEF UnitSpec

\* The other units of the specification that TLC checks keep what their own
\* specifications keep (SensorFrontNode/main.c, heartbeat_rec/main.c, ecu.c,
\* timer.c, pwm.c, adc.c, vnh2sp30.c).
THEOREM UnitsAreTrue == UnitSpec => [](PaddlesRight /\ HolesCounted /\ Reachable /\ EcuValueTrue /\ SettingsHold)
<1>1. NodesInv => PaddlesRight /\ HolesCounted /\ Reachable /\ EcuValueTrue /\ SettingsHold
  BY IInvImplies, WheelImplies, BeatImplies, RegistersImply, ValueImplies DEF NodesInv
<1> QED BY <1>1, UnitsBegin, UnitsStep, PTL DEF UnitSpec

-----------------------------------------------------------------------------
(* The checksum of the GPS finds a character that is changed or lost. *)

\* Every set of numbers has a least one.
LEMMA LeastNumber ==
  ASSUME NEW T \in SUBSET Nat, T # {}
  PROVE  \E n \in T : \A m \in T : n <= m
<1>1. PICK R : R = OpToRel(<, Nat)
  OBVIOUS
<1>2. IsWellFoundedOn(R, Nat)
  BY <1>1, NatLessThanWellFounded
<1>3. PICK n \in T : \A m \in T : ~ (<<m, n>> \in R)
  BY <1>2, WFMin
<1>4. \A m \in T : m < n => <<m, n>> \in R
  BY <1>1 DEF OpToRel
<1>5. \A m \in T : ~(m < n)
  BY <1>3, <1>4, Zenon
<1>6. \A m \in T : m \in Nat /\ n \in Nat
  BY Zenon
<1> QED BY <1>5, <1>6

\* What holds at a and of each number's successor holds from a to n.
LEMMA Upwards ==
  ASSUME NEW n \in Nat, NEW a \in 0 .. n, NEW S, a \in S, \A i \in a .. n - 1 : i \in S => i + 1 \in S
  PROVE  \A i \in a .. n : i \in S
<1> DEFINE T == {i \in a .. n : i \notin S}
<1>1. T = {}
  <2> SUFFICES ASSUME T # {} PROVE FALSE
    OBVIOUS
  <2>1. T \in SUBSET Nat
    OBVIOUS
  <2>2. PICK m \in T : \A i \in T : m <= i
    <3> HIDE DEF T
    <3> QED BY <2>1, LeastNumber
  <2>3. m # a /\ m \in a .. n /\ m \notin S
    OBVIOUS
  <2>4. m - 1 \in a .. n - 1 /\ ~(m <= m - 1) /\ m - 1 \in a .. n /\ m - 1 + 1 = m
    BY <2>3
  <2>5. m - 1 \in S
    BY <2>2, <2>4
  <2> QED BY <2>3, <2>4, <2>5
<1> QED BY <1>1

Chars == 0 .. 31

\* The bits of a character.
LEMMA BitsOfChar ==
  ASSUME NEW a \in Chars
  PROVE  a = (a % 2) + 2 * ((a \div 2) % 2) + 4 * ((a \div 4) % 2) + 8 * ((a \div 8) % 2) + 16 * ((a \div 16) % 2)
BY SMTT(30) DEF Chars

BitOf(a, p) == (a \div p) % 2
BitXor(a, b, p) == IF BitOf(a, p) = BitOf(b, p) THEN 0 ELSE p

LEMMA BitIs == \A a \in Chars, p \in {1, 2, 4, 8, 16} : BitOf(a, p) \in {0, 1}
BY DEF BitOf, Chars

LEMMA XorIs ==
  ASSUME NEW a \in Chars, NEW b \in Chars
  PROVE  /\ Fix!Xor(a, b) = BitXor(a, b, 1) + BitXor(a, b, 2) + BitXor(a, b, 4) + BitXor(a, b, 8) + BitXor(a, b, 16)
         /\ \A p \in {1, 2, 4, 8, 16} : BitXor(a, b, p) \in {0, p}
BY DEF Fix!Xor, BitXor, BitOf

LEMMA XorTyped == ASSUME NEW a \in Chars, NEW b \in Chars PROVE Fix!Xor(a, b) \in Chars
<1>1. PICK x1 \in {0, 1}, x2 \in {0, 2}, x4 \in {0, 4}, x8 \in {0, 8}, x16 \in {0, 16} :
        /\ x1 = BitXor(a, b, 1) /\ x2 = BitXor(a, b, 2) /\ x4 = BitXor(a, b, 4)
        /\ x8 = BitXor(a, b, 8) /\ x16 = BitXor(a, b, 16)
  BY XorIs
<1>2. Fix!Xor(a, b) = x1 + x2 + x4 + x8 + x16
  BY <1>1, XorIs
<1> QED BY <1>2 DEF Chars

\* Numbers with the same bits are the same.
LEMMA SameBits ==
  ASSUME NEW a \in Chars, NEW b \in Chars, \A p \in {1, 2, 4, 8, 16} : BitOf(a, p) = BitOf(b, p)
  PROVE  a = b
<1>1. /\ BitOf(a, 1) = a % 2 /\ BitOf(b, 1) = b % 2
  BY DEF BitOf, Chars
<1> QED BY <1>1, BitsOfChar DEF BitOf

\* The bits of an exclusive or are determined by it.
LEMMA SameXor ==
  ASSUME NEW a \in Chars, NEW b \in Chars, NEW x \in Chars, NEW y \in Chars, Fix!Xor(a, b) = Fix!Xor(x, y)
  PROVE  \A p \in {1, 2, 4, 8, 16} : BitOf(a, p) = BitOf(b, p) <=> BitOf(x, p) = BitOf(y, p)
<1>1. \A p \in {1, 2, 4, 8, 16} : BitXor(a, b, p) = BitXor(x, y, p)
  <2>1. PICK a1 \in {0, 1}, a2 \in {0, 2}, a4 \in {0, 4}, a8 \in {0, 8}, a16 \in {0, 16} :
          /\ a1 = BitXor(a, b, 1) /\ a2 = BitXor(a, b, 2) /\ a4 = BitXor(a, b, 4)
          /\ a8 = BitXor(a, b, 8) /\ a16 = BitXor(a, b, 16)
    BY XorIs
  <2>2. PICK b1 \in {0, 1}, b2 \in {0, 2}, b4 \in {0, 4}, b8 \in {0, 8}, b16 \in {0, 16} :
          /\ b1 = BitXor(x, y, 1) /\ b2 = BitXor(x, y, 2) /\ b4 = BitXor(x, y, 4)
          /\ b8 = BitXor(x, y, 8) /\ b16 = BitXor(x, y, 16)
    BY XorIs
  <2>3. a1 + a2 + a4 + a8 + a16 = b1 + b2 + b4 + b8 + b16
    BY <2>1, <2>2, XorIs
  <2>4. a1 = b1 /\ a2 = b2 /\ a4 = b4 /\ a8 = b8 /\ a16 = b16
    BY <2>3
  <2> QED BY <2>1, <2>2, <2>4
<1> QED BY <1>1 DEF BitXor

LEMMA XorDiffers ==
  ASSUME NEW a \in Chars, NEW b \in Chars, NEW x \in Chars
  PROVE  /\ Fix!Xor(a, x) = Fix!Xor(b, x) => a = b
         /\ Fix!Xor(x, a) = Fix!Xor(x, b) => a = b
         /\ Fix!Xor(x, a) = x => a = 0
<1>1. \A p \in {1, 2, 4, 8, 16} : BitOf(a, p) \in {0, 1} /\ BitOf(b, p) \in {0, 1} /\ BitOf(x, p) \in {0, 1}
  BY BitIs
<1>2. ASSUME Fix!Xor(a, x) = Fix!Xor(b, x) PROVE a = b
  BY <1>1, <1>2, SameXor, SameBits
<1>3. ASSUME Fix!Xor(x, a) = Fix!Xor(x, b) PROVE a = b
  BY <1>1, <1>3, SameXor, SameBits
<1>4. ASSUME Fix!Xor(x, a) = x PROVE a = 0
  <2>1. 0 \in Chars /\ \A p \in {1, 2, 4, 8, 16} : BitOf(0, p) = 0
    BY DEF Chars, BitOf
  <2>2. Fix!Xor(x, 0) = x
    <3>1. \A p \in {1, 2, 4, 8, 16} : BitXor(x, 0, p) = p * BitOf(x, p)
      BY <1>1, <2>1 DEF BitXor
    <3>2. /\ BitOf(x, 1) = x % 2 /\ BitOf(x, 2) = (x \div 2) % 2 /\ BitOf(x, 4) = (x \div 4) % 2
          /\ BitOf(x, 8) = (x \div 8) % 2 /\ BitOf(x, 16) = (x \div 16) % 2
      BY DEF BitOf, Chars
    <3>3. PICK y1, y2, y4, y8, y16 :
            /\ y1 = BitOf(x, 1) /\ y2 = BitOf(x, 2) /\ y4 = BitOf(x, 4) /\ y8 = BitOf(x, 8) /\ y16 = BitOf(x, 16)
            /\ y1 \in {0, 1} /\ y2 \in {0, 1} /\ y4 \in {0, 1} /\ y8 \in {0, 1} /\ y16 \in {0, 1}
      BY <1>1
    <3>4. Fix!Xor(x, 0) = y1 + 2 * y2 + 4 * y4 + 8 * y8 + 16 * y16
      <4>1. /\ BitXor(x, 0, 1) = 1 * y1 /\ BitXor(x, 0, 2) = 2 * y2 /\ BitXor(x, 0, 4) = 4 * y4
            /\ BitXor(x, 0, 8) = 8 * y8 /\ BitXor(x, 0, 16) = 16 * y16
        BY <3>1, <3>3
      <4>2. Fix!Xor(x, 0) = BitXor(x, 0, 1) + BitXor(x, 0, 2) + BitXor(x, 0, 4) + BitXor(x, 0, 8) + BitXor(x, 0, 16)
        BY <2>1, XorIs
      <4> QED BY <3>3, <4>1, <4>2
    <3>5. x = y1 + 2 * y2 + 4 * y4 + 8 * y8 + 16 * y16
      BY <3>2, <3>3, BitsOfChar
    <3> QED BY <3>4, <3>5
  <2>3. \A p \in {1, 2, 4, 8, 16} : BitOf(x, p) = BitOf(a, p) <=> BitOf(x, p) = BitOf(0, p)
    BY <1>4, <2>1, <2>2, SameXor
  <2> QED BY <1>1, <2>1, <2>3, SameBits
<1> QED BY <1>2, <1>3, <1>4

\* A character below 16 leaves the bit of 16 alone.
LEMMA XorHigh ==
  ASSUME NEW a \in 0 .. 15, NEW b \in 0 .. 15
  PROVE  Fix!Xor(a, b) \in 0 .. 15 /\ Fix!Xor(a, b + 16) \in 16 .. 31 /\ Fix!Xor(a + 16, b) \in 16 .. 31
<1>1. a \in Chars /\ b \in Chars /\ a + 16 \in Chars /\ b + 16 \in Chars
  BY DEF Chars
<1>2. BitOf(a, 16) = 0 /\ BitOf(b, 16) = 0 /\ BitOf(a + 16, 16) = 1 /\ BitOf(b + 16, 16) = 1
  BY DEF BitOf
<1>3. BitXor(a, b, 16) = 0 /\ BitXor(a, b + 16, 16) = 16 /\ BitXor(a + 16, b, 16) = 16
  BY <1>2 DEF BitXor
<1> QED BY <1>1, <1>3, XorIs

\* c[i] is the checksum of the first i characters of q, as far as m.
Sums(c, q, m) == c[0] = 0 /\ \A i \in 1 .. m : c[i] = Fix!Xor(c[i - 1], q[i])
SumOf(c, q, n) == c = [i \in 0 .. n |-> IF i = 0 THEN 0 ELSE Fix!Xor(c[i - 1], q[i])]

LEMMA SumsExist ==
  ASSUME NEW q, NEW n \in Nat
  PROVE  \E c : SumOf(c, q, n)
<1> DEFINE S == {m \in Nat : \E c : SumOf(c, q, m)}
<1>1. 0 \in S
  <2>1. PICK c : c = [i \in 0 .. 0 |-> 0]
    OBVIOUS
  <2>2. \A i \in 0 .. 0 : i = 0
    OBVIOUS
  <2>3. c = [i \in 0 .. 0 |-> IF i = 0 THEN 0 ELSE Fix!Xor(c[i - 1], q[i])]
    BY <2>1, <2>2
  <2> QED BY <2>3 DEF SumOf
<1>2. ASSUME NEW m \in 0 .. n - 1, m \in S PROVE m + 1 \in S
  <2>1. PICK c : SumOf(c, q, m)
    BY <1>2
  <2>2. PICK x : x = Fix!Xor(c[m], q[m + 1])
    OBVIOUS
  <2>3. PICK d : d = [i \in 0 .. m + 1 |-> IF i = m + 1 THEN x ELSE c[i]]
    OBVIOUS
  <2>4. m \in Nat /\ m + 1 \in Nat /\ m + 1 # 0
    OBVIOUS
  <2>5. ASSUME NEW i \in 0 .. m + 1
        PROVE  (IF i = m + 1 THEN x ELSE c[i]) = IF i = 0 THEN 0 ELSE Fix!Xor(d[i - 1], q[i])
    <3>1. CASE i = m + 1
      <4>1. d[m] = c[m] /\ i - 1 = m
        BY <2>3, <3>1
      <4> QED BY <2>2, <2>4, <3>1, <4>1
    <3>2. CASE i # m + 1 /\ i # 0
      <4>1. i \in 0 .. m /\ i - 1 \in 0 .. m + 1 /\ i - 1 # m + 1
        BY <3>2
      <4>2. c[i] = Fix!Xor(c[i - 1], q[i])
        BY <2>1, <3>2, <4>1 DEF SumOf
      <4>3. d[i - 1] = c[i - 1]
        BY <2>3, <4>1
      <4> QED BY <3>2, <4>2, <4>3
    <3>3. CASE i = 0
      <4>1. c[0] = 0 /\ 0 # m + 1
        BY <2>1 DEF SumOf
      <4> QED BY <3>3, <4>1
    <3> QED BY <3>1, <3>2, <3>3
  <2>6. SumOf(d, q, m + 1)
    BY <2>3, <2>5 DEF SumOf
  <2> QED BY <2>4, <2>6
<1>3. 0 \in 0 .. n /\ n \in 0 .. n
  OBVIOUS
<1> HIDE DEF S
<1>4. n \in S
  BY <1>1, <1>2, <1>3, Upwards
<1> QED BY <1>4 DEF S

LEMMA ChecksumIs ==
  ASSUME NEW q, NEW n \in Nat, Len(q) = n
  PROVE  \E c : Sums(c, q, n) /\ Fix!checksum(q) = c[n]
<1> DEFINE c == CHOOSE c : c = [i \in 0 .. Len(q) |-> IF i = 0 THEN 0 ELSE Fix!Xor(c[i - 1], q[i])]
<1>1. \E x : x = [i \in 0 .. Len(q) |-> IF i = 0 THEN 0 ELSE Fix!Xor(x[i - 1], q[i])]
  BY SumsExist DEF SumOf
<1>2. c = [i \in 0 .. Len(q) |-> IF i = 0 THEN 0 ELSE Fix!Xor(c[i - 1], q[i])]
  BY <1>1, Zenon
<1>3. Fix!checksum(q) = c[Len(q)]
  BY DEF Fix!checksum
<1> HIDE DEF c
<1>4. c[0] = 0 /\ \A i \in 1 .. n : c[i] = Fix!Xor(c[i - 1], q[i])
  BY <1>2
<1> QED BY <1>3, <1>4 DEF Sums

LEMMA SumsTyped ==
  ASSUME NEW c, NEW q, NEW m \in Nat, Sums(c, q, m), \A i \in 1 .. m : q[i] \in Chars
  PROVE  \A i \in 0 .. m : c[i] \in Chars
<1> DEFINE S == {i \in Nat : c[i] \in Chars}
<1>1. 0 \in S
  BY DEF Sums, Chars
<1>2. ASSUME NEW i \in 0 .. m - 1, i \in S PROVE i + 1 \in S
  <2>1. i + 1 \in 1 .. m /\ i + 1 - 1 = i /\ i + 1 \in Nat
    OBVIOUS
  <2>2. c[i + 1] = Fix!Xor(c[i], q[i + 1])
    BY <2>1 DEF Sums
  <2> QED BY <1>2, <2>1, <2>2, XorTyped
<1>3. 0 \in 0 .. m
  OBVIOUS
<1> HIDE DEF S
<1>4. \A i \in 0 .. m : i \in S
  BY <1>1, <1>2, <1>3, Upwards
<1> QED BY <1>4 DEF S

LEMMA SumsSame ==
  ASSUME NEW c, NEW d, NEW q, NEW w, NEW m \in Nat, Sums(c, q, m), Sums(d, w, m), \A i \in 1 .. m : q[i] = w[i]
  PROVE  c[m] = d[m]
<1> DEFINE S == {i \in Nat : c[i] = d[i]}
<1>1. 0 \in S
  BY DEF Sums
<1>2. ASSUME NEW i \in 0 .. m - 1, i \in S PROVE i + 1 \in S
  <2>1. i + 1 \in 1 .. m /\ i + 1 - 1 = i /\ i + 1 \in Nat
    OBVIOUS
  <2> QED BY <1>2, <2>1 DEF Sums
<1>3. 0 \in 0 .. m /\ m \in 0 .. m
  OBVIOUS
<1> HIDE DEF S
<1>4. m \in S
  BY <1>1, <1>2, <1>3, Upwards
<1> QED BY <1>4 DEF S

LEMMA SumsChanged ==
  ASSUME NEW c, NEW d, NEW q, NEW w, NEW m \in Nat, Sums(c, q, m), Sums(d, w, m), NEW j \in 1 .. m, q[j] # w[j],
         \A i \in 1 .. m : i # j => q[i] = w[i], \A i \in 1 .. m : q[i] \in Chars /\ w[i] \in Chars
  PROVE  c[m] # d[m]
<1> DEFINE S == {i \in Nat : c[i] # d[i]}
<1>0. \A i \in 0 .. m : c[i] \in Chars /\ d[i] \in Chars
  BY SumsTyped
<1>1. j \in S
  <2>1. j - 1 \in Nat /\ \A i \in 1 .. j - 1 : i \in 1 .. m /\ i # j
    OBVIOUS
  <2>2. Sums(c, q, j - 1) /\ Sums(d, w, j - 1)
    BY <2>1 DEF Sums
  <2>3. c[j - 1] = d[j - 1]
    BY <2>1, <2>2, SumsSame
  <2>4. c[j] = Fix!Xor(c[j - 1], q[j]) /\ d[j] = Fix!Xor(d[j - 1], w[j])
    BY DEF Sums
  <2>5. j - 1 \in 0 .. m /\ j \in Nat
    OBVIOUS
  <2> QED BY <1>0, <2>3, <2>4, <2>5, XorDiffers
<1>2. ASSUME NEW i \in j .. m - 1, i \in S PROVE i + 1 \in S
  <2>1. i + 1 \in 1 .. m /\ i + 1 - 1 = i /\ i + 1 \in Nat /\ i + 1 # j /\ i \in 0 .. m
    OBVIOUS
  <2>2. c[i + 1] = Fix!Xor(c[i], q[i + 1]) /\ d[i + 1] = Fix!Xor(d[i], w[i + 1])
    BY <2>1 DEF Sums
  <2>3. q[i + 1] = w[i + 1] /\ q[i + 1] \in Chars
    BY <2>1
  <2> QED BY <1>0, <1>2, <2>1, <2>2, <2>3, XorDiffers
<1>3. j \in 0 .. m /\ m \in j .. m
  OBVIOUS
<1> HIDE DEF S
<1>4. m \in S
  BY <1>1, <1>2, <1>3, Upwards
<1> QED BY <1>4 DEF S

\* w is q without its character j, and d[r] and c[m] are their checksums.
LostOne(c, d, q, w, m, r, j) ==
  /\ m \in Nat /\ r \in Nat /\ m = r + 1 /\ j \in 1 .. m
  /\ Sums(c, q, m) /\ Sums(d, w, r) /\ q[j] # 0 /\ \A i \in 1 .. m : q[i] \in Chars
  /\ \A i \in 1 .. r : (i < j => w[i] = q[i]) /\ (i >= j => w[i] = q[i + 1])

LEMMA SumsLost ==
  ASSUME NEW c, NEW d, NEW q, NEW w, NEW m, NEW r, NEW j, LostOne(c, d, q, w, m, r, j)
  PROVE  c[m] # d[r]
<1> USE DEF LostOne
<1> DEFINE S == {i \in Nat : i > 0 /\ c[i] # d[i - 1]}
<1>0. \A i \in 0 .. r : c[i + 1] \in Chars /\ c[i] \in Chars /\ d[i] \in Chars
  <2>1. \A i \in 0 .. m : c[i] \in Chars
    BY SumsTyped
  <2>2. \A i \in 1 .. r : w[i] \in Chars
    OBVIOUS
  <2>3. m - 1 \in Nat /\ \A i \in 0 .. r : i \in 0 .. m /\ i + 1 \in 0 .. m
    OBVIOUS
  <2>4. \A i \in 0 .. r : d[i] \in Chars
    BY <2>2, <2>3, SumsTyped
  <2> QED BY <2>1, <2>3, <2>4
<1>1. j \in S
  <2>1. j - 1 \in Nat /\ \A i \in 1 .. j - 1 : i \in 1 .. m /\ i \in 1 .. r /\ i < j
    OBVIOUS
  <2>2. Sums(c, q, j - 1) /\ Sums(d, w, j - 1) /\ \A i \in 1 .. j - 1 : q[i] = w[i]
    BY <2>1 DEF Sums
  <2>3. c[j - 1] = d[j - 1]
    BY <2>1, <2>2, SumsSame
  <2>4. c[j] = Fix!Xor(c[j - 1], q[j])
    BY DEF Sums
  <2>5. j - 1 \in 0 .. r /\ j \in Nat /\ j > 0
    OBVIOUS
  <2>6. c[j - 1] \in Chars /\ q[j] \in Chars
    BY <1>0, <2>5
  <2> QED BY <2>3, <2>4, <2>5, <2>6, XorDiffers
<1>2. ASSUME NEW i \in j .. m - 1, i \in S PROVE i + 1 \in S
  <2>1. i + 1 \in 1 .. m /\ i + 1 - 1 = i /\ i + 1 \in Nat /\ i + 1 > 0 /\ i \in 1 .. r /\ i >= j
    OBVIOUS
  <2>2. c[i + 1] = Fix!Xor(c[i], q[i + 1]) /\ d[i] = Fix!Xor(d[i - 1], w[i]) /\ w[i] = q[i + 1]
    BY <2>1 DEF Sums
  <2>3. c[i] \in Chars /\ d[i - 1] \in Chars /\ q[i + 1] \in Chars
    <3>1. i - 1 \in 0 .. r /\ i \in 0 .. r
      BY <2>1
    <3> QED BY <1>0, <2>1, <3>1
  <2> QED BY <1>2, <2>1, <2>2, <2>3, XorDiffers
<1>3. j \in 0 .. m /\ m \in j .. m
  OBVIOUS
<1> HIDE DEF S
<1>4. m \in S
  BY <1>1, <1>2, <1>3, Upwards
<1> QED BY <1>4 DEF S

-----------------------------------------------------------------------------
(* Sentences of the GPS module, and what is read of one that was disturbed. *)

GpsChars == 1 .. 31
Inner(z, m) == [i \in 1 .. m |-> z[i + 1]]
LEMMA CharIs ==
  /\ \A c \in GpsChars : c \in Chars /\ c # 0
  /\ \A c \in 16 .. 23 : c \in GpsChars
  /\ 1 \in GpsChars /\ 2 \in GpsChars /\ 10 \in GpsChars /\ 11 \in GpsChars /\ 12 \in GpsChars /\ 19 \in GpsChars
BY DEF GpsChars, Chars

LEMMA Frames ==
  ASSUME NEW x \in 16 .. 23, NEW y \in 16 .. 23, NEW w, w = <<10, x, y, 11, 12>>
  PROVE  /\ <<1>> \in Seq(GpsChars) /\ Len(<<1>>) = 1 /\ <<1>>[1] = 1
         /\ w \in Seq(GpsChars) /\ Len(w) = 5 /\ w[1] = 10 /\ w[2] = x /\ w[3] = y /\ w[4] = 11 /\ w[5] = 12
BY DEF GpsChars

\* strtoul of two characters.
Num(a, b) == IF a < 16 THEN 0 ELSE IF b < 16 THEN a % 8 ELSE 8 * (a % 8) + (b % 8)

\* The sentence of n characters between the dollar and the star.
IsSentence(X, n) ==
  /\ X \in Seq(GpsChars) /\ Len(X) = n + 6 /\ X[1] = Fix!Dollar /\ X[n + 6] = Fix!LF
  /\ \A i \in 2 .. n + 6 : X[i] # Fix!Dollar
  /\ \A i \in 1 .. n + 5 : X[i] # Fix!LF
  /\ X[n + 2] = Fix!Star
  /\ \E c : Sums(c, Inner(X, n), n) /\ Num(X[n + 3], X[n + 4]) = c[n]

Positioned(X, f) == \E l \in 0 .. 7 :
  /\ f = [valid |-> TRUE, latitude |-> l, speed |-> l]
  /\ X[2] = Fix!RMC /\ X[3] = Fix!Comma /\ X[4] = Fix!A /\ X[5] = Fix!Comma /\ X[6] = 16 + l
  /\ X[7] = Fix!Dot /\ X[8] = 21 /\ X[9] = Fix!Comma /\ X[10] = Fix!North /\ X[11] = Fix!Comma /\ X[12] = 16 + l
Positionless(X, f) == f = Fix!NoFix /\ X[7] = Fix!Comma /\ X[8] = Fix!Comma
OtherType(X, f) == f = Fix!NoFix /\ X[2] = Fix!GGA /\ X[3] = Fix!Comma
Carried(X, n, f) ==
  /\ IsSentence(X, n)
  /\ \/ n = 11 /\ Positioned(X, f)
     \/ n = 7 /\ Positionless(X, f)
     \/ n = 11 /\ OtherType(X, f)

LEMMA CharCodes ==
  /\ Fix!Dollar = 1 /\ Fix!RMC = 2 /\ Fix!GGA = 3 /\ Fix!Comma = 4 /\ Fix!A = 5 /\ Fix!V = 6 /\ Fix!Dot = 7
  /\ Fix!North = 8 /\ Fix!Star = 10 /\ Fix!CR = 11 /\ Fix!LF = 12 /\ \A d : Fix!Digit(d) = 16 + d
BY DEF Fix!Dollar, Fix!RMC, Fix!GGA, Fix!Comma, Fix!A, Fix!V, Fix!Dot, Fix!North, Fix!Star, Fix!CR, Fix!LF, Fix!Digit

LEMMA ChecksumSums ==
  ASSUME NEW q \in Seq(GpsChars), NEW n \in Nat, Len(q) = n
  PROVE  \E c : Sums(c, q, n) /\ Fix!checksum(q) = c[n] /\ c[n] \in Chars
<1>1. PICK c : Sums(c, q, n) /\ Fix!checksum(q) = c[n]
  BY ChecksumIs
<1>2. ASSUME NEW i \in 1 .. n PROVE q[i] \in Chars
  <2>1. q[i] \in GpsChars
    BY ElementOfSeq
  <2> QED BY <2>1, CharIs
<1>3. n \in 0 .. n
  OBVIOUS
<1>4. c[n] \in Chars
  BY <1>1, <1>2, <1>3, SumsTyped
<1> QED BY <1>1, <1>4

\* What is put around a body.
LEMMA SentenceIs ==
  ASSUME NEW b \in Seq(GpsChars), NEW n \in Nat, Len(b) = n,
         \A i \in 1 .. n : b[i] # Fix!Dollar /\ b[i] # Fix!LF
  PROVE  IsSentence(Fix!Sentence(b), n) /\ \A i \in 1 .. n : Fix!Sentence(b)[i + 1] = b[i]
<1>1. PICK c, k : Sums(c, b, n) /\ k = Fix!checksum(b) /\ k = c[n] /\ k \in Chars
  BY ChecksumSums
<1>2. PICK x, y : x = 16 + (k \div 8) /\ y = 16 + (k % 8) /\ x \in 16 .. 19 /\ y \in 16 .. 23
  <2>1. k \in 0 .. 31
    BY <1>1 DEF Chars
  <2>2. 16 + (k \div 8) \in 16 .. 19 /\ 16 + (k % 8) \in 16 .. 23
    BY <2>1
  <2> QED BY <2>2, Zenon
<1>3. Num(x, y) = k
  <2>1. k \in 0 .. 31
    BY <1>1 DEF Chars
  <2>2. 8 * ((16 + (k \div 8)) % 8) + ((16 + (k % 8)) % 8) = k
    BY <2>1
  <2>3. ~(x < 16) /\ ~(y < 16)
    BY <1>2
  <2> QED BY <1>2, <2>2, <2>3 DEF Num
<1>0. x \in 16 .. 23 /\ y \in 16 .. 23
  BY <1>2
<1>4. PICK u, w : u = <<1>> /\ w = <<10, x, y, 11, 12>>
  OBVIOUS
<1>5. /\ u \in Seq(GpsChars) /\ Len(u) = 1 /\ u[1] = 1
      /\ w \in Seq(GpsChars) /\ Len(w) = 5
      /\ w[1] = 10 /\ w[2] = x /\ w[3] = y /\ w[4] = 11 /\ w[5] = 12
  BY <1>0, <1>4, Frames, Zenon
<1>6. PICK v : v = u \o b
  OBVIOUS
<1>7. /\ v \in Seq(GpsChars) /\ Len(v) = n + 1 /\ v[1] = 1 /\ \A i \in 1 .. n : v[i + 1] = b[i]
  <2>0. u \in Seq(GpsChars) /\ Len(u) = 1 /\ u[1] = 1
    BY <1>5
  <2>1. /\ v \in Seq(GpsChars) /\ Len(v) = 1 + n
        /\ \A i \in 1 .. 1 + n : v[i] = IF i <= 1 THEN u[i] ELSE b[i - 1]
    <3>1. /\ u \o b \in Seq(GpsChars) /\ Len(u \o b) = Len(u) + Len(b)
          /\ \A i \in 1 .. Len(u) + Len(b) : (u \o b)[i] = IF i <= Len(u) THEN u[i] ELSE b[i - Len(u)]
      BY <2>0, ConcatProperties
    <3> QED BY <1>6, <2>0, <3>1, Zenon
  <2>2. 1 \in 1 .. 1 + n /\ 1 <= 1
    OBVIOUS
  <2>3. v[1] = 1
    BY <2>0, <2>1, <2>2
  <2>4. ASSUME NEW i \in 1 .. n PROVE v[i + 1] = b[i]
    <3>1. i + 1 \in 1 .. 1 + n /\ ~(i + 1 <= 1) /\ i + 1 - 1 = i
      OBVIOUS
    <3> QED BY <2>1, <3>1
  <2>5. Len(v) = n + 1
    BY <2>1
  <2> QED BY <2>1, <2>3, <2>4, <2>5
<1>8. PICK X : X = v \o w
  OBVIOUS
<1>9. /\ X \in Seq(GpsChars) /\ Len(X) = n + 6 /\ X[1] = 1 /\ \A i \in 1 .. n : X[i + 1] = b[i]
      /\ X[n + 2] = 10 /\ X[n + 3] = x /\ X[n + 4] = y /\ X[n + 5] = 11 /\ X[n + 6] = 12
  <2>0. PICK p \in Nat : p = n + 1
    OBVIOUS
  <2>1. /\ X \in Seq(GpsChars) /\ Len(X) = p + 5
        /\ \A i \in 1 .. p + 5 : X[i] = IF i <= p THEN v[i] ELSE w[i - p]
    <3>1. Len(v) = p /\ v \in Seq(GpsChars)
      BY <1>7, <2>0
    <3>2. /\ v \o w \in Seq(GpsChars) /\ Len(v \o w) = Len(v) + Len(w)
          /\ \A i \in 1 .. Len(v) + Len(w) : (v \o w)[i] = IF i <= Len(v) THEN v[i] ELSE w[i - Len(v)]
      BY <1>5, <3>1, ConcatProperties
    <3> QED BY <1>5, <1>8, <3>1, <3>2, Zenon
  <2>2. \A i \in 1 .. p : X[i] = v[i]
    BY <2>1
  <2>3. \A i \in 1 .. 5 : X[p + i] = w[i]
    <3> SUFFICES ASSUME NEW i \in 1 .. 5 PROVE X[p + i] = w[i]
      OBVIOUS
    <3>1. PICK h : h = p + i /\ h \in 1 .. p + 5 /\ ~(h <= p) /\ h - p = i
      OBVIOUS
    <3> QED BY <2>1, <3>1
  <2>4. X[p + 1] = 10 /\ X[p + 2] = x /\ X[p + 3] = y /\ X[p + 4] = 11 /\ X[p + 5] = 12
    BY <1>5, <2>3
  <2>5. p + 1 = n + 2 /\ p + 2 = n + 3 /\ p + 3 = n + 4 /\ p + 4 = n + 5 /\ p + 5 = n + 6
    BY <2>0
  <2>6. 1 \in 1 .. p /\ \A i \in 1 .. n : i + 1 \in 1 .. p
    BY <2>0
  <2> QED BY <1>7, <2>1, <2>2, <2>4, <2>5, <2>6
<1>10. X = Fix!Sentence(b)
  <2>1. <<Fix!Star, Fix!Digit(k \div 8), Fix!Digit(k % 8), Fix!CR, Fix!LF>> = w
    BY <1>2, <1>4, CharCodes
  <2> QED BY <1>1, <1>4, <1>6, <1>8, <2>1, CharCodes, Zenon DEF Fix!Sentence
<1>11. \A i \in 2 .. n + 6 : X[i] # 1
  <2>1. ASSUME NEW i \in 2 .. n + 1 PROVE X[i] # 1
    <3>1. i - 1 \in 1 .. n /\ i - 1 + 1 = i
      OBVIOUS
    <3> QED BY <1>9, <3>1, CharCodes
  <2>2. \A i \in n + 2 .. n + 6 : i = n + 2 \/ i = n + 3 \/ i = n + 4 \/ i = n + 5 \/ i = n + 6
    OBVIOUS
  <2>3. X[n + 2] # 1 /\ X[n + 3] # 1 /\ X[n + 4] # 1 /\ X[n + 5] # 1 /\ X[n + 6] # 1
    <3>1. 10 # 1 /\ x # 1 /\ y # 1 /\ 11 # 1 /\ 12 # 1
      BY <1>2
    <3> QED BY <1>9, <3>1, Zenon
  <2>4. \A i \in n + 2 .. n + 6 : X[i] # 1
    BY <2>2, <2>3, Zenon
  <2> QED BY <2>1, <2>4
<1>12. \A i \in 1 .. n + 5 : X[i] # 12
  <2>1. ASSUME NEW i \in 2 .. n + 1 PROVE X[i] # 12
    <3>1. i - 1 \in 1 .. n /\ i - 1 + 1 = i
      OBVIOUS
    <3> QED BY <1>9, <3>1, CharCodes
  <2>2. \A i \in n + 2 .. n + 5 : i = n + 2 \/ i = n + 3 \/ i = n + 4 \/ i = n + 5
    OBVIOUS
  <2>3. X[n + 2] # 12 /\ X[n + 3] # 12 /\ X[n + 4] # 12 /\ X[n + 5] # 12
    <3>1. 10 # 12 /\ x # 12 /\ y # 12 /\ 11 # 12
      BY <1>2
    <3> QED BY <1>9, <3>1, Zenon
  <2>4. \A i \in n + 2 .. n + 5 : X[i] # 12
    BY <2>2, <2>3, Zenon
  <2>5. X[1] # 12
    BY <1>9
  <2> QED BY <2>1, <2>4, <2>5
<1>13. Sums(c, Inner(X, n), n)
  BY <1>1, <1>9 DEF Sums, Inner
<1>14. IsSentence(X, n)
  BY <1>1, <1>2, <1>3, <1>9, <1>11, <1>12, <1>13, CharCodes DEF IsSentence
<1> QED BY <1>9, <1>10, <1>14

IsBody(b, t, a, l, v) ==
  /\ b \in Seq(GpsChars) /\ Len(b) = 11 /\ \A i \in 1 .. 11 : b[i] # 1 /\ b[i] # 12
  /\ b[1] = t /\ b[2] = 4 /\ b[3] = a /\ b[4] = 4 /\ b[5] = 16 + l /\ b[6] = 7 /\ b[7] = 21
  /\ b[8] = 4 /\ b[9] = 8 /\ b[10] = 4 /\ b[11] = 16 + v

LEMMA BodyIs ==
  ASSUME NEW t \in GpsChars, NEW a \in GpsChars, NEW l \in 0 .. 7, NEW v \in 0 .. 7, t # 1, t # 12, a # 1, a # 12
  PROVE  IsBody(Fix!Body(t, a, l, v), t, a, l, v)
<1>1. PICK x, y : x = 16 + l /\ y = 16 + v /\ x \in 16 .. 23 /\ y \in 16 .. 23
  OBVIOUS
<1>2. PICK b : b = <<t, 4, a, 4, x, 7, 21, 4, 8, 4, y>>
  OBVIOUS
<1>3. b = Fix!Body(t, a, l, v)
  BY <1>1, <1>2, CharCodes DEF Fix!Body
<1>4. /\ b[1] = t /\ b[2] = 4 /\ b[3] = a /\ b[4] = 4 /\ b[5] = x /\ b[6] = 7 /\ b[7] = 21
      /\ b[8] = 4 /\ b[9] = 8 /\ b[10] = 4 /\ b[11] = y /\ Len(b) = 11
  BY <1>2
<1>5. b \in Seq(GpsChars)
  BY <1>1, <1>2 DEF GpsChars
<1>6. ASSUME NEW i \in 1 .. 11 PROVE b[i] # 1 /\ b[i] # 12
  <2>1. \/ i = 1 \/ i = 2 \/ i = 3 \/ i = 4 \/ i = 5 \/ i = 6 \/ i = 7 \/ i = 8 \/ i = 9 \/ i = 10 \/ i = 11
    OBVIOUS
  <2> QED BY <1>1, <1>4, <2>1
<1>7. IsBody(b, t, a, l, v)
  BY <1>1, <1>4, <1>5, <1>6 DEF IsBody
<1> QED BY <1>3, <1>7

LEMMA PositionSent ==
  ASSUME NEW l \in Latitudes
  PROVE  Carried(Fix!Sentence(Fix!Body(Fix!RMC, Fix!A, l, l)), 11, [valid |-> TRUE, latitude |-> l, speed |-> l])
<1>1. l \in 0 .. 7
  BY GpsAssumed DEF Fix!GpsAssumption
<1>2. PICK b : b = Fix!Body(Fix!RMC, Fix!A, l, l)
  OBVIOUS
<1>3. /\ b \in Seq(GpsChars) /\ Len(b) = 11 /\ \A i \in 1 .. 11 : b[i] # 1 /\ b[i] # 12
      /\ b[1] = 2 /\ b[2] = 4 /\ b[3] = 5 /\ b[4] = 4 /\ b[5] = 16 + l /\ b[6] = 7 /\ b[7] = 21
      /\ b[8] = 4 /\ b[9] = 8 /\ b[10] = 4 /\ b[11] = 16 + l
  <2>1. PICK t, a : t = 2 /\ a = 5 /\ t \in GpsChars /\ a \in GpsChars /\ t # 1 /\ t # 12 /\ a # 1 /\ a # 12
    BY DEF GpsChars
  <2>2. b = Fix!Body(t, a, l, l)
    BY <1>2, <2>1, CharCodes
  <2>3. IsBody(Fix!Body(t, a, l, l), t, a, l, l)
    BY <1>1, <2>1, BodyIs
  <2> QED BY <2>1, <2>2, <2>3 DEF IsBody
<1>4. PICK X : X = Fix!Sentence(b)
  OBVIOUS
<1>5. IsSentence(X, 11) /\ \A i \in 1 .. 11 : X[i + 1] = b[i]
  BY <1>3, <1>4, SentenceIs, CharCodes
<1>6. \A i \in 1 .. 11 : i + 1 \in 2 .. 12
  OBVIOUS
<1>7. /\ X[2] = 2 /\ X[3] = 4 /\ X[4] = 5 /\ X[5] = 4 /\ X[6] = 16 + l /\ X[7] = 7 /\ X[8] = 21
      /\ X[9] = 4 /\ X[10] = 8 /\ X[11] = 4 /\ X[12] = 16 + l
  <2>1. /\ X[1 + 1] = b[1] /\ X[2 + 1] = b[2] /\ X[3 + 1] = b[3] /\ X[4 + 1] = b[4] /\ X[5 + 1] = b[5]
        /\ X[6 + 1] = b[6] /\ X[7 + 1] = b[7] /\ X[8 + 1] = b[8] /\ X[9 + 1] = b[9] /\ X[10 + 1] = b[10]
        /\ X[11 + 1] = b[11]
    BY <1>5
  <2> QED BY <1>3, <2>1
<1>8. Positioned(X, [valid |-> TRUE, latitude |-> l, speed |-> l])
  BY <1>1, <1>7, CharCodes DEF Positioned
<1> QED BY <1>2, <1>4, <1>5, <1>8 DEF Carried

LEMMA OthersSent ==
  /\ Carried(Fix!Sentence(Fix!NoPosition), 7, Fix!NoFix)
  /\ Carried(Fix!Sentence(Fix!Body(Fix!GGA, Fix!A, 1, 0)), 11, Fix!NoFix)
<1>1. Carried(Fix!Sentence(Fix!NoPosition), 7, Fix!NoFix)
  <2>1. PICK b : b = <<2, 4, 6, 4, 4, 4, 4>>
    OBVIOUS
  <2>2. b = Fix!NoPosition
    BY <2>1, CharCodes DEF Fix!NoPosition
  <2>3. b \in Seq(GpsChars) /\ Len(b) = 7 /\ b[6] = 4 /\ b[7] = 4
    BY <2>1 DEF GpsChars
  <2>4. ASSUME NEW i \in 1 .. 7 PROVE b[i] # 1 /\ b[i] # 12
    <3>1. i = 1 \/ i = 2 \/ i = 3 \/ i = 4 \/ i = 5 \/ i = 6 \/ i = 7
      OBVIOUS
    <3> QED BY <2>1, <3>1
  <2>5. PICK X : X = Fix!Sentence(b)
    OBVIOUS
  <2>6. IsSentence(X, 7) /\ \A i \in 1 .. 7 : X[i + 1] = b[i]
    BY <2>3, <2>4, <2>5, SentenceIs, CharCodes
  <2>7. X[6 + 1] = b[6] /\ X[7 + 1] = b[7]
    BY <2>6
  <2>8. X[7] = 4 /\ X[8] = 4
    BY <2>3, <2>7
  <2> QED BY <2>2, <2>5, <2>6, <2>8, CharCodes DEF Carried, Positionless
<1>2. Carried(Fix!Sentence(Fix!Body(Fix!GGA, Fix!A, 1, 0)), 11, Fix!NoFix)
  <2>1. PICK b : b = Fix!Body(Fix!GGA, Fix!A, 1, 0)
    OBVIOUS
  <2>2. b \in Seq(GpsChars) /\ Len(b) = 11 /\ (\A i \in 1 .. 11 : b[i] # 1 /\ b[i] # 12) /\ b[1] = 3 /\ b[2] = 4
    <3>1. PICK t, a, l, v : /\ t = 3 /\ a = 5 /\ t \in GpsChars /\ a \in GpsChars /\ t # 1 /\ t # 12 /\ a # 1 /\ a # 12
                            /\ l = 1 /\ v = 0 /\ l \in 0 .. 7 /\ v \in 0 .. 7
      BY DEF GpsChars
    <3>2. b = Fix!Body(t, a, l, v)
      BY <2>1, <3>1, CharCodes
    <3>3. IsBody(Fix!Body(t, a, l, v), t, a, l, v)
      BY <3>1, BodyIs
    <3> QED BY <3>1, <3>2, <3>3 DEF IsBody
  <2>3. PICK X : X = Fix!Sentence(b)
    OBVIOUS
  <2>4. IsSentence(X, 11) /\ \A i \in 1 .. 11 : X[i + 1] = b[i]
    BY <2>2, <2>3, SentenceIs, CharCodes
  <2>5. X[1 + 1] = b[1] /\ X[2 + 1] = b[2]
    BY <2>4
  <2>6. X[2] = 3 /\ X[3] = 4
    BY <2>2, <2>5
  <2> QED BY <2>1, <2>3, <2>4, <2>6, CharCodes DEF Carried, OtherType
<1> QED BY <1>1, <1>2

\* When the checksum of what was stored is right.
LEMMA ValidIs ==
  ASSUME NEW z \in Seq(GpsChars), NEW l \in Nat, Len(z) = l, l > 6
  PROVE  \E c : /\ Sums(c, Inner(z, l - 6), l - 6)
                /\ Fix!Valid(z) <=> Num(z[l - 3], z[l - 2]) = c[l - 6]
<1> DEFINE q == SubSeq(z, 2, l - 5)
           h == SubSeq(z, l - 3, l - 2)
<1>1. Len(q) = l - 6 /\ \A i \in 1 .. l - 6 : q[i] = z[i + 1]
  OBVIOUS
<1>2. Len(h) = 2 /\ h[1] = z[l - 3] /\ h[2] = z[l - 2]
  OBVIOUS
<1>3. Fix!strtoul(h) = Num(z[l - 3], z[l - 2])
  BY <1>2 DEF Fix!strtoul, Num
<1>4. Fix!Valid(z) <=> Fix!strtoul(h) = Fix!checksum(q)
  BY DEF Fix!Valid
<1> HIDE DEF q, h
<1>5. PICK c : Sums(c, q, l - 6) /\ Fix!checksum(q) = c[l - 6]
  <2>1. l - 6 \in Nat
    OBVIOUS
  <2> QED BY <1>1, <2>1, ChecksumIs
<1>6. Sums(c, Inner(z, l - 6), l - 6)
  BY <1>1, <1>5 DEF Sums, Inner
<1> QED BY <1>3, <1>4, <1>5, <1>6

Good(z) == Fix!At(z, 2) = Fix!RMC /\ Fix!Valid(z) /\ Fix!FromRmc(z).ok
\* A sentence that is good carries the fix f.
Trusted(z, f) == Good(z) => f.valid /\ Fix!FromRmc(z).fix = f

LEMMA GoodIs ==
  ASSUME NEW z, Good(z)
  PROVE  Fix!At(z, 2) = 2 /\ Fix!Valid(z) /\ Fix!At(z, 7) = 7 /\ Fix!At(z, 9) = 4
BY CharCodes DEF Good, Fix!FromRmc

LEMMA FixRead ==
  ASSUME NEW X, NEW f, Positioned(X, f), NEW z, Fix!At(z, 4) = X[4], Fix!At(z, 6) = X[6], Fix!At(z, 12) = X[12]
  PROVE  Fix!FromRmc(z).fix = f /\ f.valid
<1>1. PICK l \in 0 .. 7 : /\ f = [valid |-> TRUE, latitude |-> l, speed |-> l]
                          /\ X[4] = Fix!A /\ X[6] = 16 + l /\ X[12] = 16 + l
  BY DEF Positioned
<1>2. Fix!str2uint(16 + l) = l
  BY DEF Fix!str2uint
<1> QED BY <1>1, <1>2 DEF Fix!FromRmc

\* The first twelve characters are enough.
LEMMA TrustedBegin ==
  ASSUME NEW X, NEW n, NEW f, Carried(X, n, f), NEW z, NEW l \in Nat, Len(z) = l, l >= n + 1,
         \A i \in 1 .. n + 1 : z[i] = X[i]
  PROVE  Trusted(z, f)
<1>1. CASE n = 11 /\ Positioned(X, f)
  <2>1. Fix!At(z, 4) = X[4] /\ Fix!At(z, 6) = X[6] /\ Fix!At(z, 12) = X[12]
    BY <1>1 DEF Fix!At
  <2> QED BY <1>1, <2>1, FixRead DEF Trusted
<1>2. CASE n = 7 /\ Positionless(X, f)
  <2>1. Fix!At(z, 7) = 4
    BY <1>2, CharCodes DEF Fix!At, Positionless
  <2> QED BY <2>1, GoodIs DEF Trusted
<1>3. CASE n = 11 /\ OtherType(X, f)
  <2>1. Fix!At(z, 2) = 3
    BY <1>3, CharCodes DEF Fix!At, OtherType
  <2> QED BY <2>1, GoodIs DEF Trusted
<1> QED BY <1>1, <1>2, <1>3 DEF Carried

LEMMA TypedInner ==
  ASSUME NEW z \in Seq(GpsChars), NEW l \in Nat, Len(z) = l, NEW m \in Nat, m < l
  PROVE  \A i \in 1 .. m : Inner(z, m)[i] = z[i + 1] /\ Inner(z, m)[i] \in Chars /\ Inner(z, m)[i] # 0
<1> SUFFICES ASSUME NEW i \in 1 .. m
             PROVE  Inner(z, m)[i] = z[i + 1] /\ Inner(z, m)[i] \in Chars /\ Inner(z, m)[i] # 0
  OBVIOUS
<1>1. z[i + 1] \in GpsChars
  <2>1. i + 1 \in 1 .. Len(z)
    OBVIOUS
  <2> QED BY <2>1, ElementOfSeq
<1>2. Inner(z, m)[i] = z[i + 1]
  BY DEF Inner
<1> QED BY <1>1, <1>2, CharIs

\* A sentence that comes as it was sent is good if it has a fix, and the fix is its own.
LEMMA WholeIsGood ==
  ASSUME NEW X, NEW n \in {7, 11}, NEW f, Carried(X, n, f)
  PROVE  Trusted(X, f) /\ (f.valid => Good(X))
<1>1. IsSentence(X, n)
  BY DEF Carried
<1>2. PICK l \in Nat : l = Len(X) /\ l = n + 6 /\ X \in Seq(GpsChars)
  BY <1>1 DEF IsSentence
<1>3. Trusted(X, f)
  <2>1. l >= n + 1
    BY <1>2
  <2> QED BY <1>2, <2>1, TrustedBegin
<1>4. ASSUME f.valid PROVE Good(X)
  <2>1. n = 11 /\ Positioned(X, f)
    BY <1>4 DEF Carried, Positionless, OtherType, Fix!NoFix
  <2>2. PICK c : Sums(c, Inner(X, n), n) /\ Num(X[n + 3], X[n + 4]) = c[n]
    BY <1>1 DEF IsSentence
  <2>3. n = l - 6 /\ n + 3 = l - 3 /\ n + 4 = l - 2 /\ l > 6
    BY <1>2
  <2>4. PICK d : Sums(d, Inner(X, n), n) /\ (Fix!Valid(X) <=> Num(X[n + 3], X[n + 4]) = d[n])
    BY <1>2, <2>3, ValidIs
  <2>5. c[n] = d[n]
    BY <2>2, <2>4, SumsSame
  <2>6. Fix!At(X, 2) = 2 /\ Fix!At(X, 7) = 7 /\ Fix!At(X, 9) = 4
    BY <1>2, <2>1, CharCodes DEF Positioned, Fix!At
  <2> QED BY <2>2, <2>4, <2>5, <2>6, CharCodes DEF Good, Fix!FromRmc
<1> QED BY <1>3, <1>4

\* One character is another: before the star the checksum finds it.
ChangedAt(X, n, z, j) ==
  /\ n \in {7, 11} /\ z \in Seq(GpsChars) /\ Len(z) = n + 6 /\ j \in 2 .. n + 5
  /\ z[j] # X[j] /\ \A i \in 1 .. n + 6 : i # j => z[i] = X[i]

LEMMA ChangedIsTrusted ==
  ASSUME NEW X, NEW n, NEW f, Carried(X, n, f), NEW z, NEW j, ChangedAt(X, n, z, j)
  PROVE  Trusted(z, f)
<1> USE DEF ChangedAt
<1>1. CASE j >= n + 2
  <2>1. /\ \A i \in 1 .. n + 1 : i # j /\ i \in 1 .. n + 6
        /\ n + 6 \in Nat /\ n + 6 >= n + 1
    BY <1>1
  <2>2. \A i \in 1 .. n + 1 : z[i] = X[i]
    BY <2>1
  <2> QED BY <2>1, <2>2, TrustedBegin
<1>2. CASE j < n + 2
  <2>1. X \in Seq(GpsChars) /\ Len(X) = n + 6
    BY DEF Carried, IsSentence
  <2>2. PICK c : Sums(c, Inner(X, n), n) /\ Num(X[n + 3], X[n + 4]) = c[n]
    BY DEF Carried, IsSentence
  <2>3. n + 6 \in Nat /\ n + 6 > 6 /\ n + 6 - 6 = n /\ n + 6 - 3 = n + 3 /\ n + 6 - 2 = n + 4 /\ n \in Nat /\ n < n + 6
    OBVIOUS
  <2>4. PICK d : Sums(d, Inner(z, n), n) /\ (Fix!Valid(z) <=> Num(z[n + 3], z[n + 4]) = d[n])
    BY <2>3, ValidIs
  <2>5. \A i \in 1 .. n : /\ Inner(z, n)[i] = z[i + 1] /\ Inner(z, n)[i] \in Chars
                          /\ Inner(X, n)[i] = X[i + 1] /\ Inner(X, n)[i] \in Chars
    BY <2>1, <2>3, TypedInner
  <2>6. j - 1 \in 1 .. n /\ \A i \in 1 .. n : i # j - 1 => i + 1 # j /\ i + 1 \in 1 .. n + 6
    BY <1>2
  <2>7. Inner(X, n)[j - 1] # Inner(z, n)[j - 1]
    <3>1. j - 1 + 1 = j
      OBVIOUS
    <3> QED BY <2>5, <2>6, <3>1
  <2>8. \A i \in 1 .. n : i # j - 1 => Inner(X, n)[i] = Inner(z, n)[i]
    BY <2>5, <2>6
  <2>9. c[n] # d[n]
    <3>1. PICK q, w : q = Inner(X, n) /\ w = Inner(z, n)
      OBVIOUS
    <3>2. Sums(c, q, n) /\ Sums(d, w, n)
      BY <2>2, <2>4, <3>1
    <3>3. PICK h \in 1 .. n : h = j - 1
      BY <2>6
    <3>4. q[h] # w[h] /\ (\A i \in 1 .. n : i # h => q[i] = w[i]) /\ \A i \in 1 .. n : q[i] \in Chars /\ w[i] \in Chars
      BY <2>5, <2>7, <2>8, <3>1, <3>3
    <3>5. n \in Nat
      OBVIOUS
    <3> QED BY <3>2, <3>4, <3>5, SumsChanged
  <2>10. z[n + 3] = X[n + 3] /\ z[n + 4] = X[n + 4]
    BY <1>2
  <2>11. ~Fix!Valid(z)
    BY <2>2, <2>4, <2>9, <2>10
  <2> QED BY <2>11 DEF Trusted, Good
<1> QED BY <1>1, <1>2

\* One character is missing.
LEMMA LostIsTrusted ==
  ASSUME NEW X, NEW n \in {7, 11}, NEW f, Carried(X, n, f), NEW z \in Seq(GpsChars), Len(z) = n + 5,
         NEW j \in 2 .. n + 5, \A i \in 1 .. n + 5 : z[i] = IF i < j THEN X[i] ELSE X[i + 1]
  PROVE  Trusted(z, f)
<1>1. CASE j >= n + 2
  <2>1. /\ \A i \in 1 .. n + 1 : i < j /\ i \in 1 .. n + 5
        /\ n + 5 \in Nat /\ n + 5 >= n + 1
    BY <1>1
  <2>2. \A i \in 1 .. n + 1 : z[i] = X[i]
    BY <2>1
  <2> QED BY <2>1, <2>2, TrustedBegin
<1>2. CASE j < n + 2
  <2>1. X \in Seq(GpsChars) /\ Len(X) = n + 6
    BY DEF Carried, IsSentence
  <2>2. PICK c : Sums(c, Inner(X, n), n) /\ Num(X[n + 3], X[n + 4]) = c[n]
    BY DEF Carried, IsSentence
  <2>3. /\ n + 5 \in Nat /\ n + 5 > 6 /\ n + 5 - 6 = n - 1 /\ n + 5 - 3 = n + 2 /\ n + 5 - 2 = n + 3
        /\ n \in Nat /\ n < n + 6 /\ n - 1 \in Nat /\ n - 1 < n + 5 /\ n + 6 \in Nat
    OBVIOUS
  <2>4. PICK d : Sums(d, Inner(z, n - 1), n - 1) /\ (Fix!Valid(z) <=> Num(z[n + 2], z[n + 3]) = d[n - 1])
    BY <2>3, ValidIs
  <2>5. \A i \in 1 .. n : Inner(X, n)[i] = X[i + 1] /\ Inner(X, n)[i] \in Chars /\ Inner(X, n)[i] # 0
    BY <2>1, <2>3, TypedInner
  <2>6. \A i \in 1 .. n - 1 : Inner(z, n - 1)[i] = z[i + 1]
    BY <2>3, TypedInner
  <2>7. j - 1 \in 1 .. n
    BY <1>2
  <2>8. ASSUME NEW i \in 1 .. n - 1
        PROVE  /\ i < j - 1 => Inner(z, n - 1)[i] = Inner(X, n)[i]
               /\ i >= j - 1 => Inner(z, n - 1)[i] = Inner(X, n)[i + 1]
    <3>1. /\ i + 1 \in 1 .. n + 5 /\ i \in 1 .. n /\ i + 1 \in 1 .. n
          /\ (i + 1 < j <=> i < j - 1) /\ (i >= j - 1 <=> ~(i + 1 < j))
      OBVIOUS
    <3> QED BY <2>5, <2>6, <3>1
  <2>9. c[n] # d[n - 1]
    <3>1. PICK q, w : q = Inner(X, n) /\ w = Inner(z, n - 1)
      OBVIOUS
    <3>2. Sums(c, q, n) /\ Sums(d, w, n - 1)
      BY <2>2, <2>4, <3>1
    <3>3. PICK h \in 1 .. n : h = j - 1
      BY <2>7
    <3>4. /\ q[h] # 0 /\ \A i \in 1 .. n : q[i] \in Chars
          /\ \A i \in 1 .. n - 1 : (i < h => w[i] = q[i]) /\ (i >= h => w[i] = q[i + 1])
      BY <2>5, <2>8, <3>1, <3>3
    <3>5. PICK r \in Nat : r = n - 1 /\ n = r + 1 /\ n \in Nat
      OBVIOUS
    <3>6. Sums(d, w, r) /\ \A i \in 1 .. r : (i < h => w[i] = q[i]) /\ (i >= h => w[i] = q[i + 1])
      BY <3>2, <3>4, <3>5
    <3>7. LostOne(c, d, q, w, n, r, h)
      BY <3>2, <3>4, <3>5, <3>6 DEF LostOne
    <3>8. c[n] # d[r]
      BY <3>7, SumsLost
    <3> QED BY <3>5, <3>8
  <2>10. z[n + 2] = X[n + 3] /\ z[n + 3] = X[n + 4]
    <3>1. n + 2 \in 1 .. n + 5 /\ n + 3 \in 1 .. n + 5 /\ ~(n + 2 < j) /\ ~(n + 3 < j)
      BY <1>2
    <3> QED BY <3>1
  <2>11. ~Fix!Valid(z)
    BY <2>2, <2>4, <2>9, <2>10
  <2> QED BY <2>11 DEF Trusted, Good
<1> QED BY <1>1, <1>2

\* What the first characters of a sentence add up to.
LEMMA FirstSums ==
  ASSUME NEW c, NEW q, NEW m \in 4 .. 6, NEW l \in 0 .. 7, Sums(c, q, m),
         q[1] = 2, q[2] = 4, q[3] = 5, q[4] = 4, q[5] = 16 + l, q[6] = 7
  PROVE  c[4] = 7 /\ (m > 4 => c[5] \in 16 .. 31) /\ (m > 5 => c[6] \in 16 .. 31)
<1>1. /\ Fix!Xor(0, 2) = 2 /\ Fix!Xor(2, 4) = 6 /\ Fix!Xor(6, 5) = 3 /\ Fix!Xor(3, 4) = 7
  BY DEF Fix!Xor
<1>2. /\ c[1] = Fix!Xor(c[0], q[1]) /\ c[2] = Fix!Xor(c[1], q[2]) /\ c[3] = Fix!Xor(c[2], q[3])
      /\ c[4] = Fix!Xor(c[3], q[4]) /\ c[0] = 0
  <2>1. c[0] = 0 /\ \A i \in 1 .. 4 : c[i] = Fix!Xor(c[i - 1], q[i])
    BY DEF Sums
  <2> QED BY <2>1
<1>3. c[4] = 7
  BY <1>1, <1>2
<1>4. ASSUME m > 4 PROVE c[5] \in 16 .. 31
  <2>1. c[5] = Fix!Xor(c[4], q[5])
    BY <1>4 DEF Sums
  <2>2. l + 16 = q[5] /\ 7 \in 0 .. 15 /\ l \in 0 .. 15
    OBVIOUS
  <2> QED BY <1>3, <2>1, <2>2, XorHigh
<1>5. ASSUME m > 5 PROVE c[6] \in 16 .. 31
  <2>1. c[6] = Fix!Xor(c[5], q[6]) /\ c[5] \in 16 .. 31
    BY <1>4, <1>5 DEF Sums
  <2>2. PICK a \in 0 .. 15 : c[5] = a + 16
    <3>1. c[5] - 16 \in 0 .. 15 /\ c[5] = c[5] - 16 + 16
      BY <2>1
    <3> QED BY <3>1
  <2> QED BY <2>1, <2>2, XorHigh
<1> QED BY <1>3, <1>4, <1>5

\* The sentence ends too early.
LEMMA EarlyIsTrusted ==
  ASSUME NEW X, NEW n \in {7, 11}, NEW f, Carried(X, n, f), NEW z \in Seq(GpsChars), NEW k \in 1 .. n + 5, Len(z) = k + 1,
         z[k + 1] = Fix!LF, \A i \in 1 .. k : z[i] = X[i]
  PROVE  Trusted(z, f)
<1>1. CASE k >= n + 1
  <2>1. k + 1 \in Nat /\ k + 1 >= n + 1 /\ \A i \in 1 .. n + 1 : i \in 1 .. k
    BY <1>1
  <2>2. \A i \in 1 .. n + 1 : z[i] = X[i]
    BY <2>1
  <2> QED BY <2>1, <2>2, TrustedBegin
<1>2. ASSUME NEW i \in 1 .. 12 PROVE Fix!At(z, i) = IF i <= k THEN X[i] ELSE IF i = k + 1 THEN 12 ELSE 0
  BY CharCodes DEF Fix!At
<1>3. CASE n = 7 /\ Positionless(X, f)
  <2>1. Fix!At(z, 7) # 7
    BY <1>2, <1>3, CharCodes DEF Positionless
  <2> QED BY <2>1, GoodIs DEF Trusted
<1>4. CASE n = 11 /\ OtherType(X, f)
  <2>1. Fix!At(z, 2) # 2
    BY <1>2, <1>4, CharCodes DEF OtherType
  <2> QED BY <2>1, GoodIs DEF Trusted
<1>5. CASE n = 11 /\ Positioned(X, f) /\ k <= n
  <2> SUFFICES ASSUME Good(z) PROVE FALSE
    BY DEF Trusted
  <2>1. Fix!At(z, 9) = 4 /\ Fix!Valid(z)
    BY GoodIs
  <2>2. k \in 9 .. 11
    BY <1>2, <1>5, <2>1
  <2>3. PICK l \in 0 .. 7 : /\ X[2] = 2 /\ X[3] = 4 /\ X[4] = 5 /\ X[5] = 4 /\ X[6] = 16 + l
                            /\ X[7] = 7 /\ X[8] = 21 /\ X[9] = 4
    BY <1>5, CharCodes DEF Positioned
  <2>4. /\ z[2] = 2 /\ z[3] = 4 /\ z[4] = 5 /\ z[5] = 4 /\ z[6] = 16 + l /\ z[7] = 7 /\ z[8] = 21 /\ z[9] = 4
    BY <2>2, <2>3
  <2>5. /\ k + 1 \in Nat /\ k + 1 > 6 /\ k + 1 - 6 = k - 5 /\ k + 1 - 3 = k - 2 /\ k + 1 - 2 = k - 1
        /\ k - 5 \in 4 .. 6
    BY <2>2
  <2>6. PICK c : Sums(c, Inner(z, k - 5), k - 5) /\ Num(z[k - 2], z[k - 1]) = c[k - 5]
    <3>1. PICK h \in Nat : /\ h = k + 1 /\ h > 6 /\ h - 6 = k - 5 /\ h - 3 = k - 2 /\ h - 2 = k - 1
      BY <2>5
    <3>2. Len(z) = h
      BY <3>1
    <3>3. PICK c : Sums(c, Inner(z, h - 6), h - 6) /\ (Fix!Valid(z) <=> Num(z[h - 3], z[h - 2]) = c[h - 6])
      BY <3>1, <3>2, ValidIs
    <3> QED BY <2>1, <3>1, <3>3
  <2>7. PICK q : q = [i \in 1 .. 6 |-> z[i + 1]]
    OBVIOUS
  <2>8. q[1] = 2 /\ q[2] = 4 /\ q[3] = 5 /\ q[4] = 4 /\ q[5] = 16 + l /\ q[6] = 7
    BY <2>4, <2>7
  <2>9. Sums(c, q, k - 5)
    BY <2>5, <2>6, <2>7 DEF Sums, Inner
  <2>10. c[4] = 7 /\ (k - 5 > 4 => c[5] \in 16 .. 31) /\ (k - 5 > 5 => c[6] \in 16 .. 31)
    BY <2>5, <2>8, <2>9, FirstSums
  <2>11. CASE k = 9
    <3>1. Num(z[7], z[8]) = c[4] /\ Num(7, 21) = 0
      BY <2>6, <2>11 DEF Num
    <3> QED BY <2>4, <2>10, <3>1
  <2>12. CASE k = 10
    <3>1. Num(z[8], z[9]) = c[5] /\ Num(21, 4) = 5
      BY <2>6, <2>12 DEF Num
    <3>2. z[8] = 21 /\ z[9] = 4
      BY <2>4
    <3>3. c[5] = 5
      BY <3>1, <3>2
    <3>4. c[5] \in 16 .. 31
      BY <2>10, <2>12
    <3> QED BY <3>3, <3>4
  <2>13. CASE k = 11
    <3>1. Num(z[9], z[10]) = c[6] /\ Num(4, z[10]) = 0
      BY <2>6, <2>13 DEF Num
    <3>2. z[9] = 4
      BY <2>4
    <3>3. c[6] = 0
      BY <3>1, <3>2
    <3>4. c[6] \in 16 .. 31
      BY <2>10, <2>13
    <3> QED BY <3>3, <3>4
  <2> QED BY <2>2, <2>11, <2>12, <2>13
<1>6. k >= n + 1 \/ k <= n
  OBVIOUS
<1> QED BY <1>1, <1>3, <1>4, <1>5, <1>6 DEF Carried

-----------------------------------------------------------------------------
(* The parser of the GPS, with one character at most lost or changed. *)

Fixes == {i \in DOMAIN sent : sent[i].valid}
Paid(f) == IF f.valid THEN 1 ELSE 0
\* What comes of X behind its first k characters.
Rest(X, k) == Len(line) = Len(X) - k /\ \A i \in 1 .. Len(X) - k : line[i] = X[k + i]

GpsTyped ==
  /\ line \in Seq(GpsChars) /\ reading \in BOOLEAN /\ s \in Seq(GpsChars) /\ Len(s) <= MAX_SENTENCE_LEN + 1
  /\ rc \in 0 .. 2 /\ faults \in 0 .. 1 /\ faults <= MaxFaults /\ got \in Nat
  /\ sent \in Seq([valid : BOOLEAN, latitude : Nat, speed : Nat])

\* The sentence X of n characters and six more was sent for f.
Sent(X, n, f) == n \in {7, 11} /\ Carried(X, n, f) /\ f \in Fix!ToSet(sent)

\* Nothing is read, and no sentence begins before the next one is sent.
Idling ==
  /\ ~reading /\ \A i \in DOMAIN line : line[i] # Fix!Dollar
  /\ faults = 0 => line = <<>>
  /\ \E d \in 0 .. 2 * faults : Cardinality(Fixes) = got + d
\* The sentence that comes has been read as far as it came.
Follows(X, n, f, k) ==
  /\ Sent(X, n, f) /\ k \in 0 .. n + 5 /\ Rest(X, k)
  /\ \E d \in 0 .. 2 * faults : Cardinality(Fixes) = got + Paid(f) + d
  /\ k = 0 => ~reading
  /\ k > 0 => reading /\ Len(s) = k /\ \A i \in 1 .. k : s[i] = X[i]
Following == \E X, n, f, k : Follows(X, n, f, k)
\* One character of it was changed, or lost.
Changed(X, k) == \E j \in 2 .. k : Len(s) = k /\ s[j] # X[j] /\ \A i \in 1 .. k : i # j => s[i] = X[i]
Lost(X, k) == \E j \in 2 .. k : Len(s) = k - 1 /\ \A i \in 1 .. k - 1 : s[i] = IF i < j THEN X[i] ELSE X[i + 1]
Disturbs(X, n, f, k) ==
  /\ faults = 1 /\ reading /\ Sent(X, n, f) /\ k \in 2 .. n + 5 /\ Rest(X, k) /\ (Changed(X, k) \/ Lost(X, k))
  /\ Cardinality(Fixes) = got + Paid(f)
Disturbed == \E X, n, f, k : Disturbs(X, n, f, k)
\* Its end was, and the next sentence is taken for a part of it.
Begun(X, n, f) == faults = 1 /\ reading /\ Sent(X, n, f) /\ Len(s) >= n + 5 /\ \A i \in 1 .. n + 5 : s[i] = X[i]
Awaits(X, n, f) == Begun(X, n, f) /\ line = <<>> /\ Cardinality(Fixes) = got + Paid(f)
Joins(X, n, f, Y, m, g, k) ==
  /\ Begun(X, n, f) /\ Sent(Y, m, g) /\ k \in 0 .. m + 5 /\ Rest(Y, k)
  /\ Cardinality(Fixes) = got + Paid(f) + Paid(g)
Joined == \/ \E X, n, f : Awaits(X, n, f)
          \/ \E X, n, f, Y, m, g, k : Joins(X, n, f, Y, m, g, k)

GpsInv == GpsTyped /\ Fix!FixWasSent /\ (Idling \/ Following \/ Disturbed \/ Joined)

LEMMA CardinalityIs == \A S : Fix!Cardinality(S) = Cardinality(S)
BY DEF Fix!Cardinality, Cardinality

LEMMA FixesAre ==
  ASSUME GpsTyped
  PROVE  IsFiniteSet(Fixes) /\ Cardinality(Fixes) \in 0 .. Len(sent)
<1>1. Len(sent) \in Nat /\ DOMAIN sent = 1 .. Len(sent)
  BY DEF GpsTyped
<1>2. IsFiniteSet(1 .. Len(sent)) /\ Cardinality(1 .. Len(sent)) = Len(sent)
  <2>1. 1 \in Int /\ Len(sent) \in Int
    BY <1>1
  <2>2. Cardinality(1 .. Len(sent)) = IF 1 > Len(sent) THEN 0 ELSE Len(sent) - 1 + 1
    BY <2>1, FS_Interval
  <2> QED BY <1>1, <2>1, <2>2, FS_Interval
<1>3. Fixes \subseteq 1 .. Len(sent)
  BY <1>1 DEF Fixes
<1>4. IsFiniteSet(Fixes) /\ Cardinality(Fixes) <= Len(sent)
  BY <1>2, <1>3, FS_Subset
<1>5. Cardinality(Fixes) \in Nat
  BY <1>4, FS_CardinalityType
<1> QED BY <1>1, <1>4, <1>5

LEMMA GpsImplies == ASSUME GpsInv PROVE FixesTrue
<1>1. GpsTyped /\ Cardinality(Fixes) \in 0 .. Len(sent) /\ Len(sent) \in Nat
  BY FixesAre DEF GpsInv, GpsTyped
<1>2. got <= Cardinality(Fixes) /\ (line = <<>> => Cardinality(Fixes) <= got + 2 * faults)
  <2>0. got \in Nat /\ faults \in 0 .. 1 /\ Cardinality(Fixes) \in Nat /\ \A f : Paid(f) \in 0 .. 1
    BY <1>1 DEF GpsTyped, Paid
  <2>1. CASE Idling
    BY <2>0, <2>1 DEF Idling
  <2>2. CASE Following
    <3>1. PICK X, n, f, k : Follows(X, n, f, k)
      BY <2>2, Zenon DEF Following
    <3>2. line # <<>>
      BY <3>1 DEF Follows, Rest, Sent, Carried, IsSentence
    <3> QED BY <2>0, <3>1, <3>2 DEF Follows
  <2>3. CASE Disturbed
    <3>1. PICK X, n, f, k : Disturbs(X, n, f, k)
      BY <2>3, Zenon DEF Disturbed
    <3> QED BY <2>0, <3>1 DEF Disturbs
  <2>4. CASE \E X, n, f : Awaits(X, n, f)
    <3>1. PICK X, n, f : Awaits(X, n, f)
      BY <2>4, Zenon
    <3> QED BY <2>0, <3>1 DEF Awaits, Begun
  <2>5. CASE \E X, n, f, Y, m, g, k : Joins(X, n, f, Y, m, g, k)
    <3>1. PICK X, n, f, Y, m, g, k : Joins(X, n, f, Y, m, g, k)
      BY <2>5, Zenon
    <3> QED BY <2>0, <3>1 DEF Joins, Begun
  <2> QED BY <2>1, <2>2, <2>3, <2>4, <2>5, Zenon DEF GpsInv, Joined
<1>3. Fix!TypeOK
  <2>1. got \in 0 .. Len(sent)
    BY <1>1, <1>2 DEF GpsTyped
  <2>2. faults \in 0 .. MaxFaults
    BY GpsAssumed, <1>1 DEF GpsTyped, Fix!GpsAssumption
  <2> QED BY <1>1, <2>1, <2>2 DEF GpsTyped, GpsChars, Fix!TypeOK
<1>4. Fix!FaultCostsTwo
  <2>1. Cardinality({i \in DOMAIN sent : sent[i].valid}) = Cardinality(Fixes)
    BY DEF Fixes
  <2>2. PICK m : m = Cardinality(Fixes) /\ got <= m /\ (line = <<>> => m <= got + 2 * faults)
    BY <1>2
  <2>3. Fix!FaultCostsTwo <=> (line = <<>> =>
          /\ got <= Cardinality({i \in DOMAIN sent : sent[i].valid})
          /\ Cardinality({i \in DOMAIN sent : sent[i].valid}) <= got + 2 * faults)
    BY CardinalityIs DEF Fix!FaultCostsTwo
  <2> QED BY <2>1, <2>2, <2>3, Zenon
<1> QED BY <1>3, <1>4 DEF FixesTrue, GpsInv

\* The end of a sentence in which the fix f was sent, with m fixes sent in those that ended before.
LEMMA EndKeeps ==
  ASSUME GpsTyped, GpsTyped', NEW z, Fix!EndOfSentence(z), NEW f, f \in Fix!ToSet(sent), Trusted(z, f), UNCHANGED sent
  PROVE  /\ Fix!FixWasSent' /\ ~reading'
         /\ got' \in {got, got + Paid(f)} /\ (Good(z) => got' = got + Paid(f))
<1>1. /\ reading' = FALSE
      /\ rc' = IF Good(z) THEN 0 ELSE 1
      /\ fix' = (IF Fix!At(z, 2) = Fix!RMC /\ Fix!Valid(z) THEN Fix!FromRmc(z).fix ELSE fix)
      /\ got' = IF Good(z) THEN got + 1 ELSE got
  BY DEF Fix!EndOfSentence, Fix!Result, Good
<1>2. CASE Good(z)
  <2>1. f.valid /\ Fix!FromRmc(z).fix = f
    BY <1>2 DEF Trusted
  <2>2. fix' = f
    BY <1>1, <1>2, <2>1 DEF Good
  <2> QED BY <1>1, <1>2, <2>1, <2>2 DEF Paid, Fix!FixWasSent
<1>3. CASE ~Good(z)
  BY <1>1, <1>3 DEF Fix!FixWasSent
<1> QED BY <1>2, <1>3

LEMMA ReadsIs ==
  ASSUME NEW c, Fix!Reads(c)
  PROVE  \/ ~reading /\ c # 1 /\ UNCHANGED <<reading, s, fix, rc, got>>
         \/ ~reading /\ c = 1 /\ reading' = TRUE /\ s' = <<c>> /\ UNCHANGED <<fix, rc, got>>
         \/ reading /\ c = 12 /\ Fix!EndOfSentence(Append(s, c))
         \/ reading /\ c # 12 /\ Len(s) <= MAX_SENTENCE_LEN /\ s' = Append(s, c) /\ UNCHANGED <<reading, fix, rc, got>>
         \/ /\ reading /\ c # 12 /\ Len(s) > MAX_SENTENCE_LEN
            /\ reading' = FALSE /\ s' = <<>> /\ rc' = 1 /\ fix' = fix /\ got' = got
BY CharCodes DEF Fix!Reads, Fix!Result

LEMMA EndIs ==
  ASSUME NEW z, Fix!EndOfSentence(z)
  PROVE  reading' = FALSE /\ s' = <<>> /\ rc' \in {0, 1} /\ got' \in {got, got + 1}
BY DEF Fix!EndOfSentence, Fix!Result

LEMMA ReadsTyped ==
  ASSUME GpsTyped, NEW c \in GpsChars, Fix!Reads(c)
  PROVE  /\ reading' \in BOOLEAN /\ s' \in Seq(GpsChars) /\ Len(s') <= MAX_SENTENCE_LEN + 1
         /\ rc' \in 0 .. 2 /\ got' \in Nat
<1>1. /\ reading \in BOOLEAN /\ s \in Seq(GpsChars) /\ Len(s) <= MAX_SENTENCE_LEN + 1
      /\ rc \in 0 .. 2 /\ got \in Nat /\ MAX_SENTENCE_LEN \in Nat
  BY GpsAssumed DEF GpsTyped, Fix!GpsAssumption
<1>2. <<>> \in Seq(GpsChars) /\ Len(<<>>) = 0 /\ <<c>> \in Seq(GpsChars) /\ Len(<<c>>) = 1
  OBVIOUS
<1>3. Append(s, c) \in Seq(GpsChars) /\ Len(Append(s, c)) = Len(s) + 1
  BY <1>1, AppendProperties
<1>4. CASE reading /\ c = 12 /\ Fix!EndOfSentence(Append(s, c))
  <2>1. s' = <<>> /\ reading' = FALSE /\ rc' \in {0, 1} /\ got' \in {got, got + 1}
    BY <1>4, EndIs
  <2>2. rc' \in 0 .. 2 /\ got' \in Nat /\ 0 <= MAX_SENTENCE_LEN + 1
    BY <1>1, <2>1
  <2> QED BY <1>2, <2>1, <2>2
<1>5. CASE reading /\ c # 12 /\ Len(s) <= MAX_SENTENCE_LEN /\ s' = Append(s, c) /\ UNCHANGED <<reading, fix, rc, got>>
  BY <1>1, <1>3, <1>5
<1>6. CASE ~reading /\ c = 1 /\ reading' = TRUE /\ s' = <<c>> /\ UNCHANGED <<fix, rc, got>>
  BY <1>1, <1>2, <1>6
<1>7. CASE reading' = FALSE /\ s' = <<>> /\ rc' = 1 /\ got' = got
  <2>1. rc' \in 0 .. 2 /\ got' \in Nat /\ 0 <= MAX_SENTENCE_LEN + 1
    BY <1>1, <1>7
  <2> QED BY <1>2, <1>7, <2>1
<1>8. CASE UNCHANGED <<reading, s, fix, rc, got>>
  BY <1>1, <1>8
<1> QED BY <1>4, <1>5, <1>6, <1>7, <1>8, ReadsIs

LEMMA SendIs ==
  ASSUME Fix!GpsSends
  PROVE  \E n, f : /\ n \in {7, 11} /\ f \in [valid : BOOLEAN, latitude : Nat, speed : Nat]
                   /\ Carried(line', n, f) /\ sent' = Append(sent, f)
<1>1. CASE \E latitude \in Latitudes :
             /\ line' = Fix!Sentence(Fix!Body(Fix!RMC, Fix!A, latitude, latitude))
             /\ sent' = Append(sent, [valid |-> TRUE, latitude |-> latitude, speed |-> latitude])
  <2>1. PICK l \in Latitudes :
          /\ line' = Fix!Sentence(Fix!Body(Fix!RMC, Fix!A, l, l))
          /\ sent' = Append(sent, [valid |-> TRUE, latitude |-> l, speed |-> l])
    BY <1>1
  <2>2. PICK f : f = [valid |-> TRUE, latitude |-> l, speed |-> l]
    OBVIOUS
  <2>3. f \in [valid : BOOLEAN, latitude : Nat, speed : Nat]
    BY <2>2, GpsAssumed DEF Fix!GpsAssumption
  <2>4. Carried(line', 11, f) /\ sent' = Append(sent, f)
    BY <2>1, <2>2, PositionSent
  <2> QED BY <2>3, <2>4
<1>2. CASE /\ line' = Fix!Sentence(Fix!NoPosition) \/ line' = Fix!Sentence(Fix!Body(Fix!GGA, Fix!A, 1, 0))
           /\ sent' = Append(sent, Fix!NoFix)
  <2>1. Fix!NoFix \in [valid : BOOLEAN, latitude : Nat, speed : Nat]
    BY DEF Fix!NoFix
  <2> QED BY <1>2, <2>1, OthersSent
<1> QED BY <1>1, <1>2 DEF Fix!GpsSends

LEMMA GpsTypes ==
  ASSUME MaxFaults <= 1, GpsTyped, Fix!Next
  PROVE  GpsTyped'
<1>1. MaxFaults \in Nat
  BY GpsAssumed DEF Fix!GpsAssumption
<1>2. CASE Fix!GpsSends
  <2>1. PICK n, f : /\ f \in [valid : BOOLEAN, latitude : Nat, speed : Nat]
                    /\ Carried(line', n, f) /\ sent' = Append(sent, f)
    BY <1>2, SendIs
  <2>2. line' \in Seq(GpsChars) /\ sent' \in Seq([valid : BOOLEAN, latitude : Nat, speed : Nat])
    BY <2>1, AppendProperties DEF Carried, IsSentence, GpsTyped
  <2>3. UNCHANGED <<reading, s, fix, rc, faults, got>>
    BY <1>2 DEF Fix!GpsSends
  <2> QED BY <2>2, <2>3 DEF GpsTyped
<1>3. ASSUME line # <<>>, line' = Tail(line)
      PROVE  line' \in Seq(GpsChars) /\ Head(line) \in GpsChars
  BY <1>3, HeadTailProperties DEF GpsTyped
<1>4. CASE Fix!CharComes
  <2>1. line # <<>> /\ line' = Tail(line) /\ Fix!Reads(Head(line)) /\ UNCHANGED <<sent, faults>>
    BY <1>4 DEF Fix!CharComes
  <2> QED BY <1>3, <2>1, ReadsTyped DEF GpsTyped
<1>5. CASE Fix!CharLost
  <2>1. /\ line # <<>> /\ line' = Tail(line) /\ faults < MaxFaults /\ faults' = faults + 1
        /\ UNCHANGED <<reading, s, fix, rc, sent, got>>
    BY <1>5 DEF Fix!CharLost
  <2> QED BY <1>1, <1>3, <2>1 DEF GpsTyped
<1>6. CASE Fix!CharChanged
  <2>1. /\ line # <<>> /\ line' = Tail(line) /\ faults < MaxFaults /\ faults' = faults + 1
        /\ UNCHANGED sent
    BY <1>6 DEF Fix!CharChanged
  <2>2. PICK c \in {1, 2, 19, 12} : Fix!Reads(c)
    BY <1>6, CharCodes DEF Fix!CharChanged
  <2>3. c \in GpsChars
    BY DEF GpsChars
  <2>4. faults' \in 0 .. 1 /\ faults' <= MaxFaults
    BY <1>1, <2>1 DEF GpsTyped
  <2> QED BY <1>3, <2>1, <2>2, <2>3, <2>4, ReadsTyped DEF GpsTyped
<1> QED BY <1>2, <1>4, <1>5, <1>6 DEF Fix!Next

\* One character of the rest of X is taken off the line.
LEMMA RestGoesOn ==
  ASSUME GpsTyped, NEW X, NEW n \in {7, 11}, IsSentence(X, n), NEW k \in 0 .. n + 5, Rest(X, k), line' = Tail(line)
  PROVE  /\ Head(line) = X[k + 1] /\ Head(line) \in GpsChars /\ Rest(X, k + 1)'
         /\ k = n + 5 => line' = <<>>
         /\ \A i \in DOMAIN line' : line'[i] # Fix!Dollar
<1>1. /\ line \in Seq(GpsChars) /\ Len(line) = n + 6 - k /\ \A i \in 1 .. n + 6 - k : line[i] = X[k + i]
      /\ Len(X) = n + 6
  BY DEF GpsTyped, Rest, IsSentence
<1>2. line # <<>> /\ 1 \in 1 .. n + 6 - k
  BY <1>1
<1>3. /\ Head(line) = line[1] /\ Head(line) \in GpsChars
      /\ line' \in Seq(GpsChars) /\ Len(line') = Len(line) - 1
      /\ \A i \in 1 .. Len(line) - 1 : line'[i] = line[i + 1]
  BY <1>1, <1>2, HeadTailProperties
<1>4. ASSUME NEW i \in 1 .. n + 6 - (k + 1) PROVE line'[i] = X[k + 1 + i]
  <2>1. PICK h, r : h = i + 1 /\ r = n + 6 - k /\ h \in 1 .. r /\ i \in 1 .. r - 1 /\ k + h = k + 1 + i
    OBVIOUS
  <2>2. line'[i] = line[h]
    BY <1>1, <1>3, <2>1
  <2>3. line[h] = X[k + h]
    BY <1>1, <2>1
  <2> QED BY <2>1, <2>2, <2>3
<1>5. Len(line') = n + 6 - (k + 1)
  BY <1>1, <1>3
<1>6. Rest(X, k + 1)'
  BY <1>1, <1>4, <1>5 DEF Rest
<1>7. k = n + 5 => line' = <<>>
  BY <1>3, <1>5
<1>8. ASSUME NEW i \in DOMAIN line' PROVE line'[i] # Fix!Dollar
  <2>1. i \in 1 .. n + 6 - (k + 1) /\ k + 1 + i \in 2 .. n + 6
    BY <1>3, <1>5
  <2> QED BY <1>4, <2>1 DEF IsSentence
<1> QED BY <1>1, <1>2, <1>3, <1>6, <1>7, <1>8

LEMMA Amounts ==
  ASSUME GpsTyped
  PROVE  Cardinality(Fixes) \in Nat /\ got \in Nat /\ faults \in 0 .. 1 /\ \A f : Paid(f) \in 0 .. 1
<1>1. Cardinality(Fixes) \in 0 .. Len(sent) /\ Len(sent) \in Nat /\ got \in Nat /\ faults \in 0 .. 1
  BY FixesAre DEF GpsTyped
<1>2. Cardinality(Fixes) \in Nat
  BY <1>1
<1> QED BY <1>1, <1>2 DEF Paid

LEMMA SameSent ==
  ASSUME sent' = sent
  PROVE  Cardinality(Fixes)' = Cardinality(Fixes) /\ \A X, n, f : Sent(X, n, f) => Sent(X, n, f)'
<1>1. Fixes' = Fixes
  BY DEF Fixes
<1>2. Fix!ToSet(sent)' = Fix!ToSet(sent)
  BY DEF Fix!ToSet
<1> QED BY <1>1, <1>2, Zenon DEF Sent

LEMMA MoreSent ==
  ASSUME GpsTyped, NEW f \in [valid : BOOLEAN, latitude : Nat, speed : Nat], sent' = Append(sent, f)
  PROVE  /\ Cardinality(Fixes)' = Cardinality(Fixes) + Paid(f)
         /\ f \in Fix!ToSet(sent') /\ \A g \in Fix!ToSet(sent) : g \in Fix!ToSet(sent')
<1>1. PICK l \in Nat : l = Len(sent) /\ DOMAIN sent = 1 .. l
  BY DEF GpsTyped
<1>2. /\ DOMAIN sent' = 1 .. l + 1 /\ sent'[l + 1] = f /\ \A i \in 1 .. l : sent'[i] = sent[i]
  <2>1. /\ sent' \in Seq([valid : BOOLEAN, latitude : Nat, speed : Nat]) /\ Len(sent') = Len(sent) + 1
        /\ \A i \in 1 .. Len(sent) : sent'[i] = sent[i]
        /\ sent'[Len(sent) + 1] = f
    BY AppendProperties DEF GpsTyped
  <2>2. DOMAIN sent' = 1 .. Len(sent')
    BY <2>1
  <2> QED BY <1>1, <2>1, <2>2
<1>3. l + 1 \in 1 .. l + 1 /\ l + 1 \notin 1 .. l /\ \A i \in 1 .. l + 1 : i \in 1 .. l \/ i = l + 1
  OBVIOUS
<1>4. \A i \in 1 .. l : i \in 1 .. l + 1
  OBVIOUS
<1>5. f \in Fix!ToSet(sent') /\ \A g \in Fix!ToSet(sent) : g \in Fix!ToSet(sent')
  <2>1. \A i \in DOMAIN sent : i \in DOMAIN sent' /\ sent'[i] = sent[i]
    BY <1>1, <1>2, <1>4
  <2>2. l + 1 \in DOMAIN sent'
    BY <1>2, <1>3
  <2> QED BY <1>2, <2>1, <2>2 DEF Fix!ToSet
<1>6. CASE f.valid
  <2>1. Fixes' = Fixes \cup {l + 1} /\ l + 1 \notin Fixes
    BY <1>1, <1>2, <1>3, <1>4, <1>6 DEF Fixes
  <2>2. Cardinality(Fixes \cup {l + 1}) = Cardinality(Fixes) + 1
    BY <2>1, FixesAre, FS_AddElement
  <2> QED BY <1>5, <1>6, <2>1, <2>2 DEF Paid
<1>7. CASE ~f.valid
  <2>1. Fixes' = Fixes
    BY <1>1, <1>2, <1>3, <1>4, <1>7 DEF Fixes
  <2>2. Cardinality(Fixes) \in Nat
    BY Amounts
  <2> QED BY <1>5, <1>7, <2>1, <2>2 DEF Paid
<1> QED BY <1>6, <1>7

LEMMA Appended ==
  ASSUME NEW z \in Seq(GpsChars), NEW l \in Nat, Len(z) = l, NEW c \in GpsChars
  PROVE  /\ Append(z, c) \in Seq(GpsChars) /\ Len(Append(z, c)) = l + 1
         /\ Append(z, c)[l + 1] = c /\ \A i \in 1 .. l : Append(z, c)[i] = z[i]
BY AppendProperties

\* The character that comes next of the sentence X.
LEMMA Coming ==
  ASSUME GpsTyped, NEW X, NEW n, NEW f, Sent(X, n, f), NEW k \in 0 .. n + 5, Rest(X, k), line' = Tail(line)
  PROVE  /\ n \in {7, 11} /\ Carried(X, n, f) /\ f \in Fix!ToSet(sent)
         /\ X \in Seq(GpsChars) /\ Len(X) = n + 6 /\ X[1] = 1 /\ X[n + 6] = 12
         /\ Head(line) = X[k + 1] /\ Head(line) \in GpsChars
         /\ k < n + 5 => Head(line) # 12 /\ Rest(X, k + 1)'
         /\ k = n + 5 => Head(line) = 12 /\ line' = <<>>
         /\ \A i \in DOMAIN line' : line'[i] # Fix!Dollar
<1>1. n \in {7, 11} /\ Carried(X, n, f) /\ f \in Fix!ToSet(sent) /\ IsSentence(X, n)
  BY DEF Sent, Carried
<1>2. /\ X \in Seq(GpsChars) /\ Len(X) = n + 6 /\ X[1] = 1 /\ X[n + 6] = 12
      /\ \A i \in 1 .. n + 5 : X[i] # 12
  BY <1>1, CharCodes DEF IsSentence
<1>3. /\ Head(line) = X[k + 1] /\ Head(line) \in GpsChars /\ Rest(X, k + 1)'
      /\ k = n + 5 => line' = <<>>
      /\ \A i \in DOMAIN line' : line'[i] # Fix!Dollar
  BY <1>1, RestGoesOn
<1>4. k < n + 5 => k + 1 \in 1 .. n + 5
  BY <1>1
<1>5. k = n + 5 => k + 1 = n + 6
  BY <1>1
<1> QED BY <1>1, <1>2, <1>3, <1>4, <1>5

LEMMA Unread ==
  ASSUME NEW X, NEW n, NEW f, Sent(X, n, f), NEW k \in 0 .. n + 5, Rest(X, k)
  PROVE  line # <<>>
BY DEF Rest, Sent, Carried, IsSentence

\* What the parser does with a character in a sentence.
\* c comes, and z of l characters is the sentence so far.
AtChar(c, z, l) ==
  GpsTyped /\ reading /\ c \in GpsChars /\ Fix!Reads(c) /\ z \in Seq(GpsChars) /\ z = s /\ l \in Nat /\ Len(z) = l
Longer(c, z, l) ==
  /\ reading' = TRUE /\ Len(s') = l + 1 /\ s'[l + 1] = c /\ \A i \in 1 .. l : s'[i] = z[i]
  /\ UNCHANGED <<fix, rc, got>>

LEMMA InSentence ==
  ASSUME NEW c, NEW z, NEW l, AtChar(c, z, l)
  PROVE  /\ c # 12 /\ l <= MAX_SENTENCE_LEN => Longer(c, z, l)
         /\ c # 12 /\ l > MAX_SENTENCE_LEN => reading' = FALSE /\ rc' = 1 /\ fix' = fix /\ got' = got
         /\ c = 12 => Fix!EndOfSentence(Append(z, c))
<1> USE DEF AtChar, Longer
<1>1. MAX_SENTENCE_LEN \in Nat
  BY GpsAssumed DEF Fix!GpsAssumption
<1>2. PICK y : y = Append(z, c)
  OBVIOUS
<1>3. Len(y) = l + 1 /\ y[l + 1] = c /\ \A i \in 1 .. l : y[i] = z[i]
  BY <1>2, Appended
<1>4. \/ c = 12 /\ Fix!EndOfSentence(y)
      \/ c # 12 /\ l <= MAX_SENTENCE_LEN /\ s' = y /\ UNCHANGED <<reading, fix, rc, got>>
      \/ c # 12 /\ l > MAX_SENTENCE_LEN /\ reading' = FALSE /\ rc' = 1 /\ fix' = fix /\ got' = got
  BY <1>2, ReadsIs
<1>5. CASE c = 12 /\ Fix!EndOfSentence(y)
  BY <1>2, <1>5
<1>6. CASE c # 12 /\ l <= MAX_SENTENCE_LEN /\ s' = y /\ UNCHANGED <<reading, fix, rc, got>>
  <2>1. ~(l > MAX_SENTENCE_LEN)
    BY <1>1, <1>6
  <2>2. reading' = TRUE
    BY <1>6 DEF GpsTyped
  <2> QED BY <1>3, <1>6, <2>1, <2>2
<1>7. CASE c # 12 /\ l > MAX_SENTENCE_LEN /\ reading' = FALSE /\ rc' = 1 /\ fix' = fix /\ got' = got
  <2>1. ~(l <= MAX_SENTENCE_LEN)
    BY <1>1, <1>7
  <2> QED BY <1>7, <2>1
<1> QED BY <1>4, <1>5, <1>6, <1>7

LEMMA LimitIs == MAX_SENTENCE_LEN \in Nat /\ MAX_SENTENCE_LEN >= 15
BY GpsAssumed DEF Fix!GpsAssumption

LEMMA FixStays ==
  ASSUME Fix!FixWasSent, sent' = sent, \/ rc' = 1
                                       \/ rc' = rc /\ fix' = fix
  PROVE  Fix!FixWasSent'
<1>1. Fix!ToSet(sent)' = Fix!ToSet(sent)
  BY DEF Fix!ToSet
<1> QED BY <1>1 DEF Fix!FixWasSent

\* Nothing is read any more, and d sentences with a fix were not returned.
LEMMA IdleAgain ==
  ASSUME GpsTyped, sent' = sent, reading' = FALSE, \A i \in DOMAIN line' : line'[i] # Fix!Dollar,
         faults' = 1 \/ line' = <<>>, NEW d \in 0 .. 2 * faults', Cardinality(Fixes) = got' + d
  PROVE  Idling'
<1>1. Cardinality(Fixes)' = got' + d
  BY SameSent, Zenon
<1>2. faults' = 0 => line' = <<>>
  OBVIOUS
<1> QED BY <1>1, <1>2, Zenon DEF Idling

\* A sentence for f is complete in z, and nothing follows it that begins one.
LEMMA SentenceEnds ==
  ASSUME GpsTyped, GpsTyped', NEW z, Fix!EndOfSentence(z), NEW f, f \in Fix!ToSet(sent), Trusted(z, f), sent' = sent,
         \A i \in DOMAIN line' : line'[i] # Fix!Dollar, faults' = 1, NEW e \in 0 .. 1, Cardinality(Fixes) = got + Paid(f) + e
  PROVE  Idling' /\ Fix!FixWasSent'
<1>1. Fix!FixWasSent' /\ ~reading' /\ got' \in {got, got + Paid(f)}
  BY EndKeeps
<1>2. got \in Nat /\ Paid(f) \in 0 .. 1
  BY Amounts
<1>3. reading' = FALSE
  BY EndIs
<1>4. \E d \in 0 .. 2 : Cardinality(Fixes) = got' + d
  <2>1. CASE got' = got
    <3>1. Paid(f) + e \in 0 .. 2 /\ Cardinality(Fixes) = got' + (Paid(f) + e)
      BY <1>2, <2>1
    <3> QED BY <3>1
  <2>2. CASE got' = got + Paid(f)
    <3>1. e \in 0 .. 2 /\ Cardinality(Fixes) = got' + e
      BY <1>2, <2>2
    <3> QED BY <3>1
  <2> QED BY <1>1, <2>1, <2>2
<1>5. PICK d \in 0 .. 2 * faults' : Cardinality(Fixes) = got' + d
  BY <1>4
<1>6. Idling'
  BY <1>3, <1>5, IdleAgain
<1> QED BY <1>1, <1>6

States == Idling \/ Following \/ Disturbed \/ Joined

\* The sentence comes as it was sent.
LEMMA FollowsOn ==
  ASSUME GpsTyped, GpsTyped', Fix!FixWasSent, NEW X, NEW n, NEW f, NEW k, Follows(X, n, f, k),
         line' = Tail(line), Fix!Reads(Head(line)), UNCHANGED <<sent, faults>>
  PROVE  (Following' \/ Idling') /\ Fix!FixWasSent'
<1>1. /\ Sent(X, n, f) /\ k \in 0 .. n + 5 /\ Rest(X, k)
      /\ \E d \in 0 .. 2 * faults : Cardinality(Fixes) = got + Paid(f) + d
      /\ k = 0 => ~reading
      /\ k > 0 => reading /\ Len(s) = k /\ \A i \in 1 .. k : s[i] = X[i]
  BY DEF Follows
<1>2. PICK c : c = Head(line)
  OBVIOUS
<1>3. /\ n \in {7, 11} /\ Carried(X, n, f) /\ f \in Fix!ToSet(sent)
      /\ X \in Seq(GpsChars) /\ Len(X) = n + 6 /\ X[1] = 1 /\ X[n + 6] = 12
      /\ c = X[k + 1] /\ c \in GpsChars
      /\ k < n + 5 => c # 12 /\ Rest(X, k + 1)'
      /\ k = n + 5 => c = 12 /\ line' = <<>>
      /\ \A i \in DOMAIN line' : line'[i] # Fix!Dollar
  BY <1>1, <1>2, Coming
<1>4. Fix!Reads(c) /\ Sent(X, n, f)' /\ Cardinality(Fixes)' = Cardinality(Fixes) /\ faults' = faults
  BY <1>1, <1>2, SameSent
<1>5. CASE k = 0
  <2>1. c = 1 /\ ~reading
    BY <1>1, <1>3, <1>5
  <2>2. reading' = TRUE /\ s' = <<c>> /\ UNCHANGED <<fix, rc, got>>
    BY <1>4, <2>1, ReadsIs
  <2>3. Len(s') = 1 /\ s'[1] = X[1]
    BY <1>3, <2>1, <2>2
  <2>4. Rest(X, 1)' /\ 1 \in 0 .. n + 5
    BY <1>3, <1>5
  <2>5. \E d \in 0 .. 2 * faults' : Cardinality(Fixes)' = got' + Paid(f) + d
    BY <1>1, <1>4, <2>2, Zenon
  <2>6. \A i \in 1 .. 1 : s'[i] = X[i]
    BY <2>3
  <2>7. Follows(X, n, f, 1)'
    BY <1>4, <2>2, <2>3, <2>4, <2>5, <2>6 DEF Follows
  <2>8. Fix!FixWasSent'
    BY <2>2, FixStays
  <2> QED BY <2>7, <2>8, Zenon DEF Following
<1>6. CASE k > 0 /\ k < n + 5
  <2>1. PICK z \in Seq(GpsChars) : z = s /\ Len(z) = k /\ \A i \in 1 .. k : z[i] = X[i]
    BY <1>1, <1>6 DEF GpsTyped
  <2>2. k \in Nat /\ k <= MAX_SENTENCE_LEN /\ c # 12 /\ reading
    BY <1>1, <1>3, <1>6, LimitIs
  <2>3. /\ reading' = TRUE /\ Len(s') = k + 1 /\ s'[k + 1] = c /\ \A i \in 1 .. k : s'[i] = z[i]
        /\ UNCHANGED <<fix, rc, got>>
    <3>1. AtChar(c, z, k)
      BY <1>3, <1>4, <2>1, <2>2 DEF AtChar
    <3>2. Longer(c, z, k)
      BY <2>2, <3>1, InSentence
    <3> QED BY <3>2 DEF Longer
  <2>4. PICK h : h = k + 1 /\ h \in 0 .. n + 5 /\ h > 0 /\ \A i \in 1 .. h : i \in 1 .. k \/ i = h
    BY <1>3, <1>6, <2>2
  <2>5. Len(s') = h /\ \A i \in 1 .. h : s'[i] = X[i]
    BY <1>3, <2>1, <2>3, <2>4
  <2>6. \E d \in 0 .. 2 * faults' : Cardinality(Fixes)' = got' + Paid(f) + d
    BY <1>1, <1>4, <2>3, Zenon
  <2>7. Rest(X, h)'
    BY <1>3, <1>6, <2>4
  <2>8. Follows(X, n, f, h)'
    BY <1>4, <2>3, <2>4, <2>5, <2>6, <2>7 DEF Follows
  <2>9. Fix!FixWasSent'
    BY <2>3, FixStays
  <2> QED BY <2>8, <2>9, Zenon DEF Following
<1>7. CASE k = n + 5
  <2>1. PICK z \in Seq(GpsChars) : z = s /\ Len(z) = k /\ (\A i \in 1 .. k : z[i] = X[i]) /\ reading
    BY <1>1, <1>3, <1>7 DEF GpsTyped
  <2>2. k \in Nat
    BY <1>3, <1>7
  <2>3. PICK y : y = Append(z, c)
    OBVIOUS
  <2>4. Fix!EndOfSentence(y)
    <3>1. AtChar(c, z, k)
      BY <1>3, <1>4, <2>1, <2>2 DEF AtChar
    <3> QED BY <1>3, <1>7, <2>3, <3>1, InSentence
  <2>5. y = X
    <3>1. y \in Seq(GpsChars) /\ Len(y) = k + 1 /\ y[k + 1] = c /\ \A i \in 1 .. k : y[i] = z[i]
      BY <1>3, <2>1, <2>2, <2>3, Appended
    <3>2. PICK h : h = n + 6 /\ h = k + 1 /\ \A i \in 1 .. h : i \in 1 .. k \/ i = h
      BY <1>3, <1>7
    <3>3. Len(y) = h /\ Len(X) = h /\ \A i \in 1 .. h : y[i] = X[i]
      BY <1>3, <2>1, <3>1, <3>2
    <3> QED BY <1>3, <3>1, <3>3, SeqEqual
  <2>6. Trusted(X, f) /\ (f.valid => Good(X))
    BY <1>3, WholeIsGood
  <2>7. /\ Fix!FixWasSent' /\ got' \in {got, got + Paid(f)} /\ (Good(X) => got' = got + Paid(f))
    BY <1>3, <2>4, <2>5, <2>6, EndKeeps
  <2>8. got' = got + Paid(f)
    BY <2>6, <2>7, Amounts DEF Paid
  <2>9. reading' = FALSE /\ line' = <<>>
    BY <1>3, <1>7, <2>4, EndIs
  <2>10. PICK d \in 0 .. 2 * faults' : Cardinality(Fixes) = got' + d
    BY <1>1, <1>4, <2>8
  <2>11. faults' = 1 \/ line' = <<>>
    BY <2>9
  <2>12. Idling'
    BY <1>3, <2>9, <2>10, <2>11, IdleAgain
  <2> QED BY <2>7, <2>12
<1>8. k = 0 \/ (k > 0 /\ k < n + 5) \/ k = n + 5
  BY <1>1, <1>3
<1> QED BY <1>5, <1>6, <1>7, <1>8

\* A character more of a sentence of which one was changed.
LEMMA ChangedMore ==
  ASSUME NEW X, NEW k \in Nat, NEW z, NEW j \in 2 .. k, Len(z) = k, z[j] # X[j], \A i \in 1 .. k : i # j => z[i] = X[i],
         Len(s') = k + 1, s'[k + 1] = X[k + 1], \A i \in 1 .. k : s'[i] = z[i]
  PROVE  Changed(X, k + 1)'
<1>1. PICK h : h = k + 1 /\ j \in 2 .. h /\ j \in 1 .. k /\ \A i \in 1 .. h : i \in 1 .. k \/ i = h
  OBVIOUS
<1>2. Len(s') = h /\ s'[j] # X[j] /\ \A i \in 1 .. h : i # j => s'[i] = X[i]
  BY <1>1
<1>3. Changed(X, h)'
  BY <1>1, <1>2, Zenon DEF Changed
<1> QED BY <1>1, <1>3

LEMMA LostMore ==
  ASSUME NEW X, NEW k \in Nat, NEW l \in Nat, k = l + 1, NEW z, NEW j \in 2 .. k, Len(z) = l,
         \A i \in 1 .. l : z[i] = IF i < j THEN X[i] ELSE X[i + 1],
         Len(s') = k, s'[k] = X[k + 1], \A i \in 1 .. l : s'[i] = z[i]
  PROVE  Lost(X, k + 1)'
<1>1. PICK h : h = k + 1 /\ j \in 2 .. h /\ h - 1 = k /\ ~(k < j) /\ \A i \in 1 .. k : i \in 1 .. l \/ i = k
  OBVIOUS
<1>2. ASSUME NEW i \in 1 .. k PROVE s'[i] = IF i < j THEN X[i] ELSE X[i + 1]
  <2>1. CASE i = k
    BY <1>1, <2>1
  <2>2. CASE i \in 1 .. l
    BY <2>2
  <2> QED BY <1>1, <2>1, <2>2
<1>3. Len(s') = h - 1 /\ \A i \in 1 .. h - 1 : s'[i] = IF i < j THEN X[i] ELSE X[i + 1]
  BY <1>1, <1>2
<1>4. Lost(X, h)'
  BY <1>1, <1>3, Zenon DEF Lost
<1> QED BY <1>1, <1>4

\* Its end is found, and the checksum shows what happened to it.
LEMMA ChangedEnds ==
  ASSUME NEW X, NEW n \in {7, 11}, NEW f, Carried(X, n, f), X[n + 6] = 12, NEW k \in Nat, k = n + 5,
         NEW z \in Seq(GpsChars), NEW j \in 2 .. k, Len(z) = k, z[j] # X[j], \A i \in 1 .. k : i # j => z[i] = X[i],
         NEW y, y = Append(z, 12)
  PROVE  Trusted(y, f)
<1>1. /\ y \in Seq(GpsChars) /\ Len(y) = k + 1 /\ y[k + 1] = 12 /\ \A i \in 1 .. k : y[i] = z[i]
  BY Appended, CharIs
<1>2. j \in 1 .. k /\ j \in 2 .. n + 5 /\ Len(y) = n + 6
  BY <1>1
<1>3. y[j] # X[j]
  BY <1>1, <1>2
<1>4. ASSUME NEW i \in 1 .. n + 6, i # j PROVE y[i] = X[i]
  <2>1. i \in 1 .. k \/ (i = k + 1 /\ i = n + 6)
    OBVIOUS
  <2> QED BY <1>1, <1>4, <2>1
<1>5. ChangedAt(X, n, y, j)
  BY <1>1, <1>2, <1>3, <1>4 DEF ChangedAt
<1> QED BY <1>5, ChangedIsTrusted

ShortOf(X, n, k, l, z, j) ==
  /\ n \in {7, 11} /\ X[n + 6] = 12 /\ k \in Nat /\ k = n + 5 /\ l \in Nat /\ k = l + 1
  /\ z \in Seq(GpsChars) /\ j \in 2 .. k /\ Len(z) = l
  /\ \A i \in 1 .. l : z[i] = IF i < j THEN X[i] ELSE X[i + 1]

LEMMA LostEnds ==
  ASSUME NEW X, NEW n, NEW f, Carried(X, n, f), NEW k, NEW l, NEW z, NEW j, ShortOf(X, n, k, l, z, j), NEW y, y = Append(z, 12)
  PROVE  Trusted(y, f)
<1> USE DEF ShortOf
<1>1. /\ y \in Seq(GpsChars) /\ Len(y) = l + 1 /\ y[l + 1] = 12 /\ \A i \in 1 .. l : y[i] = z[i]
  <2>1. PICK c \in GpsChars : c = 12
    BY CharIs
  <2>2. z \in Seq(GpsChars) /\ l \in Nat /\ Len(z) = l /\ y = Append(z, c)
    BY <2>1
  <2> HIDE DEF ShortOf
  <2>3. /\ Append(z, c) \in Seq(GpsChars) /\ Len(Append(z, c)) = l + 1 /\ Append(z, c)[l + 1] = c
        /\ \A i \in 1 .. l : Append(z, c)[i] = z[i]
    BY <2>2, Appended
  <2> QED BY <2>1, <2>2, <2>3, Zenon
<1>2. j \in 2 .. n + 5 /\ Len(y) = n + 5
  BY <1>1
<1>3. ASSUME NEW i \in 1 .. n + 5 PROVE y[i] = IF i < j THEN X[i] ELSE X[i + 1]
  <2>1. CASE i \in 1 .. l
    BY <1>1, <2>1
  <2>2. CASE i = n + 5
    <3>1. i = l + 1 /\ i + 1 = n + 6 /\ ~(i < j)
      BY <2>2
    <3> QED BY <1>1, <3>1
  <2> QED BY <2>1, <2>2
<1> QED BY <1>1, <1>2, <1>3, LostIsTrusted

\* A sentence that was disturbed goes on.
LEMMA DisturbsOn ==
  ASSUME GpsTyped, GpsTyped', Fix!FixWasSent, NEW X, NEW n, NEW f, NEW k, Disturbs(X, n, f, k),
         line' = Tail(line), Fix!Reads(Head(line)), UNCHANGED <<sent, faults>>
  PROVE  (Disturbed' \/ Idling') /\ Fix!FixWasSent'
<1>1. /\ faults = 1 /\ reading /\ Sent(X, n, f) /\ k \in 2 .. n + 5 /\ Rest(X, k) /\ (Changed(X, k) \/ Lost(X, k))
      /\ Cardinality(Fixes) = got + Paid(f)
  BY DEF Disturbs
<1>2. PICK c : c = Head(line)
  OBVIOUS
<1>3. k \in 0 .. n + 5 /\ n \in {7, 11}
  BY <1>1 DEF Sent
<1>4. /\ Carried(X, n, f) /\ f \in Fix!ToSet(sent)
      /\ X \in Seq(GpsChars) /\ Len(X) = n + 6 /\ X[1] = 1 /\ X[n + 6] = 12
      /\ c = X[k + 1] /\ c \in GpsChars
      /\ k < n + 5 => c # 12 /\ Rest(X, k + 1)'
      /\ k = n + 5 => c = 12 /\ line' = <<>>
      /\ \A i \in DOMAIN line' : line'[i] # Fix!Dollar
  BY <1>1, <1>2, <1>3, Coming
<1>5. Fix!Reads(c) /\ Sent(X, n, f)' /\ Cardinality(Fixes)' = Cardinality(Fixes) /\ faults' = 1
  BY <1>1, <1>2, SameSent
<1>6. PICK z \in Seq(GpsChars), l \in Nat : z = s /\ Len(z) = l /\ (l = k \/ k = l + 1)
  <2>1. s \in Seq(GpsChars) /\ Len(s) \in Nat /\ (Len(s) = k \/ k = Len(s) + 1)
    BY <1>1, <1>3 DEF Changed, Lost, GpsTyped
  <2> QED BY <2>1, Zenon
<1>8. CASE k < n + 5
  <2>1. c # 12 /\ l <= MAX_SENTENCE_LEN
    BY <1>3, <1>4, <1>6, <1>8, LimitIs
  <2>2. AtChar(c, z, l)
    BY <1>1, <1>4, <1>5, <1>6 DEF AtChar
  <2>3. /\ reading' = TRUE /\ Len(s') = l + 1 /\ s'[l + 1] = X[k + 1] /\ \A i \in 1 .. l : s'[i] = z[i]
        /\ UNCHANGED <<fix, rc, got>>
    <3>1. Longer(c, z, l)
      BY <2>1, <2>2, InSentence
    <3> QED BY <1>4, <3>1 DEF Longer
  <2>4. Changed(X, k + 1)' \/ Lost(X, k + 1)'
    <3>1. CASE Changed(X, k)
      <4>1. PICK j \in 2 .. k : Len(z) = k /\ z[j] # X[j] /\ \A i \in 1 .. k : i # j => z[i] = X[i]
        BY <1>6, <3>1 DEF Changed
      <4>2. l = k /\ k \in Nat
        BY <1>6, <4>1
      <4> QED BY <2>3, <4>1, <4>2, ChangedMore
    <3>2. CASE Lost(X, k)
      <4>1. PICK j \in 2 .. k : Len(z) = k - 1 /\ \A i \in 1 .. k - 1 : z[i] = IF i < j THEN X[i] ELSE X[i + 1]
        BY <1>6, <3>2 DEF Lost
      <4>2. k \in Nat /\ k - 1 = l /\ k = l + 1
        BY <1>3, <1>6, <4>1
      <4>3. \A i \in 1 .. l : z[i] = IF i < j THEN X[i] ELSE X[i + 1]
        BY <4>1, <4>2
      <4>4. Len(s') = k /\ s'[k] = X[k + 1]
        BY <2>3, <4>2
      <4> QED BY <1>6, <2>3, <4>2, <4>3, <4>4, LostMore
    <3> QED BY <1>1, <3>1, <3>2
  <2>5. PICK h : h = k + 1 /\ h \in 2 .. n + 5
    BY <1>1, <1>3, <1>8
  <2>6. Cardinality(Fixes)' = got' + Paid(f)
    BY <1>1, <1>5, <2>3
  <2>7. Rest(X, h)' /\ (Changed(X, h)' \/ Lost(X, h)')
    BY <1>4, <1>8, <2>4, <2>5
  <2>8. Disturbs(X, n, f, h)'
    BY <1>5, <2>3, <2>5, <2>6, <2>7 DEF Disturbs
  <2>9. Fix!FixWasSent'
    BY <2>3, FixStays
  <2> QED BY <2>8, <2>9, Zenon DEF Disturbed
<1>9. CASE k = n + 5
  <2>1. c = 12 /\ k \in Nat
    BY <1>3, <1>4, <1>9
  <2>2. PICK y : y = Append(z, 12)
    OBVIOUS
  <2>3. Fix!EndOfSentence(y)
    <3>1. AtChar(c, z, l)
      BY <1>1, <1>4, <1>5, <1>6 DEF AtChar
    <3> QED BY <2>1, <2>2, <3>1, InSentence
  <2>4. Trusted(y, f)
    <3>1. CASE Changed(X, k)
      <4>1. PICK j \in 2 .. k : Len(z) = k /\ z[j] # X[j] /\ \A i \in 1 .. k : i # j => z[i] = X[i]
        BY <1>6, <3>1 DEF Changed
      <4> QED BY <1>3, <1>4, <1>9, <2>1, <2>2, <4>1, ChangedEnds
    <3>2. CASE Lost(X, k)
      <4>1. PICK j \in 2 .. k : Len(z) = k - 1 /\ \A i \in 1 .. k - 1 : z[i] = IF i < j THEN X[i] ELSE X[i + 1]
        BY <1>6, <3>2 DEF Lost
      <4>2. k - 1 = l /\ k = l + 1
        BY <1>3, <1>6, <4>1
      <4>3. \A i \in 1 .. l : z[i] = IF i < j THEN X[i] ELSE X[i + 1]
        BY <4>1, <4>2
      <4>4. ShortOf(X, n, k, l, z, j)
        BY <1>3, <1>4, <1>6, <1>9, <2>1, <4>2, <4>3 DEF ShortOf
      <4> QED BY <1>4, <2>2, <4>4, LostEnds
    <3> QED BY <1>1, <3>1, <3>2
  <2>5. PICK e \in 0 .. 1 : Cardinality(Fixes) = got + Paid(f) + e
    <3>1. Cardinality(Fixes) = got + Paid(f) + 0
      BY <1>1, Amounts
    <3> QED BY <3>1
  <2>6. Idling' /\ Fix!FixWasSent'
    BY <1>4, <1>5, <2>3, <2>4, <2>5, SentenceEnds
  <2> QED BY <2>6
<1>10. k < n + 5 \/ k = n + 5
  BY <1>3
<1> QED BY <1>8, <1>9, <1>10

\* The next sentence is taken for a part of this one.
LEMMA JoinsOn ==
  ASSUME GpsTyped, GpsTyped', Fix!FixWasSent, NEW X, NEW n, NEW f, NEW Y, NEW m, NEW g, NEW k, Joins(X, n, f, Y, m, g, k),
         line' = Tail(line), Fix!Reads(Head(line)), UNCHANGED <<sent, faults>>
  PROVE  (Joined' \/ Idling') /\ Fix!FixWasSent'
<1>1. /\ faults = 1 /\ reading /\ Sent(X, n, f) /\ Len(s) >= n + 5 /\ \A i \in 1 .. n + 5 : s[i] = X[i]
  BY DEF Joins, Begun
<1>2. Sent(Y, m, g) /\ k \in 0 .. m + 5 /\ Rest(Y, k) /\ Cardinality(Fixes) = got + Paid(f) + Paid(g)
  BY DEF Joins
<1>3. PICK c : c = Head(line)
  OBVIOUS
<1>4. /\ m \in {7, 11} /\ c \in GpsChars
      /\ k < m + 5 => c # 12 /\ Rest(Y, k + 1)'
      /\ k = m + 5 => c = 12 /\ line' = <<>>
      /\ \A i \in DOMAIN line' : line'[i] # Fix!Dollar
  BY <1>2, <1>3, Coming
<1>5. n \in {7, 11} /\ Carried(X, n, f) /\ f \in Fix!ToSet(sent)
  BY <1>1 DEF Sent
<1>6. /\ Fix!Reads(c) /\ Sent(X, n, f)' /\ Sent(Y, m, g)' /\ faults' = 1
      /\ Cardinality(Fixes)' = Cardinality(Fixes)
  BY <1>1, <1>2, <1>3, SameSent
<1>7. PICK z \in Seq(GpsChars), l \in Nat : z = s /\ Len(z) = l /\ l >= n + 5 /\ \A i \in 1 .. n + 5 : z[i] = X[i]
  <2>1. s \in Seq(GpsChars) /\ Len(s) \in Nat
    BY DEF GpsTyped
  <2> QED BY <1>1, <2>1, Zenon
<1>8. got \in Nat /\ Paid(f) \in 0 .. 1 /\ Paid(g) \in 0 .. 1
  BY Amounts
<1>9. \A i \in 1 .. n + 5 : i \in 1 .. l
  BY <1>5, <1>7
<1>10. AtChar(c, z, l)
  BY <1>1, <1>4, <1>6, <1>7 DEF AtChar
<1>11. CASE k < m + 5 /\ l <= MAX_SENTENCE_LEN
  <2>1. Longer(c, z, l)
    BY <1>4, <1>10, <1>11, InSentence
  <2>2. /\ reading' = TRUE /\ Len(s') = l + 1 /\ \A i \in 1 .. l : s'[i] = z[i]
        /\ UNCHANGED <<fix, rc, got>>
    BY <2>1 DEF Longer
  <2>3. Len(s') >= n + 5 /\ \A i \in 1 .. n + 5 : s'[i] = X[i]
    BY <1>5, <1>7, <1>9, <2>2
  <2>4. Begun(X, n, f)'
    BY <1>6, <2>2, <2>3 DEF Begun
  <2>5. PICK h : h = k + 1 /\ h \in 0 .. m + 5
    BY <1>2, <1>4, <1>11
  <2>6. Rest(Y, h)' /\ Cardinality(Fixes)' = got' + Paid(f) + Paid(g)
    BY <1>2, <1>4, <1>6, <1>11, <2>2, <2>5
  <2>7. Joins(X, n, f, Y, m, g, h)'
    BY <1>6, <2>4, <2>5, <2>6 DEF Joins
  <2>8. Fix!FixWasSent'
    BY <2>2, FixStays
  <2>9. Joined'
    BY <2>7, ZenonT(30) DEF Joined
  <2> QED BY <2>8, <2>9
<1>12. CASE k < m + 5 /\ l > MAX_SENTENCE_LEN
  <2>2. reading' = FALSE /\ rc' = 1 /\ got' = got
    BY <1>4, <1>10, <1>12, InSentence
  <2>3. PICK d \in 0 .. 2 * faults' : Cardinality(Fixes) = got' + d
    <3>1. Paid(f) + Paid(g) \in 0 .. 2 /\ Cardinality(Fixes) = got + (Paid(f) + Paid(g))
      BY <1>2, <1>8
    <3> QED BY <1>6, <2>2, <3>1
  <2>4. Idling'
    BY <1>4, <1>6, <2>2, <2>3, IdleAgain
  <2>5. Fix!FixWasSent'
    BY <2>2, FixStays
  <2> QED BY <2>4, <2>5
<1>13. CASE k = m + 5
  <2>1. PICK y : y = Append(z, c)
    OBVIOUS
  <2>3. Fix!EndOfSentence(y)
    BY <1>4, <1>10, <1>13, <2>1, InSentence
  <2>4. Len(y) = l + 1 /\ \A i \in 1 .. l : y[i] = z[i]
    BY <1>4, <1>7, <2>1, Appended
  <2>5. PICK r \in Nat : r = l + 1 /\ Len(y) = r /\ r >= n + 1 /\ \A i \in 1 .. n + 1 : y[i] = X[i]
    <3>1. \A i \in 1 .. n + 1 : i \in 1 .. n + 5
      BY <1>5
    <3>2. l + 1 \in Nat /\ l + 1 >= n + 1
      BY <1>5, <1>7
    <3> QED BY <1>7, <1>9, <2>4, <3>1, <3>2
  <2>6. Trusted(y, f)
    BY <1>5, <2>5, TrustedBegin
  <2>7. PICK e \in 0 .. 1 : Cardinality(Fixes) = got + Paid(f) + e
    BY <1>2, <1>8
  <2>8. Idling' /\ Fix!FixWasSent'
    BY <1>4, <1>5, <1>6, <2>3, <2>6, <2>7, SentenceEnds
  <2> QED BY <2>8
<1>14. \/ k < m + 5 /\ l <= MAX_SENTENCE_LEN
       \/ k < m + 5 /\ l > MAX_SENTENCE_LEN
       \/ k = m + 5
  BY <1>2, <1>4, <1>7, LimitIs
<1> QED BY <1>11, <1>12, <1>13, <1>14

\* What comes does not begin a sentence.
LEMMA IdlesOn ==
  ASSUME GpsTyped, Fix!FixWasSent, Idling, line # <<>>, line' = Tail(line), Fix!Reads(Head(line)), UNCHANGED <<sent, faults>>
  PROVE  Idling' /\ Fix!FixWasSent'
<1>1. PICK l \in Nat : line \in Seq(GpsChars) /\ Len(line) = l /\ l > 0
  BY DEF GpsTyped
<1>2. /\ Head(line) = line[1] /\ Len(line') = l - 1 /\ DOMAIN line' = 1 .. l - 1 /\ \A i \in 1 .. l - 1 : line'[i] = line[i + 1]
  BY <1>1, HeadTailProperties
<1>3. ~reading /\ (\A i \in 1 .. l : line[i] # 1) /\ faults = 1 /\ \E d \in 0 .. 2 * faults : Cardinality(Fixes) = got + d
  <2>1. faults \in 0 .. 1
    BY DEF GpsTyped
  <2>2. faults = 1
    BY <2>1 DEF Idling
  <2>3. DOMAIN line = 1 .. l
    BY <1>1
  <2> QED BY <2>2, <2>3, CharCodes DEF Idling
<1>4. Head(line) # 1
  BY <1>1, <1>2, <1>3
<1>5. UNCHANGED <<reading, s, fix, rc, got>>
  BY <1>3, <1>4, ReadsIs
<1>6. ASSUME NEW i \in DOMAIN line' PROVE line'[i] # Fix!Dollar
  <2>1. i \in 1 .. l - 1 /\ i + 1 \in 1 .. l
    BY <1>1, <1>2
  <2> QED BY <1>2, <1>3, <2>1, CharCodes
<1>7. PICK d \in 0 .. 2 * faults' : Cardinality(Fixes) = got' + d
  BY <1>3, <1>5
<1>8. reading' = FALSE /\ faults' = 1
  BY <1>3, <1>5 DEF GpsTyped
<1>9. Idling'
  BY <1>6, <1>7, <1>8, IdleAgain
<1>10. Fix!FixWasSent'
  BY <1>5, FixStays
<1> QED BY <1>9, <1>10

\* A sentence is sent.
LEMMA SendKeeps ==
  ASSUME GpsTyped, GpsTyped', Fix!FixWasSent, States, Fix!GpsSends
  PROVE  States' /\ Fix!FixWasSent'
<1>1. line = <<>> /\ UNCHANGED <<reading, s, fix, rc, faults, got>>
  BY DEF Fix!GpsSends
<1>2. PICK n, g : /\ n \in {7, 11} /\ g \in [valid : BOOLEAN, latitude : Nat, speed : Nat]
                  /\ Carried(line', n, g) /\ sent' = Append(sent, g)
  BY SendIs
<1>3. /\ Cardinality(Fixes)' = Cardinality(Fixes) + Paid(g)
      /\ g \in Fix!ToSet(sent') /\ \A e \in Fix!ToSet(sent) : e \in Fix!ToSet(sent')
  BY <1>2, MoreSent
<1>4. Fix!FixWasSent'
  BY <1>1, <1>3 DEF Fix!FixWasSent
<1>5. PICK Y : Y = line'
  OBVIOUS
<1>6. Sent(Y, n, g)' /\ Len(Y) = n + 6
  BY <1>2, <1>3, <1>5 DEF Sent, Carried, IsSentence
<1>7. Rest(Y, 0)' /\ 0 \in 0 .. n + 5
  <2>1. Len(Y) - 0 = n + 6 /\ \A i \in 1 .. n + 6 : 0 + i = i
    BY <1>2, <1>6
  <2>2. Len(line') = Len(Y) - 0 /\ \A i \in 1 .. Len(Y) - 0 : line'[i] = Y[0 + i]
    BY <1>2, <1>5, <1>6, <2>1
  <2> QED BY <1>2, <2>2 DEF Rest
<1>8. PICK m, e, p \in Nat : m = Cardinality(Fixes) /\ e = got /\ p = Paid(g) /\ \A h : Paid(h) \in 0 .. 1
  BY Amounts
<1>9. CASE Idling
  <2>1. ~reading
    BY <1>9 DEF Idling
  <2>2. PICK d \in 0 .. 2 * faults : m = e + d
    BY <1>8, <1>9 DEF Idling
  <2>3. faults \in 0 .. 1 /\ d \in Nat
    BY <2>2 DEF GpsTyped
  <2>4. m + p = e + p + d
    BY <1>8, <2>2, <2>3
  <2>5. Cardinality(Fixes)' = got' + Paid(g) + d /\ d \in 0 .. 2 * faults'
    BY <1>1, <1>3, <1>8, <2>4
  <2>6. Follows(Y, n, g, 0)'
    BY <1>1, <1>6, <1>7, <2>1, <2>5 DEF Follows
  <2> QED BY <1>4, <2>6, Zenon DEF Following, States
<1>10. ASSUME NEW X, NEW q, NEW f, Awaits(X, q, f) PROVE Joined'
  <2>1. Begun(X, q, f) /\ m = e + Paid(f)
    BY <1>8, <1>10 DEF Awaits
  <2>2. /\ faults' = 1 /\ reading' /\ Len(s') >= q + 5 /\ (\A i \in 1 .. q + 5 : s'[i] = X[i])
        /\ Sent(X, q, f)
    BY <1>1, <2>1 DEF Begun
  <2>3. Sent(X, q, f)'
    BY <1>3, <2>2 DEF Sent
  <2>4. Begun(X, q, f)'
    BY <2>2, <2>3 DEF Begun
  <2>5. m + p = e + Paid(f) + p
    BY <1>8, <2>1
  <2>6. Cardinality(Fixes)' = got' + Paid(f) + Paid(g)
    BY <1>1, <1>3, <1>8, <2>5
  <2>7. Joins(X, q, f, Y, n, g, 0)'
    BY <1>6, <1>7, <2>4, <2>6 DEF Joins
  <2> QED BY <2>7, ZenonT(30) DEF Joined
<1>11. \A X, q, f, k : ~Follows(X, q, f, k)
  BY <1>1, Unread DEF Follows
<1>12. \A X, q, f, k : ~Disturbs(X, q, f, k)
  <2> SUFFICES ASSUME NEW X, NEW q, NEW f, NEW k, Disturbs(X, q, f, k) PROVE FALSE
    OBVIOUS
  <2>1. Sent(X, q, f) /\ Rest(X, k) /\ k \in 0 .. q + 5
    BY DEF Disturbs, Sent
  <2> QED BY <1>1, <2>1, Unread
<1>13. \A X, q, f, Z, r, h, k : ~Joins(X, q, f, Z, r, h, k)
  BY <1>1, Unread DEF Joins
<1>14. Idling \/ \E X, q, f : Awaits(X, q, f)
  BY <1>11, <1>12, <1>13, ZenonT(30) DEF States, Following, Disturbed, Joined
<1>15. ASSUME \E X, q, f : Awaits(X, q, f) PROVE Joined'
  BY <1>10, <1>15, Zenon
<1> QED BY <1>4, <1>9, <1>14, <1>15, Zenon DEF States

LEMMA ComesKeeps ==
  ASSUME GpsTyped, GpsTyped', Fix!FixWasSent, States, Fix!CharComes
  PROVE  States' /\ Fix!FixWasSent'
<1>1. line # <<>> /\ line' = Tail(line) /\ Fix!Reads(Head(line)) /\ UNCHANGED <<sent, faults>>
  BY DEF Fix!CharComes
<1>2. ASSUME Idling PROVE Idling' /\ Fix!FixWasSent'
  BY <1>1, <1>2, IdlesOn
<1>3. ASSUME NEW X, NEW n, NEW f, NEW k, Follows(X, n, f, k) PROVE (Following' \/ Idling') /\ Fix!FixWasSent'
  BY <1>1, <1>3, FollowsOn
<1>4. ASSUME NEW X, NEW n, NEW f, NEW k, Disturbs(X, n, f, k) PROVE (Disturbed' \/ Idling') /\ Fix!FixWasSent'
  BY <1>1, <1>4, DisturbsOn
<1>5. ASSUME NEW X, NEW n, NEW f, NEW Y, NEW m, NEW g, NEW k, Joins(X, n, f, Y, m, g, k)
      PROVE  (Joined' \/ Idling') /\ Fix!FixWasSent'
  BY <1>1, <1>5, JoinsOn
<1>6. \A X, n, f : ~Awaits(X, n, f)
  BY <1>1 DEF Awaits
<1>7. CASE Following
  BY <1>3, <1>7, Zenon DEF Following, States
<1>8. CASE Disturbed
  BY <1>4, <1>8, Zenon DEF Disturbed, States
<1>9. CASE Joined
  <2>1. PICK X, n, f, Y, m, g, k : Joins(X, n, f, Y, m, g, k)
    BY <1>6, <1>9, Zenon DEF Joined
  <2> QED BY <1>5, <2>1 DEF States
<1> QED BY <1>2, <1>7, <1>8, <1>9, Zenon DEF States

\* A character is lost: the sentence is not seen, or is short of it, or has lost its end.
LEMMA LostKeeps ==
  ASSUME MaxFaults <= 1, GpsTyped, GpsTyped', Fix!FixWasSent, States, Fix!CharLost
  PROVE  States' /\ Fix!FixWasSent'
<1>1. /\ line # <<>> /\ line' = Tail(line) /\ faults = 0 /\ faults' = 1
      /\ UNCHANGED <<reading, s, fix, rc, sent, got>>
  BY GpsAssumed DEF Fix!CharLost, GpsTyped, Fix!GpsAssumption
<1>2. Fix!FixWasSent'
  BY <1>1, FixStays
<1>3. PICK X, n, f, k : Follows(X, n, f, k)
  <2>1. ~Idling /\ ~Disturbed /\ ~Joined
    BY <1>1 DEF Idling, Disturbed, Disturbs, Joined, Awaits, Joins, Begun
  <2> QED BY <2>1, Zenon DEF States, Following
<1>4. /\ Sent(X, n, f) /\ k \in 0 .. n + 5 /\ Rest(X, k)
      /\ \E d \in 0 .. 2 * faults : Cardinality(Fixes) = got + Paid(f) + d
      /\ k = 0 => ~reading
      /\ k > 0 => reading /\ Len(s) = k /\ \A i \in 1 .. k : s[i] = X[i]
  BY <1>3 DEF Follows
<1>5. /\ n \in {7, 11}
      /\ k < n + 5 => Rest(X, k + 1)'
      /\ k = n + 5 => line' = <<>>
      /\ \A i \in DOMAIN line' : line'[i] # Fix!Dollar
  BY <1>1, <1>4, Coming
<1>6. Sent(X, n, f)' /\ Cardinality(Fixes)' = Cardinality(Fixes)
  BY <1>1, <1>4, SameSent
<1>7. Cardinality(Fixes) = got + Paid(f)
  BY <1>1, <1>4, Amounts
<1>8. CASE k = 0
  <2>1. reading' = FALSE
    BY <1>1, <1>4, <1>8 DEF GpsTyped
  <2>2. PICK d \in 0 .. 2 * faults' : Cardinality(Fixes) = got' + d
    BY <1>1, <1>7, Amounts
  <2>3. Idling'
    BY <1>1, <1>5, <2>1, <2>2, IdleAgain
  <2> QED BY <1>2, <2>3 DEF States
<1>9. CASE k = n + 5
  <2>1. reading' /\ Len(s') = k /\ (\A i \in 1 .. k : s'[i] = X[i]) /\ line' = <<>> /\ k > 0
    BY <1>1, <1>4, <1>5, <1>9
  <2>2. Len(s') >= n + 5 /\ \A i \in 1 .. n + 5 : s'[i] = X[i]
    BY <1>5, <1>9, <2>1
  <2>3. Begun(X, n, f)'
    BY <1>1, <1>6, <2>1, <2>2 DEF Begun
  <2>4. Awaits(X, n, f)'
    BY <1>1, <1>6, <1>7, <2>1, <2>3 DEF Awaits
  <2> QED BY <1>2, <2>4, Zenon DEF Joined, States
<1>10. CASE k > 0 /\ k < n + 5
  <2>1. PICK h : h = k + 1 /\ h \in 2 .. n + 5 /\ h - 1 = k /\ h \in 2 .. h /\ \A i \in 1 .. k : i < h
    BY <1>4, <1>5, <1>10
  <2>2. reading' /\ Len(s') = h - 1 /\ \A i \in 1 .. h - 1 : s'[i] = X[i]
    BY <1>1, <1>4, <1>10, <2>1
  <2>3. Lost(X, h)'
    <3>1. \A i \in 1 .. h - 1 : s'[i] = IF i < h THEN X[i] ELSE X[i + 1]
      BY <2>1, <2>2
    <3> QED BY <2>1, <2>2, <3>1, Zenon DEF Lost
  <2>4. Rest(X, h)'
    BY <1>5, <1>10, <2>1
  <2>5. Disturbs(X, n, f, h)'
    BY <1>1, <1>6, <1>7, <2>1, <2>2, <2>3, <2>4 DEF Disturbs
  <2> QED BY <1>2, <2>5, Zenon DEF Disturbed, States
<1>11. k = 0 \/ k = n + 5 \/ (k > 0 /\ k < n + 5)
  BY <1>4, <1>5
<1> QED BY <1>8, <1>9, <1>10, <1>11

\* A character is another one.
LEMMA ChangedKeeps ==
  ASSUME MaxFaults <= 1, GpsTyped, GpsTyped', Fix!FixWasSent, States, Fix!CharChanged
  PROVE  States' /\ Fix!FixWasSent'
<1>1. line # <<>> /\ line' = Tail(line) /\ faults = 0 /\ faults' = 1 /\ UNCHANGED sent
  BY GpsAssumed DEF Fix!CharChanged, GpsTyped, Fix!GpsAssumption
<1>2. PICK c \in {1, 2, 19, 12} : c # Head(line) /\ Fix!Reads(c)
  BY CharCodes DEF Fix!CharChanged
<1>3. PICK X, n, f, k : Follows(X, n, f, k)
  <2>1. ~Idling /\ ~Disturbed /\ ~Joined
    BY <1>1 DEF Idling, Disturbed, Disturbs, Joined, Awaits, Joins, Begun
  <2> QED BY <2>1, Zenon DEF States, Following
<1>4. /\ Sent(X, n, f) /\ k \in 0 .. n + 5 /\ Rest(X, k)
      /\ \E d \in 0 .. 2 * faults : Cardinality(Fixes) = got + Paid(f) + d
      /\ k = 0 => ~reading
      /\ k > 0 => reading /\ Len(s) = k /\ \A i \in 1 .. k : s[i] = X[i]
  BY <1>3 DEF Follows
<1>5. /\ n \in {7, 11} /\ Carried(X, n, f) /\ f \in Fix!ToSet(sent) /\ X[1] = 1
      /\ Head(line) = X[k + 1]
      /\ k < n + 5 => Rest(X, k + 1)'
      /\ k = n + 5 => line' = <<>> /\ Head(line) = 12
      /\ \A i \in DOMAIN line' : line'[i] # Fix!Dollar
  BY <1>1, <1>4, Coming
<1>6. Sent(X, n, f)' /\ Cardinality(Fixes)' = Cardinality(Fixes)
  BY <1>1, <1>4, SameSent
<1>7. Cardinality(Fixes) = got + Paid(f) /\ got \in Nat /\ Paid(f) \in 0 .. 1
  BY <1>1, <1>4, Amounts
<1>8. c \in GpsChars
  BY <1>2, CharIs
<1>9. CASE k = 0
  <2>1. ~reading /\ c # 1
    BY <1>2, <1>4, <1>5, <1>9
  <2>2. UNCHANGED <<reading, s, fix, rc, got>>
    BY <1>2, <2>1, ReadsIs
  <2>3. PICK d \in 0 .. 2 * faults' : Cardinality(Fixes) = got' + d
    BY <1>1, <1>7, <2>2
  <2>4. reading' = FALSE
    BY <2>1, <2>2 DEF GpsTyped
  <2>5. Idling'
    BY <1>1, <1>5, <2>3, <2>4, IdleAgain
  <2>6. Fix!FixWasSent'
    BY <1>1, <2>2, FixStays
  <2> QED BY <2>5, <2>6 DEF States
<1>10. CASE k > 0
  <2>1. PICK z \in Seq(GpsChars) : z = s /\ Len(z) = k /\ (\A i \in 1 .. k : z[i] = X[i]) /\ reading
    BY <1>4, <1>10 DEF GpsTyped
  <2>2. k \in Nat /\ k \in 1 .. n + 5
    BY <1>4, <1>5, <1>10
  <2>3. AtChar(c, z, k)
    BY <1>2, <1>8, <2>1, <2>2 DEF AtChar
  <2>4. CASE c = 12
    <3>1. PICK y : y = Append(z, c)
      OBVIOUS
    <3>2. Fix!EndOfSentence(y)
      BY <2>3, <2>4, <3>1, InSentence
    <3>3. /\ y \in Seq(GpsChars) /\ Len(y) = k + 1 /\ y[k + 1] = Fix!LF /\ \A i \in 1 .. k : y[i] = X[i]
      <4>1. /\ y \in Seq(GpsChars) /\ Len(y) = k + 1 /\ y[k + 1] = c /\ \A i \in 1 .. k : y[i] = z[i]
        BY <1>8, <2>1, <2>2, <3>1, Appended
      <4> QED BY <2>1, <2>4, <4>1, CharCodes
    <3>4. Trusted(y, f)
      BY <1>5, <2>2, <3>3, EarlyIsTrusted
    <3>5. PICK e \in 0 .. 1 : Cardinality(Fixes) = got + Paid(f) + e
      <4>1. Cardinality(Fixes) = got + Paid(f) + 0
        BY <1>7
      <4> QED BY <4>1
    <3>6. Idling' /\ Fix!FixWasSent'
      BY <1>1, <1>5, <3>2, <3>4, <3>5, SentenceEnds
    <3> QED BY <3>6 DEF States
  <2>5. CASE c # 12 /\ k < n + 5
    <3>1. k <= MAX_SENTENCE_LEN
      BY <1>5, <2>2, <2>5, LimitIs
    <3>2. Longer(c, z, k)
      BY <2>3, <2>5, <3>1, InSentence
    <3>3. /\ reading' = TRUE /\ Len(s') = k + 1 /\ s'[k + 1] = c /\ \A i \in 1 .. k : s'[i] = z[i]
          /\ UNCHANGED <<fix, rc, got>>
      BY <3>2 DEF Longer
    <3>4. PICK h : h = k + 1 /\ h \in 2 .. n + 5 /\ h \in 2 .. h /\ \A i \in 1 .. h : i # h => i \in 1 .. k
      BY <1>5, <2>2, <2>5
    <3>5. Changed(X, h)'
      <4>1. Len(s') = h /\ s'[h] # X[h] /\ \A i \in 1 .. h : i # h => s'[i] = X[i]
        BY <1>2, <1>5, <2>1, <3>3, <3>4
      <4> QED BY <3>4, <4>1, Zenon DEF Changed
    <3>6. Rest(X, h)' /\ Cardinality(Fixes)' = got' + Paid(f)
      BY <1>5, <1>6, <1>7, <2>5, <3>3, <3>4
    <3>7. Disturbs(X, n, f, h)'
      BY <1>1, <1>6, <3>3, <3>4, <3>5, <3>6 DEF Disturbs
    <3>8. Fix!FixWasSent'
      BY <1>1, <3>3, FixStays
    <3> QED BY <3>7, <3>8, Zenon DEF Disturbed, States
  <2>6. CASE c # 12 /\ k = n + 5 /\ k <= MAX_SENTENCE_LEN
    <3>1. Longer(c, z, k)
      BY <2>3, <2>6, InSentence
    <3>2. /\ reading' = TRUE /\ Len(s') = k + 1 /\ \A i \in 1 .. k : s'[i] = z[i]
          /\ UNCHANGED <<fix, rc, got>>
      BY <3>1 DEF Longer
    <3>3. Len(s') >= n + 5 /\ \A i \in 1 .. n + 5 : s'[i] = X[i]
      BY <1>5, <2>1, <2>2, <2>6, <3>2
    <3>4. Begun(X, n, f)'
      BY <1>1, <1>6, <3>2, <3>3 DEF Begun
    <3>5. line' = <<>> /\ Cardinality(Fixes)' = got' + Paid(f)
      BY <1>5, <1>6, <1>7, <2>6, <3>2
    <3>6. Awaits(X, n, f)'
      BY <3>4, <3>5 DEF Awaits
    <3>7. Fix!FixWasSent'
      BY <1>1, <3>2, FixStays
    <3> QED BY <3>6, <3>7, Zenon DEF Joined, States
  <2>7. CASE c # 12 /\ k = n + 5 /\ k > MAX_SENTENCE_LEN
    <3>1. reading' = FALSE /\ rc' = 1 /\ got' = got
      BY <2>3, <2>7, InSentence
    <3>2. PICK d \in 0 .. 2 * faults' : Cardinality(Fixes) = got' + d
      BY <1>1, <1>7, <3>1
    <3>3. Idling'
      BY <1>1, <1>5, <3>1, <3>2, IdleAgain
    <3>4. Fix!FixWasSent'
      BY <1>1, <3>1, FixStays
    <3> QED BY <3>3, <3>4 DEF States
  <2>8. k < n + 5 \/ (k = n + 5 /\ k <= MAX_SENTENCE_LEN) \/ (k = n + 5 /\ k > MAX_SENTENCE_LEN)
    BY <1>5, <2>2, LimitIs
  <2> QED BY <2>4, <2>5, <2>6, <2>7, <2>8
<1>11. k = 0 \/ k > 0
  BY <1>4, <1>5
<1> QED BY <1>9, <1>10, <1>11

LEMMA GpsInitially ==
  ASSUME Fix!Init
  PROVE  GpsInv
<1>1. /\ line = <<>> /\ reading = FALSE /\ s = <<>> /\ fix = Fix!NoFix /\ rc = 2
      /\ sent = <<>> /\ faults = 0 /\ got = 0
  BY DEF Fix!Init
<1>2. GpsTyped
  <2>1. MaxFaults \in Nat /\ MAX_SENTENCE_LEN \in Nat
    BY GpsAssumed DEF Fix!GpsAssumption
  <2>2. /\ line \in Seq(GpsChars) /\ s \in Seq(GpsChars) /\ Len(s) = 0
        /\ sent \in Seq([valid : BOOLEAN, latitude : Nat, speed : Nat])
    BY <1>1, EmptySeq, Zenon
  <2>3. /\ 0 <= MAX_SENTENCE_LEN + 1 /\ 2 \in 0 .. 2 /\ 0 \in 0 .. 1 /\ 0 <= MaxFaults /\ 0 \in Nat
    BY <2>1
  <2> QED BY <1>1, <2>2, <2>3 DEF GpsTyped
<1>3. Cardinality(Fixes) = 0
  <2>1. Cardinality(Fixes) \in 0 .. Len(sent) /\ Len(sent) = 0
    BY <1>1, <1>2, FixesAre
  <2> QED BY <2>1
<1>4. Idling
  <2>1. DOMAIN line = {}
    BY <1>1
  <2>2. 0 \in 0 .. 2 * faults /\ Cardinality(Fixes) = got + 0
    BY <1>1, <1>3
  <2> QED BY <1>1, <2>1, <2>2 DEF Idling
<1>5. Fix!FixWasSent
  BY <1>1 DEF Fix!FixWasSent
<1> QED BY <1>2, <1>4, <1>5 DEF GpsInv

LEMMA GpsSame ==
  ASSUME GpsInv, UNCHANGED gpsVars
  PROVE  GpsInv'
<1>1. UNCHANGED <<line, reading, s, fix, rc, sent, faults, got>>
  BY DEF gpsVars
<1>2. GpsTyped'
  BY <1>1 DEF GpsInv, GpsTyped
<1>3. Fix!FixWasSent'
  BY <1>1, FixStays DEF GpsInv
<1>4. /\ Cardinality(Fixes)' = Cardinality(Fixes)
      /\ \A X, n, f : Sent(X, n, f) => Sent(X, n, f)'
  BY <1>1, SameSent
<1>5. /\ \A X, k : Rest(X, k) => Rest(X, k)'
      /\ \A X, k : Changed(X, k) => Changed(X, k)'
      /\ \A X, k : Lost(X, k) => Lost(X, k)'
  BY <1>1, Zenon DEF Rest, Changed, Lost
<1>6. \A X, n, f : Begun(X, n, f) => Begun(X, n, f)'
  BY <1>1, <1>4, Zenon DEF Begun
<1>7. Idling => Idling'
  BY <1>1, <1>4, Zenon DEF Idling
<1>8. ASSUME NEW X, NEW n, NEW f, NEW k, Follows(X, n, f, k) PROVE Follows(X, n, f, k)'
  BY <1>1, <1>4, <1>5, <1>8, Zenon DEF Follows
<1>9. ASSUME NEW X, NEW n, NEW f, NEW k, Disturbs(X, n, f, k) PROVE Disturbs(X, n, f, k)'
  BY <1>1, <1>4, <1>5, <1>9, Zenon DEF Disturbs
<1>10. ASSUME NEW X, NEW n, NEW f, Awaits(X, n, f) PROVE Awaits(X, n, f)'
  BY <1>1, <1>4, <1>6, <1>10, Zenon DEF Awaits
<1>11. ASSUME NEW X, NEW n, NEW f, NEW Y, NEW m, NEW g, NEW k, Joins(X, n, f, Y, m, g, k)
       PROVE  Joins(X, n, f, Y, m, g, k)'
  BY <1>1, <1>4, <1>5, <1>6, <1>11, Zenon DEF Joins
<1>12. Following => Following'
  BY <1>8, Zenon DEF Following
<1>13. Disturbed => Disturbed'
  BY <1>9, Zenon DEF Disturbed
<1>14. ASSUME \E X, n, f : Awaits(X, n, f) PROVE Joined'
  <2>1. PICK X, n, f : Awaits(X, n, f)
    BY <1>14
  <2>2. Awaits(X, n, f)'
    BY <1>10, <2>1
  <2> QED BY <2>2, ZenonT(30) DEF Joined
<1>15. ASSUME \E X, n, f, Y, m, g, k : Joins(X, n, f, Y, m, g, k) PROVE Joined'
  <2>1. PICK X, n, f, Y, m, g, k : Joins(X, n, f, Y, m, g, k)
    BY <1>15, Zenon
  <2>2. Joins(X, n, f, Y, m, g, k)'
    BY <1>11, <2>1
  <2> QED BY <2>2, ZenonT(30) DEF Joined
<1>16. Joined => Joined'
  BY <1>14, <1>15, Zenon DEF Joined
<1> QED BY <1>2, <1>3, <1>7, <1>12, <1>13, <1>16, Zenon DEF GpsInv

LEMMA GpsStep ==
  ASSUME MaxFaults <= 1, GpsInv, Fix!Next
  PROVE  GpsInv'
<1>1. GpsTyped /\ Fix!FixWasSent /\ States
  BY Zenon DEF GpsInv, States
<1>2. GpsTyped'
  BY <1>1, GpsTypes
<1>3. CASE Fix!GpsSends
  BY <1>1, <1>2, <1>3, SendKeeps, Zenon DEF GpsInv, States
<1>4. CASE Fix!CharComes
  BY <1>1, <1>2, <1>4, ComesKeeps, Zenon DEF GpsInv, States
<1>5. CASE Fix!CharLost
  BY <1>1, <1>2, <1>5, LostKeeps, Zenon DEF GpsInv, States
<1>6. CASE Fix!CharChanged
  BY <1>1, <1>2, <1>6, ChangedKeeps, Zenon DEF GpsInv, States
<1> QED BY <1>3, <1>4, <1>5, <1>6 DEF Fix!Next

\* A fix that gps_get_fix returns was sent, all of it, and a character that is
\* lost or changed costs at most two sentences (gps.c:163-222): for every length
\* of the buffer that a sentence fits in, any latitudes and as many sentences as
\* are sent, with one such fault.  Two changed characters can cancel each other
\* in an exclusive or.
THEOREM FixesAreTrue == ASSUME MaxFaults <= 1 PROVE UnitSpec => []FixesTrue
<1>1. UnitInit => GpsInv
  BY GpsInitially DEF UnitInit
<1>2. ASSUME GpsInv, [UnitNext]_<<unit, vars, wheelVars, beatVars, displayVars, gpsVars, ecuVars, regVars>>
      PROVE  GpsInv'
  <2>1. Fix!Next \/ UNCHANGED gpsVars
    BY <1>2, Zenon DEF UnitNext
  <2> QED BY <1>2, <2>1, GpsStep, GpsSame
<1>3. GpsInv => FixesTrue
  BY GpsImplies
<1> QED BY <1>1, <1>2, <1>3, PTL DEF UnitSpec

=============================================================================
