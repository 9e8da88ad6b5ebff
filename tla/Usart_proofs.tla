---------------------------- MODULE Usart_proofs ----------------------------
(***************************************************************************)
(* The byte ring and the two halves of the USART driver, for every size of *)
(* the rings and every number of bytes.  Sending: no byte is lost, no      *)
(* wake-up of the interrupt is missed, and the sender is a line that keeps *)
(* the order of the bytes.  Receiving: getc returns only what arrived, and *)
(* all of it, in order, until the ring overflows.  A ring used by one      *)
(* caller at a time is a queue that drops its oldest byte.                 *)
(***************************************************************************)
EXTENDS MCUsart, RingBuffer_proofs

-----------------------------------------------------------------------------
(* The sending half.                                                       *)

\* What putbyte knows at each of its steps.  The interrupt only takes bytes, so
\* a ring that was found not full stays so, and one that became empty between
\* the end's move and the test stays empty until putbyte moves the start.
TxAtStep ==
  /\ pc \in {"wait", "store", "advance"} => put < MaxPuts
  /\ pc \in {"store", "advance"} => ~IsFull(rb)
  /\ pc = "advance" => rb.slots[rb.end] = put + 1
  /\ pc = "overwrite" => IsEmpty(rb)

\* Bytes wait with the interrupt disabled only while putbyte is about to enable it.
WakeupDue == ~IsEmpty(rb) => udrie \/ pc \in {"test", "overwrite", "enable"}

TxInv == TypeOK /\ TxAtStep /\ WakeupDue /\ NothingLost

-----------------------------------------------------------------------------
\* The elements of a sequence from which the head is taken, or to which a byte
\* is added.
LEMMA ElementsMove ==
  ASSUME NEW S, NEW q \in Seq(S), NEW b \in S
  PROVE  /\ Elements(Append(q, b)) = Elements(q) \cup {b}
         /\ q # <<>> => Elements(q) = {Head(q)} \cup Elements(Tail(q))
<1>1. /\ Len(q) \in Nat /\ Len(Append(q, b)) = Len(q) + 1
      /\ \A i \in 1 .. Len(q) : Append(q, b)[i] = q[i]
      /\ Append(q, b)[Len(q) + 1] = b
  OBVIOUS
<1>2. Elements(Append(q, b)) = Elements(q) \cup {b}
  <2>1. ASSUME NEW x \in Elements(Append(q, b)) PROVE x \in Elements(q) \cup {b}
    <3>1. PICK i \in 1 .. Len(q) + 1 : x = Append(q, b)[i]
      BY <1>1 DEF Elements
    <3> QED BY <1>1, <3>1 DEF Elements
  <2>2. ASSUME NEW x \in Elements(q) PROVE x \in Elements(Append(q, b))
    <3>1. PICK i \in 1 .. Len(q) : x = q[i]
      BY DEF Elements
    <3>2. i \in 1 .. Len(Append(q, b)) /\ x = Append(q, b)[i]
      BY <1>1, <3>1
    <3> QED BY <3>2 DEF Elements
  <2>3. b \in Elements(Append(q, b))
    <3>1. Len(q) + 1 \in 1 .. Len(Append(q, b))
      BY <1>1
    <3> QED BY <1>1, <3>1 DEF Elements
  <2> QED BY <2>1, <2>2, <2>3
<1>3. ASSUME q # <<>> PROVE Elements(q) = {Head(q)} \cup Elements(Tail(q))
  <2>1. /\ Len(q) > 0 /\ Head(q) = q[1] /\ Len(Tail(q)) = Len(q) - 1
        /\ \A i \in 1 .. Len(q) - 1 : Tail(q)[i] = q[i + 1]
    BY <1>1, <1>3, HeadTailProperties, EmptySeq
  <2>2. ASSUME NEW x \in Elements(q) PROVE x \in {Head(q)} \cup Elements(Tail(q))
    <3>1. PICK i \in 1 .. Len(q) : x = q[i]
      BY DEF Elements
    <3>2. CASE i = 1
      BY <2>1, <3>1, <3>2
    <3>3. CASE i # 1
      <4>1. i - 1 \in 1 .. Len(Tail(q)) /\ x = Tail(q)[i - 1]
        BY <1>1, <2>1, <3>1, <3>3
      <4> QED BY <4>1 DEF Elements
    <3> QED BY <3>2, <3>3
  <2>3. ASSUME NEW x \in {Head(q)} \cup Elements(Tail(q)) PROVE x \in Elements(q)
    <3>1. CASE x = Head(q)
      <4>1. 1 \in 1 .. Len(q) /\ x = q[1]
        BY <1>1, <2>1, <3>1
      <4> QED BY <4>1 DEF Elements
    <3>2. CASE x \in Elements(Tail(q))
      <4>1. PICK i \in 1 .. Len(Tail(q)) : x = Tail(q)[i]
        BY <3>2 DEF Elements
      <4>2. i + 1 \in 1 .. Len(q) /\ x = q[i + 1]
        BY <1>1, <2>1, <4>1
      <4> QED BY <4>2 DEF Elements
    <3> QED BY <3>1, <3>2
  <2> QED BY <2>2, <2>3
<1> QED BY <1>2, <1>3

\* A ring with equal indices has no pending bytes.
LEMMA EmptyPending ==
  ASSUME NEW r \in Ring, IsEmpty(r)
  PROVE  Pending(r) = <<>> /\ Elements(Pending(r)) = {}
<1>1. Pending(r) \in Seq(Byte \cup {Unset}) /\ Len(Pending(r)) = 0
  BY PendingBytes
<1> QED BY <1>1, EmptySeq DEF Elements

\* A pop never makes a ring full.
LEMMA PopNotFull ==
  ASSUME NEW r \in Ring, ~IsEmpty(r)
  PROVE  ~IsFull(Pop(r))
<1>1. r.start \in Index /\ r.end \in Index /\ r.start # r.end
  BY DEF Ring, IsEmpty
<1>2. /\ NextIndex(r.end) = Succ(r.end) /\ NextIndex(r.start) = Succ(r.start)
      /\ Succ(r.end) # Succ(r.start)
  BY <1>1, NextIndexType, SizeAssumption DEF Succ, Index
<1> QED BY <1>2 DEF IsFull, Pop, Ring

-----------------------------------------------------------------------------
LEMMA TxInitHolds == Init => TxInv
<1> SUFFICES ASSUME Init PROVE TxInv
  OBVIOUS
<1>1. rb \in Ring /\ IsEmpty(rb)
  BY SizeAssumption DEF Init, EmptyRing, Ring, Index, IsEmpty
<1>2. TypeOK
  <2>1. wire \in Seq(Byte \cup {Unset}) /\ put \in 0 .. MaxPuts /\ udrie \in BOOLEAN
    <3>1. <<>> \in Seq(Byte \cup {Unset})
      BY EmptySeq
    <3>2. wire = <<>> /\ put = 0 /\ udrie \in BOOLEAN
      BY Zenon DEF Init
    <3>3. put \in 0 .. MaxPuts
      BY <3>2, PutsAssumption
    <3> QED BY <3>1, <3>2, <3>3, Zenon
  <2> QED BY <1>1, <2>1 DEF Init, TypeOK
<1> QED BY <1>1, <1>2, PutsAssumption DEF Init, TxInv, TxAtStep, WakeupDue, NothingLost

\* Every step of putbyte and of the interrupt keeps the invariant.
LEMMA TxStepHolds == TxInv /\ [Next]_vars => TxInv'
<1> SUFFICES ASSUME TxInv, [Next]_vars PROVE TxInv'
  OBVIOUS
<1> DEFINE S == Byte \cup {Unset}
<1>1. /\ rb \in Ring /\ put \in Nat /\ put <= MaxPuts /\ MaxPuts \in Nat
      /\ wire \in Seq(S) /\ udrie \in BOOLEAN /\ 1 .. MaxPuts \subseteq Byte
  BY PutsAssumption DEF TxInv, TypeOK
<1>2. CASE PutByte
  BY <1>2 DEF PutByte, TxInv, TypeOK, TxAtStep, WakeupDue, NothingLost
<1>3. CASE SpaceFound
  BY <1>3 DEF SpaceFound, TxInv, TypeOK, TxAtStep, WakeupDue, NothingLost
<1>4. CASE StoreByte
  <2>1. put + 1 \in Byte /\ put < MaxPuts /\ ~IsFull(rb)
    BY <1>1, <1>4 DEF StoreByte, TxInv, TxAtStep
  <2>2. rb' = [rb EXCEPT !.slots[rb.end] = put + 1]
    BY <1>4 DEF StoreByte
  <2>3. rb' \in Ring /\ Pending(rb') = Pending(rb)
    BY <1>1, <2>1, <2>2, StoreKeepsPending
  <2>4. rb'.slots[rb'.end] = put + 1 /\ (IsFull(rb') <=> IsFull(rb)) /\ (IsEmpty(rb') <=> IsEmpty(rb))
    BY <1>1, <2>2 DEF Ring, IsFull, IsEmpty
  <2> QED BY <1>1, <1>4, <2>1, <2>3, <2>4
        DEF StoreByte, TxInv, TypeOK, TxAtStep, WakeupDue, NothingLost
<1>5. CASE AdvanceEnd
  <2>1. /\ ~IsFull(rb) /\ rb.slots[rb.end] = put + 1 /\ put + 1 \in Byte /\ put < MaxPuts
        /\ rb' = [rb EXCEPT !.end = NextIndex(rb.end)] /\ put' = put + 1 /\ pc' = "test"
        /\ UNCHANGED <<udrie, wire>>
    BY <1>1, <1>5 DEF AdvanceEnd, TxInv, TxAtStep
  <2>2. rb' \in Ring /\ Pending(rb') = Append(Pending(rb), put + 1)
    BY <1>1, <2>1, AdvanceAppends
  <2>3. Elements(Pending(rb')) = Elements(Pending(rb)) \cup {put + 1}
    <3>1. Pending(rb) \in Seq(S) /\ put + 1 \in S
      BY <1>1, <2>1, PendingBytes
    <3> HIDE DEF S
    <3>2. Elements(Append(Pending(rb), put + 1)) = Elements(Pending(rb)) \cup {put + 1}
      BY <3>1, ElementsMove
    <3> QED BY <2>2, <3>2
  <2>4. NothingLost'
    BY <1>1, <2>1, <2>3 DEF TxInv, NothingLost
  <2> QED BY <1>1, <2>1, <2>2, <2>4 DEF TxInv, TypeOK, TxAtStep, WakeupDue
<1>6. CASE TestOverflow
  BY <1>6 DEF TestOverflow, TxInv, TypeOK, TxAtStep, WakeupDue, NothingLost
<1>7. CASE DropOldest
  <2>1. IsEmpty(rb) /\ rb' = [rb EXCEPT !.start = NextIndex(rb.start)] /\ pc' = "enable"
        /\ UNCHANGED <<udrie, put, wire>>
    BY <1>7 DEF DropOldest, TxInv, TxAtStep
  <2>2. rb' \in Ring
    BY <1>1, <2>1, DropRefills
  <2>3. Elements(Pending(rb)) = {}
    BY <1>1, <2>1, EmptyPending
  <2>4. NothingLost'
    BY <2>1, <2>3 DEF TxInv, NothingLost
  <2> QED BY <1>1, <2>1, <2>2, <2>4 DEF TxInv, TypeOK, TxAtStep, WakeupDue
<1>8. CASE EnableInterrupt
  BY <1>8 DEF EnableInterrupt, TxInv, TypeOK, TxAtStep, WakeupDue, NothingLost
<1>9. CASE UdreInterrupt
  <2>1. CASE IsEmpty(rb)
    BY <1>9, <2>1 DEF UdreInterrupt, TxInv, TypeOK, TxAtStep, WakeupDue, NothingLost
  <2>2. CASE ~IsEmpty(rb)
    <3>1. udrie /\ rb' = Pop(rb) /\ wire' = Append(wire, Oldest(rb)) /\ UNCHANGED <<udrie, pc, put>>
      BY <1>9, <2>2 DEF UdreInterrupt
    <3>2. /\ rb' \in Ring /\ Pending(rb) # <<>> /\ Oldest(rb) = Head(Pending(rb))
          /\ Pending(rb') = Tail(Pending(rb))
      BY <1>1, <2>2, <3>1, PopTakesOldest
    <3>3. Pending(rb) \in Seq(S) /\ Oldest(rb) \in S
      BY <1>1, PendingBytes DEF Oldest, Ring
    <3>4. /\ wire' \in Seq(S)
          /\ Elements(wire') = Elements(wire) \cup {Oldest(rb)}
          /\ Elements(Pending(rb)) = {Oldest(rb)} \cup Elements(Pending(rb'))
      BY <1>1, <3>1, <3>2, <3>3, ElementsMove
    <3>5. NothingLost'
      BY <3>1, <3>4 DEF TxInv, NothingLost
    <3>6. ~IsFull(rb') /\ rb'.end = rb.end /\ rb'.slots = rb.slots
      BY <1>1, <2>2, <3>1, PopNotFull DEF Pop, Ring
    <3>7. pc # "overwrite"
      BY <2>2 DEF TxInv, TxAtStep
    <3> QED BY <1>1, <3>1, <3>2, <3>4, <3>5, <3>6, <3>7 DEF TxInv, TypeOK, TxAtStep, WakeupDue
  <2> QED BY <2>1, <2>2
<1>10. CASE UNCHANGED vars
  BY <1>10 DEF vars, TxInv, TypeOK, TxAtStep, WakeupDue, NothingLost
<1> QED BY <1>2, <1>3, <1>4, <1>5, <1>6, <1>7, <1>8, <1>9, <1>10 DEF Next, InPutByte

\* The inductive invariant holds in every reachable state of the sender.
THEOREM TxInvariance == Spec => []TxInv
BY TxInitHolds, TxStepHolds, PTL DEF Spec

\* The indices stay in the ring whatever the interleaving (usart.c:194-233).
THEOREM TypeCorrect == Spec => []TypeOK
<1>1. TxInv => TypeOK
  BY DEF TxInv
<1> QED BY <1>1, TxInvariance, PTL

\* No byte waits in the ring without an interrupt that will send it.
THEOREM WakeupsKept == Spec => []NoLostWakeup
<1>1. TxInv => NoLostWakeup
  BY DEF TxInv, WakeupDue, NoLostWakeup
<1> QED BY <1>1, TxInvariance, PTL

\* Every byte accepted by putbyte has been sent or is still in the ring.
THEOREM NoByteLost == Spec => []NothingLost
<1>1. TxInv => NothingLost
  BY DEF TxInv
<1> QED BY <1>1, TxInvariance, PTL

-----------------------------------------------------------------------------
\* The slot j places before an index.
Before(e, j) == IF e - j >= 0 THEN e - j ELSE e - j + Size

\* The slots before the end hold the bytes put last, whatever the interrupt
\* does: only putbyte writes slots and moves the end.
SlotsHold ==
  \A j \in 1 .. Size - 1 :
    rb.slots[Before(rb.end, j)] = IF put - j + 1 > 0 THEN put - j + 1 ELSE Unset

\* Some byte has been put when rb_push decides about its overflow.
PutSome == pc \in {"test", "overwrite"} => put > 0

LineInv == TxInv /\ SlotsHold /\ PutSome

\* The slots seen from an end that moves on, and from behind the start.
LEMMA BeforeMoves ==
  ASSUME NEW e \in Index, NEW j \in 1 .. Size - 1
  PROVE  /\ Before(e, j) \in Index /\ Before(e, j) # e
         /\ Before(Succ(e), j) = IF j = 1 THEN e ELSE Before(e, j - 1)
         /\ At(e, j + 1) = Before(e, Size - j)
BY SizeAssumption DEF Before, Succ, At, Index

LEMMA LineInitHolds == Init => LineInv
<1> SUFFICES ASSUME Init PROVE LineInv
  OBVIOUS
<1>1. SlotsHold
  <2> SUFFICES ASSUME NEW j \in 1 .. Size - 1
               PROVE  rb.slots[Before(rb.end, j)] =
                        IF put - j + 1 > 0 THEN put - j + 1 ELSE Unset
    BY DEF SlotsHold
  <2>1. rb.slots = [i \in Index |-> Unset] /\ rb.end = 0 /\ put = 0 /\ 0 \in Index
    BY SizeAssumption DEF Init, EmptyRing, Index
  <2>2. Before(0, j) \in Index
    BY <2>1, BeforeMoves
  <2>3. ~(put - j + 1 > 0)
    BY <2>1, SizeAssumption
  <2> QED BY <2>1, <2>2, <2>3
<1> QED BY <1>1, TxInitHolds DEF Init, LineInv, PutSome

LEMMA LineStepHolds == LineInv /\ [Next]_vars => LineInv'
<1> SUFFICES ASSUME LineInv, [Next]_vars PROVE LineInv'
  OBVIOUS
<1>1. TxInv'
  BY TxStepHolds DEF LineInv
<1>2. rb \in Ring /\ put \in Nat /\ rb.end \in Index /\ rb.slots \in [Index -> Byte \cup {Unset}]
  BY PutsAssumption DEF LineInv, TxInv, TypeOK, Ring
<1>3. CASE StoreByte
  <2>1. /\ rb'.end = rb.end /\ rb'.slots = [rb.slots EXCEPT ![rb.end] = put + 1]
        /\ put' = put /\ pc' = "advance"
    BY <1>2, <1>3 DEF StoreByte, Ring
  <2>2. ASSUME NEW j \in 1 .. Size - 1
        PROVE  rb'.slots[Before(rb.end, j)] = rb.slots[Before(rb.end, j)]
    BY <1>2, <2>1, BeforeMoves
  <2> QED BY <1>1, <2>1, <2>2 DEF LineInv, SlotsHold, PutSome
<1>4. CASE AdvanceEnd
  <2>1. /\ rb'.end = Succ(rb.end) /\ rb'.slots = rb.slots
        /\ rb.slots[rb.end] = put + 1 /\ put' = put + 1
    BY <1>2, <1>4, NextIndexType DEF AdvanceEnd, Ring, LineInv, TxInv, TxAtStep
  <2>2. ASSUME NEW j \in 1 .. Size - 1
        PROVE  rb'.slots[Before(rb'.end, j)] =
                 IF put' - j + 1 > 0 THEN put' - j + 1 ELSE Unset
    <3>1. CASE j = 1
      BY <1>2, <2>1, <3>1, BeforeMoves
    <3>2. CASE j # 1
      <4>1. j - 1 \in 1 .. Size - 1 /\ put' - j + 1 = put - (j - 1) + 1
        BY <1>2, <2>1, <3>2, SizeAssumption
      <4>2. rb.slots[Before(rb.end, j - 1)] =
              IF put - (j - 1) + 1 > 0 THEN put - (j - 1) + 1 ELSE Unset
        BY <4>1 DEF LineInv, SlotsHold
      <4>3. Before(Succ(rb.end), j) = Before(rb.end, j - 1)
        BY <1>2, <3>2, BeforeMoves
      <4> QED BY <2>1, <4>1, <4>2, <4>3
    <3> QED BY <3>1, <3>2
  <2>3. PutSome'
    BY <1>2, <2>1 DEF PutSome
  <2> QED BY <1>1, <2>2, <2>3 DEF LineInv, SlotsHold
<1>5. CASE DropOldest
  <2>1. rb'.end = rb.end /\ rb'.slots = rb.slots /\ put' = put /\ pc' = "enable"
    BY <1>2, <1>5 DEF DropOldest, Ring
  <2> QED BY <1>1, <2>1 DEF LineInv, SlotsHold, PutSome
<1>6. CASE UdreInterrupt
  <2>1. rb'.end = rb.end /\ rb'.slots = rb.slots /\ put' = put /\ pc' = pc
    BY <1>2, <1>6 DEF UdreInterrupt, Pop, Ring
  <2> QED BY <1>1, <2>1 DEF LineInv, SlotsHold, PutSome
<1>7. CASE PutByte \/ SpaceFound \/ EnableInterrupt
  BY <1>1, <1>7 DEF PutByte, SpaceFound, EnableInterrupt, LineInv, SlotsHold, PutSome
<1>8. CASE TestOverflow
  BY <1>1, <1>8 DEF TestOverflow, LineInv, SlotsHold, PutSome
<1>9. CASE UNCHANGED vars
  BY <1>1, <1>9 DEF vars, LineInv, SlotsHold, PutSome
<1> QED BY <1>3, <1>4, <1>5, <1>6, <1>7, <1>8, <1>9 DEF Next, InPutByte

\* The sender implements the line: the move of the end is the acceptance of a
\* byte, and the mistaken overflow is the line's repetition of its last slots.
THEOREM SenderIsLine == Spec => ImplementsLine
<1>1. Init => Line!Init
  <2> SUFFICES ASSUME Init PROVE Line!Init
    OBVIOUS
  <2>1. rb \in Ring /\ IsEmpty(rb)
    BY SizeAssumption DEF Init, EmptyRing, Ring, Index, IsEmpty
  <2>2. Pending(rb) = <<>>
    BY <2>1, EmptyPending
  <2> QED BY <2>2 DEF Init, Line!Init
<1>2. LineInv /\ [Next]_vars => [Line!Next]_<<put, Pending(rb), wire>>
  <2> SUFFICES ASSUME LineInv, [Next]_vars PROVE [Line!Next]_<<put, Pending(rb), wire>>
    OBVIOUS
  <2>1. rb \in Ring /\ put \in Nat
    BY PutsAssumption DEF LineInv, TxInv, TypeOK
  <2>2. CASE StoreByte
    <3>1. put + 1 \in Byte
      BY <2>1, <2>2, PutsAssumption DEF StoreByte, LineInv, TxInv, TxAtStep
    <3>2. rb' = [rb EXCEPT !.slots[rb.end] = put + 1] /\ put' = put /\ wire' = wire
      BY <2>2 DEF StoreByte
    <3> QED BY <2>1, <3>1, <3>2, StoreKeepsPending
  <2>3. CASE AdvanceEnd
    <3>1. /\ ~IsFull(rb) /\ rb.slots[rb.end] = put + 1 /\ put + 1 \in Byte
          /\ rb' = [rb EXCEPT !.end = NextIndex(rb.end)] /\ put' = put + 1 /\ wire' = wire
      BY <2>1, <2>3, PutsAssumption DEF AdvanceEnd, LineInv, TxInv, TxAtStep
    <3>2. Pending(rb') = Append(Pending(rb), put + 1)
      BY <2>1, <3>1, AdvanceAppends
    <3>3. Len(Pending(rb)) < Size - 1
      <4>1. Len(Pending(rb)) = Dist(rb.start, rb.end) /\ Len(Pending(rb)) # Size - 1
        BY <2>1, <3>1, PendingBytes
      <4>2. Dist(rb.start, rb.end) \in 0 .. Size - 1
        BY <2>1, Distance DEF Ring, Index
      <4> QED BY <4>1, <4>2, SizeAssumption
    <3>4. Line!Put
      BY <3>1, <3>2, <3>3 DEF Line!Put
    <3> QED BY <3>4 DEF Line!Next
  <2>4. CASE DropOldest
    <3>1. /\ IsEmpty(rb) /\ rb' = [rb EXCEPT !.start = NextIndex(rb.start)]
          /\ put' = put /\ wire' = wire /\ put > 0
      BY <2>4 DEF DropOldest, LineInv, TxInv, TxAtStep, PutSome
    <3>2. Pending(rb) = <<>>
      BY <2>1, <3>1, EmptyPending
    <3>3. Pending(rb') = [k \in 1 .. Size - 1 |-> rb.slots[At(rb.end, k + 1)]]
      BY <2>1, <3>1, DropRefills
    <3>4. ASSUME NEW k \in 1 .. Size - 1
          PROVE  rb.slots[At(rb.end, k + 1)] =
                   IF put - (Size - 1) + k > 0 THEN put - (Size - 1) + k ELSE Unset
      <4>1. At(rb.end, k + 1) = Before(rb.end, Size - k)
        BY <2>1, BeforeMoves DEF Ring
      <4>2. Size - k \in 1 .. Size - 1 /\ put - (Size - k) + 1 = put - (Size - 1) + k
        BY <2>1, SizeAssumption
      <4>3. rb.slots[Before(rb.end, Size - k)] =
              IF put - (Size - k) + 1 > 0 THEN put - (Size - k) + 1 ELSE Unset
        BY <4>2 DEF LineInv, SlotsHold
      <4> QED BY <4>1, <4>2, <4>3
    <3>5. Line!Replay
      BY <3>1, <3>2, <3>3, <3>4 DEF Line!Replay
    <3> QED BY <3>5 DEF Line!Next
  <2>5. CASE UdreInterrupt
    <3>1. CASE IsEmpty(rb)
      BY <2>5, <3>1 DEF UdreInterrupt
    <3>2. CASE ~IsEmpty(rb)
      <4>1. rb' = Pop(rb) /\ wire' = Append(wire, Oldest(rb)) /\ put' = put
        BY <2>5, <3>2 DEF UdreInterrupt
      <4>2. /\ Pending(rb) # <<>> /\ Oldest(rb) = Head(Pending(rb))
            /\ Pending(rb') = Tail(Pending(rb))
        BY <2>1, <3>2, <4>1, PopTakesOldest
      <4>3. Line!Send
        BY <4>1, <4>2 DEF Line!Send
      <4> QED BY <4>3 DEF Line!Next
    <3> QED BY <3>1, <3>2
  <2>6. CASE PutByte \/ SpaceFound \/ TestOverflow \/ EnableInterrupt
    BY <2>6 DEF PutByte, SpaceFound, TestOverflow, EnableInterrupt
  <2>7. CASE UNCHANGED vars
    BY <2>7 DEF vars
  <2> QED BY <2>2, <2>3, <2>4, <2>5, <2>6, <2>7 DEF Next, InPutByte
<1> QED BY <1>1, <1>2, LineInitHolds, LineStepHolds, PTL DEF Spec, ImplementsLine, Line!Spec

-----------------------------------------------------------------------------
(* The receiving half.                                                     *)

\* Its ring, and the ring with a single caller, are those of RingBuffer.
LEMMA SameRings ==
  /\ Rx!Index = Index /\ Rx!Ring = Ring /\ Rx!EmptyRing = EmptyRing
  /\ \A i : Rx!NextIndex(i) = NextIndex(i)
  /\ \A r : (Rx!IsEmpty(r) <=> IsEmpty(r)) /\ (Rx!IsFull(r) <=> IsFull(r))
  /\ \A r : Rx!Pending(r) = Pending(r)
  /\ \A r, b : Rx!Push(r, b) = Push(r, b)
  /\ Ring2!Ring = Ring /\ Ring2!EmptyRing = EmptyRing
  /\ \A r : (Ring2!IsEmpty(r) <=> IsEmpty(r)) /\ (Ring2!IsFull(r) <=> IsFull(r))
  /\ \A r : Ring2!Pending(r) = Pending(r) /\ Ring2!Oldest(r) = Oldest(r)
  /\ \A r : Ring2!BytesUsed(r) = BytesUsed(r) /\ Ring2!Left(r) = Left(r)
  /\ \A r, b : Ring2!Push(r, b) = Push(r, b)
  /\ \A r : Ring2!Pop(r) = Pop(r)
<1>1. Rx!Index = Index /\ Ring2!Index = Index
  BY DEF Rx!Index, Ring2!Index, Index
<1>2. Rx!Ring = Ring /\ Ring2!Ring = Ring
  BY <1>1 DEF Rx!Ring, Ring2!Ring, Ring
<1>3. Rx!EmptyRing = EmptyRing /\ Ring2!EmptyRing = EmptyRing
  BY <1>1 DEF Rx!EmptyRing, Ring2!EmptyRing, EmptyRing
<1>4. \A i : Rx!NextIndex(i) = NextIndex(i) /\ Ring2!NextIndex(i) = NextIndex(i)
  BY DEF Rx!NextIndex, Ring2!NextIndex, NextIndex
<1>5. \A r : /\ (Rx!IsEmpty(r) <=> IsEmpty(r)) /\ (Rx!IsFull(r) <=> IsFull(r))
             /\ (Ring2!IsEmpty(r) <=> IsEmpty(r)) /\ (Ring2!IsFull(r) <=> IsFull(r))
  BY <1>4 DEF Rx!IsEmpty, Rx!IsFull, Ring2!IsEmpty, Ring2!IsFull, IsEmpty, IsFull
<1>6. \A r : Rx!Pending(r) = Pending(r) /\ Ring2!Pending(r) = Pending(r)
  BY DEF Rx!Pending, Ring2!Pending, Pending
<1>7. \A r, b : Rx!Push(r, b) = Push(r, b) /\ Ring2!Push(r, b) = Push(r, b)
  BY <1>4 DEF Rx!Push, Ring2!Push, Push
<1>8. \A r : Ring2!Oldest(r) = Oldest(r) /\ Ring2!Pop(r) = Pop(r)
  BY <1>4 DEF Ring2!Oldest, Oldest, Ring2!Pop, Pop
<1>9. \A r : Ring2!BytesUsed(r) = BytesUsed(r) /\ Ring2!Left(r) = Left(r)
  BY DEF Ring2!BytesUsed, BytesUsed, Ring2!Left, Left
<1> QED BY <1>1, <1>2, <1>3, <1>4, <1>5, <1>6, <1>7, <1>8, <1>9

RxTyped ==
  /\ rxRing \in Ring
  /\ rxPc \in {"idle", "wait", "pop", "read", "move", "return"}
  /\ rxReg \in Index
  /\ rxData \in Byte \cup {Unset}
  /\ rxArrived \in 0 .. MaxBytes
  /\ rxGot \in Seq(Byte \cup {Unset})
  /\ rxOverflowed \in BOOLEAN

\* What getc knows at each of its steps.  As long as the ring has not overflowed,
\* the interrupt only adds bytes, and the register holds the start index; once it
\* has, the register may be stale, but every slot has been written.
RxAtStep ==
  /\ rxPc \in {"pop", "read", "move"} => ~IsEmpty(rxRing)
  /\ ~rxOverflowed /\ rxPc \in {"read", "move"} => rxReg = rxRing.start
  /\ ~rxOverflowed /\ rxPc = "move" => rxData = Oldest(rxRing)
  /\ rxPc \in {"move", "return"} => rxData \in 1 .. rxArrived
SlotsWritten == rxOverflowed => \A i \in Index : rxRing.slots[i] \in 1 .. rxArrived

\* What getc has returned, and what it is about to return.
Out == IF rxPc = "return" THEN Append(rxGot, rxData) ELSE rxGot
Arrivals(n) == [k \in 1 .. n |-> k]
InOrder == ~rxOverflowed => Out \o Pending(rxRing) = Arrivals(rxArrived)
OnlyBytes == \A i \in DOMAIN rxGot : rxGot[i] \in 1 .. rxArrived

RxInv == RxTyped /\ RxAtStep /\ SlotsWritten /\ InOrder /\ OnlyBytes

LEMMA RxMeans ==
  /\ Rx!TypeOK <=> RxTyped
  /\ Rx!GetcReturnsAByte <=> OnlyBytes
  /\ Rx!LossOnlyByOverflow <=> InOrder
<1>1. Rx!TypeOK <=> RxTyped
  BY Zenon, SameRings DEF Rx!TypeOK, RxTyped
<1>2. Rx!GetcReturnsAByte <=> OnlyBytes
  BY Zenon DEF Rx!GetcReturnsAByte, OnlyBytes
<1>3. Rx!LossOnlyByOverflow <=> InOrder
  BY Zenon, SameRings DEF Rx!LossOnlyByOverflow, InOrder, Out, Arrivals
<1> QED BY <1>1, <1>2, <1>3

\* What arrives next is the next in order.
LEMMA ArrivalsGrow ==
  ASSUME NEW n \in Nat
  PROVE  /\ Arrivals(n) \in Seq(Nat) /\ Len(Arrivals(n)) = n
         /\ Append(Arrivals(n), n + 1) = Arrivals(n + 1)
<1> DEFINE s == Append(Arrivals(n), n + 1)
           t == Arrivals(n + 1)
<1>1. /\ Arrivals(n) \in Seq(Nat) /\ Len(Arrivals(n)) = n
      /\ t \in Seq(Nat) /\ Len(t) = n + 1
  BY DEF Arrivals
<1>2. s \in Seq(Nat) /\ Len(s) = n + 1
  BY <1>1
<1>3. \A k \in 1 .. Len(s) : s[k] = t[k]
  BY <1>1, <1>2 DEF Arrivals
<1> HIDE DEF s, t
<1>4. s = t
  BY Zenon, <1>1, <1>2, <1>3, SeqEqual
<1> QED BY <1>1, <1>4 DEF s, t

\* Bytes pass through the ring: appended behind, taken in front.
LEMMA ThroughRing ==
  ASSUME NEW S, NEW g \in Seq(S), NEW q \in Seq(S), NEW b \in S
  PROVE  /\ g \o Append(q, b) = Append(g \o q, b)
         /\ q # <<>> => Append(g, Head(q)) \o Tail(q) = g \o q
         /\ \A k \in 1 .. Len(q) : Len(g) + k \in 1 .. Len(g \o q) /\ (g \o q)[Len(g) + k] = q[k]
<1>0. /\ Len(g) \in Nat /\ Len(q) \in Nat
      /\ g \o q \in Seq(S) /\ Len(g \o q) = Len(g) + Len(q)
      /\ \A i \in 1 .. Len(g) + Len(q) : (g \o q)[i] = IF i <= Len(g) THEN g[i] ELSE q[i - Len(g)]
  BY ConcatProperties
<1>1. g \o Append(q, b) = Append(g \o q, b)
  <2>1. <<b>> \in Seq(S)
    OBVIOUS
  <2>2. Append(q, b) = q \o <<b>> /\ Append(g \o q, b) = (g \o q) \o <<b>>
    BY <1>0, AppendIsConcat
  <2>3. (g \o q) \o <<b>> = g \o (q \o <<b>>)
    BY <2>1, ConcatAssociative
  <2> QED BY <2>2, <2>3
<1>2. ASSUME q # <<>> PROVE Append(g, Head(q)) \o Tail(q) = g \o q
  <2> DEFINE h == Append(g, Head(q))
             r == Tail(q)
             u == h \o r
             v == g \o q
  <2>1. /\ Head(q) \in S /\ Head(q) = q[1] /\ r \in Seq(S) /\ Len(r) = Len(q) - 1
        /\ \A i \in 1 .. Len(r) : r[i] = q[i + 1]
    BY <1>2, HeadTailProperties
  <2>2. /\ h \in Seq(S) /\ Len(h) = Len(g) + 1
        /\ \A i \in 1 .. Len(g) : h[i] = g[i]
        /\ h[Len(g) + 1] = q[1]
    BY <2>1, AppendProperties
  <2> HIDE DEF h, r
  <2>3. /\ u \in Seq(S) /\ Len(u) = Len(g) + Len(q)
        /\ \A i \in 1 .. Len(g) + Len(q) : u[i] = IF i <= Len(g) + 1 THEN h[i] ELSE r[i - (Len(g) + 1)]
    <3>1. /\ u \in Seq(S) /\ Len(u) = Len(h) + Len(r)
          /\ \A i \in 1 .. Len(h) + Len(r) : u[i] = IF i <= Len(h) THEN h[i] ELSE r[i - Len(h)]
      BY <2>1, <2>2, ConcatProperties
    <3>2. Len(h) + Len(r) = Len(g) + Len(q)
      BY <1>0, <2>1, <2>2
    <3> HIDE DEF u
    <3> QED BY <2>2, <3>1, <3>2
  <2> HIDE DEF u
  <2>4. ASSUME NEW i \in 1 .. Len(u) PROVE u[i] = v[i]
    <3>1. CASE i <= Len(g)
      BY <1>0, <2>2, <2>3, <3>1
    <3>2. CASE i = Len(g) + 1
      BY <1>0, <2>2, <2>3, <3>2
    <3>3. CASE i > Len(g) + 1
      <4>1. i - (Len(g) + 1) \in 1 .. Len(r) /\ (i - (Len(g) + 1)) + 1 = i - Len(g)
        BY <1>0, <2>1, <2>3, <3>3
      <4>2. r[i - (Len(g) + 1)] = q[i - Len(g)]
        BY <2>1, <4>1
      <4> QED BY <1>0, <2>3, <3>3, <4>2
    <3> QED BY <1>0, <2>3, <3>1, <3>2, <3>3
  <2>5. u = v
    BY <1>0, <2>3, <2>4, SeqExtensional
  <2> QED BY <2>5 DEF u, h, r
<1>3. \A k \in 1 .. Len(q) : Len(g) + k \in 1 .. Len(g \o q) /\ (g \o q)[Len(g) + k] = q[k]
  BY <1>0
<1> QED BY <1>1, <1>2, <1>3

\* Every slot of a full ring but the one at the end is among the pending ones.
LEMMA SlotOfFull ==
  ASSUME NEW s \in Index, NEW e \in Index, Succ(e) = s, NEW i \in Index, i # e
  PROVE  \E k \in 1 .. Size - 1 : i = At(s, k)
<1>1. CASE i >= s
  <2>1. i - s + 1 \in 1 .. Size - 1 /\ i = At(s, i - s + 1)
    BY <1>1, SizeAssumption DEF Index, Succ, At
  <2> QED BY <2>1
<1>2. CASE i < s
  <2>1. i - s + Size + 1 \in 1 .. Size - 1 /\ i = At(s, i - s + Size + 1)
    BY <1>2, SizeAssumption DEF Index, Succ, At
  <2> QED BY <2>1
<1>3. i >= s \/ i < s
  BY SizeAssumption DEF Index
<1> QED BY <1>1, <1>2, <1>3

LEMMA RxInitHolds == Rx!Init => RxInv
<1> SUFFICES ASSUME Rx!Init PROVE RxInv
  OBVIOUS
<1>1. rxRing = EmptyRing /\ rxPc = "idle" /\ rxReg = 0 /\ rxArrived = 0 /\ rxGot = <<>>
      /\ rxData = Unset /\ rxOverflowed = FALSE
  BY SameRings DEF Rx!Init
<1>2. EmptyRing \in Ring /\ IsEmpty(EmptyRing) /\ 0 \in Index
  BY SizeAssumption DEF EmptyRing, Ring, Index, IsEmpty
<1>3. Pending(EmptyRing) = <<>> /\ <<>> \in Seq(Byte \cup {Unset})
  BY <1>2, EmptyPending, EmptySeq
<1>4. 0 \in 0 .. MaxBytes
  BY BytesAssumption DEF Rx!RxAssumption
<1>5. RxTyped
  BY Zenon, <1>1, <1>2, <1>3, <1>4 DEF RxTyped
<1>6. RxAtStep /\ SlotsWritten /\ OnlyBytes
  BY <1>1 DEF RxAtStep, SlotsWritten, OnlyBytes
<1>7. InOrder
  <2>1. Arrivals(0) = <<>> /\ <<>> \o <<>> = <<>>
    BY DEF Arrivals
  <2> QED BY <1>1, <1>3, <2>1 DEF InOrder, Out
<1> QED BY <1>5, <1>6, <1>7 DEF RxInv

\* The bytes in a ring that has not overflowed have arrived.
LEMMA PendingArrived ==
  ASSUME RxInv, ~rxOverflowed
  PROVE  /\ Out \in Seq(Byte \cup {Unset})
         /\ \A k \in 1 .. Len(Pending(rxRing)) : Pending(rxRing)[k] \in 1 .. rxArrived
<1> DEFINE S == Byte \cup {Unset}
           q == Pending(rxRing)
           o == Out
<1>1. o \in Seq(S) /\ q \in Seq(S) /\ rxArrived \in Nat /\ Unset \in S
  BY PendingBytes DEF RxInv, RxTyped, Out
<1>2. o \o q = Arrivals(rxArrived) /\ Len(Arrivals(rxArrived)) = rxArrived
  BY <1>1, ArrivalsGrow DEF RxInv, InOrder
<1> HIDE DEF S, q, o
<1>3. ASSUME NEW k \in 1 .. Len(q) PROVE q[k] \in 1 .. rxArrived
  <2>1. Len(o) + k \in 1 .. Len(o \o q) /\ (o \o q)[Len(o) + k] = q[k]
    BY <1>1, ThroughRing
  <2>2. Arrivals(rxArrived)[Len(o) + k] = Len(o) + k
    BY <1>2, <2>1 DEF Arrivals
  <2> QED BY <1>2, <2>1, <2>2
<1> QED BY <1>1, <1>3 DEF S, q, o

\* The receive interrupt pushes the next byte into the ring.
LEMMA RxInterruptHolds == RxInv /\ Rx!RxInterrupt => RxInv'
<1> SUFFICES ASSUME RxInv, Rx!RxInterrupt PROVE RxInv'
  OBVIOUS
<1> DEFINE S == Byte \cup {Unset}
           n == rxArrived
           r == rxRing
<1>1. /\ n < MaxBytes /\ rxArrived' = n + 1 /\ rxRing' = Push(r, n + 1)
      /\ rxOverflowed' = (rxOverflowed \/ IsFull(r))
      /\ rxPc' = rxPc /\ rxReg' = rxReg /\ rxData' = rxData /\ rxGot' = rxGot
  BY Zenon, SameRings DEF Rx!RxInterrupt
<1>2. n \in Nat /\ MaxBytes \in Nat /\ 1 .. MaxBytes \subseteq Byte /\ r \in Ring
  BY BytesAssumption DEF RxInv, RxTyped, Rx!RxAssumption
<1>3. n + 1 \in Byte /\ n + 1 \in 0 .. MaxBytes /\ \A x \in 1 .. n : x \in 1 .. n + 1
  BY <1>1, <1>2
<1>4. /\ r.start \in Index /\ r.end \in Index /\ r.slots \in [Index -> S]
      /\ NextIndex(r.start) = Succ(r.start) /\ NextIndex(r.end) = Succ(r.end)
  BY <1>2, NextIndexType DEF Ring
<1>5. /\ rxRing' \in Ring /\ rxRing'.slots = [r.slots EXCEPT ![r.end] = n + 1]
      /\ rxRing'.end = Succ(r.end)
      /\ rxRing'.start = IF IsFull(r) THEN Succ(r.start) ELSE r.start
  BY <1>1, <1>2, <1>3, <1>4, PushAppends DEF Push, IsFull
<1>6. ~IsEmpty(rxRing')
  BY <1>4, <1>5, SizeAssumption DEF IsEmpty, IsFull, Succ, Index
<1>7. RxTyped'
  <2>1. rxOverflowed' \in BOOLEAN
    BY Zenon, <1>1
  <2> QED BY Zenon, <1>1, <1>3, <1>5, <2>1 DEF RxInv, RxTyped
<1>8. ASSUME NEW i \in Index PROVE rxRing'.slots[i] = IF i = r.end THEN n + 1 ELSE r.slots[i]
  BY <1>4, <1>5
<1>9. SlotsWritten'
  <2> SUFFICES ASSUME rxOverflowed', NEW i \in Index PROVE rxRing'.slots[i] \in 1 .. n + 1
    BY <1>1 DEF SlotsWritten
  <2>1. CASE i = r.end
    BY <1>2, <1>8, <2>1
  <2>2. CASE i # r.end /\ rxOverflowed
    BY <1>3, <1>8, <2>2 DEF RxInv, SlotsWritten
  <2>3. CASE i # r.end /\ ~rxOverflowed
    <3>1. IsFull(r) /\ Len(Pending(r)) = Size - 1
      BY <1>1, <1>2, <2>3, PendingBytes
    <3>2. \E k \in 1 .. Size - 1 : i = At(r.start, k)
      <4>1. Succ(r.end) = r.start /\ i # r.end
        BY <1>4, <2>3, <3>1 DEF IsFull
      <4> QED BY Zenon, <1>4, <4>1, SlotOfFull
    <3>3. r.slots[i] \in 1 .. n
      <4>1. PICK k \in 1 .. Size - 1 : i = At(r.start, k)
        BY <3>2
      <4>2. Pending(r)[k] = r.slots[i] /\ Pending(r)[k] \in 1 .. n
        BY <1>2, <2>3, <3>1, <4>1, PendingBytes, PendingArrived
      <4> QED BY <4>2
    <3> QED BY <1>3, <1>8, <2>3, <3>3
  <2> QED BY <2>1, <2>2, <2>3
<1>10. RxAtStep'
  <2>1. rxPc \in {"move", "return"} => rxData \in 1 .. n + 1
    BY <1>3 DEF RxInv, RxAtStep
  <2>2. ASSUME ~rxOverflowed' PROVE ~rxOverflowed /\ ~IsFull(r) /\ rxRing'.start = r.start
    BY <1>1, <1>5, <2>2
  <2>3. ASSUME ~rxOverflowed', rxPc = "move" PROVE rxData = Oldest(rxRing')
    <3>1. rxData = Oldest(r) /\ r.start # r.end
      BY <2>2, <2>3 DEF RxInv, RxAtStep, IsEmpty
    <3> QED BY <1>4, <1>8, <2>2, <2>3, <3>1 DEF Oldest
  <2>4. ~rxOverflowed' /\ rxPc \in {"read", "move"} => rxReg = rxRing'.start
    BY <2>2 DEF RxInv, RxAtStep
  <2> QED BY Zenon, <1>1, <1>6, <2>1, <2>3, <2>4 DEF RxAtStep
<1>11. InOrder'
  <2> SUFFICES ASSUME ~rxOverflowed' PROVE Out' \o Pending(rxRing') = Arrivals(n + 1)
    BY Zenon, <1>1 DEF InOrder
  <2>1. ~rxOverflowed /\ ~IsFull(r)
    BY <1>1
  <2>2. Pending(rxRing') = Append(Pending(r), n + 1)
    BY <1>1, <1>2, <1>3, <2>1, PushAppends, PendingBytes
  <2>3. Out' = Out
    BY <1>1 DEF Out
  <2>4. Out \in Seq(S) /\ Pending(r) \in Seq(S) /\ n + 1 \in S
    BY <1>2, <1>3, <2>1, PendingArrived, PendingBytes
  <2>5. Out \o Append(Pending(r), n + 1) = Append(Out \o Pending(r), n + 1)
    <3> HIDE DEF S
    <3> QED BY <2>4, ThroughRing
  <2>6. Out \o Pending(r) = Arrivals(n)
    BY <2>1 DEF RxInv, InOrder
  <2> QED BY Zenon, <1>2, <2>2, <2>3, <2>5, <2>6, ArrivalsGrow
<1>12. OnlyBytes'
  BY <1>1, <1>3 DEF RxInv, OnlyBytes
<1> QED BY Zenon, <1>7, <1>9, <1>10, <1>11, <1>12 DEF RxInv

\* getc moves on.
LEMMA GetcHolds == RxInv /\ [Rx!Next]_Rx!vars => RxInv'
<1> SUFFICES ASSUME RxInv, [Rx!Next]_Rx!vars PROVE RxInv'
  OBVIOUS
<1> DEFINE S == Byte \cup {Unset}
           n == rxArrived
           r == rxRing
<1>0. /\ n \in Nat /\ r \in Ring /\ rxReg \in Index /\ rxGot \in Seq(S) /\ rxData \in S
      /\ r.start \in Index /\ r.slots \in [Index -> S]
  BY DEF RxInv, RxTyped, Ring
<1>1. CASE Rx!RxInterrupt
  BY <1>1, RxInterruptHolds
<1>2. CASE Rx!Getc
  BY <1>2 DEF Rx!Getc, RxInv, RxTyped, RxAtStep, SlotsWritten, InOrder, OnlyBytes, Out
<1>3. CASE Rx!DataFound
  BY <1>3, SameRings DEF Rx!DataFound, RxInv, RxTyped, RxAtStep, SlotsWritten, InOrder, OnlyBytes, Out
<1>4. CASE Rx!PopTests
  <2>1. /\ rxPc = "pop" /\ rxPc' = "read" /\ rxReg' = r.start
        /\ UNCHANGED <<rxRing, rxData, rxArrived, rxGot, rxOverflowed>>
    BY <1>4, SameRings DEF Rx!PopTests, RxInv, RxAtStep
  <2> QED BY <1>0, <2>1 DEF RxInv, RxTyped, RxAtStep, SlotsWritten, InOrder, OnlyBytes, Out
<1>5. CASE Rx!PopReloads
  BY <1>0, <1>5 DEF Rx!PopReloads, RxInv, RxTyped, RxAtStep, SlotsWritten, InOrder, OnlyBytes, Out
<1>6. CASE Rx!PopReads
  <2>1. /\ rxPc = "read" /\ rxPc' = "move" /\ rxData' = r.slots[rxReg]
        /\ UNCHANGED <<rxRing, rxReg, rxArrived, rxGot, rxOverflowed>>
    BY <1>6 DEF Rx!PopReads
  <2>2. rxData' \in S
    BY <1>0, <2>1
  <2>3. rxData' \in 1 .. n
    <3>1. CASE rxOverflowed
      BY <1>0, <2>1, <3>1 DEF RxInv, SlotsWritten
    <3>2. CASE ~rxOverflowed
      <4>1. rxData' = Oldest(r) /\ ~IsEmpty(r)
        BY <2>1, <3>2 DEF RxInv, RxAtStep, Oldest
      <4>2. Pending(r) # <<>> /\ Oldest(r) = Head(Pending(r)) /\ Pending(r) \in Seq(S)
        BY <1>0, <4>1, PopTakesOldest, PendingBytes
      <4>3. 1 \in 1 .. Len(Pending(r)) /\ Head(Pending(r)) = Pending(r)[1]
        BY <4>2, EmptySeq
      <4> QED BY <3>2, <4>1, <4>2, <4>3, PendingArrived
    <3> QED BY <3>1, <3>2
  <2>4. ~rxOverflowed => rxData' = Oldest(r)
    BY <2>1 DEF RxInv, RxAtStep, Oldest
  <2> QED BY <2>1, <2>2, <2>3, <2>4 DEF RxInv, RxTyped, RxAtStep, SlotsWritten, InOrder, OnlyBytes, Out
<1>7. CASE Rx!PopMovesStart
  <2>1. /\ rxPc = "move" /\ rxPc' = "return" /\ rxRing' = [r EXCEPT !.start = NextIndex(rxReg)]
        /\ UNCHANGED <<rxReg, rxData, rxArrived, rxGot, rxOverflowed>>
    BY <1>7, SameRings DEF Rx!PopMovesStart
  <2>2. rxRing' \in Ring /\ rxRing'.slots = r.slots
    BY <1>0, <2>1, NextIndexType DEF Ring
  <2>3. InOrder'
    <3> SUFFICES ASSUME ~rxOverflowed' PROVE Out' \o Pending(rxRing') = Arrivals(n)
      BY Zenon, <2>1 DEF InOrder
    <3>1. ~rxOverflowed /\ rxReg = r.start /\ rxData = Oldest(r) /\ ~IsEmpty(r)
      BY <2>1 DEF RxInv, RxAtStep
    <3>2. rxRing' = Pop(r)
      BY <2>1, <3>1 DEF Pop
    <3>3. /\ Pending(r) # <<>> /\ Oldest(r) = Head(Pending(r)) /\ Pending(r) \in Seq(S)
          /\ Pending(rxRing') = Tail(Pending(r))
      BY <1>0, <3>1, <3>2, PopTakesOldest, PendingBytes
    <3>4. Out = rxGot /\ Out' = Append(rxGot, Head(Pending(r)))
      BY <2>1, <3>1, <3>3 DEF Out
    <3>5. Append(rxGot, Head(Pending(r))) \o Tail(Pending(r)) = rxGot \o Pending(r)
      <4> HIDE DEF S
      <4> QED BY <1>0, <3>3, ThroughRing
    <3>6. Out \o Pending(r) = Arrivals(n)
      BY <3>1 DEF RxInv, InOrder
    <3> QED BY Zenon, <3>3, <3>4, <3>5, <3>6
  <2> QED BY <2>1, <2>2, <2>3 DEF RxInv, RxTyped, RxAtStep, SlotsWritten, OnlyBytes
<1>8. CASE Rx!Return
  <2>1. /\ rxPc = "return" /\ rxPc' = "idle" /\ rxGot' = Append(rxGot, rxData)
        /\ UNCHANGED <<rxRing, rxReg, rxData, rxArrived, rxOverflowed>>
    BY <1>8 DEF Rx!Return
  <2>2. rxGot' \in Seq(S)
    BY <1>0, <2>1
  <2>3. OnlyBytes'
    <3>1. \A i \in DOMAIN rxGot' : (i \in DOMAIN rxGot /\ rxGot'[i] = rxGot[i]) \/ rxGot'[i] = rxData
      BY <1>0, <2>1
    <3>2. rxData \in 1 .. n
      BY <2>1 DEF RxInv, RxAtStep
    <3> QED BY <2>1, <3>1, <3>2 DEF RxInv, OnlyBytes
  <2>4. InOrder'
    <3>1. Out' = Out
      BY <2>1 DEF Out
    <3> QED BY <2>1, <3>1 DEF RxInv, InOrder
  <2> QED BY <2>1, <2>2, <2>3, <2>4 DEF RxInv, RxTyped, RxAtStep, SlotsWritten
<1>9. CASE UNCHANGED Rx!vars
  BY <1>9 DEF Rx!vars, RxInv, RxTyped, RxAtStep, SlotsWritten, InOrder, OnlyBytes, Out
<1> QED BY <1>1, <1>2, <1>3, <1>4, <1>5, <1>6, <1>7, <1>8, <1>9 DEF Rx!Next

\* getc returns bytes that arrived, all of them in order until the ring overflows,
\* wherever the interrupt strikes (usart.c:187-192, 219-223).
THEOREM ReceiverKeepsOrder ==
  Rx!Spec => [](Rx!TypeOK /\ Rx!GetcReturnsAByte /\ Rx!LossOnlyByOverflow)
<1>1. RxInv => Rx!TypeOK /\ Rx!GetcReturnsAByte /\ Rx!LossOnlyByOverflow
  BY Zenon, RxMeans DEF RxInv
<1> QED BY <1>1, RxInitHolds, GetcHolds, PTL DEF Rx!Spec

-----------------------------------------------------------------------------
(* A ring with a single caller.                                            *)

\* The counting macros, each with its own arithmetic of 16 bits, agree with the
\* number of bytes held.
LEMMA Counts ==
  ASSUME NEW r \in Ring
  PROVE  /\ BytesUsed(r) = Len(Pending(r))
         /\ Left(r) = Size - 1 - Len(Pending(r))
         /\ IsEmpty(r) <=> Pending(r) = <<>>
         /\ IsFull(r) <=> Len(Pending(r)) = Size - 1
<1> DEFINE s == r.start
           e == r.end
           d == Dist(s, e)
<1>1. s \in 0 .. Size - 1 /\ e \in 0 .. Size - 1 /\ Size \in Nat /\ 1 < Size /\ Size <= 32768
  BY SizeAssumption DEF Ring, Index
<1>2. Len(Pending(r)) = d /\ Pending(r) \in Seq(Byte \cup {Unset}) /\ d \in 0 .. Size - 1
  <2>1. s \in Index /\ e \in Index
    BY <1>1 DEF Index
  <2>2. d \in Index
    BY <2>1, Distance
  <2> HIDE DEF d
  <2>3. d \in 0 .. Size - 1
    BY <2>2 DEF Index
  <2> QED BY <2>3, PendingBytes DEF d
<1>3. BytesUsed(r) = (((e - s) % 65536) + (IF e < s THEN Size ELSE 0)) % 65536
  BY DEF BytesUsed
<1>4. Left(r) = (IF s > e THEN s - e ELSE Size - (e - s)) - 1
  BY DEF Left
<1>5. d = IF e < s THEN e - s + Size ELSE e - s
  BY DEF Dist
<1> HIDE DEF s, e, d
<1>6. BytesUsed(r) = d
  <2>1. CASE e < s
    <3>1. (e - s) % 65536 = e - s + 65536
      BY <1>1, <2>1
    <3>2. (e - s + 65536 + Size) % 65536 = e - s + Size
      BY <1>1, <2>1
    <3> QED BY <1>3, <1>5, <2>1, <3>1, <3>2
  <2>2. CASE ~(e < s)
    <3>1. (e - s) % 65536 = e - s /\ (e - s + 0) % 65536 = e - s
      BY <1>1, <2>2
    <3> QED BY <1>3, <1>5, <2>2, <3>1
  <2> QED BY <2>1, <2>2
<1>7. Left(r) = Size - 1 - d
  BY <1>1, <1>4, <1>5
<1>8. IsEmpty(r) <=> Pending(r) = <<>>
  BY <1>2, PendingBytes, EmptySeq
<1>9. IsFull(r) <=> Len(Pending(r)) = Size - 1
  BY PendingBytes
<1> QED BY <1>2, <1>6, <1>7, <1>8, <1>9

\* Every sequence of rb_push and rb_pop calls keeps the indices in the ring, and
\* rb_bytesUsed, rb_left, rb_isEmpty and rb_isFull agree with the bytes held
\* (ringbuffer.h:71-141).
THEOREM RingTypeOK == Ring2!Spec => [](Ring2!TypeOK /\ Ring2!CountsAgree)
<1> DEFINE Held == queueRing \in Ring /\ queueGot \in Byte \cup {Unset}
<1>1. Ring2!Init => Held
  BY SameRings, SizeAssumption DEF Ring2!Init, EmptyRing, Ring, Index
<1>2. Held /\ [Ring2!Next]_Ring2!vars => Held'
  <2> SUFFICES ASSUME Held, [Ring2!Next]_Ring2!vars PROVE Held'
    OBVIOUS
  <2>1. CASE Ring2!PopByte
    <3>1. CASE IsEmpty(queueRing)
      BY <2>1, <3>1, SameRings DEF Ring2!PopByte
    <3>2. CASE ~IsEmpty(queueRing)
      <4>1. queueRing' = Pop(queueRing) /\ queueGot' = Oldest(queueRing)
        BY <2>1, <3>2, SameRings DEF Ring2!PopByte
      <4>2. queueRing.slots \in [Index -> Byte \cup {Unset}] /\ queueRing.start \in Index
        BY DEF Ring
      <4> QED BY <3>2, <4>1, <4>2, PopTakesOldest DEF Oldest
    <3> QED BY <3>1, <3>2
  <2>2. ASSUME NEW b \in Pushed, Ring2!PushByte(b) PROVE Held'
    <3>1. b \in Byte /\ queueRing' = Push(queueRing, b) /\ queueGot' = Unset
      BY <2>2, SameRings, BytesAssumption DEF Ring2!PushByte, Ring2!PushedAssumption
    <3> QED BY <3>1, PushAppends
  <2>3. CASE UNCHANGED Ring2!vars
    BY <2>3 DEF Ring2!vars
  <2> QED BY <2>1, <2>2, <2>3 DEF Ring2!Next
<1>3. Held => Ring2!TypeOK /\ Ring2!CountsAgree
  BY SameRings, Counts DEF Ring2!TypeOK, Ring2!CountsAgree
<1> QED BY <1>1, <1>2, <1>3, PTL DEF Ring2!Spec

\* The ring implements the queue that drops its oldest byte: the bytes between
\* its indices, oldest first, are the queue's content (rb_push, rb_pop).
THEOREM RingImplementsQueue == Ring2!Spec => Ring2!ImplementsQueue
<1> DEFINE r == queueRing
           q == Pending(r)
<1>1. Ring2!Init => Ring2!Queue!Init
  <2> SUFFICES ASSUME Ring2!Init PROVE Ring2!Queue!Init
    OBVIOUS
  <2>1. r \in Ring /\ IsEmpty(r) /\ queueGot = Unset
    BY SameRings, SizeAssumption DEF Ring2!Init, EmptyRing, Ring, Index, IsEmpty
  <2>2. q = <<>>
    BY <2>1, EmptyPending
  <2> QED BY <2>1, <2>2, SameRings DEF Ring2!Queue!Init
<1>2. Ring2!TypeOK /\ [Ring2!Next]_Ring2!vars => [Ring2!Queue!Next]_<<Ring2!Pending(r), queueGot>>
  <2> SUFFICES ASSUME Ring2!TypeOK, [Ring2!Next]_Ring2!vars
               PROVE  [Ring2!Queue!Next]_<<Ring2!Pending(r), queueGot>>
    OBVIOUS
  <2>0. r \in Ring /\ Ring2!Pending(r) = q /\ Ring2!Pending(r)' = q'
    BY SameRings DEF Ring2!TypeOK
  <2>1. CASE Ring2!PopByte
    <3>1. CASE IsEmpty(r)
      <4>1. q = <<>>
        BY <2>0, <3>1, EmptyPending
      <4>2. queueGot' = Unset /\ UNCHANGED queueRing
        BY <2>1, <3>1, SameRings DEF Ring2!PopByte
      <4> QED BY <2>0, <4>1, <4>2 DEF Ring2!Queue!Next, Ring2!Queue!Get
    <3>2. CASE ~IsEmpty(r)
      <4>1. r' = Pop(r) /\ queueGot' = Oldest(r)
        BY <2>1, <3>2, SameRings DEF Ring2!PopByte
      <4>2. q # <<>> /\ Oldest(r) = Head(q) /\ q' = Tail(q)
        BY <2>0, <3>2, <4>1, PopTakesOldest
      <4> QED BY <2>0, <4>1, <4>2 DEF Ring2!Queue!Next, Ring2!Queue!Get
    <3> QED BY <3>1, <3>2
  <2>2. ASSUME NEW b \in Pushed, Ring2!PushByte(b) PROVE Ring2!Queue!Put(b)
    <3>1. b \in Byte /\ r' = Push(r, b) /\ queueGot' = Unset
      BY <2>2, SameRings, BytesAssumption DEF Ring2!PushByte, Ring2!PushedAssumption
    <3>2. q' = Append(IF Len(q) = Size - 1 THEN Tail(q) ELSE q, b)
      BY <2>0, <3>1, PushAppends
    <3> QED BY <2>0, <3>1, <3>2 DEF Ring2!Queue!Put
  <2>3. CASE UNCHANGED Ring2!vars
    BY <2>3 DEF Ring2!vars
  <2> QED BY <2>1, <2>2, <2>3 DEF Ring2!Next, Ring2!Queue!Next
<1> QED BY <1>1, <1>2, RingTypeOK, PTL DEF Ring2!Spec, Ring2!ImplementsQueue, Ring2!Queue!Spec

-----------------------------------------------------------------------------
(* A behaviour of one unit is a behaviour of each: the others stand still.  *)

LEMMA UnitsBehave == UnitSpec => Spec /\ Rx!Spec /\ Ring2!Spec
<1>1. UnitInit => Init /\ Rx!Init /\ Ring2!Init
  BY DEF UnitInit
<1>2. [UnitNext]_<<unit, vars, rxVars, queueVars>> =>
        [Next]_vars /\ [Rx!Next]_Rx!vars /\ [Ring2!Next]_Ring2!vars
  BY Zenon DEF UnitNext, rxVars, queueVars, Rx!vars, Ring2!vars
<1> QED BY <1>1, <1>2, PTL DEF UnitSpec, Spec, Rx!Spec, Ring2!Spec

\* The three rings keep their indices, and the counting macros agree with what is
\* in them (ringbuffer.h, usart.c).
THEOREM RingsHold == UnitSpec => []RingsConsistent
BY UnitsBehave, TypeCorrect, ReceiverKeepsOrder, RingTypeOK, PTL DEF RingsConsistent

\* Bytes are received in order, and lost by an overflow only (usart.c:187-192,
\* 219-223).
THEOREM OrderReceived == UnitSpec => []ReceivedInOrder
BY UnitsBehave, ReceiverKeepsOrder, PTL DEF ReceivedInOrder

\* A ring with one caller is a queue that drops its oldest byte.
THEOREM RingIsQueue == UnitSpec => ImplementsQueue
BY UnitsBehave, RingImplementsQueue, PTL DEF ImplementsQueue

=============================================================================
