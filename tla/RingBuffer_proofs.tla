-------------------------- MODULE RingBuffer_proofs --------------------------
(***************************************************************************)
(* What rb_push and rb_pop, and the single statements of rb_push, do to    *)
(* the bytes a ring holds, for every size of the ring.                     *)
(***************************************************************************)
EXTENDS RingBuffer, SequenceTheorems, TLAPS

\* The index after i, the distance from s to e, and the k-th slot from s on,
\* without remainders.
Succ(i) == IF i = Size - 1 THEN 0 ELSE i + 1
Dist(s, e) == IF e < s THEN e - s + Size ELSE e - s
At(s, k) == IF s + k - 1 < Size THEN s + k - 1 ELSE s + k - 1 - Size

\* Masking an index leaves it in the ring: the last index wraps to the first.
LEMMA NextIndexType ==
  ASSUME NEW i \in Index
  PROVE  NextIndex(i) = Succ(i) /\ Succ(i) \in Index
<1>1. i \in 0 .. Size - 1 /\ Size \in Nat /\ 1 < Size
  BY SizeAssumption DEF Index
<1>2. (i + 1) % Size = IF i + 1 < Size THEN i + 1 ELSE i + 1 - Size
  BY <1>1
<1> QED BY <1>1, <1>2 DEF NextIndex, Index, Succ

\* The number of bytes between two indices is less than the size.
LEMMA Distance ==
  ASSUME NEW s \in Index, NEW e \in Index
  PROVE  /\ (e - s) % Size = Dist(s, e)
         /\ Dist(s, e) \in Index
         /\ Dist(s, e) = 0 <=> s = e
<1>1. /\ e \in 0 .. Size - 1 /\ s \in 0 .. Size - 1 /\ Size \in Nat /\ 1 < Size
  BY SizeAssumption DEF Index
<1>2. (e - s) % Size = IF e < s THEN e - s + Size ELSE e - s
  BY <1>1
<1> QED BY <1>1, <1>2 DEF Index, Dist

\* The slot that lies k - 1 places after an index.
LEMMA Offset ==
  ASSUME NEW s \in Index, NEW k \in 1 .. Size
  PROVE  (s + k - 1) % Size = At(s, k) /\ At(s, k) \in Index
<1>1. s \in 0 .. Size - 1 /\ k \in 1 .. Size /\ Size \in Nat /\ 1 < Size
  BY SizeAssumption DEF Index
<1>2. (s + k - 1) % Size = IF s + k - 1 < Size THEN s + k - 1 ELSE s + k - 1 - Size
  BY <1>1
<1> QED BY <1>1, <1>2 DEF Index, At

\* Moving the start of a non-empty ring brings it one byte nearer to the end.
LEMMA StartMoves ==
  ASSUME NEW s \in Index, NEW e \in Index, s # e
  PROVE  Dist(Succ(s), e) = Dist(s, e) - 1
BY SizeAssumption DEF Index, Succ, Dist

\* Moving the end adds a byte, unless it runs into the start of a full ring.
LEMMA EndMoves ==
  ASSUME NEW s \in Index, NEW e \in Index
  PROVE  /\ Dist(s, e) = Size - 1 <=> Succ(e) = s
         /\ Succ(e) # s => Dist(s, Succ(e)) = Dist(s, e) + 1
         /\ Succ(e) = s => Dist(Succ(s), Succ(e)) = Size - 1
BY SizeAssumption DEF Index, Succ, Dist

\* The slots from one place further on, the slot at the end, and the slots
\* before the end.
LEMMA SlotMoves ==
  ASSUME NEW s \in Index, NEW e \in Index, NEW k \in 1 .. Size - 1
  PROVE  /\ At(Succ(s), k) = At(s, k + 1)
         /\ At(s, Dist(s, e) + 1) = e
         /\ k <= Dist(s, e) => At(s, k) # e
         /\ At(s, 1) = s
BY SizeAssumption DEF Index, Succ, Dist, At

\* A function on 1..n is a sequence of length n.
LEMMA FunctionIsSeq ==
  ASSUME NEW S, NEW n \in Nat, NEW f \in [1 .. n -> S]
  PROVE  f \in Seq(S) /\ Len(f) = n
OBVIOUS

\* Two sequences with equal lengths and elements are equal.
LEMMA SeqExtensional ==
  ASSUME NEW S, NEW s \in Seq(S), NEW t \in Seq(S), Len(s) = Len(t),
         \A k \in 1 .. Len(s) : s[k] = t[k]
  PROVE  s = t
BY SeqEqual

\* The bytes held by a ring: their number, where the k-th of them is, and how
\* the emptiness and fullness tests see it (rb_isEmpty, rb_isFull).
LEMMA PendingBytes ==
  ASSUME NEW r \in Ring
  PROVE  /\ Pending(r) \in Seq(Byte \cup {Unset})
         /\ Len(Pending(r)) = Dist(r.start, r.end)
         /\ \A k \in 1 .. Len(Pending(r)) : Pending(r)[k] = r.slots[At(r.start, k)]
         /\ IsEmpty(r) <=> Len(Pending(r)) = 0
         /\ IsFull(r) <=> Len(Pending(r)) = Size - 1
<1> DEFINE n == Dist(r.start, r.end)
<1>1. r.start \in Index /\ r.end \in Index /\ r.slots \in [Index -> Byte \cup {Unset}]
  BY DEF Ring
<1>2. n = (r.end - r.start) % Size /\ n \in Index
  BY <1>1, Distance
<1>3. n \in Nat /\ n <= Size - 1
  BY <1>2, SizeAssumption DEF Index
<1> HIDE DEF n
<1>4. ASSUME NEW k \in 1 .. n
      PROVE  /\ (r.start + k - 1) % Size = At(r.start, k)
             /\ At(r.start, k) \in Index
  <2>1. k \in 1 .. Size
    BY <1>3, SizeAssumption
  <2> QED BY <1>1, <2>1, Offset
<1>5. Pending(r) = [k \in 1 .. n |-> r.slots[At(r.start, k)]]
  BY <1>2, <1>4 DEF Pending
<1>6. Pending(r) \in [1 .. n -> Byte \cup {Unset}]
  BY <1>1, <1>4, <1>5
<1>7. Pending(r) \in Seq(Byte \cup {Unset}) /\ Len(Pending(r)) = n
  BY <1>3, <1>6, FunctionIsSeq
<1>8. IsEmpty(r) <=> n = 0
  BY <1>1, Distance DEF n, IsEmpty
<1>9. IsFull(r) <=> n = Size - 1
  BY <1>1, EndMoves, NextIndexType DEF n, IsFull
<1> QED BY <1>5, <1>7, <1>8, <1>9 DEF n

\* rb_pop takes the oldest byte and leaves the others in order.
LEMMA PopTakesOldest ==
  ASSUME NEW r \in Ring, ~IsEmpty(r)
  PROVE  /\ Pop(r) \in Ring
         /\ Pending(r) # <<>>
         /\ Oldest(r) = Head(Pending(r))
         /\ Pending(Pop(r)) = Tail(Pending(r))
<1> DEFINE p == Pop(r)  S == Byte \cup {Unset}
           n == Dist(r.start, r.end)
<1>1. r.start \in Index /\ r.end \in Index /\ r.slots \in [Index -> S] /\ r.start # r.end
  BY DEF Ring, IsEmpty
<1>2. NextIndex(r.start) = Succ(r.start) /\ Succ(r.start) \in Index
  BY <1>1, NextIndexType
<1>3. p \in Ring /\ p.start = Succ(r.start) /\ p.end = r.end /\ p.slots = r.slots
  BY <1>1, <1>2 DEF Ring, Pop
<1> HIDE DEF p, n
<1>4. n \in 1 .. Size - 1
  BY <1>1, Distance, SizeAssumption DEF Index, n
<1>5. /\ Pending(r) \in Seq(S) /\ Len(Pending(r)) = n
      /\ \A k \in 1 .. n : Pending(r)[k] = r.slots[At(r.start, k)]
  BY PendingBytes DEF n
<1>6. Dist(p.start, p.end) = n - 1
  BY <1>1, <1>3, StartMoves DEF n
<1>7. /\ Pending(p) \in Seq(S) /\ Len(Pending(p)) = n - 1
      /\ \A k \in 1 .. n - 1 : Pending(p)[k] = r.slots[At(Succ(r.start), k)]
  BY <1>3, <1>6, PendingBytes
<1>8. Pending(r) # <<>> /\ Head(Pending(r)) = Pending(r)[1]
  BY <1>4, <1>5
<1>9. Pending(r)[1] = r.slots[r.start]
  <2>1. At(r.start, 1) = r.start /\ 1 \in 1 .. n
    BY <1>1, <1>4, SlotMoves, SizeAssumption
  <2> QED BY <1>5, <2>1
<1>10. /\ Tail(Pending(r)) \in Seq(S) /\ Len(Tail(Pending(r))) = n - 1
       /\ \A k \in 1 .. n - 1 : Tail(Pending(r))[k] = Pending(r)[k + 1]
  BY <1>4, <1>5, <1>8, HeadTailProperties
<1>11. ASSUME NEW k \in 1 .. n - 1
       PROVE  Pending(p)[k] = Tail(Pending(r))[k]
  <2>1. k \in 1 .. Size - 1 /\ k + 1 \in 1 .. n
    BY <1>4, SizeAssumption
  <2>2. At(Succ(r.start), k) = At(r.start, k + 1)
    BY <1>1, <2>1, SlotMoves
  <2> QED BY <1>5, <1>7, <1>10, <2>1, <2>2
<1>12. Pending(p) = Tail(Pending(r))
  BY <1>7, <1>10, <1>11, SeqExtensional
<1> QED BY <1>3, <1>8, <1>9, <1>12 DEF p, Oldest

\* rb_push appends its byte, and drops the oldest one from a full ring.
LEMMA PushAppends ==
  ASSUME NEW r \in Ring, NEW b \in Byte
  PROVE  /\ Push(r, b) \in Ring
         /\ Pending(Push(r, b)) =
              Append(IF Len(Pending(r)) = Size - 1 THEN Tail(Pending(r)) ELSE Pending(r), b)
<1> DEFINE p == Push(r, b)  S == Byte \cup {Unset}
           n == Dist(r.start, r.end)
           kept == IF Len(Pending(r)) = Size - 1 THEN Tail(Pending(r)) ELSE Pending(r)
           from == IF n = Size - 1 THEN Succ(r.start) ELSE r.start
           m == IF n = Size - 1 THEN n - 1 ELSE n
<1>1. r.start \in Index /\ r.end \in Index /\ r.slots \in [Index -> S] /\ n \in Index
  BY Distance DEF Ring
<1>2. /\ NextIndex(r.start) = Succ(r.start) /\ NextIndex(r.end) = Succ(r.end)
      /\ Succ(r.start) \in Index /\ Succ(r.end) \in Index
  BY <1>1, NextIndexType
<1>3. n = Size - 1 <=> Succ(r.end) = r.start
  BY <1>1, EndMoves
<1>4. /\ p \in Ring /\ p.start = from /\ p.end = Succ(r.end)
      /\ p.slots = [r.slots EXCEPT ![r.end] = b]
  BY <1>1, <1>2, <1>3 DEF Ring, Push
<1>5. /\ from \in Index /\ m \in 0 .. Size - 2 /\ Dist(from, r.end) = m
      /\ Dist(from, Succ(r.end)) = m + 1
  <2>0. n \in 0 .. Size - 1 /\ Size \in Nat /\ 1 < Size
    BY <1>1, SizeAssumption DEF Index
  <2>1. CASE n = Size - 1
    <3>1. r.start # r.end
      BY <1>1, <2>0, <2>1, Distance
    <3>2. Dist(Succ(r.start), r.end) = n - 1
      BY <1>1, <3>1, StartMoves
    <3>3. Dist(Succ(r.start), Succ(r.end)) = Size - 1
      BY <1>1, <1>3, <2>1, EndMoves
    <3> QED BY <1>2, <2>0, <2>1, <3>2, <3>3
  <2>2. CASE n # Size - 1
    <3>1. Dist(r.start, Succ(r.end)) = n + 1
      BY <1>1, <1>3, <2>2, EndMoves
    <3> QED BY <1>1, <2>0, <2>2, <3>1
  <2> QED BY <2>1, <2>2
<1> HIDE DEF p, n
<1>6. /\ Pending(r) \in Seq(S) /\ Len(Pending(r)) = n
      /\ \A k \in 1 .. n : Pending(r)[k] = r.slots[At(r.start, k)]
  BY PendingBytes DEF n
<1>7. /\ kept \in Seq(S) /\ Len(kept) = m
      /\ \A k \in 1 .. m : kept[k] = r.slots[At(from, k)]
  <2>1. CASE n = Size - 1
    <3>1. n \in Nat /\ 0 < n /\ Pending(r) # <<>>
      BY <1>6, <2>1, SizeAssumption
    <3>2. /\ Tail(Pending(r)) \in Seq(S) /\ Len(Tail(Pending(r))) = n - 1
          /\ \A k \in 1 .. n - 1 : Tail(Pending(r))[k] = Pending(r)[k + 1]
      BY <1>6, <3>1, HeadTailProperties
    <3>3. ASSUME NEW k \in 1 .. n - 1
          PROVE  Tail(Pending(r))[k] = r.slots[At(Succ(r.start), k)]
      <4>1. k \in 1 .. Size - 1 /\ k + 1 \in 1 .. n
        BY <2>1, <3>1, SizeAssumption
      <4>2. At(Succ(r.start), k) = At(r.start, k + 1)
        BY <1>1, <4>1, SlotMoves
      <4> QED BY <1>6, <3>2, <4>1, <4>2
    <3> QED BY <1>6, <2>1, <3>2, <3>3
  <2>2. CASE n # Size - 1
    BY <1>6, <2>2
  <2> QED BY <2>1, <2>2
<1> HIDE DEF kept, m, from
<1>8. /\ Pending(p) \in Seq(S) /\ Len(Pending(p)) = m + 1
      /\ \A k \in 1 .. m + 1 : Pending(p)[k] = p.slots[At(from, k)]
  <2>1. /\ Pending(p) \in Seq(S) /\ Len(Pending(p)) = Dist(p.start, p.end)
        /\ \A k \in 1 .. Len(Pending(p)) : Pending(p)[k] = p.slots[At(p.start, k)]
    BY <1>4, PendingBytes
  <2>2. p.start = from /\ Dist(p.start, p.end) = m + 1
    BY <1>4, <1>5
  <2> QED BY <2>1, <2>2
<1>9. /\ Append(kept, b) \in Seq(S) /\ Len(Append(kept, b)) = m + 1
      /\ \A k \in 1 .. m : Append(kept, b)[k] = kept[k]
      /\ Append(kept, b)[m + 1] = b
  BY <1>7
<1>10. ASSUME NEW k \in 1 .. m + 1
       PROVE  Pending(p)[k] = Append(kept, b)[k]
  <2>1. k \in 1 .. Size - 1 /\ Size - 1 \in 1 .. Size - 1
    BY <1>5, SizeAssumption
  <2>2. CASE k = m + 1
    <3>1. At(from, m + 1) = r.end
      BY <1>1, <1>5, <2>1, SlotMoves
    <3> QED BY <1>1, <1>4, <1>8, <1>9, <2>2, <3>1
  <2>3. CASE k # m + 1
    <3>1. k \in 1 .. m
      BY <1>5, <2>3
    <3>2. At(from, k) \in Index /\ At(from, k) # r.end
      <4>1. k \in 1 .. Size /\ k <= Dist(from, r.end)
        BY <1>5, <2>1, <3>1, SizeAssumption
      <4> QED BY <1>1, <1>5, <2>1, <4>1, Offset, SlotMoves
    <3>3. p.slots[At(from, k)] = r.slots[At(from, k)]
      BY <1>1, <1>4, <3>2
    <3> QED BY <1>7, <1>8, <1>9, <3>1, <3>3
  <2> QED BY <2>2, <2>3
<1>11. Pending(p) = Append(kept, b)
  BY <1>8, <1>9, <1>10, SeqExtensional
<1> QED BY <1>4, <1>11 DEF p, kept

\* The first statement of rb_push writes a slot that holds no pending byte.
LEMMA StoreKeepsPending ==
  ASSUME NEW r \in Ring, NEW b \in Byte
  PROVE  LET p == [r EXCEPT !.slots[r.end] = b]
         IN  p \in Ring /\ Pending(p) = Pending(r)
<1> DEFINE p == [r EXCEPT !.slots[r.end] = b]  n == Dist(r.start, r.end)
<1>1. r.start \in Index /\ r.end \in Index /\ r.slots \in [Index -> Byte \cup {Unset}]
  BY DEF Ring
<1>2. /\ p \in Ring /\ p.start = r.start /\ p.end = r.end
      /\ p.slots = [r.slots EXCEPT ![r.end] = b]
  BY <1>1 DEF Ring
<1>3. n \in Nat /\ n <= Size - 1
  <2>1. n \in Index
    BY <1>1, Distance
  <2> HIDE DEF n
  <2> QED BY <2>1, SizeAssumption DEF Index
<1> HIDE DEF p, n
<1>4. /\ Pending(r) \in Seq(Byte \cup {Unset}) /\ Len(Pending(r)) = n
      /\ \A k \in 1 .. n : Pending(r)[k] = r.slots[At(r.start, k)]
  BY PendingBytes DEF n
<1>5. /\ Pending(p) \in Seq(Byte \cup {Unset}) /\ Len(Pending(p)) = n
      /\ \A k \in 1 .. n : Pending(p)[k] = p.slots[At(r.start, k)]
  BY <1>2, PendingBytes DEF n
<1>6. ASSUME NEW k \in 1 .. n PROVE Pending(p)[k] = Pending(r)[k]
  <2>1. k \in 1 .. Size - 1 /\ k \in 1 .. Size /\ k <= Dist(r.start, r.end)
    BY <1>3, SizeAssumption DEF n
  <2>2. At(r.start, k) \in Index /\ At(r.start, k) # r.end
    BY <1>1, <2>1, Offset, SlotMoves
  <2> QED BY <1>1, <1>2, <1>4, <1>5, <2>2
<1>7. Pending(p) = Pending(r)
  BY <1>4, <1>5, <1>6, SeqExtensional
<1> QED BY <1>2, <1>7 DEF p

\* The second statement of rb_push, on a ring that is not full, appends the
\* byte that stands in the slot at the end.
LEMMA AdvanceAppends ==
  ASSUME NEW r \in Ring, ~IsFull(r), r.slots[r.end] \in Byte
  PROVE  LET p == [r EXCEPT !.end = NextIndex(r.end)]
         IN  p \in Ring /\ Pending(p) = Append(Pending(r), r.slots[r.end])
<1> DEFINE p == [r EXCEPT !.end = NextIndex(r.end)]  b == r.slots[r.end]
<1>1. r.start \in Index /\ r.end \in Index /\ r.slots \in [Index -> Byte \cup {Unset}]
  BY DEF Ring
<1>2. [r.slots EXCEPT ![r.end] = b] = r.slots
  BY <1>1
<1>3. Push(r, b) = p
  BY <1>2 DEF Push, IsFull, Ring
<1>4. Len(Pending(r)) # Size - 1
  BY PendingBytes
<1> QED BY <1>3, <1>4, PushAppends

\* The third statement of rb_push, on a ring with equal indices: every slot but
\* the one at the end becomes pending.
LEMMA DropRefills ==
  ASSUME NEW r \in Ring, IsEmpty(r)
  PROVE  LET p == [r EXCEPT !.start = NextIndex(r.start)]
         IN  /\ p \in Ring
             /\ Pending(p) = [k \in 1 .. Size - 1 |-> r.slots[At(r.end, k + 1)]]
<1> DEFINE p == [r EXCEPT !.start = NextIndex(r.start)]
           q == [k \in 1 .. Size - 1 |-> r.slots[At(r.end, k + 1)]]
<1>1. /\ r.start \in Index /\ r.end = r.start
      /\ r.slots \in [Index -> Byte \cup {Unset}]
  BY DEF Ring, IsEmpty
<1>2. NextIndex(r.start) = Succ(r.start) /\ Succ(r.start) \in Index
  BY <1>1, NextIndexType
<1>3. p \in Ring /\ p.start = Succ(r.end) /\ p.end = r.end /\ p.slots = r.slots
  BY <1>1, <1>2 DEF Ring
<1>4. Dist(Succ(r.end), r.end) = Size - 1
  BY <1>1, SizeAssumption DEF Dist, Succ, Index
<1> HIDE DEF p
<1>5. /\ Pending(p) \in Seq(Byte \cup {Unset}) /\ Len(Pending(p)) = Size - 1
      /\ \A k \in 1 .. Size - 1 : Pending(p)[k] = r.slots[At(Succ(r.end), k)]
  BY <1>3, <1>4, PendingBytes
<1>6. ASSUME NEW k \in 1 .. Size - 1
      PROVE  At(Succ(r.end), k) = At(r.end, k + 1) /\ At(r.end, k + 1) \in Index
  <2>1. k + 1 \in 1 .. Size
    BY SizeAssumption
  <2> QED BY <1>1, <2>1, SlotMoves, Offset
<1>7. q \in [1 .. Size - 1 -> Byte \cup {Unset}] /\ Size - 1 \in Nat
  BY <1>1, <1>6, SizeAssumption
<1>8. q \in Seq(Byte \cup {Unset}) /\ Len(q) = Size - 1
  BY <1>7, FunctionIsSeq
<1>9. \A k \in 1 .. Size - 1 : Pending(p)[k] = q[k]
  BY <1>5, <1>6
<1> HIDE DEF q
<1>10. Pending(p) = q
  BY <1>5, <1>8, <1>9, SeqExtensional
<1> QED BY <1>3, <1>10 DEF p, q

=============================================================================
