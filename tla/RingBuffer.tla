----------------------------- MODULE RingBuffer -----------------------------
(***************************************************************************)
(* The byte ring of libat90/ringbuffer.h: Size slots, the index of the     *)
(* oldest byte and the index one past the newest.  One slot is always      *)
(* unused, so that equal indices mean "empty".  The operators take the     *)
(* ring as a record; the modules of the USART and of the CAN driver keep   *)
(* such a record as a variable.                                            *)
(***************************************************************************)
EXTENDS Integers, Sequences

CONSTANTS
  Size,     \* number of slots
  Byte,     \* what a slot can hold
  Unset     \* content of a slot nobody has written

IsPow2(n) == \E k \in 0..15 : n = 2^k

\* rb_init refuses sizes that are no power of two; size_t has 16 bits.
ASSUME SizeAssumption ==
  /\ Size \in Nat
  /\ 1 < Size /\ Size <= 32768
  /\ Unset \notin Byte

ASSUME SizeIsPow2 == IsPow2(Size)

Index == 0 .. Size - 1

Ring == [slots : [Index -> Byte \cup {Unset}], start : Index, end : Index]

\* Masking with size-1 is a remainder because Size is a power of two.
NextIndex(i) == (i + 1) % Size

EmptyRing == [slots |-> [i \in Index |-> Unset], start |-> 0, end |-> 0]

IsEmpty(r) == r.end = r.start

IsFull(r) == NextIndex(r.end) = r.start

\* A slip: the wrapped case forgotten.
BytesUsedUnwrapped(r) == (r.end - r.start) % 65536

\* Unsigned 16-bit arithmetic: the difference may wrap and wrap back.
BytesUsed(r) ==
  (((r.end - r.start) % 65536) + (IF r.end < r.start THEN Size ELSE 0)) % 65536

Left(r) ==
  (IF r.start > r.end THEN r.start - r.end ELSE Size - (r.end - r.start)) - 1

\* A slip: a push that forgets to move the start of a full ring.
PushStuck(r, b) ==
  [slots |-> [r.slots EXCEPT ![r.end] = b], start |-> r.start, end |-> NextIndex(r.end)]

\* A push never fails: when it makes the indices equal it drops the oldest.
Push(r, b) ==
  LET e == NextIndex(r.end)
  IN  [slots |-> [r.slots EXCEPT ![r.end] = b],
       start |-> IF e = r.start THEN NextIndex(r.start) ELSE r.start,
       end   |-> e]

\* A pop of a non-empty ring; the byte it yields is Oldest(r).
Pop(r) == [r EXCEPT !.start = NextIndex(r.start)]

Oldest(r) == r.slots[r.start]

-----------------------------------------------------------------------------
\* The bytes a ring holds, oldest first.
Pending(r) ==
  [k \in 1 .. ((r.end - r.start) % Size) |-> r.slots[(r.start + k - 1) % Size]]

=============================================================================
