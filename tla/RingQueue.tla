------------------------------ MODULE RingQueue ------------------------------
(***************************************************************************)
(* A ring used by one caller at a time: every sequence of rb_push and      *)
(* rb_pop calls.  It implements a queue that drops its oldest byte.        *)
(***************************************************************************)
EXTENDS RingBuffer

CONSTANT Pushed    \* the bytes that are pushed

PushedAssumption == Pushed \subseteq Byte

VARIABLES
  rb,       \* the ring
  got       \* byte returned by the last rb_pop, Unset when it returned -1

vars == <<rb, got>>

Init == rb = EmptyRing /\ got = Unset

PushByte(b) == rb' = Push(rb, b) /\ got' = Unset

PopByte ==
  \/ /\ IsEmpty(rb)
     /\ got' = Unset
     /\ UNCHANGED rb
  \/ /\ ~IsEmpty(rb)
     /\ got' = Oldest(rb)
     /\ rb' = Pop(rb)

Next == PopByte \/ \E b \in Pushed : PushByte(b)

Spec == Init /\ [][Next]_vars

-----------------------------------------------------------------------------
\* The ring's indices stay inside the ring and its slots hold bytes
\* (rb_push, rb_pop).
TypeOK == rb \in Ring /\ got \in Byte \cup {Unset}

\* rb_bytesUsed, rb_left, rb_isEmpty and rb_isFull, each computed from the
\* indices in its own way, agree with the number of bytes held, in every
\* position of the two indices (ringbuffer.h:71-87, 139-141).
CountsAgree ==
  /\ BytesUsed(rb) = Len(Pending(rb))
  /\ Left(rb) = Size - 1 - Len(Pending(rb))
  /\ IsEmpty(rb) <=> Pending(rb) = <<>>
  /\ IsFull(rb) <=> Len(Pending(rb)) = Size - 1

\* The ring is a FIFO queue of Size - 1 bytes that drops its oldest byte when
\* a byte is pushed into a full ring (rb_push, rb_pop).
Queue == INSTANCE DropOldestQueue
           WITH Capacity <- Size - 1, Byte <- Pushed, Nothing <- Unset, queue <- Pending(rb)
ImplementsQueue == Queue!Spec

=============================================================================
