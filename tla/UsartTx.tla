------------------------------- MODULE UsartTx -------------------------------
(***************************************************************************)
(* The sending half of libat90/usart.c: usart0_putbyte, run by the main    *)
(* program, and the data-register-empty interrupt share a ring.  The       *)
(* interrupt runs to completion between any two steps of putbyte; putbyte  *)
(* works through rb_push one memory access at a time.  The indices' high   *)
(* bytes are always zero (no ring is larger than 256), so that an access   *)
(* to an index is one step although the processor has 8 bits.              *)
(*                                                                         *)
(* A byte is represented by its place in the order of the putbyte calls.   *)
(***************************************************************************)
EXTENDS RingBuffer

CONSTANT MaxPuts    \* bound on the number of putbyte calls

ASSUME PutsAssumption == MaxPuts \in Nat /\ 1 .. MaxPuts \subseteq Byte /\ Unset = 0

VARIABLES
  rb,       \* usart0_rb_out
  pc,       \* where the main program is in usart0_putbyte
  udrie,    \* whether the data-register-empty interrupt is enabled
  put,      \* number of bytes pushed so far
  wire      \* history: the bytes written to UDR0

vars == <<rb, pc, udrie, put, wire>>

Init ==
  /\ rb = EmptyRing
  /\ pc = "idle"
  /\ udrie = FALSE
  /\ put = 0
  /\ wire = <<>>

-----------------------------------------------------------------------------
\* The main program calls putbyte; it waits until the ring is not full.
PutByte ==
  /\ pc = "idle"
  /\ put < MaxPuts
  /\ pc' = "wait"
  /\ UNCHANGED <<rb, udrie, put, wire>>

\* A slip: rb_push without the wait for a free slot.
SpaceUnchecked ==
  /\ pc = "wait"
  /\ pc' = "store"
  /\ UNCHANGED <<rb, udrie, put, wire>>

SpaceFound ==
  /\ pc = "wait"
  /\ ~IsFull(rb)
  /\ pc' = "store"
  /\ UNCHANGED <<rb, udrie, put, wire>>

\* rb_push, first statement: the byte into the slot at the end.
StoreByte ==
  /\ pc = "store"
  /\ rb' = [rb EXCEPT !.slots[rb.end] = put + 1]
  /\ pc' = "advance"
  /\ UNCHANGED <<udrie, put, wire>>

\* A slip: the slot behind the end.
AdvanceTwice ==
  /\ pc = "advance"
  /\ rb' = [rb EXCEPT !.end = NextIndex(NextIndex(rb.end))]
  /\ put' = put + 1
  /\ pc' = "test"
  /\ UNCHANGED <<udrie, wire>>

\* rb_push, second statement: the end moves on, the byte is in the ring.
AdvanceEnd ==
  /\ pc = "advance"
  /\ rb' = [rb EXCEPT !.end = NextIndex(rb.end)]
  /\ put' = put + 1
  /\ pc' = "test"
  /\ UNCHANGED <<udrie, wire>>

\* rb_push, the condition: equal indices are taken for an overflow.
TestOverflow ==
  /\ pc = "test"
  /\ pc' = IF IsEmpty(rb) THEN "overwrite" ELSE "enable"
  /\ UNCHANGED <<rb, udrie, put, wire>>

\* rb_push, the body of the condition: drop what is thought to be the oldest.
\* The indices are equal, so that the interrupt cannot change them meanwhile.
DropOldest ==
  /\ pc = "overwrite"
  /\ rb' = [rb EXCEPT !.start = NextIndex(rb.start)]
  /\ pc' = "enable"
  /\ UNCHANGED <<udrie, put, wire>>

\* A slip: putbyte returns without enabling the interrupt.
ReturnOnly ==
  /\ pc = "enable"
  /\ pc' = "idle"
  /\ UNCHANGED <<rb, udrie, put, wire>>

\* putbyte enables the interrupt and returns.
EnableInterrupt ==
  /\ pc = "enable"
  /\ udrie' = TRUE
  /\ pc' = "idle"
  /\ UNCHANGED <<rb, put, wire>>

\* The interrupt handler: send the oldest byte, or disable the interrupt.  The
\* data register is double-buffered, so it may come again at once.
UdreInterrupt ==
  /\ udrie
  /\ \/ /\ ~IsEmpty(rb)
        /\ wire' = Append(wire, Oldest(rb))
        /\ rb' = Pop(rb)
        /\ UNCHANGED udrie
     \/ /\ IsEmpty(rb)
        /\ udrie' = FALSE
        /\ UNCHANGED <<rb, wire>>
  /\ UNCHANGED <<pc, put>>

InPutByte ==
  SpaceFound \/ StoreByte \/ AdvanceEnd \/ TestOverflow \/ DropOldest \/ EnableInterrupt

Next == PutByte \/ InPutByte \/ UdreInterrupt

Spec == Init /\ [][Next]_vars

\* The processor keeps executing and the transmitter keeps emptying its data
\* register; nothing makes the program call putbyte.
FairSpec == Spec /\ WF_vars(InPutByte) /\ WF_vars(UdreInterrupt)

-----------------------------------------------------------------------------
\* The indices stay in the ring, and putbyte is at one of its steps.
TypeOK ==
  /\ rb \in Ring
  /\ pc \in {"idle", "wait", "store", "advance", "test", "overwrite", "enable"}
  /\ udrie \in BOOLEAN
  /\ put \in 0 .. MaxPuts
  /\ wire \in Seq(Byte \cup {Unset})

\* When no putbyte is under way and bytes wait in the ring, the interrupt that
\* will send them is enabled: the handler's disabling never wins over a
\* putbyte that has just added a byte (usart.c:194-201, 225-233).
NoLostWakeup == pc = "idle" /\ ~IsEmpty(rb) => udrie

Elements(s) == {s[i] : i \in 1 .. Len(s)}

\* Every byte putbyte has accepted has been sent or is still in the ring, no
\* matter where the interrupt struck; rb_push's dropping of the "oldest" byte
\* never loses one (usart.c:194-233, ringbuffer.h:115-137).
NothingLost == \A n \in 1 .. put : n \in Elements(wire) \cup Elements(Pending(rb))

\* The sender is a line that keeps the order of the bytes and leaves none out,
\* but may repeat its last Size - 1 slots after it has drained.
Line == INSTANCE ByteLine WITH Depth <- Size - 1, queue <- Pending(rb)
ImplementsLine == Line!Spec

\* Every byte given to putbyte is sent in the end, the waiting for a free slot
\* included (usart.c:194-201).
EventuallySent ==
  \A n \in Byte : (pc = "wait" /\ put = n - 1) ~> (n \in Elements(wire))

=============================================================================
