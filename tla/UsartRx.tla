------------------------------- MODULE UsartRx -------------------------------
(***************************************************************************)
(* The receiving half of libat90/usart.c: the receive interrupt pushes     *)
(* each byte into a ring without looking whether it is full, and           *)
(* usart0_getc, run by the main program, waits for data and pops.  The     *)
(* interrupt runs to completion between any two memory accesses of rb_pop. *)
(* The volatile qualifier of the ring is cast away in getc, so that the    *)
(* compiler may keep the start index in a register or load it again.       *)
(*                                                                         *)
(* A byte is represented by its place in the order of arrival.             *)
(***************************************************************************)
EXTENDS RingBuffer

CONSTANT MaxBytes    \* bound on the number of bytes that arrive

RxAssumption == MaxBytes \in Nat /\ 1 .. MaxBytes \subseteq Byte /\ Unset = 0

VARIABLES
  rb,          \* usart0_rb_in
  pc,          \* where the main program is in usart0_getc
  reg,         \* the register that holds the start index inside rb_pop
  data,        \* getc's local variable, Unset before rb_pop assigns it
  arrived,     \* number of bytes the interrupt has pushed
  got,         \* history: what getc has returned
  overflowed   \* history: whether a byte arrived while the ring was full

vars == <<rb, pc, reg, data, arrived, got, overflowed>>

Init ==
  /\ rb = EmptyRing
  /\ pc = "idle"
  /\ reg = 0
  /\ data = Unset
  /\ arrived = 0
  /\ got = <<>>
  /\ overflowed = FALSE

-----------------------------------------------------------------------------
RxInterrupt ==
  /\ arrived < MaxBytes
  /\ arrived' = arrived + 1
  /\ rb' = Push(rb, arrived + 1)
  /\ overflowed' = (overflowed \/ IsFull(rb))
  /\ UNCHANGED <<pc, reg, data, got>>

Getc ==
  /\ pc = "idle"
  /\ pc' = "wait"
  /\ data' = Unset
  /\ UNCHANGED <<rb, reg, arrived, got, overflowed>>

\* while (!usart0_has_data())
DataFound ==
  /\ pc = "wait"
  /\ ~IsEmpty(rb)
  /\ pc' = "pop"
  /\ UNCHANGED <<rb, reg, data, arrived, got, overflowed>>

\* rb_pop's own test for data; getc does not look at its result.
PopTests ==
  /\ pc = "pop"
  /\ pc' = IF IsEmpty(rb) THEN "return" ELSE "read"
  /\ reg' = rb.start
  /\ UNCHANGED <<rb, data, arrived, got, overflowed>>

\* The compiled code may fetch the start index anew before either use.
PopReloads ==
  /\ pc \in {"read", "move"}
  /\ reg' = rb.start
  /\ UNCHANGED <<rb, pc, data, arrived, got, overflowed>>

PopReads ==
  /\ pc = "read"
  /\ data' = rb.slots[reg]
  /\ pc' = "move"
  /\ UNCHANGED <<rb, reg, arrived, got, overflowed>>

\* A slip: the pop discards everything that is pending.
PopMovesToEnd ==
  /\ pc = "move"
  /\ rb' = [rb EXCEPT !.start = rb.end]
  /\ pc' = "return"
  /\ UNCHANGED <<reg, data, arrived, got, overflowed>>

PopMovesStart ==
  /\ pc = "move"
  /\ rb' = [rb EXCEPT !.start = NextIndex(reg)]
  /\ pc' = "return"
  /\ UNCHANGED <<reg, data, arrived, got, overflowed>>

Return ==
  /\ pc = "return"
  /\ got' = Append(got, data)
  /\ pc' = "idle"
  /\ UNCHANGED <<rb, reg, data, arrived, overflowed>>

Next ==
  \/ RxInterrupt
  \/ Getc \/ DataFound \/ PopTests \/ PopReloads \/ PopReads \/ PopMovesStart \/ Return

Spec == Init /\ [][Next]_vars

-----------------------------------------------------------------------------
\* The indices stay in the ring, whatever the interrupt does to a pop under way.
TypeOK ==
  /\ rb \in Ring
  /\ pc \in {"idle", "wait", "pop", "read", "move", "return"}
  /\ reg \in Index
  /\ data \in Byte \cup {Unset}
  /\ arrived \in 0 .. MaxBytes
  /\ got \in Seq(Byte \cup {Unset})
  /\ overflowed \in BOOLEAN

\* getc ignores the result of rb_pop and never needs it: what it returns is
\* always a byte that has arrived, never its uninitialised local variable and
\* never an unwritten slot (usart.c:187-192).
GetcReturnsAByte == \A i \in DOMAIN got : got[i] \in 1 .. arrived

\* As long as no byte arrived in a full ring, the bytes returned, the byte on
\* its way out and the bytes pending are exactly those that arrived, in order;
\* the interrupt may strike anywhere in rb_pop (usart.c:187-192, 219-223).
LossOnlyByOverflow ==
  LET out == IF pc = "return" THEN Append(got, data) ELSE got
  IN  ~overflowed => out \o Pending(rb) = [n \in 1 .. arrived |-> n]

=============================================================================
