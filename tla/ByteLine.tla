------------------------------ MODULE ByteLine ------------------------------
(***************************************************************************)
(* What the sending half of a USART promises to the program: bytes, here   *)
(* numbered in the order in which they are put, leave on the wire in that  *)
(* order and none is left out.  It is not exactly-once: when the line has  *)
(* just drained it may send its last Depth slots over again.               *)
(***************************************************************************)
EXTENDS Integers, Sequences

CONSTANTS Depth, Unset

VARIABLES
  put,      \* number of bytes accepted
  queue,    \* bytes still to be sent, oldest first
  wire      \* bytes sent, in order

Init == put = 0 /\ queue = <<>> /\ wire = <<>>

Put ==
  /\ Len(queue) < Depth
  /\ put' = put + 1
  /\ queue' = Append(queue, put + 1)
  /\ UNCHANGED wire

Send ==
  /\ queue # <<>>
  /\ wire' = Append(wire, Head(queue))
  /\ queue' = Tail(queue)
  /\ UNCHANGED put

\* Slots that were never filled come out as Unset.
Replay ==
  /\ put > 0
  /\ queue = <<>>
  /\ queue' = [i \in 1 .. Depth |-> IF put - Depth + i > 0 THEN put - Depth + i ELSE Unset]
  /\ UNCHANGED <<put, wire>>

Next == Put \/ Send \/ Replay

Spec == Init /\ [][Next]_<<put, queue, wire>>

=============================================================================
