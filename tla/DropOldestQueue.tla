-------------------------- MODULE DropOldestQueue --------------------------
(***************************************************************************)
(* What a byte ring promises to its users: a FIFO queue of at most         *)
(* Capacity bytes, in which putting a byte into a full queue discards the  *)
(* oldest one, and getting from an empty queue reports an error.           *)
(***************************************************************************)
EXTENDS Naturals, Sequences

CONSTANTS Capacity, Byte, Nothing

VARIABLES
  queue,    \* the bytes held, oldest first
  got       \* result of the last operation: a byte, or Nothing

Init == queue = <<>> /\ got = Nothing

Put(b) ==
  /\ queue' = Append(IF Len(queue) = Capacity THEN Tail(queue) ELSE queue, b)
  /\ got' = Nothing

Get ==
  \/ queue = <<>> /\ got' = Nothing /\ UNCHANGED queue
  \/ queue # <<>> /\ got' = Head(queue) /\ queue' = Tail(queue)

Next == Get \/ \E b \in Byte : Put(b)

Spec == Init /\ [][Next]_<<queue, got>>

=============================================================================
