------------------------------- MODULE MCUsart -------------------------------
(* The byte ring and the two halves of the USART driver on small rings.  A    *)
(* behaviour is one of the sending half (UsartTx), of the receiving half       *)
(* (UsartRx) or of a ring with a single caller (RingQueue): the halves have a  *)
(* ring each and share nothing, so that a product of them would show no more.  *)
EXTENDS UsartTx

CONSTANTS
  Units,       \* which of "tx", "rx", "queue" are checked
  MaxBytes,    \* bound on the bytes that arrive
  Pushed       \* the bytes that a single caller pushes

VARIABLES
  unit,                                                           \* which one this behaviour is of
  rxRing, rxPc, rxReg, rxData, rxArrived, rxGot, rxOverflowed,    \* UsartRx
  queueRing, queueGot                                             \* RingQueue

Rx == INSTANCE UsartRx
        WITH rb <- rxRing, pc <- rxPc, reg <- rxReg, data <- rxData,
             arrived <- rxArrived, got <- rxGot, overflowed <- rxOverflowed
Ring2 == INSTANCE RingQueue WITH rb <- queueRing, got <- queueGot

ASSUME BytesAssumption == Rx!RxAssumption /\ Ring2!PushedAssumption

rxVars == <<rxRing, rxPc, rxReg, rxData, rxArrived, rxGot, rxOverflowed>>
queueVars == <<queueRing, queueGot>>

UnitInit == unit \in Units /\ Init /\ Rx!Init /\ Ring2!Init

UnitNext ==
  /\ UNCHANGED unit
  /\ \/ unit = "tx" /\ Next /\ UNCHANGED <<rxVars, queueVars>>
     \/ unit = "rx" /\ Rx!Next /\ UNCHANGED <<vars, queueVars>>
     \/ unit = "queue" /\ Ring2!Next /\ UNCHANGED <<vars, rxVars>>

\* The fairness of UsartTx!FairSpec.
UnitSpec ==
  /\ UnitInit /\ [][UnitNext]_<<unit, vars, rxVars, queueVars>>
  /\ WF_vars(unit = "tx" /\ InPutByte) /\ WF_vars(unit = "tx" /\ UdreInterrupt)

-----------------------------------------------------------------------------
\* The indices of the three rings stay inside them, the callers are at one of
\* their steps, and rb_bytesUsed, rb_left, rb_isEmpty and rb_isFull agree with
\* the bytes held, in every position of the indices (ringbuffer.h:71-141).
RingsConsistent == TypeOK /\ Rx!TypeOK /\ Ring2!TypeOK /\ Ring2!CountsAgree

\* The receive interrupt may strike anywhere in rb_pop: getc returns only bytes
\* that arrived, and until the ring has overflowed it returns all of them, in
\* order (usart.c:187-192, 219-223).
ReceivedInOrder == Rx!GetcReturnsAByte /\ Rx!LossOnlyByOverflow

\* Used by one caller at a time, the ring is a queue of Size - 1 bytes that drops
\* its oldest byte (rb_push, rb_pop).
ImplementsQueue == Ring2!ImplementsQueue

=============================================================================
