\* Six bytes out through a ring of four slots, which fills up, wraps around and
\* drains while putbyte is at each of its steps; nine bytes in through another,
\* which overflows and wraps around more than twice; and every pattern of two byte values.
SPECIFICATION UnitSpec
CONSTANTS
  Units = {"tx", "rx", "queue"}
  Size = 4
  MaxPuts = 6
  MaxBytes = 9
  Byte = {1, 2, 3, 4, 5, 6, 7, 8, 9}
  Pushed = {1, 2}
  Unset = 0
INVARIANTS RingsConsistent NoLostWakeup NothingLost ReceivedInOrder
PROPERTIES ImplementsLine EventuallySent ImplementsQueue
\* The program may stop calling putbyte, and getc waits when no byte arrives.
CHECK_DEADLOCK FALSE
