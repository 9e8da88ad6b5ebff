------------------------------- MODULE LogFile -------------------------------
(***************************************************************************)
(* The log of the communication node, nodes/ComNode/log.c: records are     *)
(* gathered in a buffer, and a full buffer is written to the card after    *)
(* what was written before has been synchronised.  The power may go at any *)
(* moment, and then the log ends at its last synchronisation.              *)
(*                                                                         *)
(* The bytes of a session are numbered in the order of their appending.    *)
(* The file system and the card are FatFs and diskio.c; here they either   *)
(* do what they are asked or fail.                                         *)
(***************************************************************************)
EXTENDS Integers, Sequences

CONSTANTS
  BUF_SIZE,   \* 512 in the code
  Sizes,      \* the sizes of records: an id, a time stamp, a value
  MaxLogs,    \* log numbers create_file tries: 1000 in the code
  MaxBytes    \* bound on the bytes of a session

ASSUME LogAssumption ==
  /\ BUF_SIZE \in Nat \ {0}
  /\ Sizes \subseteq 1 .. BUF_SIZE
  /\ MaxLogs \in Nat
  /\ MaxBytes \in Nat

VARIABLES
  buf,        \* p.buf, up to p.i
  open,       \* whether there is a log file to write to
  written,    \* what f_write has accepted
  synced,     \* how much of it a reader finds after a crash
  logs,       \* how many log files the card holds
  appended,   \* history: bytes appended in this session
  unsynced,   \* history: whether a synchronisation failed
  overrun     \* whether the program has written behind the buffer

vars == <<buf, open, written, synced, logs, appended, unsynced, overrun>>

\* The n bytes that follow the first few.
Bytes(few, n) == [k \in 1 .. n |-> few + k]

\* log_init: create_file takes the first number that is free.  It gives up when
\* there is none, or when the card does not answer, and nobody is told.
LogInit(n) ==
  \/ n < MaxLogs /\ open' = TRUE /\ logs' = n + 1
  \/ open' = FALSE /\ logs' = n

Init ==
  /\ buf = <<>> /\ written = <<>>
  /\ synced = 0 /\ appended = 0
  /\ \/ logs = 1 /\ open = TRUE /\ MaxLogs > 0
     \/ logs = 0 /\ open = FALSE
  /\ unsynced = FALSE /\ overrun = FALSE

-----------------------------------------------------------------------------
\* A record that fits is only copied.
AppendFits(n) ==
  /\ Len(buf) + n <= BUF_SIZE
  /\ buf' = buf \o Bytes(appended, n)
  /\ UNCHANGED <<open, written, synced, unsynced, overrun>>

\* A slip: the buffer is written without synchronising.
NoSync == UNCHANGED <<synced, unsynced>>

\* f_sync, whose result log_sync ignores.
Sync ==
  \/ open /\ synced' = Len(written) /\ UNCHANGED unsynced
  \/ unsynced' = TRUE /\ UNCHANGED synced

\* A slip: the pointer to the record is not moved on.
RestAgain(n, fill) == Bytes(appended, n - fill)

\* What remains of a record of n bytes, of which fill went into the buffer.
Rest(n, fill) == Bytes(appended + fill, n - fill)

\* A record that does not fit fills the buffer, which is synchronised and
\* written, and the rest of it starts the next one.
AppendSpills(n) ==
  LET fill == BUF_SIZE - Len(buf)
  IN  /\ Len(buf) + n > BUF_SIZE
      /\ Sync
      /\ open
      /\ written' = written \o buf \o Bytes(appended, fill)
      /\ buf' = Rest(n, fill)
      /\ UNCHANGED <<open, overrun>>

\* The write fails: the buffer stays full, and the rest goes behind it, over
\* p.i and whatever follows.  What the program does then is not modelled.
AppendOverruns(n) ==
  /\ Len(buf) + n > BUF_SIZE
  /\ Sync
  /\ buf' = buf \o Bytes(appended, BUF_SIZE - Len(buf))
  /\ overrun' = TRUE
  /\ UNCHANGED <<open, written>>

log_append(n) ==
  /\ ~overrun
  /\ appended + n <= MaxBytes
  /\ AppendFits(n) \/ AppendSpills(n) \/ AppendOverruns(n)
  /\ appended' = appended + n
  /\ UNCHANGED logs

\* Power off and on again: a new session with a new file.
Restart ==
  /\ LogInit(logs)
  /\ buf' = <<>> /\ written' = <<>>
  /\ synced' = 0 /\ appended' = 0
  /\ unsynced' = FALSE /\ overrun' = FALSE

Next == (\E n \in Sizes : log_append(n)) \/ Restart

Spec == Init /\ [][Next]_vars

-----------------------------------------------------------------------------
TypeOK ==
  /\ buf \in Seq(Nat) /\ written \in Seq(Nat)
  /\ open \in BOOLEAN
  /\ synced \in Nat /\ appended \in Nat /\ logs \in 0 .. MaxLogs
  /\ unsynced \in BOOLEAN /\ overrun \in BOOLEAN

\* As long as the buffer has not been overrun, the file and the buffer together
\* are what was appended: records split between two buffers lose no byte,
\* repeat none and change no order (log.c:114-138).
LogInOrder ==
  ~overrun => written \o buf = Bytes(0, appended)

\* Unless a synchronisation fails, a crash loses at most what two buffers
\* hold, even in a session of any length: log_sync writes a buffer only after
\* it has made the one before safe (log.c:126-144).
CrashLosesLittle ==
  ~overrun /\ ~unsynced => appended - synced <= 2 * BUF_SIZE

=============================================================================
