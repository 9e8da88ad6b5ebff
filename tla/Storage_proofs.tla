--------------------------- MODULE Storage_proofs ---------------------------
(***************************************************************************)
(* The log keeps the order of its bytes, and a crash loses little of it,   *)
(* for every size of the buffer, every record size and every length of a   *)
(* session.                                                                *)
(*                                                                         *)
(* The driver of the SD card tells the truth of every call and writes only *)
(* what it was asked to, for every number of sectors, blocks and faults.   *)
(*                                                                         *)
(* The clock runs from the time that it is set to and is read truly or     *)
(* with an error, whatever it powers up with; a BSON document gives back   *)
(* what was put into it, for all elements and buffers.                     *)
(***************************************************************************)
EXTENDS MCStorage, SequenceTheorems, WellFoundedInduction, TLAPS

\* A run of numbered bytes is a sequence of as many numbers.
LEMMA BytesType ==
  ASSUME NEW few \in Nat, NEW n \in Nat
  PROVE  /\ Bytes(few, n) \in Seq(Nat)
         /\ Len(Bytes(few, n)) = n
         /\ \A k \in 1 .. n : Bytes(few, n)[k] = few + k
<1>1. \A k \in 1 .. n : few + k \in Nat
  OBVIOUS
<1>2. Bytes(few, n) \in Seq(Nat) /\ Len(Bytes(few, n)) = n
  BY <1>1, IsASeq DEF Bytes
<1> QED BY <1>2 DEF Bytes

\* Two adjacent runs are one.
LEMMA BytesJoin ==
  ASSUME NEW a \in Nat, NEW n \in Nat
  PROVE  Bytes(0, a) \o Bytes(a, n) = Bytes(0, a + n)
<1> DEFINE m == a + n
<1>1. PICK x : x = Bytes(0, a) /\ x \in Seq(Nat) /\ Len(x) = a /\ \A k \in 1 .. a : x[k] = k
  <2>1. \A k \in 1 .. a : Bytes(0, a)[k] = 0 + k
    BY BytesType
  <2>2. \A k \in 1 .. a : Bytes(0, a)[k] = k
    BY <2>1
  <2> QED BY <2>2, BytesType
<1>2. PICK y : y = Bytes(a, n) /\ y \in Seq(Nat) /\ Len(y) = n /\ \A k \in 1 .. n : y[k] = a + k
  BY BytesType
<1>3. m \in Nat
  OBVIOUS
<1>4. PICK z : z = Bytes(0, m) /\ z \in Seq(Nat) /\ Len(z) = m /\ \A k \in 1 .. m : z[k] = k
  <2> HIDE DEF m
  <2>1. \A k \in 1 .. m : Bytes(0, m)[k] = 0 + k
    BY <1>3, BytesType
  <2>2. \A k \in 1 .. m : Bytes(0, m)[k] = k
    BY <1>3, <2>1
  <2> QED BY <1>3, <2>2, BytesType
<1>5. x \o y \in Seq(Nat) /\ Len(x \o y) = m
  BY <1>1, <1>2, ConcatProperties
<1>6. \A k \in 1 .. m : (x \o y)[k] = k
  <2> TAKE k \in 1 .. m
  <2>1. (x \o y)[k] = IF k <= a THEN x[k] ELSE y[k - a]
    BY <1>1, <1>2, ConcatProperties
  <2>2. CASE k <= a
    BY <2>1, <2>2, <1>1
  <2>3. CASE k > a
    <3>1. PICK j \in 1 .. n : j = k - a
      BY <2>3
    <3>2. (x \o y)[k] = a + j
      BY <2>1, <2>3, <3>1, <1>2
    <3> QED BY <3>1, <3>2
  <2>4. k <= a \/ k > a
    OBVIOUS
  <2> QED BY <2>2, <2>3, <2>4, Zenon
<1> HIDE DEF m
<1>7. x \o y = z
  BY <1>4, <1>5, <1>6, SeqEqual
<1> QED BY <1>1, <1>2, <1>4, <1>7 DEF m

-----------------------------------------------------------------------------
\* What is always true, so that the two properties are: the file and the buffer
\* hold the bytes in order, the buffer is bounded, and one buffer at most has
\* been written without being synchronised.
IInv ==
  /\ TypeOK
  /\ LogInOrder
  /\ Len(buf) <= BUF_SIZE
  /\ synced <= Len(written)
  /\ ~overrun /\ ~unsynced => Len(written) - synced <= BUF_SIZE

\* Init, and the start of every session: nothing is in the buffer or the file.
LEMMA EmptySession ==
  /\ <<>> \in Seq(Nat) /\ Len(<<>>) = 0
  /\ <<>> \o <<>> = Bytes(0, 0)
<1>1. <<>> \in Seq(Nat) /\ Len(<<>>) = 0
  BY EmptySeq
<1>2. PICK e : e = Bytes(0, 0) /\ e \in Seq(Nat) /\ Len(e) = 0
  BY BytesType
<1>3. e = <<>>
  BY <1>2, EmptySeq
<1>4. <<>> \o <<>> = <<>>
  BY <1>1, ConcatEmptySeq
<1> QED BY <1>1, <1>2, <1>3, <1>4

\* Joining is associative.
LEMMA JoinTwice ==
  ASSUME NEW x \in Seq(Nat), NEW y \in Seq(Nat), NEW z \in Seq(Nat)
  PROVE  (x \o y) \o z = x \o (y \o z)
BY SMTT(40), ConcatAssociative

\* New bytes may go behind those of the buffer, or straight into the file.
LEMMA AppendInOrder ==
  ASSUME written \in Seq(Nat), buf \in Seq(Nat), appended \in Nat,
         written \o buf = Bytes(0, appended), NEW n \in Nat,
         NEW x, x = Bytes(appended, n)
  PROVE  /\ buf \o x \in Seq(Nat) /\ Len(buf \o x) = Len(buf) + n
         /\ written \o (buf \o x) = Bytes(0, appended + n)
         /\ written \o buf \o x \in Seq(Nat)
         /\ written \o buf \o x = Bytes(0, appended + n)
         /\ Len(written \o buf \o x) = Len(written) + Len(buf) + n
<1>1. x \in Seq(Nat) /\ Len(x) = n
  BY BytesType
<1>2. buf \o x \in Seq(Nat) /\ Len(buf \o x) = Len(buf) + n
  BY <1>1, ConcatProperties
<1>3. PICK c : c = written \o buf /\ c \in Seq(Nat) /\ Len(c) = Len(written) + Len(buf)
  BY ConcatProperties
<1>4. c \o x \in Seq(Nat) /\ Len(c \o x) = Len(c) + n
  BY <1>1, <1>3, ConcatProperties
<1>5. c \o x = Bytes(0, appended + n)
  BY <1>1, <1>3, BytesJoin
<1>6. (written \o buf) \o x = written \o (buf \o x)
  BY <1>1, JoinTwice
<1> QED BY <1>1, <1>2, <1>3, <1>4, <1>5, <1>6

\* Appending a record preserves the invariant, whichever way it goes.
LEMMA AppendKeeps ==
  ASSUME IInv, NEW n \in Sizes, log_append(n)
  PROVE  IInv'
<1> DEFINE fill == BUF_SIZE - Len(buf)
<1>1. /\ n \in Nat /\ n <= BUF_SIZE /\ BUF_SIZE \in Nat
      /\ appended \in Nat /\ synced \in Nat
      /\ buf \in Seq(Nat) /\ written \in Seq(Nat)
  BY LogAssumption DEF IInv, TypeOK
<1>2. Len(buf) \in Nat /\ Len(written) \in Nat
  BY <1>1, LenProperties
<1>3. ~overrun /\ appended' = appended + n /\ logs' = logs /\ logs' \in 0 .. MaxLogs
  BY DEF log_append, IInv, TypeOK
<1>4. appended' \in Nat
  BY <1>1, <1>3
<1>5. written \o buf = Bytes(0, appended)
  BY <1>3 DEF IInv, LogInOrder
<1>6. CASE AppendFits(n)
  <2>1. buf' = buf \o Bytes(appended, n) /\ Len(buf) + n <= BUF_SIZE
    BY <1>6 DEF AppendFits
  <2>2. /\ open' = open /\ written' = written /\ synced' = synced
        /\ unsynced' = unsynced /\ overrun' = overrun
    BY <1>6 DEF AppendFits
  <2>3. PICK x : x = Bytes(appended, n)
    OBVIOUS
  <2>4. /\ buf \o x \in Seq(Nat) /\ Len(buf \o x) = Len(buf) + n
        /\ written \o (buf \o x) = Bytes(0, appended + n)
    BY <1>1, <1>5, <2>3, AppendInOrder, Zenon
  <2>5. buf' \in Seq(Nat) /\ Len(buf') = Len(buf) + n
    BY <2>1, <2>3, <2>4, Zenon
  <2>6. written' \o buf' = Bytes(0, appended')
    BY <1>3, <2>1, <2>2, <2>3, <2>4, Zenon
  <2>7. TypeOK'
    BY <1>3, <1>4, <2>2, <2>5 DEF IInv, TypeOK
  <2>8. Len(buf') <= BUF_SIZE
    BY <2>1, <2>5
  <2> QED BY <2>2, <2>6, <2>7, <2>8 DEF IInv, LogInOrder
<1>7. ASSUME Len(buf) + n > BUF_SIZE
      PROVE  fill \in Nat /\ n - fill \in Nat /\ n - fill <= BUF_SIZE /\ fill + (n - fill) = n
                          /\ Len(buf) + fill = BUF_SIZE
  BY <1>1, <1>2, <1>7 DEF IInv
<1> HIDE DEF fill
<1>8. ASSUME Sync
      PROVE  /\ unsynced' \in BOOLEAN /\ synced' \in Nat /\ synced' <= Len(written)
             /\ ~unsynced' => synced' = Len(written)
  <2>1. synced <= Len(written) /\ unsynced \in BOOLEAN
    BY DEF IInv, TypeOK
  <2>2. unsynced' \in BOOLEAN /\ (~unsynced' => synced' = Len(written))
    BY <1>8, <2>1, Zenon DEF Sync
  <2>3. synced' = Len(written) \/ synced' = synced
    BY <1>8, Zenon DEF Sync
  <2> QED BY <1>1, <1>2, <2>1, <2>2, <2>3
<1>9. CASE AppendSpills(n)
  <2>1. /\ fill \in Nat /\ n - fill \in Nat /\ n - fill <= BUF_SIZE /\ fill + (n - fill) = n
        /\ Len(buf) + fill = BUF_SIZE
    BY <1>7, <1>9 DEF AppendSpills
  <2>2. /\ open' = open /\ overrun' = overrun /\ Sync
        /\ written' = written \o buf \o Bytes(appended, fill)
        /\ buf' = Bytes(appended + fill, n - fill)
    BY <1>9 DEF AppendSpills, Rest, fill
  <2>3. PICK rest \in Nat : rest = n - fill
    BY <2>1
  <2>4. written' \in Seq(Nat) /\ Len(written') = Len(written) + Len(buf) + fill
        /\ written' = Bytes(0, appended + fill)
    <3>1. PICK x : x = Bytes(appended, fill)
      OBVIOUS
    <3>2. /\ written \o buf \o x \in Seq(Nat)
          /\ Len(written \o buf \o x) = Len(written) + Len(buf) + fill
          /\ written \o buf \o x = Bytes(0, appended + fill)
      BY <1>1, <1>5, <2>1, <3>1, AppendInOrder, Zenon
    <3> QED BY <2>2, <3>1, <3>2, Zenon
  <2>5. PICK middle \in Nat : middle = appended + fill
    BY <1>1, <2>1
  <2>6. buf' \in Seq(Nat) /\ Len(buf') = rest
    BY <2>2, <2>3, <2>5, BytesType
  <2>7. written' \o buf' = Bytes(0, middle + rest)
    BY <2>2, <2>3, <2>4, <2>5, BytesJoin
  <2>8. middle + rest = appended'
    BY <1>1, <1>3, <2>1, <2>3, <2>5
  <2>9. Len(written') = Len(written) + BUF_SIZE
    BY <1>2, <2>1, <2>4
  <2>10. /\ unsynced' \in BOOLEAN /\ synced' \in Nat /\ synced' <= Len(written)
         /\ ~unsynced' => synced' = Len(written)
    BY <1>8, <2>2
  <2>11. TypeOK'
    BY <1>3, <1>4, <2>2, <2>4, <2>6, <2>10 DEF IInv, TypeOK
  <2>12. Len(buf') <= BUF_SIZE
    BY <2>1, <2>3, <2>6
  <2>13. synced' <= Len(written') /\ (~unsynced' => Len(written') - synced' <= BUF_SIZE)
    BY <1>1, <1>2, <2>9, <2>10
  <2> QED BY <2>7, <2>8, <2>11, <2>12, <2>13 DEF IInv, LogInOrder
<1>10. CASE AppendOverruns(n)
  <2>1. fill \in Nat /\ Len(buf) + fill = BUF_SIZE
    BY <1>7, <1>10 DEF AppendOverruns
  <2>2. /\ buf' = buf \o Bytes(appended, fill) /\ overrun' = TRUE /\ Sync
        /\ open' = open /\ written' = written
    BY <1>10 DEF AppendOverruns, fill
  <2>3. buf' \in Seq(Nat) /\ Len(buf') = Len(buf) + fill
    <3>1. PICK x : x = Bytes(appended, fill)
      OBVIOUS
    <3>2. buf \o x \in Seq(Nat) /\ Len(buf \o x) = Len(buf) + fill
      BY <1>1, <1>5, <2>1, <3>1, AppendInOrder, Zenon
    <3> QED BY <2>2, <3>1, <3>2, Zenon
  <2>4. unsynced' \in BOOLEAN /\ synced' \in Nat /\ synced' <= Len(written)
    BY <1>8, <2>2
  <2>5. TypeOK'
    BY <1>3, <1>4, <2>2, <2>3, <2>4 DEF IInv, TypeOK
  <2>6. Len(buf') <= BUF_SIZE
    BY <1>1, <2>1, <2>3
  <2> QED BY <2>2, <2>4, <2>5, <2>6 DEF IInv, LogInOrder
<1> QED BY <1>6, <1>9, <1>10 DEF log_append

LEMMA LogBegins == ASSUME Init PROVE IInv
<1>1. open \in BOOLEAN /\ logs \in 0 .. MaxLogs
  <2>1. MaxLogs \in Nat
    BY LogAssumption
  <2>2. open \in BOOLEAN
    BY Zenon DEF Init
  <2>3. logs \in 0 .. MaxLogs
    BY <2>1 DEF Init
  <2> QED BY <2>2, <2>3
<1>2. /\ buf = <<>> /\ written = <<>> /\ synced = 0 /\ appended = 0
      /\ unsynced = FALSE /\ overrun = FALSE
  BY DEF Init
<1>3. BUF_SIZE \in Nat
  BY LogAssumption
<1>4. TypeOK
  BY <1>1, <1>2, EmptySession, Zenon DEF TypeOK
<1>5. written \o buf = Bytes(0, appended) /\ Len(buf) = 0 /\ Len(written) = 0
  BY <1>2, EmptySession, Zenon
<1> QED BY <1>2, <1>3, <1>4, <1>5 DEF IInv, LogInOrder

LEMMA LogStep == ASSUME IInv, [Next]_vars PROVE IInv'
<1>1. ASSUME NEW n \in Sizes, log_append(n) PROVE IInv'
  BY <1>1, AppendKeeps
<1>2. CASE Restart
  <2>1. MaxLogs \in Nat /\ BUF_SIZE \in Nat
    BY LogAssumption
  <2>2. logs \in 0 .. MaxLogs
    BY DEF IInv, TypeOK
  <2>3. open' \in BOOLEAN
    BY <1>2, Zenon DEF Restart, LogInit
  <2>5. logs' \in 0 .. MaxLogs
    BY <1>2, <2>1, <2>2 DEF Restart, LogInit
  <2>4. /\ buf' = <<>> /\ written' = <<>> /\ synced' = 0 /\ appended' = 0
        /\ unsynced' = FALSE /\ overrun' = FALSE
    BY <1>2 DEF Restart
  <2>6. TypeOK'
    BY <2>3, <2>4, <2>5, EmptySession, Zenon DEF TypeOK
  <2>7. written' \o buf' = Bytes(0, appended') /\ Len(buf') = 0 /\ Len(written') = 0
    BY <2>4, EmptySession, Zenon
  <2> QED BY <2>1, <2>4, <2>6, <2>7 DEF IInv, LogInOrder
<1>3. CASE UNCHANGED vars
  BY <1>3 DEF vars, IInv, TypeOK, LogInOrder
<1> QED BY <1>1, <1>2, <1>3 DEF Next

\* The invariant holds in every reachable state.
THEOREM Invariance == Spec => []IInv
<1>1. Init => IInv
  BY LogBegins
<1>2. IInv /\ [Next]_vars => IInv'
  BY LogStep
<1> QED BY <1>1, <1>2, PTL DEF Spec

\* No byte of a log is lost, repeated or moved while the buffer holds
\* (log.c:114-138).
THEOREM OrderKept == Spec => []LogInOrder
<1>1. IInv => LogInOrder
  BY DEF IInv
<1> QED BY <1>1, Invariance, PTL

\* A crash loses two buffers at most, however long the session (log.c:126-144).
THEOREM CrashBounded == Spec => []CrashLosesLittle
<1>1. IInv => CrashLosesLittle
  <2> SUFFICES ASSUME IInv, ~overrun, ~unsynced PROVE appended - synced <= 2 * BUF_SIZE
    BY DEF CrashLosesLittle
  <2>1. /\ appended \in Nat /\ synced \in Nat /\ buf \in Seq(Nat) /\ written \in Seq(Nat)
        /\ written \o buf = Bytes(0, appended)
    BY DEF IInv, TypeOK, LogInOrder
  <2>2. Len(written \o buf) = Len(written) + Len(buf) /\ Len(written) \in Nat /\ Len(buf) \in Nat
    BY <2>1, ConcatProperties, LenProperties
  <2>3. Len(Bytes(0, appended)) = appended
    BY <2>1, BytesType
  <2>4. Len(written) - synced <= BUF_SIZE /\ Len(buf) <= BUF_SIZE
    BY DEF IInv
  <2> QED BY <2>1, <2>2, <2>3, <2>4, LogAssumption
<1> QED BY <1>1, Invariance, PTL

-----------------------------------------------------------------------------
(***************************************************************************)
(* The SD card under its driver.                                           *)
(***************************************************************************)

InitPlaces == {"go_idle", "if_cond", "op_cond", "read_ocr", "old_probe", "old_op_cond", "set_blocklen"}
WritePlaces == {"erase_count", "write_cmd", "send_block", "wait_ready", "stop_token", "wait_stop"}

\* The place of the driver tells which call it is in, and how many blocks are left.
CallRuns ==
  /\ pc \in InitPlaces => call.op = "init"
  /\ pc \in {"read_cmd", "read_stop"} => call.op = "read"
  /\ pc = "csd_cmd" => call.op = "csd"
  /\ pc = "recv_block" => call.op \in {"read", "csd"}
  /\ pc \in WritePlaces => call.op = "write"
  /\ call.op = "csd" => call.n = 1
  /\ call.op \in {"read", "write"} => call.n \in {1, 2} /\ call.sector \in Sectors
  /\ call.op = "write" => call.block \in Blocks
  /\ pc \in {"read_cmd", "csd_cmd", "erase_count", "write_cmd"} => left = call.n
  /\ pc \in {"recv_block", "send_block"} => left \in 1 .. call.n
  /\ pc = "wait_ready" => left \in 0 .. call.n - 1
  /\ pc \in {"stop_token", "wait_stop"} => left = 0
  /\ pc \notin {"free", "read_stop"} => rc = 1

\* A busy card is in no transfer, but between the blocks of a write; and a card
\* has nothing to lose with its supply once it is neither.
BusyMode ==
  /\ busy => mode \in {"idle", "ready"} \/ (mode = "recvN" /\ pc = "wait_ready")
  /\ buffered # {} => busy \/ mode = "recvN"

\* A card of sector addresses is known for one, or in the idle state, where it
\* refuses every transfer, or being initialised, or it failed to initialise.
CardKnown ==
  /\ card_type = "HC" => kind = "HC" /\ pc # "old_probe"
  /\ ~hasty =>
       /\ pc \in InitPlaces => ~busy
       /\ pc = "if_cond" => mode = "idle"
       /\ kind = "HC" /\ card_type # "HC" /\ mode # "idle" =>
            \/ pc \in {"go_idle", "op_cond", "read_ocr"}
            \/ pc = "free" /\ call.op = "init" /\ rc = 1

\* As long as every command was heard.
AllHeard == faults = 0 =>
  /\ pc = "if_cond" => mode # "recvN"
  /\ pc = "op_cond" => ~busy /\ mode = "idle" /\ kind \in {"SD2", "HC"}
  /\ pc = "read_ocr" => ~busy /\ mode = "ready" /\ kind \in {"SD2", "HC"}
  /\ pc \notin {"old_probe", "old_op_cond", "set_blocklen"}
  /\ Sd!Returned("init") => mode # "idle" /\ (card_type = "HC" <=> kind = "HC")

\* How many blocks of the call are done, and whether the card goes on at the next.
Done == call.n - left
AtNext == ~hasty => at = call.sector + Done

Reading == call.op = "read" =>
  /\ pc = "recv_block" =>
       /\ mode # "sendR" /\ (mode = "send" => call.n = 1) /\ (mode = "sendN" => call.n = 2)
       /\ mode \in {"send", "sendN"} => AtNext
  /\ pc \in {"free", "read_stop"} /\ rc = 0 /\ ~hasty =>
       /\ call.sector + call.n - 1 \in Sectors
       /\ block = store[call.sector + call.n - 1] /\ buffered = {}

ReadingRegister == call.op = "csd" =>
  /\ pc = "recv_block" => mode \in {"sendR", "idle", "ready"}
  /\ pc = "free" /\ rc = 0 => block = "csd"

\* The first few blocks of the call are stored, but where the supply was lost.
StoredFirst(k) == \A s \in call.sector .. call.sector + k - 1 :
                    s \in Sectors /\ (store[s] = call.block \/ s \in cut)
Writing == call.op = "write" =>
  /\ pc \in {"send_block", "wait_ready"} =>
       /\ mode = "recv" => call.n = 1 /\ pc = "send_block"
       /\ mode = "recvN" => call.n = 2
       /\ mode \in {"recv", "recvN"} => AtNext
  /\ pc = "stop_token" => mode # "recv"
  /\ pc = "wait_stop" => mode \notin {"recv", "recvN"}
  /\ pc \in {"send_block", "wait_ready", "stop_token", "wait_stop"} /\ ~hasty => StoredFirst(Done)
  /\ pc = "free" /\ rc = 0 /\ ~hasty =>
       StoredFirst(call.n) /\ ~busy /\ mode \notin {"recv", "recvN"}

SdInv ==
  /\ Sd!TypeOK
  /\ CallRuns /\ BusyMode /\ CardKnown /\ AllHeard
  /\ Reading /\ ReadingRegister /\ Writing

LEMMA CardConstants ==
  /\ Kinds \subseteq {"MMC", "SD1", "SD2", "HC"} /\ Sectors \subseteq Nat
  /\ BlockSize \in Nat /\ BlockSize > 1
  /\ Retries \in Nat /\ Retries > 0
  /\ Timeout \in Nat /\ Width \in Nat /\ Timeout < Width /\ MaxFaults \in Nat
BY CardAssumed DEF Sd!SdAssumption

LEMMA NoAnswer == {} \in Sd!Answers
BY DEF Sd!Answers

LEMMA Addresses ==
  ASSUME NEW s \in Nat, NEW b \in Nat, b > 1
  PROVE  s * b \in Nat /\ (s * b) % b = 0 /\ (s * b) \div b = s
OBVIOUS

\* What an exchange of a command and its answer does.
LEMMA Exchanged ==
  ASSUME Sd!TypeOK, NEW outcomes, NEW r1, NEW heard \in BOOLEAN,
         Sd!send_cmd(outcomes, r1, heard),
         \A o \in outcomes : o.mode \in Sd!Modes /\ o.at \in Nat
  PROVE  /\ mode' \in Sd!Modes /\ at' \in Nat
         /\ faults' \in 0 .. MaxFaults /\ (faults' = 0 => faults = 0)
         /\ heard /\ ~busy => \E o \in outcomes : r1 = o.r1 /\ mode' = o.mode /\ at' = o.at
         /\ buffered' \subseteq Sectors /\ (heard /\ ~busy => buffered' = {})
         /\ busy \/ ~heard => buffered' = buffered
         /\ heard /\ busy => r1 = {} /\ mode' = mode /\ at' = at
         /\ ~heard => /\ ~busy /\ r1 = Sd!Ones /\ mode' = mode /\ at' = at
                      /\ faults' = 0 => mode = "recvN"
<1>1. at \in Nat /\ mode \in Sd!Modes /\ buffered \subseteq Sectors /\ faults \in 0 .. MaxFaults
  BY DEF Sd!TypeOK
<1>2. CASE ~busy /\ heard
  BY <1>1, <1>2 DEF Sd!send_cmd
<1>3. CASE busy /\ heard
  BY <1>1, <1>3 DEF Sd!send_cmd
<1>4. CASE ~heard
  <2>1. Sd!Unheard /\ r1 = Sd!Ones /\ UNCHANGED <<mode, at, buffered>>
    BY <1>4 DEF Sd!send_cmd
  <2> QED BY <1>1, <1>4, <2>1, CardConstants DEF Sd!Unheard
<1> QED BY <1>2, <1>3, <1>4 DEF Sd!TypeOK

LEMMA StayIs ==
  ASSUME NEW o \in Sd!StayOutcome
  PROVE  o.mode = (IF mode = "idle" THEN "idle" ELSE "ready") /\ o.at = at
BY DEF Sd!StayOutcome, Sd!Outcome

LEMMA GoIdleIs ==
  ASSUME NEW o \in Sd!GoIdleOutcome
  PROVE  o.mode = "idle" /\ o.at = at
BY DEF Sd!GoIdleOutcome, Sd!Outcome

LEMMA RefusedIs ==
  ASSUME NEW bits, NEW o \in Sd!Refused(bits)
  PROVE  o.mode = (IF mode = "idle" THEN "idle" ELSE "ready") /\ o.at = at
         /\ o.r1 = Sd!IdleBit \cup bits
BY DEF Sd!Refused, Sd!Outcome

LEMMA IfCondIs ==
  ASSUME NEW o \in Sd!IfCondOutcome
  PROVE  /\ o.mode = (IF mode = "idle" THEN "idle" ELSE "ready") /\ o.at = at
         /\ o.r1 = Sd!Echo => kind \in {"SD2", "HC"} /\ mode = "idle"
<1>1. CASE kind \in {"SD2", "HC"} /\ mode = "idle"
  BY <1>1 DEF Sd!IfCondOutcome, Sd!Outcome
<1>2. CASE ~(kind \in {"SD2", "HC"} /\ mode = "idle")
  <2>1. o \in Sd!Refused({"illegal"})
    BY <1>2 DEF Sd!IfCondOutcome
  <2>2. "illegal" \in o.r1
    BY <2>1, RefusedIs
  <2> QED BY <2>1, <2>2, RefusedIs DEF Sd!Echo
<1> QED BY <1>1, <1>2

LEMMA OpCondIs ==
  ASSUME NEW hcs \in BOOLEAN, NEW o \in Sd!OpCondOutcome(hcs)
  PROVE  /\ o.mode \in {mode, "ready"} /\ o.at = at
         /\ kind = "HC" /\ ~hcs => o.mode = mode
         /\ kind # "MMC" /\ mode = "idle" /\ o.mode = "idle" => "idle" \in o.r1
<1>1. CASE kind = "MMC"
  <2>1. o \in Sd!Refused({"illegal"})
    BY <1>1 DEF Sd!OpCondOutcome
  <2> QED BY <1>1, <2>1, RefusedIs
<1>2. CASE kind # "MMC"
  BY <1>2 DEF Sd!OpCondOutcome, Sd!Outcome, Sd!IdleBit
<1> QED BY <1>1, <1>2

\* The address of a sector, to a card that knows where it is.
LEMMA TransferIs ==
  ASSUME NEW s \in Sectors, NEW m, NEW o \in Sd!Transfer(Sd!Address(s), m), at \in Nat
  PROVE  /\ \/ o.mode = (IF mode = "idle" THEN "idle" ELSE "ready") /\ o.at = at
            \/ o.mode = m /\ mode # "idle" /\ o.at \in Sectors
               /\ ((card_type = "HC" <=> kind = "HC") => o.at = s)
         /\ o.at \in Nat
<1>1. s \in Nat /\ BlockSize \in Nat /\ BlockSize > 1 /\ Sectors \subseteq Nat
  BY CardConstants
<1> DEFINE a == Sd!Address(s)
           k == Sd!SectorAt(a)
<1>2. (card_type = "HC" <=> kind = "HC") => k = s
  BY <1>1, Addresses DEF Sd!Address, Sd!SectorAt, Sd!ByteAddressed
<1>3. \/ \E bits : o \in Sd!Refused(bits)
      \/ o = Sd!Outcome({}, m, k) /\ k \in Sectors /\ mode # "idle"
  BY DEF Sd!Transfer
<1>4. CASE \E bits : o \in Sd!Refused(bits)
  BY <1>4, RefusedIs
<1>5. CASE o = Sd!Outcome({}, m, k) /\ k \in Sectors /\ mode # "idle"
  <2>1. o.mode = m /\ o.at = k
    BY <1>5 DEF Sd!Outcome
  <2> QED BY <1>1, <1>2, <1>5, <2>1
<1> QED BY <1>3, <1>4, <1>5

-----------------------------------------------------------------------------
(* sd_init.                                                                 *)

\* Nothing to show of the other calls.
LEMMA OtherCalls ==
  /\ call'.op = "init" => Reading' /\ ReadingRegister' /\ Writing'
  /\ call'.op = "read" => ReadingRegister' /\ Writing'
  /\ call'.op = "csd" => Reading' /\ Writing'
  /\ call'.op = "write" => Reading' /\ ReadingRegister'
BY DEF Reading, ReadingRegister, Writing

LEMMA InitBegins == ASSUME SdInv, Sd!disk_initialize PROVE SdInv'
<1> USE DEF SdInv
<1>1. /\ pc = "free" /\ pc' = "go_idle" /\ rc' = 1 /\ block' = "none"
      /\ call' = [op |-> "init", sector |-> 0, n |-> 0, block |-> "none"]
      /\ hasty' = busy /\ cut' = {}
      /\ UNCHANGED <<left, res, ms, card_type, noinit, kind, mode, at, busy, store, buffered, faults>>
  BY DEF Sd!disk_initialize, Sd!Locals, Sd!lineVars, Sd!NoCall, Sd!NoBlock
<1>2. Sd!TypeOK'
  BY <1>1 DEF Sd!TypeOK, Sd!NoBlock
<1>3. CallRuns' /\ BusyMode' /\ CardKnown' /\ AllHeard'
  BY <1>1 DEF CallRuns, BusyMode, CardKnown, AllHeard, InitPlaces, WritePlaces, Sd!Returned
<1> QED BY <1>1, <1>2, <1>3, OtherCalls

\* sd_init goes on at one of its places, or returns r.
InitAt(p) == pc' = p /\ UNCHANGED <<call, rc, block, noinit>>
InitEnds(r) ==
  /\ pc' = "free" /\ rc' = r /\ left' = 0 /\ res' = {} /\ ms' = 0 /\ UNCHANGED <<call, block>>
  /\ noinit' = IF r = 0 THEN FALSE ELSE noinit

LEMMA InitWays ==
  /\ \A p : Sd!InitGoesTo(p) <=> InitAt(p)
  /\ \A r : Sd!InitReturns(r) <=> InitEnds(r)
BY DEF Sd!InitGoesTo, Sd!InitReturns, Sd!Goto, Sd!Return, InitAt, InitEnds

\* The types of the driver's variables.
DriverTyped ==
  /\ pc \in {"free", "go_idle", "if_cond", "op_cond", "read_ocr", "old_probe", "old_op_cond",
             "set_blocklen", "read_cmd", "csd_cmd", "recv_block", "read_stop", "erase_count", "write_cmd",
             "send_block", "stop_token", "wait_ready", "wait_stop"}
  /\ call \in [op : {"none", "init", "read", "csd", "write", "sync"}, sector : Sectors \cup {0},
               n : 0 .. 2, block : Blocks \cup {"none"}]
  /\ left \in 0 .. (Retries + 2) /\ res \in Sd!Answers /\ ms \in 0 .. (Width - 1)
  /\ rc \in 0 .. 1 /\ block \in Blocks \cup {"none", "csd"} /\ noinit \in BOOLEAN
CardTyped ==
  /\ card_type \in {"none", "MMC", "SD1", "SD2", "HC"}
  /\ kind \in Kinds /\ mode \in Sd!Modes /\ at \in Nat /\ busy \in BOOLEAN
  /\ store \in [Sectors -> Blocks] /\ faults \in 0 .. MaxFaults /\ hasty \in BOOLEAN
  /\ buffered \subseteq Sectors /\ cut \subseteq Sectors

LEMMA TypedBoth == Sd!TypeOK <=> DriverTyped /\ CardTyped
BY DEF Sd!TypeOK, DriverTyped, CardTyped, Sd!NoBlock, Sd!Register

LEMMA TypedThen == Sd!TypeOK' <=> DriverTyped' /\ CardTyped'
BY DEF Sd!TypeOK, DriverTyped, CardTyped, Sd!NoBlock, Sd!Register

LEMMA EndsTyped == ASSUME DriverTyped, NEW r \in {0, 1}, InitEnds(r) PROVE DriverTyped'
<1>1. 0 \in 0 .. (Retries + 2) /\ 0 \in 0 .. (Width - 1)
  BY CardConstants
<1>2. r \in 0 .. 1
  OBVIOUS
<1> QED BY <1>1, <1>2, NoAnswer DEF DriverTyped, InitEnds

LEMMA AtTyped ==
  ASSUME DriverTyped, NEW p \in InitPlaces, InitAt(p),
         left' \in 0 .. (Retries + 2), res' \in Sd!Answers, ms' = ms
  PROVE  DriverTyped'
BY DEF DriverTyped, InitAt, InitPlaces

LEMMA GoIdleKeeps == ASSUME SdInv, Sd!GoIdle PROVE SdInv'
<1> USE DEF SdInv
<1>1. PICK heard \in BOOLEAN, r1 \in Sd!Answers :
        /\ Sd!send_cmd(Sd!GoIdleOutcome, r1, heard)
        /\ IF heard THEN InitAt("if_cond") /\ UNCHANGED <<left, res, ms>> ELSE InitEnds(1)
  BY InitWays DEF Sd!GoIdle, Sd!Locals
<1>2. pc = "go_idle" /\ UNCHANGED <<card_type, kind, hasty, cut, busy, store>>
  BY DEF Sd!GoIdle
<1>3. at \in Nat
  BY DEF Sd!TypeOK
<1>4. /\ mode' \in Sd!Modes /\ at' \in Nat
      /\ faults' \in 0 .. MaxFaults /\ (faults' = 0 => faults = 0)
      /\ buffered' \subseteq Sectors /\ (heard /\ ~busy => buffered' = {})
      /\ busy \/ ~heard => buffered' = buffered
      /\ heard /\ ~busy => mode' = "idle" /\ at' = at
      /\ heard /\ busy => mode' = mode /\ at' = at
      /\ ~heard => ~busy /\ mode' = mode /\ at' = at
  BY <1>1, <1>3, GoIdleIs, Exchanged DEF Sd!Modes
<1>5. call.op = "init" /\ rc = 1 /\ call' = call
  BY <1>1, <1>2 DEF CallRuns, InitPlaces, InitAt, InitEnds
<1>6. Sd!TypeOK'
  <2>1. CardTyped'
    BY <1>2, <1>4, TypedBoth DEF CardTyped
  <2>2. DriverTyped'
    BY <1>1, TypedBoth, EndsTyped, AtTyped DEF DriverTyped, InitPlaces
  <2> QED BY <2>1, <2>2, TypedThen
<1>7. CallRuns'
  BY <1>1, <1>2, <1>5 DEF CallRuns, InitAt, InitEnds, InitPlaces, WritePlaces
<1>8. BusyMode'
  BY <1>1, <1>2, <1>4 DEF BusyMode, InitAt, InitEnds
<1>9. CardKnown'
  BY <1>1, <1>2, <1>4, <1>5 DEF CardKnown, InitAt, InitEnds, InitPlaces
<1>10. AllHeard'
  BY <1>1, <1>2, <1>4 DEF AllHeard, BusyMode, InitAt, InitEnds, Sd!Returned
<1> QED BY <1>5, <1>6, <1>7, <1>8, <1>9, <1>10, OtherCalls

LEMMA IfCondKeeps == ASSUME SdInv, Sd!SendIfCond PROVE SdInv'
<1> USE DEF SdInv
<1>1. PICK heard \in BOOLEAN, r1 \in Sd!Answers :
        /\ Sd!send_cmd(Sd!IfCondOutcome, r1, heard)
        /\ card_type' = IF heard THEN "SD2" ELSE "none"
        /\ IF heard /\ r1 # Sd!Echo THEN InitEnds(1)
           ELSE /\ InitAt(IF heard THEN "op_cond" ELSE "old_probe")
                /\ left' = Retries /\ res' = r1 /\ UNCHANGED ms
  BY InitWays DEF Sd!SendIfCond
<1>2. pc = "if_cond" /\ UNCHANGED <<kind, hasty, cut, busy, store>>
  BY DEF Sd!SendIfCond
<1>3. at \in Nat /\ {} # Sd!Echo
  BY DEF Sd!TypeOK, Sd!Echo
<1>4. /\ mode' \in Sd!Modes /\ at' \in Nat
      /\ faults' \in 0 .. MaxFaults /\ (faults' = 0 => faults = 0)
      /\ buffered' \subseteq Sectors /\ (heard /\ ~busy => buffered' = {})
      /\ busy \/ ~heard => buffered' = buffered
      /\ heard /\ ~busy => /\ mode' = IF mode = "idle" THEN "idle" ELSE "ready"
                           /\ r1 = Sd!Echo => kind \in {"SD2", "HC"} /\ mode = "idle"
      /\ heard /\ busy => mode' = mode /\ r1 # Sd!Echo
      /\ ~heard => ~busy /\ mode' = mode /\ (faults' = 0 => mode = "recvN")
  BY <1>1, <1>3, IfCondIs, Exchanged DEF Sd!Modes
<1>5. call.op = "init" /\ rc = 1 /\ call' = call
  BY <1>1, <1>2 DEF CallRuns, InitPlaces, InitAt, InitEnds
<1>6. Sd!TypeOK'
  <2>1. CardTyped'
    BY <1>1, <1>2, <1>4, TypedBoth DEF CardTyped
  <2>2. DriverTyped'
    BY <1>1, TypedBoth, EndsTyped, AtTyped, CardConstants DEF InitPlaces
  <2> QED BY <2>1, <2>2, TypedThen
<1>7. CallRuns'
  BY <1>1, <1>2, <1>5 DEF CallRuns, InitAt, InitEnds, InitPlaces, WritePlaces
<1>8. BusyMode'
  BY <1>1, <1>2, <1>4 DEF BusyMode, InitAt, InitEnds
<1>9. CardKnown'
  BY <1>1, <1>2, <1>4, <1>5 DEF CardKnown, InitAt, InitEnds, InitPlaces
<1>10. AllHeard'
  BY <1>1, <1>2, <1>4, <1>5 DEF AllHeard, BusyMode, InitAt, InitEnds, Sd!Returned
<1> QED BY <1>5, <1>6, <1>7, <1>8, <1>9, <1>10, OtherCalls

\* SD_SEND_OP_COND, its second command unheard or not.
LEMMA OpCondDoes ==
  ASSUME Sd!TypeOK, NEW hcs \in BOOLEAN, NEW r1 \in Sd!Answers, NEW heard \in BOOLEAN,
         Sd!OpCond(hcs, r1, heard)
  PROVE  /\ mode' \in Sd!Modes /\ at' \in Nat
         /\ faults' \in 0 .. MaxFaults /\ (faults' = 0 => faults = 0)
         /\ buffered' \subseteq Sectors /\ (heard /\ ~busy => buffered' = {})
         /\ busy \/ ~heard => buffered' = buffered
         /\ heard /\ ~busy =>
              /\ mode' \in {mode, "ready"}
              /\ kind = "HC" /\ ~hcs => mode' = mode
              /\ kind # "MMC" /\ mode = "idle" /\ mode' = "idle" => "idle" \in r1
         /\ heard /\ busy => mode' = mode
         /\ ~heard => ~busy /\ mode' = mode /\ (faults' = 0 => mode = "recvN")
<1>1. CASE Sd!send_cmd(Sd!OpCondOutcome(hcs), r1, heard)
  <2>1. \A o \in Sd!OpCondOutcome(hcs) : o.mode \in Sd!Modes /\ o.at \in Nat
    BY OpCondIs DEF Sd!TypeOK, Sd!Modes
  <2> QED BY <1>1, <2>1, OpCondIs, Exchanged
<1>2. CASE ~heard /\ Sd!Unheard /\ r1 = res /\ UNCHANGED <<mode, at, buffered>>
  BY <1>2, CardConstants DEF Sd!TypeOK, Sd!Unheard
<1> QED BY <1>1, <1>2 DEF Sd!OpCond

\* The loop in which a card leaves the idle state.
LEMMA LeaveIdleKeeps ==
  ASSUME SdInv, NEW hcs \in BOOLEAN, NEW here, NEW next, Sd!LeaveIdle(here, next, hcs),
         \/ here = "op_cond" /\ next = "read_ocr" /\ hcs
         \/ here = "old_op_cond" /\ next = "set_blocklen" /\ ~hcs
  PROVE  SdInv'
<1> USE DEF SdInv
<1>1. PICK heard \in BOOLEAN, r1 \in Sd!Answers :
        /\ Sd!OpCond(hcs, r1, heard)
        /\ \/ "idle" \notin r1 /\ InitAt(next) /\ UNCHANGED <<left, res, ms>>
           \/ "idle" \in r1 /\ left = 1 /\ InitEnds(1)
           \/ /\ "idle" \in r1 /\ left > 1 /\ InitAt(here)
              /\ left' = left - 1 /\ res' = r1 /\ UNCHANGED ms
  BY InitWays DEF Sd!LeaveIdle, Sd!Locals
<1>2. pc = here /\ UNCHANGED <<card_type, kind, hasty, cut, busy, store>>
  BY DEF Sd!LeaveIdle
<1>3. /\ mode' \in Sd!Modes /\ at' \in Nat
      /\ faults' \in 0 .. MaxFaults /\ (faults' = 0 => faults = 0)
      /\ buffered' \subseteq Sectors /\ (heard /\ ~busy => buffered' = {})
      /\ busy \/ ~heard => buffered' = buffered
      /\ heard /\ ~busy =>
           /\ mode' \in {mode, "ready"}
           /\ kind = "HC" /\ ~hcs => mode' = mode
           /\ kind # "MMC" /\ mode = "idle" /\ mode' = "idle" => "idle" \in r1
      /\ heard /\ busy => mode' = mode
      /\ ~heard => ~busy /\ mode' = mode /\ (faults' = 0 => mode = "recvN")
  BY <1>1, OpCondDoes
<1>4. call.op = "init" /\ rc = 1 /\ call' = call
  BY <1>1, <1>2 DEF CallRuns, InitPlaces, InitAt, InitEnds
<1>5. Sd!TypeOK'
  <2>1. CardTyped'
    BY <1>2, <1>3, TypedBoth DEF CardTyped
  <2>2. DriverTyped'
    <3>1. left > 1 => left - 1 \in 0 .. (Retries + 2)
      BY TypedBoth, CardConstants DEF DriverTyped
    <3> QED BY <1>1, <3>1, TypedBoth, EndsTyped, AtTyped DEF DriverTyped, InitPlaces
  <2> QED BY <2>1, <2>2, TypedThen
<1>6. CallRuns'
  BY <1>1, <1>2, <1>4 DEF CallRuns, InitAt, InitEnds, InitPlaces, WritePlaces
<1>7. BusyMode'
  BY <1>1, <1>2, <1>3 DEF BusyMode, InitAt, InitEnds
<1>8. CardKnown'
  BY <1>1, <1>2, <1>3, <1>4 DEF CardKnown, InitAt, InitEnds, InitPlaces
<1>9. AllHeard'
  <2>1. SUFFICES ASSUME faults' = 0 PROVE AllHeard'
    BY DEF AllHeard
  <2>2. here = "op_cond" /\ next = "read_ocr" /\ ~busy /\ mode = "idle" /\ kind \in {"SD2", "HC"}
    BY <1>2, <1>3, <2>1 DEF AllHeard
  <2>3. heard /\ mode' \in {"idle", "ready"} /\ (mode' = "idle" => "idle" \in r1)
    BY <1>3, <2>1, <2>2
  <2>4. "ready" = mode' /\ "idle" \in r1 => FALSE
    <3>1. \A o \in Sd!OpCondOutcome(hcs) : o.mode = "ready" => "idle" \notin o.r1
      BY <2>2 DEF Sd!OpCondOutcome, Sd!Outcome
    <3>2. \E o \in Sd!OpCondOutcome(hcs) : r1 = o.r1 /\ mode' = o.mode
      BY <1>1, <2>2, <2>3 DEF Sd!OpCond, Sd!send_cmd
    <3> QED BY <3>1, <3>2
  <2> QED BY <1>1, <1>2, <1>4, <2>2, <2>3, <2>4 DEF AllHeard, InitAt, InitEnds, Sd!Returned
<1> QED BY <1>4, <1>5, <1>6, <1>7, <1>8, <1>9, OtherCalls

LEMMA ReadOcrKeeps == ASSUME SdInv, Sd!ReadOcr PROVE SdInv'
<1> USE DEF SdInv
<1>1. PICK heard \in BOOLEAN, r1 \in Sd!Answers :
        /\ Sd!send_cmd(Sd!StayOutcome, r1, heard)
        /\ card_type' = IF heard /\ ~busy /\ kind = "HC" /\ mode # "idle" THEN "HC" ELSE "SD2"
        /\ InitEnds(IF heard THEN 0 ELSE 1)
  BY InitWays DEF Sd!ReadOcr
<1>2. pc = "read_ocr" /\ UNCHANGED <<kind, hasty, cut, busy, store>>
  BY DEF Sd!ReadOcr
<1>3. at \in Nat
  BY DEF Sd!TypeOK
<1>4. /\ mode' \in Sd!Modes /\ at' \in Nat
      /\ faults' \in 0 .. MaxFaults /\ (faults' = 0 => faults = 0)
      /\ buffered' \subseteq Sectors /\ (heard /\ ~busy => buffered' = {})
      /\ busy \/ ~heard => buffered' = buffered
      /\ heard /\ ~busy => mode' = IF mode = "idle" THEN "idle" ELSE "ready"
      /\ heard /\ busy => mode' = mode
      /\ ~heard => ~busy /\ mode' = mode /\ (faults' = 0 => mode = "recvN")
  BY <1>1, <1>3, StayIs, Exchanged DEF Sd!Modes
<1>5. call.op = "init" /\ rc = 1 /\ call' = call
  BY <1>1, <1>2 DEF CallRuns, InitPlaces, InitEnds
<1>6. Sd!TypeOK'
  <2>1. CardTyped'
    BY <1>1, <1>2, <1>4, TypedBoth DEF CardTyped
  <2>2. DriverTyped'
    BY <1>1, TypedBoth, EndsTyped
  <2> QED BY <2>1, <2>2, TypedThen
<1>7. CallRuns'
  BY <1>1, <1>2, <1>5 DEF CallRuns, InitEnds, InitPlaces, WritePlaces
<1>8. BusyMode'
  BY <1>1, <1>2, <1>4 DEF BusyMode, InitEnds
<1>9. CardKnown'
  BY <1>1, <1>2, <1>4, <1>5 DEF CardKnown, InitEnds, InitPlaces
<1>10. AllHeard'
  BY <1>1, <1>2, <1>4, <1>5 DEF AllHeard, InitEnds, Sd!Returned
<1> QED BY <1>5, <1>6, <1>7, <1>8, <1>9, <1>10, OtherCalls

LEMMA ProbeKeeps == ASSUME SdInv, Sd!ProbeOld PROVE SdInv'
<1> USE DEF SdInv
<1>1. PICK heard \in BOOLEAN, r1 \in Sd!Answers :
        /\ Sd!OpCond(FALSE, r1, heard)
        /\ IF heard
           THEN /\ InitAt("old_op_cond") /\ res' = r1 /\ UNCHANGED <<left, ms>>
                /\ card_type' \in {"SD1", "MMC"}
           ELSE InitEnds(1) /\ UNCHANGED card_type
  BY InitWays DEF Sd!ProbeOld
<1>2. pc = "old_probe" /\ UNCHANGED <<kind, hasty, cut, busy, store>>
  BY DEF Sd!ProbeOld
<1>3. /\ mode' \in Sd!Modes /\ at' \in Nat
      /\ faults' \in 0 .. MaxFaults /\ (faults' = 0 => faults = 0)
      /\ buffered' \subseteq Sectors /\ (heard /\ ~busy => buffered' = {})
      /\ busy \/ ~heard => buffered' = buffered
      /\ heard /\ ~busy => mode' \in {mode, "ready"} /\ (kind = "HC" => mode' = mode)
      /\ heard /\ busy => mode' = mode
      /\ ~heard => ~busy /\ mode' = mode
  BY <1>1, OpCondDoes
<1>4. call.op = "init" /\ rc = 1 /\ call' = call
  BY <1>1, <1>2 DEF CallRuns, InitPlaces, InitAt, InitEnds
<1>5. Sd!TypeOK'
  <2>1. CardTyped'
    BY <1>1, <1>2, <1>3, TypedBoth DEF CardTyped
  <2>2. DriverTyped'
    BY <1>1, TypedBoth, EndsTyped, AtTyped DEF DriverTyped, InitPlaces
  <2> QED BY <2>1, <2>2, TypedThen
<1>6. CallRuns'
  BY <1>1, <1>2, <1>4 DEF CallRuns, InitAt, InitEnds, InitPlaces, WritePlaces
<1>7. BusyMode'
  BY <1>1, <1>2, <1>3 DEF BusyMode, InitAt, InitEnds
<1>8. CardKnown'
  BY <1>1, <1>2, <1>3, <1>4 DEF CardKnown, InitAt, InitEnds, InitPlaces
<1>9. AllHeard'
  BY <1>1, <1>2, <1>3, <1>4 DEF AllHeard, InitAt, InitEnds, Sd!Returned
<1> QED BY <1>4, <1>5, <1>6, <1>7, <1>8, <1>9, OtherCalls

LEMMA BlockLenKeeps == ASSUME SdInv, Sd!SetBlockLen PROVE SdInv'
<1> USE DEF SdInv
<1>1. PICK heard \in BOOLEAN, r1 \in Sd!Answers :
        Sd!send_cmd(Sd!StayOutcome, r1, heard) /\ InitEnds(IF heard THEN 0 ELSE 1)
  BY InitWays DEF Sd!SetBlockLen
<1>2. pc = "set_blocklen" /\ UNCHANGED <<card_type, kind, hasty, cut, busy, store>>
  BY DEF Sd!SetBlockLen
<1>3. at \in Nat
  BY DEF Sd!TypeOK
<1>4. /\ mode' \in Sd!Modes /\ at' \in Nat
      /\ faults' \in 0 .. MaxFaults /\ (faults' = 0 => faults = 0)
      /\ buffered' \subseteq Sectors /\ (heard /\ ~busy => buffered' = {})
      /\ busy \/ ~heard => buffered' = buffered
      /\ heard /\ ~busy => mode' = IF mode = "idle" THEN "idle" ELSE "ready"
      /\ heard /\ busy => mode' = mode
      /\ ~heard => ~busy /\ mode' = mode
  BY <1>1, <1>3, StayIs, Exchanged DEF Sd!Modes
<1>5. call.op = "init" /\ rc = 1 /\ call' = call
  BY <1>1, <1>2 DEF CallRuns, InitPlaces, InitEnds
<1>6. Sd!TypeOK'
  <2>1. CardTyped'
    BY <1>2, <1>4, TypedBoth DEF CardTyped
  <2>2. DriverTyped'
    BY <1>1, TypedBoth, EndsTyped
  <2> QED BY <2>1, <2>2, TypedThen
<1>7. CallRuns'
  BY <1>1, <1>2, <1>5 DEF CallRuns, InitEnds, InitPlaces, WritePlaces
<1>8. BusyMode'
  BY <1>1, <1>2, <1>4 DEF BusyMode, InitEnds
<1>9. CardKnown'
  BY <1>1, <1>2, <1>4, <1>5 DEF CardKnown, InitEnds, InitPlaces
<1>10. AllHeard'
  BY <1>1, <1>2, <1>4, <1>5 DEF AllHeard, InitEnds, Sd!Returned
<1> QED BY <1>5, <1>6, <1>7, <1>8, <1>9, <1>10, OtherCalls

-----------------------------------------------------------------------------
(* The calls that read and write.                                           *)

\* A call begins that finds the file system mounted.
LEMMA CallBegins ==
  ASSUME SdInv, NEW p, Sd!Calling(p), NEW o, NEW s, NEW k, NEW b,
         call' = [op |-> o, sector |-> s, n |-> k, block |-> b],
         \/ o = "read" /\ p = "read_cmd" /\ s \in Sectors /\ k \in {1, 2} /\ b = "none"
         \/ o = "csd" /\ p = "csd_cmd" /\ s = 0 /\ k = 1 /\ b = "none"
         \/ o = "write" /\ p \in {"erase_count", "write_cmd"} /\ s \in Sectors /\ k \in {1, 2} /\ b \in Blocks
  PROVE  SdInv'
<1> USE DEF SdInv
<1>1. /\ pc = "free" /\ pc' = p /\ rc' = 1 /\ left' = k /\ block' = "none"
      /\ cut' = {}
      /\ UNCHANGED <<res, ms, card_type, noinit, kind, hasty, mode, at, busy, store, buffered, faults>>
      /\ ~(call.op = "init" /\ rc # 0)
  BY DEF Sd!Calling, Sd!Mounted, Sd!cardVars, Sd!lineVars, Sd!NoBlock
<1>2. call'.op = o /\ call'.n = k /\ call'.sector = s /\ call'.block = b
  OBVIOUS
<1>3. Sd!TypeOK'
  <2>1. CardTyped'
    BY <1>1, TypedBoth DEF CardTyped
  <2>2. call' \in [op : {"none", "init", "read", "csd", "write", "sync"}, sector : Sectors \cup {0},
                   n : 0 .. 2, block : Blocks \cup {"none"}]
    OBVIOUS
  <2>3. left' \in 0 .. (Retries + 2)
    BY <1>1, CardConstants
  <2>4. DriverTyped'
    BY <1>1, <2>2, <2>3, TypedBoth DEF DriverTyped
  <2> QED BY <2>1, <2>4, TypedThen
<1>4. CallRuns'
  BY <1>1, <1>2 DEF CallRuns, InitPlaces, WritePlaces
<1>5. BusyMode' /\ CardKnown' /\ AllHeard'
  BY <1>1, <1>2 DEF BusyMode, CardKnown, AllHeard, InitPlaces, Sd!Returned
<1>6. Reading' /\ ReadingRegister' /\ Writing'
  BY <1>1, <1>2 DEF Reading, ReadingRegister, Writing
<1> QED BY <1>3, <1>4, <1>5, <1>6

LEMMA CallsKeep ==
  ASSUME SdInv, Sd!disk_read \/ Sd!read_csd \/ Sd!disk_write
  PROVE  SdInv'
<1>1. CASE Sd!disk_read
  BY <1>1, CallBegins DEF Sd!disk_read, Sd!NoBlock
<1>2. CASE Sd!read_csd
  BY <1>2, CallBegins DEF Sd!read_csd, Sd!NoCall, Sd!NoBlock
<1>3. CASE Sd!disk_write
  <2>1. PICK s \in Sectors, n \in 1 .. 2, b \in Blocks :
          /\ call' = [op |-> "write", sector |-> s, n |-> n, block |-> b]
          /\ Sd!Calling(IF n > 1 /\ card_type # "HC" THEN "erase_count" ELSE "write_cmd")
    BY <1>3 DEF Sd!disk_write
  <2> QED BY <2>1, CallBegins
<1> QED BY <1>1, <1>2, <1>3

LEMMA SyncKeeps == ASSUME SdInv, Sd!disk_sync PROVE SdInv'
<1> USE DEF SdInv
<1>1. /\ pc = "free" /\ rc' = 0 /\ block' = "none"
      /\ call' = [op |-> "sync", sector |-> 0, n |-> 0, block |-> "none"]
      /\ cut' = {}
      /\ UNCHANGED <<pc, left, res, ms, card_type, noinit, kind, hasty, mode, at, busy, store, buffered, faults>>
      /\ ~(call.op = "init" /\ rc # 0)
  BY DEF Sd!disk_sync, Sd!Mounted, Sd!Locals, Sd!cardVars, Sd!lineVars, Sd!NoCall, Sd!NoBlock
<1>2. Sd!TypeOK'
  BY <1>1, TypedBoth, TypedThen DEF DriverTyped, CardTyped
<1>3. CallRuns' /\ BusyMode' /\ CardKnown' /\ AllHeard'
  BY <1>1 DEF CallRuns, BusyMode, CardKnown, AllHeard, InitPlaces, WritePlaces, Sd!Returned
<1>4. Reading' /\ ReadingRegister' /\ Writing'
  BY <1>1 DEF Reading, ReadingRegister, Writing
<1> QED BY <1>2, <1>3, <1>4

\* The driver goes on at p, or returns r.
GoesTo(p) == pc' = p /\ UNCHANGED <<call, rc, block>>
Ends(r) == pc' = "free" /\ rc' = r /\ left' = 0 /\ res' = {} /\ ms' = 0 /\ UNCHANGED <<call, block>>

LEMMA Ways ==
  /\ \A p : Sd!Goto(p) <=> GoesTo(p)
  /\ \A r : Sd!Return(r) <=> Ends(r)
BY DEF Sd!Goto, Sd!Return, GoesTo, Ends

LEMMA EndTyped == ASSUME DriverTyped, NEW r \in {0, 1}, Ends(r), noinit' = noinit PROVE DriverTyped'
<1>1. 0 \in 0 .. (Retries + 2) /\ 0 \in 0 .. (Width - 1)
  BY CardConstants
<1>2. r \in 0 .. 1
  OBVIOUS
<1> QED BY <1>1, <1>2, NoAnswer DEF DriverTyped, Ends

LEMMA GoesTyped ==
  ASSUME DriverTyped, NEW p, GoesTo(p), noinit' = noinit,
         p \in WritePlaces \cup {"read_cmd", "csd_cmd", "recv_block", "read_stop"},
         left' \in 0 .. (Retries + 2), res' = res, ms' \in 0 .. (Width - 1)
  PROVE  DriverTyped'
BY DEF DriverTyped, GoesTo, WritePlaces

\* A step of these calls leaves what is known of the card.
LEMMA Aside ==
  ASSUME SdInv, pc \notin InitPlaces, call.op \in {"read", "csd", "write"}, call' = call,
         pc' \notin InitPlaces, UNCHANGED <<card_type, kind, hasty>>, mode = "idle" => mode' = "idle"
  PROVE  CardKnown' /\ AllHeard'
BY DEF SdInv, CardKnown, AllHeard, InitPlaces, Sd!Returned

\* The command of a call, for the sector asked for.
LEMMA CommandDoes ==
  ASSUME SdInv, NEW here, NEW next, NEW one \in Sd!Modes, NEW several \in Sd!Modes,
         Sd!Command(here, next, one, several), here \in {"read_cmd", "write_cmd"}, next # "free"
  PROVE  /\ pc = here /\ call' = call
         /\ UNCHANGED <<card_type, noinit, kind, hasty, cut, busy, store>>
         /\ \/ GoesTo(next) /\ UNCHANGED <<left, res, ms>>
            \/ Ends(1) /\ mode' = mode
         /\ buffered' = {} \/ (buffered' = buffered /\ mode' = mode)
         /\ \/ mode' = mode /\ (GoesTo(next) => mode \in {"idle", "ready"})
            \/ mode # "idle" /\ mode' = "ready" /\ ~busy
            \/ /\ mode # "idle" /\ mode' = (IF call.n > 1 THEN several ELSE one) /\ ~busy
               /\ ~hasty => at' = call.sector
         /\ CardTyped'
<1> USE DEF SdInv
<1>1. PICK heard \in BOOLEAN, r1 \in Sd!Answers :
        /\ Sd!send_cmd(Sd!Transfer(Sd!Address(call.sector), IF call.n > 1 THEN several ELSE one), r1, heard)
        /\ IF heard THEN GoesTo(next) /\ UNCHANGED <<left, res, ms>> ELSE Ends(1)
  BY Ways DEF Sd!Command, Sd!Locals
<1>2. pc = here /\ UNCHANGED <<card_type, noinit, kind, hasty, cut, busy, store>>
  BY DEF Sd!Command
<1>3. call' = call
  BY <1>1 DEF GoesTo, Ends
<1>4. at \in Nat /\ mode \in Sd!Modes /\ call.sector \in Sectors
  BY <1>2 DEF Sd!TypeOK, CallRuns, WritePlaces
<1> DEFINE m == IF call.n > 1 THEN several ELSE one
           O == Sd!Transfer(Sd!Address(call.sector), m)
<1>5. m \in Sd!Modes
  OBVIOUS
<1>6. ~hasty /\ mode # "idle" => (card_type = "HC" <=> kind = "HC")
  BY <1>2 DEF CardKnown
<1>7. \A o \in O : /\ \/ o.mode = (IF mode = "idle" THEN "idle" ELSE "ready") /\ o.at = at
                      \/ o.mode = m /\ mode # "idle" /\ ((card_type = "HC" <=> kind = "HC") => o.at = call.sector)
                   /\ o.at \in Nat
  BY <1>4, TransferIs
<1>8. \A o \in O : o.mode \in Sd!Modes /\ o.at \in Nat
  BY <1>5, <1>7 DEF Sd!Modes
<1>9. /\ mode' \in Sd!Modes /\ at' \in Nat
      /\ faults' \in 0 .. MaxFaults
      /\ buffered' \subseteq Sectors /\ (heard /\ ~busy => buffered' = {})
      /\ busy \/ ~heard => buffered' = buffered
      /\ heard /\ ~busy => \E o \in O : mode' = o.mode /\ at' = o.at
      /\ heard /\ busy => mode' = mode
      /\ ~heard => mode' = mode
  BY <1>1, <1>8, Exchanged
<1> HIDE DEF m, O
<1>10. CardTyped'
  BY <1>2, <1>9, TypedBoth DEF CardTyped
<1>11. CASE heard /\ ~busy
  <2>1. PICK o \in O : mode' = o.mode /\ at' = o.at
    BY <1>9, <1>11
  <2> QED BY <1>1, <1>2, <1>3, <1>6, <1>7, <1>9, <1>10, <1>11, <2>1 DEF m
<1>12. CASE heard /\ busy
  <2>1. mode \in {"idle", "ready"}
    BY <1>2, <1>12 DEF BusyMode
  <2> QED BY <1>1, <1>2, <1>3, <1>9, <1>10, <1>12, <2>1
<1>13. CASE ~heard
  <2>1. ~GoesTo(next)
    BY <1>1, <1>13 DEF GoesTo, Ends
  <2> QED BY <1>1, <1>2, <1>3, <1>9, <1>10, <1>13, <2>1
<1> QED BY <1>11, <1>12, <1>13

LEMMA ReadCommandKeeps == ASSUME SdInv, Sd!ReadCommand PROVE SdInv'
<1> USE DEF SdInv
<1>1. /\ pc = "read_cmd" /\ call' = call
      /\ UNCHANGED <<card_type, noinit, kind, hasty, cut, busy, store>>
      /\ \/ GoesTo("recv_block") /\ UNCHANGED <<left, res, ms>>
         \/ Ends(1) /\ mode' = mode
      /\ buffered' = {} \/ (buffered' = buffered /\ mode' = mode)
      /\ \/ mode' = mode /\ (GoesTo("recv_block") => mode \in {"idle", "ready"})
         \/ mode # "idle" /\ mode' = "ready" /\ ~busy
         \/ /\ mode # "idle" /\ mode' = (IF call.n > 1 THEN "sendN" ELSE "send") /\ ~busy
            /\ ~hasty => at' = call.sector
      /\ CardTyped'
  <2>1. "send" \in Sd!Modes /\ "sendN" \in Sd!Modes
    BY DEF Sd!Modes
  <2> QED BY <2>1, CommandDoes, Zenon DEF Sd!ReadCommand
<1>2. call.op = "read" /\ call.n \in {1, 2} /\ call.sector \in Sectors /\ left = call.n /\ rc = 1
  BY <1>1 DEF CallRuns
<1>3. Sd!TypeOK'
  BY <1>1, TypedBoth, TypedThen, EndTyped, GoesTyped DEF DriverTyped
<1>4. CallRuns'
  BY <1>1, <1>2 DEF CallRuns, GoesTo, Ends, InitPlaces, WritePlaces
<1>5. BusyMode'
  BY <1>1 DEF BusyMode, GoesTo, Ends
<1>6. CardKnown' /\ AllHeard'
  BY <1>1, <1>2, Aside DEF GoesTo, Ends, InitPlaces
<1>7. Reading'
  <2>1. call.sector \in Nat
    BY <1>2, CardConstants
  <2> QED BY <1>1, <1>2, <2>1 DEF Reading, AtNext, Done, GoesTo, Ends
<1> QED BY <1>1, <1>2, <1>3, <1>4, <1>5, <1>6, <1>7, OtherCalls

LEMMA WriteCommandKeeps == ASSUME SdInv, Sd!WriteCommand PROVE SdInv'
<1> USE DEF SdInv
<1>1. /\ pc = "write_cmd" /\ call' = call
      /\ UNCHANGED <<card_type, noinit, kind, hasty, cut, busy, store>>
      /\ \/ GoesTo("send_block") /\ UNCHANGED <<left, res, ms>>
         \/ Ends(1) /\ mode' = mode
      /\ buffered' = {} \/ (buffered' = buffered /\ mode' = mode)
      /\ \/ mode' = mode /\ (GoesTo("send_block") => mode \in {"idle", "ready"})
         \/ mode # "idle" /\ mode' = "ready" /\ ~busy
         \/ /\ mode # "idle" /\ mode' = (IF call.n > 1 THEN "recvN" ELSE "recv") /\ ~busy
            /\ ~hasty => at' = call.sector
      /\ CardTyped'
  <2>1. "recv" \in Sd!Modes /\ "recvN" \in Sd!Modes
    BY DEF Sd!Modes
  <2> QED BY <2>1, CommandDoes, Zenon DEF Sd!WriteCommand
<1>2. call.op = "write" /\ call.n \in {1, 2} /\ call.sector \in Sectors /\ left = call.n /\ rc = 1
  BY <1>1 DEF CallRuns, WritePlaces
<1>3. Sd!TypeOK'
  BY <1>1, TypedBoth, TypedThen, EndTyped, GoesTyped DEF DriverTyped, WritePlaces
<1>4. CallRuns'
  BY <1>1, <1>2 DEF CallRuns, GoesTo, Ends, InitPlaces, WritePlaces
<1>5. BusyMode'
  BY <1>1 DEF BusyMode, GoesTo, Ends
<1>6. CardKnown' /\ AllHeard'
  BY <1>1, <1>2, Aside DEF GoesTo, Ends, InitPlaces
<1>7. Writing'
  <2>1. call.sector \in Nat
    BY <1>2, CardConstants
  <2>2. pc' = "send_block" => StoredFirst(Done)'
    BY <1>1, <1>2, <2>1 DEF StoredFirst, Done, GoesTo, Ends
  <2> QED BY <1>1, <1>2, <2>1, <2>2 DEF Writing, AtNext, Done, GoesTo, Ends
<1> QED BY <1>1, <1>2, <1>3, <1>4, <1>5, <1>6, <1>7, OtherCalls

LEMMA SendCsdKeeps == ASSUME SdInv, Sd!SendCsd PROVE SdInv'
<1> USE DEF SdInv
<1> DEFINE O == IF mode = "idle" THEN Sd!Refused({"illegal"}) ELSE {Sd!Outcome({}, "sendR", at)}
<1>1. PICK heard \in BOOLEAN, r1 \in Sd!Answers :
        /\ Sd!send_cmd(O, r1, heard)
        /\ IF heard THEN GoesTo("recv_block") /\ UNCHANGED <<left, res, ms>> ELSE Ends(1)
  BY Ways DEF Sd!SendCsd, Sd!Locals
<1>2. pc = "csd_cmd" /\ UNCHANGED <<card_type, noinit, kind, hasty, cut, busy, store>>
  BY DEF Sd!SendCsd
<1>3. call' = call
  BY <1>1 DEF GoesTo, Ends
<1>4. call.op = "csd" /\ call.n = 1 /\ left = 1 /\ rc = 1
  BY <1>2 DEF CallRuns
<1>5. at \in Nat
  BY DEF Sd!TypeOK
<1>6. \A o \in O : o.mode = (IF mode = "idle" THEN "idle" ELSE "sendR") /\ o.at = at
  BY RefusedIs DEF Sd!Outcome
<1> HIDE DEF O
<1>7. \A o \in O : o.mode \in Sd!Modes /\ o.at \in Nat
  BY <1>5, <1>6 DEF Sd!Modes
<1>8. /\ mode' \in Sd!Modes /\ at' \in Nat
      /\ faults' \in 0 .. MaxFaults
      /\ buffered' \subseteq Sectors /\ (heard /\ ~busy => buffered' = {})
      /\ busy \/ ~heard => buffered' = buffered
      /\ heard /\ ~busy => \E o \in O : mode' = o.mode /\ at' = o.at
      /\ heard /\ busy => mode' = mode
      /\ ~heard => mode' = mode
  BY <1>1, <1>7, Exchanged
<1>9. mode' = mode \/ (mode # "idle" /\ mode' = "sendR" /\ ~busy)
  BY <1>6, <1>8
<1>10. heard => mode' \in {"idle", "ready", "sendR"}
  BY <1>2, <1>6, <1>8 DEF BusyMode
<1>11. Sd!TypeOK'
  <2>1. CardTyped'
    BY <1>2, <1>8, TypedBoth DEF CardTyped
  <2>2. DriverTyped'
    BY <1>1, <1>2, TypedBoth, EndTyped, GoesTyped DEF DriverTyped
  <2> QED BY <2>1, <2>2, TypedThen
<1>12. CallRuns'
  BY <1>1, <1>3, <1>4 DEF CallRuns, GoesTo, Ends, InitPlaces, WritePlaces
<1>13. BusyMode'
  BY <1>1, <1>2, <1>8, <1>9 DEF BusyMode, GoesTo, Ends
<1>14. CardKnown' /\ AllHeard'
  BY <1>1, <1>2, <1>3, <1>4, <1>9, Aside DEF GoesTo, Ends, InitPlaces
<1>15. ReadingRegister'
  BY <1>1, <1>4, <1>10 DEF ReadingRegister, GoesTo, Ends
<1> QED BY <1>3, <1>4, <1>11, <1>12, <1>13, <1>14, <1>15, OtherCalls

\* A block comes from the sector the card is at.
LEMMA RecvBlockKeeps == ASSUME SdInv, Sd!RecvBlock PROVE SdInv'
<1> USE DEF SdInv
<1>1. /\ pc = "recv_block" /\ mode \in {"send", "sendN", "sendR"} /\ ~busy
      /\ mode # "sendR" => at \in Sectors
      /\ block' = IF mode = "sendR" THEN "csd" ELSE store[at]
      /\ at' = IF mode = "sendR" THEN at ELSE at + 1
      /\ mode' = IF mode = "sendN" THEN mode ELSE "ready"
      /\ left' = left - 1
      /\ pc' = IF left > 1 THEN "recv_block" ELSE IF call.n > 1 THEN "read_stop" ELSE "free"
      /\ rc' = IF left = 1 THEN 0 ELSE rc
      /\ UNCHANGED <<call, res, ms, card_type, noinit, kind, hasty, cut, busy, store, buffered, faults>>
  BY DEF Sd!RecvBlock, Sd!Register
<1>2. call.op \in {"read", "csd"} /\ left \in 1 .. call.n /\ rc = 1 /\ call.n \in {1, 2}
  BY <1>1 DEF CallRuns
<1>3. at \in Nat
  BY DEF Sd!TypeOK
<1>4. Sd!TypeOK'
  <2>1. CardTyped'
    BY <1>1, <1>3, TypedBoth DEF CardTyped, Sd!Modes
  <2>2. left' \in 0 .. (Retries + 2) /\ rc' \in 0 .. 1
    BY <1>1, <1>2, CardConstants
  <2>3. block' \in Blocks \cup {"none", "csd"}
    BY <1>1, TypedBoth DEF CardTyped
  <2>4. DriverTyped'
    BY <1>1, <2>2, <2>3, TypedBoth DEF DriverTyped
  <2> QED BY <2>1, <2>4, TypedThen
<1>5. CallRuns'
  BY <1>1, <1>2 DEF CallRuns, InitPlaces, WritePlaces
<1>6. BusyMode'
  BY <1>1 DEF BusyMode
<1>7. CardKnown' /\ AllHeard'
  BY <1>1, <1>2, Aside DEF InitPlaces
<1>8. CASE call.op = "csd"
  <2>1. call.n = 1 /\ mode = "sendR" /\ left = 1
    BY <1>1, <1>2, <1>8 DEF CallRuns, ReadingRegister
  <2>2. ReadingRegister'
    BY <1>1, <1>8, <2>1 DEF ReadingRegister
  <2> QED BY <1>1, <1>4, <1>5, <1>6, <1>7, <1>8, <2>2, OtherCalls
<1>9. CASE call.op = "read"
  <2>1. /\ mode \in {"send", "sendN"} /\ (mode = "send" => call.n = 1) /\ (mode = "sendN" => call.n = 2)
        /\ ~hasty => at = call.sector + (call.n - left)
        /\ call.sector \in Nat
    BY <1>1, <1>9, CardConstants DEF Reading, AtNext, Done, CallRuns
  <2>2. /\ ~hasty /\ left > 1 => at' = call.sector + (call.n - left')
        /\ ~hasty /\ left = 1 => at = call.sector + call.n - 1
    BY <1>1, <1>2, <1>3, <2>1
  <2>3. Reading'
    BY <1>1, <1>2, <1>9, <2>1, <2>2 DEF Reading, BusyMode, AtNext, Done
  <2> QED BY <1>1, <1>4, <1>5, <1>6, <1>7, <1>9, <2>3, OtherCalls
<1> QED BY <1>2, <1>8, <1>9

\* No block comes.
LEMMA NoTokenKeeps == ASSUME SdInv, Sd!NoToken PROVE SdInv'
<1> USE DEF SdInv
<1>1. /\ pc = "recv_block"
      /\ IF call.n > 1 THEN GoesTo("read_stop") /\ UNCHANGED <<left, res, ms>> ELSE Ends(1)
      /\ UNCHANGED <<card_type, noinit, kind, hasty, cut, mode, at, busy, store, buffered, faults>>
  BY Ways DEF Sd!NoToken, Sd!Locals, Sd!cardVars, Sd!lineVars
<1>2. call.op \in {"read", "csd"} /\ call' = call /\ rc = 1
  BY <1>1 DEF CallRuns, GoesTo, Ends
<1>3. Sd!TypeOK'
  <2>1. CardTyped'
    BY <1>1, TypedBoth DEF CardTyped
  <2>2. DriverTyped'
    BY <1>1, TypedBoth, EndTyped, GoesTyped DEF DriverTyped
  <2> QED BY <2>1, <2>2, TypedThen
<1>4. CallRuns'
  BY <1>1, <1>2 DEF CallRuns, GoesTo, Ends, InitPlaces, WritePlaces
<1>5. BusyMode'
  BY <1>1 DEF BusyMode, GoesTo, Ends
<1>6. CardKnown' /\ AllHeard'
  BY <1>1, <1>2, Aside DEF GoesTo, Ends, InitPlaces
<1>7. Reading' /\ ReadingRegister'
  BY <1>1, <1>2 DEF Reading, ReadingRegister, GoesTo, Ends
<1> QED BY <1>2, <1>3, <1>4, <1>5, <1>6, <1>7, OtherCalls

LEMMA StopReadingKeeps == ASSUME SdInv, Sd!StopReading PROVE SdInv'
<1> USE DEF SdInv
<1>1. PICK heard \in BOOLEAN, r1 \in Sd!Answers :
        /\ Sd!send_cmd(Sd!StayOutcome, r1, heard)
        /\ busy' \in IF heard THEN {busy, TRUE} ELSE {busy}
  BY DEF Sd!StopReading
<1>2. pc = "read_stop" /\ Ends(rc) /\ UNCHANGED <<card_type, noinit, kind, hasty, cut, store>>
  BY Ways DEF Sd!StopReading
<1>3. call.op = "read" /\ call' = call /\ rc \in {0, 1}
  BY <1>2 DEF CallRuns, Ends, Sd!TypeOK
<1>4. at \in Nat
  BY DEF Sd!TypeOK
<1>5. /\ mode' \in Sd!Modes /\ at' \in Nat /\ faults' \in 0 .. MaxFaults
      /\ buffered' \subseteq Sectors /\ (heard /\ ~busy => buffered' = {})
      /\ busy \/ ~heard => buffered' = buffered
      /\ heard /\ ~busy => mode' = IF mode = "idle" THEN "idle" ELSE "ready"
      /\ heard /\ busy => mode' = mode
      /\ ~heard => mode' = mode
  BY <1>1, <1>4, StayIs, Exchanged DEF Sd!Modes
<1>6. busy' \in BOOLEAN /\ (busy' => busy \/ heard)
  BY <1>1 DEF Sd!TypeOK
<1>7. Sd!TypeOK'
  <2>1. CardTyped'
    BY <1>2, <1>5, <1>6, TypedBoth DEF CardTyped
  <2>2. DriverTyped'
    BY <1>2, <1>3, TypedBoth, EndTyped
  <2> QED BY <2>1, <2>2, TypedThen
<1>8. CallRuns'
  BY <1>2, <1>3 DEF CallRuns, Ends, InitPlaces, WritePlaces
<1>9. BusyMode'
  BY <1>1, <1>2, <1>5, <1>6 DEF BusyMode, Ends
<1>10. CardKnown' /\ AllHeard'
  BY <1>2, <1>3, <1>5, Aside DEF Ends, InitPlaces
<1>11. Reading'
  BY <1>2, <1>3, <1>5 DEF Reading, Ends
<1> QED BY <1>3, <1>7, <1>8, <1>9, <1>10, <1>11, OtherCalls

LEMMA EraseCountKeeps == ASSUME SdInv, Sd!EraseCount PROVE SdInv'
<1> USE DEF SdInv
<1>1. PICK heard \in BOOLEAN, r1 \in Sd!Answers : Sd!send_cmd(Sd!StayOutcome, r1, heard)
  BY DEF Sd!EraseCount
<1>2. /\ pc = "erase_count" /\ GoesTo("write_cmd") /\ call' = call
      /\ UNCHANGED <<left, res, ms, card_type, noinit, kind, hasty, cut, busy, store>>
  BY Ways DEF Sd!EraseCount, Sd!Locals, GoesTo
<1>3. call.op = "write" /\ left = call.n /\ rc = 1
  BY <1>2 DEF CallRuns, WritePlaces
<1>4. at \in Nat
  BY DEF Sd!TypeOK
<1>5. /\ mode' \in Sd!Modes /\ at' \in Nat /\ faults' \in 0 .. MaxFaults
      /\ buffered' \subseteq Sectors /\ (heard /\ ~busy => buffered' = {})
      /\ busy \/ ~heard => buffered' = buffered
      /\ heard /\ ~busy => mode' = IF mode = "idle" THEN "idle" ELSE "ready"
      /\ heard /\ busy => mode' = mode
      /\ ~heard => mode' = mode
  BY <1>1, <1>4, StayIs, Exchanged DEF Sd!Modes
<1>6. Sd!TypeOK'
  <2>1. CardTyped'
    BY <1>2, <1>5, TypedBoth DEF CardTyped
  <2>2. DriverTyped'
    BY <1>2, TypedBoth, GoesTyped DEF DriverTyped, WritePlaces
  <2> QED BY <2>1, <2>2, TypedThen
<1>7. CallRuns'
  BY <1>2, <1>3 DEF CallRuns, GoesTo, InitPlaces, WritePlaces
<1>8. BusyMode'
  BY <1>2, <1>5 DEF BusyMode, GoesTo
<1>9. CardKnown' /\ AllHeard'
  BY <1>2, <1>3, <1>5, Aside DEF GoesTo, InitPlaces
<1>10. Writing'
  BY <1>2 DEF Writing, GoesTo
<1> QED BY <1>2, <1>3, <1>6, <1>7, <1>8, <1>9, <1>10, OtherCalls

\* A block goes to the sector the card is at, which is the next one asked for.
LEMMA SendBlockKeeps == ASSUME SdInv, Sd!SendBlock PROVE SdInv'
<1> USE DEF SdInv
<1>1. /\ pc = "send_block" /\ mode \in {"recv", "recvN"} /\ ~busy /\ at \in Sectors
      /\ store' = [store EXCEPT ![at] = call.block]
      /\ at' = at + 1
      /\ mode' = IF mode = "recv" THEN "ready" ELSE mode
      /\ busy' = TRUE /\ buffered' = buffered \cup {at}
      /\ left' = left - 1 /\ ms' = Timeout
      /\ GoesTo("wait_ready")
      /\ UNCHANGED <<res, card_type, noinit, kind, hasty, cut, faults>>
  BY Ways DEF Sd!SendBlock
<1>2. /\ pc' = "wait_ready" /\ call' = call /\ rc' = rc
      /\ call.op = "write" /\ left \in 1 .. call.n /\ rc = 1 /\ call.n \in {1, 2}
      /\ call.block \in Blocks /\ call.sector \in Sectors
  BY <1>1 DEF CallRuns, GoesTo, WritePlaces
<1>3. at \in Nat /\ call.sector \in Nat /\ store \in [Sectors -> Blocks]
  BY <1>2, CardConstants DEF Sd!TypeOK
<1>4. Sd!TypeOK'
  <2>1. CardTyped'
    BY <1>1, <1>2, <1>3, TypedBoth DEF CardTyped, Sd!Modes
  <2>2. left' \in 0 .. (Retries + 2) /\ ms' \in 0 .. (Width - 1)
    BY <1>1, <1>2, CardConstants
  <2>3. DriverTyped'
    BY <1>1, <2>2, TypedBoth, GoesTyped DEF WritePlaces
  <2> QED BY <2>1, <2>3, TypedThen
<1>5. CallRuns'
  BY <1>1, <1>2 DEF CallRuns, InitPlaces, WritePlaces
<1>6. BusyMode'
  BY <1>1, <1>2 DEF BusyMode
<1>7. CardKnown' /\ AllHeard'
  BY <1>1, <1>2, Aside DEF InitPlaces
<1>8. Writing'
  <2>1. mode = "recvN" => call.n = 2
    BY <1>1, <1>2 DEF Writing
  <2>2. ~hasty => at = call.sector + (call.n - left)
    BY <1>1, <1>2 DEF Writing, AtNext, Done
  <2>3. ~hasty => at' = call.sector + (call.n - left')
    BY <1>1, <1>2, <1>3, <2>2
  <2>4. ASSUME ~hasty PROVE StoredFirst(Done)'
    <3> SUFFICES ASSUME NEW s \in call.sector .. call.sector + (call.n - left') - 1
                 PROVE  s \in Sectors /\ (store'[s] = call.block \/ s \in cut)
      BY <1>1, <1>2 DEF StoredFirst, Done
    <3>1. s = at \/ s \in call.sector .. call.sector + (call.n - left) - 1
      BY <1>1, <1>2, <1>3, <2>2, <2>4
    <3>2. CASE s = at
      BY <1>1, <1>3, <3>2
    <3>3. CASE s \in call.sector .. call.sector + (call.n - left) - 1 /\ s # at
      <4>1. s \in Sectors /\ (store[s] = call.block \/ s \in cut)
        BY <1>1, <1>2, <2>4, <3>3 DEF Writing, StoredFirst, Done
      <4> QED BY <1>1, <1>3, <3>3, <4>1
    <3> QED BY <3>1, <3>2, <3>3
  <2> QED BY <1>1, <1>2, <2>1, <2>3, <2>4 DEF Writing, AtNext, Done
<1> QED BY <1>2, <1>4, <1>5, <1>6, <1>7, <1>8, OtherCalls

\* A block is refused.
LEMMA BlockRefusedKeeps == ASSUME SdInv, Sd!BlockRefused PROVE SdInv'
<1> USE DEF SdInv
<1>1. /\ pc = "send_block"
      /\ mode' = IF mode = "recv" THEN "ready" ELSE mode
      /\ Ends(1)
      /\ UNCHANGED <<card_type, noinit, kind, hasty, cut, at, busy, store, buffered, faults>>
  BY Ways DEF Sd!BlockRefused
<1>2. call.op = "write" /\ call' = call
  BY <1>1 DEF CallRuns, Ends, WritePlaces
<1>3. Sd!TypeOK'
  <2>1. CardTyped'
    BY <1>1, TypedBoth DEF CardTyped, Sd!Modes
  <2>2. DriverTyped'
    BY <1>1, TypedBoth, EndTyped
  <2> QED BY <2>1, <2>2, TypedThen
<1>4. CallRuns'
  BY <1>1, <1>2 DEF CallRuns, Ends, InitPlaces, WritePlaces
<1>5. BusyMode'
  BY <1>1 DEF BusyMode, Ends
<1>6. CardKnown' /\ AllHeard'
  BY <1>1, <1>2, Aside DEF Ends, InitPlaces
<1>7. Writing'
  BY <1>1 DEF Writing, Ends
<1> QED BY <1>2, <1>3, <1>4, <1>5, <1>6, <1>7, OtherCalls

\* The token that ends a write of several blocks.
LEMMA StopTokenKeeps == ASSUME SdInv, Sd!StopToken PROVE SdInv'
<1> USE DEF SdInv
<1>1. /\ pc = "stop_token"
      /\ mode' = IF mode = "recvN" /\ ~busy THEN "ready" ELSE mode
      /\ busy' \in IF mode = "recvN" THEN {busy, TRUE} ELSE {busy}
      /\ buffered' = IF busy' \/ mode' = "recvN" THEN buffered ELSE {}
      /\ ms' = Timeout
      /\ GoesTo("wait_stop")
      /\ UNCHANGED <<left, res, card_type, noinit, kind, hasty, cut, at, store, faults>>
  BY Ways DEF Sd!StopToken
<1>2. /\ call.op = "write" /\ call' = call /\ pc' = "wait_stop" /\ rc' = rc
      /\ left = 0 /\ rc = 1 /\ mode # "recv"
      /\ busy => mode \in {"idle", "ready"}
  BY <1>1 DEF CallRuns, GoesTo, WritePlaces, Writing, BusyMode
<1>3. busy' \in BOOLEAN
  BY <1>1, TypedBoth DEF CardTyped
<1>4. Sd!TypeOK'
  <2>1. CardTyped'
    BY <1>1, <1>3, TypedBoth DEF CardTyped, Sd!Modes
  <2>2. ms' \in 0 .. (Width - 1)
    BY <1>1, CardConstants
  <2>3. DriverTyped'
    BY <1>1, <2>2, TypedBoth, GoesTyped DEF DriverTyped, WritePlaces
  <2> QED BY <2>1, <2>3, TypedThen
<1>5. CallRuns'
  BY <1>1, <1>2 DEF CallRuns, InitPlaces, WritePlaces
<1>6. BusyMode'
  BY <1>1, <1>2 DEF BusyMode
<1>7. CardKnown' /\ AllHeard'
  BY <1>1, <1>2, Aside DEF InitPlaces
<1>8. Writing'
  BY <1>1, <1>2 DEF Writing, StoredFirst, Done
<1> QED BY <1>2, <1>4, <1>5, <1>6, <1>7, <1>8, OtherCalls

\* A poll of a busy card.
LEMMA PollBusyKeeps == ASSUME SdInv, Sd!PollBusy PROVE SdInv'
<1> USE DEF SdInv
<1>1. /\ ms' = (ms + Width - 1) % Width
      /\ UNCHANGED <<pc, call, left, res, card_type, rc, block, noinit,
                     kind, hasty, cut, mode, at, busy, store, buffered, faults>>
  BY DEF Sd!PollBusy, Sd!cardVars, Sd!lineVars
<1>2. ms' \in 0 .. (Width - 1)
  BY <1>1, CardConstants DEF Sd!TypeOK
<1>3. Sd!TypeOK'
  BY <1>1, <1>2, TypedBoth, TypedThen DEF DriverTyped, CardTyped
<1>4. CallRuns' /\ BusyMode' /\ CardKnown' /\ AllHeard'
  BY <1>1 DEF CallRuns, BusyMode, CardKnown, AllHeard, Sd!Returned
<1>5. Reading' /\ ReadingRegister' /\ Writing'
  BY <1>1 DEF Reading, ReadingRegister, Writing, AtNext, StoredFirst, Done
<1> QED BY <1>3, <1>4, <1>5

\* A poll that finds the card ready: the block or the whole write is done.
LEMMA PollReadyKeeps == ASSUME SdInv, Sd!PollReady PROVE SdInv'
<1> USE DEF SdInv
<1>1. /\ pc \in {"wait_ready", "wait_stop"} /\ ~busy
      /\ \/ Ends(1)
         \/ (pc = "wait_stop" \/ call.n = 1) /\ Ends(0)
         \/ /\ pc = "wait_ready" /\ call.n # 1 /\ left > 0
            /\ GoesTo("send_block") /\ UNCHANGED <<left, res, ms>>
         \/ /\ pc = "wait_ready" /\ call.n # 1 /\ ~(left > 0)
            /\ GoesTo("stop_token") /\ UNCHANGED <<left, res, ms>>
      /\ UNCHANGED <<card_type, noinit, kind, hasty, cut, mode, at, busy, store, buffered, faults>>
  BY Ways DEF Sd!PollReady, Sd!Locals, Sd!cardVars, Sd!lineVars
<1>2. /\ call.op = "write" /\ call' = call /\ call.n \in {1, 2} /\ rc = 1
      /\ pc = "wait_ready" => left \in 0 .. call.n - 1
      /\ pc = "wait_stop" => left = 0
  BY <1>1 DEF CallRuns, GoesTo, Ends, WritePlaces
<1>3. Sd!TypeOK'
  <2>1. CardTyped'
    BY <1>1, TypedBoth DEF CardTyped
  <2>2. DriverTyped'
    BY <1>1, TypedBoth, EndTyped, GoesTyped DEF DriverTyped, WritePlaces
  <2> QED BY <2>1, <2>2, TypedThen
<1>4. CallRuns'
  BY <1>1, <1>2 DEF CallRuns, GoesTo, Ends, InitPlaces, WritePlaces
<1>5. BusyMode'
  BY <1>1 DEF BusyMode, GoesTo, Ends
<1>6. CardKnown' /\ AllHeard'
  BY <1>1, <1>2, Aside DEF GoesTo, Ends, InitPlaces
<1>7. Writing'
  <2>1. /\ mode = "recvN" => call.n = 2 /\ pc = "wait_ready"
        /\ mode # "recv"
        /\ mode = "recvN" => AtNext
        /\ ~hasty => StoredFirst(call.n - left)
    BY <1>1, <1>2 DEF Writing, Done
  <2>2. CASE Ends(1)
    BY <2>2 DEF Writing, Ends
  <2>3. CASE (pc = "wait_stop" \/ call.n = 1) /\ Ends(0)
    <3>1. call.n - left = call.n /\ mode # "recvN"
      BY <1>1, <1>2, <2>1, <2>3
    <3> QED BY <1>1, <1>2, <2>1, <2>3, <3>1 DEF Writing, StoredFirst, Ends
  <2>4. CASE GoesTo("send_block") /\ UNCHANGED <<left, res, ms>> /\ call.n # 1
    BY <1>1, <1>2, <2>1, <2>4 DEF Writing, AtNext, StoredFirst, Done, GoesTo
  <2>5. CASE GoesTo("stop_token") /\ UNCHANGED <<left, res, ms>> /\ call.n # 1
    BY <1>1, <1>2, <2>1, <2>5 DEF Writing, AtNext, StoredFirst, Done, GoesTo
  <2> QED BY <1>1, <2>2, <2>3, <2>4, <2>5
<1> QED BY <1>2, <1>3, <1>4, <1>5, <1>6, <1>7, OtherCalls

-----------------------------------------------------------------------------
(* The card on its own, and every step.                                     *)

LEMMA CardReadyKeeps == ASSUME SdInv, Sd!CardReady PROVE SdInv'
<1> USE DEF SdInv
<1>1. /\ busy' = FALSE /\ buffered' = IF mode = "recvN" THEN buffered ELSE {}
      /\ UNCHANGED <<pc, call, left, res, ms, card_type, rc, block, noinit,
                     kind, hasty, cut, mode, at, store, faults>>
  BY DEF Sd!CardReady, Sd!driverVars
<1>2. Sd!TypeOK'
  BY <1>1, TypedBoth, TypedThen DEF DriverTyped, CardTyped
<1>3. CallRuns' /\ BusyMode' /\ CardKnown' /\ AllHeard'
  BY <1>1 DEF CallRuns, BusyMode, CardKnown, AllHeard, Sd!Returned
<1>4. Reading' /\ ReadingRegister' /\ Writing'
  BY <1>1 DEF Reading, ReadingRegister, Writing, AtNext, StoredFirst, Done
<1> QED BY <1>2, <1>3, <1>4

\* A loss of supply ends every transfer, and takes what was to be programmed.
LEMMA CardResetKeeps == ASSUME SdInv, Sd!CardReset PROVE SdInv'
<1> USE DEF SdInv
<1>1. /\ faults < MaxFaults /\ faults' = faults + 1 /\ mode' = "idle" /\ busy' = FALSE
      /\ store' \in [Sectors -> Blocks]
      /\ \A s \in Sectors \ buffered : store'[s] = store[s]
      /\ buffered' = {} /\ cut' = cut \cup buffered
      /\ UNCHANGED <<pc, call, left, res, ms, card_type, rc, block, noinit, kind, hasty, at>>
  BY DEF Sd!CardReset, Sd!driverVars
<1>2. faults' \in 0 .. MaxFaults /\ faults' # 0
  BY <1>1, CardConstants DEF Sd!TypeOK
<1>3. Sd!TypeOK'
  BY <1>1, <1>2, TypedBoth, TypedThen DEF DriverTyped, CardTyped, Sd!Modes
<1>4. CallRuns' /\ BusyMode' /\ CardKnown' /\ AllHeard'
  BY <1>1, <1>2 DEF CallRuns, BusyMode, CardKnown, AllHeard
<1>5. \A k : StoredFirst(k) => StoredFirst(k)'
  BY <1>1 DEF StoredFirst
<1>6. Reading' /\ ReadingRegister'
  BY <1>1 DEF Reading, ReadingRegister, AtNext, Done
<1>7. Writing'
  BY <1>1, <1>5 DEF Writing, AtNext, Done
<1> QED BY <1>3, <1>4, <1>6, <1>7

LEMMA CardStill == ASSUME SdInv, UNCHANGED Sd!vars PROVE SdInv'
<1> USE DEF SdInv
<1>1. UNCHANGED <<pc, call, left, res, ms, card_type, rc, block, noinit,
                  kind, hasty, cut, mode, at, busy, store, buffered, faults>>
  BY DEF Sd!vars, Sd!driverVars, Sd!cardVars, Sd!lineVars
<1>2. Sd!TypeOK'
  BY <1>1, TypedBoth, TypedThen DEF DriverTyped, CardTyped
<1>3. CallRuns' /\ BusyMode' /\ CardKnown' /\ AllHeard'
  BY <1>1 DEF CallRuns, BusyMode, CardKnown, AllHeard, Sd!Returned
<1>4. Reading' /\ ReadingRegister' /\ Writing'
  BY <1>1 DEF Reading, ReadingRegister, Writing, AtNext, StoredFirst, Done
<1> QED BY <1>2, <1>3, <1>4

LEMMA CardBegins == Sd!Init => SdInv
<1> SUFFICES ASSUME Sd!Init PROVE SdInv
  OBVIOUS
<1>1. /\ pc = "free" /\ call = [op |-> "none", sector |-> 0, n |-> 0, block |-> "none"]
      /\ left = 0 /\ res = {} /\ ms = 0
      /\ card_type = "none" /\ rc = 1 /\ block = "none" /\ noinit = TRUE
      /\ kind \in Kinds /\ mode = "idle" /\ at = 0 /\ busy = FALSE
      /\ \E b \in Blocks : store = [s \in Sectors |-> b]
      /\ buffered = {} /\ faults = 0 /\ hasty = FALSE /\ cut = {}
  BY DEF Sd!Init, Sd!NoCall, Sd!NoBlock
<1>2. DriverTyped
  <2>1. 0 \in 0 .. (Retries + 2) /\ 0 \in 0 .. (Width - 1) /\ 1 \in 0 .. 1
    BY CardConstants
  <2> QED BY <1>1, <2>1, NoAnswer DEF DriverTyped
<1>3. CardTyped
  <2>1. store \in [Sectors -> Blocks]
    BY <1>1
  <2>2. 0 \in 0 .. MaxFaults /\ "idle" \in Sd!Modes /\ 0 \in Nat
    BY CardConstants DEF Sd!Modes
  <2> QED BY <1>1, <2>1, <2>2 DEF CardTyped
<1>4. CallRuns /\ BusyMode /\ CardKnown /\ AllHeard
  BY <1>1 DEF CallRuns, BusyMode, CardKnown, AllHeard, InitPlaces, WritePlaces, Sd!Returned
<1>5. Reading /\ ReadingRegister /\ Writing
  BY <1>1 DEF Reading, ReadingRegister, Writing
<1> QED BY <1>2, <1>3, <1>4, <1>5, TypedBoth DEF SdInv

LEMMA CardStep == ASSUME SdInv, [Sd!Next]_(Sd!vars) PROVE SdInv'
<1>1. CASE Sd!Calls
  BY <1>1, InitBegins, CallsKeep, SyncKeeps DEF Sd!Calls
<1>2. CASE Sd!GoIdle \/ Sd!SendIfCond \/ Sd!ReadOcr \/ Sd!ProbeOld \/ Sd!SetBlockLen
  BY <1>2, GoIdleKeeps, IfCondKeeps, ReadOcrKeeps, ProbeKeeps, BlockLenKeeps
<1>3. CASE Sd!NewLeavesIdle \/ Sd!OldLeavesIdle
  BY <1>3, LeaveIdleKeeps DEF Sd!NewLeavesIdle, Sd!OldLeavesIdle
<1>4. CASE Sd!ReadCommand \/ Sd!SendCsd \/ Sd!RecvBlock \/ Sd!NoToken \/ Sd!StopReading
  BY <1>4, ReadCommandKeeps, SendCsdKeeps, RecvBlockKeeps, NoTokenKeeps, StopReadingKeeps
<1>5. CASE Sd!EraseCount \/ Sd!WriteCommand \/ Sd!SendBlock \/ Sd!BlockRefused \/ Sd!StopToken
  BY <1>5, EraseCountKeeps, WriteCommandKeeps, SendBlockKeeps, BlockRefusedKeeps, StopTokenKeeps
<1>6. CASE Sd!PollBusy \/ Sd!PollReady
  BY <1>6, PollBusyKeeps, PollReadyKeeps
<1>7. CASE Sd!CardReady \/ Sd!CardReset
  BY <1>7, CardReadyKeeps, CardResetKeeps
<1>8. CASE UNCHANGED Sd!vars
  BY <1>8, CardStill
<1> QED BY <1>1, <1>2, <1>3, <1>4, <1>5, <1>6, <1>7, <1>8 DEF Sd!Next, Sd!DriverStep

\* The driver knows where its call and the card are.
THEOREM CardInvariance == Sd!Spec => []SdInv
<1>1. Sd!Init => SdInv
  BY CardBegins
<1>2. SdInv /\ [Sd!Next]_(Sd!vars) => SdInv'
  BY CardStep
<1> QED BY <1>1, <1>2, PTL DEF Sd!Spec

\* What sd_write, sd_read, read_csd and sd_init say of a call that succeeded is
\* true, whatever commands go unheard, blocks are refused and supplies are lost,
\* in the middle of a call or while the card programs: only the sectors that were
\* to be programmed as the supply went may differ from what a write reports.
THEOREM CardReportsTrue == Sd!Spec => []CardAsReported
<1>1. SdInv => CardAsReported
  <2> SUFFICES ASSUME SdInv PROVE CardAsReported
    OBVIOUS
  <2>1. Sd!WrittenMeansStored
    BY DEF SdInv, BusyMode, Writing, StoredFirst, Sd!WrittenMeansStored, Sd!Returned, Sd!Asked
  <2>2. Sd!ReadMeansStored
    BY DEF SdInv, Reading, ReadingRegister, Sd!ReadMeansStored, Sd!Returned, Sd!Register
  <2>3. Sd!InitMeansReady
    BY DEF SdInv, AllHeard, Sd!InitMeansReady, Sd!Returned
  <2> QED BY <2>1, <2>2, <2>3 DEF CardAsReported
<1> QED BY <1>1, CardInvariance, PTL

\* A sector changes only by a sd_write that names it, to the block of that call,
\* or by a loss of supply while the card has a block of that sector to program.
THEOREM WritesOnlyAsked == Sd!Spec => OnlyAskedChanges
<1> DEFINE Only == \A s \in Sectors : store'[s] # store[s] /\ ~hasty =>
                      \/ call.op = "write" /\ s \in Sd!Asked /\ store'[s] = call.block
                      \/ s \in buffered /\ s \in cut'
<1>1. ASSUME [Sd!Next]_(Sd!vars) PROVE store' = store \/ Sd!SendBlock \/ Sd!CardReset
  <2>1. CASE Sd!Calls
    BY <2>1 DEF Sd!Calls, Sd!disk_initialize, Sd!disk_read, Sd!read_csd, Sd!disk_write, Sd!disk_sync,
         Sd!Calling, Sd!cardVars, Sd!lineVars
  <2>2. CASE Sd!GoIdle \/ Sd!SendIfCond \/ Sd!ReadOcr \/ Sd!ProbeOld \/ Sd!SetBlockLen
    BY <2>2 DEF Sd!GoIdle, Sd!SendIfCond, Sd!ReadOcr, Sd!ProbeOld, Sd!SetBlockLen
  <2>3. CASE Sd!NewLeavesIdle \/ Sd!OldLeavesIdle
    BY <2>3 DEF Sd!NewLeavesIdle, Sd!OldLeavesIdle, Sd!LeaveIdle
  <2>4. CASE Sd!ReadCommand \/ Sd!SendCsd \/ Sd!RecvBlock \/ Sd!NoToken \/ Sd!StopReading
    BY <2>4 DEF Sd!ReadCommand, Sd!Command, Sd!SendCsd, Sd!RecvBlock, Sd!NoToken, Sd!StopReading,
         Sd!cardVars, Sd!lineVars
  <2>5. CASE Sd!EraseCount \/ Sd!WriteCommand \/ Sd!BlockRefused \/ Sd!StopToken
    BY <2>5 DEF Sd!EraseCount, Sd!WriteCommand, Sd!Command, Sd!BlockRefused, Sd!StopToken
  <2>6. CASE Sd!PollBusy \/ Sd!PollReady \/ Sd!CardReady
    BY <2>6 DEF Sd!PollBusy, Sd!PollReady, Sd!CardReady, Sd!cardVars, Sd!lineVars
  <2>7. CASE UNCHANGED Sd!vars
    BY <2>7 DEF Sd!vars, Sd!cardVars, Sd!lineVars
  <2> QED BY <1>1, <2>1, <2>2, <2>3, <2>4, <2>5, <2>6, <2>7 DEF Sd!Next, Sd!DriverStep
<1>2. ASSUME SdInv, Sd!SendBlock PROVE Only
  <2>1. /\ pc = "send_block" /\ mode \in {"recv", "recvN"} /\ at \in Sectors
        /\ store' = [store EXCEPT ![at] = call.block]
    BY <1>2 DEF Sd!SendBlock
  <2>2. /\ call.op = "write" /\ left \in 1 .. call.n /\ call.n \in {1, 2}
        /\ call.sector \in Nat
    BY <1>2, <2>1, CardConstants DEF SdInv, CallRuns, WritePlaces
  <2>3. ~hasty => at = call.sector + (call.n - left)
    BY <1>2, <2>1, <2>2 DEF SdInv, Writing, AtNext, Done
  <2>4. ~hasty => at \in call.sector .. call.sector + call.n - 1
    BY <2>2, <2>3
  <2>5. store \in [Sectors -> Blocks]
    BY <1>2 DEF SdInv, Sd!TypeOK
  <2>6. \A s \in Sectors : store'[s] # store[s] => s = at /\ store'[s] = call.block
    BY <2>1, <2>5
  <2> QED BY <2>2, <2>4, <2>6 DEF Sd!Asked
<1>3. ASSUME SdInv, Sd!CardReset PROVE Only
  BY <1>3 DEF Sd!CardReset
<1>4. SdInv /\ [Sd!Next]_(Sd!vars) => [Only]_sdVars
  BY <1>1, <1>2, <1>3
<1> QED BY <1>4, CardInvariance, PTL DEF Sd!Spec, OnlyAskedChanges

-----------------------------------------------------------------------------
(* The real-time clock.  A register is a set of bits: what rtc_init has done   *)
(* with a register stays, because no later change of it touches the same bits, *)
(* and what the chip powered up with does not matter.                          *)

\* A number of at most 165 comes out of any byte, and each number of two
\* decimal digits out of the byte it is stored as.
LEMMA NibblesAreSmall ==
  ASSUME NEW b
  PROVE  /\ Rtc!Num(Rtc!LowNibble(b)) \in 0 .. 15
         /\ Rtc!Num(Rtc!HighNibble(b)) \in 0 .. 15
<1>1. ASSUME NEW c \in SUBSET (0 .. 3) PROVE Rtc!Num(c) \in 0 .. 15
  <2>1. 4 \notin c /\ 5 \notin c /\ 6 \notin c /\ 7 \notin c
    OBVIOUS
  <2> QED BY <2>1 DEF Rtc!Num, Rtc!Weight
<1>2. Rtc!LowNibble(b) \in SUBSET (0 .. 3) /\ Rtc!HighNibble(b) \in SUBSET (0 .. 3)
  BY DEF Rtc!LowNibble, Rtc!HighNibble
<1> QED BY <1>1, <1>2

LEMMA DecimalFits ==
  ASSUME NEW b
  PROVE  Rtc!bcd2dec(b) \in 0 .. 165
BY NibblesAreSmall DEF Rtc!bcd2dec

LEMMA TimesFit ==
  ASSUME NEW registers
  PROVE  Rtc!Time(registers) \in [1 .. 7 -> 0 .. 165]
BY DecimalFits DEF Rtc!Time, Rtc!SECONDS, Rtc!YEAR

LEMMA BitsOf ==
  ASSUME NEW n \in 0 .. 127
  PROVE  /\ 0 \in Rtc!Bits(n) <=> n % 2 = 1
         /\ 1 \in Rtc!Bits(n) <=> (n \div 2) % 2 = 1
         /\ 2 \in Rtc!Bits(n) <=> (n \div 4) % 2 = 1
         /\ 3 \in Rtc!Bits(n) <=> (n \div 8) % 2 = 1
         /\ 4 \in Rtc!Bits(n) <=> (n \div 16) % 2 = 1
         /\ 5 \in Rtc!Bits(n) <=> (n \div 32) % 2 = 1
         /\ 6 \in Rtc!Bits(n) <=> (n \div 64) % 2 = 1
         /\ 7 \notin Rtc!Bits(n)
         /\ Rtc!Bits(n) \in SUBSET (0 .. 7)
BY DEF Rtc!Bits, Rtc!Weight

LEMMA DecimalStored ==
  ASSUME NEW u \in 0 .. 9, NEW v \in 0 .. 7
  PROVE  Rtc!bcd2dec(Rtc!Bits(16 * v + u)) = 10 * v + u
<1> DEFINE b == Rtc!Bits(16 * v + u)
<1>1. /\ 0 \in b <=> u % 2 = 1
      /\ 1 \in b <=> (u \div 2) % 2 = 1
      /\ 2 \in b <=> (u \div 4) % 2 = 1
      /\ 3 \in b <=> (u \div 8) % 2 = 1
      /\ 4 \in b <=> v % 2 = 1
      /\ 5 \in b <=> (v \div 2) % 2 = 1
      /\ 6 \in b <=> (v \div 4) % 2 = 1
      /\ 7 \notin b
  <2>1. 16 * v + u \in 0 .. 127
    OBVIOUS
  <2> QED BY <2>1, BitsOf
<1> HIDE DEF b
<1>2. Rtc!Num(Rtc!LowNibble(b)) = u
  <2>1. \A i \in {0, 1, 2, 3} : i \in Rtc!LowNibble(b) <=> i \in b
    BY DEF Rtc!LowNibble
  <2>2. \A i \in {4, 5, 6, 7} : i \notin Rtc!LowNibble(b)
    BY DEF Rtc!LowNibble
  <2> QED BY <1>1, <2>1, <2>2 DEF Rtc!Num, Rtc!Weight
<1>3. Rtc!Num(Rtc!HighNibble(b)) = v
  <2>1. \A i \in {0, 1, 2, 3} : i \in Rtc!HighNibble(b) <=> i + 4 \in b
    BY DEF Rtc!HighNibble
  <2>2. \A i \in {4, 5, 6, 7} : i \notin Rtc!HighNibble(b)
    BY DEF Rtc!HighNibble
  <2> QED BY <1>1, <2>1, <2>2 DEF Rtc!Num, Rtc!Weight
<1> QED BY <1>2, <1>3 DEF Rtc!bcd2dec, b

\* The changes of rtc_init, in their order; none names a register the chip has not.
Changes == [reg : Rtc!Regs, mask : SUBSET (0 .. 7), value : SUBSET (0 .. 7)]

LEMMA ChangesAre ==
  /\ Rtc!rtc_init \in Seq(Changes) /\ Len(Rtc!rtc_init) = 27
  /\ Rtc!rtc_init[9] = Rtc!Clear(9, 0 .. 5)
  /\ \A k \in 10 .. 18 : Rtc!rtc_init[k].reg = 3
  /\ Rtc!rtc_init[19] = Rtc!Clear(12, {6})
  /\ \A r \in 1 .. 7 : Rtc!rtc_init[19 + r] = Rtc!Change(r, Rtc!Mask(r), Rtc!dec2bcd(Rtc!InitialTime[r]))
  /\ Rtc!rtc_init[27] = Rtc!Clear(1, {7})
<1> DEFINE Z == Rtc!zero_unused_bits
           W == Rtc!stop_watch_dog_timer
           F == Rtc!configure_flags
           H == Rtc!HT
           T == Rtc!rtc_set_time(Rtc!InitialTime)
           S == Rtc!ST
<1>c. /\ \A r \in Rtc!Regs : \A m \in SUBSET (0 .. 7) : Rtc!Clear(r, m) \in Changes
      /\ \A r \in Rtc!Regs : \A m, v \in SUBSET (0 .. 7) : Rtc!Change(r, m, v) \in Changes
  BY DEF Rtc!Clear, Rtc!Change, Changes
<1>i. 1 \in Rtc!Regs /\ 3 \in Rtc!Regs /\ 9 \in Rtc!Regs /\ 12 \in Rtc!Regs /\ 1 .. 7 \subseteq Rtc!Regs
  BY DEF Rtc!Regs
<1>z. Z \in Seq(Changes) /\ Len(Z) = 8
  <2>1. /\ Rtc!Clear(2, {7}) \in Changes /\ Rtc!Clear(4, 3 .. 7) \in Changes
        /\ Rtc!Clear(5, {6, 7}) \in Changes /\ Rtc!Clear(6, 5 .. 7) \in Changes
        /\ Rtc!Clear(15, {0, 1, 3, 5}) \in Changes /\ Rtc!Clear(16, 0 .. 7) \in Changes
        /\ Rtc!Clear(18, 0 .. 7) \in Changes /\ Rtc!Clear(19, 0 .. 3) \in Changes
    BY <1>c DEF Rtc!Regs
  <2> QED BY <2>1 DEF Rtc!zero_unused_bits, Rtc!FLAGS
<1>w. W \in Seq(Changes) /\ Len(W) = 1 /\ W[1] = Rtc!Clear(9, 0 .. 5)
  <2>1. Rtc!Clear(9, 0 .. 5) \in Changes
    BY <1>c, <1>i
  <2> QED BY <2>1 DEF Rtc!stop_watch_dog_timer, Rtc!WATCHDOG
<1>f. F \in Seq(Changes) /\ Len(F) = 9 /\ \A k \in 1 .. 9 : F[k].reg = 3
  <2> DEFINE flag == <<7, 7, 6, 6, 7, 7, 6, 5, 4>>
  <2>1. \A k \in 1 .. 9 : {flag[k]} \in SUBSET (0 .. 7)
    OBVIOUS
  <2>2. F = [k \in 1 .. 9 |-> Rtc!Clear(3, {flag[k]})]
    BY DEF Rtc!configure_flags, Rtc!HOURS
  <2> HIDE DEF flag, F
  <2>3. \A k \in 1 .. 9 : Rtc!Clear(3, {flag[k]}) \in Changes
    BY <1>c, <1>i, <2>1
  <2>4. F \in Seq(Changes) /\ Len(F) = 9
    BY <2>2, <2>3, IsASeq
  <2>5. \A k \in 1 .. 9 : F[k].reg = 3
    BY <2>2 DEF Rtc!Clear, Rtc!Change
  <2> QED BY <2>4, <2>5
<1>h. H \in Seq(Changes) /\ Len(H) = 1 /\ H[1] = Rtc!Clear(12, {6})
  <2>1. Rtc!Clear(12, {6}) \in Changes
    BY <1>c, <1>i
  <2> QED BY <2>1 DEF Rtc!HT, Rtc!ALARM2
<1>t. /\ T \in Seq(Changes) /\ Len(T) = 7
      /\ \A r \in 1 .. 7 : T[r] = Rtc!Change(r, Rtc!Mask(r), Rtc!dec2bcd(Rtc!InitialTime[r]))
  <2>1. \A r \in 1 .. 7 : Rtc!Mask(r) \in SUBSET (0 .. 7)
    BY DEF Rtc!Mask, Rtc!SECONDS, Rtc!MINUTES, Rtc!HOURS, Rtc!DAY, Rtc!DATE, Rtc!MONTH, Rtc!YEAR
  <2>2. \A x : Rtc!dec2bcd(x) \in SUBSET (0 .. 7)
    BY DEF Rtc!dec2bcd, Rtc!Bits
  <2>3. T = [r \in 1 .. 7 |-> Rtc!Change(r, Rtc!Mask(r), Rtc!dec2bcd(Rtc!InitialTime[r]))]
    BY DEF Rtc!rtc_set_time
  <2>4. \A r \in 1 .. 7 : Rtc!Change(r, Rtc!Mask(r), Rtc!dec2bcd(Rtc!InitialTime[r])) \in Changes
    BY <1>c, <1>i, <2>1, <2>2
  <2> HIDE DEF T
  <2>5. T \in Seq(Changes) /\ Len(T) = 7
    BY <2>3, <2>4, IsASeq
  <2> QED BY <2>3, <2>5
<1>s. S \in Seq(Changes) /\ Len(S) = 1 /\ S[1] = Rtc!Clear(1, {7})
  <2>1. Rtc!Clear(1, {7}) \in Changes
    BY <1>c, <1>i
  <2> QED BY <2>1 DEF Rtc!ST, Rtc!SECONDS
<1>0. Rtc!rtc_init = Z \o W \o F \o H \o T \o S
  BY DEF Rtc!rtc_init
<1> HIDE DEF Z, W, F, H, T, S
<1>n. PICK z, w, f, h, n, s \in Nat : z = 8 /\ w = 1 /\ f = 9 /\ h = 1 /\ n = 7 /\ s = 1
  OBVIOUS
<1>l. Len(Z) = z /\ Len(W) = w /\ Len(F) = f /\ Len(H) = h /\ Len(T) = n /\ Len(S) = s
  BY <1>n, <1>z, <1>w, <1>f, <1>h, <1>t, <1>s
<1>q. /\ Z \in Seq(Changes) /\ W \in Seq(Changes) /\ F \in Seq(Changes)
      /\ H \in Seq(Changes) /\ T \in Seq(Changes) /\ S \in Seq(Changes)
  BY <1>z, <1>w, <1>f, <1>h, <1>t, <1>s
<1> DEFINE all == Rtc!rtc_init
<1>1. /\ all \in Seq(Changes) /\ Len(all) = z + w + f + h + n + s
      /\ \A k \in 1 .. z + w + f + h + n + s :
           all[k] = IF k <= z THEN Z[k]
                    ELSE IF k <= z + w THEN W[k - z]
                    ELSE IF k <= z + w + f THEN F[k - (z + w)]
                    ELSE IF k <= z + w + f + h THEN H[k - (z + w + f)]
                    ELSE IF k <= z + w + f + h + n THEN T[k - (z + w + f + h)]
                    ELSE S[k - (z + w + f + h + n)]
  <2>1. PICK a : a = Z \o W
    OBVIOUS
  <2>2. /\ a \in Seq(Changes) /\ Len(a) = (z) + w
        /\ \A k \in 1 .. (z) + w : a[k] = IF k <= z THEN Z[k] ELSE W[k - (z)]
    <3> DEFINE m == z
    <3>1. Z \in Seq(Changes) /\ Len(Z) = m /\ m \in Nat
      BY <1>l, <1>q
    <3> HIDE DEF m
    <3>2. /\ a \in Seq(Changes) /\ Len(a) = m + w
          /\ \A k \in 1 .. m + w : a[k] = IF k <= m THEN Z[k] ELSE W[k - m]
      BY <3>1, <2>1, <1>l, <1>q, ConcatProperties
    <3> QED BY <3>2 DEF m
  <2>3. PICK b : b = a \o F
    OBVIOUS
  <2>4. /\ b \in Seq(Changes) /\ Len(b) = (z + w) + f
        /\ \A k \in 1 .. (z + w) + f : b[k] = IF k <= z + w THEN a[k] ELSE F[k - (z + w)]
    <3> DEFINE m == z + w
    <3>1. a \in Seq(Changes) /\ Len(a) = m /\ m \in Nat
      BY <2>2
    <3> HIDE DEF m
    <3>2. /\ b \in Seq(Changes) /\ Len(b) = m + f
          /\ \A k \in 1 .. m + f : b[k] = IF k <= m THEN a[k] ELSE F[k - m]
      BY <3>1, <2>3, <1>l, <1>q, ConcatProperties, ZenonT(60)
    <3> QED BY <3>2 DEF m
  <2>5. PICK c : c = b \o H
    OBVIOUS
  <2>6. /\ c \in Seq(Changes) /\ Len(c) = (z + w + f) + h
        /\ \A k \in 1 .. (z + w + f) + h : c[k] = IF k <= z + w + f THEN b[k] ELSE H[k - (z + w + f)]
    <3> DEFINE m == z + w + f
    <3>1. b \in Seq(Changes) /\ Len(b) = m /\ m \in Nat
      BY <2>4
    <3> HIDE DEF m
    <3>2. /\ c \in Seq(Changes) /\ Len(c) = m + h
          /\ \A k \in 1 .. m + h : c[k] = IF k <= m THEN b[k] ELSE H[k - m]
      BY <3>1, <2>5, <1>l, <1>q, ConcatProperties
    <3> QED BY <3>2 DEF m
  <2>7. PICK d : d = c \o T
    OBVIOUS
  <2>8. /\ d \in Seq(Changes) /\ Len(d) = (z + w + f + h) + n
        /\ \A k \in 1 .. (z + w + f + h) + n : d[k] = IF k <= z + w + f + h THEN c[k] ELSE T[k - (z + w + f + h)]
    <3> DEFINE m == z + w + f + h
    <3>1. c \in Seq(Changes) /\ Len(c) = m /\ m \in Nat
      BY <2>6
    <3> HIDE DEF m
    <3>2. /\ d \in Seq(Changes) /\ Len(d) = m + n
          /\ \A k \in 1 .. m + n : d[k] = IF k <= m THEN c[k] ELSE T[k - m]
      BY <3>1, <2>7, <1>l, <1>q, ConcatProperties
    <3> QED BY <3>2 DEF m
  <2>9. PICK e : e = d \o S
    OBVIOUS
  <2>10. /\ e \in Seq(Changes) /\ Len(e) = (z + w + f + h + n) + s
         /\ \A k \in 1 .. (z + w + f + h + n) + s : e[k] = IF k <= z + w + f + h + n THEN d[k] ELSE S[k - (z + w + f + h + n)]
    <3> DEFINE m == z + w + f + h + n
    <3>1. d \in Seq(Changes) /\ Len(d) = m /\ m \in Nat
      BY <2>8
    <3> HIDE DEF m
    <3>2. /\ e \in Seq(Changes) /\ Len(e) = m + s
          /\ \A k \in 1 .. m + s : e[k] = IF k <= m THEN d[k] ELSE S[k - m]
      BY <3>1, <2>9, <1>l, <1>q, ConcatProperties
    <3> QED BY <3>2 DEF m
  <2>11. all = e
    BY <1>0, <2>1, <2>3, <2>5, <2>7, <2>9 DEF all
  <2> HIDE DEF all
  <2>12. all \in Seq(Changes) /\ Len(all) = z + w + f + h + n + s
    BY <2>10, <2>11
  <2>13. ASSUME NEW k \in 1 .. z + w + f + h + n + s
         PROVE  all[k] = IF k <= z THEN Z[k]
                      ELSE IF k <= z + w THEN W[k - z]
                      ELSE IF k <= z + w + f THEN F[k - (z + w)]
                      ELSE IF k <= z + w + f + h THEN H[k - (z + w + f)]
                      ELSE IF k <= z + w + f + h + n THEN T[k - (z + w + f + h)]
                      ELSE S[k - (z + w + f + h + n)]
    <3>1. all[k] = IF k <= z + w + f + h + n THEN d[k] ELSE S[k - (z + w + f + h + n)]
      BY <2>10, <2>11
    <3>2. k <= z + w + f + h + n => d[k] = IF k <= z + w + f + h THEN c[k] ELSE T[k - (z + w + f + h)]
      BY <2>8
    <3>3. k <= z + w + f + h => c[k] = IF k <= z + w + f THEN b[k] ELSE H[k - (z + w + f)]
      BY <2>6
    <3>4. k <= z + w + f => b[k] = IF k <= z + w THEN a[k] ELSE F[k - (z + w)]
      BY <2>4
    <3>5. k <= z + w => a[k] = IF k <= z THEN Z[k] ELSE W[k - z]
      BY <2>2
    <3> QED BY <3>1, <3>2, <3>3, <3>4, <3>5
  <2> QED BY <2>12, <2>13
<1> HIDE DEF all
<1>2. /\ Len(all) = 27
      /\ \A k \in 1 .. 27 :
           all[k] = IF k <= 8 THEN Z[k]
                    ELSE IF k <= 9 THEN W[k - 8]
                    ELSE IF k <= 18 THEN F[k - 9]
                    ELSE IF k <= 19 THEN H[k - 18]
                    ELSE IF k <= 26 THEN T[k - 19]
                    ELSE S[k - 26]
  BY <1>1, <1>n
<1>3. all[9] = W[1] /\ all[19] = H[1] /\ all[27] = S[1]
  BY <1>2
<1>4. \A k \in 10 .. 18 : all[k].reg = 3
  <2> TAKE k \in 10 .. 18
  <2>1. k - 9 \in 1 .. 9 /\ k \in 1 .. 27 /\ ~(k <= 8) /\ ~(k <= 9) /\ k <= 18
    OBVIOUS
  <2>2. all[k] = F[k - 9]
    BY <1>2, <2>1
  <2> QED BY <1>f, <2>1, <2>2
<1>5. ASSUME NEW r \in 1 .. 7 PROVE all[19 + r] = T[r]
  <2>1. 19 + r \in 1 .. 27 /\ (19 + r) - 19 = r
    OBVIOUS
  <2> QED BY <1>2, <2>1
<1> QED BY <1>1, <1>2, <1>3, <1>4, <1>5, <1>w, <1>h, <1>s, <1>t DEF all

\* What rtc_init has done, while no transfer has failed: the bits that it set
\* last in a register are there, in the chip and until then in the copy too.
ClockSet ==
  /\ ~held
  /\ step > 9 => chip[9] \cap 0 .. 5 = {}
  /\ step > 19 => 6 \notin chip[12]
  /\ \A r \in 2 .. 7 : step > 19 + r => chip[r] \cap Rtc!Mask(r) = Rtc!dec2bcd(Rtc!InitialTime[r])
  /\ step \in 21 .. 27 => register_map[1] \cap 0 .. 6 = Rtc!dec2bcd(16)
  /\ step > 27 => 7 \notin chip[1] /\ Rtc!Time(chip)[1] \in 16 .. 16 + ticks

ClockInv == Rtc!TypeOK /\ Rtc!FreshOrError /\ (busFaults = 0 => ClockSet)

\* A transfer counts its faults, and without one it goes well.
LEMMA FaultCounted ==
  ASSUME Rtc!TypeOK, NEW result \in Rtc!Results, Rtc!Transfer(result)
  PROVE  /\ busFaults' \in 0 .. BusFaults /\ held' \in BOOLEAN
         /\ busFaults' = 0 => busFaults = 0 /\ held' = held /\ (held \/ result = 248)
<1>1. BusFaults \in Nat
  BY ClockAssumed DEF Rtc!RtcAssumption
<1>2. busFaults \in 0 .. BusFaults /\ held \in BOOLEAN
  BY DEF Rtc!TypeOK
<1>3. \/ busFaults' = busFaults /\ held' = held /\ (held \/ result = 248)
      \/ busFaults < BusFaults /\ busFaults' = busFaults + 1 /\ held' \in BOOLEAN
  BY <1>2 DEF Rtc!Transfer, Rtc!Good
<1> QED BY <1>1, <1>2, <1>3

LEMMA BitsSet ==
  ASSUME NEW old \in SUBSET (0 .. 7), NEW mask \in SUBSET (0 .. 7), NEW value \in SUBSET (0 .. 7)
  PROVE  /\ Rtc!SetRegisterBits(old, value, mask) \in SUBSET (0 .. 7)
         /\ Rtc!SetRegisterBits(old, value, mask) \cap mask = value \cap mask
         /\ Rtc!SetRegisterBits(old, value, mask) \ mask = old \ mask
BY DEF Rtc!SetRegisterBits

\* The time of rtc_init fits the bits it is stored in, and comes out of them again.
LEMMA InitialTimeStored ==
  ASSUME NEW r \in 1 .. 7
  PROVE  /\ Rtc!InitialTime[r] \in 0 .. 59
         /\ Rtc!dec2bcd(Rtc!InitialTime[r]) \subseteq Rtc!Mask(r)
         /\ Rtc!bcd2dec(Rtc!dec2bcd(Rtc!InitialTime[r])) = Rtc!InitialTime[r]
<1> DEFINE n == Rtc!InitialTime[r]
<1>1. n = CASE r = 1 -> 16 [] r = 2 -> 15 [] r = 3 -> 14 [] r = 4 -> 0
            [] r = 5 -> 13 [] r = 6 -> 12 [] r = 7 -> 11
  BY DEF Rtc!InitialTime, Rtc!SECONDS, Rtc!MINUTES, Rtc!HOURS, Rtc!DAY, Rtc!DATE, Rtc!MONTH, Rtc!YEAR
<1> HIDE DEF n
<1>2. n \in 0 .. 16 /\ (r = 4 => n = 0) /\ r \in {1, 2, 3, 4, 5, 6, 7}
  BY <1>1
<1>3. PICK u \in 0 .. 9, v \in 0 .. 7 : u = n % 10 /\ v = n \div 10 /\ n = 10 * v + u /\ v <= 1
  BY <1>2
<1>4. Rtc!dec2bcd(n) = Rtc!Bits(16 * v + u)
  BY <1>3 DEF Rtc!dec2bcd
<1>5. Rtc!bcd2dec(Rtc!dec2bcd(n)) = n
  BY <1>3, <1>4, DecimalStored
<1>6. Rtc!dec2bcd(n) \subseteq Rtc!Mask(r)
  <2>1. 16 * v + u \in 0 .. 127
    OBVIOUS
  <2>2. Rtc!Bits(16 * v + u) \subseteq 0 .. 4
    <3>1. 5 \notin Rtc!Bits(16 * v + u) /\ 6 \notin Rtc!Bits(16 * v + u)
      BY <1>3, <2>1, BitsOf
    <3> QED BY <3>1, <2>1, BitsOf
  <2>3. r = 4 => Rtc!Bits(16 * v + u) = {}
    <3>1. ASSUME r = 4 PROVE 16 * v + u = 0
      BY <3>1, <1>2, <1>3
    <3>2. Rtc!Bits(0) = {}
      BY DEF Rtc!Bits, Rtc!Weight
    <3> QED BY <3>1, <3>2
  <2> QED BY <1>2, <1>4, <2>2, <2>3
       DEF Rtc!Mask, Rtc!SECONDS, Rtc!MINUTES, Rtc!HOURS, Rtc!DAY, Rtc!DATE, Rtc!MONTH, Rtc!YEAR
<1> QED BY <1>2, <1>5, <1>6 DEF n

\* The seconds of rtc_init, and those after a second more.
LEMMA SecondsStored ==
  ASSUME NEW n \in 0 .. 59
  PROVE  /\ Rtc!dec2bcd(n) \subseteq 0 .. 6
         /\ Rtc!bcd2dec(Rtc!dec2bcd(n)) = n
<1>1. PICK u \in 0 .. 9, v \in 0 .. 7 : u = n % 10 /\ v = n \div 10 /\ n = 10 * v + u
  <2>1. n % 10 \in 0 .. 9 /\ n \div 10 \in 0 .. 7 /\ n = 10 * (n \div 10) + (n % 10)
    OBVIOUS
  <2> QED BY <2>1
<1>2. Rtc!dec2bcd(n) = Rtc!Bits(16 * v + u)
  BY <1>1 DEF Rtc!dec2bcd
<1>3. 16 * v + u \in 0 .. 127
  OBVIOUS
<1> QED BY <1>1, <1>2, <1>3, BitsOf, DecimalStored

LEMMA ClockBegins == Rtc!Init => ClockInv
<1> SUFFICES ASSUME Rtc!Init PROVE ClockInv
  OBVIOUS
<1>1. BusFaults \in Nat /\ MaxTicks \in Nat /\ MaxReads \in Nat /\ PowerUp \subseteq [Rtc!Regs -> Rtc!Byte]
  BY ClockAssumed DEF Rtc!RtcAssumption
<1>2. register_map \in [Rtc!Regs -> Rtc!Byte] /\ chip \in [Rtc!Regs -> Rtc!Byte]
  BY <1>1 DEF Rtc!Init, Rtc!Byte
<1>3. step \in 0 .. (Len(Rtc!rtc_init) + 1)
  BY ChangesAre DEF Rtc!Init
<1>4. t \in [1 .. 7 -> 0 .. 165] /\ truth \in [1 .. 7 -> 0 .. 165]
  BY TimesFit DEF Rtc!Init
<1>5. ticks \in 0 .. MaxTicks /\ busFaults \in 0 .. BusFaults /\ reads \in 0 .. MaxReads
  BY <1>1 DEF Rtc!Init
<1>6. Rtc!TypeOK
  BY <1>2, <1>3, <1>4, <1>5 DEF Rtc!Init, Rtc!TypeOK, Rtc!SECONDS, Rtc!YEAR
<1> QED BY <1>6 DEF Rtc!Init, ClockInv, ClockSet, Rtc!FreshOrError

\* What a read leaves in the copy is bytes; a read that goes well leaves the
\* registers of the time as the chip has them.
LEMMA ReadStores ==
  ASSUME Rtc!TypeOK, NEW result \in Rtc!Results, Rtc!update_registers(result)
  PROVE  /\ register_map' \in [Rtc!Regs -> Rtc!Byte]
         /\ result = 248 => \A r \in 1 .. 7 : register_map'[r] = chip[r]
<1> DEFINE copied(n, b) == [r \in Rtc!Regs |-> IF r < n THEN chip[r] ELSE IF r < 19 THEN b ELSE register_map[r]]
<1>1. ASSUME NEW n, NEW b \in Rtc!Byte PROVE copied(n, b) \in [Rtc!Regs -> Rtc!Byte]
  BY DEF Rtc!TypeOK
<1>2. {} \in Rtc!Byte /\ 0 .. 7 \in Rtc!Byte
  BY DEF Rtc!Byte
<1>3. register_map' \in {register_map, copied(19, {}), copied(18, 0 .. 7), copied(0, {}), copied(0, 0 .. 7)}
  BY DEF Rtc!update_registers, Rtc!Stored
<1>4. result = 248 => register_map' = copied(19, {})
  BY DEF Rtc!update_registers, Rtc!Stored, Rtc!Good
<1>5. \A r \in 1 .. 7 : copied(19, {})[r] = chip[r]
  BY DEF Rtc!Regs
<1> HIDE DEF copied
<1> QED BY <1>1, <1>2, <1>3, <1>4, <1>5 DEF Rtc!TypeOK

LEMMA HangKeeps == ASSUME ClockInv, Rtc!ReadHangs PROVE ClockInv'
<1>1. register_map' \in [Rtc!Regs -> Rtc!Byte]
  BY DEF ClockInv, Rtc!TypeOK, Rtc!ReadHangs
<1>2. busFaults' \in 0 .. BusFaults /\ busFaults' # 0
  BY ClockAssumed DEF ClockInv, Rtc!TypeOK, Rtc!ReadHangs, Rtc!RtcAssumption
<1> QED BY <1>1, <1>2 DEF ClockInv, Rtc!TypeOK, Rtc!ReadHangs, Rtc!FreshOrError

LEMMA InitReadsKeeps == ASSUME ClockInv, Rtc!InitReads PROVE ClockInv'
<1>1. CASE Rtc!ReadHangs
  BY <1>1, HangKeeps
<1>2. CASE ~Rtc!ReadHangs
  <2>1. PICK result \in Rtc!Results : Rtc!update_registers(result)
    BY <1>2 DEF Rtc!InitReads
  <2>2. step = 0 /\ step' = 1 /\ UNCHANGED <<chip, hung, t, clockRc, truth, ticks, reads>>
    BY <1>2 DEF Rtc!InitReads
  <2>3. Rtc!Transfer(result)
    BY <2>1 DEF Rtc!update_registers
  <2>4. register_map' \in [Rtc!Regs -> Rtc!Byte]
    BY <2>1, ReadStores DEF ClockInv
  <2>5. /\ busFaults' \in 0 .. BusFaults /\ held' \in BOOLEAN
        /\ busFaults' = 0 => busFaults = 0 /\ held' = held
    BY <2>3, FaultCounted DEF ClockInv
  <2>6. 1 \in 0 .. (Len(Rtc!rtc_init) + 1)
    BY ChangesAre
  <2>7. Rtc!TypeOK'
    BY <2>2, <2>4, <2>5, <2>6 DEF ClockInv, Rtc!TypeOK
  <2>8. busFaults' = 0 => ClockSet'
    BY <2>2, <2>5 DEF ClockInv, ClockSet
  <2> QED BY <2>2, <2>7, <2>8 DEF ClockInv, Rtc!FreshOrError
<1> QED BY <1>1, <1>2

LEMMA GetTimeKeeps == ASSUME ClockInv, Rtc!rtc_get_time PROVE ClockInv'
<1>1. CASE Rtc!ReadHangs
  BY <1>1, HangKeeps
<1>2. CASE ~Rtc!ReadHangs
  <2>1. PICK result \in Rtc!Results :
          /\ Rtc!update_registers(result)
          /\ clockRc' = result
          /\ t' = IF result < 0 THEN t ELSE Rtc!Time(register_map')
    BY <1>2 DEF Rtc!rtc_get_time
  <2>2. /\ step > Len(Rtc!rtc_init) /\ reads < MaxReads /\ reads' = reads + 1
        /\ truth' = Rtc!Time(chip)
        /\ UNCHANGED <<chip, hung, step, ticks>>
    BY <1>2 DEF Rtc!rtc_get_time
  <2>3. Rtc!Transfer(result)
    BY <2>1 DEF Rtc!update_registers
  <2>4. /\ register_map' \in [Rtc!Regs -> Rtc!Byte]
        /\ result = 248 => \A r \in 1 .. 7 : register_map'[r] = chip[r]
    BY <2>1, ReadStores DEF ClockInv
  <2>5. /\ busFaults' \in 0 .. BusFaults /\ held' \in BOOLEAN
        /\ busFaults' = 0 => busFaults = 0 /\ held' = held
    BY <2>3, FaultCounted DEF ClockInv
  <2>6. reads' \in 0 .. MaxReads
    BY <2>2, ClockAssumed DEF ClockInv, Rtc!TypeOK, Rtc!RtcAssumption
  <2>7. t' \in [1 .. 7 -> 0 .. 165] /\ truth' \in [1 .. 7 -> 0 .. 165]
    <3>1. t \in [1 .. 7 -> 0 .. 165]
      BY DEF ClockInv, Rtc!TypeOK, Rtc!SECONDS, Rtc!YEAR
    <3>2. Rtc!Time(register_map') \in [1 .. 7 -> 0 .. 165]
      BY TimesFit
    <3>3. Rtc!Time(chip) \in [1 .. 7 -> 0 .. 165]
      BY TimesFit
    <3> QED BY <2>1, <2>2, <3>1, <3>2, <3>3
  <2>8. Rtc!TypeOK'
    BY <2>1, <2>2, <2>4, <2>5, <2>6, <2>7 DEF ClockInv, Rtc!TypeOK, Rtc!SECONDS, Rtc!YEAR
  <2>9. Rtc!FreshOrError'
    <3> SUFFICES ASSUME clockRc' > 0 PROVE t' = truth'
      BY DEF Rtc!FreshOrError
    <3>1. result = 248
      BY <2>1 DEF Rtc!Results, Rtc!Good
    <3>2. t' = Rtc!Time(register_map')
      BY <2>1, <3>1
    <3>3. Rtc!Time(register_map') = Rtc!Time(chip)
      BY <2>4, <3>1 DEF Rtc!Time, Rtc!SECONDS, Rtc!YEAR
    <3> QED BY <2>2, <3>2, <3>3
  <2>10. busFaults' = 0 => ClockSet'
    <3>1. step > 27
      BY <2>2, ChangesAre
    <3>2. Rtc!Time(chip)' = Rtc!Time(chip)
      BY <2>2 DEF Rtc!Time
    <3>3. ASSUME busFaults' = 0 PROVE ClockSet /\ held' = held
      BY <2>5, <3>3 DEF ClockInv
    <3>4. step \notin 21 .. 27
      BY <3>1
    <3> QED BY <2>2, <3>2, <3>3, <3>4 DEF ClockSet
  <2> QED BY <2>8, <2>9, <2>10 DEF ClockInv
<1> QED BY <1>1, <1>2

\* One change: a register gets bits, in the copy and, if the transfer goes well,
\* in the chip.
LEMMA InitWritesDoes ==
  ASSUME ClockInv, Rtc!InitWrites
  PROVE  /\ step \in 1 .. 27 /\ step' = step + 1
         /\ UNCHANGED <<hung, t, clockRc, truth, ticks, reads>>
         /\ busFaults' \in 0 .. BusFaults /\ held' \in BOOLEAN
         /\ \E c \in Changes, value \in SUBSET (0 .. 7) :
              /\ c = Rtc!rtc_init[step]
              /\ value \cap c.mask = c.value \cap c.mask
              /\ value \ c.mask = register_map[c.reg] \ c.mask
              /\ register_map' = [register_map EXCEPT ![c.reg] = value]
              /\ \/ busFaults' = 0 /\ busFaults = 0 /\ ~held' /\ chip' = [chip EXCEPT ![c.reg] = value]
                 \/ busFaults' # 0 /\ chip' \in {chip, [chip EXCEPT ![c.reg] = value]}
<1>1. Len(Rtc!rtc_init) = 27 /\ Rtc!rtc_init \in Seq(Changes)
  BY ChangesAre
<1>2. step \in 1 .. 27 /\ step' = step + 1 /\ UNCHANGED <<hung, t, clockRc, truth, ticks, reads>>
  BY <1>1 DEF Rtc!InitWrites
<1>3. PICK c \in Changes : c = Rtc!rtc_init[step]
  <2>1. step \in 1 .. Len(Rtc!rtc_init)
    BY DEF Rtc!InitWrites
  <2>2. Rtc!rtc_init \in Seq(Changes)
    BY ChangesAre
  <2>3. Rtc!rtc_init[step] \in Changes
    BY <2>1, <2>2, ElementOfSeq
  <2> QED BY <2>3
<1>4. PICK value : value = Rtc!SetRegisterBits(register_map[c.reg], c.value, c.mask)
  OBVIOUS
<1>5. c.reg \in Rtc!Regs /\ c.mask \in SUBSET (0 .. 7) /\ c.value \in SUBSET (0 .. 7)
  BY DEF Changes
<1>6. register_map[c.reg] \in SUBSET (0 .. 7)
  BY <1>5 DEF ClockInv, Rtc!TypeOK, Rtc!Byte
<1>7. /\ value \in SUBSET (0 .. 7)
      /\ value \cap c.mask = c.value \cap c.mask
      /\ value \ c.mask = register_map[c.reg] \ c.mask
  BY <1>4, <1>5, <1>6, BitsSet
<1>8. register_map' = [register_map EXCEPT ![c.reg] = value] /\ Rtc!twi_write_register(c.reg, value)
  BY <1>3, <1>4 DEF Rtc!InitWrites
<1>9. PICK result \in Rtc!Results :
        /\ Rtc!Transfer(result)
        /\ chip' = IF result = 248 THEN [chip EXCEPT ![c.reg] = value] ELSE chip
  BY <1>8 DEF Rtc!twi_write_register, Rtc!Good
<1>10. /\ busFaults' \in 0 .. BusFaults /\ held' \in BOOLEAN
       /\ busFaults' = 0 => busFaults = 0 /\ held' = held /\ (held \/ result = 248)
  BY <1>9, FaultCounted DEF ClockInv
<1>11. busFaults = 0 => ~held
  BY DEF ClockInv, ClockSet
<1>12. \/ busFaults' = 0 /\ busFaults = 0 /\ ~held' /\ chip' = [chip EXCEPT ![c.reg] = value]
       \/ busFaults' # 0 /\ chip' \in {chip, [chip EXCEPT ![c.reg] = value]}
  BY <1>9, <1>10, <1>11
<1>13. \E d \in Changes, v \in SUBSET (0 .. 7) :
         /\ d = Rtc!rtc_init[step]
         /\ v \cap d.mask = d.value \cap d.mask
         /\ v \ d.mask = register_map[d.reg] \ d.mask
         /\ register_map' = [register_map EXCEPT ![d.reg] = v]
         /\ \/ busFaults' = 0 /\ busFaults = 0 /\ ~held' /\ chip' = [chip EXCEPT ![d.reg] = v]
            \/ busFaults' # 0 /\ chip' \in {chip, [chip EXCEPT ![d.reg] = v]}
  BY <1>3, <1>7, <1>8, <1>12, Zenon
<1> QED BY <1>2, <1>10, <1>13, Zenon

LEMMA InitWritesKeeps == ASSUME ClockInv, Rtc!InitWrites PROVE ClockInv'
<1>1. /\ step \in 1 .. 27 /\ step' = step + 1
      /\ UNCHANGED <<hung, t, clockRc, truth, ticks, reads>>
      /\ busFaults' \in 0 .. BusFaults /\ held' \in BOOLEAN
  BY InitWritesDoes
<1>2. PICK c \in Changes, value \in SUBSET (0 .. 7) :
        /\ c = Rtc!rtc_init[step]
        /\ value \cap c.mask = c.value \cap c.mask
        /\ value \ c.mask = register_map[c.reg] \ c.mask
        /\ register_map' = [register_map EXCEPT ![c.reg] = value]
        /\ \/ busFaults' = 0 /\ busFaults = 0 /\ ~held' /\ chip' = [chip EXCEPT ![c.reg] = value]
           \/ busFaults' # 0 /\ chip' \in {chip, [chip EXCEPT ![c.reg] = value]}
  BY InitWritesDoes
<1>3. c.reg \in Rtc!Regs
  BY DEF Changes
<1>4. chip \in [Rtc!Regs -> SUBSET (0 .. 7)] /\ register_map \in [Rtc!Regs -> SUBSET (0 .. 7)]
  BY DEF ClockInv, Rtc!TypeOK, Rtc!Byte
<1>5. chip' \in [Rtc!Regs -> SUBSET (0 .. 7)] /\ register_map' \in [Rtc!Regs -> SUBSET (0 .. 7)]
  BY <1>2, <1>3, <1>4
<1>6. step' \in 0 .. (Len(Rtc!rtc_init) + 1)
  BY <1>1, ChangesAre
<1>7. Rtc!TypeOK'
  BY <1>1, <1>5, <1>6 DEF ClockInv, Rtc!TypeOK, Rtc!Byte
<1>8. Rtc!FreshOrError'
  BY <1>1 DEF ClockInv, Rtc!FreshOrError
<1>9. ASSUME busFaults' = 0 PROVE ClockSet'
  <2>1. /\ ~held' /\ ClockSet
        /\ \A r \in Rtc!Regs : chip'[r] = IF r = c.reg THEN value ELSE chip[r]
        /\ \A r \in Rtc!Regs : register_map'[r] = IF r = c.reg THEN value ELSE register_map[r]
    BY <1>2, <1>3, <1>4, <1>9 DEF ClockInv
  <2>2. 9 \in Rtc!Regs /\ 12 \in Rtc!Regs /\ 1 \in Rtc!Regs /\ \A r \in 2 .. 7 : r \in Rtc!Regs
    BY DEF Rtc!Regs
  <2>3. /\ step = 9 => c.reg = 9 /\ c.mask = 0 .. 5 /\ c.value = {}
        /\ step \in 10 .. 18 => c.reg = 3
        /\ step = 19 => c.reg = 12 /\ c.mask = {6} /\ c.value = {}
        /\ step = 27 => c.reg = 1 /\ c.mask = {7} /\ c.value = {}
    <3>1. /\ Rtc!rtc_init[9] = Rtc!Clear(9, 0 .. 5)
          /\ \A k \in 10 .. 18 : Rtc!rtc_init[k].reg = 3
          /\ Rtc!rtc_init[19] = Rtc!Clear(12, {6})
          /\ Rtc!rtc_init[27] = Rtc!Clear(1, {7})
      BY ChangesAre, Zenon
    <3>2. c = Rtc!rtc_init[step]
      BY <1>2
    <3> QED BY <3>1, <3>2 DEF Rtc!Clear, Rtc!Change
  <2>4. ASSUME NEW r \in 1 .. 7, step = 19 + r
        PROVE  c.reg = r /\ c.mask = Rtc!Mask(r) /\ c.value = Rtc!dec2bcd(Rtc!InitialTime[r])
    <3>1. Rtc!rtc_init[19 + r] = Rtc!Change(r, Rtc!Mask(r), Rtc!dec2bcd(Rtc!InitialTime[r]))
      BY ChangesAre, Zenon
    <3>2. c = Rtc!rtc_init[19 + r]
      BY <1>2, <2>4
    <3> QED BY <3>1, <3>2 DEF Rtc!Change
  <2>5. step \in 20 .. 26 => c.reg = step - 19
    <3>1. ASSUME step \in 20 .. 26 PROVE c.reg = step - 19
      <4>1. PICK r \in 1 .. 7 : step = 19 + r
        BY <3>1
      <4> QED BY <2>4, <4>1
    <3> QED BY <3>1
  <2>6. step' > 9 => chip'[9] \cap 0 .. 5 = {}
    <3>1. CASE step = 9
      BY <1>2, <2>1, <2>2, <2>3, <3>1
    <3>2. CASE step > 9
      <4>1. c.reg # 9
        BY <1>1, <2>3, <2>5, <3>2
      <4> QED BY <2>1, <2>2, <3>2, <4>1 DEF ClockSet
    <3> QED BY <1>1, <3>1, <3>2
  <2>7. step' > 19 => 6 \notin chip'[12]
    <3>1. CASE step = 19
      BY <1>2, <2>1, <2>2, <2>3, <3>1
    <3>2. CASE step > 19
      <4>1. c.reg # 12
        BY <1>1, <2>3, <2>5, <3>2
      <4> QED BY <2>1, <2>2, <3>2, <4>1 DEF ClockSet
    <3> QED BY <1>1, <3>1, <3>2
  <2>8. ASSUME NEW r \in 2 .. 7, step' > 19 + r
        PROVE  chip'[r] \cap Rtc!Mask(r) = Rtc!dec2bcd(Rtc!InitialTime[r])
    <3>1. CASE step = 19 + r
      <4>1. r \in 1 .. 7
        OBVIOUS
      <4>2. Rtc!dec2bcd(Rtc!InitialTime[r]) \subseteq Rtc!Mask(r)
        BY <4>1, InitialTimeStored
      <4>3. c.reg = r /\ c.mask = Rtc!Mask(r) /\ c.value = Rtc!dec2bcd(Rtc!InitialTime[r])
        BY <2>4, <3>1, <4>1
      <4>4. chip'[r] = value
        BY <2>1, <2>2, <4>3
      <4> QED BY <1>2, <4>2, <4>3, <4>4
    <3>2. CASE step > 19 + r
      <4>1. c.reg # r
        BY <1>1, <2>3, <2>5, <3>2
      <4>2. chip'[r] = chip[r]
        BY <2>1, <2>2, <4>1
      <4> QED BY <2>1, <3>2, <4>2 DEF ClockSet
    <3> QED BY <1>1, <2>8, <3>1, <3>2
  <2>9. Rtc!dec2bcd(16) \subseteq 0 .. 6 /\ Rtc!bcd2dec(Rtc!dec2bcd(16)) = 16
    BY SecondsStored
  <2>10. Rtc!Mask(1) = 0 .. 6 /\ Rtc!InitialTime[1] = 16
    BY DEF Rtc!Mask, Rtc!InitialTime, Rtc!SECONDS, Rtc!MINUTES, Rtc!HOURS, Rtc!DAY, Rtc!DATE, Rtc!MONTH, Rtc!YEAR
  <2>11. step' \in 21 .. 27 => register_map'[1] \cap 0 .. 6 = Rtc!dec2bcd(16)
    <3>1. CASE step = 20
      <4>1. c.reg = 1 /\ c.mask = 0 .. 6 /\ c.value = Rtc!dec2bcd(16)
        BY <2>4, <2>10, <3>1
      <4>2. register_map'[1] = value
        BY <2>1, <2>2, <4>1
      <4> QED BY <1>2, <2>9, <4>1, <4>2
    <3>2. CASE step \in 21 .. 26
      <4>1. c.reg # 1
        BY <2>5, <3>2
      <4> QED BY <2>1, <2>2, <3>2, <4>1 DEF ClockSet
    <3> QED BY <1>1, <3>1, <3>2
  <2>12. ASSUME step = 27
         PROVE  7 \notin chip'[1] /\ Rtc!Time(chip')[1] = 16
    <3>1. c.reg = 1 /\ c.mask = {7} /\ c.value = {}
      BY <2>3, <2>12
    <3>2. chip'[1] = value
      BY <2>1, <2>2, <3>1
    <3>3. 7 \notin value
      BY <1>2, <3>1
    <3>4. value \cap 0 .. 6 = register_map[1] \cap 0 .. 6
      <4>1. value \ {7} = register_map[1] \ {7}
        BY <1>2, <3>1
      <4> QED BY <4>1
    <3>5. chip'[1] \cap 0 .. 6 = Rtc!dec2bcd(16)
      BY <2>1, <2>12, <3>2, <3>4 DEF ClockSet
    <3>6. Rtc!Time(chip')[1] = Rtc!bcd2dec(chip'[1] \cap Rtc!Mask(1))
      BY DEF Rtc!Time, Rtc!SECONDS, Rtc!YEAR
    <3> QED BY <2>9, <2>10, <3>2, <3>3, <3>5, <3>6
  <2>13. step' > 27 => 7 \notin chip'[1] /\ Rtc!Time(chip')[1] \in 16 .. 16 + ticks'
    <3>1. ticks' \in Nat
      BY <1>7, ClockAssumed DEF Rtc!TypeOK, Rtc!RtcAssumption
    <3> QED BY <1>1, <2>12, <3>1
  <2> QED BY <2>1, <2>6, <2>7, <2>8, <2>11, <2>13 DEF ClockSet
<1> QED BY <1>7, <1>8, <1>9 DEF ClockInv

\* A second passes: the seconds are those of the next number.
LEMMA TickOfClockKeeps == ASSUME ClockInv, Rtc!Tick PROVE ClockInv'
<1>1. /\ ticks < MaxTicks /\ ticks' = ticks + 1
      /\ Rtc!Time(chip)[1] < 59
      /\ UNCHANGED <<register_map, held, hung, step, t, clockRc, truth, busFaults, reads>>
  BY DEF Rtc!Tick, Rtc!SECONDS
<1>2. PICK n \in 0 .. 58 : n = Rtc!Time(chip)[1]
  BY <1>1, TimesFit
<1>3. PICK value : value = Rtc!SetRegisterBits(chip[1], Rtc!dec2bcd(n + 1), 0 .. 6)
  OBVIOUS
<1>4. chip \in [Rtc!Regs -> SUBSET (0 .. 7)] /\ 1 \in Rtc!Regs
  BY SMTT(40) DEF ClockInv, Rtc!TypeOK, Rtc!Byte, Rtc!Regs
<1>5. chip' = [chip EXCEPT ![1] = value]
  BY <1>2, <1>3 DEF Rtc!Tick, Rtc!SECONDS
<1>6. Rtc!dec2bcd(n + 1) \subseteq 0 .. 6 /\ Rtc!bcd2dec(Rtc!dec2bcd(n + 1)) = n + 1
  BY SecondsStored
<1>7. /\ value \in SUBSET (0 .. 7)
      /\ value \cap 0 .. 6 = Rtc!dec2bcd(n + 1)
      /\ value \ 0 .. 6 = chip[1] \ 0 .. 6
  <2>1. chip[1] \in SUBSET (0 .. 7) /\ 0 .. 6 \in SUBSET (0 .. 7) /\ Rtc!dec2bcd(n + 1) \in SUBSET (0 .. 7)
    BY <1>4, <1>6
  <2>2. Rtc!dec2bcd(n + 1) \cap 0 .. 6 = Rtc!dec2bcd(n + 1)
    BY <1>6
  <2> QED BY <1>3, <2>1, <2>2, BitsSet
<1>8. /\ chip' \in [Rtc!Regs -> SUBSET (0 .. 7)]
      /\ chip'[1] = value /\ \A r \in Rtc!Regs \ {1} : chip'[r] = chip[r]
  BY <1>4, <1>5, <1>7
<1>9. ticks' \in 0 .. MaxTicks /\ ticks \in Nat
  BY <1>1, ClockAssumed DEF ClockInv, Rtc!TypeOK, Rtc!RtcAssumption
<1>10. Rtc!TypeOK'
  BY <1>1, <1>8, <1>9 DEF ClockInv, Rtc!TypeOK, Rtc!Byte
<1>11. Rtc!FreshOrError'
  BY <1>1 DEF ClockInv, Rtc!FreshOrError
<1>12. ASSUME busFaults' = 0 PROVE ClockSet'
  <2>1. ClockSet
    BY <1>1, <1>12 DEF ClockInv
  <2>2. 9 \in Rtc!Regs \ {1} /\ 12 \in Rtc!Regs \ {1} /\ \A r \in 2 .. 7 : r \in Rtc!Regs \ {1}
    BY DEF Rtc!Regs
  <2>3. /\ step' > 9 => chip'[9] \cap 0 .. 5 = {}
        /\ step' > 19 => 6 \notin chip'[12]
        /\ \A r \in 2 .. 7 : step' > 19 + r => chip'[r] \cap Rtc!Mask(r) = Rtc!dec2bcd(Rtc!InitialTime[r])
    BY <1>1, <1>8, <2>1, <2>2 DEF ClockSet
  <2>4. step' \in 21 .. 27 => register_map'[1] \cap 0 .. 6 = Rtc!dec2bcd(16)
    BY <1>1, <2>1 DEF ClockSet
  <2>5. Rtc!Time(chip')[1] = n + 1
    <3>1. Rtc!Time(chip')[1] = Rtc!bcd2dec(chip'[1] \cap Rtc!Mask(1))
      BY DEF Rtc!Time, Rtc!SECONDS, Rtc!YEAR
    <3>2. Rtc!Mask(1) = 0 .. 6
      BY DEF Rtc!Mask, Rtc!SECONDS, Rtc!MINUTES, Rtc!HOURS, Rtc!DAY, Rtc!DATE, Rtc!MONTH, Rtc!YEAR
    <3> QED BY <1>6, <1>7, <1>8, <3>1, <3>2
  <2>6. ASSUME step' > 27 PROVE 7 \notin chip'[1] /\ Rtc!Time(chip')[1] \in 16 .. 16 + ticks'
    <3>1. 7 \notin chip[1] /\ n \in 16 .. 16 + ticks
      BY <1>1, <1>2, <2>1, <2>6 DEF ClockSet
    <3>2. 7 \notin chip'[1]
      BY <1>7, <1>8, <3>1
    <3>3. n + 1 \in 16 .. 16 + ticks'
      BY <1>1, <1>9, <3>1
    <3> QED BY <2>5, <3>2, <3>3
  <2> QED BY <1>1, <2>1, <2>3, <2>4, <2>6 DEF ClockSet
<1> QED BY <1>10, <1>11, <1>12 DEF ClockInv

LEMMA ClockStill == ASSUME ClockInv, UNCHANGED Rtc!vars PROVE ClockInv'
<1>1. /\ UNCHANGED <<chip, register_map, held, hung, step, t>>
      /\ UNCHANGED <<clockRc, truth, ticks, busFaults, reads>>
  BY DEF Rtc!vars
<1>2. Rtc!TypeOK' /\ Rtc!FreshOrError'
  BY <1>1 DEF ClockInv, Rtc!TypeOK, Rtc!FreshOrError
<1>3. ClockSet => ClockSet'
  <2>1. Rtc!Time(chip)' = Rtc!Time(chip)
    BY <1>1 DEF Rtc!Time
  <2> QED BY <1>1, <2>1 DEF ClockSet
<1> QED BY <1>1, <1>2, <1>3 DEF ClockInv

LEMMA ClockStep == ASSUME ClockInv, [Rtc!Next]_(Rtc!vars) PROVE ClockInv'
BY InitReadsKeeps, InitWritesKeeps, GetTimeKeeps, TickOfClockKeeps, ClockStill DEF Rtc!Next

\* The inductive invariant of the clock, for whatever it powers up with and any
\* number of faults, seconds and readings.
THEOREM ClockInvariance == Rtc!Spec => []ClockInv
<1>1. Rtc!Init => ClockInv
  BY ClockBegins
<1>2. ClockInv /\ [Rtc!Next]_(Rtc!vars) => ClockInv'
  BY ClockStep
<1> QED BY <1>1, <1>2, PTL DEF Rtc!Spec

LEMMA ClockImplies == ClockInv => ClockTrue
<1> SUFFICES ASSUME ClockInv PROVE ClockTrue
  OBVIOUS
<1>1. ASSUME step > Len(Rtc!rtc_init), busFaults = 0
      PROVE  /\ \A r \in 2 .. 7 : Rtc!Time(chip)[r] = Rtc!InitialTime[r]
             /\ Rtc!Time(chip)[1] \in 16 .. 16 + ticks
             /\ 7 \notin chip[1] /\ 6 \notin chip[12]
             /\ chip[9] \cap 0 .. 5 = {}
  <2>1. step > 27 /\ ClockSet /\ step \in Nat
    BY <1>1, ChangesAre DEF ClockInv, Rtc!TypeOK
  <2>2. ASSUME NEW r \in 2 .. 7 PROVE Rtc!Time(chip)[r] = Rtc!InitialTime[r]
    <3>1. chip[r] \cap Rtc!Mask(r) = Rtc!dec2bcd(Rtc!InitialTime[r]) /\ r \in 1 .. 7
      BY <2>1 DEF ClockSet
    <3>2. Rtc!Time(chip)[r] = Rtc!bcd2dec(chip[r] \cap Rtc!Mask(r))
      BY <3>1 DEF Rtc!Time, Rtc!SECONDS, Rtc!YEAR
    <3> QED BY <3>1, <3>2, InitialTimeStored
  <2> QED BY <2>1, <2>2 DEF ClockSet
<1>2. Rtc!InitSetsClock
  BY <1>1 DEF Rtc!InitSetsClock, Rtc!SECONDS, Rtc!MINUTES, Rtc!YEAR, Rtc!ALARM2, Rtc!WATCHDOG
<1> QED BY <1>2 DEF ClockInv, ClockTrue

\* rtc_init leaves a clock that runs from the time it sets, and a positive
\* result of rtc_get_time comes with the chip's time (m41t81s_rtc.c:340-470),
\* whatever the chip powers up with and however many transfers fail.
THEOREM ClockIsTrue == Rtc!Spec => []ClockTrue
<1>1. ClockInv => ClockTrue
  BY ClockImplies
<1> QED BY <1>1, ClockInvariance, PTL

\* A set of numbers that is not empty has a least one.
LEMMA LeastNumber ==
  ASSUME NEW S \in SUBSET Nat, S # {}
  PROVE  \E n \in S : \A m \in S : n <= m
<1>1. PICK R : R = OpToRel(<, Nat)
  OBVIOUS
<1>2. IsWellFoundedOn(R, Nat)
  BY <1>1, NatLessThanWellFounded
<1>3. PICK n \in S : \A m \in S : ~ (<<m, n>> \in R)
  BY <1>2, WFMin
<1>4. \A m \in S : m < n => <<m, n>> \in R
  BY <1>1 DEF OpToRel
<1>5. \A m \in S : ~(m < n)
  BY <1>3, <1>4, Zenon
<1>6. \A m \in S : m \in Nat /\ n \in Nat
  BY Zenon
<1>7. \A m \in S : n <= m
  BY <1>5, <1>6
<1> QED BY <1>7

\* Sequences put after each other are a sequence.
LEMMA FlatIsSeq ==
  ASSUME NEW X, NEW n \in Nat, NEW parts \in [1 .. n -> Seq(X)]
  PROVE  Doc!FlattenSeq(parts) \in Seq(X)
<1>1. parts \in Seq(Seq(X)) /\ Len(parts) = n
  OBVIOUS
<1>2. CASE n = 0
  <2>1. Doc!FlattenSeq(parts) = parts /\ parts = <<>>
    BY <1>1, <1>2 DEF Doc!FlattenSeq
  <2> QED BY <2>1
<1>3. CASE n # 0
  <2> DEFINE Body(f, m) == [i \in 1 .. m |-> IF i = 1 THEN parts[i] ELSE f[i - 1] \o parts[i]]
             Good(m) == \E f \in [1 .. m -> Seq(X)] : f = Body(f, m)
             Bad == {m \in 1 .. n : ~Good(m)}
  <2>1. Bad = {}
    <3> SUFFICES ASSUME Bad # {} PROVE FALSE
      OBVIOUS
    <3>1. PICK m \in Bad : \A k \in Bad : m <= k
      <4> HIDE DEF Good
      <4>1. Bad \in SUBSET Nat
        OBVIOUS
      <4> HIDE DEF Bad
      <4> QED BY <4>1, LeastNumber
    <3>2. m \in 1 .. n /\ ~Good(m)
      OBVIOUS
    <3>3. CASE m = 1
      <4> DEFINE g == [i \in 1 .. 1 |-> parts[1]]
      <4>1. g \in [1 .. 1 -> Seq(X)]
        BY <1>3
      <4>2. g = Body(g, 1)
        OBVIOUS
      <4> HIDE DEF g
      <4> QED BY <3>2, <3>3, <4>1, <4>2
    <3>4. CASE m # 1
      <4>1. m - 1 \in 1 .. n /\ ~(m <= m - 1)
        BY <3>2, <3>4
      <4>2. Good(m - 1)
        BY <3>1, <4>1
      <4>3. PICK f \in [1 .. m - 1 -> Seq(X)] : f = Body(f, m - 1)
        BY <4>2
      <4> DEFINE g == [i \in 1 .. m |-> IF i <= m - 1 THEN f[i] ELSE f[m - 1] \o parts[m]]
      <4>4. f[m - 1] \o parts[m] \in Seq(X)
        BY <3>2, <4>1
      <4>5. g \in [1 .. m -> Seq(X)]
        BY <3>2, <4>4
      <4>6. ASSUME NEW i \in 1 .. m PROVE g[i] = IF i = 1 THEN parts[i] ELSE g[i - 1] \o parts[i]
        <5>1. CASE i = m
          <6>1. g[i] = f[m - 1] \o parts[m]
            BY <3>2, <5>1
          <6>2. g[i - 1] = f[m - 1] /\ i # 1
            BY <3>2, <3>4, <4>1, <5>1
          <6> HIDE DEF g
          <6> QED BY <5>1, <6>1, <6>2
        <5>2. CASE i # m
          <6>1. i \in 1 .. m - 1 /\ g[i] = f[i]
            BY <3>2, <5>2
          <6>2. i # 1 => g[i - 1] = f[i - 1]
            BY <3>2, <6>1
          <6>3. f[i] = IF i = 1 THEN parts[i] ELSE f[i - 1] \o parts[i]
            BY <4>3, <6>1
          <6> HIDE DEF g
          <6> QED BY <6>1, <6>2, <6>3
        <5> QED BY <5>1, <5>2
      <4>7. g = Body(g, m)
        BY <4>6
      <4> HIDE DEF g
      <4> QED BY <3>2, <4>5, <4>7
    <3> QED BY <3>3, <3>4
  <2>2. PICK f \in [1 .. n -> Seq(X)] : f = Body(f, n)
    <3>1. n \in 1 .. n
      BY <1>3
    <3> QED BY <2>1, <3>1
  <2>3. ASSUME NEW g, g = Body(g, n) PROVE g = f
    <3> DEFINE Differ == {i \in 1 .. n : g[i] # f[i]}
    <3>1. Differ = {}
      <4> SUFFICES ASSUME Differ # {} PROVE FALSE
        OBVIOUS
      <4>1. PICK i \in Differ : \A k \in Differ : i <= k
        <5>1. Differ \in SUBSET Nat
          OBVIOUS
        <5> HIDE DEF Differ
        <5> QED BY <5>1, LeastNumber
      <4>2. i \in 1 .. n /\ g[i] # f[i]
        OBVIOUS
      <4>3. i # 1 => i - 1 \in 1 .. n /\ ~(i <= i - 1)
        BY <4>2
      <4>4. i # 1 => g[i - 1] = f[i - 1]
        BY <4>1, <4>3
      <4>5. g[i] = IF i = 1 THEN parts[i] ELSE g[i - 1] \o parts[i]
        BY <2>3, <4>2
      <4>6. f[i] = IF i = 1 THEN parts[i] ELSE f[i - 1] \o parts[i]
        BY <2>2, <4>2
      <4> QED BY <4>2, <4>4, <4>5, <4>6
    <3>2. \A i \in 1 .. n : g[i] = f[i]
      BY <3>1
    <3>3. g = [i \in 1 .. n |-> g[i]]
      <4>1. \A h : h = Body(g, n) => h = [i \in 1 .. n |-> h[i]]
        OBVIOUS
      <4> QED BY <2>3, <4>1
    <3>4. f = [i \in 1 .. n |-> f[i]]
      OBVIOUS
    <3> QED BY <3>2, <3>3, <3>4
  <2>4. Doc!FlattenSeq(parts) = (CHOOSE g : g = Body(g, n))[n]
    BY <1>1, <1>3 DEF Doc!FlattenSeq
  <2> DEFINE c == CHOOSE g : g = Body(g, n)
  <2>5. c = Body(c, n)
    BY <2>2
  <2>6. c = f
    BY <2>3, <2>5
  <2> HIDE DEF c
  <2>7. Doc!FlattenSeq(parts) = c[n]
    BY <2>4 DEF c
  <2> QED BY <1>3, <2>2, <2>6, <2>7
<1> QED BY <1>2, <1>3

-----------------------------------------------------------------------------
(* BSON.  Element by element, the memory holds what was put: find_key is at    *)
(* the beginning of one of them, or behind one that it cannot read past.       *)

Elem(e) == Doc!Head_(e) \o Doc!ValueOf(e)

LEMMA DocConstants ==
  /\ MAX_KEY_LEN \in Nat /\ MAX_KEY_LEN < Doc!Room /\ MaxElements \in Nat /\ Doc!Room \in Nat
  /\ Fill \subseteq Doc!Byte
  /\ \A n \in Lengths : n \in Nat /\ n >= 5 /\ n + Doc!Room <= 255
  /\ \A k \in Keys : k \in Seq(1 .. 255)
BY DocumentAssumed DEF Doc!BsonAssumption, Doc!Room

\* Three sequences of bytes after each other.
Joined(a, b, c) == a \o b \o c
Parts(w, a, b, c, l, m, n) ==
  /\ w \in Seq(Nat) /\ Len(w) = l + m + n
  /\ \A i \in 1 .. l : w[i] = a[i]
  /\ \A i \in 1 .. m : w[l + i] = b[i]
  /\ \A i \in 1 .. n : w[l + m + i] = c[i]

LEMMA ThreeJoined ==
  ASSUME NEW a \in Seq(Nat), NEW b \in Seq(Nat), NEW c \in Seq(Nat),
         NEW l \in Nat, NEW m \in Nat, NEW n \in Nat,
         Len(a) = l, Len(b) = m, Len(c) = n
  PROVE  Parts(Joined(a, b, c), a, b, c, l, m, n)
<1>1. PICK u : u = a \o b
  OBVIOUS
<1>2. /\ u \in Seq(Nat) /\ Len(u) = l + m
      /\ \A k \in 1 .. l + m : u[k] = IF k <= l THEN a[k] ELSE b[k - l]
  BY <1>1, ConcatProperties
<1>3. PICK lm \in Nat : lm = l + m
  OBVIOUS
<1>4. PICK w : w = u \o c
  OBVIOUS
<1>5. /\ w \in Seq(Nat) /\ Len(w) = lm + n
      /\ \A k \in 1 .. lm + n : w[k] = IF k <= lm THEN u[k] ELSE c[k - lm]
  <2>1. Len(u) = lm /\ u \in Seq(Nat)
    BY <1>2, <1>3
  <2> QED BY <2>1, <1>4, ConcatProperties
<1>6. ASSUME NEW i \in 1 .. l PROVE w[i] = a[i]
  <2>1. i \in 1 .. lm + n /\ i <= lm /\ i \in 1 .. l + m /\ i <= l
    BY <1>3
  <2> QED BY <2>1, <1>2, <1>5
<1>7. ASSUME NEW i \in 1 .. m PROVE w[l + i] = b[i]
  <2>1. PICK k : k = l + i
    OBVIOUS
  <2>2. k \in 1 .. lm + n /\ k <= lm /\ k \in 1 .. l + m /\ ~(k <= l) /\ k - l = i
    BY <1>3, <2>1
  <2> QED BY <2>1, <2>2, <1>2, <1>5
<1>8. ASSUME NEW i \in 1 .. n PROVE w[l + m + i] = c[i]
  <2>1. PICK k : k = l + m + i
    OBVIOUS
  <2>2. k \in 1 .. lm + n /\ ~(k <= lm) /\ k - lm = i
    BY <1>3, <2>1
  <2> QED BY <2>1, <2>2, <1>5
<1>9. w = Joined(a, b, c)
  BY <1>1, <1>4 DEF Joined
<1>10. Len(w) = l + m + n
  BY <1>3, <1>5
<1> QED BY <1>5, <1>6, <1>7, <1>8, <1>9, <1>10, Zenon DEF Parts

\* The beginning of a sequence.
LEMMA Beginning ==
  ASSUME NEW X, NEW s \in Seq(X), NEW n \in Nat, n <= Len(s)
  PROVE  /\ SubSeq(s, 1, n) \in Seq(X) /\ Len(SubSeq(s, 1, n)) = n
         /\ \A i \in 1 .. n : SubSeq(s, 1, n)[i] = s[i]
<1>1. \A i \in 1 .. n : s[i] \in X
  BY ElementOfSeq
<1>2. n - 1 + 1 = n /\ (IF 1 <= n THEN n - 1 + 1 ELSE 0) = n /\ \A i \in Nat : 1 + i - 1 = i
  OBVIOUS
<1> QED BY <1>1, <1>2, SubSeqProperties

\* A key is cut to what the driver stores of it.
LEMMA KeyCut ==
  ASSUME NEW k \in Seq(1 .. 255)
  PROVE  /\ Doc!Truncate(k) \in Seq(1 .. 255)
         /\ Len(Doc!Truncate(k)) \in 0 .. MAX_KEY_LEN
<1> DEFINE n == IF Len(k) < MAX_KEY_LEN THEN Len(k) ELSE MAX_KEY_LEN
<1>1. n \in Nat /\ n \in 0 .. MAX_KEY_LEN /\ n <= Len(k)
  BY DocConstants
<1>2. Doc!Truncate(k) = SubSeq(k, 1, n)
  BY DEF Doc!Truncate
<1> HIDE DEF n
<1>3. SubSeq(k, 1, n) \in Seq(1 .. 255) /\ Len(SubSeq(k, 1, n)) = n
  BY <1>1, Beginning
<1> QED BY <1>1, <1>2, <1>3

\* Sequences of one byte, and of the bytes of a number.
LEMMA OneByte == ASSUME NEW c \in Nat PROVE <<c>> \in Seq(Nat) /\ Len(<<c>>) = 1 /\ <<c>>[1] = c
OBVIOUS

LEMMA NumberBytes ==
  ASSUME NEW c \in Nat
  PROVE  /\ Doc!LE(c) \in Seq(Nat) /\ Len(Doc!LE(c)) = 4
         /\ Doc!LE(c)[1] = c /\ Doc!LE(c)[2] = 0 /\ Doc!LE(c)[3] = 0 /\ Doc!LE(c)[4] = 0
<1>1. 0 \in Nat
  OBVIOUS
<1>2. <<c, 0, 0, 0>> \in Seq(Nat)
  BY <1>1
<1>3. /\ Len(<<c, 0, 0, 0>>) = 4 /\ <<c, 0, 0, 0>>[1] = c /\ <<c, 0, 0, 0>>[2] = 0
      /\ <<c, 0, 0, 0>>[3] = 0 /\ <<c, 0, 0, 0>>[4] = 0
  OBVIOUS
<1> QED BY <1>2, <1>3 DEF Doc!LE

\* A number, a sequence and a zero.
LEMMA Framed ==
  ASSUME NEW x \in Nat, NEW k \in Seq(Nat), NEW n \in Nat, Len(k) = n
  PROVE  \E h : /\ h = Joined(<<x>>, k, <<0>>) /\ h \in Seq(Nat) /\ Len(h) = n + 2
                /\ h[1] = x /\ h[n + 2] = 0 /\ \A i \in 1 .. n : h[i + 1] = k[i]
<1>1. PICK a : a = <<x>> /\ a \in Seq(Nat) /\ Len(a) = 1 /\ a[1] = x
  BY OneByte, Zenon
<1>2. PICK z : z = <<0>> /\ z \in Seq(Nat) /\ Len(z) = 1 /\ z[1] = 0
  <2>1. 0 \in Nat
    OBVIOUS
  <2> QED BY <2>1, OneByte, Zenon
<1>3. PICK one \in Nat : one = 1
  OBVIOUS
<1> DEFINE h == Joined(a, k, z)
<1>4. /\ h \in Seq(Nat) /\ Len(h) = one + n + one
      /\ \A i \in 1 .. one : h[i] = a[i]
      /\ \A i \in 1 .. n : h[one + i] = k[i]
      /\ \A i \in 1 .. one : h[one + n + i] = z[i]
  <2>1. a \in Seq(Nat) /\ z \in Seq(Nat) /\ Len(a) = one /\ Len(z) = one
    BY <1>1, <1>2, <1>3
  <2>2. Parts(Joined(a, k, z), a, k, z, one, n, one)
    BY <2>1, ThreeJoined
  <2> QED BY <2>2, Zenon DEF Parts
<1>5. /\ one = 1 /\ 1 \in 1 .. one /\ one + n + one = n + 2 /\ one + n + 1 = n + 2
      /\ \A i \in 1 .. n : one + i = i + 1
  BY <1>3
<1>6. h[1] = x /\ h[n + 2] = 0
  BY <1>1, <1>2, <1>4, <1>5, Zenon
<1>7. \A i \in 1 .. n : h[i + 1] = k[i]
  BY <1>4, <1>5, Zenon
<1>8. h = Joined(<<x>>, k, <<0>>) /\ Len(h) = n + 2
  BY <1>1, <1>2, <1>4, <1>5, Zenon
<1> HIDE DEF h
<1> QED BY <1>4, <1>6, <1>7, <1>8, Zenon

\* The head of an element: its identifier, its key and a zero.
LEMMA HeadIs ==
  ASSUME NEW e, e.id \in Nat, e.key \in Seq(1 .. 255)
  PROVE  \E n \in 0 .. MAX_KEY_LEN :
           /\ n = Len(Doc!Truncate(e.key)) /\ Doc!Head_(e) \in Seq(Nat) /\ Len(Doc!Head_(e)) = n + 2
           /\ Doc!Head_(e)[1] = e.id /\ Doc!Head_(e)[n + 2] = 0
           /\ \A i \in 1 .. n : Doc!Head_(e)[i + 1] = Doc!Truncate(e.key)[i]
<1>1. PICK k : k = Doc!Truncate(e.key)
  OBVIOUS
<1>2. PICK n : n = Len(k) /\ n \in 0 .. MAX_KEY_LEN /\ n \in Nat /\ k \in Seq(Nat)
  <2>1. k \in Seq(1 .. 255) /\ Len(k) \in 0 .. MAX_KEY_LEN
    BY <1>1, KeyCut
  <2>2. 1 .. 255 \subseteq Nat /\ Len(k) \in Nat
    BY <2>1, DocConstants
  <2> QED BY <2>1, <2>2, SeqMonotonic
<1>3. Doc!Head_(e) = Joined(<<e.id>>, k, <<0>>)
  BY <1>1 DEF Doc!Head_, Joined
<1>4. PICK h : /\ h = Joined(<<e.id>>, k, <<0>>) /\ h \in Seq(Nat) /\ Len(h) = n + 2
               /\ h[1] = e.id /\ h[n + 2] = 0 /\ \A i \in 1 .. n : h[i + 1] = k[i]
  BY <1>2, Framed
<1>5. h = Doc!Head_(e)
  BY <1>3, <1>4, Zenon
<1> QED BY <1>1, <1>2, <1>4, <1>5, Zenon

\* A number of four bytes, and two sequences.
Numbered(w, c, b, d, m, n) ==
  /\ w \in Seq(Nat) /\ Len(w) = m + n + 4
  /\ w[1] = c /\ w[2] = 0 /\ w[3] = 0 /\ w[4] = 0
  /\ \A i \in 1 .. m : w[i + 4] = b[i]
  /\ \A i \in 1 .. n : w[i + m + 4] = d[i]

LEMMA NumberParts ==
  ASSUME NEW c \in Nat, NEW b \in Seq(Nat), NEW d \in Seq(Nat),
         NEW m \in Nat, NEW n \in Nat, Len(b) = m, Len(d) = n
  PROVE  Numbered(Joined(Doc!LE(c), b, d), c, b, d, m, n)
<1>1. PICK a : /\ a = Doc!LE(c) /\ a \in Seq(Nat) /\ Len(a) = 4
               /\ a[1] = c /\ a[2] = 0 /\ a[3] = 0 /\ a[4] = 0
  BY NumberBytes, Zenon
<1>2. PICK four \in Nat : four = 4
  OBVIOUS
<1> DEFINE w == Joined(a, b, d)
<1>3. Parts(w, a, b, d, four, m, n)
  <2>1. a \in Seq(Nat) /\ Len(a) = four
    BY <1>1, <1>2
  <2> QED BY <2>1, ThreeJoined
<1> HIDE DEF w
<1>4. /\ w \in Seq(Nat) /\ Len(w) = four + m + n
      /\ \A i \in 1 .. four : w[i] = a[i]
      /\ \A i \in 1 .. m : w[four + i] = b[i]
      /\ \A i \in 1 .. n : w[four + m + i] = d[i]
  BY <1>3, Zenon DEF Parts
<1>5. /\ four + m + n = m + n + 4 /\ 1 \in 1 .. four /\ 2 \in 1 .. four /\ 3 \in 1 .. four /\ 4 \in 1 .. four
      /\ \A i \in 1 .. m : four + i = i + 4
      /\ \A i \in 1 .. n : four + m + i = i + m + 4
  BY <1>2
<1>6. w[1] = c /\ w[2] = 0 /\ w[3] = 0 /\ w[4] = 0 /\ Len(w) = m + n + 4
  BY <1>1, <1>4, <1>5, Zenon
<1>7. /\ \A i \in 1 .. m : w[i + 4] = b[i]
      /\ \A i \in 1 .. n : w[i + m + 4] = d[i]
  BY <1>4, <1>5, Zenon
<1>8. w = Joined(Doc!LE(c), b, d)
  BY <1>1 DEF w
<1> QED BY <1>4, <1>6, <1>7, <1>8, Zenon DEF Numbered

\* The value of an element that is no document.
LEMMA FlatValue ==
  ASSUME NEW e, Doc!FlatElement(e)
  PROVE  /\ e.id \in Nat /\ e.id \notin {0, 3, 4} /\ e.key \in Seq(1 .. 255)
         /\ e.val \in Seq(Nat) /\ Len(e.val) \in Nat /\ Doc!Value(e) \in Seq(Nat)
         /\ e.id = 2 => /\ Len(Doc!Value(e)) = Len(e.val) + 5 /\ Doc!Value(e)[1] = Len(e.val) + 1
                        /\ Doc!Value(e)[2] = 0 /\ Doc!Value(e)[3] = 0 /\ Doc!Value(e)[4] = 0
                        /\ \A i \in 1 .. Len(e.val) : Doc!Value(e)[i + 4] = e.val[i]
         /\ e.id = 5 => /\ Len(Doc!Value(e)) = Len(e.val) + 5 /\ Doc!Value(e)[1] = Len(e.val)
                        /\ Doc!Value(e)[2] = 0 /\ Doc!Value(e)[3] = 0 /\ Doc!Value(e)[4] = 0
                        /\ \A i \in 1 .. Len(e.val) : Doc!Value(e)[i + 5] = e.val[i]
         /\ e.id \notin {2, 5} => /\ Doc!Value(e) = e.val
                                  /\ e.id \in Doc!Empty \cup Doc!Long \cup {1, 8, 16}
                                  /\ Len(e.val) = Doc!ValueLen(e.id)
<1>1. 1 .. 255 \subseteq Nat /\ Doc!Byte \subseteq Nat
  BY DEF Doc!Byte
<1>2. /\ e.key \in Seq(1 .. 255) /\ e.id \in Nat /\ e.id \notin {0, 3, 4}
      /\ e.val \in Seq(1 .. 255) \/ e.val \in Seq(Doc!Byte)
      /\ e.id \notin {2, 5} => /\ e.id \in Doc!Empty \cup Doc!Long \cup {1, 8, 16}
                               /\ Len(e.val) = Doc!ValueLen(e.id)
  BY DEF Doc!FlatElement, Doc!Empty, Doc!Long, Doc!ID_STRING, Doc!ID_BINARY, Doc!ID_BOOL, Doc!ID_32_INTEGER,
         Doc!ID_DOUBLE, Doc!ID_64_INTEGER, Doc!ID_NULL_VALUE
<1>3. e.val \in Seq(Nat)
  <2>1. CASE e.val \in Seq(1 .. 255)
    BY <1>1, <2>1, SeqMonotonic
  <2>2. CASE e.val \in Seq(Doc!Byte)
    BY <1>1, <2>2, SeqMonotonic
  <2> QED BY <1>2, <2>1, <2>2
<1>4. Len(e.val) \in Nat
  BY <1>3
<1>5. PICK z : z = <<0>> /\ z \in Seq(Nat) /\ Len(z) = 1
  <2>1. 0 \in Nat
    OBVIOUS
  <2> QED BY <2>1, OneByte, Zenon
<1>6. PICK v, n, c, one : /\ v = e.val /\ n = Len(v) /\ c = n + 1 /\ one = 1
                          /\ v \in Seq(Nat) /\ n \in Nat /\ c \in Nat /\ one \in Nat /\ Len(z) = one
  <2>1. PICK v : v = e.val /\ v \in Seq(Nat) /\ Len(v) \in Nat
    BY <1>3, <1>4, Zenon
  <2>2. PICK n : n = Len(v) /\ n \in Nat
    BY <2>1, Zenon
  <2>3. n + 1 \in Nat /\ 1 \in Nat
    BY <2>2
  <2> QED BY <1>5, <2>1, <2>2, <2>3, Zenon
<1>7. CASE e.id = 2
  <2>1. Doc!Value(e) = Doc!LE(c) \o v \o z
    <3>1. Doc!Value(e) = Doc!LE(Len(e.val) + 1) \o e.val \o <<0>>
      <4>1. Doc!ID_STRING # Doc!ID_BINARY /\ e.id = Doc!ID_STRING
        BY <1>7 DEF Doc!ID_STRING, Doc!ID_BINARY
      <4> QED BY <4>1, Zenon DEF Doc!Value
    <3> QED BY <3>1, <1>5, <1>6, Zenon
  <2>2. Doc!Value(e) = Joined(Doc!LE(c), v, z)
    BY <2>1 DEF Joined
  <2>3. Numbered(Joined(Doc!LE(c), v, z), c, v, z, n, one)
    BY <1>5, <1>6, NumberParts
  <2>4. n + one + 4 = n + 5
    BY <1>6
  <2>5. /\ Doc!Value(e) \in Seq(Nat) /\ Len(Doc!Value(e)) = Len(e.val) + 5 /\ Doc!Value(e)[1] = Len(e.val) + 1
        /\ Doc!Value(e)[2] = 0 /\ Doc!Value(e)[3] = 0 /\ Doc!Value(e)[4] = 0
        /\ \A i \in 1 .. Len(e.val) : Doc!Value(e)[i + 4] = e.val[i]
    BY <1>6, <2>2, <2>3, <2>4, Zenon DEF Numbered
  <2> QED BY <1>2, <1>3, <1>4, <1>7, <2>5
<1>8. CASE e.id = 5
  <2>1. Doc!Value(e) = Doc!LE(n) \o z \o v
    <3>1. Doc!Value(e) = Doc!LE(Len(e.val)) \o <<0>> \o e.val
      <4>1. Doc!ID_STRING # Doc!ID_BINARY /\ e.id = Doc!ID_BINARY
        BY <1>8 DEF Doc!ID_STRING, Doc!ID_BINARY
      <4> QED BY <4>1, Zenon DEF Doc!Value
    <3> QED BY <3>1, <1>5, <1>6, Zenon
  <2>2. Doc!Value(e) = Joined(Doc!LE(n), z, v)
    BY <2>1 DEF Joined
  <2>3. Numbered(Joined(Doc!LE(n), z, v), n, z, v, one, n)
    BY <1>5, <1>6, NumberParts
  <2>4. one + n + 4 = n + 5 /\ \A i \in 1 .. n : i + one + 4 = i + 5
    BY <1>6
  <2>5. /\ Doc!Value(e) \in Seq(Nat) /\ Len(Doc!Value(e)) = Len(e.val) + 5 /\ Doc!Value(e)[1] = Len(e.val)
        /\ Doc!Value(e)[2] = 0 /\ Doc!Value(e)[3] = 0 /\ Doc!Value(e)[4] = 0
        /\ \A i \in 1 .. Len(e.val) : Doc!Value(e)[i + 5] = e.val[i]
    BY <1>6, <2>2, <2>3, <2>4, Zenon DEF Numbered
  <2> QED BY <1>2, <1>3, <1>4, <1>8, <2>5
<1>9. CASE e.id \notin {2, 5}
  <2>1. Doc!Value(e) = e.val
    BY <1>9 DEF Doc!Value, Doc!ID_STRING, Doc!ID_BINARY
  <2> QED BY <1>2, <1>3, <1>4, <1>9, <2>1, Zenon
<1> QED BY <1>7, <1>8, <1>9

\* The elements of an embedded document, without what frames them.
LEMMA WithinIs ==
  ASSUME NEW d, d \in Seq(Doc!ToSet(d)), \A x \in Doc!ToSet(d) : Doc!FlatElement(x)
  PROVE  Doc!Within(d) \in Seq(Nat)
<1>1. PICK n \in Nat : n = Len(d) /\ DOMAIN d = 1 .. n
  OBVIOUS
<1> DEFINE parts == [i \in DOMAIN d |-> Doc!Head_(d[i]) \o Doc!Value(d[i])]
<1>2. ASSUME NEW i \in 1 .. n PROVE Doc!Head_(d[i]) \o Doc!Value(d[i]) \in Seq(Nat)
  <2>1. PICK x : x = d[i] /\ x \in Doc!ToSet(d)
    BY <1>1 DEF Doc!ToSet
  <2>2. Doc!FlatElement(x)
    BY <2>1
  <2>3. Doc!Value(x) \in Seq(Nat) /\ x.id \in Nat /\ x.key \in Seq(1 .. 255)
    BY <2>2, FlatValue, Zenon
  <2>4. Doc!Head_(x) \in Seq(Nat)
    BY <2>3, HeadIs, Zenon
  <2>5. Doc!Head_(x) \o Doc!Value(x) \in Seq(Nat)
    BY <2>3, <2>4, ConcatProperties
  <2> QED BY <2>1, <2>5
<1>3. parts \in [1 .. n -> Seq(Nat)]
  BY <1>1, <1>2
<1>4. Doc!Within(d) = Doc!FlattenSeq(parts)
  BY DEF Doc!Within
<1> HIDE DEF parts
<1> QED BY <1>3, <1>4, FlatIsSeq

\* The value of an element that is serialized.
LEMMA ValueIs ==
  ASSUME NEW e \in Elements
  PROVE  /\ e.id \in Nat /\ e.id \notin {0, 4} /\ e.key \in Seq(1 .. 255)
         /\ Doc!ValueOf(e) \in Seq(Nat) /\ Len(Doc!ValueOf(e)) \in Nat
         /\ e.id # 3 => Doc!ValueOf(e) = Doc!Value(e) /\ Doc!FlatElement(e)
         /\ e.id = 3 => /\ 4 <= Len(Doc!ValueOf(e)) /\ Doc!ValueOf(e)[1] = Len(Doc!ValueOf(e))
                        /\ Doc!ValueOf(e)[2] = 0 /\ Doc!ValueOf(e)[3] = 0 /\ Doc!ValueOf(e)[4] = 0
<1>1. \/ Doc!FlatElement(e)
      \/ /\ e.id = 3 /\ e.key \in Seq(1 .. 255)
         /\ e.val \in Seq(Doc!ToSet(e.val)) /\ \A d \in Doc!ToSet(e.val) : Doc!FlatElement(d)
  BY DocumentAssumed, Zenon DEF Doc!BsonAssumption, Doc!ID_EMBEDED_DOCUMENT
<1>2. CASE Doc!FlatElement(e)
  <2>1. e.id \in Nat /\ e.id \notin {0, 3, 4} /\ e.key \in Seq(1 .. 255) /\ Doc!Value(e) \in Seq(Nat)
    BY <1>2, FlatValue, Zenon
  <2>2. Doc!ValueOf(e) = Doc!Value(e)
    <3>1. e.id # Doc!ID_EMBEDED_DOCUMENT
      BY <2>1 DEF Doc!ID_EMBEDED_DOCUMENT
    <3> QED BY <3>1, Zenon DEF Doc!ValueOf
  <2>3. Len(Doc!Value(e)) \in Nat /\ e.id \notin {0, 4} /\ e.id # 3
    BY <2>1
  <2> QED BY <1>2, <2>1, <2>2, <2>3, Zenon
<1>3. CASE /\ e.id = 3 /\ e.key \in Seq(1 .. 255)
           /\ e.val \in Seq(Doc!ToSet(e.val)) /\ \A d \in Doc!ToSet(e.val) : Doc!FlatElement(d)
  <2>1. PICK w : w = Doc!Within(e.val) /\ w \in Seq(Nat)
    BY <1>3, WithinIs, Zenon
  <2>2. PICK n \in Nat : n = Len(w)
    BY <2>1
  <2>3. PICK z : z = <<0>> /\ z \in Seq(Nat) /\ Len(z) = 1
    <3>1. 0 \in Nat
      OBVIOUS
    <3> QED BY <3>1, OneByte, Zenon
  <2>4. PICK c \in Nat : c = n + 5
    OBVIOUS
  <2>5. PICK one \in Nat : one = 1
    OBVIOUS
  <2>6. Doc!ValueOf(e) = Doc!LE(c) \o w \o z
    <3>1. Doc!ValueOf(e) = Doc!LE(Len(Doc!Within(e.val)) + 5) \o Doc!Within(e.val) \o <<0>>
      BY <1>3, Zenon DEF Doc!ValueOf, Doc!ID_EMBEDED_DOCUMENT
    <3> QED BY <3>1, <2>1, <2>2, <2>3, <2>4, Zenon
  <2>7. Doc!ValueOf(e) = Joined(Doc!LE(c), w, z)
    BY <2>6 DEF Joined
  <2>8. Numbered(Joined(Doc!LE(c), w, z), c, w, z, n, one)
    <3>1. z \in Seq(Nat) /\ Len(z) = one /\ Len(w) = n /\ w \in Seq(Nat)
      BY <2>1, <2>2, <2>3, <2>5
    <3> QED BY <3>1, NumberParts
  <2>9. n + one + 4 = c /\ 4 <= c /\ 3 \notin {0, 4} /\ 3 \in Nat
    BY <2>4, <2>5
  <2>10. /\ Doc!ValueOf(e) \in Seq(Nat) /\ Len(Doc!ValueOf(e)) = c /\ Doc!ValueOf(e)[1] = c
         /\ Doc!ValueOf(e)[2] = 0 /\ Doc!ValueOf(e)[3] = 0 /\ Doc!ValueOf(e)[4] = 0
    BY <2>7, <2>8, <2>9, Zenon DEF Numbered
  <2> QED BY <1>3, <2>9, <2>10, Zenon
<1> QED BY <1>1, <1>2, <1>3

\* The memory m holds element e from p on.
Stands(m, p, e) == \A j \in 1 .. Len(Elem(e)) : m[p + j] = Elem(e)[j]

LEMMA ElemIs ==
  ASSUME NEW e \in Elements
  PROVE  \E n \in 0 .. MAX_KEY_LEN : \E l \in Nat :
           /\ n = Len(Doc!Truncate(e.key)) /\ l = Len(Doc!ValueOf(e))
           /\ Len(Doc!Head_(e)) = n + 2 /\ n \in Nat
           /\ Elem(e) \in Seq(Nat) /\ Len(Elem(e)) = n + 2 + l /\ n + 2 + l < Doc!Room
           /\ Elem(e)[1] = e.id /\ Elem(e)[n + 2] = 0
           /\ \A i \in 1 .. n : Elem(e)[i + 1] = Doc!Truncate(e.key)[i]
           /\ \A i \in 1 .. l : Elem(e)[n + 2 + i] = Doc!ValueOf(e)[i]
<1>1. PICK k : k = Doc!Truncate(e.key)
  OBVIOUS
<1>2. PICK v : v = Doc!ValueOf(e) /\ v \in Seq(Nat)
  BY ValueIs
<1>3. PICK h : h = Doc!Head_(e)
  OBVIOUS
<1>4. PICK n \in 0 .. MAX_KEY_LEN :
           /\ n = Len(k) /\ h \in Seq(Nat) /\ Len(h) = n + 2
           /\ h[1] = e.id /\ h[n + 2] = 0
           /\ \A i \in 1 .. n : h[i + 1] = k[i]
  <2>1. e.id \in Nat /\ e.key \in Seq(1 .. 255)
    BY ValueIs
  <2>2. \E n \in 0 .. MAX_KEY_LEN :
           /\ n = Len(Doc!Truncate(e.key)) /\ Doc!Head_(e) \in Seq(Nat) /\ Len(Doc!Head_(e)) = n + 2
           /\ Doc!Head_(e)[1] = e.id /\ Doc!Head_(e)[n + 2] = 0
           /\ \A i \in 1 .. n : Doc!Head_(e)[i + 1] = Doc!Truncate(e.key)[i]
    BY <2>1, HeadIs
  <2> QED BY <1>1, <1>3, <2>2, Zenon
<1>5. PICK l \in Nat : l = Len(v)
  BY <1>2
<1>6. PICK a \in Nat : a = n + 2 /\ n \in Nat
  BY <1>4, DocConstants
<1>7. PICK w : w = h \o v
  OBVIOUS
<1>8. /\ w \in Seq(Nat) /\ Len(w) = a + l
      /\ \A i \in 1 .. a + l : w[i] = IF i <= a THEN h[i] ELSE v[i - a]
  <2>1. h \in Seq(Nat) /\ Len(h) = a /\ v \in Seq(Nat) /\ Len(v) = l
    BY <1>2, <1>4, <1>5, <1>6
  <2> QED BY <2>1, <1>7, ConcatProperties
<1>9. Elem(e) = w
  BY <1>2, <1>3, <1>7 DEF Elem
<1>10. /\ Len(w) = n + 2 + l /\ 1 \in 1 .. a + l /\ 1 <= a /\ n + 2 \in 1 .. a + l /\ n + 2 <= a
       /\ \A i \in 1 .. n : i + 1 \in 1 .. a + l /\ i + 1 <= a
  BY <1>6, <1>8
<1>11. w[1] = e.id /\ w[n + 2] = 0 /\ \A i \in 1 .. n : w[i + 1] = k[i]
  BY <1>4, <1>8, <1>10
<1>12. ASSUME NEW i \in 1 .. l PROVE w[n + 2 + i] = v[i]
  <2>1. PICK j : j = n + 2 + i
    OBVIOUS
  <2>2. j \in 1 .. a + l /\ ~(j <= a) /\ j - a = i
    BY <1>6, <2>1
  <2> QED BY <1>8, <2>1, <2>2
<1>13. n + 2 + l < Doc!Room
  <2>1. Len(Doc!Head_(e)) + Len(Doc!ValueOf(e)) < Doc!Room
    BY DocumentAssumed, Zenon DEF Doc!BsonAssumption
  <2> QED BY <2>1, <1>2, <1>3, <1>4, <1>5, Zenon
<1>14. Len(Doc!Head_(e)) = n + 2 /\ n \in Nat /\ w \in Seq(Nat)
  BY <1>3, <1>4, <1>6, <1>8
<1> HIDE <1>8
<1>15. \A i \in 1 .. l : w[n + 2 + i] = v[i]
  BY <1>12
<1> QED BY <1>1, <1>2, <1>4, <1>5, <1>9, <1>10, <1>11, <1>13, <1>14, <1>15, ZenonT(60)

\* What the memory holds where an element stands.
LEMMA StandsIs ==
  ASSUME NEW e \in Elements, NEW p \in Nat, NEW m, Stands(m, p, e)
  PROVE  \E n \in 0 .. MAX_KEY_LEN : \E l \in Nat :
           /\ n = Len(Doc!Truncate(e.key)) /\ l = Len(Doc!ValueOf(e)) /\ n \in Nat
           /\ Len(Elem(e)) = n + 2 + l
           /\ m[p + 1] = e.id /\ m[p + n + 2] = 0
           /\ \A i \in 1 .. n : m[p + 1 + i] = Doc!Truncate(e.key)[i]
           /\ \A i \in 1 .. l : m[p + n + 2 + i] = Doc!ValueOf(e)[i]
<1>1. PICK w, k, v : w = Elem(e) /\ k = Doc!Truncate(e.key) /\ v = Doc!ValueOf(e)
  OBVIOUS
<1>2. PICK n \in 0 .. MAX_KEY_LEN : \E l \in Nat :
           /\ n = Len(k) /\ l = Len(v) /\ n \in Nat
           /\ Len(w) = n + 2 + l
           /\ w[1] = e.id /\ w[n + 2] = 0
           /\ \A i \in 1 .. n : w[i + 1] = k[i]
           /\ \A i \in 1 .. l : w[n + 2 + i] = v[i]
  BY <1>1, ElemIs, Zenon
<1>3. PICK l \in Nat :
           /\ n = Len(k) /\ l = Len(v) /\ n \in Nat
           /\ Len(w) = n + 2 + l
           /\ w[1] = e.id /\ w[n + 2] = 0
           /\ \A i \in 1 .. n : w[i + 1] = k[i]
           /\ \A i \in 1 .. l : w[n + 2 + i] = v[i]
  BY <1>2
<1>4. \A j \in 1 .. n + 2 + l : m[p + j] = w[j]
  BY <1>1, <1>3, Zenon DEF Stands
<1>5. /\ 1 \in 1 .. n + 2 + l /\ n + 2 \in 1 .. n + 2 + l /\ p + (n + 2) = p + n + 2
  BY <1>3
<1>6. m[p + 1] = e.id /\ m[p + n + 2] = 0
  BY <1>3, <1>4, <1>5, Zenon
<1>7. ASSUME NEW i \in 1 .. n PROVE m[p + 1 + i] = k[i]
  <2>1. i + 1 \in 1 .. n + 2 + l /\ p + (i + 1) = p + 1 + i
    BY <1>3
  <2> QED BY <1>3, <1>4, <2>1, Zenon
<1>8. ASSUME NEW i \in 1 .. l PROVE m[p + n + 2 + i] = v[i]
  <2>1. n + 2 + i \in 1 .. n + 2 + l /\ p + (n + 2 + i) = p + n + 2 + i
    BY <1>3
  <2> QED BY <1>3, <1>4, <2>1, Zenon
<1>9. /\ \A i \in 1 .. n : m[p + 1 + i] = k[i]
      /\ \A i \in 1 .. l : m[p + n + 2 + i] = v[i]
  BY <1>7, <1>8, Zenon
<1> QED BY <1>1, <1>3, <1>6, <1>9, ZenonT(60)

-----------------------------------------------------------------------------
\* Elements q stand in memory m one after the other from 4 to end, at the places o.
Laid(o, q, m, end) ==
  /\ o \in [1 .. Len(q) + 1 -> Nat] /\ o[1] = 4 /\ o[Len(q) + 1] = end
  /\ \A i \in 1 .. Len(q) + 1 : 4 <= o[i] /\ o[i] <= end
  /\ \A i \in 1 .. Len(q) : o[i + 1] = o[i] + Len(Elem(q[i])) /\ Stands(m, o[i], q[i])

Same(i) == Doc!Truncate(put[i].key) = Doc!Truncate(key)
\* find_key has passed the elements before i, which have other keys.
Behind(i) ==
  /\ \A j \in 1 .. i - 1 : ~Same(j) /\ put[j].id \notin {1, 3}
  /\ "data" \notin clobbered
  /\ "str" \in clobbered => \E j \in 1 .. i - 1 : put[j].id = 5
\* It is at the beginning of an element ...
OnTrack(o) == \E i \in 1 .. Len(put) + 1 : pos = o[i] /\ Behind(i)
\* ... or behind one that it cannot read past.
Astray == \E i \in 1 .. Len(put) : put[i].id \in {1, 3} /\ \A j \in 1 .. i : ~Same(j)

DocTyped ==
  /\ phase \in {"put", "refused", "done", "find"} /\ pos \in Nat /\ findRc \in Int
  /\ len \in Lengths /\ len \in Nat /\ size \in Nat /\ 4 <= size /\ size <= len + Doc!Room
  /\ mem \in [1 .. len + Doc!Room -> Nat]
  /\ put \in Seq(Elements) /\ Len(put) <= MaxElements
  /\ phase = "put" => key = <<>> /\ size < len + Doc!Room

DocLaid ==
  /\ phase = "put" => \E o : Laid(o, put, mem, size)
  /\ phase \in {"done", "find"} => /\ \E o : Laid(o, put, mem, size - 1)
                                   /\ mem[size] = 0

\* The inductive invariant of a BSON document that is written and read.
DocInv ==
  /\ DocTyped /\ DocLaid
  /\ phase = "find" /\ size <= len => Astray \/ \E o : Laid(o, put, mem, size - 1) /\ OnTrack(o)
  /\ FindsWhatWasPut

\* The bytes of the memory m behind p.
LEMMA BytesRead ==
  ASSUME NEW X, NEW s \in Seq(X), NEW n \in Nat, Len(s) = n, NEW m, NEW p \in Nat,
         \A i \in 1 .. n : m[p + i] = s[i]
  PROVE  SubSeq(m, p + 1, p + n) = s
<1>1. /\ p + 1 \in Int /\ p + n \in Int /\ p + n - (p + 1) + 1 = n
      /\ (IF p + 1 <= p + n THEN p + n - (p + 1) + 1 ELSE 0) = n
      /\ \A i \in 1 .. n : p + 1 + i - 1 = p + i
  OBVIOUS
<1>2. \A i \in 1 .. n : m[p + i] = s[i] /\ s[i] \in X
  BY ElementOfSeq
<1>3. \A j \in p + 1 .. p + n : m[j] \in X
  <2> TAKE j \in p + 1 .. p + n
  <2>1. j - p \in 1 .. n /\ p + (j - p) = j
    OBVIOUS
  <2> QED BY <1>2, <2>1, Zenon
<1>4. PICK u : u = SubSeq(m, p + 1, p + n)
  OBVIOUS
<1>5. /\ u \in Seq(X)
      /\ Len(u) = (IF p + 1 <= p + n THEN p + n - (p + 1) + 1 ELSE 0)
      /\ \A i \in 1 .. p + n - (p + 1) + 1 : u[i] = m[p + 1 + i - 1]
  BY <1>1, <1>3, <1>4, SubSeqProperties
<1>6. u \in Seq(X) /\ Len(u) = n
  BY <1>1, <1>5, Zenon
<1>7. \A i \in 1 .. n : u[i] = s[i]
  BY <1>1, <1>2, <1>5, Zenon
<1>8. u = s
  BY <1>6, <1>7, SeqEqual
<1> QED BY <1>4, <1>8

\* The length of the key at the place that find_key has reached.
LEMMA KeyLenIs ==
  ASSUME DocTyped
  PROVE  /\ Doc!KeyLen \in 0 .. MAX_KEY_LEN /\ Doc!KeyLen \in Nat
         /\ \A n \in 0 .. MAX_KEY_LEN :
              (n = MAX_KEY_LEN \/ mem[pos + 2 + n] = 0) /\ (\A i \in 0 .. n - 1 : mem[pos + 2 + i] # 0)
                => Doc!KeyLen = n
<1> DEFINE ends == {i \in 0 .. MAX_KEY_LEN : i = MAX_KEY_LEN \/ mem[pos + 2 + i] = 0}
<1>1. MAX_KEY_LEN \in Nat
  BY DocConstants
<1>2. ends \in SUBSET Nat /\ MAX_KEY_LEN \in ends
  BY <1>1
<1>3. \E n \in ends : \A m \in ends : n <= m
  <2> HIDE DEF ends
  <2> QED BY <1>2, LeastNumber
<1>4. Doc!KeyLen = CHOOSE i \in ends : \A j \in ends : i <= j
  BY DEF Doc!KeyLen
<1>5. Doc!KeyLen \in ends /\ \A j \in ends : Doc!KeyLen <= j
  <2> HIDE DEF ends
  <2> QED BY <1>3, <1>4
<1>6. Doc!KeyLen \in 0 .. MAX_KEY_LEN /\ Doc!KeyLen \in Nat
  BY <1>1, <1>5
<1>7. ASSUME NEW n \in 0 .. MAX_KEY_LEN, n = MAX_KEY_LEN \/ mem[pos + 2 + n] = 0,
             \A i \in 0 .. n - 1 : mem[pos + 2 + i] # 0
      PROVE  Doc!KeyLen = n
  <2>1. PICK k : k = Doc!KeyLen /\ k \in ends /\ k \in 0 .. MAX_KEY_LEN /\ \A j \in ends : k <= j
    BY <1>5, <1>6, Zenon
  <2>2. n \in ends
    BY <1>7
  <2>3. k <= n
    BY <2>1, <2>2, Zenon
  <2>4. ~(k < n)
    <3> SUFFICES ASSUME k < n PROVE FALSE
      OBVIOUS
    <3>1. k \in 0 .. n - 1 /\ k # MAX_KEY_LEN
      BY <1>1, <2>1
    <3>2. mem[pos + 2 + k] # 0
      BY <1>7, <3>1, Zenon
    <3>3. k = MAX_KEY_LEN \/ mem[pos + 2 + k] = 0
      BY <2>1
    <3> QED BY <3>1, <3>2, <3>3, Zenon
  <2>5. k \in Nat /\ n \in Nat
    BY <1>1, <2>1
  <2> QED BY <2>1, <2>3, <2>4, <2>5
<1>8. \A n \in 0 .. MAX_KEY_LEN :
        (n = MAX_KEY_LEN \/ mem[pos + 2 + n] = 0) /\ (\A i \in 0 .. n - 1 : mem[pos + 2 + i] # 0)
          => Doc!KeyLen = n
  BY <1>7, Zenon
<1> QED BY <1>6, <1>8, Zenon

\* At an element find_key sees its identifier, its key and its value.
LEMMA KeySeen ==
  ASSUME DocTyped, NEW e \in Elements, Stands(mem, pos, e)
  PROVE  \E n \in 0 .. MAX_KEY_LEN : \E l \in Nat :
           /\ n \in Nat /\ l = Len(Doc!ValueOf(e)) /\ Len(Elem(e)) = n + 2 + l
           /\ mem[pos + 1] = e.id /\ Doc!KeyLen = n /\ Doc!ValueAt = pos + n + 2
           /\ (Doc!KeyFound <=> Doc!Truncate(e.key) = Doc!Truncate(key))
           /\ \A i \in 1 .. l : mem[pos + n + 2 + i] = Doc!ValueOf(e)[i]
<1>1. pos \in Nat
  BY DEF DocTyped
<1>2. PICK k, v : k = Doc!Truncate(e.key) /\ v = Doc!ValueOf(e)
  OBVIOUS
<1>3. PICK n \in 0 .. MAX_KEY_LEN : \E l \in Nat :
           /\ n = Len(k) /\ l = Len(v) /\ n \in Nat
           /\ Len(Elem(e)) = n + 2 + l
           /\ mem[pos + 1] = e.id /\ mem[pos + n + 2] = 0
           /\ \A i \in 1 .. n : mem[pos + 1 + i] = k[i]
           /\ \A i \in 1 .. l : mem[pos + n + 2 + i] = v[i]
  <2>1. \E n \in 0 .. MAX_KEY_LEN : \E l \in Nat :
           /\ n = Len(Doc!Truncate(e.key)) /\ l = Len(Doc!ValueOf(e)) /\ n \in Nat
           /\ Len(Elem(e)) = n + 2 + l
           /\ mem[pos + 1] = e.id /\ mem[pos + n + 2] = 0
           /\ \A i \in 1 .. n : mem[pos + 1 + i] = Doc!Truncate(e.key)[i]
           /\ \A i \in 1 .. l : mem[pos + n + 2 + i] = Doc!ValueOf(e)[i]
    BY <1>1, StandsIs
  <2> QED BY <1>2, <2>1, Zenon
<1>4. PICK l \in Nat :
           /\ n = Len(k) /\ l = Len(v) /\ n \in Nat
           /\ Len(Elem(e)) = n + 2 + l
           /\ mem[pos + 1] = e.id /\ mem[pos + n + 2] = 0
           /\ \A i \in 1 .. n : mem[pos + 1 + i] = k[i]
           /\ \A i \in 1 .. l : mem[pos + n + 2 + i] = v[i]
  BY <1>3, Zenon
<1>5. k \in Seq(1 .. 255)
  <2>1. e.key \in Seq(1 .. 255)
    BY ValueIs
  <2> QED BY <1>2, <2>1, KeyCut, Zenon
<1>6. Doc!KeyLen = n
  <2>1. mem[pos + 2 + n] = 0
    <3>1. pos + 2 + n = pos + n + 2
      BY <1>1, <1>4
    <3> QED BY <1>4, <3>1, Zenon
  <2>2. ASSUME NEW i \in 0 .. n - 1 PROVE mem[pos + 2 + i] # 0
    <3>1. i + 1 \in 1 .. n /\ pos + 1 + (i + 1) = pos + 2 + i
      BY <1>1, <1>4
    <3>2. mem[pos + 2 + i] = k[i + 1]
      BY <1>4, <3>1, Zenon
    <3>3. k[i + 1] \in 1 .. 255
      BY <1>4, <1>5, <3>1, ElementOfSeq
    <3> QED BY <3>2, <3>3
  <2> QED BY <2>1, <2>2, KeyLenIs
<1>7. Doc!ValueAt = pos + n + 2
  BY <1>6, Zenon DEF Doc!ValueAt
<1>8. Doc!Bytes(pos + 1, n) = k
  <2>1. PICK p \in Nat : p = pos + 1
    BY <1>1
  <2>2. Len(k) = n /\ n \in Nat /\ \A i \in 1 .. n : mem[p + i] = k[i]
    BY <1>4, <2>1, Zenon
  <2>3. SubSeq(mem, p + 1, p + n) = k
    BY <1>5, <2>2, BytesRead
  <2> QED BY <2>1, <2>3, Zenon DEF Doc!Bytes
<1>9. Doc!KeyFound <=> k = Doc!Truncate(key)
  BY <1>6, <1>8, Zenon DEF Doc!KeyFound
<1> QED BY <1>2, <1>4, <1>6, <1>7, <1>9, Zenon

\* The first element with the key that is looked for.
LEMMA PlaceIs ==
  ASSUME put \in Seq(Elements)
  PROVE  /\ \A i \in 1 .. Len(put) : Same(i) /\ (\A j \in 1 .. i - 1 : ~Same(j)) => Doc!Place = i
         /\ (\A i \in 1 .. Len(put) : ~Same(i)) => Doc!Place = 0
         /\ Doc!Place # 0 => Doc!Place \in 1 .. Len(put) /\ Same(Doc!Place)
<1> DEFINE hits == {i \in DOMAIN put : Doc!Truncate(put[i].key) = Doc!Truncate(key)}
<1>1. Doc!Place = IF hits = {} THEN 0 ELSE CHOOSE i \in hits : \A j \in hits : i <= j
  BY DEF Doc!Place
<1>2. /\ hits \in SUBSET Nat /\ \A i \in hits : i \in 1 .. Len(put) /\ Same(i)
      /\ \A i \in 1 .. Len(put) : Same(i) => i \in hits
  <2>1. DOMAIN put = 1 .. Len(put)
    OBVIOUS
  <2> QED BY <2>1 DEF Same
<1> HIDE DEF hits
<1>3. ASSUME NEW i \in 1 .. Len(put), Same(i), \A j \in 1 .. i - 1 : ~Same(j) PROVE Doc!Place = i
  <2>1. i \in hits
    BY <1>2, <1>3
  <2>2. \A j \in hits : i <= j
    <3> TAKE j \in hits
    <3>1. j \in 1 .. Len(put) /\ Same(j)
      BY <1>2
    <3>2. j \notin 1 .. i - 1
      BY <1>3, <3>1
    <3> QED BY <3>1, <3>2
  <2>3. \A k \in hits : (\A j \in hits : k <= j) => k = i
    <3> TAKE k \in hits
    <3> HAVE \A j \in hits : k <= j
    <3>1. k <= i /\ i <= k
      BY <2>1, <2>2
    <3>2. k \in Nat /\ i \in Nat
      BY <1>2
    <3> QED BY <3>1, <3>2
  <2> QED BY <1>1, <2>1, <2>2, <2>3
<1>4. ASSUME \A i \in 1 .. Len(put) : ~Same(i) PROVE Doc!Place = 0
  BY <1>1, <1>2, <1>4
<1>5. ASSUME Doc!Place # 0 PROVE Doc!Place \in hits
  <2>1. hits # {} /\ Doc!Place = CHOOSE i \in hits : \A j \in hits : i <= j
    BY <1>1, <1>5
  <2>2. \E i \in hits : \A j \in hits : i <= j
    BY <1>2, <2>1, LeastNumber
  <2> QED BY <2>1, <2>2
<1>6. Doc!Place # 0 => Doc!Place \in 1 .. Len(put) /\ Same(Doc!Place)
  BY <1>2, <1>5
<1> QED BY <1>3, <1>4, <1>6, Zenon

\* What find_key may answer.
LEMMA Unasked ==
  ASSUME UNCHANGED <<put, key>>
  PROVE  /\ Doc!Place' = Doc!Place
         /\ \A n : (Doc!Readable(n)' <=> Doc!Readable(n)) /\ (Doc!Intact(n)' <=> Doc!Intact(n))
BY DEF Doc!Place, Doc!Readable, Doc!Intact

LEMMA Answered ==
  ASSUME put \in Seq(Elements), UNCHANGED <<put, key>>, NEW i \in 1 .. Len(put), Same(i),
         \A j \in 1 .. i - 1 : ~Same(j),
         put[i].id # 1 /\ Doc!Intact(i) =>
           findRc' > 0 /\ found' = [id |-> put[i].id, val |-> Doc!Given(put[i])]
  PROVE  FindsWhatWasPut'
<1>1. Doc!Place = i /\ Doc!Place' = i /\ i # 0
  BY PlaceIs, Unasked
<1>2. Doc!Intact(i)' <=> Doc!Intact(i)
  BY Unasked
<1>3. Doc!Given(put[i])' = Doc!Given(put[i]) /\ put' = put
  BY DEF Doc!Given
<1> QED BY <1>1, <1>2, <1>3 DEF FindsWhatWasPut, Doc!FindsWhatWasPut, Doc!ID_DOUBLE

LEMMA NotThere ==
  ASSUME put \in Seq(Elements), UNCHANGED <<put, key>>, \A j \in 1 .. Len(put) : ~Same(j), findRc' < 0
  PROVE  FindsWhatWasPut'
<1>1. Doc!Place' = 0
  BY PlaceIs, Unasked
<1> QED BY <1>1 DEF FindsWhatWasPut, Doc!FindsWhatWasPut

LEMMA AnyAnswer ==
  ASSUME put \in Seq(Elements), UNCHANGED <<put, key>>, Astray
  PROVE  FindsWhatWasPut' /\ Astray'
<1>1. PICK i \in 1 .. Len(put) : put[i].id \in {1, 3} /\ \A j \in 1 .. i : ~Same(j)
  BY DEF Astray
<1>2. ASSUME NEW n \in Nat, i <= n PROVE ~Doc!Readable(n)
  BY <1>1, <1>2 DEF Doc!Readable, Doc!ID_DOUBLE, Doc!ID_EMBEDED_DOCUMENT
<1>3. Len(put) \in Nat /\ ~Doc!Readable(Len(put))
  BY <1>2
<1>4. ASSUME Doc!Place # 0 PROVE ~Doc!Readable(Doc!Place - 1)
  <2>1. Doc!Place \in 1 .. Len(put) /\ Same(Doc!Place)
    BY <1>4, PlaceIs
  <2>2. Doc!Place \notin 1 .. i
    BY <1>1, <2>1
  <2>3. Doc!Place - 1 \in Nat /\ i <= Doc!Place - 1
    BY <2>1, <2>2
  <2> QED BY <1>2, <2>3
<1>5. Doc!Place' = Doc!Place /\ put' = put /\ \A n : Doc!Readable(n)' <=> Doc!Readable(n)
  BY Unasked
<1>6. FindsWhatWasPut'
  BY <1>3, <1>4, <1>5, Zenon DEF FindsWhatWasPut, Doc!FindsWhatWasPut
<1>7. Astray'
  BY DEF Astray, Same
<1> QED BY <1>6, <1>7

\* An element with another key is passed.
LEMMA Passed ==
  ASSUME DocTyped, UNCHANGED <<put, key>>, NEW o, NEW i \in 1 .. Len(put), ~Same(i), put[i].id \notin {1, 3},
         Behind(i), pos' = o[i + 1],
         clobbered' = clobbered \/ (put[i].id = 5 /\ clobbered' = clobbered \cup {"str"})
  PROVE  OnTrack(o)'
<1>1. i + 1 \in 1 .. Len(put) + 1 /\ i + 1 - 1 = i
  BY DEF DocTyped
<1>2. \A j \in 1 .. i : ~Same(j) /\ put[j].id \notin {1, 3}
  <2> TAKE j \in 1 .. i
  <2>1. j = i \/ j \in 1 .. i - 1
    OBVIOUS
  <2> QED BY <2>1 DEF Behind
<1>3. "data" \notin clobbered' /\ ("str" \in clobbered' => \E j \in 1 .. i : put[j].id = 5)
  <2>1. /\ "data" \notin clobbered'
        /\ "str" \in clobbered => \E j \in 1 .. i - 1 : put[j].id = 5
    BY Zenon DEF Behind
  <2>2. CASE clobbered' = clobbered
    <3>1. \A j \in 1 .. i - 1 : j \in 1 .. i
      OBVIOUS
    <3> QED BY <2>1, <2>2, <3>1, Zenon
  <2>3. CASE put[i].id = 5
    <3>1. i \in 1 .. i
      OBVIOUS
    <3> QED BY <2>1, <2>3, <3>1, Zenon
  <2> QED BY <2>2, <2>3, Zenon
<1>4. put' = put /\ \A j : Same(j)' <=> Same(j)
  BY DEF Same
<1>5. PICK k : k \in 1 .. Len(put) + 1 /\ k - 1 = i /\ k = i + 1
  BY <1>1
<1>6. /\ k \in 1 .. Len(put') + 1 /\ pos' = o[k]
      /\ \A j \in 1 .. k - 1 : ~Same(j)' /\ put'[j].id \notin {1, 3}
      /\ "data" \notin clobbered'
      /\ "str" \in clobbered' => \E j \in 1 .. k - 1 : put'[j].id = 5
  BY <1>2, <1>3, <1>4, <1>5, Zenon
<1> QED BY <1>6, Zenon DEF OnTrack, Behind

\* find_key at element i, with others before that it has passed.
AtElement(o, i) ==
  /\ DocTyped /\ Laid(o, put, mem, size - 1) /\ mem[size] = 0 /\ size <= len
  /\ phase = "find" /\ i \in 1 .. Len(put) /\ pos = o[i]
  /\ Behind(i)
\* What it must have done there.
Found(o) == FindsWhatWasPut' /\ (phase' = "find" => Astray' \/ OnTrack(o)')

\* What it sees there: value v, of l bytes.
Sees(o, i, v, l) ==
  /\ v \in Nat /\ l \in Nat /\ v > 0 /\ v = Doc!ValueAt /\ v + l = o[i + 1] /\ v + l < len
  /\ l = Len(Doc!ValueOf(put[i])) /\ mem[pos + 1] = put[i].id /\ (Doc!KeyFound <=> Same(i))
  /\ \A k \in 1 .. l : mem[v + k] = Doc!ValueOf(put[i])[k]
  /\ len > pos /\ size > pos

LEMMA SeesIt ==
  ASSUME NEW o, NEW i, AtElement(o, i)
  PROVE  put[i] \in Elements /\ \E v, l : Sees(o, i, v, l)
<1>1. PICK e : e = put[i] /\ e \in Elements
  <2>1. put \in Seq(Elements) /\ i \in 1 .. Len(put)
    BY DEF AtElement, DocTyped
  <2> QED BY <2>1
<1>2. DocTyped /\ Stands(mem, pos, e) /\ pos \in Nat /\ size \in Nat /\ len \in Nat /\ size <= len
      /\ i \in 1 .. Len(put) /\ Len(put) \in Nat
  BY <1>1 DEF AtElement, Laid, DocTyped
<1>3. PICK n \in 0 .. MAX_KEY_LEN : \E l \in Nat :
        /\ n \in Nat /\ l = Len(Doc!ValueOf(e)) /\ Len(Elem(e)) = n + 2 + l
        /\ mem[pos + 1] = e.id /\ Doc!KeyLen = n /\ Doc!ValueAt = pos + n + 2
        /\ (Doc!KeyFound <=> Doc!Truncate(e.key) = Doc!Truncate(key))
        /\ \A k \in 1 .. l : mem[pos + n + 2 + k] = Doc!ValueOf(e)[k]
  BY <1>1, <1>2, KeySeen
<1>4. PICK l \in Nat :
        /\ n \in Nat /\ l = Len(Doc!ValueOf(e)) /\ Len(Elem(e)) = n + 2 + l
        /\ mem[pos + 1] = e.id /\ Doc!KeyLen = n /\ Doc!ValueAt = pos + n + 2
        /\ (Doc!KeyFound <=> Doc!Truncate(e.key) = Doc!Truncate(key))
        /\ \A k \in 1 .. l : mem[pos + n + 2 + k] = Doc!ValueOf(e)[k]
  BY <1>3, Zenon
<1>5. PICK v : v = pos + n + 2
  OBVIOUS
<1>6. o[i + 1] = pos + (n + 2 + l) /\ o[i + 1] <= size - 1
  <2>1. o[i + 1] = o[i] + Len(Elem(put[i])) /\ pos = o[i] /\ i + 1 \in 1 .. Len(put) + 1
    <3>1. i + 1 \in 1 .. Len(put) + 1
      BY <1>2
    <3> QED BY <1>2, <3>1, Zenon DEF AtElement, Laid
  <2>2. o[i + 1] <= size - 1
    BY <2>1, Zenon DEF AtElement, Laid
  <2> QED BY <1>1, <1>4, <2>1, <2>2
<1>7. v \in Nat /\ v > 0 /\ v + l = o[i + 1] /\ v + l < len /\ len > pos /\ size > pos
  BY <1>2, <1>4, <1>5, <1>6
<1>8. Doc!KeyFound <=> Same(i)
  BY <1>1, <1>4, Zenon DEF Same
<1>9. Sees(o, i, v, l)
  BY <1>1, <1>4, <1>5, <1>7, <1>8, Zenon DEF Sees
<1> QED BY <1>1, <1>9

\* Values that always have as many bytes.
LEMMA TakeDoes ==
  ASSUME NEW o, NEW i, AtElement(o, i), NEW v, NEW l, Sees(o, i, v, l), put[i].id \notin {1, 2, 3, 5},
         UNCHANGED <<mem, len, size, put, key>>, Doc!Take(v, l, put[i].id)
  PROVE  Found(o)
<1>1. /\ put \in Seq(Elements) /\ put[i] \in Elements /\ i \in 1 .. Len(put) /\ len \in Nat /\ DocTyped
      /\ phase = "find"
      /\ Behind(i) /\ \A j \in 1 .. i - 1 : ~Same(j)
  BY SeesIt DEF AtElement, DocTyped, Behind
<1>2. v \in Nat /\ l \in Nat /\ v > 0 /\ ~(len < v + l) /\ (Doc!KeyFound <=> Same(i)) /\ v + l = o[i + 1]
  BY <1>1 DEF Sees
<1>3. /\ Doc!ValueOf(put[i]) = put[i].val /\ Doc!ValueOf(put[i]) \in Seq(Nat) /\ Doc!Given(put[i]) = put[i].val
  <2>1. Doc!FlatElement(put[i]) /\ Doc!ValueOf(put[i]) = Doc!Value(put[i]) /\ Doc!ValueOf(put[i]) \in Seq(Nat)
    BY <1>1, ValueIs
  <2>2. Doc!Value(put[i]) = put[i].val
    BY <2>1, FlatValue
  <2>3. Doc!Given(put[i]) = put[i].val
    BY DEF Doc!Given, Doc!ID_EMBEDED_DOCUMENT
  <2> QED BY <2>1, <2>2, <2>3
<1>4. Doc!Bytes(v, l) = put[i].val
  <2>1. PICK s : s = put[i].val /\ s \in Seq(Nat) /\ Len(s) = l /\ \A k \in 1 .. l : mem[v + k] = s[k]
    BY <1>3, Zenon DEF Sees
  <2>2. SubSeq(mem, v + 1, v + l) = s
    <3>1. v \in Nat /\ l \in Nat
      BY <1>2
    <3> QED BY <2>1, <3>1, BytesRead
  <2> QED BY <2>1, <2>2 DEF Doc!Bytes
<1>5. CASE Same(i)
  <2>1. Doc!Return(v + l, [id |-> put[i].id, val |-> Doc!Bytes(v, l)])
    BY <1>2, <1>5, Zenon DEF Doc!Take
  <2>2. phase' = "done" /\ findRc' = v + l /\ found' = [id |-> put[i].id, val |-> Doc!Given(put[i])]
    BY <1>3, <1>4, <2>1 DEF Doc!Return
  <2>3. findRc' > 0
    BY <1>2, <2>2
  <2>4. FindsWhatWasPut'
    BY <1>1, <1>5, <2>2, <2>3, Answered
  <2> QED BY <2>2, <2>4 DEF Found
<1>6. CASE ~Same(i)
  <2>1. Doc!GoOn(v + l) /\ clobbered' = clobbered
    BY <1>2, <1>6, Zenon DEF Doc!Take
  <2>2. pos' = o[i + 1] /\ phase' = "find" /\ clobbered' = clobbered
    BY <1>1, <1>2, <2>1 DEF Doc!GoOn
  <2>3. OnTrack(o)'
    <3>1. put[i].id \notin {1, 3}
      OBVIOUS
    <3>2. UNCHANGED <<put, key>>
      OBVIOUS
    <3> QED BY <1>1, <1>6, <2>2, <3>1, <3>2, Passed
  <2>4. FindsWhatWasPut'
    BY <2>2 DEF FindsWhatWasPut, Doc!FindsWhatWasPut
  <2> QED BY <2>3, <2>4 DEF Found
<1> QED BY <1>5, <1>6

\* The number of four bytes at a value.
LEMMA NumberSeen ==
  ASSUME NEW v, NEW c \in Nat, mem[v + 1] = c, mem[v + 2] = 0, mem[v + 3] = 0, mem[v + 4] = 0
  PROVE  Doc!NumberAt(v) = c
BY DEF Doc!NumberAt

LEMMA NumberThere ==
  ASSUME NEW o, NEW i, NEW v, NEW l, Sees(o, i, v, l), NEW c \in Nat, 4 <= l, NEW s, s = Doc!ValueOf(put[i]),
         s[1] = c, s[2] = 0, s[3] = 0, s[4] = 0
  PROVE  Doc!NumberAt(v) = c
<1>1. v \in Nat /\ l \in Nat /\ \A k \in 1 .. l : mem[v + k] = s[k]
  BY Zenon DEF Sees
<1>2. 1 \in 1 .. l /\ 2 \in 1 .. l /\ 3 \in 1 .. l /\ 4 \in 1 .. l
  BY <1>1
<1>3. mem[v + 1] = c /\ mem[v + 2] = 0 /\ mem[v + 3] = 0 /\ mem[v + 4] = 0
  BY <1>1, <1>2, Zenon
<1> QED BY <1>3, NumberSeen

\* The bytes of a value behind its first a.
Holds(i, l, s, n, a) ==
  /\ s \in Seq(Nat) /\ n \in Nat /\ a \in Nat /\ n = Len(s) /\ a + n <= l
  /\ \E w : w = Doc!ValueOf(put[i]) /\ \A k \in 1 .. n : w[k + a] = s[k]

LEMMA BytesThere ==
  ASSUME NEW o, NEW i, NEW v, NEW l, Sees(o, i, v, l), NEW s, NEW n, NEW a, Holds(i, l, s, n, a)
  PROVE  Doc!Bytes(v + a, n) = s
<1> PICK w : w = Doc!ValueOf(put[i]) /\ \A k \in 1 .. n : w[k + a] = s[k]
  BY DEF Holds
<1>0. s \in Seq(Nat) /\ n \in Nat /\ a \in Nat /\ n = Len(s) /\ a + n <= l
  BY DEF Holds
<1>1. v \in Nat /\ l \in Nat /\ \A k \in 1 .. l : mem[v + k] = w[k]
  BY DEF Sees
<1>2. PICK p \in Nat : p = v + a
  BY <1>0, <1>1
<1>3. ASSUME NEW k \in 1 .. n PROVE mem[p + k] = s[k]
  <2>1. k + a \in 1 .. l /\ v + (k + a) = p + k
    BY <1>0, <1>1, <1>2
  <2> QED BY <1>1, <2>1, Zenon
<1>4. SubSeq(mem, p + 1, p + n) = s
  <2>1. s \in Seq(Nat) /\ Len(s) = n /\ \A k \in 1 .. n : mem[p + k] = s[k]
    BY <1>0, <1>3, Zenon
  <2> QED BY <1>0, <1>2, <2>1, BytesRead, SMTT(40)
<1> QED BY <1>2, <1>4 DEF Doc!Bytes

LEMMA StringDoes ==
  ASSUME NEW o, NEW i, AtElement(o, i), NEW v, NEW l, Sees(o, i, v, l), put[i].id = 2,
         UNCHANGED <<mem, len, size, put, key>>, Doc!FindString
  PROVE  Found(o)
<1>1. /\ put \in Seq(Elements) /\ put[i] \in Elements /\ i \in 1 .. Len(put) /\ len \in Nat /\ DocTyped
      /\ phase = "find" /\ Behind(i) /\ \A j \in 1 .. i - 1 : ~Same(j)
  BY SeesIt DEF AtElement, DocTyped, Behind
<1>2. PICK s, n : /\ s = put[i].val /\ n = Len(s) /\ s \in Seq(Nat) /\ n \in Nat
                  /\ Doc!ValueOf(put[i])[1] = n + 1 /\ Doc!ValueOf(put[i])[2] = 0
                  /\ Doc!ValueOf(put[i])[3] = 0 /\ Doc!ValueOf(put[i])[4] = 0
                  /\ \A k \in 1 .. n : Doc!ValueOf(put[i])[k + 4] = s[k]
                  /\ Len(Doc!ValueOf(put[i])) = n + 5
  <2>1. Doc!FlatElement(put[i]) /\ Doc!ValueOf(put[i]) = Doc!Value(put[i])
    BY <1>1, ValueIs
  <2>2. PICK s, n : s = put[i].val /\ n = Len(s)
    OBVIOUS
  <2>3. s \in Seq(Nat) /\ n \in Nat
    BY <2>1, <2>2, FlatValue, Zenon
  <2>4. PICK w : w = Doc!Value(put[i])
    OBVIOUS
  <2>5. /\ Len(w) = n + 5 /\ w[1] = n + 1 /\ w[2] = 0 /\ w[3] = 0 /\ w[4] = 0
        /\ \A k \in 1 .. n : w[k + 4] = s[k]
    BY <2>1, <2>2, <2>4, FlatValue, ZenonT(60)
  <2>6. w = Doc!ValueOf(put[i])
    BY <2>1, <2>4, Zenon
  <2> QED BY <2>2, <2>3, <2>5, <2>6, Zenon
<1>3. /\ v \in Nat /\ l \in Nat /\ v > 0 /\ v = Doc!ValueAt /\ v + l < len /\ (Doc!KeyFound <=> Same(i))
      /\ v + l = o[i + 1] /\ l = n + 5
  BY <1>2, Zenon DEF Sees
<1>4. /\ 4 <= l /\ 4 \in Nat /\ 4 + n <= l /\ ~(len < v + 4) /\ n + 1 \in Nat /\ n + 1 - 1 = n
      /\ v + 4 + (n + 1) = v + l /\ ~(len < v + l)
  <2>1. v \in Nat /\ l \in Nat /\ v + l < len /\ l = n + 5 /\ n \in Nat /\ len \in Nat
    BY <1>1, <1>2, <1>3, Zenon
  <2> QED BY <2>1
<1>5. Doc!NumberAt(v) = n + 1 /\ Doc!Bytes(v + 4, n) = s
  <2>1. PICK w : w = Doc!ValueOf(put[i]) /\ w[1] = n + 1 /\ w[2] = 0 /\ w[3] = 0 /\ w[4] = 0
    BY <1>2, Zenon
  <2>2. Doc!NumberAt(v) = n + 1
    BY <1>2, <1>4, <2>1, NumberThere
  <2>3. /\ s \in Seq(Nat) /\ n \in Nat /\ 4 \in Nat /\ n = Len(s) /\ 4 + n <= l
        /\ w = Doc!ValueOf(put[i]) /\ \A k \in 1 .. n : w[k + 4] = s[k]
    BY <1>2, <1>4, <2>1, Zenon
  <2>4. Doc!Bytes(v + 4, n) = s
    <3>1. Holds(i, l, s, n, 4)
      BY <2>3, Zenon DEF Holds
    <3> QED BY <3>1, BytesThere
  <2> QED BY <2>2, <2>4
<1>6. CASE Same(i)
  <2>1. Doc!Return(v + l, [id |-> 2, val |-> IF "str" \in clobbered THEN <<>> ELSE s])
    <3>1. /\ ~(len < Doc!ValueAt + 4) /\ Doc!KeyFound
          /\ ~(len < Doc!ValueAt + 4 + Doc!NumberAt(Doc!ValueAt))
      BY <1>3, <1>4, <1>5, <1>6, Zenon
    <3>2. Doc!Return(Doc!ValueAt + 4 + Doc!NumberAt(Doc!ValueAt),
                     [id |-> Doc!ID_STRING,
                      val |-> IF "str" \in clobbered THEN <<>>
                              ELSE Doc!Bytes(Doc!ValueAt + 4, Doc!NumberAt(Doc!ValueAt) - 1)])
      BY <3>1, Zenon DEF Doc!FindString
    <3>3. /\ Doc!NumberAt(Doc!ValueAt) - 1 = n /\ Doc!ValueAt + 4 + Doc!NumberAt(Doc!ValueAt) = v + l
          /\ Doc!Bytes(Doc!ValueAt + 4, n) = s
      <4>1. /\ v = Doc!ValueAt /\ Doc!NumberAt(v) = n + 1 /\ Doc!Bytes(v + 4, n) = s /\ n + 1 - 1 = n
            /\ v + 4 + (n + 1) = v + l
        BY <1>3, <1>4, <1>5, Zenon
      <4>2. Doc!NumberAt(Doc!ValueAt) = n + 1 /\ Doc!Bytes(Doc!ValueAt + 4, n) = s
        BY <4>1, Zenon
      <4>3. Doc!NumberAt(Doc!ValueAt) - 1 = n
        <5>1. n \in Nat /\ Doc!NumberAt(Doc!ValueAt) = n + 1
          BY <1>2, <4>2, Zenon
        <5> QED BY <5>1
      <4>4. Doc!ValueAt + 4 + Doc!NumberAt(Doc!ValueAt) = v + l
        BY <4>1, <4>2, Zenon
      <4> QED BY <4>2, <4>3, <4>4
    <3>4. Doc!Bytes(Doc!ValueAt + 4, Doc!NumberAt(Doc!ValueAt) - 1) = s
      BY <3>3, Zenon
    <3> QED BY <3>2, <3>3, <3>4, Zenon DEF Doc!ID_STRING
  <2>2. phase' = "done" /\ findRc' = v + l /\ found' = [id |-> 2, val |-> IF "str" \in clobbered THEN <<>> ELSE s]
    BY <2>1, Zenon DEF Doc!Return
  <2>3. ASSUME Doc!Intact(i) PROVE "str" \notin clobbered
    BY <1>1, <2>3 DEF Doc!Intact, Behind, Doc!ID_STRING, Doc!ID_BINARY
  <2>4. findRc' > 0
    BY <1>3, <2>2
  <2>5. Doc!Given(put[i]) = s
    BY <1>2 DEF Doc!Given, Doc!ID_EMBEDED_DOCUMENT
  <2>6. Doc!Intact(i) => found' = [id |-> put[i].id, val |-> Doc!Given(put[i])]
    BY <2>2, <2>3, <2>5, Zenon
  <2>7. FindsWhatWasPut'
    BY <1>1, <1>6, <2>4, <2>6, Answered
  <2> QED BY <2>2, <2>7 DEF Found
<1>7. CASE ~Same(i)
  <2>1. Doc!GoOn(v + l) /\ clobbered' = clobbered
    BY <1>3, <1>4, <1>5, <1>7, Zenon DEF Doc!FindString
  <2>2. pos' = o[i + 1] /\ phase' = "find"
    BY <1>1, <1>3, <2>1 DEF Doc!GoOn
  <2>3. OnTrack(o)'
    <3>1. put[i].id \notin {1, 3} /\ UNCHANGED <<put, key>>
      OBVIOUS
    <3> QED BY <1>1, <1>7, <2>1, <2>2, <3>1, Passed
  <2>4. FindsWhatWasPut'
    BY <2>2 DEF FindsWhatWasPut, Doc!FindsWhatWasPut
  <2> QED BY <2>3, <2>4 DEF Found
<1> QED BY <1>6, <1>7

LEMMA BinaryDoes ==
  ASSUME NEW o, NEW i, AtElement(o, i), NEW v, NEW l, Sees(o, i, v, l), put[i].id = 5,
         UNCHANGED <<mem, len, size, put, key>>, Doc!FindBinary
  PROVE  Found(o)
<1>1. /\ put \in Seq(Elements) /\ put[i] \in Elements /\ i \in 1 .. Len(put) /\ len \in Nat /\ DocTyped
      /\ phase = "find" /\ Behind(i) /\ \A j \in 1 .. i - 1 : ~Same(j)
  BY SeesIt DEF AtElement, DocTyped, Behind
<1>2. PICK s, n : /\ s = put[i].val /\ n = Len(s) /\ s \in Seq(Nat) /\ n \in Nat
                  /\ Doc!ValueOf(put[i])[1] = n /\ Doc!ValueOf(put[i])[2] = 0
                  /\ Doc!ValueOf(put[i])[3] = 0 /\ Doc!ValueOf(put[i])[4] = 0
                  /\ \A k \in 1 .. n : Doc!ValueOf(put[i])[k + 5] = s[k]
                  /\ Len(Doc!ValueOf(put[i])) = n + 5
  <2>1. Doc!FlatElement(put[i]) /\ Doc!ValueOf(put[i]) = Doc!Value(put[i])
    BY <1>1, ValueIs
  <2>2. PICK s, n : s = put[i].val /\ n = Len(s)
    OBVIOUS
  <2>3. s \in Seq(Nat) /\ n \in Nat
    BY <2>1, <2>2, FlatValue, Zenon
  <2>4. PICK w : w = Doc!Value(put[i])
    OBVIOUS
  <2>5. /\ Len(w) = n + 5 /\ w[1] = n /\ w[2] = 0 /\ w[3] = 0 /\ w[4] = 0
        /\ \A k \in 1 .. n : w[k + 5] = s[k]
    BY <2>1, <2>2, <2>4, FlatValue, ZenonT(60)
  <2>6. w = Doc!ValueOf(put[i])
    BY <2>1, <2>4, Zenon
  <2> QED BY <2>2, <2>3, <2>5, <2>6, Zenon
<1>3. /\ v \in Nat /\ l \in Nat /\ v > 0 /\ v = Doc!ValueAt /\ v + l < len /\ (Doc!KeyFound <=> Same(i))
      /\ v + l = o[i + 1] /\ l = n + 5
  BY <1>2, Zenon DEF Sees
<1>4. /\ 4 <= l /\ 5 \in Nat /\ 5 + n <= l /\ ~(len < v + 5) /\ n + 1 \in Nat /\ n + 1 - 1 = n
      /\ v + 5 + n = v + l /\ ~(len < v + l)
  <2>1. v \in Nat /\ l \in Nat /\ v + l < len /\ l = n + 5 /\ n \in Nat /\ len \in Nat
    BY <1>1, <1>2, <1>3, Zenon
  <2> QED BY <2>1
<1>5. Doc!NumberAt(v) = n /\ Doc!Bytes(v + 5, n) = s
  <2>1. PICK w : w = Doc!ValueOf(put[i]) /\ w[1] = n /\ w[2] = 0 /\ w[3] = 0 /\ w[4] = 0
    BY <1>2, Zenon
  <2>2. Doc!NumberAt(v) = n
    <3>1. 4 <= l /\ n \in Nat
      BY <1>2, <1>4
    <3> QED BY <2>1, <3>1, NumberThere
  <2>3. /\ s \in Seq(Nat) /\ n \in Nat /\ 5 \in Nat /\ n = Len(s) /\ 5 + n <= l
        /\ w = Doc!ValueOf(put[i]) /\ \A k \in 1 .. n : w[k + 5] = s[k]
    BY <1>2, <1>4, <2>1, Zenon
  <2>4. Doc!Bytes(v + 5, n) = s
    <3>1. Holds(i, l, s, n, 5)
      BY <2>3, Zenon DEF Holds
    <3> QED BY <3>1, BytesThere
  <2> QED BY <2>2, <2>4
<1>6. CASE Same(i)
  <2>1. Doc!Return(v + l, [id |-> 5, val |-> s])
    BY <1>1, <1>3, <1>4, <1>5, <1>6, Zenon DEF Doc!FindBinary, Doc!ID_BINARY, Behind
  <2>2. phase' = "done" /\ findRc' = v + l /\ found' = [id |-> 5, val |-> s]
    BY <2>1, Zenon DEF Doc!Return
  <2>4. findRc' > 0
    BY <1>3, <2>2
  <2>5. Doc!Given(put[i]) = s
    BY <1>2 DEF Doc!Given, Doc!ID_EMBEDED_DOCUMENT
  <2>6. found' = [id |-> put[i].id, val |-> Doc!Given(put[i])]
    BY <2>2, <2>5, Zenon
  <2>7. FindsWhatWasPut'
    BY <1>1, <1>6, <2>4, <2>6, Answered
  <2> QED BY <2>2, <2>7 DEF Found
<1>7. CASE ~Same(i)
  <2>1. Doc!GoOn(v + l) /\ clobbered' = clobbered \cup {"str"}
    BY <1>3, <1>4, <1>5, <1>7, Zenon DEF Doc!FindBinary
  <2>2. pos' = o[i + 1] /\ phase' = "find"
    BY <1>1, <1>3, <2>1 DEF Doc!GoOn
  <2>3. OnTrack(o)'
    <3>1. put[i].id \notin {1, 3} /\ UNCHANGED <<put, key>>
      OBVIOUS
    <3> QED BY <1>1, <1>7, <2>1, <2>2, <3>1, Passed
  <2>4. FindsWhatWasPut'
    BY <2>2 DEF FindsWhatWasPut, Doc!FindsWhatWasPut
  <2> QED BY <2>3, <2>4 DEF Found
<1> QED BY <1>6, <1>7

\* An element that find_key cannot read past, with another key.
LEMMA StraysAt ==
  ASSUME NEW o, NEW i, AtElement(o, i), ~Same(i), put[i].id \in {1, 3}
  PROVE  Astray
<1>1. i \in 1 .. Len(put) /\ \A j \in 1 .. i - 1 : ~Same(j)
  BY DEF AtElement, Behind
<1>2. \A j \in 1 .. i : ~Same(j)
  <2> TAKE j \in 1 .. i
  <2>1. j = i \/ j \in 1 .. i - 1
    BY <1>1
  <2> QED BY <1>1, <2>1
<1> QED BY <1>1, <1>2 DEF Astray

LEMMA DocumentDoes ==
  ASSUME NEW o, NEW i, AtElement(o, i), NEW v, NEW l, Sees(o, i, v, l), put[i].id = 3,
         UNCHANGED <<mem, len, size, put, key>>, Doc!FindDocument
  PROVE  Found(o)
<1>1. /\ put \in Seq(Elements) /\ put[i] \in Elements /\ i \in 1 .. Len(put) /\ len \in Nat
      /\ \A j \in 1 .. i - 1 : ~Same(j)
  BY SeesIt DEF AtElement, DocTyped, Behind
<1>2. PICK s : /\ s = Doc!ValueOf(put[i]) /\ s \in Seq(Nat) /\ 4 <= Len(s) /\ s[1] = Len(s)
               /\ s[2] = 0 /\ s[3] = 0 /\ s[4] = 0
  BY <1>1, ValueIs
<1>3. /\ v \in Nat /\ l \in Nat /\ v > 0 /\ v = Doc!ValueAt /\ v + l < len /\ (Doc!KeyFound <=> Same(i))
      /\ l = Len(s)
  BY <1>2 DEF Sees
<1>4. /\ 4 <= l /\ 0 \in Nat /\ 0 + l <= l /\ ~(len < v + 4) /\ v + 0 = v
      /\ \A k \in 1 .. l : k + 0 = k
  <2>1. v \in Nat /\ l \in Nat /\ v + l < len /\ 4 <= l /\ len \in Nat
    BY <1>1, <1>2, <1>3, Zenon
  <2> QED BY <2>1
<1>5. Doc!NumberAt(v) = l /\ Doc!Bytes(v, l) = s
  <2>1. s = Doc!ValueOf(put[i]) /\ s[1] = l /\ s[2] = 0 /\ s[3] = 0 /\ s[4] = 0 /\ l \in Nat
    BY <1>2, <1>3, Zenon
  <2>2. Doc!NumberAt(v) = l
    BY <1>4, <2>1, NumberThere
  <2>3. /\ s \in Seq(Nat) /\ l = Len(s) /\ l \in Nat /\ 0 \in Nat /\ 0 + l <= l
        /\ s = Doc!ValueOf(put[i]) /\ \A k \in 1 .. l : s[k + 0] = s[k]
    BY <1>2, <1>3, <1>4, Zenon
  <2>4. Doc!Bytes(v + 0, l) = s
    <3>1. Holds(i, l, s, l, 0)
      BY <2>3, Zenon DEF Holds
    <3> QED BY <3>1, BytesThere
  <2> QED BY <1>4, <2>2, <2>4
<1>6. CASE Same(i)
  <2>1. Doc!Return(v + 4 + l, [id |-> 3, val |-> s])
    BY <1>3, <1>4, <1>5, <1>6, Zenon DEF Doc!FindDocument, Doc!ID_EMBEDED_DOCUMENT
  <2>2. phase' = "done" /\ findRc' = v + 4 + l /\ found' = [id |-> 3, val |-> s]
    BY <2>1, Zenon DEF Doc!Return
  <2>4. findRc' > 0
    BY <1>3, <2>2
  <2>5. Doc!Given(put[i]) = s
    BY <1>2 DEF Doc!Given, Doc!ID_EMBEDED_DOCUMENT
  <2>6. found' = [id |-> put[i].id, val |-> Doc!Given(put[i])]
    BY <2>2, <2>5, Zenon
  <2>7. FindsWhatWasPut'
    BY <1>1, <1>6, <2>4, <2>6, Answered
  <2> QED BY <2>2, <2>7 DEF Found
<1>7. CASE ~Same(i)
  <2>1. Astray
    BY <1>7, StraysAt
  <2>2. UNCHANGED <<put, key>>
    OBVIOUS
  <2>3. FindsWhatWasPut' /\ Astray'
    BY <1>1, <2>1, <2>2, AnyAnswer
  <2> QED BY <2>3 DEF Found
<1> QED BY <1>6, <1>7

LEMMA ElementLooked ==
  ASSUME NEW o, NEW i, AtElement(o, i), Doc!Look
  PROVE  Found(o)
<1>1. put[i] \in Elements /\ i \in 1 .. Len(put) /\ put \in Seq(Elements)
      /\ \A j \in 1 .. i - 1 : ~Same(j)
  BY SeesIt DEF AtElement, DocTyped, Behind
<1>2. PICK v, l : Sees(o, i, v, l)
  BY SeesIt
<1>3. /\ v = Doc!ValueAt /\ mem[pos + 1] = put[i].id /\ len > pos /\ size > pos /\ ~(len < Doc!ValueAt)
      /\ l = Len(Doc!ValueOf(put[i]))
  <2>1. len \in Nat /\ v \in Nat /\ l \in Nat /\ v + l < len
    BY <1>2 DEF Sees, AtElement, DocTyped
  <2>2. v = Doc!ValueAt /\ mem[pos + 1] = put[i].id /\ len > pos /\ size > pos /\ l = Len(Doc!ValueOf(put[i]))
    BY <1>2 DEF Sees
  <2>3. ~(len < v)
    BY <2>1
  <2> QED BY <2>2, <2>3
<1>4. /\ UNCHANGED <<mem, len, size, put, key>>
      /\ CASE put[i].id = Doc!ID_STRING -> Doc!FindString
           [] put[i].id = Doc!ID_BINARY -> Doc!FindBinary
           [] put[i].id = Doc!ID_EMBEDED_DOCUMENT -> Doc!FindDocument
           [] put[i].id \in Doc!Empty \cup {Doc!ID_ARRAY} -> Doc!Take(Doc!ValueAt, 0, put[i].id)
           [] put[i].id = Doc!ID_BOOL -> Doc!Take(Doc!ValueAt, 1, put[i].id)
           [] put[i].id = Doc!ID_32_INTEGER -> Doc!Take(Doc!ValueAt, 4, put[i].id)
           [] put[i].id \in Doc!Long -> Doc!Take(Doc!ValueAt, 8, put[i].id)
           [] OTHER -> Doc!Return(-Doc!ValueAt, found)
  BY <1>3 DEF Doc!Look
<1> DEFINE d == put[i].id
<1>5. d = 2 => Doc!FindString
  BY <1>4 DEF Doc!ID_STRING, Doc!ID_BINARY, Doc!ID_EMBEDED_DOCUMENT, Doc!Empty, Doc!ID_NULL_VALUE, Doc!ID_ARRAY,
              Doc!ID_BOOL, Doc!ID_32_INTEGER, Doc!Long, Doc!ID_64_INTEGER
<1>6. d = 5 => Doc!FindBinary
  BY <1>4 DEF Doc!ID_STRING, Doc!ID_BINARY, Doc!ID_EMBEDED_DOCUMENT, Doc!Empty, Doc!ID_NULL_VALUE, Doc!ID_ARRAY,
              Doc!ID_BOOL, Doc!ID_32_INTEGER, Doc!Long, Doc!ID_64_INTEGER
<1>7. d = 3 => Doc!FindDocument
  BY <1>4 DEF Doc!ID_STRING, Doc!ID_BINARY, Doc!ID_EMBEDED_DOCUMENT, Doc!Empty, Doc!ID_NULL_VALUE, Doc!ID_ARRAY,
              Doc!ID_BOOL, Doc!ID_32_INTEGER, Doc!Long, Doc!ID_64_INTEGER
<1>8. d = 1 => Doc!Return(-Doc!ValueAt, found)
  BY <1>4 DEF Doc!ID_STRING, Doc!ID_BINARY, Doc!ID_EMBEDED_DOCUMENT, Doc!Empty, Doc!ID_NULL_VALUE, Doc!ID_ARRAY,
              Doc!ID_BOOL, Doc!ID_32_INTEGER, Doc!Long, Doc!ID_64_INTEGER
<1>9. ASSUME d \notin {1, 2, 3, 5} PROVE Doc!Take(v, l, d)
  <2>1. Doc!FlatElement(put[i]) /\ d \notin {0, 4}
    BY <1>1, <1>9, ValueIs
  <2>2. l = Doc!ValueLen(d) /\ d \in Doc!Empty \cup Doc!Long \cup {8, 16}
    <3>1. Doc!ValueOf(put[i]) = Doc!Value(put[i])
      BY <1>1, <1>9, ValueIs
    <3>2. Doc!Value(put[i]) = put[i].val /\ d \in Doc!Empty \cup Doc!Long \cup {1, 8, 16} /\ Len(put[i].val) = Doc!ValueLen(d)
      BY <2>1, <1>9, FlatValue
    <3> QED BY <1>3, <1>9, <3>1, <3>2
  <2>3. CASE d \in Doc!Empty
    <3>1. l = 0
      BY <2>2, <2>3 DEF Doc!ValueLen, Doc!Empty, Doc!Long, Doc!ID_BOOL, Doc!ID_32_INTEGER, Doc!ID_DOUBLE,
                        Doc!ID_NULL_VALUE, Doc!ID_64_INTEGER
    <3>2. Doc!Take(Doc!ValueAt, 0, d)
      BY <1>4, <2>3 DEF Doc!ID_STRING, Doc!ID_BINARY, Doc!ID_EMBEDED_DOCUMENT, Doc!Empty, Doc!ID_NULL_VALUE,
                        Doc!ID_ARRAY, Doc!ID_BOOL, Doc!ID_32_INTEGER, Doc!Long, Doc!ID_64_INTEGER
    <3> QED BY <1>3, <3>1, <3>2
  <2>4. CASE d = 8
    <3>1. l = 1
      BY <2>2, <2>4 DEF Doc!ValueLen, Doc!Empty, Doc!Long, Doc!ID_BOOL, Doc!ID_32_INTEGER, Doc!ID_DOUBLE,
                        Doc!ID_NULL_VALUE, Doc!ID_64_INTEGER
    <3>2. Doc!Take(Doc!ValueAt, 1, d)
      BY <1>4, <2>4 DEF Doc!ID_STRING, Doc!ID_BINARY, Doc!ID_EMBEDED_DOCUMENT, Doc!Empty, Doc!ID_NULL_VALUE,
                        Doc!ID_ARRAY, Doc!ID_BOOL, Doc!ID_32_INTEGER, Doc!Long, Doc!ID_64_INTEGER
    <3> QED BY <1>3, <3>1, <3>2
  <2>5. CASE d = 16
    <3>1. l = 4
      BY <2>2, <2>5 DEF Doc!ValueLen, Doc!Empty, Doc!Long, Doc!ID_BOOL, Doc!ID_32_INTEGER, Doc!ID_DOUBLE,
                        Doc!ID_NULL_VALUE, Doc!ID_64_INTEGER
    <3>2. Doc!Take(Doc!ValueAt, 4, d)
      BY <1>4, <2>5 DEF Doc!ID_STRING, Doc!ID_BINARY, Doc!ID_EMBEDED_DOCUMENT, Doc!Empty, Doc!ID_NULL_VALUE,
                        Doc!ID_ARRAY, Doc!ID_BOOL, Doc!ID_32_INTEGER, Doc!Long, Doc!ID_64_INTEGER
    <3> QED BY <1>3, <3>1, <3>2
  <2>6. CASE d \in Doc!Long
    <3>1. l = 8
      BY <2>2, <2>6 DEF Doc!ValueLen, Doc!Empty, Doc!Long, Doc!ID_BOOL, Doc!ID_32_INTEGER, Doc!ID_DOUBLE,
                        Doc!ID_NULL_VALUE, Doc!ID_64_INTEGER
    <3>2. Doc!Take(Doc!ValueAt, 8, d)
      BY <1>4, <2>6 DEF Doc!ID_STRING, Doc!ID_BINARY, Doc!ID_EMBEDED_DOCUMENT, Doc!Empty, Doc!ID_NULL_VALUE,
                        Doc!ID_ARRAY, Doc!ID_BOOL, Doc!ID_32_INTEGER, Doc!Long, Doc!ID_64_INTEGER
    <3> QED BY <1>3, <3>1, <3>2
  <2> QED BY <2>2, <2>3, <2>4, <2>5, <2>6
<1>10. CASE d = 2
  BY <1>2, <1>4, <1>5, <1>10, StringDoes
<1>11. CASE d = 5
  BY <1>2, <1>4, <1>6, <1>11, BinaryDoes
<1>12. CASE d = 3
  BY <1>2, <1>4, <1>7, <1>12, DocumentDoes
<1>13. CASE d \notin {1, 2, 3, 5}
  BY <1>2, <1>4, <1>9, <1>13, TakeDoes
<1>14. CASE d = 1
  <2>1. phase' = "done" /\ UNCHANGED <<put, key>>
    BY <1>4, <1>8, <1>14 DEF Doc!Return
  <2>2. CASE Same(i)
    <3>1. ~(put[i].id # 1 /\ Doc!Intact(i))
      BY <1>14
    <3>2. FindsWhatWasPut'
      BY <1>1, <2>1, <2>2, <3>1, Answered
    <3> QED BY <2>1, <3>2 DEF Found
  <2>3. CASE ~Same(i)
    <3>1. Astray
      BY <1>14, <2>3, StraysAt
    <3>2. FindsWhatWasPut'
      BY <1>1, <2>1, <3>1, AnyAnswer
    <3> QED BY <2>1, <3>2 DEF Found
  <2> QED BY <2>2, <2>3
<1> QED BY <1>10, <1>11, <1>12, <1>13, <1>14

\* Behind the last element there is a zero.
LEMMA EndLooked ==
  ASSUME DocTyped, size <= len, mem[size] = 0, pos = size - 1, Doc!Look,
         \A j \in 1 .. Len(put) : ~Same(j)
  PROVE  FindsWhatWasPut' /\ phase' = "done"
<1>1. size \in Nat /\ len \in Nat /\ 4 <= size /\ pos \in Nat /\ Doc!KeyLen \in Nat /\ put \in Seq(Elements)
  BY KeyLenIs DEF DocTyped
<1>2. len > pos /\ size > pos /\ pos + 1 = size
  BY <1>1
<1>3. UNCHANGED <<put, key>> /\ Doc!Return(-Doc!ValueAt, found)
  <2>1. mem[pos + 1] = 0
    BY <1>2
  <2>2. CASE len < Doc!ValueAt
    BY <1>2, <2>2 DEF Doc!Look
  <2>3. CASE ~(len < Doc!ValueAt)
    <3>1. mem[pos + 1] \notin {2, 5, 3, 10, 6, 127, 255, 4, 8, 16, 18, 9, 17}
      BY <2>1
    <3> QED BY <1>2, <2>3, <3>1 DEF Doc!Look, Doc!ID_STRING, Doc!ID_BINARY, Doc!ID_EMBEDED_DOCUMENT, Doc!Empty,
              Doc!ID_NULL_VALUE, Doc!ID_ARRAY, Doc!ID_BOOL, Doc!ID_32_INTEGER, Doc!Long, Doc!ID_64_INTEGER
  <2> QED BY <2>2, <2>3
<1>4. phase' = "done" /\ findRc' = -Doc!ValueAt
  BY <1>3 DEF Doc!Return
<1>5. findRc' < 0
  <2>1. Doc!ValueAt = pos + Doc!KeyLen + 2
    BY DEF Doc!ValueAt
  <2> QED BY <1>1, <1>4, <2>1
<1> QED BY <1>1, <1>3, <1>4, <1>5, NotThere

LEMMA LookTyped ==
  ASSUME DocTyped, Doc!Look
  PROVE  DocTyped'
<1>1. /\ UNCHANGED <<mem, len, size, put, key>> /\ phase = "find" /\ pos \in Nat /\ len \in Nat
      /\ mem \in [1 .. len + Doc!Room -> Nat] /\ Doc!ValueAt \in Nat /\ Doc!Room \in Nat
  <2>1. Doc!KeyLen \in Nat /\ Doc!Room \in Nat
    BY KeyLenIs, DocConstants
  <2> QED BY <2>1 DEF Doc!Look, DocTyped, Doc!ValueAt
<1>2. len >= Doc!ValueAt + 4 => Doc!NumberAt(Doc!ValueAt) \in Nat
  <2> SUFFICES ASSUME len >= Doc!ValueAt + 4 PROVE Doc!NumberAt(Doc!ValueAt) \in Nat
    OBVIOUS
  <2>1. PICK v \in Nat : v = Doc!ValueAt
    BY <1>1
  <2>2. mem[v + 1] \in Nat /\ mem[v + 2] \in Nat /\ mem[v + 3] \in Nat /\ mem[v + 4] \in Nat
    BY <1>1, <2>1
  <2>3. Doc!NumberAt(v) \in Nat
    BY <2>2 DEF Doc!NumberAt
  <2> QED BY <2>1, <2>3, Zenon
<1>3. \/ \E r \in Int : \E e : Doc!Return(r, e)
      \/ \E p \in Nat : Doc!GoOn(p)
  <2>1. ASSUME NEW w \in Nat, NEW d, Doc!Take(Doc!ValueAt, w, d)
        PROVE  (\E r \in Int : \E e : Doc!Return(r, e)) \/ (\E p \in Nat : Doc!GoOn(p))
    <3>1. -Doc!ValueAt \in Int /\ Doc!ValueAt + w \in Nat /\ Doc!ValueAt + w \in Int
      BY <1>1
    <3> QED BY <2>1, <3>1, Zenon DEF Doc!Take
  <2>2. ASSUME NEW b \in Nat
        PROVE  len >= Doc!ValueAt + 4 => /\ Doc!ValueAt + b + Doc!NumberAt(Doc!ValueAt) \in Nat
                                         /\ Doc!ValueAt + b + Doc!NumberAt(Doc!ValueAt) \in Int
    BY <1>1, <1>2
  <2>3. /\ -Doc!ValueAt \in Int /\ -Doc!ValueAt - 4 \in Int /\ -Doc!ValueAt - 5 \in Int /\ pos \in Int
        /\ 4 \in Nat /\ 5 \in Nat /\ 0 \in Nat /\ 1 \in Nat /\ 8 \in Nat
        /\ (len < Doc!ValueAt + 4) \/ len >= Doc!ValueAt + 4
        /\ (len < Doc!ValueAt + 5) \/ len >= Doc!ValueAt + 4
    BY <1>1
  <2>4. ASSUME Doc!FindString
        PROVE  (\E r \in Int : \E e : Doc!Return(r, e)) \/ (\E p \in Nat : Doc!GoOn(p))
    BY <2>2, <2>3, <2>4, Zenon DEF Doc!FindString
  <2>5. ASSUME Doc!FindBinary
        PROVE  (\E r \in Int : \E e : Doc!Return(r, e)) \/ (\E p \in Nat : Doc!GoOn(p))
    BY <2>2, <2>3, <2>5, Zenon DEF Doc!FindBinary
  <2>6. ASSUME Doc!FindDocument
        PROVE  (\E r \in Int : \E e : Doc!Return(r, e)) \/ (\E p \in Nat : Doc!GoOn(p))
    BY <2>2, <2>3, <2>6, Zenon DEF Doc!FindDocument
  <2>7. \/ Doc!Return(pos, found) \/ Doc!Return(-Doc!ValueAt, found)
        \/ Doc!FindString \/ Doc!FindBinary \/ Doc!FindDocument
        \/ \E w \in Nat : \E d : Doc!Take(Doc!ValueAt, w, d)
    BY <2>3 DEF Doc!Look
  <2> QED BY <2>1, <2>3, <2>4, <2>5, <2>6, <2>7, Zenon
<1>4. phase' \in {"done", "find"} /\ pos' \in Nat /\ findRc' \in Int
  <2>1. findRc \in Int
    BY DEF DocTyped
  <2> QED BY <1>1, <1>3, <2>1 DEF Doc!Return, Doc!GoOn
<1> QED BY <1>1, <1>4 DEF DocTyped

LEMMA LookKeeps == ASSUME DocInv, Doc!Look PROVE DocInv'
<1>1. /\ DocTyped /\ DocTyped' /\ UNCHANGED <<mem, len, size, put, key>> /\ phase = "find"
      /\ put \in Seq(Elements)
  <2>1. DocTyped /\ DocTyped'
    BY LookTyped DEF DocInv
  <2> QED BY <2>1 DEF Doc!Look, DocTyped
<1>2. phase' \in {"done", "find"}
  <2>1. phase' = "find" \/ phase' = "done"
    BY DEF Doc!Look, Doc!Return, Doc!GoOn, Doc!Take, Doc!FindString, Doc!FindBinary, Doc!FindDocument
  <2> QED BY <2>1
<1>3. DocLaid'
  BY <1>1, <1>2 DEF DocInv, DocLaid
<1>4. CASE size <= len
  <2>1. Astray \/ \E o : Laid(o, put, mem, size - 1) /\ OnTrack(o)
    BY <1>1, <1>4 DEF DocInv
  <2>2. CASE Astray
    <3>1. FindsWhatWasPut' /\ Astray'
      BY <1>1, <2>2, AnyAnswer
    <3> QED BY <1>1, <1>3, <3>1 DEF DocInv
  <2>3. ASSUME NEW o, Laid(o, put, mem, size - 1), OnTrack(o)
        PROVE  DocInv'
    <3>1. PICK i \in 1 .. Len(put) + 1 : pos = o[i] /\ Behind(i)
      BY <2>3 DEF OnTrack
    <3>2. mem[size] = 0
      BY <1>1 DEF DocInv, DocLaid
    <3>3. CASE i \in 1 .. Len(put)
      <4>1. AtElement(o, i)
        BY <1>1, <1>4, <2>3, <3>1, <3>2, <3>3 DEF AtElement
      <4>2. Found(o)
        BY <4>1, ElementLooked
      <4>3. Laid(o, put, mem, size - 1)'
        BY <1>1, <2>3 DEF Laid, Stands
      <4>4. phase' = "find" => Astray' \/ (Laid(o, put, mem, size - 1)' /\ OnTrack(o)')
        BY <4>2, <4>3 DEF Found
      <4> QED BY <1>1, <1>3, <4>2, <4>4 DEF DocInv, Found
    <3>4. CASE i \notin 1 .. Len(put)
      <4>1. i = Len(put) + 1 /\ i - 1 = Len(put)
        BY <1>1, <3>4
      <4>2. pos = size - 1 /\ \A j \in 1 .. Len(put) : ~Same(j)
        BY <2>3, <3>1, <4>1 DEF Laid, Behind
      <4>3. FindsWhatWasPut' /\ phase' = "done"
        BY <1>1, <1>4, <3>2, <4>2, EndLooked
      <4> QED BY <1>1, <1>3, <4>3 DEF DocInv
    <3> QED BY <3>3, <3>4
  <2> QED BY <2>1, <2>2, <2>3
<1>5. CASE ~(size <= len)
  <2>1. ~(size' <= len')
    BY <1>1, <1>5
  <2>2. FindsWhatWasPut'
    BY <2>1 DEF FindsWhatWasPut, Doc!FindsWhatWasPut
  <2> QED BY <1>1, <1>3, <2>1, <2>2 DEF DocInv
<1> QED BY <1>4, <1>5

LEMMA FindBegins == ASSUME DocInv, Doc!find_key PROVE DocInv'
<1>1. /\ UNCHANGED <<mem, len, size, put>> /\ phase = "done" /\ phase' = "find" /\ pos' = 4 /\ findRc' = 0
      /\ clobbered' = {} /\ DocTyped
  BY DEF Doc!find_key, DocInv
<1>2. DocTyped'
  <2>1. 4 \in Nat /\ 0 \in Int
    OBVIOUS
  <2> QED BY <1>1, <2>1 DEF DocTyped
<1>3. DocLaid'
  BY <1>1 DEF DocInv, DocLaid
<1>4. PICK o : Laid(o, put, mem, size - 1)
  BY <1>1 DEF DocInv, DocLaid
<1>5. OnTrack(o)'
  <2>1. 1 \in 1 .. Len(put) + 1 /\ o[1] = 4 /\ \A j : j \notin 1 .. 1 - 1
    BY <1>1, <1>4 DEF Laid, DocTyped
  <2>2. 1 \in 1 .. Len(put') + 1 /\ pos' = o[1]
    BY <1>1, <2>1
  <2>3. Behind(1)'
    BY <1>1, <2>1, Zenon DEF Behind
  <2> QED BY <2>2, <2>3 DEF OnTrack
<1>6. Laid(o, put, mem, size - 1)'
  BY <1>1, <1>4 DEF Laid, Stands
<1>7. FindsWhatWasPut'
  BY <1>1 DEF FindsWhatWasPut, Doc!FindsWhatWasPut
<1> QED BY <1>2, <1>3, <1>5, <1>6, <1>7 DEF DocInv

\* Bytes written over the memory.
LEMMA WrittenIs ==
  ASSUME NEW n \in Nat, mem \in [1 .. n -> Nat], NEW b \in Seq(Nat), NEW p \in Nat, p + Len(b) <= n
  PROVE  /\ Doc!Written(p, b) \in [1 .. n -> Nat]
         /\ \A k \in 1 .. Len(b) : Doc!Written(p, b)[p + k] = b[k]
         /\ \A k \in 1 .. n : k <= p \/ p + Len(b) < k => Doc!Written(p, b)[k] = mem[k]
<1>1. DOMAIN mem = 1 .. n /\ Len(b) \in Nat
  OBVIOUS
<1>2. PICK m \in Nat : m = Len(b) /\ \A k \in 1 .. m : b[k] \in Nat
  BY ElementOfSeq
<1>3. Doc!Written(p, b) = [i \in 1 .. n |-> IF i \in p + 1 .. p + m THEN b[i - p] ELSE mem[i]]
  BY <1>1, <1>2, Zenon DEF Doc!Written
<1> DEFINE w == [i \in 1 .. n |-> IF i \in p + 1 .. p + m THEN b[i - p] ELSE mem[i]]
<1>4. ASSUME NEW i \in 1 .. n PROVE w[i] \in Nat
  <2>1. i \in p + 1 .. p + m => i - p \in 1 .. m
    OBVIOUS
  <2> QED BY <1>2, <2>1
<1>5. w \in [1 .. n -> Nat]
  BY <1>4
<1>6. ASSUME NEW k \in 1 .. m PROVE w[p + k] = b[k]
  <2>1. p + m <= n
    BY <1>2, Zenon
  <2>2. p + k \in 1 .. n /\ p + k \in p + 1 .. p + m /\ p + k - p = k
    BY <2>1
  <2> QED BY <2>2
<1>7. ASSUME NEW k \in 1 .. n, k <= p \/ p + m < k PROVE w[k] = mem[k]
  BY <1>7
<1> HIDE DEF w
<1>8. w = Doc!Written(p, b)
  BY <1>3 DEF w
<1> QED BY <1>2, <1>5, <1>6, <1>7, <1>8, Zenon

\* What stands in a part of the memory that is not written to stays.
LEMMA StandsOn ==
  ASSUME NEW m, NEW w, NEW p \in Nat, NEW e, Len(Elem(e)) \in Nat, Stands(m, p, e),
         \A k \in p + 1 .. p + Len(Elem(e)) : w[k] = m[k]
  PROVE  Stands(w, p, e)
<1>1. PICK n \in Nat : n = Len(Elem(e))
  OBVIOUS
<1>2. ASSUME NEW j \in 1 .. n PROVE w[p + j] = m[p + j]
  <2>1. p + j \in p + 1 .. p + n
    OBVIOUS
  <2> QED BY <1>1, <2>1, Zenon
<1> QED BY <1>1, <1>2 DEF Stands

LEMMA FinishKeeps == ASSUME DocInv, Doc!Finish PROVE DocInv'
<1>1. /\ UNCHANGED <<len, put, key, pos>> /\ phase = "put" /\ phase' = "done" /\ size' = size + 1
      /\ findRc' = size + 1 /\ mem' = [Doc!Written(0, Doc!LE(size + 1)) EXCEPT ![size + 1] = 0]
      /\ DocTyped
  BY DEF Doc!Finish, DocInv
<1>2. /\ key = <<>> /\ size < len + Doc!Room /\ size \in Nat /\ len \in Nat /\ 4 <= size /\ Doc!Room \in Nat
      /\ mem \in [1 .. len + Doc!Room -> Nat] /\ put \in Seq(Elements)
  BY <1>1, DocConstants DEF DocTyped
<1>3. PICK n \in Nat : n = len + Doc!Room /\ size + 1 <= n
  BY <1>2
<1> DEFINE w == Doc!Written(0, Doc!LE(size + 1))
<1>4. /\ w \in [1 .. n -> Nat] /\ \A k \in 1 .. n : 4 < k => w[k] = mem[k]
  <2>1. PICK b : b = Doc!LE(size + 1) /\ b \in Seq(Nat) /\ Len(b) = 4
    <3>1. size + 1 \in Nat
      BY <1>2
    <3> QED BY <3>1, NumberBytes
  <2>2. PICK a \in Nat, m \in Nat : a = 0 /\ m = 4 /\ a + m <= n /\ a + m = 4
    <3>1. 0 \in Nat /\ 4 \in Nat /\ 0 + 4 <= n /\ 0 + 4 = 4
      BY <1>2, <1>3
    <3> QED BY <3>1, Zenon
  <2>3. mem \in [1 .. n -> Nat] /\ a + Len(b) <= n /\ Len(b) = m
    BY <1>2, <1>3, <2>1, <2>2, Zenon
  <2>4. /\ Doc!Written(a, b) \in [1 .. n -> Nat]
        /\ \A k \in 1 .. n : k <= a \/ a + Len(b) < k => Doc!Written(a, b)[k] = mem[k]
    BY <2>1, <2>3, WrittenIs, SMTT(30)
  <2> QED BY <2>1, <2>2, <2>3, <2>4, Zenon
<1> HIDE DEF w
<1>5. mem' = [w EXCEPT ![size + 1] = 0]
  BY <1>1 DEF w
<1>6. /\ mem' \in [1 .. n -> Nat] /\ mem'[size + 1] = 0
      /\ \A k \in 1 .. n : 4 < k /\ k <= size => mem'[k] = mem[k]
  BY <1>2, <1>3, <1>4, <1>5
<1>7. DocTyped'
  BY <1>1, <1>2, <1>3, <1>6 DEF DocTyped
<1>8. PICK o : Laid(o, put, mem, size)
  BY <1>1 DEF DocInv, DocLaid
<1>9. Laid(o, put, mem', size)
  <2>1. ASSUME NEW i \in 1 .. Len(put) PROVE Stands(mem', o[i], put[i])
    <3>1. i + 1 \in 1 .. Len(put) + 1 /\ i \in 1 .. Len(put) + 1 /\ put[i] \in Elements
      BY <1>2
    <3>2. /\ o[i] \in Nat /\ o[i + 1] <= size /\ 4 <= o[i] /\ o[i + 1] = o[i] + Len(Elem(put[i]))
          /\ Stands(mem, o[i], put[i])
      BY <1>8, <3>1, Zenon DEF Laid
    <3>3. Len(Elem(put[i])) \in Nat
      BY <3>1, ElemIs
    <3>4. \A k \in o[i] + 1 .. o[i] + Len(Elem(put[i])) : mem'[k] = mem[k]
      <4>1. PICK l \in Nat : l = Len(Elem(put[i])) /\ o[i] + l <= size
        BY <3>2, <3>3
      <4>2. \A k \in o[i] + 1 .. o[i] + l : k \in 1 .. n /\ 4 < k /\ k <= size
        BY <1>2, <1>3, <3>2, <4>1
      <4> QED BY <1>6, <4>1, <4>2, Zenon
    <3> QED BY <3>2, <3>3, <3>4, StandsOn
  <2> QED BY <1>8, <2>1, Zenon DEF Laid
<1>10. DocLaid'
  <2>1. put' = put /\ size' - 1 = size /\ mem'[size'] = 0
    BY <1>1, <1>2, <1>6
  <2> QED BY <1>1, <1>9, <2>1 DEF DocLaid
<1>11. FindsWhatWasPut'
  BY <1>1, <1>2 DEF FindsWhatWasPut, Doc!FindsWhatWasPut
<1> QED BY <1>1, <1>7, <1>10, <1>11 DEF DocInv

LEMMA DocBegins == Doc!Init => DocInv
<1> SUFFICES ASSUME Doc!Init PROVE DocInv
  OBVIOUS
<1>1. /\ phase = "put" /\ len \in Lengths /\ size = 4 /\ put = <<>> /\ key = <<>> /\ pos = 0 /\ findRc = 0
  BY DEF Doc!Init
<1>2. PICK b \in Fill : mem = [i \in 1 .. len + Doc!Room |-> b]
  BY DEF Doc!Init
<1>3. b \in Nat /\ len \in Nat /\ 5 <= len /\ Doc!Room \in Nat
  <2>1. Doc!Byte \subseteq Nat
    BY DEF Doc!Byte
  <2> QED BY <1>1, <2>1, DocConstants
<1>4. mem \in [1 .. len + Doc!Room -> Nat]
  BY <1>2, <1>3
<1>5. put \in Seq(Elements) /\ Len(put) = 0 /\ Len(put) <= MaxElements
  BY <1>1, DocConstants
<1>6. DocTyped
  BY <1>1, <1>3, <1>4, <1>5 DEF DocTyped
<1>7. \E o : Laid(o, put, mem, size)
  <2> DEFINE o == [i \in 1 .. Len(put) + 1 |-> 4]
  <2>1. Len(put) + 1 = 1
    BY <1>5
  <2>2. o \in [1 .. Len(put) + 1 -> Nat] /\ o[1] = 4 /\ o[Len(put) + 1] = size
    BY <1>1, <2>1
  <2>3. \A i \in 1 .. Len(put) + 1 : 4 <= o[i] /\ o[i] <= size
    BY <1>1
  <2>4. \A i : i \notin 1 .. Len(put)
    BY <1>5
  <2> HIDE DEF o
  <2>5. Laid(o, put, mem, size)
    BY <2>2, <2>3, <2>4, Zenon DEF Laid
  <2> QED BY <2>5
<1> QED BY <1>1, <1>6, <1>7 DEF DocInv, DocLaid, FindsWhatWasPut, Doc!FindsWhatWasPut

LEMMA AddKeeps == ASSUME DocInv, Doc!AddElement PROVE DocInv'
<1>1. /\ UNCHANGED <<len, key, pos, clobbered, found>> /\ phase = "put" /\ Len(put) < MaxElements /\ DocTyped
  BY DEF Doc!AddElement, DocInv
<1>2. /\ key = <<>> /\ size < len + Doc!Room /\ size \in Nat /\ len \in Nat /\ 4 <= size /\ Doc!Room \in Nat
      /\ mem \in [1 .. len + Doc!Room -> Nat] /\ put \in Seq(Elements)
  BY <1>1, DocConstants DEF DocTyped
<1>3. FindsWhatWasPut'
  BY <1>1, <1>2 DEF FindsWhatWasPut, Doc!FindsWhatWasPut
<1>4. PICK e \in Elements :
        \/ /\ Doc!Fits(e, len - size)
           /\ mem' = Doc!Written(size, Elem(e))
           /\ size' = size + Len(Doc!Head_(e)) + Len(Doc!ValueOf(e)) /\ put' = Append(put, e)
           /\ UNCHANGED <<phase, findRc>>
        \/ /\ phase' = "refused" /\ findRc' = -size
           /\ UNCHANGED <<mem, size, put>>
  BY DEF Doc!AddElement, Elem
<1>5. CASE phase' = "refused" /\ findRc' = -size /\ UNCHANGED <<mem, size, put>>
  <2>1. DocTyped'
    BY <1>1, <1>2, <1>5 DEF DocTyped
  <2> QED BY <1>3, <1>5, <2>1 DEF DocInv, DocLaid
<1>6. CASE /\ Doc!Fits(e, len - size)
           /\ mem' = Doc!Written(size, Elem(e))
           /\ size' = size + Len(Doc!Head_(e)) + Len(Doc!ValueOf(e)) /\ put' = Append(put, e)
           /\ UNCHANGED <<phase, findRc>>
  <2>1. PICK l \in Nat : /\ l = Len(Elem(e)) /\ l < Doc!Room /\ size' = size + l /\ Elem(e) \in Seq(Nat)
                         /\ Len(Doc!Head_(e)) >= 0
    <3>1. PICK n \in 0 .. MAX_KEY_LEN : \E k \in Nat :
           /\ k = Len(Doc!ValueOf(e)) /\ Len(Doc!Head_(e)) = n + 2 /\ n \in Nat
           /\ Elem(e) \in Seq(Nat) /\ Len(Elem(e)) = n + 2 + k /\ n + 2 + k < Doc!Room
      BY ElemIs
    <3>2. PICK k \in Nat :
           /\ k = Len(Doc!ValueOf(e)) /\ Len(Doc!Head_(e)) = n + 2 /\ n \in Nat
           /\ Elem(e) \in Seq(Nat) /\ Len(Elem(e)) = n + 2 + k /\ n + 2 + k < Doc!Room
      BY <3>1, Zenon
    <3>3. size' = size + (n + 2) + k
      BY <1>6, <3>2, Zenon
    <3>4. size + (n + 2) + k = size + (n + 2 + k) /\ n + 2 + k \in Nat /\ n + 2 >= 0
      BY <1>2, <3>2
    <3> QED BY <3>2, <3>3, <3>4, Zenon
  <2>2. size <= len
    <3>1. len - size >= Len(Doc!Head_(e))
      BY <1>6 DEF Doc!Fits, Doc!FitsFlat
    <3>2. PICK h \in Int : h = Len(Doc!Head_(e)) /\ h >= 0
      <4>1. Len(Doc!Head_(e)) \in Int
        BY ElemIs
      <4> QED BY <2>1, <4>1
    <3>3. len - size >= h
      BY <3>1, <3>2, Zenon
    <3> QED BY <1>2, <3>2, <3>3
  <2>3. PICK n \in Nat : n = len + Doc!Room /\ size + l < n
    BY <1>2, <2>1, <2>2
  <2>4. /\ mem' \in [1 .. n -> Nat]
        /\ \A k \in 1 .. l : mem'[size + k] = Elem(e)[k]
        /\ \A k \in 1 .. n : k <= size => mem'[k] = mem[k]
    <3>1. PICK b : b = Elem(e) /\ b \in Seq(Nat) /\ Len(b) = l
      BY <2>1
    <3>2. size \in Nat /\ mem \in [1 .. n -> Nat] /\ size + Len(b) <= n
      <4>1. size + l <= n /\ mem \in [1 .. n -> Nat]
        BY <1>2, <2>3
      <4> QED BY <1>2, <3>1, <4>1, Zenon
    <3>3. /\ Doc!Written(size, b) \in [1 .. n -> Nat]
          /\ \A k \in 1 .. Len(b) : Doc!Written(size, b)[size + k] = b[k]
          /\ \A k \in 1 .. n : k <= size \/ size + Len(b) < k => Doc!Written(size, b)[k] = mem[k]
      BY <3>1, <3>2, WrittenIs
    <3>4. Doc!Written(size, b) = mem'
      BY <1>6, <3>1, Zenon
    <3> QED BY <3>1, <3>3, <3>4, Zenon
  <2>5. PICK q \in Nat : q = Len(put)
    BY <1>2
  <2>6. /\ put' \in Seq(Elements) /\ Len(put') = q + 1 /\ put'[q + 1] = e
        /\ \A i \in 1 .. q : put'[i] = put[i]
    BY <1>2, <1>6, <2>5
  <2>7. DocTyped'
    <3>1. size' \in Nat /\ 4 <= size' /\ size' < len + Doc!Room /\ size' <= len + Doc!Room
      BY <1>2, <2>1, <2>3
    <3>2. Len(put') <= MaxElements
      BY <1>1, <2>5, <2>6, DocConstants
    <3> QED BY <1>1, <1>2, <1>6, <2>3, <2>4, <2>6, <3>1, <3>2 DEF DocTyped
  <2>8. PICK o : Laid(o, put, mem, size)
    BY <1>1 DEF DocInv, DocLaid
  <2>9. /\ o \in [1 .. q + 1 -> Nat] /\ o[1] = 4 /\ o[q + 1] = size
        /\ \A i \in 1 .. q + 1 : 4 <= o[i] /\ o[i] <= size
        /\ \A i \in 1 .. q : o[i + 1] = o[i] + Len(Elem(put[i])) /\ Stands(mem, o[i], put[i])
    BY <2>5, <2>8, Zenon DEF Laid
  <2> DEFINE u == [i \in 1 .. q + 1 + 1 |-> IF i <= q + 1 THEN o[i] ELSE size + l]
  <2>10. u \in [1 .. q + 1 + 1 -> Nat]
    BY <1>2, <2>9
  <2>11. /\ \A i \in 1 .. q + 1 : u[i] = o[i]
         /\ u[q + 1 + 1] = size + l
    OBVIOUS
  <2> HIDE DEF u
  <2>12. u[1] = 4
    <3>1. 1 \in 1 .. q + 1
      OBVIOUS
    <3> QED BY <2>9, <2>11, <3>1, Zenon
  <2>13. ASSUME NEW i \in 1 .. q + 1 + 1 PROVE 4 <= u[i] /\ u[i] <= size + l
    <3>1. CASE i \in 1 .. q + 1
      <4>1. u[i] \in Nat /\ 4 <= u[i] /\ u[i] <= size
        BY <2>9, <2>11, <3>1
      <4> QED BY <1>2, <4>1
    <3>2. CASE i \notin 1 .. q + 1
      <4>1. i = q + 1 + 1
        BY <3>2
      <4> QED BY <1>2, <2>11, <4>1
    <3> QED BY <3>1, <3>2
  <2>14. ASSUME NEW i \in 1 .. q + 1
         PROVE  u[i + 1] = u[i] + Len(Elem(put'[i])) /\ Stands(mem', u[i], put'[i])
    <3>1. CASE i \in 1 .. q
      <4>1. i + 1 \in 1 .. q + 1 /\ put'[i] = put[i] /\ put[i] \in Elements
        BY <1>2, <2>5, <2>6, <3>1
      <4>2. /\ u[i + 1] = o[i + 1] /\ u[i] = o[i] /\ o[i + 1] = o[i] + Len(Elem(put[i]))
            /\ Stands(mem, o[i], put[i]) /\ o[i] \in Nat /\ o[i + 1] <= size
        BY <2>9, <2>11, <3>1, <4>1
      <4>3. Len(Elem(put[i])) \in Nat
        BY <4>1, ElemIs
      <4>4. \A k \in o[i] + 1 .. o[i] + Len(Elem(put[i])) : mem'[k] = mem[k]
        <5>1. PICK a, c \in Nat : a = o[i] /\ c = Len(Elem(put[i])) /\ a \in Nat /\ a + c <= size
          BY <4>2, <4>3
        <5>2. \A k \in a + 1 .. a + c : k \in 1 .. n /\ k <= size
          BY <1>2, <2>3, <5>1
        <5> QED BY <2>4, <5>1, <5>2, Zenon
      <4>5. Stands(mem', o[i], put[i])
        BY <4>2, <4>3, <4>4, StandsOn
      <4> QED BY <4>1, <4>2, <4>5, Zenon
    <3>2. CASE i \notin 1 .. q
      <4>1. i = q + 1
        BY <3>2
      <4>2. u[i] = size /\ u[i + 1] = size + l /\ put'[i] = e
        BY <2>6, <2>9, <2>11, <4>1, Zenon
      <4>3. Stands(mem', size, e)
        BY <2>1, <2>4, Zenon DEF Stands
      <4> QED BY <2>1, <4>2, <4>3, Zenon
    <3> QED BY <3>1, <3>2
  <2>15. Laid(u, put', mem', size')
    BY <2>1, <2>6, <2>10, <2>11, <2>12, <2>13, <2>14, Zenon DEF Laid
  <2>16. DocLaid'
    BY <1>1, <1>6, <2>15 DEF DocLaid
  <2> QED BY <1>1, <1>3, <1>6, <2>7, <2>16 DEF DocInv
<1> QED BY <1>4, <1>5, <1>6

LEMMA DocStill == ASSUME DocInv, UNCHANGED Doc!vars PROVE DocInv'
<1>1. /\ phase' = phase /\ mem' = mem /\ len' = len /\ size' = size /\ put' = put /\ key' = key
      /\ pos' = pos /\ clobbered' = clobbered /\ findRc' = findRc /\ found' = found
  BY DEF Doc!vars
<1>2. DocTyped'
  BY <1>1 DEF DocInv, DocTyped
<1>3. DocLaid'
  <2>1. \A o : Laid(o, put, mem, size) => Laid(o, put', mem', size')
    BY <1>1, Zenon
  <2>2. \A o : Laid(o, put, mem, size - 1) => Laid(o, put', mem', size' - 1)
    BY <1>1, Zenon
  <2> QED BY <1>1, <2>1, <2>2, Zenon DEF DocInv, DocLaid
<1>4. FindsWhatWasPut'
  BY <1>1 DEF DocInv, FindsWhatWasPut, Doc!FindsWhatWasPut, Doc!Place, Doc!Readable, Doc!Intact, Doc!Given
<1>5. Astray => Astray'
  <2>1. \A j : Same(j) => Same(j)'
    BY <1>1 DEF Same
  <2>2. \A j : ~Same(j) => ~Same(j)'
    BY <1>1 DEF Same
  <2> QED BY <1>1, <2>2, Zenon DEF Astray
<1>6. ASSUME NEW o, Laid(o, put, mem, size - 1), OnTrack(o)
      PROVE  (\E u : Laid(u, put, mem, size - 1) /\ OnTrack(u))'
  <2>1. Laid(o, put', mem', size' - 1)
    BY <1>1, <1>6, Zenon
  <2>2. \A i : Behind(i) => Behind(i)'
    BY <1>1 DEF Behind, Same
  <2>3. OnTrack(o)'
    BY <1>1, <1>6, <2>2, Zenon DEF OnTrack
  <2> QED BY <2>1, <2>3, Zenon
<1> QED BY <1>1, <1>2, <1>3, <1>4, <1>5, <1>6 DEF DocInv

LEMMA DocStep == ASSUME DocInv, [Doc!Next]_(Doc!vars) PROVE DocInv'
<1>1. CASE UNCHANGED Doc!vars
  BY <1>1, DocStill
<1>2. CASE Doc!Next
  BY <1>2, AddKeeps, FinishKeeps, FindBegins, LookKeeps DEF Doc!Next
<1> QED BY <1>1, <1>2

\* What is read in the memory is what was written, as far as find_key can read it.
THEOREM DocInvariance == Doc!Spec => []DocInv
<1>1. Doc!Init => DocInv
  BY DocBegins
<1>2. DocInv /\ [Doc!Next]_(Doc!vars) => DocInv'
  BY DocStep
<1> QED BY <1>1, <1>2, PTL DEF Doc!Spec

\* find_key gives a key's element as it was serialized, and refuses a key that
\* is not there, for all elements, keys and sizes of the buffer (bson.c:231-404).
THEOREM FindsIt == Doc!Spec => []FindsWhatWasPut
<1>1. DocInv => FindsWhatWasPut
  BY DEF DocInv
<1> QED BY <1>1, DocInvariance, PTL

-----------------------------------------------------------------------------
\* The four components together: a step of one leaves the others alone.
UnitInv == IInv /\ SdInv /\ ClockInv /\ DocInv

LEMMA UnitStep ==
  ASSUME UnitInv, [UnitNext]_<<unit, vars, sdVars, rtcVars, docVars>>
  PROVE  UnitInv'
<1>1. [Next]_vars
  BY DEF UnitNext, vars
<1>2. [Sd!Next]_(Sd!vars)
  <2>1. Sd!Next \/ UNCHANGED sdVars
    BY Zenon DEF UnitNext
  <2> QED BY <2>1 DEF sdVars, Sd!vars, Sd!driverVars, Sd!lineVars, Sd!cardVars
<1>3. [Rtc!Next]_(Rtc!vars)
  <2>1. Rtc!Next \/ UNCHANGED rtcVars
    BY Zenon DEF UnitNext
  <2> QED BY <2>1 DEF rtcVars, Rtc!vars
<1>4. [Doc!Next]_(Doc!vars)
  <2>1. Doc!Next \/ UNCHANGED docVars
    BY Zenon DEF UnitNext
  <2> QED BY <2>1 DEF docVars, Doc!vars
<1> QED BY <1>1, <1>2, <1>3, <1>4, LogStep, CardStep, ClockStep, DocStep DEF UnitInv

LEMMA DocTypes == ASSUME DocTyped PROVE Doc!TypeOK
<1>1. PICK n \in Nat : n = len + Doc!Room
  BY DocConstants DEF DocTyped
<1>2. Len(mem) = n
  <2>1. mem \in [1 .. n -> Nat]
    BY <1>1 DEF DocTyped
  <2>2. mem \in Seq(Nat) /\ DOMAIN mem = 1 .. n
    BY <2>1
  <2> QED BY <2>2
<1> QED BY <1>1, <1>2 DEF DocTyped, Doc!TypeOK

\* Every variable of the log, the card driver, the clock and the BSON document
\* keeps its type, for all sizes, numbers of faults and elements.
THEOREM TypesAreKept == UnitSpec => []TypesOK
<1>1. UnitInit => UnitInv
  BY LogBegins, CardBegins, ClockBegins, DocBegins DEF UnitInit, UnitInv
<1>2. UnitInv /\ [UnitNext]_<<unit, vars, sdVars, rtcVars, docVars>> => UnitInv'
  BY UnitStep
<1>3. UnitInv => TypesOK
  BY DocTypes DEF UnitInv, IInv, SdInv, ClockInv, DocInv, TypesOK
<1> QED BY <1>1, <1>2, <1>3, PTL DEF UnitSpec

=============================================================================
