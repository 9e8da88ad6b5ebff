------------------------------- MODULE EcuLink -------------------------------
(***************************************************************************)
(* The stream of engine data into the communication node: livestream of    *)
(* nodes/ComNode/protocol.c and ecu_read_data of ecu.c, the receive ring   *)
(* of the serial port, and the engine control unit (ECU), which answers    *)
(* each request with one packet.                                           *)
(*                                                                         *)
(* Packets have no frame: the node takes whatever is in the ring for one   *)
(* when it finds exactly PacketLen bytes there.  A byte is known by its    *)
(* packet and its place in it; packets are numbered round and round.  What *)
(* becomes of the values is in LiveStream, their arithmetic in EcuValue.   *)
(***************************************************************************)
EXTENDS Integers, Sequences

CONSTANTS
  Table,      \* ecu_packet without its end state: [empty, len] of each entry
  Offset,     \* where each entry begins in the packet, and where the last ends
  PacketLen,  \* ECU_PACKET_LEN
  RingSize,   \* the size of buf_in
  Packets,    \* packet numbers before they start again
  MaxFaults   \* bound on losses and late answers

ASSUME TableAssumption ==
  /\ Table \in Seq([empty : BOOLEAN, len : Nat \ {0}])
  /\ \A n \in DOMAIN Table : Table[n].empty => n < Len(Table) /\ ~Table[n + 1].empty

ASSUME OffsetAssumption ==
  /\ Offset \in [1 .. Len(Table) + 1 -> Nat]
  /\ Offset[1] = 0 /\ Offset[Len(Table) + 1] = PacketLen
  /\ \A n \in DOMAIN Table : Offset[n + 1] = Offset[n] + Table[n].len

ASSUME PacketAssumption ==
  /\ PacketLen \in Nat \ {0}
  /\ RingSize \in Nat /\ 2 * PacketLen < RingSize
  /\ Packets \in Nat \ {0} /\ MaxFaults \in Nat

VARIABLES
  ring,       \* the bytes received
  at,         \* "poll" in the event loop; "entry", "skip", "value" in ecu_read_data
  data_count, \* the entry of the table that comes next
  len,        \* bytes of the entry still to be read
  value,      \* the bytes of the value read so far
  requests,   \* requests the ECU has yet to answer
  line,       \* bytes on their way from the ECU
  number      \* the number of its last packet

\* For the bound and the properties.
VARIABLES
  faults,
  late,       \* whether a time-out ever ran out with an answer still to come
  serving     \* the number of the packet being read

nodeVars == <<ring, at, data_count, len, value>>
ecuVars == <<requests, line, number>>
vars == <<nodeVars, ecuVars, faults, late, serving>>

Init ==
  /\ ring = <<>>
  /\ at = "poll"
  /\ data_count = 1 /\ len = 0 /\ value = <<>>
  /\ requests = 1
  /\ line = <<>> /\ number = Packets
  /\ faults = 0 /\ late = FALSE
  /\ serving = Packets

-----------------------------------------------------------------------------
\* The ECU answers a request.
EcuAnswers ==
  /\ requests > 0
  /\ requests' = requests - 1
  /\ number' = (number % Packets) + 1
  /\ line' = line \o [k \in 1 .. PacketLen |-> [packet |-> number', place |-> k]]
  /\ UNCHANGED <<nodeVars, faults, late, serving>>

\* The receive interrupt, which overwrites the oldest byte of a full ring.
ByteArrives ==
  /\ line # <<>>
  /\ line' = Tail(line)
  /\ ring' = Append(IF Len(ring) = RingSize - 1 THEN Tail(ring) ELSE ring, Head(line))
  /\ UNCHANGED <<at, data_count, len, value, requests, number, faults, late, serving>>

Fault == faults < MaxFaults /\ faults' = faults + 1

\* The line loses a byte, or a request.
ByteLost ==
  /\ Fault
  /\ line # <<>>
  /\ line' = Tail(line)
  /\ UNCHANGED <<nodeVars, requests, number, late, serving>>

RequestLost ==
  /\ Fault
  /\ requests > 0
  /\ requests' = requests - 1
  /\ UNCHANGED <<nodeVars, line, number, late, serving>>

-----------------------------------------------------------------------------
\* A slip: one byte short is taken for a packet.
HasPacketShort == Len(ring) = PacketLen - 1

ecu_has_packet == Len(ring) = PacketLen

\* A slip: the node asks twice for every packet it finds.
AskTwice ==
  /\ at = "poll" /\ ecu_has_packet
  /\ requests' = requests + 2
  /\ at' = "entry"
  /\ serving' = Head(ring).packet
  /\ UNCHANGED <<ring, data_count, len, value, line, number, faults, late>>

\* livestream finds a packet; it asks for the next one, then reads this one.
FindPacket ==
  /\ at = "poll" /\ ecu_has_packet
  /\ requests' = requests + 1
  /\ at' = "entry"
  /\ serving' = Head(ring).packet
  /\ UNCHANGED <<ring, data_count, len, value, line, number, faults, late>>

\* A slip: the time-out does not empty the ring.
TimeOutKeeps ==
  /\ at = "poll" /\ ~ecu_has_packet
  /\ requests = 0 /\ line = <<>>
  /\ requests' = requests + 1
  /\ UNCHANGED <<nodeVars, line, number, faults, late, serving>>

\* The time-out runs out: ecu_init empties the ring, and the node asks again.  It
\* comes when there is nothing left to wait for, or too early.
TimeOut ==
  /\ at = "poll" /\ ~ecu_has_packet
  /\ \/ requests = 0 /\ line = <<>> /\ UNCHANGED <<faults, late>>
     \/ (requests > 0 \/ line # <<>>) /\ Fault /\ late' = TRUE
  /\ ring' = <<>>
  /\ requests' = requests + 1
  /\ UNCHANGED <<at, data_count, len, value, line, number, serving>>

\* ecu_read_data begins: with the end state, an empty entry, or a value.
BeginEntry ==
  /\ at = "entry"
  /\ value' = <<>>
  /\ \/ /\ data_count = Len(Table) + 1
        /\ at' = "poll"
        /\ data_count' = 1
        /\ UNCHANGED len
     \/ /\ data_count <= Len(Table)
        /\ at' = IF Table[data_count].empty THEN "skip" ELSE "value"
        /\ len' = Table[data_count].len
        /\ UNCHANGED data_count
  /\ UNCHANGED <<ring, ecuVars, faults, late, serving>>

\* A slip: one byte more than the table says.
ReadByteMore ==
  /\ at \in {"skip", "value"} /\ len >= 0
  /\ ring # <<>>
  /\ ring' = Tail(ring)
  /\ len' = len - 1
  /\ value' = IF at = "value" THEN Append(value, Head(ring)) ELSE value
  /\ UNCHANGED <<at, data_count, ecuVars, faults, late, serving>>

ReadByte ==
  /\ at \in {"skip", "value"} /\ len > 0
  /\ ring # <<>>
  /\ ring' = Tail(ring)
  /\ len' = len - 1
  /\ value' = IF at = "value" THEN Append(value, Head(ring)) ELSE value
  /\ UNCHANGED <<at, data_count, ecuVars, faults, late, serving>>

\* After an empty entry ecu_read_data goes on with the value behind it.
EndSkip ==
  /\ at = "skip" /\ len = 0
  /\ at' = "value"
  /\ data_count' = data_count + 1
  /\ len' = Table[data_count + 1].len
  /\ UNCHANGED <<ring, value, ecuVars, faults, late, serving>>

EndValue ==
  /\ at = "value" /\ len = 0
  /\ at' = "entry"
  /\ data_count' = data_count + 1
  /\ UNCHANGED <<ring, len, value, ecuVars, faults, late, serving>>

ecu_read_data == BeginEntry \/ ReadByte \/ EndSkip \/ EndValue

Next ==
  \/ EcuAnswers \/ ByteArrives \/ ByteLost \/ RequestLost
  \/ FindPacket \/ TimeOut \/ ecu_read_data

Spec == Init /\ [][Next]_vars

\* The ECU answers what reaches it, bytes travel, and the event loop runs.
FairSpec ==
  /\ Spec
  /\ WF_vars(EcuAnswers) /\ WF_vars(ByteArrives)
  /\ WF_vars(FindPacket) /\ WF_vars(TimeOut) /\ WF_vars(ecu_read_data)

-----------------------------------------------------------------------------
EcuByte == [packet : 1 .. Packets, place : 1 .. PacketLen]

TypeOK ==
  /\ ring \in Seq(EcuByte) /\ line \in Seq(EcuByte) /\ value \in Seq(EcuByte)
  /\ at \in {"poll", "entry", "skip", "value"}
  /\ data_count \in 1 .. Len(Table) + 1
  /\ len \in Nat
  /\ requests \in Nat
  /\ number \in 1 .. Packets /\ serving \in 1 .. Packets
  /\ faults \in 0 .. MaxFaults
  /\ late \in BOOLEAN

\* Bytes may be lost, and requests; unless an answer outlasts its time-out,
\* every value is still read from its own place in a single packet, although
\* nothing but the number of bytes tells where a packet begins (ecu.c:124-206,
\* protocol.c:182-224).
ValuesWhole ==
  ~late /\ at = "value" =>
    \A k \in DOMAIN value :
      value[k] = [packet |-> serving, place |-> Offset[data_count] + k]

\* How many bytes of the packet being read are still to be taken.
Remaining ==
  IF at = "poll" THEN 0
  ELSE IF at = "entry" THEN PacketLen - Offset[data_count]
  ELSE PacketLen - Offset[data_count + 1] + len

\* Once begun, ecu_read_data always finds its bytes in the ring: the event loop,
\* and with it the radio, never waits for the ECU, late or not (ecu.c:154-163).
NeverWaitsForEcu == Len(ring) >= Remaining

\* The node asks for a packet before it has read the last one, yet all that is
\* on its way fits into the ring (protocol.c:184, ecu.c:105, 124-127).
EveryAnswerFits ==
  ~late => Len(ring) + Len(line) + PacketLen * requests < RingSize

\* The stream goes on: after losses and late answers, the node finds packets
\* again and again (protocol.c:216-224).
StreamGoesOn == []<>(at = "entry")

=============================================================================
