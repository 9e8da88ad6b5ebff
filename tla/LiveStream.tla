----------------------------- MODULE LiveStream -----------------------------
(***************************************************************************)
(* What becomes of the values of EcuLink: livestream of ComNode/protocol.c *)
(* sends each of them where its transport rule says, as a pair of fields,  *)
(* id and value: into the log, and into a live packet for the base (xbee.c)*)
(* that has room for PayloadLen bytes.                                     *)
(*                                                                         *)
(* The id of a value is the place of its entry in the table.  The log is   *)
(* what one pass of livestream appends; LogFile has its way to the card.   *)
(***************************************************************************)
EXTENDS EcuLink, FiniteSets

CONSTANTS
  Transport,    \* where the value of each entry goes: subsets of {"XBEE", "SD"}
  PayloadLen    \* XBEE_PAYLOAD_LEN

ASSUME LiveAssumption ==
  /\ Transport \in [DOMAIN Table -> SUBSET {"XBEE", "SD"}]
  /\ PayloadLen \in Nat /\ PayloadLen % 6 < 4

VARIABLES
  live,         \* the live packet: its fields, and its length in bytes
  logged,       \* the fields appended to the log in this pass
  streaming,    \* whether the base has shaken hands
  sent,         \* the last live packet sent
  tellingOf     \* the packet that sent and logged are about, once the pass is over

liveVars == <<live, logged, streaming, sent, tellingOf>>

\* Fields of two and of four bytes.
Id(n) == [entry |-> n, what |-> "id", bytes |-> <<>>]
ValueOf(n, bytes) == [entry |-> n, what |-> "value", bytes |-> bytes]
Stamp == <<Id(0), ValueOf(0, <<>>)>>    \* "Old systime ID" and the tick
SizeOf(field) == IF field.what = "id" THEN 2 ELSE 4

xbee_create_packet == [fields |-> <<>>, len |-> 0]

LiveInit ==
  /\ Init
  /\ live = xbee_create_packet /\ logged = <<>> /\ sent = xbee_create_packet
  /\ streaming = FALSE /\ tellingOf = 0

-----------------------------------------------------------------------------
get_msg_transport(n) == Transport[n]

\* xbee_packet_append: a field that does not fit is left out.
xbee_packet_append(packet, field) ==
  IF packet.len + SizeOf(field) > PayloadLen THEN packet
  ELSE [fields |-> Append(packet.fields, field), len |-> packet.len + SizeOf(field)]

\* A pass begins: the request, the time stamp, an empty packet.
LiveFindPacket ==
  /\ FindPacket
  /\ logged' = Stamp /\ live' = xbee_create_packet /\ tellingOf' = 0
  /\ UNCHANGED <<streaming, sent>>

\* A slip: every value is for the base.
TellAll(n) ==
  /\ live' = xbee_packet_append(xbee_packet_append(live, Id(n)), ValueOf(n, value))
  /\ logged' = IF "SD" \in get_msg_transport(n) THEN logged \o <<Id(n), ValueOf(n, value)>> ELSE logged

\* The value of entry n has been read.
Tell(n) ==
  /\ live' = IF "XBEE" \in get_msg_transport(n)
             THEN xbee_packet_append(xbee_packet_append(live, Id(n)), ValueOf(n, value))
             ELSE live
  /\ logged' = IF "SD" \in get_msg_transport(n) THEN logged \o <<Id(n), ValueOf(n, value)>> ELSE logged

LiveValue == EndValue /\ Tell(data_count) /\ UNCHANGED <<streaming, sent, tellingOf>>

\* The end state of the table: the packet goes out if there is a base.
LiveEnd ==
  /\ BeginEntry /\ at' = "poll"
  /\ sent' = IF streaming THEN live ELSE sent
  /\ live' = xbee_create_packet /\ tellingOf' = serving
  /\ UNCHANGED <<logged, streaming>>

LiveRead ==
  \/ LiveValue \/ LiveEnd
  \/ /\ ReadByte \/ EndSkip \/ (BeginEntry /\ at' # "poll")
     /\ UNCHANGED liveVars

LiveTimeOut == TimeOut /\ UNCHANGED liveVars

\* respond_to_handshake, between two passes.
Handshake ==
  /\ at = "poll" /\ ~streaming /\ streaming' = TRUE
  /\ UNCHANGED <<vars, live, logged, sent, tellingOf>>

LiveNext ==
  \/ (EcuAnswers \/ ByteArrives \/ ByteLost \/ RequestLost) /\ UNCHANGED liveVars
  \/ LiveFindPacket \/ LiveTimeOut \/ LiveRead \/ Handshake

\* The fairness of EcuLink!FairSpec; no base is obliged to shake hands.
LiveSpec ==
  /\ LiveInit /\ [][LiveNext]_<<vars, liveVars>>
  /\ WF_vars(EcuAnswers) /\ WF_vars(ByteArrives)
  /\ WF_vars(FindPacket) /\ WF_vars(TimeOut) /\ WF_vars(ecu_read_data)

-----------------------------------------------------------------------------
\* The entries whose values go to a medium, and how many of them stand before an entry.
Told(medium) == {n \in DOMAIN Table : ~Table[n].empty /\ medium \in get_msg_transport(n)}
Before(medium, n) == Cardinality({m \in Told(medium) : m < n})

\* Both fields of an entry, its value read from its own place in packet p.
Pair(n, p) ==
  <<Id(n), ValueOf(n, [k \in 1 .. Table[n].len |-> [packet |-> p, place |-> Offset[n] + k]])>>

\* The fields behind the first few are those of packet p, in the order of the
\* table, as far as they go.
InOrder(fields, first, medium, p) ==
  \A n \in Told(medium) : \A j \in {1, 2} :
    LET place == first + 2 * Before(medium, n) + j
    IN place <= Len(fields) => fields[place] = Pair(n, p)[j]

LiveTypeOK ==
  /\ streaming \in BOOLEAN /\ tellingOf \in 0 .. Packets
  /\ live.len \in 0 .. PayloadLen /\ sent.len \in 0 .. PayloadLen

\* Once a pass is over, the log has been given the time and then every value that
\* belongs there behind its own id, all from one ECU packet; and the live packet
\* that was sent is the beginning of the same for the base: all of it, or as many
\* pairs as fit and perhaps the next id (protocol.c:182-215, xbee.c:71-81).
RecordsWhole ==
  ~late /\ tellingOf # 0 =>
    /\ logged[1] = Stamp[1] /\ logged[2] = Stamp[2]
    /\ Len(logged) = 2 + 2 * Cardinality(Told("SD"))
    /\ InOrder(logged, 2, "SD", tellingOf)
    /\ sent.fields # <<>> =>
         LET due == 2 * Cardinality(Told("XBEE")) IN
         /\ InOrder(sent.fields, 0, "XBEE", tellingOf)
         /\ \/ Len(sent.fields) = due
            \/ Len(sent.fields) < due /\ sent.len + 4 > PayloadLen

\* What reaches the log and the base of an ECU packet is true, although bytes and
\* requests are lost, unless an answer outlasts its time-out (ecu.c:124-206,
\* protocol.c:182-224).
TelemetryTrue == LiveTypeOK /\ ValuesWhole /\ RecordsWhole

=============================================================================
