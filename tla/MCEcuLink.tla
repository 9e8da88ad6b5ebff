------------------------------ MODULE MCEcuLink ------------------------------
(* EcuLink and LiveStream with a packet of two values, a gap, and a last value. *)
EXTENDS LiveStream, SequencesExt

Value(n) == [empty |-> FALSE, len |-> n]
Gap(n) == [empty |-> TRUE, len |-> n]
Values(count, n) == [k \in 1 .. count |-> Value(n)]

\* Where the entries of a table begin, and where the last ends.
Offsets(table) ==
  FoldLeft(LAMBDA sums, entry : Append(sums, Last(sums) + entry.len), <<0>>, table)

MCTable == <<Value(1), Value(2), Gap(1), Value(1)>>
MCOffset == Offsets(MCTable)

\* Both media, only the log, the gap, only the base: a live packet of nine
\* bytes has room for one of two pairs, and for an id.
MCTransport == << {"XBEE", "SD"}, {"SD"}, {}, {"XBEE"} >>

\* The table of ecu.c itself is one that EcuLink is about.
ecu_packet ==
  Values(6, 2) \o Values(2, 4) \o Values(8, 2) \o <<Gap(10)>> \o Values(3, 2) \o <<Gap(2)>>
    \o Values(8, 2) \o <<Gap(4), Value(2), Gap(2), Value(2), Gap(2)>> \o Values(2, 2)
    \o <<Gap(10)>> \o Values(3, 2) \o <<Gap(8), Value(1), Gap(1), Value(1), Value(1)>>

ASSUME EcuPacketIsTable ==
  /\ Last(Offsets(ecu_packet)) = 114
  /\ \A n \in DOMAIN ecu_packet :
       ecu_packet[n].empty => n < Len(ecu_packet) /\ ~ecu_packet[n + 1].empty

\* The values that main.c sends to the base: eight pairs fit into its packets,
\* with room for two more.
set_msg_transport_rules ==
  {"ECU_MOTOR_OILTEMP", "ECU_OIL_PRESSURE", "ECU_STATUS_CHOKER_ADD", "ECU_WATER_TEMP",
   "ECU_SPEEDER_POTMETER", "ECU_RPM", "ECU_BATTERY_V", "ECU_LAMBDA_V"}

ASSUME LivePacketSuffices == 6 * Cardinality(set_msg_transport_rules) <= 63
=============================================================================
