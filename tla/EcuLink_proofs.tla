---------------------------- MODULE EcuLink_proofs ----------------------------
(***************************************************************************)
(* Proofs about EcuLink and LiveStream, for every packet table, ring,      *)
(* transport rule and number of faults.  First the numbers of bytes: the   *)
(* event loop never waits inside ecu_read_data, and the ring has room for  *)
(* all that is on its way.  Then the bytes themselves: what is read is one *)
(* packet from its beginning.  Then what LiveStream makes of the values.   *)
(***************************************************************************)
EXTENDS LiveStream, SequenceTheorems, FiniteSetTheorems, WellFoundedInduction, TLAPS

\* Where the node is in the table.
Course ==
  /\ at = "poll" => data_count = 1
  /\ at \in {"skip", "value"} =>
       /\ data_count \in 1 .. Len(Table)
       /\ len <= Table[data_count].len
  /\ at = "skip" => Table[data_count].empty

\* What is in the ring behind the packet being read, on the line, and asked
\* for: one packet at most.
OneAhead ==
  ~late => Len(ring) - Remaining + Len(line) + PacketLen * requests <= PacketLen

IInv ==
  /\ TypeOK
  /\ Course
  /\ Len(ring) < RingSize
  /\ NeverWaitsForEcu
  /\ OneAhead

-----------------------------------------------------------------------------
LEMMA TableType ==
  /\ Len(Table) \in Nat
  /\ \A n \in 1 .. Len(Table) :
       /\ Table[n].len \in Nat \ {0}
       /\ Table[n].empty => n + 1 \in 1 .. Len(Table)
       /\ Offset[n + 1] = Offset[n] + Table[n].len
  /\ \A n \in 1 .. Len(Table) + 1 : Offset[n] \in Nat
  /\ Offset[1] = 0 /\ Offset[Len(Table) + 1] = PacketLen
<1>1. Table \in Seq([empty : BOOLEAN, len : Nat \ {0}])
  BY TableAssumption
<1>2. Len(Table) \in Nat /\ DOMAIN Table = 1 .. Len(Table)
  BY <1>1, LenProperties
<1>3. \A n \in 1 .. Len(Table) : Table[n] \in [empty : BOOLEAN, len : Nat \ {0}]
  BY <1>1, ElementOfSeq
<1>4. \A n \in 1 .. Len(Table) : Table[n].empty => n + 1 \in 1 .. Len(Table)
  <2> SUFFICES ASSUME NEW n \in 1 .. Len(Table), Table[n].empty PROVE n + 1 \in 1 .. Len(Table)
    OBVIOUS
  <2>1. n < Len(Table)
    BY <1>2, TableAssumption, Zenon
  <2> QED BY <1>2, <2>1
<1> QED BY <1>2, <1>3, <1>4, OffsetAssumption

\* The node is never further from the end of the packet than its beginning.
LEMMA RemainingBound ==
  ASSUME TypeOK, Course
  PROVE  Remaining \in Int /\ Remaining <= PacketLen
<1>1. PacketLen \in Nat /\ len \in Nat
  BY PacketAssumption DEF TypeOK
<1>2. CASE at = "poll"
  BY <1>1, <1>2 DEF Remaining
<1>3. CASE at = "entry"
  BY <1>1, <1>3, TableType DEF Remaining, TypeOK
<1>4. CASE at \in {"skip", "value"}
  <2>1. data_count \in 1 .. Len(Table) /\ len <= Table[data_count].len
    BY <1>4 DEF Course
  <2>2. /\ Table[data_count].len \in Nat
        /\ Offset[data_count] \in Nat
        /\ Offset[data_count + 1] = Offset[data_count] + Table[data_count].len
    BY <2>1, TableType
  <2>3. Remaining = PacketLen - Offset[data_count + 1] + len
    BY <1>4 DEF Remaining
  <2> QED BY SMTT(40), <1>1, <2>1, <2>2, <2>3
<1> QED BY <1>2, <1>3, <1>4 DEF TypeOK

\* One request more or less.
LEMMA Product ==
  ASSUME NEW r \in Nat
  PROVE  /\ PacketLen * r \in Nat
         /\ PacketLen * (r + 1) = PacketLen * r + PacketLen
         /\ r > 0 => PacketLen * (r - 1) = PacketLen * r - PacketLen
BY PacketAssumption

\* The lengths of the three sequences are numbers.
LEMMA Sizes ==
  ASSUME TypeOK
  PROVE  Len(ring) \in Nat /\ Len(line) \in Nat /\ PacketLen \in Nat
BY LenProperties, PacketAssumption DEF TypeOK

\* An answer is a packet of bytes.
LEMMA AnswerLength ==
  ASSUME TypeOK, EcuAnswers
  PROVE  line' \in Seq(EcuByte) /\ Len(line') = Len(line) + PacketLen /\ number' \in 1 .. Packets
<1>1. number' \in 1 .. Packets
  <2>1. number \in 1 .. Packets /\ Packets \in Nat \ {0}
    BY PacketAssumption DEF TypeOK
  <2>2. number % Packets \in 0 .. Packets - 1
    BY <2>1
  <2> QED BY <2>1, <2>2 DEF EcuAnswers
<1>2. PICK a : a = [k \in 1 .. PacketLen |-> [packet |-> number', place |-> k]]
  OBVIOUS
<1>3. a \in Seq(EcuByte) /\ Len(a) = PacketLen
  <2>1. a \in [1 .. PacketLen -> EcuByte]
    BY <1>1, <1>2 DEF EcuByte
  <2> QED BY <2>1, PacketAssumption
<1>4. line' = line \o a /\ line \in Seq(EcuByte)
  BY <1>2 DEF EcuAnswers, TypeOK
<1>5. line' \in Seq(EcuByte) /\ Len(line') = Len(line) + Len(a)
  BY <1>3, <1>4, ConcatProperties
<1> QED BY <1>1, <1>3, <1>5

\* A byte that arrives leaves the line, and makes the ring longer unless it is
\* full.
LEMMA ArrivalLength ==
  ASSUME TypeOK, Len(ring) < RingSize, ByteArrives
  PROVE  /\ ring' \in Seq(EcuByte) /\ line' \in Seq(EcuByte)
         /\ Len(line') = Len(line) - 1
         /\ Len(ring') < RingSize
         /\ Len(ring) <= Len(ring') /\ Len(ring') <= Len(ring) + 1
<1>1. /\ line \in Seq(EcuByte) /\ line # <<>> /\ line' = Tail(line)
      /\ ring \in Seq(EcuByte)
      /\ ring' = Append(IF Len(ring) = RingSize - 1 THEN Tail(ring) ELSE ring, Head(line))
  BY DEF TypeOK, ByteArrives
<1>2. Head(line) \in EcuByte /\ line' \in Seq(EcuByte) /\ Len(line') = Len(line) - 1
  BY <1>1, HeadTailProperties
<1>3. RingSize \in Nat /\ RingSize > 1 /\ Len(ring) \in Nat
  BY <1>1, PacketAssumption, LenProperties
<1>4. CASE Len(ring) = RingSize - 1
  <2>1. ring # <<>>
    BY <1>3, <1>4, EmptySeq
  <2>2. Tail(ring) \in Seq(EcuByte) /\ Len(Tail(ring)) = Len(ring) - 1
    BY <1>1, <2>1, HeadTailProperties
  <2>3. ring' = Append(Tail(ring), Head(line))
    BY <1>1, <1>4
  <2>4. ring' \in Seq(EcuByte) /\ Len(ring') = Len(Tail(ring)) + 1
    BY <1>2, <2>2, <2>3, AppendProperties
  <2> QED BY <1>2, <1>3, <1>4, <2>2, <2>4
<1>5. CASE Len(ring) # RingSize - 1
  <2>1. ring' = Append(ring, Head(line))
    BY <1>1, <1>5
  <2>2. PICK b \in EcuByte : ring' = Append(ring, b)
    BY <1>2, <2>1
  <2>3. ring \in Seq(EcuByte)
    BY <1>1
  <2>4. ring' \in Seq(EcuByte) /\ Len(ring') = Len(ring) + 1
    BY <2>2, <2>3, AppendProperties
  <2> QED BY <1>2, <1>3, <1>5, <2>4
<1> QED BY <1>4, <1>5

-----------------------------------------------------------------------------
LEMMA InitHolds == Init => IInv
<1> SUFFICES ASSUME Init PROVE IInv
  OBVIOUS
<1>1. /\ ring = <<>> /\ line = <<>> /\ value = <<>> /\ Len(<<>>) = 0
      /\ <<>> \in Seq(EcuByte)
  BY EmptySeq DEF Init
<1>2. TypeOK
  <2>1. data_count \in 1 .. Len(Table) + 1
    BY TableType DEF Init
  <2>2. number \in 1 .. Packets /\ serving \in 1 .. Packets /\ faults \in 0 .. MaxFaults
    BY PacketAssumption DEF Init
  <2>3. len \in Nat /\ requests \in Nat /\ late \in BOOLEAN /\ at = "poll"
    BY DEF Init
  <2>4. ring \in Seq(EcuByte) /\ line \in Seq(EcuByte) /\ value \in Seq(EcuByte)
    BY <1>1
  <2> QED BY <2>1, <2>2, <2>3, <2>4, Zenon DEF TypeOK
<1>3. Remaining = 0 /\ PacketLen * requests = PacketLen
  BY PacketAssumption DEF Init, Remaining
<1>4. Course
  BY DEF Init, Course
<1> QED BY <1>1, <1>2, <1>3, <1>4, PacketAssumption DEF Init, IInv, NeverWaitsForEcu, OneAhead

\* The ECU and the line.
LEMMA LineSteps ==
  ASSUME IInv, EcuAnswers \/ ByteArrives \/ ByteLost \/ RequestLost
  PROVE  IInv'
<1> USE DEF IInv
<1>1. /\ Len(ring) \in Nat /\ Len(line) \in Nat /\ PacketLen \in Nat /\ requests \in Nat
      /\ RingSize \in Nat
  BY Sizes, PacketAssumption DEF TypeOK
<1>2. Remaining \in Int
  BY RemainingBound
<1>3. UNCHANGED <<at, data_count, len, value, serving>>
  BY DEF EcuAnswers, ByteArrives, ByteLost, RequestLost, nodeVars
<1>4. Remaining' = Remaining /\ Course'
  BY <1>3 DEF Remaining, Course
<1>5. CASE EcuAnswers
  <2>1. line' \in Seq(EcuByte) /\ Len(line') = Len(line) + PacketLen /\ number' \in 1 .. Packets
    BY <1>5, AnswerLength
  <2>2. requests > 0 /\ requests' = requests - 1 /\ UNCHANGED <<ring, faults, late>>
    BY <1>5 DEF EcuAnswers, nodeVars
  <2>3. PacketLen * requests' = PacketLen * requests - PacketLen
    BY <1>1, <2>2, Product
  <2>4. PacketLen * requests \in Nat
    BY <1>1, Product
  <2>5. OneAhead'
    BY <1>1, <1>2, <1>4, <2>1, <2>2, <2>3, <2>4 DEF OneAhead
  <2>6. TypeOK'
    BY <1>1, <1>3, <2>1, <2>2 DEF TypeOK
  <2> QED BY <1>4, <2>2, <2>5, <2>6 DEF NeverWaitsForEcu
<1>6. CASE ByteArrives
  <2>1. /\ ring' \in Seq(EcuByte) /\ line' \in Seq(EcuByte)
        /\ Len(line') = Len(line) - 1 /\ Len(ring') < RingSize
        /\ Len(ring) <= Len(ring') /\ Len(ring') <= Len(ring) + 1
    BY <1>6, ArrivalLength
  <2>2. UNCHANGED <<requests, number, faults, late>>
    BY <1>6 DEF ByteArrives
  <2>3. PacketLen * requests' = PacketLen * requests /\ PacketLen * requests \in Nat
    BY <1>1, <2>2, Product
  <2>4. TypeOK'
    BY <1>3, <2>1, <2>2 DEF TypeOK
  <2>5. Len(ring') \in Nat /\ Len(line') \in Nat
    BY <2>1, LenProperties
  <2>6. NeverWaitsForEcu'
    BY <1>1, <1>2, <1>4, <2>1, <2>5 DEF NeverWaitsForEcu
  <2>7. OneAhead'
    BY <1>1, <1>2, <1>4, <2>1, <2>2, <2>3, <2>5 DEF OneAhead
  <2> QED BY <1>4, <2>1, <2>4, <2>6, <2>7
<1>7. CASE ByteLost
  <2>1. /\ line # <<>> /\ line' = Tail(line) /\ line \in Seq(EcuByte)
        /\ UNCHANGED <<ring, requests, number, late>>
        /\ faults' \in 0 .. MaxFaults
    BY <1>7, PacketAssumption DEF ByteLost, Fault, TypeOK, nodeVars
  <2>2. line' \in Seq(EcuByte) /\ Len(line') = Len(line) - 1
    BY <2>1, HeadTailProperties
  <2>3. TypeOK'
    BY <1>3, <2>1, <2>2 DEF TypeOK
  <2>4. PacketLen * requests' = PacketLen * requests /\ PacketLen * requests \in Nat
    BY <1>1, <2>1, Product
  <2>5. OneAhead'
    BY <1>1, <1>2, <1>4, <2>1, <2>2, <2>4 DEF OneAhead
  <2> QED BY <1>4, <2>1, <2>3, <2>5 DEF NeverWaitsForEcu
<1>8. CASE RequestLost
  <2>1. /\ requests > 0 /\ requests' = requests - 1
        /\ UNCHANGED <<ring, line, number, late>>
        /\ faults' \in 0 .. MaxFaults
    BY <1>8, PacketAssumption DEF RequestLost, Fault, TypeOK, nodeVars
  <2>2. TypeOK'
    BY <1>1, <1>3, <2>1 DEF TypeOK
  <2>3. PacketLen * requests' = PacketLen * requests - PacketLen /\ PacketLen * requests \in Nat
    BY <1>1, <2>1, Product
  <2>4. OneAhead'
    BY <1>1, <1>2, <1>4, <2>1, <2>3 DEF OneAhead
  <2> QED BY <1>4, <2>1, <2>2, <2>4 DEF NeverWaitsForEcu
<1> QED BY <1>5, <1>6, <1>7, <1>8

\* The event loop between two packets.
LEMMA LoopSteps ==
  ASSUME IInv, FindPacket \/ TimeOut
  PROVE  IInv'
<1> USE DEF IInv
<1>1. /\ Len(ring) \in Nat /\ Len(line) \in Nat /\ PacketLen \in Nat /\ requests \in Nat
      /\ RingSize \in Nat /\ RingSize > 0
  BY Sizes, PacketAssumption DEF TypeOK
<1>2. /\ at = "poll" /\ data_count = 1 /\ Remaining = 0
      /\ UNCHANGED <<data_count, len, value, line, number>>
      /\ requests' = requests + 1
  BY DEF FindPacket, TimeOut, Course, Remaining
<1>3. PacketLen * requests' = PacketLen * requests + PacketLen /\ PacketLen * requests \in Nat
  BY <1>1, <1>2, Product
<1>4. CASE FindPacket
  <2>1. /\ Len(ring) = PacketLen /\ at' = "entry" /\ UNCHANGED <<ring, faults, late>>
        /\ serving' = Head(ring).packet
    BY <1>4 DEF FindPacket, ecu_has_packet
  <2>2. serving' \in 1 .. Packets
    <3>1. ring # <<>> /\ ring \in Seq(EcuByte)
      BY <1>1, <2>1, PacketAssumption, EmptySeq DEF TypeOK
    <3>2. Head(ring) \in EcuByte
      BY <3>1, HeadTailProperties
    <3> QED BY <2>1, <3>2 DEF EcuByte
  <2>3. TypeOK'
    BY <1>1, <1>2, <2>1, <2>2 DEF TypeOK
  <2>4. Remaining' = PacketLen
    BY <1>1, <1>2, <2>1, TableType DEF Remaining
  <2>5. Course'
    BY <2>1 DEF Course
  <2>6. OneAhead'
    BY <1>1, <1>2, <1>3, <2>1, <2>4 DEF OneAhead
  <2> QED BY <1>1, <2>1, <2>3, <2>4, <2>5, <2>6 DEF NeverWaitsForEcu
<1>5. CASE TimeOut
  <2>1. /\ ring' = <<>> /\ UNCHANGED <<at, serving>>
        /\ \/ requests = 0 /\ line = <<>> /\ UNCHANGED <<faults, late>>
           \/ faults' \in 0 .. MaxFaults /\ late' = TRUE
    BY <1>5, PacketAssumption DEF TimeOut, Fault, TypeOK
  <2>2. ring' \in Seq(EcuByte) /\ Len(ring') = 0 /\ (line = <<>> => Len(line) = 0)
    BY <2>1, EmptySeq
  <2>3. faults' \in 0 .. MaxFaults /\ late' \in BOOLEAN
    BY <2>1, Zenon DEF TypeOK
  <2>4. TypeOK'
    BY <1>1, <1>2, <2>1, <2>2, <2>3 DEF TypeOK
  <2>5. Remaining' = 0 /\ Course'
    BY <1>2, <2>1 DEF Remaining, Course
  <2>6. OneAhead'
    <3> SUFFICES ASSUME ~late' PROVE Len(ring') - Remaining' + Len(line') + PacketLen * requests' <= PacketLen
      BY DEF OneAhead
    <3>1. requests = 0 /\ Len(line) = 0
      BY <2>1, <2>2
    <3>2. requests' = 1 /\ Len(line') = 0
      BY <1>2, <3>1
    <3> QED BY <1>1, <2>2, <2>5, <3>2
  <2> QED BY <1>1, <2>2, <2>4, <2>5, <2>6 DEF NeverWaitsForEcu
<1> QED BY <1>4, <1>5

\* The steps of ecu_read_data that take no byte leave Remaining as it is.
LEMMA EntryRemaining ==
  ASSUME TypeOK, Course, BeginEntry \/ EndSkip \/ EndValue
  PROVE  Remaining' = Remaining
<1>1. PacketLen \in Nat /\ len \in Nat
  BY PacketAssumption DEF TypeOK
<1>2. CASE BeginEntry
  <2>1. Remaining = PacketLen - Offset[data_count]
    BY <1>2 DEF BeginEntry, Remaining
  <2>2. CASE data_count = Len(Table) + 1 /\ at' = "poll"
    BY <1>1, <2>1, <2>2, TableType DEF Remaining
  <2>3. CASE /\ data_count <= Len(Table)
             /\ at' = IF Table[data_count].empty THEN "skip" ELSE "value"
             /\ len' = Table[data_count].len /\ UNCHANGED data_count
    <3>1. data_count \in 1 .. Len(Table)
      BY <2>3, TableType DEF TypeOK
    <3>2. /\ Offset[data_count + 1] = Offset[data_count] + Table[data_count].len
          /\ Offset[data_count] \in Nat /\ Table[data_count].len \in Nat
      BY <3>1, TableType
    <3>3. Remaining' = PacketLen - Offset[data_count + 1] + Table[data_count].len
      BY <2>3 DEF Remaining
    <3> QED BY <1>1, <2>1, <3>2, <3>3
  <2> QED BY <1>2, <2>2, <2>3 DEF BeginEntry
<1>3. CASE EndSkip
  <2>1. /\ at = "skip" /\ len = 0 /\ at' = "value" /\ data_count' = data_count + 1
        /\ len' = Table[data_count + 1].len
    BY <1>3 DEF EndSkip
  <2>2. data_count + 1 \in 1 .. Len(Table)
    BY <2>1, TableType DEF Course
  <2>3. /\ Offset[data_count + 1] \in Nat /\ Table[data_count + 1].len \in Nat
        /\ Offset[(data_count + 1) + 1] = Offset[data_count + 1] + Table[data_count + 1].len
    BY <2>2, TableType
  <2>4. Remaining = PacketLen - Offset[data_count + 1] + 0
    BY <2>1 DEF Remaining
  <2>5. Remaining' = PacketLen - Offset[(data_count + 1) + 1] + Table[data_count + 1].len
    BY <2>1 DEF Remaining
  <2> QED BY <1>1, <2>3, <2>4, <2>5
<1>4. CASE EndValue
  <2>1. at = "value" /\ len = 0 /\ at' = "entry" /\ data_count' = data_count + 1
    BY <1>4 DEF EndValue
  <2>2. data_count \in 1 .. Len(Table)
    BY <2>1 DEF Course
  <2>3. Offset[data_count + 1] \in Nat
    BY <2>2, TableType
  <2> QED BY <1>1, <2>1, <2>3 DEF Remaining
<1> QED BY <1>2, <1>3, <1>4

\* Reading a byte makes it one less.
LEMMA ReadRemaining ==
  ASSUME TypeOK, Course, ReadByte
  PROVE  Remaining' = Remaining - 1
<1>1. at \in {"skip", "value"} /\ len > 0 /\ len' = len - 1 /\ UNCHANGED <<at, data_count>>
  BY DEF ReadByte
<1>2. data_count \in 1 .. Len(Table) /\ Offset[data_count + 1] \in Nat
  BY <1>1, TableType DEF Course
<1>3. PICK o \in Nat : o = Offset[data_count + 1]
  BY <1>2
<1>4. Remaining = PacketLen - o + len
  BY <1>1, <1>3 DEF Remaining
<1>5. Remaining' = PacketLen - o + (len - 1)
  BY <1>1, <1>3 DEF Remaining
<1>6. PacketLen \in Nat /\ len \in Nat
  BY PacketAssumption DEF TypeOK
<1> QED BY <1>4, <1>5, <1>6

\* ecu_read_data.
LEMMA ReadSteps ==
  ASSUME IInv, ecu_read_data
  PROVE  IInv'
<1> USE DEF IInv
<1>1. /\ Len(ring) \in Nat /\ Len(line) \in Nat /\ PacketLen \in Nat /\ len \in Nat
      /\ PacketLen * requests \in Nat
  BY Sizes, Product DEF TypeOK
<1>2. Remaining \in Int
  BY RemainingBound
<1>3. UNCHANGED <<requests, line, number, faults, late, serving>>
  BY DEF ecu_read_data, BeginEntry, ReadByte, EndSkip, EndValue, ecuVars
<1>4. ASSUME UNCHANGED ring, Remaining' = Remaining PROVE Len(ring') < RingSize /\ NeverWaitsForEcu' /\ OneAhead'
  BY <1>3, <1>4 DEF NeverWaitsForEcu, OneAhead
<1>5. CASE BeginEntry
  <2>1. at = "entry" /\ UNCHANGED ring /\ value' = <<>> /\ value' \in Seq(EcuByte)
    BY <1>5, EmptySeq DEF BeginEntry
  <2>2. Remaining' = Remaining
    BY <1>5, EntryRemaining
  <2>3. CASE data_count = Len(Table) + 1 /\ at' = "poll" /\ data_count' = 1 /\ UNCHANGED len
    <3>1. Course'
      BY <2>3 DEF Course
    <3>2. TypeOK'
      BY <1>3, <2>1, <2>3, TableType DEF TypeOK
    <3> QED BY <1>4, <2>1, <2>2, <3>1, <3>2
  <2>4. CASE /\ data_count <= Len(Table)
             /\ at' = IF Table[data_count].empty THEN "skip" ELSE "value"
             /\ len' = Table[data_count].len /\ UNCHANGED data_count
    <3>1. data_count \in 1 .. Len(Table)
      BY <2>4, TableType DEF TypeOK
    <3>2. Table[data_count].len \in Nat
      BY <3>1, TableType
    <3>3. Course'
      BY <2>4, <3>1, <3>2 DEF Course
    <3>4. TypeOK'
      BY <1>3, <2>1, <2>4, <3>2 DEF TypeOK
    <3> QED BY <1>4, <2>1, <2>2, <3>3, <3>4
  <2> QED BY <1>5, <2>3, <2>4 DEF BeginEntry
<1>6. CASE ReadByte
  <2>1. /\ at \in {"skip", "value"} /\ len > 0 /\ len' = len - 1
        /\ ring # <<>> /\ ring' = Tail(ring) /\ UNCHANGED <<at, data_count>>
        /\ value' = IF at = "value" THEN Append(value, Head(ring)) ELSE value
    BY <1>6 DEF ReadByte
  <2>2. ring' \in Seq(EcuByte) /\ Len(ring') = Len(ring) - 1 /\ Head(ring) \in EcuByte
    BY <2>1, HeadTailProperties DEF TypeOK
  <2>3. value' \in Seq(EcuByte)
    <3>1. \A b \in EcuByte : Append(value, b) \in Seq(EcuByte)
      BY AppendProperties DEF TypeOK
    <3> QED BY <2>1, <2>2, <3>1, Zenon DEF TypeOK
  <2>4. /\ data_count \in 1 .. Len(Table) /\ len <= Table[data_count].len
        /\ Table[data_count].len \in Nat
    BY <2>1, TableType DEF Course
  <2>5. Remaining' = Remaining - 1
    BY <1>6, ReadRemaining
  <2>6. Course'
    BY <1>1, <2>1, <2>4 DEF Course
  <2>7. TypeOK'
    BY <1>1, <1>3, <2>1, <2>2, <2>3 DEF TypeOK
  <2>8. Len(ring') < RingSize /\ NeverWaitsForEcu' /\ OneAhead'
    BY <1>1, <1>2, <1>3, <2>2, <2>5, PacketAssumption DEF NeverWaitsForEcu, OneAhead
  <2> QED BY <2>6, <2>7, <2>8
<1>7. CASE EndSkip
  <2>1. /\ at = "skip" /\ len = 0 /\ at' = "value" /\ data_count' = data_count + 1
        /\ len' = Table[data_count + 1].len /\ UNCHANGED <<ring, value>>
    BY <1>7 DEF EndSkip
  <2>2. data_count \in 1 .. Len(Table) /\ data_count + 1 \in 1 .. Len(Table)
    BY <2>1, TableType DEF Course
  <2>3. Table[data_count + 1].len \in Nat
    BY <2>2, TableType
  <2>4. Remaining' = Remaining
    BY <1>7, EntryRemaining
  <2>5. Course'
    BY <2>1, <2>2, <2>3 DEF Course
  <2>6. TypeOK'
    BY <1>3, <2>1, <2>2, <2>3, TableType DEF TypeOK
  <2> QED BY <1>4, <2>1, <2>4, <2>5, <2>6
<1>8. CASE EndValue
  <2>1. /\ at = "value" /\ len = 0 /\ at' = "entry" /\ data_count' = data_count + 1
        /\ UNCHANGED <<ring, len, value>>
    BY <1>8 DEF EndValue
  <2>2. data_count \in 1 .. Len(Table)
    BY <2>1 DEF Course
  <2>3. Remaining' = Remaining
    BY <1>8, EntryRemaining
  <2>4. Course'
    BY <2>1 DEF Course
  <2>5. TypeOK'
    BY <1>3, <2>1, <2>2, TableType DEF TypeOK
  <2> QED BY <1>4, <2>1, <2>3, <2>4, <2>5
<1> QED BY <1>5, <1>6, <1>7, <1>8 DEF ecu_read_data

\* The inductive invariant holds in every reachable state.
THEOREM Invariance == Spec => []IInv
<1>1. IInv /\ [Next]_vars => IInv'
  <2> SUFFICES ASSUME IInv, [Next]_vars PROVE IInv'
    OBVIOUS
  <2>1. CASE UNCHANGED vars
    BY <2>1 DEF vars, nodeVars, ecuVars, IInv, TypeOK, Course, NeverWaitsForEcu, OneAhead, Remaining
  <2> QED BY <2>1, LineSteps, LoopSteps, ReadSteps DEF Next
<1> QED BY <1>1, InitHolds, PTL DEF Spec

\* Every variable keeps its type; the place in the table stays in the table.
THEOREM TypeCorrect == Spec => []TypeOK
<1>1. IInv => TypeOK
  BY DEF IInv
<1> QED BY <1>1, Invariance, PTL

\* ecu_read_data never waits for a byte (ecu.c:154-163).
THEOREM LoopNeverWaits == Spec => []NeverWaitsForEcu
<1>1. IInv => NeverWaitsForEcu
  BY DEF IInv
<1> QED BY <1>1, Invariance, PTL

\* The ring holds whatever the ECU answers, as long as it answers in time
\* (protocol.c:184, ecu.c:105, 124-127).
THEOREM RingSuffices == Spec => []EveryAnswerFits
<1>1. IInv => EveryAnswerFits
  <2> SUFFICES ASSUME IInv, ~late PROVE Len(ring) + Len(line) + PacketLen * requests < RingSize
    BY DEF EveryAnswerFits
  <2>1. /\ Len(ring) \in Nat /\ Len(line) \in Nat /\ PacketLen \in Nat
        /\ PacketLen * requests \in Nat
    BY Sizes, Product DEF IInv, TypeOK
  <2>2. Remaining \in Int /\ Remaining <= PacketLen
    BY RemainingBound DEF IInv
  <2>3. Len(ring) - Remaining + Len(line) + PacketLen * requests <= PacketLen
    BY DEF IInv, OneAhead
  <2> QED BY <2>1, <2>2, <2>3, PacketAssumption
<1> QED BY <1>1, Invariance, PTL

-----------------------------------------------------------------------------
(***************************************************************************)
(* The bytes.                                                              *)
(***************************************************************************)

\* What is on its way behind the packet being read, in the ring and on the line.
Ahead == Len(ring) - Remaining + Len(line)

\* The first q bytes of s are the last q of packet p.
EndOf(s, q, p) == \A i \in 1 .. q : s[i] = [packet |-> p, place |-> PacketLen - q + i]

\* The n bytes of s behind the first q are of packet p.  The first of them is byte
\* b + 1 of a that are left of it, so that PacketLen - a are lost.
PartOf(s, q, n, b, p, a) ==
  \A i \in 1 .. n :
    /\ s[q + i].packet = p
    /\ b + i <= s[q + i].place /\ s[q + i].place <= PacketLen - a + b + i

\* Unless an answer was late, the ring begins with the rest of the packet being
\* read, and all that follows is of the packet the ECU sent last, in order.
Stream ==
  ~late =>
    /\ EndOf(ring, Remaining, serving)
    /\ PartOf(ring, Remaining, Len(ring) - Remaining, 0, number, Ahead)
    /\ PartOf(line, 0, Len(line), Len(ring) - Remaining, number, Ahead)

\* A value has as many bytes as have been read of its entry.
ValueRead ==
  ~late =>
    /\ at = "skip" => value = <<>>
    /\ at = "value" => Len(value) + len = Table[data_count].len
    /\ ValuesWhole

\* Every set of numbers has a least one.
LEMMA LeastNatural ==
  ASSUME NEW T \in SUBSET Nat, T # {}
  PROVE  \E n \in T : \A m \in T : n <= m
<1>1. PICK R : R = OpToRel(<, Nat)
  OBVIOUS
<1>2. IsWellFoundedOn(R, Nat)
  BY <1>1, NatLessThanWellFounded
<1>3. PICK n \in T : \A m \in T : ~ (<<m, n>> \in R)
  BY <1>2, WFMin
<1>4. \A m \in T : m < n => <<m, n>> \in R
  BY <1>1 DEF OpToRel
<1>5. \A m \in T : ~(m < n)
  BY <1>3, <1>4, Zenon
<1>6. \A m \in T : m \in Nat /\ n \in Nat
  BY Zenon
<1>7. \A m \in T : n <= m
  BY <1>5, <1>6
<1> QED BY <1>7

\* No entry begins behind the end of the packet.  From the end of the table to
\* its beginning: the entry next to the first that does would do so, too.
LEMMA OffsetBound == \A n \in 1 .. Len(Table) + 1 : Offset[n] <= PacketLen
<1> DEFINE last == Len(Table) + 1
           T == {k \in 0 .. Len(Table) : Offset[last - k] > PacketLen}
<1>1. Len(Table) \in Nat /\ PacketLen \in Nat
  BY TableType, PacketAssumption
<1>2. T = {}
  <2> SUFFICES ASSUME T # {} PROVE FALSE
    OBVIOUS
  <2>1. T \in SUBSET Nat
    BY <1>1
  <2>2. PICK k \in T : \A m \in T : k <= m
    BY <2>1, LeastNatural
  <2>3. k \in 0 .. Len(Table) /\ Offset[last - k] > PacketLen
    OBVIOUS
  <2>4. k # 0
    <3>1. k = 0 => last - k = last
      BY <1>1
    <3> QED BY <1>1, <2>3, <3>1, TableType
  <2>5. k - 1 \in 0 .. Len(Table) /\ ~(k <= k - 1)
    BY <1>1, <2>3, <2>4
  <2>6. ~(Offset[last - (k - 1)] > PacketLen)
    BY <2>2, <2>5
  <2>7. last - k \in 1 .. Len(Table) /\ last - (k - 1) = (last - k) + 1
    BY <1>1, <2>3, <2>4
  <2>8. /\ Offset[last - k] \in Nat /\ Offset[(last - k) + 1] \in Nat
        /\ Table[last - k].len \in Nat
        /\ Offset[(last - k) + 1] = Offset[last - k] + Table[last - k].len
    <3>1. (last - k) + 1 \in 1 .. last /\ last - k \in 1 .. last
      BY <1>1, <2>7
    <3> QED BY <2>7, <3>1, TableType
  <2>9. PICK x \in Nat, y \in Nat, z \in Nat :
          x = Offset[last - k] /\ y = Offset[(last - k) + 1] /\ z = Table[last - k].len
    BY <2>8
  <2>10. y = x + z /\ x > PacketLen /\ ~(y > PacketLen)
    BY <2>3, <2>6, <2>7, <2>8, <2>9
  <2> QED BY <2>10, PacketAssumption
<1>3. ASSUME NEW n \in 1 .. Len(Table) + 1 PROVE Offset[n] <= PacketLen
  <2>1. last - n \in 0 .. Len(Table) /\ last - (last - n) = n
    BY <1>1
  <2>2. ~(Offset[n] > PacketLen)
    BY <1>2, <2>1
  <2>3. Offset[n] \in Nat
    BY TableType
  <2> QED BY <1>1, <2>2, <2>3
<1> QED BY <1>3

\* What remains of a packet is a number of bytes, all of them in the ring.
LEMMA RemainingNat ==
  ASSUME IInv
  PROVE  /\ Remaining \in Nat /\ Len(ring) \in Nat /\ Len(line) \in Nat
         /\ Remaining <= Len(ring) /\ PacketLen \in Nat
         /\ at \in {"skip", "value"} => len <= Remaining
<1> USE DEF IInv
<1>1. Len(ring) \in Nat /\ Len(line) \in Nat /\ PacketLen \in Nat /\ len \in Nat
  BY Sizes DEF TypeOK
<1>2. Remaining <= Len(ring)
  BY <1>1, RemainingBound DEF NeverWaitsForEcu
<1>3. CASE at = "poll"
  BY <1>1, <1>2, <1>3 DEF Remaining
<1>4. CASE at = "entry"
  BY <1>1, <1>2, <1>4, TableType, OffsetBound DEF Remaining, TypeOK
<1>5. CASE at \in {"skip", "value"}
  <2>1. data_count \in 1 .. Len(Table)
    BY <1>5 DEF Course
  <2>2. data_count + 1 \in 1 .. Len(Table) + 1
    BY <2>1, TableType
  <2>3. Offset[data_count + 1] \in Nat /\ Offset[data_count + 1] <= PacketLen
    BY <2>2, TableType, OffsetBound
  <2> QED BY <1>1, <1>2, <1>5, <2>3 DEF Remaining
<1> QED BY <1>1, <1>2, <1>3, <1>4, <1>5 DEF TypeOK


\* The numbers in Stream.
LEMMA AheadNat ==
  ASSUME IInv
  PROVE  /\ Ahead \in Nat /\ Len(ring) - Remaining \in Nat
         /\ Ahead = Len(ring) - Remaining + Len(line)
         /\ ~late => Ahead + PacketLen * requests <= PacketLen /\ PacketLen * requests \in Nat
<1>1. /\ Remaining \in Nat /\ Len(ring) \in Nat /\ Len(line) \in Nat
      /\ Remaining <= Len(ring) /\ PacketLen \in Nat
  BY RemainingNat
<1>2. PacketLen * requests \in Nat
  BY Product DEF IInv, TypeOK
<1> QED BY <1>1, <1>2 DEF Ahead, IInv, OneAhead

\* The ECU answers only when nothing else is on its way.
LEMMA StreamAnswer ==
  ASSUME IInv, IInv', Stream, EcuAnswers
  PROVE  Stream'
<1> SUFFICES ASSUME ~late' PROVE Stream'
  BY DEF Stream
<1>1. ~late /\ requests > 0 /\ UNCHANGED <<nodeVars, late, serving>>
  BY DEF EcuAnswers
<1>2. PacketLen \in Nat \ {0} /\ requests \in Nat
  BY PacketAssumption DEF IInv, TypeOK
<1>3. PICK r \in Nat, l \in Nat, m \in Nat :
        r = Remaining /\ l = Len(ring) /\ m = Len(line) /\ r <= l
  BY RemainingNat
<1>4. Remaining' = r /\ Len(ring') = l
  BY <1>1, <1>3 DEF nodeVars, Remaining
<1>5. l = r /\ m = 0
  <2>1. PacketLen * requests >= PacketLen
    <3>1. requests - 1 \in Nat /\ requests = (requests - 1) + 1
      BY <1>1, <1>2
    <3> QED BY <1>2, <3>1, Product
  <2>2. l - r + m + PacketLen * requests <= PacketLen /\ PacketLen * requests \in Nat
    BY <1>1, <1>3, AheadNat
  <2> QED BY <1>2, <1>3, <2>1, <2>2
<1>6. PICK a : a = [k \in 1 .. PacketLen |-> [packet |-> number', place |-> k]]
  OBVIOUS
<1>7. line' = a
  <2>1. line \in Seq(EcuByte) /\ line = <<>>
    BY <1>3, <1>5, EmptySeq DEF IInv, TypeOK
  <2>2. number' \in 1 .. Packets
    BY DEF IInv, TypeOK
  <2>3. a \in [1 .. PacketLen -> EcuByte]
    BY <1>6, <2>2 DEF EcuByte
  <2>4. a \in Seq(EcuByte)
    BY <1>2, <2>3
  <2>5. line' = line \o a
    BY <1>6 DEF EcuAnswers
  <2> QED BY <2>1, <2>4, <2>5, ConcatEmptySeq
<1>8. Len(line') = PacketLen
  BY <1>2, <1>6, <1>7
<1>9. Ahead' = PacketLen
  BY <1>2, <1>3, <1>4, <1>5, <1>8 DEF Ahead
<1>10. EndOf(ring', r, serving')
  BY <1>1, <1>3 DEF Stream, nodeVars
<1>11. PartOf(ring', r, l - r, 0, number', PacketLen)
  BY <1>3, <1>5 DEF PartOf
<1>12. PartOf(line', 0, PacketLen, 0, number', PacketLen)
  BY <1>2, <1>6, <1>7 DEF PartOf
<1> QED BY <1>3, <1>4, <1>5, <1>8, <1>9, <1>10, <1>11, <1>12 DEF Stream

\* A byte goes from the line into the ring, which is not full.
LEMMA StreamArrival ==
  ASSUME IInv, IInv', Stream, ByteArrives
  PROVE  Stream'
<1> SUFFICES ASSUME ~late' PROVE Stream'
  BY DEF Stream
<1>1. /\ ~late /\ line # <<>> /\ line' = Tail(line)
      /\ ring' = Append(IF Len(ring) = RingSize - 1 THEN Tail(ring) ELSE ring, Head(line))
      /\ UNCHANGED <<at, data_count, len, number, serving, late, requests>>
  BY DEF ByteArrives
<1>2. PICK r \in Nat, l \in Nat, m \in Nat :
        r = Remaining /\ l = Len(ring) /\ m = Len(line) /\ r <= l
  BY RemainingNat
<1>3. ring \in Seq(EcuByte) /\ line \in Seq(EcuByte)
  BY DEF IInv, TypeOK
<1>4. PICK b \in EcuByte : b = Head(line)
  BY <1>1, <1>3, HeadTailProperties
<1>5. m > 0 /\ Len(line') = m - 1 /\ b = line[1] /\ \A i \in 1 .. m - 1 : line'[i] = line[i + 1]
  <2>1. Len(line') = m - 1 /\ b = line[1] /\ \A i \in 1 .. Len(Tail(line)) : Tail(line)[i] = line[i + 1]
    BY <1>1, <1>2, <1>3, <1>4, HeadTailProperties
  <2>2. m # 0
    BY <1>1, <1>2, <1>3, EmptySeq
  <2> QED BY <1>1, <1>2, <2>1, <2>2
<1>6. l # RingSize - 1
  <2>1. l - r + m + PacketLen * requests <= PacketLen /\ PacketLen * requests \in Nat
    BY <1>1, <1>2, AheadNat
  <2>2. r <= PacketLen /\ PacketLen \in Nat /\ RingSize \in Nat /\ 2 * PacketLen < RingSize
    BY <1>2, RemainingBound, PacketAssumption DEF IInv
  <2> QED BY <1>2, <1>5, <2>1, <2>2
<1>7. ring' = Append(ring, b)
  BY <1>1, <1>2, <1>4, <1>6
<1>8. Len(ring') = l + 1 /\ ring'[l + 1] = b /\ \A i \in 1 .. l : ring'[i] = ring[i]
  BY <1>2, <1>3, <1>4, <1>7, AppendProperties
<1>9. Remaining' = r
  BY <1>1, <1>2 DEF Remaining
<1>10. PICK a \in Int : a = Ahead /\ a = l - r + m
  BY <1>2 DEF Ahead
<1>11. Ahead' = a
  BY <1>2, <1>5, <1>8, <1>9, <1>10 DEF Ahead
<1>12. /\ EndOf(ring, r, serving)
       /\ PartOf(ring, r, l - r, 0, number, a)
       /\ PartOf(line, 0, m, l - r, number, a)
  BY <1>1, <1>2, <1>10 DEF Stream
<1>13. EndOf(ring', r, serving)
  BY <1>2, <1>8, <1>12 DEF EndOf
<1>14. PartOf(ring', r, l + 1 - r, 0, number, a)
  <2> SUFFICES ASSUME NEW i \in 1 .. l + 1 - r
               PROVE  /\ ring'[r + i].packet = number
                      /\ 0 + i <= ring'[r + i].place
                      /\ ring'[r + i].place <= PacketLen - a + 0 + i
    BY DEF PartOf
  <2>1. CASE i \in 1 .. l - r
    <3>1. ring'[r + i] = ring[r + i]
      BY <1>2, <1>8, <2>1
    <3> QED BY <1>12, <2>1, <3>1 DEF PartOf
  <2>2. CASE i = l + 1 - r
    <3>1. r + i = l + 1 /\ 0 + 1 = 1
      BY <1>2, <2>2
    <3>2. ring'[r + i] = line[0 + 1]
      BY <1>5, <1>8, <3>1
    <3>3. 1 \in 1 .. m
      BY <1>2, <1>5
    <3>4. /\ line[0 + 1].packet = number
          /\ l - r + 1 <= line[0 + 1].place
          /\ line[0 + 1].place <= PacketLen - a + (l - r) + 1
      BY <1>12, <3>3 DEF PartOf
    <3>5. l - r + 1 = i /\ 0 + i = i
      BY <1>2, <2>2
    <3>6. PacketLen - a + (l - r) + 1 = PacketLen - a + 0 + i
      BY <1>2, <1>10, <2>2, PacketAssumption
    <3> QED BY <3>2, <3>4, <3>5, <3>6
  <2> QED BY <1>2, <2>1, <2>2
<1>15. PartOf(line', 0, m - 1, l + 1 - r, number, a)
  <2> SUFFICES ASSUME NEW i \in 1 .. m - 1
               PROVE  /\ line'[0 + i].packet = number
                      /\ (l + 1 - r) + i <= line'[0 + i].place
                      /\ line'[0 + i].place <= PacketLen - a + (l + 1 - r) + i
    BY DEF PartOf
  <2>1. i + 1 \in 1 .. m /\ 0 + i = i /\ 0 + (i + 1) = i + 1
    BY <1>2
  <2>2. line'[0 + i] = line[0 + (i + 1)]
    BY <1>5, <2>1
  <2>3. /\ line[0 + (i + 1)].packet = number
        /\ (l - r) + (i + 1) <= line[0 + (i + 1)].place
        /\ line[0 + (i + 1)].place <= PacketLen - a + (l - r) + (i + 1)
    BY <1>12, <2>1 DEF PartOf
  <2>4. /\ (l - r) + (i + 1) = (l + 1 - r) + i
        /\ PacketLen - a + (l - r) + (i + 1) = PacketLen - a + (l + 1 - r) + i
    BY <1>2, <1>10, PacketAssumption
  <2> QED BY <2>2, <2>3, <2>4
<1>16. Len(ring') - Remaining' = l + 1 - r
  BY <1>8, <1>9
<1> QED BY <1>1, <1>5, <1>9, <1>11, <1>13, <1>14, <1>15, <1>16, <1>8 DEF Stream

\* A byte is lost: those in front of it are as far from the end as before, those
\* behind it as far from the beginning.
LEMMA StreamLoss ==
  ASSUME IInv, IInv', Stream, ByteLost
  PROVE  Stream'
<1> SUFFICES ASSUME ~late' PROVE Stream'
  BY DEF Stream
<1>1. /\ ~late /\ line # <<>> /\ line' = Tail(line)
      /\ UNCHANGED <<ring, at, data_count, len, number, serving>>
  BY DEF ByteLost, nodeVars
<1>2. PICK r \in Nat, l \in Nat, m \in Nat :
        r = Remaining /\ l = Len(ring) /\ m = Len(line) /\ r <= l
  BY RemainingNat
<1>3. line \in Seq(EcuByte) /\ ring \in Seq(EcuByte)
  BY DEF IInv, TypeOK
<1>4. Len(line') = m - 1 /\ \A i \in 1 .. m - 1 : line'[i] = line[i + 1]
  <2>1. Len(Tail(line)) = m - 1 /\ \A i \in 1 .. Len(Tail(line)) : Tail(line)[i] = line[i + 1]
    BY <1>1, <1>2, <1>3, HeadTailProperties
  <2> QED BY <1>1, <1>2, <2>1
<1>5. PICK a \in Int : a = Ahead /\ a = l - r + m
  <2>1. Ahead = l - r + m /\ l - r + m \in Int
    BY <1>2 DEF Ahead
  <2> QED BY <2>1
<1>6. Remaining' = r /\ Ahead' = a - 1 /\ Len(ring') = l
  <2>1. Remaining' = r /\ Len(ring') = l
    BY <1>1, <1>2 DEF Remaining
  <2>2. Ahead' = l - r + (m - 1)
    BY <1>4, <2>1 DEF Ahead
  <2> QED BY <1>2, <1>5, <2>1, <2>2
<1>7. /\ EndOf(ring, r, serving)
      /\ PartOf(ring, r, l - r, 0, number, a)
      /\ PartOf(line, 0, m, l - r, number, a)
  BY <1>1, <1>2, <1>5 DEF Stream
<1>8. PartOf(ring', r, l - r, 0, number, a - 1)
  <2> SUFFICES ASSUME NEW i \in 1 .. l - r
               PROVE  /\ ring[r + i].packet = number
                      /\ 0 + i <= ring[r + i].place
                      /\ ring[r + i].place <= PacketLen - (a - 1) + 0 + i
    BY <1>1 DEF PartOf
  <2>1. /\ ring[r + i].packet = number
        /\ 0 + i <= ring[r + i].place
        /\ ring[r + i].place <= PacketLen - a + 0 + i
    BY <1>7 DEF PartOf
  <2>2. PICK k : k = ring[r + i].place
    OBVIOUS
  <2>3. k \in Nat
    <3>1. r + i \in 1 .. Len(ring)
      BY <1>2
    <3>2. ring[r + i] \in EcuByte
      BY <1>3, <3>1, ElementOfSeq
    <3> QED BY <2>2, <3>2, PacketAssumption DEF EcuByte
  <2>4. k <= PacketLen - (a - 1) + 0 + i
    BY <1>2, <1>5, <2>1, <2>2, <2>3, PacketAssumption
  <2> QED BY <2>1, <2>2, <2>4
<1>9. PartOf(line', 0, m - 1, l - r, number, a - 1)
  <2> SUFFICES ASSUME NEW i \in 1 .. m - 1
               PROVE  /\ line'[0 + i].packet = number
                      /\ (l - r) + i <= line'[0 + i].place
                      /\ line'[0 + i].place <= PacketLen - (a - 1) + (l - r) + i
    BY DEF PartOf
  <2>1. i + 1 \in 1 .. m /\ 0 + i = i /\ 0 + (i + 1) = i + 1
    BY <1>2
  <2>2. PICK k : k = line[0 + (i + 1)].place
    OBVIOUS
  <2>3. line'[0 + i] = line[0 + (i + 1)]
    BY <1>4, <2>1
  <2>4. /\ line[0 + (i + 1)].packet = number
        /\ (l - r) + (i + 1) <= k
        /\ k <= PacketLen - a + (l - r) + (i + 1)
    BY <1>7, <2>1, <2>2 DEF PartOf
  <2>5. k \in Nat
    <3>1. line[0 + (i + 1)] \in EcuByte
      BY <1>2, <1>3, <2>1, ElementOfSeq
    <3> QED BY <2>2, <3>1, PacketAssumption DEF EcuByte
  <2>6. (l - r) + i <= k /\ k <= PacketLen - (a - 1) + (l - r) + i
    BY <1>2, <1>5, <2>4, <2>5, PacketAssumption
  <2> QED BY <2>2, <2>3, <2>4, <2>6
<1> QED BY <1>1, <1>2, <1>4, <1>6, <1>7, <1>8, <1>9 DEF Stream


\* A packet is found: nothing of it is lost, and nothing else is on its way.
LEMMA StreamFind ==
  ASSUME IInv, IInv', Stream, FindPacket
  PROVE  Stream'
<1> SUFFICES ASSUME ~late' PROVE Stream'
  BY DEF Stream
<1>1. /\ ~late /\ Len(ring) = PacketLen /\ serving' = Head(ring).packet
      /\ at = "poll" /\ at' = "entry"
      /\ UNCHANGED <<ring, line, data_count, len, number>>
  BY DEF FindPacket, ecu_has_packet
<1>2. PICK n \in Nat, m \in Nat : n = PacketLen /\ m = Len(line) /\ n > 0
  <2>1. PacketLen \in Nat /\ PacketLen > 0 /\ Len(line) \in Nat
    BY RemainingNat, PacketAssumption
  <2> QED BY <2>1
<1>3. Remaining = 0 /\ Remaining' = n
  <2>1. data_count = 1
    BY <1>1 DEF IInv, Course
  <2> QED BY <1>1, <1>2, <2>1, TableType DEF Remaining
<1>4. m = 0
  <2>1. Ahead = n - 0 + m
    BY <1>1, <1>2, <1>3 DEF Ahead
  <2>2. Ahead + PacketLen * requests <= PacketLen /\ PacketLen * requests \in Nat
    BY <1>1, AheadNat
  <2> QED BY <1>2, <2>1, <2>2
<1>5. Ahead = n /\ Ahead' = 0
  <2>1. Ahead = n - 0 + 0 /\ Ahead' = n - n + 0
    BY <1>1, <1>2, <1>3, <1>4 DEF Ahead
  <2> QED BY <1>2, <2>1
<1>6. ring \in Seq(EcuByte) /\ ring # <<>>
  BY <1>1, <1>2, EmptySeq DEF IInv, TypeOK
<1>7. PartOf(ring, 0, n, 0, number, n)
  <2>1. n - 0 = n
    BY <1>2
  <2> QED BY <1>1, <1>2, <1>3, <1>5, <2>1 DEF Stream
<1>8. ASSUME NEW i \in 1 .. n PROVE ring[i] = [packet |-> number, place |-> i]
  <2>1. i \in 1 .. Len(ring) /\ 0 + i = i
    BY <1>1, <1>2
  <2>2. ring[i] \in EcuByte
    BY <1>6, <2>1, ElementOfSeq
  <2>3. PICK k \in Int : k = ring[i].place
    BY <2>2, PacketAssumption DEF EcuByte
  <2>4. ring[i].packet = number /\ i <= k /\ k <= PacketLen - n + 0 + i
    BY <1>7, <2>1, <2>3 DEF PartOf
  <2>5. ring[i].place = i
    <3>1. k = i
      BY <1>2, <2>4
    <3> QED BY <2>3, <3>1
  <2> QED BY <2>2, <2>4, <2>5 DEF EcuByte
<1>9. serving' = number
  <2>1. Head(ring) = ring[1]
    BY <1>6, HeadTailProperties
  <2>2. ring[1] = [packet |-> number, place |-> 1]
    BY <1>2, <1>8
  <2> QED BY <1>1, <2>1, <2>2
<1>10. EndOf(ring', n, serving')
  <2> SUFFICES ASSUME NEW i \in 1 .. n PROVE ring[i] = [packet |-> number, place |-> PacketLen - n + i]
    BY <1>1, <1>9 DEF EndOf
  <2>1. PacketLen - n + i = i
    BY <1>2
  <2> QED BY <1>8, <2>1
<1>11. \A q, b, p, a : PartOf(ring', q, 0, b, p, a) /\ PartOf(line', q, 0, b, p, a)
  BY DEF PartOf
<1>12. Len(ring') - Remaining' = 0 /\ Len(line') = 0
  BY <1>1, <1>2, <1>3, <1>4
<1> QED BY <1>3, <1>10, <1>11, <1>12 DEF Stream

\* The node gives up waiting when there is nothing to wait for, and starts anew.
LEMMA StreamTimeOut ==
  ASSUME IInv, IInv', Stream, TimeOut
  PROVE  Stream'
<1> SUFFICES ASSUME ~late' PROVE Stream'
  BY DEF Stream
<1>1. at = "poll" /\ at' = "poll" /\ ring' = <<>> /\ line' = <<>>
  BY DEF TimeOut
<1>2. Len(ring') = 0 /\ Len(line') = 0 /\ Remaining' = 0
  BY <1>1, EmptySeq DEF Remaining
<1>3. \A s, q, b, p, a : PartOf(s, q, 0, b, p, a) /\ EndOf(s, 0, p)
  BY DEF PartOf, EndOf
<1>4. Len(ring') - Remaining' = 0
  BY <1>2
<1> QED BY <1>2, <1>3, <1>4 DEF Stream

\* A byte is read.
LEMMA StreamRead ==
  ASSUME IInv, IInv', Stream, ReadByte, Remaining' = Remaining - 1
  PROVE  Stream'
<1> SUFFICES ASSUME ~late' PROVE Stream'
  BY DEF Stream
<1>1. /\ ~late /\ at \in {"skip", "value"} /\ len > 0 /\ ring # <<>> /\ ring' = Tail(ring)
      /\ UNCHANGED <<line, number, serving>>
  BY DEF ReadByte, ecuVars
<1>2. PICK r \in Nat, l \in Nat, m \in Nat :
        r = Remaining /\ l = Len(ring) /\ m = Len(line) /\ r <= l
  BY RemainingNat
<1>3. r > 0
  <2>1. len \in Nat /\ len <= r
    BY <1>1, <1>2, RemainingNat DEF IInv, TypeOK
  <2> QED BY <1>1, <1>2, <2>1
<1>4. Len(ring') = l - 1 /\ \A i \in 1 .. l - 1 : ring'[i] = ring[i + 1]
  <2>1. ring \in Seq(EcuByte)
    BY DEF IInv, TypeOK
  <2>2. Len(Tail(ring)) = l - 1 /\ \A i \in 1 .. Len(Tail(ring)) : Tail(ring)[i] = ring[i + 1]
    BY <1>1, <1>2, <2>1, HeadTailProperties
  <2> QED BY <1>1, <2>2
<1>5. Remaining' = r - 1 /\ Len(ring') - Remaining' = l - r /\ Len(line') = m
  <2>1. Remaining' = r - 1 /\ Len(line') = m
    BY <1>1, <1>2
  <2>2. Len(ring') - Remaining' = (l - 1) - (r - 1)
    BY <1>4, <2>1
  <2> QED BY <1>2, <2>1, <2>2
<1>6. PICK a : a = Ahead /\ Ahead' = a
  <2>1. Ahead = l - r + m /\ Ahead' = l - r + m
    BY <1>2, <1>5 DEF Ahead
  <2> QED BY <2>1
<1>7. /\ EndOf(ring, r, serving)
      /\ PartOf(ring, r, l - r, 0, number, a)
      /\ PartOf(line, 0, m, l - r, number, a)
  BY <1>1, <1>2, <1>6 DEF Stream
<1>8. EndOf(ring', r - 1, serving)
  <2> SUFFICES ASSUME NEW i \in 1 .. r - 1
               PROVE  ring'[i] = [packet |-> serving, place |-> PacketLen - (r - 1) + i]
    BY DEF EndOf
  <2>1. i + 1 \in 1 .. r /\ i \in 1 .. l - 1
    BY <1>2
  <2>2. ring[i + 1] = [packet |-> serving, place |-> PacketLen - r + (i + 1)]
    BY <1>7, <2>1 DEF EndOf
  <2>3. PacketLen - r + (i + 1) = PacketLen - (r - 1) + i
    BY <1>2, PacketAssumption
  <2> QED BY <1>4, <2>1, <2>2, <2>3
<1>9. PartOf(ring', r - 1, l - r, 0, number, a)
  <2> SUFFICES ASSUME NEW i \in 1 .. l - r PROVE ring'[(r - 1) + i] = ring[r + i]
    BY <1>7 DEF PartOf
  <2>1. (r - 1) + i \in 1 .. l - 1 /\ (r - 1) + i + 1 = r + i
    BY <1>2, <1>3
  <2> QED BY <1>4, <2>1
<1> QED BY <1>1, <1>5, <1>6, <1>7, <1>8, <1>9 DEF Stream

\* The other steps touch no byte.
LEMMA StreamStays ==
  ASSUME Stream, Remaining' = Remaining, UNCHANGED <<ring, line, number, serving, late>>
  PROVE  Stream'
<1>1. Ahead' = Ahead
  BY DEF Ahead
<1> QED BY <1>1 DEF Stream, EndOf, PartOf

\* The bytes of a value: the next one is the first that remains.
LEMMA ValueReadKept ==
  ASSUME IInv, IInv', Stream, ValueRead, Next
  PROVE  ValueRead'
<1> SUFFICES ASSUME ~late' PROVE ValueRead'
  BY DEF ValueRead
<1>1. ~late
  BY DEF Next, EcuAnswers, ByteArrives, ByteLost, RequestLost, FindPacket, TimeOut, ecu_read_data,
         BeginEntry, ReadByte, EndSkip, EndValue
<1>2. CASE UNCHANGED <<at, value, len, data_count, serving>>
  BY <1>1, <1>2 DEF ValueRead, ValuesWhole
<1>3. CASE at' \in {"poll", "entry"}
  BY <1>3 DEF ValueRead, ValuesWhole
<1>4. \A k \in DOMAIN <<>> : FALSE
  OBVIOUS
<1>5. CASE BeginEntry
  <2>1. value' = <<>>
    BY <1>5 DEF BeginEntry
  <2>2. CASE at' = "poll"
    BY <1>3, <2>2
  <2>3. CASE at' # "poll"
    <3>1. /\ at' \in {"skip", "value"} /\ len' = Table[data_count].len /\ UNCHANGED data_count
          /\ data_count <= Len(Table)
      BY <1>5, <2>3 DEF BeginEntry
    <3>2. Len(value') = 0
      BY <2>1
    <3>3. data_count \in 1 .. Len(Table)
      BY <3>1, TableType DEF IInv, TypeOK
    <3>4. Len(value') + len' = Table[data_count'].len
      BY <3>1, <3>2, <3>3, TableType
    <3>5. ValuesWhole'
      BY <1>4, <2>1 DEF ValuesWhole
    <3> QED BY <2>1, <3>4, <3>5 DEF ValueRead
  <2> QED BY <2>2, <2>3
<1>6. CASE EndSkip
  <2>1. /\ at = "skip" /\ at' = "value" /\ value' = value /\ data_count' = data_count + 1
        /\ len' = Table[data_count + 1].len
    BY <1>6 DEF EndSkip
  <2>2. value' = <<>> /\ Len(value') = 0
    BY <1>1, <2>1 DEF ValueRead
  <2>3. data_count + 1 \in 1 .. Len(Table)
    BY <2>1, TableType DEF IInv, Course
  <2>4. Len(value') + len' = Table[data_count'].len
    BY <2>1, <2>2, <2>3, TableType
  <2>5. ValuesWhole'
    BY <1>4, <2>2 DEF ValuesWhole
  <2> QED BY <2>1, <2>4, <2>5 DEF ValueRead
<1>7. CASE ReadByte
  <2>1. /\ at \in {"skip", "value"} /\ len > 0 /\ len' = len - 1 /\ ring # <<>>
        /\ UNCHANGED <<at, data_count, serving>>
        /\ value' = IF at = "value" THEN Append(value, Head(ring)) ELSE value
    BY <1>7 DEF ReadByte
  <2>2. CASE at = "skip"
    BY <1>1, <2>1, <2>2 DEF ValueRead, ValuesWhole
  <2>3. CASE at = "value"
    <3>1. /\ data_count \in 1 .. Len(Table) /\ data_count + 1 \in 1 .. Len(Table) + 1
          /\ ring \in Seq(EcuByte) /\ value \in Seq(EcuByte) /\ len \in Nat
      BY <2>3, TableType DEF IInv, Course, TypeOK
    <3>2. PICK o \in Nat, z \in Nat :
            /\ o = Offset[data_count] /\ z = Table[data_count].len
            /\ Offset[data_count + 1] = o + z
      <4>1. /\ Offset[data_count] \in Nat /\ Table[data_count].len \in Nat
            /\ Offset[data_count + 1] = Offset[data_count] + Table[data_count].len
        BY <3>1, TableType
      <4> QED BY <4>1
    <3>3. PICK v \in Nat : v = Len(value) /\ v + len = z
      BY <1>1, <2>3, <3>1, <3>2, LenProperties DEF ValueRead
    <3>4. Remaining = PacketLen - (o + z) + len
      BY <2>3, <3>2 DEF Remaining
    <3>5. Remaining \in Nat /\ len <= Remaining
      BY <2>1, RemainingNat
    <3>6. Head(ring) = [packet |-> serving, place |-> o + (v + 1)]
      <4>1. 1 \in 1 .. Remaining
        BY <2>1, <3>1, <3>5
      <4>2. ring[1] = [packet |-> serving, place |-> PacketLen - Remaining + 1]
        BY <1>1, <4>1 DEF Stream, EndOf
      <4>3. PacketLen - Remaining + 1 = o + (v + 1)
        <5>1. PICK y \in Nat : y = len
          BY <3>1
        <5>2. v + y = z /\ Remaining = PacketLen - (o + z) + y
          BY <3>3, <3>4, <5>1
        <5>3. PacketLen - (PacketLen - (o + z) + y) + 1 = o + (v + 1)
          <6>1. v + y = z /\ PacketLen \in Nat
            BY <5>2, PacketAssumption
          <6> QED BY <6>1
        <5> QED BY <5>2, <5>3
      <4> QED BY <2>1, <3>1, <4>2, <4>3, HeadTailProperties
    <3>7. PICK b \in EcuByte : b = Head(ring)
      BY <2>1, <3>1, HeadTailProperties
    <3>8. value' = Append(value, b)
      BY <2>1, <2>3, <3>7
    <3>9. Len(value') = v + 1 /\ value'[v + 1] = b /\ \A k \in 1 .. v : value'[k] = value[k]
      BY <3>1, <3>3, <3>8, AppendProperties
    <3>10. DOMAIN value' = 1 .. v + 1 /\ DOMAIN value = 1 .. v
      <4>1. value' \in Seq(EcuByte)
        BY <3>1, <3>8, AppendProperties
      <4> QED BY <3>1, <3>3, <3>9, <4>1, LenProperties
    <3>11. ASSUME NEW k \in 1 .. v + 1
           PROVE  value'[k] = [packet |-> serving, place |-> o + k]
      <4>1. CASE k \in 1 .. v
        BY <1>1, <2>3, <3>2, <3>9, <3>10, <4>1 DEF ValueRead, ValuesWhole
      <4>2. CASE k = v + 1
        BY <3>6, <3>7, <3>9, <4>2
      <4> QED BY <3>3, <4>1, <4>2
    <3>12. Len(value') + len' = z
      <4>1. PICK y \in Nat : y = len
        BY <3>1
      <4>2. v + y = z /\ len' = y - 1 /\ Len(value') = v + 1
        BY <2>1, <3>3, <3>9, <4>1
      <4>3. (v + 1) + (y - 1) = v + y
        OBVIOUS
      <4> QED BY <4>2, <4>3
    <3>13. ValuesWhole'
      BY <2>1, <3>2, <3>10, <3>11 DEF ValuesWhole
    <3> QED BY <2>1, <2>3, <3>2, <3>12, <3>13 DEF ValueRead
  <2> QED BY <2>1, <2>2, <2>3
<1>8. EcuAnswers \/ ByteArrives \/ ByteLost \/ RequestLost => UNCHANGED <<at, value, len, data_count, serving>>
  BY DEF EcuAnswers, ByteArrives, ByteLost, RequestLost, nodeVars
<1>9. FindPacket \/ TimeOut \/ EndValue => at' \in {"poll", "entry"}
  BY DEF FindPacket, TimeOut, EndValue
<1> QED BY <1>2, <1>3, <1>5, <1>6, <1>7, <1>8, <1>9 DEF Next, ecu_read_data

LEMMA StreamInvariance == Spec => [](IInv /\ Stream /\ ValueRead)
<1>1. Init => Stream /\ ValueRead
  <2> SUFFICES ASSUME Init PROVE Stream /\ ValueRead
    OBVIOUS
  <2>1. Len(ring) = 0 /\ Len(line) = 0 /\ Remaining = 0 /\ at = "poll"
    BY EmptySeq DEF Init, Remaining
  <2>2. Len(ring) - Remaining = 0
    BY <2>1
  <2>3. \A s, q, b, p, a : PartOf(s, q, 0, b, p, a) /\ EndOf(s, 0, p)
    BY DEF PartOf, EndOf
  <2> QED BY <2>1, <2>2, <2>3 DEF Stream, ValueRead, ValuesWhole
<1>2. IInv /\ IInv' /\ Stream /\ ValueRead /\ [Next]_vars => Stream' /\ ValueRead'
  <2> SUFFICES ASSUME IInv, IInv', Stream, ValueRead, [Next]_vars PROVE Stream' /\ ValueRead'
    OBVIOUS
  <2>1. CASE UNCHANGED vars
    <3>1. UNCHANGED <<ring, line, number, serving, late, at, data_count, len, value>>
      BY <2>1 DEF vars, nodeVars, ecuVars
    <3>2. Remaining' = Remaining
      BY <3>1 DEF Remaining
    <3> QED BY <3>1, <3>2, StreamStays DEF ValueRead, ValuesWhole
  <2>2. CASE Next
    <3>1. ValueRead'
      BY <2>2, ValueReadKept
    <3>2. Stream'
      <4>1. CASE EcuAnswers
        BY <4>1, StreamAnswer
      <4>2. CASE ByteArrives
        BY <4>2, StreamArrival
      <4>3. CASE ByteLost
        BY <4>3, StreamLoss
      <4>4. CASE RequestLost
        <5>1. UNCHANGED <<ring, line, number, serving, late, at, data_count, len>>
          BY <4>4 DEF RequestLost, nodeVars
        <5>2. Remaining' = Remaining
          BY <5>1 DEF Remaining
        <5> QED BY <5>1, <5>2, StreamStays
      <4>5. CASE FindPacket
        BY <4>5, StreamFind
      <4>6. CASE TimeOut
        BY <4>6, StreamTimeOut
      <4>7. CASE ReadByte
        BY <4>7, ReadRemaining, StreamRead DEF IInv
      <4>8. CASE BeginEntry \/ EndSkip \/ EndValue
        <5>1. UNCHANGED <<ring, line, number, serving, late>>
          BY <4>8 DEF BeginEntry, EndSkip, EndValue, ecuVars
        <5>2. Remaining' = Remaining
          BY <4>8, EntryRemaining DEF IInv
        <5> QED BY <5>1, <5>2, StreamStays
      <4> QED BY <2>2, <4>1, <4>2, <4>3, <4>4, <4>5, <4>6, <4>7, <4>8 DEF Next, ecu_read_data
    <3> QED BY <3>1, <3>2
  <2> QED BY <2>1, <2>2
<1>3. Spec => []IInv
  BY Invariance
<1> QED BY <1>1, <1>2, <1>3, PTL DEF Spec


-----------------------------------------------------------------------------
(***************************************************************************)
(* The values: what a pass of livestream gives to the log and to the base. *)
(***************************************************************************)

Field == [entry : Nat, what : {"id", "value"}, bytes : Seq(EcuByte)]
LivePacket == [fields : Seq(Field), len : Nat]

LiveTyped ==
  /\ live \in LivePacket /\ sent \in LivePacket /\ logged \in Seq(Field)
  /\ live.len <= PayloadLen /\ sent.len <= PayloadLen
  /\ streaming \in BOOLEAN /\ tellingOf \in 0 .. Packets
  /\ at = "value" => ~Table[data_count].empty

\* In the log are the time and the pairs of the entries told so far.
LogHolds(s, n, p) ==
  /\ s[1] = Stamp[1] /\ s[2] = Stamp[2]
  /\ Len(s) = 2 + 2 * Before("SD", n)
  /\ InOrder(s, 2, "SD", p)
LogSoFar == LogHolds(logged, data_count, serving)

\* The live packet has all their pairs; or it is full.
LiveSoFar ==
  LET due == 2 * Before("XBEE", data_count) IN
  /\ InOrder(live.fields, 0, "XBEE", serving)
  /\ \/ Len(live.fields) = due /\ live.len = 3 * due
     \/ Len(live.fields) < due /\ live.len + 2 > PayloadLen

SoFar == ~late /\ at # "poll" => LogSoFar /\ LiveSoFar

\* Between two passes.
PassOver ==
  /\ at # "poll" => tellingOf = 0
  /\ ~streaming => sent.fields = <<>>
  /\ RecordsWhole

LInv == LiveTyped /\ SoFar /\ PassOver

LEMMA FewerMembers ==
  ASSUME NEW S, NEW T, IsFiniteSet(S), T \subseteq S
  PROVE  Cardinality(T) <= Cardinality(S)
BY FS_Subset

\* How many entries of a medium stand before one.
LEMMA BeforeCount ==
  ASSUME NEW medium
  PROVE  /\ \A n \in Nat : Before(medium, n) \in Nat
         /\ Before(medium, 1) = 0
         /\ Before(medium, Len(Table) + 1) = Cardinality(Told(medium))
         /\ \A n \in 1 .. Len(Table) :
              Before(medium, n + 1) = IF n \in Told(medium) THEN Before(medium, n) + 1 ELSE Before(medium, n)
         /\ \A n \in Nat, k \in Nat : n <= k => Before(medium, n) <= Before(medium, k)
<1> DEFINE B(n) == {m \in Told(medium) : m < n}
<1>1. Len(Table) \in Nat /\ DOMAIN Table = 1 .. Len(Table)
  BY TableType, TableAssumption, LenProperties
<1>2. Told(medium) \subseteq 1 .. Len(Table)
  BY <1>1 DEF Told
<1>3. IsFiniteSet(Told(medium))
  <2>1. IsFiniteSet(1 .. Len(Table))
    BY <1>1, FS_Interval
  <2> QED BY <1>2, <2>1, FS_Subset
<1>4. \A n : IsFiniteSet(B(n))
  BY <1>3, FS_Subset
<1>5. \A n : Cardinality(B(n)) \in Nat /\ Before(medium, n) = Cardinality(B(n))
  BY <1>4, FS_CardinalityType DEF Before
<1>6. Before(medium, 1) = 0
  <2>1. B(1) = {}
    BY <1>1, <1>2
  <2> QED BY <1>5, <2>1, FS_EmptySet
<1>7. Before(medium, Len(Table) + 1) = Cardinality(Told(medium))
  <2>1. B(Len(Table) + 1) = Told(medium)
    BY <1>1, <1>2
  <2> QED BY <1>5, <2>1
<1>8. ASSUME NEW n \in 1 .. Len(Table)
      PROVE  Before(medium, n + 1) = IF n \in Told(medium) THEN Before(medium, n) + 1 ELSE Before(medium, n)
  <2>1. CASE n \in Told(medium)
    <3>1. B(n + 1) = B(n) \cup {n} /\ n \notin B(n)
      BY <1>1, <1>2, <2>1
    <3>2. Cardinality(B(n) \cup {n}) = Cardinality(B(n)) + 1
      BY <1>4, <3>1, FS_AddElement, ZenonT(40)
    <3>3. Before(medium, n + 1) = Cardinality(B(n) \cup {n}) /\ Before(medium, n) = Cardinality(B(n))
      BY <1>5, <3>1, Zenon
    <3> QED BY <2>1, <3>2, <3>3
  <2>2. CASE n \notin Told(medium)
    <3>1. B(n + 1) = B(n)
      BY <1>1, <1>2, <2>2
    <3> QED BY <1>5, <2>2, <3>1, Zenon
  <2> QED BY <2>1, <2>2
<1>9. ASSUME NEW n \in Nat, NEW k \in Nat, n <= k PROVE Before(medium, n) <= Before(medium, k)
  <2>1. B(n) \subseteq B(k)
    BY <1>1, <1>2, <1>9
  <2>2. Cardinality(B(n)) <= Cardinality(B(k))
    <3>1. IsFiniteSet(B(k))
      BY <1>4
    <3> HIDE DEF B
    <3> QED BY <2>1, <3>1, FewerMembers
  <2>3. Before(medium, n) = Cardinality(B(n)) /\ Before(medium, k) = Cardinality(B(k))
    BY <1>5
  <2> HIDE DEF B
  <2> QED BY <2>2, <2>3
<1> QED BY <1>5, <1>6, <1>7, <1>8, <1>9

\* The fields t are those of s and up to two more, which are the pair of entry n.
PairAdded(t, s, n, p) ==
  /\ Len(t) <= Len(s) + 2
  /\ \A i \in 1 .. Len(s) : t[i] = s[i]
  /\ \A j \in {1, 2} : Len(s) + j <= Len(t) => t[Len(s) + j] = Pair(n, p)[j]

\* The pair of the next entry behind those of the entries before it.
LEMMA InOrderGrows ==
  ASSUME NEW medium, NEW first \in Nat, NEW p, NEW n \in Told(medium),
         NEW s \in Seq(Field), NEW t \in Seq(Field),
         InOrder(s, first, medium, p), Len(s) = first + 2 * Before(medium, n), PairAdded(t, s, n, p)
  PROVE  InOrder(t, first, medium, p)
<1> SUFFICES ASSUME NEW k \in Told(medium), NEW j \in {1, 2},
                    first + 2 * Before(medium, k) + j <= Len(t)
             PROVE  t[first + 2 * Before(medium, k) + j] = Pair(k, p)[j]
  BY DEF InOrder
<1>1. /\ n \in 1 .. Len(Table) /\ k \in 1 .. Len(Table) /\ Len(Table) \in Nat
      /\ \A i \in 1 .. Len(Table) : i \in Nat /\ i + 1 \in Nat
  BY SMTT(40), TableType, TableAssumption, LenProperties DEF Told
<1>2. PICK a \in Nat, b \in Nat : a = Before(medium, n) /\ b = Before(medium, k)
  <2>1. Before(medium, n) \in Nat /\ Before(medium, k) \in Nat
    BY <1>1, BeforeCount
  <2> QED BY <2>1
<1>3. PICK l \in Nat, m \in Nat : l = Len(s) /\ m = Len(t)
  <2>1. Len(s) \in Nat /\ Len(t) \in Nat
    BY LenProperties
  <2> QED BY <2>1
<1>4. l = first + 2 * a /\ m <= l + 2 /\ first + 2 * b + j <= m
  BY <1>2, <1>3 DEF PairAdded
<1>5. CASE k < n
  <2>1. b + 1 <= a
    <3>1. k + 1 \in Nat /\ n \in Nat /\ k + 1 <= n
      BY <1>1, <1>5
    <3>2. Before(medium, k + 1) <= Before(medium, n)
      BY <3>1, BeforeCount
    <3>3. Before(medium, k + 1) = b + 1
      BY <1>1, <1>2, BeforeCount
    <3> QED BY <1>2, <3>2, <3>3
  <2>2. first + 2 * b + j \in 1 .. l
    BY <1>4, <2>1
  <2>3. t[first + 2 * b + j] = s[first + 2 * b + j]
    BY <1>3, <2>2 DEF PairAdded
  <2>4. s[first + 2 * b + j] = Pair(k, p)[j]
    <3>1. first + 2 * b + j <= Len(s)
      BY <1>3, <2>2
    <3> QED BY <1>2, <3>1 DEF InOrder
  <2> QED BY <1>2, <2>3, <2>4
<1>6. CASE k = n
  <2>1. a = b
    BY <1>2, <1>6
  <2>2. first + 2 * b + j = l + j
    BY <1>4, <2>1
  <2>3. t[l + j] = Pair(n, p)[j]
    BY <1>3, <1>4, <2>2 DEF PairAdded
  <2> QED BY <1>2, <1>6, <2>2, <2>3
<1>7. CASE k > n
  <2>1. a + 1 <= b
    <3>1. n + 1 \in Nat /\ k \in Nat /\ n + 1 <= k
      BY <1>1, <1>7
    <3>2. Before(medium, n + 1) <= Before(medium, k)
      BY <3>1, BeforeCount
    <3>3. Before(medium, n + 1) = a + 1
      BY <1>1, <1>2, BeforeCount
    <3> QED BY <1>2, <3>2, <3>3
  <2>2. FALSE
    BY <1>3, <1>4, <2>1
  <2> QED BY <2>2
<1>8. k < n \/ k = n \/ k > n
  BY <1>1
<1> QED BY <1>5, <1>6, <1>7, <1>8

\* What becomes of a packet when the pair of entry n is appended: nothing, the id
\* only, or all of it.
Appended(q, packet, n, bytes) ==
  \/ packet.len + 2 > PayloadLen /\ q = packet
  \/ /\ packet.len + 2 <= PayloadLen /\ packet.len + 6 > PayloadLen
     /\ q.fields = Append(packet.fields, Id(n)) /\ q.len = packet.len + 2
  \/ /\ packet.len + 6 <= PayloadLen
     /\ q.fields = Append(Append(packet.fields, Id(n)), ValueOf(n, bytes)) /\ q.len = packet.len + 6

LEMMA FieldTypes ==
  ASSUME NEW n \in Nat, NEW bytes \in Seq(EcuByte)
  PROVE  /\ Id(n) \in Field /\ SizeOf(Id(n)) = 2
         /\ ValueOf(n, bytes) \in Field /\ SizeOf(ValueOf(n, bytes)) = 4
<1>1. <<>> \in Seq(EcuByte)
  BY EmptySeq
<1> QED BY <1>1 DEF Id, ValueOf, SizeOf, Field

LEMMA OneAppended ==
  ASSUME NEW packet \in LivePacket, packet.len <= PayloadLen, NEW field \in Field
  PROVE  /\ xbee_packet_append(packet, field) \in LivePacket
         /\ xbee_packet_append(packet, field).len <= PayloadLen
         /\ packet.len + SizeOf(field) > PayloadLen => xbee_packet_append(packet, field) = packet
         /\ packet.len + SizeOf(field) <= PayloadLen =>
              /\ xbee_packet_append(packet, field).fields = Append(packet.fields, field)
              /\ xbee_packet_append(packet, field).len = packet.len + SizeOf(field)
<1>1. PayloadLen \in Nat /\ packet.len \in Nat /\ SizeOf(field) \in Nat /\ packet.fields \in Seq(Field)
  BY LiveAssumption DEF LivePacket, SizeOf
<1>2. CASE packet.len + SizeOf(field) > PayloadLen
  BY <1>1, <1>2 DEF xbee_packet_append
<1>3. CASE ~(packet.len + SizeOf(field) > PayloadLen)
  <2>1. Append(packet.fields, field) \in Seq(Field)
    BY <1>1, AppendProperties
  <2> DEFINE q == [fields |-> Append(packet.fields, field), len |-> packet.len + SizeOf(field)]
  <2>2. xbee_packet_append(packet, field) = q
    BY <1>3 DEF xbee_packet_append
  <2>3. q \in LivePacket /\ q.fields = Append(packet.fields, field) /\ q.len = packet.len + SizeOf(field)
    BY <1>1, <2>1 DEF LivePacket
  <2>4. packet.len + SizeOf(field) <= PayloadLen
    BY <1>1, <1>3
  <2> QED BY <1>3, <2>2, <2>3, <2>4
<1> QED BY <1>2, <1>3

LEMMA TwoAppended ==
  ASSUME NEW packet \in LivePacket, packet.len <= PayloadLen,
         NEW n \in Nat, NEW bytes \in Seq(EcuByte)
  PROVE  LET q == xbee_packet_append(xbee_packet_append(packet, Id(n)), ValueOf(n, bytes))
         IN q \in LivePacket /\ q.len <= PayloadLen /\ Appended(q, packet, n, bytes)
<1>1. /\ Id(n) \in Field /\ SizeOf(Id(n)) = 2
      /\ ValueOf(n, bytes) \in Field /\ SizeOf(ValueOf(n, bytes)) = 4
  BY FieldTypes
<1>2. PICK r : r = xbee_packet_append(packet, Id(n))
  OBVIOUS
<1>3. PICK q : q = xbee_packet_append(r, ValueOf(n, bytes))
  OBVIOUS
<1>4. /\ r \in LivePacket /\ r.len <= PayloadLen
      /\ packet.len + 2 > PayloadLen => r = packet
      /\ packet.len + 2 <= PayloadLen => r.fields = Append(packet.fields, Id(n)) /\ r.len = packet.len + 2
  BY <1>1, <1>2, OneAppended
<1>5. /\ q \in LivePacket /\ q.len <= PayloadLen
      /\ r.len + 4 > PayloadLen => q = r
      /\ r.len + 4 <= PayloadLen => q.fields = Append(r.fields, ValueOf(n, bytes)) /\ q.len = r.len + 4
  BY <1>1, <1>3, <1>4, OneAppended
<1>6. PayloadLen \in Nat /\ packet.len \in Nat
  BY LiveAssumption DEF LivePacket
<1>7. CASE packet.len + 2 > PayloadLen
  <2>1. r = packet /\ r.len + 4 > PayloadLen
    BY <1>4, <1>6, <1>7
  <2>2. q = packet
    BY <1>5, <2>1
  <2> QED BY <1>2, <1>3, <1>5, <1>7, <2>2 DEF Appended
<1>8. CASE packet.len + 2 <= PayloadLen /\ packet.len + 6 > PayloadLen
  <2>1. r.fields = Append(packet.fields, Id(n)) /\ r.len = packet.len + 2 /\ r.len + 4 > PayloadLen
    BY <1>4, <1>6, <1>8
  <2>2. q = r
    BY <1>5, <2>1
  <2> QED BY <1>2, <1>3, <1>5, <1>8, <2>1, <2>2 DEF Appended
<1>9. CASE packet.len + 6 <= PayloadLen
  <2>1. /\ r.fields = Append(packet.fields, Id(n)) /\ r.len = packet.len + 2
        /\ r.len + 4 <= PayloadLen /\ r.len + 4 = packet.len + 6
    BY <1>4, <1>6, <1>9
  <2>2. q.fields = Append(r.fields, ValueOf(n, bytes)) /\ q.len = packet.len + 6
    BY <1>5, <2>1
  <2> QED BY <1>2, <1>3, <1>5, <1>9, <2>1, <2>2 DEF Appended
<1>10. packet.len + 2 > PayloadLen \/ (packet.len + 2 <= PayloadLen /\ packet.len + 6 > PayloadLen) \/ packet.len + 6 <= PayloadLen
  BY <1>6
<1> QED BY <1>7, <1>8, <1>9, <1>10


LEMMA SixFour ==
  ASSUME NEW max \in Nat, max % 6 < 4, NEW z \in Nat, NEW b \in Nat, z = 6 * b,
         z + 2 <= max, z + 6 > max
  PROVE  (z + 2) + 2 > max
OBVIOUS

LEMMA OnePairMore ==
  ASSUME NEW l \in Nat, NEW z \in Nat, NEW b \in Nat, l = 2 * b, z = 3 * (2 * b)
  PROVE  l + 1 < 2 * (b + 1) /\ (l + 1) + 1 = 2 * (b + 1) /\ z + 6 = 3 * (2 * (b + 1))
OBVIOUS

\* The next pair joins the live packet, as far as there is room.  PayloadLen leaves
\* less than four bytes behind the pairs that fit, so that once a field has
\* been left out no other fits.
LEMMA LivePair ==
  ASSUME NEW n \in Told("XBEE"), NEW p, NEW bytes \in Seq(EcuByte), ValueOf(n, bytes) = Pair(n, p)[2],
         NEW packet \in LivePacket, NEW q \in LivePacket, Appended(q, packet, n, bytes),
         InOrder(packet.fields, 0, "XBEE", p), NEW b \in Nat, b = Before("XBEE", n),
         \/ Len(packet.fields) = 2 * b /\ packet.len = 3 * (2 * b)
         \/ Len(packet.fields) < 2 * b /\ packet.len + 2 > PayloadLen
  PROVE  /\ InOrder(q.fields, 0, "XBEE", p)
         /\ \/ Len(q.fields) = 2 * (b + 1) /\ q.len = 3 * (2 * (b + 1))
            \/ Len(q.fields) < 2 * (b + 1) /\ q.len + 2 > PayloadLen
<1>1. PICK s \in Seq(Field), t \in Seq(Field) : s = packet.fields /\ t = q.fields
  BY DEF LivePacket
<1>2. PICK l \in Nat, z \in Nat, max \in Nat : l = Len(s) /\ z = packet.len /\ max = PayloadLen
  <2>1. Len(s) \in Nat /\ packet.len \in Nat /\ PayloadLen \in Nat
    BY LenProperties, LiveAssumption DEF LivePacket
  <2> QED BY <2>1
<1>3. max % 6 < 4
  BY <1>2, LiveAssumption
<1>4. \/ l = 2 * b /\ z = 3 * (2 * b)
      \/ l < 2 * b /\ z + 2 > max
  BY <1>1, <1>2
<1>5. n \in Nat /\ Id(n) \in Field /\ ValueOf(n, bytes) \in Field
  <2>1. n \in Nat
    BY TableAssumption, LenProperties DEF Told
  <2> QED BY <2>1, FieldTypes
<1>6. Pair(n, p)[1] = Id(n)
  BY DEF Pair
<1>7. CASE z + 2 > max /\ q = packet
  <2>1. l < 2 * (b + 1)
    BY <1>4
  <2> QED BY <1>1, <1>2, <1>7, <2>1
<1>8. CASE z + 2 <= max /\ z + 6 > max /\ t = Append(s, Id(n)) /\ q.len = z + 2
  <2>1. l = 2 * b /\ z = 3 * (2 * b)
    BY <1>4, <1>8
  <2>2. Len(t) = l + 1 /\ (\A i \in 1 .. l : t[i] = s[i]) /\ t[l + 1] = Id(n)
    BY <1>2, <1>5, <1>8, AppendProperties
  <2>3. PairAdded(t, s, n, p)
    <3> SUFFICES ASSUME NEW j \in {1, 2}, l + j <= l + 1 PROVE j = 1
      BY <1>2, <1>6, <2>2 DEF PairAdded
    <3> QED OBVIOUS
  <2>4. InOrder(t, 0, "XBEE", p)
    <3>1. Len(s) = 0 + 2 * Before("XBEE", n)
      BY <1>2, <2>1
    <3> QED BY <1>1, <2>3, <3>1, InOrderGrows
  <2>5. (z + 2) + 2 > max
    <3>1. z = 6 * b
      BY <2>1
    <3> QED BY <1>3, <1>8, <3>1, SixFour
  <2>6. l + 1 < 2 * (b + 1)
    BY SMTT(40), <1>2, <2>1, OnePairMore
  <2>7. Len(q.fields) = l + 1 /\ q.len + 2 > PayloadLen
    <3>1. Len(q.fields) = l + 1
      BY <1>1, <2>2
    <3>2. q.len + 2 > PayloadLen
      BY <1>2, <1>8, <2>5
    <3> QED BY <3>1, <3>2
  <2> QED BY <1>1, <2>4, <2>6, <2>7
<1>9. CASE z + 6 <= max /\ t = Append(Append(s, Id(n)), ValueOf(n, bytes)) /\ q.len = z + 6
  <2>1. l = 2 * b /\ z = 3 * (2 * b)
    BY <1>4, <1>9
  <2>2. PICK u \in Seq(Field) : u = Append(s, Id(n))
    BY <1>5, AppendProperties
  <2>3. Len(u) = l + 1 /\ (\A i \in 1 .. l : u[i] = s[i]) /\ u[l + 1] = Id(n)
    BY <1>2, <1>5, <2>2, AppendProperties
  <2>4. /\ Len(t) = (l + 1) + 1 /\ (\A i \in 1 .. l + 1 : t[i] = u[i])
        /\ t[(l + 1) + 1] = ValueOf(n, bytes)
    BY <1>5, <1>9, <2>2, <2>3, AppendProperties
  <2>5. PairAdded(t, s, n, p)
    <3>1. Len(t) <= l + 2
      BY <2>4
    <3>2. \A i \in 1 .. l : t[i] = s[i]
      BY <2>3, <2>4
    <3>3. t[l + 1] = Pair(n, p)[1]
      BY <1>6, <2>3, <2>4
    <3>4. t[l + 2] = Pair(n, p)[2]
      <4>1. (l + 1) + 1 = l + 2
        OBVIOUS
      <4> QED BY <2>4, <4>1
    <3> QED BY <1>2, <3>1, <3>2, <3>3, <3>4 DEF PairAdded
  <2>6. InOrder(t, 0, "XBEE", p)
    <3>1. Len(s) = 0 + 2 * Before("XBEE", n)
      BY <1>2, <2>1
    <3> QED BY <1>1, <2>5, <3>1, InOrderGrows
  <2>7. (l + 1) + 1 = 2 * (b + 1) /\ z + 6 = 3 * (2 * (b + 1))
    BY SMTT(40), <1>2, <2>1, OnePairMore
  <2>8. Len(q.fields) = 2 * (b + 1) /\ q.len = 3 * (2 * (b + 1))
    <3>1. Len(t) = 2 * (b + 1)
      BY <2>4, <2>7, Zenon
    <3>2. q.len = 3 * (2 * (b + 1))
      BY <1>9, <2>7, Zenon
    <3> QED BY <1>1, <3>1, <3>2
  <2> QED BY <1>1, <2>6, <2>8
<1> QED BY <1>1, <1>2, <1>7, <1>8, <1>9 DEF Appended

\* A pair behind those in the log.
Logged(t, s, n, bytes) == t = s \o <<Id(n), ValueOf(n, bytes)>>

LEMMA LogPair ==
  ASSUME NEW n \in Told("SD"), NEW p, NEW bytes \in Seq(EcuByte), ValueOf(n, bytes) = Pair(n, p)[2],
         NEW s \in Seq(Field), NEW t \in Seq(Field), Logged(t, s, n, bytes),
         LogHolds(s, n, p)
  PROVE  LogHolds(t, n + 1, p)
<1>1. n \in Nat /\ Id(n) \in Field /\ ValueOf(n, bytes) \in Field
  <2>1. n \in Nat
    BY TableAssumption, LenProperties DEF Told
  <2> QED BY <2>1, FieldTypes
<1>2. PICK b \in Nat : b = Before("SD", n) /\ Before("SD", n + 1) = b + 1
  <2>1. n \in 1 .. Len(Table)
    BY TableAssumption, LenProperties DEF Told
  <2>2. Before("SD", n) \in Nat /\ Before("SD", n + 1) = Before("SD", n) + 1
    BY <1>1, <2>1, BeforeCount
  <2> QED BY <2>2
<1>3. PICK l \in Nat : l = Len(s) /\ l = 2 + 2 * b
  <2>1. Len(s) \in Nat
    BY LenProperties
  <2> QED BY <1>2, <2>1 DEF LogHolds
<1>4. PICK e \in Seq(Field) : e = <<Id(n), ValueOf(n, bytes)>> /\ Len(e) = 2 /\ e[1] = Id(n) /\ e[2] = ValueOf(n, bytes)
  <2>1. PICK x \in Field, y \in Field : x = Id(n) /\ y = ValueOf(n, bytes)
    BY <1>1
  <2>2. <<x, y>> \in Seq(Field) /\ Len(<<x, y>>) = 2 /\ <<x, y>>[1] = x /\ <<x, y>>[2] = y
    OBVIOUS
  <2> QED BY <2>1, <2>2
<1>5. t = s \o e
  BY <1>4 DEF Logged
<1>6. Len(t) = l + 2
  <2>1. Len(s \o e) = Len(s) + Len(e)
    BY <1>4, ConcatProperties
  <2> QED BY <1>5, <1>3, <1>4, <2>1
<1>7. \A i \in 1 .. l : t[i] = s[i]
  <2> SUFFICES ASSUME NEW i \in 1 .. l PROVE t[i] = s[i]
    OBVIOUS
  <2>1. i \in 1 .. Len(s) + Len(e) /\ i <= Len(s)
    BY <1>3, <1>4
  <2> QED BY <1>5, <1>4, <2>1, ConcatProperties
<1>8. t[l + 1] = e[1] /\ t[l + 2] = e[2]
  <2>1. \A i \in 1 .. l + 2 : t[i] = IF i <= l THEN s[i] ELSE e[i - l]
    <3>1. \A i \in 1 .. Len(s) + Len(e) : t[i] = IF i <= Len(s) THEN s[i] ELSE e[i - Len(s)]
      BY <1>5, <1>4, ConcatProperties
    <3> QED BY <1>3, <1>4, <3>1
  <2>2. l + 1 \in 1 .. l + 2 /\ ~(l + 1 <= l) /\ (l + 1) - l = 1
    OBVIOUS
  <2>3. l + 2 \in 1 .. l + 2 /\ ~(l + 2 <= l) /\ (l + 2) - l = 2
    OBVIOUS
  <2> QED BY <2>1, <2>2, <2>3
<1>9. PairAdded(t, s, n, p)
  <2>1. Pair(n, p)[1] = Id(n)
    BY DEF Pair
  <2>2. t[l + 1] = Pair(n, p)[1] /\ t[l + 2] = Pair(n, p)[2]
    BY <1>4, <1>8, <2>1
  <2>3. \A j \in {1, 2} : t[l + j] = Pair(n, p)[j]
    BY <2>2
  <2>4. Len(t) <= l + 2
    BY <1>6
  <2> QED BY <1>3, <1>7, <2>3, <2>4 DEF PairAdded
<1>10. InOrder(t, 2, "SD", p)
  <2>1. InOrder(s, 2, "SD", p) /\ Len(s) = 2 + 2 * Before("SD", n)
    BY DEF LogHolds
  <2> QED BY <1>9, <2>1, InOrderGrows
<1>11. 1 \in 1 .. l /\ 2 \in 1 .. l /\ l + 2 = 2 + 2 * (b + 1)
  BY <1>3
<1>12. t[1] = Stamp[1] /\ t[2] = Stamp[2]
  BY <1>7, <1>11 DEF LogHolds
<1>13. Len(t) = 2 + 2 * Before("SD", n + 1)
  BY <1>6, <1>11, <1>2
<1> QED BY <1>10, <1>12, <1>13 DEF LogHolds

\* A value that has been read whole is that of its entry.
LEMMA ValueIsWhole ==
  ASSUME IInv, ValueRead, ~late, at = "value", len = 0
  PROVE  ValueOf(data_count, value) = Pair(data_count, serving)[2]
<1>1. value \in Seq(EcuByte) /\ Len(value) \in Nat
  BY LenProperties DEF IInv, TypeOK
<1>2. data_count \in 1 .. Len(Table)
  BY DEF IInv, Course
<1>3. PICK z \in Nat : z = Table[data_count].len
  BY <1>2, TableType
<1>4. Len(value) = z
  BY <1>1, <1>3 DEF ValueRead
<1>5. value \in [1 .. z -> EcuByte]
  BY <1>1, <1>4, LenProperties
<1>6. \A k \in 1 .. z : value[k] = [packet |-> serving, place |-> Offset[data_count] + k]
  BY <1>5 DEF ValueRead, ValuesWhole
<1>7. value = [k \in 1 .. z |-> [packet |-> serving, place |-> Offset[data_count] + k]]
  BY <1>5, <1>6
<1> QED BY <1>3, <1>7 DEF Pair

\* Steps that leave the pass where it is.
LEMMA PassStays ==
  ASSUME LInv, UNCHANGED <<liveVars, at, data_count, serving>>, ~late' => ~late
  PROVE  LInv'
<1>1. UNCHANGED <<live, logged, streaming, sent, tellingOf, at, data_count, serving>>
  BY DEF liveVars
<1>2. LiveTyped'
  BY <1>1 DEF LInv, LiveTyped
<1>3. LogSoFar => LogSoFar'
  BY <1>1 DEF LogSoFar, LogHolds
<1>4. LiveSoFar => LiveSoFar'
  BY <1>1 DEF LiveSoFar
<1>5. SoFar'
  BY <1>1, <1>3, <1>4 DEF LInv, SoFar
<1>6. RecordsWhole'
  BY <1>1 DEF LInv, PassOver, RecordsWhole
<1>7. PassOver'
  BY <1>1, <1>6 DEF LInv, PassOver
<1> QED BY <1>2, <1>5, <1>7 DEF LInv

\* The node goes on in the table without a value: it begins with an entry, or
\* is done with a gap, which is told to no one.
LEMMA PassGoesOn ==
  ASSUME IInv, LInv, UNCHANGED liveVars, EndSkip \/ (BeginEntry /\ at' # "poll")
  PROVE  LInv'
<1>1. UNCHANGED <<live, logged, streaming, sent, tellingOf, serving, late>> /\ at # "poll" /\ at' # "poll"
  BY DEF liveVars, EndSkip, BeginEntry, ecuVars
<1>2. PassOver'
  BY <1>1 DEF LInv, PassOver, RecordsWhole
<1>3. CASE EndSkip
  <2>1. /\ data_count \in 1 .. Len(Table) /\ Table[data_count].empty
        /\ data_count' = data_count + 1
    BY <1>3 DEF EndSkip, IInv, Course
  <2>2. ~Table[data_count'].empty
    BY <2>1, TableAssumption, LenProperties
  <2>3. LiveTyped'
    BY <1>1, <2>2 DEF LInv, LiveTyped
  <2>4. \A medium : data_count \notin Told(medium)
    BY <2>1 DEF Told
  <2>5. \A medium : Before(medium, data_count') = Before(medium, data_count)
    BY <2>1, <2>4, BeforeCount
  <2>6. LogSoFar => LogSoFar'
    BY <1>1, <2>5 DEF LogSoFar, LogHolds
  <2>7. LiveSoFar => LiveSoFar'
    BY <1>1, <2>5 DEF LiveSoFar
  <2>8. SoFar'
    BY <1>1, <2>6, <2>7 DEF LInv, SoFar
  <2> QED BY <1>2, <2>3, <2>8 DEF LInv
<1>4. CASE BeginEntry /\ at' # "poll"
  <2>1. data_count' = data_count /\ (at' = "value" => ~Table[data_count].empty)
    BY <1>4 DEF BeginEntry
  <2>2. LiveTyped'
    BY <1>1, <2>1 DEF LInv, LiveTyped
  <2>3. LogSoFar => LogSoFar'
    BY <1>1, <2>1 DEF LogSoFar, LogHolds
  <2>4. LiveSoFar => LiveSoFar'
    BY <1>1, <2>1 DEF LiveSoFar
  <2>5. SoFar'
    BY <1>1, <2>3, <2>4 DEF LInv, SoFar
  <2> QED BY <1>2, <2>2, <2>5 DEF LInv
<1> QED BY <1>3, <1>4

LEMMA EmptyPacket ==
  /\ xbee_create_packet \in LivePacket /\ xbee_create_packet.len = 0
  /\ xbee_create_packet.fields = <<>> /\ 0 <= PayloadLen
<1>1. <<>> \in Seq(Field)
  BY EmptySeq
<1> QED BY <1>1, LiveAssumption DEF xbee_create_packet, LivePacket

\* A short sequence has no pair behind its first fields.
LEMMA NothingBehind ==
  ASSUME NEW s, NEW first \in Nat, Len(s) = first, NEW medium, NEW p
  PROVE  InOrder(s, first, medium, p)
<1> SUFFICES ASSUME NEW n \in Told(medium), NEW j \in {1, 2}
             PROVE  ~(first + 2 * Before(medium, n) + j <= first)
  BY DEF InOrder
<1>1. n \in Nat
  BY TableAssumption, LenProperties DEF Told
<1>2. Before(medium, n) \in Nat
  BY <1>1, BeforeCount
<1> QED BY <1>2

\* A pass begins with the time in the log and an empty live packet.
LEMMA PassBegins ==
  ASSUME IInv, LInv, LiveFindPacket
  PROVE  LInv'
<1>1. /\ at = "poll" /\ at' = "entry" /\ data_count' = data_count /\ late' = late
      /\ logged' = Stamp /\ live' = xbee_create_packet /\ tellingOf' = 0
      /\ UNCHANGED <<streaming, sent>>
  BY DEF LiveFindPacket, FindPacket
<1>2. data_count' = 1
  BY <1>1 DEF IInv, Course
<1>3. Stamp \in Seq(Field) /\ Len(Stamp) = 2
  <2>1. PICK x \in Field, y \in Field : x = Id(0) /\ y = ValueOf(0, <<>>)
    BY FieldTypes, EmptySeq
  <2>2. <<x, y>> \in Seq(Field) /\ Len(<<x, y>>) = 2
    OBVIOUS
  <2> QED BY <2>1, <2>2 DEF Stamp
<1>4. LiveTyped'
  <2>1. 0 \in 0 .. Packets
    BY PacketAssumption
  <2> QED BY <1>1, <1>3, <2>1, EmptyPacket DEF LInv, LiveTyped
<1>5. \A medium : Before(medium, data_count') = 0
  BY <1>2, BeforeCount
<1>6. LogSoFar'
  <2>1. InOrder(Stamp, 2, "SD", serving')
    BY <1>3, NothingBehind
  <2>2. Len(logged') = 2 + 2 * Before("SD", data_count')
    BY <1>1, <1>3, <1>5
  <2> QED BY <1>1, <2>1, <2>2 DEF LogSoFar, LogHolds
<1>7. LiveSoFar'
  <2>1. Len(live'.fields) = 0 /\ live'.len = 0
    BY <1>1, EmptyPacket, EmptySeq
  <2>2. InOrder(live'.fields, 0, "XBEE", serving')
    BY <2>1, NothingBehind
  <2>3. Before("XBEE", data_count') = 0
    BY <1>5
  <2> QED BY <2>1, <2>2, <2>3 DEF LiveSoFar
<1>8. SoFar' /\ PassOver'
  BY <1>1, <1>6, <1>7 DEF LInv, SoFar, PassOver, RecordsWhole
<1> QED BY <1>4, <1>8 DEF LInv

\* The end of the table: what has been told so far is all there is to tell.
LEMMA PassEnds ==
  ASSUME IInv, LInv, LiveEnd
  PROVE  LInv'
<1>1. /\ at = "entry" /\ at' = "poll" /\ data_count = Len(Table) + 1 /\ late' = late
      /\ sent' = IF streaming THEN live ELSE sent
      /\ live' = xbee_create_packet /\ tellingOf' = serving
      /\ UNCHANGED <<logged, streaming>>
  BY DEF LiveEnd, BeginEntry
<1>2. LiveTyped'
  <2>1. serving \in 0 .. Packets
    BY PacketAssumption DEF IInv, TypeOK
  <2> QED BY <1>1, <2>1, EmptyPacket DEF LInv, LiveTyped
<1>3. \A medium : Before(medium, data_count) = Cardinality(Told(medium))
  BY <1>1, BeforeCount
<1>4. ~late => LogSoFar /\ LiveSoFar
  BY <1>1 DEF LInv, SoFar
<1>5. tellingOf = 0 /\ (~streaming => sent.fields = <<>>)
  BY <1>1 DEF LInv, PassOver
<1>6. ASSUME ~late PROVE RecordsWhole'
  <2>1. /\ logged[1] = Stamp[1] /\ logged[2] = Stamp[2]
        /\ Len(logged) = 2 + 2 * Cardinality(Told("SD"))
        /\ InOrder(logged, 2, "SD", serving)
    BY <1>3, <1>4, <1>6 DEF LogSoFar, LogHolds
  <2>2. ASSUME sent'.fields # <<>>
        PROVE  LET due == 2 * Cardinality(Told("XBEE")) IN
               /\ InOrder(sent'.fields, 0, "XBEE", serving)
               /\ \/ Len(sent'.fields) = due
                  \/ Len(sent'.fields) < due /\ sent'.len + 4 > PayloadLen
    <3>1. sent' = live
      BY <1>1, <1>5, <2>2
    <3>2. PICK due : due = 2 * Cardinality(Told("XBEE"))
      OBVIOUS
    <3>3. /\ InOrder(live.fields, 0, "XBEE", serving)
          /\ \/ Len(live.fields) = due
             \/ Len(live.fields) < due /\ live.len + 2 > PayloadLen
      BY <1>3, <1>4, <1>6, <3>2 DEF LiveSoFar
    <3>4. live.len + 2 > PayloadLen => live.len + 4 > PayloadLen
      <4>1. live.len \in Nat /\ PayloadLen \in Nat
        BY LiveAssumption DEF LInv, LiveTyped, LivePacket
      <4> QED BY <4>1
    <3> QED BY <3>1, <3>2, <3>3, <3>4
  <2> QED BY <1>1, <2>1, <2>2 DEF RecordsWhole
<1>7. PassOver'
  BY <1>1, <1>5, <1>6 DEF PassOver, RecordsWhole
<1>8. SoFar'
  BY <1>1 DEF SoFar
<1> QED BY <1>2, <1>7, <1>8 DEF LInv

\* A value has been read: its pair joins what goes where its rule says.
LEMMA PassTells ==
  ASSUME IInv, ValueRead, LInv, LiveValue
  PROVE  LInv'
<1>1. /\ at = "value" /\ len = 0 /\ at' = "entry" /\ data_count' = data_count + 1
      /\ UNCHANGED <<late, serving, streaming, sent, tellingOf>> /\ Tell(data_count)
  BY DEF LiveValue, EndValue, ecuVars
<1>2. PICK n \in 1 .. Len(Table) : n = data_count
  BY <1>1 DEF IInv, Course
<1>3. n \in Nat /\ n \in DOMAIN Table /\ ~Table[n].empty /\ Len(Table) \in Nat
  BY <1>1, <1>2, TableType, TableAssumption, LenProperties DEF LInv, LiveTyped
<1>4. \A medium : n \in Told(medium) <=> medium \in Transport[n]
  BY <1>3 DEF Told, get_msg_transport
<1>5. PICK bytes \in Seq(EcuByte) : bytes = value
  BY DEF IInv, TypeOK
<1>6. PICK q : q = xbee_packet_append(xbee_packet_append(live, Id(n)), ValueOf(n, bytes))
  OBVIOUS
<1>7. live \in LivePacket /\ live.len <= PayloadLen /\ logged \in Seq(Field)
  BY DEF LInv, LiveTyped
<1>8. q \in LivePacket /\ q.len <= PayloadLen /\ Appended(q, live, n, bytes)
  BY <1>3, <1>5, <1>6, <1>7, TwoAppended
<1>9. PICK t \in Seq(Field) : t = logged \o <<Id(n), ValueOf(n, bytes)>>
  <2>1. PICK x \in Field, y \in Field : x = Id(n) /\ y = ValueOf(n, bytes)
    BY <1>3, <1>5, FieldTypes
  <2>2. <<x, y>> \in Seq(Field)
    OBVIOUS
  <2>3. logged \o <<x, y>> \in Seq(Field)
    BY <1>7, <2>2, ConcatProperties
  <2> QED BY <2>1, <2>3
<1>10. /\ live' = IF n \in Told("XBEE") THEN q ELSE live
       /\ logged' = IF n \in Told("SD") THEN t ELSE logged
  BY <1>1, <1>2, <1>4, <1>5, <1>6, <1>9 DEF Tell, get_msg_transport
<1>11. LiveTyped'
  BY <1>1, <1>7, <1>8, <1>9, <1>10 DEF LInv, LiveTyped
<1>12. PassOver'
  BY <1>1 DEF LInv, PassOver, RecordsWhole
<1>13. \A medium : Before(medium, n) \in Nat
                   /\ Before(medium, n + 1) = IF n \in Told(medium) THEN Before(medium, n) + 1 ELSE Before(medium, n)
  BY <1>3, BeforeCount
<1>14. ASSUME ~late PROVE LogSoFar' /\ LiveSoFar'
  <2>1. LogSoFar /\ LiveSoFar
    BY <1>1, <1>14 DEF LInv, SoFar
  <2>2. ValueOf(n, bytes) = Pair(n, serving)[2]
    BY <1>1, <1>2, <1>5, <1>14, ValueIsWhole
  <2>3. LogSoFar'
    <3>2. CASE n \in Told("SD")
      <4>1. Logged(t, logged, n, bytes)
        BY <1>9 DEF Logged
      <4>2. LogHolds(logged, n, serving)
        BY <1>2, <2>1 DEF LogSoFar
      <4>3. LogHolds(t, n + 1, serving)
        BY <1>7, <2>2, <3>2, <4>1, <4>2, LogPair
      <4> QED BY <1>1, <1>2, <1>10, <3>2, <4>3 DEF LogSoFar
    <3>3. CASE n \notin Told("SD")
      <4>1. Before("SD", data_count') = Before("SD", data_count)
        BY <1>1, <1>2, <1>13, <3>3
      <4> QED BY <1>1, <1>10, <2>1, <3>3, <4>1 DEF LogSoFar, LogHolds
    <3> QED BY <3>2, <3>3
  <2>4. LiveSoFar'
    <3>1. PICK b \in Nat : b = Before("XBEE", n)
      BY <1>13
    <3>2. CASE n \in Told("XBEE")
      <4>1. /\ InOrder(live.fields, 0, "XBEE", serving)
            /\ \/ Len(live.fields) = 2 * b /\ live.len = 3 * (2 * b)
               \/ Len(live.fields) < 2 * b /\ live.len + 2 > PayloadLen
        BY <1>2, <2>1, <3>1 DEF LiveSoFar
      <4>2. /\ InOrder(q.fields, 0, "XBEE", serving)
            /\ \/ Len(q.fields) = 2 * (b + 1) /\ q.len = 3 * (2 * (b + 1))
               \/ Len(q.fields) < 2 * (b + 1) /\ q.len + 2 > PayloadLen
        BY SMTT(40), <1>5, <1>7, <1>8, <2>2, <3>1, <3>2, <4>1, LivePair
      <4>3. Before("XBEE", data_count') = b + 1
        BY <1>1, <1>2, <1>13, <3>1, <3>2
      <4> QED BY <1>1, <1>10, <3>2, <4>2, <4>3 DEF LiveSoFar
    <3>3. CASE n \notin Told("XBEE")
      <4>1. Before("XBEE", data_count') = Before("XBEE", data_count)
        BY <1>1, <1>2, <1>13, <3>3
      <4> QED BY <1>1, <1>10, <2>1, <3>3, <4>1 DEF LiveSoFar
    <3> QED BY <3>2, <3>3
  <2> QED BY <2>3, <2>4
<1>15. SoFar'
  BY <1>1, <1>14 DEF SoFar
<1> QED BY <1>11, <1>12, <1>15 DEF LInv

LEMMA PassBegun == LiveInit => LInv
<1> SUFFICES ASSUME LiveInit PROVE LInv
  OBVIOUS
<1>1. /\ at = "poll" /\ live = xbee_create_packet /\ logged = <<>> /\ sent = xbee_create_packet
      /\ streaming = FALSE /\ tellingOf = 0
  BY DEF LiveInit, Init
<1>2. LiveTyped
  <2>1. 0 \in 0 .. Packets /\ <<>> \in Seq(Field)
    BY PacketAssumption, EmptySeq
  <2> QED BY <1>1, <2>1, EmptyPacket DEF LiveTyped
<1>3. SoFar /\ PassOver
  BY <1>1, EmptyPacket DEF SoFar, PassOver, RecordsWhole
<1> QED BY <1>2, <1>3 DEF LInv

\* LiveStream adds to what EcuLink does; it takes no step of its own there.
LEMMA LiveIsStream == LiveSpec => Spec
<1>1. LiveInit => Init
  BY DEF LiveInit
<1>2. [LiveNext]_<<vars, liveVars>> => [Next]_vars
  <2>1. LiveNext => Next \/ UNCHANGED vars
    BY DEF LiveNext, LiveFindPacket, LiveTimeOut, LiveRead, LiveValue, LiveEnd, Handshake, Next, ecu_read_data
  <2> QED BY <2>1
<1> QED BY <1>1, <1>2, PTL DEF LiveSpec, Spec

LEMMA LiveInvariance == LiveSpec => [](IInv /\ ValueRead /\ LInv)
<1>1. LiveInit => LInv
  BY PassBegun
<1>2. IInv /\ ValueRead /\ LInv /\ [LiveNext]_<<vars, liveVars>> => LInv'
  <2> SUFFICES ASSUME IInv, ValueRead, LInv, [LiveNext]_<<vars, liveVars>> PROVE LInv'
    OBVIOUS
  <2>1. CASE UNCHANGED <<vars, liveVars>>
    BY <2>1, PassStays DEF vars, nodeVars
  <2>2. CASE (EcuAnswers \/ ByteArrives \/ ByteLost \/ RequestLost) /\ UNCHANGED liveVars
    <3>1. UNCHANGED <<at, data_count, serving, late>>
      BY <2>2 DEF EcuAnswers, ByteArrives, ByteLost, RequestLost, nodeVars
    <3> QED BY <2>2, <3>1, PassStays
  <2>3. CASE LiveFindPacket
    BY <2>3, PassBegins
  <2>4. CASE LiveTimeOut
    <3>1. UNCHANGED <<liveVars, at, data_count, serving>> /\ (~late' => ~late)
      BY <2>4 DEF LiveTimeOut, TimeOut
    <3> QED BY <3>1, PassStays
  <2>5. CASE LiveValue
    BY <2>5, PassTells
  <2>6. CASE LiveEnd
    BY <2>6, PassEnds
  <2>7. CASE ReadByte /\ UNCHANGED liveVars
    <3>1. UNCHANGED <<at, data_count, serving, late>>
      BY <2>7 DEF ReadByte
    <3> QED BY <2>7, <3>1, PassStays
  <2>8. CASE (EndSkip \/ (BeginEntry /\ at' # "poll")) /\ UNCHANGED liveVars
    BY <2>8, PassGoesOn
  <2>9. CASE Handshake
    <3>1. /\ at = "poll" /\ streaming' = TRUE
          /\ UNCHANGED <<at, data_count, serving, late, live, logged, sent, tellingOf>>
      BY <2>9 DEF Handshake, vars, nodeVars
    <3>2. LiveTyped'
      BY <3>1 DEF LInv, LiveTyped
    <3>3. SoFar'
      BY <3>1 DEF SoFar
    <3>4. RecordsWhole'
      BY <3>1 DEF LInv, PassOver, RecordsWhole
    <3>5. PassOver'
      BY <3>1, <3>4 DEF LInv, PassOver
    <3> QED BY <3>2, <3>3, <3>5 DEF LInv
  <2> QED BY <2>1, <2>2, <2>3, <2>4, <2>5, <2>6, <2>7, <2>8, <2>9 DEF LiveNext, LiveRead
<1>3. LiveSpec => [](IInv /\ Stream /\ ValueRead)
  BY LiveIsStream, StreamInvariance, PTL
<1> QED BY <1>1, <1>2, <1>3, PTL DEF LiveSpec

\* Every value the log and the base get of an ECU packet is true, with its own id
\* and in its place, although bytes and requests are lost, unless an answer
\* outlasts its time-out (ecu.c:124-206, protocol.c:182-224, xbee.c:71-81).
THEOREM TelemetryIsTrue == LiveSpec => []TelemetryTrue
<1>1. IInv /\ ValueRead /\ LInv => TelemetryTrue
  <2> SUFFICES ASSUME IInv, ValueRead, LInv PROVE TelemetryTrue
    OBVIOUS
  <2>1. LiveTypeOK
    <3>1. live.len \in Nat /\ sent.len \in Nat /\ PayloadLen \in Nat
      BY LiveAssumption DEF LInv, LiveTyped, LivePacket
    <3> QED BY <3>1 DEF LInv, LiveTyped, LiveTypeOK
  <2>2. ValuesWhole /\ RecordsWhole
    BY DEF LInv, PassOver, ValueRead, ValuesWhole
  <2> QED BY <2>1, <2>2 DEF TelemetryTrue
<1> QED BY <1>1, LiveInvariance, PTL


=============================================================================
