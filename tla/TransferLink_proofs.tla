------------------------- MODULE TransferLink_proofs -------------------------
(***************************************************************************)
(* A log transfer over a radio that spoils packets, for every set of logs  *)
(* and every number of requests, faults and other packets: a request is    *)
(* dropped after five repetitions and no fewer, what the base takes is in  *)
(* order, and a transfer that nothing disturbed is complete.               *)
(***************************************************************************)
EXTENDS TransferLink, FiniteSetTheorems, SequenceTheorems, TLAPS

\* What may be on the air in either direction.
ToNode ==
  [type : {"ACK"}, code : 0 .. 2]
    \cup [type : {"REQUEST"}, kind : {"REQUEST_FILE", "SHORT", "NUM_LOG", "UNKNOWN"}, log : Log]
    \cup {Handshake, Invalid, Corrupt, Truncated}
ToBase ==
  [type : {"ACK"}, code : 0 .. 2]
    \cup [type : {"RESPONCE"}, body : {"size", "payload", "end"}, number : Nat]
    \cup {Corrupt}

IsRequest(p) == p.type = "REQUEST"
IsFileRequest(p) == p.type = "REQUEST" /\ p.kind = "REQUEST_FILE"
IsPayload(p) == p.type = "RESPONCE" /\ p.body = "payload"

\* The requests on their way to the node; each may be answered by two packets.
Asking(air) == {k \in DOMAIN air : IsRequest(air[k])}
Asked(air) == Cardinality(Asking(air))

Typed ==
  /\ ongoing_request \in {"REQUEST_FILE", "NONE"}
  /\ timeout_inc \in 1 .. 6
  /\ bytes_left \in Nat
  /\ file \in [size : Nat, pos : Nat] /\ file.pos <= file.size
  /\ base \in {"idle", "size", "data", "done"}
  /\ wanted \in Log
  /\ received \in Seq(Nat)
  /\ toNode \in Seq(ToNode) /\ toBase \in Seq(ToBase)
  /\ requests \in 0 .. MaxRequests /\ extras \in 0 .. MaxExtra

Flags == {streaming, bytes_sent, reading, spoiled, overlapped} \subseteq BOOLEAN

AirBounded ==
  /\ Asked(toNode) <= requests + extras
  /\ Len(toNode) + Len(toBase) + Asked(toNode) <= MaxAir + (requests + extras)

\* The time-out has grown once for each repetition since the base was heard.
Counted == ongoing_request # "NONE" => unheard = timeout_inc - 1

-----------------------------------------------------------------------------
\* Nothing of zero comes before anything else, and the rest is increasing.
Before(a, b) == b # 0 => a # 0 /\ a < b

NoPayload(air) == \A k \in DOMAIN air : ~IsPayload(air[k])

\* The payloads in taken, then those in air, are in order.
Ordered(taken, air) ==
  /\ \A i, j \in DOMAIN taken : i < j => Before(taken[i], taken[j])
  /\ \A i \in DOMAIN taken, k \in DOMAIN air : IsPayload(air[k]) => Before(taken[i], air[k].number)
  /\ \A k, l \in DOMAIN air :
       k < l /\ IsPayload(air[k]) /\ IsPayload(air[l]) => Before(air[k].number, air[l].number)

Numbers(taken, air) ==
  {taken[i] : i \in DOMAIN taken} \cup
  {air[k].number : k \in {l \in DOMAIN air : IsPayload(air[l])}}

\* The requests for a file among the packets.
Asks(air) == \E n \in DOMAIN air : IsFileRequest(air[n])
AsksOnce(air) == \A m, n \in DOMAIN air : IsFileRequest(air[m]) /\ IsFileRequest(air[n]) => m = n

\* As long as the file has more to give, all of that came from before its position.
FromFile == file.pos < file.size => Numbers(received, toBase) \subseteq 1 .. file.pos

\* A request for a file finds node and base at rest, and is alone.
AskedAtRest ==
  /\ Asks(toNode) => ongoing_request = "NONE" /\ received = <<>> /\ NoPayload(toBase)
  /\ AsksOnce(toNode)

Orderly == ~overlapped => Ordered(received, toBase) /\ FromFile /\ AskedAtRest

-----------------------------------------------------------------------------
\* What moves a transfer on: a request, a size, an acknowledgement, a payload or
\* the end.  Other packets may come in between.
Moves(p) == IsFileRequest(p) \/ p.type = "ACK"
Replies(p) == p.type = "RESPONCE" /\ (p.body # "size" \/ p.number # 0)

OnAir(air) == {air[k] : k \in DOMAIN air}
NoMoves(air) == \A p \in OnAir(air) : ~Moves(p)
NoReplies(air) == \A q \in OnAir(air) : ~Replies(q)

\* While nothing is spoiled, there is one of them at most.
OneAtATime(s, t) ==
  /\ \A m, n \in DOMAIN s : Moves(s[m]) /\ Moves(s[n]) => m = n
  /\ \A k, l \in DOMAIN t : Replies(t[k]) /\ Replies(t[l]) => k = l
  /\ NoMoves(s) \/ NoReplies(t)

\* The first n payloads.
FirstPayloads(n) == [k \in 1 .. n |-> k]

\* The node's account of the transfer of the log that the base wants, with n
\* payloads sent.
Account(n) ==
  /\ ongoing_request = "REQUEST_FILE"
  /\ file = [size |-> Payloads[wanted], pos |-> n]
  /\ bytes_sent <=> n > 0
  /\ bytes_left = Payloads[wanted] - (IF n = 0 THEN 0 ELSE n - 1)
  /\ bytes_left > 0

\* Each of those packets tells how far node and base are, if the base still
\* takes part.
MoveTells(p) ==
  /\ IsFileRequest(p) =>
       p.log = wanted /\ ongoing_request = "NONE" /\ received = <<>> /\ base \in {"size", "idle"}
  /\ p.type = "ACK" =>
       /\ p.code # 0 /\ Account(file.pos) /\ base \in {"data", "idle"}
       /\ base = "data" => received = FirstPayloads(file.pos)
ReplyTells(q) ==
  /\ q.body = "size" =>
       q.number = Payloads[wanted] /\ Account(0) /\ received = <<>> /\ base \in {"size", "idle"}
  /\ q.body = "payload" =>
       /\ q.number = file.pos /\ file.pos > 0 /\ Account(file.pos) /\ base \in {"data", "idle"}
       /\ base = "data" => received = FirstPayloads(file.pos - 1)
  /\ q.body = "end" =>
       /\ ongoing_request = "NONE" /\ base \in {"data", "idle"}
       /\ base = "data" => received = FirstPayloads(Payloads[wanted])

Flow ==
  /\ \A p \in OnAir(toNode) : MoveTells(p) /\ p.type \notin {"CORRUPT", "TRUNCATED"}
  /\ \A q \in OnAir(toBase) : (Replies(q) => ReplyTells(q)) /\ q.type # "CORRUPT"
  /\ ~reading
  /\ base = "done" => received = FirstPayloads(Payloads[wanted])

Undisturbed == ~spoiled /\ ~overlapped => OneAtATime(toNode, toBase) /\ Flow

IInv == Typed /\ Flags /\ AirBounded /\ Counted /\ Orderly /\ Undisturbed

-----------------------------------------------------------------------------
\* Everything node and base send is a packet of its direction.
LEMMA Packets ==
  /\ {Positive, Negative, Resend, EndOfFile, Corrupt} \subseteq ToBase
  /\ \A n \in Nat : SizeOf(n) \in ToBase /\ Payload(n) \in ToBase
  /\ {Positive, Negative, Resend, Handshake, Invalid, Corrupt, Truncated} \subseteq ToNode
  /\ \A l \in Log, kind \in {"REQUEST_FILE", "SHORT", "NUM_LOG", "UNKNOWN"} :
       Request(kind, l) \in ToNode
BY DEF ToBase, ToNode, Positive, Negative, Resend, EndOfFile, SizeOf, Payload, Request, Ack,
       Handshake, Invalid, Corrupt, Truncated

\* Packets behind others, and packets taken from the front.
LEMMA Behind ==
  ASSUME NEW S, NEW s \in Seq(S), NEW t \in Seq(S)
  PROVE  /\ s \o t \in Seq(S) /\ Len(s \o t) = Len(s) + Len(t)
         /\ \A k \in DOMAIN s : k \in DOMAIN (s \o t) /\ (s \o t)[k] = s[k]
         /\ \A k \in DOMAIN (s \o t) : k \notin DOMAIN s =>
              k - Len(s) \in DOMAIN t /\ (s \o t)[k] = t[k - Len(s)]
BY ConcatProperties

LEMMA Front ==
  ASSUME NEW S, NEW s \in Seq(S), s # <<>>
  PROVE  /\ Head(s) \in S /\ Head(s) = s[1] /\ 1 \in DOMAIN s
         /\ Tail(s) \in Seq(S) /\ Len(Tail(s)) = Len(s) - 1 /\ Len(s) > 0
         /\ \A k \in DOMAIN Tail(s) : k + 1 \in DOMAIN s /\ Tail(s)[k] = s[k + 1]
BY HeadTailProperties, EmptySeq

LEMMA Replaced ==
  ASSUME NEW S, NEW s \in Seq(S), s # <<>>, NEW p \in S
  PROVE  LET t == [s EXCEPT ![1] = p]
         IN  /\ t \in Seq(S) /\ Len(t) = Len(s) /\ DOMAIN t = DOMAIN s
             /\ \A k \in DOMAIN t : t[k] = IF k = 1 THEN p ELSE s[k]
BY EmptySeq

LEMMA Last1 ==
  ASSUME NEW S, NEW s \in Seq(S), NEW p \in S
  PROVE  /\ Append(s, p) \in Seq(S) /\ Len(Append(s, p)) = Len(s) + 1
         /\ \A k \in DOMAIN s : k \in DOMAIN Append(s, p) /\ Append(s, p)[k] = s[k]
         /\ \A k \in DOMAIN Append(s, p) : k \notin DOMAIN s =>
              k = Len(s) + 1 /\ Append(s, p)[k] = p
         /\ Append(s, p) = s \o <<p>>
BY AppendProperties

-----------------------------------------------------------------------------
\* The number of requests on the air, as packets are sent, read and spoiled.
LEMMA AskedIsNumber ==
  ASSUME NEW S, NEW s \in Seq(S)
  PROVE  Asking(s) \subseteq 1 .. Len(s) /\ IsFiniteSet(Asking(s)) /\ Asked(s) \in Nat
<1>1. Asking(s) \subseteq 1 .. Len(s)
  BY DEF Asking
<1>2. Len(s) \in Int /\ IsFiniteSet(1 .. Len(s))
  BY FS_Interval
<1>3. IsFiniteSet(Asking(s))
  BY <1>1, <1>2, FS_Subset
<1> QED BY <1>1, <1>3, FS_CardinalityType DEF Asked

LEMMA AskedAppended ==
  ASSUME NEW S, NEW s \in Seq(S), NEW p \in S
  PROVE  Asked(Append(s, p)) = Asked(s) + (IF IsRequest(p) THEN 1 ELSE 0)
<1>1. Len(s) + 1 \notin Asking(s)
  BY AskedIsNumber
<1>2. Asking(Append(s, p)) = Asking(s) \cup (IF IsRequest(p) THEN {Len(s) + 1} ELSE {})
  BY Last1 DEF Asking
<1>3. IsFiniteSet(Asking(s)) /\ Asked(s) \in Nat
  BY AskedIsNumber
<1>4. Cardinality(Asking(s) \cup {Len(s) + 1}) = Asked(s) + 1
  BY <1>1, <1>3, FS_AddElement DEF Asked
<1>5. CASE IsRequest(p)
  BY <1>2, <1>4, <1>5 DEF Asked
<1>6. CASE ~IsRequest(p)
  <2>1. Asking(Append(s, p)) = Asking(s)
    BY <1>2, <1>6
  <2> QED BY <2>1, <1>3, <1>6 DEF Asked
<1> QED BY <1>5, <1>6

LEMMA AskedBehindFront ==
  ASSUME NEW S, NEW s \in Seq(S), s # <<>>
  PROVE  Asked(s) = Asked(Tail(s)) + (IF IsRequest(Head(s)) THEN 1 ELSE 0)
<1> DEFINE A == Asking(Tail(s))
           B == {k \in Asking(s) : k # 1}
           f == [k \in A |-> k + 1]
<1>1. Tail(s) \in Seq(S) /\ Len(Tail(s)) = Len(s) - 1 /\ Len(s) \in Nat /\ Len(s) > 0
  BY Front
<1>2. IsFiniteSet(A) /\ IsFiniteSet(Asking(s)) /\ A \subseteq 1 .. Len(Tail(s))
  BY <1>1, AskedIsNumber
<1>3. f \in [A -> B]
  <2>1. ASSUME NEW k \in A PROVE k + 1 \in B
    BY <1>1, <1>2, Front DEF Asking
  <2> QED BY <2>1
<1>4. \A j, k \in A : f[j] = f[k] => j = k
  BY <1>2
<1>5. \A m \in B : \E k \in A : f[k] = m
  <2> SUFFICES ASSUME NEW m \in B PROVE \E k \in A : f[k] = m
    OBVIOUS
  <2>1. m \in 1 .. Len(s) /\ m # 1 /\ IsRequest(s[m])
    BY DEF Asking
  <2>2. m - 1 \in DOMAIN Tail(s) /\ Tail(s)[m - 1] = s[m]
    <3>1. m - 1 \in 1 .. Len(Tail(s))
      BY <1>1, <2>1
    <3>2. DOMAIN Tail(s) = 1 .. Len(Tail(s))
      BY <1>1
    <3>3. Tail(s)[m - 1] = s[(m - 1) + 1]
      BY <3>1, <3>2, Front
    <3> QED BY <2>1, <3>1, <3>2, <3>3
  <2>3. m - 1 \in A
    BY <2>1, <2>2 DEF Asking
  <2> QED BY <2>1, <2>3
<1>6. f \in Bijection(A, B)
  BY <1>3, <1>4, <1>5 DEF Bijection, Injection, IsInjective, Surjection
<1>7. Cardinality(B) = Cardinality(A)
  BY <1>2, <1>6, FS_Bijection DEF ExistsBijection
<1>8. B = Asking(s) \ {1}
  OBVIOUS
<1>9. Cardinality(B) = IF 1 \in Asking(s) THEN Cardinality(Asking(s)) - 1
                       ELSE Cardinality(Asking(s))
  BY <1>2, <1>8, FS_RemoveElement
<1>10. 1 \in Asking(s) <=> IsRequest(Head(s))
  BY Front DEF Asking
<1>11. Asked(s) \in Nat /\ Asked(Tail(s)) \in Nat
  BY <1>1, AskedIsNumber
<1> QED BY <1>7, <1>9, <1>10, <1>11 DEF Asked

LEMMA AskedReplaced ==
  ASSUME NEW S, NEW s \in Seq(S), s # <<>>, NEW p \in S, ~IsRequest(p)
  PROVE  Asked([s EXCEPT ![1] = p]) <= Asked(s)
<1>1. Asking([s EXCEPT ![1] = p]) \subseteq Asking(s)
  BY Replaced DEF Asking
<1> QED BY <1>1, AskedIsNumber, FS_Subset DEF Asked

-----------------------------------------------------------------------------
\* What becomes of the payloads taken and on their way: other packets come, ...
LEMMA PayloadsQuiet ==
  ASSUME NEW r \in Seq(Nat), NEW t \in Seq(ToBase), NEW new \in Seq(ToBase), NoPayload(new)
  PROVE  /\ Ordered(r, t) => Ordered(r, t \o new)
         /\ Numbers(r, t \o new) = Numbers(r, t)
         /\ NoPayload(t) => NoPayload(t \o new)
<1> DEFINE u == t \o new
<1>1. \A k \in DOMAIN u : IsPayload(u[k]) => k \in DOMAIN t /\ u[k] = t[k]
  BY Behind DEF NoPayload
<1>2. \A k \in DOMAIN t : k \in DOMAIN u /\ u[k] = t[k]
  BY Behind
<1> HIDE DEF u
<1>3. Ordered(r, t) => Ordered(r, u)
  BY <1>1 DEF Ordered
<1>4. Numbers(r, u) = Numbers(r, t)
  BY <1>1, <1>2 DEF Numbers
<1>5. NoPayload(t) => NoPayload(u)
  BY <1>1 DEF NoPayload
<1> QED BY <1>3, <1>4, <1>5 DEF u

\* ... or another payload; ...
LEMMA PayloadSent ==
  ASSUME NEW r \in Seq(Nat), NEW t \in Seq(ToBase), NEW x \in Nat
  PROVE  LET u == Append(t, Payload(x))
         IN  /\ Ordered(r, t) /\ (\A y \in Numbers(r, t) : Before(y, x)) => Ordered(r, u)
             /\ Numbers(r, u) \subseteq Numbers(r, t) \cup {x}
<1> DEFINE u == Append(t, Payload(x))
<1>1. \A k \in DOMAIN u : (k \in DOMAIN t /\ u[k] = t[k]) \/ (k = Len(t) + 1 /\ k \notin DOMAIN t /\ u[k] = Payload(x))
  BY Last1, Packets
<1>2. \A k \in DOMAIN t : k \in Nat /\ k < Len(t) + 1
  OBVIOUS
<1>3. Payload(x).number = x
  BY DEF Payload
<1>4. Len(t) + 1 \in Nat
  OBVIOUS
<1> DEFINE last == Len(t) + 1
<1> HIDE DEF u, last
<1>5. Numbers(r, u) \subseteq Numbers(r, t) \cup {x}
  BY <1>1, <1>3 DEF Numbers
<1>6. ASSUME Ordered(r, t), \A y \in Numbers(r, t) : Before(y, x)
      PROVE  Ordered(r, u)
  <2>1. \A i \in DOMAIN r : Before(r[i], x)
    BY <1>6 DEF Numbers
  <2>2. \A k \in DOMAIN t : IsPayload(t[k]) => Before(t[k].number, x)
    BY <1>6 DEF Numbers
  <2>3. ASSUME NEW k \in DOMAIN u, NEW l \in DOMAIN u, k < l, IsPayload(u[k]), IsPayload(u[l])
        PROVE  Before(u[k].number, u[l].number)
    <3>1. k \in DOMAIN t /\ u[k] = t[k]
      BY <1>1, <1>2, <1>4, <2>3 DEF last
    <3> QED BY <1>1, <1>3, <1>6, <2>2, <2>3, <3>1 DEF Ordered
  <2>4. ASSUME NEW i \in DOMAIN r, NEW k \in DOMAIN u, IsPayload(u[k])
        PROVE  Before(r[i], u[k].number)
    BY <1>1, <1>3, <1>6, <2>1, <2>4 DEF Ordered
  <2> QED BY <1>6, <2>3, <2>4 DEF Ordered
<1> QED BY <1>5, <1>6 DEF u

\* ... the base takes the next packet, ...
LEMMA PacketTaken ==
  ASSUME NEW r \in Seq(Nat), NEW t \in Seq(ToBase), t # <<>>
  PROVE  /\ Ordered(r, t) => Ordered(r, Tail(t))
         /\ Numbers(r, Tail(t)) \subseteq Numbers(r, t)
         /\ NoPayload(t) => NoPayload(Tail(t)) /\ ~IsPayload(Head(t))
         /\ IsPayload(Head(t)) =>
              LET q == Append(r, Head(t).number)
              IN  /\ Ordered(r, t) => Ordered(q, Tail(t))
                  /\ Numbers(q, Tail(t)) \subseteq Numbers(r, t)
<1> DEFINE u == Tail(t)
<1>1. \A k \in DOMAIN u : k \in Nat /\ k + 1 \in DOMAIN t /\ u[k] = t[k + 1] /\ 1 < k + 1
  BY Front
<1>2. 1 \in DOMAIN t /\ Head(t) = t[1]
  BY Front
<1>3. \A k, l \in Nat : k < l => k + 1 < l + 1
  OBVIOUS
<1> DEFINE h == Head(t)
<1> HIDE DEF u, h
<1>4. Ordered(r, t) => Ordered(r, u)
  BY <1>1, <1>3 DEF Ordered
<1>5. Numbers(r, u) \subseteq Numbers(r, t)
  BY <1>1 DEF Numbers
<1>6. NoPayload(t) => NoPayload(u) /\ ~IsPayload(h)
  BY <1>1, <1>2 DEF NoPayload, h
<1>7. ASSUME IsPayload(h)
      PROVE  LET q == Append(r, h.number)
             IN  /\ Ordered(r, t) => Ordered(q, u)
                 /\ Numbers(q, u) \subseteq Numbers(r, t)
  <2> DEFINE q == Append(r, h.number)
  <2>1. \A i \in DOMAIN q : (i \in DOMAIN r /\ q[i] = r[i]) \/ (i = Len(r) + 1 /\ q[i] = h.number)
    <3>1. h \in ToBase
      BY Front DEF h
    <3>2. h.number \in Nat
      BY <1>7, <3>1 DEF IsPayload, ToBase, Corrupt
    <3> QED BY <3>2, Last1
  <2>2. \A i \in DOMAIN r : i \in Nat /\ i < Len(r) + 1
    OBVIOUS
  <2>3. Len(r) + 1 \in Nat
    OBVIOUS
  <2> HIDE DEF q
  <2>4. Numbers(q, u) \subseteq Numbers(r, t)
    <3>1. h.number \in Numbers(r, t)
      BY <1>2, <1>7 DEF Numbers, h
    <3>2. \A i \in DOMAIN q : q[i] \in Numbers(r, t)
      BY <2>1, <3>1 DEF Numbers
    <3> QED BY <1>5, <3>2 DEF Numbers
  <2>5. ASSUME Ordered(r, t) PROVE Ordered(q, u)
    <3>1. \A i \in DOMAIN r : Before(r[i], h.number)
      BY <1>2, <1>7, <2>5 DEF Ordered, h
    <3>2. \A k \in DOMAIN u : IsPayload(u[k]) => Before(h.number, u[k].number)
      BY <1>1, <1>2, <1>7, <2>5 DEF Ordered, h
    <3>3. ASSUME NEW i \in DOMAIN q, NEW j \in DOMAIN q, i < j PROVE Before(q[i], q[j])
      <4>1. i \in DOMAIN r /\ q[i] = r[i]
        BY <2>1, <2>2, <2>3, <3>3
      <4> QED BY <2>1, <2>5, <3>1, <3>3, <4>1 DEF Ordered
    <3>4. ASSUME NEW i \in DOMAIN q, NEW k \in DOMAIN u, IsPayload(u[k])
          PROVE  Before(q[i], u[k].number)
      BY <1>4, <2>1, <2>5, <3>2, <3>4 DEF Ordered
    <3> QED BY <1>4, <2>5, <3>3, <3>4 DEF Ordered
  <2> QED BY <2>4, <2>5 DEF q
<1> QED BY <1>4, <1>5, <1>6, <1>7 DEF u, h

\* ... or the radio spoils it.
LEMMA PacketSpoiled ==
  ASSUME NEW r \in Seq(Nat), NEW t \in Seq(ToBase), t # <<>>
  PROVE  LET u == [t EXCEPT ![1] = Corrupt]
         IN  /\ Ordered(r, t) => Ordered(r, u)
             /\ Numbers(r, u) \subseteq Numbers(r, t)
             /\ NoPayload(t) => NoPayload(u)
<1> DEFINE u == [t EXCEPT ![1] = Corrupt]
<1>1. ~IsPayload(Corrupt)
  BY DEF IsPayload, Corrupt
<1>2. \A k \in DOMAIN u : k \in DOMAIN t /\ (IsPayload(u[k]) => u[k] = t[k])
  BY <1>1, Replaced, Packets
<1> HIDE DEF u
<1>3. Ordered(r, t) => Ordered(r, u)
  BY <1>2 DEF Ordered
<1>4. Numbers(r, u) \subseteq Numbers(r, t)
  BY <1>2 DEF Numbers
<1>5. NoPayload(t) => NoPayload(u)
  BY <1>2 DEF NoPayload
<1> QED BY <1>3, <1>4, <1>5 DEF u

\* Requests for files come, are read and are spoiled.
LEMMA FileRequests ==
  ASSUME NEW s \in Seq(ToNode)
  PROVE  /\ \A p \in ToNode :
              /\ ~IsFileRequest(p) =>
                   /\ Asks(Append(s, p)) => Asks(s)
                   /\ AsksOnce(s) => AsksOnce(Append(s, p))
              /\ ~Asks(s) => AsksOnce(Append(s, p))
         /\ s # <<>> =>
              /\ Asks(Tail(s)) => Asks(s)
              /\ AsksOnce(s) => AsksOnce(Tail(s))
              /\ IsFileRequest(Head(s)) => Asks(s)
              /\ IsFileRequest(Head(s)) /\ AsksOnce(s) => ~Asks(Tail(s))
         /\ s # <<>> => \A p \in ToNode : ~IsFileRequest(p) =>
              /\ Asks([s EXCEPT ![1] = p]) => Asks(s)
              /\ AsksOnce(s) => AsksOnce([s EXCEPT ![1] = p])
<1>1. ASSUME NEW p \in ToNode
      PROVE  /\ ~IsFileRequest(p) =>
                   /\ Asks(Append(s, p)) => Asks(s)
                   /\ AsksOnce(s) => AsksOnce(Append(s, p))
             /\ ~Asks(s) => AsksOnce(Append(s, p))
  <2> DEFINE u == Append(s, p)
  <2>1. \A k \in DOMAIN u : (k \in DOMAIN s /\ u[k] = s[k]) \/ (k = Len(s) + 1 /\ u[k] = p)
    BY Last1
  <2> HIDE DEF u
  <2> QED BY <2>1 DEF Asks, AsksOnce, u
<1>2. ASSUME s # <<>>
      PROVE  /\ Asks(Tail(s)) => Asks(s)
             /\ AsksOnce(s) => AsksOnce(Tail(s))
             /\ IsFileRequest(Head(s)) => Asks(s)
             /\ IsFileRequest(Head(s)) /\ AsksOnce(s) => ~Asks(Tail(s))
  <2> DEFINE u == Tail(s)
  <2>1. \A k \in DOMAIN u : k \in Nat /\ k + 1 \in DOMAIN s /\ u[k] = s[k + 1] /\ 1 # k + 1
    BY <1>2, Front
  <2>2. 1 \in DOMAIN s /\ Head(s) = s[1]
    BY <1>2, Front
  <2>3. \A k, l \in Nat : k + 1 = l + 1 => k = l
    OBVIOUS
  <2> HIDE DEF u
  <2> QED BY <2>1, <2>2, <2>3 DEF Asks, AsksOnce, u
<1>3. ASSUME s # <<>>, NEW p \in ToNode, ~IsFileRequest(p)
      PROVE  /\ Asks([s EXCEPT ![1] = p]) => Asks(s)
             /\ AsksOnce(s) => AsksOnce([s EXCEPT ![1] = p])
  <2> DEFINE u == [s EXCEPT ![1] = p]
  <2>1. \A k \in DOMAIN u : k \in DOMAIN s /\ (IsFileRequest(u[k]) => u[k] = s[k])
    BY <1>3, Replaced
  <2> HIDE DEF u
  <2> QED BY <2>1 DEF Asks, AsksOnce, u
<1> QED BY <1>1, <1>2, <1>3

\* The packets that move a transfer on, when others come and go.
LEMMA PacketsOnAir ==
  ASSUME NEW S, NEW s \in Seq(S)
  PROVE  /\ \A p \in S : OnAir(Append(s, p)) = OnAir(s) \cup {p}
         /\ \A t \in Seq(S) : OnAir(s \o t) = OnAir(s) \cup OnAir(t)
         /\ s # <<>> => Head(s) \in OnAir(s) /\ OnAir(Tail(s)) \subseteq OnAir(s)
<1>1. ASSUME NEW p \in S PROVE OnAir(Append(s, p)) = OnAir(s) \cup {p}
  BY Last1 DEF OnAir
<1>2. ASSUME NEW t \in Seq(S) PROVE OnAir(s \o t) = OnAir(s) \cup OnAir(t)
  <2> DEFINE u == s \o t
  <2>1. \A k \in DOMAIN s : k \in DOMAIN u /\ u[k] = s[k]
    BY Behind
  <2>2. \A k \in DOMAIN t : \E l \in DOMAIN u : u[l] = t[k]
    <3>1. \A k \in DOMAIN t : Len(s) + k \in DOMAIN u /\ u[Len(s) + k] = t[k]
      BY ConcatProperties
    <3> QED BY <3>1
  <2>3. \A l \in DOMAIN u : (\E k \in DOMAIN s : u[l] = s[k]) \/ (\E k \in DOMAIN t : u[l] = t[k])
    BY Behind
  <2> HIDE DEF u
  <2>4. OnAir(u) = OnAir(s) \cup OnAir(t)
    BY <2>1, <2>2, <2>3 DEF OnAir
  <2> QED BY <2>4 DEF u
<1>3. ASSUME s # <<>> PROVE Head(s) \in OnAir(s) /\ OnAir(Tail(s)) \subseteq OnAir(s)
  BY <1>3, Front DEF OnAir
<1> QED BY <1>1, <1>2, <1>3

LEMMA JoinedOnAir ==
  ASSUME NEW s \in Seq(ToBase), NEW t \in Seq(ToBase)
  PROVE  OnAir(s \o t) = OnAir(s) \cup OnAir(t)
BY PacketsOnAir

LEMMA SentOnAir ==
  ASSUME NEW s \in Seq(ToNode), NEW p \in ToNode
  PROVE  OnAir(Append(s, p)) = OnAir(s) \cup {p}
BY PacketsOnAir

LEMMA TwoOnAir ==
  ASSUME NEW a \in ToBase, NEW q \in ToBase
  PROVE  OnAir(<<a>> \o <<q>>) = {a, q}
<1>1. \A p \in ToBase : OnAir(<<p>>) = {p}
  BY DEF OnAir
<1>2. <<a>> \in Seq(ToBase) /\ <<q>> \in Seq(ToBase)
  OBVIOUS
<1>3. OnAir(<<a>> \o <<q>>) = OnAir(<<a>>) \cup OnAir(<<q>>)
  BY Zenon, <1>2, JoinedOnAir
<1> QED BY Zenon, <1>1, <1>3

LEMMA StillOne ==
  ASSUME NEW s \in Seq(ToNode), NEW t \in Seq(ToBase), OneAtATime(s, t)
  PROVE  /\ s # <<>> => OneAtATime(Tail(s), t)
         /\ t # <<>> => OneAtATime(s, Tail(t))
         /\ \A p \in ToNode : ~Moves(p) => OneAtATime(Append(s, p), t)
         /\ \A new \in Seq(ToBase) : NoReplies(new) => OneAtATime(s, t \o new)
<1>1. ASSUME s # <<>> PROVE OneAtATime(Tail(s), t)
  <2> DEFINE u == Tail(s)
  <2>1. \A k \in DOMAIN u : k \in Nat /\ k + 1 \in DOMAIN s /\ u[k] = s[k + 1]
    BY <1>1, Front
  <2>2. \A k, l \in Nat : k + 1 = l + 1 => k = l
    OBVIOUS
  <2>3. NoMoves(s) => NoMoves(u)
    BY <1>1, PacketsOnAir DEF NoMoves
  <2> HIDE DEF u
  <2>4. OneAtATime(u, t)
    BY <2>1, <2>2, <2>3 DEF OneAtATime
  <2> QED BY <2>4 DEF u
<1>2. ASSUME t # <<>> PROVE OneAtATime(s, Tail(t))
  <2> DEFINE u == Tail(t)
  <2>1. \A k \in DOMAIN u : k \in Nat /\ k + 1 \in DOMAIN t /\ u[k] = t[k + 1]
    BY <1>2, Front
  <2>2. \A k, l \in Nat : k + 1 = l + 1 => k = l
    OBVIOUS
  <2>3. NoReplies(t) => NoReplies(u)
    BY <1>2, PacketsOnAir DEF NoReplies
  <2> HIDE DEF u
  <2>4. OneAtATime(s, u)
    BY <2>1, <2>2, <2>3 DEF OneAtATime
  <2> QED BY <2>4 DEF u
<1>3. ASSUME NEW p \in ToNode, ~Moves(p) PROVE OneAtATime(Append(s, p), t)
  <2> DEFINE u == Append(s, p)
  <2>1. \A k \in DOMAIN u : Moves(u[k]) => k \in DOMAIN s /\ u[k] = s[k]
    BY <1>3, Last1
  <2>2. NoMoves(s) => NoMoves(u)
    BY <1>3, PacketsOnAir DEF NoMoves
  <2> HIDE DEF u
  <2>3. OneAtATime(u, t)
    BY <2>1, <2>2 DEF OneAtATime
  <2> QED BY <2>3 DEF u
<1>4. ASSUME NEW new \in Seq(ToBase), NoReplies(new) PROVE OneAtATime(s, t \o new)
  <2> DEFINE u == t \o new
  <2>1. \A k \in DOMAIN u : Replies(u[k]) => k \in DOMAIN t /\ u[k] = t[k]
    BY <1>4, Behind DEF NoReplies, OnAir
  <2>2. NoReplies(t) => NoReplies(u)
    BY <1>4, PacketsOnAir DEF NoReplies
  <2> HIDE DEF u
  <2>3. OneAtATime(s, u)
    BY <2>1, <2>2 DEF OneAtATime
  <2> QED BY <2>3 DEF u
<1> QED BY <1>1, <1>2, <1>3, <1>4

LEMMA NoneLeft ==
  ASSUME NEW s \in Seq(ToNode), NEW t \in Seq(ToBase), OneAtATime(s, t)
  PROVE  /\ s # <<>> /\ Moves(Head(s)) => NoMoves(Tail(s)) /\ NoReplies(t)
         /\ t # <<>> /\ Replies(Head(t)) => NoMoves(s) /\ NoReplies(Tail(t))
<1>1. ASSUME s # <<>>, Moves(Head(s)) PROVE NoMoves(Tail(s)) /\ NoReplies(t)
  <2>1. \A k \in DOMAIN Tail(s) : k \in Nat /\ k + 1 # 1 /\ k + 1 \in DOMAIN s /\ Tail(s)[k] = s[k + 1]
    BY <1>1, Front
  <2>2. 1 \in DOMAIN s /\ Moves(s[1])
    BY <1>1, Front
  <2>3. NoMoves(Tail(s))
    BY <2>1, <2>2 DEF OneAtATime, NoMoves, OnAir
  <2>4. ~NoMoves(s)
    BY <2>2 DEF NoMoves, OnAir
  <2> QED BY <2>3, <2>4 DEF OneAtATime
<1>2. ASSUME t # <<>>, Replies(Head(t)) PROVE NoMoves(s) /\ NoReplies(Tail(t))
  <2>1. \A k \in DOMAIN Tail(t) : k \in Nat /\ k + 1 # 1 /\ k + 1 \in DOMAIN t /\ Tail(t)[k] = t[k + 1]
    BY <1>2, Front
  <2>2. 1 \in DOMAIN t /\ Replies(t[1])
    BY <1>2, Front
  <2>3. NoReplies(Tail(t))
    BY <2>1, <2>2 DEF OneAtATime, NoReplies, OnAir
  <2>4. ~NoReplies(t)
    BY <2>2 DEF NoReplies, OnAir
  <2> QED BY <2>3, <2>4 DEF OneAtATime
<1> QED BY <1>1, <1>2

LEMMA FirstOne ==
  ASSUME NEW s \in Seq(ToNode), NEW t \in Seq(ToBase), NoMoves(s), NoReplies(t)
  PROVE  /\ OneAtATime(s, t)
         /\ \A p \in ToNode : OneAtATime(Append(s, p), t)
         /\ \A q \in ToBase : OneAtATime(s, Append(t, q))
<1>1. (\A k \in DOMAIN s : ~Moves(s[k])) /\ (\A k \in DOMAIN t : ~Replies(t[k]))
  BY DEF NoMoves, NoReplies, OnAir
<1>2. OneAtATime(s, t)
  BY <1>1 DEF OneAtATime
<1>3. ASSUME NEW p \in ToNode PROVE OneAtATime(Append(s, p), t)
  <2> DEFINE u == Append(s, p)
  <2>1. \A k \in DOMAIN u : Moves(u[k]) => k = Len(s) + 1
    BY <1>1, Last1
  <2> HIDE DEF u
  <2>2. OneAtATime(u, t)
    BY <1>1, <2>1 DEF OneAtATime
  <2> QED BY <2>2 DEF u
<1>4. ASSUME NEW q \in ToBase PROVE OneAtATime(s, Append(t, q))
  <2> DEFINE u == Append(t, q)
  <2>1. \A k \in DOMAIN u : Replies(u[k]) => k = Len(t) + 1
    BY <1>1, Last1
  <2> HIDE DEF u
  <2>2. OneAtATime(s, u)
    BY <1>1, <2>1 DEF OneAtATime
  <2> QED BY <2>2 DEF u
<1> QED BY <1>2, <1>3, <1>4

-----------------------------------------------------------------------------
LEMMA InitHolds == Init => IInv
<1> SUFFICES ASSUME Init PROVE IInv
  OBVIOUS
<1>1. toNode = <<>> /\ toBase = <<>> /\ received = <<>>
  BY DEF Init
<1>2. <<>> \in Seq(ToNode) /\ <<>> \in Seq(ToBase) /\ <<>> \in Seq(Nat)
  BY EmptySeq
<1>3. {requests, extras} \subseteq Nat /\ MaxRequests \in Nat /\ MaxExtra \in Nat /\ MaxAir \in Nat
  BY BoundsAssumption DEF Init
<1>4. Asked(<<>>) = 0
  BY FS_EmptySet DEF Asked, Asking
<1>5. Typed
  BY <1>1, <1>2, <1>3 DEF Init, NodeInit, Typed, Closed
<1>6. AirBounded
  BY <1>1, <1>3, <1>4 DEF Init, AirBounded
<1>7. Counted /\ Orderly /\ Undisturbed
  BY <1>1 DEF Init, NodeInit, Counted, Orderly, Ordered, Numbers, FromFile, AskedAtRest, Asks,
              AsksOnce, Undisturbed,
              OneAtATime, NoMoves, OnAir, Flow
<1>8. Flags
  BY Zenon DEF Init, NodeInit, Flags
<1> QED BY <1>5, <1>6, <1>7, <1>8 DEF IInv

-----------------------------------------------------------------------------
\* What the node does to the packets on the air and to its file.
Quiet(new) ==
  /\ toBase' = toBase \o new
  /\ NoPayload(new)

\* Answers only, and perhaps an end of the transfer.
Answers(new) ==
  /\ Quiet(new)
  /\ file' \in {file, Closed}
  /\ ongoing_request' \in {ongoing_request, "NONE"}
  /\ timeout_inc' \in {timeout_inc, 1, timeout_inc + 1}
  /\ bytes_left' \in Nat
  /\ UNCHANGED bytes_sent

\* The next payload of the file.
SendsPayload(new) ==
  /\ new = <<Payload(NextPayload)>>
  /\ toBase' = toBase \o new
  /\ file' = IF NextPayload = 0 THEN file ELSE [file EXCEPT !.pos = @ + 1]
  /\ ongoing_request # "NONE"
  /\ ongoing_request' = ongoing_request
  /\ timeout_inc' \in {1, timeout_inc + 1}
  /\ bytes_left' \in Nat
  /\ bytes_sent' = TRUE

\* A log, after the request for it.
Opens(new) ==
  /\ Quiet(new)
  /\ file' \in [size : Nat, pos : {0}]
  /\ ongoing_request' = "REQUEST_FILE"
  /\ timeout_inc' = 1
  /\ bytes_left' \in Nat
  /\ bytes_sent' = FALSE

\* Most packets are answered, and leave the transfer alone.
LEMMA OnlyAnswered ==
  ASSUME Typed, NEW new \in Seq(ToBase), Quiet(new), UNCHANGED <<ongoing_request, senderVars>>,
         timeout_inc' \in {timeout_inc, 1, timeout_inc + 1}
  PROVE  Answers(new)
<1>1. UNCHANGED bytes_sent /\ file' = file /\ ongoing_request' = ongoing_request /\ bytes_left' = bytes_left
  BY Zenon DEF senderVars
<1>2. file' \in {file, Closed} /\ ongoing_request' \in {ongoing_request, "NONE"} /\ bytes_left' \in Nat
  BY <1>1 DEF Typed
<1> QED BY Zenon, <1>1, <1>2 DEF Answers

LEMMA OneAnswer ==
  ASSUME Typed, NEW p \in ToBase, ~IsPayload(p), toBase' = Append(toBase, p)
  PROVE  <<p>> \in Seq(ToBase) /\ Len(<<p>>) = 1 /\ Quiet(<<p>>)
BY Last1 DEF Quiet, NoPayload, Typed

LEMMA NoAnswer ==
  ASSUME Typed, UNCHANGED toBase
  PROVE  <<>> \in Seq(ToBase) /\ Len(<<>>) = 0 /\ Quiet(<<>>)
<1>1. <<>> \in Seq(ToBase) /\ Len(<<>>) = 0 /\ toBase = toBase \o <<>>
  BY ConcatEmptySeq, EmptySeq DEF Typed
<1> QED BY <1>1 DEF Quiet, NoPayload

LEMMA TwoAnswers ==
  ASSUME Typed, NEW p \in ToBase, ~IsPayload(p), NEW q \in ToBase, ~IsPayload(q),
         toBase' = toBase \o <<p>> \o <<q>>
  PROVE  LET new == <<p>> \o <<q>> IN new \in Seq(ToBase) /\ Len(new) = 2 /\ Quiet(new)
<1> DEFINE new == <<p>> \o <<q>>
<1>1. <<p>> \in Seq(ToBase) /\ <<q>> \in Seq(ToBase) /\ toBase \in Seq(ToBase)
  BY DEF Typed
<1>2. new \in Seq(ToBase) /\ Len(new) = 2 /\ \A k \in DOMAIN new : new[k] \in {p, q}
  BY <1>1, Behind
<1>3. toBase' = toBase \o new
  BY <1>1, ConcatAssociative
<1> QED BY <1>2, <1>3 DEF Quiet, NoPayload

LEMMA SendOnEffect ==
  ASSUME Typed, Flags, NEW left \in Nat, SendOn(left), ongoing_request # "NONE",
         bytes_left' \in Nat, timeout_inc' \in {1, timeout_inc + 1}
  PROVE  \E new \in Seq(ToBase) : Len(new) = 1 /\ (Answers(new) \/ SendsPayload(new))
<1>1. CASE left = 0
  <2> DEFINE new == <<EndOfFile>>
  <2>1. new \in Seq(ToBase) /\ Len(new) = 1 /\ \A k \in DOMAIN new : ~IsPayload(new[k])
    BY Packets DEF IsPayload, EndOfFile
  <2>2. toBase' = toBase \o new
    BY <1>1, <2>1, Packets, Last1 DEF SendOn, Typed
  <2>3. UNCHANGED bytes_sent
    BY <1>1 DEF SendOn
  <2>4. Answers(new)
    BY <1>1, <2>1, <2>2, <2>3 DEF SendOn, Answers, Quiet, NoPayload
  <2> QED BY <2>1, <2>4
<1>2. CASE left > 0
  <2> DEFINE new == <<Payload(NextPayload)>>
  <2>1. NextPayload \in Nat
    BY DEF NextPayload, Typed
  <2>2. new \in Seq(ToBase) /\ Len(new) = 1
    BY <2>1, Packets
  <2>3. toBase' = toBase \o new
    BY SMTT(40), <1>2, <2>1, Packets, Last1 DEF SendOn, Typed
  <2>4. bytes_sent' = TRUE
    BY <1>2 DEF SendOn
  <2>5. /\ file' = IF NextPayload = 0 THEN file ELSE [file EXCEPT !.pos = @ + 1]
        /\ ongoing_request' = ongoing_request
    BY <1>2 DEF SendOn
  <2>6. SendsPayload(new)
    BY <2>3, <2>4, <2>5 DEF SendsPayload
  <2> QED BY <2>2, <2>6
<1> QED BY <1>1, <1>2

\* Asking for a log opens it, or is answered that there is none.
LEMMA InitiateEffect ==
  ASSUME Typed, NEW l \in Log, NEW p \in ToBase, ~IsPayload(p), Initiate(l, <<p>>)
  PROVE  \E new \in Seq(ToBase) : Len(new) = 2 /\ (Answers(new) \/ Opens(new))
<1> DEFINE new(n) == <<p>> \o <<SizeOf(n)>>
<1>1. ASSUME NEW n \in Nat, toBase' = toBase \o <<p>> \o <<SizeOf(n)>>
      PROVE  new(n) \in Seq(ToBase) /\ Len(new(n)) = 2 /\ Quiet(new(n))
  <2>1. SizeOf(n) \in ToBase /\ ~IsPayload(SizeOf(n))
    BY Packets DEF IsPayload, SizeOf
  <2> QED BY <1>1, <2>1, TwoAnswers
<1>2. Payloads[l] \in Nat
  BY LogAssumption
<1> DEFINE Fails == /\ toBase' = toBase \o <<p>> \o <<SizeOf(0)>>
                    /\ file' = Closed
                    /\ bytes_left' \in {0, bytes_left}
                    /\ UNCHANGED <<ongoing_request, timeout_inc, bytes_sent>>
           Starts == /\ toBase' = toBase \o <<p>> \o <<SizeOf(Payloads[l])>>
                     /\ file' = [size |-> Payloads[l], pos |-> 0]
                     /\ bytes_left' = Payloads[l]
                     /\ bytes_sent' = FALSE
                     /\ ongoing_request' = "REQUEST_FILE"
                     /\ timeout_inc' = 1
<1>3. Fails \/ Starts
  BY Zenon DEF Initiate
<1>4. CASE Fails
  <2>1. UNCHANGED bytes_sent
    BY <1>4
  <2>2. new(0) \in Seq(ToBase) /\ Len(new(0)) = 2 /\ Quiet(new(0))
    BY <1>1, <1>4
  <2>3. /\ file' \in {file, Closed} /\ ongoing_request' \in {ongoing_request, "NONE"}
        /\ timeout_inc' \in {timeout_inc, 1, timeout_inc + 1} /\ bytes_left' \in Nat
    BY <1>4 DEF Typed
  <2>4. Answers(new(0))
    BY Zenon, <2>1, <2>2, <2>3 DEF Answers
  <2> QED BY <2>2, <2>4
<1>5. CASE Starts
  <2>1. Opens(new(Payloads[l]))
    BY <1>1, <1>2, <1>5 DEF Opens
  <2> QED BY <1>1, <1>2, <1>5, <2>1
<1> QED BY <1>3, <1>4, <1>5

\* An acknowledgement, a rejection or a time-out sends one packet at most.
LEMMA HandleAckEffect ==
  ASSUME Typed, Flags, NEW ack \in BOOLEAN, HandleAck(ack), timeout_inc' \in {1, timeout_inc + 1}
  PROVE  \E new \in Seq(ToBase) : Len(new) \in {0, 1} /\ (Answers(new) \/ SendsPayload(new))
<1>1. CASE ongoing_request = "NONE"
  <2>1. UNCHANGED <<ongoing_request, senderVars, toBase>>
    BY <1>1 DEF HandleAck
  <2>2. UNCHANGED toBase /\ UNCHANGED <<ongoing_request, senderVars>>
    BY Zenon, <2>1
  <2>3. timeout_inc' \in {timeout_inc, 1, timeout_inc + 1}
    OBVIOUS
  <2> QED BY Zenon, <2>2, <2>3, NoAnswer, OnlyAnswered
<1>2. CASE ongoing_request # "NONE" /\ ack
  <2> DEFINE left == IF bytes_sent /\ bytes_left > 0 THEN bytes_left - 1 ELSE bytes_left
  <2>1. bytes_left' = left /\ SendOn(left)
    BY Zenon, <1>2 DEF HandleAck, Advance
  <2>2. left \in Nat
    BY DEF Typed
  <2>3. bytes_left' \in Nat
    BY <2>1, <2>2
  <2>4. \E new \in Seq(ToBase) : Len(new) = 1 /\ (Answers(new) \/ SendsPayload(new))
    <3> HIDE DEF left
    <3> QED BY Zenon, <1>2, <2>1, <2>2, <2>3, SendOnEffect
  <2> QED BY Zenon, <2>4
<1>3. CASE ongoing_request # "NONE" /\ ~ack
  <2>1. SendAgain
    BY Zenon, <1>3 DEF HandleAck
  <2>2. bytes_left' = bytes_left /\ bytes_left \in Nat
    BY <2>1 DEF SendAgain, Typed
  <2>3. CASE bytes_sent /\ SendOn(bytes_left)
    <3>1. \E new \in Seq(ToBase) : Len(new) = 1 /\ (Answers(new) \/ SendsPayload(new))
      BY <1>3, <2>2, <2>3, SendOnEffect
    <3> QED BY Zenon, <3>1
  <2>4. CASE /\ toBase' = Append(toBase, SizeOf(bytes_left))
             /\ UNCHANGED <<bytes_sent, file, ongoing_request>>
    <3> DEFINE new == <<SizeOf(bytes_left)>>
    <3>1. SizeOf(bytes_left) \in ToBase /\ ~IsPayload(SizeOf(bytes_left))
      BY <2>2, Packets DEF SizeOf, IsPayload
    <3>2. new \in Seq(ToBase) /\ Len(new) = 1 /\ Quiet(new)
      BY <2>4, <3>1, OneAnswer
    <3>3. UNCHANGED <<ongoing_request, senderVars>>
      BY Zenon, <2>2, <2>4 DEF senderVars
    <3>4. timeout_inc' \in {timeout_inc, 1, timeout_inc + 1}
      OBVIOUS
    <3>5. Answers(new)
      BY <3>2, <3>3, <3>4, OnlyAnswered
    <3> QED BY Zenon, <3>2, <3>5
  <2> QED BY Zenon, <2>1, <2>3, <2>4 DEF SendAgain
<1> QED BY Zenon, <1>1, <1>2, <1>3

LEMMA NodePacket ==
  ASSUME NEW p \in ToNode
  PROVE  /\ p.type = "ACK" => p.code \in 0 .. 2
         /\ p.type = "REQUEST" =>
              p.log \in Log /\ p.kind \in {"REQUEST_FILE", "SHORT", "NUM_LOG", "UNKNOWN"}
<1>1. CASE p \in [type : {"ACK"}, code : 0 .. 2]
  BY <1>1
<1>2. CASE p \in [type : {"REQUEST"}, kind : {"REQUEST_FILE", "SHORT", "NUM_LOG", "UNKNOWN"}, log : Log]
  BY <1>2
<1>3. CASE p \in {Handshake, Invalid, Corrupt, Truncated}
  <2>1. p.type \in {"HANDSHAKE", "INVALID", "CORRUPT", "TRUNCATED"}
    BY <1>3 DEF Handshake, Invalid, Corrupt, Truncated
  <2> QED BY <2>1
<1> QED BY Zenon, <1>1, <1>2, <1>3 DEF ToNode

LEMMA HeadOfToNode ==
  ASSUME Typed, toNode # <<>>
  PROVE  /\ Head(toNode) \in ToNode
         /\ Head(toNode).type = "ACK" => Head(toNode).code \in 0 .. 2
         /\ Head(toNode).type = "REQUEST" =>
              Head(toNode).log \in Log /\ Head(toNode).kind \in {"REQUEST_FILE", "SHORT", "NUM_LOG", "UNKNOWN"}
         /\ Tail(toNode) \in Seq(ToNode) /\ Len(toNode) = Len(Tail(toNode)) + 1 /\ Tail(toNode) # toNode
<1>1. /\ Head(toNode) \in ToNode
      /\ Tail(toNode) \in Seq(ToNode) /\ Len(toNode) = Len(Tail(toNode)) + 1 /\ Tail(toNode) # toNode
  BY Front DEF Typed
<1> QED BY <1>1, NodePacket

\* Two packets answer a request, one at most any other packet; only a file
\* request opens a log, and only an acknowledgement has a payload sent.
LEMMA ReadEffect ==
  ASSUME Typed, Flags, ReadPacket
  PROVE  \E new \in Seq(ToBase) :
           \/ Len(new) \in {0, 1} /\ Answers(new)
           \/ Len(new) \in {0, 1} /\ SendsPayload(new) /\ Head(toNode).type = "ACK"
           \/ Len(new) \in {1, 2} /\ Answers(new) /\ IsRequest(Head(toNode))
           \/ Len(new) = 2 /\ Opens(new) /\ IsFileRequest(Head(toNode))
<1> DEFINE p == Head(toNode)
<1>1. toNode # <<>> /\ p \in ToNode
  BY HeadOfToNode DEF ReadPacket
<1>2. CASE ~reading /\ p.type \in {"HANDSHAKE", "ACK", "REQUEST"} /\ HandlePacket(p)
  <2>1. CASE p.type = "HANDSHAKE"
    <3>1. toBase' = Append(toBase, Positive) /\ UNCHANGED <<ongoing_request, timeout_inc, senderVars>>
      BY <1>2, <2>1 DEF HandlePacket
    <3>2. Positive \in ToBase /\ ~IsPayload(Positive)
      BY Packets DEF Positive, Ack, IsPayload
    <3>3. UNCHANGED <<ongoing_request, senderVars>> /\ timeout_inc' \in {timeout_inc, 1, timeout_inc + 1}
      BY Zenon, <3>1
    <3>4. <<Positive>> \in Seq(ToBase) /\ Len(<<Positive>>) = 1 /\ Quiet(<<Positive>>)
      BY <3>1, <3>2, OneAnswer
    <3> QED BY Zenon, <3>3, <3>4, OnlyAnswered
  <2>2. CASE p.type = "ACK"
    <3>1. HandleAck(p.code # 0) /\ timeout_inc' = 1
      BY <1>2, <2>2 DEF HandlePacket
    <3>2. (p.code # 0) \in BOOLEAN
      BY Zenon
    <3>3. timeout_inc' \in {1, timeout_inc + 1}
      BY <3>1
    <3>4. \E new \in Seq(ToBase) : Len(new) \in {0, 1} /\ (Answers(new) \/ SendsPayload(new))
      BY Zenon, <3>1, <3>2, <3>3, HandleAckEffect
    <3> QED BY Zenon, <2>2, <3>4
  <2>3. CASE p.type = "REQUEST"
    <3> DEFINE a == IF ongoing_request = "NONE" THEN Positive ELSE Negative
    <3>1. RespondToRequest(p) /\ p.log \in Log /\ IsRequest(p)
      BY <1>1, <1>2, <2>3, HeadOfToNode DEF HandlePacket, IsRequest
    <3>2. a \in ToBase /\ ~IsPayload(a)
      BY Packets DEF Positive, Negative, Ack, IsPayload
    <3>3. CASE p.kind = "REQUEST_FILE" /\ Initiate(p.log, <<a>>)
      <4>1. IsFileRequest(p)
        BY <2>3, <3>3 DEF IsFileRequest
      <4>2. \E new \in Seq(ToBase) : Len(new) = 2 /\ (Answers(new) \/ Opens(new))
        <5> HIDE DEF a
        <5> QED BY <3>1, <3>2, <3>3, InitiateEffect
      <4> QED BY Zenon, <3>1, <4>1, <4>2
    <3>4. CASE /\ toBase' = toBase \o <<a>> \/ \E q \in {SizeOf(0), Negative} : toBase' = toBase \o <<a>> \o <<q>>
               /\ UNCHANGED <<ongoing_request, timeout_inc, senderVars>>
      <4>1. UNCHANGED <<ongoing_request, senderVars>> /\ timeout_inc' \in {timeout_inc, 1, timeout_inc + 1}
        BY Zenon, <3>4
      <4>2. CASE toBase' = toBase \o <<a>>
        <5>1. toBase' = Append(toBase, a)
          BY <3>2, <4>2, Last1 DEF Typed
        <5>2. <<a>> \in Seq(ToBase) /\ Len(<<a>>) = 1 /\ Quiet(<<a>>)
          BY <3>2, <5>1, OneAnswer
        <5> QED BY Zenon, <3>1, <4>1, <5>2, OnlyAnswered
      <4>3. ASSUME NEW q \in {SizeOf(0), Negative}, toBase' = toBase \o <<a>> \o <<q>>
            PROVE  \E new \in Seq(ToBase) : Len(new) = 2 /\ Answers(new)
        <5>1. q \in ToBase /\ ~IsPayload(q)
          BY Packets DEF SizeOf, Negative, Ack, IsPayload
        <5>2. LET new == <<a>> \o <<q>> IN new \in Seq(ToBase) /\ Len(new) = 2 /\ Quiet(new)
          BY <3>2, <4>3, <5>1, TwoAnswers
        <5> QED BY Zenon, <4>1, <5>2, OnlyAnswered
      <4> QED BY Zenon, <3>1, <3>4, <4>2, <4>3
    <3>5. \/ p.kind = "REQUEST_FILE" /\ Initiate(p.log, <<a>>)
          \/ /\ toBase' = toBase \o <<a>> \/ \E q \in {SizeOf(0), Negative} : toBase' = toBase \o <<a>> \o <<q>>
             /\ UNCHANGED <<ongoing_request, timeout_inc, senderVars>>
      BY Zenon, <3>1 DEF RespondToRequest
    <3> QED BY Zenon, <3>3, <3>4, <3>5
  <2> QED BY <1>2, <2>1, <2>2, <2>3
<1>3. CASE /\ UNCHANGED <<protocolVars, senderVars, toBase>>
  <2>1. UNCHANGED <<ongoing_request, senderVars>> /\ UNCHANGED timeout_inc /\ UNCHANGED toBase
    BY Zenon, <1>3 DEF protocolVars
  <2>2. timeout_inc' \in {timeout_inc, 1, timeout_inc + 1}
    BY <2>1
  <2> QED BY Zenon, <2>1, <2>2, NoAnswer, OnlyAnswered
<1>4. CASE /\ toBase' \in {Append(toBase, Negative), Append(toBase, Resend)}
           /\ UNCHANGED <<protocolVars, senderVars>>
  <2>1. PICK q \in {Negative, Resend} : toBase' = Append(toBase, q)
    BY <1>4
  <2>2. q \in ToBase /\ ~IsPayload(q)
    BY Packets DEF Negative, Resend, Ack, IsPayload
  <2>3. UNCHANGED <<ongoing_request, senderVars>> /\ timeout_inc' \in {timeout_inc, 1, timeout_inc + 1}
    BY Zenon, <1>4 DEF protocolVars
  <2>4. <<q>> \in Seq(ToBase) /\ Len(<<q>>) = 1 /\ Quiet(<<q>>)
    BY <2>1, <2>2, OneAnswer
  <2> QED BY Zenon, <2>3, <2>4, OnlyAnswered
<1> QED BY Zenon, <1>2, <1>3, <1>4 DEF ReadPacket, nodeVars

\* The time-out grows with a repetition only, and is reset whenever the base
\* was heard.
LEMMA ReadTimeout ==
  ASSUME Typed, ReadPacket
  PROVE  \/ /\ ~reading /\ Head(toNode).type = "ACK" /\ timeout_inc' = 1
         \/ /\ ~reading /\ Head(toNode).type = "REQUEST" /\ timeout_inc' = 1
         \/ /\ reading \/ Head(toNode).type # "ACK"
            /\ UNCHANGED <<timeout_inc, ongoing_request>>
<1> DEFINE p == Head(toNode)
<1>1. CASE ~reading /\ p.type = "HANDSHAKE" /\ HandlePacket(p)
  BY <1>1 DEF HandlePacket
<1>2. CASE ~reading /\ p.type = "ACK" /\ HandlePacket(p)
  BY <1>2 DEF HandlePacket
<1>3. CASE ~reading /\ p.type = "REQUEST" /\ HandlePacket(p)
  <2>1. RespondToRequest(p)
    BY <1>3 DEF HandlePacket
  <2>2. timeout_inc' = 1 \/ UNCHANGED <<timeout_inc, ongoing_request>>
    BY Zenon, <2>1 DEF RespondToRequest, Initiate
  <2> QED BY <1>3, <2>2
<1>4. CASE (reading \/ p.type # "ACK") /\ UNCHANGED protocolVars
  BY <1>4 DEF protocolVars
<1>5. \/ ~reading /\ p.type \in {"HANDSHAKE", "ACK", "REQUEST"} /\ HandlePacket(p)
      \/ (reading \/ p.type \in {"TRUNCATED", "INVALID", "CORRUPT"}) /\ UNCHANGED protocolVars
  BY Zenon DEF ReadPacket, nodeVars
<1>6. p.type \in {"TRUNCATED", "INVALID", "CORRUPT"} => p.type # "ACK"
  OBVIOUS
<1>7. p.type \in {"HANDSHAKE", "ACK", "REQUEST"} => p.type = "HANDSHAKE" \/ p.type = "ACK" \/ p.type = "REQUEST"
  OBVIOUS
<1> QED BY Zenon, <1>1, <1>2, <1>3, <1>4, <1>5, <1>6, <1>7

LEMMA CountedStep == Typed /\ Counted /\ [Next]_vars => Counted'
<1> SUFFICES ASSUME Typed, Counted, [Next]_vars PROVE Counted'
  OBVIOUS
<1>1. CASE NodeReads
  <2>1. ReadPacket
    BY <1>1 DEF NodeReads
  <2>2. CASE unheard' = 0 /\ timeout_inc' = 1
    BY <2>2 DEF Counted
  <2>3. CASE unheard' = unheard /\ UNCHANGED <<timeout_inc, ongoing_request>>
    BY <2>3 DEF Counted
  <2> QED BY <1>1, <2>1, <2>2, <2>3, ReadTimeout DEF NodeReads
<1>2. CASE NodeRetries
  <2>1. ongoing_request # "NONE" /\ timeout_inc' = timeout_inc + 1 /\ unheard' = unheard + 1
    BY <1>2 DEF NodeRetries, Retry
  <2> QED BY <2>1 DEF Counted, Typed
<1>3. CASE NodeDrops
  BY <1>3 DEF NodeDrops, Drop, Counted
<1>4. CASE BaseRequests \/ BaseInterferes \/ BaseReceives \/ RadioFaults \/ UNCHANGED vars
  <2>1. UNCHANGED <<ongoing_request, timeout_inc, unheard>>
    BY <1>4 DEF BaseRequests, BaseInterferes, BaseReceives, RadioFaults, vars, nodeVars, protocolVars
  <2> QED BY <2>1 DEF Counted
<1> QED BY <1>1, <1>2, <1>3, <1>4 DEF Next

\* What the node does keeps its own state and the packets in their sets.
LEMMA EffectTyped ==
  ASSUME Typed, NEW new \in Seq(ToBase), Answers(new) \/ SendsPayload(new) \/ Opens(new)
  PROVE  /\ toBase' \in Seq(ToBase) /\ Len(toBase') = Len(toBase) + Len(new)
         /\ ongoing_request' \in {"REQUEST_FILE", "NONE"}
         /\ bytes_left' \in Nat
         /\ file' \in [size : Nat, pos : Nat] /\ file'.pos <= file'.size
<1>1. toBase' = toBase \o new
  BY DEF Answers, SendsPayload, Opens, Quiet
<1>2. toBase' \in Seq(ToBase) /\ Len(toBase') = Len(toBase) + Len(new)
  BY <1>1, Behind DEF Typed
<1>3. CASE Answers(new)
  BY <1>2, <1>3 DEF Answers, Typed, Closed
<1>4. CASE SendsPayload(new)
  <2>1. CASE file.pos < file.size
    <3>1. file' = [file EXCEPT !.pos = file.pos + 1]
      BY <1>4, <2>1 DEF SendsPayload, NextPayload, Typed
    <3>2. file' = [size |-> file.size, pos |-> file.pos + 1]
      BY <3>1 DEF Typed
    <3>3. file' \in [size : Nat, pos : Nat] /\ file'.pos <= file'.size
      BY <2>1, <3>2 DEF Typed
    <3> QED BY <1>2, <1>4, <3>3 DEF SendsPayload, Typed
  <2>2. CASE ~(file.pos < file.size)
    BY <1>2, <1>4, <2>2 DEF SendsPayload, NextPayload, Typed
  <2> QED BY <2>1, <2>2
<1>5. CASE Opens(new)
  BY <1>2, <1>5 DEF Opens, Typed
<1> QED BY <1>3, <1>4, <1>5

LEMMA RetryEffect ==
  ASSUME Typed, Flags, Retry
  PROVE  /\ \E new \in Seq(ToBase) : Len(new) \in {0, 1} /\ (Answers(new) \/ SendsPayload(new))
         /\ timeout_inc' \in 1 .. 6
<1>1. HandleAck(FALSE) /\ timeout_inc' = timeout_inc + 1 /\ timeout_inc # 6
  BY DEF Retry
<1>2. timeout_inc' \in {1, timeout_inc + 1} /\ FALSE \in BOOLEAN
  BY <1>1
<1>3. timeout_inc' \in 1 .. 6
  BY <1>1 DEF Typed
<1> QED BY Zenon, <1>1, <1>2, <1>3, HandleAckEffect

-----------------------------------------------------------------------------
\* Packets sent to the node, read and spoiled.
LEMMA AirToNode ==
  ASSUME Typed
  PROVE  /\ Len(toNode) \in Nat /\ Asked(toNode) \in Nat
         /\ \A p \in ToNode :
              /\ Append(toNode, p) \in Seq(ToNode) /\ Len(Append(toNode, p)) = Len(toNode) + 1
              /\ Asked(Append(toNode, p)) = Asked(toNode) + (IF IsRequest(p) THEN 1 ELSE 0)
         /\ toNode # <<>> =>
              /\ Tail(toNode) \in Seq(ToNode) /\ Len(Tail(toNode)) = Len(toNode) - 1
              /\ Asked(Tail(toNode)) \in Nat
              /\ Asked(toNode) = Asked(Tail(toNode)) + (IF IsRequest(Head(toNode)) THEN 1 ELSE 0)
         /\ toNode # <<>> => \A p \in ToNode :
              /\ [toNode EXCEPT ![1] = p] \in Seq(ToNode)
              /\ Len([toNode EXCEPT ![1] = p]) = Len(toNode)
              /\ Asked([toNode EXCEPT ![1] = p]) \in Nat
              /\ ~IsRequest(p) => Asked([toNode EXCEPT ![1] = p]) <= Asked(toNode)
<1>1. toNode \in Seq(ToNode)
  BY DEF Typed
<1>2. Len(toNode) \in Nat /\ Asked(toNode) \in Nat
  BY <1>1, AskedIsNumber
<1>3. ASSUME NEW p \in ToNode
      PROVE  /\ Append(toNode, p) \in Seq(ToNode) /\ Len(Append(toNode, p)) = Len(toNode) + 1
             /\ Asked(Append(toNode, p)) = Asked(toNode) + (IF IsRequest(p) THEN 1 ELSE 0)
  BY <1>1, Last1, AskedAppended
<1>4. ASSUME toNode # <<>>
      PROVE  /\ Tail(toNode) \in Seq(ToNode) /\ Len(Tail(toNode)) = Len(toNode) - 1
             /\ Asked(Tail(toNode)) \in Nat
             /\ Asked(toNode) = Asked(Tail(toNode)) + (IF IsRequest(Head(toNode)) THEN 1 ELSE 0)
  <2>1. Tail(toNode) \in Seq(ToNode) /\ Len(Tail(toNode)) = Len(toNode) - 1
    BY <1>1, <1>4, Front
  <2>2. Asked(Tail(toNode)) \in Nat
    BY <2>1, AskedIsNumber
  <2> QED BY <1>1, <1>4, <2>1, <2>2, AskedBehindFront
<1>5. ASSUME toNode # <<>>, NEW p \in ToNode
      PROVE  /\ [toNode EXCEPT ![1] = p] \in Seq(ToNode)
             /\ Len([toNode EXCEPT ![1] = p]) = Len(toNode)
             /\ Asked([toNode EXCEPT ![1] = p]) \in Nat
             /\ ~IsRequest(p) => Asked([toNode EXCEPT ![1] = p]) <= Asked(toNode)
  <2>1. [toNode EXCEPT ![1] = p] \in Seq(ToNode) /\ Len([toNode EXCEPT ![1] = p]) = Len(toNode)
    BY <1>1, <1>5, Replaced
  <2>2. Asked([toNode EXCEPT ![1] = p]) \in Nat
    BY <2>1, AskedIsNumber
  <2> QED BY <1>1, <1>5, <2>1, <2>2, AskedReplaced
<1> QED BY <1>2, <1>3, <1>4, <1>5

\* Packets taken from the base's side, and spoiled there.
LEMMA AirToBase ==
  ASSUME Typed
  PROVE  /\ Len(toBase) \in Nat
         /\ toBase # <<>> =>
              /\ Head(toBase) \in ToBase /\ Head(toBase) = toBase[1] /\ 1 \in DOMAIN toBase
              /\ Tail(toBase) \in Seq(ToBase) /\ Len(Tail(toBase)) = Len(toBase) - 1
              /\ \A k \in DOMAIN Tail(toBase) :
                   k \in Nat /\ k + 1 \in DOMAIN toBase /\ Tail(toBase)[k] = toBase[k + 1]
         /\ toBase # <<>> => \A p \in ToBase :
              LET t == [toBase EXCEPT ![1] = p]
              IN  /\ t \in Seq(ToBase) /\ Len(t) = Len(toBase) /\ DOMAIN t = DOMAIN toBase
                  /\ \A k \in DOMAIN t : t[k] = IF k = 1 THEN p ELSE toBase[k]
<1>1. toBase \in Seq(ToBase)
  BY DEF Typed
<1>2. ASSUME toBase # <<>>
      PROVE  /\ Head(toBase) \in ToBase /\ Head(toBase) = toBase[1] /\ 1 \in DOMAIN toBase
             /\ Tail(toBase) \in Seq(ToBase) /\ Len(Tail(toBase)) = Len(toBase) - 1
             /\ \A k \in DOMAIN Tail(toBase) :
                  k \in Nat /\ k + 1 \in DOMAIN toBase /\ Tail(toBase)[k] = toBase[k + 1]
  BY <1>1, <1>2, Front
<1>3. ASSUME toBase # <<>>, NEW p \in ToBase
      PROVE  LET t == [toBase EXCEPT ![1] = p]
             IN  /\ t \in Seq(ToBase) /\ Len(t) = Len(toBase) /\ DOMAIN t = DOMAIN toBase
                 /\ \A k \in DOMAIN t : t[k] = IF k = 1 THEN p ELSE toBase[k]
  BY <1>1, <1>3, Replaced
<1> QED BY <1>1, <1>2, <1>3

\* The two sides' steps, as far as the packets go.
LEMMA NodeStepAir ==
  ASSUME Typed, Flags, NodeReads \/ NodeRetries
  PROVE  \E new \in Seq(ToBase) :
           /\ Answers(new) \/ SendsPayload(new) \/ Opens(new)
           /\ \/ /\ NodeReads
                 /\ toNode # <<>> /\ toNode' = Tail(toNode)
                 /\ \/ Len(new) \in {0, 1}
                    \/ Len(new) \in {1, 2} /\ IsRequest(Head(toNode))
              \/ NodeRetries /\ Room /\ toNode' = toNode /\ Len(new) \in {0, 1}
<1>1. CASE NodeReads
  <2>1. ReadPacket /\ toNode # <<>> /\ toNode' = Tail(toNode)
    BY <1>1 DEF NodeReads, ReadPacket
  <2>2. IsFileRequest(Head(toNode)) => IsRequest(Head(toNode))
    BY DEF IsFileRequest, IsRequest
  <2>3. PICK new \in Seq(ToBase) :
           \/ Len(new) \in {0, 1} /\ Answers(new)
           \/ Len(new) \in {0, 1} /\ SendsPayload(new) /\ Head(toNode).type = "ACK"
           \/ Len(new) \in {1, 2} /\ Answers(new) /\ IsRequest(Head(toNode))
           \/ Len(new) = 2 /\ Opens(new) /\ IsFileRequest(Head(toNode))
    BY Zenon, <2>1, ReadEffect
  <2>4. Answers(new) \/ SendsPayload(new) \/ Opens(new)
    BY Zenon, <2>3
  <2>5. \/ Len(new) \in {0, 1}
        \/ Len(new) \in {1, 2} /\ IsRequest(Head(toNode))
    <3>1. Len(new) = 2 => Len(new) \in {1, 2}
      OBVIOUS
    <3> QED BY Zenon, <2>2, <2>3, <3>1
  <2> QED BY Zenon, <1>1, <2>1, <2>4, <2>5
<1>2. CASE NodeRetries
  <2>1. Retry /\ Room /\ toNode' = toNode
    BY <1>2 DEF NodeRetries, Retry
  <2> QED BY Zenon, <1>2, <2>1, RetryEffect
<1> QED BY <1>1, <1>2

LEMMA BaseStepAir ==
  ASSUME Typed, BaseReceives
  PROVE  /\ toBase # <<>> /\ toBase' = Tail(toBase)
         /\ UNCHANGED toNode \/ \E answer \in {Positive, Negative, Resend} : toNode' = Append(toNode, answer)
BY DEF BaseReceives, Send

LEMMA FaultAir ==
  ASSUME Typed, RadioFaults
  PROVE  \/ /\ toNode # <<>> /\ toBase' = toBase
            /\ \/ toNode' = Tail(toNode)
               \/ \E p \in {Corrupt, Truncated} : toNode' = [toNode EXCEPT ![1] = p]
         \/ /\ toBase # <<>> /\ toNode' = toNode
            /\ toBase' = Tail(toBase) \/ toBase' = [toBase EXCEPT ![1] = Corrupt]
BY DEF RadioFaults

LEMMA InterferenceAir ==
  ASSUME Typed, BaseInterferes
  PROVE  \E p \in ToNode :
           /\ toNode' = Append(toNode, p) /\ toBase' = toBase
           /\ p \in {Handshake, Invalid} \cup {Request(kind, wanted) : kind \in {"SHORT", "NUM_LOG", "UNKNOWN"}}
BY Packets DEF BaseInterferes, Send, Typed

LEMMA TypedStep == Typed /\ Flags /\ [Next]_vars => Typed'
<1> SUFFICES ASSUME Typed, Flags, [Next]_vars PROVE Typed'
  OBVIOUS
<1>1. CASE NodeReads \/ NodeRetries
  <2>1. PICK new \in Seq(ToBase) : Answers(new) \/ SendsPayload(new) \/ Opens(new)
    BY Zenon, <1>1, NodeStepAir
  <2>2. /\ toBase' \in Seq(ToBase)
        /\ ongoing_request' \in {"REQUEST_FILE", "NONE"}
        /\ bytes_left' \in Nat
        /\ file' \in [size : Nat, pos : Nat] /\ file'.pos <= file'.size
    BY Zenon, <2>1, EffectTyped
  <2>3. timeout_inc' \in 1 .. 6
    <3>1. CASE NodeReads
      BY SMTT(40), <3>1, ReadTimeout DEF NodeReads, Typed
    <3>2. CASE NodeRetries
      BY <3>2, RetryEffect DEF NodeRetries
    <3> QED BY <1>1, <3>1, <3>2
  <2>4. toNode' \in Seq(ToNode)
    BY <1>1, HeadOfToNode DEF NodeReads, NodeRetries, ReadPacket, Retry, Typed
  <2>5. UNCHANGED <<baseVars, countVars>>
    BY Zenon, <1>1 DEF NodeReads, NodeRetries
  <2> QED BY <2>2, <2>3, <2>4, <2>5 DEF Typed, baseVars, countVars
<1>2. CASE NodeDrops \/ UNCHANGED vars
  BY <1>2 DEF NodeDrops, Drop, Typed, vars, nodeVars, protocolVars, senderVars, airVars, baseVars,
              countVars
<1>3. CASE BaseRequests
  <2>1. Request("REQUEST_FILE", wanted') \in ToNode /\ wanted' \in Log
    BY <1>3, Packets DEF BaseRequests
  <2>2. toNode' \in Seq(ToNode)
    BY <1>3, <2>1, Last1 DEF BaseRequests, Send, Typed
  <2>3. requests' \in 0 .. MaxRequests
    BY <1>3, BoundsAssumption DEF BaseRequests, Typed
  <2>4. <<>> \in Seq(Nat)
    OBVIOUS
  <2> QED BY <1>3, <2>1, <2>2, <2>3, <2>4 DEF BaseRequests, Typed, nodeVars, protocolVars, senderVars
<1>4. CASE BaseInterferes
  <2>1. toNode' \in Seq(ToNode)
    BY <1>4, InterferenceAir, AirToNode
  <2>2. extras' \in 0 .. MaxExtra
    BY <1>4, BoundsAssumption DEF BaseInterferes, Typed
  <2> QED BY <1>4, <2>1, <2>2 DEF BaseInterferes, Typed, nodeVars, protocolVars, senderVars, baseVars
<1>5. CASE BaseReceives
  <2>1. toBase' \in Seq(ToBase) /\ Head(toBase) \in ToBase
    BY <1>5, BaseStepAir, AirToBase
  <2>2. toNode' \in Seq(ToNode)
    BY <1>5, BaseStepAir, Packets, AirToNode DEF Typed
  <2>3. base' \in {"idle", "size", "data", "done"} /\ wanted' = wanted
    BY <1>5 DEF BaseReceives, Typed, baseVars
  <2>4. received' \in Seq(Nat)
    <3>1. CASE received' = received
      BY <3>1 DEF Typed
    <3>2. CASE IsPayload(Head(toBase)) /\ received' = Append(received, Head(toBase).number)
      <4>1. Head(toBase).number \in Nat
        BY <2>1, <3>2 DEF IsPayload, ToBase, Corrupt
      <4> QED BY <3>2, <4>1 DEF Typed
    <3> QED BY <1>5, <3>1, <3>2 DEF BaseReceives, baseVars, IsPayload
  <2> QED BY <1>5, <2>1, <2>2, <2>3, <2>4
          DEF BaseReceives, Typed, nodeVars, protocolVars, senderVars, countVars
<1>6. CASE RadioFaults
  <2>1. toBase' \in Seq(ToBase)
    <3>1. Corrupt \in ToBase /\ toBase \in Seq(ToBase)
      BY Packets DEF Typed
    <3>2. toBase # <<>> => Tail(toBase) \in Seq(ToBase) /\ [toBase EXCEPT ![1] = Corrupt] \in Seq(ToBase)
      BY <3>1, AirToBase
    <3> QED BY <1>6, <3>1, <3>2, FaultAir
  <2>2. toNode' \in Seq(ToNode)
    BY <1>6, FaultAir, AirToNode, Packets DEF Typed
  <2> QED BY <1>6, <2>1, <2>2 DEF RadioFaults, Typed, nodeVars, protocolVars, senderVars, baseVars
<1> QED BY <1>1, <1>2, <1>3, <1>4, <1>5, <1>6 DEF Next

LEMMA FlagsStep == Typed /\ Flags /\ [Next]_vars => Flags'
<1> SUFFICES ASSUME Typed, Flags, [Next]_vars PROVE Flags'
  OBVIOUS
<1>1. CASE NodeReads \/ NodeRetries
  <2>1. PICK new \in Seq(ToBase) : Answers(new) \/ SendsPayload(new) \/ Opens(new)
    BY Zenon, <1>1, NodeStepAir
  <2>2. bytes_sent' \in BOOLEAN
    BY Zenon, <2>1 DEF Answers, SendsPayload, Opens, Flags
  <2>3. streaming' \in BOOLEAN /\ reading' \in BOOLEAN
    BY Zenon, <1>1 DEF NodeReads, NodeRetries, ReadPacket, HandlePacket, Retry, Flags, nodeVars, protocolVars
  <2>4. spoiled' \in BOOLEAN /\ overlapped' \in BOOLEAN
    BY Zenon, <1>1 DEF NodeReads, NodeRetries, Flags
  <2> QED BY Zenon, <2>2, <2>3, <2>4 DEF Flags
<1>2. CASE NodeDrops \/ UNCHANGED vars
  BY Zenon, <1>2 DEF NodeDrops, Drop, Flags, vars, nodeVars, protocolVars, senderVars
<1>3. CASE BaseRequests
  BY Zenon, <1>3 DEF BaseRequests, TransferOpen, Flags, nodeVars, protocolVars, senderVars
<1>4. CASE BaseInterferes \/ BaseReceives \/ RadioFaults
  BY Zenon, <1>4 DEF BaseInterferes, BaseReceives, RadioFaults, Flags, nodeVars, protocolVars, senderVars
<1> QED BY <1>1, <1>2, <1>3, <1>4 DEF Next

LEMMA Few ==
  ASSUME NEW m \in Nat, NEW k, NEW l, l = m + k
  PROVE  /\ k \in {0, 1} => l \in {m, m + 1}
         /\ k \in {1, 2} => l \in {m + 1, m + 2}
OBVIOUS

\* The packets on the air by number.
LEMMA NodeStepCount ==
  ASSUME Typed, Flags, NodeReads \/ NodeRetries
  PROVE  LET b == Len(toBase)
         IN  \/ /\ toNode # <<>> /\ toNode' = Tail(toNode)
                /\ \/ Len(toBase') \in {b, b + 1}
                   \/ Len(toBase') \in {b + 1, b + 2} /\ IsRequest(Head(toNode))
             \/ Room /\ toNode' = toNode /\ Len(toBase') \in {b, b + 1}
<1>1. PICK new \in Seq(ToBase) :
         /\ Answers(new) \/ SendsPayload(new) \/ Opens(new)
         /\ \/ /\ NodeReads
               /\ toNode # <<>> /\ toNode' = Tail(toNode)
               /\ \/ Len(new) \in {0, 1}
                  \/ Len(new) \in {1, 2} /\ IsRequest(Head(toNode))
            \/ NodeRetries /\ Room /\ toNode' = toNode /\ Len(new) \in {0, 1}
  BY Zenon, NodeStepAir
<1>2. Len(toBase') = Len(toBase) + Len(new)
  BY Zenon, <1>1, EffectTyped
<1>3. Len(toBase) \in Nat
  BY AirToBase
<1>4. Len(new) \in {0, 1} => Len(toBase') \in {Len(toBase), Len(toBase) + 1}
  BY Zenon, <1>2, <1>3, Few
<1>5. Len(new) \in {1, 2} => Len(toBase') \in {Len(toBase) + 1, Len(toBase) + 2}
  BY Zenon, <1>2, <1>3, Few
<1> QED BY Zenon, <1>1, <1>4, <1>5

LEMMA AirBoundedStep == Typed /\ Flags /\ AirBounded /\ [Next]_vars => AirBounded'
<1> SUFFICES ASSUME Typed, Flags, AirBounded, [Next]_vars PROVE AirBounded'
  OBVIOUS
<1> DEFINE a == Asked(toNode)    n == Len(toNode)    b == Len(toBase)
           a1 == Asked(toNode')  n1 == Len(toNode')  b1 == Len(toBase')
           started == requests' + extras'
<1>0. /\ a \in Nat /\ n \in Nat /\ b \in Nat /\ requests \in Nat /\ extras \in Nat /\ MaxAir \in Nat
      /\ a <= requests + extras /\ n + b + a <= MaxAir + (requests + extras)
  BY AirToNode, AirToBase, BoundsAssumption DEF AirBounded, Typed
<1> DEFINE Fits == a1 <= started /\ n1 + b1 + a1 <= MaxAir + started
<1> SUFFICES Fits
  BY DEF AirBounded
<1>1. CASE NodeReads \/ NodeRetries
  <2>1. started = requests + extras
    BY <1>1 DEF NodeReads, NodeRetries, countVars
  <2>2. CASE /\ toNode # <<>> /\ toNode' = Tail(toNode)
             /\ \/ b1 \in {b, b + 1}
                \/ b1 \in {b + 1, b + 2} /\ IsRequest(Head(toNode))
    <3>1. /\ n1 = n - 1 /\ a1 \in Nat
          /\ a = a1 + (IF IsRequest(Head(toNode)) THEN 1 ELSE 0)
      BY <2>2, AirToNode
    <3>2. \/ a = a1 /\ b1 \in {b, b + 1}
          \/ a = a1 + 1 /\ b1 \in {b, b + 1, b + 2}
      <4> HIDE DEF a, n, b, a1, n1, b1, started
      <4> QED BY <2>2, <3>1
    <3> HIDE DEF a, n, b, a1, n1, b1, started
    <3> QED BY <1>0, <2>1, <3>1, <3>2
  <2>3. CASE Room /\ toNode' = toNode /\ b1 \in {b, b + 1}
    <3>1. a1 = a /\ n1 = n /\ n + b < MaxAir
      BY <2>3 DEF Room
    <3> HIDE DEF a, n, b, a1, n1, b1, started
    <3> QED BY <1>0, <2>1, <2>3, <3>1
  <2> QED BY Zenon, <1>1, <2>2, <2>3, NodeStepCount
<1>2. CASE NodeDrops \/ UNCHANGED vars
  <2>1. toNode' = toNode /\ toBase' = toBase /\ requests' = requests /\ extras' = extras
    BY <1>2 DEF NodeDrops, Drop, vars, airVars, countVars
  <2>2. a1 = a /\ n1 = n /\ b1 = b /\ started = requests + extras
    BY <2>1
  <2> HIDE DEF a, n, b, a1, n1, b1, started
  <2> QED BY <1>0, <2>2
<1>3. CASE BaseRequests \/ BaseInterferes
  <2>1. \E p \in ToNode : toNode' = Append(toNode, p)
    <3>1. CASE BaseRequests
      BY <3>1, Packets DEF BaseRequests, Send
    <3>2. CASE BaseInterferes
      BY <3>2, InterferenceAir
    <3> QED BY <1>3, <3>1, <3>2
  <2>2. n1 = n + 1 /\ a1 \in {a, a + 1}
    BY <2>1, AirToNode
  <2>3. b1 = b /\ n + b < MaxAir /\ started = requests + extras + 1
    <3>1. toBase' = toBase /\ Room
      BY <1>3 DEF BaseRequests, BaseInterferes
    <3>2. \/ requests' = requests + 1 /\ extras' = extras
          \/ requests' = requests /\ extras' = extras + 1
      BY <1>3 DEF BaseRequests, BaseInterferes
    <3>3. b1 = b /\ n + b < MaxAir
      BY <3>1 DEF Room
    <3>4. started = requests + extras + 1
      BY <1>0, <3>2
    <3> QED BY <3>3, <3>4
  <2> HIDE DEF a, n, b, a1, n1, b1, started
  <2>5. a1 \in Nat /\ a1 <= a + 1
    BY <1>0, <2>2
  <2>6. a1 <= started /\ started \in Nat
    BY <1>0, <2>3, <2>5
  <2>7. n1 + b1 <= MaxAir /\ n1 \in Nat /\ b1 \in Nat
    BY <1>0, <2>2, <2>3
  <2> QED BY <1>0, <2>5, <2>6, <2>7
<1>4. CASE BaseReceives
  <2>1. toBase # <<>> /\ toBase' = Tail(toBase)
    BY <1>4, BaseStepAir
  <2>2. b1 = b - 1
    BY <2>1, AirToBase
  <2>3. ASSUME NEW q \in {Positive, Negative, Resend}
        PROVE  Len(Append(toNode, q)) = n + 1 /\ Asked(Append(toNode, q)) = a
    <3>1. q \in ToNode /\ ~IsRequest(q)
      BY Packets DEF IsRequest, Positive, Negative, Resend, Ack
    <3> QED BY <1>0, <3>1, AirToNode
  <2>4. n1 \in {n, n + 1} /\ a1 = a
    BY <1>4, <2>3, BaseStepAir
  <2>5. started = requests + extras
    BY <1>4 DEF BaseReceives, countVars
  <2> HIDE DEF a, n, b, a1, n1, b1, started
  <2> QED BY <1>0, <2>2, <2>4, <2>5
<1>5. CASE RadioFaults
  <2>1. started = requests + extras
    BY <1>5 DEF RadioFaults
  <2>2. n1 \in Nat /\ n1 <= n /\ a1 \in Nat /\ a1 <= a
    <3>1. ASSUME NEW p \in {Corrupt, Truncated} PROVE ~IsRequest(p) /\ p \in ToNode
      BY Packets DEF IsRequest, Corrupt, Truncated
    <3>2. CASE toNode' = toNode
      BY <1>0, <3>2
    <3>3. CASE toNode # <<>> /\ toNode' = Tail(toNode)
      <4>1. n1 = n - 1 /\ a1 \in Nat /\ a = a1 + (IF IsRequest(Head(toNode)) THEN 1 ELSE 0) /\ n1 \in Nat
        BY <3>3, AirToNode
      <4> HIDE DEF a, n, b, a1, n1, b1, started
      <4> QED BY <1>0, <4>1
    <3>4. ASSUME toNode # <<>>, NEW p \in {Corrupt, Truncated}, toNode' = [toNode EXCEPT ![1] = p]
          PROVE  n1 = n /\ a1 \in Nat /\ a1 <= a
      BY Zenon, <3>1, <3>4, AirToNode
    <3> QED BY <1>0, <1>5, <3>2, <3>3, <3>4, FaultAir
  <2>3. b1 \in Nat /\ b1 <= b
    <3>1. Corrupt \in ToBase
      BY Packets
    <3>2. CASE toBase' = toBase
      BY <1>0, <3>2
    <3>3. CASE toBase # <<>> /\ toBase' = Tail(toBase)
      BY <1>0, <3>3, AirToBase
    <3>4. CASE toBase # <<>> /\ toBase' = [toBase EXCEPT ![1] = Corrupt]
      BY <1>0, <3>1, <3>4, AirToBase
    <3> QED BY <1>5, <3>2, <3>3, <3>4, FaultAir
  <2> HIDE DEF a, n, b, a1, n1, b1, started
  <2> QED BY <1>0, <2>1, <2>2, <2>3
<1> QED BY <1>1, <1>2, <1>3, <1>4, <1>5 DEF Next

-----------------------------------------------------------------------------
\* A step of the node, as far as its file and the payloads go.
LEMMA NodeStepEffect ==
  ASSUME Typed, Flags, NodeReads \/ NodeRetries
  PROVE  /\ UNCHANGED <<received, overlapped, base, wanted>>
         /\ \/ toNode # <<>> /\ toNode' = Tail(toNode)
            \/ toNode' = toNode
         /\ \E new \in Seq(ToBase) :
              \/ Answers(new)
              \/ SendsPayload(new)
              \/ Opens(new) /\ toNode # <<>> /\ toNode' = Tail(toNode) /\ IsFileRequest(Head(toNode))
<1>1. UNCHANGED <<received, overlapped, base, wanted>>
  BY Zenon DEF NodeReads, NodeRetries, baseVars
<1>2. CASE NodeReads
  <2>1. ReadPacket /\ toNode # <<>> /\ toNode' = Tail(toNode)
    BY <1>2 DEF NodeReads, ReadPacket
  <2>2. \E new \in Seq(ToBase) :
           \/ Answers(new)
           \/ SendsPayload(new)
           \/ Opens(new) /\ IsFileRequest(Head(toNode))
    BY Zenon, <2>1, ReadEffect
  <2> QED BY Zenon, <1>1, <2>1, <2>2
<1>3. CASE NodeRetries
  <2>1. Retry /\ toNode' = toNode
    BY <1>3 DEF NodeRetries, Retry
  <2> QED BY Zenon, <1>1, <2>1, RetryEffect
<1> QED BY <1>2, <1>3

LEMMA OrderlyStep == Typed /\ Flags /\ Orderly /\ [Next]_vars => Orderly'
<1> SUFFICES ASSUME Typed, Flags, Orderly, [Next]_vars, ~overlapped'
             PROVE  Ordered(received', toBase') /\ FromFile' /\ AskedAtRest'
  BY Zenon DEF Orderly
<1>a. ~overlapped
  BY Zenon DEF Next, NodeReads, NodeRetries, NodeDrops, BaseRequests, BaseInterferes, BaseReceives,
               RadioFaults, vars
<1>b. Ordered(received, toBase) /\ FromFile /\ AskedAtRest
  BY <1>a DEF Orderly
<1>c. toBase \in Seq(ToBase) /\ toNode \in Seq(ToNode) /\ received \in Seq(Nat)
  BY DEF Typed
<1>1. CASE NodeReads \/ NodeRetries
  <2>1. /\ UNCHANGED <<received, overlapped, base, wanted>>
        /\ \/ toNode # <<>> /\ toNode' = Tail(toNode)
           \/ toNode' = toNode
    BY Zenon, <1>1, NodeStepEffect
  <2>2. (Asks(toNode') => Asks(toNode)) /\ AsksOnce(toNode')
    BY <1>b, <1>c, <2>1, FileRequests DEF AskedAtRest
  <2>3. ASSUME NEW new \in Seq(ToBase), Quiet(new)
        PROVE  /\ Ordered(received', toBase')
               /\ Numbers(received', toBase') = Numbers(received, toBase)
               /\ NoPayload(toBase) => NoPayload(toBase')
    BY <1>b, <1>c, <2>1, <2>3, PayloadsQuiet DEF Quiet
  <2>4. ASSUME NEW new \in Seq(ToBase), Answers(new)
        PROVE  Ordered(received', toBase') /\ FromFile' /\ AskedAtRest'
    <3>1. Quiet(new) /\ file' \in {file, Closed} /\ ongoing_request' \in {ongoing_request, "NONE"}
      BY <2>4 DEF Answers
    <3>2. FromFile'
      BY <1>b, <2>3, <3>1 DEF FromFile, Closed
    <3>3. AskedAtRest'
      BY <1>b, <2>1, <2>2, <2>3, <3>1 DEF AskedAtRest
    <3> QED BY <2>3, <3>1, <3>2, <3>3
  <2>5. ASSUME NEW new \in Seq(ToBase), SendsPayload(new)
        PROVE  Ordered(received', toBase') /\ FromFile' /\ AskedAtRest'
    <3> DEFINE x == NextPayload
    <3>1. x \in Nat /\ toBase' = Append(toBase, Payload(x)) /\ ongoing_request # "NONE"
      <4>1. x \in Nat
        BY DEF NextPayload, Typed
      <4> QED BY <1>c, <2>5, <4>1, Packets, Last1 DEF SendsPayload
    <3>2. AskedAtRest'
      BY <1>b, <2>2, <3>1 DEF AskedAtRest
    <3>3. CASE file.pos < file.size
      <4>1. x = file.pos + 1 /\ file' = [file EXCEPT !.pos = file.pos + 1]
        BY <2>5, <3>3 DEF NextPayload, SendsPayload, Typed
      <4>2. file.pos \in Nat /\ file'.pos = file.pos + 1
        BY <4>1 DEF Typed
      <4>3. \A y \in Numbers(received, toBase) : y \in 1 .. file.pos
        BY <1>b, <3>3 DEF FromFile
      <4>4. \A y \in Numbers(received, toBase) : Before(y, x)
        <5> SUFFICES ASSUME NEW y \in 1 .. file.pos PROVE Before(y, x)
          BY <4>3
        <5> QED BY <4>1, <4>2 DEF Before
      <4>5. Ordered(received', toBase')
        BY <1>b, <1>c, <2>1, <3>1, <4>4, PayloadSent
      <4>6. Numbers(received', toBase') \subseteq Numbers(received, toBase) \cup {x}
        BY <1>c, <2>1, <3>1, PayloadSent
      <4>7. \A y : y \in 1 .. file.pos \/ y = x => y \in 1 .. file'.pos
        BY <4>1, <4>2
      <4>8. FromFile'
        BY <4>3, <4>6, <4>7 DEF FromFile
      <4> QED BY <3>2, <4>5, <4>8
    <3>4. CASE ~(file.pos < file.size)
      <4>1. x = 0 /\ file' = file
        BY <2>5, <3>4 DEF NextPayload, SendsPayload
      <4>2. \A y \in Numbers(received, toBase) : Before(y, x)
        BY <4>1 DEF Before
      <4>3. Ordered(received', toBase')
        BY <1>b, <1>c, <2>1, <3>1, <4>2, PayloadSent
      <4>4. FromFile'
        BY <3>4, <4>1 DEF FromFile
      <4> QED BY <3>2, <4>3, <4>4
    <3> QED BY <3>3, <3>4
  <2>6. ASSUME NEW new \in Seq(ToBase), Opens(new), toNode # <<>>, toNode' = Tail(toNode),
               IsFileRequest(Head(toNode))
        PROVE  Ordered(received', toBase') /\ FromFile' /\ AskedAtRest'
    <3>1. Asks(toNode) /\ ~Asks(toNode')
      BY <1>b, <1>c, <2>6, FileRequests DEF AskedAtRest
    <3>2. received = <<>> /\ NoPayload(toBase)
      BY <1>b, <3>1 DEF AskedAtRest
    <3>3. Quiet(new)
      BY <2>6 DEF Opens
    <3>4. Numbers(received, toBase) = {}
      BY <3>2 DEF Numbers, NoPayload
    <3>5. FromFile'
      BY <2>3, <3>3, <3>4 DEF FromFile
    <3>6. AskedAtRest'
      BY <2>2, <3>1 DEF AskedAtRest
    <3> QED BY <2>3, <3>3, <3>5, <3>6
  <2>7. PICK new \in Seq(ToBase) :
           \/ Answers(new)
           \/ SendsPayload(new)
           \/ Opens(new) /\ toNode # <<>> /\ toNode' = Tail(toNode) /\ IsFileRequest(Head(toNode))
    BY Zenon, <1>1, NodeStepEffect
  <2> QED BY Zenon, <2>4, <2>5, <2>6, <2>7
<1>2. CASE NodeDrops \/ UNCHANGED vars
  <2>1. UNCHANGED <<toNode, toBase, received, file>> /\ ongoing_request' \in {ongoing_request, "NONE"}
    BY <1>2 DEF NodeDrops, Drop, vars, nodeVars, protocolVars, senderVars, airVars, baseVars
  <2> QED BY <1>b, <2>1 DEF FromFile, AskedAtRest
<1>3. CASE BaseRequests
  <2> DEFINE p == Request("REQUEST_FILE", wanted')
  <2>1. p \in ToNode /\ toNode' = Append(toNode, p) /\ toBase' = toBase /\ received' = <<>>
        /\ UNCHANGED <<file, ongoing_request>>
    BY <1>3, Packets DEF BaseRequests, Send, nodeVars, protocolVars, senderVars
  <2>2. ~TransferOpen
    BY Zenon, <1>3 DEF BaseRequests
  <2>3. ongoing_request = "NONE" /\ ~Asks(toNode) /\ NoPayload(toBase)
    BY <2>2 DEF TransferOpen, Asks, IsFileRequest, NoPayload, IsPayload
  <2>4. AsksOnce(toNode')
    BY <1>c, <2>1, <2>3, FileRequests
  <2>5. Ordered(received', toBase') /\ Numbers(received', toBase') = {}
    BY <2>1, <2>3 DEF Ordered, Numbers, NoPayload
  <2> QED BY <2>1, <2>3, <2>4, <2>5 DEF FromFile, AskedAtRest
<1>4. CASE BaseInterferes
  <2>1. PICK p \in ToNode :
           /\ toNode' = Append(toNode, p) /\ toBase' = toBase
           /\ p \in {Handshake, Invalid} \cup {Request(kind, wanted) : kind \in {"SHORT", "NUM_LOG", "UNKNOWN"}}
    BY <1>4, InterferenceAir
  <2>2. ~IsFileRequest(p)
    BY <2>1 DEF IsFileRequest, Handshake, Invalid, Request
  <2>3. UNCHANGED <<toBase, received, file, ongoing_request>>
    BY <1>4 DEF BaseInterferes, nodeVars, protocolVars, senderVars, baseVars
  <2>4. (Asks(toNode') => Asks(toNode)) /\ AsksOnce(toNode')
    BY <1>b, <1>c, <2>1, <2>2, FileRequests DEF AskedAtRest
  <2> QED BY <1>b, <2>3, <2>4 DEF FromFile, AskedAtRest
<1>5. CASE BaseReceives
  <2>1. toBase # <<>> /\ toBase' = Tail(toBase)
    BY <1>5, BaseStepAir
  <2>2. ASSUME NEW q \in {Positive, Negative, Resend} PROVE q \in ToNode /\ ~IsFileRequest(q)
    BY Packets DEF IsFileRequest, Positive, Negative, Resend, Ack
  <2>3. (Asks(toNode') => Asks(toNode)) /\ AsksOnce(toNode')
    <3>1. CASE toNode' = toNode
      BY <1>b, <3>1 DEF AskedAtRest
    <3>2. ASSUME NEW q \in {Positive, Negative, Resend}, toNode' = Append(toNode, q)
          PROVE  (Asks(toNode') => Asks(toNode)) /\ AsksOnce(toNode')
      BY <1>b, <1>c, <2>2, <3>2, FileRequests DEF AskedAtRest
    <3> QED BY <1>5, <3>1, <3>2, BaseStepAir
  <2>4. UNCHANGED <<file, ongoing_request>>
    BY <1>5 DEF BaseReceives, nodeVars, protocolVars, senderVars
  <2>5. received' = received \/ (IsPayload(Head(toBase)) /\ received' = Append(received, Head(toBase).number))
    BY <1>5 DEF BaseReceives, baseVars, IsPayload
  <2>6. Ordered(received', toBase') /\ Numbers(received', toBase') \subseteq Numbers(received, toBase)
    BY <1>b, <1>c, <2>1, <2>5, PacketTaken
  <2>7. NoPayload(toBase) => NoPayload(toBase') /\ received' = received
    BY <1>c, <2>1, <2>5, PacketTaken
  <2> QED BY <1>b, <2>3, <2>4, <2>6, <2>7 DEF FromFile, AskedAtRest
<1>6. CASE RadioFaults
  <2>1. UNCHANGED <<received, file, ongoing_request>>
    BY <1>6 DEF RadioFaults, nodeVars, protocolVars, senderVars, baseVars
  <2>2. ASSUME NEW q \in {Corrupt, Truncated} PROVE q \in ToNode /\ ~IsFileRequest(q)
    BY Packets DEF IsFileRequest, Corrupt, Truncated
  <2>3. (Asks(toNode') => Asks(toNode)) /\ AsksOnce(toNode')
    <3>1. CASE toNode' = toNode \/ (toNode # <<>> /\ toNode' = Tail(toNode))
      BY <1>b, <1>c, <3>1, FileRequests DEF AskedAtRest
    <3>2. ASSUME NEW q \in {Corrupt, Truncated}, toNode # <<>>, toNode' = [toNode EXCEPT ![1] = q]
          PROVE  (Asks(toNode') => Asks(toNode)) /\ AsksOnce(toNode')
      BY <1>b, <1>c, <2>2, <3>2, FileRequests DEF AskedAtRest
    <3> QED BY <1>6, <3>1, <3>2, FaultAir
  <2>4. /\ Ordered(received', toBase')
        /\ Numbers(received', toBase') \subseteq Numbers(received, toBase)
        /\ NoPayload(toBase) => NoPayload(toBase')
    <3>1. CASE toBase' = toBase
      BY <1>b, <2>1, <3>1
    <3>2. CASE toBase # <<>> /\ toBase' = Tail(toBase)
      BY <1>b, <1>c, <2>1, <3>2, PacketTaken
    <3>3. CASE toBase # <<>> /\ toBase' = [toBase EXCEPT ![1] = Corrupt]
      BY <1>b, <1>c, <2>1, <3>3, PacketSpoiled
    <3> QED BY <1>6, <3>1, <3>2, <3>3, FaultAir
  <2> QED BY <1>b, <2>1, <2>3, <2>4 DEF FromFile, AskedAtRest
<1> QED BY <1>1, <1>2, <1>3, <1>4, <1>5, <1>6 DEF Next

-----------------------------------------------------------------------------
\* A packet that moves nothing on changes nothing, and the answers to it do not
\* move anything on either.
LEMMA QuietRead ==
  ASSUME Typed, ReadPacket, ~reading, Head(toNode).type \notin {"CORRUPT", "TRUNCATED"},
         ~Moves(Head(toNode))
  PROVE  /\ UNCHANGED <<ongoing_request, senderVars, reading>>
         /\ \E new \in Seq(ToBase) :
              /\ toBase' = toBase \o new
              /\ \A q \in OnAir(new) : ~Replies(q) /\ q.type # "CORRUPT"
<1> DEFINE p == Head(toNode)
           Plain(q) == q \in ToBase /\ ~IsPayload(q) /\ ~Replies(q) /\ q.type # "CORRUPT"
<1>1. /\ Plain(Positive) /\ Plain(Negative) /\ Plain(SizeOf(0))
  BY Packets DEF Positive, Negative, Ack, SizeOf, IsPayload, Replies
<1>2. ASSUME NEW q, Plain(q), toBase' = Append(toBase, q)
      PROVE  \E new \in Seq(ToBase) :
               /\ toBase' = toBase \o new
               /\ \A r \in OnAir(new) : ~Replies(r) /\ r.type # "CORRUPT"
  <2>1. <<q>> \in Seq(ToBase) /\ toBase' = toBase \o <<q>>
    BY <1>2, OneAnswer DEF Quiet
  <2>2. OnAir(<<q>>) = {q}
    BY DEF OnAir
  <2> QED BY <1>2, <2>1, <2>2
<1>3. ASSUME NEW a, NEW q, Plain(a), Plain(q), toBase' = toBase \o <<a>> \o <<q>>
      PROVE  \E new \in Seq(ToBase) :
               /\ toBase' = toBase \o new
               /\ \A r \in OnAir(new) : ~Replies(r) /\ r.type # "CORRUPT"
  <2> DEFINE new == <<a>> \o <<q>>
  <2>1. new \in Seq(ToBase) /\ toBase' = toBase \o new
    BY <1>3, TwoAnswers DEF Quiet
  <2>2. OnAir(new) = {a, q}
    BY <1>3, TwoOnAir
  <2> HIDE DEF new
  <2> QED BY <1>3, <2>1, <2>2
<1>4. \/ /\ p.type \in {"HANDSHAKE", "ACK", "REQUEST"} /\ HandlePacket(p) /\ UNCHANGED reading
      \/ /\ p.type = "INVALID" /\ toBase' = Append(toBase, Negative) /\ UNCHANGED nodeVars
  BY Zenon DEF ReadPacket
<1>5. CASE p.type = "INVALID" /\ toBase' = Append(toBase, Negative) /\ UNCHANGED nodeVars
  <2>1. UNCHANGED <<ongoing_request, senderVars, reading>>
    BY Zenon, <1>5 DEF nodeVars, protocolVars
  <2> QED BY Zenon, <1>1, <1>2, <1>5, <2>1
<1>6. CASE p.type = "HANDSHAKE" /\ HandlePacket(p) /\ UNCHANGED reading
  <2>1. toBase' = Append(toBase, Positive) /\ UNCHANGED <<ongoing_request, timeout_inc, senderVars>>
    BY <1>6 DEF HandlePacket
  <2>2. UNCHANGED <<ongoing_request, senderVars, reading>>
    BY Zenon, <1>6, <2>1
  <2> QED BY Zenon, <1>1, <1>2, <2>1, <2>2
<1>7. CASE p.type = "REQUEST" /\ HandlePacket(p) /\ UNCHANGED reading
  <2> DEFINE a == IF ongoing_request = "NONE" THEN Positive ELSE Negative
  <2>1. RespondToRequest(p) /\ p.kind # "REQUEST_FILE"
    BY <1>7 DEF HandlePacket, Moves, IsFileRequest
  <2>2. Plain(a)
    BY <1>1
  <2> HIDE DEF Plain
  <2>3. /\ \/ toBase' = toBase \o <<a>>
           \/ \E q \in {SizeOf(0), Negative} : toBase' = toBase \o <<a>> \o <<q>>
        /\ UNCHANGED <<ongoing_request, timeout_inc, senderVars>>
    BY Zenon, <2>1 DEF RespondToRequest
  <2>4. UNCHANGED <<ongoing_request, senderVars, reading>>
    BY Zenon, <1>7, <2>3
  <2>5. toBase \o <<a>> = Append(toBase, a)
    BY <2>2, Last1 DEF Plain, Typed
  <2> QED BY Zenon, <1>1, <1>2, <1>3, <2>2, <2>3, <2>4, <2>5
<1>8. p.type # "ACK"
  BY DEF Moves
<1> QED BY Zenon, <1>4, <1>5, <1>6, <1>7, <1>8

\* As long as nothing moves, everything on the air keeps telling the same; the
\* base may give up.
LEMMA QuietFlow ==
  ASSUME Flow, UNCHANGED <<ongoing_request, senderVars, reading, wanted, received>>, base' \in {base, "idle"},
         \A p \in OnAir(toNode') : p \in OnAir(toNode) \/ (~Moves(p) /\ p.type \notin {"CORRUPT", "TRUNCATED"}),
         \A q \in OnAir(toBase') : q \in OnAir(toBase) \/ (~Replies(q) /\ q.type # "CORRUPT")
  PROVE  Flow'
<1>1. ASSUME NEW n PROVE Account(n) => Account(n)'
  BY Zenon DEF Account, senderVars
<1>2. file' = file
  BY DEF senderVars
<1>3. ASSUME NEW p, MoveTells(p) PROVE MoveTells(p)'
  BY <1>1, <1>2, <1>3 DEF MoveTells
<1>4. ASSUME NEW p, ~Moves(p) PROVE MoveTells(p)'
  BY <1>4 DEF MoveTells, Moves
<1>5. ASSUME NEW q, ReplyTells(q) PROVE ReplyTells(q)'
  BY <1>1, <1>2, <1>5 DEF ReplyTells
<1>6. \A p \in OnAir(toNode') : MoveTells(p)' /\ p.type \notin {"CORRUPT", "TRUNCATED"}
  BY Zenon, <1>3, <1>4 DEF Flow
<1>7. \A q \in OnAir(toBase') : (Replies(q) => ReplyTells(q)') /\ q.type # "CORRUPT"
  BY Zenon, <1>5 DEF Flow
<1>8. ~reading' /\ (base' = "done" => received' = FirstPayloads(Payloads[wanted']))
  BY DEF Flow
<1> QED BY Zenon, <1>6, <1>7, <1>8 DEF Flow

\* When all that moved a transfer on is read, and one more such packet is sent, ...
LEMMA ReplySent ==
  ASSUME Flow, toBase \in Seq(ToBase), toNode' \in Seq(ToNode), OnAir(toNode') \subseteq OnAir(toNode),
         NoMoves(toNode'), NoReplies(toBase), ~reading', base' # "done",
         NEW q \in ToBase, q.type # "CORRUPT", ReplyTells(q)', toBase' = Append(toBase, q)
  PROVE  OneAtATime(toNode', toBase') /\ Flow'
<1>1. OneAtATime(toNode', toBase')
  BY Zenon, FirstOne
<1>2. OnAir(toBase') = OnAir(toBase) \cup {q}
  <2>1. OnAir(Append(toBase, q)) = OnAir(toBase) \cup {q}
    BY SMTT(40), Last1 DEF OnAir
  <2> QED BY Zenon, <2>1
<1>3. \A p \in OnAir(toNode') : MoveTells(p)' /\ p.type \notin {"CORRUPT", "TRUNCATED"}
  <2> SUFFICES ASSUME NEW p \in OnAir(toNode')
               PROVE  MoveTells(p)' /\ p.type \notin {"CORRUPT", "TRUNCATED"}
    OBVIOUS
  <2>1. ~Moves(p) /\ p.type \notin {"CORRUPT", "TRUNCATED"}
    BY DEF Flow, NoMoves
  <2> QED BY <2>1 DEF MoveTells, Moves
<1>4. \A r \in OnAir(toBase') : (Replies(r) => ReplyTells(r)') /\ r.type # "CORRUPT"
  <2> SUFFICES ASSUME NEW r \in OnAir(toBase')
               PROVE  (Replies(r) => ReplyTells(r)') /\ r.type # "CORRUPT"
    OBVIOUS
  <2>1. CASE r \in OnAir(toBase)
    BY <2>1 DEF Flow, NoReplies
  <2>2. CASE r = q
    BY Zenon, <2>2
  <2> QED BY Zenon, <1>2, <2>1, <2>2
<1> QED BY Zenon, <1>1, <1>3, <1>4 DEF Flow

\* ... by either side, ...
LEMMA MoveSent ==
  ASSUME Flow, toNode \in Seq(ToNode), toBase' \in Seq(ToBase), OnAir(toBase') \subseteq OnAir(toBase),
         NoMoves(toNode), NoReplies(toBase'), ~reading', base' # "done",
         NEW p \in ToNode, p.type \notin {"CORRUPT", "TRUNCATED"}, MoveTells(p)', toNode' = Append(toNode, p)
  PROVE  OneAtATime(toNode', toBase') /\ Flow'
<1>1. OneAtATime(toNode', toBase')
  BY Zenon, FirstOne
<1>2. OnAir(toNode') = OnAir(toNode) \cup {p}
  <2>1. OnAir(Append(toNode, p)) = OnAir(toNode) \cup {p}
    BY Zenon, SentOnAir
  <2> QED BY Zenon, <2>1
<1>3. \A r \in OnAir(toNode') : MoveTells(r)' /\ r.type \notin {"CORRUPT", "TRUNCATED"}
  <2> SUFFICES ASSUME NEW r \in OnAir(toNode')
               PROVE  MoveTells(r)' /\ r.type \notin {"CORRUPT", "TRUNCATED"}
    OBVIOUS
  <2>1. CASE r \in OnAir(toNode)
    <3>1. ~Moves(r) /\ r.type \notin {"CORRUPT", "TRUNCATED"}
      BY <2>1 DEF Flow, NoMoves
    <3> QED BY <3>1 DEF MoveTells, Moves
  <2>2. CASE r = p
    BY Zenon, <2>2
  <2> QED BY Zenon, <1>2, <2>1, <2>2
<1>4. \A q \in OnAir(toBase') : (Replies(q) => ReplyTells(q)') /\ q.type # "CORRUPT"
  BY Zenon DEF Flow, NoReplies
<1> QED BY Zenon, <1>1, <1>3, <1>4 DEF Flow

\* ... or none.
LEMMA NothingSent ==
  ASSUME Flow, toNode' \in Seq(ToNode), OnAir(toNode') \subseteq OnAir(toNode), NoMoves(toNode'),
         toBase' \in Seq(ToBase), OnAir(toBase') \subseteq OnAir(toBase), NoReplies(toBase'),
         ~reading', base' = "done" => received' = FirstPayloads(Payloads[wanted'])
  PROVE  OneAtATime(toNode', toBase') /\ Flow'
<1>1. OneAtATime(toNode', toBase')
  BY Zenon, FirstOne
<1>2. \A r \in OnAir(toNode') : MoveTells(r)' /\ r.type \notin {"CORRUPT", "TRUNCATED"}
  <2> SUFFICES ASSUME NEW r \in OnAir(toNode')
               PROVE  MoveTells(r)' /\ r.type \notin {"CORRUPT", "TRUNCATED"}
    OBVIOUS
  <2>1. ~Moves(r) /\ r.type \notin {"CORRUPT", "TRUNCATED"}
    BY DEF Flow, NoMoves
  <2> QED BY <2>1 DEF MoveTells, Moves
<1>3. \A q \in OnAir(toBase') : (Replies(q) => ReplyTells(q)') /\ q.type # "CORRUPT"
  BY Zenon DEF Flow, NoReplies
<1> QED BY Zenon, <1>1, <1>2, <1>3 DEF Flow

\* A request for a log is answered with its size, and nothing else is under way.
LEMMA RequestRead ==
  ASSUME Typed, OneAtATime(toNode, toBase), Flow, NodeReads, IsFileRequest(Head(toNode))
  PROVE  OneAtATime(toNode', toBase') /\ Flow'
<1> DEFINE p == Head(toNode)
           a == IF ongoing_request = "NONE" THEN Positive ELSE Negative
<1>1. toNode # <<>> /\ toNode' = Tail(toNode) /\ ~reading /\ UNCHANGED <<base, wanted, received>>
  BY DEF NodeReads, ReadPacket, Flow, baseVars
<1>2. toNode \in Seq(ToNode) /\ toBase \in Seq(ToBase)
  BY DEF Typed
<1>3. p \in OnAir(toNode) /\ OnAir(toNode') \subseteq OnAir(toNode)
  BY <1>1, <1>2, PacketsOnAir
<1>4. p.log = wanted /\ ongoing_request = "NONE" /\ received = <<>> /\ base \in {"size", "idle"}
  BY <1>3 DEF Flow, MoveTells
<1>5. NoMoves(toNode') /\ NoReplies(toBase) /\ toNode' \in Seq(ToNode)
  <2>1. Moves(p)
    BY DEF Moves
  <2> QED BY <1>1, <1>2, <2>1, NoneLeft, Front
<1>6. Initiate(wanted, <<a>>) /\ UNCHANGED reading
  <2>1. HandlePacket(p) /\ UNCHANGED reading
    BY <1>1 DEF NodeReads, ReadPacket, IsFileRequest
  <2>2. RespondToRequest(p)
    BY <2>1 DEF HandlePacket, IsFileRequest
  <2> QED BY <1>4, <2>1, <2>2 DEF RespondToRequest, IsFileRequest
<1>7. a \in ToBase /\ ~Replies(a) /\ a.type # "CORRUPT"
  BY Packets DEF Positive, Negative, Ack, Replies
<1>8. /\ \A q \in OnAir(toNode') : ~Moves(q) /\ q.type \notin {"CORRUPT", "TRUNCATED"}
      /\ \A q \in OnAir(toBase) : ~Replies(q) /\ q.type # "CORRUPT"
  BY <1>3, <1>5 DEF Flow, NoMoves, NoReplies
<1>9. \A q : ~Moves(q) => MoveTells(q)'
  BY DEF MoveTells, Moves
<1>10. ASSUME NEW n \in Nat, toBase' = toBase \o <<a>> \o <<SizeOf(n)>>
      PROVE  /\ OnAir(toBase') = OnAir(toBase) \cup {a, SizeOf(n)}
             /\ OneAtATime(toNode', toBase')
             /\ toBase' = Append(toBase \o <<a>>, SizeOf(n))
  <2>1. SizeOf(n) \in ToBase /\ <<a>> \in Seq(ToBase) /\ <<SizeOf(n)>> \in Seq(ToBase)
    BY <1>7, Packets
  <2>2. toBase' = toBase \o (<<a>> \o <<SizeOf(n)>>)
    BY <1>2, <1>10, <2>1, ConcatAssociative
  <2>3. <<a>> \o <<SizeOf(n)>> \in Seq(ToBase)
    BY <2>1, Behind
  <2>4. OnAir(<<a>> \o <<SizeOf(n)>>) = {a, SizeOf(n)}
    BY <1>7, <2>1, TwoOnAir
  <2>5. OnAir(toBase') = OnAir(toBase) \cup {a, SizeOf(n)}
    <3> DEFINE new == <<a>> \o <<SizeOf(n)>>
    <3>1. new \in Seq(ToBase)
      BY Zenon, <2>3
    <3>2. OnAir(new) = {a, SizeOf(n)} /\ toBase' = toBase \o new
      BY Zenon, <2>2, <2>4
    <3> HIDE DEF new
    <3>3. OnAir(toBase \o new) = OnAir(toBase) \cup OnAir(new)
      BY Zenon, <1>2, <3>1, JoinedOnAir
    <3> QED BY Zenon, <3>2, <3>3
  <2> DEFINE t == toBase \o <<a>>
  <2>6. t \in Seq(ToBase)
    BY <1>2, <2>1, Behind
  <2>7. OnAir(t) = OnAir(toBase) \cup {a}
    <3>1. OnAir(<<a>>) = {a}
      BY DEF OnAir
    <3>2. OnAir(toBase \o <<a>>) = OnAir(toBase) \cup OnAir(<<a>>)
      BY Zenon, <1>2, <2>1, JoinedOnAir
    <3> QED BY Zenon, <3>1, <3>2
  <2>8. toBase' = Append(t, SizeOf(n))
    <3> HIDE DEF t
    <3>1. toBase' = t \o <<SizeOf(n)>>
      BY <1>10 DEF t
    <3> QED BY <2>1, <2>6, <3>1, Last1
  <2>9. NoReplies(t)
    BY <1>5, <1>7, <2>7 DEF NoReplies
  <2>10. OneAtATime(toNode', toBase')
    <3> HIDE DEF t
    <3> QED BY <1>5, <2>1, <2>6, <2>8, <2>9, FirstOne
  <2> QED BY <2>5, <2>8, <2>10
<1>11. CASE toBase' = toBase \o <<a>> \o <<SizeOf(0)>>
  <2>1. OnAir(toBase') = OnAir(toBase) \cup {a, SizeOf(0)} /\ OneAtATime(toNode', toBase')
    BY <1>10, <1>11
  <2>2. \A q \in OnAir(toBase') : ~Replies(q) /\ q.type # "CORRUPT"
    <3>1. ~Replies(SizeOf(0)) /\ SizeOf(0).type # "CORRUPT"
      BY DEF SizeOf, Replies
    <3> QED BY <1>7, <1>8, <2>1, <3>1
  <2>3. base' # "done" /\ ~reading'
    BY <1>1, <1>4, <1>6
  <2> QED BY Zenon, <1>8, <1>9, <2>1, <2>2, <2>3 DEF Flow
<1>12. CASE /\ toBase' = toBase \o <<a>> \o <<SizeOf(Payloads[wanted])>>
            /\ Payloads[wanted] > 0
            /\ file' = [size |-> Payloads[wanted], pos |-> 0]
            /\ bytes_left' = Payloads[wanted]
            /\ bytes_sent' = FALSE
            /\ ongoing_request' = "REQUEST_FILE"
  <2> DEFINE n == Payloads[wanted]
  <2>0. n \in Nat
    BY LogAssumption DEF Typed
  <2>1. OnAir(toBase') = OnAir(toBase) \cup {a, SizeOf(n)} /\ OneAtATime(toNode', toBase')
    BY <1>10, <1>12, <2>0
  <2>2. Account(0)'
    <3>1. bytes_sent' <=> 0 > 0
      <4>1. ~(0 > 0)
        OBVIOUS
      <4> QED BY Zenon, <1>12, <4>1
    <3>2. /\ bytes_left' = Payloads[wanted'] - (IF 0 = 0 THEN 0 ELSE 0 - 1)
          /\ bytes_left' > 0 /\ wanted' = wanted
      BY <1>1, <1>12, <2>0
    <3> QED BY Zenon, <1>12, <3>1, <3>2 DEF Account
  <2>3. ReplyTells(SizeOf(n))'
    BY <1>1, <1>4, <2>2 DEF ReplyTells, SizeOf
  <2>4. \A q \in OnAir(toBase') : (Replies(q) => ReplyTells(q)') /\ q.type # "CORRUPT"
    <3>1. SizeOf(n).type # "CORRUPT"
      BY DEF SizeOf
    <3>2. \A q \in OnAir(toBase') : (~Replies(q) /\ q.type # "CORRUPT") \/ q = SizeOf(n)
      BY <1>7, <1>8, <2>1
    <3> SUFFICES ASSUME NEW q \in OnAir(toBase')
                 PROVE  (Replies(q) => ReplyTells(q)') /\ q.type # "CORRUPT"
      OBVIOUS
    <3>3. CASE ~Replies(q) /\ q.type # "CORRUPT"
      BY Zenon, <3>3
    <3>4. CASE q = SizeOf(n)
      <4>1. ReplyTells(q)'
        BY <1>1, <1>4, <2>2, <3>4 DEF ReplyTells, SizeOf
      <4> QED BY Zenon, <3>1, <3>4, <4>1
    <3> QED BY Zenon, <3>2, <3>3, <3>4
  <2>5. base' # "done" /\ ~reading'
    BY <1>1, <1>4, <1>6
  <2> QED BY Zenon, <1>8, <1>9, <2>1, <2>4, <2>5 DEF Flow
<1>13. \/ toBase' = toBase \o <<a>> \o <<SizeOf(0)>>
       \/ /\ toBase' = toBase \o <<a>> \o <<SizeOf(Payloads[wanted])>>
          /\ Payloads[wanted] > 0
          /\ file' = [size |-> Payloads[wanted], pos |-> 0]
          /\ bytes_left' = Payloads[wanted]
          /\ bytes_sent' = FALSE
          /\ ongoing_request' = "REQUEST_FILE"
  BY Zenon, <1>6 DEF Initiate
<1> QED BY Zenon, <1>11, <1>12, <1>13

\* An acknowledgement is answered with the next payload, or with the end.
LEMMA AckRead ==
  ASSUME Typed, Flags, OneAtATime(toNode, toBase), Flow, NodeReads, Head(toNode).type = "ACK"
  PROVE  OneAtATime(toNode', toBase') /\ Flow'
<1> DEFINE p == Head(toNode)
           P == Payloads[wanted]
<1>1. toNode # <<>> /\ toNode' = Tail(toNode) /\ ~reading /\ UNCHANGED <<base, wanted, received>>
  BY DEF NodeReads, ReadPacket, Flow, baseVars
<1>2. toNode \in Seq(ToNode) /\ toBase \in Seq(ToBase)
  BY DEF Typed
<1>3. p \in OnAir(toNode) /\ OnAir(toNode') \subseteq OnAir(toNode)
  BY <1>1, <1>2, PacketsOnAir
<1>0. PICK n \in Nat : n = file.pos
  BY DEF Typed
<1>4. /\ p.code # 0 /\ Account(n) /\ base \in {"data", "idle"}
      /\ base = "data" => received = FirstPayloads(n)
  BY <1>0, <1>3 DEF Flow, MoveTells
<1>5. NoMoves(toNode') /\ NoReplies(toBase) /\ toNode' \in Seq(ToNode)
  <2>1. Moves(p)
    BY DEF Moves
  <2> QED BY <1>1, <1>2, <2>1, NoneLeft, Front
<1>6. Advance /\ UNCHANGED reading
  <2>1. HandlePacket(p) /\ UNCHANGED reading
    BY <1>1 DEF NodeReads, ReadPacket
  <2>2. HandleAck(p.code # 0)
    BY <2>1 DEF HandlePacket
  <2> QED BY <1>4, <2>1, <2>2 DEF HandleAck, Account
<1>7. ~reading' /\ base' # "done"
  BY <1>1, <1>4, <1>6
<1>8. n \in Nat /\ P \in Nat /\ bytes_left \in Nat
  BY LogAssumption DEF Typed
<1>9. bytes_left' = P - n /\ SendOn(P - n)
  <2> DEFINE left == IF bytes_sent /\ bytes_left > 0 THEN bytes_left - 1 ELSE bytes_left
  <2>1. bytes_left' = left /\ SendOn(left)
    BY Zenon, <1>6 DEF Advance
  <2>2. bytes_left = P - (IF n = 0 THEN 0 ELSE n - 1) /\ bytes_left > 0 /\ (bytes_sent <=> n > 0)
    BY <1>4 DEF Account
  <2>3. left = P - n
    <3>1. CASE n = 0
      <4>1. ~bytes_sent
        BY <1>8, <2>2, <3>1
      <4> QED BY <1>8, <2>2, <3>1, <4>1
    <3>2. CASE n # 0
      <4>1. bytes_sent
        BY <1>8, <2>2, <3>2
      <4>2. left = bytes_left - 1
        BY <2>2, <4>1
      <4> QED BY <1>8, <2>2, <3>2, <4>2
    <3> QED BY <3>1, <3>2
  <2> QED BY Zenon, <2>1, <2>3
<1>10. CASE P - n = 0
  <2>1. toBase' = Append(toBase, EndOfFile) /\ ongoing_request' = "NONE"
    BY <1>9, <1>10 DEF SendOn
  <2>2. n = P
    BY <1>8, <1>10
  <2>3. ReplyTells(EndOfFile)'
    BY <1>1, <1>4, <2>1, <2>2 DEF ReplyTells, EndOfFile
  <2>4. EndOfFile \in ToBase /\ EndOfFile.type # "CORRUPT"
    BY Packets DEF EndOfFile
  <2> QED BY Zenon, <1>2, <1>3, <1>5, <1>7, <2>1, <2>3, <2>4, ReplySent
<1>11. CASE P - n > 0
  <2> DEFINE q == Payload(n + 1)
  <2>1. /\ toBase' = Append(toBase, Payload(NextPayload))
        /\ file' = IF NextPayload = 0 THEN file ELSE [file EXCEPT !.pos = @ + 1]
        /\ bytes_sent' = TRUE /\ ongoing_request' = ongoing_request
    BY <1>9, <1>11 DEF SendOn
  <2>2. file = [size |-> P, pos |-> n] /\ ongoing_request = "REQUEST_FILE"
    BY Zenon, <1>0, <1>4 DEF Account
  <2>3. NextPayload = n + 1
    BY <1>8, <1>11, <2>2 DEF NextPayload
  <2>4. toBase' = Append(toBase, q) /\ file' = [size |-> P, pos |-> n + 1] /\ n + 1 # 0
    BY <1>8, <2>1, <2>2, <2>3
  <2>5. Account(n + 1)'
    <3>1. /\ ongoing_request' = "REQUEST_FILE"
          /\ file' = [size |-> Payloads[wanted'], pos |-> n + 1]
      BY <1>1, <2>1, <2>2, <2>4
    <3>2. bytes_sent' <=> n + 1 > 0
      <4>1. n + 1 > 0
        BY <1>8
      <4> QED BY Zenon, <2>1, <4>1
    <3>3. P - n = P - (IF n + 1 = 0 THEN 0 ELSE (n + 1) - 1)
      BY <1>8
    <3>4. bytes_left' = Payloads[wanted'] - (IF n + 1 = 0 THEN 0 ELSE (n + 1) - 1) /\ bytes_left' > 0
      <4>1. wanted' = wanted
        BY <1>1
      <4> QED BY Zenon, <1>9, <1>11, <3>3, <4>1
    <3> QED BY Zenon, <3>1, <3>2, <3>4 DEF Account
  <2>6. q.body = "payload" /\ q.type # "CORRUPT" /\ q.number = n + 1 /\ q \in ToBase
    BY <1>8, Packets DEF Payload
  <2>7. file'.pos = n + 1 /\ file'.pos > 0 /\ file'.pos - 1 = n
    BY <1>8, <2>4
  <2>8. ReplyTells(q)'
    <3> HIDE DEF q
    <3>1. Account(file.pos)' /\ FirstPayloads(file'.pos - 1) = FirstPayloads(n)
      BY Zenon, <2>5, <2>7
    <3>2. base' = "data" => received' = FirstPayloads(file'.pos - 1)
      BY Zenon, <1>1, <1>4, <3>1
    <3>3. base' \in {"data", "idle"} /\ q.number = file'.pos
      BY <1>1, <1>4, <2>6, <2>7
    <3>4. q.body # "size" /\ q.body # "end"
      BY <2>6
    <3> QED BY Zenon, <2>6, <2>7, <3>1, <3>2, <3>3, <3>4 DEF ReplyTells
  <2> QED
    <3> HIDE DEF q
    <3> QED BY Zenon, <1>2, <1>3, <1>5, <1>7, <2>4, <2>6, <2>8, ReplySent
<1>12. P - n >= 0
  BY <1>4, <1>8 DEF Account, Typed
<1> QED BY <1>8, <1>10, <1>11, <1>12

\* What the base hears it answers, and keeps count of what it has received.
LEMMA NextReceived ==
  ASSUME NEW n \in Nat, n > 0
  PROVE  Append(FirstPayloads(n - 1), n) = FirstPayloads(n)
<1> DEFINE s == FirstPayloads(n - 1)
           t == FirstPayloads(n)
<1>1. s \in Seq(Nat) /\ Len(s) = n - 1 /\ t \in Seq(Nat) /\ Len(t) = n
  BY DEF FirstPayloads
<1>2. Append(s, n) \in Seq(Nat) /\ Len(Append(s, n)) = n
  BY <1>1, AppendProperties
<1>3. \A k \in 1 .. n : Append(s, n)[k] = t[k]
  BY <1>1 DEF FirstPayloads
<1> DEFINE u == Append(s, n)
<1>4. u \in Seq(Nat) /\ Len(u) = Len(t) /\ \A k \in 1 .. Len(u) : u[k] = t[k]
  BY <1>1, <1>2, <1>3
<1> HIDE DEF s, t, u
<1>5. u = t
  BY Zenon, <1>1, <1>4, SeqEqual
<1> QED BY <1>5 DEF s, t, u

LEMMA BaseHears ==
  ASSUME Typed, OneAtATime(toNode, toBase), Flow, BaseReceives
  PROVE  OneAtATime(toNode', toBase') /\ Flow'
<1> DEFINE q == Head(toBase)
<1>1. /\ toBase # <<>> /\ toBase' = Tail(toBase) /\ ~reading'
      /\ UNCHANGED <<ongoing_request, senderVars, reading, wanted>>
  <2>1. UNCHANGED nodeVars /\ toBase # <<>> /\ toBase' = Tail(toBase)
    BY DEF BaseReceives
  <2>2. UNCHANGED wanted
    BY DEF BaseReceives, baseVars
  <2>3. UNCHANGED <<ongoing_request, senderVars, reading>> /\ ~reading'
    BY <2>1 DEF nodeVars, protocolVars, Flow
  <2> QED BY Zenon, <2>1, <2>2, <2>3
<1>2. toNode \in Seq(ToNode) /\ toBase \in Seq(ToBase) /\ toBase' \in Seq(ToBase)
  BY <1>1, Front DEF Typed
<1>3. q \in OnAir(toBase) /\ OnAir(toBase') \subseteq OnAir(toBase)
  BY <1>1, <1>2, PacketsOnAir
<1>4. q.type # "CORRUPT" /\ (Replies(q) => ReplyTells(q))
  BY <1>3 DEF Flow
<1>5. Replies(q) => NoMoves(toNode) /\ NoReplies(toBase')
  BY <1>1, <1>2, NoneLeft
<1>6. ASSUME NEW n, Account(n) PROVE Account(n)'
  BY Zenon, <1>1, <1>6 DEF Account, senderVars
<1>7. file' = file
  BY <1>1 DEF senderVars
<1>8. Positive \in ToNode /\ Positive.type = "ACK" /\ Positive.code # 0
  BY Packets DEF Positive, Ack
<1>9. CASE base' \in {base, "idle"} /\ UNCHANGED <<received, toNode>>
  <2>1. OneAtATime(toNode', toBase')
    BY <1>1, <1>2, <1>9, StillOne
  <2>2. UNCHANGED received /\ UNCHANGED toNode
    BY <1>9
  <2>3. /\ \A r \in OnAir(toNode') :
             r \in OnAir(toNode) \/ (~Moves(r) /\ r.type \notin {"CORRUPT", "TRUNCATED"})
        /\ \A r \in OnAir(toBase') : r \in OnAir(toBase) \/ (~Replies(r) /\ r.type # "CORRUPT")
    BY Zenon, <1>3, <2>2
  <2>4. UNCHANGED <<ongoing_request, senderVars, reading, wanted, received>>
    BY Zenon, <1>1, <2>2
  <2>5. Flow'
    BY Zenon, <1>9, <2>3, <2>4, QuietFlow
  <2> QED BY Zenon, <2>1, <2>5
<1>10. CASE /\ q.type = "RESPONCE" /\ q.body = "size" /\ base \in {"size", "data"} /\ q.number # 0
            /\ base' = "data" /\ Send(Positive) /\ UNCHANGED received
  <2>1. Replies(q)
    BY <1>10 DEF Replies
  <2>2. Account(0) /\ received = <<>>
    BY <1>4, <1>10, <2>1 DEF ReplyTells
  <2>3. file.pos = 0 /\ FirstPayloads(0) = <<>>
    BY <2>2 DEF Account, FirstPayloads
  <2>4. MoveTells(Positive)'
    <3>1. Account(file.pos)'
      <4>1. Account(0)' /\ file'.pos = 0
        BY <1>6, <1>7, <2>2, <2>3
      <4> QED BY Zenon, <4>1
    <3>2. received' = FirstPayloads(file'.pos)
      BY <1>7, <1>10, <2>2, <2>3
    <3>3. ~IsFileRequest(Positive)
      BY <1>8 DEF IsFileRequest
    <3> QED BY Zenon, <1>8, <1>10, <3>1, <3>2, <3>3 DEF MoveTells
  <2>5. toNode' = Append(toNode, Positive) /\ base' # "done"
        /\ Positive.type \notin {"CORRUPT", "TRUNCATED"}
    BY <1>8, <1>10 DEF Send
  <2> QED BY Zenon, <1>1, <1>2, <1>3, <1>5, <1>8, <2>1, <2>4, <2>5, MoveSent
<1>11. CASE /\ q.type = "RESPONCE" /\ q.body = "payload" /\ base = "data"
            /\ received' = Append(received, q.number) /\ Send(Positive) /\ UNCHANGED base
  <2>1. Replies(q)
    BY <1>11 DEF Replies
  <2>2. /\ q.number = file.pos /\ file.pos > 0 /\ Account(file.pos)
        /\ received = FirstPayloads(file.pos - 1)
    BY <1>4, <1>11, <2>1 DEF ReplyTells
  <2>3. file.pos \in Nat
    BY DEF Typed
  <2>4. received' = FirstPayloads(file.pos)
    BY <1>11, <2>2, <2>3, NextReceived
  <2>5. MoveTells(Positive)'
    <3>1. Account(file.pos)'
      <4> PICK n \in Nat : n = file.pos
        BY <2>3
      <4>1. Account(n)' /\ file'.pos = n
        BY <1>6, <1>7, <2>2
      <4> QED BY Zenon, <4>1
    <3>2. received' = FirstPayloads(file'.pos)
      BY <1>7, <2>4
    <3>3. ~IsFileRequest(Positive)
      BY <1>8 DEF IsFileRequest
    <3>4. base' = "data"
      BY <1>11
    <3> QED BY Zenon, <1>8, <3>1, <3>2, <3>3, <3>4 DEF MoveTells
  <2>6. toNode' = Append(toNode, Positive) /\ base' # "done"
        /\ Positive.type \notin {"CORRUPT", "TRUNCATED"}
    BY <1>8, <1>11 DEF Send
  <2> QED BY Zenon, <1>1, <1>2, <1>3, <1>5, <1>8, <2>1, <2>5, <2>6, MoveSent
<1>12. CASE /\ q.type = "RESPONCE" /\ q.body = "end" /\ base = "data"
            /\ base' = "done" /\ UNCHANGED <<received, toNode>>
  <2>1. Replies(q)
    BY <1>12 DEF Replies
  <2>2. received' = FirstPayloads(Payloads[wanted'])
    BY <1>1, <1>4, <1>12, <2>1 DEF ReplyTells
  <2>3. toNode' = toNode
    BY <1>12
  <2>4. toNode' \in Seq(ToNode) /\ OnAir(toNode') \subseteq OnAir(toNode) /\ NoMoves(toNode')
    BY Zenon, <1>2, <1>5, <2>1, <2>3
  <2> QED BY Zenon, <1>1, <1>2, <1>3, <1>5, <2>1, <2>2, <2>4, NothingSent
<1>13. \/ base' \in {base, "idle"} /\ UNCHANGED <<received, toNode>>
       \/ /\ q.type = "RESPONCE" /\ q.body = "size" /\ base \in {"size", "data"} /\ q.number # 0
          /\ base' = "data" /\ Send(Positive) /\ UNCHANGED received
       \/ /\ q.type = "RESPONCE" /\ q.body = "payload" /\ base = "data"
          /\ received' = Append(received, q.number) /\ Send(Positive) /\ UNCHANGED base
       \/ /\ q.type = "RESPONCE" /\ q.body = "end" /\ base = "data"
          /\ base' = "done" /\ UNCHANGED <<received, toNode>>
  BY <1>4 DEF BaseReceives, baseVars
<1> QED BY Zenon, <1>9, <1>10, <1>11, <1>12, <1>13

\* A request that finds everything at rest starts a transfer.
LEMMA BaseAsks ==
  ASSUME Typed, Flow, BaseRequests, ~overlapped'
  PROVE  OneAtATime(toNode', toBase') /\ Flow'
<1> DEFINE p == Request("REQUEST_FILE", wanted')
<1>1. /\ toNode' = Append(toNode, p) /\ base' = "size" /\ received' = <<>> /\ UNCHANGED <<nodeVars, toBase>>
      /\ ~TransferOpen
  <2>1. ~TransferOpen
    BY Zenon DEF BaseRequests
  <2> QED BY <2>1 DEF BaseRequests, Send
<1>2. ongoing_request = "NONE" /\ ongoing_request' = "NONE" /\ ~reading' /\ toBase' = toBase
  BY <1>1 DEF TransferOpen, nodeVars, protocolVars, Flow
<1>3. toNode \in Seq(ToNode) /\ toBase' \in Seq(ToBase) /\ OnAir(toBase') \subseteq OnAir(toBase)
  BY <1>2 DEF Typed
<1>4. NoMoves(toNode)
  <2>1. \A r \in OnAir(toNode) : r.type # "REQUEST"
    BY Zenon, <1>1 DEF TransferOpen, OnAir
  <2>2. \A r \in OnAir(toNode) : r.type # "ACK"
    BY <1>2 DEF Flow, MoveTells, Account
  <2> QED BY <2>1, <2>2 DEF NoMoves, Moves, IsFileRequest
<1>5. NoReplies(toBase')
  <2>1. \A r \in OnAir(toBase) : r.type # "RESPONCE"
    BY Zenon, <1>1 DEF TransferOpen, OnAir
  <2> QED BY <1>2, <2>1 DEF NoReplies, Replies
<1>6. p \in ToNode /\ p.type \notin {"CORRUPT", "TRUNCATED"} /\ p.type # "ACK" /\ p.log = wanted'
  <2>1. wanted' \in Log
    BY DEF BaseRequests
  <2> QED BY <2>1, Packets DEF Request
<1>7. base' \in {"size", "idle"} /\ base' # "done"
  BY <1>1
<1> PICK r \in ToNode : r = p
  BY <1>6
<1> HIDE DEF p
<1>8. MoveTells(r)'
  BY Zenon, <1>1, <1>2, <1>6, <1>7 DEF MoveTells
<1> QED BY Zenon, <1>1, <1>2, <1>3, <1>4, <1>5, <1>6, <1>7, <1>8, MoveSent

\* Packets from outside the transfer disturb nothing.
LEMMA OutsiderSent ==
  ASSUME Typed, OneAtATime(toNode, toBase), Flow, BaseInterferes
  PROVE  OneAtATime(toNode', toBase') /\ Flow'
<1>1. PICK p \in ToNode :
         /\ toNode' = Append(toNode, p) /\ toBase' = toBase
         /\ p \in {Handshake, Invalid} \cup {Request(kind, wanted) : kind \in {"SHORT", "NUM_LOG", "UNKNOWN"}}
  BY Zenon, InterferenceAir
<1>2. ~Moves(p) /\ p.type \notin {"CORRUPT", "TRUNCATED"}
  BY <1>1 DEF Moves, IsFileRequest, Handshake, Invalid, Request
<1>3. toNode \in Seq(ToNode) /\ toBase \in Seq(ToBase)
  BY DEF Typed
<1>4. OneAtATime(toNode', toBase')
  <2>1. OneAtATime(Append(toNode, p), toBase)
    BY Zenon, <1>2, <1>3, StillOne
  <2> QED BY Zenon, <1>1, <2>1
<1>5. OnAir(toNode') = OnAir(toNode) \cup {p}
  <2>1. OnAir(Append(toNode, p)) = OnAir(toNode) \cup {p}
    BY Zenon, <1>3, SentOnAir
  <2> QED BY Zenon, <1>1, <2>1
<1>6. /\ \A r \in OnAir(toNode') :
           r \in OnAir(toNode) \/ (~Moves(r) /\ r.type \notin {"CORRUPT", "TRUNCATED"})
      /\ \A r \in OnAir(toBase') : r \in OnAir(toBase) \/ (~Replies(r) /\ r.type # "CORRUPT")
  BY Zenon, <1>1, <1>2, <1>5
<1>7. UNCHANGED <<ongoing_request, senderVars, reading, wanted, received>> /\ base' \in {base, "idle"}
  <2>1. UNCHANGED nodeVars /\ UNCHANGED baseVars
    BY DEF BaseInterferes
  <2> QED BY <2>1 DEF nodeVars, protocolVars, baseVars
<1>8. Flow'
  BY Zenon, <1>6, <1>7, QuietFlow
<1> QED BY Zenon, <1>4, <1>8

\* The node reads whatever comes.
LEMMA NodeHears ==
  ASSUME Typed, Flags, OneAtATime(toNode, toBase), Flow, NodeReads
  PROVE  OneAtATime(toNode', toBase') /\ Flow'
<1> DEFINE p == Head(toNode)
<1>1. /\ ReadPacket /\ toNode # <<>> /\ toNode' = Tail(toNode) /\ ~reading
      /\ UNCHANGED <<base, wanted, received>>
  BY DEF NodeReads, ReadPacket, Flow, baseVars
<1>2. toNode \in Seq(ToNode) /\ toBase \in Seq(ToBase) /\ toNode' \in Seq(ToNode)
  BY <1>1, Front DEF Typed
<1>3. p \in OnAir(toNode) /\ OnAir(toNode') \subseteq OnAir(toNode)
  BY <1>1, <1>2, PacketsOnAir
<1>4. p.type \notin {"CORRUPT", "TRUNCATED"}
  BY <1>3 DEF Flow
<1>5. CASE ~Moves(p)
  <2>1. PICK new \in Seq(ToBase) :
           /\ toBase' = toBase \o new
           /\ \A q \in OnAir(new) : ~Replies(q) /\ q.type # "CORRUPT"
    BY Zenon, <1>1, <1>4, <1>5, QuietRead
  <2>2. UNCHANGED <<ongoing_request, senderVars, reading>>
    BY Zenon, <1>1, <1>4, <1>5, QuietRead
  <2>3. OnAir(toBase') = OnAir(toBase) \cup OnAir(new)
    <3>1. OnAir(toBase \o new) = OnAir(toBase) \cup OnAir(new)
      BY Zenon, <1>2, JoinedOnAir
    <3> QED BY Zenon, <2>1, <3>1
  <2>4. /\ \A r \in OnAir(toNode') :
             r \in OnAir(toNode) \/ (~Moves(r) /\ r.type \notin {"CORRUPT", "TRUNCATED"})
        /\ \A r \in OnAir(toBase') : r \in OnAir(toBase) \/ (~Replies(r) /\ r.type # "CORRUPT")
    BY Zenon, <1>3, <2>1, <2>3
  <2>5. UNCHANGED <<ongoing_request, senderVars, reading, wanted, received>> /\ base' \in {base, "idle"}
    BY <1>1, <2>2
  <2>6. Flow'
    BY Zenon, <2>4, <2>5, QuietFlow
  <2>7. OneAtATime(toNode', toBase)
    <3>1. OneAtATime(Tail(toNode), toBase)
      BY Zenon, <1>1, <1>2, StillOne
    <3> QED BY Zenon, <1>1, <3>1
  <2>8. OneAtATime(toNode', toBase')
    <3>1. NoReplies(new)
      BY Zenon, <2>1 DEF NoReplies
    <3>2. OneAtATime(toNode', toBase \o new)
      BY Zenon, <1>2, <2>7, <3>1, StillOne
    <3> QED BY Zenon, <2>1, <3>2
  <2> QED BY Zenon, <2>6, <2>8
<1>6. CASE IsFileRequest(p)
  BY Zenon, <1>6, RequestRead
<1>7. CASE p.type = "ACK"
  BY Zenon, <1>7, AckRead
<1> QED BY Zenon, <1>5, <1>6, <1>7 DEF Moves

LEMMA UndisturbedStep == Typed /\ Flags /\ Undisturbed /\ [Next]_vars => Undisturbed'
<1> SUFFICES ASSUME Typed, Flags, Undisturbed, [Next]_vars, ~spoiled', ~overlapped'
             PROVE  OneAtATime(toNode', toBase') /\ Flow'
  BY Zenon DEF Undisturbed
<1>1. ~NodeRetries /\ ~NodeDrops /\ ~RadioFaults
  BY Zenon DEF NodeRetries, NodeDrops, RadioFaults
<1>2. ~spoiled /\ ~overlapped
  <2>1. ~spoiled
    BY Zenon, <1>1 DEF Next, NodeReads, BaseRequests, BaseInterferes, BaseReceives, vars
  <2>2. ~overlapped
    BY Zenon, <1>1 DEF Next, NodeReads, BaseRequests, BaseInterferes, BaseReceives, vars
  <2> QED BY <2>1, <2>2
<1>3. OneAtATime(toNode, toBase) /\ Flow
  BY Zenon, <1>2 DEF Undisturbed
<1>4. CASE NodeReads
  BY Zenon, <1>3, <1>4, NodeHears
<1>5. CASE BaseRequests
  BY Zenon, <1>3, <1>5, BaseAsks
<1>6. CASE BaseInterferes
  BY Zenon, <1>3, <1>6, OutsiderSent
<1>7. CASE BaseReceives
  BY Zenon, <1>3, <1>7, BaseHears
<1>8. CASE UNCHANGED vars
  <2>1. UNCHANGED <<ongoing_request, senderVars, reading, wanted, received>> /\ base' \in {base, "idle"}
    BY <1>8 DEF vars, nodeVars, protocolVars, baseVars
  <2>2. UNCHANGED toNode /\ UNCHANGED toBase
    BY <1>8 DEF vars, airVars
  <2>3. /\ \A r \in OnAir(toNode') :
             r \in OnAir(toNode) \/ (~Moves(r) /\ r.type \notin {"CORRUPT", "TRUNCATED"})
        /\ \A r \in OnAir(toBase') : r \in OnAir(toBase) \/ (~Replies(r) /\ r.type # "CORRUPT")
    BY Zenon, <2>2
  <2>4. Flow'
    BY Zenon, <1>3, <2>1, <2>3, QuietFlow
  <2> QED BY Zenon, <1>3, <2>2, <2>4
<1> QED BY Zenon, <1>1, <1>4, <1>5, <1>6, <1>7, <1>8 DEF Next

-----------------------------------------------------------------------------
\* The inductive invariant: the types, the bound on the packets on the air, the
\* count of the repetitions, the order of the payloads, and the one exchange at
\* a time as long as nothing disturbs a transfer.
THEOREM Invariance == Spec => []IInv
<1>1. IInv /\ [Next]_vars => IInv'
  BY Zenon, TypedStep, FlagsStep, AirBoundedStep, CountedStep, OrderlyStep, UndisturbedStep DEF IInv
<1> QED BY <1>1, InitHolds, PTL DEF Spec

\* Every variable keeps its type, and the packets on the air their bound
\* (protocol.c, send_file.c).
THEOREM TypeCorrect == Spec => []TypeOK
<1>1. IInv => TypeOK
  <2> SUFFICES ASSUME IInv PROVE TypeOK
    OBVIOUS
  <2>1. Typed /\ Flags /\ AirBounded
    BY DEF IInv
  <2>2. Len(toNode) + Len(toBase) <= MaxAir + MaxRequests + MaxExtra
    <3> DEFINE a == Asked(toNode)
               n == Len(toNode)
               b == Len(toBase)
    <3>1. a \in Nat /\ n \in Nat /\ b \in Nat
      BY <2>1, AirToNode, AirToBase
    <3>2. n + b + a <= MaxAir + (requests + extras)
      BY <2>1 DEF AirBounded
    <3> HIDE DEF a, n, b
    <3>3. /\ requests \in 0 .. MaxRequests /\ extras \in 0 .. MaxExtra
          /\ MaxRequests \in Nat /\ MaxExtra \in Nat /\ MaxAir \in Nat
      BY <2>1, BoundsAssumption DEF Typed
    <3>4. n + b <= MaxAir + MaxRequests + MaxExtra
      BY <3>1, <3>2, <3>3
    <3> QED BY <3>4 DEF n, b
  <2>3. {streaming, bytes_sent, reading, spoiled, overlapped} \subseteq BOOLEAN
    BY Zenon, <2>1 DEF Flags
  <2>4. /\ ongoing_request \in {"REQUEST_FILE", "NONE"} /\ timeout_inc \in 1 .. 6 /\ bytes_left \in Nat
        /\ file.pos \in 0 .. file.size /\ base \in {"idle", "size", "data", "done"} /\ received \in Seq(Nat)
    BY <2>1 DEF Typed
  <2> QED BY Zenon, <2>2, <2>3, <2>4 DEF TypeOK
<1> QED BY <1>1, Invariance, PTL

\* What the base takes is in order, and a transfer that nothing disturbed has
\* brought the whole log (send_file.c:43-120, protocol.c:134-158).
THEOREM Delivered == Spec => []DeliveredRight
<1>1. IInv => CleanTransferComplete
  BY DEF IInv, Undisturbed, Flow, FirstPayloads, CleanTransferComplete
<1>2. IInv => DeliveredInOrder
  BY SMTT(40) DEF IInv, Typed, Orderly, Ordered, Before, DeliveredInOrder
<1>3. IInv /\ TypeOK => DeliveredRight
  BY Zenon, <1>1, <1>2 DEF DeliveredRight
<1> QED BY <1>3, Invariance, TypeCorrect, PTL

\* A request is dropped after five repetitions since the base was last heard,
\* and no fewer (protocol.c:70-101, 111-118).
THEOREM GivenUpAfterFive == Spec => DroppedAfterFive
<1>1. IInv /\ [Next]_vars =>
        (ongoing_request # "NONE" /\ ongoing_request' = "NONE" /\ toNode' = toNode
           => unheard = 5 \/ toBase' # toBase)
  <2> SUFFICES ASSUME IInv, [Next]_vars, ongoing_request # "NONE", ongoing_request' = "NONE",
                      toNode' = toNode
               PROVE  unheard = 5 \/ toBase' # toBase
    OBVIOUS
  <2>1. Typed /\ Counted
    BY DEF IInv
  <2>2. ~NodeReads
    BY <2>1, HeadOfToNode DEF NodeReads, ReadPacket
  <2>3. CASE NodeRetries
    <3>1. Retry
      BY <2>3 DEF NodeRetries
    <3>2. SendAgain
      BY Zenon, <3>1 DEF Retry, HandleAck
    <3>3. toBase' = Append(toBase, EndOfFile)
      BY <3>2 DEF SendAgain, SendOn
    <3>4. Len(toBase') = Len(toBase) + 1 /\ Len(toBase) \in Nat
      BY <2>1, <3>3, Packets, Last1 DEF Typed
    <3> QED BY <3>4
  <2>4. CASE NodeDrops
    BY <2>1, <2>4 DEF NodeDrops, Drop, Counted
  <2>5. CASE BaseRequests \/ BaseInterferes \/ BaseReceives \/ RadioFaults \/ UNCHANGED vars
    BY <2>5 DEF BaseRequests, BaseInterferes, BaseReceives, RadioFaults, vars, nodeVars, protocolVars
  <2> QED BY <2>2, <2>3, <2>4, <2>5 DEF Next
<1> QED BY <1>1, Invariance, PTL DEF Spec, DroppedAfterFive

=============================================================================
