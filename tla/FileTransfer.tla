----------------------------- MODULE FileTransfer -----------------------------
(***************************************************************************)
(* The communication node's half of a log transfer over the radio modem:   *)
(* the packet handlers and the time-out of nodes/ComNode/protocol.c, the   *)
(* file sender of send_file.c, and the packet checks of xbee.c.            *)
(*                                                                         *)
(* A file is a number of packet payloads; a payload is represented by its  *)
(* place in the file, and bytes are counted in payloads.  Time is left to  *)
(* chance: a time-out may come at any moment of an ongoing request, and    *)
(* timeout_inc is counted in steps of 100 ms.                              *)
(***************************************************************************)
EXTENDS Integers, Sequences

CONSTANTS
  Log,        \* numbers of the log files that exist
  Payloads    \* the number of payloads each of them fills

ASSUME LogAssumption == Payloads \in [Log -> Nat]

VARIABLES
  ongoing_request,   \* "REQUEST_FILE" or "NONE"
  timeout_inc,       \* 1..6, in units of 100 ms
  streaming,         \* whether live packets go to the base station
  bytes_left,        \* payloads not yet acknowledged
  bytes_sent,        \* whether any payload was sent (the code tests it for zero)
  file,              \* the open file: its payloads and the read position
  reading,           \* whether xbee_read_packet is stuck inside a packet
  toNode, toBase     \* packets on the air, in either direction

protocolVars == <<ongoing_request, timeout_inc, streaming>>
senderVars == <<bytes_left, bytes_sent, file>>
nodeVars == <<protocolVars, senderVars, reading>>
airVars == <<toNode, toBase>>

\* ACK, NACK and RESEND are one packet type; the payload tells them apart.
Ack(code) == [type |-> "ACK", code |-> code]
Positive == Ack(1)
Negative == Ack(0)
Resend == Ack(2)
Request(kind, log) == [type |-> "REQUEST", kind |-> kind, log |-> log]
Handshake == [type |-> "HANDSHAKE"]
\* A packet of the wrong type or length, one with a wrong checksum, and one
\* that lost bytes on the way.
Invalid == [type |-> "INVALID"]
Corrupt == [type |-> "CORRUPT"]
Truncated == [type |-> "TRUNCATED"]
\* What the node sends as RESPONCE: the size, a payload of the file, or nothing.
SizeOf(n) == [type |-> "RESPONCE", body |-> "size", number |-> n]
Payload(k) == [type |-> "RESPONCE", body |-> "payload", number |-> k]
EndOfFile == [type |-> "RESPONCE", body |-> "end", number |-> 0]

Closed == [size |-> 0, pos |-> 0]

NodeInit ==
  /\ ongoing_request = "NONE"
  /\ timeout_inc = 1
  /\ streaming = FALSE
  /\ bytes_left = 0
  /\ bytes_sent = FALSE
  /\ file = Closed
  /\ reading = FALSE

-----------------------------------------------------------------------------
\* A slip: the read position lags behind by a payload.
NextPayloadLags == IF file.pos = 0 THEN 1 ELSE file.pos

\* read_file delivers the payload at the position; behind the end, or with the
\* file object gone, it fails unnoticed and the packet keeps its zeros.
NextPayload == IF file.pos < file.size THEN file.pos + 1 ELSE 0

\* continue_send_file with left payloads to go.
SendOn(left) ==
  \/ /\ left = 0
     /\ toBase' = Append(toBase, EndOfFile)
     /\ file' = Closed
     /\ ongoing_request' = "NONE"
     /\ UNCHANGED bytes_sent
  \/ /\ left > 0
     /\ toBase' = Append(toBase, Payload(NextPayload))
     /\ file' = IF NextPayload = 0 THEN file ELSE [file EXCEPT !.pos = @ + 1]
     /\ bytes_sent' = TRUE
     /\ UNCHANGED ongoing_request

\* eval_send_file_status: what was sent is acknowledged, go on.
Advance ==
  LET left == IF bytes_sent /\ bytes_left > 0 THEN bytes_left - 1 ELSE bytes_left
  IN  bytes_left' = left /\ SendOn(left)

\* resend_send_file: the size again, or else continue_send_file.
SendAgain ==
  /\ \/ bytes_sent /\ SendOn(bytes_left)
     \/ /\ ~bytes_sent
        /\ toBase' = Append(toBase, SizeOf(bytes_left))
        /\ UNCHANGED <<bytes_sent, file, ongoing_request>>
  /\ UNCHANGED bytes_left

\* handle_ack, whose parameter is a bool: RESEND counts as true.
HandleAck(ack) ==
  IF ongoing_request = "NONE"
  THEN UNCHANGED <<ongoing_request, senderVars, toBase>>
  ELSE IF ack THEN Advance ELSE SendAgain

\* initiate_send_file, after the packets in first have been sent.  The file may
\* not exist or the card may fail: opening or seeking fails, and the file
\* object is useless then.  Only a successful start resets the time-out.
Initiate(log, first) ==
  \/ /\ toBase' = toBase \o first \o <<SizeOf(0)>>
     /\ file' = Closed
     /\ UNCHANGED <<ongoing_request, timeout_inc, bytes_left, bytes_sent>>
  \/ /\ log \in Log
     /\ Payloads[log] = 0
     /\ toBase' = toBase \o first \o <<SizeOf(0)>>
     /\ file' = Closed
     /\ bytes_left' = 0
     /\ UNCHANGED <<ongoing_request, timeout_inc, bytes_sent>>
  \/ /\ log \in Log
     /\ Payloads[log] > 0
     /\ toBase' = toBase \o first \o <<SizeOf(Payloads[log])>>
     /\ file' = [size |-> Payloads[log], pos |-> 0]
     /\ bytes_left' = Payloads[log]
     /\ bytes_sent' = FALSE
     /\ ongoing_request' = "REQUEST_FILE"
     /\ timeout_inc' = 1

\* respond_to_request: acknowledge or not, and serve the request all the same.
RespondToRequest(p) ==
  LET first == <<IF ongoing_request = "NONE" THEN Positive ELSE Negative>>
  IN  \/ p.kind = "REQUEST_FILE" /\ Initiate(p.log, first)
      \/ /\ p.kind = "SHORT"
         /\ toBase' = toBase \o first \o <<SizeOf(0)>>
         /\ UNCHANGED <<ongoing_request, timeout_inc, senderVars>>
      \/ /\ p.kind = "NUM_LOG"
         /\ toBase' = toBase \o first
         /\ UNCHANGED <<ongoing_request, timeout_inc, senderVars>>
      \/ /\ p.kind = "UNKNOWN"
         /\ toBase' = toBase \o first \o <<Negative>>
         /\ UNCHANGED <<ongoing_request, timeout_inc, senderVars>>

\* A complete packet that xbee_read_packet accepts.
HandlePacket(p) ==
  \/ /\ p.type = "HANDSHAKE"
     /\ streaming' = TRUE
     /\ toBase' = Append(toBase, Positive)
     /\ UNCHANGED <<ongoing_request, timeout_inc, senderVars>>
  \/ /\ p.type = "ACK"
     /\ HandleAck(p.code # 0)
     /\ timeout_inc' = 1
     /\ UNCHANGED streaming
  \/ /\ p.type = "REQUEST"
     /\ RespondToRequest(p)
     /\ UNCHANGED streaming

\* xbee_read_packet and handle_packet.  A truncated packet leaves the reader
\* waiting for the missing bytes; it takes them from the packets that come
\* next, then the checksum is wrong, and the rest of the last one is skipped.
ReadPacket ==
  /\ toNode # <<>>
  /\ toNode' = Tail(toNode)
  /\ LET p == Head(toNode)
     IN  \/ /\ ~reading /\ p.type \in {"HANDSHAKE", "ACK", "REQUEST"}
            /\ HandlePacket(p)
            /\ UNCHANGED reading
         \/ /\ ~reading /\ p.type = "TRUNCATED"
            /\ reading' = TRUE
            /\ UNCHANGED <<protocolVars, senderVars, toBase>>
         \/ /\ reading
            /\ UNCHANGED <<nodeVars, toBase>>
         \/ /\ ~reading /\ p.type = "INVALID"
            /\ toBase' = Append(toBase, Negative)
            /\ UNCHANGED nodeVars
         \/ /\ reading \/ p.type = "CORRUPT"
            /\ toBase' = Append(toBase, Resend)
            /\ reading' = FALSE
            /\ UNCHANGED <<protocolVars, senderVars>>

\* The event loop finds the time-out exceeded: repeat, waiting longer ...
Retry ==
  /\ ~reading
  /\ ongoing_request # "NONE"
  /\ timeout_inc # 6
  /\ HandleAck(FALSE)
  /\ timeout_inc' = timeout_inc + 1
  /\ UNCHANGED <<streaming, reading, toNode>>

\* A slip: the request is dropped one repetition too early.
DropEarly ==
  /\ ~reading
  /\ ongoing_request # "NONE"
  /\ timeout_inc >= 5
  /\ ongoing_request' = "NONE"
  /\ UNCHANGED <<timeout_inc, streaming, senderVars, reading, airVars>>

\* A slip: the request is dropped after a sixth repetition, which never comes.
DropNever ==
  /\ ~reading
  /\ ongoing_request # "NONE"
  /\ timeout_inc > 6
  /\ ongoing_request' = "NONE"
  /\ UNCHANGED <<timeout_inc, streaming, senderVars, reading, airVars>>

\* ... or, after the fifth repetition, drop the request; the file stays open.
Drop ==
  /\ ~reading
  /\ ongoing_request # "NONE"
  /\ timeout_inc = 6
  /\ ongoing_request' = "NONE"
  /\ UNCHANGED <<timeout_inc, streaming, senderVars, reading, airVars>>

NodeStep == ReadPacket \/ Retry \/ Drop

=============================================================================
