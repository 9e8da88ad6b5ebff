----------------------------- MODULE TransferLink -----------------------------
(***************************************************************************)
(* A log transfer end to end: the communication node of FileTransfer, a    *)
(* radio link that loses, damages and truncates packets, and a base        *)
(* station.  The base station is not part of the firmware; it is modelled  *)
(* from what the node's packet handlers expect: it requests a log, waits   *)
(* for the size, acknowledges the size and every payload, rejects damaged  *)
(* packets, and may ask again when it hears nothing.                       *)
(***************************************************************************)
EXTENDS FileTransfer

CONSTANTS
  MaxRequests,  \* bound on the number of transfers the base starts
  MaxFaults,    \* bound on the number of packets the radio spoils
  MaxExtra,     \* bound on the number of packets outside the transfer
  MaxAir        \* bound on the packets on the air, answers aside

ASSUME BoundsAssumption == {MaxRequests, MaxFaults, MaxExtra, MaxAir} \subseteq Nat

VARIABLES
  base,         \* "idle", "size" (waiting for it), "data" or "done"
  wanted,       \* the log the base wants
  received,     \* the payloads it has taken, in order
  requests, faults, extras,   \* counted for the bounds
  spoiled,      \* history: whether a packet was spoiled or a time-out ran out
  overlapped,   \* history: whether a request came before the last one was over
  unheard       \* history: repetitions since the node last heard an answer

baseVars == <<base, wanted, received>>
countVars == <<requests, faults, extras>>
vars == <<nodeVars, airVars, baseVars, countVars, spoiled, overlapped, unheard>>

Init ==
  /\ NodeInit
  /\ toNode = <<>>
  /\ toBase = <<>>
  /\ base = "idle"
  /\ wanted \in Log
  /\ received = <<>>
  /\ requests = 0 /\ faults = 0 /\ extras = 0
  /\ spoiled = FALSE /\ overlapped = FALSE
  /\ unheard = 0

-----------------------------------------------------------------------------
\* The bound on the packets on the air holds back whatever starts an exchange,
\* never an answer.
Room == Len(toNode) + Len(toBase) < MaxAir

\* The node's steps.  The node has heard from the base when it reads a packet
\* of the ACK type or starts a transfer.
NodeReads ==
  /\ ReadPacket
  /\ unheard' = IF ~reading /\ (\/ Head(toNode).type = "ACK"
                                \/ Head(toNode).type = "REQUEST" /\ timeout_inc' = 1)
                THEN 0 ELSE unheard
  /\ UNCHANGED <<baseVars, countVars, spoiled, overlapped>>

NodeRetries ==
  /\ Room
  /\ Retry
  /\ unheard' = unheard + 1
  /\ spoiled' = TRUE
  /\ UNCHANGED <<baseVars, countVars, overlapped>>

NodeDrops ==
  /\ Drop
  /\ spoiled' = TRUE
  /\ UNCHANGED <<baseVars, countVars, overlapped, unheard>>

-----------------------------------------------------------------------------
Send(p) == toNode' = Append(toNode, p)

\* A transfer is under way in the eyes of either side, or packets of one are.
TransferOpen ==
  \/ ongoing_request # "NONE"
  \/ base \notin {"idle", "done"}
  \/ \E k \in DOMAIN toNode : toNode[k].type = "REQUEST"
  \/ \E k \in DOMAIN toBase : toBase[k].type = "RESPONCE"

\* The base wants a log; it may ask in the middle of a transfer, or while
\* packets of the last one are still coming in.
BaseRequests ==
  /\ requests < MaxRequests /\ Room
  /\ requests' = requests + 1
  /\ wanted' \in Log
  /\ Send(Request("REQUEST_FILE", wanted'))
  /\ base' = "size"
  /\ received' = <<>>
  /\ overlapped' = (overlapped \/ TransferOpen)
  /\ UNCHANGED <<nodeVars, toBase, faults, extras, spoiled, unheard>>

\* Packets that have nothing to do with a transfer, or that make no sense.
BaseInterferes ==
  /\ extras < MaxExtra /\ Room
  /\ extras' = extras + 1
  /\ \E p \in {Handshake, Invalid} \cup
             {Request(kind, wanted) : kind \in {"SHORT", "NUM_LOG", "UNKNOWN"}} : Send(p)
  /\ UNCHANGED <<nodeVars, toBase, baseVars, requests, faults, spoiled, overlapped, unheard>>

\* The base answers a damaged packet with NACK or RESEND, a size or a payload
\* with ACK, and nothing else.
BaseReceives ==
  /\ toBase # <<>>
  /\ toBase' = Tail(toBase)
  /\ LET p == Head(toBase)
     IN  \/ /\ p.type = "CORRUPT"
            /\ \E answer \in {Negative, Resend} : Send(answer)
            /\ UNCHANGED baseVars
         \/ /\ p.type = "RESPONCE" /\ p.body = "size" /\ base \in {"size", "data"}
            /\ IF p.number = 0 THEN base' = "idle" /\ UNCHANGED toNode
                               ELSE base' = "data" /\ Send(Positive)
            /\ UNCHANGED <<wanted, received>>
         \/ /\ p.type = "RESPONCE" /\ p.body = "payload" /\ base = "data"
            /\ received' = Append(received, p.number)
            /\ Send(Positive)
            /\ UNCHANGED <<base, wanted>>
         \/ /\ p.type = "RESPONCE" /\ p.body = "end" /\ base = "data"
            /\ base' = "done"
            /\ UNCHANGED <<wanted, received, toNode>>
         \/ /\ \/ p.type = "ACK"
               \/ p.type = "RESPONCE" /\ base \in {"idle", "done"}
               \/ p.type = "RESPONCE" /\ base = "size" /\ p.body # "size"
            /\ UNCHANGED <<baseVars, toNode>>
  /\ UNCHANGED <<nodeVars, countVars, spoiled, overlapped, unheard>>

\* The radio spoils the packet that would arrive next.
RadioFaults ==
  /\ faults < MaxFaults
  /\ faults' = faults + 1
  /\ spoiled' = TRUE
  /\ \/ /\ toNode # <<>>
        /\ \/ toNode' = Tail(toNode)
           \/ \E p \in {Corrupt, Truncated} : toNode' = [toNode EXCEPT ![1] = p]
        /\ UNCHANGED toBase
     \/ /\ toBase # <<>>
        /\ toBase' = Tail(toBase) \/ toBase' = [toBase EXCEPT ![1] = Corrupt]
        /\ UNCHANGED toNode
  /\ UNCHANGED <<nodeVars, baseVars, requests, extras, overlapped, unheard>>

Next ==
  \/ NodeReads \/ NodeRetries \/ NodeDrops
  \/ BaseRequests \/ BaseInterferes \/ BaseReceives
  \/ RadioFaults

Spec == Init /\ [][Next]_vars

\* The event loop runs for ever, so that it reads what has arrived and finds
\* every time-out; the base reads what it hears.  Nothing makes it ask.
FairSpec ==
  /\ Spec
  /\ WF_vars(NodeReads) /\ WF_vars(NodeRetries) /\ WF_vars(NodeDrops)
  /\ WF_vars(BaseReceives)

-----------------------------------------------------------------------------
TypeOK ==
  /\ ongoing_request \in {"REQUEST_FILE", "NONE"}
  /\ timeout_inc \in 1 .. 6
  /\ bytes_left \in Nat
  /\ file.pos \in 0 .. file.size
  /\ {streaming, bytes_sent, reading, spoiled, overlapped} \subseteq BOOLEAN
  /\ base \in {"idle", "size", "data", "done"}
  /\ received \in Seq(Nat)
  /\ Len(toNode) + Len(toBase) <= MaxAir + MaxRequests + MaxExtra

\* When nothing was lost, damaged, timed out or asked for too early, a finished
\* transfer has delivered every payload of the log exactly once and in order,
\* whatever other packets came in between (send_file.c:43-109).
CleanTransferComplete ==
  ~spoiled /\ ~overlapped /\ base = "done"
    => received = [k \in 1 .. Payloads[wanted] |-> k]

\* Whatever is lost, damaged, truncated or sent again, the base never takes a
\* payload of the log twice, and never an earlier one after a later one, unless
\* requests overlap; what is read behind the end of the file, all zeros, may
\* come more than once (send_file.c:84-120, protocol.c:134-158).
DeliveredInOrder ==
  ~overlapped =>
    \A i, j \in 1 .. Len(received) :
      i < j /\ received[j] # 0 => received[i] # 0 /\ received[i] < received[j]

\* What the base receives is the log, a clean transfer all of it
\* (send_file.c:43-120).
DeliveredRight == TypeOK /\ CleanTransferComplete /\ DeliveredInOrder

\* A request is dropped only when five repetitions have gone out since the base
\* was last heard, also after earlier transfers that were dropped, finished or
\* replaced half-way (protocol.c:70-101, 111-118).
DroppedAfterFive ==
  [][ongoing_request # "NONE" /\ ongoing_request' = "NONE" /\ toNode' = toNode
       => unheard = 5 \/ toBase' # toBase]_vars

\* When the base falls silent the node is rid of the request in the end, unless
\* its reader is stuck inside a truncated packet (protocol.c:65-82).
SilenceEndsRequest == <>[](ongoing_request = "NONE" \/ reading)

\* protocol.c:73 says "5 retries have now been executed": a retry sends again
\* the payload sent last, which is the one before the read position.
RetryRepeats ==
  [][NodeRetries /\ bytes_sent /\ bytes_left > 0
       => toBase' = Append(toBase, Payload(file.pos))]_vars

\* protocol.c:73-74 says "5 retries have now been executed without a responce.
\* So we drop the ongoing request": a request does not stay when nobody answers.
RequestNeverStuck == <>[](ongoing_request = "NONE")

=============================================================================
