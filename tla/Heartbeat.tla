------------------------------ MODULE Heartbeat ------------------------------
(***************************************************************************)
(* The heartbeat examples: examples/heartbeat_sen broadcasts a heartbeat   *)
(* every Period, examples/heartbeat_rec declares a node unreachable that   *)
(* has been silent for longer than Timeout.                                *)
(*                                                                         *)
(* Each program loops around "if (tick > timer) ... timer += interval";    *)
(* time passes between the passes of the loops, at most Slack at a time.   *)
(***************************************************************************)
EXTENDS Naturals, Sequences

CONSTANTS
  Period, Check, Timeout,   \* 30, 10 and 100 ms, in one unit
  Slack,                    \* longest time between two passes of a loop
  MaxTime,                  \* bound on time
  MaxLost                   \* heartbeats the bus may lose in a row

HeartbeatAssumption ==
  /\ Period \in Nat \ {0} /\ Check \in Nat \ {0} /\ Timeout \in Nat
  /\ Slack \in Nat \ {0} /\ MaxTime \in Nat /\ MaxLost \in Nat

\* The loops come round within each interval, and the time-out is longer than the
\* heartbeats that may be lost take.
Margins ==
  /\ Slack <= Period /\ Slack <= Check
  /\ (MaxLost + 1) * Period + 2 * Slack <= Timeout

VARIABLES
  now,
  timer_sen,        \* the sender's timer
  sen_at, rec_at,   \* when each loop came round last
  alive,            \* whether the sender runs
  rb,               \* heartbeats in the receiver's ring
  timer_rec,        \* the receiver's timer
  pc,               \* "top", "read": the receiver's loop
  node_state, last_heartbeat,
  lost,             \* heartbeats lost in a row
  silent,           \* since when no heartbeat has come in
  declared          \* whether the node was ever declared unreachable
vars == <<now, timer_sen, sen_at, rec_at, alive, rb, timer_rec, pc,
          node_state, last_heartbeat, lost, silent, declared>>

Init ==
  /\ now = 0 /\ timer_sen = 0 /\ sen_at = 0 /\ rec_at = 0 /\ alive = TRUE
  /\ rb = 0 /\ timer_rec = 0 /\ pc = "top"
  /\ node_state = FALSE /\ last_heartbeat = 0
  /\ lost = 0 /\ silent = 0 /\ declared = FALSE

\* The sender's loop; the bus may lose what it broadcasts.
SenderPass ==
  /\ alive /\ sen_at < now
  /\ sen_at' = now
  /\ IF now > timer_sen
     THEN /\ timer_sen' = timer_sen + Period
          /\ \/ rb' = rb + 1 /\ lost' = 0 /\ silent' = now
             \/ lost < MaxLost /\ lost' = lost + 1 /\ UNCHANGED <<rb, silent>>
     ELSE UNCHANGED <<timer_sen, rb, lost, silent>>
  /\ UNCHANGED <<now, rec_at, alive, timer_rec, pc, node_state, last_heartbeat, declared>>

SenderStops ==
  /\ alive /\ alive' = FALSE
  /\ UNCHANGED <<now, timer_sen, sen_at, rec_at, rb, timer_rec, pc,
                 node_state, last_heartbeat, lost, silent, declared>>

\* decl_dead; slip: a node is given less time than it has.
DeadEarly(t) == node_state /\ t - last_heartbeat > Timeout - Period
Dead(t) == node_state /\ t - last_heartbeat > Timeout

ReceiverPass ==
  /\ pc = "top" /\ rec_at < now
  /\ rec_at' = now
  /\ IF now > timer_rec
     THEN /\ timer_rec' = timer_rec + Check
          /\ node_state' = (node_state /\ ~Dead(now))
          /\ declared' = (declared \/ Dead(now))
     ELSE UNCHANGED <<timer_rec, node_state, declared>>
  /\ pc' = "read"
  /\ UNCHANGED <<now, timer_sen, sen_at, alive, rb, last_heartbeat, lost, silent>>

\* receive_heartbeat, for all frames in the ring; handle_heartbeat.
Receive ==
  /\ pc = "read" /\ pc' = "top"
  /\ rb' = 0
  /\ IF rb > 0 THEN last_heartbeat' = now /\ node_state' = TRUE
     ELSE UNCHANGED <<last_heartbeat, node_state>>
  /\ UNCHANGED <<now, timer_sen, sen_at, rec_at, alive, timer_rec, lost, silent, declared>>

\* Time passes when neither loop would be late.
Pass ==
  /\ now < MaxTime /\ now' = now + 1
  /\ alive => now - sen_at < Slack
  /\ pc = "top" /\ now - rec_at < Slack
  /\ UNCHANGED <<timer_sen, sen_at, rec_at, alive, rb, timer_rec, pc,
                 node_state, last_heartbeat, lost, silent, declared>>

Next == SenderPass \/ SenderStops \/ ReceiverPass \/ Receive \/ Pass
Spec == Init /\ [][Next]_vars

-----------------------------------------------------------------------------
TypeOK ==
  /\ now \in 0 .. MaxTime /\ timer_sen \in 0 .. (MaxTime + Period) /\ timer_rec \in 0 .. (MaxTime + Check)
  /\ sen_at \in 0 .. now /\ rec_at \in 0 .. now
  /\ rb \in Nat /\ pc \in {"top", "read"} /\ lost \in 0 .. MaxLost
  /\ last_heartbeat \in 0 .. now /\ silent \in 0 .. now
  /\ alive \in BOOLEAN /\ node_state \in BOOLEAN /\ declared \in BOOLEAN

\* While the sender runs, and the bus loses no more than MaxLost heartbeats in a
\* row, the node is never declared unreachable, however late both loops are.
AliveIsReachable == alive => ~declared

\* A node that has been silent for the time-out, one check and twice the slack of
\* the receiver (a frame read late, and a check that is late) is not shown as
\* reachable.
SilenceSeen == node_state => now - silent < Timeout + Check + 2 * Slack
=============================================================================
