------------------------------- MODULE MCPeers -------------------------------
(* Peers for TLC. *)
EXTENDS Peers

Set(i, h, c) == [idle |-> i, heartbeat |-> h, cap |-> c]

\* Heartbeats just longer than a round trip, and idle timeouts just longer than
\* the two: at one end, with queues of one; and at both, with free queues.
MCSessions ==
    { [a |-> Set(8, 4, 1), b |-> Set(0, 0, 1)], [a |-> Set(10, 5, 0), b |-> Set(10, 5, 0)] }
=============================================================================
