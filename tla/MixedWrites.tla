----------------------------- MODULE MixedWrites -----------------------------
(***************************************************************************)
(* WriteQueue and, on the same socket, synchronous sends: msg::send_buffer *)
(* (src/message/message.cpp:37-50) writes header and body with two calls   *)
(* of boost_tcp_socket::write, which goes to the stream without taking     *)
(* write_mutex_ or looking at write_queue_.                                *)
(*                                                                         *)
(* A synchronous send has a header piece and a body piece (Chunks = 2).    *)
(***************************************************************************)
EXTENDS WriteQueue

VARIABLE
    sync        \* the synchronous sends under way

mixedVars == <<vars, sync>>

MixedInit == Init /\ sync = {}

\* send_buffer: socket.write(header) succeeds.
SendHeader(w) ==
    /\ status[w] = "new"
    /\ w \notin sync
    /\ ~closed
    /\ wire' = Append(wire, <<w, 1>>)
    /\ sync' = sync \cup {w}
    /\ UNCHANGED <<queue, at, cur, more, inflight, status, fired, closed>>

\* socket.write(body) succeeds and so does the send.
SendBody(w) ==
    /\ w \in sync
    /\ ~closed
    /\ wire' = Append(wire, <<w, 2>>)
    /\ status' = [status EXCEPT ![w] = "ok"]
    /\ sync' = sync \ {w}
    /\ UNCHANGED <<queue, at, cur, more, inflight, fired, closed>>

\* Either write fails.
SendFails(w) ==
    /\ status[w] = "new"
    /\ closed
    /\ status' = [status EXCEPT ![w] = "failed"]
    /\ sync' = sync \ {w}
    /\ UNCHANGED <<queue, at, cur, more, inflight, wire, fired, closed>>

\* The queue of WriteQueue, for the frames that are not being sent
\* synchronously.
QueueStep ==
    /\ Next
    /\ \A w \in sync : status'[w] = status[w]
    /\ UNCHANGED sync

MixedNext ==
    \/ QueueStep
    \/ \E w \in Writes : SendHeader(w) \/ SendBody(w) \/ SendFails(w)

MixedSpec == MixedInit /\ [][MixedNext]_mixedVars

\* socket.hpp:65 "scatter-gather: write head + body as one atomic operation (no
\* interleaving with other writes)": nothing comes between the pieces of a frame
\* given to async_write, whatever else is written.
NoInterleaving ==
    \A i \in DOMAIN wire :
        wire[i][2] > 1 /\ (\E j \in DOMAIN queue : queue[j] = wire[i][1])
            => wire[i - 1] = <<wire[i][1], wire[i][2] - 1>>
=============================================================================
