----------------------------- MODULE FrameStream -----------------------------
(***************************************************************************)
(* What the outbound half of an sl::socket promises its callers, with no   *)
(* threads, locks or completion handlers: a bounded FIFO queue of frames,  *)
(* of which only the first one is being put on the TLS stream.             *)
(*                                                                         *)
(*   socket.hpp:43  "cap on outbound messages buffered per connection      *)
(*                  (including the in-flight one)"                         *)
(*   socket.hpp:65  "write head + body as one atomic operation (no         *)
(*                  interleaving with other writes)"                       *)
(*                                                                         *)
(* WriteQueue, the code's multi-threaded implementation, is shown to       *)
(* implement this specification.                                           *)
(***************************************************************************)
EXTENDS Naturals, Sequences

CONSTANTS
    Writes,             \* the async_write calls made on the socket
    MaxPendingWrites,   \* max_pending_writes_; 0 = unlimited
    Chunks              \* pieces in which the stream takes one frame

VARIABLES
    pending,    \* accepted frames not yet finished, oldest first
    progress,   \* pieces of the oldest frame already on the stream
    wire,       \* what the stream has taken: <<write, piece number>>
    outcome,    \* what each caller has been, or will be, told
    closed      \* the socket was closed or the connection broke

vars == <<pending, progress, wire, outcome, closed>>

Outcomes == {"new", "queued", "rejected", "ok", "failed"}

Full == MaxPendingWrites # 0 /\ Len(pending) >= MaxPendingWrites

Init ==
    /\ pending = <<>>
    /\ progress = 0
    /\ wire = <<>>
    /\ outcome = [w \in Writes |-> "new"]
    /\ closed = FALSE

Accept(w) ==
    /\ outcome[w] = "new"
    /\ ~Full
    /\ pending' = Append(pending, w)
    /\ outcome' = [outcome EXCEPT ![w] = "queued"]
    /\ UNCHANGED <<progress, wire, closed>>

Refuse(w) ==
    /\ outcome[w] = "new"
    /\ Full
    /\ outcome' = [outcome EXCEPT ![w] = "rejected"]
    /\ UNCHANGED <<pending, progress, wire, closed>>

SendChunk ==
    /\ pending # <<>>
    /\ ~closed
    /\ progress < Chunks
    /\ progress' = progress + 1
    /\ wire' = Append(wire, <<Head(pending), progress + 1>>)
    /\ UNCHANGED <<pending, outcome, closed>>

Finish ==
    /\ pending # <<>>
    /\ progress = Chunks \/ closed
    /\ pending' = Tail(pending)
    /\ progress' = 0
    /\ outcome' = [outcome EXCEPT ![Head(pending)] =
                     IF progress = Chunks THEN "ok" ELSE "failed"]
    /\ UNCHANGED <<wire, closed>>

Close ==
    /\ closed' = TRUE
    /\ UNCHANGED <<pending, progress, wire, outcome>>

Next ==
    \/ \E w \in Writes : Accept(w) \/ Refuse(w)
    \/ SendChunk
    \/ Finish
    \/ Close

Spec == Init /\ [][Next]_vars
=============================================================================
