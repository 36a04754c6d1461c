------------------------------ MODULE WriteQueue ------------------------------
(***************************************************************************)
(* The outbound queue of boost_tcp_socket: async_write and write_next      *)
(* (src/network/socket.cpp:313-394), called by any number of threads.      *)
(*                                                                         *)
(* The code holds write_mutex_ only while it looks at or changes           *)
(* write_queue_, and nothing else serialises it (the socket runs without a *)
(* strand), so every critical section, every user callback and every       *)
(* stream operation is a step of its own here.  A completion handler that  *)
(* calls async_write from inside its callback behaves like another thread  *)
(* making that call while the completing thread stays in RunHandler: the   *)
(* mutex is not held and the flag `more' was computed before.              *)
(*                                                                         *)
(* The socket is assumed to outlive its operations.                        *)
(***************************************************************************)
EXTENDS Naturals, Sequences

CONSTANTS
    Writes,             \* the async_write calls made on the socket
    Threads,            \* threads that call async_write or run completions
    NoWrite,            \* not a write
    MaxPendingWrites,   \* max_pending_writes_; 0 = unlimited
    Chunks              \* write_some calls one async_write operation takes

ASSUME WriteQueueAssumption ==
    /\ NoWrite \notin Writes
    /\ MaxPendingWrites \in Nat
    /\ Chunks \in Nat \ {0}

VARIABLES
    queue,      \* write_queue_
    at,         \* where each thread is in async_write / write_next
    cur,        \* the write that thread is about to start or report
    more,       \* the local `more' of the completion handler
    inflight,   \* boost::asio::async_write operations on the stream
    wire,       \* pieces the stream has taken: <<write, piece number>>
    status,     \* the result each call's handler gets
    fired,      \* how often each call's handler has run
    closed      \* the stream was closed or broke

vars == <<queue, at, cur, more, inflight, wire, status, fired, closed>>

Positions == {"free", "rejecting", "write_next", "starting", "reporting"}

Statuses == {"new", "queued", "rejected", "ok", "failed"}

Operation == [w : Writes, sent : 0..Chunks]

TypeOK ==
    /\ queue \in Seq(Writes)
    /\ at \in [Threads -> Positions]
    /\ cur \in [Threads -> Writes \cup {NoWrite}]
    /\ \A t \in Threads : cur[t] = NoWrite <=> at[t] \in {"free", "write_next"}
    /\ more \in [Threads -> BOOLEAN]
    /\ inflight \in Seq(Operation)
    /\ wire \in Seq(Writes \X (1..Chunks))
    /\ status \in [Writes -> Statuses]
    /\ fired \in [Writes -> Nat]
    /\ closed \in BOOLEAN

Init ==
    /\ queue = <<>>
    /\ at = [t \in Threads |-> "free"]
    /\ cur = [t \in Threads |-> NoWrite]
    /\ more = [t \in Threads |-> FALSE]
    /\ inflight = <<>>
    /\ wire = <<>>
    /\ status = [w \in Writes |-> "new"]
    /\ fired = [w \in Writes |-> 0]
    /\ closed = FALSE

-----------------------------------------------------------------------------
(* async_write(head, body, handler).                                       *)

\* Mutant: the cap does not count the entry being added.
QueueFullOffByOne == MaxPendingWrites # 0 /\ Len(queue) > MaxPendingWrites

QueueFull == MaxPendingWrites # 0 /\ Len(queue) >= MaxPendingWrites

\* Mutant: every caller starts its own write.
EnqueueAndWrite(t, w) ==
    /\ at[t] = "free"
    /\ status[w] = "new"
    /\ ~QueueFull
    /\ queue' = Append(queue, w)
    /\ status' = [status EXCEPT ![w] = "queued"]
    /\ at' = [at EXCEPT ![t] = "write_next"]
    /\ UNCHANGED <<cur, more, inflight, wire, fired, closed>>

\* The critical section when there is room: the caller that finds the queue
\* empty goes on to write_next, every other caller returns.
Enqueue(t, w) ==
    /\ at[t] = "free"
    /\ status[w] = "new"
    /\ ~QueueFull
    /\ queue' = Append(queue, w)
    /\ status' = [status EXCEPT ![w] = "queued"]
    /\ at' = [at EXCEPT ![t] = IF queue = <<>> THEN "write_next" ELSE "free"]
    /\ UNCHANGED <<cur, more, inflight, wire, fired, closed>>

\* Mutant: a rejected write is queued all the same.
RejectButEnqueue(t, w) ==
    /\ at[t] = "free"
    /\ status[w] = "new"
    /\ QueueFull
    /\ queue' = Append(queue, w)
    /\ status' = [status EXCEPT ![w] = "rejected"]
    /\ at' = [at EXCEPT ![t] = "rejecting"]
    /\ cur' = [cur EXCEPT ![t] = w]
    /\ UNCHANGED <<more, inflight, wire, fired, closed>>

\* The critical section when the queue is full.
Reject(t, w) ==
    /\ at[t] = "free"
    /\ status[w] = "new"
    /\ QueueFull
    /\ status' = [status EXCEPT ![w] = "rejected"]
    /\ at' = [at EXCEPT ![t] = "rejecting"]
    /\ cur' = [cur EXCEPT ![t] = w]
    /\ UNCHANGED <<queue, more, inflight, wire, fired, closed>>

\* handler(false), outside the lock, on the caller's own thread.
RunRejectedHandler(t) ==
    /\ at[t] = "rejecting"
    /\ fired' = [fired EXCEPT ![cur[t]] = @ + 1]
    /\ at' = [at EXCEPT ![t] = "free"]
    /\ cur' = [cur EXCEPT ![t] = NoWrite]
    /\ UNCHANGED <<queue, more, inflight, wire, status, closed>>

-----------------------------------------------------------------------------
(* write_next() and the completion handler it installs.                    *)

\* The critical section that copies the spans of the front entry.
WriteNext(t) ==
    /\ at[t] = "write_next"
    /\ queue # <<>>
    /\ cur' = [cur EXCEPT ![t] = Head(queue)]
    /\ at' = [at EXCEPT ![t] = "starting"]
    /\ UNCHANGED <<queue, more, inflight, wire, status, fired, closed>>

\* boost::asio::async_write(*stream_, buffers, ...).
StartWrite(t) ==
    /\ at[t] = "starting"
    /\ inflight' = Append(inflight, [w |-> cur[t], sent |-> 0])
    /\ at' = [at EXCEPT ![t] = "free"]
    /\ cur' = [cur EXCEPT ![t] = NoWrite]
    /\ UNCHANGED <<queue, more, wire, status, fired, closed>>

\* Mutant: one piece too many.
TransferPastEnd(i) ==
    /\ i \in DOMAIN inflight
    /\ ~closed
    /\ inflight[i].sent <= Chunks
    /\ inflight' = [inflight EXCEPT ![i].sent = @ + 1]
    /\ wire' = Append(wire, <<inflight[i].w, inflight[i].sent + 1>>)
    /\ UNCHANGED <<queue, at, cur, more, status, fired, closed>>

\* The stream takes the next piece of an operation's buffers.
Transfer(i) ==
    /\ i \in DOMAIN inflight
    /\ ~closed
    /\ inflight[i].sent < Chunks
    /\ inflight' = [inflight EXCEPT ![i].sent = @ + 1]
    /\ wire' = Append(wire, <<inflight[i].w, inflight[i].sent + 1>>)
    /\ UNCHANGED <<queue, at, cur, more, status, fired, closed>>

\* Mutant: the handler is told success whatever the error code.
CompleteIgnoringError(t, i) ==
    /\ at[t] = "free"
    /\ i \in DOMAIN inflight
    /\ inflight[i].sent = Chunks \/ closed
    /\ queue # <<>>
    /\ status' = [status EXCEPT ![Head(queue)] = "ok"]
    /\ queue' = Tail(queue)
    /\ cur' = [cur EXCEPT ![t] = Head(queue)]
    /\ more' = [more EXCEPT ![t] = Tail(queue) # <<>>]
    /\ inflight' = SubSeq(inflight, 1, i - 1)
                     \o SubSeq(inflight, i + 1, Len(inflight))
    /\ at' = [at EXCEPT ![t] = "reporting"]
    /\ UNCHANGED <<wire, fired, closed>>

\* An operation ends, with success when all of it was taken and with an error
\* when the stream is closed, and its handler runs its critical section on a
\* free thread: it pops whatever entry is at the front.
Complete(t, i) ==
    /\ at[t] = "free"
    /\ i \in DOMAIN inflight
    /\ inflight[i].sent = Chunks \/ closed
    /\ queue # <<>>
    /\ status' = [status EXCEPT ![Head(queue)] =
                    IF inflight[i].sent = Chunks THEN "ok" ELSE "failed"]
    /\ queue' = Tail(queue)
    /\ cur' = [cur EXCEPT ![t] = Head(queue)]
    /\ more' = [more EXCEPT ![t] = Tail(queue) # <<>>]
    /\ inflight' = SubSeq(inflight, 1, i - 1)
                     \o SubSeq(inflight, i + 1, Len(inflight))
    /\ at' = [at EXCEPT ![t] = "reporting"]
    /\ UNCHANGED <<wire, fired, closed>>

\* Mutant: write_next() whether or not entries are left.
RunHandlerAndWrite(t) ==
    /\ at[t] = "reporting"
    /\ fired' = [fired EXCEPT ![cur[t]] = @ + 1]
    /\ at' = [at EXCEPT ![t] = "write_next"]
    /\ cur' = [cur EXCEPT ![t] = NoWrite]
    /\ more' = [more EXCEPT ![t] = FALSE]
    /\ UNCHANGED <<queue, inflight, wire, status, closed>>

\* Mutant: an error stops the drain.
RunHandlerStopOnError(t) ==
    /\ at[t] = "reporting"
    /\ fired' = [fired EXCEPT ![cur[t]] = @ + 1]
    /\ at' = [at EXCEPT ![t] = IF more[t] /\ status[cur[t]] = "ok"
                              THEN "write_next" ELSE "free"]
    /\ cur' = [cur EXCEPT ![t] = NoWrite]
    /\ more' = [more EXCEPT ![t] = FALSE]
    /\ UNCHANGED <<queue, inflight, wire, status, closed>>

\* handler(!error_code), outside the lock; then write_next() if more.
RunHandler(t) ==
    /\ at[t] = "reporting"
    /\ fired' = [fired EXCEPT ![cur[t]] = @ + 1]
    /\ at' = [at EXCEPT ![t] = IF more[t] THEN "write_next" ELSE "free"]
    /\ cur' = [cur EXCEPT ![t] = NoWrite]
    /\ more' = [more EXCEPT ![t] = FALSE]
    /\ UNCHANGED <<queue, inflight, wire, status, closed>>

\* close(), a timer's lowest_layer().close(), or the connection breaking.
Close ==
    /\ closed' = TRUE
    /\ UNCHANGED <<queue, at, cur, more, inflight, wire, status, fired>>

-----------------------------------------------------------------------------

ThreadStep(t) ==
    \/ RunRejectedHandler(t)
    \/ WriteNext(t)
    \/ StartWrite(t)
    \/ RunHandler(t)

Next ==
    \/ \E t \in Threads, w \in Writes : Enqueue(t, w) \/ Reject(t, w)
    \/ \E t \in Threads : ThreadStep(t)
    \/ \E i \in DOMAIN inflight : Transfer(i)
    \/ \E t \in Threads, i \in DOMAIN inflight : Complete(t, i)
    \/ Close

Spec == Init /\ [][Next]_vars

\* A thread inside async_write, write_next or a handler never blocks, and asio
\* delivers the completion of an operation whose outcome is known.  Nothing is
\* assumed of callers, of the peer (Transfer) or of Close.
Fairness ==
    /\ \A t \in Threads : WF_vars(ThreadStep(t))
    /\ WF_vars(\E t \in Threads, i \in DOMAIN inflight : Complete(t, i))

FairSpec == Spec /\ Fairness

-----------------------------------------------------------------------------
(* Properties.                                                             *)

\* write_next "drains write_queue_ one write at a time so async writes never
\* overlap on the SSL stream" (socket.hpp:162): at most one operation is
\* outstanding, whoever started it.
NoOverlap == Len(inflight) <= 1

\* A thread that is bound to start the front write.
Drives(t) ==
    \/ at[t] \in {"write_next", "starting"}
    \/ at[t] = "reporting" /\ more[t]

\* The job of draining the queue is in exactly one place as long as there is
\* anything to drain, either a thread on its way to start the front write or the
\* operation writing it, and nowhere when the queue is empty.  So the queue
\* never stalls, no write starts twice, and front() is never read on an empty
\* deque (socket.cpp:360 and 378).
OneDriver ==
    /\ queue # <<>> <=> (inflight # <<>> \/ \E t \in Threads : Drives(t))
    /\ \A t \in Threads : Drives(t) => inflight = <<>>
    /\ \A t, u \in Threads : Drives(t) /\ Drives(u) => t = u
    /\ inflight # <<>> => Len(inflight) = 1 /\ inflight[1].w = Head(queue)
    /\ \A t \in Threads : at[t] = "starting" => cur[t] = Head(queue)

\* socket.hpp:43: the cap counts the in-flight write too.
CapRespected == MaxPendingWrites # 0 => Len(queue) <= MaxPendingWrites

\* message.hpp:123: the caller may free head and body once the handler has
\* run, so no write is started or transferred after that, and the handler runs
\* at most once.
NoUseAfterRelease ==
    /\ \A w \in Writes : fired[w] <= 1
    /\ \A i \in DOMAIN inflight : fired[inflight[i].w] = 0
    /\ \A t \in Threads : at[t] = "starting" => fired[cur[t]] = 0

\* A handler told `true' belongs to a frame that is on the wire in full: the
\* popped entry is the one whose operation completed.
OkMeansSent ==
    \A w \in Writes : status[w] = "ok" =>
        \A k \in 1..Chunks : \E i \in DOMAIN wire : wire[i] = <<w, k>>

\* socket.hpp:65: head and body of a frame are on the wire without anything
\* between them.
FramesContiguous ==
    \A i \in DOMAIN wire : wire[i][2] > 1 =>
        /\ i > 1
        /\ wire[i - 1] = <<wire[i][1], wire[i][2] - 1>>

\* The parts of the inductive invariant beyond OneDriver.  First, queued writes
\* are distinct and unreported; a thread that holds a handler is the only one
\* that does, and has not run it.
HandlersInv ==
    /\ \A i \in DOMAIN queue : status[queue[i]] = "queued"
    /\ \A i, j \in DOMAIN queue : queue[i] = queue[j] => i = j
    /\ \A w \in Writes : status[w] \in {"new", "queued"} => fired[w] = 0
    /\ \A w \in Writes : fired[w] <= 1
    /\ \A t \in Threads : at[t] \in {"rejecting", "reporting"} =>
          /\ status[cur[t]] \notin {"new", "queued"}
          /\ fired[cur[t]] = 0
    /\ \A t, u \in Threads :
          /\ {at[t], at[u]} \subseteq {"rejecting", "reporting"}
          /\ cur[t] = cur[u]
          => t = u

\* Second, the pieces an operation has transferred are on the wire, and its
\* last one is the last thing there.
WireInv ==
    inflight # <<>> =>
        /\ inflight[1].sent > 0 =>
              /\ wire # <<>>
              /\ wire[Len(wire)] = <<inflight[1].w, inflight[1].sent>>
        /\ \A k \in 1..inflight[1].sent :
              \E i \in DOMAIN wire : wire[i] = <<inflight[1].w, k>>

Inductive ==
    /\ TypeOK
    /\ OneDriver
    /\ CapRespected
    /\ HandlersInv
    /\ WireInv
    /\ OkMeansSent
    /\ FramesContiguous

\* No lost wake-up: once the stream is closed, every write that was accepted or
\* refused has its handler run, without any help from the peer.
HandlersRunAfterClose ==
    \A w \in Writes :
        (closed /\ status[w] # "new") ~> (fired[w] = 1)

\* The refinement mapping to the abstract outbound stream.
Stream == INSTANCE FrameStream WITH
    pending  <- queue,
    progress <- IF inflight = <<>> THEN 0 ELSE inflight[1].sent,
    outcome  <- status

\* The multi-threaded queue implements the sequential one.
ImplementsFrameStream == Stream!Spec
=============================================================================
