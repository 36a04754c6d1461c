----------------------------- MODULE SocketTimers -----------------------------
(***************************************************************************)
(* The deadlines of one boost_tcp_socket (src/network/socket.cpp:64-169)   *)
(* and the asynchronous operations that restart them: async_connect,       *)
(* async_handshake and async_read (201-302).  connect and handshake, which *)
(* block and touch no timer, are there for sessions that start with them.  *)
(*                                                                         *)
(* Time passes in ticks.  A timer that reaches its expiry queues its       *)
(* handler, and from then on expires_after and cancel do not reach that    *)
(* handler any more: it runs later, with no error, on some thread.  Such a *)
(* handler is "fresh" until its timer is restarted or cancelled and        *)
(* "stale" from then on; the code cannot tell one from the other.          *)
(* Handlers of one socket run in any order (no strand), so the heartbeat   *)
(* handler, which reads heartbeat_sent_ and sets it later, is two steps.   *)
(*                                                                         *)
(* The socket outlives its handlers here, as the read loop's shared_ptr    *)
(* makes it do for the operations (not for the timers).                    *)
(***************************************************************************)
EXTENDS Naturals

CONSTANTS
    Roles,          \* what the socket may be made for: "client", "server", or "sync",
                    \* a client that connects and shakes hands synchronously
    IdleTimeout, HeartbeatTimeout, HandshakeTimeout,   \* in ticks; 0 = off
    MaxQueued       \* bound: handlers of one timer that wait or run

ASSUME TimersAssumption ==
    /\ Roles \subseteq {"client", "server", "sync"}
    /\ IdleTimeout \in Nat
    /\ HeartbeatTimeout \in Nat
    /\ HandshakeTimeout \in Nat
    /\ MaxQueued \in Nat \ {0}

Timers == {"idle", "heartbeat", "handshake"}

Timeout(k) ==
    CASE k = "idle" -> IdleTimeout
      [] k = "heartbeat" -> HeartbeatTimeout
      [] k = "handshake" -> HandshakeTimeout

VARIABLES
    phase,      \* the operation the socket is in
    op,         \* that operation: under way, or succeeded with its handler queued
    open,       \* the lowest layer is open
    left,       \* ticks to the expiry of each timer; 0 = not waiting
    fresh,      \* an expiry handler is queued and its timer untouched since
    stale,      \* queued expiry handlers of waits since restarted or cancelled
    sent,       \* heartbeat_sent_
    pinging,    \* threads in the heartbeat handler, past the test of sent
    cause,      \* history: what closed the socket
    quiet       \* history: ticks since an operation last succeeded, up to the close

timerVars == <<left, fresh, stale>>
vars == <<phase, op, open, timerVars, sent, pinging, cause, quiet>>

\* "connected" and "started" are a synchronous client's: before handshake(), and
\* with the session's first read outstanding.
Phases == {"new", "resolving", "connecting", "handshaking", "established", "over",
           "connected", "started"}

Causes == {"none", "user", "idle", "heartbeat", "handshake", "stale"}

\* Ticks that quiet counts; more make no difference to a property.
QuietCap == IdleTimeout + HeartbeatTimeout

TypeOK ==
    /\ phase \in Phases
    /\ op \in {"none", "running", "done"}
    /\ open \in BOOLEAN
    /\ left \in [Timers -> Nat]
    /\ \A k \in Timers : left[k] <= Timeout(k)
    /\ fresh \in [Timers -> BOOLEAN]
    /\ stale \in [Timers -> Nat]
    /\ sent \in BOOLEAN
    /\ pinging \in Nat
    /\ cause \in Causes
    /\ quiet \in Nat

Init ==
    /\ phase = "new"
    /\ op = "none"
    /\ open = FALSE
    /\ left = [k \in Timers |-> 0]
    /\ fresh = [k \in Timers |-> FALSE]
    /\ stale = [k \in Timers |-> 0]
    /\ sent = FALSE
    /\ pinging = 0
    /\ cause = "none"
    /\ quiet = 0

-----------------------------------------------------------------------------
(* The timers.                                                             *)

\* Mutant: expires_after without async_wait.
DeadlinesWithoutWait(A, C) ==
    /\ left' = [k \in Timers |-> IF k \in A \cup C THEN 0 ELSE left[k]]
    /\ fresh' = [k \in Timers |-> fresh[k] /\ k \notin A \cup C]
    /\ stale' = [k \in Timers |-> IF fresh[k] /\ k \in A \cup C
                                  THEN stale[k] + 1 ELSE stale[k]]

\* expires_after and async_wait on the timers of A (nothing for one whose
\* timeout is zero), cancel on those of C.
Deadlines(A, C) ==
    /\ left' = [k \in Timers |-> IF k \in A THEN Timeout(k)
                                 ELSE IF k \in C THEN 0 ELSE left[k]]
    /\ fresh' = [k \in Timers |-> fresh[k] /\ k \notin A \cup C]
    /\ stale' = [k \in Timers |-> IF fresh[k] /\ k \in A \cup C
                                  THEN stale[k] + 1 ELSE stale[k]]

\* A tick passes; the wait of a timer that reaches zero queues its handler.
Tick ==
    /\ phase # "new"
    /\ \A k \in Timers : left[k] = 1 => stale[k] + pinging < MaxQueued
    /\ left' = [k \in Timers |-> IF left[k] > 0 THEN left[k] - 1 ELSE 0]
    /\ fresh' = [k \in Timers |-> fresh[k] \/ left[k] = 1]
    /\ quiet' = IF cause = "none" /\ quiet < QuietCap THEN quiet + 1 ELSE quiet
    /\ UNCHANGED <<phase, op, open, stale, sent, pinging, cause>>

\* A queued handler of timer k leaves the queue; c is what to blame for a close.
Dequeue(k, c) ==
    \/ /\ fresh[k]
       /\ c = k
       /\ fresh' = [fresh EXCEPT ![k] = FALSE]
       /\ UNCHANGED <<left, stale>>
    \/ /\ stale[k] > 0
       /\ c = "stale"
       /\ stale' = [stale EXCEPT ![k] = @ - 1]
       /\ UNCHANGED <<left, fresh>>

\* stream_->lowest_layer().close(): no effect on a socket that is not open.
CloseFor(c) ==
    /\ open' = FALSE
    /\ cause' = IF open THEN c ELSE cause

\* The handlers of reset_idle_timer and reset_handshake_timer.
DeadlineFires(k) ==
    /\ k # "heartbeat"
    /\ \E c \in Causes : Dequeue(k, c) /\ CloseFor(c)
    /\ UNCHANGED <<phase, op, sent, pinging, quiet>>

\* Mutant: pings again and again.
HeartbeatNeverCloses ==
    /\ \E c \in Causes : Dequeue("heartbeat", c)
    /\ pinging' = pinging + 1
    /\ UNCHANGED <<phase, op, open, sent, cause, quiet>>

\* The handler of arm_heartbeat up to the ping (queued by async_send).
HeartbeatFires ==
    /\ \E c \in Causes :
          /\ Dequeue("heartbeat", c)
          /\ IF sent
             THEN CloseFor(IF c = "stale" THEN c ELSE "heartbeat") /\ UNCHANGED pinging
             ELSE pinging' = pinging + 1 /\ UNCHANGED <<open, cause>>
    /\ UNCHANGED <<phase, op, sent, quiet>>

\* The rest of it: heartbeat_sent_ = true and arm_heartbeat().
Pinged ==
    /\ pinging > 0
    /\ pinging' = pinging - 1
    /\ sent' = TRUE
    /\ Deadlines({"heartbeat"}, {})
    /\ UNCHANGED <<phase, op, open, cause, quiet>>

-----------------------------------------------------------------------------
(* The operations.                                                         *)

\* An operation succeeds: the peer has been heard.
Progress == quiet' = IF cause = "none" THEN 0 ELSE quiet

\* async_connect: both inactivity timers start, then the name is resolved.
async_connect ==
    /\ "client" \in Roles
    /\ phase = "new"
    /\ phase' = "resolving"
    /\ op' = "running"
    /\ sent' = FALSE
    /\ Deadlines({"idle", "heartbeat"}, {})
    /\ UNCHANGED <<open, pinging, cause, quiet>>

\* The socket came from the acceptor: async_handshake(server).
accept ==
    /\ "server" \in Roles
    /\ phase = "new"
    /\ phase' = "handshaking"
    /\ op' = "running"
    /\ open' = TRUE
    /\ Deadlines({"handshake"}, {})
    /\ UNCHANGED <<sent, pinging, cause, quiet>>

\* connect(), with either signature: it succeeds, fails, or fails to resolve the
\* host, which throws.
connect ==
    /\ "sync" \in Roles
    /\ phase = "new"
    /\ \/ phase' = "connected" /\ open' = TRUE
       \/ phase' = "over" /\ open' \in BOOLEAN
    /\ UNCHANGED <<op, timerVars, sent, pinging, cause, quiet>>

\* handshake(), and on success the session's start().
handshake ==
    /\ phase = "connected"
    /\ \/ open /\ phase' = "started" /\ op' = "running" /\ Progress
       \/ phase' = "over" /\ UNCHANGED <<op, quiet>>
    /\ UNCHANGED <<open, timerVars, sent, pinging, cause>>

\* The operation under way succeeds and its handler is queued.
Succeeds ==
    /\ op = "running"
    /\ phase = "resolving" \/ open
    /\ op' = "done"
    /\ Progress
    /\ UNCHANGED <<phase, open, timerVars, sent, pinging, cause>>

\* The operation fails, or is aborted by a close, and its handler runs.
ErrorHandler ==
    /\ op = "running"
    /\ op' = "none"
    /\ phase' = "over"
    /\ IF phase = "handshaking" THEN Deadlines({}, {"handshake"}) ELSE UNCHANGED timerVars
    /\ UNCHANGED <<open, sent, pinging, cause, quiet>>

\* The resolver's handler: boost::asio::async_connect opens the socket.
ResolveHandler ==
    /\ phase = "resolving"
    /\ op = "done"
    /\ phase' = "connecting"
    /\ op' = "running"
    /\ open' = TRUE
    /\ UNCHANGED <<timerVars, sent, pinging, cause, quiet>>

\* Mutant: the handshake deadline is left out.
ConnectHandlerUnbounded ==
    /\ phase = "connecting"
    /\ op = "done"
    /\ phase' = "handshaking"
    /\ op' = "running"
    /\ UNCHANGED <<open, timerVars, sent, pinging, cause, quiet>>

\* The connect handler, told true, calls async_handshake(client).
ConnectHandler ==
    /\ phase = "connecting"
    /\ op = "done"
    /\ phase' = "handshaking"
    /\ op' = "running"
    /\ Deadlines({"handshake"}, {})
    /\ UNCHANGED <<open, sent, pinging, cause, quiet>>

\* Mutant: the idle timer is left to the first read.
HandshakeHandlerHeartbeatOnly ==
    /\ phase = "handshaking"
    /\ op = "done"
    /\ phase' = "established"
    /\ op' = "running"
    /\ sent' = FALSE
    /\ Deadlines({"heartbeat"}, {"handshake"})
    /\ UNCHANGED <<open, pinging, cause, quiet>>

\* The handshake handler without an error; the session's first read follows.
HandshakeHandler ==
    /\ phase = "handshaking"
    /\ op = "done"
    /\ phase' = "established"
    /\ op' = "running"
    /\ sent' = FALSE
    /\ Deadlines({"idle", "heartbeat"}, {"handshake"})
    /\ UNCHANGED <<open, pinging, cause, quiet>>

\* Mutant: a read restarts the heartbeat only.
ReadHandlerHeartbeatOnly ==
    /\ phase \in {"started", "established"}
    /\ op = "done"
    /\ phase' = "established"
    /\ op' = "running"
    /\ sent' = FALSE
    /\ Deadlines({"heartbeat"}, {})
    /\ UNCHANGED <<open, pinging, cause, quiet>>

\* The read handler without an error; the session's next read follows.
ReadHandler ==
    /\ phase \in {"started", "established"}
    /\ op = "done"
    /\ phase' = "established"
    /\ op' = "running"
    /\ sent' = FALSE
    /\ Deadlines({"idle", "heartbeat"}, {})
    /\ UNCHANGED <<open, pinging, cause, quiet>>

\* close() by the user.
close ==
    /\ open
    /\ CloseFor("user")
    /\ UNCHANGED <<phase, op, timerVars, sent, pinging, quiet>>

-----------------------------------------------------------------------------

Next ==
    \/ Tick
    \/ \E k \in Timers : DeadlineFires(k)
    \/ HeartbeatFires \/ Pinged
    \/ async_connect \/ accept \/ connect \/ handshake
    \/ Succeeds \/ ErrorHandler
    \/ ResolveHandler \/ ConnectHandler \/ HandshakeHandler \/ ReadHandler
    \/ close

Spec == Init /\ [][Next]_vars

\* Time passes, queued handlers run, and an operation on a closed socket is
\* aborted.  Whether an operation ever succeeds is up to the peer.
Fairness ==
    /\ WF_vars(Tick)
    /\ \A k \in Timers : WF_vars(DeadlineFires(k))
    /\ WF_vars(HeartbeatFires)
    /\ WF_vars(Pinged)
    /\ WF_vars(ResolveHandler \/ ConnectHandler \/ HandshakeHandler \/ ReadHandler)
    /\ WF_vars(~open /\ phase # "resolving" /\ ErrorHandler)

FairSpec == Spec /\ Fairness

-----------------------------------------------------------------------------
(* Properties.                                                             *)

\* Timer k is waiting, or its handler is on the way.
Watching(k) == left[k] > 0 \/ fresh[k]

\* An open connection is never unwatched, in whatever order reads, expiries and
\* the two halves of the heartbeat handler come: while it is established by the
\* idle and the heartbeat timers, during the handshake by its own.  After a
\* synchronous handshake() that begins with the first read (socket.cpp:295).
Watched ==
    /\ phase = "established" /\ open /\ IdleTimeout # 0 => Watching("idle")
    /\ phase = "established" /\ open /\ HeartbeatTimeout # 0 =>
          Watching("heartbeat") \/ pinging > 0
    /\ phase = "handshaking" /\ open /\ HandshakeTimeout # 0 => Watching("handshake")

\* A deadline that has not been restarted since it expired drops an established
\* connection only if no read has completed for the whole timeout
\* (socket.hpp:146-151): for the heartbeat one interval is certain, not two.  A read
\* that has completed and whose handler still waits in the queue (op = "done") does
\* not count: only that handler restarts the timers, and an expiry may overtake it.
DroppedForSilence ==
    [][phase = "established" /\ op = "running" /\ cause' # cause =>
          /\ cause' = "idle" => quiet >= IdleTimeout
          /\ cause' = "heartbeat" => quiet >= HeartbeatTimeout]_vars

\* What makes DroppedForSilence inductive: an open socket has no cause yet, and
\* what is left of a countdown and the silence so far make up the timeout.
SilenceInv ==
    /\ open => cause = "none"
    /\ phase \in {"new", "resolving"} => ~open /\ cause = "none"
    /\ phase = "established" /\ op = "running" /\ cause = "none" =>
          \A k \in {"idle", "heartbeat"} :
              /\ left[k] > 0 => quiet + left[k] >= Timeout(k)
              /\ fresh[k] => quiet >= Timeout(k)

\* With an idle or a heartbeat timeout, an established connection whose peer
\* stays silent is closed (README.md:243, 251).
SilentPeerDropped ==
    IdleTimeout + HeartbeatTimeout > 0 =>
        (phase = "established" /\ open) ~> (~open \/ op = "done")

\* With a handshake timeout no handshake lasts for ever (socket.hpp:154).
HandshakeBounded ==
    HandshakeTimeout > 0 => phase = "handshaking" ~> phase # "handshaking"

\* A connection that is over leaves no timer behind that goes on for ever, not
\* even the heartbeat, whose handler arms the timer again.
TimersDieOut ==
    phase = "over" ~>
        (pinging = 0 /\ \A k \in Timers : ~Watching(k) /\ stale[k] = 0)

\* socket.cpp:76 "expires_after cancels the previous wait (its handler fires with
\* operation_aborted), so each call just restarts the inactivity countdown": an
\* established connection is not closed by a wait that was restarted.
RestartCancels == phase = "established" => cause # "stale"

\* README.md:243 "Waits X amount of time without any activity from the peer and
\* disconnects the socket if the time expires": an outbound connection that
\* makes no progress is closed.
IdleDisconnects ==
    IdleTimeout > 0 => phase = "connecting" ~> (~open \/ phase = "established" \/ phase = "over")
=============================================================================
