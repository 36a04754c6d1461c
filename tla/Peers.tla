-------------------------------- MODULE Peers --------------------------------
(***************************************************************************)
(* Two ends of an established connection: the heartbeat and idle timers of *)
(* either end, the messages they exchange and the bounded write queues     *)
(* those go through.  The ends are the programs of examples/, or any two   *)
(* sessions with given settings.                                           *)
(*                                                                         *)
(* Time is counted in ticks.  The module is about peers that are alive and *)
(* a network that works: within a tick every due handler runs, a write     *)
(* goes out as long as the peer's window is open, and a peer that reads    *)
(* has a message Delay ticks after it was written.  What late handlers do  *)
(* is in SocketTimers; here a handler that is due runs even if a read has  *)
(* reset its timer, as it does there.                                      *)
(***************************************************************************)
EXTENDS Naturals, Sequences

CONSTANTS
    Second,     \* ticks in a second
    Delay,      \* ticks a message is under way at most
    Window,     \* messages the network holds for a peer that does not read
    Sessions,   \* settings of two ends other than the examples, in ticks
    MaxData,    \* bound: messages an application has queued
    MaxQuiet    \* bound: ticks of silence that are counted

Settings == [idle : Nat, heartbeat : Nat, cap : Nat]

ASSUME PeersAssumption ==
    /\ Second \in Nat \ {0} /\ Delay \in Nat /\ Window \in Nat \ {0}
    /\ MaxData \in Nat /\ MaxQuiet \in Nat
    /\ Sessions \subseteq [a : Settings, b : Settings]

\* a accepted the connection, b dialled it.
Ends == {"a", "b"}
Other(e) == IF e = "a" THEN "b" ELSE "a"

VARIABLES
    end,        \* what runs at each end: settings, and how it reads and sends
    left,       \* ticks until each timer of each end expires; 0 = not armed
    due,        \* timer handlers that are ready to run: <<end, timer>>
    pinged,     \* heartbeat_sent_
    queue,      \* write_queue_: messages
    net,        \* messages written by an end and not yet read: [m, age]
    quiet,      \* history: ticks since an end last read something
    refused,    \* history: messages a full queue refused: <<end, message>>
    ahead,      \* history: windows of messages that were in front of a ping, at most
    answered,   \* history: a response has been read
    ended       \* how the connection ended

vars == <<end, left, due, pinged, queue, net, quiet, refused, ahead, answered, ended>>

-----------------------------------------------------------------------------
(* The programs.                                                           *)

NoSettings == [idle |-> 0, heartbeat |-> 0, cap |-> 0]

\* Mutant: the heartbeat timeout is not handed on.
apply_caps_without_heartbeat(s) ==
    [k \in DOMAIN s |-> IF k # "heartbeat" THEN s[k] ELSE NoSettings[k]]

\* apply_caps: a setting of zero leaves the socket's default, which is zero.
apply_caps(s) ==
    [k \in DOMAIN s |-> IF s[k] # 0 THEN s[k] ELSE NoSettings[k]]

\* do_connect with a policy: its idle timeout goes before the manager's.
do_connect(s, policyIdle) ==
    [apply_caps(s) EXCEPT !.idle = IF policyIdle > 0 THEN policyIdle ELSE @]

Program(s, reads, sends) == [set |-> s, reads |-> reads, sends |-> sends]

\* server_main.cpp answers requests.
server ==
    Program(apply_caps([idle |-> 10 * Second, heartbeat |-> 2 * Second, cap |-> 0]),
            "async", "replies")

\* client_main.cpp: every client but the silent one has sent a request.
run_sync_client == Program(NoSettings, "sync", "request")
run_async_client == Program(NoSettings, "async", "request")
run_silent_client == Program(NoSettings, "never", "nothing")
run_reconnect_client == Program(do_connect(NoSettings, 5 * Second), "async", "request")

\* peer/main.cpp broadcasts once per second.
peer ==
    Program(apply_caps([idle |-> 10 * Second, heartbeat |-> 3 * Second, cap |-> 0]),
            "async", "broadcasts")

\* Any other session: its application sends when it likes.
Session(s) == Program(apply_caps(s), "async", "data")

Pairs ==
    {[a |-> server, b |-> c] : c \in {run_sync_client, run_async_client,
                                      run_silent_client, run_reconnect_client}}
    \cup {[a |-> peer, b |-> peer]}
    \cup {[a |-> Session(p.a), b |-> Session(p.b)] : p \in Sessions}
    \cup {[a |-> Session(p.a), b |-> run_silent_client] : p \in Sessions}

-----------------------------------------------------------------------------

Messages == {"ping", "pong", "request", "response", "data"}
Timers == {"idle", "heartbeat", "broadcast"}

\* The durations of the timers of end e; 0 = never armed.
Duration(e) ==
    [idle |-> end[e].set.idle, heartbeat |-> end[e].set.heartbeat,
     broadcast |-> IF end[e].sends = "broadcasts" THEN Second ELSE 0]

TypeOK ==
    /\ end \in Pairs
    /\ left \in [Ends -> [Timers -> Nat]]
    /\ due \subseteq Ends \X Timers
    /\ pinged \in [Ends -> BOOLEAN]
    /\ queue \in [Ends -> Seq(Messages)]
    /\ net \in [Ends -> Seq([m : Messages, age : 0..Delay])]
    /\ \A e \in Ends : Len(net[e]) <= Window
    /\ quiet \in [Ends -> 0..MaxQuiet]
    /\ refused \subseteq Ends \X Messages
    /\ ahead \in [Ends -> Nat]
    /\ answered \in BOOLEAN
    /\ ended \in {<<>>, <<"done">>} \cup Ends \X Timers

\* The handshake has just succeeded at both ends, which arms the timers of
\* asynchronous ones, and clients have written their request.  A broadcaster's
\* timer was running before.
Init ==
    /\ end \in Pairs
    /\ \E n \in [Ends -> 1..Second] :
          left = [e \in Ends |-> [Duration(e) EXCEPT !.broadcast = IF @ > 0 THEN n[e] ELSE 0]]
    /\ due = {}
    /\ pinged = [e \in Ends |-> FALSE]
    /\ queue = [e \in Ends |-> <<>>]
    /\ net = [e \in Ends |-> IF end[e].sends = "request"
                             THEN <<[m |-> "request", age |-> 0]>> ELSE <<>>]
    /\ quiet = [e \in Ends |-> 0]
    /\ refused = {}
    /\ ahead = [e \in Ends |-> 0]
    /\ answered = FALSE
    /\ ended = <<>>

-----------------------------------------------------------------------------

QueueFull(e) == end[e].set.cap # 0 /\ Len(queue[e]) >= end[e].set.cap

\* A fire-and-forget msg::async_send: nobody learns of a refusal.
async_send(e, m) ==
    IF QueueFull(e)
    THEN refused' = refused \cup {<<e, m>>} /\ UNCHANGED queue
    ELSE queue' = [queue EXCEPT ![e] = Append(@, m)] /\ UNCHANGED refused

\* Mutant: the stream is not waited for.
WriteOn(e) ==
    /\ ended = <<>>
    /\ queue[e] # <<>>
    /\ queue' = [queue EXCEPT ![e] = Tail(@)]
    /\ net' = [net EXCEPT ![e] = Append(@, [m |-> Head(queue[e]), age |-> 0])]
    /\ UNCHANGED <<end, left, due, pinged, quiet, refused, ahead, answered, ended>>

\* The write at the front completes.
Write(e) ==
    /\ ended = <<>>
    /\ queue[e] # <<>>
    /\ Len(net[e]) < Window
    /\ queue' = [queue EXCEPT ![e] = Tail(@)]
    /\ net' = [net EXCEPT ![e] = Append(@, [m |-> Head(queue[e]), age |-> 0])]
    /\ UNCHANGED <<end, left, due, pinged, quiet, refused, ahead, answered, ended>>

\* expires_after on timer k of end e.
Arm(e, k) == [left EXCEPT ![e][k] = Duration(e)[k]]

\* reset_idle_timer and reset_heartbeat_timer.
reset_timers(e) ==
    /\ left' = [left EXCEPT ![e].idle = Duration(e).idle,
                            ![e].heartbeat = Duration(e).heartbeat]
    /\ pinged' = [pinged EXCEPT ![e] = FALSE]

\* An end that reads: a synchronous one answers a ping before it reads on.
Reads(e) ==
    \/ end[e].reads = "async"
    \/ end[e].reads = "sync" /\ queue[e] = <<>>

\* Mutant: the server does not reply.
AnswerPings(e, m) ==
    IF m = "ping" THEN async_send(e, "pong") ELSE UNCHANGED <<queue, refused>>

\* Mutant: pings are drained without an answer.
AnswerNothing(e, m) ==
    CASE m = "request" /\ end[e].sends = "replies" -> async_send(e, "response")
      [] OTHER -> UNCHANGED <<queue, refused>>

\* handle_sys_message, recv_buffer, and the server's handle_valid_test_request.
Answer(e, m) ==
    CASE m = "ping" -> async_send(e, "pong")
      [] m = "request" /\ end[e].sends = "replies" -> async_send(e, "response")
      [] OTHER -> UNCHANGED <<queue, refused>>

\* A message is read: its frame size, header and body.  run_sync_client is done
\* when it has the response.
Read(e) ==
    /\ ended = <<>>
    /\ Reads(e)
    /\ net[Other(e)] # <<>>
    /\ LET m == Head(net[Other(e)]).m IN
       /\ Answer(e, m)
       /\ answered' = (answered \/ m = "response")
       /\ ended' = IF end[e].reads = "sync" /\ m = "response" THEN <<"done">> ELSE ended
    /\ net' = [net EXCEPT ![Other(e)] = Tail(@)]
    /\ reset_timers(e)
    /\ quiet' = [quiet EXCEPT ![e] = 0]
    /\ UNCHANGED <<end, due, ahead>>

\* The idle timer's handler: close().
IdleExpires(e) ==
    /\ ended = <<>>
    /\ <<e, "idle">> \in due
    /\ due' = due \ {<<e, "idle">>}
    /\ ended' = <<e, "idle">>
    /\ UNCHANGED <<end, left, pinged, queue, net, quiet, refused, ahead, answered>>

\* How many windows of messages go before one that e sends now.
Windows(e) == (Len(net[e]) + Len(queue[e])) \div Window

Ahead(e) == ahead' = [ahead EXCEPT ![e] = IF Windows(e) > @ THEN Windows(e) ELSE @]

\* Mutant: the second expiry pings again.
HeartbeatPingsOn(e) ==
    /\ ended = <<>>
    /\ <<e, "heartbeat">> \in due
    /\ due' = due \ {<<e, "heartbeat">>}
    /\ async_send(e, "ping")
    /\ pinged' = [pinged EXCEPT ![e] = TRUE]
    /\ left' = Arm(e, "heartbeat")
    /\ Ahead(e)
    /\ UNCHANGED <<end, net, quiet, answered, ended>>

\* The handler of arm_heartbeat: close, or ping and wait once more.
HeartbeatExpires(e) ==
    /\ ended = <<>>
    /\ <<e, "heartbeat">> \in due
    /\ due' = due \ {<<e, "heartbeat">>}
    /\ IF pinged[e]
       THEN /\ ended' = <<e, "heartbeat">>
            /\ UNCHANGED <<left, pinged, queue, refused, ahead>>
       ELSE /\ async_send(e, "ping")
            /\ pinged' = [pinged EXCEPT ![e] = TRUE]
            /\ left' = Arm(e, "heartbeat")
            /\ Ahead(e)
            /\ UNCHANGED ended
    /\ UNCHANGED <<end, net, quiet, answered>>

\* The handler of broadcaster::schedule: broadcast, and schedule again.
Broadcast(e) ==
    /\ ended = <<>>
    /\ <<e, "broadcast">> \in due
    /\ due' = due \ {<<e, "broadcast">>}
    /\ async_send(e, "data")
    /\ left' = Arm(e, "broadcast")
    /\ UNCHANGED <<end, pinged, net, quiet, ahead, answered, ended>>

\* The application of any other session sends, with a bound on what it queues.
SendData(e) ==
    /\ ended = <<>>
    /\ end[e].sends = "data"
    /\ Len(queue[e]) < MaxData
    /\ async_send(e, "data")
    /\ UNCHANGED <<end, left, due, pinged, net, quiet, ahead, answered, ended>>

-----------------------------------------------------------------------------

\* Everything that is to happen within a tick has happened.
Prompt ==
    /\ due = {}
    /\ \A e \in Ends : queue[e] # <<>> => Len(net[e]) = Window
    /\ \A e \in Ends : Reads(Other(e)) /\ net[e] # <<>> => Head(net[e]).age < Delay

Tick ==
    /\ ended = <<>>
    /\ Prompt
    /\ left' = [e \in Ends |-> [k \in Timers |->
                  IF left[e][k] > 0 THEN left[e][k] - 1 ELSE 0]]
    /\ due' = {d \in Ends \X Timers : left[d[1]][d[2]] = 1}
    /\ net' = [e \in Ends |-> [i \in DOMAIN net[e] |->
                 [net[e][i] EXCEPT !.age = IF @ < Delay THEN @ + 1 ELSE @]]]
    /\ quiet' = [e \in Ends |-> IF quiet[e] < MaxQuiet THEN quiet[e] + 1 ELSE MaxQuiet]
    /\ UNCHANGED <<end, pinged, queue, refused, ahead, answered, ended>>

Step ==
    \E e \in Ends :
        \/ Write(e) \/ Read(e)
        \/ IdleExpires(e) \/ HeartbeatExpires(e) \/ Broadcast(e)

Next == Step \/ Tick \/ \E e \in Ends : SendData(e)

Spec == Init /\ [][Next]_vars

\* What a tick waits for happens, and time goes on.
FairSpec == Spec /\ WF_vars(Step) /\ WF_vars(Tick)

-----------------------------------------------------------------------------
(* Properties.                                                             *)

\* The longest a ping of e is without an answer: a Delay for every window of
\* messages in front of it, one for its own way, and one for whatever the other
\* end has under way by then: its pong, or what filled the queue before it.
RoundTrip(e) == (ahead[e] + 2) * Delay

\* A peer that reads is not dropped: "Async peers will automatically respond
\* with a pong request, thus proving the peer is still alive" (README.md:251).
\* A heartbeat longer than a round trip drops a reading peer only if a full
\* queue refused the ping, which async_send keeps to itself (socket.cpp:127);
\* and it keeps its own end from being idle for longer than the heartbeat and a
\* round trip.  (The other end's heartbeat does not: an end that sends all the
\* time is never pinged.)
LivePeerKept ==
    \A e \in Ends :
        /\ ended \in {<<e, "heartbeat">>, <<e, "idle">>}
        /\ end[Other(e)].reads # "never"
        /\ end[e].set.heartbeat > RoundTrip(e)
        /\ ended = <<e, "idle">> => end[e].set.idle > end[e].set.heartbeat + RoundTrip(e)
        => <<e, "ping">> \in refused

\* The examples keep their connections: the server its clients that read, the
\* reconnecting one with its policy's short idle timeout among them, and the
\* peers each other.
ExamplesStayConnected ==
    end["a"].sends # "data" /\ end["b"].reads # "never" => ended \in {<<>>, <<"done">>}

\* A silent peer is dropped after two intervals, in bounded time: "on
\* inactivity, ping once; if still no traffic next interval, close"
\* (socket.hpp:150).
SilenceBounded ==
    \A e \in Ends : end[e].set.heartbeat > 0 => quiet[e] <= 2 * end[e].set.heartbeat

\* A request is answered: the example clients that send one get to read the
\* server's response.
RequestAnswered == end["b"].sends = "request" ~> answered
=============================================================================
