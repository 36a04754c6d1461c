--------------------------- MODULE ExamplesProofs ---------------------------
(***************************************************************************)
(* The example programs keep their connections, for any length of a second *)
(* and any window, as long as a message is under way for less than a       *)
(* second.  The server and a client that reads have at most one message    *)
(* under way, so what comes next and by when can be said at every point;   *)
(* two peers hear each other's broadcasts before a heartbeat runs out.     *)
(***************************************************************************)
EXTENDS PeersProofs

\* What e has sent and the other end has not read, the first of it, and for how
\* long that is under way.
Under(e) == Unread(net[e], queue[e])
First(e) == At(net[e], queue[e], 1)
Since(e) == Age(net[e], 1)

Beating(e) == <<e, "heartbeat">> \in due
Idling(e) == <<e, "idle">> \in due

\* Timers that are not set are never armed.
Off ==
    \A e \in Ends, k \in Timers :
        Duration(e)[k] = 0 => left[e][k] = 0 /\ <<e, k>> \notin due

ServerPair ==
    end["a"] = server /\ end["b"] \in {run_sync_client, run_async_client, run_reconnect_client}

PeerPair == end["a"] = peer /\ end["b"] = peer

-----------------------------------------------------------------------------
(* The server and its client.                                              *)

\* A message of e is the only one under way, and arrives in less than t ticks.
Only(e, m, t) ==
    /\ Under(e) = 1 /\ First(e) = m /\ Under(Other(e)) = 0
    /\ Delay < t + Since(e)

\* The client is not idle for another t ticks, if it has an idle timer.
Awake(t) == Idle("b") > 0 => left["b"].idle > t

\* Nothing is under way: the server pings before the client is idle.
Silent ==
    /\ Under("a") = 0 /\ Under("b") = 0 /\ ~pinged["a"]
    /\ Beating("a") \/ left["a"].heartbeat > 0
    /\ Awake(left["a"].heartbeat + Delay)

Requested ==
    /\ Only("b", "request", left["a"].heartbeat) /\ ~pinged["a"] /\ ~Beating("a")
    /\ Awake(2 * Delay - Since("b"))

Responded ==
    /\ Only("a", "response", left["a"].heartbeat) /\ ~pinged["a"] /\ ~Beating("a")
    /\ Awake(Delay - Since("a"))

\* The ping leaves time for the pong.
Pinged ==
    /\ Only("a", "ping", left["a"].heartbeat) /\ pinged["a"] /\ ~Beating("a")
    /\ 2 * Delay < left["a"].heartbeat + Since("a")
    /\ Awake(Delay - Since("a"))

\* The pong leaves time for the next ping.
Ponged ==
    /\ Only("b", "pong", left["a"].heartbeat) /\ pinged["a"] /\ ~Beating("a")
    /\ Awake((Delay - Since("b")) + 2 * Second + Delay)

ServerKeeps ==
    /\ ~Idling("a") /\ ~Idling("b")
    /\ left["a"].heartbeat <= 2 * Second
    /\ left["a"].idle >= left["a"].heartbeat + (IF pinged["a"] THEN 6 ELSE 8) * Second
    /\ Silent \/ Requested \/ Responded \/ Pinged \/ Ponged

-----------------------------------------------------------------------------
(* The peers.                                                              *)

\* A message of e arrives in less than t ticks, or its next broadcast does.
Heard(e, t) ==
    \/ Under(e) > 0 /\ Delay < t + Since(e)
    \/ <<e, "broadcast">> \in due /\ Delay < t
    \/ left[e].broadcast > 0 /\ left[e].broadcast + Delay < t

PeersKeep ==
    \A e \in Ends :
        /\ ~Beating(e) /\ ~Idling(e)
        /\ left[e].idle > left[e].heartbeat
        /\ left[e].broadcast <= Second
        /\ <<e, "broadcast">> \in due \/ left[e].broadcast > 0
        /\ Heard(Other(e), left[e].heartbeat)

\* The inductive invariant.
XInv ==
    /\ Off
    /\ ended = <<>> /\ ServerPair => ServerKeeps
    /\ ended = <<>> /\ PeerPair => PeersKeep
    /\ ExamplesStayConnected

-----------------------------------------------------------------------------
(* The programs.                                                           *)

\* What the server and its clients are set to.
LEMMA ServerSettings ==
    ASSUME ServerPair
    PROVE  /\ Beat("a") = 2 * Second /\ Idle("a") = 10 * Second
           /\ Beat("b") = 0 /\ Idle("b") \in {0, 5 * Second}
           /\ end["a"].set.cap = 0 /\ end["b"].set.cap = 0
           /\ end["a"].reads = "async" /\ end["b"].reads \in {"async", "sync"}
           /\ end["a"].sends = "replies" /\ end["b"].sends = "request"
<1>1. /\ server.set.heartbeat = 2 * Second /\ server.set.idle = 10 * Second
      /\ server.set.cap = 0 /\ server.reads = "async" /\ server.sends = "replies"
  BY Numbers DEF server, Program, apply_caps, NoSettings
<1>2. \A c \in {run_sync_client, run_async_client} :
          /\ c.set.heartbeat = 0 /\ c.set.idle = 0 /\ c.set.cap = 0
          /\ c.reads \in {"async", "sync"} /\ c.sends = "request"
  BY DEF run_sync_client, run_async_client, Program, NoSettings
<1>3. /\ run_reconnect_client.set.heartbeat = 0 /\ run_reconnect_client.set.idle = 5 * Second
      /\ run_reconnect_client.set.cap = 0 /\ run_reconnect_client.reads = "async"
      /\ run_reconnect_client.sends = "request"
  BY Numbers DEF run_reconnect_client, Program, do_connect, apply_caps, NoSettings
<1> QED BY <1>1, <1>2, <1>3 DEF ServerPair, Beat, Idle

\* What two peers are set to.
LEMMA PeerSettings ==
    ASSUME PeerPair, NEW e \in Ends
    PROVE  /\ Beat(e) = 3 * Second /\ Idle(e) = 10 * Second /\ end[e].set.cap = 0
           /\ end[e].reads = "async" /\ end[e].sends = "broadcasts"
           /\ Duration(e).broadcast = Second
<1>1. /\ peer.set.heartbeat = 3 * Second /\ peer.set.idle = 10 * Second
      /\ peer.set.cap = 0 /\ peer.reads = "async" /\ peer.sends = "broadcasts"
  BY Numbers DEF peer, Program, apply_caps, NoSettings
<1>2. end[e] = peer BY DEF PeerPair, Ends
<1> QED BY <1>1, <1>2 DEF Beat, Idle, Duration

\* The pairs that ExamplesStayConnected is about.
LEMMA ExamplePairs ==
    ASSUME end \in Pairs, end["a"].sends # "data", end["b"].reads # "never"
    PROVE  ServerPair \/ PeerPair
<1>1. \A s : Session(s).sends = "data" BY DEF Session, Program
<1>2. run_silent_client.reads = "never" BY DEF run_silent_client, Program
<1> QED BY <1>1, <1>2 DEF Pairs, ServerPair, PeerPair

\* What is left of each timer is a number.
LEMMA LeftType ==
    ASSUME TypeOK, NEW e \in Ends
    PROVE  left[e].idle \in Nat /\ left[e].heartbeat \in Nat /\ left[e].broadcast \in Nat
<1>1. \A k \in Timers : left[e][k] \in Nat BY Zenon DEF TypeOK
<1> QED BY <1>1 DEF Timers

-----------------------------------------------------------------------------
(* What each step does to what is under way.                               *)

\* It is a number of messages, and the network keeps none beyond the delay.
LEMMA UnderType ==
    ASSUME TypeOK, NEW e \in Ends
    PROVE  Under(e) \in Nat /\ Since(e) \in Nat /\ Since(e) <= Delay
<1>1. net[e] \in Seq(Sent) /\ queue[e] \in Seq(Messages) BY Zenon DEF TypeOK, Sent
<1>2. Under(e) \in Nat
  <2>1. ASSUME NEW n \in Seq(Sent), NEW q \in Seq(Messages) PROVE Unread(n, q) \in Nat
    BY <2>1 DEF Unread
  <2> QED BY <1>1, <2>1 DEF Under
<1>3. CASE 1 <= Len(net[e])
  <2>1. net[e][1] \in Sent BY <1>1, <1>3
  <2> QED BY <2>1, <1>2, <1>3, Numbers DEF Since, Age, Sent
<1>4. CASE ~(1 <= Len(net[e])) BY <1>2, <1>4, Numbers DEF Since, Age
<1> QED BY <1>3, <1>4

\* A write that completes changes nothing of it.
LEMMA UnderWrite ==
    ASSUME TypeOK, NEW e \in Ends, Write(e), NEW x \in Ends
    PROVE  /\ Under(x)' = Under(x) /\ Since(x)' = Since(x)
           /\ Under(x) > 0 => First(x)' = First(x)
<1>1. net[e] \in Seq(Sent) /\ queue[e] \in Seq(Messages) /\ queue[e] # <<>>
  BY Zenon DEF TypeOK, Sent, Write
<1>2. /\ net'[e] = Append(net[e], [m |-> Head(queue[e]), age |-> 0])
      /\ queue'[e] = Tail(queue[e])
      /\ x # e => net'[x] = net[x] /\ queue'[x] = queue[x]
  BY DEF TypeOK, Write
<1>3. CASE x # e BY <1>2, <1>3 DEF Under, Since, First
<1>4. ASSUME NEW n \in Seq(Sent), NEW q \in Seq(Messages), q # <<>>,
             NEW n2, n2 = Append(n, [m |-> Head(q), age |-> 0])
      PROVE  Unread(n2, Tail(q)) = Unread(n, q) /\ Age(n2, 1) = Age(n, 1)
             /\ At(n2, Tail(q), 1) = At(n, q, 1)
  <2>1. /\ Len(n2) = Len(n) + 1 /\ \A i \in 1..Len(n) : n2[i] = n[i]
        /\ n2[Len(n) + 1].m = q[1] /\ n2[Len(n) + 1].age = 0
    BY <1>4, Numbers DEF Sent
  <2>2. Len(Tail(q)) = Len(q) - 1 BY <1>4
  <2> QED BY <2>1, <2>2, <1>4 DEF Unread, Age, At
<1> QED BY <1>1, <1>2, <1>3, <1>4 DEF Under, Since, First

\* A message that is queued, where the queue has no bound.
LEMMA UnderSend ==
    ASSUME TypeOK, NEW e \in Ends, NEW m \in Messages, async_send(e, m),
           end[e].set.cap = 0, net'[e] = net[e]
    PROVE  /\ Under(e)' = Under(e) + 1 /\ Since(e)' = Since(e)
           /\ First(e)' = IF Under(e) = 0 THEN m ELSE First(e)
           /\ Under(e) = 0 => Since(e) = 0
           /\ queue'[Other(e)] = queue[Other(e)]
<1>1. net[e] \in Seq(Sent) /\ queue[e] \in Seq(Messages) BY Zenon DEF TypeOK, Sent
<1>2. queue'[e] = Append(queue[e], m) /\ queue'[Other(e)] = queue[Other(e)]
  BY DEF TypeOK, async_send, QueueFull, Other, Ends
<1>3. ASSUME NEW n \in Seq(Sent), NEW q \in Seq(Messages)
      PROVE  /\ Unread(n, Append(q, m)) = Unread(n, q) + 1
             /\ At(n, Append(q, m), 1) = IF Unread(n, q) = 0 THEN m ELSE At(n, q, 1)
             /\ Unread(n, q) = 0 => Age(n, 1) = 0
  BY <1>3 DEF Unread, Age, At
<1> QED BY <1>1, <1>2, <1>3 DEF Under, Since, First

\* A message that is read was the first of the other end's.
LEMMA UnderRead ==
    ASSUME TypeOK, NEW e \in Ends, Read(e)
    PROVE  /\ Under(Other(e)) > 0
           /\ Answer(e, First(Other(e)))
           /\ net'[e] = net[e]
           /\ queue'[Other(e)] = queue[Other(e)] => Under(Other(e))' = Under(Other(e)) - 1
<1> DEFINE o == Other(e)
<1>1. o \in Ends /\ o # e BY DEF Other, Ends
<1>2. net[o] \in Seq(Sent) /\ queue[o] \in Seq(Messages) /\ net[o] # <<>>
  BY <1>1, Zenon DEF TypeOK, Sent, Read
<1>3. net'[o] = Tail(net[o]) /\ net'[e] = net[e] BY <1>1 DEF TypeOK, Read
<1>4. Answer(e, Head(net[o]).m) BY DEF Read
<1>5. ASSUME NEW n \in Seq(Sent), NEW q \in Seq(Messages), n # <<>>
      PROVE  At(n, q, 1) = Head(n).m /\ Unread(n, q) > 0 /\ Unread(Tail(n), q) = Unread(n, q) - 1
  BY <1>5 DEF At, Unread
<1>6. First(o) = Head(net[o]).m /\ Under(o) > 0 /\ Unread(Tail(net[o]), queue[o]) = Under(o) - 1
  BY <1>2, <1>5 DEF First, Under
<1> QED BY <1>3, <1>4, <1>6 DEF Under

\* A tick brings a message nearer that the other end is ready to read.
LEMMA UnderTick ==
    ASSUME TypeOK, Tick, NEW e \in Ends
    PROVE  /\ Under(e)' = Under(e)
           /\ Under(e) > 0 => First(e)' = First(e)
           /\ Under(e) > 0 /\ Reads(Other(e)) => Since(e) < Delay /\ Since(e)' = Since(e) + 1
<1>1. net[e] \in Seq(Sent) /\ queue[e] \in Seq(Messages) BY Zenon DEF TypeOK, Sent
<1>2. net'[e] = Older(net[e]) /\ queue'[e] = queue[e] BY DEF Tick, Older
<1>3. Len(Older(net[e])) = Len(net[e]) BY <1>1, OlderType
<1>4. Under(e)' = Under(e) BY <1>2, <1>3 DEF Under, Unread
<1>5. ASSUME Under(e) > 0
      PROVE  /\ First(e)' = First(e)
             /\ Reads(Other(e)) => Since(e) < Delay /\ Since(e)' = Since(e) + 1
  <2>1. queue[e] # <<>> => Len(net[e]) = Window BY DEF Tick, Prompt
  <2>2. 1 \in 1..Len(net[e])
    <3>1. CASE queue[e] = <<>> BY <3>1, <1>1, <1>5 DEF Under, Unread
    <3>2. CASE queue[e] # <<>> BY <3>2, <2>1, Numbers
    <3> QED BY <3>1, <3>2
  <2>3. net[e][1] \in Sent BY <1>1, <2>2
  <2>4. Reads(Other(e)) => net[e][1].age < Delay BY <1>1, <2>2 DEF Tick, Prompt
  <2>5. /\ Older(net[e])[1].m = net[e][1].m
        /\ net[e][1].age < Delay => Older(net[e])[1].age = net[e][1].age + 1
    BY <2>2, <2>3, <1>1 DEF Older, Sent
  <2> QED BY <2>2, <2>3, <2>4, <2>5, <1>2, <1>3 DEF First, At, Since, Age
<1> QED BY <1>4, <1>5

-----------------------------------------------------------------------------
(* The timers.                                                             *)

\* Between ticks a timer stays as it is or starts again, and nothing gets due.
LEMMA TimerStep ==
    ASSUME TypeOK, [Next]_vars, ~Tick, NEW x \in Ends, NEW k \in Timers
    PROVE  left'[x][k] \in {left[x][k], Duration(x)[k]} /\ due' \subseteq due
<1>1. ASSUME NEW e \in Ends, Read(e)
      PROVE  left'[x][k] \in {left[x][k], Duration(x)[k]} /\ due' \subseteq due
  <2>1. left' = [left EXCEPT ![e].idle = Duration(e).idle, ![e].heartbeat = Duration(e).heartbeat]
    BY <1>1 DEF Read, reset_timers
  <2>2. left'[x][k] \in {left[x][k], Duration(x)[k]} BY <2>1 DEF TypeOK, Timers
  <2> QED BY <2>2, <1>1 DEF Read
<1>2. ASSUME NEW e \in Ends, NEW j \in Timers, left' = Arm(e, j)
      PROVE  left'[x][k] \in {left[x][k], Duration(x)[k]}
  BY <1>2, ArmType
<1>3. ASSUME NEW e \in Ends, HeartbeatExpires(e)
      PROVE  left'[x][k] \in {left[x][k], Duration(x)[k]} /\ due' \subseteq due
  <2>1. (left' = left \/ left' = Arm(e, "heartbeat")) /\ due' \subseteq due
    BY <1>3 DEF HeartbeatExpires
  <2> QED BY <2>1, <1>2 DEF Timers
<1>4. ASSUME NEW e \in Ends, Broadcast(e)
      PROVE  left'[x][k] \in {left[x][k], Duration(x)[k]} /\ due' \subseteq due
  <2>1. left' = Arm(e, "broadcast") /\ due' \subseteq due BY <1>4 DEF Broadcast
  <2> QED BY <2>1, <1>2 DEF Timers
<1>5. ASSUME NEW e \in Ends, Write(e) \/ IdleExpires(e) \/ SendData(e)
      PROVE  left' = left /\ due' \subseteq due
  BY <1>5 DEF Write, IdleExpires, SendData
<1>6. UNCHANGED vars => left' = left /\ due' \subseteq due BY DEF vars
<1> QED BY <1>1, <1>3, <1>4, <1>5, <1>6 DEF Next, Step

\* What a tick does to a timer.
LEMMA TimerTick ==
    ASSUME TypeOK, Tick, NEW x \in Ends, NEW k \in Timers
    PROVE  /\ due = {} /\ left[x][k] \in Nat /\ left'[x][k] \in Nat
           /\ left[x][k] > 0 => left'[x][k] = left[x][k] - 1
           /\ left[x][k] = 0 => left'[x][k] = 0
           /\ <<x, k>> \in due' <=> left[x][k] = 1
<1>1. left[x][k] \in Nat BY Zenon DEF TypeOK
<1>2. left'[x][k] = IF left[x][k] > 0 THEN left[x][k] - 1 ELSE 0 BY DEF Tick
<1>3. <<x, k>> \in due' <=> left[x][k] = 1 BY DEF Tick
<1> QED BY <1>1, <1>2, <1>3 DEF Tick, Prompt

\* A timer that is not set stays off.
LEMMA OffStep == ASSUME TypeOK, Off, [Next]_vars PROVE Off'
<1>1. end' = end
  <2>1. "a" \in Ends BY DEF Ends
  <2> QED BY <2>1, HistoryStep
<1> SUFFICES ASSUME NEW e \in Ends, NEW k \in Timers, Duration(e)[k] = 0
             PROVE  left'[e][k] = 0 /\ <<e, k>> \notin due'
  BY <1>1 DEF Off, Duration
<1>2. left[e][k] = 0 /\ <<e, k>> \notin due BY DEF Off
<1>3. CASE Tick BY <1>2, <1>3, TimerTick
<1>4. CASE ~Tick BY <1>2, <1>4, TimerStep
<1> QED BY <1>3, <1>4

-----------------------------------------------------------------------------
(* The server and its client.                                              *)

\* The numbers the stages are about.
LEMMA ServerNumbers ==
    ASSUME TypeOK
    PROVE  /\ Under("a") \in Nat /\ Since("a") \in Nat /\ Since("a") <= Delay
           /\ Under("b") \in Nat /\ Since("b") \in Nat /\ Since("b") <= Delay
           /\ left["a"].heartbeat \in Nat /\ left["a"].idle \in Nat /\ left["b"].idle \in Nat
           /\ pinged["a"] \in BOOLEAN
<1>1. "a" \in Ends /\ "b" \in Ends BY DEF Ends
<1>2. left["a"].heartbeat \in Nat /\ left["a"].idle \in Nat /\ left["b"].idle \in Nat
  BY <1>1, LeftType
<1> QED BY <1>1, <1>2, UnderType, Zenon DEF TypeOK

\* A step that leaves the messages and the timers as they are.
LEMMA ServerSame ==
    ASSUME ServerKeeps, TypeOK, UNCHANGED <<end, left, due, pinged>>,
           \A x \in Ends : /\ Under(x)' = Under(x) /\ Since(x)' = Since(x)
                           /\ Under(x) > 0 => First(x)' = First(x)
    PROVE  ServerKeeps'
<1>1. /\ Under("a")' = Under("a") /\ Since("a")' = Since("a")
      /\ Under("a") > 0 => First("a")' = First("a")
      /\ Under("b")' = Under("b") /\ Since("b")' = Since("b")
      /\ Under("b") > 0 => First("b")' = First("b")
  BY DEF Ends
<1>2. \A e, m, t : e \in Ends /\ Only(e, m, t) => Only(e, m, t)'
  <2> SUFFICES ASSUME NEW e \in Ends, NEW m, NEW t, Only(e, m, t) PROVE Only(e, m, t)'
    OBVIOUS
  <2>1. Other(e) \in Ends BY DEF Other, Ends
  <2> QED BY <2>1 DEF Only
<1>3. \A t : Awake(t) => Awake(t)' BY DEF Awake, Idle
<1>4. \A x : Beating(x)' = Beating(x) /\ Idling(x)' = Idling(x) BY DEF Beating, Idling
<1>5. Silent => Silent' BY <1>1, <1>3, <1>4 DEF Silent
<1>6. Requested => Requested' BY <1>1, <1>2, <1>3, <1>4 DEF Requested, Ends
<1>7. Responded => Responded' BY <1>1, <1>2, <1>3, <1>4 DEF Responded, Ends
<1>8. Pinged => Pinged' BY <1>1, <1>2, <1>3, <1>4 DEF Pinged, Ends
<1>9. Ponged => Ponged' BY <1>1, <1>2, <1>3, <1>4 DEF Ponged, Ends
<1> QED BY <1>4, <1>5, <1>6, <1>7, <1>8, <1>9 DEF ServerKeeps

\* The server reads the request, and answers it, or the pong.
LEMMA ServerReads ==
    ASSUME TypeOK, TypeOK', ServerPair, ServerKeeps, Delay < Second, Read("a")
    PROVE  ServerKeeps' /\ ended' = ended
<1>1. "a" \in Ends /\ "b" \in Ends /\ Other("a") = "b" /\ Other("b") = "a"
  BY DEF Ends, Other
<1>2. /\ Under("b") > 0 /\ Answer("a", First("b")) /\ net'["a"] = net["a"]
      /\ queue'["b"] = queue["b"] => Under("b")' = Under("b") - 1
  BY <1>1, UnderRead
<1>3. /\ left'["a"].idle = 10 * Second /\ left'["a"].heartbeat = 2 * Second /\ ~pinged'["a"]
      /\ left'["b"] = left["b"] /\ due' = due /\ end' = end
  BY <1>1, ResetType, ServerSettings DEF Read
<1>4. ended' = ended BY ServerSettings DEF Read
<1>5. /\ Under("a") \in Nat /\ Since("a") \in Nat /\ Since("a") <= Delay
      /\ Under("b") \in Nat /\ Since("b") \in Nat /\ Since("b") <= Delay
      /\ left["b"].idle \in Nat
  BY ServerNumbers
<1>6. Requested \/ Ponged BY <1>1, <1>2, <1>5 DEF ServerKeeps, Silent, Responded, Pinged, Only
<1>7. CASE Requested
  <2>1. /\ Under("b") = 1 /\ First("b") = "request" /\ Under("a") = 0
        /\ ~Beating("a") /\ Awake(2 * Delay - Since("b"))
    BY <1>1, <1>7 DEF Requested, Only
  <2>2. async_send("a", "response") BY <2>1, <1>2, ServerSettings DEF Answer
  <2>3. /\ Under("a")' = 1 /\ Since("a")' = 0 /\ First("a")' = "response"
        /\ queue'["b"] = queue["b"]
    BY <2>1, <2>2, <1>1, <1>2, UnderSend, ServerSettings DEF Messages
  <2>4. Under("b")' = 0 BY <2>1, <2>3, <1>2
  <2>5. Idle("b") > 0 => left["b"].idle > Delay BY <2>1, <1>5, Numbers DEF Awake
  <2>6. Responded'
    BY <2>1, <2>3, <2>4, <2>5, <1>1, <1>3, Numbers
    DEF Responded, Only, Awake, Beating, Idle
  <2> QED BY <2>6, <1>3, <1>4, Numbers DEF ServerKeeps, Idling
<1>8. CASE Ponged
  <2>1. /\ Under("b") = 1 /\ First("b") = "pong" /\ Under("a") = 0
        /\ ~Beating("a") /\ Awake((Delay - Since("b")) + 2 * Second + Delay)
    BY <1>1, <1>8 DEF Ponged, Only
  <2>2. UNCHANGED queue BY <2>1, <1>2 DEF Answer
  <2>3. Under("a")' = 0 /\ Under("b")' = 0 BY <2>1, <2>2, <1>2 DEF Under
  <2>4. Idle("b") > 0 => left["b"].idle > 2 * Second + Delay BY <2>1, <1>5, Numbers DEF Awake
  <2>5. Silent' BY <2>3, <2>4, <1>3, Numbers DEF Silent, Awake, Idle
  <2> QED BY <2>5, <1>3, <1>4, Numbers DEF ServerKeeps, Idling
<1> QED BY <1>6, <1>7, <1>8

\* The client reads the response, or the ping, and answers it.
LEMMA ClientReads ==
    ASSUME TypeOK, TypeOK', ServerPair, ServerKeeps, Delay < Second, Read("b")
    PROVE  ServerKeeps' /\ ended' \in {ended, <<"done">>}
<1>1. "a" \in Ends /\ "b" \in Ends /\ Other("a") = "b" /\ Other("b") = "a"
  BY DEF Ends, Other
<1>2. /\ Under("a") > 0 /\ Answer("b", First("a")) /\ net'["b"] = net["b"]
      /\ queue'["a"] = queue["a"] => Under("a")' = Under("a") - 1
  BY <1>1, UnderRead
<1>3. /\ left'["b"].idle = Idle("b") /\ left'["a"] = left["a"] /\ pinged'["a"] = pinged["a"]
      /\ due' = due /\ end' = end
  BY <1>1, ResetType DEF Read
<1>4. ended' \in {ended, <<"done">>} BY DEF Read
<1>5. /\ Under("a") \in Nat /\ Since("a") \in Nat /\ Since("a") <= Delay
      /\ Under("b") \in Nat /\ left["a"].heartbeat \in Nat
  BY ServerNumbers
<1>6. Responded \/ Pinged BY <1>1, <1>2, <1>5 DEF ServerKeeps, Silent, Requested, Ponged, Only
<1>7. Idle("b") \in {0, 5 * Second} BY ServerSettings
<1>8. left["a"].heartbeat <= 2 * Second BY DEF ServerKeeps
<1>9. CASE Responded
  <2>1. /\ Under("a") = 1 /\ First("a") = "response" /\ Under("b") = 0
        /\ Delay < left["a"].heartbeat + Since("a") /\ ~pinged["a"]
    BY <1>1, <1>9 DEF Responded, Only
  <2>2. UNCHANGED queue BY <2>1, <1>2 DEF Answer
  <2>3. Under("a")' = 0 /\ Under("b")' = 0 BY <2>1, <2>2, <1>2 DEF Under
  <2>4. left["a"].heartbeat > 0 BY <2>1, <1>5, Numbers
  <2>5. Idle("b") > 0 => Idle("b") > left["a"].heartbeat + Delay BY <1>5, <1>7, <1>8, Numbers
  <2>6. Silent' BY <2>1, <2>3, <2>4, <2>5, <1>3 DEF Silent, Awake, Idle
  <2> QED BY <2>6, <1>3, <1>4 DEF ServerKeeps, Idling
<1>10. CASE Pinged
  <2>1. /\ Under("a") = 1 /\ First("a") = "ping" /\ Under("b") = 0 /\ ~Beating("a")
        /\ 2 * Delay < left["a"].heartbeat + Since("a") /\ pinged["a"]
    BY <1>1, <1>10 DEF Pinged, Only
  <2>2. async_send("b", "pong") BY <2>1, <1>2 DEF Answer
  <2>3. /\ Under("b")' = 1 /\ Since("b")' = 0 /\ First("b")' = "pong"
        /\ queue'["a"] = queue["a"]
    BY <2>1, <2>2, <1>1, <1>2, UnderSend, ServerSettings DEF Messages
  <2>4. Under("a")' = 0 BY <2>1, <2>3, <1>2
  <2>5. Delay < left["a"].heartbeat BY <2>1, <1>5, Numbers
  <2>6. Idle("b") > 0 => Idle("b") > Delay + 2 * Second + Delay BY <1>7, Numbers
  <2>7. Only("b", "pong", left["a"].heartbeat)' BY <2>3, <2>4, <2>5, <1>1, <1>3, <1>5, Numbers DEF Only
  <2>8. Awake((Delay - Since("b")) + 2 * Second + Delay)'
    BY <2>3, <2>6, <1>3, Numbers DEF Awake, Idle
  <2>9. Ponged' BY <2>1, <2>7, <2>8, <1>3 DEF Ponged, Beating
  <2> QED BY <2>9, <1>3, <1>4 DEF ServerKeeps, Idling
<1> QED BY <1>6, <1>9, <1>10

\* The server pings when nothing is under way.
LEMMA ServerPings ==
    ASSUME TypeOK, TypeOK', ServerPair, ServerKeeps, Delay < Second, HeartbeatExpires("a")
    PROVE  ServerKeeps' /\ ended' = ended
<1>1. "a" \in Ends /\ "b" \in Ends /\ Other("a") = "b" /\ Other("b") = "a"
  BY DEF Ends, Other
<1>2. Silent
  BY DEF ServerKeeps, Requested, Responded, Pinged, Ponged, HeartbeatExpires, Beating
<1>3. Under("a") = 0 /\ Under("b") = 0 /\ ~pinged["a"] /\ Awake(left["a"].heartbeat + Delay)
  BY <1>2 DEF Silent
<1>4. /\ async_send("a", "ping") /\ left' = Arm("a", "heartbeat") /\ pinged'["a"]
      /\ due' \subseteq due /\ <<"a", "heartbeat">> \notin due' /\ end' = end /\ net' = net
      /\ ended' = ended
  BY <1>1, <1>3 DEF HeartbeatExpires, TypeOK
<1>5. /\ left'["a"].heartbeat = 2 * Second /\ left'["a"].idle = left["a"].idle
      /\ left'["b"].idle = left["b"].idle
  <2>1. "heartbeat" \in Timers /\ "idle" \in Timers /\ "idle" # "heartbeat" /\ "a" # "b"
    BY DEF Timers
  <2>2. Duration("a").heartbeat = 2 * Second BY ServerSettings DEF Duration, Beat
  <2>3. /\ left'["a"]["heartbeat"] = Duration("a")["heartbeat"]
        /\ \A x \in Ends, j \in Timers : x # "a" \/ j # "heartbeat" => left'[x][j] = left[x][j]
    BY <2>1, <1>1, <1>4, ArmType, Zenon
  <2> QED BY <2>1, <2>2, <2>3, <1>1
<1>6. left["a"].heartbeat \in Nat /\ left["a"].idle \in Nat /\ left["b"].idle \in Nat
  BY ServerNumbers
<1>7. /\ Under("a")' = 1 /\ Since("a")' = 0 /\ First("a")' = "ping"
      /\ queue'["b"] = queue["b"]
  BY <1>1, <1>3, <1>4, UnderSend, ServerSettings DEF Messages
<1>8. Under("b")' = 0 BY <1>3, <1>4, <1>7 DEF Under
<1>9. Idle("b") > 0 => left["b"].idle > Delay BY <1>3, <1>6, Numbers DEF Awake
<1>10. Only("a", "ping", left["a"].heartbeat)'
  BY <1>1, <1>5, <1>7, <1>8, Numbers DEF Only
<1>11. Awake(Delay - Since("a"))' BY <1>4, <1>5, <1>7, <1>9, Numbers DEF Awake, Idle
<1>12. Pinged' BY <1>4, <1>5, <1>7, <1>10, <1>11, Numbers DEF Pinged, Beating
<1>13. left["a"].idle >= 8 * Second
  BY <1>3, <1>6, Numbers DEF ServerKeeps
<1> QED BY <1>4, <1>5, <1>12, <1>13, Numbers DEF ServerKeeps, Idling

\* Time goes on: what is under way arrives before a timer runs out, or the
\* heartbeat is the first to.
LEMMA ServerTicks ==
    ASSUME TypeOK, TypeOK', Off, ServerPair, ServerKeeps, Delay < Second, Tick
    PROVE  ServerKeeps'
<1>1. "a" \in Ends /\ "b" \in Ends /\ Other("a") = "b" /\ Other("b") = "a"
  BY DEF Ends, Other
<1>2. "heartbeat" \in Timers /\ "idle" \in Timers BY DEF Timers
<1>3. PICK h \in Nat, i \in Nat, j \in Nat, u \in Nat, v \in Nat :
          /\ h = left["a"].heartbeat /\ i = left["a"].idle /\ j = left["b"].idle
          /\ u = Since("a") /\ v = Since("b")
  BY ServerNumbers
<1>4. /\ Beating("a")' <=> h = 1
      /\ Idling("a")' <=> i = 1
      /\ Idling("b")' <=> j = 1
      /\ h > 0 => left'["a"].heartbeat = h - 1
      /\ i > 0 => left'["a"].idle = i - 1
      /\ j > 0 => left'["b"].idle = j - 1
      /\ ~Beating("a") /\ end' = end /\ pinged' = pinged
  <2>1. end' = end /\ pinged' = pinged BY DEF Tick
  <2> QED BY <2>1, <1>1, <1>2, <1>3, TimerTick DEF Beating, Idling
<1>5. /\ Under("a")' = Under("a") /\ Under("b")' = Under("b")
      /\ Under("a") > 0 => First("a")' = First("a")
      /\ Under("b") > 0 => First("b")' = First("b")
      /\ Under("b") > 0 => v < Delay /\ Since("b")' = v + 1
      /\ Under("a") > 0 /\ Under("b") = 0 => u < Delay /\ Since("a")' = u + 1
  <2>1. Reads("a") BY ServerSettings DEF Reads
  <2>2. Under("b") = 0 => Reads("b")
    <3>1. ASSUME NEW n \in Seq(Sent), NEW q \in Seq(Messages), Unread(n, q) = 0 PROVE q = <<>>
      BY <3>1 DEF Unread
    <3>2. net["b"] \in Seq(Sent) /\ queue["b"] \in Seq(Messages) BY <1>1, Zenon DEF TypeOK, Sent
    <3>3. Under("b") = 0 => queue["b"] = <<>> BY <3>1, <3>2 DEF Under
    <3> QED BY <3>3, ServerSettings DEF Reads
  <2> QED BY <2>1, <2>2, <1>1, <1>3, UnderTick
<1>6. h > 0
  <2>1. ASSUME NEW e \in Ends, NEW m, Only(e, m, left["a"].heartbeat) PROVE h > 0
    <3>1. Since(e) \in Nat /\ Since(e) <= Delay BY UnderType
    <3> QED BY <3>1, <2>1, <1>3, Numbers DEF Only
  <2>2. CASE Silent BY <2>2, <1>3, <1>4 DEF Silent
  <2>3. CASE ~Silent
    BY <2>1, <2>3, <1>1 DEF ServerKeeps, Requested, Responded, Pinged, Ponged
  <2> QED BY <2>2, <2>3
<1>7. /\ ~Idling("a")' /\ left'["a"].heartbeat <= 2 * Second
      /\ left'["a"].idle >= left'["a"].heartbeat + (IF pinged["a"] THEN 6 ELSE 8) * Second
  <2>1. h <= 2 * Second /\ i >= h + (IF pinged["a"] THEN 6 ELSE 8) * Second
    BY <1>3 DEF ServerKeeps
  <2>2. PICK s \in Nat : s = (IF pinged["a"] THEN 6 ELSE 8) * Second /\ s >= 6 BY Numbers
  <2>3. i >= h + s BY <2>1, <2>2
  <2>4. i > 1 /\ i - 1 >= (h - 1) + s /\ h - 1 <= 2 * Second
    BY <2>1, <2>2, <2>3, <1>6, Numbers
  <2> QED BY <2>2, <2>4, <1>4, <1>6
<1>8. Idle("b") = 0 => ~Idling("b")'
  <2>1. Duration("b").idle = Idle("b") BY DEF Duration, Idle
  <2>2. Duration("b").idle = 0 => left["b"].idle = 0 BY <1>1, <1>2, Zenon DEF Off
  <2> QED BY <2>1, <2>2, <1>3, <1>4
<1>9. Idle("b") \in Nat BY ServerSettings, Numbers
<1>10. ASSUME NEW t \in Nat, Awake(t + 1) PROVE Awake(t)' /\ ~Idling("b")'
  <2>1. CASE Idle("b") > 0
    <3>1. j > t + 1 BY <2>1, <1>3, <1>10 DEF Awake
    <3>2. left'["b"].idle > t /\ j # 1 BY <3>1, <1>4
    <3> QED BY <3>2, <1>4 DEF Awake, Idle
  <2>2. CASE Idle("b") = 0 BY <2>2, <1>4, <1>8 DEF Awake, Idle
  <2> QED BY <2>1, <2>2, <1>9
<1>11. CASE Silent
  <2>1. Awake((h - 1 + Delay) + 1)
    <3>1. Awake(h + Delay) BY <1>3, <1>11 DEF Silent
    <3>2. h + Delay = (h - 1 + Delay) + 1 BY <1>6, Numbers
    <3> QED BY <3>1, <3>2
  <2>2. h - 1 + Delay \in Nat BY <1>6, Numbers
  <2>3. Awake(h - 1 + Delay)' /\ ~Idling("b")' BY <2>1, <2>2, <1>10
  <2>4. Awake(left["a"].heartbeat + Delay)' BY <2>3, <1>4, <1>6
  <2>5. Beating("a")' \/ left'["a"].heartbeat > 0 BY <1>4, <1>6
  <2>6. Silent' BY <2>4, <2>5, <1>4, <1>5, <1>11 DEF Silent
  <2> QED BY <2>3, <2>6, <1>4, <1>7 DEF ServerKeeps
<1>12. CASE Requested \/ Ponged
  <2>1. PICK m \in {"request", "pong"} :
            /\ Under("b") = 1 /\ First("b") = m /\ Under("a") = 0 /\ Delay < h + v
    BY <1>1, <1>3, <1>12 DEF Requested, Ponged, Only
  <2>2. v < Delay /\ Since("b")' = v + 1 BY <2>1, <1>5
  <2>3. h > 1 /\ Delay < (h - 1) + (v + 1) BY <2>1, <2>2, Numbers
  <2>4. Only("b", m, left["a"].heartbeat)' BY <2>1, <2>2, <2>3, <1>1, <1>4, <1>5 DEF Only
  <2>5. ~Beating("a")' BY <2>3, <1>4
  <2>6. CASE Requested
    <3>1. PICK t \in Nat : t = 2 * Delay - (v + 1) BY <2>2, Numbers
    <3>2. 2 * Delay - v = t + 1 BY <3>1, <2>2, Numbers
    <3>3. Awake(t)' /\ ~Idling("b")' BY <3>2, <2>6, <1>3, <1>10 DEF Requested
    <3>4. m = "request" BY <2>1, <2>6 DEF Requested, Only
    <3>5. Requested' BY <3>1, <3>3, <3>4, <2>2, <2>4, <2>5, <2>6, <1>4 DEF Requested
    <3> QED BY <3>3, <3>5, <1>4, <1>7 DEF ServerKeeps
  <2>7. CASE Ponged
    <3>1. PICK t \in Nat : t = (Delay - (v + 1)) + 2 * Second + Delay BY <2>2, Numbers
    <3>2. (Delay - v) + 2 * Second + Delay = t + 1 BY <3>1, <2>2, Numbers
    <3>3. Awake(t)' /\ ~Idling("b")' BY <3>2, <2>7, <1>3, <1>10 DEF Ponged
    <3>4. m = "pong" BY <2>1, <2>7 DEF Ponged, Only
    <3>5. Ponged' BY <3>1, <3>3, <3>4, <2>2, <2>4, <2>5, <2>7, <1>4 DEF Ponged
    <3> QED BY <3>3, <3>5, <1>4, <1>7 DEF ServerKeeps
  <2> QED BY <2>6, <2>7, <1>12
<1>13. CASE Responded \/ Pinged
  <2>1. PICK m \in {"response", "ping"} :
            /\ Under("a") = 1 /\ First("a") = m /\ Under("b") = 0 /\ Delay < h + u
    BY <1>1, <1>3, <1>13 DEF Responded, Pinged, Only
  <2>2. u < Delay /\ Since("a")' = u + 1 BY <2>1, <1>5
  <2>3. h > 1 /\ Delay < (h - 1) + (u + 1) BY <2>1, <2>2, Numbers
  <2>4. Only("a", m, left["a"].heartbeat)' BY <2>1, <2>2, <2>3, <1>1, <1>4, <1>5 DEF Only
  <2>5. ~Beating("a")' BY <2>3, <1>4
  <2>6. PICK t \in Nat : t = Delay - (u + 1) BY <2>2, Numbers
  <2>7. Delay - u = t + 1 BY <2>6, <2>2, Numbers
  <2>8. Awake(t)' /\ ~Idling("b")' BY <2>7, <1>3, <1>10, <1>13 DEF Responded, Pinged
  <2>9. CASE Responded
    <3>1. m = "response" BY <2>1, <2>9 DEF Responded, Only
    <3>2. Responded' BY <3>1, <2>2, <2>4, <2>5, <2>6, <2>8, <2>9, <1>4 DEF Responded
    <3> QED BY <3>2, <2>8, <1>4, <1>7 DEF ServerKeeps
  <2>10. CASE Pinged
    <3>1. m = "ping" BY <2>1, <2>10 DEF Pinged, Only
    <3>2. 2 * Delay < left'["a"].heartbeat + Since("a")'
      <4>1. 2 * Delay < h + u BY <2>10, <1>3 DEF Pinged
      <4> QED BY <4>1, <2>2, <1>4, <1>6, Numbers
    <3>3. Pinged' BY <3>1, <3>2, <2>2, <2>4, <2>5, <2>6, <2>8, <2>10, <1>4 DEF Pinged
    <3> QED BY <3>3, <2>8, <1>4, <1>7 DEF ServerKeeps
  <2> QED BY <2>9, <2>10, <1>13
<1> QED BY <1>11, <1>12, <1>13 DEF ServerKeeps

\* Every step keeps the server and its client in one of the five stages, and
\* none but the client ends the connection.
LEMMA ServerStep ==
    ASSUME TypeOK, TypeOK', Off, ServerPair, ended = <<>>, ServerKeeps, Delay < Second, [Next]_vars
    PROVE  ServerKeeps' /\ ended' \in {<<>>, <<"done">>}
<1>1. \A e \in Ends : e = "a" \/ e = "b" BY DEF Ends
<1>2. ASSUME NEW e \in Ends, Write(e) PROVE ServerKeeps' /\ ended' = ended
  BY <1>2, UnderWrite, ServerSame DEF Write
<1>3. ASSUME NEW e \in Ends, Read(e) PROVE ServerKeeps' /\ ended' \in {<<>>, <<"done">>}
  BY <1>1, <1>3, ServerReads, ClientReads
<1>4. ASSUME NEW e \in Ends, IdleExpires(e) PROVE FALSE
  BY <1>1, <1>4 DEF IdleExpires, ServerKeeps, Idling
<1>5. Duration("b").heartbeat = 0 /\ Duration("a").broadcast = 0 /\ Duration("b").broadcast = 0
  BY ServerSettings DEF Duration, Beat
<1>6. /\ <<"b", "heartbeat">> \notin due /\ <<"a", "broadcast">> \notin due
      /\ <<"b", "broadcast">> \notin due
  <2>1. /\ "a" \in Ends /\ "b" \in Ends /\ "heartbeat" \in Timers /\ "broadcast" \in Timers
    BY DEF Ends, Timers
  <2> QED BY <2>1, <1>5, Zenon DEF Off
<1>7. ASSUME NEW e \in Ends, HeartbeatExpires(e) PROVE ServerKeeps' /\ ended' = ended
  <2>1. <<e, "heartbeat">> \in due BY <1>7 DEF HeartbeatExpires
  <2>2. e = "a" BY <2>1, <1>1, <1>6
  <2> QED BY <2>2, <1>7, ServerPings
<1>8. ASSUME NEW e \in Ends, Broadcast(e) PROVE FALSE
  <2>1. <<e, "broadcast">> \in due BY <1>8 DEF Broadcast
  <2> QED BY <2>1, <1>1, <1>6
<1>9. ASSUME NEW e \in Ends, SendData(e) PROVE FALSE
  BY <1>1, <1>9, ServerSettings DEF SendData
<1>10. CASE Tick BY <1>10, ServerTicks DEF Tick
<1>11. CASE UNCHANGED vars
  <2>1. \A x \in Ends : Under(x)' = Under(x) /\ Since(x)' = Since(x) /\ First(x)' = First(x)
    BY <1>11 DEF vars, Under, Since, First
  <2> QED BY <2>1, <1>11, ServerSame DEF vars
<1> QED BY <1>2, <1>3, <1>4, <1>7, <1>8, <1>9, <1>10, <1>11 DEF Next, Step

-----------------------------------------------------------------------------
(* The peers.                                                              *)

\* What e has sent is still under way, and its broadcast still to come.
LEMMA HeardSame ==
    ASSUME NEW e \in Ends, NEW t, Heard(e, t),
           Under(e) > 0 => Under(e)' > 0, Since(e)' = Since(e),
           left'[e].broadcast = left[e].broadcast,
           <<e, "broadcast">> \in due => <<e, "broadcast">> \in due'
    PROVE  Heard(e, t)'
BY DEF Heard

\* A peer that reads starts its timers again; the other one's broadcast comes
\* before they run out.
LEMMA PeerReads ==
    ASSUME TypeOK, TypeOK', PeerPair, PeersKeep, Delay < Second, NEW e \in Ends, Read(e)
    PROVE  PeersKeep' /\ ended' = ended
<1> DEFINE o == Other(e)
<1>1. e \in Ends /\ o \in Ends /\ o # e /\ Other(o) = e /\ \A x \in Ends : x = e \/ x = o
  BY DEF Other, Ends
<1>2. /\ left'[e].idle = 10 * Second /\ left'[e].heartbeat = 3 * Second
      /\ left'[o] = left[o] /\ due' = due /\ ended' = ended
  BY <1>1, ResetType, PeerSettings DEF Read
<1>3. left'[e].broadcast = left[e].broadcast
  BY DEF Read, reset_timers, TypeOK, Timers
<1>4. net'[e] = net[e] /\ Answer(e, First(o)) BY UnderRead
<1>5. Under(e) > 0 => Under(e)' > 0
  <2>1. Under(e) \in Nat BY UnderType
  <2>2. ASSUME NEW m \in Messages, async_send(e, m) PROVE Under(e)' = Under(e) + 1
    BY <2>2, <1>4, UnderSend, PeerSettings
  <2>3. CASE UNCHANGED queue BY <2>3, <1>4 DEF Under
  <2> QED BY <2>1, <2>2, <2>3, <1>4 DEF Answer, Messages
<1>6. Since(e)' = Since(e) BY <1>4 DEF Since
<1> HIDE DEF o
<1>7. PICK b \in Nat, h \in Nat : b = left[o].broadcast /\ h = left[o].heartbeat
  <2>1. left[o].broadcast \in Nat /\ left[o].heartbeat \in Nat BY <1>1, LeftType
  <2> QED BY <2>1, Zenon
<1>8. /\ ~Beating(e)' /\ ~Idling(e)' /\ ~Beating(o)' /\ ~Idling(o)'
  BY <1>1, <1>2 DEF PeersKeep, Beating, Idling
<1>9. Heard(o, left[e].heartbeat)'
  <2>1. b <= Second /\ (<<o, "broadcast">> \in due \/ b > 0) BY <1>1, <1>7 DEF PeersKeep
  <2>2. Delay < 3 * Second /\ b + Delay < 3 * Second BY <2>1, <1>7, Numbers
  <2> QED BY <2>1, <2>2, <1>2, <1>7 DEF Heard
<1>10. Heard(e, left[o].heartbeat)'
  <2>1. Heard(e, h) BY <1>1, <1>7 DEF PeersKeep
  <2>2. Heard(e, h)' BY <2>1, <1>1, <1>2, <1>3, <1>5, <1>6, HeardSame
  <2> QED BY <2>2, <1>2, <1>7 DEF Heard
<1>11. 10 * Second > 3 * Second BY Numbers
<1> QED BY <1>1, <1>2, <1>3, <1>8, <1>9, <1>10, <1>11 DEF PeersKeep, o

\* A peer that broadcasts is heard a Delay later.
LEMMA PeerBroadcasts ==
    ASSUME TypeOK, TypeOK', PeerPair, PeersKeep, Delay < Second, NEW e \in Ends, Broadcast(e)
    PROVE  PeersKeep' /\ ended' = ended
<1> DEFINE o == Other(e)
<1>1. e \in Ends /\ o \in Ends /\ o # e /\ Other(o) = e /\ \A x \in Ends : x = e \/ x = o
  BY DEF Other, Ends
<1>2. /\ async_send(e, "data") /\ net' = net /\ left' = Arm(e, "broadcast")
      /\ due' = due \ {<<e, "broadcast">>} /\ ended' = ended
  BY DEF Broadcast
<1>3. /\ left'[e].broadcast = Second /\ left'[e].heartbeat = left[e].heartbeat
      /\ left'[e].idle = left[e].idle /\ left'[o].broadcast = left[o].broadcast
      /\ left'[o].heartbeat = left[o].heartbeat /\ left'[o].idle = left[o].idle
  <2>1. Duration(e)["broadcast"] = Second BY PeerSettings
  <2>2. /\ left'[e]["broadcast"] = Duration(e)["broadcast"]
        /\ \A x \in Ends, j \in Timers : x # e \/ j # "broadcast" => left'[x][j] = left[x][j]
    <3>1. "broadcast" \in Timers BY DEF Timers
    <3> QED BY <3>1, <1>2, ArmType, Zenon
  <2> QED BY <2>1, <2>2, <1>1 DEF Timers
<1>4. Under(e)' = Under(e) + 1 /\ Since(e)' = Since(e) /\ queue'[o] = queue[o]
  BY <1>2, UnderSend, PeerSettings DEF Messages
<1>5. Under(o)' = Under(o) /\ Since(o)' = Since(o) BY <1>2, <1>4 DEF Under, Since
<1>6. Under(e) \in Nat /\ Since(e) \in Nat BY UnderType
<1> HIDE DEF o
<1>7. PICK b \in Nat, h \in Nat, i \in Nat :
          b = left[e].broadcast /\ h = left[o].heartbeat /\ i = left[e].heartbeat
  <2>1. left[e].broadcast \in Nat /\ left[o].heartbeat \in Nat /\ left[e].heartbeat \in Nat
    BY <1>1, LeftType
  <2> QED BY <2>1, Zenon
<1>8. /\ ~Beating(e)' /\ ~Idling(e)' /\ ~Beating(o)' /\ ~Idling(o)'
  BY <1>1, <1>2 DEF PeersKeep, Beating, Idling
<1>9. Heard(o, left[e].heartbeat)'
  <2>1. Heard(o, i) BY <1>1, <1>7 DEF PeersKeep, o
  <2>2. <<o, "broadcast">> \in due => <<o, "broadcast">> \in due' BY <1>1, <1>2
  <2>3. Heard(o, i)' BY <2>1, <2>2, <1>1, <1>3, <1>5, HeardSame
  <2> QED BY <2>3, <1>3, <1>7 DEF Heard
<1>10. Heard(e, left[o].heartbeat)'
  <2>1. Heard(e, h) BY <1>1, <1>7 DEF PeersKeep
  <2>2. Delay < h + Since(e) BY <2>1, <1>6, <1>7, Numbers DEF Heard
  <2>3. Under(e)' > 0 BY <1>4, <1>6
  <2> QED BY <2>2, <2>3, <1>3, <1>4, <1>7 DEF Heard
<1>11. /\ <<o, "broadcast">> \in due' \/ left'[o].broadcast > 0
       /\ left'[o].broadcast <= Second
  BY <1>1, <1>2, <1>3 DEF PeersKeep
<1>12. left'[e].broadcast <= Second /\ left'[e].broadcast > 0 BY <1>3, Numbers
<1> QED BY <1>1, <1>2, <1>3, <1>8, <1>9, <1>10, <1>11, <1>12 DEF PeersKeep, o

\* Time goes on: a broadcast comes nearer, or what was sent does.
LEMMA PeerTicks ==
    ASSUME TypeOK, TypeOK', PeerPair, PeersKeep, Delay < Second, Tick
    PROVE  PeersKeep'
<1> SUFFICES ASSUME NEW e \in Ends
             PROVE  /\ ~Beating(e)' /\ ~Idling(e)'
                    /\ left'[e].idle > left'[e].heartbeat
                    /\ left'[e].broadcast <= Second
                    /\ <<e, "broadcast">> \in due' \/ left'[e].broadcast > 0
                    /\ Heard(Other(e), left[e].heartbeat)'
  BY DEF PeersKeep
<1> DEFINE o == Other(e)
<1>1. o \in Ends /\ Other(o) = e BY DEF Other, Ends
<1>2. "idle" \in Timers /\ "heartbeat" \in Timers /\ "broadcast" \in Timers BY DEF Timers
<1>3. Under(o)' = Under(o) /\ (Under(o) > 0 => Since(o) < Delay /\ Since(o)' = Since(o) + 1)
  BY <1>1, UnderTick, PeerSettings DEF Reads
<1> HIDE DEF o
<1>4. PICK h \in Nat, i \in Nat, b \in Nat, c \in Nat, u \in Nat :
          /\ h = left[e].heartbeat /\ i = left[e].idle /\ b = left[o].broadcast
          /\ c = left[e].broadcast /\ u = Since(o)
  <2>1. /\ left[e].heartbeat \in Nat /\ left[e].idle \in Nat /\ left[o].broadcast \in Nat
        /\ left[e].broadcast \in Nat
    BY <1>1, LeftType
  <2> QED BY <2>1, <1>1, UnderType
<1>5. /\ due = {}
      /\ Beating(e)' <=> h = 1
      /\ Idling(e)' <=> i = 1
      /\ <<e, "broadcast">> \in due' <=> c = 1
      /\ <<o, "broadcast">> \in due' <=> b = 1
      /\ h > 0 => left'[e].heartbeat = h - 1
      /\ i > 0 => left'[e].idle = i - 1
      /\ c > 0 => left'[e].broadcast = c - 1
      /\ b > 0 => left'[o].broadcast = b - 1
  <2> DEFINE Goes(x, k) == /\ <<x, k>> \in due' <=> left[x][k] = 1
                           /\ left[x][k] > 0 => left'[x][k] = left[x][k] - 1
  <2>1. \A x \in Ends, k \in Timers : Goes(x, k) BY TimerTick
  <2>2. due = {} BY DEF Tick, Prompt
  <2> HIDE DEF Goes
  <2>3. /\ Goes(e, "heartbeat") /\ Goes(e, "idle") /\ Goes(e, "broadcast") /\ Goes(o, "broadcast")
    BY <2>1, <1>1, <1>2
  <2> QED BY <2>2, <2>3, <1>4 DEF Goes, Beating, Idling
<1>6. i > h /\ c <= Second /\ c > 0 /\ b > 0 /\ Heard(o, h)
  BY <1>1, <1>4, <1>5 DEF PeersKeep, o
<1>7. (Under(o) > 0 /\ Delay < h + u) \/ b + Delay < h BY <1>4, <1>5, <1>6 DEF Heard
<1>8. h > 1 /\ i > 1 BY <1>3, <1>4, <1>6, <1>7, Numbers
<1>9. Heard(o, h - 1)'
  <2>1. CASE Under(o) > 0 /\ Delay < h + u
    <3>1. Under(o)' > 0 /\ Delay < (h - 1) + Since(o)' BY <2>1, <1>3, <1>4, Numbers
    <3> QED BY <3>1 DEF Heard
  <2>2. CASE b + Delay < h /\ b = 1
    <3>1. <<o, "broadcast">> \in due' /\ Delay < h - 1 BY <2>2, <1>5, Numbers
    <3> QED BY <3>1 DEF Heard
  <2>3. CASE b + Delay < h /\ b > 1
    <3>1. left'[o].broadcast > 0 /\ left'[o].broadcast + Delay < h - 1 BY <2>3, <1>5, Numbers
    <3> QED BY <3>1 DEF Heard
  <2> QED BY <2>1, <2>2, <2>3, <1>6, <1>7
<1>10. Heard(o, left[e].heartbeat)' BY <1>5, <1>8, <1>9 DEF Heard
<1>11. left'[e].idle > left'[e].heartbeat /\ left'[e].broadcast <= Second
  BY <1>5, <1>6, <1>8, Numbers
<1>12. <<e, "broadcast">> \in due' \/ left'[e].broadcast > 0 BY <1>5, <1>6
<1> QED BY <1>5, <1>8, <1>10, <1>11, <1>12 DEF o

\* Every step keeps the peers hearing each other, and none ends the connection.
LEMMA PeerStep ==
    ASSUME TypeOK, TypeOK', PeerPair, ended = <<>>, PeersKeep, Delay < Second, [Next]_vars
    PROVE  PeersKeep' /\ ended' = <<>>
<1>1. ASSUME UNCHANGED <<left, due>>,
             \A x \in Ends : Under(x)' = Under(x) /\ Since(x)' = Since(x)
      PROVE  PeersKeep'
  <2>1. \A e \in Ends : Beating(e)' = Beating(e) /\ Idling(e)' = Idling(e)
    BY <1>1 DEF Beating, Idling
  <2>2. \A e \in Ends : \A t : Heard(e, t) => Heard(e, t)' BY <1>1 DEF Heard
  <2>3. \A e \in Ends : Other(e) \in Ends BY DEF Other, Ends
  <2> QED BY <2>1, <2>2, <2>3, <1>1 DEF PeersKeep
<1>2. ASSUME NEW e \in Ends, Write(e) PROVE PeersKeep' /\ ended' = ended
  BY <1>1, <1>2, UnderWrite DEF Write
<1>3. ASSUME NEW e \in Ends, Read(e) PROVE PeersKeep' /\ ended' = ended BY <1>3, PeerReads
<1>4. ASSUME NEW e \in Ends, IdleExpires(e) \/ HeartbeatExpires(e) PROVE FALSE
  BY <1>4 DEF IdleExpires, HeartbeatExpires, PeersKeep, Idling, Beating
<1>5. ASSUME NEW e \in Ends, Broadcast(e) PROVE PeersKeep' /\ ended' = ended
  BY <1>5, PeerBroadcasts
<1>6. ASSUME NEW e \in Ends, SendData(e) PROVE FALSE BY <1>6, PeerSettings DEF SendData
<1>7. CASE Tick BY <1>7, PeerTicks DEF Tick
<1>8. CASE UNCHANGED vars
  <2>1. \A x \in Ends : Under(x)' = Under(x) /\ Since(x)' = Since(x)
    BY <1>8 DEF vars, Under, Since
  <2> QED BY <2>1, <1>1, <1>8 DEF vars
<1> QED BY <1>2, <1>3, <1>4, <1>5, <1>6, <1>7, <1>8 DEF Next, Step

-----------------------------------------------------------------------------
(* The theorem.                                                            *)

\* The handshake has just succeeded: a client's request is under way, and the
\* peers' broadcasts are to come.
LEMMA ExamplesInit == ASSUME Init, Delay < Second PROVE XInv
<1>1. TypeOK BY PeersInit DEF PInv
<1>2. PICK n \in [Ends -> 1..Second] :
          left = [e \in Ends |-> [Duration(e) EXCEPT !.broadcast = IF @ > 0 THEN n[e] ELSE 0]]
  BY Zenon DEF Init
<1>3. \A e \in Ends : /\ Duration(e) \in [Timers -> Nat]
                      /\ Duration(e).idle = Idle(e) /\ Duration(e).heartbeat = Beat(e)
  BY <1>1, DurationType DEF TypeOK
<1>4. ASSUME NEW e \in Ends
      PROVE  /\ left[e].heartbeat = Beat(e) /\ left[e].idle = Idle(e)
             /\ left[e].broadcast = IF Duration(e).broadcast > 0 THEN n[e] ELSE 0
             /\ n[e] \in 1..Second
  BY <1>2, <1>3 DEF Timers
<1>5. due = {} /\ pinged = [e \in Ends |-> FALSE] /\ ended = <<>> BY DEF Init
<1>6. Off
  <2> SUFFICES ASSUME NEW e \in Ends, NEW k \in Timers, Duration(e)[k] = 0
               PROVE  left[e][k] = 0
    BY <1>5 DEF Off
  <2>1. Duration(e).broadcast \in Nat BY <1>3 DEF Timers
  <2> QED BY <2>1, <1>3, <1>4 DEF Timers
<1>7. ASSUME ServerPair PROVE ServerKeeps
  <2>1. "a" \in Ends /\ "b" \in Ends /\ Other("b") = "a" BY DEF Ends, Other
  <2>2. /\ net["a"] = <<>> /\ net["b"] = <<[m |-> "request", age |-> 0]>>
        /\ queue["a"] = <<>> /\ queue["b"] = <<>>
    BY <2>1, <1>7, ServerSettings DEF Init
  <2>3. Under("a") = 0 /\ Under("b") = 1 /\ First("b") = "request" /\ Since("b") = 0
    BY <2>2 DEF Under, Unread, First, At, Since, Age
  <2>4. /\ left["a"].heartbeat = 2 * Second /\ left["a"].idle = 10 * Second
        /\ left["b"].idle = Idle("b") /\ Idle("b") \in {0, 5 * Second}
    BY <2>1, <1>4, <1>7, ServerSettings
  <2>5. ~pinged["a"] /\ ~Beating("a") /\ ~Idling("a") /\ ~Idling("b")
    BY <2>1, <1>5 DEF Beating, Idling
  <2>6. Only("b", "request", left["a"].heartbeat) BY <2>1, <2>3, <2>4, Numbers DEF Only
  <2>7. Awake(2 * Delay - Since("b")) BY <2>3, <2>4, Numbers DEF Awake
  <2>8. Requested BY <2>5, <2>6, <2>7 DEF Requested
  <2> QED BY <2>4, <2>5, <2>8, Numbers DEF ServerKeeps
<1>8. ASSUME PeerPair PROVE PeersKeep
  <2> SUFFICES ASSUME NEW e \in Ends
               PROVE  /\ left[e].idle > left[e].heartbeat
                      /\ left[e].broadcast <= Second /\ left[e].broadcast > 0
                      /\ Heard(Other(e), left[e].heartbeat)
    BY <1>5 DEF PeersKeep, Beating, Idling
  <2>1. Other(e) \in Ends BY DEF Other, Ends
  <2>2. \A x \in Ends : left[x].broadcast \in 1..Second
    BY <1>4, <1>8, PeerSettings, Numbers
  <2>3. left[e].heartbeat = 3 * Second /\ left[e].idle = 10 * Second
    BY <1>4, <1>8, PeerSettings
  <2>4. PICK b \in 1..Second : b = left[Other(e)].broadcast BY <2>1, <2>2
  <2>5. b > 0 /\ b + Delay < 3 * Second BY Numbers
  <2>6. Heard(Other(e), left[e].heartbeat) BY <2>3, <2>4, <2>5 DEF Heard
  <2> QED BY <2>2, <2>3, <2>6, Numbers
<1> QED BY <1>5, <1>6, <1>7, <1>8 DEF XInv, ExamplesStayConnected

\* Every step keeps the examples connected.
LEMMA ExamplesStep ==
    ASSUME TypeOK, TypeOK', XInv, [Next]_vars, Delay < Second PROVE XInv'
<1>1. end' = end
  <2>1. "a" \in Ends BY DEF Ends
  <2> QED BY <2>1, HistoryStep
<1>2. Off' BY OffStep DEF XInv
<1>3. CASE ended # <<>>
  <2>1. ended' = ended BY <1>3, EndedStays DEF vars
  <2> QED BY <2>1, <1>1, <1>2, <1>3 DEF XInv, ExamplesStayConnected
<1>4. CASE ended = <<>>
  <2>1. ServerPair' = ServerPair /\ PeerPair' = PeerPair BY <1>1 DEF ServerPair, PeerPair
  <2>2. ServerPair => ServerKeeps' /\ ended' \in {<<>>, <<"done">>}
    BY <1>4, ServerStep DEF XInv
  <2>3. PeerPair => PeersKeep' /\ ended' = <<>> BY <1>4, PeerStep DEF XInv
  <2>4. end["a"].sends # "data" /\ end["b"].reads # "never" => ServerPair \/ PeerPair
    BY ExamplePairs DEF TypeOK
  <2>5. ExamplesStayConnected' BY <2>2, <2>3, <2>4, <1>1 DEF ExamplesStayConnected
  <2> QED BY <2>1, <2>2, <2>3, <2>5, <1>2 DEF XInv
<1> QED BY <1>3, <1>4

\* server_main.cpp keeps every client of client_main.cpp that reads, the
\* reconnecting one with its shorter idle timeout among them, and the two peers of
\* peer/main.cpp keep each other, whatever the window, as long as a message is
\* under way for less than a second: half the server's heartbeat.
THEOREM ExamplesKeepConnections ==
    ASSUME Delay < Second PROVE Spec => []ExamplesStayConnected
<1>1. Init => XInv BY ExamplesInit
<1>2. TypeOK /\ TypeOK' /\ XInv /\ [Next]_vars => XInv' BY ExamplesStep
<1>3. XInv => ExamplesStayConnected BY DEF XInv
<1> QED BY <1>1, <1>2, <1>3, PeersTypeCorrect, PTL DEF Spec

=============================================================================
