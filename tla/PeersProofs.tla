----------------------------- MODULE PeersProofs -----------------------------
(***************************************************************************)
(* What Peers promises, for any timeouts, delay, window, queue bounds and  *)
(* sessions: a silent peer is dropped after two heartbeats, and a peer     *)
(* that reads is not dropped.                                              *)
(***************************************************************************)
EXTENDS Peers, TLAPS

\* What an end has sent and the other has not read, the oldest first: the
\* messages n under way, then those of the queue q.
Unread(n, q) == Len(n) + Len(q)
At(n, q, p) == IF p <= Len(n) THEN n[p].m ELSE q[p - Len(n)]

\* How long the message at p is under way; 0 if it is still in the queue.
Age(n, p) == IF p <= Len(n) THEN n[p].age ELSE 0

\* Messages do not overtake each other.
Ordered(n) == \A i, j \in 1..Len(n) : i < j => n[j].age <= n[i].age

\* Something is under way, and arrives in less than t ticks.
Arrives(n, q, t) == Unread(n, q) > 0 /\ Delay < t + Age(n, 1)

\* A ping is under way or queued, behind w windows of messages: the message at r
\* of the present window has to be read, and that of each of the w windows after
\* it, and then the answer arrives in less than t ticks.
PingArrives(n, q, t) ==
    \E w \in Nat, r \in 1..Window :
        /\ w * Window + r <= Unread(n, q)
        /\ At(n, q, w * Window + r) = "ping"
        /\ w * Delay + 2 * Delay < t + Age(n, r)

\* An end that has sent n and q, and has no and qo to read, reads something in
\* less than t ticks.
InTime(n, q, no, qo, t) == Arrives(no, qo, t) \/ PingArrives(n, q, t)
OnTime(e, t) == InTime(net[e], queue[e], net[Other(e)], queue[Other(e)], t)

Beat(e) == end[e].set.heartbeat
Idle(e) == end[e].set.idle

\* The heartbeat timer always runs, and silence and what is left of the interval
\* add up to one interval, or to two once the ping is out.
Counting(e) ==
    /\ <<e, "heartbeat">> \in due \/ left[e].heartbeat > 0
    /\ quiet[e] + left[e].heartbeat <= IF pinged[e] THEN 2 * Beat(e) ELSE Beat(e)

\* The other end reads, and the heartbeat leaves time for a round trip.
Watches(e) ==
    /\ end[Other(e)].reads # "never"
    /\ Beat(e) > RoundTrip(e)
    /\ <<e, "ping">> \notin refused

\* Once the ping is out, e reads something before its heartbeat expires again.
BeatInTime(e) ==
    pinged[e] => <<e, "heartbeat">> \notin due /\ OnTime(e, left[e].heartbeat)

\* The idle timer has more left than the heartbeat timer by as much as it is
\* longer; and once the ping is out, e reads something before it is idle.
IdleInTime(e) ==
    Idle(e) > Beat(e) + RoundTrip(e) =>
        /\ <<e, "idle">> \notin due
        /\ IF pinged[e] THEN OnTime(e, left[e].idle)
           ELSE left[e].idle + Beat(e) >= Idle(e) + left[e].heartbeat

Kept(e) == BeatInTime(e) /\ IdleInTime(e)

\* The inductive invariant.
PInv ==
    /\ TypeOK
    /\ \A e \in Ends : Ordered(net[e])
    /\ \A e \in Ends : ended = <<>> /\ Beat(e) > 0 => Counting(e)
    /\ \A e \in Ends : ended = <<>> /\ Watches(e) => Kept(e)
    /\ SilenceBounded
    /\ LivePeerKept

-----------------------------------------------------------------------------

\* The constants that are numbers.
LEMMA Numbers ==
    /\ Second \in Nat \ {0} /\ Delay \in Nat /\ Window \in Nat \ {0}
    /\ MaxData \in Nat /\ MaxQuiet \in Nat
BY PeersAssumption

(* The ends.                                                               *)

Programs ==
    [set : Settings, reads : {"async", "sync", "never"},
     sends : {"replies", "request", "nothing", "broadcasts", "data"}]

\* apply_caps keeps a settings record one.
LEMMA CapsType == ASSUME NEW s \in Settings PROVE apply_caps(s) \in Settings
BY DEF apply_caps, Settings, NoSettings

\* Every end runs a program, and one with a heartbeat reads asynchronously.
LEMMA PairsType ==
    ASSUME NEW p \in Pairs, NEW e \in Ends
    PROVE  p[e] \in Programs /\ (p[e].set.heartbeat > 0 => p[e].reads = "async")
<1> USE DEF Ends, Programs
<1>1. server \in Programs /\ server.reads = "async"
  BY CapsType, PeersAssumption DEF server, Program, Settings
<1>2. peer \in Programs /\ peer.reads = "async"
  BY CapsType, PeersAssumption DEF peer, Program, Settings
<1>3. \A c \in {run_sync_client, run_async_client, run_silent_client} :
          c \in Programs /\ c.set.heartbeat = 0
  BY DEF run_sync_client, run_async_client, run_silent_client, Program, Settings, NoSettings
<1>4. run_reconnect_client \in Programs /\ run_reconnect_client.reads = "async"
  <2>1. NoSettings \in Settings BY DEF NoSettings, Settings
  <2>2. do_connect(NoSettings, 5 * Second) \in Settings
    BY <2>1, CapsType, PeersAssumption DEF do_connect, Settings
  <2> QED BY <2>2 DEF run_reconnect_client, Program
<1>5. ASSUME NEW s \in Settings PROVE Session(s) \in Programs /\ Session(s).reads = "async"
  BY CapsType DEF Session, Program
<1>6. \A d \in Sessions : d.a \in Settings /\ d.b \in Settings
  BY PeersAssumption
<1> QED BY <1>1, <1>2, <1>3, <1>4, <1>5, <1>6 DEF Pairs

-----------------------------------------------------------------------------
(* What each step does to the messages an end has sent.                    *)

Sent == [m : Messages, age : 0..Delay]

\* What \div and % are about.
LEMMA Division ==
    ASSUME NEW n \in Nat, NEW d \in Nat \ {0}
    PROVE  /\ n \div d \in Nat /\ n % d \in 0..(d - 1)
           /\ n = (n \div d) * d + (n % d)
<1>1. n \div d \in Nat OBVIOUS
<1>2. n % d \in 0..(d - 1) OBVIOUS
<1>3. n = (n \div d) * d + (n % d) OBVIOUS
<1> QED BY <1>1, <1>2, <1>3

\* A position in windows is a position.
LEMMA Position ==
    ASSUME NEW w \in Nat, NEW r \in 1..Window
    PROVE  w * Window \in Nat /\ w * Window + r \in Nat \ {0} /\ w * Delay \in Nat
BY Numbers

\* A message that goes out keeps its place.
LEMMA WriteKeeps ==
    ASSUME NEW n \in Seq(Sent), NEW q \in Seq(Messages), NEW t \in Nat,
           q # <<>>, Len(n) < Window,
           NEW n2, n2 = Append(n, [m |-> Head(q), age |-> 0])
    PROVE  /\ Arrives(n, q, t) => Arrives(n2, Tail(q), t)
           /\ PingArrives(n, q, t) => PingArrives(n2, Tail(q), t)
<1>1. n2 \in Seq(Sent) /\ Len(n2) = Len(n) + 1 /\ \A i \in 1..Len(n) : n2[i] = n[i]
  BY Numbers DEF Sent
<1>2. n2[Len(n) + 1].m = q[1] /\ n2[Len(n) + 1].age = 0
  BY DEF Sent
<1>3. Len(Tail(q)) = Len(q) - 1 /\ \A i \in 1..Len(Tail(q)) : Tail(q)[i] = q[i + 1]
  OBVIOUS
<1>4. Unread(n2, Tail(q)) = Unread(n, q) /\ Unread(n, q) \in Nat
  BY <1>1, <1>3 DEF Unread
<1>5. \A r \in Nat \ {0} : Age(n2, r) = Age(n, r)
  BY <1>1, <1>2 DEF Age
<1>6. ASSUME NEW p \in Nat \ {0}, p <= Unread(n, q)
      PROVE  At(n2, Tail(q), p) = At(n, q, p)
  <2>1. CASE p <= Len(n) BY <2>1, <1>1 DEF At
  <2>2. CASE p = Len(n) + 1 BY <2>2, <1>1, <1>2 DEF At
  <2>3. CASE p > Len(n) + 1
    <3>1. p - Len(n2) \in 1..Len(Tail(q)) /\ p - Len(n2) + 1 = p - Len(n)
      BY <2>3, <1>1, <1>3, <1>6 DEF Unread
    <3> QED BY <3>1, <2>3, <1>1, <1>3 DEF At
  <2> QED BY <2>1, <2>2, <2>3
<1>7. Arrives(n, q, t) => Arrives(n2, Tail(q), t)
  BY <1>4, <1>5 DEF Arrives
<1>8. ASSUME PingArrives(n, q, t) PROVE PingArrives(n2, Tail(q), t)
  <2>1. PICK w \in Nat, r \in 1..Window :
            /\ w * Window + r <= Unread(n, q)
            /\ At(n, q, w * Window + r) = "ping"
            /\ w * Delay + 2 * Delay < t + Age(n, r)
    BY <1>8 DEF PingArrives
  <2>2. w * Window + r \in Nat \ {0} BY Position, Zenon
  <2>5. r \in Nat \ {0} BY Numbers
  <2>3. At(n2, Tail(q), w * Window + r) = "ping" BY <2>1, <2>2, <1>6
  <2>4. Age(n2, r) = Age(n, r) BY <2>5, <1>5
  <2> QED BY <2>1, <2>3, <2>4, <1>4 DEF PingArrives
<1> QED BY <1>7, <1>8

\* A message that is queued goes behind the others.
LEMMA SendKeeps ==
    ASSUME NEW n \in Seq(Sent), NEW q \in Seq(Messages), NEW t \in Nat, NEW m \in Messages
    PROVE  /\ Arrives(n, q, t) => Arrives(n, Append(q, m), t)
           /\ PingArrives(n, q, t) => PingArrives(n, Append(q, m), t)
<1> DEFINE q2 == Append(q, m)
<1>1. Len(q2) = Len(q) + 1 /\ \A i \in 1..Len(q) : q2[i] = q[i] OBVIOUS
<1> HIDE DEF q2
<1>2. Unread(n, q) \in Nat /\ Unread(n, q2) = Unread(n, q) + 1 BY <1>1 DEF Unread
<1>3. Arrives(n, q, t) => Arrives(n, q2, t)
  BY <1>2 DEF Arrives
<1>4. ASSUME PingArrives(n, q, t) PROVE PingArrives(n, q2, t)
  <2>1. PICK w \in Nat, r \in 1..Window :
            /\ w * Window + r <= Unread(n, q)
            /\ At(n, q, w * Window + r) = "ping"
            /\ w * Delay + 2 * Delay < t + Age(n, r)
    BY <1>4 DEF PingArrives
  <2>2. PICK p \in Nat \ {0} : p = w * Window + r BY Position, Zenon
  <2>5. At(n, q, p) = "ping" /\ p <= Unread(n, q) BY <2>1, <2>2, Zenon
  <2>3. At(n, q2, p) = "ping"
    <3>1. CASE p <= Len(n) BY <3>1, <2>5 DEF At
    <3>2. CASE ~(p <= Len(n))
      <4>1. p - Len(n) \in 1..Len(q) BY <3>2, <2>5 DEF Unread
      <4> QED BY <3>2, <4>1, <2>5, <1>1 DEF At
    <3> QED BY <3>1, <3>2
  <2>4. p <= Unread(n, q2) BY <2>1, <2>2, <1>2
  <2> QED BY <2>1, <2>2, <2>3, <2>4 DEF PingArrives
<1> QED BY <1>3, <1>4 DEF q2

\* The other end reads the ping, or one message fewer is in front of it.
LEMMA ReadKeeps ==
    ASSUME NEW n \in Seq(Sent), NEW q \in Seq(Messages), NEW t \in Nat,
           n # <<>>, Len(n) <= Window, PingArrives(n, q, t)
    PROVE  (Head(n).m = "ping" /\ Delay < t) \/ PingArrives(Tail(n), q, t)
<1>1. PICK w \in Nat, r \in 1..Window :
          /\ w * Window + r <= Unread(n, q)
          /\ At(n, q, w * Window + r) = "ping"
          /\ w * Delay + 2 * Delay < t + Age(n, r)
  BY DEF PingArrives
<1>2. PICK p \in Nat \ {0} : p = w * Window + r BY Position, Zenon
<1>3. Len(Tail(n)) = Len(n) - 1 /\ \A i \in 1..Len(Tail(n)) : Tail(n)[i] = n[i + 1]
  OBVIOUS
<1>4. Unread(Tail(n), q) = Unread(n, q) - 1 /\ Unread(n, q) \in Nat
  BY <1>3 DEF Unread
<1>5. p > 1 => At(Tail(n), q, p - 1) = "ping"
  <2>1. CASE p <= Len(n)
    <3>1. p > 1 => p - 1 \in 1..Len(Tail(n)) BY <2>1, <1>3
    <3> QED BY <3>1, <2>1, <1>1, <1>2, <1>3 DEF At
  <2>2. CASE p > Len(n)
    <3>1. p - 1 - Len(Tail(n)) = p - Len(n) BY <1>3
    <3> QED BY <3>1, <2>2, <1>1, <1>2, <1>3 DEF At
  <2> QED BY <2>1, <2>2
<1>6. CASE r > 1
  <2>1. Age(Tail(n), r - 1) = Age(n, r)
    BY <1>3, <1>6, Numbers DEF Age
  <2>2. w * Window + (r - 1) = p - 1 /\ p > 1 /\ r - 1 \in 1..Window
    <3>1. w * Window \in Nat BY Position, Zenon
    <3> QED BY <3>1, <1>2, <1>6, Numbers
  <2> QED BY <2>1, <2>2, <1>1, <1>2, <1>4, <1>5 DEF PingArrives
<1>7. CASE r = 1 /\ w = 0
  <2>1. p = 1 BY <1>2, <1>7, Numbers
  <2>2. Head(n).m = "ping" /\ Age(n, r) = n[1].age /\ n[1] \in Sent
    BY <2>1, <1>1, <1>2, <1>7 DEF At, Age
  <2>3. n[1].age \in Nat /\ n[1].age <= Delay BY <2>2, Numbers DEF Sent
  <2>4. 2 * Delay < t + n[1].age BY <1>1, <1>7, <2>2, Numbers
  <2> QED BY <2>2, <2>3, <2>4, Numbers
<1>8. CASE r = 1 /\ w > 0
  <2>1. w - 1 \in Nat /\ (w - 1) * Window + Window = p - 1 /\ p > 1
    BY <1>2, <1>8, Position, Numbers
  <2>2. (w - 1) * Delay = w * Delay - Delay /\ w * Delay \in Nat
    BY <1>8, Position, Numbers
  <2>3. Age(Tail(n), Window) = 0 BY <1>3, Numbers DEF Age
  <2>4. Age(n, r) \in Nat /\ Age(n, r) <= Delay
    <3>1. n[1] \in Sent OBVIOUS
    <3> QED BY <3>1, <1>8, Numbers DEF Age, Sent
  <2>5. (w - 1) * Delay + 2 * Delay < t + Age(Tail(n), Window)
    BY <1>1, <2>2, <2>3, <2>4, Numbers
  <2>6. (w - 1) * Window + Window <= Unread(Tail(n), q)
    BY <2>1, <1>1, <1>2, <1>4
  <2>7. At(Tail(n), q, (w - 1) * Window + Window) = "ping"
    BY <2>1, <1>5
  <2>8. Window \in 1..Window BY Numbers
  <2> QED BY <2>1, <2>5, <2>6, <2>7, <2>8 DEF PingArrives
<1> QED BY <1>6, <1>7, <1>8

\* What is queued is unread.
LEMMA SomeUnread ==
    ASSUME NEW n \in Seq(Sent), NEW q \in Seq(Messages), q # <<>> PROVE Unread(n, q) > 0
BY DEF Unread

\* Whatever the other end reads, what comes after it is still under way.
LEMMA AnswerArrives ==
    ASSUME NEW n \in Seq(Sent), NEW q \in Seq(Messages), NEW t \in Nat,
           Unread(n, q) > 0, Delay < t
    PROVE  Arrives(n, q, t)
<1>1. Age(n, 1) \in Nat
  <2>1. CASE 1 <= Len(n)
    <3>1. n[1] \in Sent BY <2>1
    <3> QED BY <3>1, <2>1, Numbers DEF Age, Sent
  <2>2. CASE ~(1 <= Len(n)) BY <2>2 DEF Age
  <2> QED BY <2>1, <2>2
<1> QED BY <1>1, Numbers DEF Arrives

Older(n) == [i \in DOMAIN n |-> [n[i] EXCEPT !.age = IF @ < Delay THEN @ + 1 ELSE @]]

\* The messages under way stay messages.
LEMMA OlderType ==
    ASSUME NEW n \in Seq(Sent) PROVE Len(Older(n)) = Len(n) /\ Older(n) \in Seq(Sent)
<1>1. ASSUME NEW S, NEW k \in Nat, NEW f \in [1..k -> S] PROVE Len(f) = k /\ f \in Seq(S)
  OBVIOUS
<1>2. ASSUME NEW i \in DOMAIN n
      PROVE  [n[i] EXCEPT !.age = IF @ < Delay THEN @ + 1 ELSE @] \in Sent
  <2>1. n[i] \in Sent OBVIOUS
  <2>2. ASSUME NEW a \in 0..Delay PROVE (IF a < Delay THEN a + 1 ELSE a) \in 0..Delay
    BY Numbers
  <2>3. (IF n[i].age < Delay THEN n[i].age + 1 ELSE n[i].age) \in 0..Delay
    BY <2>1, <2>2, Zenon DEF Sent
  <2> QED BY <2>1, <2>3, Zenon DEF Sent
<1>3. Older(n) \in [1..Len(n) -> Sent] BY <1>2 DEF Older
<1> QED BY <1>1, <1>3

\* A tick brings what is under way nearer, if the other end reads.
LEMMA TickKeeps ==
    ASSUME NEW n \in Seq(Sent), NEW q \in Seq(Messages), NEW t \in Nat,
           Ordered(n), Len(n) <= Window, q # <<>> => Len(n) = Window,
           n # <<>> => Head(n).age < Delay
    PROVE  /\ Arrives(n, q, t) => t >= 2 /\ Arrives(Older(n), q, t - 1)
           /\ PingArrives(n, q, t) => t >= 2 /\ PingArrives(Older(n), q, t - 1)
<1>1. Len(Older(n)) = Len(n) /\ Older(n) \in Seq(Sent)
  BY OlderType
<1>2. ASSUME NEW r \in 1..Len(n)
      PROVE  /\ Older(n)[r].m = n[r].m /\ Older(n)[r].age = n[r].age + 1
             /\ n[r].age \in Nat /\ n[r].age < Delay
  <2>1. 1 \in 1..Len(n) /\ n[1].age < Delay /\ n[1] \in Sent /\ n[r] \in Sent
    OBVIOUS
  <2>2. n[r].age <= n[1].age BY <2>1, Numbers DEF Ordered, Sent
  <2>3. n[r].age \in Nat /\ n[r].age < Delay BY <2>1, <2>2, Numbers DEF Sent
  <2> QED BY <2>1, <2>3 DEF Older, Sent
<1>3. Unread(Older(n), q) = Unread(n, q) /\ Unread(n, q) \in Nat BY <1>1 DEF Unread
<1>4. ASSUME NEW r \in 1..Len(n)
      PROVE  /\ Age(n, r) \in Nat /\ Age(n, r) < Delay
             /\ Age(Older(n), r) = Age(n, r) + 1
  BY <1>1, <1>2 DEF Age
<1>5. ASSUME Arrives(n, q, t) PROVE t >= 2 /\ Arrives(Older(n), q, t - 1)
  <2>1. 1 \in 1..Len(n)
    BY <1>5, Numbers DEF Arrives, Unread
  <2> QED BY <2>1, <1>3, <1>4, <1>5, Numbers DEF Arrives
<1>6. ASSUME PingArrives(n, q, t) PROVE t >= 2 /\ PingArrives(Older(n), q, t - 1)
  <2>1. PICK w \in Nat, r \in 1..Window :
            /\ w * Window + r <= Unread(n, q)
            /\ At(n, q, w * Window + r) = "ping"
            /\ w * Delay + 2 * Delay < t + Age(n, r)
    BY <1>6 DEF PingArrives
  <2>2. w * Window \in Nat /\ w * Window + r \in Nat \ {0} /\ w * Delay \in Nat
    BY Position, Zenon
  <2>3. r \in 1..Len(n)
    <3>1. CASE q = <<>> BY <3>1, <2>1, <2>2, Numbers DEF Unread
    <3>2. CASE q # <<>> BY <3>2, Numbers
    <3> QED BY <3>1, <3>2
  <2>4. At(Older(n), q, w * Window + r) = "ping"
    <3>1. PICK p \in Nat \ {0} : p = w * Window + r BY <2>2
    <3> QED BY <3>1, <2>1, <1>1, <1>2 DEF At
  <2>5. t >= 2 /\ w * Delay + 2 * Delay < (t - 1) + Age(Older(n), r)
    <3>1. PICK x \in Nat : x = w * Delay BY <2>2
    <3>2. x + 2 * Delay < t + Age(n, r) BY <3>1, <2>1
    <3>3. Age(n, r) \in Nat /\ Age(n, r) < Delay /\ Age(Older(n), r) = Age(n, r) + 1
      BY <2>3, <1>4
    <3>4. t >= 2 /\ x + 2 * Delay < (t - 1) + Age(Older(n), r)
      BY <3>2, <3>3, Numbers
    <3> QED BY <3>1, <3>4
  <2> QED BY <2>1, <2>4, <2>5, <1>3 DEF PingArrives
<1> QED BY <1>5, <1>6

\* A ping that is queued arrives after the windows in front of it.
LEMMA PingKeeps ==
    ASSUME NEW n \in Seq(Sent), NEW q \in Seq(Messages), NEW t \in Nat,
           (Unread(n, q) \div Window) * Delay + 2 * Delay < t
    PROVE  PingArrives(n, Append(q, "ping"), t)
<1> DEFINE q2 == Append(q, "ping")
           w == Unread(n, q) \div Window
           r == (Unread(n, q) % Window) + 1
<1>1. Unread(n, q) \in Nat /\ Unread(n, q2) = Unread(n, q) + 1 BY DEF Unread
<1>2. w \in Nat /\ r \in 1..Window /\ w * Window + r = Unread(n, q) + 1
  <2>1. PICK u \in Nat : u = Unread(n, q) BY <1>1
  <2>2. /\ u \div Window \in Nat /\ u % Window \in 0..(Window - 1)
        /\ u = (u \div Window) * Window + (u % Window)
    BY Division, Numbers, Zenon
  <2>3. w = u \div Window /\ r = (u % Window) + 1 BY <2>1
  <2>4. PICK z \in 0..(Window - 1) : z = u % Window BY <2>2
  <2> HIDE DEF w, r
  <2>5. w \in Nat /\ u = w * Window + z /\ r = z + 1 BY <2>2, <2>3, <2>4
  <2>6. PICK x \in Nat : x = w * Window BY <2>5, Numbers
  <2> QED BY <2>1, <2>5, <2>6, Numbers
<1>3. At(n, q2, Unread(n, q) + 1) = "ping" BY DEF At, Unread
<1>4. Age(n, r) \in Nat
  <2>1. CASE r <= Len(n)
    <3>1. n[r] \in Sent BY <2>1, <1>2
    <3> QED BY <3>1, <2>1, Numbers DEF Age, Sent
  <2>2. CASE ~(r <= Len(n)) BY <2>2 DEF Age
  <2> QED BY <2>1, <2>2
<1> HIDE DEF w, r, q2
<1>5. w * Delay + 2 * Delay < t + Age(n, r)
  <2>1. w * Delay + 2 * Delay < t BY DEF w
  <2>2. w * Delay \in Nat BY <1>2, Numbers
  <2> QED BY <2>1, <2>2, <1>4, Numbers
<1>6. PingArrives(n, q2, t) BY <1>1, <1>2, <1>3, <1>5 DEF PingArrives
<1> QED BY <1>6 DEF q2

-----------------------------------------------------------------------------
(* Types, and the order of the messages.                                   *)

\* Every timer has a duration.
LEMMA DurationType ==
    ASSUME end \in Pairs, NEW e \in Ends
    PROVE  /\ Duration(e) \in [Timers -> Nat]
           /\ Duration(e).idle = Idle(e) /\ Duration(e).heartbeat = Beat(e)
           /\ Idle(e) \in Nat /\ Beat(e) \in Nat
<1>1. end[e] \in Programs BY PairsType
<1>2. Idle(e) \in Nat /\ Beat(e) \in Nat BY <1>1 DEF Programs, Settings, Idle, Beat
<1>3. Duration(e) \in [Timers -> Nat]
  BY <1>2, Numbers DEF Duration, Timers, Idle, Beat
<1> QED BY <1>2, <1>3 DEF Duration, Idle, Beat

\* What async_send does: the message is last in its queue, or refused by a queue
\* that is not empty.
LEMMA SendType ==
    ASSUME TypeOK, NEW e \in Ends, NEW m \in Messages, async_send(e, m)
    PROVE  /\ queue' \in [Ends -> Seq(Messages)]
           /\ refused' \subseteq Ends \X Messages /\ refused \subseteq refused'
           /\ \A x \in Ends : queue'[x] = queue[x] \/ (x = e /\ queue'[x] = Append(queue[x], m))
           /\ queue'[e] # <<>>
           /\ <<e, m>> \notin refused' => queue'[e] = Append(queue[e], m)
<1>1. CASE QueueFull(e)
  <2>1. end[e].set.cap \in Nat BY PairsType DEF TypeOK, Programs, Settings
  <2>2. queue[e] # <<>>
    <3>1. queue[e] \in Seq(Messages) BY DEF TypeOK
    <3> QED BY <1>1, <2>1, <3>1 DEF QueueFull
  <2>3. queue' = queue /\ refused' = refused \cup {<<e, m>>} BY <1>1 DEF async_send
  <2> QED BY <2>2, <2>3 DEF TypeOK
<1>2. CASE ~QueueFull(e)
  <2>1. queue' = [queue EXCEPT ![e] = Append(@, m)] /\ refused' = refused
    BY <1>2 DEF async_send
  <2>2. queue[e] \in Seq(Messages) BY DEF TypeOK
  <2>3. Append(queue[e], m) \in Seq(Messages) /\ Append(queue[e], m) # <<>>
    BY <2>2
  <2>4. queue'[e] = Append(queue[e], m) /\ \A x \in Ends : x # e => queue'[x] = queue[x]
    BY <2>1 DEF TypeOK
  <2>5. queue' \in [Ends -> Seq(Messages)] BY <2>1, <2>3 DEF TypeOK
  <2> QED BY <2>1, <2>3, <2>4, <2>5 DEF TypeOK
<1> QED BY <1>1, <1>2

\* reset_timers keeps the types and arms both timers.
LEMMA ResetType ==
    ASSUME TypeOK, NEW e \in Ends, reset_timers(e)
    PROVE  /\ left' \in [Ends -> [Timers -> Nat]] /\ pinged' \in [Ends -> BOOLEAN]
           /\ left'[e].idle = Idle(e) /\ left'[e].heartbeat = Beat(e) /\ ~pinged'[e]
           /\ \A x \in Ends : x # e => left'[x] = left[x] /\ pinged'[x] = pinged[x]
<1>1. Idle(e) \in Nat /\ Beat(e) \in Nat BY DurationType DEF TypeOK
<1>2. left' = [left EXCEPT ![e].idle = Idle(e), ![e].heartbeat = Beat(e)]
  BY DurationType, Zenon DEF TypeOK, reset_timers
<1>3. left' \in [Ends -> [Timers -> Nat]] BY <1>1, <1>2, Zenon DEF TypeOK, Timers
<1>4. left'[e].idle = Idle(e) /\ left'[e].heartbeat = Beat(e)
  BY <1>2 DEF TypeOK, Timers
<1>5. \A x \in Ends : x # e => left'[x] = left[x] BY <1>2 DEF TypeOK
<1>6. /\ pinged' \in [Ends -> BOOLEAN] /\ ~pinged'[e]
      /\ \A x \in Ends : x # e => pinged'[x] = pinged[x]
  BY DEF TypeOK, reset_timers
<1> QED BY <1>3, <1>4, <1>5, <1>6

\* Arming a timer keeps the types and leaves the others alone.
LEMMA ArmType ==
    ASSUME TypeOK, NEW e \in Ends, NEW k \in Timers, left' = Arm(e, k)
    PROVE  /\ left' \in [Ends -> [Timers -> Nat]]
           /\ left'[e][k] = Duration(e)[k]
           /\ \A x \in Ends, j \in Timers : x # e \/ j # k => left'[x][j] = left[x][j]
BY DurationType, Zenon DEF TypeOK, Arm

\* Every step keeps the types.
LEMMA PeersTypeStep == TypeOK /\ [Next]_vars => TypeOK'
<1> SUFFICES ASSUME TypeOK, [Next]_vars PROVE TypeOK' OBVIOUS
<1> USE DEF Sent
<1>1. ASSUME NEW e \in Ends, Write(e) PROVE TypeOK'
  <2>1. net[e] \in Seq(Sent) /\ queue[e] \in Seq(Messages) /\ queue[e] # <<>>
    BY <1>1, Zenon DEF TypeOK, Write
  <2>2. Head(queue[e]) \in Messages /\ Tail(queue[e]) \in Seq(Messages) BY <2>1
  <2>3. /\ Append(net[e], [m |-> Head(queue[e]), age |-> 0]) \in Seq(Sent)
        /\ Len(Append(net[e], [m |-> Head(queue[e]), age |-> 0])) = Len(net[e]) + 1
    BY <2>1, <2>2, Numbers
  <2>4. net' \in [Ends -> Seq(Sent)] /\ \A x \in Ends : Len(net'[x]) <= Window
    <3>1. net' = [net EXCEPT ![e] = Append(@, [m |-> Head(queue[e]), age |-> 0])]
      BY <1>1 DEF Write
    <3>2. net' \in [Ends -> Seq(Sent)] BY <3>1, <2>3, Zenon DEF TypeOK
    <3>3. Len(net[e]) \in Nat /\ Len(net[e]) < Window BY <1>1, <2>1 DEF Write
    <3>4. Len(net'[e]) <= Window BY <3>1, <3>3, <2>3, Numbers DEF TypeOK
    <3>5. \A x \in Ends : x # e => net'[x] = net[x] BY <3>1 DEF TypeOK
    <3> QED BY <3>2, <3>4, <3>5, Zenon DEF TypeOK
  <2>5. queue' \in [Ends -> Seq(Messages)] BY <1>1, <2>2 DEF TypeOK, Write
  <2> QED BY <1>1, <2>4, <2>5, Zenon DEF TypeOK, Write
<1>2. ASSUME NEW e \in Ends, Read(e) PROVE TypeOK'
  <2>1. Other(e) \in Ends BY DEF Other, Ends
  <2>2. net[Other(e)] \in Seq(Sent) /\ net[Other(e)] # <<>>
    BY <1>2, <2>1, Zenon DEF TypeOK, Read
  <2>3. /\ Tail(net[Other(e)]) \in Seq(Sent)
        /\ Len(Tail(net[Other(e)])) = Len(net[Other(e)]) - 1
        /\ Len(net[Other(e)]) \in Nat
    BY <2>2
  <2>4. net' \in [Ends -> Seq(Sent)] /\ \A x \in Ends : Len(net'[x]) <= Window
    <3>1. net' = [net EXCEPT ![Other(e)] = Tail(@)] BY <1>2 DEF Read
    <3>2. net' \in [Ends -> Seq(Sent)] BY <3>1, <2>3, Zenon DEF TypeOK
    <3>3. Len(net'[Other(e)]) <= Window BY <3>1, <2>1, <2>3, Numbers DEF TypeOK
    <3>4. \A x \in Ends : x # Other(e) => net'[x] = net[x] BY <3>1 DEF TypeOK
    <3> QED BY <3>2, <3>3, <3>4, Zenon DEF TypeOK
  <2>5. queue' \in [Ends -> Seq(Messages)] /\ refused' \subseteq Ends \X Messages
    <3>1. Answer(e, Head(net[Other(e)]).m) BY <1>2 DEF Read
    <3>2. CASE \E m \in {"pong", "response"} : async_send(e, m)
      BY <3>2, SendType, Zenon DEF Messages
    <3>3. CASE UNCHANGED <<queue, refused>> BY <3>3 DEF TypeOK
    <3> QED BY <3>1, <3>2, <3>3 DEF Answer
  <2>6. left' \in [Ends -> [Timers -> Nat]] /\ pinged' \in [Ends -> BOOLEAN]
    BY <1>2, ResetType DEF Read
  <2>7. answered' \in BOOLEAN /\ ended' \in {<<>>, <<"done">>} \cup Ends \X Timers
    BY <1>2 DEF TypeOK, Read
  <2>8. quiet' \in [Ends -> 0..MaxQuiet] BY <1>2, Numbers DEF TypeOK, Read
  <2> QED BY <1>2, <2>4, <2>5, <2>6, <2>7, <2>8, Zenon DEF TypeOK, Read
<1>3. ASSUME NEW e \in Ends, IdleExpires(e) PROVE TypeOK'
  BY <1>3, Zenon DEF TypeOK, IdleExpires, Timers
<1>4. ASSUME NEW e \in Ends, HeartbeatExpires(e) PROVE TypeOK'
  <2>1. CASE pinged[e] BY <1>4, <2>1, Zenon DEF TypeOK, HeartbeatExpires, Timers
  <2>2. CASE ~pinged[e]
    <3>1. queue' \in [Ends -> Seq(Messages)] /\ refused' \subseteq Ends \X Messages
      BY <1>4, <2>2, SendType, Zenon DEF HeartbeatExpires, Messages
    <3>2. left' \in [Ends -> [Timers -> Nat]]
      BY <1>4, <2>2, ArmType DEF HeartbeatExpires, Timers
    <3>3. Windows(e) \in Nat
      <4>1. Len(net[e]) + Len(queue[e]) \in Nat BY DEF TypeOK
      <4> QED BY <4>1, Division, Numbers, Zenon DEF Windows
    <3>4. ahead' \in [Ends -> Nat]
      <4>1. ahead' = [ahead EXCEPT ![e] = IF Windows(e) > @ THEN Windows(e) ELSE @]
        BY <1>4, <2>2, Zenon DEF HeartbeatExpires, Ahead
      <4> QED BY <3>3, <4>1, Zenon DEF TypeOK
    <3> QED BY <1>4, <2>2, <3>1, <3>2, <3>4, Zenon DEF TypeOK, HeartbeatExpires
  <2> QED BY <2>1, <2>2
<1>5. ASSUME NEW e \in Ends, Broadcast(e) PROVE TypeOK'
  <2>1. queue' \in [Ends -> Seq(Messages)] /\ refused' \subseteq Ends \X Messages
    BY <1>5, SendType, Zenon DEF Broadcast, Messages
  <2>2. left' \in [Ends -> [Timers -> Nat]] BY <1>5, ArmType DEF Broadcast, Timers
  <2> QED BY <1>5, <2>1, <2>2, Zenon DEF TypeOK, Broadcast
<1>6. ASSUME NEW e \in Ends, SendData(e) PROVE TypeOK'
  <2>1. queue' \in [Ends -> Seq(Messages)] /\ refused' \subseteq Ends \X Messages
    BY <1>6, SendType, Zenon DEF SendData, Messages
  <2> QED BY <1>6, <2>1, Zenon DEF TypeOK, SendData
<1>7. ASSUME Tick PROVE TypeOK'
  <2>1. left' \in [Ends -> [Timers -> Nat]] BY <1>7 DEF TypeOK, Tick
  <2>2. net' = [e \in Ends |-> Older(net[e])] BY <1>7 DEF Tick, Older
  <2>3. net' \in [Ends -> Seq(Sent)] /\ \A e \in Ends : Len(net'[e]) <= Window
    BY <2>2, OlderType, Zenon DEF TypeOK
  <2>4. quiet' \in [Ends -> 0..MaxQuiet] BY <1>7, Numbers DEF TypeOK, Tick
  <2>5. due' \subseteq Ends \X Timers BY <1>7 DEF Tick
  <2> QED BY <1>7, <2>1, <2>3, <2>4, <2>5, Zenon DEF TypeOK, Tick
<1>8. CASE UNCHANGED vars BY <1>8, Zenon DEF TypeOK, vars
<1> QED BY <1>1, <1>2, <1>3, <1>4, <1>5, <1>6, <1>7, <1>8 DEF Next, Step

\* Messages are read in the order they were written.
LEMMA OrderStep ==
    ASSUME TypeOK, \A e \in Ends : Ordered(net[e]), [Next]_vars
    PROVE  \A e \in Ends : Ordered(net'[e])
<1>1. ASSUME NEW n \in Seq(Sent), Ordered(n), NEW m \in Messages
      PROVE  Ordered(Append(n, [m |-> m, age |-> 0]))
  <2> DEFINE n2 == Append(n, [m |-> m, age |-> 0])
  <2>1. Len(n2) = Len(n) + 1 /\ n2[Len(n) + 1].age = 0 /\ \A i \in 1..Len(n) : n2[i] = n[i]
    BY <1>1 DEF Sent
  <2>2. \A i \in 1..Len(n) : n[i].age >= 0
    <3>1. \A i \in 1..Len(n) : n[i] \in Sent BY <1>1
    <3> QED BY <3>1, Numbers DEF Sent
  <2> HIDE DEF n2
  <2>3. Ordered(n2) BY <2>1, <2>2, <1>1 DEF Ordered
  <2> QED BY <2>3 DEF n2
<1>2. ASSUME NEW n \in Seq(Sent), Ordered(n), n # <<>> PROVE Ordered(Tail(n))
  BY <1>2 DEF Ordered
<1>3. ASSUME NEW n \in Seq(Sent), Ordered(n) PROVE Ordered(Older(n))
  <2>1. Len(Older(n)) = Len(n) BY OlderType
  <2>2. \A i \in 1..Len(n) :
            n[i].age \in 0..Delay /\ Older(n)[i].age = IF n[i].age < Delay THEN n[i].age + 1 ELSE n[i].age
    <3>1. \A i \in 1..Len(n) : n[i] \in Sent BY <1>3
    <3>2. \A i \in 1..Len(n) : n[i].age \in 0..Delay BY <3>1 DEF Sent
    <3>3. \A i \in 1..Len(n) :
              Older(n)[i] = [n[i] EXCEPT !.age = IF @ < Delay THEN @ + 1 ELSE @]
      BY <1>3 DEF Older
    <3> QED BY <3>1, <3>2, <3>3, Zenon DEF Sent
  <2>3. ASSUME NEW a \in 0..Delay, NEW b \in 0..Delay, b <= a
        PROVE  (IF b < Delay THEN b + 1 ELSE b) <= (IF a < Delay THEN a + 1 ELSE a)
    BY <2>3, Numbers
  <2> QED BY <2>1, <2>2, <2>3, <1>3, Zenon DEF Ordered
<1>4. ASSUME NEW e \in Ends, Write(e) PROVE \A x \in Ends : Ordered(net'[x])
  <2>1. net[e] \in Seq(Sent) /\ Head(queue[e]) \in Messages
    <3>1. queue[e] \in Seq(Messages) /\ queue[e] # <<>> BY <1>4 DEF TypeOK, Write
    <3>2. Head(queue[e]) \in Messages BY <3>1
    <3> QED BY <3>2, Zenon DEF TypeOK, Sent
  <2>2. Ordered(Append(net[e], [m |-> Head(queue[e]), age |-> 0])) BY <1>1, <2>1
  <2> QED BY <1>4, <2>2 DEF TypeOK, Write
<1>5. ASSUME NEW e \in Ends, Read(e) PROVE \A x \in Ends : Ordered(net'[x])
  <2>1. Other(e) \in Ends BY DEF Other, Ends
  <2>2. net[Other(e)] \in Seq(Sent) /\ net[Other(e)] # <<>>
    BY <1>5, <2>1, Zenon DEF TypeOK, Read, Sent
  <2>3. Ordered(Tail(net[Other(e)])) BY <1>2, <2>1, <2>2
  <2>4. \A x \in Ends : net'[x] = net[x] \/ net'[x] = Tail(net[Other(e)]) BY <1>5 DEF TypeOK, Read
  <2> QED BY <2>3, <2>4
<1>6. CASE Tick
  <2>1. net' = [e \in Ends |-> Older(net[e])] BY <1>6 DEF Tick, Older
  <2>2. \A e \in Ends : net[e] \in Seq(Sent) BY Zenon DEF TypeOK, Sent
  <2> QED BY <2>1, <2>2, <1>3
<1>7. CASE UNCHANGED net BY <1>7
<1> QED
  BY <1>4, <1>5, <1>6, <1>7, Zenon
  DEF Next, Step, IdleExpires, HeartbeatExpires, Broadcast, SendData, vars

-----------------------------------------------------------------------------
(* What is on its way stays in time.                                       *)

\* A write that completes loses no time.
LEMMA OnTimeWrite ==
    ASSUME TypeOK, NEW e \in Ends, Write(e), NEW x \in Ends, NEW t \in Nat, OnTime(x, t)
    PROVE  InTime(net'[x], queue'[x], net'[Other(x)], queue'[Other(x)], t)
<1>1. Other(x) \in Ends BY DEF Other, Ends
<1>2. \A y \in Ends : net[y] \in Seq(Sent) /\ queue[y] \in Seq(Messages)
  BY Zenon DEF TypeOK, Sent
<1>3. queue[e] # <<>> /\ Len(net[e]) < Window BY DEF Write
<1>4. /\ net'[e] = Append(net[e], [m |-> Head(queue[e]), age |-> 0])
      /\ queue'[e] = Tail(queue[e])
      /\ \A y \in Ends : y # e => net'[y] = net[y] /\ queue'[y] = queue[y]
  BY DEF TypeOK, Write
<1>5. ASSUME NEW y \in Ends
      PROVE  /\ Arrives(net[y], queue[y], t) => Arrives(net'[y], queue'[y], t)
             /\ PingArrives(net[y], queue[y], t) => PingArrives(net'[y], queue'[y], t)
  <2>1. CASE y = e BY <2>1, <1>2, <1>3, <1>4, WriteKeeps, Zenon
  <2>2. CASE y # e BY <2>2, <1>4
  <2> QED BY <2>1, <2>2
<1> QED BY <1>1, <1>5 DEF OnTime, InTime

\* Nor does a message that is queued.
LEMMA OnTimeSend ==
    ASSUME TypeOK, NEW e \in Ends, NEW m \in Messages, async_send(e, m), UNCHANGED net,
           NEW x \in Ends, NEW t \in Nat, OnTime(x, t)
    PROVE  InTime(net'[x], queue'[x], net'[Other(x)], queue'[Other(x)], t)
<1>1. Other(x) \in Ends BY DEF Other, Ends
<1>2. \A y \in Ends : net[y] \in Seq(Sent) /\ queue[y] \in Seq(Messages)
  BY Zenon DEF TypeOK, Sent
<1>3. \A y \in Ends : queue'[y] = queue[y] \/ queue'[y] = Append(queue[y], m)
  BY SendType, Zenon
<1>4. ASSUME NEW y \in Ends
      PROVE  /\ Arrives(net[y], queue[y], t) => Arrives(net'[y], queue'[y], t)
             /\ PingArrives(net[y], queue[y], t) => PingArrives(net'[y], queue'[y], t)
  BY <1>2, <1>3, SendKeeps, Zenon
<1> QED BY <1>1, <1>4 DEF OnTime, InTime

\* Nor does a message that the other end reads: it answers a ping.
LEMMA OnTimeRead ==
    ASSUME TypeOK, NEW x \in Ends, Read(Other(x)), NEW t \in Nat, OnTime(x, t)
    PROVE  InTime(net'[x], queue'[x], net'[Other(x)], queue'[Other(x)], t)
<1> DEFINE o == Other(x)
<1>1. o \in Ends /\ o # x /\ Other(o) = x BY DEF Other, Ends
<1> HIDE DEF o
<1>2. \A y \in Ends : net[y] \in Seq(Sent) /\ queue[y] \in Seq(Messages) /\ Len(net[y]) <= Window
  BY Zenon DEF TypeOK, Sent
<1>3. net[x] # <<>> /\ net'[x] = Tail(net[x]) /\ net'[o] = net[o]
  BY <1>1 DEF TypeOK, Read, o
<1>4. Answer(o, Head(net[x]).m) BY <1>1 DEF Read, o
<1>5. /\ queue'[x] = queue[x]
      /\ \/ queue'[o] = queue[o]
         \/ \E m \in Messages : queue'[o] = Append(queue[o], m)
      /\ queue'[o] \in Seq(Messages)
      /\ Head(net[x]).m = "ping" => queue'[o] # <<>>
  <2>1. CASE Head(net[x]).m = "ping"
    <3>1. async_send(o, "pong") BY <2>1, <1>4 DEF Answer
    <3> QED BY <3>1, <1>1, SendType, Zenon DEF Messages
  <2>2. CASE Head(net[x]).m # "ping" /\ async_send(o, "response")
    BY <2>2, <1>1, SendType, Zenon DEF Messages
  <2>3. CASE Head(net[x]).m # "ping" /\ UNCHANGED <<queue, refused>>
    BY <2>3, <1>1, <1>2
  <2> QED BY <2>1, <2>2, <2>3, <1>4 DEF Answer
<1>6. ASSUME Arrives(net[o], queue[o], t) PROVE Arrives(net'[o], queue'[o], t)
  BY <1>1, <1>2, <1>3, <1>5, <1>6, SendKeeps, Zenon
<1>7. ASSUME PingArrives(net[x], queue[x], t)
      PROVE  Arrives(net'[o], queue'[o], t) \/ PingArrives(net'[x], queue'[x], t)
  <2>1. CASE Head(net[x]).m = "ping" /\ Delay < t
    <3>1. Unread(net'[o], queue'[o]) > 0
      BY <2>1, <1>1, <1>2, <1>3, <1>5, SomeUnread
    <3>2. net'[o] \in Seq(Sent) BY <1>1, <1>2, <1>3
    <3> QED BY <3>1, <3>2, <2>1, <1>5, AnswerArrives
  <2>2. CASE PingArrives(Tail(net[x]), queue[x], t) BY <2>2, <1>3, <1>5
  <2> QED BY <2>1, <2>2, <1>2, <1>3, <1>7, ReadKeeps
<1> QED BY <1>6, <1>7 DEF OnTime, InTime, o

\* A ping on its way leaves time for the answer.
LEMMA PingLater ==
    ASSUME NEW n \in Seq(Sent), NEW q \in Seq(Messages), NEW t \in Nat, PingArrives(n, q, t)
    PROVE  Delay < t
<1>1. PICK w \in Nat, r \in 1..Window : w * Delay + 2 * Delay < t + Age(n, r)
  BY DEF PingArrives
<1>2. Age(n, r) \in Nat /\ Age(n, r) <= Delay
  <2>1. CASE r <= Len(n)
    <3>1. n[r] \in Sent BY <2>1, Numbers
    <3> QED BY <3>1, <2>1, Numbers DEF Age, Sent
  <2>2. CASE ~(r <= Len(n)) BY <2>2, Numbers DEF Age
  <2> QED BY <2>1, <2>2
<1>3. PICK y \in Nat : y = w * Delay BY Numbers
<1> QED BY <1>1, <1>2, <1>3, Numbers

\* A tick takes one tick of the time that is left, and no more.
LEMMA OnTimeTick ==
    ASSUME TypeOK, \A e \in Ends : Ordered(net[e]), Tick, NEW x \in Ends,
           end[x].reads = "async", end[Other(x)].reads # "never",
           NEW t \in Nat, OnTime(x, t)
    PROVE  t >= 2 /\ InTime(net'[x], queue'[x], net'[Other(x)], queue'[Other(x)], t - 1)
<1> DEFINE o == Other(x)
<1>1. o \in Ends /\ o # x /\ Other(o) = x BY DEF Other, Ends
<1>2. \A y \in Ends : /\ net[y] \in Seq(Sent) /\ queue[y] \in Seq(Messages)
                      /\ Len(net[y]) <= Window /\ Ordered(net[y])
  BY Zenon DEF TypeOK, Sent
<1>3. \A y \in Ends : net'[y] = Older(net[y]) /\ queue'[y] = queue[y]
  BY DEF Tick, Older
<1>4. \A y \in Ends : queue[y] # <<>> => Len(net[y]) = Window BY DEF Tick, Prompt
<1>5. net[o] # <<>> => Head(net[o]).age < Delay BY <1>1 DEF Tick, Prompt, Reads
<1> HIDE DEF o
<1>6. ASSUME Arrives(net[o], queue[o], t)
      PROVE  t >= 2 /\ Arrives(net'[o], queue'[o], t - 1)
  BY <1>1, <1>2, <1>3, <1>4, <1>5, <1>6, TickKeeps
<1>7. ASSUME PingArrives(net[x], queue[x], t), Reads(o)
      PROVE  t >= 2 /\ PingArrives(net'[x], queue'[x], t - 1)
  <2>1. net[x] # <<>> => Head(net[x]).age < Delay BY <1>7 DEF Tick, Prompt, o
  <2> QED BY <2>1, <1>2, <1>3, <1>4, <1>7, TickKeeps
<1>8. ASSUME PingArrives(net[x], queue[x], t), ~Reads(o)
      PROVE  Arrives(net[o], queue[o], t)
  <2>1. end[o].reads \in {"async", "sync", "never"}
    BY <1>1, PairsType DEF TypeOK, Programs
  <2>2. queue[o] # <<>> BY <1>8, <2>1 DEF Reads, o
  <2>3. Unread(net[o], queue[o]) > 0
    BY <2>2, <1>1, <1>2, SomeUnread
  <2> QED BY <2>3, <1>1, <1>2, <1>8, PingLater, AnswerArrives
<1> QED BY <1>6, <1>7, <1>8 DEF OnTime, InTime, o

-----------------------------------------------------------------------------
(* The timers.                                                             *)

\* A round trip is a number of ticks, and more windows make it longer.
LEMMA LongerTrip ==
    ASSUME NEW v \in Nat, NEW w \in Nat, v <= w
    PROVE  /\ (v + 2) * Delay \in Nat /\ (w + 2) * Delay \in Nat
           /\ v * Delay + 2 * Delay = (v + 2) * Delay
           /\ (v + 2) * Delay <= (w + 2) * Delay
<1>1. v * Delay \in Nat /\ w * Delay \in Nat /\ (v + 2) * Delay \in Nat /\ (w + 2) * Delay \in Nat
  BY Numbers
<1>2. v * Delay + 2 * Delay = (v + 2) * Delay BY Numbers
<1>3. PICK d \in Nat : w = v + d
  <2>1. w - v \in Nat /\ w = v + (w - v) OBVIOUS
  <2> QED BY <2>1
<1>4. (w + 2) * Delay = (v + 2) * Delay + d * Delay /\ d * Delay \in Nat
  BY <1>3, Numbers
<1> QED BY <1>1, <1>2, <1>4

\* Steps keep the ends, forget no refusal and no window.
LEMMA HistoryStep ==
    ASSUME TypeOK, [Next]_vars, NEW x \in Ends
    PROVE  end' = end /\ refused \subseteq refused' /\ ahead[x] <= ahead'[x]
<1>0. ahead[x] \in Nat /\ \A e \in Ends : Windows(e) \in Nat
  <2>1. \A e \in Ends : Len(net[e]) + Len(queue[e]) \in Nat BY DEF TypeOK
  <2> QED BY <2>1, Division, Numbers, Zenon DEF Windows, TypeOK
<1>1. ASSUME NEW e \in Ends, Read(e)
      PROVE end' = end /\ refused \subseteq refused' /\ ahead' = ahead
  BY <1>1 DEF Read, Answer, async_send
<1>2. ASSUME NEW e \in Ends, HeartbeatExpires(e)
      PROVE end' = end /\ refused \subseteq refused' /\ ahead[x] <= ahead'[x]
  <2>1. end' = end /\ refused \subseteq refused' BY <1>2 DEF HeartbeatExpires, async_send
  <2>2. ahead' = ahead \/ Ahead(e) BY <1>2 DEF HeartbeatExpires
  <2>3. ahead[x] <= ahead'[x]
    <3>1. CASE ahead' = ahead BY <3>1, <1>0
    <3>2. CASE Ahead(e)
      <4>1. ahead'[x] = ahead[x] \/ (ahead'[x] = Windows(x) /\ Windows(x) > ahead[x])
        BY <3>2 DEF Ahead, TypeOK
      <4> QED BY <4>1, <1>0
    <3> QED BY <2>2, <3>1, <3>2
  <2> QED BY <2>1, <2>3
<1>3. ASSUME NEW e \in Ends, Broadcast(e) \/ SendData(e)
      PROVE end' = end /\ refused \subseteq refused' /\ ahead' = ahead
  BY <1>3 DEF Broadcast, SendData, async_send
<1>4. ASSUME NEW e \in Ends, Write(e) \/ IdleExpires(e)
      PROVE end' = end /\ refused \subseteq refused' /\ ahead' = ahead
  BY <1>4 DEF Write, IdleExpires
<1>5. Tick \/ UNCHANGED vars => end' = end /\ refused \subseteq refused' /\ ahead' = ahead
  BY DEF Tick, vars
<1> QED BY <1>0, <1>1, <1>2, <1>3, <1>4, <1>5 DEF Next, Step

\* An end that watches its peer after a step did so before it.
LEMMA TripStep ==
    ASSUME TypeOK, TypeOK', [Next]_vars, NEW x \in Ends
    PROVE  /\ RoundTrip(x) \in Nat /\ RoundTrip(x)' \in Nat /\ RoundTrip(x) <= RoundTrip(x)'
           /\ Beat(x) \in Nat /\ Idle(x) \in Nat /\ Beat(x)' = Beat(x) /\ Idle(x)' = Idle(x)
           /\ Watches(x)' => Watches(x)
<1>1. end' = end /\ refused \subseteq refused' /\ ahead[x] <= ahead'[x] BY HistoryStep
<1>2. ahead[x] \in Nat /\ ahead'[x] \in Nat BY DEF TypeOK
<1>3. RoundTrip(x) \in Nat /\ RoundTrip(x)' \in Nat /\ RoundTrip(x) <= RoundTrip(x)'
  BY <1>1, <1>2, LongerTrip DEF RoundTrip
<1>4. Beat(x) \in Nat /\ Idle(x) \in Nat /\ Beat(x)' = Beat(x) /\ Idle(x)' = Idle(x)
  BY <1>1, DurationType DEF TypeOK, Beat, Idle
<1>5. Watches(x)' => Watches(x)
  <2>1. SUFFICES ASSUME Watches(x)' PROVE Watches(x) OBVIOUS
  <2>2. end[Other(x)].reads # "never" /\ <<x, "ping">> \notin refused
    BY <2>1, <1>1 DEF Watches
  <2>3. Beat(x)' > RoundTrip(x)' BY <2>1 DEF Watches
  <2>4. Beat(x) > RoundTrip(x) BY <2>3, <1>3, <1>4
  <2> QED BY <2>2, <2>4 DEF Watches
<1> QED BY <1>3, <1>4, <1>5

\* A step that leaves the timers of x alone, and what is on its way in time.
LEMMA KeptSame ==
    ASSUME TypeOK, TypeOK', [Next]_vars, NEW x \in Ends, Kept(x),
           due' \subseteq due, pinged'[x] = pinged[x],
           left'[x].heartbeat = left[x].heartbeat, left'[x].idle = left[x].idle,
           \A t \in Nat : OnTime(x, t) =>
               InTime(net'[x], queue'[x], net'[Other(x)], queue'[Other(x)], t)
    PROVE  Kept(x)'
<1>1. left[x].heartbeat \in Nat /\ left[x].idle \in Nat BY DEF TypeOK, Timers
<1>2. /\ RoundTrip(x) \in Nat /\ RoundTrip(x)' \in Nat /\ RoundTrip(x) <= RoundTrip(x)'
      /\ Beat(x) \in Nat /\ Idle(x) \in Nat /\ Beat(x)' = Beat(x) /\ Idle(x)' = Idle(x)
  BY TripStep, Zenon
<1>3. /\ OnTime(x, left[x].heartbeat) => OnTime(x, left[x].heartbeat)'
      /\ OnTime(x, left[x].idle) => OnTime(x, left[x].idle)'
  BY <1>1 DEF OnTime
<1>4. BeatInTime(x)' BY <1>3 DEF Kept, BeatInTime
<1>5. ASSUME Idle(x)' > Beat(x)' + RoundTrip(x)'
      PROVE  /\ <<x, "idle">> \notin due'
             /\ IF pinged'[x] THEN OnTime(x, left[x].idle)'
                ELSE left'[x].idle + Beat(x)' >= Idle(x)' + left'[x].heartbeat
  <2>1. PICK r \in Nat, s \in Nat : r = RoundTrip(x) /\ s = RoundTrip(x)' /\ r <= s
    BY <1>2, Zenon
  <2>2. Idle(x) > Beat(x) + s BY <1>2, <1>5, <2>1, Zenon
  <2>3. Idle(x) > Beat(x) + r BY <1>2, <2>1, <2>2
  <2> QED BY <1>2, <1>3, <2>1, <2>3, Zenon DEF Kept, IdleInTime
<1>6. IdleInTime(x)' BY <1>5 DEF IdleInTime
<1> QED BY <1>4, <1>6 DEF Kept

\* x reads: both timers start again.
LEMMA KeptRead ==
    ASSUME TypeOK, TypeOK', NEW x \in Ends, Read(x), Kept(x)
    PROVE  Kept(x)'
<1>1. /\ RoundTrip(x) \in Nat /\ RoundTrip(x)' \in Nat /\ RoundTrip(x) <= RoundTrip(x)'
      /\ Beat(x) \in Nat /\ Idle(x) \in Nat /\ Beat(x)' = Beat(x) /\ Idle(x)' = Idle(x)
  BY TripStep DEF Next, Step
<1>2. left'[x].idle = Idle(x) /\ left'[x].heartbeat = Beat(x) /\ ~pinged'[x]
  BY ResetType DEF Read
<1>3. Idle(x)' > Beat(x)' + RoundTrip(x)' => <<x, "idle">> \notin due'
  <2>1. Idle(x)' > Beat(x)' + RoundTrip(x)' => Idle(x) > Beat(x) + RoundTrip(x) BY <1>1
  <2> QED BY <2>1 DEF Kept, IdleInTime, Read
<1>4. left'[x].idle + Beat(x)' >= Idle(x)' + left'[x].heartbeat BY <1>1, <1>2
<1> QED BY <1>2, <1>3, <1>4 DEF Kept, BeatInTime, IdleInTime

\* x pings: the ping is in time for both.
LEMMA KeptPing ==
    ASSUME TypeOK, TypeOK', NEW x \in Ends, HeartbeatExpires(x), ~pinged[x], Kept(x), Watches(x)'
    PROVE  Kept(x)'
<1>1. /\ RoundTrip(x) \in Nat /\ RoundTrip(x)' \in Nat /\ RoundTrip(x) <= RoundTrip(x)'
      /\ Beat(x) \in Nat /\ Idle(x) \in Nat /\ Beat(x)' = Beat(x) /\ Idle(x)' = Idle(x)
  BY TripStep DEF Next, Step
<1>2. /\ left'[x].heartbeat = Beat(x) /\ left'[x].idle = left[x].idle
      /\ left[x].idle \in Nat /\ left[x].heartbeat \in Nat
  <2>1. left' = Arm(x, "heartbeat") BY DEF HeartbeatExpires
  <2>2. left[x].idle \in Nat /\ left[x].heartbeat \in Nat BY Zenon DEF TypeOK, Timers
  <2>3. "heartbeat" \in Timers /\ "idle" \in Timers /\ "idle" # "heartbeat" BY DEF Timers
  <2>4. left'[x].heartbeat = Duration(x).heartbeat /\ left'[x].idle = left[x].idle
    BY <2>1, <2>3, ArmType, Zenon
  <2> QED BY <2>2, <2>4, DurationType, Zenon DEF TypeOK
<1>3. pinged'[x] /\ <<x, "heartbeat">> \notin due' /\ due' \subseteq due
  BY DEF HeartbeatExpires, TypeOK
<1>4. net' = net /\ queue'[x] = Append(queue[x], "ping")
  <2>1. async_send(x, "ping") BY DEF HeartbeatExpires
  <2> QED BY <2>1, SendType, Zenon DEF Watches, HeartbeatExpires, Messages
<1>5. net[x] \in Seq(Sent) /\ queue[x] \in Seq(Messages) BY Zenon DEF TypeOK, Sent
<1>6. Windows(x) = Unread(net[x], queue[x]) \div Window /\ Windows(x) \in Nat
  <2>1. Len(net[x]) + Len(queue[x]) \in Nat BY DEF TypeOK
  <2> QED BY <2>1, Division, Numbers, Zenon DEF Windows, Unread
<1>7. Windows(x) * Delay + 2 * Delay <= RoundTrip(x)'
  <2>1. Ahead(x) BY DEF HeartbeatExpires
  <2>2. ahead'[x] \in Nat /\ ahead[x] \in Nat BY DEF TypeOK
  <2>3. Windows(x) <= ahead'[x]
    <3>1. ahead'[x] = IF Windows(x) > ahead[x] THEN Windows(x) ELSE ahead[x]
      BY <2>1 DEF Ahead, TypeOK
    <3> QED BY <3>1, <2>2, <1>6
  <2> QED BY <2>2, <2>3, <1>6, LongerTrip DEF RoundTrip
<1>8. ASSUME NEW t \in Nat, RoundTrip(x)' < t
      PROVE  InTime(net'[x], queue'[x], net'[Other(x)], queue'[Other(x)], t)
  <2>1. PICK y \in Nat : y = Windows(x) * Delay BY <1>6, Numbers
  <2>2. Windows(x) * Delay + 2 * Delay < t BY <2>1, <1>1, <1>7, <1>8, Numbers
  <2>3. PingArrives(net[x], Append(queue[x], "ping"), t) BY <2>2, <1>5, <1>6, PingKeeps
  <2> QED BY <2>3, <1>4 DEF InTime
<1>9. OnTime(x, left[x].heartbeat)'
  <2>1. Beat(x) > RoundTrip(x)' BY <1>1 DEF Watches
  <2> QED BY <2>1, <1>1, <1>2, <1>8 DEF OnTime
<1>10. ASSUME Idle(x)' > Beat(x)' + RoundTrip(x)'
       PROVE  <<x, "idle">> \notin due' /\ OnTime(x, left[x].idle)'
  <2>1. Idle(x) > Beat(x) + RoundTrip(x) BY <1>1, <1>10
  <2>2. <<x, "idle">> \notin due' BY <2>1, <1>3 DEF Kept, IdleInTime
  <2>3. left[x].idle + Beat(x) >= Idle(x) + left[x].heartbeat BY <2>1 DEF Kept, IdleInTime
  <2>4. left[x].idle > RoundTrip(x)' BY <2>3, <1>1, <1>2, <1>10
  <2> QED BY <2>2, <2>4, <1>1, <1>2, <1>8 DEF OnTime
<1> QED BY <1>3, <1>9, <1>10 DEF Kept, BeatInTime, IdleInTime

\* A tick: neither timer of x gets to its end.
LEMMA KeptTick ==
    ASSUME TypeOK, TypeOK', \A e \in Ends : Ordered(net[e]), Tick, NEW x \in Ends,
           Beat(x) > 0 => Counting(x), Watches(x), Kept(x)
    PROVE  Kept(x)'
<1>1. /\ RoundTrip(x) \in Nat /\ RoundTrip(x)' = RoundTrip(x)
      /\ Beat(x) \in Nat /\ Idle(x) \in Nat /\ Beat(x)' = Beat(x) /\ Idle(x)' = Idle(x)
  <2>1. RoundTrip(x)' = RoundTrip(x) BY DEF RoundTrip, Tick
  <2> QED BY <2>1, TripStep DEF Next
<1>2. Beat(x) > RoundTrip(x) /\ end[Other(x)].reads # "never" BY DEF Watches
<1>3. end[x].reads = "async"
  <2>1. end[x].set.heartbeat > 0 BY <1>1, <1>2 DEF Beat
  <2> QED BY <2>1, PairsType, Zenon DEF TypeOK
<1>4. left[x].heartbeat \in Nat \ {0} /\ left[x].idle \in Nat
  <2>1. left[x].heartbeat \in Nat /\ left[x].idle \in Nat BY Zenon DEF TypeOK, Timers
  <2>2. Counting(x) /\ due = {} BY <1>1, <1>2 DEF Tick, Prompt
  <2> QED BY <2>1, <2>2 DEF Counting
<1>5. /\ left'[x].heartbeat = left[x].heartbeat - 1
      /\ left[x].idle > 0 => left'[x].idle = left[x].idle - 1
      /\ left[x].heartbeat >= 2 => <<x, "heartbeat">> \notin due'
      /\ left[x].idle >= 2 => <<x, "idle">> \notin due'
  BY <1>4 DEF Tick, Timers
<1>6. pinged' = pinged BY DEF Tick
<1>7. \A t \in Nat : OnTime(x, t) =>
          t >= 2 /\ InTime(net'[x], queue'[x], net'[Other(x)], queue'[Other(x)], t - 1)
  BY <1>2, <1>3, OnTimeTick
<1>8. BeatInTime(x)'
  <2>1. SUFFICES ASSUME pinged[x]
                 PROVE  <<x, "heartbeat">> \notin due' /\ OnTime(x, left[x].heartbeat)'
    BY <1>6 DEF BeatInTime
  <2>2. OnTime(x, left[x].heartbeat) BY <2>1 DEF Kept, BeatInTime
  <2> QED BY <2>2, <1>4, <1>5, <1>7 DEF OnTime
<1>9. IdleInTime(x)'
  <2>1. SUFFICES ASSUME Idle(x) > Beat(x) + RoundTrip(x)
                 PROVE  /\ <<x, "idle">> \notin due'
                        /\ IF pinged[x] THEN OnTime(x, left[x].idle)'
                           ELSE left'[x].idle + Beat(x) >= Idle(x) + left'[x].heartbeat
    BY <1>1, <1>6 DEF IdleInTime
  <2>2. CASE pinged[x]
    <3>1. OnTime(x, left[x].idle) BY <2>1, <2>2 DEF Kept, IdleInTime
    <3>2. left[x].idle >= 2 BY <3>1, <1>4, <1>7
    <3>3. left'[x].idle = left[x].idle - 1 /\ <<x, "idle">> \notin due' BY <3>2, <1>4, <1>5
    <3> QED BY <3>1, <3>3, <2>2, <1>4, <1>7, Zenon DEF OnTime
  <2>3. CASE ~pinged[x]
    <3>1. left[x].idle + Beat(x) >= Idle(x) + left[x].heartbeat
      BY <2>1, <2>3 DEF Kept, IdleInTime
    <3>2. left[x].idle >= 2 BY <3>1, <2>1, <1>1, <1>4
    <3>3. left'[x].idle = left[x].idle - 1 /\ <<x, "idle">> \notin due' BY <3>2, <1>4, <1>5
    <3>4. left'[x].idle + Beat(x) >= Idle(x) + left'[x].heartbeat
      BY <3>1, <3>3, <1>1, <1>4, <1>5
    <3> QED BY <2>3, <3>3, <3>4
  <2> QED BY <2>2, <2>3
<1> QED BY <1>8, <1>9 DEF Kept

\* An end whose peer reads keeps being in time.
LEMMA KeptStep ==
    ASSUME PInv, TypeOK', [Next]_vars, NEW x \in Ends, ended' = <<>>, Watches(x)'
    PROVE  Kept(x)'
<1>1. TypeOK /\ (\A e \in Ends : Ordered(net[e])) BY DEF PInv
<1>2. ended = <<>>
  BY Zenon DEF Next, Step, Write, Read, IdleExpires, HeartbeatExpires, Broadcast, SendData, Tick, vars
<1>3. Watches(x) BY <1>1, TripStep
<1>4. Kept(x) /\ (Beat(x) > 0 => Counting(x)) BY <1>2, <1>3 DEF PInv
<1>5. ASSUME NEW e \in Ends, Write(e) PROVE Kept(x)'
  <2>1. due' = due /\ pinged' = pinged /\ left' = left BY <1>5 DEF Write
  <2> QED BY <2>1, <1>1, <1>4, <1>5, KeptSame, OnTimeWrite
<1>6. ASSUME NEW e \in Ends, Read(e) PROVE Kept(x)'
  <2>1. CASE e = x BY <2>1, <1>1, <1>4, <1>6, KeptRead
  <2>2. CASE e # x
    <3>1. e = Other(x) BY <2>2 DEF Other, Ends
    <3>2. due' = due /\ pinged'[x] = pinged[x] /\ left'[x] = left[x]
      BY <2>2, <1>1, <1>6, ResetType DEF Read
    <3> QED BY <3>1, <3>2, <1>1, <1>4, <1>6, KeptSame, OnTimeRead
  <2> QED BY <2>1, <2>2
<1>7. ASSUME NEW e \in Ends, IdleExpires(e) PROVE FALSE
  BY <1>7 DEF IdleExpires
<1>8. ASSUME NEW e \in Ends, HeartbeatExpires(e) PROVE Kept(x)'
  <2>1. ~pinged[e] BY <1>8 DEF HeartbeatExpires
  <2>2. CASE e = x BY <2>1, <2>2, <1>1, <1>4, <1>8, KeptPing
  <2>3. CASE e # x
    <3>1. async_send(e, "ping") /\ net' = net /\ due' \subseteq due /\ left' = Arm(e, "heartbeat")
      BY <2>1, <1>8 DEF HeartbeatExpires
    <3>2. pinged'[x] = pinged[x] BY <2>1, <2>3, <1>1, <1>8 DEF HeartbeatExpires, TypeOK
    <3>3. left'[x].heartbeat = left[x].heartbeat /\ left'[x].idle = left[x].idle
      BY <2>3, <3>1, <1>1, ArmType DEF Timers
    <3>4. "ping" \in Messages BY DEF Messages
    <3> QED BY <3>1, <3>2, <3>3, <3>4, <1>1, <1>4, KeptSame, OnTimeSend
  <2> QED BY <2>2, <2>3
<1>9. ASSUME NEW e \in Ends, Broadcast(e) PROVE Kept(x)'
  <2>1. /\ async_send(e, "data") /\ net' = net /\ due' \subseteq due /\ pinged' = pinged
        /\ left' = Arm(e, "broadcast")
    BY <1>9 DEF Broadcast
  <2>2. left'[x].heartbeat = left[x].heartbeat /\ left'[x].idle = left[x].idle
    BY <2>1, <1>1, ArmType DEF Timers
  <2>3. "data" \in Messages BY DEF Messages
  <2> QED BY <2>1, <2>2, <2>3, <1>1, <1>4, KeptSame, OnTimeSend
<1>10. ASSUME NEW e \in Ends, SendData(e) PROVE Kept(x)'
  <2>1. /\ async_send(e, "data") /\ net' = net /\ due' = due /\ pinged' = pinged /\ left' = left
    BY <1>10 DEF SendData
  <2>2. "data" \in Messages BY DEF Messages
  <2> QED BY <2>1, <2>2, <1>1, <1>4, KeptSame, OnTimeSend, Zenon
<1>11. CASE Tick BY <1>1, <1>3, <1>4, <1>11, KeptTick
<1>12. CASE UNCHANGED vars
  <2>1. /\ due' = due /\ pinged' = pinged /\ left' = left
        /\ \A t \in Nat : OnTime(x, t) =>
               InTime(net'[x], queue'[x], net'[Other(x)], queue'[Other(x)], t)
    BY <1>12 DEF vars, OnTime
  <2> QED BY <2>1, <1>1, <1>4, KeptSame
<1> QED BY <1>5, <1>6, <1>7, <1>8, <1>9, <1>10, <1>11, <1>12 DEF Next, Step

\* A step that leaves the heartbeat of x and its silence alone.
LEMMA CountingSame ==
    ASSUME NEW x \in Ends, Counting(x), end' = end, pinged'[x] = pinged[x],
           quiet'[x] = quiet[x], left'[x].heartbeat = left[x].heartbeat,
           <<x, "heartbeat">> \in due => <<x, "heartbeat">> \in due'
    PROVE  Counting(x)'
BY DEF Counting, Beat

\* Silence keeps being counted against the heartbeat.
LEMMA CountingStep ==
    ASSUME PInv, TypeOK', [Next]_vars, NEW x \in Ends, Beat(x) > 0, ended = <<>>
    PROVE  Counting(x)' \/ (ended' # <<>> /\ quiet'[x] <= quiet[x])
<1>1. TypeOK /\ Counting(x) BY DEF PInv
<1>2. Beat(x) \in Nat \ {0}
  <2>1. Beat(x) \in Nat BY <1>1, DurationType, Zenon DEF TypeOK
  <2> QED BY <2>1
<1>3. /\ left[x].heartbeat \in Nat /\ quiet[x] \in Nat /\ pinged[x] \in BOOLEAN
      /\ quiet'[x] \in Nat
  BY <1>1, Numbers DEF TypeOK, Timers
<1>4. end' = end BY <1>1, HistoryStep
<1>5. ASSUME NEW e \in Ends, Write(e) PROVE Counting(x)'
  BY <1>1, <1>5, CountingSame, Zenon DEF Write
<1>6. ASSUME NEW e \in Ends, Read(e) PROVE Counting(x)'
  <2>1. CASE e = x
    <3>1. left'[x].heartbeat = Beat(x) /\ ~pinged'[x] BY <2>1, <1>1, <1>6, ResetType DEF Read
    <3>2. quiet'[x] = 0 BY <2>1, <1>1, <1>6 DEF Read, TypeOK
    <3> QED BY <3>1, <3>2, <1>2, <1>4 DEF Counting, Beat
  <2>2. CASE e # x
    <3>1. left'[x] = left[x] /\ pinged'[x] = pinged[x] BY <2>2, <1>1, <1>6, ResetType DEF Read
    <3>2. quiet'[x] = quiet[x] /\ due' = due BY <2>2, <1>1, <1>6 DEF Read, TypeOK
    <3> QED BY <3>1, <3>2, <1>1, <1>4, CountingSame, Zenon
  <2> QED BY <2>1, <2>2
<1>7. ASSUME NEW e \in Ends, IdleExpires(e) PROVE ended' # <<>> /\ quiet'[x] <= quiet[x]
  BY <1>3, <1>7 DEF IdleExpires
<1>8. ASSUME NEW e \in Ends, HeartbeatExpires(e)
      PROVE Counting(x)' \/ (ended' # <<>> /\ quiet'[x] <= quiet[x])
  <2>1. CASE pinged[e]
    <3>1. ended' = <<e, "heartbeat">> /\ quiet' = quiet BY <2>1, <1>8 DEF HeartbeatExpires
    <3>2. ended' # <<>> BY <3>1
    <3> QED BY <3>1, <3>2, <1>3
  <2>2. CASE ~pinged[e]
    <3>1. left' = Arm(e, "heartbeat") /\ quiet' = quiet /\ due' = due \ {<<e, "heartbeat">>}
      BY <2>2, <1>8 DEF HeartbeatExpires
    <3>2. CASE e = x
      <4>1. left'[x].heartbeat = Beat(x)
        BY <3>1, <3>2, <1>1, ArmType, DurationType, Zenon DEF TypeOK, Timers
      <4>2. pinged'[x] BY <2>2, <3>2, <1>1, <1>8 DEF HeartbeatExpires, TypeOK
      <4>3. quiet[x] <= Beat(x) BY <2>2, <3>2, <1>1, <1>2, <1>3 DEF Counting
      <4>4. Beat(x)' = Beat(x) BY <1>4 DEF Beat
      <4> QED BY <3>1, <4>1, <4>2, <4>3, <4>4, <1>2, <1>3 DEF Counting
    <3>3. CASE e # x
      <4>1. left'[x].heartbeat = left[x].heartbeat BY <3>1, <3>3, <1>1, ArmType DEF Timers
      <4>2. pinged'[x] = pinged[x] BY <2>2, <3>3, <1>1, <1>8 DEF HeartbeatExpires, TypeOK
      <4> QED BY <3>1, <3>3, <4>1, <4>2, <1>1, <1>4, CountingSame, Zenon
    <3> QED BY <3>2, <3>3
  <2> QED BY <2>1, <2>2
<1>9. ASSUME NEW e \in Ends, Broadcast(e) PROVE Counting(x)'
  <2>1. /\ left' = Arm(e, "broadcast") /\ quiet' = quiet /\ pinged' = pinged
        /\ due' = due \ {<<e, "broadcast">>}
    BY <1>9 DEF Broadcast
  <2>2. left'[x].heartbeat = left[x].heartbeat BY <2>1, <1>1, ArmType DEF Timers
  <2> QED BY <2>1, <2>2, <1>1, <1>4, CountingSame, Zenon
<1>10. ASSUME NEW e \in Ends, SendData(e) PROVE Counting(x)'
  BY <1>1, <1>10, CountingSame, Zenon DEF SendData
<1>11. CASE Tick
  <2>1. left[x].heartbeat > 0 BY <1>1, <1>11 DEF Counting, Tick, Prompt
  <2>2. left'[x].heartbeat = left[x].heartbeat - 1
    BY <2>1, <1>3, <1>11 DEF Tick, Timers
  <2>3. left[x].heartbeat = 1 => <<x, "heartbeat">> \in due'
    BY <1>11 DEF Tick, Timers
  <2>4. quiet'[x] <= quiet[x] + 1
    <3>1. quiet'[x] = IF quiet[x] < MaxQuiet THEN quiet[x] + 1 ELSE MaxQuiet BY <1>11 DEF Tick
    <3>2. quiet[x] <= MaxQuiet BY <1>1, Numbers DEF TypeOK
    <3> QED BY <3>1, <3>2, <1>3, Numbers
  <2>5. pinged' = pinged /\ Beat(x)' = Beat(x) BY <1>11 DEF Tick, Beat
  <2>6. quiet[x] + left[x].heartbeat <= IF pinged[x] THEN 2 * Beat(x) ELSE Beat(x)
    BY <1>1 DEF Counting
  <2>7. quiet'[x] + left'[x].heartbeat <= IF pinged'[x] THEN 2 * Beat(x)' ELSE Beat(x)'
    BY <2>1, <2>2, <2>4, <2>5, <2>6, <1>2, <1>3
  <2>8. <<x, "heartbeat">> \in due' \/ left'[x].heartbeat > 0
    BY <2>1, <2>2, <2>3, <1>3
  <2> QED BY <2>7, <2>8 DEF Counting
<1>12. CASE UNCHANGED vars BY <1>1, <1>12, CountingSame, Zenon DEF vars
<1> QED BY <1>5, <1>6, <1>7, <1>8, <1>9, <1>10, <1>11, <1>12 DEF Next, Step

\* Once the connection has ended nothing happens any more.
LEMMA EndedStays == ASSUME ended # <<>>, [Next]_vars PROVE UNCHANGED vars
BY Zenon DEF Next, Step, Write, Read, IdleExpires, HeartbeatExpires, Broadcast, SendData, Tick

\* The ways a step ends a connection: an expiry that was due.
LEMMA Endings ==
    ASSUME TypeOK, [Next]_vars, NEW x \in Ends, ended = <<>>,
           ended' \in {<<x, "heartbeat">>, <<x, "idle">>}
    PROVE  /\ ahead' = ahead /\ refused' = refused
           /\ \/ ended' = <<x, "heartbeat">> /\ <<x, "heartbeat">> \in due /\ pinged[x]
              \/ ended' = <<x, "idle">> /\ <<x, "idle">> \in due
<1>1. ended' # ended /\ ended' # <<"done">>
  <2>1. <<x, "heartbeat">> # <<>> /\ <<x, "idle">> # <<>> OBVIOUS
  <2>2. <<x, "heartbeat">> # <<"done">> /\ <<x, "idle">> # <<"done">> OBVIOUS
  <2> QED BY <2>1, <2>2
<1>2. PICK e \in Ends : IdleExpires(e) \/ (HeartbeatExpires(e) /\ pinged[e])
  BY <1>1, Zenon DEF Next, Step, Write, Read, HeartbeatExpires, Broadcast, SendData, Tick, vars
<1>3. CASE IdleExpires(e) BY <1>3 DEF IdleExpires
<1>4. CASE HeartbeatExpires(e) /\ pinged[e] BY <1>4 DEF HeartbeatExpires
<1> QED BY <1>2, <1>3, <1>4

-----------------------------------------------------------------------------
(* The theorems.                                                           *)

\* Two ends that have just shaken hands are in time.
LEMMA PeersInit == Init => PInv
<1> SUFFICES ASSUME Init PROVE PInv OBVIOUS
<1>1. \A e \in Ends : Duration(e) \in [Timers -> Nat] /\ Beat(e) \in Nat /\ Idle(e) \in Nat
  BY DurationType DEF Init
<1>2. PICK n \in [Ends -> 1..Second] :
          left = [e \in Ends |-> [Duration(e) EXCEPT !.broadcast = IF @ > 0 THEN n[e] ELSE 0]]
  BY Zenon DEF Init
<1>3. left \in [Ends -> [Timers -> Nat]]
  <2>1. ASSUME NEW f \in [Timers -> Nat], NEW k \in Nat
        PROVE  [f EXCEPT !.broadcast = IF @ > 0 THEN k ELSE 0] \in [Timers -> Nat]
    BY DEF Timers
  <2>2. \A e \in Ends : n[e] \in Nat BY Numbers
  <2> QED BY <1>1, <1>2, <2>1, <2>2
<1>4. \A e \in Ends : left[e].heartbeat = Beat(e) /\ left[e].idle = Idle(e)
  BY <1>1, <1>2, DurationType DEF Timers, Init
<1>5. net \in [Ends -> Seq(Sent)] /\ \A e \in Ends : Len(net[e]) \in 0..1
  <2>1. <<[m |-> "request", age |-> 0]>> \in Seq(Sent) /\ <<>> \in Seq(Sent)
    BY Numbers DEF Sent, Messages
  <2> QED BY <2>1 DEF Init
<1>6. due = {} /\ ended = <<>> /\ \A e \in Ends : ~pinged[e] /\ quiet[e] = 0 BY DEF Init
<1>7. TypeOK
  <2>1. quiet \in [Ends -> 0..MaxQuiet] /\ ahead \in [Ends -> Nat] BY Numbers DEF Init
  <2>2. \A e \in Ends : Len(net[e]) <= Window
    <3>1. \A k \in 0..1 : k <= Window BY Numbers
    <3> QED BY <3>1, <1>5, Zenon
  <2>3. queue \in [Ends -> Seq(Messages)] BY DEF Init
  <2>4. /\ end \in Pairs /\ due = {} /\ refused = {} /\ pinged \in [Ends -> BOOLEAN]
        /\ answered = FALSE /\ ended = <<>>
    BY DEF Init
  <2> QED BY <1>3, <1>5, <2>1, <2>2, <2>3, <2>4, Zenon DEF TypeOK, Sent
<1>8. \A e \in Ends : Ordered(net[e]) BY <1>5 DEF Ordered
<1>9. \A e \in Ends : Beat(e) > 0 => Counting(e) BY <1>1, <1>4, <1>6 DEF Counting
<1>10. \A e \in Ends : Kept(e)
  <2>1. \A e \in Ends : left[e].idle + Beat(e) >= Idle(e) + left[e].heartbeat BY <1>1, <1>4
  <2> QED BY <2>1, <1>6 DEF Kept, BeatInTime, IdleInTime
<1>11. SilenceBounded BY <1>1, <1>6 DEF SilenceBounded, Beat
<1>12. LivePeerKept BY <1>6 DEF LivePeerKept
<1> QED BY <1>7, <1>8, <1>9, <1>10, <1>11, <1>12 DEF PInv

\* Every step of an end, and a tick, keeps the invariant.
LEMMA PeersStep == PInv /\ [Next]_vars => PInv'
<1> SUFFICES ASSUME PInv, [Next]_vars PROVE PInv' OBVIOUS
<1>1. TypeOK /\ TypeOK' BY PeersTypeStep DEF PInv
<1>2. \A e \in Ends : Ordered(net'[e]) BY <1>1, OrderStep DEF PInv
<1>3. end' = end
  <2>1. "a" \in Ends BY DEF Ends
  <2> QED BY <1>1, <2>1, HistoryStep
<1>4. CASE ended # <<>>
  <2>1. UNCHANGED vars BY <1>4, EndedStays
  <2>2. SilenceBounded' BY <2>1, Zenon DEF PInv, SilenceBounded, vars
  <2>3. LivePeerKept' BY <2>1 DEF PInv, LivePeerKept, RoundTrip, vars
  <2>4. ended' # <<>> BY <1>4, <2>1 DEF vars
  <2> QED BY <1>1, <1>2, <2>2, <2>3, <2>4 DEF PInv
<1>5. CASE ended = <<>>
  <2>1. \A e \in Ends : ended' = <<>> /\ Beat(e)' > 0 => Counting(e)'
    BY <1>1, <1>3, <1>5, CountingStep DEF Beat
  <2>2. \A e \in Ends : ended' = <<>> /\ Watches(e)' => Kept(e)' BY <1>1, KeptStep
  <2>3. SilenceBounded'
    <3> SUFFICES ASSUME NEW e \in Ends, Beat(e) > 0 PROVE quiet'[e] <= 2 * Beat(e)
      BY <1>3 DEF SilenceBounded, Beat
    <3>1. /\ Beat(e) \in Nat /\ quiet[e] \in Nat /\ quiet'[e] \in Nat
          /\ left'[e].heartbeat \in Nat
      <4>1. Beat(e) \in Nat BY <1>1, DurationType, Zenon DEF TypeOK
      <4>2. quiet[e] \in 0..MaxQuiet /\ quiet'[e] \in 0..MaxQuiet BY <1>1, Zenon DEF TypeOK
      <4>3. left'[e].heartbeat \in Nat
        <5>1. left' \in [Ends -> [Timers -> Nat]] BY <1>1, Zenon DEF TypeOK
        <5>2. "heartbeat" \in Timers BY DEF Timers
        <5> QED BY <5>1, <5>2, Zenon
      <4> QED BY <4>1, <4>2, <4>3
    <3>2. Beat(e)' = Beat(e) BY <1>3 DEF Beat
    <3>3. CASE Counting(e)' BY <3>1, <3>2, <3>3 DEF Counting
    <3>4. CASE quiet'[e] <= quiet[e] BY <3>1, <3>4 DEF PInv, SilenceBounded, Beat
    <3> QED BY <3>3, <3>4, <1>1, <1>5, CountingStep
  <2>4. LivePeerKept'
    <3> SUFFICES ASSUME NEW e \in Ends, ended' \in {<<e, "heartbeat">>, <<e, "idle">>},
                        end[Other(e)].reads # "never", Beat(e) > RoundTrip(e)',
                        ended' = <<e, "idle">> => Idle(e) > Beat(e) + RoundTrip(e)',
                        <<e, "ping">> \notin refused'
                 PROVE  FALSE
      BY <1>3 DEF LivePeerKept, Beat, Idle
    <3>1. /\ ahead' = ahead /\ refused' = refused
          /\ \/ ended' = <<e, "heartbeat">> /\ <<e, "heartbeat">> \in due /\ pinged[e]
             \/ ended' = <<e, "idle">> /\ <<e, "idle">> \in due
      BY <1>1, <1>5, Endings
    <3>2. RoundTrip(e)' = RoundTrip(e) BY <3>1 DEF RoundTrip
    <3>3. Kept(e) BY <3>1, <3>2, <1>5 DEF PInv, Watches
    <3> QED BY <3>1, <3>2, <3>3 DEF Kept, BeatInTime, IdleInTime
  <2> QED BY <1>1, <1>2, <2>1, <2>2, <2>3, <2>4, Zenon DEF PInv
<1> QED BY <1>4, <1>5

\* The inductive invariant holds at every step of two ends that run the timers
\* and queues of socket.cpp.
LEMMA PeersInvariant == Spec => []PInv
BY PeersInit, PeersStep, PTL DEF Spec

\* All variables of the two ends keep their types, whatever the settings of
\* apply_caps.
THEOREM PeersTypeCorrect == Spec => []TypeOK
<1>1. PInv => TypeOK BY DEF PInv
<1> QED BY PeersInvariant, <1>1, PTL

\* arm_heartbeat drops a silent peer after two intervals, for every heartbeat
\* and however much the end itself sends.
THEOREM SilenceIsBounded == Spec => []SilenceBounded
<1>1. PInv => SilenceBounded BY DEF PInv
<1> QED BY PeersInvariant, <1>1, PTL

\* arm_heartbeat and reset_idle_timer do not drop a peer that reads, unless a
\* full queue refused the ping: for every delay, window, queue bound, setting
\* and load for which the heartbeat is longer than a round trip.
THEOREM ReadingPeerKept == Spec => []LivePeerKept
<1>1. PInv => LivePeerKept BY DEF PInv
<1> QED BY PeersInvariant, <1>1, PTL

=============================================================================
