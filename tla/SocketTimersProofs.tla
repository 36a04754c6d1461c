-------------------------- MODULE SocketTimersProofs --------------------------
(***************************************************************************)
(* Proofs about SocketTimers, for any three timeouts and either role.      *)
(***************************************************************************)
EXTENDS SocketTimers, TLAPS

\* A timeout is a number of ticks.
LEMMA TimeoutType == \A k \in Timers : Timeout(k) \in Nat
BY TimersAssumption DEF Timers, Timeout

\* Restarting and cancelling timers keeps their types.
LEMMA DeadlinesType ==
    ASSUME TypeOK, NEW A, NEW C, Deadlines(A, C)
    PROVE  /\ left' \in [Timers -> Nat]
           /\ \A k \in Timers : left'[k] <= Timeout(k)
           /\ fresh' \in [Timers -> BOOLEAN]
           /\ stale' \in [Timers -> Nat]
<1>1. \A k \in Timers : /\ Timeout(k) \in Nat /\ left[k] \in Nat /\ stale[k] \in Nat
                        /\ left[k] <= Timeout(k)
  BY TimeoutType DEF TypeOK
<1>2. \A k \in Timers : stale[k] + 1 \in Nat
  BY <1>1
<1>3. /\ left' \in [Timers -> Nat]
      /\ \A k \in Timers : left'[k] <= Timeout(k)
  BY <1>1 DEF Deadlines
<1>4. fresh' \in [Timers -> BOOLEAN]
  BY DEF Deadlines
<1>5. stale' \in [Timers -> Nat]
  BY <1>1, <1>2 DEF Deadlines
<1> QED
  BY <1>3, <1>4, <1>5

\* A handler that leaves its queue keeps the timers' types and their countdowns.
LEMMA DequeueType ==
    ASSUME TypeOK, NEW k \in Timers, NEW c \in Causes, Dequeue(k, c)
    PROVE  /\ left' = left
           /\ fresh' \in [Timers -> BOOLEAN]
           /\ stale' \in [Timers -> Nat]
<1>1. stale[k] \in Nat /\ stale \in [Timers -> Nat] /\ fresh \in [Timers -> BOOLEAN]
  BY DEF TypeOK
<1>2. CASE stale[k] > 0 /\ stale' = [stale EXCEPT ![k] = stale[k] - 1] /\ UNCHANGED <<left, fresh>>
  <2>1. stale[k] - 1 \in Nat
    BY <1>1, <1>2
  <2> QED
    BY <1>1, <1>2, <2>1
<1>3. CASE fresh' = [fresh EXCEPT ![k] = FALSE] /\ UNCHANGED <<left, stale>>
  BY <1>1, <1>3
<1> QED
  BY <1>2, <1>3 DEF Dequeue

\* Every step keeps the types.
LEMMA TimersTypeStep == TypeOK /\ [Next]_vars => TypeOK'
<1> SUFFICES ASSUME TypeOK, [Next]_vars
             PROVE  TypeOK'
  OBVIOUS
<1>0. quiet \in Nat /\ pinging \in Nat /\ left \in [Timers -> Nat]
  BY DEF TypeOK
<1>1. CASE Tick
  <2>1. quiet' \in Nat
    BY <1>0, <1>1 DEF Tick
  <2>2. \A k \in Timers : left[k] \in Nat /\ Timeout(k) \in Nat /\ left[k] <= Timeout(k)
    BY TimeoutType DEF TypeOK
  <2>3. \A k \in Timers : left'[k] \in Nat /\ left'[k] <= Timeout(k)
    BY <1>1, <2>2 DEF Tick
  <2>4. left' \in [Timers -> Nat]
    BY <1>1, <2>3 DEF Tick
  <2>5. fresh' \in [Timers -> BOOLEAN]
    BY <1>1 DEF Tick
  <2> QED
    BY <1>1, <2>1, <2>3, <2>4, <2>5 DEF Tick, TypeOK
<1>2. ASSUME NEW k \in Timers, DeadlineFires(k)
      PROVE  TypeOK'
  <2>1. PICK c \in Causes : Dequeue(k, c) /\ CloseFor(c)
    BY <1>2 DEF DeadlineFires
  <2>2. left' = left /\ fresh' \in [Timers -> BOOLEAN] /\ stale' \in [Timers -> Nat]
    BY <2>1, DequeueType
  <2> QED
    BY <1>2, <2>1, <2>2 DEF DeadlineFires, CloseFor, TypeOK
<1>3. CASE HeartbeatFires
  <2>1. PICK c \in Causes :
           /\ Dequeue("heartbeat", c)
           /\ \/ CloseFor(IF c = "stale" THEN c ELSE "heartbeat") /\ UNCHANGED pinging
              \/ pinging' = pinging + 1 /\ UNCHANGED <<open, cause>>
    BY <1>3 DEF HeartbeatFires
  <2>2. "heartbeat" \in Timers
    BY DEF Timers
  <2>3. left' = left /\ fresh' \in [Timers -> BOOLEAN] /\ stale' \in [Timers -> Nat]
    BY <2>1, <2>2, DequeueType
  <2>4. pinging' \in Nat
    BY <1>0, <2>1
  <2>5. open' \in BOOLEAN /\ cause' \in Causes
    BY <2>1 DEF CloseFor, Causes, TypeOK
  <2> QED
    BY <1>3, <2>3, <2>4, <2>5 DEF HeartbeatFires, TypeOK
<1>4. CASE Pinged
  <2>1. pinging' \in Nat
    BY <1>0, <1>4 DEF Pinged
  <2>2. Deadlines({"heartbeat"}, {})
    BY <1>4 DEF Pinged
  <2> QED
    BY <1>4, <2>1, <2>2, DeadlinesType DEF Pinged, TypeOK
<1>5. CASE async_connect
  <2>1. Deadlines({"idle", "heartbeat"}, {})
    BY <1>5 DEF async_connect
  <2> QED
    BY <1>5, <2>1, DeadlinesType DEF async_connect, TypeOK, Phases
<1>6. CASE accept
  <2>1. Deadlines({"handshake"}, {})
    BY <1>6 DEF accept
  <2> QED
    BY <1>6, <2>1, DeadlinesType DEF accept, TypeOK, Phases
<1>7. CASE ResolveHandler \/ close \/ connect
  BY <1>7 DEF ResolveHandler, close, CloseFor, connect, TypeOK, Phases, Causes, timerVars
<1>13. CASE Succeeds \/ handshake
  <2>1. quiet' \in Nat
    BY <1>0, <1>13 DEF Succeeds, handshake, Progress
  <2> QED
    BY <1>13, <2>1 DEF Succeeds, handshake, TypeOK, Phases, timerVars
<1>8. CASE ErrorHandler
  <2>1. CASE phase = "handshaking"
    <3>1. Deadlines({}, {"handshake"})
      BY <1>8, <2>1 DEF ErrorHandler
    <3> QED
      BY <1>8, <3>1, DeadlinesType DEF ErrorHandler, TypeOK, Phases
  <2>2. CASE phase # "handshaking"
    BY <1>8, <2>2 DEF ErrorHandler, TypeOK, Phases, timerVars
  <2> QED
    BY <2>1, <2>2
<1>9. CASE ConnectHandler
  <2>1. Deadlines({"handshake"}, {})
    BY <1>9 DEF ConnectHandler
  <2> QED
    BY <1>9, <2>1, DeadlinesType DEF ConnectHandler, TypeOK, Phases
<1>10. CASE HandshakeHandler
  <2>1. Deadlines({"idle", "heartbeat"}, {"handshake"})
    BY <1>10 DEF HandshakeHandler
  <2> QED
    BY <1>10, <2>1, DeadlinesType DEF HandshakeHandler, TypeOK, Phases
<1>11. CASE ReadHandler
  <2>1. Deadlines({"idle", "heartbeat"}, {})
    BY <1>11 DEF ReadHandler
  <2> QED
    BY <1>11, <2>1, DeadlinesType DEF ReadHandler, TypeOK, Phases
<1>12. CASE UNCHANGED vars
  BY <1>12 DEF vars, timerVars, TypeOK
<1> QED
  BY <1>1, <1>2, <1>3, <1>4, <1>5, <1>6, <1>7, <1>8, <1>9, <1>10, <1>11, <1>12, <1>13
     DEF Next

\* Every variable of the deadlines keeps its type, and no timer waits for longer
\* than its timeout.
THEOREM TimersTypeCorrect == Spec => []TypeOK
<1>1. ASSUME Init
      PROVE  TypeOK
  <2>1. \A k \in Timers : left[k] = 0 /\ Timeout(k) \in Nat
    BY <1>1, TimeoutType DEF Init
  <2>2. \A k \in Timers : left[k] <= Timeout(k)
    BY <2>1
  <2>3. /\ left \in [Timers -> Nat] /\ fresh \in [Timers -> BOOLEAN]
        /\ stale \in [Timers -> Nat]
    BY <1>1 DEF Init
  <2> QED
    BY <1>1, <2>2, <2>3 DEF Init, TypeOK, Phases, Causes
<1> QED
  BY <1>1, TimersTypeStep, PTL DEF Spec

-----------------------------------------------------------------------------

\* A restarted timer that has a timeout is watching; the others watch as before.
LEMMA DeadlinesWatch ==
    ASSUME TypeOK, NEW A, NEW C, Deadlines(A, C), NEW k \in Timers
    PROVE  /\ k \in A /\ Timeout(k) # 0 => Watching(k)'
           /\ k \notin A /\ k \notin C /\ Watching(k) => Watching(k)'
<1>1. Timeout(k) \in Nat
  BY TimeoutType
<1>2. CASE k \in A
  <2>1. left'[k] = Timeout(k)
    BY <1>2 DEF Deadlines
  <2> QED
    BY <1>1, <1>2, <2>1 DEF Watching
<1>3. CASE k \notin A /\ k \notin C
  <2>1. left'[k] = left[k] /\ fresh'[k] = fresh[k]
    BY <1>3 DEF Deadlines, TypeOK
  <2> QED
    BY <1>3, <2>1 DEF Watching
<1> QED
  BY <1>2, <1>3

\* A handler that leaves the queue unwatches only its own timer, and only when it
\* was fresh.
LEMMA DequeueWatch ==
    ASSUME TypeOK, NEW k \in Timers, NEW c \in Causes, Dequeue(k, c),
           NEW j \in Timers, Watching(j)
    PROVE  j # k \/ c = "stale" => Watching(j)'
<1>1. fresh \in [Timers -> BOOLEAN]
  BY DEF TypeOK
<1>2. k # "stale"
  BY DEF Timers
<1> QED
  BY <1>1, <1>2 DEF Dequeue, Watching

\* No step leaves an open connection unwatched.
LEMMA WatchedStep == TypeOK /\ Watched /\ [Next]_vars => Watched'
<1> SUFFICES ASSUME TypeOK, Watched, [Next]_vars
             PROVE  Watched'
  OBVIOUS
<1> DEFINE I == phase = "established" /\ open /\ IdleTimeout # 0
           H == phase = "established" /\ open /\ HeartbeatTimeout # 0
           S == phase = "handshaking" /\ open /\ HandshakeTimeout # 0
<1>a. /\ I => Watching("idle")
      /\ H => Watching("heartbeat") \/ pinging > 0
      /\ S => Watching("handshake")
  BY DEF Watched
<1>b. /\ Timeout("idle") = IdleTimeout /\ Timeout("heartbeat") = HeartbeatTimeout
      /\ Timeout("handshake") = HandshakeTimeout
      /\ "idle" \in Timers /\ "heartbeat" \in Timers /\ "handshake" \in Timers
      /\ pinging \in Nat
  BY DEF Timeout, Timers, TypeOK
<1>c. SUFFICES /\ I' => Watching("idle")'
               /\ H' => Watching("heartbeat")' \/ pinging' > 0
               /\ S' => Watching("handshake")'
  BY DEF Watched
<1>1. CASE Tick
  <2>1. \A k \in Timers : Watching(k) => Watching(k)'
    <3> SUFFICES ASSUME NEW k \in Timers, Watching(k)
                 PROVE  Watching(k)'
      OBVIOUS
    <3>1. left[k] \in Nat
      BY DEF TypeOK
    <3>2. /\ left'[k] = IF left[k] > 0 THEN left[k] - 1 ELSE 0
          /\ fresh'[k] = (fresh[k] \/ left[k] = 1)
      BY <1>1 DEF Tick
    <3>3. CASE fresh[k] \/ left[k] = 1
      BY <3>2, <3>3 DEF Watching
    <3>4. CASE left[k] > 1
      BY <3>1, <3>2, <3>4 DEF Watching
    <3> QED
      BY <3>1, <3>3, <3>4 DEF Watching
  <2> QED
    BY <1>1, <1>a, <1>b, <2>1 DEF Tick
<1>2. ASSUME NEW k \in Timers, DeadlineFires(k)
      PROVE  ~I' /\ ~H' /\ ~S'
  BY <1>2 DEF DeadlineFires, CloseFor
<1>3. CASE HeartbeatFires
  <2>1. PICK c \in Causes : Dequeue("heartbeat", c)
    BY <1>3 DEF HeartbeatFires
  <2>2. /\ Watching("idle") => Watching("idle")'
        /\ Watching("handshake") => Watching("handshake")'
    BY <1>b, <2>1, DequeueWatch
  <2>3. CASE sent
    BY <1>3, <2>3 DEF HeartbeatFires, CloseFor
  <2>4. CASE ~sent
    <3>1. pinging' = pinging + 1 /\ open' = open /\ phase' = phase
      BY <1>3, <2>4 DEF HeartbeatFires
    <3>2. pinging' > 0
      BY <1>b, <3>1
    <3> QED
      BY <1>a, <2>2, <3>1, <3>2
  <2> QED
    BY <2>3, <2>4
<1>4. CASE Pinged
  <2>1. Deadlines({"heartbeat"}, {}) /\ phase' = phase /\ open' = open
    BY <1>4 DEF Pinged
  <2>2. /\ HeartbeatTimeout # 0 => Watching("heartbeat")'
        /\ Watching("idle") => Watching("idle")'
        /\ Watching("handshake") => Watching("handshake")'
    BY <1>b, <2>1, DeadlinesWatch
  <2> QED
    BY <1>a, <2>1, <2>2
<1>5. CASE accept \/ ConnectHandler
  <2>1. Deadlines({"handshake"}, {}) /\ phase' = "handshaking"
    BY <1>5 DEF accept, ConnectHandler
  <2>2. HandshakeTimeout # 0 => Watching("handshake")'
    BY <1>b, <2>1, DeadlinesWatch
  <2> QED
    BY <2>1, <2>2
<1>6. CASE HandshakeHandler
  <2>1. Deadlines({"idle", "heartbeat"}, {"handshake"}) /\ phase' = "established"
    BY <1>6 DEF HandshakeHandler
  <2>2. /\ IdleTimeout # 0 => Watching("idle")'
        /\ HeartbeatTimeout # 0 => Watching("heartbeat")'
    BY <1>b, <2>1, DeadlinesWatch
  <2> QED
    BY <2>1, <2>2
<1>7. CASE ReadHandler
  <2>1. Deadlines({"idle", "heartbeat"}, {}) /\ phase' = "established"
    BY <1>7 DEF ReadHandler
  <2>2. /\ IdleTimeout # 0 => Watching("idle")'
        /\ HeartbeatTimeout # 0 => Watching("heartbeat")'
    BY <1>b, <2>1, DeadlinesWatch
  <2> QED
    BY <2>1, <2>2
<1>8. CASE async_connect \/ ErrorHandler \/ ResolveHandler \/ connect \/ handshake
  BY <1>8 DEF async_connect, ErrorHandler, ResolveHandler, connect, handshake
<1>9. CASE close
  BY <1>9 DEF close, CloseFor
<1>10. CASE Succeeds \/ UNCHANGED vars
  BY <1>10, <1>a DEF Succeeds, vars, timerVars, Watching
<1> QED
  BY <1>1, <1>2, <1>3, <1>4, <1>5, <1>6, <1>7, <1>8, <1>9, <1>10 DEF Next

\* An open connection is never left without the timers its phase calls for.
THEOREM NeverUnwatched == Spec => []Watched
<1>1. Init => Watched
  BY DEF Init, Watched
<1> QED
  BY <1>1, WatchedStep, TimersTypeCorrect, PTL DEF Spec

-----------------------------------------------------------------------------

\* Restarting a timer starts a countdown of its whole timeout; a timer that is
\* not touched goes on.
LEMMA DeadlinesSilence ==
    ASSUME TypeOK, NEW A, NEW C, Deadlines(A, C), NEW k \in Timers
    PROVE  /\ k \in A => left'[k] = Timeout(k) /\ ~fresh'[k]
           /\ k \notin A /\ k \notin C => left'[k] = left[k] /\ fresh'[k] = fresh[k]
BY DEF Deadlines, TypeOK

\* Every step keeps the countdowns and the silence in step.
LEMMA SilenceStep == TypeOK /\ SilenceInv /\ [Next]_vars => SilenceInv'
<1> SUFFICES ASSUME TypeOK, SilenceInv, [Next]_vars
             PROVE  SilenceInv'
  OBVIOUS
<1> DEFINE Live == {"idle", "heartbeat"}
           Good(k) == /\ left[k] > 0 => quiet + left[k] >= Timeout(k)
                      /\ fresh[k] => quiet >= Timeout(k)
<1>a. /\ open => cause = "none"
      /\ phase \in {"new", "resolving"} => ~open /\ cause = "none"
      /\ phase = "established" /\ op = "running" /\ cause = "none" => \A k \in Live : Good(k)
  BY DEF SilenceInv
<1>b. \A k \in Live : k \in Timers /\ left[k] \in Nat /\ Timeout(k) \in Nat
                      /\ left[k] <= Timeout(k) /\ Timeout(k) <= QuietCap
  BY TimersAssumption, TimeoutType DEF TypeOK, Timers, Timeout, QuietCap
<1>c. quiet \in Nat /\ QuietCap \in Nat
  BY TimersAssumption DEF TypeOK, QuietCap
<1>d. SUFFICES /\ open' => cause' = "none"
               /\ phase' \in {"new", "resolving"} => ~open' /\ cause' = "none"
               /\ phase' = "established" /\ op' = "running" /\ cause' = "none" =>
                     \A k \in Live : Good(k)'
  BY DEF SilenceInv, Timeout
<1>1. CASE Tick
  <2>1. UNCHANGED <<phase, op, open, cause>>
    BY <1>1 DEF Tick
  <2>2. ASSUME phase = "established", op = "running", cause = "none", NEW k \in Live
        PROVE  Good(k)'
    <3>1. Good(k) /\ k \in Timers
      BY <1>a, <1>b, <2>2
    <3>2. /\ left'[k] = IF left[k] > 0 THEN left[k] - 1 ELSE 0
          /\ fresh'[k] = (fresh[k] \/ left[k] = 1)
          /\ quiet' = IF quiet < QuietCap THEN quiet + 1 ELSE quiet
      BY <1>1, <2>2, <3>1 DEF Tick
    <3>3. /\ left[k] \in Nat /\ Timeout(k) \in Nat /\ Timeout(k) <= QuietCap
      BY <1>b
    <3>4. Timeout(k)' = Timeout(k)
      BY DEF Timeout
    <3>5. CASE quiet < QuietCap
      <4>1. quiet' = quiet + 1
        BY <3>2, <3>5
      <4>2. left'[k] > 0 => left[k] > 0 /\ left'[k] = left[k] - 1
        BY <3>2, <3>3
      <4>3. left'[k] > 0 => quiet' + left'[k] >= Timeout(k)
        BY <1>c, <3>1, <3>3, <4>1, <4>2
      <4>4. CASE fresh[k]
        BY <1>c, <3>1, <3>3, <3>4, <4>1, <4>3, <4>4
      <4>5. CASE left[k] = 1
        BY <1>c, <3>1, <3>3, <3>4, <4>1, <4>3, <4>5
      <4>6. CASE ~fresh[k] /\ left[k] # 1
        <5>1. ~fresh'[k]
          BY <3>2, <4>6
        <5> QED
          BY <3>4, <4>3, <5>1
      <4> QED
        BY <4>4, <4>5, <4>6
    <3>6. CASE ~(quiet < QuietCap)
      BY <1>c, <3>1, <3>2, <3>3, <3>4, <3>6
    <3> QED
      BY <3>5, <3>6
  <2> QED
    BY <1>a, <2>1, <2>2
<1>2. ASSUME NEW k \in Timers, DeadlineFires(k)
      PROVE  /\ open' => cause' = "none"
             /\ phase' \in {"new", "resolving"} => ~open' /\ cause' = "none"
             /\ phase' = "established" /\ op' = "running" /\ cause' = "none" =>
                   \A j \in Live : Good(j)'
  <2>1. PICK c \in Causes : Dequeue(k, c) /\ CloseFor(c)
    BY <1>2 DEF DeadlineFires
  <2>2. left' = left /\ quiet' = quiet /\ phase' = phase /\ op' = op
    BY <1>2, <2>1 DEF DeadlineFires, Dequeue
  <2>3. \A j \in Timers : fresh'[j] => fresh[j]
    BY <2>1 DEF Dequeue, TypeOK
  <2>4. ~open' /\ (cause' = "none" => cause = "none" \/ c = "none")
    BY <1>a, <2>1 DEF CloseFor
  <2>5. c # "none"
    BY <2>1 DEF Dequeue, Timers
  <2>6. phase \in {"new", "resolving"} => cause' = "none"
    BY <1>a, <2>1 DEF CloseFor
  <2>7. \A j \in Live : Good(j) => Good(j)'
    BY <1>b, <2>2, <2>3 DEF Timeout
  <2> QED
    BY <1>a, <2>2, <2>4, <2>5, <2>6, <2>7
<1>3. CASE HeartbeatFires
  <2>1. PICK c \in Causes :
           /\ Dequeue("heartbeat", c)
           /\ \/ CloseFor(IF c = "stale" THEN c ELSE "heartbeat")
              \/ UNCHANGED <<open, cause>>
    BY <1>3 DEF HeartbeatFires
  <2>2. left' = left /\ quiet' = quiet /\ phase' = phase /\ op' = op
    BY <1>3, <2>1 DEF HeartbeatFires, Dequeue
  <2>3. \A j \in Timers : fresh'[j] => fresh[j]
    BY <2>1 DEF Dequeue, TypeOK
  <2>4. /\ open' => cause' = "none"
        /\ phase \in {"new", "resolving"} => ~open' /\ cause' = "none"
        /\ cause' = "none" => cause = "none"
    BY <1>a, <2>1 DEF CloseFor
  <2>5. \A j \in Live : Good(j) => Good(j)'
    BY <1>b, <2>2, <2>3 DEF Timeout
  <2> QED
    BY <1>a, <2>2, <2>4, <2>5
<1>4. CASE Pinged
  <2>1. Deadlines({"heartbeat"}, {}) /\ UNCHANGED <<phase, op, open, cause, quiet>>
    BY <1>4 DEF Pinged
  <2>2. \A k \in Live : Good(k) => Good(k)'
    <3> SUFFICES ASSUME NEW k \in Live, Good(k)
                 PROVE  Good(k)'
      OBVIOUS
    <3>1. \/ left'[k] = Timeout(k) /\ ~fresh'[k]
          \/ left'[k] = left[k] /\ fresh'[k] = fresh[k]
      BY <1>b, <2>1, DeadlinesSilence
    <3>2. quiet' = quiet /\ Timeout(k)' = Timeout(k)
      BY <2>1 DEF Timeout
    <3> QED
      BY <1>b, <1>c, <3>1, <3>2
  <2> QED
    BY <1>a, <2>1, <2>2
<1>5. CASE HandshakeHandler \/ ReadHandler
  <2>1. /\ UNCHANGED <<open, cause>> /\ phase' = "established"
        /\ \E C \in {{}, {"handshake"}} : Deadlines(Live, C)
    BY <1>5 DEF HandshakeHandler, ReadHandler
  <2>2. PICK C \in {{}, {"handshake"}} : Deadlines(Live, C)
    BY <2>1
  <2>3. \A k \in Live : left'[k] = Timeout(k) /\ ~fresh'[k]
    BY <1>b, <2>2, DeadlinesSilence
  <2>4. quiet' \in Nat
    BY <1>5, <1>c DEF HandshakeHandler, ReadHandler
  <2>5. \A k \in Live : Good(k)'
    BY <1>b, <2>3, <2>4 DEF Timeout
  <2> QED
    BY <1>a, <2>1, <2>5
<1>6. CASE \/ async_connect \/ accept \/ ResolveHandler \/ ConnectHandler \/ ErrorHandler
           \/ connect \/ handshake
  BY <1>6, <1>a DEF async_connect, accept, ResolveHandler, ConnectHandler, ErrorHandler,
                    connect, handshake
<1>7. CASE close
  <2>1. phase \notin {"new", "resolving"} /\ open' = FALSE /\ cause' = "user" /\ phase' = phase
    BY <1>7, <1>a DEF close, CloseFor
  <2> QED
    BY <2>1
<1>8. CASE UNCHANGED vars
  <2>1. UNCHANGED <<phase, op, open, cause, left, fresh, quiet>>
    BY <1>8 DEF vars, timerVars
  <2> QED
    BY <1>a, <2>1 DEF Timeout
<1>9. CASE Succeeds
  BY <1>9, <1>a DEF Succeeds
<1> QED
  BY <1>1, <1>2, <1>3, <1>4, <1>5, <1>6, <1>7, <1>8, <1>9 DEF Next

\* A close of an established connection by a live deadline comes after the
\* silence the deadline stands for.
LEMMA CloseAfterSilence ==
    ASSUME TypeOK, SilenceInv, [Next]_vars, phase = "established", op = "running",
           cause' # cause
    PROVE  /\ cause' = "idle" => quiet >= IdleTimeout
           /\ cause' = "heartbeat" => quiet >= HeartbeatTimeout
<1>1. ASSUME NEW k \in Timers, DeadlineFires(k)
      PROVE  /\ cause' = "idle" => quiet >= IdleTimeout
             /\ cause' # "heartbeat"
  <2>1. PICK c \in Causes : Dequeue(k, c) /\ CloseFor(c) /\ k # "heartbeat"
    BY <1>1 DEF DeadlineFires
  <2>2. cause' = c /\ open
    BY <2>1 DEF CloseFor
  <2>3. c = "idle" => k = "idle" /\ fresh["idle"]
    BY <2>1 DEF Dequeue
  <2>4. fresh["idle"] => quiet >= Timeout("idle")
    BY <2>2 DEF SilenceInv
  <2>5. c # "heartbeat"
    BY <2>1 DEF Dequeue
  <2> QED
    BY <2>2, <2>3, <2>4, <2>5 DEF Timeout
<1>2. ASSUME HeartbeatFires
      PROVE  /\ cause' = "heartbeat" => quiet >= HeartbeatTimeout
             /\ cause' # "idle"
  <2>1. PICK c \in Causes :
           /\ Dequeue("heartbeat", c)
           /\ CloseFor(IF c = "stale" THEN c ELSE "heartbeat")
    BY <1>2 DEF HeartbeatFires
  <2>2. cause' = (IF c = "stale" THEN c ELSE "heartbeat") /\ open
    BY <2>1 DEF CloseFor
  <2>3. c # "stale" => fresh["heartbeat"]
    BY <2>1 DEF Dequeue
  <2>4. fresh["heartbeat"] => quiet >= Timeout("heartbeat")
    BY <2>2 DEF SilenceInv
  <2> QED
    BY <2>2, <2>3, <2>4 DEF Timeout
<1>3. ASSUME close
      PROVE  cause' = "user"
  BY <1>3 DEF close, CloseFor
<1>4. (\E k \in Timers : DeadlineFires(k)) \/ HeartbeatFires \/ close
  BY DEF Next, Tick, Pinged, async_connect, accept, connect, handshake, Succeeds, ErrorHandler,
         ResolveHandler, ConnectHandler, HandshakeHandler, ReadHandler, vars
<1> QED
  BY <1>1, <1>2, <1>3, <1>4

\* A restarted countdown is never cut short: the idle and the heartbeat timers
\* drop an established connection only after a whole timeout in which no read
\* completed, but for a completed read whose handler is still queued.
THEOREM DropsOnlyTheSilent == Spec => DroppedForSilence
<1>1. Init => SilenceInv
  BY DEF Init, SilenceInv
<1>2. TypeOK /\ SilenceInv /\ [Next]_vars =>
        [phase = "established" /\ op = "running" /\ cause' # cause =>
          /\ cause' = "idle" => quiet >= IdleTimeout
          /\ cause' = "heartbeat" => quiet >= HeartbeatTimeout]_vars
  BY CloseAfterSilence
<1> QED
  BY <1>1, <1>2, SilenceStep, TimersTypeCorrect, PTL DEF Spec, DroppedForSilence
=============================================================================
