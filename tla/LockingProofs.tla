---------------------------- MODULE LockingProofs ----------------------------
(***************************************************************************)
(* Locking: user code runs unlocked but for for_each_session's function,   *)
(* and no thread waits for ever unless one waits for itself there, for any *)
(* number of threads and any depth of calls through user code.             *)
(***************************************************************************)
EXTENDS Locking, TLAPS

\* One step of frame f.
Inc(f) == [f EXCEPT !.pc = @ + 1]

\* What the ten operations have in common, instruction by instruction: a lock is
\* taken outside every block and opens one, an unlock closes it, user code is
\* outside every block but for_each_session's, branches are outside too.
Regular(f) ==
    LET i == Program(f.op)[f.pc] IN
    /\ Inc(f) \in Frame
    /\ i.do \in {"lock", "unlock", "user", "branch"}
    /\ i.do \in {"lock", "unlock"} => i.mutex \in Mutexes
    /\ i.do = "lock" => \A m \in Mutexes :
          /\ ~Inside(f, m)
          /\ Inside(Inc(f), m) <=> m = i.mutex
    /\ i.do = "unlock" => \A m \in Mutexes :
          /\ Inside(f, m) <=> m = i.mutex
          /\ ~Inside(Inc(f), m)
    /\ i.do = "user" => \A m \in Mutexes :
          /\ Inside(f, m) <=> (f = [op |-> "for_each_session", pc |-> 2]
                                 /\ m = "sessions")
          /\ Inside(Inc(f), m) <=> Inside(f, m)
    /\ i.do = "branch" => \A m \in Mutexes :
          ~Inside(f, m) /\ ~Inside(Inc(f), m)

\* Every operation of the library is regular at every instruction.
LEMMA Programs == \A f \in Frame : ~Finished(f) => Regular(f)
<1> SUFFICES ASSUME NEW f \in Frame, ~Finished(f) PROVE Regular(f)
    OBVIOUS
<1> USE DEF Regular, Frame, Finished, Inside, Inc, Mutexes, Lock, Unlock, User, MayReturn
<1>1. CASE f.op = "session_count"
  BY <1>1, SMTT(90) DEF Program, session_count
<1>2. CASE f.op = "add_session"
  BY <1>2, SMTT(90) DEF Program, add_session
<1>3. CASE f.op = "register_and_start"
  BY <1>3, SMTT(90) DEF Program, register_and_start
<1>4. CASE f.op = "do_connect_handler"
  BY <1>4, SMTT(90) DEF Program, do_connect_handler
<1>5. CASE f.op = "remove_session"
  BY <1>5, SMTT(90) DEF Program, remove_session
<1>6. CASE f.op = "for_each_session"
  BY <1>6, SMTT(90) DEF Program, for_each_session
<1>7. CASE f.op = "stop"
  BY <1>7, SMTT(90) DEF Program, stop
<1>8. CASE f.op = "async_write"
  BY <1>8, SMTT(90) DEF Program, async_write
<1>9. CASE f.op = "async_write_rejected"
  BY <1>9, SMTT(90) DEF Program, async_write_rejected
<1>10. CASE f.op = "write_completion"
  BY <1>10, SMTT(90) DEF Program, write_completion
<1> QED
  BY <1>1, <1>2, <1>3, <1>4, <1>5, <1>6, <1>7, <1>8, <1>9, <1>10
     DEF Operations, Public, Handlers

\* A call starts outside every block.
LEMMA CallStart ==
    \A op \in Operations, m \in Mutexes :
        /\ [op |-> op, pc |-> 1] \in Frame
        /\ ~Inside([op |-> op, pc |-> 1], m)
  BY DEF Operations, Public, Handlers, Program, Frame, Finished, Inside, Mutexes,
         Lock, Unlock, User, MayReturn, session_count, add_session,
         register_and_start, do_connect_handler, remove_session,
         for_each_session, stop, async_write, async_write_rejected,
         write_completion

\* Advance changes the innermost frame alone.
LEMMA Advanced ==
    ASSUME NEW s \in Seq(Frame), s # <<>>, ~Finished(s[Len(s)])
    PROVE  /\ Len(s) \in DOMAIN s
           /\ s[Len(s)] \in Frame
           /\ Regular(s[Len(s)])
           /\ Advance(s) \in Seq(Frame)
           /\ Len(Advance(s)) = Len(s)
           /\ DOMAIN Advance(s) = DOMAIN s
           /\ Advance(s)[Len(s)] = Inc(s[Len(s)])
           /\ \A i \in DOMAIN s : i < Len(s) => Advance(s)[i] = s[i]
           /\ \A i \in DOMAIN s : i < Len(s) \/ i = Len(s)
<1>1. Len(s) \in DOMAIN s /\ s[Len(s)] \in Frame
  OBVIOUS
<1>2. Regular(s[Len(s)])
  BY <1>1, Programs
<1>3. Inc(s[Len(s)]) \in Frame
  BY <1>2 DEF Regular
<1>4. Advance(s) = [s EXCEPT ![Len(s)] = Inc(s[Len(s)])]
  BY DEF Advance, Inc
<1> QED
  BY <1>1, <1>2, <1>3, <1>4

\* Taking a mutex that the thread does not hold.
LEMMA LockStack ==
    ASSUME NEW s \in Seq(Frame), NEW held, StackOK(s, held),
           s # <<>>, ~Finished(s[Len(s)]),
           NEW m, m = Program(s[Len(s)].op)[s[Len(s)].pc].mutex,
           Program(s[Len(s)].op)[s[Len(s)].pc].do = "lock",
           m \notin held
    PROVE  StackOK(Advance(s), held \cup {m})
  BY Advanced, SMTT(90) DEF StackOK, Regular, InUserCode

\* Releasing the mutex of the innermost block.
LEMMA UnlockStack ==
    ASSUME NEW s \in Seq(Frame), NEW held, StackOK(s, held),
           s # <<>>, ~Finished(s[Len(s)]),
           NEW m, m = Program(s[Len(s)].op)[s[Len(s)].pc].mutex,
           Program(s[Len(s)].op)[s[Len(s)].pc].do = "unlock"
    PROVE  StackOK(Advance(s), held \ {m})
  BY Advanced, SMTT(90) DEF StackOK, Regular, InUserCode

\* Going on after user code or at a branch.
LEMMA AdvanceStack ==
    ASSUME NEW s \in Seq(Frame), NEW held, StackOK(s, held),
           s # <<>>, ~Finished(s[Len(s)]),
           Program(s[Len(s)].op)[s[Len(s)].pc].do \in {"user", "branch"}
    PROVE  StackOK(Advance(s), held)
<1>1. \A i \in DOMAIN s : i < Len(s) => InUserCode(Advance(s)[i])
  BY Advanced DEF StackOK
<1>2. \A i \in DOMAIN s, m \in Mutexes : Inside(Advance(s)[i], m) <=> Inside(s[i], m)
  <2> SUFFICES ASSUME NEW i \in DOMAIN s, NEW m \in Mutexes
      PROVE  Inside(Advance(s)[i], m) <=> Inside(s[i], m)
    OBVIOUS
  <2>1. CASE i < Len(s)
    BY <2>1, Advanced
  <2>2. CASE i = Len(s)
    BY <2>2, Advanced DEF Regular
  <2> QED
    BY <2>1, <2>2, Advanced
<1> QED
  BY <1>1, <1>2, Advanced DEF StackOK

\* A call from user code, or the first one of a thread.
LEMMA PushStack ==
    ASSUME NEW s \in Seq(Frame), NEW held, StackOK(s, held),
           s = <<>> \/ InUserCode(s[Len(s)]),
           NEW op \in Operations
    PROVE  Push(s, op) \in Seq(Frame) /\ StackOK(Push(s, op), held)
<1> DEFINE f == [op |-> op, pc |-> 1]
           q == Push(s, op)
<1>1. q \in Seq(Frame) /\ Len(q) = Len(s) + 1 /\ q[Len(q)] = f
  BY CallStart DEF Push, Mutexes
<1>2. \A i \in DOMAIN s : i \in DOMAIN q /\ q[i] = s[i]
  BY CallStart DEF Push
<1>3. \A i \in DOMAIN q : i \in DOMAIN s \/ i = Len(q)
  BY <1>1
<1>4. \A m \in Mutexes : ~Inside(q[Len(q)], m)
  BY <1>1, CallStart
<1>5. \A i \in DOMAIN q : i < Len(q) => InUserCode(q[i])
  BY <1>1, <1>2, <1>3 DEF StackOK
<1> HIDE DEF q
<1>6. StackOK(q, held)
  BY <1>1, <1>2, <1>3, <1>4, <1>5 DEF StackOK
<1> QED
  BY <1>1, <1>6 DEF q

\* A return, from the end of an operation or at a branch.
LEMMA PopStack ==
    ASSUME NEW s \in Seq(Frame), NEW held, StackOK(s, held), s # <<>>,
           Finished(s[Len(s)])
             \/ Program(s[Len(s)].op)[s[Len(s)].pc].do = "branch"
    PROVE  Pop(s) \in Seq(Frame) /\ StackOK(Pop(s), held)
<1> DEFINE q == Pop(s)
<1>1. /\ q \in Seq(Frame)
      /\ Len(q) = Len(s) - 1
      /\ \A i \in DOMAIN q : i \in DOMAIN s /\ i < Len(s) /\ q[i] = s[i]
      /\ \A i \in DOMAIN s : i \in DOMAIN q \/ i = Len(s)
  <2>1. Len(s) \in Nat /\ Len(s) > 0 /\ DOMAIN s = 1..Len(s)
    OBVIOUS
  <2>2. q \in Seq(Frame)
    BY <2>1 DEF Pop
  <2>3. Len(q) = Len(s) - 1
    BY <2>1 DEF Pop
  <2>4. \A i \in 1..(Len(s) - 1) : q[i] = s[i]
    BY <2>1 DEF Pop
  <2> QED
    BY <2>1, <2>2, <2>3, <2>4
<1>2. \A m \in Mutexes : ~Inside(s[Len(s)], m)
  BY Programs DEF Regular, Inside
<1> HIDE DEF q
<1>3. StackOK(q, held)
  BY <1>1, <1>2 DEF StackOK
<1> QED
  BY <1>1, <1>3 DEF q

-----------------------------------------------------------------------------
(* The invariant.                                                          *)

\* A step of thread t leaves the invariant of the others alone.
LEMMA OneThread ==
    ASSUME Inductive, NEW t \in Threads, NEW q \in Seq(Frame),
           stack' = [stack EXCEPT ![t] = q],
           owner' \in [Mutexes -> Threads \cup {NoThread}],
           \A m \in Mutexes, u \in Threads \ {t} : owner'[m] = u <=> owner[m] = u,
           StackOK(q, {m \in Mutexes : owner'[m] = t})
    PROVE  Inductive'
<1>1. TypeOK'
  BY DEF Inductive, TypeOK
<1>2. ASSUME NEW u \in Threads PROVE StackOK(stack'[u], {m \in Mutexes : owner'[m] = u})
  <2>1. CASE u = t
    BY <2>1 DEF Inductive, TypeOK
  <2>2. CASE u # t
    <3>1. stack'[u] = stack[u]
      BY <2>2 DEF Inductive, TypeOK
    <3>2. {m \in Mutexes : owner'[m] = u} = Held(u)
      BY <2>2 DEF Held, Holds
    <3> QED
      BY <3>1, <3>2 DEF Inductive, StackInv
  <2> QED
    BY <2>1, <2>2
<1>3. StackInv'
  BY <1>2 DEF StackInv, Held, Holds
<1> QED
  BY <1>1, <1>3 DEF Inductive

\* Nobody is busy and nothing is held at the start.
LEMMA InductiveInit == Init => Inductive
  BY LockingAssumption
     DEF Init, Inductive, TypeOK, StackInv, StackOK, Held, Holds, Mutexes

\* Every step of every thread preserves the invariant.
LEMMA InductiveStep == Inductive /\ [Next]_vars => Inductive'
<1> SUFFICES ASSUME Inductive, [Next]_vars PROVE Inductive'
  OBVIOUS
<1>1. CASE UNCHANGED vars
  BY <1>1 DEF vars, Inductive, TypeOK, StackInv, Held, Holds
<1>2. ASSUME NEW t \in Threads, Step(t) \/ \E op \in Operations : Call(t, op)
      PROVE  Inductive'
  <2> DEFINE s == stack[t]
  <2>1. /\ s \in Seq(Frame)
        /\ StackOK(s, Held(t))
        /\ owner \in [Mutexes -> Threads \cup {NoThread}]
        /\ stack \in [Threads -> Seq(Frame)]
    BY DEF Inductive, TypeOK, StackInv
  <2>2. UNCHANGED owner => {m \in Mutexes : owner'[m] = t} = Held(t)
    BY DEF Held, Holds
  <2>3. ASSUME NEW op \in Operations, Call(t, op) PROVE Inductive'
    <3>1. Push(s, op) \in Seq(Frame) /\ StackOK(Push(s, op), Held(t))
      BY <2>1, <2>3, PushStack DEF Call, Busy
    <3> QED
      BY <2>1, <2>2, <2>3, <3>1, OneThread DEF Call
  <2>4. CASE Acquire(t)
    <3> DEFINE m == Mutex(t)
    <3>1. s # <<>> /\ ~Finished(s[Len(s)]) /\ Program(s[Len(s)].op)[s[Len(s)].pc].do = "lock"
      BY <2>4 DEF Acquire, At, Busy, Top
    <3>2. m \in Mutexes /\ Advance(s) \in Seq(Frame)
      BY <2>1, <3>1, Advanced DEF Regular, Mutex, Top
    <3>3. m \notin Held(t)
      BY <2>4, LockingAssumption DEF Acquire, Held, Holds
    <3>4. StackOK(Advance(s), Held(t) \cup {m})
      BY <2>1, <3>1, <3>3, LockStack DEF Mutex, Top
    <3>5. owner' = [owner EXCEPT ![m] = t] /\ owner[m] = NoThread
      BY <2>4 DEF Acquire
    <3>6. {k \in Mutexes : owner'[k] = t} = Held(t) \cup {m}
      BY <2>1, <3>2, <3>5 DEF Held, Holds
    <3>7. /\ owner' \in [Mutexes -> Threads \cup {NoThread}]
          /\ \A k \in Mutexes, u \in Threads \ {t} : owner'[k] = u <=> owner[k] = u
      BY <2>1, <3>2, <3>5, LockingAssumption
    <3>8. stack' = [stack EXCEPT ![t] = Advance(s)]
      BY <2>1, <2>4 DEF Acquire
    <3>9. StackOK(Advance(s), {k \in Mutexes : owner'[k] = t})
      BY <3>4, <3>6
    <3> HIDE DEF s, m
    <3> QED
      BY <3>2, <3>7, <3>8, <3>9, OneThread
  <2>5. CASE Release(t)
    <3> DEFINE m == Mutex(t)
    <3>1. s # <<>> /\ ~Finished(s[Len(s)]) /\ Program(s[Len(s)].op)[s[Len(s)].pc].do = "unlock"
      BY <2>5 DEF Release, At, Busy, Top
    <3>2. m \in Mutexes /\ Advance(s) \in Seq(Frame)
      BY <2>1, <3>1, Advanced DEF Regular, Mutex, Top
    <3>3. owner[m] = t
      <4>1. Inside(s[Len(s)], m) /\ Len(s) \in DOMAIN s
        BY <2>1, <3>1, <3>2, Advanced DEF Regular, Mutex, Top
      <4> QED
        BY <2>1, <3>2, <4>1 DEF StackOK, Held, Holds
    <3>4. StackOK(Advance(s), Held(t) \ {m})
      BY <2>1, <3>1, UnlockStack DEF Mutex, Top
    <3>5. owner' = [owner EXCEPT ![m] = NoThread]
      BY <2>5 DEF Release
    <3>6. {k \in Mutexes : owner'[k] = t} = Held(t) \ {m}
      BY <2>1, <3>2, <3>5, LockingAssumption DEF Held, Holds
    <3>7. /\ owner' \in [Mutexes -> Threads \cup {NoThread}]
          /\ \A k \in Mutexes, u \in Threads \ {t} : owner'[k] = u <=> owner[k] = u
      BY <2>1, <3>2, <3>3, <3>5, LockingAssumption
    <3>8. stack' = [stack EXCEPT ![t] = Advance(s)]
      BY <2>1, <2>5 DEF Release
    <3>9. StackOK(Advance(s), {k \in Mutexes : owner'[k] = t})
      BY <3>4, <3>6
    <3> HIDE DEF s, m
    <3> QED
      BY <3>2, <3>7, <3>8, <3>9, OneThread
  <2>6. ASSUME NEW op \in Public, UserCalls(t, op) PROVE Inductive'
    <3>1. Push(s, op) \in Seq(Frame) /\ StackOK(Push(s, op), Held(t))
      BY <2>1, <2>6, PushStack DEF UserCalls, At, Top, Busy, InUserCode, Operations
    <3> QED
      BY <2>1, <2>2, <2>6, <3>1, OneThread DEF UserCalls
  <2>7. CASE UserReturns(t) \/ GoOn(t)
    <3>1. /\ s # <<>> /\ ~Finished(s[Len(s)])
          /\ Program(s[Len(s)].op)[s[Len(s)].pc].do \in {"user", "branch"}
      BY <2>7 DEF UserReturns, GoOn, At, Busy, Top
    <3>2. Advance(s) \in Seq(Frame) /\ StackOK(Advance(s), Held(t))
      BY <2>1, <3>1, Advanced, AdvanceStack
    <3> QED
      BY <2>1, <2>2, <2>7, <3>2, OneThread DEF UserReturns, GoOn
  <2>8. CASE Return(t)
    <3>1. Pop(s) \in Seq(Frame) /\ StackOK(Pop(s), Held(t))
      BY <2>1, <2>8, PopStack DEF Return, At, Busy, Top
    <3> QED
      BY <2>1, <2>2, <2>8, <3>1, OneThread DEF Return
  <2> QED
    BY <1>2, <2>3, <2>4, <2>5, <2>6, <2>7, <2>8 DEF Step
<1> QED
  BY <1>1, <1>2 DEF Next

\* The invariant holds in every reachable state.
THEOREM LockingInvariant == Spec => []Inductive
  BY InductiveInit, InductiveStep, PTL DEF Spec

-----------------------------------------------------------------------------
(* The theorems.                                                           *)

\* User code runs under no lock of the library, except under sessions_mutex_
\* inside the function of for_each_session.
THEOREM UserCodeUnlocked == Spec => []CallbackLocks
<1>1. Inductive => CallbackLocks
  <2> SUFFICES ASSUME Inductive, NEW t \in Threads, At(t, "user"),
                      NEW m \in Mutexes
      PROVE  Holds(t, m) <=> (m = "sessions" /\ InForEach(t))
    BY DEF CallbackLocks
  <2> DEFINE s == stack[t]
  <2>1. s \in Seq(Frame) /\ StackOK(s, Held(t))
    BY DEF Inductive, TypeOK, StackInv
  <2>2. \A i \in DOMAIN s : InUserCode(s[i]) /\ s[i] \in Frame
    BY <2>1 DEF StackOK, At, Busy, Top, InUserCode
  <2>3. \A i \in DOMAIN s :
          Inside(s[i], m) <=> (s[i] = [op |-> "for_each_session", pc |-> 2]
                                 /\ m = "sessions")
    BY <2>2, Programs DEF InUserCode, Regular
  <2>4. Holds(t, m) <=> \E i \in DOMAIN s : Inside(s[i], m)
    BY <2>1 DEF StackOK, Held
  <2> QED
    BY <2>3, <2>4 DEF InForEach
<1> QED
  BY <1>1, LockingInvariant, PTL

\* A blocked thread that holds a mutex is in the function of for_each_session,
\* and that mutex is sessions_mutex_.
LEMMA BlockedHolder ==
    ASSUME Inductive, NEW o \in Threads, NEW m \in Mutexes, Holds(o, m), Blocked(o)
    PROVE  m = "sessions" /\ InForEach(o) /\ Mutex(o) \in Mutexes
<1> DEFINE s == stack[o]
<1>1. s \in Seq(Frame) /\ StackOK(s, Held(o))
  BY DEF Inductive, TypeOK, StackInv
<1>2. s # <<>> /\ ~Finished(s[Len(s)]) /\ Program(s[Len(s)].op)[s[Len(s)].pc].do = "lock"
  BY DEF Blocked, At, Busy, Top
<1>3. ~Inside(s[Len(s)], m) /\ Mutex(o) \in Mutexes
  BY <1>1, <1>2, Advanced DEF Regular, Mutex, Top
<1>4. PICK i \in DOMAIN s : Inside(s[i], m)
  BY <1>1 DEF StackOK, Held
<1>5. InUserCode(s[i]) /\ s[i] \in Frame
  BY <1>1, <1>3, <1>4 DEF StackOK
<1>6. s[i] = [op |-> "for_each_session", pc |-> 2] /\ m = "sessions"
  BY <1>4, <1>5, Programs DEF InUserCode, Regular
<1> QED
  BY <1>3, <1>6 DEF InForEach

\* The three mutexes never make threads wait in a circle; a thread can only
\* wait for itself, in the function of for_each_session.
THEOREM DeadlockOnlyByReentry == Spec => []NoDeadlock
<1>1. Inductive => NoDeadlock
  <2> SUFFICES ASSUME Inductive, NEW t \in Threads, Blocked(t),
                      Blocked(owner[Mutex(t)]),
                      Blocked(owner[Mutex(owner[Mutex(t)])])
      PROVE  LET o == owner[Mutex(t)]
             IN  WaitsForItself(o) /\ InForEach(o) /\ Mutex(o) = "sessions"
    BY DEF NoDeadlock
  <2> DEFINE o == owner[Mutex(t)]
             u == owner[Mutex(o)]
  <2>1. Mutex(t) \in Mutexes /\ o \in Threads
    <3>1. stack[t] \in Seq(Frame) /\ stack[t] # <<>> /\ ~Finished(stack[t][Len(stack[t])])
          /\ Program(Top(t).op)[Top(t).pc].do = "lock" /\ Top(t) = stack[t][Len(stack[t])]
      BY DEF Inductive, TypeOK, Blocked, At, Busy, Top
    <3>2. Mutex(t) \in Mutexes
      BY <3>1, Advanced DEF Regular, Mutex
    <3> QED
      BY <3>2 DEF Blocked, Inductive, TypeOK
  <2>2. Mutex(t) = "sessions" /\ InForEach(o) /\ Mutex(o) \in Mutexes
    BY <2>1, BlockedHolder DEF Holds
  <2>3. u \in Threads
    BY <2>2 DEF Blocked, Inductive, TypeOK
  <2>4. Mutex(o) = "sessions"
    BY <2>2, <2>3, BlockedHolder DEF Holds
  <2>5. WaitsForItself(o)
    BY <2>2, <2>4 DEF WaitsForItself, Holds, Blocked
  <2> QED
    BY <2>2, <2>4, <2>5
<1> QED
  BY <1>1, LockingInvariant, PTL
=============================================================================
