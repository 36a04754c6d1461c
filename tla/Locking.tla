------------------------------- MODULE Locking -------------------------------
(***************************************************************************)
(* The three mutexes of the library (sessions_mutex_, reconnect_mutex_ and *)
(* the sockets' write_mutex_) and the user code that the library calls     *)
(* back: on_connect, on_disconnect, the function of for_each_session and   *)
(* the completion handlers of writes, the inline handler of a refused      *)
(* write among them.  User code may call the library again, to any depth.  *)
(*                                                                         *)
(* An operation is the list of what it does to the mutexes and where it    *)
(* calls user code, in the order of the source; the data the locks protect *)
(* is in SessionManager, BoostSessionManager and WriteQueue.  The sockets' *)
(* write_mutex_es are one mutex here: with more sharing than the code has, *)
(* what cannot block here cannot block there.                              *)
(***************************************************************************)
EXTENDS Naturals, Sequences

CONSTANTS
    Threads,    \* threads in io_context::run() or calling the library
    NoThread,   \* not a thread
    MaxDepth    \* bound on calls nested through user code

ASSUME LockingAssumption ==
    /\ NoThread \notin Threads
    /\ MaxDepth \in Nat

VARIABLES
    stack,  \* the library calls a thread is in, the innermost one last
    owner   \* the thread that holds each mutex

vars == <<stack, owner>>

Mutexes == {"sessions", "reconnect", "write"}

Lock(m) == [do |-> "lock", mutex |-> m]
Unlock(m) == [do |-> "unlock", mutex |-> m]
User == [do |-> "user", mutex |-> "none"]          \* a call of user code
MayReturn == [do |-> "branch", mutex |-> "none"]   \* an early return, or not

-----------------------------------------------------------------------------
(* The operations.                                                         *)

session_count == <<Lock("sessions"), Unlock("sessions")>>

\* add_session asks can_ip_connect; what follows takes no lock.
add_session == <<Lock("sessions"), Unlock("sessions")>>

register_and_start == <<Lock("sessions"), Unlock("sessions"), User>>

\* The handshake handler of a dial with a policy.
do_connect_handler ==
    <<Lock("reconnect"), Unlock("reconnect"),
      Lock("sessions"), Unlock("sessions"), User>>

\* Mutant: on_disconnect_ is called inside the block of the lock.
remove_session_locked ==
    <<Lock("sessions"), User, Unlock("sessions"), MayReturn,
      Lock("reconnect"), Unlock("reconnect")>>

\* Returns early for a session that is not registered; on_session_removed
\* comes after the callback.
remove_session ==
    <<Lock("sessions"), Unlock("sessions"), MayReturn, User,
      Lock("reconnect"), Unlock("reconnect")>>

\* The callback stands for the calls of fn on every session, one after another.
for_each_session == <<Lock("sessions"), User, Unlock("sessions")>>

stop ==
    <<Lock("reconnect"), Unlock("reconnect"),
      Lock("sessions"), Unlock("sessions")>>

\* A write with room in the queue: only the caller that found it empty goes on
\* to write_next.
async_write ==
    <<Lock("write"), Unlock("write"), MayReturn, Lock("write"), Unlock("write")>>

\* A write that finds the queue full.
async_write_rejected == <<Lock("write"), Unlock("write"), User>>

\* Mutant: the handler runs before the lock is released.
write_completion_locked ==
    <<Lock("write"), User, Unlock("write"), MayReturn,
      Lock("write"), Unlock("write")>>

\* The completion handler of write_next.
write_completion ==
    <<Lock("write"), Unlock("write"), User, MayReturn,
      Lock("write"), Unlock("write")>>

-----------------------------------------------------------------------------

\* What user code may call.
Public == {"session_count", "add_session", "remove_session", "for_each_session", "stop",
           "async_write", "async_write_rejected"}

\* What asio runs.
Handlers == {"add_session", "register_and_start", "do_connect_handler", "write_completion"}

Operations == Public \cup Handlers

Program(op) ==
    CASE op = "session_count"        -> session_count
      [] op = "add_session"          -> add_session
      [] op = "register_and_start"   -> register_and_start
      [] op = "do_connect_handler"   -> do_connect_handler
      [] op = "remove_session"       -> remove_session
      [] op = "for_each_session"     -> for_each_session
      [] op = "stop"                 -> stop
      [] op = "async_write"          -> async_write
      [] op = "async_write_rejected" -> async_write_rejected
      [] op = "write_completion"     -> write_completion

Frame == [op : Operations, pc : 1..7]

TypeOK ==
    /\ stack \in [Threads -> Seq(Frame)]
    /\ owner \in [Mutexes -> Threads \cup {NoThread}]

Init ==
    /\ stack = [t \in Threads |-> <<>>]
    /\ owner = [m \in Mutexes |-> NoThread]

Busy(t) == stack[t] # <<>>

Top(t) == stack[t][Len(stack[t])]

Finished(f) == f.pc > Len(Program(f.op))

\* The next instruction of thread t is an instruction of kind k.
At(t, k) == Busy(t) /\ ~Finished(Top(t)) /\ Program(Top(t).op)[Top(t).pc].do = k

Mutex(t) == Program(Top(t).op)[Top(t).pc].mutex

Push(s, op) == Append(s, [op |-> op, pc |-> 1])

Pop(s) == SubSeq(s, 1, Len(s) - 1)

Advance(s) == [s EXCEPT ![Len(s)].pc = @ + 1]

-----------------------------------------------------------------------------

\* The application calls the library, or asio runs one of its handlers.
Call(t, op) ==
    /\ ~Busy(t)
    /\ stack' = [stack EXCEPT ![t] = Push(@, op)]
    /\ UNCHANGED owner

\* std::mutex blocks while anyone holds it, the caller itself included.
Acquire(t) ==
    /\ At(t, "lock")
    /\ owner[Mutex(t)] = NoThread
    /\ owner' = [owner EXCEPT ![Mutex(t)] = t]
    /\ stack' = [stack EXCEPT ![t] = Advance(@)]

Release(t) ==
    /\ At(t, "unlock")
    /\ owner' = [owner EXCEPT ![Mutex(t)] = NoThread]
    /\ stack' = [stack EXCEPT ![t] = Advance(@)]

\* User code calls the library, inside the callback.
UserCalls(t, op) ==
    /\ At(t, "user")
    /\ op \in Public
    /\ Len(stack[t]) < MaxDepth
    /\ stack' = [stack EXCEPT ![t] = Push(@, op)]
    /\ UNCHANGED owner

UserReturns(t) ==
    /\ At(t, "user")
    /\ stack' = [stack EXCEPT ![t] = Advance(@)]
    /\ UNCHANGED owner

GoOn(t) ==
    /\ At(t, "branch")
    /\ stack' = [stack EXCEPT ![t] = Advance(@)]
    /\ UNCHANGED owner

Return(t) ==
    /\ At(t, "branch") \/ (Busy(t) /\ Finished(Top(t)))
    /\ stack' = [stack EXCEPT ![t] = Pop(@)]
    /\ UNCHANGED owner

Step(t) ==
    \/ Acquire(t)
    \/ Release(t)
    \/ \E op \in Public : UserCalls(t, op)
    \/ UserReturns(t)
    \/ GoOn(t)
    \/ Return(t)

Next ==
    \E t \in Threads : Step(t) \/ \E op \in Operations : Call(t, op)

Spec == Init /\ [][Next]_vars

-----------------------------------------------------------------------------
(* Properties.                                                             *)

Holds(t, m) == owner[m] = t

\* Thread t is inside the function it gave to for_each_session, directly or
\* further down.
InForEach(t) ==
    \E i \in DOMAIN stack[t] : stack[t][i] = [op |-> "for_each_session", pc |-> 2]

\* User code runs without a lock of the library, so it may call the library
\* (session_manager.cpp:88 and 195, socket.cpp:339 and 383 are past the blocks
\* of their locks), with the one exception of for_each_session's function and
\* whatever that calls, which run under sessions_mutex_.
CallbackLocks ==
    \A t \in Threads : At(t, "user") =>
        \A m \in Mutexes : Holds(t, m) <=> (m = "sessions" /\ InForEach(t))

\* A thread that waits for a mutex it holds itself.
WaitsForItself(t) == At(t, "lock") /\ Holds(t, Mutex(t))

Blocked(t) == At(t, "lock") /\ owner[Mutex(t)] # NoThread

\* The library never deadlocks: whoever blocks a thread can go on itself, or
\* waits for a thread that can, unless it waits for itself.  That takes a manager
\* operation called under the function of for_each_session
\* (session_manager.hpp:54), be it by the handler of a write that a full queue
\* refuses inline (socket.cpp:341).
NoDeadlock ==
    \A t \in Threads : Blocked(t) =>
        LET o == owner[Mutex(t)]
        IN  \/ ~Blocked(o)
            \/ ~Blocked(owner[Mutex(o)])
            \/ WaitsForItself(o) /\ InForEach(o) /\ Mutex(o) = "sessions"

\* What makes the two inductive.  A frame is inside the block of a lock when its
\* next instruction ends the block, or is the function of for_each_session.
Inside(f, m) ==
    /\ ~Finished(f)
    /\ \/ Program(f.op)[f.pc] = Unlock(m)
       \/ f = [op |-> "for_each_session", pc |-> 2] /\ m = "sessions"

InUserCode(f) == ~Finished(f) /\ Program(f.op)[f.pc].do = "user"

\* A thread with stack s holds the mutexes `held': those with a frame inside
\* their block, which is one frame; and every frame but the innermost one is in
\* user code.
StackOK(s, held) ==
    /\ \A m \in Mutexes : m \in held <=> \E i \in DOMAIN s : Inside(s[i], m)
    /\ \A m \in Mutexes : \A i, j \in DOMAIN s :
          Inside(s[i], m) /\ Inside(s[j], m) => i = j
    /\ \A i \in DOMAIN s : i < Len(s) => InUserCode(s[i])

Held(t) == {m \in Mutexes : Holds(t, m)}

StackInv == \A t \in Threads : StackOK(stack[t], Held(t))

Inductive == TypeOK /\ StackInv
=============================================================================
