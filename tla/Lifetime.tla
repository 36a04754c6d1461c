------------------------------ MODULE Lifetime ------------------------------
(***************************************************************************)
(* WriteQueue with the end of the socket's life.  A session, and with it   *)
(* its socket, lives as long as someone holds a shared_ptr to it: the      *)
(* manager's sessions_, and the handler of the pending read (`self' in     *)
(* session.cpp).  The completion handler of a write captures `this' alone  *)
(* (socket.cpp:370) and holds nothing.                                     *)
(*                                                                         *)
(* A caller of async_write holds the session while it calls, so a call is  *)
(* never cut short; destruction under a running completion handler is left *)
(* out, which makes this module a subset of what the code does.            *)
(***************************************************************************)
EXTENDS WriteQueue

VARIABLE holders    \* who holds a shared_ptr to the session

lifeVars == <<vars, holders>>

Alive == holders # {}

LifeInit == Init /\ holders = {"sessions_", "read handler"}

\* A step of the queue, on a socket that exists.
QueueStep == Alive /\ Next /\ UNCHANGED holders

\* The user removes the session, or stop() clears sessions_ after closing the
\* sockets: the pending read still holds it.
RemoveSession ==
    /\ "sessions_" \in holders
    /\ holders' = holders \ {"sessions_"}
    /\ closed' \in {closed, TRUE}
    /\ UNCHANGED <<queue, at, cur, more, inflight, wire, status, fired>>

\* The read fails, for instance because the peer is gone: on_error() takes the
\* session out of sessions_ and its handler, the last holder, ends.  ~session
\* closes the stream; ~boost_tcp_socket destroys write_queue_ and the handlers
\* in it, without a call.
ReadFails ==
    /\ "read handler" \in holders
    /\ \A t \in Threads : at[t] = "free"
    /\ holders' = {}
    /\ closed' = TRUE
    /\ queue' = <<>>
    /\ UNCHANGED <<at, cur, more, inflight, wire, status, fired>>

\* The close aborts the operation in flight, whose completion handler runs on
\* the destroyed socket: undefined, so the write's handler is called or not.
CompleteOnDestroyed ==
    /\ ~Alive
    /\ inflight # <<>>
    /\ inflight' = Tail(inflight)
    /\ \E n \in {0, 1} : fired' = [fired EXCEPT ![Head(inflight).w] = @ + n]
    /\ UNCHANGED <<queue, at, cur, more, wire, status, closed, holders>>

LifeNext == QueueStep \/ RemoveSession \/ ReadFails \/ CompleteOnDestroyed

\* As in WriteQueue; and a read on a closed stream fails.
LifeFairSpec ==
    /\ LifeInit
    /\ [][LifeNext]_lifeVars
    /\ \A t \in Threads : WF_lifeVars(Alive /\ ThreadStep(t) /\ UNCHANGED holders)
    /\ WF_lifeVars(/\ Alive
                   /\ \E t \in Threads, i \in DOMAIN inflight : Complete(t, i)
                   /\ UNCHANGED holders)
    /\ WF_lifeVars(closed /\ ReadFails)
    /\ WF_lifeVars(CompleteOnDestroyed)

\* message.hpp:123: of a write that hands over a view, "the body must remain
\* valid until the handler fires (the handler's invocation is the release
\* signal)".  So the handler of every write that was accepted or refused must
\* run once the stream is closed.
ReleaseSignal ==
    \A w \in Writes :
        (closed /\ status[w] # "new") ~> (fired[w] = 1)
=============================================================================
