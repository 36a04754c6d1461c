---------------------------- MODULE SessionManager ----------------------------
(***************************************************************************)
(* The base class session_manager (src/connection/session_manager.cpp):    *)
(* admission of inbound sessions, outbound dials, the registry sessions_   *)
(* with its per-address counters, the two user callbacks, removal and      *)
(* stop.                                                                   *)
(*                                                                         *)
(* Handlers of different sessions, and of one session and a user thread,   *)
(* run concurrently; each critical section of sessions_mutex_ and each     *)
(* user callback is a step.  A session object that nobody refers to any    *)
(* more is destroyed and its address may be used again, which is why       *)
(* Destroy returns an identifier to "unused".                              *)
(*                                                                         *)
(* The user may call remove_session for any session, at any time: connect  *)
(* hands out a session before it is registered, and for_each_session every *)
(* session in sessions_, announced or not.  A thread that gets an          *)
(* exception out of run() is assumed to go back into it.                   *)
(***************************************************************************)
EXTENDS Naturals, Sequences, FiniteSets

CONSTANTS
    Sessions,       \* session objects (addresses)
    IPs,            \* IPv4 peer addresses
    IPv6,           \* other peer addresses, for which ipv4_address() throws
    NoIP,           \* remote_endpoint_ before it is known
    MaxSessions,    \* max_sessions_; 0 = unlimited
    MaxPerIp        \* max_connections_per_ip_; 0 = unlimited

ASSUME SessionManagerAssumption ==
    /\ NoIP \notin IPs \cup IPv6
    /\ IPs \cap IPv6 = {}
    /\ MaxSessions \in Nat
    /\ MaxPerIp \in Nat

VARIABLES
    sessions,   \* sessions_
    perIp,      \* connections_per_ip_: an entry for each address counted
    ip,         \* the remote endpoint of each session's socket
    phase,      \* how far each session has come
    removal,    \* how far remove_session(s) has come
    told,       \* the callbacks the user got for each session
    stopped     \* session_manager::stop() has run

mgrVars == <<sessions, perIp, ip, phase, removal, told, stopped>>

\* "valid": the handshake handler was told true and has not registered yet;
\* "registered": in sessions_, on_connect_ not called yet; "announced": start()
\* not called yet; "reading": the read loop runs; "ended": no handler is left;
\* "thrown": an exception left register_and_start.
Phases == {"unused", "dialling", "handshaking", "valid", "registered",
           "announced", "reading", "ended", "thrown"}

\* The endpoint of a dialled session; the acceptor listens on IPv4 only.
Endpoints == IPs \cup IPv6

\* "erased": taken out of sessions_; "reported": on_disconnect_ has been called;
\* "done": on_session_removed has been called.
Removals == {"none", "erased", "reported", "done"}

Callbacks == {<<>>, <<"connect">>, <<"connect", "disconnect">>,
              <<"disconnect">>, <<"disconnect", "connect">>}

MgrTypeOK ==
    /\ sessions \subseteq Sessions
    /\ DOMAIN perIp \subseteq IPs
    /\ perIp \in [DOMAIN perIp -> Nat \ {0}]
    /\ ip \in [Sessions -> Endpoints \cup {NoIP}]
    /\ phase \in [Sessions -> Phases]
    /\ removal \in [Sessions -> Removals]
    /\ told \in [Sessions -> Seq({"connect", "disconnect"})]
    /\ stopped \in BOOLEAN

MgrInit ==
    /\ sessions = {}
    /\ perIp = [i \in {} |-> 0]
    /\ ip = [s \in Sessions |-> NoIP]
    /\ phase = [s \in Sessions |-> "unused"]
    /\ removal = [s \in Sessions |-> "none"]
    /\ told = [s \in Sessions |-> <<>>]
    /\ stopped = FALSE

-----------------------------------------------------------------------------

\* connections_per_ip_[i], 0 when there is no entry.
Count(i) == IF i \in DOMAIN perIp THEN perIp[i] ELSE 0

\* ++connections_per_ip_[i].
Incremented(i) ==
    [j \in DOMAIN perIp \cup {i} |-> IF j = i THEN Count(i) + 1 ELSE perIp[j]]

\* Mutant: an entry that reaches zero is kept.
DecrementedKeepingZero(i) ==
    [j \in DOMAIN perIp |-> IF j = i THEN perIp[i] - 1 ELSE perIp[j]]

\* The entry for i, if any, goes down by one and is erased at zero.
Decremented(i) ==
    [j \in {k \in DOMAIN perIp : k = i => perIp[k] # 1} |->
        IF j = i THEN perIp[i] - 1 ELSE perIp[j]]

can_ip_connect(i) ==
    /\ MaxSessions # 0 => Cardinality(sessions) < MaxSessions
    /\ MaxPerIp # 0 => Count(i) < MaxPerIp

\* add_session: an inbound session past a cap is closed, any other one starts
\* its handshake.
add_session(s, i) ==
    /\ phase[s] = "unused"
    /\ ip' = [ip EXCEPT ![s] = i]
    /\ phase' = [phase EXCEPT ![s] =
                   IF can_ip_connect(i) THEN "handshaking" ELSE "ended"]
    /\ UNCHANGED <<sessions, perIp, removal, told, stopped>>

\* connect: the session starts to dial.
Dial(s) ==
    /\ phase[s] = "unused"
    /\ phase' = [phase EXCEPT ![s] = "dialling"]
    /\ UNCHANGED <<sessions, perIp, ip, removal, told, stopped>>

\* The connect handler is told true: the endpoint is known, the handshake starts.
Connected(s, i) ==
    /\ phase[s] = "dialling"
    /\ ip' = [ip EXCEPT ![s] = i]
    /\ phase' = [phase EXCEPT ![s] = "handshaking"]
    /\ UNCHANGED <<sessions, perIp, removal, told, stopped>>

\* The connect or handshake handler returns early and the session with it.
Abandon(s) ==
    /\ phase[s] \in {"dialling", "handshaking"}
    /\ phase' = [phase EXCEPT ![s] = "ended"]
    /\ UNCHANGED <<sessions, perIp, ip, removal, told, stopped>>

\* The handshake handler is told true.
Validated(s) ==
    /\ phase[s] = "handshaking"
    /\ phase' = [phase EXCEPT ![s] = "valid"]
    /\ UNCHANGED <<sessions, perIp, ip, removal, told, stopped>>

-----------------------------------------------------------------------------
(* register_and_start.                                                     *)

\* The critical section: push_back and ++connections_per_ip_.
Register(s) ==
    /\ phase[s] = "valid"
    /\ ip[s] \in IPs
    /\ sessions' = sessions \cup {s}
    /\ perIp' = Incremented(ip[s])
    /\ phase' = [phase EXCEPT ![s] = "registered"]
    /\ UNCHANGED <<ip, removal, told, stopped>>

\* The same for any other address: ipv4_address() throws after push_back, out of
\* the handler, and the rest of register_and_start is skipped.
RegisterThrows(s) ==
    /\ phase[s] = "valid"
    /\ ip[s] \in IPv6
    /\ sessions' = sessions \cup {s}
    /\ phase' = [phase EXCEPT ![s] = "thrown"]
    /\ UNCHANGED <<perIp, ip, removal, told, stopped>>

\* on_connect_(sess).
OnConnect(s) ==
    /\ phase[s] = "registered"
    /\ told' = [told EXCEPT ![s] = Append(@, "connect")]
    /\ phase' = [phase EXCEPT ![s] = "announced"]
    /\ UNCHANGED <<sessions, perIp, ip, removal, stopped>>

\* Mutant: the read loop starts before on_connect_ is called.
StartUnannounced(s) ==
    /\ phase[s] \in {"registered", "announced"}
    /\ phase' = [phase EXCEPT ![s] = "reading"]
    /\ UNCHANGED <<sessions, perIp, ip, removal, told, stopped>>

\* sess->start(): the first read is issued.
Start(s) ==
    /\ phase[s] = "announced"
    /\ phase' = [phase EXCEPT ![s] = "reading"]
    /\ UNCHANGED <<sessions, perIp, ip, removal, told, stopped>>

-----------------------------------------------------------------------------
(* remove_session.                                                         *)

\* Mutant: the session is dropped without on_disconnect_.
EraseSilently(s) ==
    /\ sessions' = sessions \ {s}
    /\ IF s \in sessions /\ ip[s] \in IPs
       THEN /\ perIp' = Decremented(ip[s])
            /\ removal' = [removal EXCEPT ![s] = "reported"]
       ELSE UNCHANGED <<perIp, removal>>

\* The critical section: nothing happens unless the session is registered.  For
\* an address that is not IPv4, ipv4_address() throws right after the erase, and
\* neither the counters nor the callbacks hear of it.
Erase(s) ==
    /\ sessions' = sessions \ {s}
    /\ IF s \in sessions /\ ip[s] \in IPs
       THEN /\ perIp' = Decremented(ip[s])
            /\ removal' = [removal EXCEPT ![s] = "erased"]
       ELSE UNCHANGED <<perIp, removal>>

\* A read fails: session::on_error hands the session to remove_session, and the
\* read loop is over.
ReadFails(s) ==
    /\ phase[s] = "reading"
    /\ phase' = [phase EXCEPT ![s] = "ended"]
    /\ Erase(s)
    /\ UNCHANGED <<ip, told, stopped>>

\* The user calls remove_session; neither the read loop nor a register_and_start
\* under way is told.
remove_session(s) ==
    /\ Erase(s)
    /\ UNCHANGED <<ip, phase, told, stopped>>

\* on_disconnect_(removed).
OnDisconnect(s) ==
    /\ removal[s] = "erased"
    /\ told' = [told EXCEPT ![s] = Append(@, "disconnect")]
    /\ removal' = [removal EXCEPT ![s] = "reported"]
    /\ UNCHANGED <<sessions, perIp, ip, phase, stopped>>

\* on_session_removed(removed), which does nothing in the base class.
SessionRemoved(s) ==
    /\ removal[s] = "reported"
    /\ removal' = [removal EXCEPT ![s] = "done"]
    /\ UNCHANGED <<sessions, perIp, ip, phase, told, stopped>>

-----------------------------------------------------------------------------

\* Mutant: the counters survive.
StopKeepingCounts ==
    /\ sessions' = {}
    /\ stopped' = TRUE
    /\ UNCHANGED <<perIp, ip, phase, removal, told>>

\* session_manager::stop(), all of it under the lock: sockets closed (so that
\* reads fail), both containers cleared, no callback.
Stop ==
    /\ sessions' = {}
    /\ perIp' = [i \in {} |-> 0]
    /\ stopped' = TRUE
    /\ UNCHANGED <<ip, phase, removal, told>>

\* The last reference to a session goes away.
Destroy(s) ==
    /\ phase[s] \in {"ended", "thrown"}
    /\ s \notin sessions
    /\ removal[s] \in {"none", "done"}
    /\ phase' = [phase EXCEPT ![s] = "unused"]
    /\ removal' = [removal EXCEPT ![s] = "none"]
    /\ told' = [told EXCEPT ![s] = <<>>]
    /\ ip' = [ip EXCEPT ![s] = NoIP]
    /\ UNCHANGED <<sessions, perIp, stopped>>

MgrNext ==
    \/ \E s \in Sessions, i \in IPs : add_session(s, i)
    \/ \E s \in Sessions, i \in Endpoints : Connected(s, i)
    \/ \E s \in Sessions :
          \/ Dial(s) \/ Abandon(s) \/ Validated(s)
          \/ Register(s) \/ RegisterThrows(s) \/ OnConnect(s) \/ Start(s)
          \/ ReadFails(s) \/ remove_session(s)
          \/ OnDisconnect(s) \/ SessionRemoved(s)
          \/ Destroy(s)
    \/ Stop

MgrSpec == MgrInit /\ [][MgrNext]_mgrVars

-----------------------------------------------------------------------------
(* Properties.                                                             *)

SessionsOf(i) == {s \in sessions : ip[s] = i}

\* connections_per_ip_ counts exactly the registered sessions of each IPv4
\* address and has no entry for an address without one, through every
\* interleaving of registrations, double removals and stop; a registered session
\* that no counter counts is one whose registration threw.
CountsMatch ==
    /\ \A i \in IPs : Count(i) = Cardinality(SessionsOf(i))
    /\ \A s \in sessions : ip[s] \in IPs \/ phase[s] = "thrown"

\* The user hears of a session at most once each way, and of its end only when it
\* is not registered any more.  on_disconnect comes first only if remove_session
\* overtakes register_and_start between its unlock and on_connect_ (cpp:86-90), and
\* that on_connect_ is then still to come: a failing read never gets ahead of it.
CallbackOrder ==
    \A s \in Sessions :
        /\ told[s] \in Callbacks
        /\ told[s] = <<"disconnect">> => phase[s] = "registered"
        /\ s \in sessions => told[s] \in {<<>>, <<"connect">>}

\* A session that was announced is registered, or its on_disconnect is on the
\* way or done; only stop() drops a session without telling.
NoSilentLoss ==
    \A s \in Sessions :
        told[s] = <<"connect">> /\ ~stopped => s \in sessions \/ removal[s] = "erased"

\* The rest of the inductive invariant: where a session can be registered, and
\* what its phase and its removal say about the callbacks made.
Lifecycle ==
    \A s \in Sessions :
        /\ s \in sessions =>
              /\ phase[s] \in {"registered", "announced", "reading", "thrown"}
              /\ removal[s] = "none"
        /\ phase[s] = "registered" /\ removal[s] = "none" /\ ~stopped => s \in sessions
        /\ phase[s] \in {"handshaking", "valid"} => ip[s] \in Endpoints
        /\ phase[s] \in {"registered", "announced", "reading"} => ip[s] \in IPs
        /\ phase[s] = "thrown" => ip[s] \in IPv6
        /\ phase[s] \notin {"registered", "announced", "reading", "ended"} =>
              removal[s] = "none" /\ told[s] = <<>>
        /\ phase[s] = "registered" =>
              told[s] = IF removal[s] \in {"none", "erased"} THEN <<>> ELSE <<"disconnect">>
        /\ phase[s] \in {"announced", "reading"} => told[s] # <<>>
        /\ removal[s] = "none" => told[s] \in {<<>>, <<"connect">>}
        /\ phase[s] # "registered" /\ removal[s] = "erased" => told[s] = <<"connect">>
        /\ phase[s] # "registered" /\ removal[s] \in {"reported", "done"} =>
              told[s] \in {<<"connect", "disconnect">>, <<"disconnect", "connect">>}

\* session_manager.hpp:70 "admission control for an inbound connection from ip:
\* false if a cap would be exceeded": a manager that only accepts never has more
\* sessions than max_sessions_.
InboundCap == MaxSessions # 0 => Cardinality(sessions) <= MaxSessions

\* A manager that never dials.
InboundSpec == MgrInit /\ [][MgrNext /\ \A s \in Sessions : ~Dial(s)]_mgrVars
=============================================================================
