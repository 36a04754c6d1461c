-------------------------- MODULE BoostSessionManager --------------------------
(***************************************************************************)
(* boost_session_manager (src/connection/session_manager.hpp:88-351) on top *)
(* of SessionManager: the accept loop, dialling with and without a         *)
(* reconnect policy, re-dialling with exponential backoff, and the         *)
(* four-step stop() that runs while handlers of every kind are still       *)
(* queued or running.                                                      *)
(*                                                                         *)
(* A reconnect_state is moved, never copied, from handler to map to timer; *)
(* a member of Chains is the identity of one such state.  current_delay    *)
(* counts the ticks of timeout_duration; the multiplier, a double in the   *)
(* code, is the fraction MultiplierNum / MultiplierDen.                    *)
(*                                                                         *)
(* reconnect_stopped_ is an atomic flag read without a lock, so stop() can *)
(* come between reading it and acting on it: each read, each critical      *)
(* section and each call into asio is a step.  Two reads with nothing      *)
(* between them are one, because the flag is never reset.                  *)
(***************************************************************************)
EXTENDS SessionManager

CONSTANTS
    Chains,         \* connect(..., policy) calls
    NoChain,        \* no reconnect_state
    InitialDelay, MaxDelay, MaxAttempts,    \* reconnect_policy
    MultiplierNum, MultiplierDen            \* its multiplier

ASSUME BoostAssumption ==
    /\ NoChain \notin Chains
    /\ InitialDelay \in Nat
    /\ MaxDelay \in Nat
    /\ MaxAttempts \in Nat
    /\ MultiplierNum \in Nat
    /\ MultiplierDen \in Nat \ {0}

VARIABLES
    chain,      \* the state captured by each session's connect handlers
    mapped,     \* reconnect_map_; NoChain = no entry
    timers,     \* the states waiting in a reconnect timer
    hand,       \* the states a thread holds between two of those
    attempts,   \* reconnect_state::attempts
    delay,      \* reconnect_state::current_delay
    tries,      \* history: re-dials since the chain was last established
    fate,       \* history: what has become of each chain
    accept,     \* the accept loop
    acceptor,   \* the acceptor is open
    stopPc      \* how far stop() has come

chainVars == <<chain, mapped, timers, hand, attempts, delay, tries, fate>>
loopVars == <<accept, acceptor, stopPc>>
vars == <<mgrVars, chainVars, loopVars>>

\* "schedule": on its way into schedule_reconnect; "arm": past the checks there,
\* the timer not armed yet; "dial": past the checks of the timer handler, the new
\* session not dialling yet.
Hands == {"none", "schedule", "arm", "dial"}

\* "live": on its way from one dial to the next; "stranded": its entry is in
\* reconnect_map_ under a session whose registration threw; "lost": a stranded entry
\* that a later session at the same address has overwritten.
Fates == {"idle", "live", "gaveup", "stopped", "stranded", "lost"}

AcceptStates == {"off", "armed", "arrived", "ended"}
StopSteps == {"running", "flagged", "unmapped", "unlistened", "done"}

\* reconnect_stopped_.
Stopped == stopPc # "running"

TypeOK ==
    /\ MgrTypeOK
    /\ chain \in [Sessions -> Chains \cup {NoChain}]
    /\ mapped \in [Sessions -> Chains \cup {NoChain}]
    /\ timers \subseteq Chains
    /\ hand \in [Chains -> Hands]
    /\ attempts \in [Chains -> Nat]
    /\ delay \in [Chains -> Nat]
    /\ tries \in [Chains -> Nat]
    /\ fate \in [Chains -> Fates]
    /\ accept \in AcceptStates
    /\ acceptor \in BOOLEAN
    /\ stopPc \in StopSteps

Init ==
    /\ MgrInit
    /\ chain = [s \in Sessions |-> NoChain]
    /\ mapped = [s \in Sessions |-> NoChain]
    /\ timers = {}
    /\ hand = [c \in Chains |-> "none"]
    /\ attempts = [c \in Chains |-> 0]
    /\ delay = [c \in Chains |-> InitialDelay]
    /\ tries = [c \in Chains |-> 0]
    /\ fate = [c \in Chains |-> "idle"]
    /\ accept = "off"
    /\ acceptor = TRUE
    /\ stopPc = "running"

-----------------------------------------------------------------------------
(* The accept loop.                                                        *)

async_wait_for_connection ==
    /\ accept = "off"
    /\ accept' = "armed"
    /\ UNCHANGED <<mgrVars, chainVars, acceptor, stopPc>>

\* A connection arrives and the handler is queued; closing the acceptor does
\* not take it back.
ConnectionArrives ==
    /\ accept = "armed"
    /\ acceptor
    /\ accept' = "arrived"
    /\ UNCHANGED <<mgrVars, chainVars, acceptor, stopPc>>

\* The handler without an error: add_session, then the next async_accept.
AcceptHandler(s, i) ==
    /\ accept = "arrived"
    /\ add_session(s, i)
    /\ accept' = "armed"
    /\ UNCHANGED <<chainVars, acceptor, stopPc>>

\* The handler with an error, whatever it is, returns.
AcceptFails ==
    /\ accept = "armed"
    /\ accept' = "ended"
    /\ UNCHANGED <<mgrVars, chainVars, acceptor, stopPc>>

-----------------------------------------------------------------------------
(* schedule_reconnect and attempt_reconnect.                               *)

\* Mutant: gives up one attempt too early.
ScheduleOneLess(c) ==
    /\ hand[c] = "schedule"
    /\ ~Stopped
    /\ attempts' = [attempts EXCEPT ![c] = @ + 1]
    /\ IF MaxAttempts # 0 /\ attempts[c] + 1 >= MaxAttempts
       THEN hand' = [hand EXCEPT ![c] = "none"] /\ fate' = [fate EXCEPT ![c] = "gaveup"]
       ELSE hand' = [hand EXCEPT ![c] = "arm"] /\ UNCHANGED fate
    /\ UNCHANGED <<mgrVars, chain, mapped, timers, delay, tries, loopVars>>

\* Mutant: reconnect_stopped_ is not looked at.
ScheduleAnyway(c) ==
    /\ hand[c] = "schedule"
    /\ attempts' = [attempts EXCEPT ![c] = @ + 1]
    /\ IF MaxAttempts # 0 /\ attempts[c] + 1 > MaxAttempts
       THEN hand' = [hand EXCEPT ![c] = "none"] /\ fate' = [fate EXCEPT ![c] = "gaveup"]
       ELSE hand' = [hand EXCEPT ![c] = "arm"] /\ UNCHANGED fate
    /\ UNCHANGED <<mgrVars, chain, mapped, timers, delay, tries, loopVars>>

\* The checks: stopped, one more attempt, too many attempts.
schedule_reconnect(c) ==
    /\ hand[c] = "schedule"
    /\ IF Stopped
       THEN /\ hand' = [hand EXCEPT ![c] = "none"]
            /\ fate' = [fate EXCEPT ![c] = "stopped"]
            /\ UNCHANGED attempts
       ELSE /\ attempts' = [attempts EXCEPT ![c] = @ + 1]
            /\ IF MaxAttempts # 0 /\ attempts[c] + 1 > MaxAttempts
               THEN /\ hand' = [hand EXCEPT ![c] = "none"]
                    /\ fate' = [fate EXCEPT ![c] = "gaveup"]
               ELSE hand' = [hand EXCEPT ![c] = "arm"] /\ UNCHANGED fate
    /\ UNCHANGED <<mgrVars, chain, mapped, timers, delay, tries, loopVars>>

\* The timer is armed with current_delay.
ArmTimer(c) ==
    /\ hand[c] = "arm"
    /\ hand' = [hand EXCEPT ![c] = "none"]
    /\ timers' = timers \cup {c}
    /\ UNCHANGED <<mgrVars, chain, mapped, attempts, delay, tries, fate, loopVars>>

\* min(duration_cast(current_delay * multiplier), max_delay); the cast drops the
\* fraction of a tick.
NextDelay(d) ==
    LET grown == (d * MultiplierNum) \div MultiplierDen
    IN  IF grown < MaxDelay THEN grown ELSE MaxDelay

\* The timer handler and the check of attempt_reconnect: the next delay is
\* worked out.
TimerFires(c) ==
    /\ c \in timers
    /\ ~Stopped
    /\ timers' = timers \ {c}
    /\ hand' = [hand EXCEPT ![c] = "dial"]
    /\ delay' = [delay EXCEPT ![c] = NextDelay(@)]
    /\ tries' = [tries EXCEPT ![c] = @ + 1]
    /\ UNCHANGED <<mgrVars, chain, mapped, attempts, fate, loopVars>>

\* The timer handler after stop().
TimerStopped(c) ==
    /\ c \in timers
    /\ Stopped
    /\ timers' = timers \ {c}
    /\ fate' = [fate EXCEPT ![c] = "stopped"]
    /\ UNCHANGED <<mgrVars, chain, mapped, hand, attempts, delay, tries, loopVars>>

\* A new session dials.
attempt_reconnect(c, s) ==
    /\ hand[c] = "dial"
    /\ hand' = [hand EXCEPT ![c] = "none"]
    /\ Dial(s)
    /\ chain' = [chain EXCEPT ![s] = c]
    /\ UNCHANGED <<mapped, timers, attempts, delay, tries, fate, loopVars>>

-----------------------------------------------------------------------------
(* connect and do_connect.                                                 *)

connect(s) ==
    /\ Dial(s)
    /\ UNCHANGED <<chainVars, loopVars>>

connect_with_policy(s, c) ==
    /\ fate[c] = "idle"
    /\ Dial(s)
    /\ chain' = [chain EXCEPT ![s] = c]
    /\ fate' = [fate EXCEPT ![c] = "live"]
    /\ UNCHANGED <<mapped, timers, hand, attempts, delay, tries, loopVars>>

\* The guard of both handlers: `state && reconnect_stopped_' returns.
GivesWay(s) == chain[s] # NoChain /\ Stopped

ConnectOk(s, i) ==
    /\ ~GivesWay(s)
    /\ Connected(s, i)
    /\ UNCHANGED <<chainVars, loopVars>>

HandshakeOk(s) ==
    /\ ~GivesWay(s)
    /\ Validated(s)
    /\ UNCHANGED <<chainVars, loopVars>>

\* A state goes to schedule_reconnect, if there is one.
HandOver(c) ==
    hand' = [d \in Chains |-> IF d = c THEN "schedule" ELSE hand[d]]

\* Either handler is told false: a chain is scheduled again.
DialFails(s) ==
    /\ ~GivesWay(s)
    /\ Abandon(s)
    /\ chain' = [chain EXCEPT ![s] = NoChain]
    /\ HandOver(chain[s])
    /\ UNCHANGED <<mapped, timers, attempts, delay, tries, fate, loopVars>>

\* Either handler after stop(): session and state are dropped.
DialStopped(s) ==
    /\ GivesWay(s)
    /\ Abandon(s)
    /\ chain' = [chain EXCEPT ![s] = NoChain]
    /\ fate' = [fate EXCEPT ![chain[s]] = "stopped"]
    /\ UNCHANGED <<mapped, timers, hand, attempts, delay, tries, loopVars>>

\* Mutant: the backoff is not reset.
MapInsertKeepingDelay(s) ==
    /\ chain[s] # NoChain
    /\ phase[s] \notin {"dialling", "handshaking"}
    /\ mapped' = [mapped EXCEPT ![s] = chain[s]]
    /\ chain' = [chain EXCEPT ![s] = NoChain]
    /\ attempts' = [attempts EXCEPT ![chain[s]] = 0]
    /\ tries' = [tries EXCEPT ![chain[s]] = 0]
    /\ UNCHANGED <<mgrVars, timers, hand, delay, fate, loopVars>>

\* The handshake handler past its checks: the state is reset and moved into
\* reconnect_map_, over what a session at the same address may have left there,
\* before register_and_start.
MapInsert(s) ==
    /\ chain[s] # NoChain
    /\ phase[s] \notin {"dialling", "handshaking"}
    /\ mapped' = [mapped EXCEPT ![s] = chain[s]]
    /\ chain' = [chain EXCEPT ![s] = NoChain]
    /\ attempts' = [attempts EXCEPT ![chain[s]] = 0]
    /\ delay' = [delay EXCEPT ![chain[s]] = InitialDelay]
    /\ tries' = [tries EXCEPT ![chain[s]] = 0]
    /\ fate' = [c \in Chains |-> IF c = mapped[s] /\ fate[c] = "stranded"
                                 THEN "lost" ELSE fate[c]]
    /\ UNCHANGED <<mgrVars, timers, hand, loopVars>>

\* Mutant: the session is registered before its state is in the map.
RegisterFirst(s) ==
    /\ Register(s) \/ RegisterThrows(s)
    /\ UNCHANGED <<chainVars, loopVars>>

\* A registration that throws leaves the entry of its session in the map.
register_and_start(s) ==
    /\ chain[s] = NoChain
    /\ \/ Register(s) /\ UNCHANGED fate
       \/ /\ RegisterThrows(s)
          /\ fate' = [c \in Chains |-> IF c = mapped[s] THEN "stranded" ELSE fate[c]]
    /\ UNCHANGED <<chain, mapped, timers, hand, attempts, delay, tries, loopVars>>

\* Mutant: the entry stays in the map.
SessionRemovedKeepingEntry(s) ==
    /\ SessionRemoved(s)
    /\ HandOver(mapped[s])
    /\ UNCHANGED <<chain, mapped, timers, attempts, delay, tries, fate, loopVars>>

\* Mutant: the state is taken out of the map and forgotten.
SessionRemovedForgetting(s) ==
    /\ SessionRemoved(s)
    /\ mapped' = [mapped EXCEPT ![s] = NoChain]
    /\ UNCHANGED <<chain, timers, hand, attempts, delay, tries, fate, loopVars>>

\* The entry under the removed session, if any, is taken out and scheduled, be it
\* the session's own or one stranded at its address.
on_session_removed(s) ==
    /\ SessionRemoved(s)
    /\ mapped' = [mapped EXCEPT ![s] = NoChain]
    /\ HandOver(mapped[s])
    /\ fate' = [c \in Chains |-> IF c = mapped[s] THEN "live" ELSE fate[c]]
    /\ UNCHANGED <<chain, timers, attempts, delay, tries, loopVars>>

\* The steps of the base class that the derived one leaves alone, add_session
\* called by the user included.
Inherited(s) ==
    /\ \/ \E i \in IPs : add_session(s, i)
       \/ OnConnect(s) \/ Start(s) \/ ReadFails(s) \/ remove_session(s)
       \/ OnDisconnect(s) \/ Destroy(s)
    /\ UNCHANGED <<chainVars, loopVars>>

-----------------------------------------------------------------------------
(* stop(), called once.                                                    *)

StopFlag ==
    /\ stopPc = "running"
    /\ stopPc' = "flagged"
    /\ UNCHANGED <<mgrVars, chainVars, accept, acceptor>>

StopUnmap ==
    /\ stopPc = "flagged"
    /\ stopPc' = "unmapped"
    /\ mapped' = [s \in Sessions |-> NoChain]
    /\ fate' = [c \in Chains |->
                  IF \E s \in Sessions : mapped[s] = c THEN "stopped" ELSE fate[c]]
    /\ UNCHANGED <<mgrVars, chain, timers, hand, attempts, delay, tries, accept, acceptor>>

StopListening ==
    /\ stopPc = "unmapped"
    /\ stopPc' = "unlistened"
    /\ acceptor' = FALSE
    /\ UNCHANGED <<mgrVars, chainVars, accept>>

StopSessions ==
    /\ stopPc = "unlistened"
    /\ stopPc' = "done"
    /\ Stop
    /\ UNCHANGED <<chainVars, accept, acceptor>>

-----------------------------------------------------------------------------

Next ==
    \/ async_wait_for_connection
    \/ ConnectionArrives
    \/ \E s \in Sessions, i \in IPs : AcceptHandler(s, i)
    \/ \E s \in Sessions, i \in Endpoints : ConnectOk(s, i)
    \/ AcceptFails
    \/ \E s \in Sessions, c \in Chains :
          connect_with_policy(s, c) \/ attempt_reconnect(c, s)
    \/ \E c \in Chains :
          schedule_reconnect(c) \/ ArmTimer(c) \/ TimerFires(c) \/ TimerStopped(c)
    \/ \E s \in Sessions :
          \/ connect(s) \/ HandshakeOk(s) \/ DialFails(s) \/ DialStopped(s)
          \/ MapInsert(s) \/ register_and_start(s) \/ on_session_removed(s)
          \/ Inherited(s)
    \/ StopFlag \/ StopUnmap \/ StopListening \/ StopSessions

Spec == Init /\ [][Next]_vars

\* A thread inside remove_session goes on: the user's on_disconnect callback
\* returns, and nothing after it waits for anything but a mutex.  The executor runs
\* the handler of a timer that has expired.
Fairness ==
    /\ \A s \in Sessions :
          /\ WF_vars(OnDisconnect(s) /\ UNCHANGED <<chainVars, loopVars>>)
          /\ WF_vars(on_session_removed(s))
    /\ \A c \in Chains :
          WF_vars(schedule_reconnect(c)) /\ WF_vars(ArmTimer(c)) /\ WF_vars(TimerFires(c))

FairSpec == Spec /\ Fairness

-----------------------------------------------------------------------------
(* Properties.                                                             *)

Dialling(c) == {s \in Sessions : chain[s] = c}
Entries(c) == {s \in Sessions : mapped[s] = c}

\* A live chain is in exactly one place: captured by one dial, one entry of the
\* map, one timer, or one thread.  A stranded one is in its entry; one that gave
\* up, was stopped or was overwritten while stranded is nowhere, and nothing else
\* is ever overwritten or dropped.
ChainCustody ==
    \A c \in Chains :
        LET inTimer == c \in timers
            inHand == hand[c] # "none"
            dialled == Dialling(c) # {}
            entered == Entries(c) # {}
        IN  /\ \A s, u \in Dialling(c) : s = u
            /\ \A s, u \in Entries(c) : s = u
            /\ fate[c] \in {"live", "stranded"} <=> inTimer \/ inHand \/ dialled \/ entered
            /\ fate[c] = "stranded" => entered
            /\ inTimer => ~inHand
            /\ inTimer \/ inHand => ~dialled /\ ~entered
            /\ dialled => ~entered

\* The inductive form of ChainCustody and GiveUpExact, place by place, with what
\* each place says about the session and the counters.
DialInv ==
    \A s \in Sessions : chain[s] # NoChain =>
        /\ phase[s] \in {"dialling", "handshaking", "valid"}
        /\ phase[s] = "valid" => mapped[s] = NoChain \/ fate[mapped[s]] = "stranded"
        /\ chain[s] \notin timers
        /\ fate[chain[s]] = "live"
        /\ attempts[chain[s]] = tries[chain[s]]
        /\ \A u \in Sessions : chain[u] = chain[s] => u = s
        /\ \A u \in Sessions : mapped[u] # chain[s]

EntryInv ==
    \A s \in Sessions : mapped[s] # NoChain =>
        /\ mapped[s] \notin timers
        /\ fate[mapped[s]] \in {"live", "stranded"}
        /\ attempts[mapped[s]] = 0 /\ tries[mapped[s]] = 0
        /\ \A u \in Sessions : mapped[u] = mapped[s] => u = s

TimerInv ==
    \A c \in timers :
        /\ fate[c] = "live"
        /\ attempts[c] = tries[c] + 1
        /\ MaxAttempts # 0 => attempts[c] <= MaxAttempts

HandInv ==
    \A c \in Chains : hand[c] # "none" =>
        /\ c \notin timers
        /\ fate[c] = "live"
        /\ \A s \in Sessions : chain[s] # c /\ mapped[s] # c
        /\ hand[c] = "arm" =>
              /\ attempts[c] = tries[c] + 1
              /\ MaxAttempts # 0 => attempts[c] <= MaxAttempts
        /\ hand[c] # "arm" => attempts[c] = tries[c]

FateInv ==
    \A c \in Chains :
        /\ fate[c] = "live" =>
              \/ c \in timers
              \/ hand[c] # "none"
              \/ \E s \in Sessions : chain[s] = c \/ mapped[s] = c
        /\ fate[c] = "stranded" => \E s \in Sessions : mapped[s] = c
        /\ fate[c] = "idle" => attempts[c] = 0 /\ tries[c] = 0
        /\ MaxAttempts # 0 => tries[c] <= MaxAttempts
        /\ fate[c] = "gaveup" => MaxAttempts # 0 /\ tries[c] = MaxAttempts

ChainInv == DialInv /\ EntryInv /\ TimerInv /\ HandInv /\ FateInv

\* Until stop(), an entry of reconnect_map_ belongs to a session that is about to
\* be registered, is registered and reads or is about to, or is being removed, so
\* that on_session_removed will find it when the session drops.  The one exception
\* is an entry stranded by a registration that threw (cpp:85).
NoOrphanEntry ==
    ~Stopped =>
        \A s \in Sessions : mapped[s] # NoChain /\ fate[mapped[s]] # "stranded" =>
            \/ phase[s] = "valid"
            \/ s \in sessions /\ phase[s] \in {"registered", "announced", "reading"}
            \/ removal[s] \in {"erased", "reported"}

\* reconnect_policy::max_attempts: a chain gives up after exactly that many
\* re-dials without a handshake in between, never earlier or later.
GiveUpExact ==
    \A c \in Chains :
        /\ fate[c] = "gaveup" => MaxAttempts # 0 /\ tries[c] = MaxAttempts
        /\ MaxAttempts # 0 => tries[c] <= MaxAttempts

\* initial_delay multiplied n times, each time cut to whole ticks.
Grown[n \in Nat] ==
    IF n = 0 THEN InitialDelay ELSE (Grown[n - 1] * MultiplierNum) \div MultiplierDen

\* The delay is initial_delay until the first re-dial, and after n of them at most
\* max_delay and at most initial_delay multiplied n times; exactly the smaller of
\* the two unless the multiplier is below 1, where a delay once cut to max_delay
\* goes on shrinking from there.
BackoffForm ==
    \A c \in Chains :
        IF tries[c] = 0 THEN delay[c] = InitialDelay
        ELSE /\ delay[c] <= MaxDelay
             /\ delay[c] <= Grown[tries[c]]
             /\ MultiplierNum >= MultiplierDen => delay[c] \in {Grown[tries[c]], MaxDelay}

Arming == {c \in Chains : hand[c] = "arm"}
Redialling == {c \in Chains : hand[c] = "dial"}

\* Once reconnect_stopped_ is set, removals, failing dials and late map entries
\* commit no chain to another attempt: only a thread already past its check may
\* still arm its timer or start its dial, once.
StopFinal ==
    [][Stopped => /\ Arming' \subseteq Arming
                  /\ Redialling' \subseteq Redialling
                  /\ timers' \subseteq timers \cup Arming]_vars

\* session_manager.hpp:113: when the session of a chain is removed or its read loop
\* ends, the chain comes to dial a new one, or stop() intervenes.
RedialsOnDrop ==
    \A c \in Chains, s \in Sessions :
        /\ mapped[s] = c
        /\ fate[c] = "live"
        /\ phase[s] = "ended" \/ removal[s] \in {"erased", "reported"}
        ~> hand[c] = "dial" \/ Stopped

\* session_manager.hpp:113 "like connect(), but re-dials automatically with
\* exponential backoff when the session drops": the same for every session of a
\* chain that is gone from the registry, one whose registration threw included.
RedialsAnySession ==
    \A c \in Chains, s \in Sessions :
        /\ mapped[s] = c
        /\ phase[s] \in {"ended", "thrown"}
        /\ s \notin sessions
        ~> hand[c] = "dial" \/ Stopped
=============================================================================
