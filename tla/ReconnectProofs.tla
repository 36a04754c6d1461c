-------------------------- MODULE ReconnectProofs ---------------------------
(***************************************************************************)
(* What each step of BoostSessionManager keeps: the types, the place of    *)
(* every reconnect state, and the owners of the entries of reconnect_map_. *)
(* The theorems these make inductive are in SessionManagerProofs.          *)
(***************************************************************************)
EXTENDS BoostSessionManager, TLAPS

\* Handing a reconnect state on keeps the types of the chains.
LEMMA HandOverType ==
    ASSUME TypeOK, NEW c, HandOver(c)
    PROVE  hand' \in [Chains -> Hands]
BY DEF HandOver, TypeOK, Hands

\* What is left of a delay is a delay.
LEMMA DivIsNatural ==
    ASSUME NEW x \in Nat, NEW k \in Nat \ {0}
    PROVE  x \div k \in Nat
BY Z3

\* Every step keeps the types, given that the base class's variables keep theirs.
LEMMA BoostTypeStep == TypeOK /\ MgrTypeOK' /\ [Next]_vars => TypeOK'
<1> SUFFICES ASSUME TypeOK, MgrTypeOK', [Next]_vars
             PROVE  TypeOK'
  OBVIOUS
<1> USE BoostAssumption
<1>1. CASE \/ async_wait_for_connection \/ ConnectionArrives \/ AcceptFails
  BY <1>1 DEF async_wait_for_connection, ConnectionArrives, AcceptFails,
              TypeOK, AcceptStates, chainVars
<1>2. ASSUME NEW s \in Sessions, NEW i \in IPs, AcceptHandler(s, i)
      PROVE  TypeOK'
  BY <1>2 DEF AcceptHandler, TypeOK, AcceptStates, chainVars
<1>3. CASE UNCHANGED <<chainVars, loopVars>>
  BY <1>3 DEF TypeOK, chainVars, loopVars
<1>4. ASSUME NEW s \in Sessions, NEW c \in Chains, connect_with_policy(s, c)
      PROVE  TypeOK'
  BY <1>4 DEF connect_with_policy, TypeOK, Fates, loopVars
<1>5. ASSUME NEW c \in Chains, TimerFires(c)
      PROVE  TypeOK'
  <2>1. delay[c] \in Nat /\ tries[c] \in Nat
    BY DEF TypeOK
  <2>2. NextDelay(delay[c]) \in Nat /\ tries[c] + 1 \in Nat
    <3>1. delay[c] * MultiplierNum \in Nat
      BY <2>1
    <3>2. (delay[c] * MultiplierNum) \div MultiplierDen \in Nat
      BY <3>1, DivIsNatural
    <3> QED
      BY <2>1, <3>2 DEF NextDelay
  <2>3. /\ delay' = [delay EXCEPT ![c] = NextDelay(delay[c])]
        /\ tries' = [tries EXCEPT ![c] = tries[c] + 1]
    BY <1>5 DEF TimerFires
  <2>4. delay' \in [Chains -> Nat] /\ tries' \in [Chains -> Nat]
    BY <2>2, <2>3 DEF TypeOK
  <2> QED
    BY <1>5, <2>4 DEF TimerFires, TypeOK, Hands, loopVars
<1>6. ASSUME NEW c \in Chains, TimerStopped(c) \/ ArmTimer(c)
      PROVE  TypeOK'
  BY <1>6 DEF TimerStopped, ArmTimer, TypeOK, Fates, Hands, loopVars
<1>14. ASSUME NEW c \in Chains, schedule_reconnect(c)
       PROVE  TypeOK'
  <2>1. attempts[c] \in Nat /\ attempts \in [Chains -> Nat]
    BY DEF TypeOK
  <2>2. attempts[c] + 1 \in Nat
    BY <2>1
  <2>3. attempts' = attempts \/ attempts' = [attempts EXCEPT ![c] = attempts[c] + 1]
    BY <1>14 DEF schedule_reconnect
  <2>4. attempts' \in [Chains -> Nat]
    BY <2>1, <2>2, <2>3
  <2>5. hand' \in [Chains -> Hands] /\ fate' \in [Chains -> Fates]
    BY <1>14 DEF schedule_reconnect, TypeOK, Hands, Fates
  <2> QED
    BY <1>14, <2>4, <2>5 DEF schedule_reconnect, TypeOK, loopVars
<1>15. ASSUME NEW s \in Sessions, NEW c \in Chains, attempt_reconnect(c, s)
       PROVE  TypeOK'
  BY <1>15 DEF attempt_reconnect, TypeOK, Hands, loopVars
<1>7. ASSUME NEW s \in Sessions, DialFails(s)
      PROVE  TypeOK'
  <2>1. hand' \in [Chains -> Hands]
    BY <1>7, HandOverType DEF DialFails
  <2> QED
    BY <1>7, <2>1 DEF DialFails, TypeOK, loopVars
<1>8. ASSUME NEW s \in Sessions, DialStopped(s)
      PROVE  TypeOK'
  BY <1>8 DEF DialStopped, TypeOK, Fates, loopVars
<1>9. ASSUME NEW s \in Sessions, MapInsert(s)
      PROVE  TypeOK'
  <2>1. fate' \in [Chains -> Fates]
    BY <1>9 DEF MapInsert, TypeOK, Fates
  <2> QED
    BY <1>9, <2>1 DEF MapInsert, TypeOK, loopVars
<1>16. ASSUME NEW s \in Sessions, register_and_start(s)
       PROVE  TypeOK'
  <2>1. fate' \in [Chains -> Fates]
    BY <1>16 DEF register_and_start, TypeOK, Fates
  <2> QED
    BY <1>16, <2>1 DEF register_and_start, TypeOK, loopVars
<1>10. ASSUME NEW s \in Sessions, on_session_removed(s)
       PROVE  TypeOK'
  <2>1. hand' \in [Chains -> Hands]
    BY <1>10, HandOverType DEF on_session_removed
  <2>2. fate' \in [Chains -> Fates]
    BY <1>10 DEF on_session_removed, TypeOK, Fates
  <2> QED
    BY <1>10, <2>1, <2>2 DEF on_session_removed, TypeOK, loopVars
<1>11. CASE StopUnmap
  <2>1. fate' \in [Chains -> Fates]
    BY <1>11 DEF StopUnmap, TypeOK, Fates
  <2> QED
    BY <1>11, <2>1 DEF StopUnmap, TypeOK, StopSteps
<1>12. CASE StopFlag \/ StopListening \/ StopSessions
  BY <1>12 DEF StopFlag, StopListening, StopSessions, TypeOK, StopSteps, chainVars
<1>13. CASE UNCHANGED vars
  BY <1>3, <1>13 DEF vars
<1> QED
  BY <1>1, <1>2, <1>3, <1>4, <1>5, <1>6, <1>7, <1>8, <1>9, <1>10, <1>11, <1>12,
     <1>13, <1>14, <1>15, <1>16
     DEF Next, ConnectOk, connect, HandshakeOk, Inherited

-----------------------------------------------------------------------------

\* Every step leaves each reconnect state in one place, with its counters.
LEMMA ChainStep ==
    TypeOK /\ Lifecycle /\ NoOrphanEntry /\ ChainInv /\ [Next]_vars => ChainInv'
<1> SUFFICES ASSUME TypeOK, Lifecycle, NoOrphanEntry, ChainInv, [Next]_vars
             PROVE  ChainInv'
  OBVIOUS
<1> USE BoostAssumption
<1>0. /\ chain \in [Sessions -> Chains \cup {NoChain}]
      /\ mapped \in [Sessions -> Chains \cup {NoChain}]
      /\ timers \subseteq Chains
      /\ hand \in [Chains -> Hands]
      /\ attempts \in [Chains -> Nat]
      /\ tries \in [Chains -> Nat]
      /\ fate \in [Chains -> Fates]
      /\ phase \in [Sessions -> Phases]
  BY DEF TypeOK, MgrTypeOK
<1>00. DialInv /\ EntryInv /\ TimerInv /\ HandInv /\ FateInv
  BY DEF ChainInv
\* A step that moves no chain keeps the invariant if it keeps dialling sessions
\* in their phases.
<1>1. ASSUME UNCHANGED chainVars,
             \A s \in Sessions : chain[s] # NoChain =>
                /\ phase'[s] \in {"dialling", "handshaking", "valid"}
                /\ phase'[s] = "valid" => mapped[s] = NoChain \/ fate[mapped[s]] = "stranded"
      PROVE  ChainInv'
  <2>1. UNCHANGED <<chain, mapped, timers, hand, attempts, tries, fate>>
    BY <1>1 DEF chainVars
  <2>2. DialInv'
    BY <1>1, <1>00, <2>1 DEF DialInv
  <2>3. EntryInv' /\ TimerInv'
    BY <1>00, <2>1 DEF EntryInv, TimerInv
  <2>4. HandInv'
    BY <1>00, <2>1 DEF HandInv
  <2>5. FateInv'
    BY <1>00, <2>1 DEF FateInv
  <2> QED
    BY <2>2, <2>3, <2>4, <2>5 DEF ChainInv
<1>2. ASSUME NEW s \in Sessions, NEW c \in Chains, connect_with_policy(s, c)
      PROVE  ChainInv'
  <2>1. /\ fate[c] = "idle" /\ c \notin timers /\ attempts[c] = 0 /\ tries[c] = 0
        /\ hand[c] = "none"
        /\ \A u \in Sessions : chain[u] # c /\ mapped[u] # c
    BY <1>0, <1>00, <1>2
       DEF connect_with_policy, DialInv, EntryInv, TimerInv, HandInv, FateInv
  <2>2. /\ chain' = [chain EXCEPT ![s] = c] /\ fate' = [fate EXCEPT ![c] = "live"]
        /\ phase' = [phase EXCEPT ![s] = "dialling"] /\ phase[s] = "unused"
        /\ UNCHANGED <<mapped, timers, hand, attempts, tries>>
    BY <1>2 DEF connect_with_policy, Dial
  <2>3. chain[s] = NoChain
    BY <1>00, <2>2 DEF DialInv
  <2>4. DialInv'
    BY <1>0, <1>00, <2>1, <2>2, <2>3 DEF DialInv
  <2>5. EntryInv' /\ TimerInv' /\ HandInv'
    BY <1>0, <1>00, <2>1, <2>2 DEF EntryInv, TimerInv, HandInv
  <2>6. FateInv'
    BY <1>0, <1>00, <2>1, <2>2, <2>3 DEF FateInv
  <2> QED
    BY <2>4, <2>5, <2>6 DEF ChainInv
<1>3. ASSUME NEW c \in Chains, TimerFires(c)
      PROVE  ChainInv'
  <2>1. /\ c \in timers /\ fate[c] = "live" /\ hand[c] = "none"
        /\ attempts[c] = tries[c] + 1 /\ tries[c] \in Nat
        /\ MaxAttempts # 0 => attempts[c] <= MaxAttempts
        /\ \A u \in Sessions : chain[u] # c /\ mapped[u] # c
    BY <1>0, <1>00, <1>3 DEF TimerFires, DialInv, EntryInv, TimerInv, HandInv
  <2>2. /\ timers' = timers \ {c}
        /\ hand' = [hand EXCEPT ![c] = "dial"]
        /\ tries' = [tries EXCEPT ![c] = tries[c] + 1]
        /\ UNCHANGED <<phase, chain, mapped, attempts, fate>>
    BY <1>3 DEF TimerFires, mgrVars
  <2>3. /\ tries'[c] = attempts[c] /\ hand'[c] = "dial"
        /\ \A d \in Chains : d # c => tries'[d] = tries[d] /\ hand'[d] = hand[d]
    BY <1>0, <2>1, <2>2
  <2>4. DialInv' /\ EntryInv'
    BY <1>0, <1>00, <2>1, <2>2, <2>3 DEF DialInv, EntryInv
  <2>5. TimerInv' /\ HandInv'
    <3>1. TimerInv'
      BY <1>0, <1>00, <2>1, <2>2, <2>3 DEF TimerInv
    <3>2. HandInv'
      BY <1>0, <1>00, <2>1, <2>2, <2>3, SMTT(90) DEF HandInv
    <3> QED
      BY <3>1, <3>2
  <2>6. FateInv'
    BY <1>0, <1>00, <2>1, <2>2, <2>3 DEF FateInv
  <2> QED
    BY <2>4, <2>5, <2>6 DEF ChainInv
<1>4. ASSUME NEW c \in Chains, TimerStopped(c)
      PROVE  ChainInv'
  <2>1. hand[c] = "none" /\ \A u \in Sessions : chain[u] # c /\ mapped[u] # c
    BY <1>0, <1>00, <1>4 DEF TimerStopped, DialInv, EntryInv, HandInv
  <2>2. /\ timers' = timers \ {c} /\ fate' = [fate EXCEPT ![c] = "stopped"]
        /\ UNCHANGED <<chain, mapped, hand, attempts, tries, phase>>
    BY <1>4 DEF TimerStopped, mgrVars
  <2>3. DialInv' /\ EntryInv' /\ TimerInv' /\ HandInv'
    <3>1. DialInv'
      BY <1>0, <1>00, <2>1, <2>2 DEF DialInv
    <3>2. EntryInv'
      BY <1>0, <1>00, <2>1, <2>2 DEF EntryInv
    <3>3. TimerInv'
      BY <1>0, <1>00, <2>1, <2>2 DEF TimerInv, HandInv
    <3>4. HandInv'
      BY <1>0, <1>00, <2>1, <2>2 DEF TimerInv, HandInv
    <3> QED
      BY <3>1, <3>2, <3>3, <3>4
  <2>4. FateInv'
    BY <1>0, <1>00, <2>1, <2>2 DEF FateInv
  <2> QED
    BY <2>3, <2>4 DEF ChainInv
<1>16. ASSUME NEW c \in Chains, ArmTimer(c)
       PROVE  ChainInv'
  <2>1. /\ hand[c] = "arm" /\ fate[c] = "live" /\ attempts[c] = tries[c] + 1
        /\ MaxAttempts # 0 => attempts[c] <= MaxAttempts
        /\ \A u \in Sessions : chain[u] # c /\ mapped[u] # c
    BY <1>0, <1>00, <1>16 DEF ArmTimer, HandInv
  <2>2. /\ timers' = timers \cup {c} /\ hand' = [hand EXCEPT ![c] = "none"]
        /\ UNCHANGED <<chain, mapped, fate, attempts, tries, phase>>
    BY <1>16 DEF ArmTimer, mgrVars
  <2>3. DialInv' /\ EntryInv' /\ TimerInv' /\ HandInv'
    <3>1. DialInv'
      BY <1>0, <1>00, <2>1, <2>2 DEF DialInv
    <3>2. EntryInv'
      BY <1>0, <1>00, <2>1, <2>2 DEF EntryInv
    <3>3. TimerInv'
      BY <1>0, <1>00, <2>1, <2>2 DEF TimerInv, HandInv
    <3>4. HandInv'
      BY <1>0, <1>00, <2>1, <2>2 DEF TimerInv, HandInv
    <3> QED
      BY <3>1, <3>2, <3>3, <3>4
  <2>4. FateInv'
    BY <1>0, <1>00, <2>1, <2>2 DEF FateInv
  <2> QED
    BY <2>3, <2>4 DEF ChainInv
<1>17. ASSUME NEW s \in Sessions, NEW c \in Chains, attempt_reconnect(c, s)
       PROVE  ChainInv'
  <2>1. /\ hand[c] = "dial" /\ fate[c] = "live" /\ c \notin timers
        /\ attempts[c] = tries[c]
        /\ \A u \in Sessions : chain[u] # c /\ mapped[u] # c
    BY <1>0, <1>00, <1>17 DEF attempt_reconnect, HandInv
  <2>2. /\ chain' = [chain EXCEPT ![s] = c] /\ hand' = [hand EXCEPT ![c] = "none"]
        /\ phase' = [phase EXCEPT ![s] = "dialling"] /\ phase[s] = "unused"
        /\ UNCHANGED <<mapped, timers, attempts, tries, fate>>
    BY <1>17 DEF attempt_reconnect, Dial
  <2>3. chain[s] = NoChain
    BY <1>00, <2>2 DEF DialInv
  <2>4. DialInv'
    BY <1>0, <1>00, <2>1, <2>2, <2>3 DEF DialInv
  <2>5. EntryInv' /\ TimerInv' /\ HandInv'
    BY <1>0, <1>00, <2>1, <2>2 DEF EntryInv, TimerInv, HandInv
  <2>6. FateInv'
    BY <1>0, <1>00, <2>1, <2>2, <2>3 DEF FateInv
  <2> QED
    BY <2>4, <2>5, <2>6 DEF ChainInv
<1>18. ASSUME NEW c \in Chains, schedule_reconnect(c)
       PROVE  ChainInv'
  <2>1. /\ hand[c] = "schedule" /\ fate[c] = "live" /\ c \notin timers
        /\ attempts[c] = tries[c] /\ tries[c] \in Nat
        /\ MaxAttempts # 0 => tries[c] <= MaxAttempts
        /\ \A u \in Sessions : chain[u] # c /\ mapped[u] # c
    BY <1>0, <1>00, <1>18 DEF schedule_reconnect, HandInv, FateInv
  <2>2. /\ UNCHANGED <<phase, chain, mapped, timers, tries>>
        /\ \A d \in Chains : d # c =>
              attempts'[d] = attempts[d] /\ hand'[d] = hand[d] /\ fate'[d] = fate[d]
    BY <1>0, <1>18 DEF schedule_reconnect, mgrVars
  <2>3. \/ fate'[c] = "stopped" /\ hand'[c] = "none"
        \/ /\ fate'[c] = "gaveup" /\ hand'[c] = "none"
           /\ MaxAttempts # 0 /\ tries[c] = MaxAttempts
        \/ /\ fate'[c] = "live" /\ hand'[c] = "arm" /\ attempts'[c] = tries[c] + 1
           /\ MaxAttempts # 0 => attempts'[c] <= MaxAttempts
    <3>1. CASE Stopped
      BY <1>0, <1>18, <3>1 DEF schedule_reconnect
    <3>2. CASE ~Stopped /\ MaxAttempts # 0 /\ attempts[c] + 1 > MaxAttempts
      <4>1. tries[c] = MaxAttempts
        BY <2>1, <3>2
      <4> QED
        BY <1>0, <1>18, <3>2, <4>1 DEF schedule_reconnect
    <3>3. CASE ~Stopped /\ ~(MaxAttempts # 0 /\ attempts[c] + 1 > MaxAttempts)
      <4>1. /\ attempts' = [attempts EXCEPT ![c] = attempts[c] + 1]
            /\ hand' = [hand EXCEPT ![c] = "arm"] /\ fate' = fate
        BY <1>18, <3>3 DEF schedule_reconnect
      <4>2. attempts'[c] = tries[c] + 1 /\ hand'[c] = "arm"
        BY <1>0, <2>1, <4>1
      <4> QED
        BY <2>1, <3>3, <4>1, <4>2
    <3> QED
      BY <3>1, <3>2, <3>3
  <2>4. DialInv' /\ EntryInv'
    BY <1>0, <1>00, <2>1, <2>2, SMTT(90) DEF DialInv, EntryInv
  <2>5. TimerInv' /\ HandInv'
    <3>1. TimerInv'
      BY <1>0, <1>00, <2>1, <2>2, <2>3 DEF TimerInv
    <3>2. HandInv'
      BY <1>0, <1>00, <2>1, <2>2, <2>3, SMTT(90) DEF HandInv
    <3> QED
      BY <3>1, <3>2
  <2>6. FateInv'
    BY <1>00, <2>1, <2>2, <2>3 DEF FateInv
  <2> QED
    BY <2>4, <2>5, <2>6 DEF ChainInv
\* A dial or an entry that hands its chain over to a thread.
<1>5. ASSUME NEW s \in Sessions, NEW c \in Chains, HandOver(c),
             UNCHANGED <<timers, attempts, tries>>,
             fate' = [d \in Chains |-> IF d = c THEN "live" ELSE fate[d]],
             chain[s] = c \/ mapped[s] = c,
             chain' = [chain EXCEPT ![s] = NoChain] \/ (chain' = chain /\ chain[s] # c),
             mapped' = [mapped EXCEPT ![s] = NoChain] \/ (mapped' = mapped /\ mapped[s] # c),
             mapped'[s] = mapped[s] \/ mapped[s] = c,
             chain'[s] = chain[s] \/ chain[s] = c,
             \A u \in Sessions : chain'[u] # NoChain => phase'[u] = phase[u]
      PROVE  ChainInv'
  <2>1. /\ c \notin timers /\ fate'[c] = "live" /\ attempts[c] = tries[c]
        /\ \A d \in Chains : d # c => fate'[d] = fate[d]
        /\ \A u \in Sessions : chain[u] = c \/ mapped[u] = c => u = s
    BY <1>0, <1>00, <1>5 DEF DialInv, EntryInv
  <2>2. /\ \A u \in Sessions : chain'[u] # c /\ mapped'[u] # c
        /\ \A u \in Sessions : chain'[u] # NoChain => chain'[u] = chain[u]
        /\ \A u \in Sessions : mapped'[u] # NoChain => mapped'[u] = mapped[u]
        /\ \A u \in Sessions : chain[u] # c => chain'[u] = chain[u]
        /\ \A u \in Sessions : mapped[u] # c => mapped'[u] = mapped[u]
    BY <1>0, <1>5, <2>1
  <2>3. hand'[c] = "schedule" /\ \A d \in Chains : d # c => hand'[d] = hand[d]
    BY <1>5 DEF HandOver
  <2>4. \A d \in Chains : (\A u \in Sessions : chain[u] # d /\ mapped[u] # d) =>
           \A u \in Sessions : chain'[u] # d /\ mapped'[u] # d
    BY <2>2
  <2>5. DialInv'
    <3>1. ASSUME NEW u \in Sessions, chain'[u] # NoChain
          PROVE  /\ chain'[u] = chain[u] /\ chain[u] \in Chains /\ chain[u] # c
                 /\ fate'[chain[u]] = fate[chain[u]]
                 /\ phase'[u] = phase[u]
                 /\ mapped'[u] # NoChain =>
                       mapped'[u] = mapped[u] /\ fate'[mapped[u]] = fate[mapped[u]]
      BY <1>0, <1>5, <2>1, <2>2, <3>1, SMTT(30)
    <3>2. ASSUME NEW u \in Sessions, chain'[u] # NoChain
          PROVE  /\ phase'[u] \in {"dialling", "handshaking", "valid"}
                 /\ phase'[u] = "valid" => mapped'[u] = NoChain \/ fate'[mapped'[u]] = "stranded"
                 /\ chain'[u] \notin timers'
                 /\ fate'[chain'[u]] = "live"
                 /\ attempts'[chain'[u]] = tries'[chain'[u]]
      <4>1. UNCHANGED <<timers, attempts, tries>>
        BY <1>5
      <4>2. /\ phase[u] \in {"dialling", "handshaking", "valid"}
            /\ phase[u] = "valid" => mapped[u] = NoChain \/ fate[mapped[u]] = "stranded"
            /\ chain[u] \notin timers /\ fate[chain[u]] = "live"
            /\ attempts[chain[u]] = tries[chain[u]]
        BY <1>00, <3>1, <3>2 DEF DialInv
      <4>3. phase'[u] = "valid" => mapped'[u] = NoChain \/ fate'[mapped'[u]] = "stranded"
        BY <1>0, <2>2, <3>1, <3>2, <4>2
      <4> QED
        BY <3>1, <3>2, <4>1, <4>2, <4>3
    <3>3. ASSUME NEW u \in Sessions, chain'[u] # NoChain, NEW v \in Sessions
          PROVE  (chain'[v] = chain'[u] => v = u) /\ mapped'[v] # chain'[u]
      <4>1. chain'[u] = chain[u] /\ chain[u] # NoChain
        BY <3>1, <3>3
      <4>2. (chain[v] = chain[u] => v = u) /\ mapped[v] # chain[u]
        BY <1>00, <4>1 DEF DialInv
      <4>3. chain'[v] = NoChain \/ chain'[v] = chain[v]
        BY <2>2
      <4>4. mapped'[v] = NoChain \/ mapped'[v] = mapped[v]
        BY <2>2
      <4> QED
        BY <4>1, <4>2, <4>3, <4>4
    <3> QED
      BY <3>2, <3>3 DEF DialInv
  <2>6. EntryInv' /\ TimerInv'
    <3>1. EntryInv'
      <4>1. ASSUME NEW u \in Sessions, mapped'[u] # NoChain
            PROVE  /\ mapped'[u] = mapped[u] /\ mapped[u] \in Chains /\ mapped[u] # c
                   /\ fate'[mapped[u]] = fate[mapped[u]]
        BY <1>0, <2>1, <2>2, <4>1, SMTT(30)
      <4> QED
        BY <1>00, <1>5, <2>2, <4>1 DEF EntryInv
    <3>2. TimerInv'
      BY <1>0, <1>00, <1>5, <2>1 DEF TimerInv
    <3> QED
      BY <3>1, <3>2
  <2>7. HandInv'
    <3> SUFFICES ASSUME NEW d \in Chains, hand'[d] # "none"
                 PROVE  /\ d \notin timers'
                        /\ fate'[d] = "live"
                        /\ \A u \in Sessions : chain'[u] # d /\ mapped'[u] # d
                        /\ hand'[d] = "arm" =>
                              /\ attempts'[d] = tries'[d] + 1
                              /\ MaxAttempts # 0 => attempts'[d] <= MaxAttempts
                        /\ hand'[d] # "arm" => attempts'[d] = tries'[d]
      BY DEF HandInv
    <3>0. timers' = timers /\ attempts' = attempts /\ tries' = tries
      BY <1>5
    <3>1. CASE d = c
      BY <2>1, <2>2, <2>3, <3>0, <3>1
    <3>2. CASE d # c
      <4>1. hand'[d] = hand[d]
        BY <2>3, <3>2
      <4>2. /\ d \notin timers /\ fate[d] = "live"
            /\ \A u \in Sessions : chain[u] # d /\ mapped[u] # d
            /\ hand[d] = "arm" => /\ attempts[d] = tries[d] + 1
                                  /\ MaxAttempts # 0 => attempts[d] <= MaxAttempts
            /\ hand[d] # "arm" => attempts[d] = tries[d]
        BY <1>00, <4>1 DEF HandInv
      <4>3. \A u \in Sessions : chain'[u] # d /\ mapped'[u] # d
        BY <2>4, <4>2
      <4> QED
        BY <2>1, <3>0, <3>2, <4>1, <4>2, <4>3
    <3> QED
      BY <3>1, <3>2
  <2>8. FateInv'
    <3>0. timers' = timers /\ attempts' = attempts /\ tries' = tries
      BY <1>5
    <3>1. ASSUME NEW d \in Chains, fate'[d] = "live"
          PROVE  d \in timers \/ hand'[d] # "none"
                 \/ \E u \in Sessions : chain'[u] = d \/ mapped'[u] = d
      <4>1. CASE d = c
        BY <2>3, <4>1
      <4>2. CASE d # c
        <5>1. d \in timers \/ hand[d] # "none"
              \/ \E u \in Sessions : chain[u] = d \/ mapped[u] = d
          BY <1>00, <2>1, <3>1, <4>2 DEF FateInv
        <5>2. hand'[d] = hand[d]
          BY <2>3, <4>2
        <5>3. ASSUME NEW u \in Sessions, chain[u] = d \/ mapped[u] = d
              PROVE  chain'[u] = d \/ mapped'[u] = d
          BY <2>2, <4>2, <5>3
        <5> QED
          BY <5>1, <5>2, <5>3
      <4> QED
        BY <4>1, <4>2
    <3>2. ASSUME NEW d \in Chains
          PROVE  /\ fate'[d] = "stranded" => \E u \in Sessions : mapped'[u] = d
                 /\ fate'[d] = "idle" => attempts[d] = 0 /\ tries[d] = 0
                 /\ MaxAttempts # 0 => tries[d] <= MaxAttempts
                 /\ fate'[d] = "gaveup" => MaxAttempts # 0 /\ tries[d] = MaxAttempts
      <4>1. CASE d = c
        BY <1>00, <2>1, <4>1 DEF FateInv
      <4>2. CASE d # c
        <5>1. \A u \in Sessions : mapped[u] = d => mapped'[u] = d
          BY <2>2, <4>2
        <5> QED
          BY <1>00, <2>1, <4>2, <5>1 DEF FateInv
      <4> QED
        BY <4>1, <4>2
    <3> QED
      BY <3>0, <3>1, <3>2 DEF FateInv
  <2> QED
    BY <2>5, <2>6, <2>7, <2>8 DEF ChainInv
<1>6. ASSUME NEW s \in Sessions, DialFails(s)
      PROVE  ChainInv'
  <2>0. /\ phase' = [phase EXCEPT ![s] = "ended"]
        /\ chain' = [chain EXCEPT ![s] = NoChain] /\ mapped' = mapped
        /\ HandOver(chain[s])
        /\ UNCHANGED <<timers, attempts, delay, tries, fate>>
    BY <1>6 DEF DialFails, Abandon
  <2>1. CASE chain[s] = NoChain
    <3>1. chain' = chain /\ hand' = hand
      BY <1>0, <2>0, <2>1 DEF HandOver
    <3>2. UNCHANGED chainVars
      BY <2>0, <3>1 DEF chainVars
    <3> QED
      BY <1>0, <1>00, <1>1, <2>0, <2>1, <3>2 DEF DialInv
  <2>2. CASE chain[s] # NoChain
    <3>1. chain[s] \in Chains
      BY <1>0, <2>2
    <3>2. mapped[s] # chain[s] /\ fate[chain[s]] = "live"
      BY <1>00, <2>2 DEF DialInv
    <3>3. fate' = [d \in Chains |-> IF d = chain[s] THEN "live" ELSE fate[d]]
      BY <1>0, <2>0, <3>1, <3>2
    <3> QED
      BY <1>0, <1>5, <2>0, <3>1, <3>2, <3>3
  <2> QED
    BY <2>1, <2>2
<1>7. ASSUME NEW s \in Sessions, DialStopped(s)
      PROVE  ChainInv'
  <2> DEFINE c == chain[s]
  <2>1. /\ c \in Chains /\ c \notin timers /\ hand[c] = "none"
        /\ \A u \in Sessions : mapped[u] # c /\ (chain[u] = c => u = s)
    BY <1>0, <1>00, <1>7 DEF DialStopped, GivesWay, DialInv, HandInv
  <2>2. /\ chain' = [chain EXCEPT ![s] = NoChain]
        /\ fate' = [fate EXCEPT ![c] = "stopped"]
        /\ phase' = [phase EXCEPT ![s] = "ended"]
        /\ UNCHANGED <<mapped, timers, hand, attempts, tries>>
    BY <1>7 DEF DialStopped, Abandon
  <2> HIDE DEF c
  <2>3. \A u \in Sessions : chain'[u] # c /\ (chain'[u] # NoChain => chain'[u] = chain[u] /\ u # s)
    BY <1>0, <2>1, <2>2 DEF c
  <2>4. DialInv'
    BY <1>0, <1>00, <2>1, <2>2, <2>3 DEF DialInv
  <2>7. \A d \in Chains : d # c => fate'[d] = fate[d]
    BY <1>0, <2>2
  <2>8. UNCHANGED <<mapped, timers, hand, attempts, tries>>
    BY <2>2
  <2>5. EntryInv' /\ TimerInv' /\ HandInv'
    <3>1. EntryInv'
      BY <1>0, <1>00, <2>1, <2>7, <2>8, SMTT(30) DEF EntryInv
    <3>2. TimerInv'
      BY <1>0, <1>00, <2>1, <2>7, <2>8, SMTT(30) DEF TimerInv
    <3>3. \A d \in Chains, u \in Sessions : chain[u] # d => chain'[u] # d
      BY <1>0, <2>3
    <3>4. HandInv'
      BY <1>00, <2>1, <2>7, <2>8, <3>3, SMTT(30) DEF HandInv
    <3> QED
      BY <3>1, <3>2, <3>4
  <2>6. FateInv'
    BY <1>0, <1>00, <2>1, <2>2 DEF FateInv, c
  <2> QED
    BY <2>4, <2>5, <2>6 DEF ChainInv
<1>8. ASSUME NEW s \in Sessions, MapInsert(s)
      PROVE  ChainInv'
  <2> DEFINE c == chain[s]
  <2>1. /\ c \in Chains /\ c \notin timers /\ fate[c] = "live"
        /\ hand[c] = "none"
        /\ \A u \in Sessions : mapped[u] # c /\ (chain[u] = c => u = s)
        /\ phase[s] = "valid"
    BY <1>0, <1>00, <1>8 DEF MapInsert, DialInv, HandInv
  <2>2. /\ chain' = [chain EXCEPT ![s] = NoChain]
        /\ mapped' = [mapped EXCEPT ![s] = c]
        /\ attempts' = [attempts EXCEPT ![c] = 0]
        /\ tries' = [tries EXCEPT ![c] = 0]
        /\ UNCHANGED <<phase, timers, hand>>
        /\ fate' = [d \in Chains |-> IF d = mapped[s] /\ fate[d] = "stranded"
                                     THEN "lost" ELSE fate[d]]
    BY <1>8 DEF MapInsert, mgrVars
  <2> HIDE DEF c
  <2>3. \A u \in Sessions : chain'[u] # c /\ (chain'[u] # NoChain => chain'[u] = chain[u] /\ u # s)
    BY <1>0, <2>1, <2>2 DEF c
  <2>4. mapped[s] = NoChain \/ fate[mapped[s]] = "stranded"
    BY <1>00, <1>8, <2>1 DEF DialInv, MapInsert
  <2>10. /\ \A d \in Chains : fate[d] # "stranded" => fate'[d] = fate[d]
         /\ \A d \in Chains : d # mapped[s] => fate'[d] = fate[d]
         /\ mapped[s] # NoChain => fate'[mapped[s]] = "lost" /\ mapped[s] # c
    BY <1>0, <2>1, <2>2, <2>4
  <2>5. /\ mapped'[s] = c /\ attempts'[c] = 0 /\ tries'[c] = 0
        /\ \A u \in Sessions : u # s => mapped'[u] = mapped[u]
        /\ \A d \in Chains : d # c => attempts'[d] = attempts[d] /\ tries'[d] = tries[d]
    BY <1>0, <2>1, <2>2
  <2>6. DialInv'
    <3>1. UNCHANGED <<phase, timers>>
      BY <2>2
    <3>2. \A u \in Sessions : chain'[u] # NoChain => chain[u] \in Chains /\ chain[u] # c
      BY <1>0, <2>1, <2>3
    <3>5. ASSUME NEW u \in Sessions, chain'[u] # NoChain
          PROVE  /\ fate'[chain[u]] = "live" /\ u # s
                 /\ mapped[u] # NoChain => fate'[mapped[u]] = fate[mapped[u]]
      <4>1. u # s /\ chain[u] \in Chains /\ fate[chain[u]] = "live"
        BY <1>00, <2>3, <3>2, <3>5 DEF DialInv
      <4>2. mapped[u] # NoChain => mapped[u] \in Chains /\ mapped[u] # mapped[s]
        BY <1>0, <1>00, <4>1 DEF EntryInv
      <4> QED
        BY <2>10, <4>1, <4>2
    <3>3. ASSUME NEW u \in Sessions, chain'[u] # NoChain
          PROVE  /\ phase'[u] \in {"dialling", "handshaking", "valid"}
                 /\ phase'[u] = "valid" => mapped'[u] = NoChain \/ fate'[mapped'[u]] = "stranded"
                 /\ chain'[u] \notin timers'
                 /\ fate'[chain'[u]] = "live"
                 /\ attempts'[chain'[u]] = tries'[chain'[u]]
      BY <1>00, <2>3, <2>5, <3>1, <3>2, <3>3, <3>5, SMTT(30) DEF DialInv
    <3>4. ASSUME NEW u \in Sessions, chain'[u] # NoChain, NEW v \in Sessions
          PROVE  (chain'[v] = chain'[u] => v = u) /\ mapped'[v] # chain'[u]
      BY <1>00, <2>3, <2>5, <3>2, <3>4, SMTT(30) DEF DialInv
    <3> QED
      BY <3>3, <3>4 DEF DialInv
  <2>7. EntryInv'
    <3>1. ASSUME NEW u \in Sessions, mapped'[u] # NoChain
          PROVE  /\ mapped'[u] \notin timers'
                 /\ fate'[mapped'[u]] \in {"live", "stranded"}
                 /\ attempts'[mapped'[u]] = 0 /\ tries'[mapped'[u]] = 0
                 /\ \A v \in Sessions : mapped'[v] = mapped'[u] => v = u
      <4>1. CASE u = s
        BY <2>1, <2>2, <2>5, <2>10, <4>1
      <4>2. CASE u # s
        <5>1. mapped'[u] = mapped[u] /\ mapped[u] \in Chains /\ mapped[u] # c
          BY <1>0, <2>1, <2>5, <3>1, <4>2
        <5>2. mapped[u] # mapped[s]
          BY <1>0, <1>00, <4>2, <5>1 DEF EntryInv
        <5>3. fate'[mapped[u]] = fate[mapped[u]]
          BY <2>10, <5>1, <5>2
        <5>4. /\ mapped[u] \notin timers /\ fate[mapped[u]] \in {"live", "stranded"}
              /\ attempts[mapped[u]] = 0 /\ tries[mapped[u]] = 0
              /\ \A v \in Sessions : mapped[v] = mapped[u] => v = u
          BY <1>00, <5>1 DEF EntryInv
        <5> QED
          BY <2>2, <2>5, <5>1, <5>3, <5>4
      <4> QED
        BY <4>1, <4>2
    <3> QED
      BY <3>1 DEF EntryInv
  <2>8. TimerInv' /\ HandInv'
    <3>1. timers' = timers /\ hand' = hand
      BY <2>2
    <3>2. TimerInv'
      BY <1>0, <1>00, <2>1, <2>5, <2>10, <3>1, SMTT(30) DEF TimerInv
    <3>3. \A d \in Chains, u \in Sessions :
             d # c /\ chain[u] # d /\ mapped[u] # d => chain'[u] # d /\ mapped'[u] # d
      BY <1>0, <2>2, <2>5
    <3>4. HandInv'
      BY <1>0, <1>00, <2>1, <2>5, <2>10, <3>1, <3>3, SMTT(30) DEF HandInv
    <3> QED
      BY <3>2, <3>4
  <2>9. FateInv'
    <3> SUFFICES ASSUME NEW d \in Chains
                 PROVE  /\ fate'[d] = "live" =>
                              \/ d \in timers'
                              \/ hand'[d] # "none"
                              \/ \E u \in Sessions : chain'[u] = d \/ mapped'[u] = d
                        /\ fate'[d] = "stranded" => \E u \in Sessions : mapped'[u] = d
                        /\ fate'[d] = "idle" => attempts'[d] = 0 /\ tries'[d] = 0
                        /\ MaxAttempts # 0 => tries'[d] <= MaxAttempts
                        /\ fate'[d] = "gaveup" => MaxAttempts # 0 /\ tries'[d] = MaxAttempts
      BY DEF FateInv
    <3>1. CASE d = c
      BY <2>1, <2>2, <2>5, <2>10, <3>1, SMTT(30)
    <3>2. CASE d # c /\ d = mapped[s]
      BY <1>00, <2>2, <2>5, <2>10, <3>2 DEF FateInv
    <3>3. CASE d # c /\ d # mapped[s]
      <4>1. \A u \in Sessions : /\ chain[u] = d => chain'[u] = d
                                /\ mapped[u] = d => mapped'[u] = d
        BY <1>0, <2>2, <2>5, <3>3 DEF c
      <4>2. /\ fate'[d] = fate[d] /\ attempts'[d] = attempts[d] /\ tries'[d] = tries[d]
            /\ timers' = timers /\ hand' = hand
        BY <2>2, <2>5, <2>10, <3>3
      <4>3. /\ fate[d] = "live" =>
                  \/ d \in timers
                  \/ hand[d] # "none"
                  \/ \E u \in Sessions : chain[u] = d \/ mapped[u] = d
            /\ fate[d] = "stranded" => \E u \in Sessions : mapped[u] = d
            /\ fate[d] = "idle" => attempts[d] = 0 /\ tries[d] = 0
            /\ MaxAttempts # 0 => tries[d] <= MaxAttempts
            /\ fate[d] = "gaveup" => MaxAttempts # 0 /\ tries[d] = MaxAttempts
        BY <1>00 DEF FateInv
      <4>4. fate'[d] = "live" =>
                  \/ d \in timers'
                  \/ hand'[d] # "none"
                  \/ \E u \in Sessions : chain'[u] = d \/ mapped'[u] = d
        <5>1. (\E u \in Sessions : chain[u] = d \/ mapped[u] = d) =>
                 \E u \in Sessions : chain'[u] = d \/ mapped'[u] = d
          BY <4>1
        <5> QED
          BY <4>2, <4>3, <5>1
      <4>5. fate'[d] = "stranded" => \E u \in Sessions : mapped'[u] = d
        BY <4>1, <4>2, <4>3
      <4> QED
        BY <4>2, <4>3, <4>4, <4>5
    <3> QED
      BY <3>1, <3>2, <3>3
  <2> QED
    BY <2>6, <2>7, <2>8, <2>9 DEF ChainInv
<1>9. ASSUME NEW s \in Sessions, on_session_removed(s)
      PROVE  ChainInv'
  <2>0. /\ UNCHANGED <<phase, chain, timers, attempts, delay, tries>>
        /\ mapped' = [mapped EXCEPT ![s] = NoChain]
        /\ HandOver(mapped[s])
        /\ fate' = [d \in Chains |-> IF d = mapped[s] THEN "live" ELSE fate[d]]
    BY <1>9 DEF on_session_removed, SessionRemoved
  <2>1. CASE mapped[s] = NoChain
    <3>1. mapped' = mapped /\ hand' = hand /\ fate' = fate
      BY <1>0, <2>0, <2>1 DEF HandOver
    <3>2. UNCHANGED chainVars
      BY <2>0, <3>1 DEF chainVars
    <3> QED
      BY <1>00, <1>1, <2>0, <3>2 DEF DialInv
  <2>2. CASE mapped[s] # NoChain
    <3>1. mapped[s] \in Chains
      BY <1>0, <2>2
    <3>2. chain[s] # mapped[s]
      BY <1>00, <2>2 DEF DialInv
    <3> QED
      BY <1>0, <1>5, <2>0, <3>1, <3>2
  <2> QED
    BY <2>1, <2>2
<1>10. CASE StopUnmap
  <2>1. /\ mapped' = [s \in Sessions |-> NoChain]
        /\ \A c \in Chains :
              fate'[c] = IF \E s \in Sessions : mapped[s] = c THEN "stopped" ELSE fate[c]
        /\ UNCHANGED <<phase, chain, timers, hand, attempts, tries>>
    BY <1>10 DEF StopUnmap, mgrVars
  <2>2. DialInv'
    <3>1. ASSUME NEW u \in Sessions, chain[u] # NoChain
          PROVE  /\ fate'[chain[u]] = fate[chain[u]]
                 /\ \A v \in Sessions : mapped'[v] # chain[u]
      <4>1. chain[u] \in Chains /\ \A v \in Sessions : mapped[v] # chain[u]
        BY <1>0, <1>00, <3>1 DEF DialInv
      <4> QED
        BY <2>1, <3>1, <4>1
    <3>2. \A u \in Sessions : mapped'[u] = NoChain
      BY <2>1
    <3>3. UNCHANGED <<phase, chain, timers, attempts, tries>>
      BY <2>1
    <3> QED
      BY <1>00, <3>1, <3>2, <3>3, SMTT(30) DEF DialInv
  <2>3. EntryInv'
    BY <2>1 DEF EntryInv
  <2>4. TimerInv' /\ HandInv'
    <3>1. \A d \in Chains : d \in timers \/ hand[d] # "none" =>
             \A s \in Sessions : mapped[s] # d
      BY <1>0, <1>00, BoostAssumption DEF EntryInv, HandInv
    <3>2. \A d \in Chains : d \in timers \/ hand[d] # "none" => fate'[d] = fate[d]
      BY <2>1, <3>1
    <3>3. TimerInv'
      BY <1>0, <1>00, <2>1, <3>2 DEF TimerInv
    <3>4. HandInv'
      <4>1. \A d \in Chains, s \in Sessions : mapped'[s] # d
        BY <2>1, BoostAssumption
      <4> QED
        BY <1>00, <2>1, <3>2, <4>1 DEF HandInv
    <3> QED
      BY <3>3, <3>4
  <2>5. FateInv'
    BY <1>0, <1>00, <2>1, SMTT(30) DEF FateInv
  <2> QED
    BY <2>2, <2>3, <2>4, <2>5 DEF ChainInv
<1>11. ASSUME NEW s \in Sessions, NEW i, AcceptHandler(s, i) \/ ConnectOk(s, i)
       PROVE  ChainInv'
  <2>1. /\ UNCHANGED chainVars
        /\ phase[s] \in {"unused", "dialling"}
        /\ phase' = [phase EXCEPT ![s] = phase'[s]]
        /\ phase[s] = "dialling" => phase'[s] = "handshaking"
    BY <1>0, <1>11 DEF AcceptHandler, ConnectOk, add_session, Connected
  <2> QED
    BY <1>0, <1>00, <1>1, <2>1 DEF DialInv
<1>12. ASSUME NEW s \in Sessions,
              connect(s) \/ Inherited(s) \/ (register_and_start(s) /\ UNCHANGED fate)
       PROVE  ChainInv'
  <2>1. /\ UNCHANGED chainVars /\ \A u \in Sessions : u # s => phase'[u] = phase[u]
        /\ chain[s] = NoChain \/ phase' = phase
    <3>1. CASE connect(s)
      BY <1>0, <1>00, <3>1 DEF connect, Dial, DialInv
    <3>2. CASE register_and_start(s) /\ UNCHANGED fate
      BY <1>0, <3>2 DEF register_and_start, Register, RegisterThrows, chainVars
    <3>3. CASE Inherited(s)
      <4>1. \/ phase' = phase
            \/ phase[s] \in {"unused", "registered", "announced", "reading", "ended", "thrown"}
        BY <3>3 DEF Inherited, add_session, OnConnect, Start, ReadFails, remove_session,
                   OnDisconnect, Destroy
      <4>2. chain[s] = NoChain \/ phase' = phase
        BY <1>00, <4>1 DEF DialInv
      <4>3. \A u \in Sessions : u # s => phase'[u] = phase[u]
        BY <1>0, <3>3 DEF Inherited, add_session, OnConnect, Start, ReadFails, remove_session,
                   OnDisconnect, Destroy
      <4> QED
        BY <3>3, <4>2, <4>3 DEF Inherited
    <3> QED
      BY <1>12, <3>1, <3>2, <3>3
  <2>2. \A u \in Sessions : chain[u] # NoChain => phase'[u] = phase[u]
    BY <2>1
  <2> QED
    BY <1>00, <1>1, <2>1, <2>2 DEF DialInv
\* A registration that throws strands the entry of its session.
<1>19. ASSUME NEW s \in Sessions, register_and_start(s), RegisterThrows(s),
              fate' = [d \in Chains |-> IF d = mapped[s] THEN "stranded" ELSE fate[d]]
       PROVE  ChainInv'
  <2>1. /\ chain[s] = NoChain /\ \A u \in Sessions : u # s => phase'[u] = phase[u]
        /\ UNCHANGED <<chain, mapped, timers, hand, attempts, tries>>
    BY <1>0, <1>19 DEF register_and_start, RegisterThrows
  <2>2. \A d \in Chains : d # mapped[s] => fate'[d] = fate[d]
    BY <1>19
  <2>3. mapped[s] # NoChain =>
          /\ mapped[s] \in Chains /\ fate'[mapped[s]] = "stranded" /\ mapped[s] \notin timers
          /\ fate[mapped[s]] \in {"live", "stranded"}
          /\ hand[mapped[s]] = "none" /\ \A u \in Sessions : chain[u] # mapped[s]
    BY <1>0, <1>00, <1>19, SMTT(30) DEF EntryInv, HandInv, DialInv
  <2>4. DialInv'
    <3>1. ASSUME NEW u \in Sessions, chain[u] # NoChain
          PROVE  /\ u # s /\ chain[u] \in Chains /\ fate'[chain[u]] = fate[chain[u]]
                 /\ mapped[u] # NoChain /\ fate[mapped[u]] = "stranded" =>
                       fate'[mapped[u]] = "stranded"
      BY <1>0, <2>1, <2>2, <2>3, <3>1
    <3>2. ASSUME NEW u \in Sessions, chain'[u] # NoChain
          PROVE  /\ phase'[u] \in {"dialling", "handshaking", "valid"}
                 /\ phase'[u] = "valid" => mapped'[u] = NoChain \/ fate'[mapped'[u]] = "stranded"
                 /\ chain'[u] \notin timers'
                 /\ fate'[chain'[u]] = "live"
                 /\ attempts'[chain'[u]] = tries'[chain'[u]]
                 /\ \A v \in Sessions : chain'[v] = chain'[u] => v = u
                 /\ \A v \in Sessions : mapped'[v] # chain'[u]
      <4>1. /\ chain' = chain /\ mapped' = mapped /\ timers' = timers
            /\ attempts' = attempts /\ tries' = tries
        BY <2>1
      <4>2. chain[u] # NoChain
        BY <3>2, <4>1
      <4>3. phase'[u] = phase[u]
        BY <2>1, <3>1, <4>2
      <4>4. /\ phase[u] \in {"dialling", "handshaking", "valid"}
            /\ phase[u] = "valid" => mapped[u] = NoChain \/ fate[mapped[u]] = "stranded"
            /\ chain[u] \notin timers
            /\ fate[chain[u]] = "live"
            /\ attempts[chain[u]] = tries[chain[u]]
            /\ \A v \in Sessions : chain[v] = chain[u] => v = u
            /\ \A v \in Sessions : mapped[v] # chain[u]
        BY <1>00, <4>2 DEF DialInv
      <4>5. fate'[chain[u]] = "live"
        BY <3>1, <4>2, <4>4
      <4>6. phase[u] = "valid" => mapped[u] = NoChain \/ fate'[mapped[u]] = "stranded"
        BY <3>1, <4>2, <4>4
      <4> QED
        BY <4>1, <4>3, <4>4, <4>5, <4>6
    <3> QED
      BY <3>2 DEF DialInv
  <2>5. EntryInv'
    <3>1. \A u \in Sessions : mapped[u] # NoChain /\ fate[mapped[u]] \in {"live", "stranded"}
             => fate'[mapped[u]] \in {"live", "stranded"}
      BY <1>0, <2>2, <2>3
    <3> QED
      BY <1>00, <2>1, <3>1 DEF EntryInv
  <2>6. TimerInv' /\ HandInv'
    <3>1. \A d \in Chains : d \in timers \/ hand[d] # "none" => fate'[d] = fate[d]
      BY <1>0, <2>2, <2>3
    <3>2. TimerInv'
      BY <1>0, <1>00, <2>1, <3>1 DEF TimerInv
    <3>3. HandInv'
      BY <1>00, <2>1, <3>1 DEF HandInv
    <3> QED
      BY <3>2, <3>3
  <2>7. FateInv'
    <3> SUFFICES ASSUME NEW d \in Chains
                 PROVE  /\ fate'[d] = "live" =>
                              \/ d \in timers
                              \/ hand[d] # "none"
                              \/ \E u \in Sessions : chain[u] = d \/ mapped[u] = d
                        /\ fate'[d] = "stranded" => \E u \in Sessions : mapped[u] = d
                        /\ fate'[d] = "idle" => attempts[d] = 0 /\ tries[d] = 0
                        /\ MaxAttempts # 0 => tries[d] <= MaxAttempts
                        /\ fate'[d] = "gaveup" => MaxAttempts # 0 /\ tries[d] = MaxAttempts
      BY <2>1 DEF FateInv
    <3>1. CASE d = mapped[s]
      BY <1>00, <2>3, <3>1 DEF FateInv
    <3>2. CASE d # mapped[s]
      BY <1>00, <2>2, <3>2 DEF FateInv
    <3> QED
      BY <3>1, <3>2
  <2> QED
    BY <2>4, <2>5, <2>6, <2>7 DEF ChainInv
<1>20. ASSUME NEW s \in Sessions, register_and_start(s)
       PROVE  ChainInv'
  BY <1>12, <1>19, <1>20 DEF register_and_start
<1>13. ASSUME NEW s \in Sessions, HandshakeOk(s)
       PROVE  ChainInv'
  <2>1. /\ UNCHANGED chainVars /\ phase[s] = "handshaking"
        /\ phase' = [phase EXCEPT ![s] = "valid"]
        /\ chain[s] # NoChain => ~Stopped
    BY <1>13 DEF HandshakeOk, Validated, GivesWay
  <2>2. chain[s] # NoChain => mapped[s] = NoChain \/ fate[mapped[s]] = "stranded"
    BY <2>1 DEF NoOrphanEntry, Lifecycle
  <2> QED
    BY <1>0, <1>00, <1>1, <2>1, <2>2 DEF DialInv
<1>14. CASE UNCHANGED <<chainVars, phase>>
  BY <1>00, <1>1, <1>14 DEF DialInv
<1>15. CASE \/ async_wait_for_connection \/ ConnectionArrives \/ AcceptFails
            \/ StopFlag \/ StopListening \/ StopSessions \/ UNCHANGED vars
  BY <1>14, <1>15 DEF async_wait_for_connection, ConnectionArrives, AcceptFails,
       StopFlag, StopListening, StopSessions, Stop, vars, mgrVars
<1> QED
  BY <1>2, <1>3, <1>4, <1>6, <1>7, <1>8, <1>9, <1>10, <1>11, <1>12, <1>13, <1>15,
     <1>16, <1>17, <1>18, <1>20
     DEF Next

-----------------------------------------------------------------------------

\* What NoOrphanEntry asks of the session of an entry.
Answerable(r) ==
    \/ phase[r] = "valid"
    \/ r \in sessions /\ phase[r] \in {"registered", "announced", "reading"}
    \/ removal[r] \in {"erased", "reported"}

\* A step of the base class on session s, but for the two that may end the wait of
\* the entry of r.
StepBeside(s, r) ==
    \/ \E i \in Endpoints : add_session(s, i) \/ Connected(s, i)
    \/ Dial(s) \/ Abandon(s) \/ Validated(s)
    \/ Register(s) \/ OnConnect(s) \/ Start(s)
    \/ ReadFails(s) \/ remove_session(s) \/ OnDisconnect(s) \/ Destroy(s)
    \/ s # r /\ (RegisterThrows(s) \/ SessionRemoved(s))

\* No step of the base class takes the session of an entry out of reach of
\* on_session_removed, but for a registration that throws.
LEMMA AnswerableStep ==
    ASSUME TypeOK, Lifecycle, NEW r \in Sessions, NEW s \in Sessions, Answerable(r),
           StepBeside(s, r)
    PROVE  Answerable(r)'
<1>0. phase \in [Sessions -> Phases] /\ removal \in [Sessions -> Removals]
  BY DEF TypeOK, MgrTypeOK
<1>1. CASE \E i \in Endpoints : add_session(s, i) \/ Connected(s, i)
  BY <1>0, <1>1 DEF add_session, Connected, Answerable
<1>2. CASE Dial(s) \/ Abandon(s) \/ Validated(s)
  BY <1>0, <1>2 DEF Dial, Abandon, Validated, Answerable
<1>3. CASE Register(s) \/ OnConnect(s) \/ Start(s)
  BY <1>0, <1>3 DEF Register, OnConnect, Start, Answerable
<1>4. CASE s # r /\ (RegisterThrows(s) \/ SessionRemoved(s))
  BY <1>0, <1>4 DEF RegisterThrows, SessionRemoved, Answerable
<1>5. CASE ReadFails(s) \/ remove_session(s)
  <2>0. /\ Erase(s)
        /\ phase' = phase \/ phase[s] = "reading"
        /\ \A u \in Sessions : u # s => phase'[u] = phase[u]
    BY <1>0, <1>5 DEF ReadFails, remove_session
  <2>1. CASE s # r
    BY <1>0, <2>0, <2>1 DEF Erase, Answerable
  <2>2. CASE s = r /\ s \notin sessions
    BY <1>0, <2>0, <2>2 DEF Erase, Answerable
  <2>3. CASE s = r /\ s \in sessions
    <3>1. ip[s] \in IPs
      BY <2>3 DEF Lifecycle, Answerable
    <3> QED
      BY <1>0, <2>0, <2>3, <3>1 DEF Erase, Answerable
  <2> QED
    BY <2>1, <2>2, <2>3
<1>6. CASE OnDisconnect(s)
  BY <1>0, <1>6 DEF OnDisconnect, Answerable
<1>7. CASE Destroy(s)
  BY <1>0, <1>7 DEF Destroy, Answerable
<1> QED
  BY <1>1, <1>2, <1>3, <1>4, <1>5, <1>6, <1>7 DEF StepBeside

\* No step leaves an entry in reconnect_map_ without a session to be removed, unless
\* the entry is stranded.
LEMMA OrphanStep ==
    TypeOK /\ Lifecycle /\ ChainInv /\ NoOrphanEntry /\ [Next]_vars => NoOrphanEntry'
<1> SUFFICES ASSUME TypeOK, Lifecycle, ChainInv, NoOrphanEntry, [Next]_vars,
                    ~Stopped', NEW r \in Sessions, mapped'[r] # NoChain,
                    fate'[mapped'[r]] # "stranded"
             PROVE  Answerable(r)'
  BY DEF NoOrphanEntry, Answerable
<1>0. /\ mapped \in [Sessions -> Chains \cup {NoChain}]
      /\ chain \in [Sessions -> Chains \cup {NoChain}]
      /\ fate \in [Chains -> Fates]
      /\ NoChain \notin Chains
  BY BoostAssumption DEF TypeOK
<1>00. DialInv /\ EntryInv
  BY DEF ChainInv
<1>1. /\ ~Stopped
      /\ ~StopFlag /\ ~StopUnmap /\ ~StopListening /\ ~StopSessions
  BY DEF Stopped, Next, vars, async_wait_for_connection, ConnectionArrives,
         AcceptHandler, ConnectOk, AcceptFails, connect_with_policy, schedule_reconnect,
         ArmTimer, TimerFires, TimerStopped, attempt_reconnect, connect, HandshakeOk, DialFails, DialStopped, MapInsert,
         register_and_start, on_session_removed, Inherited, StopFlag, StopUnmap,
         StopListening, StopSessions, loopVars
<1>2. ASSUME mapped[r] # NoChain, fate[mapped[r]] # "stranded"
      PROVE  Answerable(r)
  BY <1>1, <1>2 DEF NoOrphanEntry, Answerable
<1>3. ASSUME NEW s \in Sessions, MapInsert(s)
      PROVE  Answerable(r)'
  <2>1. UNCHANGED mgrVars
    BY <1>3 DEF MapInsert
  <2>2. CASE s = r
    <3>1. phase[r] = "valid"
      BY <1>00, <1>3, <2>2 DEF MapInsert, DialInv
    <3> QED
      BY <2>1, <3>1 DEF Answerable, mgrVars
  <2>3. CASE s # r
    <3>1. mapped'[r] = mapped[r] /\ mapped[r] \in Chains
      BY <1>0, <1>3, <2>3 DEF MapInsert
    <3>2. fate[mapped[r]] # "stranded"
      <4>1. mapped[r] # mapped[s]
        BY <1>00, <2>3, <3>1, <1>0 DEF EntryInv
      <4> QED
        BY <1>3, <3>1, <4>1 DEF MapInsert
    <3> QED
      BY <1>0, <1>2, <2>1, <3>1, <3>2 DEF Answerable, mgrVars
  <2> QED
    BY <2>2, <2>3
<1>4. ASSUME NEW s \in Sessions, on_session_removed(s)
      PROVE  Answerable(r)'
  <2>1. s # r /\ mapped'[r] = mapped[r] /\ mapped[r] \in Chains
    BY <1>0, <1>4 DEF on_session_removed
  <2>2. mapped[r] # mapped[s]
    BY <1>0, <1>00, <2>1 DEF EntryInv
  <2>3. fate[mapped[r]] # "stranded"
    BY <1>4, <2>1, <2>2 DEF on_session_removed
  <2>4. Answerable(r)
    BY <1>0, <1>2, <2>1, <2>3
  <2>5. StepBeside(s, r)
    BY <1>4, <2>1 DEF on_session_removed, StepBeside
  <2> QED
    BY <2>4, <2>5, AnswerableStep
<1>5. ASSUME NEW s \in Sessions, register_and_start(s)
      PROVE  Answerable(r)'
  <2>1. mapped' = mapped /\ mapped[r] \in Chains
    BY <1>0, <1>5 DEF register_and_start
  <2>3. CASE Register(s) /\ UNCHANGED fate
    <3>1. Answerable(r)
      BY <1>0, <1>2, <2>1, <2>3
    <3> QED
      BY <2>3, <3>1, AnswerableStep DEF StepBeside
  <2>4. CASE RegisterThrows(s) /\
             fate' = [c \in Chains |-> IF c = mapped[s] THEN "stranded" ELSE fate[c]]
    <3>1. s # r /\ mapped[r] # mapped[s]
      BY <2>1, <2>4
    <3>2. fate[mapped[r]] # "stranded"
      BY <2>1, <2>4, <3>1
    <3>3. Answerable(r)
      BY <1>0, <1>2, <2>1, <3>2
    <3> QED
      BY <2>4, <3>1, <3>3, AnswerableStep DEF StepBeside
  <2> QED
    BY <1>5, <2>3, <2>4 DEF register_and_start
\* Every other step leaves the map alone, and the fate of the chains in it.
<1>6. ASSUME mapped' = mapped, \A s \in Sessions : mapped[s] # NoChain => fate'[mapped[s]] = fate[mapped[s]]
      PROVE  Answerable(r)
  BY <1>2, <1>6
<1>7. ASSUME NEW c \in Chains,
             schedule_reconnect(c) \/ ArmTimer(c) \/ TimerFires(c) \/ TimerStopped(c)
      PROVE  Answerable(r)'
  <2>1. UNCHANGED <<mgrVars, mapped>>
    BY <1>7 DEF schedule_reconnect, ArmTimer, TimerFires, TimerStopped
  <2>2. \A d \in Chains : d # c => fate'[d] = fate[d]
    BY <1>0, <1>7 DEF schedule_reconnect, ArmTimer, TimerFires, TimerStopped
  <2>3. \A s \in Sessions : mapped[s] # c
    <3>1. hand[c] # "none" \/ c \in timers
      BY <1>7 DEF schedule_reconnect, ArmTimer, TimerFires, TimerStopped
    <3> QED
      BY <1>0, <3>1, SMTT(30) DEF ChainInv, HandInv, EntryInv
  <2>4. Answerable(r)
    BY <1>0, <1>6, <2>1, <2>2, <2>3
  <2> QED
    BY <2>1, <2>4 DEF Answerable, mgrVars
<1>8. ASSUME NEW s \in Sessions, NEW c \in Chains,
             connect_with_policy(s, c) \/ attempt_reconnect(c, s)
      PROVE  Answerable(r)'
  <2>1. mapped' = mapped /\ Dial(s)
    BY <1>8 DEF connect_with_policy, attempt_reconnect
  <2>2. \A u \in Sessions : mapped[u] # NoChain => fate'[mapped[u]] = fate[mapped[u]]
    BY <1>0, <1>00, <1>8 DEF EntryInv, connect_with_policy, attempt_reconnect
  <2>3. Answerable(r)
    BY <1>6, <2>1, <2>2
  <2> QED
    BY <2>1, <2>3, AnswerableStep DEF StepBeside
<1>9. ASSUME NEW s \in Sessions, DialFails(s) \/ DialStopped(s)
      PROVE  Answerable(r)'
  <2>1. mapped' = mapped /\ fate' = fate /\ Abandon(s)
    BY <1>1, <1>9 DEF DialFails, DialStopped, GivesWay
  <2>2. Answerable(r)
    BY <1>6, <2>1
  <2> QED
    BY <2>1, <2>2, AnswerableStep DEF StepBeside
<1>10. ASSUME NEW s \in Sessions,
              \/ \E i \in IPs : AcceptHandler(s, i)
              \/ \E i \in Endpoints : ConnectOk(s, i)
              \/ connect(s) \/ HandshakeOk(s) \/ Inherited(s)
       PROVE  Answerable(r)'
  <2>1. UNCHANGED <<mapped, fate>>
    BY <1>10 DEF AcceptHandler, ConnectOk, connect, HandshakeOk, Inherited, chainVars
  <2>2. StepBeside(s, r)
    BY <1>10 DEF AcceptHandler, ConnectOk, connect, HandshakeOk, Inherited, StepBeside, Endpoints
  <2> QED
    BY <1>6, <2>1, <2>2, AnswerableStep
<1>11. CASE \/ async_wait_for_connection \/ ConnectionArrives \/ AcceptFails
            \/ UNCHANGED vars
  <2>1. UNCHANGED <<mapped, fate, mgrVars>>
    BY <1>11 DEF async_wait_for_connection, ConnectionArrives, AcceptFails, chainVars, vars
  <2> QED
    BY <1>6, <2>1 DEF Answerable, mgrVars
<1> QED
  BY <1>1, <1>3, <1>4, <1>5, <1>7, <1>8, <1>9, <1>10, <1>11 DEF Next
=============================================================================
