------------------------- MODULE SessionManagerProofs -------------------------
(***************************************************************************)
(* Proofs about SessionManager, for any sessions, addresses and caps, and  *)
(* about BoostSessionManager, which derives from it, for any chains and    *)
(* policy.                                                                 *)
(***************************************************************************)
EXTENDS ReconnectProofs, WellFoundedInduction, FiniteSetTheorems

(* The base class.                                                         *)

\* The inductive invariant of the base class.
MgrInductive ==
    /\ MgrTypeOK
    /\ IsFiniteSet(sessions)
    /\ CountsMatch
    /\ Lifecycle
    /\ NoSilentLoss

\* The callback histories a session can have are different from each other.
LEMMA Histories ==
    /\ <<>> # <<"connect">> /\ <<>> # <<"disconnect">>
    /\ <<>> # <<"connect", "disconnect">> /\ <<>> # <<"disconnect", "connect">>
    /\ <<"connect">> # <<"disconnect">>
    /\ <<"connect">> # <<"connect", "disconnect">>
    /\ <<"connect">> # <<"disconnect", "connect">>
    /\ <<"disconnect">> # <<"connect", "disconnect">>
    /\ <<"disconnect">> # <<"disconnect", "connect">>
    /\ Append(<<>>, "connect") = <<"connect">>
    /\ Append(<<>>, "disconnect") = <<"disconnect">>
    /\ Append(<<"connect">>, "disconnect") = <<"connect", "disconnect">>
    /\ Append(<<"disconnect">>, "connect") = <<"disconnect", "connect">>
<1> DEFINE S == {"connect", "disconnect"}
<1>1. ASSUME NEW x \in S, NEW y \in S, NEW z \in S
      PROVE  /\ <<>> # <<x>> /\ <<>> # <<x, y>>
             /\ <<z>> # <<x, y>>
             /\ Append(<<>>, x) = <<x>>
             /\ Append(<<x>>, y) = <<x, y>>
  <2> DEFINE a == <<x>>
             ab == <<x, y>>
  <2>1. /\ Len(<<>>) = 0 /\ Len(<<z>>) = 1 /\ Len(ab) = 2 /\ Len(a) = 1
        /\ a \in Seq(S) /\ ab \in Seq(S) /\ Append(<<>>, x) = a
    OBVIOUS
  <2>2. ab[1] = x /\ ab[2] = y
    OBVIOUS
  <2>3. /\ Append(a, y) \in Seq(S) /\ Len(Append(a, y)) = 2
        /\ Append(a, y)[1] = x /\ Append(a, y)[2] = y
    BY <2>1
  <2>4. <<>> # a /\ <<>> # ab
    OBVIOUS
  <2>5. <<z>> # ab
    <3> SUFFICES ASSUME <<z>> = ab PROVE FALSE
      OBVIOUS
    <3>1. Len(<<z>>) = Len(ab)
      OBVIOUS
    <3> QED
      BY <2>1, <3>1
  <2> HIDE DEF a, ab
  <2>6. Append(a, y) = ab
    <3>1. \A i \in 1..Len(ab) : Append(a, y)[i] = ab[i]
      BY <2>1, <2>2, <2>3
    <3> QED
      BY <2>1, <2>3, <3>1
  <2> QED
    BY <2>1, <2>4, <2>5, <2>6 DEF a, ab
<1>2. <<"connect">> # <<"disconnect">>
  OBVIOUS
<1>3. "connect" \in S /\ "disconnect" \in S
  OBVIOUS
<1> HIDE DEF S
<1> QED
  BY <1>1, <1>2, <1>3

\* The initial registry is well typed.
LEMMA MgrTypeInit == MgrInit => MgrTypeOK
<1> SUFFICES ASSUME MgrInit
             PROVE  MgrTypeOK
  OBVIOUS
<1>1. told \in [Sessions -> Seq({"connect", "disconnect"})]
  BY DEF MgrInit
<1>2. DOMAIN perIp = {} /\ perIp \in [DOMAIN perIp -> Nat \ {0}]
  BY DEF MgrInit
<1> QED
  BY <1>1, <1>2 DEF MgrInit, MgrTypeOK, Phases, Removals

\* ++ and -- keep every entry positive.
LEMMA CounterTypes ==
    ASSUME MgrTypeOK, NEW i \in IPs
    PROVE  /\ DOMAIN Incremented(i) = DOMAIN perIp \cup {i}
           /\ Incremented(i) \in [DOMAIN perIp \cup {i} -> Nat \ {0}]
           /\ DOMAIN Decremented(i) \subseteq DOMAIN perIp
           /\ Decremented(i) \in [DOMAIN Decremented(i) -> Nat \ {0}]
<1>1. \A j \in DOMAIN perIp : perIp[j] \in Nat \ {0}
  BY DEF MgrTypeOK
<1>2. Count(i) \in Nat /\ Count(i) + 1 \in Nat \ {0}
  BY <1>1 DEF Count
<1>3. \A j \in DOMAIN perIp \cup {i} :
        (IF j = i THEN Count(i) + 1 ELSE perIp[j]) \in Nat \ {0}
  BY <1>1, <1>2
<1>4. \A j \in {k \in DOMAIN perIp : k = i => perIp[k] # 1} :
        (IF j = i THEN perIp[i] - 1 ELSE perIp[j]) \in Nat \ {0}
  BY <1>1
<1> QED
  BY <1>3, <1>4 DEF Incremented, Decremented

\* Erasing a session keeps the types of sessions_ and of the counters.
LEMMA EraseTypes ==
    ASSUME MgrTypeOK, NEW s \in Sessions, Erase(s)
    PROVE  /\ sessions' \subseteq Sessions
           /\ DOMAIN perIp' \subseteq IPs
           /\ perIp' \in [DOMAIN perIp' -> Nat \ {0}]
           /\ removal' \in [Sessions -> Removals]
<1>1. CASE s \in sessions /\ ip[s] \in IPs
  <2>1. perIp' = Decremented(ip[s])
    BY <1>1 DEF Erase
  <2>2. DOMAIN perIp' \subseteq IPs /\ perIp' \in [DOMAIN perIp' -> Nat \ {0}]
    BY <1>1, <2>1, CounterTypes DEF MgrTypeOK
  <2> QED
    BY <1>1, <2>2 DEF Erase, MgrTypeOK, Removals
<1>2. CASE ~(s \in sessions /\ ip[s] \in IPs)
  BY <1>2 DEF Erase, MgrTypeOK
<1> QED
  BY <1>1, <1>2

\* Every step keeps the types.
LEMMA MgrTypeStep == MgrTypeOK /\ [MgrNext]_mgrVars => MgrTypeOK'
<1> SUFFICES ASSUME MgrTypeOK, [MgrNext]_mgrVars
             PROVE  MgrTypeOK'
  OBVIOUS
<1>1. ASSUME NEW s \in Sessions, NEW i \in IPs, add_session(s, i)
      PROVE  MgrTypeOK'
  BY <1>1 DEF add_session, MgrTypeOK, Phases, Endpoints
<1>2. ASSUME NEW s \in Sessions, NEW i \in Endpoints, Connected(s, i)
      PROVE  MgrTypeOK'
  BY <1>2 DEF Connected, MgrTypeOK, Phases
<1>3. ASSUME NEW s \in Sessions, Dial(s) \/ Abandon(s) \/ Validated(s) \/ Start(s)
      PROVE  MgrTypeOK'
  BY <1>3 DEF Dial, Abandon, Validated, Start, MgrTypeOK, Phases
<1>4. ASSUME NEW s \in Sessions, Register(s)
      PROVE  MgrTypeOK'
  <2>1. ip[s] \in IPs
    BY <1>4 DEF Register
  <2>2. DOMAIN perIp' \subseteq IPs /\ perIp' \in [DOMAIN perIp' -> Nat \ {0}]
    <3>1. perIp' = Incremented(ip[s]) /\ DOMAIN perIp \subseteq IPs
      BY <1>4 DEF Register, MgrTypeOK
    <3>2. DOMAIN perIp' = DOMAIN perIp \cup {ip[s]}
      BY <2>1, <3>1, CounterTypes
    <3>3. perIp' \in [DOMAIN perIp \cup {ip[s]} -> Nat \ {0}]
      BY <2>1, <3>1, CounterTypes
    <3> QED
      BY <2>1, <3>1, <3>2, <3>3
  <2> QED
    BY <1>4, <2>2 DEF Register, MgrTypeOK, Phases
<1>5. ASSUME NEW s \in Sessions, OnConnect(s)
      PROVE  MgrTypeOK'
  <2>1. told'[s] \in Seq({"connect", "disconnect"})
    BY <1>5 DEF OnConnect, MgrTypeOK
  <2> QED
    BY <1>5, <2>1 DEF OnConnect, MgrTypeOK, Phases
<1>6. ASSUME NEW s \in Sessions, ReadFails(s)
      PROVE  MgrTypeOK'
  BY <1>6, EraseTypes DEF ReadFails, MgrTypeOK, Phases
<1>7. ASSUME NEW s \in Sessions, remove_session(s)
      PROVE  MgrTypeOK'
  BY <1>7, EraseTypes DEF remove_session, MgrTypeOK
<1>8. ASSUME NEW s \in Sessions, OnDisconnect(s)
      PROVE  MgrTypeOK'
  <2>1. told'[s] \in Seq({"connect", "disconnect"})
    BY <1>8 DEF OnDisconnect, MgrTypeOK
  <2> QED
    BY <1>8, <2>1 DEF OnDisconnect, MgrTypeOK, Removals
<1>9. ASSUME NEW s \in Sessions, SessionRemoved(s)
      PROVE  MgrTypeOK'
  BY <1>9 DEF SessionRemoved, MgrTypeOK, Removals
<1>10. ASSUME NEW s \in Sessions, Destroy(s)
       PROVE  MgrTypeOK'
  <2>1. told' \in [Sessions -> Seq({"connect", "disconnect"})]
    BY <1>10 DEF Destroy, MgrTypeOK
  <2> QED
    BY <1>10, <2>1 DEF Destroy, MgrTypeOK, Phases, Removals
<1>11. CASE Stop
  BY <1>11 DEF Stop, MgrTypeOK
<1>12. CASE UNCHANGED mgrVars
  BY <1>12 DEF mgrVars, MgrTypeOK
<1>13. ASSUME NEW s \in Sessions, RegisterThrows(s)
       PROVE  MgrTypeOK'
  BY <1>13 DEF RegisterThrows, MgrTypeOK, Phases
<1> QED
  BY <1>1, <1>2, <1>3, <1>4, <1>5, <1>6, <1>7, <1>8, <1>9, <1>10, <1>11, <1>12,
     <1>13
     DEF MgrNext

-----------------------------------------------------------------------------

\* Every step keeps phase, removal and callbacks of a session in line.
LEMMA LifecycleStep ==
    MgrTypeOK /\ Lifecycle /\ [MgrNext]_mgrVars => Lifecycle'
<1> SUFFICES ASSUME MgrTypeOK, Lifecycle, [MgrNext]_mgrVars
             PROVE  Lifecycle'
  OBVIOUS
<1> USE Histories, SessionManagerAssumption DEF Lifecycle, Endpoints
<1>0. /\ ip \in [Sessions -> Endpoints \cup {NoIP}]
      /\ phase \in [Sessions -> Phases]
      /\ removal \in [Sessions -> Removals]
      /\ told \in [Sessions -> Seq({"connect", "disconnect"})]
  BY DEF MgrTypeOK
<1>1. ASSUME NEW s \in Sessions, NEW i \in IPs, add_session(s, i)
      PROVE  Lifecycle'
  BY <1>0, <1>1 DEF add_session
<1>2. ASSUME NEW s \in Sessions, NEW i \in Endpoints, Connected(s, i)
      PROVE  Lifecycle'
  BY <1>0, <1>2 DEF Connected
<1>3. ASSUME NEW s \in Sessions, Dial(s)
      PROVE  Lifecycle'
  BY <1>0, <1>3 DEF Dial
<1>4. ASSUME NEW s \in Sessions, Abandon(s)
      PROVE  Lifecycle'
  BY <1>0, <1>4 DEF Abandon
<1>5. ASSUME NEW s \in Sessions, Validated(s)
      PROVE  Lifecycle'
  BY <1>0, <1>5 DEF Validated
<1>6. ASSUME NEW s \in Sessions, Register(s)
      PROVE  Lifecycle'
  BY <1>0, <1>6 DEF Register
<1>7. ASSUME NEW s \in Sessions, OnConnect(s)
      PROVE  Lifecycle'
  <2>1. /\ phase[s] = "registered" /\ removal[s] \in Removals
        /\ told' = [told EXCEPT ![s] = Append(told[s], "connect")]
        /\ phase' = [phase EXCEPT ![s] = "announced"]
        /\ UNCHANGED <<sessions, ip, removal, stopped>>
    BY <1>0, <1>7 DEF OnConnect
  <2>2. told'[s] = IF removal[s] \in {"none", "erased"} THEN <<"connect">>
                   ELSE <<"disconnect", "connect">>
    BY <1>0, <2>1
  <2> QED
    BY <1>0, <2>1, <2>2 DEF Removals
<1>8. ASSUME NEW s \in Sessions, Start(s)
      PROVE  Lifecycle'
  BY <1>0, <1>8 DEF Start
<1>9. ASSUME NEW s \in Sessions, ReadFails(s)
      PROVE  Lifecycle'
  <2>1. CASE s \in sessions
    <3>1. told[s] = <<"connect">> /\ ip[s] \in IPs
      BY <1>9, <2>1 DEF ReadFails
    <3> QED
      BY <1>0, <1>9, <2>1, <3>1 DEF ReadFails, Erase
  <2>2. CASE s \notin sessions
    BY <1>0, <1>9, <2>2 DEF ReadFails, Erase
  <2> QED
    BY <2>1, <2>2
<1>10. ASSUME NEW s \in Sessions, remove_session(s)
       PROVE  Lifecycle'
  <2>0. Erase(s) /\ UNCHANGED <<ip, phase, told, stopped>>
    BY <1>10 DEF remove_session
  <2>1. CASE s \in sessions /\ ip[s] \in IPs
    <3>1. /\ phase[s] \in {"registered", "announced", "reading"}
          /\ told[s] = IF phase[s] = "registered" THEN <<>> ELSE <<"connect">>
      BY <2>1
    <3> QED
      BY <1>0, <2>0, <2>1, <3>1 DEF Erase
  <2>2. CASE s \in sessions /\ ip[s] \notin IPs
    <3>1. phase[s] = "thrown"
      BY <2>2
    <3> QED
      BY <1>0, <2>0, <2>2, <3>1 DEF Erase
  <2>3. CASE s \notin sessions
    BY <1>0, <2>0, <2>3 DEF Erase
  <2> QED
    BY <2>1, <2>2, <2>3
<1>11. ASSUME NEW s \in Sessions, OnDisconnect(s)
       PROVE  Lifecycle'
  <2>1. told'[s] = IF phase[s] = "registered" THEN <<"disconnect">>
                   ELSE <<"connect", "disconnect">>
    BY <1>0, <1>11 DEF OnDisconnect
  <2> QED
    BY <1>0, <1>11, <2>1 DEF OnDisconnect
<1>12. ASSUME NEW s \in Sessions, SessionRemoved(s)
       PROVE  Lifecycle'
  BY <1>0, <1>12 DEF SessionRemoved
<1>13. ASSUME NEW s \in Sessions, Destroy(s)
       PROVE  Lifecycle'
  BY <1>0, <1>13 DEF Destroy
<1>14. CASE Stop
  BY <1>0, <1>14 DEF Stop
<1>15. CASE UNCHANGED mgrVars
  BY <1>15 DEF mgrVars
<1>16. ASSUME NEW s \in Sessions, RegisterThrows(s)
       PROVE  Lifecycle'
  BY <1>0, <1>16 DEF RegisterThrows
<1> QED
  BY <1>1, <1>2, <1>3, <1>4, <1>5, <1>6, <1>7, <1>8, <1>9, <1>10, <1>11, <1>12,
     <1>13, <1>14, <1>15, <1>16
     DEF MgrNext

\* No step before stop() takes an announced session out without a callback to come.
LEMMA SilentLossStep ==
    MgrTypeOK /\ Lifecycle /\ NoSilentLoss /\ [MgrNext]_mgrVars => NoSilentLoss'
<1> SUFFICES ASSUME MgrTypeOK, Lifecycle, NoSilentLoss, [MgrNext]_mgrVars
             PROVE  NoSilentLoss'
  OBVIOUS
<1> USE Histories DEF NoSilentLoss
<1>0. /\ removal \in [Sessions -> Removals]
      /\ told \in [Sessions -> Seq({"connect", "disconnect"})]
  BY DEF MgrTypeOK
<1>1. ASSUME NEW s \in Sessions, Register(s) \/ RegisterThrows(s)
      PROVE  NoSilentLoss'
  BY <1>1 DEF Register, RegisterThrows
<1>2. ASSUME NEW s \in Sessions, OnConnect(s)
      PROVE  NoSilentLoss'
  <2>1. /\ phase[s] = "registered" /\ removal[s] \in Removals
        /\ told' = [told EXCEPT ![s] = Append(told[s], "connect")]
        /\ UNCHANGED <<sessions, removal, stopped>>
    BY <1>0, <1>2 DEF OnConnect
  <2>2. removal[s] \notin {"none", "erased"} => told'[s] = <<"disconnect", "connect">>
    BY <1>0, <2>1 DEF Lifecycle
  <2>3. removal[s] = "none" /\ ~stopped => s \in sessions
    BY <2>1 DEF Lifecycle
  <2> QED
    BY <1>0, <2>1, <2>2, <2>3
<1>3. ASSUME NEW s \in Sessions, ReadFails(s) \/ remove_session(s)
      PROVE  NoSilentLoss'
  <2>1. Erase(s) /\ UNCHANGED <<told, stopped>>
    BY <1>3 DEF ReadFails, remove_session
  <2>2. CASE s \in sessions /\ ip[s] \in IPs
    BY <1>0, <2>1, <2>2 DEF Erase
  <2>3. CASE s \in sessions /\ ip[s] \notin IPs
    <3>1. told[s] = <<>>
      BY <2>3 DEF Lifecycle
    <3> QED
      BY <1>0, <2>1, <2>3, <3>1 DEF Erase
  <2>4. CASE s \notin sessions
    BY <2>1, <2>4 DEF Erase
  <2> QED
    BY <2>2, <2>3, <2>4
<1>4. ASSUME NEW s \in Sessions, OnDisconnect(s)
      PROVE  NoSilentLoss'
  <2>1. told'[s] = IF phase[s] = "registered" THEN <<"disconnect">>
                   ELSE <<"connect", "disconnect">>
    BY <1>0, <1>4 DEF OnDisconnect, Lifecycle
  <2> QED
    BY <1>0, <1>4, <2>1 DEF OnDisconnect
<1>5. ASSUME NEW s \in Sessions, SessionRemoved(s)
      PROVE  NoSilentLoss'
  BY <1>0, <1>5 DEF SessionRemoved, Lifecycle
<1>6. ASSUME NEW s \in Sessions, Destroy(s)
      PROVE  NoSilentLoss'
  <2>1. /\ told' = [told EXCEPT ![s] = <<>>]
        /\ removal' = [removal EXCEPT ![s] = "none"]
        /\ UNCHANGED <<sessions, stopped>>
    BY <1>6 DEF Destroy
  <2> QED
    BY <1>0, <2>1
<1>7. CASE Stop
  BY <1>7 DEF Stop
<1>8. CASE UNCHANGED <<sessions, removal, told, stopped>>
  BY <1>8
<1> QED
  BY <1>1, <1>2, <1>3, <1>4, <1>5, <1>6, <1>7, <1>8
     DEF MgrNext, mgrVars, add_session, Dial, Connected, Abandon, Validated, Start

-----------------------------------------------------------------------------

\* One session more raises the number of sessions of its address by one.
LEMMA PopulationGrows ==
    ASSUME NEW R, IsFiniteSet(R), NEW f, NEW s, s \notin R
    PROVE  Cardinality({r \in R \cup {s} : f[r] = f[s]})
             = Cardinality({r \in R : f[r] = f[s]}) + 1
<1> DEFINE A == {r \in R : f[r] = f[s]}
           B == {r \in R \cup {s} : f[r] = f[s]}
<1>1. B = A \cup {s} /\ s \notin A /\ A \in SUBSET R
  OBVIOUS
<1> HIDE DEF A, B
<1>2. IsFiniteSet(A)
  BY <1>1, FS_Subset
<1>3. Cardinality(B) = Cardinality(A) + 1
  BY <1>1, <1>2, FS_AddElement
<1> QED
  BY <1>3 DEF A, B

\* One session less lowers it by one.
LEMMA PopulationShrinks ==
    ASSUME NEW R, IsFiniteSet(R), NEW f, NEW s, s \in R
    PROVE  Cardinality({r \in R \ {s} : f[r] = f[s]})
             = Cardinality({r \in R : f[r] = f[s]}) - 1
<1> DEFINE A == {r \in R : f[r] = f[s]}
           B == {r \in R \ {s} : f[r] = f[s]}
<1>1. B = A \ {s} /\ s \in A /\ A \in SUBSET R
  OBVIOUS
<1> HIDE DEF A, B
<1>2. IsFiniteSet(A)
  BY <1>1, FS_Subset
<1>3. Cardinality(B) = Cardinality(A) - 1
  BY <1>1, <1>2, FS_RemoveElement
<1> QED
  BY <1>3 DEF A, B

\* Every step keeps the counters equal to the registered sessions.
LEMMA CountsStep ==
    /\ MgrTypeOK /\ IsFiniteSet(sessions) /\ CountsMatch /\ Lifecycle
    /\ [MgrNext]_mgrVars
    => IsFiniteSet(sessions)' /\ CountsMatch'
<1> SUFFICES ASSUME MgrTypeOK, IsFiniteSet(sessions), CountsMatch, Lifecycle,
                    [MgrNext]_mgrVars
             PROVE  IsFiniteSet(sessions)' /\ CountsMatch'
  OBVIOUS
<1>0. /\ sessions \subseteq Sessions
      /\ DOMAIN perIp \subseteq IPs
      /\ \A i \in DOMAIN perIp : perIp[i] \in Nat \ {0}
      /\ ip \in [Sessions -> Endpoints \cup {NoIP}]
      /\ phase \in [Sessions -> Phases]
  BY DEF MgrTypeOK
\* Only the address of an unregistered session ever changes.
<1>1. ASSUME UNCHANGED <<sessions, perIp>>, \A s \in sessions : ip'[s] = ip[s],
             \A s \in sessions : phase[s] = "thrown" => phase'[s] = "thrown"
      PROVE  IsFiniteSet(sessions)' /\ CountsMatch'
  <2>1. \A i : SessionsOf(i)' = SessionsOf(i) /\ Count(i)' = Count(i)
    BY <1>1 DEF SessionsOf, Count
  <2> QED
    BY <1>1, <2>1 DEF CountsMatch
<1>2. ASSUME NEW s \in Sessions, Register(s)
      PROVE  IsFiniteSet(sessions)' /\ CountsMatch'
  <2>1. s \notin sessions /\ ip[s] \in IPs
    BY <1>2 DEF Register, Lifecycle
  <2>2. sessions' = sessions \cup {s} /\ ip' = ip /\ perIp' = Incremented(ip[s])
    BY <1>2 DEF Register
  <2>5. \A r \in sessions : phase'[r] = phase[r]
    BY <1>0, <1>2, <2>1 DEF Register
  <2>3. IsFiniteSet(sessions)'
    BY <2>2, FS_AddElement
  <2>4. ASSUME NEW i \in IPs
        PROVE  Count(i)' = Cardinality(SessionsOf(i)')
    <3>0. Count(i) = Cardinality(SessionsOf(i))
      BY DEF CountsMatch
    <3>1. CASE i = ip[s]
      <4>1. Count(i)' = Count(i) + 1
        BY <2>2, <3>1 DEF Count, Incremented
      <4>2. Cardinality(SessionsOf(i)') = Cardinality(SessionsOf(i)) + 1
        <5>1. /\ SessionsOf(i) = {r \in sessions : ip[r] = ip[s]}
              /\ SessionsOf(i)' = {r \in sessions \cup {s} : ip[r] = ip[s]}
          BY <2>2, <3>1 DEF SessionsOf
        <5>2. Cardinality({r \in sessions \cup {s} : ip[r] = ip[s]})
                = Cardinality({r \in sessions : ip[r] = ip[s]}) + 1
          BY <2>1, PopulationGrows
        <5> QED
          BY <5>1, <5>2
      <4> QED
        BY <3>0, <4>1, <4>2
    <3>2. CASE i # ip[s]
      <4>1. Count(i)' = Count(i)
        BY <2>2, <3>2 DEF Count, Incremented
      <4>2. SessionsOf(i)' = SessionsOf(i)
        BY <2>2, <3>2 DEF SessionsOf
      <4> QED
        BY <3>0, <4>1, <4>2
    <3> QED
      BY <3>1, <3>2
  <2> QED
    BY <2>1, <2>2, <2>3, <2>4, <2>5 DEF CountsMatch
\* A session that no counter counts.
<1>8. ASSUME NEW s \in Sessions, RegisterThrows(s)
      PROVE  IsFiniteSet(sessions)' /\ CountsMatch'
  <2>1. /\ s \notin sessions /\ ip[s] \notin IPs
        /\ sessions' = sessions \cup {s} /\ ip' = ip /\ perIp' = perIp
        /\ \A r \in sessions : phase'[r] = phase[r]
        /\ phase'[s] = "thrown"
    BY <1>0, <1>8, SessionManagerAssumption DEF RegisterThrows, Lifecycle
  <2>2. IsFiniteSet(sessions)'
    BY <2>1, FS_AddElement
  <2>3. \A i \in IPs : SessionsOf(i)' = SessionsOf(i) /\ Count(i)' = Count(i)
    BY <2>1 DEF SessionsOf, Count
  <2> QED
    BY <2>1, <2>2, <2>3 DEF CountsMatch
<1>3. ASSUME NEW s \in Sessions, Erase(s), UNCHANGED ip,
             \A r \in Sessions : phase'[r] = phase[r] \/ r = s
      PROVE  IsFiniteSet(sessions)' /\ CountsMatch'
  <2>1. CASE s \notin sessions
    BY <1>0, <1>1, <1>3, <2>1 DEF Erase
  <2>3. CASE s \in sessions /\ ip[s] \notin IPs
    <3>1. sessions' = sessions \ {s} /\ perIp' = perIp
      BY <1>3, <2>3 DEF Erase
    <3>2. IsFiniteSet(sessions)'
      BY <3>1, FS_RemoveElement
    <3>3. \A i \in IPs : SessionsOf(i)' = SessionsOf(i) /\ Count(i)' = Count(i)
      BY <1>3, <2>3, <3>1 DEF SessionsOf, Count
    <3>4. \A r \in sessions \ {s} : phase'[r] = phase[r]
      BY <1>0, <1>3
    <3> QED
      BY <1>3, <3>1, <3>2, <3>3, <3>4 DEF CountsMatch
  <2>2. CASE s \in sessions /\ ip[s] \in IPs
    <3>1. sessions' = sessions \ {s} /\ perIp' = Decremented(ip[s]) /\ ip[s] \in IPs
      BY <1>3, <2>2 DEF Erase
    <3>4. \A r \in sessions \ {s} : phase'[r] = phase[r]
      BY <1>0, <1>3
    <3>2. IsFiniteSet(sessions)'
      BY <3>1, FS_RemoveElement
    <3>3. ASSUME NEW i \in IPs
          PROVE  Count(i)' = Cardinality(SessionsOf(i)')
      <4>0. Count(i) = Cardinality(SessionsOf(i))
        BY DEF CountsMatch
      <4>1. CASE i = ip[s]
        <5>1. Cardinality(SessionsOf(i)') = Cardinality(SessionsOf(i)) - 1
          <6>0. ip' = ip /\ sessions' = sessions \ {s}
            BY <1>3, <3>1
          <6>1. /\ SessionsOf(i) = {r \in sessions : ip[r] = ip[s]}
                /\ SessionsOf(i)' = {r \in sessions \ {s} : ip[r] = ip[s]}
            BY <4>1, <6>0 DEF SessionsOf
          <6>2. Cardinality({r \in sessions \ {s} : ip[r] = ip[s]})
                  = Cardinality({r \in sessions : ip[r] = ip[s]}) - 1
            BY <2>2, IsFiniteSet(sessions), PopulationShrinks, SMTT(30)
          <6> QED
            BY <6>1, <6>2
        <5>2. s \in SessionsOf(i) /\ IsFiniteSet(SessionsOf(i))
          BY <2>2, <4>1, FS_Subset DEF SessionsOf
        <5>3. Count(i) # 0
          BY <4>0, <5>2, FS_EmptySet
        <5>4. i \in DOMAIN perIp /\ Count(i) = perIp[i]
          BY <5>3 DEF Count
        <5>5. Count(i)' = Count(i) - 1
          <6>1. CASE perIp[i] = 1
            <7>1. i \notin DOMAIN perIp'
              BY <3>1, <4>1, <6>1 DEF Decremented
            <7> QED
              BY <5>4, <6>1, <7>1 DEF Count
          <6>2. CASE perIp[i] # 1
            BY <3>1, <4>1, <5>4, <6>2 DEF Decremented, Count
          <6> QED
            BY <6>1, <6>2
        <5> QED
          BY <4>0, <5>1, <5>5
      <4>2. CASE i # ip[s]
        <5>1. Count(i)' = Count(i)
          BY <3>1, <4>2 DEF Count, Decremented
        <5>2. SessionsOf(i)' = SessionsOf(i)
          BY <1>3, <3>1, <4>2 DEF SessionsOf
        <5> QED
          BY <4>0, <5>1, <5>2
      <4> QED
        BY <4>1, <4>2
    <3> QED
      BY <1>3, <3>1, <3>2, <3>3, <3>4 DEF CountsMatch
  <2> QED
    BY <2>1, <2>2, <2>3
<1>4. CASE Stop
  <2>1. sessions' = {} /\ \A i : Count(i)' = 0 /\ SessionsOf(i)' = {}
    BY <1>4 DEF Stop, Count, SessionsOf
  <2> QED
    BY <2>1, FS_EmptySet DEF CountsMatch
<1>5. ASSUME NEW s \in Sessions, NEW i \in Endpoints, add_session(s, i) \/ Connected(s, i)
      PROVE  IsFiniteSet(sessions)' /\ CountsMatch'
  <2>1. s \notin sessions
    BY <1>5 DEF add_session, Connected, Lifecycle
  <2> QED
    BY <1>0, <1>1, <1>5, <2>1 DEF add_session, Connected
<1>6. ASSUME NEW s \in Sessions, Destroy(s)
      PROVE  IsFiniteSet(sessions)' /\ CountsMatch'
  BY <1>0, <1>1, <1>6 DEF Destroy
<1>7. ASSUME NEW s \in Sessions,
             \/ Dial(s) \/ Abandon(s) \/ Validated(s) \/ OnConnect(s) \/ Start(s)
             \/ OnDisconnect(s) \/ SessionRemoved(s)
      PROVE  IsFiniteSet(sessions)' /\ CountsMatch'
  BY <1>0, <1>1, <1>7
     DEF Dial, Abandon, Validated, OnConnect, Start, OnDisconnect, SessionRemoved
<1>9. ASSUME NEW s \in Sessions, ReadFails(s) \/ remove_session(s)
      PROVE  IsFiniteSet(sessions)' /\ CountsMatch'
  BY <1>0, <1>3, <1>9 DEF ReadFails, remove_session
<1>10. CASE UNCHANGED mgrVars
  BY <1>1, <1>10 DEF mgrVars
<1> QED
  BY <1>2, <1>4, <1>5, <1>6, <1>7, <1>8, <1>9, <1>10 DEF MgrNext, Endpoints

-----------------------------------------------------------------------------

\* The invariant holds of an empty registry.
LEMMA MgrInductiveInit == MgrInit => MgrInductive
<1> SUFFICES ASSUME MgrInit
             PROVE  MgrInductive
  OBVIOUS
<1>1. IsFiniteSet(sessions) /\ CountsMatch
  <2>1. sessions = {} /\ \A i : Count(i) = 0 /\ SessionsOf(i) = {}
    BY DEF MgrInit, Count, SessionsOf
  <2> QED
    BY <2>1, FS_EmptySet DEF CountsMatch
<1>2. Lifecycle /\ NoSilentLoss
  BY Histories DEF MgrInit, Lifecycle, NoSilentLoss
<1> QED
  BY <1>1, <1>2, MgrTypeInit DEF MgrInductive

\* Every step of the manager keeps the invariant.
LEMMA MgrInductiveStep == MgrInductive /\ [MgrNext]_mgrVars => MgrInductive'
BY MgrTypeStep, LifecycleStep, SilentLossStep, CountsStep DEF MgrInductive

\* Everything below holds in every reachable state of the manager.
THEOREM MgrInvariant == MgrSpec => []MgrInductive
BY MgrInductiveInit, MgrInductiveStep, PTL DEF MgrSpec

\* Every variable of the manager keeps its type; no counter is ever zero.
THEOREM MgrTypeCorrect == MgrSpec => []MgrTypeOK
BY MgrInvariant, PTL DEF MgrInductive

\* connections_per_ip_ counts the registered sessions of every address.
THEOREM CountsAlwaysMatch == MgrSpec => []CountsMatch
BY MgrInvariant, PTL DEF MgrInductive

\* A session announced with on_connect_ is lost without on_disconnect_ only by
\* stop().
THEOREM NeverLostSilently == MgrSpec => []NoSilentLoss
BY MgrInvariant, PTL DEF MgrInductive

\* on_connect_ and on_disconnect_ are called at most once each, the second of a
\* session that is not registered any more, and first only by overtaking the
\* thread that is about to call on_connect_.
THEOREM CallbacksOrdered == MgrSpec => []CallbackOrder
<1>1. MgrInductive => CallbackOrder
  BY Histories DEF MgrInductive, MgrTypeOK, Removals, Lifecycle, Callbacks, CallbackOrder
<1> QED
  BY <1>1, MgrInvariant, PTL

-----------------------------------------------------------------------------
(* The derived class.                                                      *)

\* Every step of the derived manager is a step of the base class or leaves its
\* state alone.
LEMMA StepRefines == [Next]_vars => [MgrNext]_mgrVars
<1> SUFFICES ASSUME [Next]_vars
             PROVE  MgrNext \/ UNCHANGED mgrVars
  BY DEF mgrVars
<1>1. CASE \/ async_wait_for_connection \/ ConnectionArrives \/ AcceptFails
           \/ StopFlag \/ StopUnmap \/ StopListening
  BY <1>1 DEF async_wait_for_connection, ConnectionArrives, AcceptFails,
              StopFlag, StopUnmap, StopListening
<1>2. ASSUME NEW s \in Sessions, NEW i,
             (i \in IPs /\ AcceptHandler(s, i)) \/ (i \in Endpoints /\ ConnectOk(s, i))
      PROVE  MgrNext
  BY <1>2 DEF AcceptHandler, ConnectOk, MgrNext
<1>3. ASSUME NEW s \in Sessions, NEW c \in Chains,
             connect_with_policy(s, c) \/ attempt_reconnect(c, s)
      PROVE  MgrNext
  BY <1>3 DEF connect_with_policy, attempt_reconnect, MgrNext
<1>4. ASSUME NEW c \in Chains,
             schedule_reconnect(c) \/ ArmTimer(c) \/ TimerFires(c) \/ TimerStopped(c)
      PROVE  UNCHANGED mgrVars
  BY <1>4 DEF schedule_reconnect, ArmTimer, TimerFires, TimerStopped
<1>5. ASSUME NEW s \in Sessions,
             \/ connect(s) \/ HandshakeOk(s) \/ DialFails(s) \/ DialStopped(s)
             \/ register_and_start(s) \/ on_session_removed(s) \/ Inherited(s)
      PROVE  MgrNext
  BY <1>5 DEF connect, HandshakeOk, DialFails, DialStopped, register_and_start,
              on_session_removed, Inherited, MgrNext
<1>6. ASSUME NEW s \in Sessions, MapInsert(s)
      PROVE  UNCHANGED mgrVars
  BY <1>6 DEF MapInsert
<1>7. CASE StopSessions
  BY <1>7 DEF StopSessions, MgrNext
<1>8. CASE UNCHANGED vars
  BY <1>8 DEF vars
<1> QED
  BY <1>1, <1>2, <1>3, <1>4, <1>5, <1>6, <1>7, <1>8 DEF Next

\* So every behaviour of boost_session_manager is one of session_manager.
LEMMA BoostRefinesManager == Spec => MgrSpec
<1>1. Init => MgrInit
  BY DEF Init
<1>2. Spec => MgrInit /\ [][MgrNext]_mgrVars
  BY <1>1, StepRefines, PTL DEF Spec
<1> QED
  BY <1>2 DEF MgrSpec

\* What is proved of the base class holds of the derived one.
THEOREM InheritedInvariant == Spec => []MgrInductive
BY BoostRefinesManager, MgrInvariant

-----------------------------------------------------------------------------

BoostInductive == TypeOK /\ ChainInv /\ NoOrphanEntry

\* The invariant holds before the first call.
LEMMA BoostInductiveInit == Init => BoostInductive
<1> SUFFICES ASSUME Init
             PROVE  BoostInductive
  OBVIOUS
<1> USE BoostAssumption DEF Init
<1>1. TypeOK
  BY MgrTypeInit DEF TypeOK, Hands, Fates, AcceptStates, StopSteps
<1>2. DialInv /\ EntryInv /\ NoOrphanEntry
  BY DEF DialInv, EntryInv, NoOrphanEntry
<1>3. TimerInv /\ HandInv
  BY DEF TimerInv, HandInv
<1>4. FateInv
  BY DEF FateInv
<1> QED
  BY <1>1, <1>2, <1>3, <1>4 DEF BoostInductive, ChainInv

\* The invariant of the derived manager, on top of that of the base class.
THEOREM BoostInvariant == Spec => [](MgrInductive /\ BoostInductive)
<1>1. MgrInductive /\ MgrInductive' /\ BoostInductive /\ [Next]_vars => BoostInductive'
  BY BoostTypeStep, ChainStep, OrphanStep DEF BoostInductive, MgrInductive
<1>2. Spec => []MgrInductive
  BY InheritedInvariant
<1> QED
  BY <1>1, <1>2, BoostInductiveInit, PTL DEF Spec

\* Every variable of the derived manager keeps its type.
THEOREM BoostTypeCorrect == Spec => []TypeOK
BY BoostInvariant, PTL DEF BoostInductive

\* Until stop(), an entry of reconnect_map_ belongs to a session that is about to be
\* registered, registered or being removed, unless its registration threw.
THEOREM EntriesNeverOrphaned == Spec => []NoOrphanEntry
BY BoostInvariant, PTL DEF BoostInductive

\* A chain gives up after exactly max_attempts re-dials.
THEOREM GivesUpExactly == Spec => []GiveUpExact
<1>1. BoostInductive => GiveUpExact
  BY DEF BoostInductive, ChainInv, FateInv, GiveUpExact
<1> QED
  BY <1>1, BoostInvariant, PTL

\* A live reconnect_state is in exactly one dial, map entry, timer or thread, a
\* stranded one in its map entry, and any other one nowhere.
THEOREM CustodyHolds == Spec => []ChainCustody
<1>1. BoostInductive => ChainCustody
  <2> SUFFICES ASSUME BoostInductive, NEW c \in Chains
               PROVE  /\ \A s, u \in Dialling(c) : s = u
                      /\ \A s, u \in Entries(c) : s = u
                      /\ fate[c] \in {"live", "stranded"} <=>
                            \/ c \in timers \/ hand[c] # "none"
                            \/ Dialling(c) # {} \/ Entries(c) # {}
                      /\ fate[c] = "stranded" => Entries(c) # {}
                      /\ c \in timers => hand[c] = "none"
                      /\ c \in timers \/ hand[c] # "none" =>
                            Dialling(c) = {} /\ Entries(c) = {}
                      /\ Dialling(c) # {} => Entries(c) = {}
    BY DEF ChainCustody
  <2>0. DialInv /\ EntryInv /\ TimerInv /\ HandInv /\ FateInv /\ c # NoChain
    BY BoostAssumption DEF BoostInductive, ChainInv
  <2>1. (\A s, u \in Dialling(c) : s = u) /\ (\A s, u \in Entries(c) : s = u)
    <3>1. ASSUME NEW s \in Dialling(c), NEW u \in Dialling(c)
          PROVE  s = u
      <4>1. s \in Sessions /\ u \in Sessions /\ chain[s] = c /\ chain[u] = c
        BY DEF Dialling
      <4>2. \A x, y \in Sessions : chain[x] # NoChain /\ chain[y] = chain[x] => y = x
        BY <2>0 DEF DialInv
      <4>3. chain[u] # NoChain /\ chain[s] = chain[u]
        BY <2>0, <4>1
      <4> QED
        BY <4>1, <4>2, <4>3
    <3>2. ASSUME NEW s \in Entries(c), NEW u \in Entries(c)
          PROVE  s = u
      <4>1. s \in Sessions /\ u \in Sessions /\ mapped[s] = c /\ mapped[u] = c
        BY DEF Entries
      <4>2. \A x, y \in Sessions : mapped[x] # NoChain /\ mapped[y] = mapped[x] => y = x
        BY <2>0 DEF EntryInv
      <4>3. mapped[u] # NoChain /\ mapped[s] = mapped[u]
        BY <2>0, <4>1
      <4> QED
        BY <4>1, <4>2, <4>3
    <3> QED
      BY <3>1, <3>2
  <2>2. /\ fate[c] \in {"live", "stranded"} <=>
              c \in timers \/ hand[c] # "none" \/ Dialling(c) # {} \/ Entries(c) # {}
        /\ fate[c] = "stranded" => Entries(c) # {}
    <3>1. c \in timers \/ hand[c] # "none" => fate[c] = "live"
      BY <2>0 DEF TimerInv, HandInv
    <3>2. Dialling(c) # {} => fate[c] = "live"
      BY <2>0 DEF DialInv, Dialling
    <3>3. Entries(c) # {} => fate[c] \in {"live", "stranded"}
      BY <2>0 DEF EntryInv, Entries
    <3>4. (\E s \in Sessions : chain[s] = c \/ mapped[s] = c) =>
             Dialling(c) # {} \/ Entries(c) # {}
      BY DEF Dialling, Entries
    <3>5. fate[c] = "live" =>
             c \in timers \/ hand[c] # "none" \/ Dialling(c) # {} \/ Entries(c) # {}
      BY <2>0, <3>4 DEF FateInv
    <3>6. fate[c] = "stranded" => Entries(c) # {}
      BY <2>0 DEF FateInv, Entries
    <3> QED
      BY <3>1, <3>2, <3>3, <3>5, <3>6
  <2>3. /\ c \in timers => hand[c] = "none"
        /\ c \in timers \/ hand[c] # "none" => Dialling(c) = {} /\ Entries(c) = {}
        /\ Dialling(c) # {} => Entries(c) = {}
    <3>1. c \in timers => hand[c] = "none"
      BY <2>0 DEF HandInv
    <3>2. hand[c] # "none" => Dialling(c) = {} /\ Entries(c) = {}
      BY <2>0 DEF HandInv, Dialling, Entries
    <3>3. c \in timers => Dialling(c) = {}
      BY <2>0 DEF DialInv, Dialling
    <3>4. c \in timers => Entries(c) = {}
      BY <2>0 DEF EntryInv, Entries
    <3>5. Dialling(c) # {} => Entries(c) = {}
      <4>1. ASSUME NEW s \in Dialling(c), NEW u \in Entries(c)
            PROVE  FALSE
        <5>1. s \in Sessions /\ u \in Sessions /\ chain[s] = c /\ mapped[u] = c
          BY DEF Dialling, Entries
        <5>2. \A x, y \in Sessions : chain[x] # NoChain => mapped[y] # chain[x]
          BY <2>0 DEF DialInv
        <5> QED
          BY <2>0, <5>1, <5>2
      <4> QED
        BY <4>1
    <3> QED
      BY <3>1, <3>2, <3>3, <3>4, <3>5
  <2> QED
    BY <2>1, <2>2, <2>3
<1> QED
  BY <1>1, BoostInvariant, PTL

\* After reconnect_stopped_ is set no chain is committed to another attempt.
THEOREM StopIsFinal == Spec => StopFinal
<1> DEFINE A == Stopped => /\ Arming' \subseteq Arming
                           /\ Redialling' \subseteq Redialling
                           /\ timers' \subseteq timers \cup Arming
<1>1. TypeOK /\ [Next]_vars => [A]_vars
  <2> SUFFICES ASSUME TypeOK, [Next]_vars, Stopped
               PROVE  /\ \A c \in Chains : hand'[c] \in {"arm", "dial"} => hand'[c] = hand[c]
                      /\ \A c \in timers' : c \in timers \/ (c \in Chains /\ hand[c] = "arm")
    BY DEF Arming, Redialling
  <2>0. hand \in [Chains -> Hands]
    BY DEF TypeOK
  <2>1. ASSUME NEW c \in Chains, schedule_reconnect(c) \/ ArmTimer(c) \/ TimerStopped(c)
        PROVE  /\ \A d \in Chains : hand'[d] \in {"arm", "dial"} => hand'[d] = hand[d]
               /\ \A d \in timers' : d \in timers \/ (d \in Chains /\ hand[d] = "arm")
    BY <2>0, <2>1 DEF schedule_reconnect, ArmTimer, TimerStopped
  <2>2. ASSUME NEW c \in Chains, NEW s \in Sessions, attempt_reconnect(c, s)
        PROVE  /\ \A d \in Chains : hand'[d] \in {"arm", "dial"} => hand'[d] = hand[d]
               /\ timers' = timers
    BY <2>0, <2>2 DEF attempt_reconnect
  <2>3. ASSUME NEW s \in Sessions, DialFails(s) \/ on_session_removed(s)
        PROVE  /\ \A d \in Chains : hand'[d] \in {"arm", "dial"} => hand'[d] = hand[d]
               /\ timers' = timers
    BY <2>3 DEF DialFails, on_session_removed, HandOver
  <2>4. CASE UNCHANGED <<hand, timers>>
    BY <2>4
  <2> QED
    BY <2>1, <2>2, <2>3, <2>4
       DEF Next, vars, async_wait_for_connection, ConnectionArrives, AcceptHandler,
           ConnectOk, AcceptFails, connect_with_policy, TimerFires, connect,
           HandshakeOk, DialStopped, MapInsert, register_and_start, Inherited,
           StopFlag, StopUnmap, StopListening, StopSessions, chainVars
<1>2. Spec => [][A]_vars
  BY <1>1, BoostTypeCorrect, PTL DEF Spec
<1> QED
  BY <1>2 DEF StopFinal

-----------------------------------------------------------------------------
(* The backoff.  Grown is a function defined by recursion, so the proof    *)
(* starts with induction on the natural numbers, stated of sets.           *)

\* The order of the natural numbers as a set of pairs.
Less == {ss \in Nat \X Nat : ss[1] < ss[2]}

\* It has no infinite descent.
LEMMA LessWF == IsWellFoundedOn(Less, Nat)
BY NatLessThanWellFounded DEF OpToRel, Less

\* A set that has 0, and with every number the next one, has all of them.
LEMMA SetInduction ==
    ASSUME NEW T, 0 \in T, \A n \in Nat : n \in T => n + 1 \in T
    PROVE  \A n \in Nat : n \in T
<1> SUFFICES ASSUME Nat \ T # {} PROVE FALSE OBVIOUS
<1>1. PICK x \in Nat \ T : \A y \in Nat \ T : <<y, x>> \notin Less
  <2>1. Nat \ T \subseteq Nat OBVIOUS
  <2> QED BY <2>1, LessWF, WFMin
<1>2. x # 0 /\ x - 1 \in Nat BY <1>1
<1>3. <<x - 1, x>> \in Less BY <1>2 DEF Less
<1>4. x - 1 \in T BY <1>1, <1>2, <1>3
<1> QED BY <1>1, <1>2, <1>4

\* S[n] is what round n does with a value of V.
Steps(S, V) == S \in [Nat -> [V -> V]]

\* f[n] is the value after n rounds that start with a.
Iterates(f, V, a, S) ==
    /\ f \in [Nat -> V]
    /\ f[0] = a
    /\ \A n \in Nat : f[n + 1] = S[n][f[n]]

\* The rounds of a loop have results: finite runs exist for every length, agree
\* where they overlap, and so make up one function.
LEMMA Iteration ==
    ASSUME NEW V, NEW a, a \in V, NEW S, Steps(S, V)
    PROVE  \E f : Iterates(f, V, a, S)
<1>0. S \in [Nat -> [V -> V]] BY DEF Steps
<1> DEFINE Run(g, n) == /\ g \in [0..n -> V] /\ g[0] = a
                        /\ \A i \in 0..n : i < n => g[i + 1] = S[i][g[i]]
           T == {n \in Nat : \E g : Run(g, n)}
           U == {i \in Nat : \A n, m \in Nat : \A g, h :
                     Run(g, n) /\ Run(h, m) /\ i <= n /\ i <= m => g[i] = h[i]}
<1> USE <1>0
<1>1. ASSUME NEW n \in Nat PROVE \E g : Run(g, n)
  <2>1. 0 \in T
    <3>1. Run([i \in 0..0 |-> a], 0) OBVIOUS
    <3> QED BY <3>1
  <2>2. ASSUME NEW k \in Nat, k \in T PROVE k + 1 \in T
    <3>1. PICK g : Run(g, k) BY <2>2
    <3> DEFINE h == [i \in 0..(k + 1) |-> IF i <= k THEN g[i] ELSE S[k][g[k]]]
    <3>2. Run(h, k + 1) BY <3>1
    <3> HIDE DEF Run, h
    <3> QED BY <3>2
  <2> HIDE DEF T
  <2>3. n \in T BY <2>1, <2>2, SetInduction
  <2> QED BY <2>3 DEF T
<1>2. ASSUME NEW i \in Nat PROVE i \in U
  <2>1. 0 \in U OBVIOUS
  <2>2. ASSUME NEW k \in Nat, k \in U PROVE k + 1 \in U
    <3> SUFFICES ASSUME NEW n \in Nat, NEW m \in Nat, NEW g, NEW h, Run(g, n), Run(h, m),
                        k + 1 <= n, k + 1 <= m
                 PROVE  g[k + 1] = h[k + 1]
      <4> HIDE DEF Run
      <4> QED OBVIOUS
    <3>1. k <= n /\ k <= m /\ k \in 0..n /\ k < n /\ k \in 0..m /\ k < m OBVIOUS
    <3>2. g[k] = h[k]
      <4> HIDE DEF Run
      <4> QED BY <2>2, <3>1
    <3> QED BY <3>1, <3>2
  <2> HIDE DEF U
  <2> QED BY <2>1, <2>2, SetInduction
<1> DEFINE C(n) == CHOOSE g : Run(g, n)
           f == [n \in Nat |-> C(n)[n]]
<1>3. ASSUME NEW n \in Nat PROVE Run(C(n), n)
  BY <1>1, Zenon
<1> HIDE DEF C
<1>4. f \in [Nat -> V] BY <1>3
<1>5. f[0] = a BY <1>3
<1>6. ASSUME NEW n \in Nat PROVE f[n + 1] = S[n][f[n]]
  <2>1. Run(C(n), n) /\ Run(C(n + 1), n + 1) BY <1>3
  <2>2. C(n + 1)[n] = C(n)[n]
    <3> HIDE DEF Run
    <3>1. n \in U /\ n + 1 \in Nat /\ n <= n /\ n <= n + 1 BY <1>2
    <3> QED BY <2>1, <3>1
  <2>3. C(n + 1)[n + 1] = S[n][C(n + 1)[n]] BY <2>1
  <2> QED BY <2>2, <2>3
<1> QED BY <1>4, <1>5, <1>6 DEF Iterates

\* What \\div leaves.
LEMMA DivBounds ==
    ASSUME NEW x \in Nat, NEW k \in Nat \ {0}
    PROVE  x \div k \in Nat /\ k * (x \div k) <= x /\ x < k * (x \div k) + k
BY Z3

\* A longer delay grows to a longer one.
LEMMA GrowthMonotonic ==
    ASSUME NEW x \in Nat, NEW y \in Nat, NEW n \in Nat, NEW k \in Nat \ {0}, x <= y
    PROVE  (x * n) \div k <= (y * n) \div k
<1>1. x * n \in Nat /\ y * n \in Nat /\ x * n <= y * n OBVIOUS
<1> DEFINE a == x * n
           b == y * n
<1> HIDE DEF a, b
<1>2. a \in Nat /\ b \in Nat /\ a <= b BY <1>1 DEF a, b
<1>3. a \div k <= b \div k BY <1>2, DivBounds
<1> QED BY <1>3 DEF a, b

\* A multiplier of at least 1 makes no delay shorter.
LEMMA GrowthExpands ==
    ASSUME NEW x \in Nat, NEW n \in Nat, NEW k \in Nat \ {0}, n >= k
    PROVE  (x * n) \div k >= x
BY DivBounds

\* Grown is what its recursive definition describes.
LEMMA GrownDef ==
    /\ Grown \in [Nat -> Nat] /\ Grown[0] = InitialDelay
    /\ \A n \in Nat : Grown[n + 1] = (Grown[n] * MultiplierNum) \div MultiplierDen
<1> DEFINE G(x) == (x * MultiplierNum) \div MultiplierDen
           Rec(g) == [n \in Nat |-> IF n = 0 THEN InitialDelay ELSE G(g[n - 1])]
           S == [n \in Nat |-> [x \in Nat |-> G(x)]]
<1>0. \A x \in Nat : G(x) \in Nat
  <2> SUFFICES ASSUME NEW x \in Nat PROVE G(x) \in Nat OBVIOUS
  <2>1. x * MultiplierNum \in Nat BY BoostAssumption
  <2> QED BY <2>1, DivBounds, BoostAssumption
<1> HIDE DEF G
<1>1. S \in [Nat -> [Nat -> Nat]] BY <1>0
<1>2. \A n, x \in Nat : S[n][x] = G(x) OBVIOUS
<1> HIDE DEF S
<1>3. PICK f : Iterates(f, Nat, InitialDelay, S) BY <1>1, BoostAssumption, Iteration DEF Steps
<1>4. f \in [Nat -> Nat] /\ f[0] = InitialDelay /\ \A n \in Nat : f[n + 1] = G(f[n])
  BY <1>2, <1>3 DEF Iterates
<1>5. f = Rec(f)
  <2>1. ASSUME NEW n \in Nat PROVE f[n] = Rec(f)[n]
    <3>1. CASE n = 0 BY <1>4, <3>1
    <3>2. CASE n # 0
      <4>1. n - 1 \in Nat /\ (n - 1) + 1 = n BY <3>2
      <4>2. f[n] = G(f[n - 1]) BY <1>4, <4>1
      <4> QED BY <3>2, <4>2
    <3> QED BY <3>1, <3>2
  <2> QED BY <1>4, <2>1
<1>6. Grown = CHOOSE x : x = Rec(x) BY DEF Grown, G
<1>7. Grown = Rec(Grown)
  <2> HIDE DEF Rec
  <2> QED BY <1>5, <1>6, Zenon
<1>8. /\ DOMAIN Grown = Nat /\ Grown = [n \in Nat |-> Grown[n]]
      /\ \A n \in Nat : Grown[n] = IF n = 0 THEN InitialDelay ELSE G(Grown[n - 1])
  <2> DEFINE P == Grown
  <2>1. P = Rec(P) BY <1>7
  <2> HIDE DEF P
  <2>2. DOMAIN P = Nat /\ \A n \in Nat : P[n] = IF n = 0 THEN InitialDelay ELSE G(P[n - 1])
    BY <2>1
  <2>3. P = [n \in Nat |-> P[n]] BY <2>1
  <2> QED BY <2>2, <2>3 DEF P
<1>9. Grown[0] = InitialDelay /\ \A n \in Nat : Grown[n + 1] = G(Grown[n])
  <2>1. ASSUME NEW n \in Nat PROVE Grown[n + 1] = G(Grown[n])
    <3>1. n + 1 \in Nat /\ n + 1 # 0 /\ (n + 1) - 1 = n OBVIOUS
    <3> QED BY <1>8, <3>1
  <2> QED BY <1>8, <2>1
<1>10. \A n \in Nat : Grown[n] \in Nat
  <2> DEFINE T == {n \in Nat : Grown[n] \in Nat}
  <2>1. 0 \in T BY <1>9, BoostAssumption
  <2>2. ASSUME NEW n \in Nat, n \in T PROVE n + 1 \in T BY <1>0, <1>9, <2>2
  <2> HIDE DEF T
  <2>3. \A n \in Nat : n \in T BY <2>1, <2>2, SetInduction
  <2> QED BY <2>3 DEF T
<1> QED BY <1>8, <1>9, <1>10 DEF G

\* One more re-dial: whatever holds of a delay after n of them holds after n + 1.
LEMMA NextBackoff ==
    ASSUME NEW n \in Nat, NEW d \in Nat,
           IF n = 0 THEN d = InitialDelay
           ELSE /\ d <= MaxDelay /\ d <= Grown[n]
                /\ MultiplierNum >= MultiplierDen => d \in {Grown[n], MaxDelay}
    PROVE  /\ NextDelay(d) <= MaxDelay
           /\ NextDelay(d) <= Grown[n + 1]
           /\ MultiplierNum >= MultiplierDen => NextDelay(d) \in {Grown[n + 1], MaxDelay}
<1> DEFINE G(x) == (x * MultiplierNum) \div MultiplierDen
<1>1. Grown[n] \in Nat /\ Grown[n + 1] = G(Grown[n]) /\ Grown[0] = InitialDelay
  BY GrownDef
<1>2. \A x \in Nat : G(x) \in Nat
  <2> SUFFICES ASSUME NEW x \in Nat PROVE G(x) \in Nat OBVIOUS
  <2>1. x * MultiplierNum \in Nat BY BoostAssumption
  <2> QED BY <2>1, DivBounds, BoostAssumption
<1>3. \A x, y \in Nat : x <= y => G(x) <= G(y)
  BY GrowthMonotonic, BoostAssumption
<1>4. MultiplierNum >= MultiplierDen => \A x \in Nat : G(x) >= x
  BY GrowthExpands, BoostAssumption
<1>5. NextDelay(d) = IF G(d) < MaxDelay THEN G(d) ELSE MaxDelay
  BY DEF NextDelay
<1>6. d <= Grown[n] /\ MaxDelay \in Nat
  BY <1>1, BoostAssumption
<1> HIDE DEF G
<1>7. G(d) \in Nat /\ G(Grown[n]) \in Nat /\ G(d) <= G(Grown[n])
  BY <1>1, <1>2, <1>3, <1>6
<1>8. NextDelay(d) <= MaxDelay /\ NextDelay(d) <= Grown[n + 1]
  BY <1>1, <1>5, <1>6, <1>7
<1>9. ASSUME MultiplierNum >= MultiplierDen
      PROVE  NextDelay(d) \in {Grown[n + 1], MaxDelay}
  <2>1. CASE d = Grown[n]
    BY <1>1, <1>5, <2>1
  <2>2. CASE d = MaxDelay
    <3>1. G(MaxDelay) \in Nat /\ G(MaxDelay) >= MaxDelay BY <1>2, <1>4, <1>6, <1>9
    <3> QED BY <1>5, <1>6, <2>2, <3>1
  <2> QED BY <1>1, <1>9, <2>1, <2>2
<1> QED BY <1>8, <1>9

\* The delay starts as initial_delay and changes only with the number of re-dials.
LEMMA BackoffStep == TypeOK /\ BackoffForm /\ [Next]_vars => BackoffForm'
<1> SUFFICES ASSUME TypeOK, BackoffForm, [Next]_vars PROVE BackoffForm' OBVIOUS
<1>0. delay \in [Chains -> Nat] /\ tries \in [Chains -> Nat] /\ chain \in [Sessions -> Chains \cup {NoChain}]
  BY DEF TypeOK
<1>1. ASSUME NEW c \in Chains, TimerFires(c) PROVE BackoffForm'
  <2>1. /\ delay' = [delay EXCEPT ![c] = NextDelay(delay[c])]
        /\ tries' = [tries EXCEPT ![c] = tries[c] + 1]
    BY <1>1 DEF TimerFires
  <2>2. LET n == tries[c] + 1
            d == NextDelay(delay[c])
        IN  /\ d <= MaxDelay /\ d <= Grown[n]
            /\ MultiplierNum >= MultiplierDen => d \in {Grown[n], MaxDelay}
    BY <1>0, NextBackoff DEF BackoffForm
  <2>3. tries[c] + 1 # 0 BY <1>0
  <2> QED BY <1>0, <2>1, <2>2, <2>3 DEF BackoffForm
<1>2. ASSUME NEW s \in Sessions, MapInsert(s) PROVE BackoffForm'
  <2>1. /\ delay' = [delay EXCEPT ![chain[s]] = InitialDelay]
        /\ tries' = [tries EXCEPT ![chain[s]] = 0]
    BY <1>2 DEF MapInsert
  <2> QED BY <1>0, <2>1 DEF BackoffForm
<1>3. ASSUME UNCHANGED <<delay, tries>> PROVE BackoffForm' BY <1>3 DEF BackoffForm
<1>4. \/ \E c \in Chains : TimerFires(c)
      \/ \E s \in Sessions : MapInsert(s)
      \/ UNCHANGED <<delay, tries>>
  BY DEF Next, vars, chainVars, async_wait_for_connection, ConnectionArrives, AcceptHandler,
         ConnectOk, AcceptFails, connect_with_policy, attempt_reconnect, schedule_reconnect,
         ArmTimer, TimerStopped, connect, HandshakeOk, DialFails, DialStopped,
         register_and_start, on_session_removed, Inherited, StopFlag, StopUnmap, StopListening,
         StopSessions
<1> QED BY <1>1, <1>2, <1>3, <1>4

\* A chain starts with initial_delay.
LEMMA BackoffInit == Init => BackoffForm
BY DEF Init, BackoffForm

\* The delay after n re-dials is bounded by max_delay and by initial_delay multiplied
\* n times, and is the smaller of the two for every multiplier of at least 1.
THEOREM BackoffHasForm == Spec => []BackoffForm
BY BoostTypeCorrect, BackoffInit, BackoffStep, PTL DEF Spec

=============================================================================
