---------------------------- MODULE FramingProofs ----------------------------
(***************************************************************************)
(* Proofs about Session, RecvBuffer, Endian and Framing, for every set of  *)
(* frames, every max_message_size, both byte orders and any byte.          *)
(***************************************************************************)
EXTENDS Framing, WellFoundedInduction, TLAPS

(* Induction on the natural numbers, and functions defined by recursion on *)
(* them, stated of sets and functions.                                     *)

\* The order of the natural numbers as a set of pairs.
Less == {ss \in Nat \X Nat : ss[1] < ss[2]}

\* It has no infinite descent.
LEMMA LessWF == IsWellFoundedOn(Less, Nat)
BY NatLessThanWellFounded DEF OpToRel, Less

\* A set that has 0, and with every number the next one, has all of them.
LEMMA SetInduction ==
    ASSUME NEW T, 0 \in T, \A n \in Nat : n \in T => n + 1 \in T
    PROVE  \A n \in Nat : n \in T
<1> SUFFICES ASSUME Nat \ T # {} PROVE FALSE OBVIOUS
<1>1. PICK x \in Nat \ T : \A y \in Nat \ T : <<y, x>> \notin Less
  <2>1. Nat \ T \subseteq Nat OBVIOUS
  <2> QED BY <2>1, LessWF, WFMin
<1>2. x # 0 /\ x - 1 \in Nat BY <1>1
<1>3. <<x - 1, x>> \in Less BY <1>2 DEF Less
<1>4. x - 1 \in T BY <1>1, <1>2, <1>3
<1> QED BY <1>1, <1>2, <1>4

\* S[n] is what round n does with a value of V.
Steps(S, V) == S \in [Nat -> [V -> V]]

\* f[n] is the value after n rounds that start with a.
Iterates(f, V, a, S) ==
    /\ f \in [Nat -> V]
    /\ f[0] = a
    /\ \A n \in Nat : f[n + 1] = S[n][f[n]]

\* The rounds of a loop have results: finite runs exist for every length, agree
\* where they overlap, and so make up one function.
LEMMA Iteration ==
    ASSUME NEW V, NEW a, a \in V, NEW S, Steps(S, V)
    PROVE  \E f : Iterates(f, V, a, S)
<1>0. S \in [Nat -> [V -> V]] BY DEF Steps
<1> DEFINE Run(g, n) == /\ g \in [0..n -> V] /\ g[0] = a
                        /\ \A i \in 0..n : i < n => g[i + 1] = S[i][g[i]]
           T == {n \in Nat : \E g : Run(g, n)}
           U == {i \in Nat : \A n, m \in Nat : \A g, h :
                     Run(g, n) /\ Run(h, m) /\ i <= n /\ i <= m => g[i] = h[i]}
<1> USE <1>0
<1>1. ASSUME NEW n \in Nat PROVE \E g : Run(g, n)
  <2>1. 0 \in T
    <3>1. Run([i \in 0..0 |-> a], 0) OBVIOUS
    <3> QED BY <3>1
  <2>2. ASSUME NEW k \in Nat, k \in T PROVE k + 1 \in T
    <3>1. PICK g : Run(g, k) BY <2>2
    <3> DEFINE h == [i \in 0..(k + 1) |-> IF i <= k THEN g[i] ELSE S[k][g[k]]]
    <3>2. Run(h, k + 1) BY <3>1
    <3> HIDE DEF Run, h
    <3> QED BY <3>2
  <2> HIDE DEF T
  <2>3. n \in T BY <2>1, <2>2, SetInduction
  <2> QED BY <2>3 DEF T
<1>2. ASSUME NEW i \in Nat PROVE i \in U
  <2>1. 0 \in U OBVIOUS
  <2>2. ASSUME NEW k \in Nat, k \in U PROVE k + 1 \in U
    <3> SUFFICES ASSUME NEW n \in Nat, NEW m \in Nat, NEW g, NEW h, Run(g, n), Run(h, m),
                        k + 1 <= n, k + 1 <= m
                 PROVE  g[k + 1] = h[k + 1]
      <4> HIDE DEF Run
      <4> QED OBVIOUS
    <3>1. k <= n /\ k <= m /\ k \in 0..n /\ k < n /\ k \in 0..m /\ k < m OBVIOUS
    <3>2. g[k] = h[k]
      <4> HIDE DEF Run
      <4> QED BY <2>2, <3>1
    <3> QED BY <3>1, <3>2
  <2> HIDE DEF U
  <2> QED BY <2>1, <2>2, SetInduction
<1> DEFINE C(n) == CHOOSE g : Run(g, n)
           f == [n \in Nat |-> C(n)[n]]
<1>3. ASSUME NEW n \in Nat PROVE Run(C(n), n)
  BY <1>1, Zenon
<1> HIDE DEF C
<1>4. f \in [Nat -> V] BY <1>3
<1>5. f[0] = a BY <1>3
<1>6. ASSUME NEW n \in Nat PROVE f[n + 1] = S[n][f[n]]
  <2>1. Run(C(n), n) /\ Run(C(n + 1), n + 1) BY <1>3
  <2>2. C(n + 1)[n] = C(n)[n]
    <3> HIDE DEF Run
    <3>1. n \in U /\ n + 1 \in Nat /\ n <= n /\ n <= n + 1 BY <1>2
    <3> QED BY <2>1, <3>1
  <2>3. C(n + 1)[n + 1] = S[n][C(n + 1)[n]] BY <2>1
  <2> QED BY <2>2, <2>3
<1> QED BY <1>4, <1>5, <1>6 DEF Iterates

-----------------------------------------------------------------------------
(* Sequences.                                                              *)

\* Sequences with the same elements are the same.
LEMMA SameSeq ==
    ASSUME NEW S, NEW s \in Seq(S), NEW t \in Seq(S),
           Len(s) = Len(t), \A i \in 1..Len(s) : s[i] = t[i]
    PROVE  s = t
OBVIOUS

\* The empty sequence is the one of length 0.
LEMMA NoBytes == ASSUME NEW S, NEW s \in Seq(S) PROVE s = <<>> <=> Len(s) = 0
OBVIOUS

\* Nothing is added to a sequence by the empty one.
LEMMA ConcatNothing == ASSUME NEW S, NEW s \in Seq(S) PROVE s \o <<>> = s /\ <<>> \o s = s
<1>1. s \o <<>> = s BY SameSeq
<1>2. <<>> \o s = s BY SameSeq
<1> QED BY <1>1, <1>2

-----------------------------------------------------------------------------
(* The read loop on whole frames.                                          *)

\* What is known of the frame being read.
Place ==
    /\ at = "header" => Arrived /\ ~TooLong(Current.header) /\ buffer = Current.header
    /\ at = "body" => Arrived /\ Acceptable(Current) /\ buffer = Current.body
    /\ at = "refused" => Arrived /\ ~Acceptable(Current)

\* The inductive invariant of the loop.
SInv ==
    /\ TypeOK
    /\ at \in {"idle", "size", "header", "body"} => errors = 0
    /\ BufferBounded
    /\ Place

\* The frame being read is one of Frames, so its sizes are numbers.
LEMMA CurrentType ==
    ASSUME TypeOK, Arrived
    PROVE  /\ Current \in Frames /\ Current.header \in Nat /\ Current.body \in Nat
           /\ Message(Current) \in Messages
<1>1. taken + 1 \in 1..Len(sent) BY DEF TypeOK, Arrived
<1>2. Current \in Frames BY <1>1 DEF TypeOK, Current
<1> QED BY <1>2, SessionAssumption DEF Messages

\* A session that has not started satisfies the invariant.
LEMMA SInit == Init => SInv
BY SessionAssumption DEF Init, SInv, TypeOK, BufferBounded, Place

\* Frames that come in do not change the one being read.
LEMMA SameFrame ==
    ASSUME TypeOK, NEW f \in Frames, sent' = Append(sent, f), taken' = taken
    PROVE  /\ sent' \in Seq(Frames) /\ Len(sent') = Len(sent) + 1
           /\ \A k \in 1..Len(sent) : sent'[k] = sent[k]
           /\ Arrived => Arrived' /\ Current' = Current
BY DEF TypeOK, Arrived, Current

\* Every handler of the loop, and the peer, keeps it.
LEMMA SStep == SInv /\ [Next]_vars => SInv'
<1> SUFFICES ASSUME SInv, [Next]_vars PROVE SInv' OBVIOUS
<1>0. TypeOK /\ BufferBounded /\ Place BY DEF SInv
<1>1. ASSUME NEW f \in Frames, PeerSends(f) PROVE SInv'
  <2>1. UNCHANGED <<taken, at, buffer, handled, pongs, errors>> BY <1>1 DEF PeerSends
  <2>2. /\ sent' \in Seq(Frames) /\ Len(sent') = Len(sent) + 1
        /\ Arrived => Arrived' /\ Current' = Current
    BY <1>0, <1>1, SameFrame DEF PeerSends
  <2>3. TypeOK' BY <1>0, <2>1, <2>2 DEF TypeOK
  <2>4. Place' BY <1>0, <2>1, <2>2 DEF Place, Acceptable, TooLong
  <2> QED BY <2>1, <2>3, <2>4 DEF SInv, BufferBounded
<1>2. CASE start
  BY <1>2, SessionAssumption DEF SInv, TypeOK, BufferBounded, Place, start, Await, SizeOfFrameSize
<1>3. CASE read_header
  <2>1. Current.header \in Nat BY <1>0, <1>3, CurrentType DEF read_header
  <2>2. Arrived /\ Arrived' /\ Current' = Current BY <1>3 DEF read_header, Arrived, Current
  <2>3. TypeOK' /\ BufferBounded' /\ (at' = "header" => errors' = 0)
    BY <1>3, <2>1, SessionAssumption
       DEF SInv, TypeOK, BufferBounded, read_header, on_error, Await, TooLong
  <2>4. Place'
    BY <1>3, <2>2 DEF Place, Acceptable, read_header, on_error, Await, TooLong
  <2>5. at' \in {"header", "refused"} BY <1>3 DEF read_header, on_error, Await
  <2> QED BY <2>3, <2>4, <2>5 DEF SInv
<1>4. CASE read_body
  <2>1. Current.body \in Nat BY <1>0, <1>4, CurrentType DEF read_body
  <2>2. Arrived /\ Arrived' /\ Current' = Current BY <1>4 DEF read_body, Arrived, Current
  <2>3. TypeOK' /\ BufferBounded' /\ (at' = "body" => errors' = 0)
    BY <1>4, <2>1, SessionAssumption
       DEF SInv, TypeOK, BufferBounded, read_body, on_error, Await, TooLong
  <2>4. Place'
    BY <1>0, <1>4, <2>2 DEF Place, Acceptable, read_body, on_error, Await, TooLong
  <2>5. at' \in {"body", "refused"} BY <1>4 DEF read_body, on_error, Await
  <2> QED BY <2>3, <2>4, <2>5 DEF SInv
<1>5. CASE Dispatch
  <2>1. Message(Current) \in Messages BY <1>0, <1>5, CurrentType DEF Dispatch
  <2>2. handled' \in Seq(Messages) BY <1>0, <1>5, <2>1 DEF Dispatch, TypeOK
  <2>3. pongs' \in Nat /\ taken' \in 0..Len(sent') BY <1>0, <1>5 DEF Dispatch, Arrived, TypeOK
  <2>4. TypeOK' /\ BufferBounded' /\ errors' = 0 /\ at' = "size"
    BY <1>5, <2>2, <2>3 DEF SInv, TypeOK, BufferBounded, Dispatch, Await, SizeOfFrameSize
  <2> QED BY <2>4 DEF SInv, Place
<1>6. CASE ReadFails
  <2>1. at' = "ended" /\ buffer' = 0 /\ errors' = 1
        /\ UNCHANGED <<sent, taken, handled, pongs>>
    BY <1>6 DEF SInv, ReadFails, on_error
  <2> QED BY <1>0, <2>1, SessionAssumption DEF SInv, TypeOK, BufferBounded, Place
<1>7. CASE UNCHANGED vars
  BY <1>7 DEF SInv, TypeOK, BufferBounded, Place, Arrived, Current, Acceptable, vars
<1> QED BY <1>1, <1>2, <1>3, <1>4, <1>5, <1>6, <1>7 DEF Next

\* SInv holds in every reachable state.
THEOREM SessionInvariant == Spec => []SInv
BY SInit, SStep, PTL DEF Spec

\* The read loop keeps its types, and on_error is called at most once.
THEOREM SessionTypeCorrect == Spec => []TypeOK
<1>1. SInv => TypeOK BY DEF SInv
<1> QED BY <1>1, SessionInvariant, PTL

\* Whatever sizes a peer announces, no read buffer of read_header or read_body
\* exceeds max_message_size.
THEOREM BuffersBounded == Spec => []BufferBounded
<1>1. SInv => BufferBounded BY DEF SInv
<1> QED BY <1>1, SessionInvariant, PTL

-----------------------------------------------------------------------------
(* recv_buffer.                                                            *)

\* What recv_buffer has got so far.
Results == [messages : Seq(Messages), pongs : Nat, nullopt : BOOLEAN]

\* A round of the loop gives a result.
LEMMA RoundType ==
    ASSUME NEW r \in Results, NEW f \in Frames PROVE Round(r, f) \in Results
<1>1. Message(f) \in Messages BY DEF Messages
<1>2. Append(r.messages, Message(f)) \in Seq(Messages) BY <1>1 DEF Results
<1>3. [r EXCEPT !.nullopt = TRUE] \in Results BY DEF Results
<1>4. [r EXCEPT !.messages = Append(@, Message(f))] \in Results BY <1>2 DEF Results
<1>5. [r EXCEPT !.pongs = @ + 1] \in Results BY DEF Results
<1> QED BY <1>3, <1>4, <1>5 DEF Round

\* The rounds are the ones their recursive definition describes.
LEMMA RoundsDef ==
    ASSUME NEW fs \in Seq(Frames)
    PROVE  /\ Rounds(fs) \in [0..Len(fs) -> Results]
           /\ Rounds(fs)[0] = Fresh
           /\ \A n \in 0..Len(fs) : n < Len(fs) =>
                Rounds(fs)[n + 1] = IF Rounds(fs)[n].nullopt THEN Rounds(fs)[n]
                                    ELSE Round(Rounds(fs)[n], fs[n + 1])
<1> DEFINE D == 0..Len(fs)
           Rec(g) == [n \in D |-> IF n = 0 THEN Fresh
                                  ELSE IF g[n - 1].nullopt THEN g[n - 1]
                                  ELSE Round(g[n - 1], fs[n])]
           S == [n \in Nat |-> [r \in Results |->
                    IF n + 1 \in 1..Len(fs) /\ ~r.nullopt THEN Round(r, fs[n + 1]) ELSE r]]
<1>1. Fresh \in Results BY DEF Fresh, Results
<1>2. S \in [Nat -> [Results -> Results]]
  <2>1. ASSUME NEW n \in Nat, NEW r \in Results, n + 1 \in 1..Len(fs)
        PROVE  Round(r, fs[n + 1]) \in Results
    BY <2>1, RoundType
  <2> QED BY <2>1
<1> HIDE DEF S
<1>3. PICK h : Iterates(h, Results, Fresh, S)
  BY <1>1, <1>2, Iteration DEF Steps
<1>4. h \in [Nat -> Results] /\ h[0] = Fresh /\ \A n \in Nat : h[n + 1] = S[n][h[n]]
  BY <1>3 DEF Iterates
<1> DEFINE g == [n \in D |-> h[n]]
<1>5. g = Rec(g)
  <2>1. ASSUME NEW n \in D PROVE g[n] = Rec(g)[n]
    <3>1. CASE n = 0 BY <1>4, <3>1
    <3>2. CASE n # 0
      <4>1. n - 1 \in Nat /\ n - 1 \in D /\ n \in 1..Len(fs) /\ (n - 1) + 1 = n BY <3>2
      <4>2. h[n] = S[n - 1][h[n - 1]] BY <1>4, <4>1
      <4>3. S[n - 1][h[n - 1]] = IF ~h[n - 1].nullopt THEN Round(h[n - 1], fs[n]) ELSE h[n - 1]
        BY <1>4, <4>1 DEF S
      <4> QED BY <3>2, <4>1, <4>2, <4>3
    <3> QED BY <3>1, <3>2
  <2> QED BY <2>1
<1> HIDE DEF g
<1>6. Rounds(fs) = CHOOSE x : x = Rec(x) BY DEF Rounds
<1>7. Rounds(fs) = Rec(Rounds(fs))
  <2> HIDE DEF Rec
  <2> QED BY <1>5, <1>6, Zenon
<1> DEFINE R == Rounds(fs)
<1> HIDE DEF R
<1>8. R = Rec(R) BY <1>7 DEF R
<1>9. R[0] = Fresh /\ \A n \in D : n < Len(fs) =>
         R[n + 1] = IF R[n].nullopt THEN R[n] ELSE Round(R[n], fs[n + 1])
  BY <1>8
<1>10. R \in [D -> Results]
  <2> DEFINE T == {n \in Nat : n \in D => R[n] \in Results}
  <2>1. 0 \in T BY <1>1, <1>9
  <2>2. ASSUME NEW n \in Nat, n \in T PROVE n + 1 \in T
    <3>1. SUFFICES ASSUME n + 1 \in D PROVE R[n + 1] \in Results OBVIOUS
    <3>2. n \in D /\ n < Len(fs) /\ n + 1 \in 1..Len(fs) BY <3>1
    <3>3. R[n] \in Results BY <2>2, <3>2
    <3>4. Round(R[n], fs[n + 1]) \in Results BY <3>2, <3>3, RoundType
    <3> QED BY <1>9, <3>2, <3>3, <3>4
  <2> HIDE DEF T
  <2>3. \A n \in Nat : n \in T BY <2>1, <2>2, SetInduction
  <2>4. \A n \in D : R[n] \in Results BY <2>3 DEF T
  <2> QED BY <1>8, <2>4
<1> QED BY <1>9, <1>10 DEF R

\* What the rounds give depends on the frames they have read only.
LEMMA RoundsPrefix ==
    ASSUME NEW fs \in Seq(Frames), NEW gs \in Seq(Frames), NEW k \in Nat,
           k <= Len(fs), k <= Len(gs), \A i \in 1..k : fs[i] = gs[i]
    PROVE  Rounds(fs)[k] = Rounds(gs)[k]
<1> DEFINE T == {n \in Nat : n <= k => Rounds(fs)[n] = Rounds(gs)[n]}
<1>1. 0 \in T BY RoundsDef
<1>2. ASSUME NEW n \in Nat, n \in T PROVE n + 1 \in T
  <2>1. SUFFICES ASSUME n + 1 <= k PROVE Rounds(fs)[n + 1] = Rounds(gs)[n + 1] OBVIOUS
  <2>2. /\ n \in 0..Len(fs) /\ n < Len(fs) /\ n \in 0..Len(gs) /\ n < Len(gs)
        /\ n + 1 \in 1..k /\ n <= k
    BY <2>1
  <2>3. Rounds(fs)[n] = Rounds(gs)[n] /\ fs[n + 1] = gs[n + 1] BY <1>2, <2>2
  <2> QED BY <2>2, <2>3, RoundsDef
<1> HIDE DEF T
<1>3. k \in T BY <1>1, <1>2, SetInduction
<1> QED BY <1>3 DEF T

\* Once recv_buffer has returned nullopt nothing is read any more.
LEMMA RoundsEnd ==
    ASSUME NEW fs \in Seq(Frames), NEW k \in 0..Len(fs), Rounds(fs)[k].nullopt
    PROVE  \A n \in k..Len(fs) : Rounds(fs)[n] = Rounds(fs)[k]
<1> DEFINE T == {m \in Nat : k + m <= Len(fs) => Rounds(fs)[k + m] = Rounds(fs)[k]}
<1>1. 0 \in T OBVIOUS
<1>2. ASSUME NEW m \in Nat, m \in T PROVE m + 1 \in T
  <2>1. SUFFICES ASSUME k + (m + 1) <= Len(fs) PROVE Rounds(fs)[k + (m + 1)] = Rounds(fs)[k]
    OBVIOUS
  <2>2. k + m \in 0..Len(fs) /\ k + m < Len(fs) /\ (k + m) + 1 = k + (m + 1) BY <2>1
  <2>3. Rounds(fs)[k + m] = Rounds(fs)[k] BY <1>2, <2>2
  <2> QED BY <2>2, <2>3, RoundsDef
<1> HIDE DEF T
<1>3. \A m \in Nat : m \in T BY <1>1, <1>2, SetInduction
<1>4. ASSUME NEW n \in k..Len(fs) PROVE Rounds(fs)[n] = Rounds(fs)[k]
  <2>1. n - k \in T /\ k + (n - k) = n BY <1>3
  <2> QED BY <2>1 DEF T
<1> QED BY <1>4

\* On one frame there is one round.
LEMMA FirstRound ==
    ASSUME NEW f \in Frames PROVE recv_buffer(<<f>>) = Round(Fresh, f)
<1> DEFINE fs == <<f>>
<1>1. fs \in Seq(Frames) /\ Len(fs) = 1 /\ fs[1] = f OBVIOUS
<1> HIDE DEF fs
<1>2. Rounds(fs)[0] = Fresh /\ 0 \in 0..Len(fs) /\ 0 < Len(fs) BY <1>1, RoundsDef
<1>3. Rounds(fs)[0 + 1] = IF Fresh.nullopt THEN Fresh ELSE Round(Fresh, fs[0 + 1])
  BY <1>1, <1>2, RoundsDef
<1> QED BY <1>1, <1>3 DEF recv_buffer, Fresh, fs

\* After the frames it has read to their end, a session has handled and answered
\* what the rounds have.
RInv ==
    /\ handled = Rounds(sent)[taken].messages
    /\ pongs = Rounds(sent)[taken].pongs
    /\ ~Rounds(sent)[taken].nullopt

\* Before the first frame both receivers have nothing.
LEMMA RInit == Init => RInv
<1> SUFFICES ASSUME Init PROVE RInv OBVIOUS
<1>1. sent \in Seq(Frames) BY DEF Init
<1>2. Rounds(sent)[0] = Fresh BY <1>1, RoundsDef
<1>3. Fresh.messages = <<>> /\ Fresh.pongs = 0 /\ Fresh.nullopt = FALSE BY DEF Fresh
<1>4. handled = <<>> /\ pongs = 0 /\ taken = 0 BY DEF Init
<1> QED BY <1>2, <1>3, <1>4 DEF RInv

\* Reading a frame to its end does what one round of recv_buffer does with it.
LEMMA RStep == SInv /\ RInv /\ [Next]_vars => RInv'
<1> SUFFICES ASSUME SInv, RInv, [Next]_vars PROVE RInv' OBVIOUS
<1>0. TypeOK /\ Place BY DEF SInv
<1>1. ASSUME NEW f \in Frames, PeerSends(f) PROVE RInv'
  <2>1. UNCHANGED <<taken, handled, pongs>> BY <1>1 DEF PeerSends
  <2>2. /\ sent \in Seq(Frames) /\ sent' \in Seq(Frames) /\ Len(sent') = Len(sent) + 1
        /\ \A k \in 1..Len(sent) : sent'[k] = sent[k]
    BY <1>0, <1>1, SameFrame DEF PeerSends, TypeOK
  <2>3. taken \in Nat /\ taken <= Len(sent) /\ taken <= Len(sent') BY <1>0, <2>2 DEF TypeOK
  <2>4. Rounds(sent')[taken] = Rounds(sent)[taken] BY <2>2, <2>3, RoundsPrefix
  <2> QED BY <2>1, <2>4 DEF RInv
<1>2. CASE Dispatch
  <2>1. sent' = sent /\ taken' = taken + 1 /\ sent \in Seq(Frames)
    BY <1>0, <1>2 DEF Dispatch, TypeOK
  <2>2. taken \in 0..Len(sent) /\ taken < Len(sent) BY <1>0, <1>2 DEF Dispatch, Arrived, TypeOK
  <2>3. Rounds(sent)[taken + 1] = Round(Rounds(sent)[taken], Current)
    BY <2>1, <2>2, RoundsDef DEF RInv, Current
  <2>4. Acceptable(Current) BY <1>0, <1>2 DEF Dispatch, Place
  <2>5. Rounds(sent)[taken] \in Results BY <2>1, <2>2, RoundsDef
  <2> QED
    BY <1>2, <2>1, <2>3, <2>4, <2>5 DEF RInv, Round, Acceptable, Dispatch, Results
<1>3. CASE start \/ read_header \/ read_body \/ ReadFails \/ UNCHANGED vars
  BY <1>3 DEF start, read_header, read_body, ReadFails, vars, RInv
<1> QED BY <1>1, <1>2, <1>3 DEF Next

\* A session that got there agrees with recv_buffer.
LEMMA Agrees == SInv /\ RInv => ReceiversAgree
<1> SUFFICES ASSUME SInv, RInv PROVE ReceiversAgree OBVIOUS
<1>0. TypeOK /\ Place BY DEF SInv
<1>1. sent \in Seq(Frames) /\ taken \in 0..Len(sent) BY <1>0 DEF TypeOK
<1> DEFINE k == IF at = "refused" THEN Len(sent) ELSE taken
           r == recv_buffer(SubSeq(sent, 1, k))
<1>2. k \in 0..Len(sent) BY <1>1
<1>3. /\ SubSeq(sent, 1, k) \in Seq(Frames) /\ Len(SubSeq(sent, 1, k)) = k
      /\ \A i \in 1..k : SubSeq(sent, 1, k)[i] = sent[i]
  BY <1>1, <1>2
<1>4. r = Rounds(sent)[k]
  <2> HIDE DEF k
  <2>1. k \in Nat /\ k <= Len(sent) /\ k <= Len(SubSeq(sent, 1, k)) BY <1>2, <1>3
  <2>2. Rounds(SubSeq(sent, 1, k))[k] = Rounds(sent)[k] BY <1>1, <1>3, <2>1, RoundsPrefix
  <2> QED BY <1>3, <2>2 DEF recv_buffer
<1>5. Rounds(sent)[taken] \in Results BY <1>1, RoundsDef
<1>6. CASE at = "refused"
  <2>1. Arrived /\ ~Acceptable(Current) BY <1>0, <1>6 DEF Place
  <2>2. taken < Len(sent) /\ taken + 1 \in 0..Len(sent) BY <1>1, <2>1 DEF Arrived
  <2>3. Rounds(sent)[taken + 1] = Round(Rounds(sent)[taken], Current)
    BY <1>1, <2>2, RoundsDef DEF RInv, Current
  <2>4. Rounds(sent)[taken + 1] = [Rounds(sent)[taken] EXCEPT !.nullopt = TRUE]
    BY <2>1, <2>3 DEF Round, Acceptable
  <2>5. Rounds(sent)[taken + 1].nullopt BY <1>5, <2>4 DEF Results
  <2>6. Rounds(sent)[Len(sent)] = Rounds(sent)[taken + 1] BY <1>1, <2>2, <2>5, RoundsEnd
  <2>7. r = [Rounds(sent)[taken] EXCEPT !.nullopt = TRUE] BY <1>4, <1>6, <2>4, <2>6
  <2>8. handled = r.messages /\ pongs = r.pongs /\ r.nullopt = TRUE
    BY <1>5, <2>7 DEF RInv, Results
  <2> QED BY <1>6, <2>8 DEF ReceiversAgree
<1>7. CASE at # "refused"
  <2>1. r = Rounds(sent)[taken] BY <1>4, <1>7
  <2>2. ASSUME at = "body" PROVE ~recv_buffer(<<Current>>).nullopt
    <3>1. Current \in Frames /\ Acceptable(Current) BY <1>0, <2>2, CurrentType DEF Place
    <3>2. <<Current>> \in Seq(Frames) /\ Len(<<Current>>) = 1 /\ <<Current>>[1] = Current BY <3>1
    <3>3. recv_buffer(<<Current>>) = Round(Fresh, Current) BY <3>1, FirstRound
    <3> QED BY <3>1, <3>3 DEF Round, Fresh, Acceptable
  <2> QED BY <1>7, <2>1, <2>2 DEF RInv, ReceiversAgree
<1> QED BY <1>6, <1>7

\* The synchronous receiver and the asynchronous one agree, on every stream.
THEOREM TheReceiversAgree == Spec => []ReceiversAgree
BY SInit, SStep, RInit, RStep, Agrees, PTL DEF Spec

-----------------------------------------------------------------------------
(* A frame size on the wire.                                              *)

\* What a host writes after to_little is the integer, least significant byte
\* first, whatever the host's order: the wire format of a frame size
\* (message.cpp:21).
THEOREM WireIsLittle ==
    \A d \in Integer, h \in Hosts : Store(to_little(d, h), h) = d
<1> SUFFICES ASSUME NEW d \in Integer, NEW h \in Hosts
    PROVE  Store(to_little(d, h), h) = d
  OBVIOUS
<1>1. Swap(Swap(d)) = d
  BY EndianAssumption DEF Swap, Integer
<1> QED
  BY <1>1 DEF Hosts, Store, to_little

\* Read back by a host of any order, the bytes are the integer again.
LEMMA ReadBack ==
    \A d \in Integer, g \in Hosts : from_little(Load(d, g), g) = d
<1> SUFFICES ASSUME NEW d \in Integer, NEW g \in Hosts
    PROVE  from_little(Load(d, g), g) = d
  OBVIOUS
<1>1. Swap(Swap(d)) = d BY EndianAssumption DEF Swap, Integer
<1> QED BY <1>1 DEF Hosts, Load, from_little

\* A frame size written by any host is read as the same number by any other
\* (message.cpp:69, session.cpp:94).
THEOREM EndianRoundTrip ==
    \A d \in Integer, h, g \in Hosts :
        from_little(Load(Store(to_little(d, h), h), g), g) = d
BY ReadBack, WireIsLittle

\* A number is its last digit and Base times the rest, and the rest is smaller.
LEMMA LastDigit ==
    ASSUME NEW n \in Nat
    PROVE  /\ n \div Base \in Nat /\ n % Base \in 0..(Base - 1)
           /\ n = (n % Base) + Base * (n \div Base)
           /\ \A m \in Nat : n <= (Base - 1) + Base * m => n \div Base <= m
<1>0. Base \in Nat \ {0} BY EndianAssumption
<1>1. n \div Base \in Nat /\ n % Base \in 0..(Base - 1) BY <1>0
<1>2. n = (n % Base) + Base * (n \div Base) BY <1>0
<1>3. ASSUME NEW m \in Nat, n <= (Base - 1) + Base * m PROVE n \div Base <= m
  <2> DEFINE q == n \div Base
  <2>1. SUFFICES ASSUME q >= m + 1 PROVE FALSE BY <1>1
  <2>2. PICK j \in Nat : q = m + 1 + j
    <3>1. q - (m + 1) \in Nat /\ q = m + 1 + (q - (m + 1)) BY <1>1, <2>1
    <3> QED BY <3>1
  <2> HIDE DEF q
  <2>3. Base * q = Base * m + Base + Base * j BY <1>0, <2>2
  <2>4. PICK x \in Nat : x = Base * j BY <1>0, <2>2
  <2>5. PICK y \in Nat : y = Base * m BY <1>0
  <2>6. n >= Base * q BY <1>0, <1>1, <1>2 DEF q
  <2> QED BY <1>0, <1>3, <2>3, <2>4, <2>5, <2>6
<1> QED BY <1>1, <1>2, <1>3

\* A frame_size_t is the number its digits say.
LEMMA NumberOfDigits ==
    ASSUME NEW n \in Nat, n <= MaxFrameSize
    PROVE  Digits(n) \in Integer /\ Number(Digits(n)) = n
<1> DEFINE b == Base - 1
           m7 == b + Base * b   m6 == b + Base * m7   m5 == b + Base * m6   m4 == b + Base * m5
           m3 == b + Base * m4   m2 == b + Base * m3
           n2 == n \div Base   n3 == n2 \div Base   n4 == n3 \div Base   n5 == n4 \div Base
           n6 == n5 \div Base   n7 == n6 \div Base   n8 == n7 \div Base
<1>0. Base \in Nat /\ Base > 0 /\ b \in Nat BY EndianAssumption
<1>w. Width = 8 BY FramingAssumption DEF SizeOfFrameSize
<1>1. MaxFrameSize = (Base - 1) + Base * m2
  BY <1>w DEF MaxFrameSize, Number
<1>2. m7 \in Nat /\ m6 \in Nat /\ m5 \in Nat /\ m4 \in Nat /\ m3 \in Nat /\ m2 \in Nat
  <2>1. \A x \in Nat : b + Base * x \in Nat BY <1>0
  <2>2. m7 \in Nat BY <1>0, <2>1
  <2> HIDE DEF m7
  <2>3. m6 \in Nat BY <2>1, <2>2
  <2> HIDE DEF m6
  <2>4. m5 \in Nat BY <2>1, <2>3
  <2> HIDE DEF m5
  <2>5. m4 \in Nat BY <2>1, <2>4
  <2> HIDE DEF m4
  <2>6. m3 \in Nat BY <2>1, <2>5
  <2> HIDE DEF m3
  <2>7. m2 \in Nat BY <2>1, <2>6
  <2> QED BY <2>2, <2>3, <2>4, <2>5, <2>6, <2>7
<1> HIDE DEF n2, n3, n4, n5, n6, n7, n8
<1>3. n2 \in Nat /\ n3 \in Nat /\ n4 \in Nat /\ n5 \in Nat /\ n6 \in Nat /\ n7 \in Nat /\ n8 \in Nat
  BY LastDigit DEF n2, n3, n4, n5, n6, n7, n8
<1>4. n8 <= b
  <2> HIDE DEF m2, m3, m4, m5, m6, m7
  <2>2. n2 <= m2 BY <1>1, <1>2, LastDigit DEF n2
  <2>3. n3 <= m3 BY <1>2, <1>3, <2>2, LastDigit DEF n3, m2
  <2>4. n4 <= m4 BY <1>2, <1>3, <2>3, LastDigit DEF n4, m3
  <2>5. n5 <= m5 BY <1>2, <1>3, <2>4, LastDigit DEF n5, m4
  <2>6. n6 <= m6 BY <1>2, <1>3, <2>5, LastDigit DEF n6, m5
  <2>7. n7 <= m7 BY <1>2, <1>3, <2>6, LastDigit DEF n7, m6
  <2> QED BY <1>0, <1>3, <2>7, LastDigit DEF n8, m7
<1>5. /\ n = (n % Base) + Base * n2 /\ n2 = (n2 % Base) + Base * n3
      /\ n3 = (n3 % Base) + Base * n4 /\ n4 = (n4 % Base) + Base * n5
      /\ n5 = (n5 % Base) + Base * n6 /\ n6 = (n6 % Base) + Base * n7
      /\ n7 = (n7 % Base) + Base * n8 /\ n8 % Base = n8
  <2>1. n8 % Base = n8 BY <1>0, <1>3, <1>4
  <2> QED BY <1>3, <2>1, LastDigit DEF n2, n3, n4, n5, n6, n7, n8
<1>6. Digits(n) = [i \in 1..8 |-> <<n, n2, n3, n4, n5, n6, n7, n8>>[i] % Base]
  BY <1>w DEF Digits, n2, n3, n4, n5, n6, n7, n8
<1>7. Digits(n) \in Integer
  <2>1. \A x \in Nat : x % Base \in 0..(Base - 1) BY <1>0
  <2>2. \A i \in 1..8 : <<n, n2, n3, n4, n5, n6, n7, n8>>[i] \in Nat BY <1>3
  <2> QED BY <1>w, <1>6, <2>1, <2>2 DEF Integer
<1>8. /\ Digits(n)[1] = n % Base /\ Digits(n)[2] = n2 % Base /\ Digits(n)[3] = n3 % Base
      /\ Digits(n)[4] = n4 % Base /\ Digits(n)[5] = n5 % Base /\ Digits(n)[6] = n6 % Base
      /\ Digits(n)[7] = n7 % Base /\ Digits(n)[8] = n8 % Base
  BY <1>6
<1> QED BY <1>5, <1>7, <1>8 DEF Number

-----------------------------------------------------------------------------
(* The bytes.                                                              *)

\* s, which u will follow, is the start of a \o b and holds all of a.
Begins(s, u, a, b) == s \o u = a \o b /\ Len(s) >= Len(a)

\* When a is cut off s, the rest and u are b.
Splits(S, s, u, a, b) ==
    /\ SubSeq(s, 1, Len(a)) = a
    /\ SubSeq(s, Len(a) + 1, Len(s)) \in Seq(S)
    /\ SubSeq(s, Len(a) + 1, Len(s)) \o u = b

\* A read of as many bytes as a has gets a, and nothing else is lost.
LEMMA Cut ==
    ASSUME NEW S, NEW s \in Seq(S), NEW u \in Seq(S), NEW a \in Seq(S), NEW b \in Seq(S),
           Begins(s, u, a, b)
    PROVE  Splits(S, s, u, a, b)
<1> DEFINE d == SubSeq(s, Len(a) + 1, Len(s))
<1>1. Len(s) \in Nat /\ Len(a) \in Nat /\ Len(u) \in Nat /\ Len(b) \in Nat /\ Len(s) >= Len(a)
  BY DEF Begins
<1>2. s \o u = a \o b BY DEF Begins
<1>3. /\ d \in Seq(S) /\ Len(d) = Len(s) - Len(a)
      /\ \A i \in 1..Len(d) : d[i] = s[Len(a) + i]
  BY <1>1
<1>4. \A i \in 1..(Len(s) + Len(u)) : (s \o u)[i] = IF i <= Len(s) THEN s[i] ELSE u[i - Len(s)]
  OBVIOUS
<1>5. \A i \in 1..(Len(a) + Len(b)) : (a \o b)[i] = IF i <= Len(a) THEN a[i] ELSE b[i - Len(a)]
  OBVIOUS
<1>6. Len(s) + Len(u) = Len(a) + Len(b)
  <2>1. Len(s \o u) = Len(s) + Len(u) /\ Len(a \o b) = Len(a) + Len(b) OBVIOUS
  <2> QED BY <1>2, <2>1
<1>7. \A i \in 1..Len(a) : s[i] = a[i] BY <1>1, <1>2, <1>4, <1>5, <1>6
<1>8. SubSeq(s, 1, Len(a)) = a
  <2>1. SubSeq(s, 1, Len(a)) \in Seq(S) /\ Len(SubSeq(s, 1, Len(a))) = Len(a)
        /\ \A i \in 1..Len(a) : SubSeq(s, 1, Len(a))[i] = s[i]
    BY <1>1
  <2> QED BY <1>7, <2>1, SameSeq
<1> HIDE DEF d
<1>9. d \o u \in Seq(S) /\ Len(d \o u) = Len(b)
  <2>1. d \o u \in Seq(S) /\ Len(d \o u) = Len(d) + Len(u)
    <3>1. d \in Seq(S) BY <1>3
    <3> QED BY <3>1
  <2> QED BY <1>1, <1>3, <1>6, <2>1
<1>10. ASSUME NEW i \in 1..Len(b) PROVE (d \o u)[i] = b[i]
  <2>1. Len(a) + i \in 1..(Len(s) + Len(u)) /\ Len(a) + i \in 1..(Len(a) + Len(b)) BY <1>1, <1>6
  <2>2. (a \o b)[Len(a) + i] = b[i] BY <1>1, <1>5, <2>1
  <2>3. (d \o u)[i] = IF i <= Len(d) THEN d[i] ELSE u[i - Len(d)]
    BY <1>1, <1>3, <1>6
  <2>4. (s \o u)[Len(a) + i] = IF i <= Len(d) THEN d[i] ELSE u[i - Len(d)]
    <3>1. (s \o u)[Len(a) + i] = IF Len(a) + i <= Len(s) THEN s[Len(a) + i] ELSE u[(Len(a) + i) - Len(s)]
      BY <1>4, <2>1
    <3>2. CASE i <= Len(d)
      <4>1. Len(a) + i <= Len(s) /\ i \in 1..Len(d) BY <1>1, <1>3, <3>2
      <4> QED BY <1>3, <3>1, <3>2, <4>1
    <3>3. CASE ~(i <= Len(d))
      <4>1. ~(Len(a) + i <= Len(s)) /\ (Len(a) + i) - Len(s) = i - Len(d) BY <1>1, <1>3, <3>3
      <4> QED BY <3>1, <3>3, <4>1
    <3> QED BY <3>2, <3>3
  <2> QED BY <1>2, <2>2, <2>3, <2>4
<1>11. d \o u = b BY <1>9, <1>10, SameSeq
<1> QED BY <1>3, <1>8, <1>11 DEF d, Splits

\* What a byte can be: a digit, the table of a header and what comes after it, or
\* a part of a body.
Bytes ==
    0..(Base - 1) \cup {"rest"} \cup {f.fits : f \in Frames}
    \cup {[valid |-> f.valid, type |-> f.id, body_size |-> f.body, is_system |-> f.system] :
             f \in Frames}

\* A frame on the wire.
Wire(f) == Digits(f.header) \o (make_header(f) \o BodyBytes(f))

\* The parts of a frame are as long as it says.
LEMMA PartsType ==
    ASSUME NEW f \in Frames
    PROVE  /\ f.header \in Nat /\ f.body \in Nat
           /\ Digits(f.header) \in Integer /\ Number(Digits(f.header)) = f.header
           /\ Digits(f.header) \in Seq(Bytes) /\ Len(Digits(f.header)) = Width
           /\ make_header(f) \in Seq(Bytes) /\ Len(make_header(f)) = f.header
           /\ BodyBytes(f) \in Seq(Bytes) /\ Len(BodyBytes(f)) = f.body
           /\ Wire(f) \in Seq(Bytes)
<1>1. f.header \in Nat /\ f.body \in Nat BY SessionAssumption
<1>2. Digits(f.header) \in Integer /\ Number(Digits(f.header)) = f.header
  BY <1>1, FramingAssumption, NumberOfDigits
<1>3. Digits(f.header) \in Seq(Bytes) /\ Len(Digits(f.header)) = Width
  <2>1. \A i \in 1..Width : Digits(f.header)[i] \in Bytes BY <1>2 DEF Integer, Bytes
  <2>2. DOMAIN Digits(f.header) = 1..Width /\ Width \in Nat
    BY <1>2, EndianAssumption DEF Integer
  <2>3. Digits(f.header) \in [1..Width -> Bytes] BY <1>2, <2>1, <2>2 DEF Integer
  <2>4. ASSUME NEW n \in Nat, NEW g \in [1..n -> Bytes] PROVE g \in Seq(Bytes) /\ Len(g) = n
    OBVIOUS
  <2> QED BY <2>2, <2>3, <2>4
<1>4. make_header(f) \in Seq(Bytes) /\ Len(make_header(f)) = f.header
  <2>1. \A i \in 1..f.header : make_header(f)[i] \in Bytes BY DEF make_header, Bytes
  <2>2. make_header(f) \in [1..f.header -> Bytes] BY <2>1 DEF make_header
  <2> QED BY <1>1, <2>2
<1>5. BodyBytes(f) \in Seq(Bytes) /\ Len(BodyBytes(f)) = f.body
  <2>1. BodyBytes(f) \in [1..f.body -> Bytes] BY DEF BodyBytes, Bytes
  <2> QED BY <1>1, <2>1
<1>6. Wire(f) \in Seq(Bytes) BY <1>3, <1>4, <1>5 DEF Wire
<1> QED BY <1>1, <1>2, <1>3, <1>4, <1>5, <1>6

\* make_frame_header writes the size least significant byte first.
LEMMA FrameHeader ==
    ASSUME NEW f \in Frames, sender \in Hosts
    PROVE  make_frame_header(f) = Digits(f.header) \o make_header(f)
BY PartsType, WireIsLittle DEF make_frame_header

-----------------------------------------------------------------------------
(* The stream holds the frames that were sent and not yet read.            *)

\* t[i] is what follows the first i of the frames fs.
Follows(t, fs) ==
    /\ t \in [0..Len(fs) -> Seq(Bytes)]
    /\ t[Len(fs)] = <<>>
    /\ \A i \in 0..Len(fs) : i < Len(fs) => t[i] = Wire(fs[i + 1]) \o t[i + 1]

\* What the session has still to read of the frames sent so far.
Unread == stream \o unsent

\* It starts where the outstanding read does: before a frame, a header or a body.
InStep(t) ==
    /\ at \in {"idle", "size"} => Unread = t[taken]
    /\ at = "header" =>
          Unread = make_header(Current) \o (BodyBytes(Current) \o t[taken + 1])
    /\ at = "body" => Unread = BodyBytes(Current) \o t[taken + 1]

\* What read_body is given for the frame f.
Fields(f) == [type |-> f.id, body_size |-> f.body, is_system |-> f.system]

\* The inductive invariant of the bytes, on top of SInv.
WInv ==
    /\ sender \in Hosts /\ receiver \in Hosts
    /\ stream \in Seq(Bytes) /\ unsent \in Seq(Bytes)
    /\ at = "body" => parsed = Fields(Current)
    /\ \E t : Follows(t, sent) /\ InStep(t)

\* Streams are read in any grouping.
LEMMA Assoc ==
    ASSUME NEW a \in Seq(Bytes), NEW b \in Seq(Bytes), NEW c \in Seq(Bytes)
    PROVE  (a \o b) \o c = a \o (b \o c)
<1>1. a \o b \in Seq(Bytes) /\ b \o c \in Seq(Bytes) OBVIOUS
<1>2. (a \o b) \o c \in Seq(Bytes) /\ a \o (b \o c) \in Seq(Bytes) BY <1>1
<1>3. Len((a \o b) \o c) = Len(a \o (b \o c)) BY <1>1
<1>4. \A i \in 1..Len((a \o b) \o c) : ((a \o b) \o c)[i] = (a \o (b \o c))[i] BY <1>1
<1> QED BY <1>2, <1>3, <1>4, SameSeq

\* The same, to be cited of parts that are themselves put together.
Grouping(a, b, c) == (a \o b) \o c = a \o (b \o c)

\* All parts of a stream.
LEMMA Groupings ==
    \A a, b, c : a \in Seq(Bytes) /\ b \in Seq(Bytes) /\ c \in Seq(Bytes) => Grouping(a, b, c)
BY Assoc DEF Grouping

\* Three parts and what follows them, in two groupings.
Regroup(a, b, c, d) == (a \o (b \o c)) \o d = a \o (b \o (c \o d))

\* The groupings are the same stream.
LEMMA AssocTwice ==
    ASSUME NEW a \in Seq(Bytes), NEW b \in Seq(Bytes), NEW c \in Seq(Bytes), NEW d \in Seq(Bytes)
    PROVE  Regroup(a, b, c, d)
<1>1. b \o c \in Seq(Bytes) OBVIOUS
<1>2. Grouping(a, b \o c, d) BY <1>1, Groupings, Zenon
<1>3. Grouping(b, c, d) BY Groupings, Zenon
<1> QED BY <1>2, <1>3, Zenon DEF Grouping, Regroup

\* One more frame follows every one that was there.
LEMMA FollowsAppend ==
    ASSUME NEW fs \in Seq(Frames), NEW f \in Frames, NEW t, Follows(t, fs)
    PROVE  \E u : /\ Follows(u, Append(fs, f))
                  /\ \A i \in 0..Len(fs) : u[i] = t[i] \o Wire(f)
<1> DEFINE n == Len(fs)
           gs == Append(fs, f)
           u == [i \in 0..(n + 1) |-> IF i <= n THEN t[i] \o Wire(f) ELSE <<>>]
<1>1. n \in Nat /\ gs \in Seq(Frames) /\ Len(gs) = n + 1 /\ gs[n + 1] = f
      /\ \A i \in 1..n : gs[i] = fs[i] /\ fs[i] \in Frames
  OBVIOUS
<1>2. Wire(f) \in Seq(Bytes) BY PartsType
<1>3. \A i \in 0..n : t[i] \in Seq(Bytes) /\ t[i] \o Wire(f) \in Seq(Bytes)
  BY <1>2 DEF Follows
<1>4. u \in [0..(n + 1) -> Seq(Bytes)] /\ u[n + 1] = <<>>
      /\ \A i \in 0..n : u[i] = t[i] \o Wire(f)
  BY <1>1, <1>3
<1> HIDE DEF u, gs
<1>5. ASSUME NEW i \in 0..(n + 1), i < n + 1 PROVE u[i] = Wire(gs[i + 1]) \o u[i + 1]
  <2>1. CASE i = n
    <3>1. t[n] = <<>> BY DEF Follows
    <3>2. u[n] = <<>> \o Wire(f)
      <4>1. n \in 0..n BY <1>1
      <4> QED BY <1>4, <3>1, <4>1
    <3>3. <<>> \o Wire(f) = Wire(f) /\ Wire(f) \o <<>> = Wire(f) BY <1>2, ConcatNothing
    <3> QED BY <1>1, <1>4, <2>1, <3>2, <3>3
  <2>2. CASE i # n
    <3>1. i \in 0..n /\ i < n /\ i + 1 \in 0..n /\ i + 1 \in 1..n BY <1>1, <1>5, <2>2
    <3>2. t[i] = Wire(fs[i + 1]) \o t[i + 1] BY <3>1 DEF Follows
    <3>3. Wire(fs[i + 1]) \in Seq(Bytes) BY <1>1, <3>1, PartsType
    <3>4. t[i] \o Wire(f) = Wire(fs[i + 1]) \o (t[i + 1] \o Wire(f))
      <4>1. t[i + 1] \in Seq(Bytes) BY <1>3, <3>1
      <4>2. (Wire(fs[i + 1]) \o t[i + 1]) \o Wire(f) = Wire(fs[i + 1]) \o (t[i + 1] \o Wire(f))
        BY <1>2, <3>3, <4>1, Assoc
      <4> QED BY <3>2, <4>2, Zenon
    <3> QED BY <1>1, <1>4, <3>1, <3>4
  <2> QED BY <2>1, <2>2
<1>6. Follows(u, gs) BY <1>1, <1>4, <1>5 DEF Follows
<1> QED BY <1>4, <1>6 DEF gs

\* The frame f was put behind all that is on its way.
Grown(f) == Unread' = Unread \o Wire(f)

\* A frame that is sent comes after all that is on its way.
LEMMA SendKeeps ==
    ASSUME TypeOK, Place, WInv, NEW f \in Frames, PeerSends(f), Grown(f), stream' \in Seq(Bytes), unsent' \in Seq(Bytes),
           UNCHANGED <<sender, receiver, parsed>>
    PROVE  WInv'
<1>1. UNCHANGED <<taken, at>> /\ sent' = Append(sent, f) /\ sent \in Seq(Frames)
  BY DEF PeerSends, TypeOK
<1>2. Arrived => Current' = Current BY <1>1, SameFrame
<1>3. PICK t : Follows(t, sent) /\ InStep(t) BY DEF WInv
<1>4. PICK u : Follows(u, sent') /\ \A i \in 0..Len(sent) : u[i] = t[i] \o Wire(f)
  <2>1. \E u : /\ Follows(u, Append(sent, f))
               /\ \A i \in 0..Len(sent) : u[i] = t[i] \o Wire(f)
    BY <1>1, <1>3, FollowsAppend, Zenon
  <2> QED BY <1>1, <2>1, Zenon
<1>5. taken \in 0..Len(sent) /\ (Arrived => taken + 1 \in 0..Len(sent)) BY DEF TypeOK, Arrived
<1>6. Wire(f) \in Seq(Bytes) /\ \A i \in 0..Len(sent) : t[i] \in Seq(Bytes)
  BY <1>3, PartsType DEF Follows
<1>7. InStep(u)'
  <2>1. ASSUME at \in {"idle", "size"} PROVE Unread' = u[taken]
    <3>1. Unread = t[taken] BY <1>3, <2>1 DEF InStep
    <3>2. u[taken] = t[taken] \o Wire(f) BY <1>4, <1>5
    <3> QED BY <3>1, <3>2, Zenon DEF Grown
  <2>2. ASSUME at = "header"
        PROVE  Unread' = make_header(Current) \o (BodyBytes(Current) \o u[taken + 1])
    <3>1. Arrived BY <2>2 DEF Place
    <3>2. make_header(Current) \in Seq(Bytes) /\ BodyBytes(Current) \in Seq(Bytes)
      BY <3>1, CurrentType, PartsType
    <3>3. t[taken + 1] \in Seq(Bytes) /\ Wire(f) \in Seq(Bytes) BY <1>5, <1>6, <3>1
    <3>4. Unread = make_header(Current) \o (BodyBytes(Current) \o t[taken + 1])
      BY <1>3, <2>2 DEF InStep
    <3>5. u[taken + 1] = t[taken + 1] \o Wire(f) BY <1>4, <1>5, <3>1
    <3>6. Regroup(make_header(Current), BodyBytes(Current), t[taken + 1], Wire(f))
      BY <3>2, <3>3, AssocTwice
    <3> QED BY <3>4, <3>5, <3>6, Zenon DEF Grown, Regroup
  <2>3. ASSUME at = "body" PROVE Unread' = BodyBytes(Current) \o u[taken + 1]
    <3>1. Arrived BY <2>3 DEF Place
    <3>2. BodyBytes(Current) \in Seq(Bytes) BY <3>1, CurrentType, PartsType
    <3>3. t[taken + 1] \in Seq(Bytes) /\ Wire(f) \in Seq(Bytes) BY <1>5, <1>6, <3>1
    <3>4. Unread = BodyBytes(Current) \o t[taken + 1] BY <1>3, <2>3 DEF InStep
    <3>5. u[taken + 1] = t[taken + 1] \o Wire(f) BY <1>4, <1>5, <3>1
    <3>6. (BodyBytes(Current) \o t[taken + 1]) \o Wire(f)
              = BodyBytes(Current) \o (t[taken + 1] \o Wire(f))
      BY <3>2, <3>3, Assoc, Zenon
    <3> QED BY <3>4, <3>5, <3>6, Zenon DEF Grown
  <2>4. at \in {"header", "body"} => Current' = Current BY <1>2 DEF Place
  <2> HIDE DEF Unread
  <2> QED BY <1>1, <2>1, <2>2, <2>3, <2>4 DEF InStep
<1>8. at' = "body" => parsed' = Fields(Current')
  BY <1>1, <1>2 DEF WInv, Place
<1>9. sender' \in Hosts /\ receiver' \in Hosts BY DEF WInv
<1> QED BY <1>4, <1>7, <1>8, <1>9 DEF WInv

\* Both ways of sending put the frame on the wire.
LEMMA SendsKeep ==
    ASSUME TypeOK, Place, WInv, NEW f \in Frames, async_send_buffer(f) \/ send_buffer(f)
    PROVE  PeerSends(f) /\ WInv'
<1>1. PeerSends(f) /\ unsent = <<>> /\ UNCHANGED <<sender, receiver, parsed>>
  BY DEF async_send_buffer, send_buffer
<1> DEFINE d == Digits(f.header)
           h == make_header(f)
           b == BodyBytes(f)
<1>2. d \in Seq(Bytes) /\ h \in Seq(Bytes) /\ b \in Seq(Bytes) /\ stream \in Seq(Bytes)
  BY PartsType DEF WInv
<1>3. make_frame_header(f) = d \o h /\ Wire(f) = d \o (h \o b)
  BY FrameHeader DEF WInv, Wire
<1>4. \/ stream' = (stream \o (d \o h)) \o b /\ unsent' = <<>>
      \/ stream' = stream \o (d \o h) /\ unsent' = b
  BY <1>1, <1>3 DEF async_send_buffer, send_buffer
<1> HIDE DEF d, h, b
<1>5. /\ d \o h \in Seq(Bytes) /\ h \o b \in Seq(Bytes) /\ d \o (h \o b) \in Seq(Bytes)
      /\ stream \o (d \o h) \in Seq(Bytes) /\ (stream \o (d \o h)) \o b \in Seq(Bytes)
  BY <1>2
<1>6. Regroup(stream, d, h, b) BY <1>2, AssocTwice
<1>7. Unread = stream BY <1>1, <1>2, ConcatNothing DEF Unread
<1>8. Unread' = (stream \o (d \o h)) \o b
  <2>1. CASE stream' = (stream \o (d \o h)) \o b /\ unsent' = <<>>
    BY <1>5, <2>1, ConcatNothing DEF Unread
  <2>2. CASE stream' = stream \o (d \o h) /\ unsent' = b
    BY <2>2 DEF Unread
  <2> QED BY <1>4, <2>1, <2>2
<1>9. Grown(f) BY <1>3, <1>6, <1>7, <1>8, Zenon DEF Grown, Regroup
<1>10. stream' \in Seq(Bytes) /\ unsent' \in Seq(Bytes)
  <2>1. <<>> \in Seq(Bytes) OBVIOUS
  <2> QED BY <1>2, <1>4, <1>5, <2>1, Zenon
<1> QED BY <1>1, <1>9, <1>10, SendKeeps

\* The rest of the body of a synchronous send makes no difference.
LEMMA SendBodyKeeps ==
    ASSUME WInv, SendBody
    PROVE  UNCHANGED vars /\ WInv'
<1>1. /\ UNCHANGED <<vars, sender, receiver, parsed>>
      /\ stream' = stream \o unsent /\ unsent' = <<>>
      /\ stream \in Seq(Bytes) /\ unsent \in Seq(Bytes)
  BY DEF SendBody, WInv
<1>2. stream' \in Seq(Bytes) /\ unsent' \in Seq(Bytes) BY <1>1
<1>3. Unread' = Unread BY <1>1, <1>2, ConcatNothing DEF Unread
<1>4. UNCHANGED <<sent, taken, at, Current>> BY <1>1 DEF vars, Current
<1>5. PICK t : Follows(t, sent) /\ InStep(t) BY DEF WInv
<1>6. InStep(t)' BY <1>3, <1>4, <1>5 DEF InStep
<1> QED BY <1>1, <1>2, <1>4, <1>5, <1>6 DEF WInv

\* Nor does a read that is first issued, or that fails.
LEMMA QuietKeeps ==
    ASSUME WInv, start \/ ReadFails, UNCHANGED wireVars
    PROVE  WInv'
<1>1. UNCHANGED <<sender, receiver, stream, unsent, parsed>> BY DEF wireVars
<1>2. UNCHANGED <<sent, taken>> BY DEF start, ReadFails
<1>3. Unread' = Unread BY <1>1 DEF Unread
<1>4. (at = "idle" /\ at' = "size") \/ at' = "ended"
  BY DEF start, ReadFails, Await, on_error
<1>5. PICK t : Follows(t, sent) /\ InStep(t) BY DEF WInv
<1>6. InStep(t)' BY <1>2, <1>3, <1>4, <1>5 DEF InStep
<1> QED BY <1>1, <1>2, <1>4, <1>5, <1>6 DEF WInv

\* What is unread starts with a.
Starts(a, b) == Unread = a \o b

\* A read into a buffer as long as a gets a, and leaves the rest.
Leaves(a, b) ==
    /\ First(Len(a)) = a
    /\ Drop(Len(a)) \in Seq(Bytes)
    /\ Drop(Len(a)) \o unsent = b

\* A read that completes takes what the stream starts with, and nothing else.
LEMMA Reading ==
    ASSUME stream \in Seq(Bytes), unsent \in Seq(Bytes),
           NEW a \in Seq(Bytes), NEW b \in Seq(Bytes), Starts(a, b), Full(Len(a))
    PROVE  Leaves(a, b)
<1>1. Begins(stream, unsent, a, b) BY DEF Starts, Unread, Full, Begins
<1>2. Splits(Bytes, stream, unsent, a, b) BY <1>1, Cut
<1> QED BY <1>2 DEF Leaves, First, Drop, Splits

\* Between two frames the size of the next one comes first, if there is a next one.
LEMMA NextFrame ==
    ASSUME TypeOK, stream \in Seq(Bytes), unsent \in Seq(Bytes),
           NEW t, Follows(t, sent), Unread = t[taken], Full(Width)
    PROVE  /\ Arrived
           /\ Starts(Digits(Current.header),
                     make_header(Current) \o (BodyBytes(Current) \o t[taken + 1]))
<1>1. taken \in 0..Len(sent) /\ Len(sent) \in Nat BY DEF TypeOK
<1>2. Arrived
  <2>1. SUFFICES ASSUME taken = Len(sent) PROVE FALSE BY <1>1 DEF Arrived
  <2>2. stream \o unsent = <<>> BY <2>1 DEF Follows, Unread
  <2>3. Len(stream) = 0 BY <2>2
  <2>4. Len(stream) >= Width /\ Width = 8
    BY FramingAssumption DEF Full, SizeOfFrameSize
  <2> QED BY <2>3, <2>4
<1> DEFINE d == Digits(Current.header)
           h == make_header(Current)
           b == BodyBytes(Current)
           r == t[taken + 1]
<1>3. d \in Seq(Bytes) /\ h \in Seq(Bytes) /\ b \in Seq(Bytes)
  BY <1>2, CurrentType, PartsType
<1>4. r \in Seq(Bytes)
  <2>1. taken + 1 \in 0..Len(sent) BY <1>1, <1>2 DEF Arrived
  <2>2. t \in [0..Len(sent) -> Seq(Bytes)] BY DEF Follows
  <2> QED BY <2>1, <2>2, Zenon
<1>5. Unread = (d \o (h \o b)) \o r BY <1>1, <1>2 DEF Follows, Arrived, Wire, Current
<1> HIDE DEF d, h, b, r
<1>6. Regroup(d, h, b, r) BY <1>3, <1>4, AssocTwice
<1>7. Starts(d, h \o (b \o r)) BY <1>5, <1>6, Zenon DEF Starts, Regroup
<1> QED BY <1>2, <1>7 DEF d, h, b, r

\* The bytes of a frame size are the size of the next frame's header.
LEMMA ReadHeaderKeeps ==
    ASSUME SInv, WInv, ReadHeader
    PROVE  read_header /\ WInv'
<1>0. /\ TypeOK /\ at = "size" /\ Full(Width) /\ stream' = Drop(Width)
      /\ stream \in Seq(Bytes) /\ unsent \in Seq(Bytes) /\ receiver \in Hosts
      /\ UNCHANGED <<sent, taken, sender, receiver, unsent>>
  BY DEF SInv, WInv, ReadHeader
<1>1. PICK t : Follows(t, sent) /\ InStep(t) BY DEF WInv
<1>2. Unread = t[taken] BY <1>0, <1>1 DEF InStep
<1> DEFINE d == Digits(Current.header)
           rest == make_header(Current) \o (BodyBytes(Current) \o t[taken + 1])
<1>3. Arrived /\ Starts(d, rest) BY <1>0, <1>1, <1>2, NextFrame
<1>4. /\ Current \in Frames /\ d \in Seq(Bytes) /\ Len(d) = Width
      /\ d \in Integer /\ Number(d) = Current.header
  BY <1>0, <1>3, CurrentType, PartsType
<1>5. rest \in Seq(Bytes)
  <2>1. taken + 1 \in 0..Len(sent) BY <1>0, <1>3 DEF Arrived, TypeOK
  <2>2. t[taken + 1] \in Seq(Bytes) BY <1>1, <2>1 DEF Follows
  <2>3. make_header(Current) \in Seq(Bytes) /\ BodyBytes(Current) \in Seq(Bytes)
    BY <1>4, PartsType
  <2> QED BY <2>2, <2>3
<1> HIDE DEF d, rest
<1>6. First(Width) = d /\ Drop(Width) \in Seq(Bytes) /\ Drop(Width) \o unsent = rest
  <2>1. Leaves(d, rest) BY <1>0, <1>3, <1>4, <1>5, Reading
  <2> QED BY <1>4, <2>1 DEF Leaves
<1>7. Number(from_little(Load(First(Width), receiver), receiver)) = Current.header
  <2>1. from_little(Load(d, receiver), receiver) = d BY <1>0, <1>4, ReadBack
  <2> QED BY <1>4, <1>6, <2>1
<1>8. read_header BY <1>3, <1>7 DEF ReadHeader, read_header
<1>9. at' \in {"header", "refused"} BY <1>8 DEF read_header, on_error, Await
<1>10. Current' = Current BY <1>0 DEF Current
<1>11. Unread' = rest BY <1>0, <1>6 DEF Unread
<1>12. InStep(t)' BY <1>0, <1>9, <1>10, <1>11 DEF InStep, rest
<1> QED BY <1>0, <1>1, <1>6, <1>8, <1>9, <1>12 DEF WInv

\* The bytes of a header are the header of that frame.
LEMMA ReadBodyKeeps ==
    ASSUME SInv, WInv, ReadBody
    PROVE  read_body /\ WInv'
<1>0. /\ TypeOK /\ Place /\ at = "header" /\ Full(buffer) /\ stream' = Drop(buffer)
      /\ stream \in Seq(Bytes) /\ unsent \in Seq(Bytes)
      /\ UNCHANGED <<sent, taken, sender, receiver, unsent>>
  BY DEF SInv, WInv, ReadBody
<1>1. Arrived /\ buffer = Current.header BY <1>0 DEF Place
<1>2. PICK t : Follows(t, sent) /\ InStep(t) BY DEF WInv
<1> DEFINE h == make_header(Current)
           rest == BodyBytes(Current) \o t[taken + 1]
<1>3. Starts(h, rest) BY <1>0, <1>2 DEF InStep, Starts
<1>4. Current \in Frames /\ h \in Seq(Bytes) /\ Len(h) = Current.header
  BY <1>0, <1>1, CurrentType, PartsType
<1>5. rest \in Seq(Bytes)
  <2>1. taken + 1 \in 0..Len(sent) BY <1>0, <1>1 DEF Arrived, TypeOK
  <2>2. t[taken + 1] \in Seq(Bytes) BY <1>2, <2>1 DEF Follows
  <2>3. BodyBytes(Current) \in Seq(Bytes) BY <1>4, PartsType
  <2> QED BY <2>2, <2>3
<1>6. /\ parse_header(h).valid <=> Current.valid
      /\ Current.valid => parse_header(h).fields = Fields(Current)
  <2>1. CASE Current.header = 0
    <3>1. ~Current.valid BY <1>4, <2>1, SessionAssumption
    <3>2. h = <<>> BY <1>4, <2>1, NoBytes
    <3> QED BY <3>1, <3>2 DEF parse_header
  <2>2. CASE Current.header # 0
    <3>1. Current.header \in Nat /\ Current.valid \in BOOLEAN BY <1>4, SessionAssumption
    <3>2. h # <<>> BY <1>4, <2>2, <3>1
    <3>3. h[1] = [valid |-> Current.valid, type |-> Current.id, body_size |-> Current.body,
                  is_system |-> Current.system]
      BY <2>2, <3>1 DEF make_header
    <3> HIDE DEF h
    <3> QED BY <3>1, <3>2, <3>3 DEF parse_header, Fields
  <2> QED BY <2>1, <2>2
<1> HIDE DEF h, rest
<1>7. First(buffer) = h /\ Drop(buffer) \in Seq(Bytes) /\ Drop(buffer) \o unsent = rest
  <2>1. Leaves(h, rest) BY <1>0, <1>1, <1>3, <1>4, <1>5, Reading
  <2> QED BY <1>1, <1>4, <2>1 DEF Leaves
<1>8. Current.valid => parse_header(h).fields.body_size = Current.body BY <1>6 DEF Fields
<1>9. read_body BY <1>1, <1>6, <1>7, <1>8 DEF ReadBody, read_body
<1>10. at' \in {"body", "refused"} /\ (at' = "body" => Current.valid)
  BY <1>9 DEF read_body, on_error, Await
<1>11. at' = "body" => parsed' = Fields(Current) BY <1>6, <1>7, <1>10 DEF ReadBody
<1>12. Current' = Current BY <1>0 DEF Current
<1>13. Unread' = rest BY <1>0, <1>7 DEF Unread
<1>14. InStep(t)' BY <1>0, <1>10, <1>12, <1>13 DEF InStep, rest
<1> QED BY <1>0, <1>2, <1>7, <1>9, <1>11, <1>12, <1>14 DEF WInv

\* The bytes of a body are the body of that frame, and the handlers of the router
\* get them with the type of its header.
LEMMA ReadMessageKeeps ==
    ASSUME SInv, WInv, ReadMessage
    PROVE  /\ Dispatch /\ WInv'
           /\ IF Current.system THEN UNCHANGED calls ELSE handle_message(Message(Current))
<1>0. /\ TypeOK /\ Place /\ at = "body" /\ Full(buffer) /\ stream' = Drop(buffer)
      /\ stream \in Seq(Bytes) /\ unsent \in Seq(Bytes) /\ parsed = Fields(Current)
      /\ taken' = taken + 1 /\ UNCHANGED <<sent, sender, receiver, unsent>>
  BY DEF SInv, WInv, ReadMessage
<1>1. Arrived /\ buffer = Current.body BY <1>0 DEF Place
<1>2. PICK t : Follows(t, sent) /\ InStep(t) BY DEF WInv
<1> DEFINE b == BodyBytes(Current)
           rest == t[taken + 1]
<1>3. Starts(b, rest) BY <1>0, <1>2 DEF InStep, Starts
<1>4. Current \in Frames /\ b \in Seq(Bytes) /\ Len(b) = Current.body
  BY <1>0, <1>1, CurrentType, PartsType
<1>5. rest \in Seq(Bytes)
  <2>1. taken + 1 \in 0..Len(sent) BY <1>0, <1>1 DEF Arrived, TypeOK
  <2> QED BY <1>2, <2>1 DEF Follows
<1> HIDE DEF b, rest
<1>6. First(buffer) = b /\ Drop(buffer) \in Seq(Bytes) /\ Drop(buffer) \o unsent = rest
  <2>1. Leaves(b, rest) BY <1>0, <1>1, <1>3, <1>4, <1>5, Reading
  <2> QED BY <1>1, <1>4, <2>1 DEF Leaves
<1> DEFINE m == [id |-> parsed.type, body |-> First(buffer)]
<1>7. /\ m = Message(Current) /\ parsed.type = Current.id /\ parsed.is_system = Current.system
  BY <1>0, <1>6 DEF Fields, Message, b
<1>8. /\ handled' = IF parsed.is_system THEN handled ELSE Append(handled, m)
      /\ pongs' = IF parsed.is_system /\ parsed.type = HbPing THEN pongs + 1 ELSE pongs
      /\ IF parsed.is_system THEN UNCHANGED calls ELSE handle_message(m)
      /\ Await("size", SizeOfFrameSize)
  BY DEF ReadMessage
<1> HIDE DEF m
<1>9. Dispatch BY <1>0, <1>1, <1>7, <1>8 DEF Dispatch
<1>10. IF Current.system THEN UNCHANGED calls ELSE handle_message(Message(Current))
  BY <1>7, <1>8
<1>11. at' = "size" BY <1>8 DEF Await
<1>12. Unread' = rest BY <1>0, <1>6 DEF Unread
<1>13. InStep(t)' BY <1>0, <1>11, <1>12 DEF InStep, rest
<1> QED BY <1>0, <1>2, <1>6, <1>9, <1>10, <1>11, <1>13 DEF WInv

\* The stream is empty before the first send.
LEMMA WInit == FramingInit => WInv
<1> SUFFICES ASSUME FramingInit PROVE WInv OBVIOUS
<1>1. /\ sent = <<>> /\ taken = 0 /\ at = "idle" /\ stream = <<>> /\ unsent = <<>>
      /\ sender \in Hosts /\ receiver \in Hosts
  BY DEF FramingInit, Init
<1> DEFINE t == [i \in 0..0 |-> <<>>]
<1>2. <<>> \in Seq(Bytes) /\ Len(sent) = 0 /\ Unread = <<>> BY <1>1 DEF Unread
<1>3. t \in [0..0 -> Seq(Bytes)] /\ t[0] = <<>> BY <1>2
<1> HIDE DEF t
<1>4. Follows(t, sent) BY <1>2, <1>3 DEF Follows
<1>5. InStep(t) BY <1>1, <1>2, <1>3 DEF InStep
<1> QED BY <1>1, <1>2, <1>4, <1>5 DEF WInv

\* Every step on the bytes is a step of Session or leaves its state alone.
LEMMA WStep ==
    ASSUME SInv, WInv, [FramingNext]_framingVars
    PROVE  [Next]_vars /\ WInv'
<1>0. TypeOK /\ Place BY DEF SInv
<1>1. ASSUME NEW f \in Frames, async_send_buffer(f) \/ send_buffer(f) PROVE Next /\ WInv'
  BY <1>0, <1>1, SendsKeep DEF Next
<1>2. ASSUME SendBody PROVE UNCHANGED vars /\ WInv' BY <1>2, SendBodyKeeps
<1>3. ASSUME (start \/ ReadFails) /\ UNCHANGED wireVars PROVE Next /\ WInv'
  BY <1>3, QuietKeeps DEF Next
<1>4. ASSUME ReadHeader PROVE Next /\ WInv' BY <1>4, ReadHeaderKeeps DEF Next
<1>5. ASSUME ReadBody PROVE Next /\ WInv' BY <1>5, ReadBodyKeeps DEF Next
<1>6. ASSUME ReadMessage PROVE Next /\ WInv' BY <1>6, ReadMessageKeeps DEF Next
<1>7. ASSUME UNCHANGED framingVars PROVE UNCHANGED vars /\ WInv'
  <2>1. UNCHANGED <<vars, sender, receiver, stream, unsent, parsed>>
    BY <1>7 DEF framingVars, wireVars
  <2>2. UNCHANGED <<sent, taken, at, Current, Unread>> BY <2>1 DEF vars, Current, Unread
  <2>3. PICK t : Follows(t, sent) /\ InStep(t) BY DEF WInv
  <2>4. InStep(t)' BY <2>2, <2>3 DEF InStep
  <2> QED BY <2>1, <2>2, <2>3, <2>4 DEF WInv
<1> QED BY <1>1, <1>2, <1>3, <1>4, <1>5, <1>6, <1>7 DEF FramingNext

\* Read from the bytes, between hosts of any byte order and with sends that may be
\* half done, the frames are the ones that were sent: every step of FramingSpec is
\* one of Session, which knows where the frames end, or changes nothing in it.
THEOREM BytesImplementSession == FramingSpec => ImplementsSession
<1>1. FramingInit => Init BY DEF FramingInit
<1>2. FramingInit => SInv BY <1>1, SInit
<1>3. SInv /\ WInv /\ [FramingNext]_framingVars => [Next]_vars /\ SInv' /\ WInv'
  BY WStep, SStep
<1> QED BY <1>1, <1>2, <1>3, WInit, PTL DEF FramingSpec, ImplementsSession, Spec

\* So on the bytes, too, the loop keeps its types, its buffers stay within
\* max_message_size, and it agrees with recv_buffer on every frame.
THEOREM BytesKeepTheSession ==
    FramingSpec => [](TypeOK /\ BufferBounded /\ ReceiversAgree)
<1>1. Spec => [](TypeOK /\ BufferBounded /\ ReceiversAgree)
  BY SessionTypeCorrect, BuffersBounded, TheReceiversAgree, PTL
<1> QED BY <1>1, BytesImplementSession, PTL DEF ImplementsSession

-----------------------------------------------------------------------------
(* From send to handler.                                                   *)

\* The router calls exactly the handler that the frame is for.
LEMMA DispatchIs ==
    ASSUME NEW f \in Frames
    PROVE  /\ \A k : k \in dispatch(Message(f)) <=>
                 k \in DOMAIN Handlers /\ For(f, k) /\ f.body > 0 /\ Handlers[k].type \in f.fits
           /\ \A k \in dispatch(Message(f)) : dispatch(Message(f)) = {k}
<1> DEFINE m == Message(f)
<1>1. m.id = f.id /\ m.body = BodyBytes(f) BY DEF Message
<1>2. \A type : is_valid(type, m.body) <=> f.body > 0 /\ type \in f.fits
  <2>1. f.body \in Nat /\ BodyBytes(f) \in Seq(Bytes) /\ Len(BodyBytes(f)) = f.body
    BY PartsType
  <2>2. BodyBytes(f) # <<>> <=> f.body > 0 BY <2>1, NoBytes
  <2>3. f.body > 0 => BodyBytes(f)[1] = f.fits BY <2>1 DEF BodyBytes
  <2> QED BY <1>1, <2>2, <2>3 DEF is_valid
<1> HIDE DEF m
<1>3. \A k : /\ process(k, m).consumed <=> Handlers[k].id = f.id
             /\ process(k, m).called <=>
                   Handlers[k].id = f.id /\ f.body > 0 /\ Handlers[k].type \in f.fits
  BY <1>1, <1>2 DEF process
<1>4. \A k : k \in dispatch(m) <=>
          k \in DOMAIN Handlers /\ For(f, k) /\ f.body > 0 /\ Handlers[k].type \in f.fits
  BY <1>3 DEF dispatch, For
<1>5. ASSUME NEW k \in dispatch(m), NEW l \in dispatch(m) PROVE k = l
  <2>1. /\ k \in DOMAIN Handlers /\ For(f, k)
        /\ l \in DOMAIN Handlers /\ For(f, l)
    BY <1>4
  <2>2. k \in Nat \ {0} /\ l \in Nat \ {0} BY <2>1, FramingAssumption
  <2>3. ~(k < l) BY <2>1, <2>2 DEF For
  <2>4. ~(l < k) BY <2>1, <2>2 DEF For
  <2> QED BY <2>2, <2>3, <2>4
<1>6. \A k \in dispatch(m) : dispatch(m) = {k} BY <1>5
<1> QED BY <1>4, <1>6 DEF m

\* A user message that the session accepts is what recv<T> of its type returns.
LEMMA RecvIs ==
    ASSUME NEW f \in Frames, Acceptable(f), ~f.system, NEW type, f.body > 0, type \in f.fits
    PROVE  recv(type, f) = {Message(f)}
<1>1. recv_buffer(<<f>>).messages = <<Message(f)>>
  <2>1. recv_buffer(<<f>>) = Round(Fresh, f) BY FirstRound
  <2>2. Round(Fresh, f).messages = Append(<<>>, Message(f)) BY DEF Round, Fresh, Acceptable
  <2>3. \A x : Append(<<>>, x) = <<x>> OBVIOUS
  <2> QED BY <2>1, <2>2, <2>3
<1>2. is_valid(type, Message(f).body)
  <2>1. f.body \in Nat /\ BodyBytes(f) \in Seq(Bytes) /\ Len(BodyBytes(f)) = f.body
    BY PartsType
  <2>2. BodyBytes(f) # <<>> BY <2>1, NoBytes
  <2>3. BodyBytes(f)[1] = f.fits BY <2>1 DEF BodyBytes
  <2> QED BY <2>2, <2>3 DEF is_valid, Message
<1>3. \A x : DOMAIN <<x>> = {1} /\ <<x>>[1] = x OBVIOUS
<1> QED BY <1>1, <1>2, <1>3 DEF recv

\* A call that is right for the frame f.
Right(c, f) ==
    \E k \in DOMAIN Handlers :
        For(f, k) /\ c = <<{k}, Message(f)>> /\ recv(Handlers[k].type, f) = {c[2]}

\* The calls are for the frames with the numbers n.
Delivers(n) ==
    /\ n \in [DOMAIN calls -> 1..taken]
    /\ \A i, j \in DOMAIN calls : i < j => n[i] < n[j]
    /\ \A k \in 1..taken : Deliverable(sent[k]) <=> \E i \in DOMAIN calls : n[i] = k
    /\ \A i \in DOMAIN calls : Right(calls[i], sent[n[i]])

\* The inductive form of EndToEnd.
EInv ==
    /\ calls \in Seq((SUBSET DOMAIN Handlers) \X Messages)
    /\ \E n : Delivers(n)

\* It is what EndToEnd says, with the types of the calls.
LEMMA EInvGivesEndToEnd == EInv => EndToEnd
BY DEF EInv, Delivers, Right, EndToEnd

\* No handler was called before the first frame.
LEMMA EInit == FramingInit => EInv
<1> SUFFICES ASSUME FramingInit PROVE EInv OBVIOUS
<1>1. calls = <<>> /\ taken = 0 BY DEF FramingInit, Init
<1> DEFINE n == [i \in {} |-> 0]
<1>2. DOMAIN calls = {} /\ 1..taken = {} BY <1>1
<1>3. n \in [{} -> {}] OBVIOUS
<1> HIDE DEF n
<1>4. Delivers(n) BY <1>2, <1>3 DEF Delivers
<1> QED BY <1>1, <1>4 DEF EInv

\* As long as no further frame is read to its end, the calls stay those for the
\* frames that were.
LEMMA EQuiet ==
    ASSUME TypeOK, EInv, UNCHANGED <<taken, calls>>,
           UNCHANGED sent \/ \E f \in Frames : sent' = Append(sent, f)
    PROVE  EInv'
<1>1. \A k \in 1..taken : sent'[k] = sent[k]
  <2>1. taken \in 0..Len(sent) /\ sent \in Seq(Frames) BY DEF TypeOK
  <2>2. \A k \in 1..taken : k \in 1..Len(sent) BY <2>1
  <2>3. CASE \E f \in Frames : sent' = Append(sent, f) BY <2>1, <2>2, <2>3
  <2> QED BY <2>3
<1>2. PICK n : Delivers(n) BY DEF EInv
<1>3. Delivers(n)' BY <1>1, <1>2 DEF Delivers
<1> QED BY <1>3 DEF EInv

\* Reading a message calls its handler, or none when it has none.
LEMMA EReads ==
    ASSUME SInv, EInv, Dispatch,
           IF Current.system THEN UNCHANGED calls ELSE handle_message(Message(Current))
    PROVE  EInv'
<1> DEFINE f == Current
           D == dispatch(Message(f))
           Calls == (SUBSET DOMAIN Handlers) \X Messages
<1>0. /\ TypeOK /\ f \in Frames /\ Acceptable(f) /\ taken \in Nat /\ taken' = taken + 1
      /\ sent' = sent /\ f = sent[taken + 1] /\ Message(f) \in Messages
  <2>1. TypeOK /\ Arrived /\ Acceptable(f) BY DEF SInv, Place, Dispatch
  <2>2. f \in Frames /\ Message(f) \in Messages BY <2>1, CurrentType
  <2> QED BY <2>1, <2>2 DEF Dispatch, TypeOK, Current
<1>1. calls \in Seq(Calls) BY DEF EInv
<1>2. PICK n : Delivers(n) BY DEF EInv
<1>3. f.system \in BOOLEAN BY <1>0, SessionAssumption
<1>4. CASE f.system \/ D = {}
  <2>1. calls' = calls BY <1>4 DEF handle_message
  <2>2. ~Deliverable(f) BY <1>0, <1>3, <1>4, DispatchIs DEF Deliverable
  <2> HIDE DEF f, D, Calls
  <2>3. n \in [DOMAIN calls -> 1..taken] BY <1>2 DEF Delivers
  <2>4. n \in [DOMAIN calls -> 1..(taken + 1)] BY <1>0, <2>3
  <2>5. ASSUME NEW k \in 1..(taken + 1)
        PROVE  Deliverable(sent[k]) <=> \E i \in DOMAIN calls : n[i] = k
    <3>1. CASE k \in 1..taken BY <1>2, <3>1 DEF Delivers
    <3>2. CASE k = taken + 1
      <4>1. \A i \in DOMAIN calls : n[i] # taken + 1 BY <1>0, <2>3
      <4> QED BY <1>0, <2>2, <3>2, <4>1
    <3> QED BY <1>0, <3>1, <3>2
  <2>6. Delivers(n)' BY <1>0, <1>2, <2>1, <2>4, <2>5 DEF Delivers
  <2> QED BY <1>1, <2>1, <2>6 DEF EInv, Calls
<1>5. CASE ~f.system /\ D # {}
  <2>1. PICK k : k \in D BY <1>5
  <2>2. D = {k} /\ k \in DOMAIN Handlers /\ For(f, k) /\ f.body > 0 /\ Handlers[k].type \in f.fits
    BY <1>0, <2>1, DispatchIs
  <2>3. Deliverable(f) BY <1>5, <2>2 DEF Deliverable
  <2> DEFINE c == <<D, Message(f)>>
             cs == Append(calls, c)
  <2>4. calls' = cs BY <1>5 DEF handle_message
  <2>5. c \in Calls
    <3>1. D \in SUBSET (DOMAIN Handlers) BY <2>2
    <3>2. Message(f) \in Messages BY <1>0
    <3> HIDE DEF f, D
    <3> QED BY <3>1, <3>2
  <2>6. Right(c, f)
    <3>1. recv(Handlers[k].type, f) = {Message(f)} BY <1>0, <1>5, <2>2, RecvIs
    <3> QED BY <2>2, <3>1 DEF Right
  <2> HIDE DEF f, D, c, Calls
  <2>7. /\ cs \in Seq(Calls) /\ Len(cs) = Len(calls) + 1 /\ Len(calls) \in Nat
        /\ DOMAIN calls = 1..Len(calls) /\ DOMAIN cs = 1..(Len(calls) + 1)
        /\ cs[Len(calls) + 1] = c /\ \A i \in DOMAIN calls : cs[i] = calls[i]
    BY <1>1, <2>5
  <2> HIDE DEF cs
  <2>8. n \in [DOMAIN calls -> 1..taken] BY <1>2 DEF Delivers
  <2>9. PICK p : /\ p \in [DOMAIN cs -> 1..(taken + 1)] /\ p[Len(calls) + 1] = taken + 1
                 /\ \A i \in DOMAIN calls : p[i] = n[i]
    <3> DEFINE q == [i \in DOMAIN cs |-> IF i \in DOMAIN calls THEN n[i] ELSE taken + 1]
    <3>1. /\ q \in [DOMAIN cs -> 1..(taken + 1)] /\ q[Len(calls) + 1] = taken + 1
          /\ \A i \in DOMAIN calls : q[i] = n[i]
      BY <1>0, <2>7, <2>8
    <3> HIDE DEF q
    <3> QED BY <3>1
  <2>10. ASSUME NEW i \in DOMAIN cs, NEW j \in DOMAIN cs, i < j PROVE p[i] < p[j]
    <3>1. i \in DOMAIN calls BY <2>7, <2>10
    <3>2. CASE j \in DOMAIN calls BY <1>2, <2>9, <2>10, <3>1, <3>2 DEF Delivers
    <3>3. CASE j = Len(calls) + 1
      <4>1. n[i] \in 1..taken BY <2>8, <3>1
      <4> QED BY <1>0, <2>9, <3>1, <3>3, <4>1
    <3> QED BY <2>7, <3>2, <3>3
  <2>11. ASSUME NEW q \in 1..(taken + 1)
         PROVE  Deliverable(sent[q]) <=> \E i \in DOMAIN cs : p[i] = q
    <3>1. CASE q \in 1..taken
      <4>1. Deliverable(sent[q]) <=> \E i \in DOMAIN calls : n[i] = q BY <1>2, <3>1 DEF Delivers
      <4>2. (\E i \in DOMAIN cs : p[i] = q) <=> \E i \in DOMAIN calls : n[i] = q
        BY <1>0, <2>7, <2>9, <3>1
      <4> QED BY <4>1, <4>2
    <3>2. CASE q = taken + 1
      <4>1. Deliverable(sent[q]) BY <1>0, <2>3, <3>2
      <4>2. p[Len(calls) + 1] = q /\ Len(calls) + 1 \in DOMAIN cs BY <2>7, <2>9, <3>2
      <4> QED BY <4>1, <4>2
    <3> QED BY <1>0, <3>1, <3>2
  <2>12. ASSUME NEW i \in DOMAIN cs PROVE Right(cs[i], sent[p[i]])
    <3>1. CASE i \in DOMAIN calls BY <1>2, <2>7, <2>9, <3>1 DEF Delivers
    <3>2. CASE i = Len(calls) + 1 BY <1>0, <2>6, <2>7, <2>9, <3>2
    <3> QED BY <2>7, <3>1, <3>2
  <2>13. Delivers(p)'
    <3>1. p \in [DOMAIN calls' -> 1..taken'] BY <1>0, <2>4, <2>9
    <3>2. \A i, j \in DOMAIN calls' : i < j => p[i] < p[j] BY <2>4, <2>10
    <3>3. \A q \in 1..taken' :
              Deliverable(sent'[q]) <=> \E i \in DOMAIN calls' : p[i] = q
      BY <1>0, <2>4, <2>11
    <3>4. \A i \in DOMAIN calls' : Right(calls'[i], sent'[p[i]]) BY <1>0, <2>4, <2>12
    <3> QED BY <3>1, <3>2, <3>3, <3>4 DEF Delivers
  <2> QED BY <2>4, <2>7, <2>13 DEF EInv, Calls
<1> QED BY <1>3, <1>4, <1>5

\* Every step on the bytes keeps the calls right.
LEMMA EStep ==
    ASSUME SInv, WInv, EInv, [FramingNext]_framingVars
    PROVE  EInv'
<1>0. TypeOK BY DEF SInv
<1>1. ASSUME NEW f \in Frames, async_send_buffer(f) \/ send_buffer(f) PROVE EInv'
  <2>1. UNCHANGED <<taken, calls>> /\ sent' = Append(sent, f)
    BY <1>1 DEF async_send_buffer, send_buffer, PeerSends
  <2> QED BY <1>0, <2>1, EQuiet
<1>2. ASSUME SendBody \/ ((start \/ ReadFails) /\ UNCHANGED wireVars) \/ UNCHANGED framingVars
             \/ ReadHeader \/ ReadBody
      PROVE  EInv'
  <2>1. UNCHANGED <<taken, calls, sent>>
    BY <1>2 DEF SendBody, start, ReadFails, wireVars, framingVars, vars, ReadHeader, ReadBody
  <2> QED BY <1>0, <2>1, EQuiet
<1>3. ASSUME ReadMessage PROVE EInv' BY <1>3, ReadMessageKeeps, EReads
<1> QED BY <1>1, <1>2, <1>3 DEF FramingNext

\* Of the frames that were read, every user message with a body of its handler's
\* type went to that handler, once and in the order sent, nothing else did, and
\* recv<T> would have returned the same message.
THEOREM EndToEndHolds == FramingSpec => []EndToEnd
<1>1. FramingInit => SInv BY SInit DEF FramingInit
<1>2. SInv /\ WInv /\ EInv /\ [FramingNext]_framingVars => SInv' /\ WInv' /\ EInv'
  BY WStep, SStep, EStep
<1> QED BY <1>1, <1>2, WInit, EInit, EInvGivesEndToEnd, PTL DEF FramingSpec
=============================================================================
