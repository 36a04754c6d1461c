--------------------------- MODULE WriteQueueProofs ---------------------------
(***************************************************************************)
(* Proofs about WriteQueue, for any number of writes and threads, any cap  *)
(* and any number of pieces per frame.                                     *)
(***************************************************************************)
EXTENDS WriteQueue, SequenceTheorems, TLAPS

\* Removing the operation at i from a sequence of operations leaves one.
LEMMA RemoveType ==
    ASSUME NEW S, NEW s \in Seq(S), NEW i \in DOMAIN s
    PROVE  SubSeq(s, 1, i - 1) \o SubSeq(s, i + 1, Len(s)) \in Seq(S)
<1> DEFINE a == SubSeq(s, 1, i - 1)
           b == SubSeq(s, i + 1, Len(s))
<1>1. /\ Len(s) \in Nat
      /\ DOMAIN s = 1..Len(s)
      /\ i \in 1..Len(s)
  BY LenProperties
<1>2. \A k \in 1..(i - 1) : s[k] \in S
  BY <1>1, ElementOfSeq
<1>3. \A k \in (i + 1)..Len(s) : s[k] \in S
  BY <1>1, ElementOfSeq
<1>4. a \in Seq(S)
  BY <1>1, <1>2, SubSeqProperties
<1>5. b \in Seq(S)
  BY <1>1, <1>3, SubSeqProperties
<1> HIDE DEF a, b
<1>6. a \o b \in Seq(S)
  BY <1>4, <1>5, ConcatProperties
<1> QED
  BY <1>6 DEF a, b

\* Removing the only element leaves the empty sequence.
LEMMA RemoveOnly ==
    ASSUME NEW S, NEW s \in Seq(S), Len(s) = 1, NEW i \in DOMAIN s
    PROVE  SubSeq(s, 1, i - 1) \o SubSeq(s, i + 1, Len(s)) = <<>>
<1>1. i = 1
  BY LenProperties
<1>2. SubSeq(s, 1, 0) = <<>> /\ SubSeq(s, 2, 1) = <<>>
  BY SubSeqEmpty
<1>3. <<>> \o <<>> = <<>>
  BY EmptySeq, ConcatEmptySeq
<1> QED
  BY <1>1, <1>2, <1>3

\* A handler that runs bumps its call's counter and no other.
LEMMA BumpType ==
    ASSUME NEW S, NEW f \in [S -> Nat], NEW x \in S
    PROVE  [f EXCEPT ![x] = @ + 1] \in [S -> Nat]
<1>1. f[x] \in Nat
  OBVIOUS
<1>2. f[x] + 1 \in Nat
  BY <1>1
<1> QED
  BY <1>2

-----------------------------------------------------------------------------

\* A thread that holds a write holds one of Writes.
LEMMA CurType ==
    ASSUME TypeOK, NEW t \in Threads,
           at[t] \in {"rejecting", "starting", "reporting"}
    PROVE  cur[t] \in Writes
<1>1. cur[t] # NoWrite
  BY DEF TypeOK
<1>2. cur[t] \in Writes \cup {NoWrite}
  BY DEF TypeOK
<1> QED
  BY <1>1, <1>2

\* An empty queue is well typed.
LEMMA TypeOKInit == Init => TypeOK
<1> SUFFICES ASSUME Init
             PROVE  TypeOK
  OBVIOUS
<1>1. /\ queue \in Seq(Writes)
      /\ inflight \in Seq(Operation)
      /\ wire \in Seq(Writes \X (1..Chunks))
  BY EmptySeq DEF Init
<1>2. /\ at \in [Threads -> Positions]
      /\ cur \in [Threads -> Writes \cup {NoWrite}]
      /\ \A t \in Threads : cur[t] = NoWrite <=> at[t] \in {"free", "write_next"}
      /\ status \in [Writes -> Statuses]
      /\ fired \in [Writes -> Nat]
  BY DEF Init, Positions, Statuses
<1>3. more \in [Threads -> BOOLEAN] /\ closed \in BOOLEAN
  BY DEF Init
<1> QED
  BY <1>1, <1>2, <1>3 DEF TypeOK

\* Every step keeps the types.
LEMMA TypeOKStep == TypeOK /\ [Next]_vars => TypeOK'
<1> SUFFICES ASSUME TypeOK, [Next]_vars
             PROVE  TypeOK'
  OBVIOUS
<1> USE WriteQueueAssumption DEF TypeOK
<1>1. ASSUME NEW t \in Threads, NEW w \in Writes, Enqueue(t, w)
      PROVE  TypeOK'
  BY <1>1, AppendProperties DEF Enqueue, Positions, Statuses
<1>2. ASSUME NEW t \in Threads, NEW w \in Writes, Reject(t, w)
      PROVE  TypeOK'
  BY <1>2 DEF Reject, Positions, Statuses
<1>3. ASSUME NEW t \in Threads, RunRejectedHandler(t)
      PROVE  TypeOK'
  <2>1. fired' \in [Writes -> Nat]
    BY <1>3, CurType, BumpType DEF RunRejectedHandler
  <2> QED
    BY <2>1, <1>3 DEF RunRejectedHandler, Positions
<1>4. ASSUME NEW t \in Threads, WriteNext(t)
      PROVE  TypeOK'
  <2>1. Head(queue) \in Writes
    BY <1>4, HeadTailProperties DEF WriteNext
  <2> QED
    BY <2>1, <1>4 DEF WriteNext, Positions
<1>5. ASSUME NEW t \in Threads, StartWrite(t)
      PROVE  TypeOK'
  <2>1. cur[t] \in Writes
    BY <1>5, CurType DEF StartWrite
  <2> QED
    BY <2>1, <1>5, AppendProperties DEF StartWrite, Positions, Operation
<1>6. ASSUME NEW i \in DOMAIN inflight, Transfer(i)
      PROVE  TypeOK'
  <2> DEFINE op == inflight[i]
  <2>1. op \in Operation /\ i \in 1..Len(inflight)
    BY LenProperties, ElementOfSeq
  <2>2. [op EXCEPT !.sent = op.sent + 1] \in Operation
    <3>1. op.sent \in 0..Chunks /\ op.sent < Chunks
      BY <2>1, <1>6 DEF Transfer, Operation
    <3>2. op.sent + 1 \in 0..Chunks
      BY <3>1
    <3> QED
      BY <2>1, <3>2 DEF Operation
  <2>3. inflight' = [inflight EXCEPT ![i] = [op EXCEPT !.sent = op.sent + 1]]
    BY <1>6 DEF Transfer
  <2>4. inflight' \in Seq(Operation)
    BY <2>1, <2>2, <2>3, ExceptSeq
  <2>5. <<op.w, op.sent + 1>> \in Writes \X (1..Chunks)
    BY <2>1, <1>6, SMTT(40) DEF Transfer, Operation
  <2>6. wire' \in Seq(Writes \X (1..Chunks))
    BY <2>5, <1>6, AppendProperties DEF Transfer
  <2> QED
    BY <2>4, <2>6, <1>6 DEF Transfer
<1>7. ASSUME NEW t \in Threads, NEW i \in DOMAIN inflight, Complete(t, i)
      PROVE  TypeOK'
  <2>1. Head(queue) \in Writes /\ Tail(queue) \in Seq(Writes)
    BY <1>7, HeadTailProperties DEF Complete
  <2>2. inflight' \in Seq(Operation)
    BY <1>7, RemoveType DEF Complete
  <2> QED
    BY <2>1, <2>2, <1>7 DEF Complete, Positions, Statuses
<1>8. ASSUME NEW t \in Threads, RunHandler(t)
      PROVE  TypeOK'
  <2>1. fired' \in [Writes -> Nat]
    BY <1>8, CurType, BumpType DEF RunHandler
  <2> QED
    BY <2>1, <1>8 DEF RunHandler, Positions
<1>9. CASE Close
  BY <1>9 DEF Close
<1>10. CASE UNCHANGED vars
  BY <1>10 DEF vars
<1> QED
  BY <1>1, <1>2, <1>3, <1>4, <1>5, <1>6, <1>7, <1>8, <1>9, <1>10
     DEF Next, ThreadStep

-----------------------------------------------------------------------------

\* What push_back does to the front of the queue.
LEMMA AppendFront ==
    ASSUME NEW S, NEW s \in Seq(S), NEW x \in S
    PROVE  /\ Append(s, x) # <<>>
           /\ s # <<>> => Head(Append(s, x)) = Head(s)
           /\ s = <<>> => Head(Append(s, x)) = x
<1>1. Append(s, x) \in Seq(S) /\ Append(s, x) # <<>>
  BY AppendProperties
<1>2. Head(Append(s, x)) = Append(s, x)[1]
  BY <1>1
<1>3. s # <<>> => Append(s, x)[1] = s[1] /\ Head(s) = s[1]
  BY AppendProperties, EmptySeq
<1>4. s = <<>> => Append(s, x)[1] = x
  BY AppendProperties, EmptySeq
<1> QED
  BY <1>1, <1>2, <1>3, <1>4

\* An empty queue has no driver.
LEMMA OneDriverInit == Init => OneDriver
BY DEF Init, OneDriver, Drives

\* Every step keeps the one driver: the caller that found the queue empty, the
\* operation in flight, or the completion that saw more.
LEMMA OneDriverStep == TypeOK /\ OneDriver /\ [Next]_vars => OneDriver'
<1> SUFFICES ASSUME TypeOK, OneDriver, [Next]_vars
             PROVE  OneDriver'
  OBVIOUS
<1> USE DEF OneDriver, Drives
<1>0. /\ queue \in Seq(Writes)
      /\ at \in [Threads -> Positions]
      /\ cur \in [Threads -> Writes \cup {NoWrite}]
      /\ more \in [Threads -> BOOLEAN]
      /\ inflight \in Seq(Operation)
  BY DEF TypeOK
<1>1. ASSUME NEW t \in Threads, NEW w \in Writes, Enqueue(t, w)
      PROVE  OneDriver'
  <2>1. /\ queue' # <<>>
        /\ queue # <<>> => Head(queue') = Head(queue)
    BY <1>0, <1>1, AppendFront DEF Enqueue
  <2>2. CASE queue = <<>>
    BY <1>0, <1>1, <2>1, <2>2 DEF Enqueue
  <2>3. CASE queue # <<>>
    BY <1>0, <1>1, <2>1, <2>3 DEF Enqueue
  <2> QED
    BY <2>2, <2>3
<1>2. ASSUME NEW t \in Threads, NEW w \in Writes, Reject(t, w)
      PROVE  OneDriver'
  BY <1>0, <1>2 DEF Reject
<1>3. ASSUME NEW t \in Threads, RunRejectedHandler(t)
      PROVE  OneDriver'
  BY <1>0, <1>3 DEF RunRejectedHandler
<1>4. ASSUME NEW t \in Threads, WriteNext(t)
      PROVE  OneDriver'
  BY <1>0, <1>4 DEF WriteNext
<1>5. ASSUME NEW t \in Threads, StartWrite(t)
      PROVE  OneDriver'
  <2>1. inflight = <<>> /\ cur[t] = Head(queue) /\ queue # <<>>
    BY <1>0, <1>5 DEF StartWrite
  <2>2. inflight' = <<[w |-> cur[t], sent |-> 0]>>
    BY <1>5, <2>1 DEF StartWrite
  <2>3. /\ inflight' # <<>>
        /\ Len(inflight') = 1
        /\ inflight'[1].w = Head(queue')
    BY <1>5, <2>1, <2>2 DEF StartWrite
  <2> QED
    BY <1>0, <1>5, <2>1, <2>3 DEF StartWrite
<1>6. ASSUME NEW i \in DOMAIN inflight, Transfer(i)
      PROVE  OneDriver'
  <2>1. /\ Len(inflight') = Len(inflight)
        /\ inflight' # <<>> /\ inflight # <<>>
        /\ inflight'[1].w = inflight[1].w
    BY <1>0, <1>6 DEF Transfer, Operation
  <2> QED
    BY <1>0, <1>6, <2>1 DEF Transfer
<1>7. ASSUME NEW t \in Threads, NEW i \in DOMAIN inflight, Complete(t, i)
      PROVE  OneDriver'
  <2>1. inflight # <<>> /\ Len(inflight) = 1
    BY <1>0
  <2>2. inflight' = <<>>
    BY <1>0, <1>7, <2>1, RemoveOnly DEF Complete
  <2>3. \A u \in Threads : Drives(u)' <=> u = t /\ queue' # <<>>
    BY <1>0, <1>7, <2>1 DEF Complete
  <2>4. at'[t] = "reporting" /\ \A u \in Threads : at'[u] # "starting"
    BY <1>0, <1>7, <2>1 DEF Complete
  <2> QED
    BY <2>2, <2>3, <2>4
<1>8. ASSUME NEW t \in Threads, RunHandler(t)
      PROVE  OneDriver'
  BY <1>0, <1>8 DEF RunHandler
<1>9. CASE Close
  BY <1>9 DEF Close
<1>10. CASE UNCHANGED vars
  BY <1>10 DEF vars
<1> QED
  BY <1>1, <1>2, <1>3, <1>4, <1>5, <1>6, <1>7, <1>8, <1>9, <1>10
     DEF Next, ThreadStep

-----------------------------------------------------------------------------

\* No step takes the queue past its cap.
LEMMA CapStep == TypeOK /\ CapRespected /\ [Next]_vars => CapRespected'
<1> SUFFICES ASSUME TypeOK, CapRespected, [Next]_vars
             PROVE  CapRespected'
  OBVIOUS
<1> USE WriteQueueAssumption DEF CapRespected
<1>0. queue \in Seq(Writes)
  BY DEF TypeOK
<1>1. ASSUME NEW t \in Threads, NEW w \in Writes, Enqueue(t, w)
      PROVE  CapRespected'
  <2>1. Len(queue') = Len(queue) + 1 /\ Len(queue) \in Nat
    BY <1>0, <1>1, AppendProperties, LenProperties DEF Enqueue
  <2> QED
    BY <1>1, <2>1 DEF Enqueue, QueueFull
<1>2. ASSUME NEW t \in Threads, NEW i \in DOMAIN inflight, Complete(t, i)
      PROVE  CapRespected'
  <2>1. Len(queue') = Len(queue) - 1 /\ Len(queue) \in Nat
    BY <1>0, <1>2, HeadTailProperties, LenProperties DEF Complete
  <2> QED
    BY <2>1
<1>3. CASE UNCHANGED queue
  BY <1>3
<1> QED
  BY <1>1, <1>2, <1>3
     DEF Next, ThreadStep, vars, Reject, RunRejectedHandler, WriteNext,
         StartWrite, Transfer, RunHandler, Close

-----------------------------------------------------------------------------

\* Every step keeps a write in the queue, and its handler uncalled, until its
\* completion.
LEMMA HandlersStep ==
    TypeOK /\ OneDriver /\ HandlersInv /\ [Next]_vars => HandlersInv'
<1> SUFFICES ASSUME TypeOK, OneDriver, HandlersInv, [Next]_vars
             PROVE  HandlersInv'
  OBVIOUS
<1> USE DEF HandlersInv
<1>0. /\ queue \in Seq(Writes)
      /\ at \in [Threads -> Positions]
      /\ cur \in [Threads -> Writes \cup {NoWrite}]
      /\ status \in [Writes -> Statuses]
      /\ fired \in [Writes -> Nat]
      /\ Len(queue) \in Nat
      /\ DOMAIN queue = 1..Len(queue)
      /\ \A i \in DOMAIN queue : queue[i] \in Writes
  BY LenProperties, ElementOfSeq DEF TypeOK
<1>1. ASSUME NEW t \in Threads, NEW w \in Writes, Enqueue(t, w)
      PROVE  HandlersInv'
  <2>1. /\ DOMAIN queue' = 1..(Len(queue) + 1)
        /\ \A i \in DOMAIN queue : queue'[i] = queue[i]
        /\ queue'[Len(queue) + 1] = w
    BY <1>0, <1>1, AppendProperties, LenProperties DEF Enqueue
  <2>2. \A i \in DOMAIN queue : queue[i] # w
    BY <1>1 DEF Enqueue
  <2>3. /\ \A i \in DOMAIN queue' : status'[queue'[i]] = "queued"
        /\ \A i, j \in DOMAIN queue' : queue'[i] = queue'[j] => i = j
    BY <1>0, <1>1, <2>1, <2>2 DEF Enqueue
  <2>4. \A u \in Threads : at'[u] \in {"rejecting", "reporting"} =>
            at[u] = at'[u] /\ cur[u] # w
    BY <1>0, <1>1 DEF Enqueue
  <2>5. \A u \in Threads : at'[u] \in {"rejecting", "reporting"} =>
            status'[cur'[u]] \notin {"new", "queued"} /\ fired'[cur'[u]] = 0
    BY <1>0, <1>1, <2>4 DEF Enqueue
  <2>6. \A v \in Writes : status'[v] \in {"new", "queued"} => fired'[v] = 0
    BY <1>0, <1>1 DEF Enqueue
  <2> QED
    BY <1>1, <2>3, <2>4, <2>5, <2>6 DEF Enqueue
<1>2. ASSUME NEW t \in Threads, NEW w \in Writes, Reject(t, w)
      PROVE  HandlersInv'
  <2>1. \A i \in DOMAIN queue : queue[i] # w
    BY <1>2 DEF Reject
  <2>2. \A u \in Threads : at[u] \in {"rejecting", "reporting"} => cur[u] # w
    BY <1>2 DEF Reject
  <2> QED
    BY <1>0, <1>2, <2>1, <2>2 DEF Reject
<1>3. ASSUME NEW t \in Threads, RunRejectedHandler(t)
      PROVE  HandlersInv'
  <2>1. cur[t] \in Writes /\ fired[cur[t]] = 0
    BY <1>3, CurType DEF RunRejectedHandler
  <2>2. fired' = [fired EXCEPT ![cur[t]] = 1]
    BY <1>3, <2>1 DEF RunRejectedHandler
  <2> QED
    BY <1>0, <1>3, <2>1, <2>2 DEF RunRejectedHandler
<1>4. ASSUME NEW t \in Threads, WriteNext(t)
      PROVE  HandlersInv'
  BY <1>0, <1>4 DEF WriteNext
<1>5. ASSUME NEW t \in Threads, StartWrite(t)
      PROVE  HandlersInv'
  BY <1>0, <1>5 DEF StartWrite
<1>6. ASSUME NEW t \in Threads, NEW i \in DOMAIN inflight, Complete(t, i)
      PROVE  HandlersInv'
  <2> DEFINE h == Head(queue)
  <2>1. /\ h = queue[1] /\ 1 \in DOMAIN queue
        /\ h \in Writes /\ status[h] = "queued" /\ fired[h] = 0
    <3>1. queue \in Seq(Writes) /\ queue # <<>>
      BY <1>0, <1>6 DEF Complete
    <3>2. h = queue[1] /\ 1 \in DOMAIN queue /\ h \in Writes
      BY <3>1
    <3>3. status[h] = "queued"
      BY <1>0, <3>2
    <3>4. fired[h] = 0
      BY <1>0, <3>2, <3>3
    <3> QED
      BY <3>2, <3>3, <3>4
  <2>2. /\ DOMAIN queue' = 1..(Len(queue) - 1)
        /\ \A j \in DOMAIN queue' : queue'[j] = queue[j + 1] /\ j + 1 \in DOMAIN queue
    <3>1. queue' = Tail(queue) /\ queue # <<>>
      BY <1>6 DEF Complete
    <3>2. /\ queue' \in Seq(Writes) /\ Len(queue') = Len(queue) - 1
          /\ \A j \in 1..Len(queue') : queue'[j] = queue[j + 1]
      BY <1>0, <3>1, HeadTailProperties
    <3>3. DOMAIN queue' = 1..Len(queue')
      BY <3>2, LenProperties
    <3> QED
      BY <1>0, <3>2, <3>3
  <2>3. \A j \in DOMAIN queue' : queue'[j] # h
    BY <1>0, <2>1, <2>2
  <2>4. \A v \in Writes : v # h => status'[v] = status[v]
    BY <1>0, <1>6 DEF Complete
  <2>5. status'[h] \in {"ok", "failed"}
    BY <1>0, <1>6, <2>1 DEF Complete
  <2>6. /\ \A j \in DOMAIN queue' : status'[queue'[j]] = "queued"
        /\ \A j, k \in DOMAIN queue' : queue'[j] = queue'[k] => j = k
    BY <1>0, <2>2, <2>3, <2>4
  <2>7. \A u \in Threads : u # t /\ at[u] \in {"rejecting", "reporting"} =>
            cur[u] # h
    BY <2>1
  <2>8. /\ at' = [at EXCEPT ![t] = "reporting"]
        /\ cur' = [cur EXCEPT ![t] = h]
        /\ fired' = fired
    BY <1>6 DEF Complete
  <2> HIDE DEF h
  <2>9. \A u \in Threads : at'[u] \in {"rejecting", "reporting"} =>
            status'[cur'[u]] \notin {"new", "queued"} /\ fired'[cur'[u]] = 0
    <3> TAKE u \in Threads
    <3>1. CASE u = t
      BY <1>0, <2>1, <2>5, <2>8, <3>1
    <3>2. CASE u # t /\ at[u] \in {"rejecting", "reporting"}
      BY <1>0, <2>4, <2>7, <2>8, <3>2, CurType
    <3> QED
      BY <1>0, <2>8, <3>1, <3>2
  <2>10. \A v \in Writes : status'[v] \in {"new", "queued"} => fired'[v] = 0
    BY <2>4, <2>5, <2>8
  <2>11. \A u, v \in Threads :
            {at'[u], at'[v]} \subseteq {"rejecting", "reporting"} /\ cur'[u] = cur'[v]
                => u = v
    BY <1>0, <2>7, <2>8
  <2> QED
    BY <2>6, <2>8, <2>9, <2>10, <2>11
<1>7. ASSUME NEW t \in Threads, RunHandler(t)
      PROVE  HandlersInv'
  <2>1. cur[t] \in Writes /\ fired[cur[t]] = 0
    BY <1>7, CurType DEF RunHandler
  <2>2. fired' = [fired EXCEPT ![cur[t]] = 1]
    BY <1>7, <2>1 DEF RunHandler
  <2>3. at'[t] \notin {"rejecting", "reporting"}
    BY <1>0, <1>7 DEF RunHandler
  <2>4. /\ UNCHANGED <<queue, status>>
        /\ \A u \in Threads : u # t => at'[u] = at[u] /\ cur'[u] = cur[u]
    BY <1>0, <1>7 DEF RunHandler
  <2>5. \A u \in Threads : u # t /\ at[u] \in {"rejecting", "reporting"} =>
            cur[u] # cur[t]
    BY <1>7 DEF RunHandler
  <2>6. \A u \in Threads : at'[u] \in {"rejecting", "reporting"} =>
            fired'[cur'[u]] = 0 /\ status'[cur'[u]] \notin {"new", "queued"}
    BY <1>0, <2>2, <2>3, <2>4, <2>5, CurType
  <2>7. \A v \in Writes :
            /\ fired'[v] <= 1
            /\ status'[v] \in {"new", "queued"} => fired'[v] = 0
    BY <1>0, <1>7, <2>1, <2>2, <2>4 DEF RunHandler
  <2> QED
    BY <2>3, <2>4, <2>6, <2>7
<1>8. CASE UNCHANGED <<queue, at, cur, status, fired>>
  BY <1>8
<1> QED
  BY <1>1, <1>2, <1>3, <1>4, <1>5, <1>6, <1>7, <1>8
     DEF Next, ThreadStep, vars, Transfer, Close

-----------------------------------------------------------------------------

\* The last element after push_back.
LEMMA AppendLast ==
    ASSUME NEW S, NEW s \in Seq(S), NEW x \in S
    PROVE  /\ Append(s, x) \in Seq(S)
           /\ DOMAIN s = 1..Len(s) /\ Len(s) \in Nat
           /\ DOMAIN Append(s, x) = 1..(Len(s) + 1)
           /\ Append(s, x) # <<>>
           /\ Len(Append(s, x)) = Len(s) + 1
           /\ \A i \in DOMAIN s : Append(s, x)[i] = s[i]
           /\ Append(s, x)[Len(s) + 1] = x
BY AppendProperties, LenProperties

\* What one Transfer does: the only operation grows by one piece, and that
\* piece becomes the end of the wire.
LEMMA TransferEffect ==
    ASSUME TypeOK, OneDriver, NEW i \in DOMAIN inflight, Transfer(i)
    PROVE  /\ i = 1 /\ inflight # <<>> /\ inflight' # <<>>
           /\ inflight[1] \in Operation /\ inflight[1].sent < Chunks
           /\ inflight'[1].w = inflight[1].w
           /\ inflight'[1].sent = inflight[1].sent + 1
           /\ <<inflight[1].w, inflight[1].sent + 1>> \in Writes \X (1..Chunks)
           /\ wire' = Append(wire, <<inflight[1].w, inflight[1].sent + 1>>)
<1> USE WriteQueueAssumption
<1>0. inflight \in Seq(Operation)
  BY DEF TypeOK
<1>1. i = 1 /\ inflight # <<>> /\ Len(inflight) = 1
  BY <1>0, LenProperties DEF OneDriver
<1>2. inflight[1] \in Operation
  BY <1>0, <1>1, ElementOfSeq
<1>3. /\ inflight' # <<>>
      /\ inflight'[1].w = inflight[1].w
      /\ inflight'[1].sent = inflight[1].sent + 1
  BY <1>0, <1>1, <1>2 DEF Transfer, Operation
<1>4. <<inflight[1].w, inflight[1].sent + 1>> \in Writes \X (1..Chunks)
  BY <1>1, <1>2 DEF Transfer, Operation
<1> QED
  BY <1>1, <1>2, <1>3, <1>4 DEF Transfer

\* Every step keeps the tail of the wire and the operation in flight in line.
LEMMA WireStep ==
    TypeOK /\ OneDriver /\ WireInv /\ [Next]_vars => WireInv'
<1> SUFFICES ASSUME TypeOK, OneDriver, WireInv, [Next]_vars
             PROVE  WireInv'
  OBVIOUS
<1>0. /\ wire \in Seq(Writes \X (1..Chunks))
      /\ inflight \in Seq(Operation)
  BY DEF TypeOK
<1>1. ASSUME NEW t \in Threads, StartWrite(t)
      PROVE  WireInv'
  <2>1. inflight = <<>>
    BY <1>1 DEF StartWrite, OneDriver, Drives
  <2>2. inflight' = <<[w |-> cur[t], sent |-> 0]>>
    BY <1>1, <2>1 DEF StartWrite
  <2>3. inflight'[1].sent = 0
    BY <2>2
  <2> QED
    BY <2>3 DEF WireInv
<1>2. ASSUME NEW i \in DOMAIN inflight, Transfer(i)
      PROVE  WireInv'
  <2> DEFINE v == inflight[1].w
             n == inflight[1].sent
  <2>1. /\ inflight'[1].w = v /\ inflight'[1].sent = n + 1 /\ inflight # <<>>
        /\ wire' = Append(wire, <<v, n + 1>>)
        /\ <<v, n + 1>> \in Writes \X (1..Chunks)
        /\ n \in Nat
    BY <1>2, TransferEffect, WriteQueueAssumption DEF Operation
  <2>2. /\ wire' # <<>> /\ Len(wire) \in Nat /\ Len(wire') = Len(wire) + 1
        /\ DOMAIN wire' = 1..(Len(wire) + 1) /\ DOMAIN wire = 1..Len(wire)
        /\ wire'[Len(wire) + 1] = <<v, n + 1>>
        /\ \A j \in DOMAIN wire : wire'[j] = wire[j]
    BY <1>0, <2>1, AppendLast, SMTT(40)
  <2>3. \A k \in 1..n : \E j \in DOMAIN wire : wire[j] = <<v, k>>
    BY <2>1 DEF WireInv
  <2> HIDE DEF v, n
  <2>4. \A k \in 1..(n + 1) : \E j \in DOMAIN wire' : wire'[j] = <<v, k>>
    <3> TAKE k \in 1..(n + 1)
    <3>1. CASE k = n + 1
      <4>1. Len(wire) + 1 \in DOMAIN wire'
        BY <2>2
      <4> QED
        BY <2>2, <3>1, <4>1
    <3>2. CASE k \in 1..n
      <4>1. PICK j \in DOMAIN wire : wire[j] = <<v, k>>
        BY <2>3, <3>2
      <4>2. j \in DOMAIN wire' /\ wire'[j] = <<v, k>>
        BY <2>2, <4>1
      <4> QED
        BY <4>2
    <3>3. n \in Nat
      BY <2>1
    <3> QED
      BY <3>1, <3>2, <3>3
  <2> QED
    BY <2>1, <2>2, <2>4 DEF WireInv
<1>3. ASSUME NEW t \in Threads, NEW i \in DOMAIN inflight, Complete(t, i)
      PROVE  WireInv'
  <2>1. Len(inflight) = 1
    BY <1>0 DEF OneDriver
  <2>2. inflight' = <<>>
    BY <1>0, <1>3, <2>1, RemoveOnly DEF Complete
  <2> QED
    BY <2>2 DEF WireInv
<1>4. CASE UNCHANGED <<inflight, wire>>
  BY <1>4 DEF WireInv
<1> QED
  BY <1>1, <1>2, <1>3, <1>4
     DEF Next, ThreadStep, vars, Enqueue, Reject, RunRejectedHandler, WriteNext,
         RunHandler, Close

-----------------------------------------------------------------------------

\* The wire only grows.
LEMMA WireGrows ==
    ASSUME TypeOK, OneDriver, [Next]_vars
    PROVE  \A i \in DOMAIN wire : i \in DOMAIN wire' /\ wire'[i] = wire[i]
<1>0. wire \in Seq(Writes \X (1..Chunks))
  BY DEF TypeOK
<1>1. ASSUME NEW i \in DOMAIN inflight, Transfer(i)
      PROVE  \A j \in DOMAIN wire : j \in DOMAIN wire' /\ wire'[j] = wire[j]
  <2> DEFINE x == <<inflight[1].w, inflight[1].sent + 1>>
  <2>1. x \in Writes \X (1..Chunks) /\ wire' = Append(wire, x)
    BY <1>1, TransferEffect
  <2> HIDE DEF x
  <2> QED
    BY <1>0, <2>1, AppendLast
<1>2. CASE UNCHANGED wire
  BY <1>2
<1> QED
  BY <1>1, <1>2
     DEF Next, ThreadStep, vars, Enqueue, Reject, RunRejectedHandler, WriteNext,
         StartWrite, Complete, RunHandler, Close

\* No step reports success for a frame that is not on the wire in full.
LEMMA OkStep ==
    TypeOK /\ OneDriver /\ WireInv /\ OkMeansSent /\ [Next]_vars => OkMeansSent'
<1> SUFFICES ASSUME TypeOK, OneDriver, WireInv, OkMeansSent, [Next]_vars,
                    NEW v \in Writes, status'[v] = "ok", NEW k \in 1..Chunks
             PROVE  \E i \in DOMAIN wire' : wire'[i] = <<v, k>>
  BY DEF OkMeansSent
<1>0. status \in [Writes -> Statuses] /\ inflight \in Seq(Operation)
  BY DEF TypeOK
<1>1. CASE status[v] = "ok"
  <2>1. PICK i \in DOMAIN wire : wire[i] = <<v, k>>
    BY <1>1 DEF OkMeansSent
  <2> QED
    BY <2>1, WireGrows
<1>2. CASE status[v] # "ok"
  <2>1. PICK t \in Threads, i \in DOMAIN inflight : Complete(t, i)
    BY <1>0, <1>2
       DEF Next, ThreadStep, vars, Enqueue, Reject, RunRejectedHandler,
           WriteNext, StartWrite, Transfer, RunHandler, Close
  <2>2. i = 1 /\ inflight # <<>> /\ inflight[1].w = Head(queue)
    BY <1>0, LenProperties DEF OneDriver
  <2>3. v = Head(queue) /\ inflight[1].sent = Chunks
    BY <1>0, <1>2, <2>1, <2>2 DEF Complete
  <2>4. PICK j \in DOMAIN wire : wire[j] = <<v, k>>
    BY <2>2, <2>3 DEF WireInv
  <2>5. wire' = wire
    BY <2>1 DEF Complete
  <2> QED
    BY <2>4, <2>5
<1> QED
  BY <1>1, <1>2

\* No step puts a piece of a frame anywhere but after the piece before it.
LEMMA ContiguousStep ==
    TypeOK /\ OneDriver /\ WireInv /\ FramesContiguous /\ [Next]_vars
        => FramesContiguous'
<1> SUFFICES ASSUME TypeOK, OneDriver, WireInv, FramesContiguous, [Next]_vars
             PROVE  FramesContiguous'
  OBVIOUS
<1>0. wire \in Seq(Writes \X (1..Chunks))
  BY DEF TypeOK
<1>1. ASSUME NEW i \in DOMAIN inflight, Transfer(i)
      PROVE  FramesContiguous'
  <2> DEFINE v == inflight[1].w
             n == inflight[1].sent
             x == <<v, n + 1>>
  <2>1. /\ x \in Writes \X (1..Chunks) /\ wire' = Append(wire, x)
        /\ n \in Nat /\ inflight # <<>>
    BY <1>1, TransferEffect, WriteQueueAssumption DEF Operation
  <2>2. n > 0 => wire # <<>> /\ wire[Len(wire)] = <<v, n>>
    BY <2>1 DEF WireInv
  <2>3. x[1] = v /\ x[2] = n + 1
    OBVIOUS
  <2> HIDE DEF x, v, n
  <2>4. /\ DOMAIN wire = 1..Len(wire) /\ Len(wire) \in Nat
        /\ DOMAIN wire' = 1..(Len(wire) + 1)
        /\ \A j \in DOMAIN wire : wire'[j] = wire[j]
        /\ wire'[Len(wire) + 1] = x
    BY <1>0, <2>1, AppendLast
  <2>5. wire # <<>> => Len(wire) > 0
    BY <1>0, EmptySeq
  <2> SUFFICES ASSUME NEW j \in DOMAIN wire', wire'[j][2] > 1
               PROVE  j > 1 /\ wire'[j - 1] = <<wire'[j][1], wire'[j][2] - 1>>
    BY DEF FramesContiguous
  <2>6. CASE j \in DOMAIN wire
    <3>1. wire'[j] = wire[j] /\ j > 1 /\ wire[j - 1] = <<wire[j][1], wire[j][2] - 1>>
      BY <2>4, <2>6 DEF FramesContiguous
    <3>2. j - 1 \in DOMAIN wire
      BY <2>4, <2>6, <3>1
    <3> QED
      BY <2>4, <3>1, <3>2
  <2>7. CASE j = Len(wire) + 1
    <3>1. wire'[j] = x /\ n > 0
      BY <2>1, <2>3, <2>4, <2>7
    <3>2. wire[Len(wire)] = <<v, n>> /\ Len(wire) > 0
      BY <2>2, <2>5, <3>1
    <3>3. wire'[j - 1] = <<v, n>> /\ j > 1
      BY <2>4, <2>7, <3>2
    <3>4. wire'[j][1] = v /\ wire'[j][2] - 1 = n
      BY <2>1, <2>3, <3>1
    <3> QED
      BY <3>3, <3>4
  <2> QED
    BY <2>4, <2>6, <2>7
<1>2. CASE UNCHANGED wire
  BY <1>2 DEF FramesContiguous
<1> QED
  BY <1>1, <1>2
     DEF Next, ThreadStep, vars, Enqueue, Reject, RunRejectedHandler, WriteNext,
         StartWrite, Complete, RunHandler, Close

-----------------------------------------------------------------------------

\* The invariant holds of an empty queue.
LEMMA InductiveInit == Init => Inductive
<1> SUFFICES ASSUME Init
             PROVE  Inductive
  OBVIOUS
<1>1. TypeOK /\ OneDriver
  BY TypeOKInit, OneDriverInit
<1>2. CapRespected
  BY WriteQueueAssumption, EmptySeq DEF Init, CapRespected
<1>3. HandlersInv
  BY DEF Init, HandlersInv
<1>4. WireInv /\ OkMeansSent /\ FramesContiguous
  BY DEF Init, WireInv, OkMeansSent, FramesContiguous
<1> QED
  BY <1>1, <1>2, <1>3, <1>4 DEF Inductive

\* Every step of the queue keeps the invariant.
LEMMA InductiveStep == Inductive /\ [Next]_vars => Inductive'
BY TypeOKStep, OneDriverStep, CapStep, HandlersStep, WireStep, OkStep,
   ContiguousStep DEF Inductive

\* The conjunction of everything below holds in every reachable state.
THEOREM InductiveInvariant == Spec => []Inductive
BY InductiveInit, InductiveStep, PTL DEF Spec

\* Every variable of the queue keeps its type.
THEOREM TypeCorrect == Spec => []TypeOK
BY InductiveInvariant, PTL DEF Inductive

\* Exactly one thread or operation is draining a non-empty queue, none an empty
\* one: async_write and write_next never stall the queue, start a write twice or
\* read front() of an empty deque.
THEOREM DriverUnique == Spec => []OneDriver
BY InductiveInvariant, PTL DEF Inductive

\* Async writes never overlap on the TLS stream (socket.hpp:162).
THEOREM WritesNeverOverlap == Spec => []NoOverlap
<1>1. Inductive => NoOverlap
  <2> SUFFICES ASSUME Inductive
               PROVE  Len(inflight) <= 1
    BY DEF NoOverlap
  <2>1. CASE inflight = <<>>
    <3>1. Len(inflight) = 0
      BY <2>1, EmptySeq
    <3> QED
      BY <3>1
  <2>2. CASE inflight # <<>>
    <3>1. Len(inflight) = 1
      BY <2>2 DEF Inductive, OneDriver
    <3> QED
      BY <3>1
  <2> QED
    BY <2>1, <2>2
<1> QED
  BY <1>1, InductiveInvariant, PTL

\* The queue never holds more than max_pending_writes_ entries.
THEOREM CapHolds == Spec => []CapRespected
BY InductiveInvariant, PTL DEF Inductive

\* Frames sent with async_write are never interleaved (socket.hpp:65).
THEOREM FramesNeverInterleave == Spec => []FramesContiguous
BY InductiveInvariant, PTL DEF Inductive

\* A handler told `true' is that of a frame the stream has taken in full.
THEOREM SuccessIsTruthful == Spec => []OkMeansSent
BY InductiveInvariant, PTL DEF Inductive

\* The buffers of a write are not touched once its handler has run, and the
\* handler runs at most once (message.hpp:123).
THEOREM BuffersOutliveUse == Spec => []NoUseAfterRelease
<1>1. Inductive => NoUseAfterRelease
  <2> SUFFICES ASSUME Inductive
               PROVE  NoUseAfterRelease
    OBVIOUS
  <2>1. /\ queue \in Seq(Writes) /\ inflight \in Seq(Operation)
        /\ TypeOK /\ OneDriver /\ HandlersInv
    BY DEF Inductive, TypeOK
  <2>2. queue # <<>> => Head(queue) \in Writes /\ fired[Head(queue)] = 0
    <3> SUFFICES ASSUME queue # <<>>
                 PROVE  Head(queue) \in Writes /\ fired[Head(queue)] = 0
      OBVIOUS
    <3>1. Head(queue) = queue[1] /\ 1 \in DOMAIN queue /\ Head(queue) \in Writes
      BY <2>1, EmptySeq, LenProperties, HeadTailProperties
    <3> QED
      BY <2>1, <3>1 DEF HandlersInv
  <2>3. ASSUME NEW i \in DOMAIN inflight
        PROVE  fired[inflight[i].w] = 0
    <3>1. inflight # <<>> /\ i = 1
      BY <2>1, LenProperties DEF OneDriver
    <3> QED
      BY <2>1, <2>2, <3>1 DEF OneDriver
  <2>4. ASSUME NEW t \in Threads, at[t] = "starting"
        PROVE  fired[cur[t]] = 0
    <3>1. Drives(t)
      BY <2>4 DEF Drives
    <3> QED
      BY <2>1, <2>2, <2>4, <3>1 DEF OneDriver
  <2> QED
    BY <2>1, <2>3, <2>4 DEF NoUseAfterRelease, HandlersInv
<1> QED
  BY <1>1, InductiveInvariant, PTL

-----------------------------------------------------------------------------
(* The refinement.  Enqueue, Reject, Transfer, Complete and Close are the  *)
(* abstract Accept, Refuse, SendChunk, Finish and Close; the other steps   *)
(* change nothing a caller or the peer can tell.                           *)

\* Initially the abstract stream is in its initial state.
LEMMA RefinementInit == Init => Stream!Init
BY DEF Init, Stream!Init

\* Every step of the threaded queue is a step of the abstract one or leaves it
\* alone.
LEMMA RefinementStep == Inductive /\ [Next]_vars => [Stream!Next]_Stream!vars
<1> SUFFICES ASSUME Inductive, [Next]_vars
             PROVE  [Stream!Next]_Stream!vars
  OBVIOUS
<1>0. /\ TypeOK /\ OneDriver
      /\ queue \in Seq(Writes) /\ inflight \in Seq(Operation)
  BY DEF Inductive, TypeOK
<1> DEFINE progress == IF inflight = <<>> THEN 0 ELSE inflight[1].sent
<1>1. ASSUME NEW t \in Threads, NEW w \in Writes, Enqueue(t, w)
      PROVE  Stream!Accept(w)
  BY <1>1 DEF Enqueue, Stream!Accept, QueueFull, Stream!Full
<1>2. ASSUME NEW t \in Threads, NEW w \in Writes, Reject(t, w)
      PROVE  Stream!Refuse(w)
  BY <1>2 DEF Reject, Stream!Refuse, QueueFull, Stream!Full
<1>3. ASSUME NEW t \in Threads, StartWrite(t)
      PROVE  UNCHANGED Stream!vars
  <2>1. inflight = <<>>
    BY <1>0, <1>3 DEF StartWrite, OneDriver, Drives
  <2>2. inflight' = <<[w |-> cur[t], sent |-> 0]>>
    BY <1>3, <2>1 DEF StartWrite
  <2>3. progress = 0 /\ progress' = 0
    BY <2>1, <2>2
  <2> QED
    BY <1>3, <2>3 DEF StartWrite, Stream!vars
<1>4. ASSUME NEW i \in DOMAIN inflight, Transfer(i)
      PROVE  Stream!SendChunk
  <2>1. /\ inflight # <<>> /\ inflight' # <<>>
        /\ inflight[1].sent < Chunks
        /\ inflight'[1].sent = inflight[1].sent + 1
        /\ wire' = Append(wire, <<inflight[1].w, inflight[1].sent + 1>>)
    BY <1>0, <1>4, TransferEffect
  <2>2. queue # <<>> /\ inflight[1].w = Head(queue)
    BY <1>0, <2>1 DEF OneDriver
  <2>3. ~closed /\ UNCHANGED <<queue, status, closed>>
    BY <1>4 DEF Transfer
  <2> QED
    BY <2>1, <2>2, <2>3 DEF Stream!SendChunk
<1>5. ASSUME NEW t \in Threads, NEW i \in DOMAIN inflight, Complete(t, i)
      PROVE  Stream!Finish
  <2>1. i = 1 /\ inflight # <<>> /\ Len(inflight) = 1
    BY <1>0, LenProperties DEF OneDriver
  <2>2. inflight' = <<>>
    BY <1>0, <1>5, <2>1, RemoveOnly DEF Complete
  <2> QED
    BY <1>5, <2>1, <2>2 DEF Complete, Stream!Finish
<1>6. CASE Close
  BY <1>6 DEF Close, Stream!Close, Stream!Next
<1>7. CASE UNCHANGED <<queue, inflight, wire, status, closed>>
  BY <1>7 DEF Stream!vars
<1> QED
  BY <1>1, <1>2, <1>3, <1>4, <1>5, <1>6, <1>7
     DEF Next, ThreadStep, vars, RunRejectedHandler, WriteNext, RunHandler,
         Stream!Next

\* The threaded queue of socket.cpp implements the sequential frame stream: a
\* bounded FIFO whose head alone is on the wire.
THEOREM Refinement == Spec => ImplementsFrameStream
<1>1. Spec => Stream!Init /\ [][Stream!Next]_Stream!vars
  BY RefinementInit, RefinementStep, InductiveInvariant, PTL DEF Spec
<1> QED
  BY <1>1 DEF ImplementsFrameStream, Stream!Spec
=============================================================================
