------------------------------ MODULE RecvBuffer ------------------------------
(***************************************************************************)
(* msg::recv_buffer (src/message/message.cpp:57-113), the synchronous      *)
(* receiver, as a function of the frames a peer sends, next to the read    *)
(* loop of an asynchronous session on the same frames.                     *)
(***************************************************************************)
EXTENDS Session

\* A receiver that calls recv_buffer until it returns nullopt: the messages it
\* got, and the pongs that were sent for it.
Fresh == [messages |-> <<>>, pongs |-> 0, nullopt |-> FALSE]

\* One round of the loop of recv_buffer, with a frame f to read.  A call that
\* returns a message is followed by the next call.
Round(r, f) ==
    IF TooLong(f.header) \/ ~f.valid \/ TooLong(f.body) THEN [r EXCEPT !.nullopt = TRUE]
    ELSE IF ~f.system THEN [r EXCEPT !.messages = Append(@, Message(f))]
    ELSE IF f.id = HbPing THEN [r EXCEPT !.pongs = @ + 1]
    ELSE r

\* The rounds on the frames fs.
Rounds(fs) ==
    LET rounds[n \in 0..Len(fs)] ==
            IF n = 0 THEN Fresh
            ELSE IF rounds[n - 1].nullopt THEN rounds[n - 1]
            ELSE Round(rounds[n - 1], fs[n])
    IN  rounds

recv_buffer(fs) == Rounds(fs)[Len(fs)]

\* The two receivers, written twice in the code, agree: on the frames a session
\* has read, recv_buffer returns the same messages in the same order and answers
\* the same pings; a session refuses a frame where recv_buffer returns nullopt,
\* and so got all that recv_buffer gets out of the whole stream; and a frame whose
\* body is being read is one that recv_buffer takes too.
ReceiversAgree ==
    LET r == recv_buffer(SubSeq(sent, 1, IF at = "refused" THEN Len(sent) ELSE taken))
    IN  /\ handled = r.messages
        /\ pongs = r.pongs
        /\ r.nullopt <=> at = "refused"
        /\ at = "body" => ~recv_buffer(<<Current>>).nullopt
=============================================================================
