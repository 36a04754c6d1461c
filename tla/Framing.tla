------------------------------- MODULE Framing -------------------------------
(***************************************************************************)
(* From one host's sends to the other's handlers, on the bytes: frames are *)
(* built (src/message/message.cpp:13-55), written, read back by the loop   *)
(* of session (src/connection/session.cpp:69-176) and dispatched by a      *)
(* message_router (src/router/router.hpp).  Either host may be of either   *)
(* byte order.  Where the frames end is known from the bytes alone here;   *)
(* Session is what this is shown to implement.                             *)
(*                                                                         *)
(* A flatbuffer is opaque: the first byte of a header buffer stands for    *)
(* the table in it, and what its verifier says is part of that.            *)
(***************************************************************************)
EXTENDS RecvBuffer, Endian

CONSTANT
    Handlers    \* the message_infos of the router: [id, type], in order

\* The digits of n, and the number with digits d.
Digits(n) ==
    LET n2 == n \div Base   n3 == n2 \div Base   n4 == n3 \div Base
        n5 == n4 \div Base  n6 == n5 \div Base   n7 == n6 \div Base
        n8 == n7 \div Base
    IN  [i \in 1..Width |-> <<n, n2, n3, n4, n5, n6, n7, n8>>[i] % Base]

Number(d) ==
    d[1] + Base * (d[2] + Base * (d[3] + Base * (d[4] +
    Base * (d[5] + Base * (d[6] + Base * (d[7] + Base * d[8]))))))

MaxFrameSize == Number([i \in 1..Width |-> Base - 1])

ASSUME FramingAssumption ==
    /\ Width = SizeOfFrameSize
    /\ Handlers \in Seq([id : Nat, type : STRING])
    /\ \A f \in Frames : f.header <= MaxFrameSize

VARIABLES
    sender,     \* byte order of the peer's host
    receiver,   \* byte order of the session's host
    stream,     \* bytes written and not yet read
    unsent,     \* the body a synchronous send has still to write
    parsed,     \* what read_body was given: type, body_size, is_system
    calls       \* messages a router gave to handlers: <<message_infos, message>>

wireVars == <<sender, receiver, stream, unsent, parsed, calls>>

framingVars == <<vars, wireVars>>

-----------------------------------------------------------------------------
(* Sending.                                                                *)

\* The MessageHeader flatbuffer.
make_header(f) ==
    [i \in 1..f.header |->
        IF i = 1 THEN [valid |-> f.valid, type |-> f.id, body_size |-> f.body,
                       is_system |-> f.system]
        ELSE "rest"]

make_frame_header(f) ==
    Store(to_little(Digits(f.header), sender), sender) \o make_header(f)

FramingInit ==
    /\ Init
    /\ sender \in Hosts /\ receiver \in Hosts
    /\ stream = <<>> /\ unsent = <<>>
    /\ parsed = [type |-> 0, body_size |-> 0, is_system |-> FALSE]
    /\ calls = <<>>

\* async_send_buffer: header and body in one operation.
async_send_buffer(f) ==
    /\ unsent = <<>>
    /\ PeerSends(f)
    /\ stream' = stream \o make_frame_header(f) \o BodyBytes(f)
    /\ UNCHANGED <<sender, receiver, unsent, parsed, calls>>

\* send_buffer, socket.write(header) ...
send_buffer(f) ==
    /\ unsent = <<>>
    /\ PeerSends(f)
    /\ stream' = stream \o make_frame_header(f)
    /\ unsent' = BodyBytes(f)
    /\ UNCHANGED <<sender, receiver, parsed, calls>>

\* ... and socket.write(body), unless the body is empty.
SendBody ==
    /\ unsent # <<>>
    /\ stream' = stream \o unsent
    /\ unsent' = <<>>
    /\ UNCHANGED <<vars, sender, receiver, parsed, calls>>

-----------------------------------------------------------------------------
(* Receiving.                                                              *)

\* An async_read completes when its buffer is full.
Full(n) == Len(stream) >= n
First(n) == SubSeq(stream, 1, n)
Drop(n) == SubSeq(stream, n + 1, Len(stream))

\* Mutant: no return after the on_error of a header that is too long.
ReadHeaderGoesOn ==
    /\ at = "size"
    /\ Full(Width)
    /\ LET header_size == Number(from_little(Load(First(Width), receiver), receiver))
       IN  /\ at' = "header" /\ buffer' = header_size
           /\ errors' = IF TooLong(header_size) THEN errors + 1 ELSE errors
    /\ stream' = Drop(Width)
    /\ UNCHANGED <<sent, taken, handled, pongs, sender, receiver, unsent, parsed, calls>>

\* The handler of the frame size, and read_header.
ReadHeader ==
    /\ at = "size"
    /\ Full(Width)
    /\ LET header_size == Number(from_little(Load(First(Width), receiver), receiver))
       IN  IF TooLong(header_size) THEN on_error("refused") ELSE Await("header", header_size)
    /\ stream' = Drop(Width)
    /\ UNCHANGED <<sent, taken, handled, pongs, sender, receiver, unsent, parsed, calls>>

\* is_valid<MessageHeader>, and the fields.
parse_header(bytes) ==
    [valid |-> bytes # <<>> /\ bytes[1].valid,
     fields |-> IF bytes = <<>> THEN parsed
                ELSE [type |-> bytes[1].type, body_size |-> bytes[1].body_size,
                      is_system |-> bytes[1].is_system]]

\* Mutant: the size a header announces is not looked at.
ReadBodyUnchecked ==
    /\ at = "header"
    /\ Full(buffer)
    /\ LET header == parse_header(First(buffer)) IN
       /\ IF ~header.valid
          THEN on_error("refused") ELSE Await("body", header.fields.body_size)
       /\ parsed' = header.fields
    /\ stream' = Drop(buffer)
    /\ UNCHANGED <<sent, taken, handled, pongs, sender, receiver, unsent, calls>>

\* The handler of the header, and read_body.
ReadBody ==
    /\ at = "header"
    /\ Full(buffer)
    /\ LET header == parse_header(First(buffer)) IN
       /\ IF ~header.valid \/ TooLong(header.fields.body_size)
          THEN on_error("refused") ELSE Await("body", header.fields.body_size)
       /\ parsed' = header.fields
    /\ stream' = Drop(buffer)
    /\ UNCHANGED <<sent, taken, handled, pongs, sender, receiver, unsent, calls>>

is_valid(type, body) == body # <<>> /\ type \in body[1]

\* Mutant: a body that does not verify is offered to the next message_info.
ProcessFallsThrough(k, m) ==
    [consumed |-> m.id = Handlers[k].id /\ is_valid(Handlers[k].type, m.body),
     called |-> m.id = Handlers[k].id /\ is_valid(Handlers[k].type, m.body)]

\* message_info::process: whether it says the message was its own, and whether
\* it called the handler.
process(k, m) ==
    [consumed |-> m.id = Handlers[k].id,
     called |-> m.id = Handlers[k].id /\ is_valid(Handlers[k].type, m.body)]

\* The fold with ||: an entry is tried when all before it returned false.  The
\* entries whose handler is called.
dispatch(m) ==
    {k \in DOMAIN Handlers : /\ \A j \in 1..(k - 1) : ~process(j, m).consumed
                             /\ process(k, m).called}

handle_message(m) ==
    calls' = IF dispatch(m) = {} THEN calls ELSE Append(calls, <<dispatch(m), m>>)

\* msg::recv<T>, when the next frame is f: the message whose body the caller
\* gets, whatever its id.
recv(type, f) ==
    LET ms == recv_buffer(<<f>>).messages
    IN  {ms[i] : i \in {j \in DOMAIN ms : is_valid(type, ms[j].body)}}

\* Mutant: system messages reach the user.
ReadMessageToUser ==
    /\ at = "body"
    /\ Full(buffer)
    /\ LET m == [id |-> parsed.type, body |-> First(buffer)] IN
       /\ handled' = Append(handled, m)
       /\ handle_message(m)
    /\ taken' = taken + 1
    /\ Await("size", SizeOfFrameSize)
    /\ stream' = Drop(buffer)
    /\ UNCHANGED <<sent, pongs, sender, receiver, unsent, parsed>>

\* Mutant: the loop ends after a system message.
ReadMessageOnce ==
    /\ at = "body"
    /\ Full(buffer)
    /\ LET m == [id |-> parsed.type, body |-> First(buffer)] IN
       /\ handled' = IF parsed.is_system THEN handled ELSE Append(handled, m)
       /\ pongs' = IF parsed.is_system /\ parsed.type = HbPing THEN pongs + 1 ELSE pongs
       /\ IF parsed.is_system THEN UNCHANGED calls ELSE handle_message(m)
    /\ taken' = taken + 1
    /\ IF parsed.is_system THEN Await("ended", 0) ELSE Await("size", SizeOfFrameSize)
    /\ stream' = Drop(buffer)
    /\ UNCHANGED <<sent, sender, receiver, unsent, parsed>>

\* The handler of the body: a pong, or handle_message, which in all the
\* repository's sessions calls the router; then read_frame_size.
ReadMessage ==
    /\ at = "body"
    /\ Full(buffer)
    /\ LET m == [id |-> parsed.type, body |-> First(buffer)] IN
       /\ handled' = IF parsed.is_system THEN handled ELSE Append(handled, m)
       /\ pongs' = IF parsed.is_system /\ parsed.type = HbPing THEN pongs + 1 ELSE pongs
       /\ IF parsed.is_system THEN UNCHANGED calls ELSE handle_message(m)
    /\ taken' = taken + 1
    /\ Await("size", SizeOfFrameSize)
    /\ stream' = Drop(buffer)
    /\ UNCHANGED <<sent, sender, receiver, unsent, parsed>>

-----------------------------------------------------------------------------

FramingNext ==
    \/ \E f \in Frames : async_send_buffer(f) \/ send_buffer(f)
    \/ SendBody
    \/ (start \/ ReadFails) /\ UNCHANGED wireVars
    \/ ReadHeader \/ ReadBody \/ ReadMessage

FramingSpec == FramingInit /\ [][FramingNext]_framingVars

\* As in Session; and a synchronous send goes on to its body.
FramingFairSpec ==
    /\ FramingSpec
    /\ WF_framingVars(start /\ UNCHANGED wireVars)
    /\ WF_framingVars(ReadHeader \/ ReadBody \/ ReadMessage)
    /\ WF_framingVars(SendBody)

-----------------------------------------------------------------------------
(* Properties.                                                             *)

\* Read from the bytes, between hosts of any byte order, frames are the ones
\* sent: same boundaries, ids, bodies and refusals.
ImplementsSession == Spec

\* The message_info that a frame is for: the first one with its id.
For(f, k) ==
    /\ Handlers[k].id = f.id
    /\ \A j \in 1..(k - 1) : Handlers[j].id # f.id

Deliverable(f) ==
    ~f.system /\ f.body > 0 /\ \E k \in DOMAIN Handlers : For(f, k) /\ Handlers[k].type \in f.fits

\* End to end: of the frames that were read, every user message with a body of
\* its handler's type is given to that handler, once and in the order sent, and
\* no handler sees anything else; a body of the wrong type is dropped without a
\* call (router.hpp:28), and never shows up at a handler further back.  Had the
\* frame been received with recv<T> of the handler's type, it would have been the
\* same message.
EndToEnd ==
    \E n \in [DOMAIN calls -> 1..taken] :
        /\ \A i, j \in DOMAIN calls : i < j => n[i] < n[j]
        /\ \A k \in 1..taken : Deliverable(sent[k]) <=> \E i \in DOMAIN calls : n[i] = k
        /\ \A i \in DOMAIN calls : \E k \in DOMAIN Handlers :
              /\ For(sent[n[i]], k)
              /\ calls[i] = <<{k}, Message(sent[n[i]])>>
              /\ recv(Handlers[k].type, sent[n[i]]) = {calls[i][2]}
=============================================================================
