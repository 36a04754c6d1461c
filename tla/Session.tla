------------------------------- MODULE Session -------------------------------
(***************************************************************************)
(* The read loop of session (src/connection/session.cpp:47-184): frame     *)
(* size, header, body, dispatch, and again.  One read is outstanding at a  *)
(* time and each completion handler issues the next one.                   *)
(*                                                                         *)
(* A frame is a record of what the loop looks at: the size of its header,  *)
(* whether flatbuffers' verifier accepts the header, and the body size,    *)
(* system flag and id in it; `fits' is the set of types whose verifier     *)
(* accepts the body.  The peer frames its bytes consistently: the header   *)
(* is as long as the size field says and the body as long as the header    *)
(* says.  Module Framing shows this loop on the bytes themselves.          *)
(***************************************************************************)
EXTENDS Naturals, Sequences

CONSTANTS
    Frames,             \* what a peer may send
    HbPing,             \* System::MessageId_HbPing
    MaxMessageSize,     \* max_message_size(); 0 = unlimited
    MaxFrames           \* bound: frames a peer sends

ASSUME SessionAssumption ==
    /\ \A f \in Frames :
          /\ f.header \in Nat /\ f.body \in Nat
          /\ f.valid \in BOOLEAN /\ f.system \in BOOLEAN
          /\ f.valid => f.header > 0
    /\ MaxMessageSize \in Nat
    /\ MaxFrames \in Nat

VARIABLES
    sent,       \* history: the frames the peer has sent
    taken,      \* frames read to their end
    at,         \* the read that is outstanding
    buffer,     \* bytes of the buffer it reads into
    handled,    \* handle_message calls
    pongs,      \* HbPong requests handed to async_send
    errors      \* on_error calls

vars == <<sent, taken, at, buffer, handled, pongs, errors>>

SizeOfFrameSize == 8    \* sizeof(frame_size_t)

\* What handle_message gets: every byte of a body tells what it verifies as.
BodyBytes(f) == [i \in 1..f.body |-> f.fits]

Message(f) == [id |-> f.id, body |-> BodyBytes(f)]

Messages == {Message(f) : f \in Frames}

TypeOK ==
    /\ sent \in Seq(Frames)
    /\ taken \in 0..Len(sent)
    /\ at \in {"idle", "size", "header", "body", "refused", "ended"}
    /\ buffer \in Nat
    /\ handled \in Seq(Messages)
    /\ pongs \in Nat
    /\ errors \in {0, 1}

Init ==
    /\ sent = <<>>
    /\ taken = 0
    /\ at = "idle"
    /\ buffer = 0
    /\ handled = <<>>
    /\ pongs = 0
    /\ errors = 0

-----------------------------------------------------------------------------

PeerSends(f) ==
    /\ Len(sent) < MaxFrames
    /\ sent' = Append(sent, f)
    /\ UNCHANGED <<taken, at, buffer, handled, pongs, errors>>

TooLong(n) == MaxMessageSize # 0 /\ n > MaxMessageSize

\* The frame being read.
Arrived == taken < Len(sent)
Current == sent[taken + 1]

\* The next read is issued into a buffer of n bytes.
Await(a, n) == at' = a /\ buffer' = n /\ UNCHANGED errors

\* on_error(): the session is handed to remove_session, and no read follows.
\* `how' tells a refused frame from a failed read.
on_error(how) ==
    /\ at' = how
    /\ buffer' = 0
    /\ errors' = errors + 1

start ==
    /\ at = "idle"
    /\ Await("size", SizeOfFrameSize)
    /\ UNCHANGED <<sent, taken, handled, pongs>>

\* The handler of the frame size, and read_header up to its async_read.
read_header ==
    /\ at = "size"
    /\ Arrived
    /\ IF TooLong(Current.header) THEN on_error("refused") ELSE Await("header", Current.header)
    /\ UNCHANGED <<sent, taken, handled, pongs>>

\* The handler of the header: parse_header, and read_body up to its async_read.
read_body ==
    /\ at = "header"
    /\ Arrived
    /\ IF ~Current.valid \/ TooLong(Current.body)
       THEN on_error("refused") ELSE Await("body", Current.body)
    /\ UNCHANGED <<sent, taken, handled, pongs>>

\* The handler of the body: handle_sys_message or handle_message, and then
\* read_frame_size.
Dispatch ==
    /\ at = "body"
    /\ Arrived
    /\ handled' = IF Current.system THEN handled ELSE Append(handled, Message(Current))
    /\ pongs' = IF Current.system /\ Current.id = HbPing THEN pongs + 1 ELSE pongs
    /\ taken' = taken + 1
    /\ Await("size", SizeOfFrameSize)
    /\ UNCHANGED sent

\* Any of the three handlers is told false: end of stream, reset, or a close.
ReadFails ==
    /\ at \in {"size", "header", "body"}
    /\ on_error("ended")
    /\ UNCHANGED <<sent, taken, handled, pongs>>

Next ==
    \/ \E f \in Frames : PeerSends(f)
    \/ start \/ read_header \/ read_body \/ Dispatch \/ ReadFails

Spec == Init /\ [][Next]_vars

\* A read whose bytes are there completes, and start() is called.
FairSpec == Spec /\ WF_vars(start) /\ WF_vars(read_header \/ read_body \/ Dispatch)

-----------------------------------------------------------------------------
(* Properties.                                                             *)

Acceptable(f) == ~TooLong(f.header) /\ f.valid /\ ~TooLong(f.body)

\* No buffer is ever larger than max_message_size, whatever sizes a peer
\* announces (socket.hpp:39), but for the eight bytes of a frame size.
BufferBounded ==
    MaxMessageSize # 0 => buffer <= MaxMessageSize \/ at = "size"

\* The read loop goes on as long as acceptable frames come: each of them is
\* read to its end, or the session gets its one on_error.
KeepsReading ==
    \A n \in 1..MaxFrames : Len(sent) >= n ~> (taken >= n \/ errors = 1)
=============================================================================
