# SocketSL in TLA+

SocketSL (`src/`) is a C++ library for TLS connections that carry flatbuffer
messages.  This directory holds TLA+ models of the library and of its example
programs, the TLC configurations that check them on small instances, and TLAPS
proofs that hold for every value of the constants.

## 1. The system

| part | source (under `src/src/`) | state | operations | what is hard | what must hold |
|---|---|---|---|---|---|
| outbound queue | `network/socket.cpp` 313-394 | `write_queue_`, the operation on the stream | `async_write`, `write_next`, its completion handler | decisions taken under `write_mutex_`, acted on after it; a completion that holds no session | one write at a time, no lost wake-up, the cap, whole frames, truthful results |
| synchronous I/O | `network/socket.cpp` 171-199, 243-252, 278-285, 304-311 | the stream | `connect`, `handshake`, `read`, `write` | shares the stream with the queue, arms no timer | nothing inside a queued frame |
| deadlines | `network/socket.cpp` 64-169, 201-302 | idle, heartbeat and handshake timers, `heartbeat_sent_` | `reset_*_timer`, `arm_heartbeat`, the handlers of connect, handshake and read | an expiry that is already queued cannot be cancelled | no unwatched connection, silent peers dropped, live ones kept |
| session manager | `connection/session_manager.cpp` | `sessions_`, `connections_per_ip_` | `add_session`, `connect`, `register_and_start`, `remove_session`, `stop`, `for_each_session` | two threads remove one session; stop in between; user code that calls back | exact counters, callbacks once and in order, caps, no deadlock |
| boost session manager | `connection/session_manager.hpp` | acceptor, `reconnect_map_`, `reconnect_stopped_` | accept loop, `do_connect`, `on_session_removed`, `schedule_reconnect`, `attempt_reconnect`, `stop` | a lock-free flag read before acting; map keyed by raw pointers | each reconnect state in one place, exact retries, re-dials happen |
| session | `connection/session.cpp` | the outstanding read | `start`, `read_frame_size`, `read_header`, `read_body`, `handle_sys_message`, `on_error` | two size limits, two implementations of one protocol | bounded buffers, one error, same messages as `recv_buffer` |
| message framing | `message/message.{cpp,hpp}` | bytes on the stream | `make_frame_header`, `send*`, `recv_buffer`, `recv` | sizes in front of what they measure, hosts of two byte orders | frames are read as they were sent |
| router | `router/router.hpp` | none | `process`, `dispatch` | "handled" and "valid" are not the same | each message at its handler, once |
| endian, serialisation | `endian/`, `serialisation/` | none | conversions | | one wire format |
| examples | `../examples/` | two programs on a connection | requests, replies, broadcasts | settings of two ends that must fit | the examples stay connected |
| TLS configuration | `network/ssl.{hpp,cpp}` | `ssl::context` | loads keys and certificates | | |

Everything runs on an `io_context` that any number of threads may run, and no
strand is used: two completion handlers of one socket can run at the same time.
A manager owns sessions, a session owns a socket; a session's read loop reports
a failure to the manager, which may dial again.

## 2. Modules

| module | models | state and actions |
|---|---|---|
| `FrameStream` | what `async_write` promises: a FIFO of frames written one after the other | abstract |
| `WriteQueue` | the outbound queue, one step per critical section or asio call | `at[t]` is where thread t is; `Enqueue`/`Reject` are the locked part of `async_write`, `WriteNext` and `StartWrite` are `write_next`, `Complete` and `RunHandler` its completion handler, `Transfer` is asio |
| `MixedWrites` | `WriteQueue` with synchronous sends | `SendHeader`, `SendBody`, `SendFails` |
| `Lifetime` | `WriteQueue` with the `shared_ptr`s that keep the session alive | `holders`; `RemoveSession` and `ReadFails` take one away, `CompleteOnDestroyed` is what is left in flight |
| `SocketTimers` | the three deadlines over connect, handshake and reads | `left[k]` ticks left, `fresh[k]`/`stale[k]` queued expiry handlers of the current and of restarted waits |
| `Peers` | two ends of a connection, each with its timers, its write queue and its program | `Program` records are `server_main.cpp`, the four clients of `client_main.cpp`, `peer/main.cpp`, or any session; `Read` with `Answer` is a message received and what it sets off; `Tick` is time; `ahead` is how many windows of messages a ping had in front of it |
| `Session` | the read loop, on whole frames | one action per completion handler together with the checks of the next read |
| `RecvBuffer` | `msg::recv_buffer` as a function of the frames to come | `Round` is one round of its loop, `Rounds` the rounds on a stream; compared with `Session` |
| `Endian` | `to_little`, `from_little` on hosts of either byte order | an integer is its digits, memory is their order |
| `Framing` | sender, read loop and router, on bytes | `async_send_buffer`, `send_buffer`/`SendBody` write; `ReadHeader`, `ReadBody`, `ReadMessage` read; `process` and `dispatch` say which handlers `handle_message` calls; `calls` is what they got; implements `Session` |
| `SessionManager` | the base class | `phase[s]` follows a session, `removal[s]` a `remove_session` of it; each section of `sessions_mutex_` and each user callback is a step |
| `BoostSessionManager` | the derived class, extending the base | `chain`, `mapped`, `timers`, `hand` say where each reconnect state is; `stopPc` walks through `stop()`; `fate` records what became of each state |
| `Locking` | the three mutexes and the user code called back | an operation is the list of its locks, unlocks and callbacks in source order; `stack[t]` is what thread t is in |
| `*Proofs` | theorems, see section 4 | |
| `MC*` | instances for TLC | |

A definition whose comment starts with "Mutant" is a deliberately wrong variant
of the definition after it; it is not part of any specification and shows that a
property can fail.

asio is external: a handler runs exactly once, on any thread; a timer wait whose
expiry has queued its handler is not cancelled by `expires_after` or `cancel`;
closing a socket aborts its operations; closing a socket that is not open does
nothing.

## 3. Runs

| run | bounds | shows |
|---|---|---|
| `write_queue` | 4 writes, 3 threads, cap 2, 2 pieces a frame | no overlap, one driver, cap, buffers, truthful results, whole frames; all handlers run after a close; implements `FrameStream`.  Three threads are a completion, an enqueuer and a rejected caller at once |
| `mixed_writes` | 2 writes, 2 threads | violated: a synchronous send lands inside a queued frame |
| `lifetime` | 2 writes, 2 threads | violated: a session that ends with writes queued destroys their handlers without a call |
| `session_manager_cap` | a manager that never dials (`InboundSpec`), 2 sessions, cap 1 | violated: two handshakes under way pass the cap |
| `boost_manager` | 2 sessions, one reconnecting connection, an IPv4 and an IPv6 address, caps 1, 2 attempts, delays 3 to 5, multiplier 3/2 | of the base class: counters, callback order, no silent loss; custody of reconnect states, map entries, attempts, backoff, re-dial on drop, stop is final |
| `reconnect_thrown` | the same with one session | violated: a connection whose registration threw for its IPv6 peer is not dialled again when it drops |
| `timers` | idle 3, heartbeat 2, handshake 2, 2 stale handlers | every open connection is watched; a deadline that was not restarted drops only a peer not heard for the whole timeout; silent peers dropped, handshakes end, timers die out |
| `timers_stale` | server, idle 2 | violated: a queued expiry closes a connection whose timer a read has restarted |
| `timers_dial` | client, idle 2, no handshake timeout | violated: the idle timer expires during the resolve and nothing watches what follows |
| `framing` | 3 frames of 10 kinds, limit 2, sizes of 8 digits, hosts of both orders | frames read as sent, one error, bounded buffers, agreement with `recv_buffer`, delivery to handlers end to end, the loop goes on |
| `peers` | a second is 3 ticks, a message takes at most 1, 2 messages under way, silence counted to 19, beyond twice the longest heartbeat | a reading peer is kept, a silent one dropped in time, the examples stay connected and requests are answered |
| `locking` | 2 threads, calls nested 3 deep | user code runs unlocked but for `for_each_session`; no deadlock but by re-entry from there |

Why the bounds are enough.  Three frames make a good one after a good one, and a
bad one in any place; the ten kinds are at, below and above the limit in either
size, with and without a handler.  In `peers` the settings of free sessions are
just above the round trip, where `LivePeerKept` begins to promise something, and
their queues hold one message, so that pings and pongs are refused.  `boost_manager`
runs the base class inside the derived one, with one session accepted or dialled
beside the one that reconnects.  It has one reconnecting connection: two are out of
reach together with liveness.  That several do not disturb each other, nor one
overwrite another's entry, is in the theorems, which are for any set of them; only
`RedialsOnDrop`, a liveness property, is checked for one alone.  Delays of 3 and
4 ticks (3 * 3/2, truncated) and then the cut at 5 tell truncation, growth and
`max_delay` apart.  In `locking` a depth of three is a callback in a callback in `for_each_session`; two threads are
what a cycle needs at least, and the theorems are for any number.

Deadlock is not checked where the system may stop: a connection that is over, a
session that ended, a thread that waits for itself (`locking`), and a manager
after `stop()` (`boost_manager`), when handshakes that complete late have
registered every session and nothing removes them.  Symmetry is used only where
no liveness is checked.

Fairness.  A thread that has a step to take takes it, asio completes what it
started, a tick comes, the handler of an expired timer runs, bytes that have arrived are read, and
a synchronous send goes on to its body.  In `lifetime` also: a read on a closed
stream fails.  In `peers` handlers, writes and reads that are due happen before
the tick is over: that module is about peers that are alive and a network that
works.  In `boost_manager` the user's `on_disconnect` returns and the reconnect
timer's handler runs; that a dial or a handshake ever ends is not assumed.
Otherwise nothing is assumed of the peer or of the user.

### Where code and comments differ

The violated runs each show a sentence of a comment or of the README that the
code does not keep; `PROJECT.json` quotes them under "findings".

### An IPv6 peer

The acceptor listens on IPv4 only, but a dial may reach an IPv6 address.
`ipv4_address()` then throws in `register_and_start`, after the session is in
`sessions_` and, with a policy, its state in `reconnect_map_`; it throws again in
`remove_session`, after the erase.  The session is never counted, announced or
started, and the entry is "stranded": `on_session_removed` is not called for it.
It stays until a later session at the same address takes it along when removed, or
overwrites it ("lost"), or `stop()` clears the map.  `NoOrphanEntry` and
`ChainCustody` name the case; `RedialsAnySession` is the sentence of the header
that it breaks.

### A removal that comes early

`remove_session` may be called at any time, and a session is visible to
`for_each_session` as soon as it is registered, before `on_connect`.  A removal in
that window calls `on_disconnect` first and `register_and_start` calls
`on_connect` afterwards.  `CallbackOrder` allows exactly that: a session of
which the user has heard the end only is one that is about to be announced.

### What `DroppedForSilence` says and does not

`quiet` counts from the completion of an operation, not from its handler.  The
timers are restarted by the handler, so a read that has completed while its
handler waits in the queue does not protect the connection: an expiry can overtake
it.  The property is about every other moment.

### What `LivePeerKept` says and does not

A heartbeat longer than a round trip keeps a peer that reads, unless a full queue
refused the ping: `async_send` without a handler tells nobody, and
`heartbeat_sent_` is set all the same (`socket.cpp` 127-129).  A refused pong does
no harm: the messages that filled the other end's queue are as good.  A round trip
is `RoundTrip(e)`, a delay for each window of messages that the ping waits behind,
and one for each way; a constant bound would be wrong for long queues, where a ping
waits its turn.  The heartbeat also keeps its own end's idle timer from expiring.  It does not keep the *other* end's: an end
that sends all the time is never asked, and may wait for traffic in vain.

## 4. Proofs

Each theorem is for all values of the constants allowed by the named ASSUMEs.

* `WriteQueueProofs`.  The invariant `Inductive` adds to the checked properties
  what ties a handler's status to the queue (`HandlersInv`) and the tail of the
  wire to the operation in flight (`WireInv`).  The key is `OneDriver`: a
  non-empty queue has exactly one thread or operation draining it, so no second
  write starts and no wake-up is lost.  `Refinement` maps the queue to
  `FrameStream`.
* `SessionManagerProofs`, `ReconnectProofs`.  For the base class, `Lifecycle`
  relates phase, removal and callbacks; `CountsMatch` alone is not inductive, since
  `Erase` must know that a registered session has an address.  The set of
  sessions is finite.  For the derived class, `ReconnectProofs` has what each step
  keeps.  `ChainInv` says for each place a reconnect state can be in what its
  counters are and that it is nowhere else; it implies `ChainCustody` and
  `GiveUpExact`.  `ChainInv` and `NoOrphanEntry` need one another: a handshake must
  not end on a session that has an entry of its own, and an entry appears only under a session
  that is about to be registered.  Each step is a step of the base class, or a
  stutter (`BoostRefinesManager`), so the base class's invariant is inherited
  (`InheritedInvariant`).  `BackoffHasForm`: with a multiplier of at least 1,
  cutting the delay at `max_delay` after every multiplication, as the code does,
  gives the same as cutting once at the end, because truncated growth is monotonic
  and never shrinks a delay; for a smaller multiplier both bounds still hold.
* `SocketTimersProofs`.  Type correctness, `Watched`, and the action property
  `DroppedForSilence` from `SilenceInv`: while a read is outstanding, what is left
  of a countdown and the silence so far make up at least the timeout.
* `FramingProofs`, in four layers.  `SInv`: where the read loop is in the frame it
  reads, and that it has found nothing wrong with it so far; from it type
  correctness (with it: at most one `on_error`) and the buffer bound.  `RInv`: the
  loop has handled and answered what the rounds of `recv_buffer` have, at every
  frame boundary; hence `TheReceiversAgree`, on streams of any length.  `WInv`: what
  is unread, with the body a synchronous send still owes, is the rest of the current
  frame followed by the bytes of the frames after it; with `EndianRoundTrip` and `NumberOfDigits` (a frame size is
  determined by its eight bytes) each read on the bytes is the read of `Session`,
  which is `BytesImplementSession`.  `EInv`: the calls so far, each with the index of
  the frame it came from, increasing, and no frame that should have one without;
  hence `EndToEndHolds`, for any frames and any router.  The wire format does not
  depend on the host (`WireIsLittle`).
* `PeersProofs`.  `PInv`: messages under way are in the order of their age; silence
  and what is left of the heartbeat add up to at most one interval, or two once the
  ping is out (`Counting`), which gives `SilenceIsBounded`; and once the ping is out,
  either something from the other end or the ping itself, with a whole way back, is
  close enough (`OnTime`) to arrive before the heartbeat and before the idle timer
  expire (`Kept`), which gives `ReadingPeerKept`.  For every delay, window, queue
  bound, setting and load.
* `ExamplesProofs`.  `ExamplesKeepConnections`: the example server and its clients
  that read, and the two example peers, never drop one another, for every length of
  a second and every window.  `XInv` splits the server's connection into five
  stages with at most one message under way (`Silent`, `Requested`, `Responded`,
  `Pinged`, `Ponged`), each with what its timers still leave; between peers
  somebody's next broadcast always arrives in time (`Heard`).  The hypothesis is
  `Delay < Second`.  It cannot be weakened: with a delay of a whole second a round
  trip is the server's heartbeat of two, and TLC finds it dropping a client whose
  pong is under way.
* `LockingProofs`.  `StackInv`: a thread holds a mutex exactly if one of its calls
  is inside the mutex's block, that is one call only, and all calls but the
  innermost are in user code.  So a thread in user code holds nothing but what
  `for_each_session` took (`UserCodeUnlocked`), a thread that waits holds at most
  `sessions_mutex_`, and no cycle of two threads can close
  (`DeadlockOnlyByReentry`).

What is defined by recursion (`Rounds`, `Grown`) is a recursive function, and what
it computes is proved by induction: `SetInduction` is induction stated of a set of
numbers rather than of a predicate, and `Iteration` says from it that a function
exists that repeats a step n times; the recursive definitions are then shown to be
that function.

The type invariant of `SocketTimers` is proved and not repeated in a run.

Only model-checked, because the prover does not handle liveness under fairness:
`HandlersRunAfterClose`, `RedialsOnDrop`, `SilentPeerDropped`, `HandshakeBounded`,
`TimersDieOut`, `KeepsReading` and `RequestAnswered`.  Every invariant, action
property and refinement of a passing run is a theorem.

## 5. Assumptions and omissions

* The user calls the boost manager's `stop` once, and `add_session` with a session
  that is not in use.
* A thread that gets an exception out of `run()`, as for an IPv6 peer, goes back
  into it.
* The socket outlives its timer handlers; `Lifetime` shows that nothing in the
  code sees to it for writes, and the timers are in the same position.
* Peers frame consistently: sizes announced are sizes sent.
* Timeouts, caps and limits are set before the first connection.
* `multiplier` is a fraction, and a product is exact before it is cut to ticks: the
  rounding of the `double` and its overflow are left out.
* A flatbuffer is opaque but for what its verifier says.
* `Peers` begins with an established connection; `run_silent_client` is not ended
  by its twelve seconds, which the server does not wait for.
* A message is read in one step in `Peers`, where the code restarts the timers
  three times for its three parts.
* `Locking` has one `write_mutex_` for all sockets, which can only block more.

Not modelled: TLS configuration (`ssl.{hpp,cpp}`: start-up I/O), schemas (input of
a code generator), `erase` and `async_erase` (no caller), `port` and
`remote_address` (they return a field), and of the examples their start-up,
logging and shutdown.

## 6. What could follow

* The timers together with destruction, once the code says who keeps the socket
  alive for them.
