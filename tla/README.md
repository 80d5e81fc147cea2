# Models, checks and proofs for the network library

This directory holds TLA+ models of the library in `src/`: an epoll reactor
(`EventLoop`) with connections, buffers, decoders, timers and a task queue.
The models are checked with TLC on small instances, and every safety property of
those runs is proved with TLAPS for every value of the constants.

## 1. The system

### Components

| component | state | operations | driven by |
|---|---|---|---|
| `EventLoop` | `running_`, `tasks_` (mutex), `wakeup_fd_`, `loop_thread_id_` | `run`, `accept_new_connection`, `handle_client_event`, `queueInLoop`, `runInLoop`, `stop`, `runAt/After/Every`, `cancelTimer`, idle check | its thread; other threads post tasks and stop |
| `Connection` | input and output `Buffer`, `events_`, `peer_closed_`, `last_active_time_` | `recv_data`, `send_data`, `enable_write`, `disable_write` | the loop's READ and WRITE events |
| `ConnectionManager` | `connections_` : descriptor -> `Connection` | `add_connection`, `delete_connection`, `forEachConn` | the loop |
| `EpollPoller` | epoll descriptor, `fd_events_` (a cache of what is registered) | `add_fd`, `modify_fd`, `remove_fd`, `wait` | manager and loop |
| `SocketListener` | listening descriptor | `initSocket`, `accept`, `close` | the loop |
| `TimerQueue` | `heap_`, `cancelled_timers_`, `seq_counter_`, timerfd | `addTimer`, `cancel`, `handleRead`, `resetTimerfd` | the loop, user callbacks |
| `Buffer` | `buffer_`, `read_index_` | `add_data`, `fetch`, `get`, `read_able_bytes` | connections and decoders |
| `FrameDecoder`, `Decoder`, `DelimiterDecoder` | the delimiter | `decode_message`, `clone` | `recv_data` |
| `Config` | the resolved settings | defaults, JSON file, command line | start-up |
| `main.cpp` | the loops, their threads, the signal flag | start, wait for a signal, stop, join | the process |
| `benchmark/tcp_benchmark.cpp` | start gate, counters | workers that send and wait for responses | a tool |

### How they interact

`run()` waits in epoll, collects a vector of events and dispatches them one by
one: the listener's to `accept_new_connection`, the timerfd's to
`TimerQueue::handleRead`, the eventfd's to the task queue, the rest to the
connection of their descriptor. A connection calls back into the loop
(`enable_write`, `disable_write`), which updates the poller's cache and the
kernel's interest set. Timer callbacks, tasks and message callbacks are user code
on the loop's thread that may call most of this again. Other threads touch the
task queue, the eventfd and `running_` only.

### What is hard, and what must hold

* Events are collected before any is handled. A handler may close a connection
  and the listener may reuse its descriptor before an old event is dispatched.
  *Must hold:* a connection closes only for a cause of its own; four tables in
  three layers (manager, poller's cache, kernel's interest set, descriptors)
  describe one set of connections.
* Output is partial. A `send` stops at EAGAIN, the rest waits for EPOLLOUT
  and new requests arrive meanwhile. *Must hold:* every complete request is
  answered in full, once, to its own peer; EPOLLOUT is registered exactly while
  output is pending.
* Ends come in every combination: end of stream with data, reset, idle check,
  half-close with output pending. *Must hold:* a deserted or expired connection is let go; a
  graceful close answers what was asked.
* `queueInLoop` pushes inside the critical section and writes the eventfd after
  it; the loop reads the eventfd, then swaps the queue; a round that times out
  does not look at the queue. *Must hold:* no lost wakeup, tasks run once and in
  order, `stop` ends `run` whenever it is called.
* Timers are popped before their callback and pushed again after it, callbacks
  add and cancel timers, and the timerfd is armed for one deadline. *Must hold:*
  cancelled timers never fire, one-shot timers fire once, the timerfd covers
  every waiting timer, every timer fires.
* Consumed bytes stay in the buffer until a threshold. *Must hold:* the buffer
  is a FIFO queue and its dead prefix is bounded.
* `recv` cuts the stream anywhere, several messages arrive at once, and the buffer
  is compacted between two of them. *Must hold:* the messages depend on the stream
  alone, half packets stay, no complete message waits, and decoding ends.
* Start-up and shutdown have many steps that can fail: each loop's constructor
  opens four descriptors, threads start one by one, a signal or an exception can
  come at any time, while other processes take and leave ports. *Must hold:* no loop
  is destroyed under its thread, a failed start leaves no listener, no thread and no
  descriptor that an object owned, the loops do not keep each other from their port, the
  process ends after a signal.
* Settings come from three places and the command line is read twice. *Must
  hold:* the last one wins, the file is the one that was named.
* The benchmark's threads meet at a gate and then block in `recv` without a timeout.
  *Must hold:* nobody starts early, nobody waits for ever, the counts add up.

`PROJECT.json` lists each hazard at its line with the properties that cover it.

## 2. The modules

| module | models | source |
|---|---|---|
| `ByteQueue` | what a buffer promises: a FIFO queue of bytes | `Buffer.h` |
| `Buffer` | vector, read index, compaction; implements `ByteQueue` | `Buffer.cpp` |
| `BufferProofs` | theorems about `Buffer` | |
| `TaskService` | what posting promises: a FIFO of tasks until it closes | `EventLoop.cpp:242-277` |
| `LoopLife` | what `run` and `stop` promise: `run` returns after `stop` and for no other reason | `EventLoop.cpp:102-167, 266-277` |
| `TaskLoop` | posting threads, eventfd, rounds of `run()`, `stop`; implements `TaskService` and `LoopLife` | `EventLoop.cpp:102-167, 242-277` |
| `TaskLoopProofs` | theorems about `TaskLoop` | |
| `Reactor` | dispatch, connections, manager, poller, kernel and peers | `EventLoop.cpp`, `Connection.cpp`, `ConnectionManager.cpp`, `EpollerPoller.cpp`, `SocketListener.cpp` |
| `ReactorProofs` | theorems about `Reactor`: the tables | |
| `ReactorFlowProofs` | theorems about `Reactor`: input, output, closing; extends `ReactorProofs` | |
| `TimerQueue` | timers, timerfd, `handleRead` with callbacks that add and cancel | `TimerQueue.cpp`, `EventLoop.cpp:205-240` |
| `TimerQueueProofs` | theorems about `TimerQueue` | |
| `Framing` | `recv_data`'s decode loop with both decoders, over an instance of `Buffer` | `Connection.cpp:19-63, 111-122`, `decoder/*.cpp` |
| `FramingProofs` | theorems about `Framing`, over an instance of `BufferProofs` | |
| `Config` | defaults, file, command line | `Config.cpp`, `Config.h` |
| `Server` | `main`: settings (extends `Config`), loops and their descriptors, threads, signal, shutdown | `main.cpp`, `SocketListener.cpp`, constructors and destructors |
| `ServerProofs` | theorems about `Server` and `Config` | |
| `Benchmark` | start gate, request loop, report | `benchmark/tcp_benchmark.cpp` |
| `BenchmarkProofs` | theorems about `Benchmark` | |
| `MC*` | instances for TLC | |

Operators whose names contain an underscore followed by a description
(`Decoded_DropRest`, `Stop_NoWake`, ...) are plausible bugs of the definition
that follows them. No specification uses them; replacing the definition by one
shows that the property it is listed with would notice.

### Buffer

`buffer_` and `read_index_` are the variables of the class. `Fetch` is `fetch`:
the clamp to what is there, then `Settle`: reset when everything is consumed,
compaction when the dead prefix reaches the threshold. Bytes are members of a
small set. The refinement maps the queue to the unread suffix.

### TaskLoop and TaskService

One action for each step another thread can interleave with: the push (atomic
under the mutex), the eventfd write after it, and on the loop's side the check of
`running_`, the three ways `epoll_wait` returns (timeout, wakeup, another event),
the eventfd read, the swap, and the start and return of each task. Tasks may post
tasks. `runInLoop` on the loop's own thread runs at once, from another
thread it queues. The eventfd is a counter with a maximum (`EventfdMax`, the
kernel's 2^64 - 2) at which the ignored `write` fails. A task is `<<thread, n>>`,
`posted` and `done` are history.

`loop_thread_id_` is written by `run()` without synchronisation. A posting thread
never finds its own identifier in it, whichever value it reads, so the race has
one outcome in the model: the task is queued.

### Reactor

`connections_` and `fd_events_` are the tables of `ConnectionManager` and
`EpollPoller`; `interest`, `fdTable` and `sock` are the kernel's. `batch` is the
vector of events not yet dispatched, so `HandleRead(fd)` and `HandleWrite(fd)` act
on the connection that has the descriptor *now*. A round is `Poll` (as many
ready sources as `max_events` allows, in any order, with READ before WRITE for one
descriptor) and one action for each event; accepting is one action for each
connection accepted. `ReceiveData` is `recv_data` with the rest of
`handle_client_event`; `SendData` is `send_data` with what both callers do with
its result. The number of units a `send` loop gets rid of is any number that fills the
send buffer or empties the output: the peer may drain meanwhile.

Bytes are counted, not named. A request is `MsgLen` units, its response `RespLen`;
`in` is what is left of an incomplete request and `out` the pending output. That
a response goes to the right peer in the right amount is visible in the counts,
because each peer's `sent` and `got` are its own.

Points where the code decides and the model follows:

* `accept()` on a full descriptor table fails with EMFILE before it looks at the
  backlog. `SocketListener::accept` throws, nothing in `run()` catches:
  `alive` becomes FALSE and the process is gone. Since `accept_new_connection`
  accepts until EAGAIN, this happens with the *last* descriptor given away. Other
  errors (ENFILE, ENOMEM, a failing `fcntl`) end the process the same way at any
  accept: `AcceptMayFail` admits them.
* `recv_data` appends everything up to EAGAIN or the end of the stream. Data
  before the end of the stream is decoded and answered (DATA); only a read that finds
  the end of the stream alone, or a reset, is CLOSE or ERROR.
* An event whose descriptor has no connection any more is dropped.

Abstractions: the eventfd's event and user tasks belong to `TaskLoop`, user
timers to `TimerQueue`; errors of `epoll_ctl` and `epoll_wait` end the process and
are left out; a deletion (epoll, cache, table, close) is one step, because the loop does
nothing in between and another loop cannot get the descriptor before the close,
which comes last; the message callback answers every request, as in `main.cpp`.
Idleness counts periods of the idle check and saturates beyond `IdleLimit`. When time
passes the idle check's timer may expire or not: finding 2 below shows that the timerfd
can be left disarmed.

### TimerQueue

Times are relative to the present, so the state space is finite without a bound on
the clock: `Tick` lowers every deadline by one, lateness saturates at `MaxLate`.
`armed` is the timerfd's remaining time (0: disarmed), `expired` its readable
state. `handleRead` is `ReadTimerfd` (or `ReadFails`, when an
earlier handler of the batch has set the timerfd again), then `SkipCancelled`,
`RunCallback` and `ReturnCallback` until nothing is due, then `EndHandleRead`, which
sets the timerfd for the head of the heap. `AddTimer` and `Cancel` happen wherever
user code runs on the loop's thread, callbacks included. The timer with number 1 is
the idle check the constructor starts. `NextSeq` is the 64-bit counter cut to an `int`, so numbers
repeat after `SeqSpan` (2^32) timers; `TimerQueueAssumption` has fewer.

`resetTimerfd` cuts a duration that is not positive off at 0, and `timerfd_settime`
takes 0 as an order to disarm. `SlowCallbacks` says whether time passes while
`handleRead` runs.

### Framing

A step is one `recv` that returns data (`Receive`) or one evaluation of the decode
loop's condition with its body (`DecodeMessage`). The input buffer is an instance of
`Buffer`, so the decoders read through the read index and `fetch` compacts.
`PrefixEnd` and `DelimiterEnd` are the two `decode` functions up to the point where a message
is made: the number of bytes it takes, or none. The prefix is `PrefixLen` bytes,
`LengthField` is `memcpy` and `ntohl`, and sums are taken modulo `Span` (2^32), as the `uint32_t`
arithmetic of `Decoder.cpp:18` is. When the sum wraps, the string is
constructed from bytes beyond the buffer; that has no defined outcome and the
model ends (`Overrun`).

The reference is `Framed`: the stream is read one byte at a time, and a frame ends with the
first byte that completes it. `FramesOfStream` compares it with what the
callback was given; it does not mention buffers, chunks or searches.

A delimiter is not empty and a chunk not either: `DelimiterDecoder` accepts an empty
one and would then find it without end, and a `recv_buffer_size` of 0 makes `recv`
return 0, which looks like an end of the stream. The code's own delimiter and default
exclude both. `message_callback_` is set, as `main` does; without it nothing is decoded.

### Config and Server

`Config` follows `init`: the scan for `--config`, the file, then one argument for each
step of the parse. Arguments are words, the file is absent, not JSON, or keys with values of
which some are not numbers. A JSON number is converted to `int` by dropping what does
not fit (`ToInt`); `stoi` refuses instead. Nothing catches what is thrown here, so the
process terminates. `config_path` ends up as the *last* `--config`, although the *first* one was
loaded; nothing reads it afterwards.

`Server` is `main`. The constructor of an `EventLoop` is one action for each system
call, each of which can fail for any reason (`BuildFails`, with the unwinding C++ does:
`Unwound`). `eventfd` and `timerfd_create` keep a -1 that is noticed only in the body of
the constructor. `ResizeEvents` is the table of events, made after `epoll_create1`: a
negative `max_events` makes it throw, and so may a large one. What no destructor closes then is
`Unowned`: `wakeup_fd_`, an `int` that only `~EventLoop` closes, and `epoll_fd_` as long as
`EpollPoller`'s own constructor has not returned. Port and number of threads are cut to
16 and 32 bits as the code does.

Ports are shared with the rest of the machine: other processes bind and close ports of
`OtherPorts` at any time while the loops are built (`OthersBind`, `OthersClose`). `InUse` is the
kernel's rule for `bind`: a port can be bound twice only if both sockets share it. With
`SO_REUSEADDR` set, a port that is only bound may still be taken by another process that
listens first, so a port counts as the server's from `Listen` on (`Listening`), and `Listen` fails
if it was lost before.

A loop's thread is created, enters `run()`, returns from it after `stop()`
(`LoopLife`'s promise, which `TaskLoop` is shown to implement) or ends the process by an
exception. `LoopLife` is thus the link between `TaskLoop` and `Server`. A thread
that cannot be created while others run terminates the process, because their
`std::thread` objects are destroyed joinable.

After `UseConfig` the model forgets arguments and files, which no later code reads.

### Benchmark

The gate is mutex, `ready`, `start` and a condition variable: `LockGate`, `Arrive`,
`Check` (the predicate, under the mutex), `Park` (releases it and blocks in one step, as
`wait` does), `WakeSpuriously`, and main's `OpenGate` and `NotifyWorkers`, which comes
after the mutex was released. A worker then sends in pieces, receives in pieces, compares and
counts. The vector of latencies is sorted by `Sorted`, which is any sequence with the same
elements that ascends, as `std::sort` promises. Of the percentiles P50 is modelled; P99 is
the same function with another factor. The server is modelled from what the loop promises: it answers a
request once, perhaps with other bytes, or hangs up at any time. That `emplace_back` of a
worker's thread throws, which terminates the program, is left out.

`docs/benchmark.md` reports no errors, but the benchmark sends length-prefixed messages
of letters, and `main.cpp` installs a `DelimiterDecoder`, which finds no
delimiter in them: with that server only `HangUp` ever happens (the idle check). The model
covers both servers, and `BenchmarkEnds` holds with either.

## 3. The runs

| run | instance | shows |
|---|---|---|
| `buffer` | two byte values, threshold 3, at most 5 unread bytes, chunks of up to 2 | FIFO refinement, bounded dead prefix |
| `taskloop` | two posting threads (2 and 1 tasks), the loop posting 1, main and the others stopping | order, no lost wakeup, two refinements: tasks, and `run` and `stop` |
| `reactor` | two peers, three descriptors, 4 and 1 units sent, `accept` may fail | the six safety properties of the reactor |
| `reactor_full` | three peers, two descriptors, `accept` fails for want of them only | the process ends out of descriptors only when open connections hold them all |
| `reactor_live` | two peers, `accept` may fail, fairness | requests are answered, deserted connections reaped, expired ones once the idle check's timer has expired |
| `reactor_half_close` | one peer | **violation**, see below |
| `timerqueue` | delays in the past, present and future, slow callbacks | cancellation, one-shot, no early firing |
| `timerqueue_live` | delays in the future, quick callbacks, fairness | the timerfd covers the heap, every timer fires |
| `timerqueue_disarmed` | slow callbacks, fairness | **violation**, see below |
| `framing` | three byte values, streams of up to 7 bytes in chunks of 1 and 2, four delimiters, prefixes of 2 bytes, sums modulo 9 | messages and rest depend on the stream alone, nothing is lost, half packets stay, decoding ends |
| `server` | three settings, command lines of up to four words, three file systems, 11 descriptors, 4-bit ints, ports modulo 7, of which other processes want three | precedence of settings, loops outlive threads, what a return leaves open, shared port, shutdown |
| `benchmark` | two workers, two requests of two bytes, two latencies | gate, no missed notification, counts, median, end |

### Findings

1. **A half-closed peer can lose the rest of its response**
   (`HalfCloseCompletes`). `README.md` 5.2 says that with a peer which shut down its
   sending side pending output is written before the clean-up. When the response does not fit
   the send buffer, the first READ event reports DATA and part of it stays
   pending; the descriptor is still readable (end of stream), so the next round's READ
   event makes `recv_data` return CLOSE (`Connection.cpp:63`) and
   `handle_client_event` (`EventLoop.cpp:85`) deletes the connection with the output in it.
   What does hold is `GracefulCloseAnswersAll`: without output left from an
   earlier round, the answers are complete.
2. **The timerfd can be disarmed for good** (`IdleCheckRecurs`). If the
   earliest deadline comes while `handleRead` runs, the last `resetTimerfd`
   computes a duration of 0 (`TimerQueue.cpp:97`) and disarms the timerfd. A later
   timer arms it only if it is earlier than the head of the heap, so the idle check
   and all other timers may never run again.
   `runAt` with a time of the past and `runAfter(0)` have the same effect at once.

### Bounds, and why they are enough

* *Buffer:* the threshold and the chunk lengths are chosen so that every branch of
  `fetch` is taken with an index below, at and above the threshold, and a fetch
  asks for more than is there. The proofs hold for every threshold.
* *TaskLoop:* two posters race with each other and with the loop at every step; an
  eventfd maximum of 2 makes the failed write happen; the loop's own task posts a
  task. `stop` is called once: a second call only writes to the eventfd again. The
  proofs hold for any number of threads and tasks.
* *Reactor:* two sockets and three descriptors let a descriptor change hands while
  an event for it waits; a request of two units and a response of three with a send
  buffer of one give half requests, several requests in one read, partial sends and several
  EPOLLOUT rounds. `MaxSent` bounds how much a peer sends, all other
  counters are bounded by it. In `reactor_full` the batch is smaller than
  the set of ready sources. Descriptors are interchangeable in the safety runs
  (symmetry); the liveness run uses none.
* *TimerQueue:* up to four timers wait at once in every order of deadlines; `MaxLate` 2 tells a timer one period late from a timer two periods late.
  Sequence numbers are not reused below `SeqSpan` (8 here, more than the timers), so the bound only
  limits how often the same situations recur.

* *Framing:* the threshold of 3 makes compactions fall inside the decode loop; the delimiters
  include ones that overlap themselves and one that repeats itself like the
  server's; 7 bytes hold three messages. `Span` is 9 so that a prefix of two ternary digits
  can announce lengths whose sum wraps to 0 and 1.
* *Server:* four words hold two options with values, or an option as another's
  value. Four descriptors make a loop, so 11 are used up inside the third; the files ask
  for 3 loops (19 in four bits), the default is 2, and -1 asks for more than
  there can be; `--max-events -1` makes the table of events fail. Other processes want the default port,
a configured one, and one that only port 0 (the kernel's choice) can give.
* *Benchmark:* two workers are the fewest for which one can be through the gate too
  early, and two requests the fewest for which a partial count differs from none.

Deadlock is checked for `Buffer` and `TimerQueue`. `TaskLoop` ends when `run()`
returns, `Reactor` stops when its peers are done or the process is gone, `Server` and
`Benchmark` end with their process, and `Framing` when the peer has sent
everything: there the check is off.

### Fairness, and why the code justifies it

* `TaskLoop`: weak fairness of the loop's steps, because its thread is scheduled, and of
  each pending eventfd write, because a thread inside `queueInLoop` or `stop` goes
  on. None for timeouts (`epoll_timeout_ms` may be -1), for other events or for posting.
* `Reactor`: weak fairness of the loop and of each peer's reading. Nothing is assumed of
  sending, leaving, or the idle check's clock. The liveness run has
  `MaxEvents` no smaller than the number of sources: the kernel rotates its
  ready list, so no source is left out for ever, and with the larger batch that needs no
  model of the list.
* `TimerQueue`: weak fairness of the loop and of time.
* `Framing`: weak fairness of the decode loop, which runs without blocking once `recv` has
  found the socket empty. None of sending.
* `Server`: weak fairness of main and of each thread. None of signals (`ShutdownCompletes`
  starts from one) and none of other processes. That a stopped loop returns is `LoopLife`'s fairness, which
  `TaskLoop` implements under its own.
* `Benchmark`: weak fairness of each thread, strong fairness of taking the mutex, because it is
  free again and again but not without interruption and the kernel's futex
  queue serves every waiter. None of spurious wakeups. The server answers or hangs up in the
  end. This is an assumption: `Reactor`'s liveness gives the answers, but hanging up on an idle
  client rests on the idle check, which finding 2 can stop.

## 4. The proofs

| theorem | for every |
|---|---|
| `BufferTypeOK`, `BufferDeadPrefix`, `BufferRefinement` | threshold, chunking, length of run |
| `TaskLoopTypeOK`, `TaskLoopOrder`, `TaskLoopWakeup`, `TaskLoopRefinement`, `TaskLoopLife` | number of threads, tasks, eventfd maximum |
| `ReactorTypeOK`, `ReactorTablesAgree`, `ReactorWriteInterest` | number of peers and descriptors, lengths, send buffer, batch size |
| `ReactorOutputMatchesInput`, `ReactorClosedForCause`, `ReactorGracefulClose`, `ReactorDiesOnlyWhenFull` | the same |
| `TimerQueueTypeOK`, `TimerQueueCancelled`, `TimerQueueOnTime` | set of delays (past ones too) and intervals, slow callbacks or not, fewer than 2^32 timers |
| `TimerQueueCovered` | set of positive delays, callbacks that take no time, fewer than 2^32 timers |
| `FramingTypeOK`, `FramingStreamConserved`, `FramingNoMessageWaits`, `FramingHalfPacketsKept` | stream and way of cutting it, delimiter, length of prefix, threshold |
| `FramingFramesOfStream`, `FramingEachTurnConsumes` | the same, with fewer than 2^32 bytes in the buffer |
| `FramingInputIsBuffer` | the same as the first four |
| `ServerTypeOK`, `ServerLoopsOutliveThreads`, `ServerReturnsClean`, `ServerLoopsShareThePort`, `ServerEachLoopLives` | number of threads, settings, descriptor limit, failure of a system call or a thread, ports that other processes bind and close |
| `ServerLastSettingWins` | set of flags, command line, file |
| `BenchmarkTypeOK`, `BenchmarkGateHolds`, `BenchmarkNoMissedNotify` | number of workers, spurious wakeups |
| `BenchmarkResultsAddUp`, `BenchmarkMedianReported` | number of workers and requests, message length, latencies |

The assumptions are those named `...Assumption` in the modules: types of the
constants, and these facts. `ConfigAssumption`: flags are distinct and none is `--config` or
`--dump-config`, `stoi` refuses the word `--config`, and the numbers in a file are integers;
`Config.cpp` has all four (a JSON number that is not an integer is cut to one first).
`TimerQueueAssumption`: fewer than 2^32 timers are made, because
`TimerQueue.cpp:23` cuts their number to an `int`.
`FramingAssumption`: a chunk and a delimiter are not empty (section 2), and a prefix is
shorter than 2^32 bytes. `BenchmarkAssumption`: there is at least one worker, request and byte,
which the benchmark's own checks of its options enforce.

*Buffer.* The index never passes the end and stays below the threshold; the
refinement needs that the unread suffix of an extended vector is the extended suffix,
and a suffix of a suffix a suffix (`SuffixOfConcat`, `SuffixOfSuffix`).

*TaskLoop.* `NoLostWakeup` speaks of a loop that is about to block. It is not inductive: a
task may also be queued while the loop is between `epoll_wait` and the swap, and the
wakeup it relies on may be an eventfd count or a write still to come.
`WakeupInv` states both, with the same for `stop`. Order is one equation, `posted = done \o
local_tasks \o tasks_`, kept by associativity of concatenation. Both refinements follow
from the same invariant step by step.

*Reactor, tables.* `TablesAgree` is inductive together with the types of the tables:
every handler is a deletion, an update of one connection, or an insertion
(`DeleteKeeps`, `UpdateKeeps`, `AcceptKeeps`), and each changes the four tables
together. A deletion closes the sockets of its descriptors only because no two
descriptors share a socket. `WriteInterestIffPending` follows from
`EventsFollowOutput`: between handlers a connection's own events are the ones its
pending output calls for, and the poller's cache, which decides whether the kernel is
told, agrees with the kernel.

*Reactor, flow.* `OutputMatchesInput` speaks of one connection in terms of what its socket
counts. The invariant `FlowInv` says where every unit is: the undecoded rest is the
remainder of what was read (`Balanced`), and response units that the peer has, the send
buffer holds, or the connection still has to send make up what the read requests call for.
`DivAdd` is the step of it: decoding the rest together with what comes next decodes as
much as decoding the whole, so it does not matter where reads cut. `Lingers` says that a
connection outlives the end of its peer's stream only for its output, which makes
every close one for cause, in spite of stale events and reused descriptors.
`DiesOnlyWhenFull` counts: sockets and descriptors correspond one to one, so all
descriptors taken means as many open connections.

*TimerQueue.* `CancelledNeverFires` needs that a revoked timer still in the heap, or
running and about to go back, carries its mark (`RevokedInv`). A mark is erased when a
timer is skipped, so this rests on sequence numbers being unique among the heap and
the running timer (`SeqInv`). `FiresOnceAndOnTime` adds `OneShotInv`. `TimerQueueCovered`
has the two premises without which the property fails (finding 2); it shows that
arming only for a new earliest deadline is enough.

*Framing.* `FramingInv` conjoins the four invariants; each turn of the loop takes the first
front of the buffer that is a message (`FrameEndIsFirstFrame`), whether the decoder looks for a delimiter
or reads a length. `FramesOfStream` compares the result with `Framed`, which is a recursive
function of the stream. The module defines what such a function is by the equation it obeys
(`Scan`); that the equation has a solution, and only one, is proved with a least counterexample
(`ScanUnique`, `ScanExtends`), which needs no induction over data. The invariant
`FramesInv` then says that the consumed bytes scan to exactly the frames that were made,
with an empty rest, and at the end of the loop the unread bytes are the rest.
The premise `[]BelowSpan` is the honest one: with 2^32 buffered bytes the 32-bit sum of
`Decoder.cpp:18` can wrap to a length that is there, and the property fails.
`FramingInputIsBuffer` composes: each step of `Framing` is a step of its `Buffer` or leaves it
alone, so the theorems of `BufferProofs` hold of the input buffer of a connection.

*Server.* `ServerInv` says which descriptors belong to which loop until main destroys
them (`LoopsWhole`), that failures come before the first thread (`FailuresEnd`), and that a thread
that has not returned has its loop (`ThreadsHaveLoops`). `ReturnsClean` holds because what a
constructor that throws leaves open belongs to the one loop that was not complete. For
`LoopsShareThePort`, `ListenersShare` says that every listener has `SO_REUSEPORT` before it is bound,
and `PortsHeld` that the bound ones are at the configured port and that no other process has
the port of a listening one; others can take it only while no loop listens there. `LoopsFit` counts
descriptors, so that the number of loops is never more than there is room for. `EachLoopLives`
says that main drives each loop as `LoopLife` allows, which is the promise `TaskLoop`
implements: the two modules meet there. `LastSettingWins` is about two readings
of one command line. Its invariant `SettingsInv` relates the settings so far to the words
parsed so far, and `ScanAgrees` is why the file that was loaded is the one the property
names: for the words where the two rules differ, the parse would have thrown.

*Benchmark.* `GateInv` counts the workers that have arrived and says who may own the mutex; a
notification cannot be missed because a thread goes from its predicate to the wait
without giving the mutex away. `TrafficInv` bounds what is under way to one message for each
connection, so counts, latencies and errors agree at each step. The report adds and
joins with folds over the set of workers: `SumValues` and `JoinOf` unfold them, again with a least
counterexample, now over finite sets ordered by size. `MedianReported` counts the
elements at either side of the chosen index, and a permutation keeps such counts.

Only model-checked: liveness, since fairness and ENABLED are out of the prover's reach.
These are `RequestsAnswered`, `DoomedConnectionsReaped`, `TimersFire`, `DecodingEnds`
(its safety half is `FramingEachTurnConsumes`), `ShutdownCompletes`, `BenchmarkEnds`, and the
liveness parts of `ImplementsTaskService` and `ImplementsLoopLife`. TLC checks
every other property of the runs as well as the prover.

## 5. Not modelled, and why

* `nlohmann/json.hpp`: a vendored third-party parser of 24765 lines, far more than the
  rest of the system. `Config` uses three facts of it: text that is not JSON throws,
  a number is converted with `static_cast` (lines 4967-4991), any other value throws. A model of
  the parser itself would say nothing about this library.
* `Logger`: formatting and output. Tests, scripts and workflows: read as documentation.
* `setCloseCallback`: stored, never called. `peek`: no caller. `Config::print`: output.
* Calling timer functions from other threads: they have no lock, and a data
  race there has no outcome to model; the code calls them on the loop's thread.
* Errors of `epoll_ctl` and `fcntl` after start-up: they throw and end the process, which in
  `Server` is `RunThrows`.
* `README.md` 3.1 speaks of a single `EventLoop`; the models follow `main.cpp`, which runs one for
  each thread. They share nothing but the port.

## 6. Plan

1. `TimerService`: an abstract service of timers (asked for, cancelled, fired) and the
   proof that `TimerQueue` implements it.
2. User timers inside `Reactor`'s batches: a callback that closes connections between two
   events of one batch.
3. `Reactor` as one queue of requests and answers for each peer, which needs `FlowInv` as the
   refinement's invariant.
