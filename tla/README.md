# GameFrame: TLA+ models, checks and proofs

GameFrame is a small C++ network library in the style of muduo: an
edge-triggered epoll reactor, one loop per thread, with timers, TCP
connections, a multi-reactor server, a client, and on top of them a logging
pipeline, an RPC codec and an HTTP server.  This directory models the
concurrent core of that library and the protocols above it, checks the models
with TLC and proves the most important results with TLAPS.

    tlc -config MCEventLoop.cfg MCEventLoop      (likewise for the other .cfg files)
    tlapm EventLoopProofs.tla                    (likewise for the other *Proofs)

`PROJECT.json` holds the list of runs, the map from every definition to the
lines it models, the hazards, the findings and the mutants.

## 1. Inventory

Paths in this file are relative to the repository's root (`src/` there is the
library); `PROJECT.json` and the comments in the modules put the directory that
holds the repository, also `src/`, before them.

| Component | State | Operations | Correct when |
|---|---|---|---|
| EventLoop (`src/event_loop.*`) | `quit_`, `pending_functors_` under a mutex, `calling_pending_functors_`, an eventfd, an epoll set | `loop`, `quit`, `run_in_loop`, `queue_in_loop`, `wakeup`, `do_pending_functors` | a posted functor runs once, in order, soon; a quit ends the loop |
| Channel (`src/channel.*`) | interest `events_`, registration state, `tie_` | `handle_event`, `enable_/disable_*`, `update`, `remove` | interest and epoll agree; no dispatch to a dead object |
| TimerQueue (`src/timer_queue.*`) | ordered set `timers_`, index `id_to_iter_`, one timerfd | `run_at`, `run_after`, `cancel`, `handle_read` | each timer fires once, in order, not before its time, unless cancelled |
| Connection (`src/connection.*`) | `state_`, two buffers, `shutdown_pending_`, its Channel | `start`, `send`, `shutdown`, `close`, `force_close_with_delay`, `handle_read`, `handle_write` | bytes in order, half-close after the last byte, no lost edge, back-pressure lifts |
| TcpServer (`src/server.*`) | `connections_` (fd to connection), the accept channel, callbacks | `handle_accept`, the close callback, `remove_connection_in_loop`, `run`, destructor | the table follows descriptor reuse across threads, does not leak; each disconnection is reported |
| EventLoopThread(Pool) (`src/event_loop_thread*.cpp`) | `loop_`, a thread, round-robin `next_` | `start_loop`, `next_loop`, destructor (quit, join) | the handshake never returns a null loop; destruction joins |
| TcpClient (`src/tcp_client.*`) | connecting fd and channel, connection, retry delay, retry timer | `connect`, `disconnect`, `handle_connect_writable`, `schedule_retry` | one attempt at a time, bounded backoff, nothing after `disconnect` |
| MPSCQueue (`util/mpsc_queue.h`) | ring, `has_pending_`, `dropped_` | `push`, `drain`, `take_dropped` | bounded FIFO, no lost edge notification, exact drop count |
| LogSender (`log_sender/`) | the MPSC queue, a TcpClient, tick timers, paused flag, the global pointer | `LOG_*`, `push`, `on_tick`, `do_drain_and_send`, `start`, `stop`, `on_connection`, `on_high_water`, `on_write_complete` | a message is sent in order or its loss is accounted for; back-pressure lifts; a failing log_server does no harm |
| Buffer, LengthPrefixedCodec, RpcCodec (`util/`, `rpc/`) | bytes between two indices | `append`, `ensure_writable`, `retrieve`, `encode`, `decode` | decoding a stream cut anywhere gives back the frames, and a bad one ends it |
| HTTP (`http/`) | parser state and request per connection | `parse`, `on_message`, `on_request` | incremental parsing equals parsing the whole; responses in order, none after one that closes |
| LogFile, log_server (`log_server/`) | current file, size, date, sequence number, stdio's buffer | `append_line`, `flush`, `roll_if_needed`, `scan_today_max_seq` | files are only added to and read in order give what was written, over restarts and days |

How they interact.  Every object belongs to one loop thread and is touched only
there; other threads reach it by `run_in_loop`, which appends a functor under
the loop's mutex and writes the eventfd.  The kernel calls back through epoll,
edge-triggered.  A TcpServer accepts on its mainLoop, gives each connection to
a subLoop, and gets it back by a functor when it is closed; `connections_` is
touched by the mainLoop only.  Lifetimes are held by `shared_ptr`s in that
table and in functors.  A LogSender couples producers on any thread to one loop
through the MPSCQueue and its edge flag, and a TcpClient to the log_server, whose
message callback takes frames out of a connection's input buffer and gives the
lines to a LogFile.

What is hard.  Interleavings between a foreign thread and the loop (wakeups,
quit, signals); edge-triggered events that come once; user code re-entering
the objects from callbacks (timers added in a timer callback, `close` inside
`handle_read`); a descriptor number that is reused by another thread as soon as
it is closed; work posted and not yet run when the next event arrives; a
connection that fails inside the call that uses it; byte streams cut anywhere; a
process that is killed between two writes and starts again.
`PROJECT.json` lists these as hazards, each at its line.

## 2. Modules

| Module | Models | Used by |
|---|---|---|
| `TaskExecutor` | abstract: what an EventLoop promises to those who post to it | refined by `EventLoop` |
| `EventLoop` | `event_loop.cpp`: loop, functors, eventfd, epoll's ready list, signals | `MCEventLoop`, `EventLoopProofs` |
| `BoundedFifo` | abstract: what an MPSCQueue promises | refined by `MPSCQueue` |
| `MPSCQueue` | `mpsc_queue.h` with LogSender's notification and drain order | `MCMPSCQueue`, `MPSCQueueProofs` |
| `TimerQueue` | `timer_queue.cpp` with timerfd and clock | `MCTimerQueue`, `TimerQueueProofs` |
| `Connection` | `connection.cpp`, `channel.cpp`, `update_channel`/`remove_channel` | `MCConnection`, `ConnectionProofs` |
| `TcpServer` | `server.cpp`, `next_loop`, several loops, descriptor reuse | `MCTcpServer`, `TcpServerProofs` |
| `TcpClient` | `tcp_client.cpp` with the kernel's handshakes and the loop's batch | `MCTcpClient`, `TcpClientProofs` |
| `LogSender` | `log_sender.cpp`, `logging.h`, the owner in `main.cpp`; composes the promises of the queue, the loop, the client and the connection | `MCLogSender`, `LogSenderProofs` |
| `LogFile` | `log_file.cpp`, the flush timer of log_server, kills and restarts | `MCLogFile`, `LogFileProofs` |
| `Buffer` | `buffer.h` and the read loop of `Connection::handle_read` | `LengthPrefixedCodec` |
| `LengthPrefixedCodec` | `length_prefixed_codec.h` | `RpcCodec` |
| `RpcCodec` | `rpc_message.h` | `FrameReceiver` |
| `FrameReceiver` | a connection that carries frames; log_server's message callback, `decode_all` of the RPC test | `MCFrameReceiver` |
| `HttpServer` | `http_context.h`, `http_server.cpp`, `keep_alive` | `MCHttpServer` |

### EventLoop

`lpc` is where the loop thread is: before `loop()`, at the test of `quit_`
("check"), about to call or asleep in `epoll_wait` ("enter", "blocked"),
dispatching, inside an I/O callback, between functors or inside one.  A foreign
thread's `queue_in_loop` or `quit` is two steps, because `wakeup()` comes after
the lock is released or the flag stored.  The eventfd's counter and epoll's
ready list are separate variables: reporting a channel takes it off the list, a
write puts it back, and at most `MaxEvents` (the code's `kMaxEvents`) are
reported in one call, so that the wakeup may be left for the next.  The owner
thread may itself queue, run inline, or quit: in callbacks and functors, before
`loop()` and after it.  `early`, a history, holds what it queued before `loop()`,
for which nobody writes the eventfd.  A signal runs `quit()` on the loop thread at
any point and interrupts only a thread that is asleep.

### MPSCQueue

One action per locked region or atomic operation.  `PushStore` and `PushFull`
are the locked region; `CountDrop` is `dropped_.fetch_add` and `RaiseFlag` the
compare-and-swap, both after the lock.  `wakes` are the functors
`LogSender::push` posts.  `WakeConsumer` is one that passes the gates of LogSender
(started, not stopped, connected, not paused), `WakeSkipped` one that does not: it
is used up, and `missed` remembers it until the next drain if the flag was up.  The
gates themselves are state of LogSender and open and close at any time here.
`Tick` is a tick of the timer, or the last drain of `stop_in_loop`, that passes;
one that does not changes nothing.  The consumer takes the drop count before it
drains.

### TimerQueue

`timers` is the ordered set, `index` the map from ids to entries, `deadline` and
`ticks` are the timerfd.  `reset_timerfd` rearms it and, as `timerfd_settime`
does, forgets an expiry not yet read.  Calls from other threads become functors
in `pending`.  The batch of `handle_read` is the variable `expired`; callbacks
run with user code adding and cancelling in between, and the timerfd is set
again only at the end.

### Connection

`pc` is where the loop thread is inside this connection's dispatch: waiting,
before a branch of `handle_event_with_guard`, in a handler, in `message_cb`, in
some other callback.  `sock`, `rx`, `eof`, `rst`, `sndbuf`, `wire` are the
kernel's socket, `edge` its place in epoll's ready list.  Sent bytes carry their
number, so order can be stated; received bytes are counted.  The functors for
`high_water` and `write_complete` are in `functors`, as posted.  `FdReused` is
another thread being given the number of the closed descriptor.

### TcpServer

Loop 0 is the mainLoop.  `handle_accept` is one turn of the accept loop;
`close` and `close_cb` are two steps on a subLoop, because the mainLoop can
accept the same number between `::close(fd_)` and the removal being posted, and
one step on the mainLoop, where `run_in_loop` calls at once.  `batch` holds the
raw `Channel*` of an `epoll_wait`; `Alive` says who owns a `ConnectionPtr`.
`num_threads` is chosen in `Init`, so that the single-reactor mode is covered
by the same run.

### TcpClient

`connection_cb_` is user code and may call the client again, so the calls in
progress are a stack, `frames`: `Established` and `close` push one and end the
step there, `UpReturn` and `DownReturn` are what the code does once the callback
returns.  `life` is "dying" between the two halves of the destructor.
`reported` says whether the loop's current batch holds the address of
`connect_channel_`, and whether the channel has been destroyed since
("dangling"); dispatching it then is undefined behaviour, and the model stops
there (`DanglingEvent`).  A retry timer captures the client by address, so one
that fires after the destructor is an action of its own, `RetryTimerTooLate`.
`strayed` remembers that `start()` was called on a connection its callback closed.

### LogSender

The parts it is built from appear as what they promise and what their own modules
show: the queue as a bounded FIFO with the edge flag (`BoundedFifo`), the loop as
functors run in order (`TaskExecutor`), the client as one that keeps trying
(`KeepsTrying`), the connection as an output buffer in order (`OutputInOrder`)
whose `high_water` and `write_complete` callbacks are posted.  `functors` holds
what is posted, `ticks` the number of tick timers set; they have one delay, so the
oldest fires first and `tick_timer_id` names the newest.  A logging thread reads
`g_instance_`, pushes and posts the wakeup in three steps.  The owner is `main`:
`start`, `set_global(this)`, `set_global(nullptr)`, `stop`, the destructor.

`send_batch` is one step of the loop thread.  It writes some messages and buffers
the rest (`SendSome`), or a write fails after some (`SendFails`): the connection
closes inside the call, `on_connection` resets `connection_`, and if a message is
left the code dereferences a null pointer; there the model stops, with the reason
in `fault`.  It stops as well when a functor or a timer uses a destroyed sender.
A reconnection comes after the functors the lost connection posted, because the
first retry waits 500 ms and functors run in every turn; without that, a stale
`high_water` would pause the new connection, which nothing would resume, since
neither callback looks at its argument.

### LogFile

`disk` maps day and number to the parts written to that file, `buf` is what stdio
holds of the open one.  `append_line` is three calls of `append`, each with a look
at the clock, a possible change of file and a write, so the day may change and the
process be killed between any two.  `open_file` may fail.  `log`, a history, is
everything written except what stdio held when a process was killed.

### Buffer, LengthPrefixedCodec, RpcCodec, FrameReceiver

`Buffer` has the vector and the two indices, and `ReadAll` the read loop that makes
room and reads until nothing is left.  The codecs work on bytes.  The constants
are small instances of the code's (`kInitialSize`, `kPrependSize`, the 4096 bytes
of room, the frame limit, the longest method).  `FrameReceiver` chooses a sender
and its traffic in `Init` and then lets the bytes arrive in any pieces, with or
without the end of the stream behind the last.

### HttpServer

A line's text is one token, and CR and LF are tokens, so a cut may fall between
them.  `parse` is `HttpContext::parse` on the parser's state, the request and the
buffer; `on_message` serves at most one request and resets the parser; `Respond`
is `send`, which does nothing unless `kConnected`, and `shutdown` or `close`
behind it.  The client sends lines whether they make sense or not.

## 3. Runs

| Run | Result | What it shows |
|---|---|---|
| `event_loop` | pass | no wakeup is lost (functors queued by the owner before `loop()` have none), the loop implements `TaskExecutor` with its liveness, and a quit outside one window ends the loop |
| `mpsc_queue` | pass | bounded FIFO and drop count; edge notification, up to a drain that stops short or a wakeup that meets a closed gate |
| `timer_queue` | pass | timers are never lost, fire in order and eventually; a cancel that finds its timer is final |
| `connection` | pass | order, write interest, half-close, edges, end of file, back-pressure |
| `tcp_server` | pass | the table under descriptor reuse, no leak, lifetimes of a subLoop's batch, reporting of closes |
| `tcp_client` | pass | one socket at a time, `disconnect()` is final, callbacks are true, retries go on as long as they are wanted |
| `log_sender` | pass | `NothingVanishes`: a message is written, buffered, queued, refused and reported, or was in the buffer of a connection that failed or was stopped, and order is kept; `PausedIsLifted`: no pause outlives what it waits for; `QueueIsSent`: what is queued is sent in the end |
| `log_sender_send` | violation of `SendSurvivesFailure` | a write that fails inside `send_batch` makes the next message go through a null `connection_` |
| `log_sender_ticks` | violation of `StopCancelsTicks` | every wakeup adds a chain of ticks that does not end; `stop()` cancels one of them |
| `log_file` | pass | `AppendOnly`: no file is cut or overwritten; `FilesTellTheStory`: files in the order of their names hold what was written; `NoFileOverfull`: `written_bytes_` is the size; `KillCostsOneInterval` |
| `frame_receiver` | pass | however the stream is cut, the frames that are complete are delivered, nothing after a bad one, and what a callback leaves in the buffer of an open connection is less than one largest frame |
| `http_server` | pass | `ServedInOrder`: requests are those between the empty lines, each with its own headers; `CloseIsLast`; `WaitingClientIsAnswered` |

The two violations are disagreements between the code and a comment in it; the
`findings` of `PROJECT.json` quote the lines.

### Known limits

What the passing properties leave out, and what the code does there.  The first
eight are stated in the modules as properties that do not hold: added to the cfg of
the module's run, TLC shows the behaviour.

* `EveryPostWakes` (EventLoop): `queue_in_loop` on the owner thread before `loop()`
  writes no eventfd (`event_loop.cpp:169`), although `docs/ARCHITECTURE.md:126` and
  `docs/INTERVIEW.md:148` say it always does, and `loop()` sleeps before it looks at
  the queue.  The functor waits for the first event of any kind.
  `NoLostWakeup` exempts a queue of nothing but such functors, and `TaskExecutor` is
  fair only once something else was posted; then the early ones run too, in their
  place.  Nothing in the repository queues that early: `connect()` and the timer
  calls before `loop()` use `run_in_loop`, which calls at once.
* `EveryQuitStops` (EventLoop): a signal between the test of `quit_` and the sleep
  in `epoll_wait` is noticed only at the next event, although
  `log_server/main.cpp:103` relies on the interruption.  `PromptQuit` excludes
  exactly that window.
* `PostedBeforeQuitRuns` (EventLoop): what is posted just before `quit()` may
  never run, although `server.cpp:57` and `65-66` rely on it.
* `CancelledNeverFires` (TimerQueue): a cancel on the loop thread overtakes another
  thread's queued add, or finds the timer in the batch in progress.
* `NothingAfterClose` (Connection): after `error_cb` closed the descriptor, the read
  branch may read a socket that was given the same number.
* `EveryCloseIsReported` (TcpServer): a disconnection whose descriptor was accepted
  again first is not reported.  `CloseIsReported` exempts exactly those.
* `OrderlyDestructionIsSafe` (TcpClient): a client destroyed after `disconnect()`,
  as `LogSender::stop_in_loop` does, leaves a retry timer that reads it.
* `StartsWhatIsOpen` (TcpClient): `start()` follows `connection_cb_` also when the
  callback closed the connection (`tcp_client.cpp:233`), and `update_channel` asks
  epoll to add a number that is closed or that another thread has been given.  What
  epoll then does with it is not modelled, and the properties of `tcp_client` speak of
  the client's own state only.  The same order on the server's side
  (`server.cpp:166-168`) is outside `Connection`, whose user code begins with
  `start()`: the repository's callbacks neither send nor close before it.
* `NoItemStranded` and `AcceptedIsDrained` exempt what comes after a drain that stopped
  at `max_batch` and after a wakeup that met a closed gate of LogSender
  (`log_sender.cpp:140`, `162`, `169`), up to the next drain: the flag is still up,
  later pushes are silent, and the items wait for a tick.  That they are sent in the
  end is `QueueIsSent` of `LogSender`, which has the gates and the timer.
* `SubLoopBatchIsAlive` speaks of subLoops: on the mainLoop (single-reactor mode)
  a close removes the connection at once and frees a channel that may come later
  in the same batch; `event_loop.cpp:127-131` records that risk.  And it exempts
  overwritten entries, where the mainLoop drops the last owner but the queued
  removal.
* `NothingVanishes` counts what `stop()` throws away (`discarded`): `disconnect()`
  closes at once what `shutdown()` left to be written, although
  `log_sender.cpp:104-105` says that the buffer is emptied first.
* `FilesTellTheStory` and the second half of `NoFileOverfull` hold while the date
  does not go back.  When it does, the code reopens number 1 of that day, full or
  not, and adds to it.  They also need every file number to be one that
  `scan_today_max_seq` accepts (`NumbersInReach`; the code's limit is 1000000):
  rolling does not stop at that limit, and a process that starts on a day with a
  higher number continues a file that is not the last.  TLC shows both failures with
  `kMaxSeq` 1 or 2 and the condition removed; no proof goes through without it.  A
  line may be split over two files: every part looks for a change of file.
* `LeavesLessThanAFrame` is about what stays in the buffer after the callback.
  `handle_read` reads until the socket is empty before it calls back
  (`connection.cpp:70-93`), so while a peer sends faster than it is read the buffer
  may grow without a limit in between.
* `DeliversWhatArrived` speaks of open connections: log_server throws away the good
  frames that its callback decoded together with a bad one.  `encode` accepts what
  `decode` refuses (an empty payload, one above the limit), so a sender can close
  its own connection with it.
* `WaitingClientIsAnswered` excludes clients that pipeline: a second request that
  came with the first stays in the buffer until more bytes arrive.  Bodies are not
  parsed: what follows the empty line is taken for the next request.  Requests
  behind a response that closes still reach `http_cb_`, and their answers are
  dropped.

### Bounds

* `event_loop`: two foreign threads (two can race each other as well as the
  loop), three functors (one running, one swapped, one queued), one I/O channel
  against the wakeup channel for `MaxEvents = 1`, the smallest batch that can
  leave the wakeup behind.  `MaxCounter` bounds the eventfd counter at 2: the
  code distinguishes only zero from positive.
* `mpsc_queue`: four items in a ring of two, so it fills, wraps and refuses;
  `MaxBatch = 1` makes drains stop short.
* `timer_queue`: three timers, so two can share a batch while the third is added
  or cancelled; delays 0 and 2, so a later timer can be due earlier; one queued
  functor.  `MaxTime` lets the clock pass it only while the timerfd is armed.
* `connection`: a send buffer of one byte and three bytes to send, so that every
  write is partial and a mark of two is crossed from below; two bytes to receive,
  so that one arrives while another is handled.
* `tcp_server`: two descriptors for four connections, so that each number is
  reused while the removal of its former owner is queued; up to two subLoops, so
  that two removals race.
* `tcp_client`: three sockets (one connecting, one held, one in a callback in
  progress), delays 1 and 3, so that the delay is doubled once and cut once;
  `connect()` is called with at most `MaxTimers` timers set, so that timers of
  earlier attempts meet a later one.
* `log_sender`: two threads, three messages and a queue of two, so one can be
  refused; a batch of one message behind a drop report, so that a round sends two,
  crosses the mark of two and can fail between them; two failures, so that a new
  connection fails as well.  (Four messages pass too, in more time than a run has.)
* `log_file`: files of three bytes and parts of two, two and one, so that the change
  of file falls inside a line, at its end and in between; two days, so the date can
  change, and go back; three lines, the third after two restarts.
* `frame_receiver`: log payloads of no byte, one, the limit and one above; RPC
  messages with the longest method and one longer, numbers of several bytes, an
  unknown type, a payload one byte short of a header or of its method; a buffer of
  four bytes with three in front, which has to move and to grow.
* `http_server`: five lines are two requests of which one has a header, or a request
  behind one that closes, or a refused line in either state.

All runs but `log_file` set `CHECK_DEADLOCK FALSE`: nobody is obliged to post,
connect, send or set a timer, so the systems may come to rest.  In `LogFile` the
clock may always change the day.

### Fairness

Only the program's own threads and the kernel's delivery are fair; nobody is
obliged to call, send, connect, close or raise a signal.

* Weak fairness of the loop thread's steps and of a thread inside `push`,
  `queue_in_loop` or `quit`: the scheduler runs every runnable thread, and
  callbacks return.
* Strong fairness of epoll reporting a ready channel (`EventLoop`,
  `Connection`): the ready list is first in, first out, so a channel that stays
  on it is not passed over for ever.
* Strong fairness of running functors (`TimerQueue`, `Connection`,
  `TcpServer`): every turn of `loop()` ends in `do_pending_functors`, however
  many events keep coming.
* `PausedResumes` also assumes that the peer keeps reading (`PeerReads`), and
  `TimerFires` that the clock advances.
* `KeepsTrying` assumes that the server is not down for ever: a retry that could
  again and again reach a handshake does (strong fairness of `RetryTimer` with a
  socket), and so does a handshake that could succeed.  Without it, trying for
  ever is all the client can do.
* `QueueIsSent` assumes that tick timers fire, functors run, the client gets
  through once connections stop failing (`KeepsTrying`), and the server reads.
* `WaitingClientIsAnswered` assumes that what was sent is read (`ReadsAll`): the
  descriptor stays registered until the connection closes.
* `MPSCQueue` has no fairness for `Tick`: the edge protocol has to do without
  the timer, except after a drain that stopped at `max_batch` and after a wakeup that
  met a closed gate.
* `TaskExecutor` is fair once a functor was posted by another thread or by code the
  loop runs; functors the owner queued before `loop()` do not start it.

## 4. Proofs

The theorems hold for every value of the constants that meets the named `ASSUME`
of the module: any number of threads, functors, producers, subLoops, connections,
descriptors, timers, bytes and messages; any capacity of the ring, 0 included; any
delays; any high-water mark of a connection and any send buffer of at least one
byte; any positive options of the log sender; any roll size, days, lines, kills and
restarts of a log file.

* `EventLoopProofs`: `TypeCorrect`; `WakeupNotLost` (`NoLostWakeup`), from the
  inductive invariant `LoopInv`.  `NoLostWakeup` alone is not inductive: it
  speaks of the moments around `epoll_wait` only, and has to be carried there
  through the rest of the loop's turn.  `LoopInv` adds that a positive eventfd
  counter is always backed by an edge on the ready list or in the batch, and
  that outside the dispatch phase a queued functor that is not early is backed by
  a positive counter or by a thread on its way to `wakeup()`.
  `RefinesTaskExecutor`: the executor's queue is `functors \o pending`; every step
  is a post, an early post, a run, an inline run, a stop or a stutter.
* `MPSCQueueProofs`: `TypeCorrect` (with `RingInv`: the slots between head and
  tail hold items), `EdgeNotLost` (`NoItemStranded`: its second conjunct, a raised
  flag has a drain to come or a gate used the wakeup up, is what lets the producer
  whose compare-and-swap failed go away; it is inductive together with `FlagInv`, a
  queued item has raised the flag or is about to, without which a wakeup used up
  with the flag down would strand it), `DropsNeverLost` and `RefinesBoundedFifo`.  They rest on lemmas about indices modulo the
  capacity: different positions lie in different slots, writing behind the
  newest item appends, clearing the oldest slots and moving head removes.
* `TcpServerProofs`: `TypeCorrect`, and from the inductive invariant `TableInv`
  the theorems `LiveStaysInTable` and `ClosedAlwaysLeaves`.  `TableInv` adds that
  entries are filed under their own descriptor, that removals are under way only
  for closed connections, and that what is not accepted yet has no state.  The
  key step is `AcceptKeepsTable`: the kernel hands out a number only when it is
  closed, so accept overwrites only entries of closed connections.
  `BatchOutlived` (`SubLoopBatchIsAlive`) adds `BatchInv`: a connection leaves the
  table only for a notify functor that its own subLoop must run, and that loop runs
  none before its batch is over.  The exception, an entry that accept overwrites,
  is part of the property.
* `TimerQueueProofs`: `NoTimerLost` (`EachTimerInOnePlace`), `ExpiryOnItsWay`
  (`ArmedForEarliest`), `BatchInOrder` (`FiresInOrder`) and `TypeCorrect`, from the
  inductive invariant `TimerInv` (`TimersAreRight`).  It adds that the set and
  `id_to_iter_` agree, else a cancel could erase another entry; that no two functors
  add the same timer; and that a batch was due when it was taken while whatever a
  callback adds is due later or has a higher id, which is what order needs when a
  callback adds a timer of delay 0.
* `ConnectionProofs`: `BytesInOrder` (`OutputInOrder`), `InterestFollowsBuffer`
  (`WriteInterestExact`), `HalfCloseInOrder` (`HalfCloseAfterLastByte`),
  `EdgesAreKept` (`NoLostEdge`), `EofIsLast` (`EofShowsEverything`) and
  `TypeCorrect`, from the inductive invariant `ConnInv` (`ConnectionIsRight`).  The
  three output properties hold each other up: a partial write keeps the order
  because `wire \o out` is what was accepted, and an empty buffer is noticed because
  EPOLLOUT is watched while it is not.  `NoLostEdge` speaks of the time between
  dispatches; `EdgeKept` carries it through one: what the socket is ready for is on
  the ready list or among the events `handle_event` has yet to serve, except that
  what is read at end of file is followed by `close`.  `Input` counts what was shown
  against what arrived, and `Registration` says that nothing happens before the
  `start` functor or after the channel is removed.
* `LogSenderProofs`: `PauseEnds` (`PausedIsLifted`) and `TypeCorrect`, from the
  inductive invariant `SenderInv` (`SenderIsRight`).  `PausedIsLifted` alone does not
  survive a posted `high_water` that runs after the buffer has drained; `Lift` says
  that each one among the functors is followed by a `write_complete` unless bytes
  wait.  A new connection starts with no such functor, by the retry delay (section 2),
  and with no byte, by the invariant; `Begin` (the client is started once,
  before it has a connection) keeps `start` from replacing a live one; and that
  `tick_timer_id_` names a set timer keeps the count of timers from going negative.
  `NothingIsForgotten` (`NothingVanishes`) adds the inductive invariant `PlaceInv`
  (`PlacesAreRight`).  `NothingVanishes` is not inductive: it orders what was written
  and what waits, but says nothing of the order between what a failed connection lost
  and what still waits, without which a buffer that is lost next could hold what was
  lost before.  `PlaceInv` says that whatever waits (`out \o queue`) comes after all
  that was written, lost or discarded, that no two of those share a message, and that
  the reported drops add up place by place.  One lemma, `Move`, covers every step
  that takes messages from the front of what waits; `Drained` is `take_dropped` and
  `drain`, `RoundMoves` a round of `send_batch` in its three outcomes, `PushPlaces`
  the push that refuses or appends.
* `TcpClientProofs`: `TypeCorrect`, `OneSocketAtATime`, `DisconnectStays`,
  `CallbacksAreTrue` and `RetryHasTimer`, all from the inductive invariant
  `ClientInv` (`ClientIsRight`).  None of the four properties is inductive: that
  a nested `connect()` starts nothing beside the connection being reported needs
  the state to name the resource that is held, which during the report of a
  disconnection it does only because `on_connection_closed` clears `connection_`
  and `state_` after the callback; and that only the innermost call can be such
  a report (`OthersUp`) is needed when it returns.
* `LogFileProofs`: `FilesOnlyGrow` (`AppendOnly`) and `KillCostsLittle`
  (`KillCostsOneInterval`), from the inductive invariant `FileInv`
  (`FilesAreSound`).  That a step only continues files needs the open file to
  exist, else flushing it would write to nothing, and files and buffer to be
  sequences; `open_file` keeps this whether or not `fopen` fails.
  `NoFileGrowsTooLong` (`NoFileOverfull`), `StoryIsTold` (`FilesTellTheStory`) and
  `TypeCorrect` add `SizeInv`, that `written_bytes_` is the number of bytes in the open
  file and stdio's buffer, and `OrderInv`, that while the date has not gone back and
  numbers are in reach the open file is the last by day and number, no file is from a
  later day than the clock's, and the files in order followed by the buffer are the
  log (`FilesAreInOrder`).  The story itself is inductive only together with the first
  two: it survives a write because the write goes to the last file, and a restart
  because the scan finds that file again.

`Reported`, `Bytes` and `Story` are folds of the community modules, which are
recursive functions over finite sets.  The laws the proofs need of them (the fold of
a concatenation is the sum, appending to the last file appends to the story) rest on
three things: the least-number principle, from which `Induction` follows for any set
of numbers; a lemma that a function satisfying the fold's equation exists (`AddsExists`,
`TellsExists`), so that the library's `CHOOSE` picks one; and, for `Story`, that the
functions for two sets of files agree on the files they share (`TellsAgree`).

Only model-checked:

* all liveness properties, and the fair half of `ImplementsTaskExecutor` (TLAPS does
  not prove liveness here);
* everything about `FrameReceiver` and `HttpServer`: their decoders are recursive
  operators, and what they return for every stream is an induction over the stream
  that the provers cannot be given in that form.

The type invariants of `EventLoop`, `MPSCQueue`, `TimerQueue`, `Connection`,
`TcpServer`, `LogSender` and `LogFile`, and `RetryIsScheduled` of `TcpClient`, are
theorems only; no run repeats them.

Every property of a passing run has a mutant: a plausible bug written as an
operator next to the original (`..._Newest`, `..._Silent`), under which TLC
finds that property violated.

## 5. Plan

1. `TcpServer`: the destructor (close everything, quit, join, clear) with
   EventLoopThread's handshake; iteration over `connections_` in single-reactor
   mode.
2. `Connection::shutdown` from another thread.

## 6. Not modelled

* Construction and destruction of EventLoop, EventLoopThread's handshake, the
  destructors of TcpServer and Connection, `shutdown()` from another thread: no
  module has them yet (plan, 1 and 2).
* LogFile: short writes, errors of `file_size`, a directory that cannot be read; the
  numbers of a day's files stay below `kMaxSeq` in the run (the proofs have it as a
  condition, see section 3).
* The text of log lines and HTTP messages (`format_log`, `serialize`, paths,
  queries), HTTP clients whose request line holds a colon where a header is
  expected, and an `http_cb_` that changes the close flag of its response.
* Fatal errors (`die`, `abort` in `assert_in_loop_thread`), socket options,
  address formatting, console output: no state that a property tells apart.
* The echo server's idle timer, the tests and the client scripts: they drive the
  library; they were read for how its calls are used.
