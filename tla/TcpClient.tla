----------------------------- MODULE TcpClient ------------------------------
(***************************************************************************)
(* TcpClient (src/src/tcp_client.cpp) on its loop thread: non-blocking     *)
(* connect behind a temporary Channel, the Connection that takes the       *)
(* socket over, retries after a delay that doubles, disconnect() and the   *)
(* destructor.                                                             *)
(*                                                                         *)
(* User code on the loop thread (other callbacks, timers and functors; and *)
(* connection_cb_ itself, which may nest) calls connect(), disconnect() or *)
(* close() of the connection; calls from other threads arrive as functors, *)
(* which are user code too.  A step ends where connection_cb_ is called.   *)
(* A retry timer may fire at any time after it is set, in any order: the   *)
(* delays differ by up to kMaxBackoffMs.                                   *)
(*                                                                         *)
(* connect_channel_ may be destroyed while epoll_wait's batch still holds  *)
(* its address; dispatching it then is undefined, and the model stops.     *)
(***************************************************************************)
EXTENDS Integers, Sequences

CONSTANTS
    Socks,              \* names of sockets; one is free again when nothing refers to it
    NoSock,             \* fd -1, or a null ConnectionPtr
    kInitialBackoffMs,
    kMaxBackoffMs,
    MaxTimers           \* bound: user code calls connect() with fewer retry timers set

ASSUME NoSockIsNone == NoSock \notin Socks
ASSUME BackoffRange ==
    /\ kInitialBackoffMs \in Nat \ {0}
    /\ kMaxBackoffMs \in Nat
    /\ kInitialBackoffMs <= kMaxBackoffMs
ASSUME MaxTimersIsNatural == MaxTimers \in Nat

VARIABLES
    state,              \* state_
    retry_enabled,      \* retry_enabled_
    connecting,         \* connecting_fd_
    channel,            \* connect_channel_ is there
    connection,         \* connection_, by its socket
    backoff,            \* backoff_ms_
    timers,             \* retry timers set and not fired
    frames,             \* calls of connection_cb_ in progress, innermost last
    life,               \* "alive", inside the destructor ("dying"), or "dead"
    open,               \* sockets the kernel has open for the client
    result,             \* what the kernel knows of each socket's handshake
    reported,           \* the batch holds connect_channel_: "no", "live" or "dangling"
    told,               \* history: what connection_cb_ was told last
    orderly,            \* history: disconnect() came before the destructor
    late,               \* history: a retry timer fired after the destructor
    dangled,            \* history: a destroyed channel was dispatched
    strayed             \* history: start() was called on a closed connection

vars == <<state, retry_enabled, connecting, channel, connection, backoff, timers,
          frames, life, open, result, reported, told, orderly, late, dangled,
          strayed>>

States == {"kDisconnected", "kConnecting", "kConnected", "kRetrying"}
Frame == [cb : {"up", "down"}, conn : Socks]

Init ==
    /\ state = "kDisconnected"
    /\ retry_enabled = FALSE
    /\ connecting = NoSock
    /\ channel = FALSE
    /\ connection = NoSock
    /\ backoff = 0
    /\ timers = 0
    /\ frames = <<>>
    /\ life = "alive"
    /\ open = {}
    /\ result = [s \in Socks |-> "pending"]
    /\ reported = "no"
    /\ told = "down"
    /\ orderly = FALSE
    /\ late = FALSE
    /\ dangled = FALSE
    /\ strayed = FALSE

-----------------------------------------------------------------------------
(* The member functions; r, b and t are retry_enabled_, backoff_ms_ and    *)
(* the number of timers they find.                                         *)

\* Mutant: the delay doubles for ever.
schedule_retry_NoCap(r, b, t) ==
    /\ state' = IF r THEN "kRetrying" ELSE "kDisconnected"
    /\ timers' = IF r THEN t + 1 ELSE t
    /\ backoff' = IF r THEN 2 * b ELSE b

\* Mutant: disconnect() is forgotten.
schedule_retry_Always(r, b, t) ==
    /\ state' = "kRetrying"
    /\ timers' = t + 1
    /\ backoff' = kMaxBackoffMs

schedule_retry(r, b, t) ==
    LET wait == IF b = 0 THEN kInitialBackoffMs ELSE b
    IN  /\ state' = IF r THEN "kRetrying" ELSE "kDisconnected"
        /\ timers' = IF r THEN t + 1 ELSE t
        /\ backoff' = IF ~r THEN b
                      ELSE IF 2 * wait < kMaxBackoffMs THEN 2 * wait
                      ELSE kMaxBackoffMs

\* The end of handle_connect_writable up to connection_cb_: the connection takes
\* the socket over.
Established(s, t) ==
    /\ state' = "kConnected"
    /\ backoff' = kInitialBackoffMs
    /\ timers' = t
    /\ connection' = s
    /\ connecting' = NoSock
    /\ channel' = FALSE
    /\ told' = "up"
    /\ frames' = Append(frames, [cb |-> "up", conn |-> s])

Free == Socks \ (open \cup {connection} \cup {frames[i].conn : i \in DOMAIN frames})

\* start_connect: without retry_enabled_ nothing is dialled; else socket() or
\* connect() fails at once, or connect() succeeds at once, or it is in progress.
start_connect(r, b, t) ==
    \/ /\ schedule_retry(r, b, t)
       /\ UNCHANGED <<connecting, channel, connection, open, result, told, frames>>
    \/ \E s \in Free :
          /\ r
          /\ open' = open \cup {s}
          /\ result' = [result EXCEPT ![s] = "ok"]
          /\ Established(s, t)
    \/ \E s \in Free :
          /\ r
          /\ open' = open \cup {s}
          /\ result' = [result EXCEPT ![s] = "pending"]
          /\ state' = "kConnecting"
          /\ connecting' = s
          /\ channel' = TRUE
          /\ backoff' = b
          /\ timers' = t
          /\ UNCHANGED <<connection, told, frames>>

\* handle_connect_writable: SO_ERROR says how the handshake ended.
handle_connect_writable ==
    \/ /\ result[connecting] = "failed"
       /\ open' = open \ {connecting}
       /\ connecting' = NoSock
       /\ channel' = FALSE
       /\ schedule_retry(retry_enabled, backoff, timers)
       /\ UNCHANGED <<connection, told, frames>>
    \/ /\ result[connecting] # "failed"
       /\ Established(connecting, timers)
       /\ UNCHANGED open

\* Mutant: the close callback is not called.
close_Silent(c) ==
    /\ open' = open \ {c}
    /\ UNCHANGED <<told, frames>>

\* Connection::close(), whose close_cb_ is on_connection_closed, up to
\* connection_cb_.  Nothing happens the second time.
close(c) ==
    \/ /\ c \in open
       /\ open' = open \ {c}
       /\ told' = "down"
       /\ frames' = Append(frames, [cb |-> "down", conn |-> c])
    \/ /\ c \notin open
       /\ UNCHANGED <<open, told, frames>>

\* connect_channel_ is destroyed from outside its own dispatch.
DropChannel ==
    /\ channel' = FALSE
    /\ reported' = IF channel /\ reported = "live" THEN "dangling" ELSE reported

-----------------------------------------------------------------------------
(* User code.                                                              *)

AtTop == frames = <<>> /\ life = "alive" /\ ~dangled
InUserCode == ~dangled /\ (life = "alive" \/ (life = "dying" /\ frames # <<>>))

\* Mutant: an attempt in progress is no reason to ignore the call.
connect_in_loop_Twice ==
    /\ InUserCode
    /\ timers < MaxTimers
    /\ state # "kConnected"
    /\ retry_enabled' = TRUE
    /\ start_connect(TRUE, kInitialBackoffMs, timers)
    /\ UNCHANGED <<life, reported, orderly, late, dangled, strayed>>

\* connect(); while connecting or connected it does nothing.
connect_in_loop ==
    /\ InUserCode
    /\ timers < MaxTimers
    /\ state \notin {"kConnecting", "kConnected"}
    /\ retry_enabled' = TRUE
    /\ start_connect(TRUE, kInitialBackoffMs, timers)
    /\ UNCHANGED <<life, reported, orderly, late, dangled, strayed>>

\* disconnect().  A retry timer is left to run out.
disconnect_in_loop ==
    /\ InUserCode
    /\ retry_enabled' = FALSE
    /\ \/ /\ state = "kConnected"
          /\ close(connection)
          /\ UNCHANGED <<state, connecting, channel, reported>>
       \/ /\ state = "kConnecting"
          /\ DropChannel
          /\ open' = open \ {connecting}
          /\ connecting' = NoSock
          /\ state' = "kDisconnected"
          /\ UNCHANGED <<told, frames>>
       \/ /\ state \in {"kRetrying", "kDisconnected"}
          /\ state' = "kDisconnected"
          /\ UNCHANGED <<open, connecting, channel, reported, told, frames>>
    /\ UNCHANGED <<connection, backoff, timers, life, result, orderly, late,
                   dangled, strayed>>

\* The connection is closed, by its own handlers or by user code.
ConnectionCloses ==
    /\ InUserCode
    /\ close(connection)
    /\ UNCHANGED <<state, retry_enabled, connecting, channel, connection, backoff,
                   timers, life, result, reported, orderly, late, dangled, strayed>>

\* connection_cb_ returns, and the connection is started, also one that was
\* closed inside the callback: update_channel then asks epoll to add a number
\* that is closed, or that another thread has been given since.  What becomes of
\* that registration is outside this module.
UpReturn ==
    /\ frames # <<>> /\ ~dangled
    /\ frames[Len(frames)].cb = "up"
    /\ frames' = SubSeq(frames, 1, Len(frames) - 1)
    /\ strayed' = (strayed \/ frames[Len(frames)].conn \notin open)
    /\ UNCHANGED <<state, retry_enabled, connecting, channel, connection, backoff,
                   timers, life, open, result, reported, told, orderly, late,
                   dangled>>

\* Mutant: a connection that is lost is not dialled again.
DownReturn_NoRetry ==
    /\ frames # <<>> /\ ~dangled
    /\ frames[Len(frames)].cb = "down"
    /\ frames' = SubSeq(frames, 1, Len(frames) - 1)
    /\ connection' = NoSock
    /\ state' = "kDisconnected"
    /\ UNCHANGED <<backoff, timers, retry_enabled, connecting, channel, life, open,
                   result, reported, told, orderly, late, dangled, strayed>>

\* The rest of on_connection_closed.
DownReturn ==
    /\ frames # <<>> /\ ~dangled
    /\ frames[Len(frames)].cb = "down"
    /\ frames' = SubSeq(frames, 1, Len(frames) - 1)
    /\ connection' = NoSock
    /\ schedule_retry(retry_enabled, backoff, timers)
    /\ UNCHANGED <<retry_enabled, connecting, channel, life, open, result, reported,
                   told, orderly, late, dangled, strayed>>

-----------------------------------------------------------------------------
(* The loop and the kernel.                                                *)

\* The kernel ends a handshake.
Handshake(r) ==
    /\ ~dangled
    /\ connecting \in open
    /\ result[connecting] = "pending"
    /\ result' = [result EXCEPT ![connecting] = r]
    /\ UNCHANGED <<state, retry_enabled, connecting, channel, connection, backoff,
                   timers, frames, life, open, reported, told, orderly, late,
                   dangled, strayed>>

\* epoll_wait reports the connecting socket.
EpollReports ==
    /\ AtTop
    /\ channel /\ reported = "no"
    /\ result[connecting] # "pending"
    /\ reported' = "live"
    /\ UNCHANGED <<state, retry_enabled, connecting, channel, connection, backoff,
                   timers, frames, life, open, result, told, orderly, late, dangled,
                   strayed>>

\* The loop dispatches connect_channel_.
ConnectEvent ==
    /\ AtTop
    /\ reported = "live"
    /\ reported' = "no"
    /\ handle_connect_writable
    /\ UNCHANGED <<retry_enabled, life, result, orderly, late, dangled, strayed>>

\* The loop dispatches the address of a channel that is gone.
DanglingEvent ==
    /\ frames = <<>> /\ ~dangled
    /\ reported = "dangling"
    /\ dangled' = TRUE
    /\ UNCHANGED <<state, retry_enabled, connecting, channel, connection, backoff,
                   timers, frames, life, open, result, reported, told, orderly, late,
                   strayed>>

\* A retry timer fires.  Only in kRetrying does it start an attempt.
RetryTimer ==
    /\ AtTop
    /\ timers > 0
    /\ \/ /\ state = "kRetrying"
          /\ start_connect(retry_enabled, backoff, timers - 1)
       \/ /\ state # "kRetrying"
          /\ timers' = timers - 1
          /\ UNCHANGED <<state, connecting, channel, connection, backoff, frames,
                         open, result, told>>
    /\ UNCHANGED <<retry_enabled, life, reported, orderly, late, dangled, strayed>>

\* A retry timer fires and reads state_ of a client that is gone.
RetryTimerTooLate ==
    /\ life = "dead" /\ ~dangled
    /\ timers > 0
    /\ timers' = timers - 1
    /\ late' = TRUE
    /\ UNCHANGED <<state, retry_enabled, connecting, channel, connection, backoff,
                   frames, life, open, result, reported, told, orderly, dangled,
                   strayed>>

\* The destructor, up to the callback of the connection it closes.
Destroy ==
    /\ AtTop
    /\ life' = "dying"
    /\ orderly' = ~retry_enabled
    /\ retry_enabled' = FALSE
    /\ close(connection)
    /\ UNCHANGED <<state, connecting, channel, connection, backoff, timers, result,
                   reported, late, dangled, strayed>>

\* The rest of the destructor.
DestroyEnd ==
    /\ life = "dying" /\ frames = <<>> /\ ~dangled
    /\ life' = "dead"
    /\ connection' = NoSock
    /\ DropChannel
    /\ open' = open \ {connecting}
    /\ connecting' = NoSock
    /\ UNCHANGED <<state, retry_enabled, backoff, timers, frames, result, told,
                   orderly, late, dangled, strayed>>

-----------------------------------------------------------------------------
Next ==
    \/ connect_in_loop \/ disconnect_in_loop \/ ConnectionCloses
    \/ UpReturn \/ DownReturn
    \/ \E r \in {"ok", "failed"} : Handshake(r)
    \/ EpollReports \/ ConnectEvent \/ DanglingEvent
    \/ RetryTimer \/ RetryTimerTooLate
    \/ Destroy \/ DestroyEnd

SafeSpec == Init /\ [][Next]_vars

\* The loop thread keeps running and callbacks return.  The server is not down
\* for ever: infinitely many retries get as far as a handshake, and infinitely
\* many handshakes succeed.  No fairness for user code.
Spec ==
    /\ SafeSpec
    /\ WF_vars(UpReturn \/ DownReturn)
    /\ WF_vars(EpollReports)
    /\ WF_vars(ConnectEvent \/ DanglingEvent)
    /\ SF_vars(RetryTimer /\ connecting' # NoSock)
    /\ SF_vars(Handshake("ok"))

-----------------------------------------------------------------------------
(* Properties.                                                             *)

\* Types of tcp_client.h; the delay stays between its two limits.
TypeOK ==
    /\ state \in States
    /\ retry_enabled \in BOOLEAN
    /\ connecting \in Socks \cup {NoSock}
    /\ channel \in BOOLEAN
    /\ connection \in Socks \cup {NoSock}
    /\ backoff \in {0} \cup (kInitialBackoffMs .. kMaxBackoffMs)
    /\ timers \in Nat
    /\ frames \in Seq(Frame)
    /\ life \in {"alive", "dying", "dead"}
    /\ open \subseteq Socks
    /\ result \in [Socks -> {"pending", "ok", "failed"}]
    /\ reported \in {"no", "live", "dangling"}
    /\ told \in {"up", "down"}
    /\ orderly \in BOOLEAN
    /\ late \in BOOLEAN
    /\ dangled \in BOOLEAN
    /\ strayed \in BOOLEAN

\* One socket at a time and none lost: connect() and retry timers left over from
\* earlier attempts never start an attempt beside another, whose descriptor or
\* connection would be overwritten.
NoSocketLost ==
    /\ open \subseteq {connecting, connection}
    /\ connecting # NoSock => connecting \in open /\ connection = NoSock

\* src/src/tcp_client.h:61-63: disconnect() is final.  Once it, and the callback
\* it may call, is done there is no socket and no attempt until the next
\* connect(), whatever timers are still set.
DisconnectIsFinal ==
    ~retry_enabled /\ frames = <<>> /\ life # "dying" =>
        /\ open = {}
        /\ life = "alive" => state = "kDisconnected"

\* src/src/tcp_client.h:53: connection_cb_ hears of connection and disconnection
\* in turn, and what it heard last is true.
ToldTheTruth == told = "up" <=> connection \in open

\* A client that is waiting to retry has a timer that will make it retry.
RetryIsScheduled == state = "kRetrying" /\ life = "alive" => timers > 0

\* connection_cb_ is being told of a disconnection, in the innermost call.
TellingDown == frames # <<>> /\ frames[Len(frames)].cb = "down"

\* Only the innermost call can be one of a disconnection: inside it neither
\* connect() nor disconnect() nor close() does anything that calls back.
OthersUp == \A i \in 1 .. Len(frames) - 1 : frames[i].cb = "up"

\* The inductive strengthening of the four.  A connection that is held but closed
\* is being reported; the state names the resource that is held; sockets and
\* attempts exist only while they are wanted; and the destructor has closed the
\* connection before anything else runs.
ClientInv ==
    /\ OthersUp
    /\ TellingDown <=> connection # NoSock /\ connection \notin open
    /\ life # "dead" => (state = "kConnected" <=> connection # NoSock)
    /\ life # "dead" => (state = "kConnecting" <=> connecting # NoSock)
    /\ channel <=> connecting # NoSock
    /\ reported = "live" => connecting # NoSock
    /\ connecting # NoSock => connecting \in open
    /\ open \subseteq {connecting, connection}
    /\ told = "up" <=> connection \in open
    /\ life = "alive" /\ ~retry_enabled =>
          state \notin {"kConnecting", "kRetrying"} /\ connection \notin open
    /\ life = "dying" =>
          connection \notin open /\ (frames # <<>> => TellingDown /\ Len(frames) = 1)
    /\ life = "dead" => connecting = NoSock /\ connection = NoSock /\ frames = <<>>
    /\ RetryIsScheduled

\* A client that is not disconnected by the user is connected again and again, as
\* long as the server can be reached again and again.
KeepsTrying ==
    []<>~retry_enabled \/ []<>(connection \in open) \/ <>dangled

\* docs/INTERVIEW.md:181 and LogSender::stop_in_loop: a client that was told to
\* disconnect may be destroyed, a timer that is still set does no harm.  It does
\* not hold: the timer reads state_.
OrderlyDestructionIsSafe == ~(orderly /\ late)

\* src/src/tcp_client.cpp:233: what is put into epoll is an open connection's
\* channel.  It does not hold: connection_cb_ may close the connection, and
\* start() follows all the same.
StartsWhatIsOpen == ~strayed

=============================================================================
