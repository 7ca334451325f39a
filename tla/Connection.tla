----------------------------- MODULE Connection -----------------------------
(***************************************************************************)
(* One epoll_proj::Connection with its Channel (src/src/connection.cpp,    *)
(* src/src/channel.cpp), on the loop thread that owns it: the state        *)
(* machine kConnected, kDisconnecting, kDisconnected, the two buffers, the *)
(* edge-triggered registration with epoll, and the functors it posts to    *)
(* its own loop.  The peer and the kernel's socket are the environment.    *)
(*                                                                         *)
(* Everything here runs on the loop thread; a step ends where user code    *)
(* runs or where the loop goes on to the next channel or functor.  User    *)
(* code is whatever calls send, shutdown, close or force_close_with_delay  *)
(* on that thread: this connection's callbacks, and the callbacks of other *)
(* channels and timers.  Somebody keeps the ConnectionPtr alive.           *)
(*                                                                         *)
(* Bytes sent are numbered 1, 2, ... in the order send accepts them; bytes *)
(* received are only counted.                                              *)
(***************************************************************************)
EXTENDS Integers, Sequences

CONSTANTS
    SndBuf,         \* bytes the kernel's send buffer holds
    HighWaterMark,  \* high_water_mark_, 0 if disabled
    MaxSend,        \* bound: bytes send() ever accepts
    MaxArrive       \* bound: bytes the peer ever sends

ASSUME SndBufIsPositive == SndBuf \in Nat \ {0}
ASSUME HighWaterMarkIsNatural == HighWaterMark \in Nat
ASSUME MaxSendIsNatural == MaxSend \in Nat
ASSUME MaxArriveIsNatural == MaxArrive \in Nat

VARIABLES
    state,          \* state_
    out,            \* output_buffer_: the numbers of its bytes
    inbuf,          \* how many bytes input_buffer_ holds
    shutdown_pending,   \* shutdown_pending_
    events,         \* the channel's events_: IN stands for kReadEvent
    chstate,        \* the channel's registration state_
    edge,           \* the channel is in epoll's ready list
    revents,        \* events epoll_wait reported and handle_event did not serve yet
    functors,       \* functors of this connection in the loop's queue
    force_timer,    \* a force_close_with_delay timer is armed
    pc,             \* where the loop thread is
    sock,           \* what the number fd_ refers to
    rx,             \* bytes in the kernel's receive queue
    eof,            \* the peer's FIN arrived
    rst,            \* the peer's reset arrived
    sndbuf,         \* bytes in the kernel's send buffer
    fin,            \* ::shutdown(fd_, SHUT_WR) was called
    wire,           \* history: the bytes handed to the kernel, in order
    accepted,       \* history: how many bytes send() took over
    arrived,        \* history: how many bytes the peer sent
    shown,          \* history: how many of them message_cb_ was shown
    paused,         \* history: the application saw high_water and not yet write_complete
    closed_on,      \* history: what made close() do its work
    strays          \* history: system calls on fd_ after it was closed

netVars == <<rx, eof, rst, sndbuf, fin, wire>>
closeVars == <<state, events, chstate, edge, sock, closed_on, strays>>
vars == <<state, out, inbuf, shutdown_pending, events, chstate, edge, revents,
          functors, force_timer, pc, sock, rx, eof, rst, sndbuf, fin, wire,
          accepted, arrived, shown, paused, closed_on, strays>>

States == {"kConnected", "kDisconnecting", "kDisconnected"}
Pcs == {"idle", "dispatch", "message", "message_eof", "callback"}
FunctorKinds == {"start", "high_water", "write_complete"}

\* The bytes m + 1 .. m + n, in order.
Bytes(m, n) == [i \in 1 .. n |-> m + i]

AtMost(a, b) == IF a < b THEN a ELSE b

\* The connection as handle_accept leaves it: constructed, in the server's map,
\* its start() posted to the loop.
Init ==
    /\ state = "kConnected"
    /\ out = <<>>
    /\ inbuf = 0
    /\ shutdown_pending = FALSE
    /\ events = {}
    /\ chstate = "kNew"
    /\ edge = FALSE
    /\ revents = {}
    /\ functors = <<"start">>
    /\ force_timer = FALSE
    /\ pc = "idle"
    /\ sock = "open"
    /\ rx = 0
    /\ eof = FALSE
    /\ rst = FALSE
    /\ sndbuf = 0
    /\ fin = FALSE
    /\ wire = <<>>
    /\ accepted = 0
    /\ arrived = 0
    /\ shown = 0
    /\ paused = FALSE
    /\ closed_on = "none"
    /\ strays = {}

-----------------------------------------------------------------------------
(* The kernel and the peer.                                                *)

\* What the socket is ready for.  A reset reads as error, end of file and
\* writable at once; after SHUT_WR a socket polls as writable.
Ready == [IN  |-> rx > 0 \/ eof \/ rst,
          OUT |-> sndbuf < SndBuf \/ fin \/ rst,
          ERR |-> rst,
          HUP |-> rst \/ (eof /\ fin)]

\* EPOLLERR and EPOLLHUP are reported whatever the channel asked for.
Interest(ev) == ev \cup {"ERR", "HUP"}

Mask(ev) == {k \in Interest(ev) : Ready[k]}

\* A change of the socket puts a registered channel that asked for it on the
\* ready list.
Signal(kinds) ==
    edge' = (edge \/ (chstate = "kAdded" /\ kinds \cap Interest(events) # {}))

PeerSends ==
    /\ sock = "open" /\ ~eof /\ ~rst
    /\ arrived < MaxArrive
    /\ rx' = rx + 1
    /\ arrived' = arrived + 1
    /\ Signal({"IN"})
    /\ UNCHANGED <<state, out, inbuf, shutdown_pending, events, chstate,
                   revents, functors, force_timer, pc, sock, eof, rst, sndbuf,
                   fin, wire, accepted, shown, paused, closed_on, strays>>

PeerFin ==
    /\ sock = "open" /\ ~eof /\ ~rst
    /\ eof' = TRUE
    /\ Signal({"IN"})
    /\ UNCHANGED <<state, out, inbuf, shutdown_pending, events, chstate,
                   revents, functors, force_timer, pc, sock, rx, rst, sndbuf,
                   fin, wire, accepted, arrived, shown, paused, closed_on,
                   strays>>

PeerReset ==
    /\ sock = "open" /\ ~rst
    /\ rst' = TRUE
    /\ Signal({"IN", "OUT", "ERR", "HUP"})
    /\ UNCHANGED <<state, out, inbuf, shutdown_pending, events, chstate,
                   revents, functors, force_timer, pc, sock, rx, eof, sndbuf,
                   fin, wire, accepted, arrived, shown, paused, closed_on,
                   strays>>

\* The peer acknowledges a byte, and the send buffer has room again.
PeerReads ==
    /\ sock = "open" /\ ~rst
    /\ sndbuf > 0
    /\ sndbuf' = sndbuf - 1
    /\ Signal({"OUT"})
    /\ UNCHANGED <<state, out, inbuf, shutdown_pending, events, chstate,
                   revents, functors, force_timer, pc, sock, rx, eof, rst, fin,
                   wire, accepted, arrived, shown, paused, closed_on, strays>>

\* Another thread's accept or socket() is given the number close() freed.
FdReused ==
    /\ sock = "closed"
    /\ sock' = "reused"
    /\ UNCHANGED <<state, out, inbuf, shutdown_pending, events, chstate, edge,
                   revents, functors, force_timer, pc, rx, eof, rst, sndbuf,
                   fin, wire, accepted, arrived, shown, paused, closed_on,
                   strays>>

-----------------------------------------------------------------------------
(* Channel::update and Connection::close, which the handlers call.         *)

\* EPOLL_CTL_ADD or EPOLL_CTL_MOD with a new interest, on the open socket: both
\* poll it at once.
update(ev) ==
    /\ events' = ev
    /\ chstate' = "kAdded"
    /\ edge' = ((chstate = "kAdded" /\ edge) \/ \E k \in Interest(ev) : Ready'[k])

\* The first close() takes the channel out of epoll and closes the socket.  fd_
\* and output_buffer_ keep their values.
close(cause) ==
    IF state = "kDisconnected"
      THEN UNCHANGED closeVars
      ELSE /\ state' = "kDisconnected"
           /\ events' = {}
           /\ chstate' = "kDeleted"
           /\ edge' = FALSE
           /\ sock' = "closed"
           /\ closed_on' = cause
           /\ strays' = IF sock = "open" THEN strays ELSE strays \cup {"close"}

-----------------------------------------------------------------------------
(* The loop thread.                                                        *)

\* The functor of handle_accept: connection_cb_, which only sets up contexts and
\* timers, then start().
Start ==
    /\ pc = "idle" /\ revents = {}
    /\ functors # <<>> /\ Head(functors) = "start"
    /\ functors' = Tail(functors)
    /\ UNCHANGED netVars
    /\ update(events \cup {"IN"})
    /\ UNCHANGED <<state, out, inbuf, shutdown_pending, revents, force_timer,
                   pc, sock, accepted, arrived, shown, paused, closed_on,
                   strays>>

\* The high-water and write-complete callbacks run from the loop's queue, after
\* the channels of the batch.
RunFunctor(kind) ==
    /\ pc = "idle" /\ revents = {}
    /\ functors # <<>> /\ Head(functors) = kind
    /\ functors' = Tail(functors)
    /\ paused' = (kind = "high_water")
    /\ pc' = "callback"
    /\ UNCHANGED <<state, out, inbuf, shutdown_pending, events, chstate, edge,
                   revents, force_timer, sock, rx, eof, rst, sndbuf, fin, wire,
                   accepted, arrived, shown, closed_on, strays>>

\* epoll_wait reports the channel; other channels of the batch may come first.
EpollReports ==
    /\ pc = "idle" /\ revents = {}
    /\ edge
    /\ revents' = Mask(events)
    /\ edge' = FALSE
    /\ UNCHANGED <<state, out, inbuf, shutdown_pending, events, chstate,
                   functors, force_timer, pc, sock, rx, eof, rst, sndbuf, fin,
                   wire, accepted, arrived, shown, paused, closed_on, strays>>

\* handle_event up to its read branch: close_cb_ alone on a bare EPOLLHUP, else
\* error_cb_ on EPOLLERR, and on to the other branches even if that closed.
handle_event ==
    /\ pc = "idle" /\ revents # {}
    /\ IF "HUP" \in revents /\ "IN" \notin revents
         THEN close("error") /\ revents' = {} /\ pc' = "idle"
         ELSE /\ IF "ERR" \in revents THEN close("error") ELSE UNCHANGED closeVars
              /\ revents' = revents \ {"ERR", "HUP"}
              /\ pc' = "dispatch"
    /\ UNCHANGED <<out, inbuf, shutdown_pending, functors, force_timer, rx, eof,
                   rst, sndbuf, fin, wire, accepted, arrived, shown, paused>>

HandleEventDone ==
    /\ pc = "dispatch" /\ revents = {}
    /\ pc' = "idle"
    /\ UNCHANGED <<state, out, inbuf, shutdown_pending, events, chstate, edge,
                   revents, functors, force_timer, sock, rx, eof, rst, sndbuf,
                   fin, wire, accepted, arrived, shown, paused, closed_on,
                   strays>>

\* Mutant: end of file closes without a last message_cb_.
CallMessageCb_NotAtEof(p) ==
    IF inbuf' > 0 /\ p # "message_eof"
      THEN pc' = p /\ shown' = arrived - rx'
      ELSE UNCHANGED <<pc, shown>>

\* message_cb_ is called if input_buffer_ holds anything, and shows it all.
CallMessageCb(p) ==
    IF inbuf' > 0
      THEN pc' = p /\ shown' = arrived - rx'
      ELSE UNCHANGED <<pc, shown>>

\* Mutant: one read() per event, as if epoll were level-triggered.
ReadLoop_Once == AtMost(rx, 1)

\* How many bytes the loop around read() takes.
ReadLoop == rx

\* handle_read: read until EAGAIN, end of file or an error.  Data read before an
\* error is not shown; data read before end of file is, and then close() follows.
\* On a connection closed earlier in this dispatch read() fails with EBADF, or
\* reads the socket that has got the number since: f bytes of it.
handle_read ==
    /\ pc = "dispatch" /\ "IN" \in revents
    /\ revents' = revents \ {"IN"}
    /\ \/ /\ sock = "open"
          /\ inbuf' = inbuf + ReadLoop
          /\ rx' = rx - ReadLoop
          /\ IF rst
               THEN close("error") /\ UNCHANGED <<pc, shown>>
               ELSE IF eof
               THEN /\ CallMessageCb("message_eof")
                    /\ IF pc' = "message_eof" THEN UNCHANGED closeVars ELSE close("eof")
               ELSE CallMessageCb("message") /\ UNCHANGED closeVars
       \/ /\ sock = "closed"
          /\ UNCHANGED <<inbuf, rx, pc, shown, closeVars>>
       \/ /\ sock = "reused"
          /\ \E f \in {0, 1} : inbuf' = inbuf + f
          /\ rx' = rx
          /\ CallMessageCb("message")
          /\ strays' = strays \cup {"read"}
          /\ UNCHANGED <<state, events, chstate, edge, sock, closed_on>>
    /\ UNCHANGED <<out, shutdown_pending, functors, force_timer, eof, rst,
                   sndbuf, fin, wire, accepted, arrived, paused>>

\* How many bytes of n the kernel takes before EAGAIN.
Room(n) == AtMost(n, SndBuf - sndbuf)

\* Mutant: write_complete_cb_ is not posted.
Drained_NoComplete ==
    /\ shutdown_pending' = FALSE
    /\ fin' = (fin \/ shutdown_pending)
    /\ functors' = functors
    /\ update(events \ {"OUT"})

\* What follows the last byte written: write interest goes, the half-close that
\* waited for it is done, write_complete_cb_ is posted.
Drained ==
    /\ shutdown_pending' = FALSE
    /\ fin' = (fin \/ shutdown_pending)
    /\ functors' = Append(functors, "write_complete")
    /\ update(events \ {"OUT"})

\* while (!output_buffer_.empty()) write(...), on the open socket.
WriteLoop ==
    LET n == Room(Len(out)) IN
    /\ wire' = wire \o SubSeq(out, 1, n)
    /\ sndbuf' = sndbuf + n
    /\ out' = SubSeq(out, n + 1, Len(out))
    /\ UNCHANGED <<rx, eof, rst>>
    /\ IF n < Len(out)
         THEN UNCHANGED <<shutdown_pending, fin, functors, events, chstate, edge>>
         ELSE Drained

\* handle_write: write until the buffer is empty or the kernel's is full.  On a
\* connection closed earlier in this dispatch write() fails with EBADF and
\* close() has nothing left to do, or the socket that has got the number since
\* takes all of the buffer or (EAGAIN) none.
handle_write ==
    /\ pc = "dispatch" /\ "IN" \notin revents /\ "OUT" \in revents
    /\ revents' = {}
    /\ IF out = <<>>
         THEN /\ UNCHANGED <<out, shutdown_pending, functors, netVars, state,
                             sock, closed_on, strays>>
              /\ IF "OUT" \in events
                   THEN update(events \ {"OUT"})
                   ELSE UNCHANGED <<events, chstate, edge>>
         ELSE \/ /\ sock = "open" /\ ~rst
                 /\ WriteLoop
                 /\ UNCHANGED <<state, sock, closed_on, strays>>
              \/ /\ (sock = "open" /\ rst) \/ sock = "closed"
                 /\ close("error")
                 /\ UNCHANGED <<out, shutdown_pending, functors, netVars>>
              \/ /\ sock = "reused"
                 /\ \/ /\ strays' = strays \cup {"write"}
                       /\ UNCHANGED <<out, shutdown_pending, functors>>
                    \/ /\ out' = <<>>
                       /\ strays' = strays \cup {"write"} \cup
                             (IF shutdown_pending THEN {"shutdown"} ELSE {})
                       /\ shutdown_pending' = FALSE
                       /\ functors' = Append(functors, "write_complete")
                 /\ UNCHANGED <<state, events, chstate, edge, sock, closed_on,
                                netVars>>
    /\ UNCHANGED <<inbuf, force_timer, pc, accepted, arrived, shown, paused>>

MessageReturn ==
    /\ pc = "message"
    /\ pc' = "dispatch"
    /\ UNCHANGED <<state, out, inbuf, shutdown_pending, events, chstate, edge,
                   revents, functors, force_timer, sock, rx, eof, rst, sndbuf,
                   fin, wire, accepted, arrived, shown, paused, closed_on,
                   strays>>

\* The callback at end of file is followed by close().
MessageEofReturn ==
    /\ pc = "message_eof"
    /\ pc' = "dispatch"
    /\ close("eof")
    /\ UNCHANGED <<out, inbuf, shutdown_pending, revents, functors, force_timer,
                   rx, eof, rst, sndbuf, fin, wire, accepted, arrived, shown,
                   paused>>

CallbackReturn ==
    /\ pc = "callback"
    /\ pc' = "idle"
    /\ UNCHANGED <<state, out, inbuf, shutdown_pending, events, chstate, edge,
                   revents, functors, force_timer, sock, rx, eof, rst, sndbuf,
                   fin, wire, accepted, arrived, shown, paused, closed_on,
                   strays>>

\* The force_close_with_delay timer goes off, in any batch.
ForceTimer ==
    /\ pc = "idle"
    /\ force_timer
    /\ force_timer' = FALSE
    /\ close("user")
    /\ UNCHANGED <<out, inbuf, shutdown_pending, revents, functors, pc, rx, eof,
                   rst, sndbuf, fin, wire, accepted, arrived, shown, paused>>

-----------------------------------------------------------------------------
(* User code on the loop thread.                                           *)

\* Callbacks of this connection, or anything else that runs between them.  Before
\* start() only connection_cb_ has the connection (src/src/server.cpp:166-168,
\* src/src/tcp_client.cpp:232-233); the callbacks of this repository neither send
\* nor close there, and calls from there are left out.
InUserCode ==
    /\ pc \in {"idle", "message", "message_eof", "callback"}
    /\ chstate # "kNew"

\* message_cb_ takes complete frames out of input_buffer_.
ConsumeInput ==
    /\ pc \in {"message", "message_eof"}
    /\ \E n \in 1 .. inbuf : inbuf' = inbuf - n
    /\ UNCHANGED <<state, out, shutdown_pending, events, chstate, edge, revents,
                   functors, force_timer, pc, sock, rx, eof, rst, sndbuf, fin,
                   wire, accepted, arrived, shown, paused, closed_on, strays>>

\* Mutant: the direct write does not ask whether older bytes are waiting.
DirectWrite_Always(n) == Room(n)

\* How many of n bytes send() writes without buffering them.
DirectWrite(n) == IF out = <<>> THEN Room(n) ELSE 0

\* Mutant: enable_writing only when the mark is crossed.
EnableWriting_AtMark ==
    IF Len(out) < HighWaterMark /\ Len(out') >= HighWaterMark
      THEN update(events \cup {"OUT"})
      ELSE UNCHANGED <<events, chstate, edge>>

\* Bytes were left in the buffer: ask for EPOLLOUT unless that is on already.
EnableWriting ==
    IF out' # <<>> /\ "OUT" \notin events
      THEN update(events \cup {"OUT"})
      ELSE UNCHANGED <<events, chstate, edge>>

\* The high-water callback is posted by the append that crosses the mark.
CrossesMark ==
    HighWaterMark > 0 /\ Len(out) < HighWaterMark /\ Len(out') >= HighWaterMark

send(n) ==
    /\ InUserCode
    /\ state = "kConnected"
    /\ accepted + n <= MaxSend
    /\ IF out = <<>> /\ rst
         THEN close("error") /\ UNCHANGED <<out, functors, netVars, accepted>>
         ELSE LET k == DirectWrite(n) IN
              /\ wire' = wire \o Bytes(accepted, k)
              /\ sndbuf' = sndbuf + k
              /\ out' = out \o Bytes(accepted + k, n - k)
              /\ accepted' = accepted + n
              /\ functors' = IF CrossesMark THEN Append(functors, "high_water")
                                            ELSE functors
              /\ UNCHANGED <<rx, eof, rst, fin>>
              /\ EnableWriting
              /\ UNCHANGED <<state, sock, closed_on, strays>>
    /\ UNCHANGED <<inbuf, shutdown_pending, revents, force_timer, pc, arrived,
                   shown, paused>>

\* Mutant: SHUT_WR whatever the buffer holds.
shutdown_in_loop_AtOnce ==
    /\ fin' = TRUE
    /\ edge' = (edge \/ \E k \in Interest(events) : Ready'[k])
    /\ UNCHANGED <<shutdown_pending, strays>>

\* SHUT_WR now if the buffer is empty, else once handle_write has emptied it.
shutdown_in_loop ==
    IF out = <<>>
      THEN /\ fin' = TRUE
           /\ edge' = (edge \/ \E k \in Interest(events) : Ready'[k])
           /\ UNCHANGED <<shutdown_pending, strays>>
      ELSE /\ shutdown_pending' = TRUE
           /\ UNCHANGED <<fin, edge, strays>>

shutdown ==
    /\ InUserCode
    /\ state = "kConnected"
    /\ state' = "kDisconnecting"
    /\ UNCHANGED <<rx, eof, rst, sndbuf, wire>>
    /\ shutdown_in_loop
    /\ UNCHANGED <<out, inbuf, events, chstate, revents, functors, force_timer,
                   pc, sock, accepted, arrived, shown, paused, closed_on>>

UserClose ==
    /\ InUserCode
    /\ state # "kDisconnected"
    /\ close("user")
    /\ UNCHANGED <<out, inbuf, shutdown_pending, revents, functors, force_timer,
                   pc, rx, eof, rst, sndbuf, fin, wire, accepted, arrived,
                   shown, paused>>

force_close_with_delay ==
    /\ InUserCode
    /\ state # "kDisconnected"
    /\ force_timer' = TRUE
    /\ UNCHANGED <<state, out, inbuf, shutdown_pending, events, chstate, edge,
                   revents, functors, pc, sock, rx, eof, rst, sndbuf, fin, wire,
                   accepted, arrived, shown, paused, closed_on, strays>>

-----------------------------------------------------------------------------
Peer == PeerSends \/ PeerFin \/ PeerReset \/ PeerReads

Handler ==
    \/ handle_event \/ handle_read \/ handle_write \/ HandleEventDone
    \/ MessageReturn \/ MessageEofReturn \/ CallbackReturn

LoopFunctor == Start \/ RunFunctor("high_water") \/ RunFunctor("write_complete")

UserCode ==
    \/ ConsumeInput
    \/ \E n \in 1 .. MaxSend : send(n)
    \/ shutdown \/ UserClose \/ force_close_with_delay

Next ==
    Peer \/ FdReused \/ EpollReports \/ Handler \/ LoopFunctor \/ ForceTimer
    \/ UserCode

SafeSpec == Init /\ [][Next]_vars

\* The peer keeps reading.  The loop thread keeps running and callbacks return;
\* every turn of the loop polls and runs the functors, so neither starves.
Spec ==
    /\ SafeSpec
    /\ WF_vars(PeerReads)
    /\ WF_vars(Handler)
    /\ SF_vars(EpollReports)
    /\ SF_vars(LoopFunctor)

-----------------------------------------------------------------------------
(* Properties.                                                             *)

\* Types of connection.h and channel.h; a connection that is not closed has its
\* socket, and a closed one is out of epoll.
TypeOK ==
    /\ state \in States
    /\ out \in Seq(1 .. MaxSend)
    /\ inbuf \in Nat
    /\ shutdown_pending \in BOOLEAN
    /\ events \subseteq {"IN", "OUT"}
    /\ chstate \in {"kNew", "kAdded", "kDeleted"}
    /\ edge \in BOOLEAN
    /\ revents \subseteq {"IN", "OUT", "ERR", "HUP"}
    /\ functors \in Seq(FunctorKinds)
    /\ force_timer \in BOOLEAN
    /\ pc \in Pcs
    /\ sock \in {"open", "closed", "reused"}
    /\ rx \in Nat
    /\ eof \in BOOLEAN
    /\ rst \in BOOLEAN
    /\ sndbuf \in 0 .. SndBuf
    /\ fin \in BOOLEAN
    /\ wire \in Seq(1 .. MaxSend)
    /\ accepted \in 0 .. MaxSend
    /\ arrived \in Nat
    /\ shown \in Nat
    /\ paused \in BOOLEAN
    /\ closed_on \in {"none", "eof", "error", "user"}
    /\ strays \subseteq {"read", "write", "shutdown", "close"}
    /\ state # "kDisconnected" <=> sock = "open"
    /\ state = "kDisconnected" => chstate = "kDeleted" /\ events = {} /\ ~edge

\* What the application hands to send() reaches the kernel in that order and
\* without gaps: until close() it is either written or in output_buffer_, and
\* what was written is always its beginning.
OutputInOrder ==
    /\ state # "kDisconnected" => wire \o out = Bytes(0, accepted)
    /\ wire = Bytes(0, Len(wire))
    /\ Len(wire) <= accepted

\* src/src/connection.cpp:106: EPOLLOUT is watched exactly while output_buffer_
\* holds something, so handle_write never finds it empty and no byte is stuck.
WriteInterestExact ==
    state # "kDisconnected" => ("OUT" \in events) = (out # <<>>)

\* A half-close is neither early nor forgotten: SHUT_WR comes after the last
\* byte accepted, and until it has come the connection that wants it is waiting
\* for bytes to leave.
HalfCloseAfterLastByte ==
    /\ fin => Len(wire) = accepted
    /\ state = "kDisconnecting" /\ ~fin => shutdown_pending /\ out # <<>>

\* Registration is edge-triggered, so an edge consumed must leave nothing behind:
\* between two dispatches the channel is on the ready list whenever its socket is
\* ready for something it asked for.
NoLostEdge ==
    chstate = "kAdded" /\ pc \in {"idle", "callback"} /\ revents = {}
        /\ Mask(events) # {}
    => edge

\* docs/DECISIONS.md:78: the peer's last bytes and its FIN come in one event; a
\* connection closed because of end of file has shown everything that arrived.
EofShowsEverything ==
    state = "kDisconnected" /\ closed_on = "eof" => shown = arrived

\* A paused application gets to resume, if the peer keeps reading.
PausedResumes == paused ~> ~paused \/ state = "kDisconnected"

\* Every byte that arrives is shown to the application, or the connection closes.
ArrivedIsShown ==
    \A n \in 1 .. MaxArrive :
        arrived >= n ~> shown >= n \/ state = "kDisconnected"

\* src/src/channel.cpp:47: after close() in an earlier branch the read and write
\* branches do no harm, because their system calls fail; none of them reaches a
\* socket that is not this connection's.  It does not hold when the descriptor's
\* number is given out again in between.
NothingAfterClose == strays = {}

=============================================================================
