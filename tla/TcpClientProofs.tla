--------------------------- MODULE TcpClientProofs --------------------------
(***************************************************************************)
(* For every set of sockets, every pair of delays and any number of retry  *)
(* timers: the types of TcpClient, one socket at a time, a final           *)
(* disconnect(), truthful callbacks and no retry without a timer.          *)
(***************************************************************************)
EXTENDS TcpClient, SequenceTheorems, TLAPS

-----------------------------------------------------------------------------
(* Type correctness.                                                       *)

Delays == {0} \cup (kInitialBackoffMs .. kMaxBackoffMs)

\* The delay schedule_retry leaves behind is within its limits.
LEMMA ScheduleType ==
    ASSUME NEW r \in BOOLEAN, NEW t \in Nat,
           NEW b \in Delays,
           schedule_retry(r, b, t)
    PROVE  /\ state' \in States
           /\ timers' \in Nat
           /\ backoff' \in Delays
<1> DEFINE wait == IF b = 0 THEN kInitialBackoffMs ELSE b
<1>1. /\ wait \in Nat /\ kInitialBackoffMs <= wait
      /\ kInitialBackoffMs \in Nat /\ kMaxBackoffMs \in Nat
      /\ kInitialBackoffMs <= kMaxBackoffMs
  BY BackoffRange DEF Delays
<1>2. \/ backoff' = b
      \/ backoff' = 2 * wait /\ 2 * wait < kMaxBackoffMs
      \/ backoff' = kMaxBackoffMs
  BY DEF schedule_retry
<1>3. state' \in States /\ timers' \in Nat
  BY DEF schedule_retry, States
<1> HIDE DEF wait
<1>4. backoff' \in Delays
  BY <1>1, <1>2 DEF Delays
<1>5. QED
  BY <1>3, <1>4

\* The initial delay is one of the delays.
LEMMA InitialDelay == kInitialBackoffMs \in Delays
  BY BackoffRange DEF Delays

\* The types of what an attempt or the end of a connection changes.
AttemptTyped ==
    /\ state' \in States
    /\ backoff' \in Delays
    /\ timers' \in Nat
    /\ connection' \in Socks \cup {NoSock}
    /\ connecting' \in Socks \cup {NoSock}
    /\ channel' \in BOOLEAN
    /\ told' \in {"up", "down"}
    /\ frames' \in Seq(Frame)

\* An established connection.
LEMMA EstablishedType ==
    ASSUME TypeOK, NEW s \in Socks, NEW t \in Nat, Established(s, t)
    PROVE  AttemptTyped
<1>1. frames \in Seq(Frame) /\ [cb |-> "up", conn |-> s] \in Frame
  BY DEF TypeOK, Frame
<1>2. frames' \in Seq(Frame)
  BY <1>1, AppendProperties DEF Established
<1>3. QED
  BY <1>2, InitialDelay DEF Established, States, AttemptTyped

\* An attempt, whatever comes of it.
LEMMA StartType ==
    ASSUME TypeOK, NEW r \in BOOLEAN, NEW b \in Delays, NEW t \in Nat,
           start_connect(r, b, t)
    PROVE  /\ AttemptTyped
           /\ open' \subseteq Socks
           /\ result' \in [Socks -> {"pending", "ok", "failed"}]
<1>1. CASE /\ schedule_retry(r, b, t)
           /\ UNCHANGED <<connecting, channel, connection, open, result, told, frames>>
  BY <1>1, ScheduleType DEF TypeOK, AttemptTyped
<1>2. ASSUME NEW s \in Free, open' = open \cup {s}, Established(s, t),
             result' = [result EXCEPT ![s] = "ok"]
      PROVE  /\ AttemptTyped
             /\ open' \subseteq Socks
             /\ result' \in [Socks -> {"pending", "ok", "failed"}]
  <2>1. s \in Socks
    BY DEF Free
  <2>2. QED
    BY <1>2, <2>1, EstablishedType DEF TypeOK
<1>3. ASSUME NEW s \in Free, open' = open \cup {s},
             result' = [result EXCEPT ![s] = "pending"],
             state' = "kConnecting", connecting' = s, channel' = TRUE,
             backoff' = b, timers' = t, UNCHANGED <<connection, told, frames>>
      PROVE  /\ AttemptTyped
             /\ open' \subseteq Socks
             /\ result' \in [Socks -> {"pending", "ok", "failed"}]
  <2>1. s \in Socks
    BY DEF Free
  <2>2. QED
    BY <1>3, <2>1 DEF TypeOK, AttemptTyped, States
<1>4. QED
  BY <1>1, <1>2, <1>3 DEF start_connect

\* close() pushes a call of connection_cb_ or does nothing.
LEMMA CloseType ==
    ASSUME TypeOK, NEW c, close(c)
    PROVE  open' \subseteq Socks /\ told' \in {"up", "down"} /\ frames' \in Seq(Frame)
<1>1. frames \in Seq(Frame) /\ open \subseteq Socks /\ told \in {"up", "down"}
  BY DEF TypeOK
<1>2. CASE c \in open
  <2>1. [cb |-> "down", conn |-> c] \in Frame
    BY <1>1, <1>2 DEF Frame
  <2>2. frames' \in Seq(Frame)
    BY <1>1, <1>2, <2>1, AppendProperties DEF close
  <2>3. QED
    BY <1>1, <1>2, <2>2 DEF close
<1>3. CASE c \notin open
  BY <1>1, <1>3 DEF close
<1>4. QED
  BY <1>2, <1>3

\* Returning from connection_cb_ leaves the other calls.
LEMMA PopType ==
    ASSUME NEW f \in Seq(Frame), f # <<>>
    PROVE  /\ SubSeq(f, 1, Len(f) - 1) \in Seq(Frame)
           /\ Len(SubSeq(f, 1, Len(f) - 1)) = Len(f) - 1
           /\ \A i \in 1 .. Len(f) - 1 : SubSeq(f, 1, Len(f) - 1)[i] = f[i]
<1>1. Len(f) \in Nat /\ Len(f) > 0
  BY EmptySeq, LenProperties
<1> DEFINE n == Len(f) - 1
<1>2. n \in Int /\ 1 \in Int /\ n >= 0 /\ \A i \in 1 .. n : f[i] \in Frame
  BY <1>1, ElementOfSeq
<1>3. /\ SubSeq(f, 1, n) \in Seq(Frame)
      /\ Len(SubSeq(f, 1, n)) = IF 1 <= n THEN n - 1 + 1 ELSE 0
      /\ \A i \in 1 .. n - 1 + 1 : SubSeq(f, 1, n)[i] = f[1 + i - 1]
  <2> HIDE DEF n
  <2>1. QED
    BY <1>2, SubSeqProperties
<1>4. \A i \in 1 .. n : SubSeq(f, 1, n)[i] = f[i]
  <2> SUFFICES ASSUME NEW i \in 1 .. n PROVE SubSeq(f, 1, n)[i] = f[i]
    OBVIOUS
  <2>1. i \in 1 .. n - 1 + 1 /\ 1 + i - 1 = i
    BY <1>2
  <2>2. QED
    BY <1>3, <2>1
<1>5. Len(SubSeq(f, 1, n)) = n
  <2> HIDE DEF n
  <2>1. n - 1 + 1 = n /\ (~(1 <= n) => n = 0)
    BY <1>2
  <2>2. QED
    BY <1>3, <2>1
<1>6. QED
  BY <1>3, <1>4, <1>5

\* Init establishes the types.
LEMMA InitTypeOK == Init => TypeOK
<1> SUFFICES ASSUME Init PROVE TypeOK
  OBVIOUS
<1>1. frames \in Seq(Frame)
  BY EmptySeq DEF Init
<1>2. QED
  BY <1>1 DEF Init, TypeOK, States

\* Every step keeps the types.  The socket that is handed to the connection
\* exists because a live report is one of a connecting socket (ClientInv).
LEMMA NextTypeOK == TypeOK /\ ClientInv /\ [Next]_vars => TypeOK'
<1> SUFFICES ASSUME TypeOK, ClientInv, [Next]_vars PROVE TypeOK'
  OBVIOUS
<1>0. /\ backoff \in Delays /\ timers \in Nat /\ retry_enabled \in BOOLEAN
      /\ frames \in Seq(Frame)
  BY DEF TypeOK, Delays
<1>1. CASE connect_in_loop
  <2>1. start_connect(TRUE, kInitialBackoffMs, timers)
    BY <1>1 DEF connect_in_loop
  <2>2. /\ AttemptTyped
        /\ open' \subseteq Socks
        /\ result' \in [Socks -> {"pending", "ok", "failed"}]
    BY <1>0, <2>1, StartType, InitialDelay
  <2>3. QED
    BY <1>1, <2>2 DEF connect_in_loop, TypeOK, AttemptTyped, Delays
<1>2. CASE disconnect_in_loop
  <2>0. /\ retry_enabled' = FALSE
        /\ UNCHANGED <<connection, backoff, timers, life, result, orderly, late,
                       dangled, strayed>>
    BY <1>2 DEF disconnect_in_loop
  <2>1. CASE state = "kConnected" /\ close(connection)
                /\ UNCHANGED <<state, connecting, channel, reported>>
    <3>1. open' \subseteq Socks /\ told' \in {"up", "down"} /\ frames' \in Seq(Frame)
      BY <2>1, CloseType
    <3>2. QED
      BY <2>0, <2>1, <3>1 DEF TypeOK
  <2>2. CASE state = "kConnecting" /\ DropChannel /\ open' = open \ {connecting}
                /\ connecting' = NoSock /\ state' = "kDisconnected"
                /\ UNCHANGED <<told, frames>>
    BY <2>0, <2>2 DEF DropChannel, TypeOK, States
  <2>3. CASE state \in {"kRetrying", "kDisconnected"} /\ state' = "kDisconnected"
                /\ UNCHANGED <<open, connecting, channel, reported, told, frames>>
    <3>1. state' \in States /\ retry_enabled' \in BOOLEAN
      BY <2>0, <2>3 DEF States
    <3>2. UNCHANGED <<connecting, channel, connection, backoff, timers, frames, life,
                      open, result, reported, told, orderly, late, dangled, strayed>>
      BY <2>0, <2>3
    <3>3. QED
      BY <3>1, <3>2 DEF TypeOK
  <2>4. QED
    BY <1>2, <2>1, <2>2, <2>3 DEF disconnect_in_loop
<1>3. CASE ConnectionCloses
  <2>1. open' \subseteq Socks /\ told' \in {"up", "down"} /\ frames' \in Seq(Frame)
    BY <1>3, CloseType DEF ConnectionCloses
  <2>2. QED
    BY <1>3, <2>1 DEF ConnectionCloses, TypeOK
<1>4. CASE UpReturn
  <2>1. frames' \in Seq(Frame)
    BY <1>0, <1>4, PopType DEF UpReturn
  <2>2. QED
    BY <1>4, <2>1 DEF UpReturn, TypeOK
<1>5. CASE DownReturn
  <2>1. frames' \in Seq(Frame)
    BY <1>0, <1>5, PopType DEF DownReturn
  <2>2. state' \in States /\ timers' \in Nat /\ backoff' \in Delays
    BY <1>0, <1>5, ScheduleType DEF DownReturn
  <2>3. QED
    BY <1>5, <2>1, <2>2 DEF DownReturn, TypeOK, Delays
<1>6. ASSUME NEW r \in {"ok", "failed"}, Handshake(r) PROVE TypeOK'
  BY <1>6 DEF Handshake, TypeOK
<1>7. CASE EpollReports
  BY <1>7 DEF EpollReports, TypeOK
<1>8. CASE ConnectEvent
  <2>1. CASE /\ open' = open \ {connecting} /\ connecting' = NoSock /\ channel' = FALSE
             /\ schedule_retry(retry_enabled, backoff, timers)
             /\ UNCHANGED <<connection, told, frames>>
    <3>1. state' \in States /\ timers' \in Nat /\ backoff' \in Delays
      BY <1>0, <2>1, ScheduleType
    <3>2. QED
      BY <1>8, <2>1, <3>1 DEF ConnectEvent, TypeOK, Delays
  <2>2. CASE connecting \in Socks /\ Established(connecting, timers) /\ UNCHANGED open
    <3>1. AttemptTyped
      BY <1>0, <2>2, EstablishedType
    <3>2. QED
      BY <1>8, <2>2, <3>1 DEF ConnectEvent, TypeOK, AttemptTyped, Delays
  <2>3. connecting \in Socks
    BY <1>8 DEF ConnectEvent, ClientInv, TypeOK
  <2>4. QED
    BY <1>8, <2>1, <2>2, <2>3 DEF ConnectEvent, handle_connect_writable
<1>9. CASE DanglingEvent
  BY <1>9 DEF DanglingEvent, TypeOK
<1>10. CASE RetryTimer
  <2>1. timers - 1 \in Nat
    BY <1>0, <1>10 DEF RetryTimer
  <2>2. CASE start_connect(retry_enabled, backoff, timers - 1)
    <3>1. /\ AttemptTyped
          /\ open' \subseteq Socks
          /\ result' \in [Socks -> {"pending", "ok", "failed"}]
      BY <1>0, <2>1, <2>2, StartType
    <3>2. QED
      BY <1>10, <3>1 DEF RetryTimer, TypeOK, AttemptTyped, Delays
  <2>3. CASE /\ timers' = timers - 1
             /\ UNCHANGED <<state, connecting, channel, connection, backoff, frames,
                            open, result, told>>
    BY <1>10, <2>1, <2>3 DEF RetryTimer, TypeOK
  <2>4. QED
    BY <1>10, <2>2, <2>3 DEF RetryTimer
<1>11. CASE RetryTimerTooLate
  BY <1>11 DEF RetryTimerTooLate, TypeOK
<1>12. CASE Destroy
  <2>1. open' \subseteq Socks /\ told' \in {"up", "down"} /\ frames' \in Seq(Frame)
    BY <1>12, CloseType DEF Destroy
  <2>2. orderly' \in BOOLEAN
    BY <1>12 DEF Destroy
  <2>3. QED
    BY <1>12, <2>1, <2>2 DEF Destroy, TypeOK
<1>13. CASE DestroyEnd
  BY <1>13 DEF DestroyEnd, DropChannel, TypeOK
<1>14. CASE UNCHANGED vars
  BY <1>14 DEF vars, TypeOK
<1>15. QED
  BY <1>1, <1>2, <1>3, <1>4, <1>5, <1>6, <1>7, <1>8, <1>9, <1>10, <1>11, <1>12,
     <1>13, <1>14 DEF Next

-----------------------------------------------------------------------------
(* The invariant.                                                          *)

\* The facts about the stack of calls that the steps below need.
Shape == OthersUp /\ frames \in Seq(Frame)

\* A call on top of a stack without "down".
LEMMA PushShape ==
    ASSUME Shape, ~TellingDown, NEW f \in Frame, frames' = Append(frames, f)
    PROVE  /\ OthersUp'
           /\ TellingDown' <=> f.cb = "down"
           /\ frames' # <<>>
           /\ Len(frames') = Len(frames) + 1
<1>1. Len(frames) \in Nat /\ frames \in Seq(Frame)
  BY LenProperties DEF Shape
<1>2. /\ Len(frames') = Len(frames) + 1 /\ frames'[Len(frames) + 1] = f
      /\ \A i \in 1 .. Len(frames) : frames'[i] = frames[i]
      /\ frames' \in Seq(Frame)
  BY <1>1, AppendProperties
<1>3. frames' # <<>>
  BY <1>1, <1>2, EmptySeq
<1>4. \A i \in 1 .. Len(frames) : frames[i].cb = "up"
  <2> SUFFICES ASSUME NEW i \in 1 .. Len(frames) PROVE frames[i].cb = "up"
    OBVIOUS
  <2>1. CASE i = Len(frames)
    <3>1. frames # <<>> /\ frames[i] \in Frame
      BY <1>1, EmptySeq, ElementOfSeq
    <3>2. frames[i].cb # "down"
      BY <2>1, <3>1 DEF TellingDown
    <3>3. QED
      BY <3>1, <3>2 DEF Frame
  <2>2. CASE i # Len(frames)
    <3>1. i \in 1 .. Len(frames) - 1
      BY <1>1, <2>2
    <3>2. QED
      BY <3>1 DEF Shape, OthersUp
  <2>3. QED
    BY <2>1, <2>2
<1>5. OthersUp'
  BY <1>1, <1>2, <1>4 DEF OthersUp
<1>6. QED
  BY <1>1, <1>2, <1>3, <1>5 DEF TellingDown

\* When a call returns there is no "down" left.
LEMMA PopShape ==
    ASSUME Shape, frames # <<>>, frames' = SubSeq(frames, 1, Len(frames) - 1)
    PROVE  OthersUp' /\ ~TellingDown' /\ Len(frames') = Len(frames) - 1
           /\ frames' \in Seq(Frame)
<1>1. /\ frames \in Seq(Frame) /\ Len(frames) \in Nat /\ Len(frames) > 0
      /\ frames' \in Seq(Frame) /\ Len(frames') = Len(frames) - 1
      /\ \A i \in 1 .. Len(frames) - 1 : frames'[i] = frames[i]
  BY PopType, EmptySeq, LenProperties DEF Shape
<1>2. \A i \in 1 .. Len(frames') : frames'[i].cb = "up"
  BY <1>1 DEF Shape, OthersUp
<1>3. OthersUp'
  BY <1>1, <1>2 DEF OthersUp
<1>4. ~TellingDown'
  <2>1. CASE frames' = <<>>
    BY <2>1 DEF TellingDown
  <2>2. CASE frames' # <<>>
    <3>1. Len(frames') \in 1 .. Len(frames')
      BY <1>1, <2>2, EmptySeq
    <3>2. QED
      BY <1>2, <3>1 DEF TellingDown
  <2>3. QED
    BY <2>1, <2>2
<1>5. QED
  BY <1>1, <1>3, <1>4

\* A call that does not touch the stack.
LEMMA SameShape ==
    ASSUME UNCHANGED frames
    PROVE  (OthersUp' <=> OthersUp) /\ (TellingDown' <=> TellingDown)
  BY DEF OthersUp, TellingDown

\* close() of a connection that is open reports it; else nothing happens.
LEMMA CloseShape ==
    ASSUME TypeOK, ClientInv, close(connection)
    PROVE  \/ /\ connection \in open /\ open' = open \ {connection}
              /\ told' = "down" /\ OthersUp' /\ TellingDown' /\ frames' # <<>>
              /\ Len(frames') = Len(frames) + 1
           \/ /\ connection \notin open
              /\ UNCHANGED <<open, told, frames>>
<1>1. CASE connection \in open
  <2>1. Shape /\ ~TellingDown
    BY <1>1 DEF ClientInv, TypeOK, Shape
  <2>2. [cb |-> "down", conn |-> connection] \in Frame
    BY <1>1 DEF TypeOK, Frame
  <2>3. /\ open' = open \ {connection} /\ told' = "down"
        /\ frames' = Append(frames, [cb |-> "down", conn |-> connection])
    BY <1>1 DEF close
  <2>4. OthersUp' /\ TellingDown' /\ frames' # <<>> /\ Len(frames') = Len(frames) + 1
    BY <2>1, <2>2, <2>3, PushShape
  <2>5. QED
    BY <1>1, <2>3, <2>4
<1>2. CASE connection \notin open
  BY <1>2 DEF close
<1>3. QED
  BY <1>1, <1>2

\* A connection is established only while none is held, and then the stack grows
\* by an "up".
LEMMA EstablishedShape ==
    ASSUME TypeOK, ClientInv, connection = NoSock,
           NEW s \in Socks, NEW t, Established(s, t)
    PROVE  OthersUp' /\ ~TellingDown'
<1>1. Shape /\ ~TellingDown
  BY DEF ClientInv, TypeOK, Shape
<1>2. [cb |-> "up", conn |-> s] \in Frame
  BY DEF Frame
<1>3. QED
  BY <1>1, <1>2, PushShape DEF Established

\* Init establishes the invariant.
LEMMA InitClientInv == Init => ClientInv
<1> SUFFICES ASSUME Init PROVE ClientInv
  OBVIOUS
<1>1. OthersUp /\ ~TellingDown
  BY EmptySeq DEF Init, OthersUp, TellingDown
<1>2. QED
  BY <1>1 DEF Init, ClientInv, RetryIsScheduled

\* An attempt starts with no socket in use and while retry_enabled_ is set.
LEMMA StartInv ==
    ASSUME TypeOK, ClientInv, NEW b, NEW t \in Nat,
           start_connect(TRUE, b, t),
           state \in {"kRetrying", "kDisconnected"}, life = "alive",
           retry_enabled', UNCHANGED <<life, reported>>
    PROVE  ClientInv'
<1>0. connection = NoSock /\ connecting = NoSock /\ open = {}
  BY NoSockIsNone DEF ClientInv, TypeOK
<1>1. CASE /\ schedule_retry(TRUE, b, t)
           /\ UNCHANGED <<connecting, channel, connection, open, result, told, frames>>
  <2>1. state' = "kRetrying" /\ timers' > 0
    BY <1>1 DEF schedule_retry
  <2>2. (OthersUp' <=> OthersUp) /\ (TellingDown' <=> TellingDown)
    BY <1>1, SameShape
  <2>3. QED
    BY <1>0, <1>1, <2>1, <2>2 DEF ClientInv, RetryIsScheduled
<1>2. ASSUME NEW s \in Free, open' = open \cup {s}, Established(s, t)
      PROVE  ClientInv'
  <2>1. s \in Socks /\ s # NoSock
    BY NoSockIsNone DEF Free
  <2>2. OthersUp' /\ ~TellingDown'
    BY <1>0, <1>2, <2>1, EstablishedShape
  <2>3. QED
    BY <1>0, <1>2, <2>1, <2>2 DEF Established, ClientInv, RetryIsScheduled
<1>3. ASSUME NEW s \in Free, open' = open \cup {s},
             state' = "kConnecting", connecting' = s, channel' = TRUE,
             UNCHANGED <<connection, told, frames>>
      PROVE  ClientInv'
  <2>1. s \in Socks /\ s # NoSock
    BY NoSockIsNone DEF Free
  <2>2. (OthersUp' <=> OthersUp) /\ (TellingDown' <=> TellingDown)
    BY <1>3, SameShape
  <2>3. QED
    BY <1>0, <1>3, <2>1, <2>2, NoSockIsNone DEF ClientInv, RetryIsScheduled
<1>4. QED
  BY <1>1, <1>2, <1>3 DEF start_connect

\* Every step keeps the invariant.
LEMMA NextClientInv == TypeOK /\ ClientInv /\ [Next]_vars => ClientInv'
<1> SUFFICES ASSUME TypeOK, ClientInv, [Next]_vars PROVE ClientInv'
  OBVIOUS
<1> USE NoSockIsNone
<1>0. Shape /\ NoSock \notin open /\ Len(frames) \in Nat
  BY LenProperties DEF TypeOK, ClientInv, Shape
<1>a. frames = <<>> => Len(frames) = 0 /\ ~TellingDown
  BY EmptySeq DEF TellingDown
<1>1. CASE connect_in_loop
  <2>1. state \in {"kRetrying", "kDisconnected"}
    BY <1>1 DEF connect_in_loop, TypeOK, States
  <2>2. life = "alive"
    BY <1>1, <2>1 DEF connect_in_loop, InUserCode, ClientInv
  <2>3. QED
    BY <1>1, <2>1, <2>2, StartInv DEF connect_in_loop, TypeOK
<1>2. CASE disconnect_in_loop
  <2>0. /\ ~retry_enabled' /\ UNCHANGED <<connection, timers, life>>
    BY <1>2 DEF disconnect_in_loop
  <2>1. CASE state = "kConnected" /\ close(connection)
                /\ UNCHANGED <<state, connecting, channel, reported>>
    <3>1. CASE /\ connection \in open /\ open' = open \ {connection}
               /\ told' = "down" /\ OthersUp' /\ TellingDown' /\ frames' # <<>>
               /\ Len(frames') = Len(frames) + 1
      <4>1. life = "alive"
        BY <1>2, <3>1 DEF disconnect_in_loop, InUserCode, ClientInv
      <4>2. QED
        BY <2>0, <2>1, <3>1, <4>1, <1>0 DEF ClientInv, RetryIsScheduled
    <3>2. CASE connection \notin open /\ UNCHANGED <<open, told, frames>>
      <4>1. (OthersUp' <=> OthersUp) /\ (TellingDown' <=> TellingDown)
        BY <3>2, SameShape
      <4>2. QED
        BY <2>0, <2>1, <3>2, <4>1 DEF ClientInv, RetryIsScheduled
    <3>3. QED
      BY <2>1, <3>1, <3>2, CloseShape
  <2>2. CASE state = "kConnecting" /\ DropChannel /\ open' = open \ {connecting}
                /\ connecting' = NoSock /\ state' = "kDisconnected"
                /\ UNCHANGED <<told, frames>>
    <3>1. (OthersUp' <=> OthersUp) /\ (TellingDown' <=> TellingDown)
      BY <2>2, SameShape
    <3>2. life # "dead" /\ connection = NoSock /\ ~channel' /\ reported' # "live"
      BY <1>2, <2>2 DEF disconnect_in_loop, InUserCode, DropChannel, ClientInv
    <3>3. QED
      BY <1>0, <2>0, <2>2, <3>1, <3>2 DEF ClientInv, RetryIsScheduled
  <2>3. CASE state \in {"kRetrying", "kDisconnected"} /\ state' = "kDisconnected"
                /\ UNCHANGED <<open, connecting, channel, reported, told, frames>>
    <3>1. (OthersUp' <=> OthersUp) /\ (TellingDown' <=> TellingDown)
      BY <2>3, SameShape
    <3>2. QED
      BY <1>0, <2>0, <2>3, <3>1 DEF ClientInv, RetryIsScheduled
  <2>4. QED
    BY <1>2, <2>1, <2>2, <2>3 DEF disconnect_in_loop
<1>3. CASE ConnectionCloses
  <2>0. UNCHANGED <<state, retry_enabled, connecting, channel, connection, timers,
                    life, reported>>
    BY <1>3 DEF ConnectionCloses
  <2>1. CASE /\ connection \in open /\ open' = open \ {connection}
             /\ told' = "down" /\ OthersUp' /\ TellingDown' /\ frames' # <<>>
             /\ Len(frames') = Len(frames) + 1
    <3>1. life = "alive"
      BY <1>3, <2>1 DEF ConnectionCloses, InUserCode, ClientInv
    <3>2. connecting # connection
      BY <1>0, <2>1, <3>1 DEF ClientInv
    <3>3. QED
      BY <2>0, <2>1, <3>1, <3>2, <1>0 DEF ClientInv, RetryIsScheduled
  <2>2. CASE connection \notin open /\ UNCHANGED <<open, told, frames>>
    <3>1. (OthersUp' <=> OthersUp) /\ (TellingDown' <=> TellingDown)
      BY <2>2, SameShape
    <3>2. QED
      BY <2>0, <2>2, <3>1 DEF ClientInv, RetryIsScheduled
  <2>3. QED
    BY <1>3, <2>1, <2>2, CloseShape DEF ConnectionCloses
<1>4. CASE UpReturn
  <2>1. OthersUp' /\ ~TellingDown'
    BY <1>0, <1>4, PopShape DEF UpReturn
  <2>2. ~TellingDown /\ life = "alive"
    BY <1>4 DEF UpReturn, TellingDown, ClientInv, TypeOK
  <2>3. QED
    BY <1>4, <2>1, <2>2 DEF UpReturn, ClientInv, RetryIsScheduled
<1>5. CASE DownReturn
  <2>1. OthersUp' /\ ~TellingDown' /\ Len(frames') = Len(frames) - 1
        /\ frames' \in Seq(Frame)
    BY <1>0, <1>5, PopShape DEF DownReturn
  <2>2. TellingDown /\ life # "dead"
    BY <1>5 DEF DownReturn, TellingDown, ClientInv
  <2>3. connection # NoSock /\ connection \notin open /\ connecting = NoSock /\ open = {}
    BY <2>2 DEF ClientInv, TypeOK
  <2>4. \/ retry_enabled /\ state' = "kRetrying" /\ timers' > 0
        \/ ~retry_enabled /\ state' = "kDisconnected"
    BY <1>5 DEF DownReturn, schedule_retry, TypeOK
  <2>5. life = "dying" => frames' = <<>>
    <3>1. life = "dying" => Len(frames') = 0
      BY <1>5, <2>1 DEF DownReturn, ClientInv
    <3>2. QED
      BY <2>1, <3>1, EmptySeq
  <2>6. UNCHANGED <<retry_enabled, connecting, channel, life, open, reported, told>>
        /\ connection' = NoSock
    BY <1>5 DEF DownReturn
  <2>7. QED
    BY <2>1, <2>2, <2>3, <2>4, <2>5, <2>6 DEF ClientInv, RetryIsScheduled
<1>6. ASSUME NEW r \in {"ok", "failed"}, Handshake(r) PROVE ClientInv'
  <2>1. (OthersUp' <=> OthersUp) /\ (TellingDown' <=> TellingDown)
    BY <1>6, SameShape DEF Handshake
  <2>2. QED
    BY <1>6, <2>1 DEF Handshake, ClientInv, RetryIsScheduled
<1>7. CASE EpollReports
  <2>1. (OthersUp' <=> OthersUp) /\ (TellingDown' <=> TellingDown)
    BY <1>7, SameShape DEF EpollReports
  <2>2. QED
    BY <1>7, <2>1 DEF EpollReports, ClientInv, RetryIsScheduled
<1>8. CASE ConnectEvent
  <2>0. /\ life = "alive" /\ frames = <<>> /\ connecting \in Socks
        /\ connection = NoSock /\ state = "kConnecting" /\ retry_enabled
        /\ open = {connecting} /\ reported' = "no" /\ UNCHANGED <<retry_enabled, life>>
    BY <1>8 DEF ConnectEvent, AtTop, ClientInv, TypeOK
  <2>1. CASE /\ open' = open \ {connecting} /\ connecting' = NoSock /\ channel' = FALSE
             /\ schedule_retry(retry_enabled, backoff, timers)
             /\ UNCHANGED <<connection, told, frames>>
    <3>1. state' = "kRetrying" /\ timers' > 0
      BY <2>0, <2>1 DEF schedule_retry, TypeOK
    <3>2. (OthersUp' <=> OthersUp) /\ (TellingDown' <=> TellingDown)
      BY <2>1, SameShape
    <3>3. QED
      BY <2>0, <2>1, <3>1, <3>2 DEF ClientInv, RetryIsScheduled
  <2>2. CASE Established(connecting, timers) /\ UNCHANGED open
    <3>1. OthersUp' /\ ~TellingDown'
      BY <2>0, <2>2, EstablishedShape
    <3>2. QED
      BY <2>0, <2>2, <3>1 DEF Established, ClientInv, RetryIsScheduled
  <2>3. QED
    BY <1>8, <2>1, <2>2 DEF ConnectEvent, handle_connect_writable
<1>9. CASE DanglingEvent
  <2>1. (OthersUp' <=> OthersUp) /\ (TellingDown' <=> TellingDown)
    BY <1>9, SameShape DEF DanglingEvent
  <2>2. QED
    BY <1>9, <2>1 DEF DanglingEvent, ClientInv, RetryIsScheduled
<1>10. CASE RetryTimer
  <2>0. life = "alive" /\ timers - 1 \in Nat /\ UNCHANGED <<retry_enabled, life, reported>>
    BY <1>10 DEF RetryTimer, AtTop, TypeOK
  <2>1. CASE state = "kRetrying" /\ start_connect(retry_enabled, backoff, timers - 1)
    <3>1. retry_enabled = TRUE
      BY <2>0, <2>1 DEF ClientInv, TypeOK
    <3>2. start_connect(TRUE, backoff, timers - 1)
      BY <2>1, <3>1
    <3>3. QED
      BY <2>0, <2>1, <3>1, <3>2, StartInv
  <2>2. CASE /\ state # "kRetrying"
             /\ timers' = timers - 1
             /\ UNCHANGED <<state, connecting, channel, connection, backoff, frames,
                            open, result, told>>
    <3>1. (OthersUp' <=> OthersUp) /\ (TellingDown' <=> TellingDown)
      BY <2>2, SameShape
    <3>2. QED
      BY <2>0, <2>2, <3>1 DEF ClientInv, RetryIsScheduled
  <2>3. QED
    BY <1>10, <2>1, <2>2 DEF RetryTimer
<1>11. CASE RetryTimerTooLate
  <2>1. (OthersUp' <=> OthersUp) /\ (TellingDown' <=> TellingDown)
    BY <1>11, SameShape DEF RetryTimerTooLate
  <2>2. QED
    BY <1>11, <2>1 DEF RetryTimerTooLate, ClientInv, RetryIsScheduled
<1>12. CASE Destroy
  <2>0. /\ frames = <<>> /\ life = "alive" /\ life' = "dying"
        /\ UNCHANGED <<state, connecting, channel, connection, timers, reported>>
    BY <1>12 DEF Destroy, AtTop
  <2>1. CASE /\ connection \in open /\ open' = open \ {connection}
             /\ told' = "down" /\ OthersUp' /\ TellingDown' /\ frames' # <<>>
             /\ Len(frames') = Len(frames) + 1
    <3>1. connecting # connection /\ Len(frames') = 1
      BY <1>0, <1>a, <2>0, <2>1 DEF ClientInv
    <3>2. QED
      BY <1>0, <2>0, <2>1, <3>1 DEF ClientInv, RetryIsScheduled
  <2>2. CASE connection \notin open /\ UNCHANGED <<open, told, frames>>
    <3>1. (OthersUp' <=> OthersUp) /\ (TellingDown' <=> TellingDown)
      BY <2>2, SameShape
    <3>2. QED
      BY <1>0, <2>0, <2>2, <3>1 DEF ClientInv, RetryIsScheduled
  <2>3. QED
    BY <1>12, <2>1, <2>2, CloseShape DEF Destroy
<1>13. CASE DestroyEnd
  <2>1. (OthersUp' <=> OthersUp) /\ (TellingDown' <=> TellingDown)
    BY <1>13, SameShape DEF DestroyEnd
  <2>2. ~TellingDown /\ connection \notin open
    BY <1>13, <1>a DEF DestroyEnd, ClientInv
  <2>3. ~channel' /\ reported' # "live"
    BY <1>13 DEF DestroyEnd, DropChannel, ClientInv
  <2>4. QED
    BY <1>0, <1>13, <2>1, <2>2, <2>3 DEF DestroyEnd, ClientInv, RetryIsScheduled
<1>14. CASE UNCHANGED vars
  <2>1. (OthersUp' <=> OthersUp) /\ (TellingDown' <=> TellingDown)
    BY <1>14, SameShape DEF vars
  <2>2. QED
    BY <1>14, <2>1 DEF vars, ClientInv, RetryIsScheduled
<1>15. QED
  BY <1>1, <1>2, <1>3, <1>4, <1>5, <1>6, <1>7, <1>8, <1>9, <1>10, <1>11, <1>12,
     <1>13, <1>14 DEF Next

-----------------------------------------------------------------------------
(* The theorems.                                                           *)

\* The client is always in a state ClientInv describes.
THEOREM ClientIsRight == SafeSpec => [](TypeOK /\ ClientInv)
<1>1. Init => TypeOK /\ ClientInv
  BY InitTypeOK, InitClientInv
<1>2. (TypeOK /\ ClientInv) /\ [Next]_vars => (TypeOK /\ ClientInv)'
  BY NextTypeOK, NextClientInv
<1>3. QED
  BY <1>1, <1>2, PTL DEF SafeSpec

\* Every variable keeps its type, and backoff_ms_ stays within its two limits
\* however often schedule_retry doubles it.
THEOREM TypeCorrect == SafeSpec => []TypeOK
  BY ClientIsRight, PTL

\* The client holds one socket at a time, and only a socket it has a use for is
\* open: no attempt and no connection is lost without being closed.
THEOREM OneSocketAtATime == SafeSpec => []NoSocketLost
<1>1. TypeOK /\ ClientInv => NoSocketLost
  BY NoSockIsNone DEF TypeOK, ClientInv, NoSocketLost
<1>2. QED
  BY <1>1, ClientIsRight, PTL

\* After disconnect() no retry and no attempt comes back, whatever timers are
\* still set.
THEOREM DisconnectStays == SafeSpec => []DisconnectIsFinal
<1>1. TypeOK /\ ClientInv => DisconnectIsFinal
  <2> SUFFICES ASSUME TypeOK, ClientInv, ~retry_enabled, frames = <<>>, life # "dying"
               PROVE  open = {} /\ (life = "alive" => state = "kDisconnected")
    BY DEF DisconnectIsFinal
  <2>1. ~TellingDown
    BY DEF TellingDown
  <2>2. connection = NoSock /\ connecting = NoSock
    BY <2>1 DEF TypeOK, ClientInv
  <2>3. open = {}
    BY <2>2, NoSockIsNone DEF TypeOK, ClientInv
  <2>4. QED
    BY <2>2, <2>3 DEF TypeOK, States, ClientInv
<1>2. QED
  BY <1>1, ClientIsRight, PTL

\* What connection_cb_ heard last is true, nested calls included.
THEOREM CallbacksAreTrue == SafeSpec => []ToldTheTruth
<1>1. ClientInv => ToldTheTruth
  BY DEF ClientInv, ToldTheTruth
<1>2. QED
  BY <1>1, ClientIsRight, PTL

\* A client in kRetrying has a timer set.
THEOREM RetryHasTimer == SafeSpec => []RetryIsScheduled
<1>1. ClientInv => RetryIsScheduled
  BY DEF ClientInv
<1>2. QED
  BY <1>1, ClientIsRight, PTL

=============================================================================
