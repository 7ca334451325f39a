--------------------------- MODULE ConnectionProofs --------------------------
(***************************************************************************)
(* What holds of a Connection for every size of the kernel's buffer, every *)
(* high-water mark and any number of bytes in either direction.            *)
(***************************************************************************)
EXTENDS Connection, SequenceTheorems, TLAPS

\* The registration: nothing happens to the connection before start(), which runs
\* once; only a channel in epoll is on its ready list.
Registration ==
    /\ chstate = "kNew" =>
          /\ functors = <<"start">> /\ state = "kConnected" /\ pc = "idle"
          /\ revents = {} /\ events = {} /\ ~edge /\ ~force_timer
    /\ chstate # "kNew" => \A i \in DOMAIN functors : functors[i] # "start"
    /\ chstate = "kAdded" => "IN" \in events /\ state # "kDisconnected"
    /\ chstate = "kDeleted" => state = "kDisconnected"
    /\ edge => chstate = "kAdded"

\* What handle_event has still to serve, by where the loop thread is.
Dispatch ==
    /\ pc = "callback" => revents = {}
    /\ pc \in {"dispatch", "message", "message_eof"} => revents \subseteq {"IN", "OUT"}

\* The output side.
Output ==
    /\ OutputInOrder
    /\ WriteInterestExact
    /\ HalfCloseAfterLastByte
    /\ fin \/ shutdown_pending => state # "kConnected"

\* Whatever the socket is ready for is on the ready list or in the events that
\* handle_event has yet to serve; what is read at end of file is followed by close.
EdgeKept ==
    chstate = "kAdded" =>
        /\ (rx > 0 \/ eof) /\ pc # "message_eof" => edge \/ "IN" \in revents
        /\ rst => edge \/ (pc = "idle" /\ "ERR" \in revents)
        /\ "OUT" \in events /\ sndbuf < SndBuf => edge \/ "OUT" \in revents

\* The input side: until close() all that was read was shown.
Input ==
    /\ rx <= arrived
    /\ state # "kDisconnected" => shown = arrived - rx
    /\ pc = "message_eof" => eof /\ (state # "kDisconnected" => rx = 0)
    /\ state = "kDisconnected" /\ closed_on = "eof" => shown = arrived /\ rx = 0

ConnInv == TypeOK /\ Registration /\ Dispatch /\ Output /\ EdgeKept /\ Input

-----------------------------------------------------------------------------
(* Sequences of bytes.                                                     *)

\* The numbers that bytes have; a name for them keeps the set whole in the proofs.
Numbers == 1 .. MaxSend

\* Bytes written and bytes buffered are together the first a bytes, in order.
InOrder(w, o, a) == w \o o = Bytes(0, a)

\* The wire and the buffer after n bytes of the buffer are written.
WireAfter(w, o, n) == w \o SubSeq(o, 1, n)
LeftOf(o, n) == SubSeq(o, n + 1, Len(o))

\* The wire and the buffer after n bytes are sent, k of them directly.
WireDirect(w, a, k) == w \o Bytes(a, k)
Buffered(o, a, k, n) == o \o Bytes(a + k, n - k)

LEMMA Associates ==
    \A x, y, z \in Seq(Numbers) : (x \o y) \o z = x \o (y \o z)
  BY ConcatAssociative

LEMMA BytesType ==
    ASSUME NEW m \in Nat, NEW n \in Nat
    PROVE  /\ Bytes(m, n) \in Seq(m + 1 .. m + n)
           /\ Len(Bytes(m, n)) = n
           /\ \A i \in 1 .. n : Bytes(m, n)[i] = m + i
           /\ Bytes(m, 0) = <<>>
  BY DEF Bytes

LEMMA BytesConcat ==
    ASSUME NEW m \in Nat, NEW n \in Nat, NEW k \in Nat
    PROVE  Bytes(m, n) \o Bytes(m + n, k) = Bytes(m, n + k)
<1> DEFINE a == Bytes(m, n)
           b == Bytes(m + n, k)
           c == Bytes(m, n + k)
<1>1. /\ a \in Seq(Nat) /\ Len(a) = n /\ \A i \in 1 .. n : a[i] = m + i
      /\ b \in Seq(Nat) /\ Len(b) = k /\ \A i \in 1 .. k : b[i] = m + n + i
      /\ c \in Seq(Nat) /\ Len(c) = n + k /\ \A i \in 1 .. n + k : c[i] = m + i
  BY DEF Bytes
<1> HIDE DEF a, b, c
<1>2. /\ a \o b \in Seq(Nat) /\ Len(a \o b) = n + k
      /\ \A i \in 1 .. n : (a \o b)[i] = a[i]
      /\ \A i \in n + 1 .. n + k : (a \o b)[i] = b[i - n]
  BY <1>1, ConcatProperties
<1>3. \A i \in 1 .. n + k : (a \o b)[i] = c[i]
  <2> SUFFICES ASSUME NEW i \in 1 .. n + k PROVE (a \o b)[i] = c[i]
    OBVIOUS
  <2>1. CASE i <= n
    <3>1. i \in 1 .. n
      BY <2>1
    <3> QED
      BY <1>1, <1>2, <3>1
  <2>2. CASE i > n
    <3>1. i \in n + 1 .. n + k /\ i - n \in 1 .. k
      BY <2>2
    <3> QED
      BY <1>1, <1>2, <3>1
  <2>3. i <= n \/ i > n
    OBVIOUS
  <2> QED
    BY <2>1, <2>2, <2>3
<1>4. a \o b = c
  BY <1>1, <1>2, <1>3, SeqEqual
<1> QED
  BY <1>4 DEF a, b, c

\* The beginning of the bytes in order is the bytes in order.
LEMMA BeginningOfBytes ==
    ASSUME NEW w \in Seq(Numbers), NEW o \in Seq(Numbers), NEW a \in Nat, InOrder(w, o, a)
    PROVE  w = Bytes(0, Len(w)) /\ Len(w) + Len(o) = a
<1>1. /\ Len(w) \in Nat /\ Len(o) \in Nat /\ Len(w \o o) = Len(w) + Len(o)
      /\ \A i \in 1 .. Len(w) : (w \o o)[i] = w[i]
  BY ConcatProperties
<1>2. Len(Bytes(0, a)) = a /\ \A i \in 1 .. a : Bytes(0, a)[i] = i
  BY DEF Bytes
<1>3. w \o o = Bytes(0, a)
  BY DEF InOrder
<1>4. Len(w) + Len(o) = a
  BY <1>1, <1>2, <1>3
<1>5. \A i \in 1 .. Len(w) : w[i] = i
  BY <1>1, <1>2, <1>3, <1>4
<1>6. /\ Bytes(0, Len(w)) \in Seq(Numbers \cup Nat) /\ Len(Bytes(0, Len(w))) = Len(w)
      /\ \A i \in 1 .. Len(w) : Bytes(0, Len(w))[i] = i
  BY <1>1 DEF Bytes
<1>7. w \in Seq(Numbers \cup Nat)
  OBVIOUS
<1> QED
  BY <1>4, <1>5, <1>6, <1>7, SeqEqual

\* Writing a beginning of the buffer keeps the order.
LEMMA CutBuffer ==
    ASSUME NEW w \in Seq(Numbers), NEW o \in Seq(Numbers), NEW n \in 0 .. Len(o),
           NEW a \in Nat, InOrder(w, o, a)
    PROVE  /\ WireAfter(w, o, n) \in Seq(Numbers)
           /\ LeftOf(o, n) \in Seq(Numbers)
           /\ Len(LeftOf(o, n)) = Len(o) - n
           /\ InOrder(WireAfter(w, o, n), LeftOf(o, n), a)
<1> DEFINE p == SubSeq(o, 1, n)
           q == SubSeq(o, n + 1, Len(o))
<1>1. Len(o) \in Nat /\ Len(w) \in Nat /\ \A i \in 1 .. Len(o) : o[i] \in Numbers
  BY ElementOfSeq
<1>2. p \in Seq(Numbers) /\ Len(p) = n /\ \A i \in 1 .. n : p[i] = o[i]
  BY <1>1, SubSeqProperties
<1>3. /\ q \in Seq(Numbers) /\ Len(q) = Len(o) - n
      /\ \A i \in 1 .. Len(o) - n : q[i] = o[n + i]
  <2>1. \A i \in n + 1 .. Len(o) : o[i] \in Numbers
    BY <1>1
  <2>2. /\ q \in Seq(Numbers) /\ Len(q) = IF n + 1 <= Len(o) THEN Len(o) - (n + 1) + 1 ELSE 0
        /\ \A i \in 1 .. Len(o) - (n + 1) + 1 : q[i] = o[n + 1 + i - 1]
    BY <1>1, <2>1, SubSeqProperties
  <2> QED
    BY <1>1, <2>2
<1> HIDE DEF p, q
<1>4. p \o q = o
  <2>1. /\ p \o q \in Seq(Numbers) /\ Len(p \o q) = Len(o)
        /\ \A i \in 1 .. n : (p \o q)[i] = p[i]
        /\ \A i \in n + 1 .. Len(o) : (p \o q)[i] = q[i - n]
    BY <1>1, <1>2, <1>3, ConcatProperties
  <2>2. \A i \in 1 .. Len(o) : (p \o q)[i] = o[i]
    <3> SUFFICES ASSUME NEW i \in 1 .. Len(o) PROVE (p \o q)[i] = o[i]
      OBVIOUS
    <3>1. CASE i <= n
      <4>1. i \in 1 .. n
        BY <3>1
      <4> QED
        BY <1>2, <2>1, <4>1
    <3>2. CASE i > n
      <4>1. i \in n + 1 .. Len(o) /\ i - n \in 1 .. Len(o) - n /\ n + (i - n) = i
        BY <1>1, <3>2
      <4> QED
        BY <1>3, <2>1, <4>1
    <3>3. i <= n \/ i > n
      BY <1>1
    <3> QED
      BY <3>1, <3>2, <3>3
  <2> QED
    BY <1>1, <2>1, <2>2, SeqEqual
<1>5. (w \o p) \o q = w \o (p \o q)
  BY <1>2, <1>3, Associates, Zenon
<1>6. w \o p \in Seq(Numbers)
  BY <1>2, ConcatProperties
<1>7. WireAfter(w, o, n) = w \o p /\ LeftOf(o, n) = q
  BY DEF WireAfter, LeftOf, p, q
<1> QED
  BY <1>3, <1>4, <1>5, <1>6, <1>7 DEF InOrder

\* Sending behind what is buffered keeps the order: nothing is written directly
\* while something waits.
LEMMA BufferBehind ==
    ASSUME NEW w \in Seq(Numbers), NEW o \in Seq(Numbers), NEW a \in Nat, NEW n \in Nat,
           NEW k \in 0 .. n, o # <<>> => k = 0, a + n <= MaxSend, InOrder(w, o, a)
    PROVE  /\ WireDirect(w, a, k) \in Seq(Numbers)
           /\ Buffered(o, a, k, n) \in Seq(Numbers)
           /\ InOrder(WireDirect(w, a, k), Buffered(o, a, k, n), a + n)
           /\ Buffered(o, a, k, n) = <<>> => o = <<>>
<1> DEFINE d == Bytes(a, k)
           r == Bytes(a + k, n - k)
<1>1. k \in Nat /\ n - k \in Nat /\ a + k \in Nat /\ MaxSend \in Nat
  BY MaxSendIsNatural
<1>2. d \in Seq(Numbers) /\ r \in Seq(Numbers)
  <2>1. /\ d \in Seq(a + 1 .. a + k)
        /\ r \in Seq((a + k) + 1 .. (a + k) + (n - k))
    BY <1>1, BytesType
  <2>2. /\ a + 1 .. a + k \subseteq Numbers
        /\ (a + k) + 1 .. (a + k) + (n - k) \subseteq Numbers
    BY <1>1 DEF Numbers
  <2>3. \A S : S \subseteq Numbers => Seq(S) \subseteq Seq(Numbers)
    OBVIOUS
  <2> QED
    BY <2>1, <2>2, <2>3, Zenon
<1>3. d \o r = Bytes(a, n)
  <2>1. d \o r = Bytes(a, k + (n - k))
    BY <1>1, BytesConcat
  <2>2. k + (n - k) = n
    BY <1>1
  <2> QED
    BY <2>1, <2>2
<1>4. k = 0 => d = <<>>
  BY BytesType
<1>5. (w \o o) \o (d \o r) = Bytes(0, a + n)
  <2>1. Bytes(0, a) \o Bytes(0 + a, n) = Bytes(0, a + n)
    BY BytesConcat
  <2>2. 0 + a = a
    OBVIOUS
  <2> QED
    BY <1>3, <2>1, <2>2 DEF InOrder
<1> HIDE DEF d, r
<1>6. w \o d \in Seq(Numbers) /\ o \o r \in Seq(Numbers)
  BY <1>2, ConcatProperties
<1>7. (w \o d) \o (o \o r) = (w \o o) \o (d \o r)
  <2>1. CASE o = <<>>
    <3>1. w \o o = w /\ o \o r = r
      BY <1>2, <2>1, ConcatEmptySeq
    <3>2. (w \o d) \o r = w \o (d \o r)
      BY <1>2, Associates, Zenon
    <3> QED
      BY <3>1, <3>2
  <2>2. CASE o # <<>>
    <3>1. d = <<>>
      BY <1>4, <2>2
    <3>2. w \o d = w /\ d \o r = r
      BY <1>2, <3>1, ConcatEmptySeq
    <3>3. (w \o o) \o r = w \o (o \o r)
      BY <1>2, Associates, Zenon
    <3> QED
      BY <3>2, <3>3
  <2> QED
    BY <2>1, <2>2
<1>8. o \o r = <<>> => o = <<>>
  <2>1. Len(o \o r) = Len(o) + Len(r) /\ Len(o) \in Nat /\ Len(r) \in Nat
    BY <1>2, ConcatProperties, LenProperties
  <2> QED
    BY <1>6, <2>1, EmptySeq
<1>9. WireDirect(w, a, k) = w \o d /\ Buffered(o, a, k, n) = o \o r
  BY DEF WireDirect, Buffered, d, r
<1> QED
  BY <1>5, <1>6, <1>7, <1>8, <1>9 DEF InOrder

-----------------------------------------------------------------------------
(* Readiness.                                                              *)

\* What update() and the kernel's poll find.
LEMMA PollFinds ==
    ASSUME NEW ev
    PROVE  /\ "IN" \in ev /\ (rx' > 0 \/ eof' \/ rst') => \E k \in Interest(ev) : Ready'[k]
           /\ "OUT" \in ev /\ sndbuf' < SndBuf => \E k \in Interest(ev) : Ready'[k]
<1>1. (rx' > 0 \/ eof' \/ rst') => Ready'["IN"]
  BY DEF Ready
<1>2. sndbuf' < SndBuf => Ready'["OUT"]
  BY DEF Ready
<1> QED
  BY <1>1, <1>2 DEF Interest

\* What epoll_wait reports.
LEMMA MaskIs ==
    ASSUME events \subseteq {"IN", "OUT"}
    PROVE  /\ Mask(events) \subseteq {"IN", "OUT", "ERR", "HUP"}
           /\ "IN" \in events /\ (rx > 0 \/ eof \/ rst) => "IN" \in Mask(events)
           /\ "OUT" \in events /\ sndbuf < SndBuf => "OUT" \in Mask(events)
           /\ rst => "ERR" \in Mask(events)
           /\ Mask(events) # {} =>
                rx > 0 \/ eof \/ rst \/ ("OUT" \in events /\ (sndbuf < SndBuf \/ fin))
<1>1. /\ Ready["IN"] = (rx > 0 \/ eof \/ rst)
      /\ Ready["OUT"] = (sndbuf < SndBuf \/ fin \/ rst)
      /\ Ready["ERR"] = rst
      /\ Ready["HUP"] = (rst \/ (eof /\ fin))
  BY DEF Ready
<1> QED
  BY <1>1 DEF Mask, Interest

-----------------------------------------------------------------------------
(* Steps that leave a part alone.                                          *)

LEMMA OutputFrame ==
    ASSUME Output, UNCHANGED <<state, out, shutdown_pending, fin, wire, accepted>>,
           "OUT" \in events' <=> "OUT" \in events
    PROVE  Output'
  BY DEF Output, OutputInOrder, WriteInterestExact, HalfCloseAfterLastByte

LEMMA InputFrame ==
    ASSUME Input, UNCHANGED <<state, rx, arrived, shown, eof, closed_on>>,
           pc' = "message_eof" => pc = "message_eof"
    PROVE  Input'
  BY DEF Input

LEMMA EdgeFrame ==
    ASSUME EdgeKept, UNCHANGED <<chstate, rx, eof, rst, sndbuf, events, pc, edge, revents>>
    PROVE  EdgeKept'
  BY DEF EdgeKept

-----------------------------------------------------------------------------
(* close() and what follows it.                                            *)

Causes == {"eof", "error", "user"}

\* After close(), the first or a further one, the channel is out of epoll.
LEMMA CloseEffect ==
    ASSUME TypeOK, NEW cause \in Causes, close(cause)
    PROVE  /\ state' = "kDisconnected" /\ events' = {} /\ chstate' = "kDeleted"
           /\ edge' = FALSE /\ sock' \in {"closed", "reused"}
           /\ closed_on' \in {"none"} \cup Causes
           /\ strays' \subseteq {"read", "write", "shutdown", "close"}
           /\ closed_on' = "eof" =>
                \/ cause = "eof" /\ state # "kDisconnected"
                \/ state = "kDisconnected" /\ closed_on = "eof"
<1>1. CASE state = "kDisconnected"
  <2>1. UNCHANGED <<state, events, chstate, edge, sock, closed_on, strays>>
    BY <1>1 DEF close, closeVars
  <2>2. chstate = "kDeleted" /\ events = {} /\ edge = FALSE /\ sock \in {"closed", "reused"}
    BY <1>1 DEF TypeOK
  <2>3. /\ closed_on \in {"none"} \cup Causes
        /\ strays \subseteq {"read", "write", "shutdown", "close"}
    BY DEF TypeOK, Causes
  <2> QED
    BY <1>1, <2>1, <2>2, <2>3
<1>2. CASE state # "kDisconnected"
  BY <1>2 DEF close, TypeOK, Causes
<1> QED
  BY <1>1, <1>2

\* A step that closes the connection, or finds it closed.
LEMMA ClosedKeeps ==
    ASSUME ConnInv,
           state' = "kDisconnected", events' = {}, chstate' = "kDeleted",
           edge' = FALSE, sock' \in {"closed", "reused"},
           closed_on' \in {"none"} \cup Causes,
           strays' \subseteq {"read", "write", "shutdown", "close"},
           out' \in Seq(1 .. MaxSend), inbuf' \in Nat, shutdown_pending' \in BOOLEAN,
           revents' \subseteq revents, functors' \in Seq(FunctorKinds),
           \A i \in DOMAIN functors' : functors'[i] # "start",
           force_timer' \in BOOLEAN, pc' \in Pcs,
           UNCHANGED <<eof, rst, sndbuf, fin, wire, accepted, arrived>>,
           rx' \in 0 .. rx, shown' \in Nat, paused' \in BOOLEAN,
           pc' = "callback" => revents' = {},
           pc' \in {"dispatch", "message", "message_eof"} => revents' \subseteq {"IN", "OUT"},
           pc' = "message_eof" => eof,
           closed_on' = "eof" => shown' = arrived /\ rx' = 0
    PROVE  ConnInv'
<1>1. TypeOK'
  <2>1. /\ eof' \in BOOLEAN /\ rst' \in BOOLEAN /\ fin' \in BOOLEAN /\ edge' \in BOOLEAN
        /\ wire' \in Seq(1 .. MaxSend) /\ accepted' \in 0 .. MaxSend /\ arrived' \in Nat
        /\ sndbuf' \in 0 .. SndBuf /\ revents' \subseteq {"IN", "OUT", "ERR", "HUP"}
    BY DEF ConnInv, TypeOK
  <2>2. rx' \in Nat
    BY DEF ConnInv, TypeOK
  <2>3. /\ state' \in States /\ events' \subseteq {"IN", "OUT"}
        /\ chstate' \in {"kNew", "kAdded", "kDeleted"} /\ sock' \in {"open", "closed", "reused"}
        /\ closed_on' \in {"none", "eof", "error", "user"}
    BY DEF States, Causes
  <2>4. /\ state' # "kDisconnected" <=> sock' = "open"
        /\ state' = "kDisconnected" => chstate' = "kDeleted" /\ events' = {} /\ ~edge'
    OBVIOUS
  <2> QED
    BY <2>1, <2>2, <2>3, <2>4 DEF TypeOK
<1>2. Registration' /\ Dispatch' /\ EdgeKept'
  BY DEF Registration, Dispatch, EdgeKept
<1>3. Output'
  BY DEF ConnInv, Output, OutputInOrder, WriteInterestExact, HalfCloseAfterLastByte
<1>4. Input'
  BY DEF ConnInv, TypeOK, Input
<1> QED
  BY <1>1, <1>2, <1>3, <1>4 DEF ConnInv

-----------------------------------------------------------------------------
(* The kernel and the peer.                                                *)

LEMMA InitConnInv == Init => ConnInv
<1> SUFFICES ASSUME Init PROVE ConnInv
  OBVIOUS
<1>1. TypeOK
  <2>1. /\ out = <<>> /\ wire = <<>> /\ functors = <<"start">>
        /\ out \in Seq(1 .. MaxSend) /\ wire \in Seq(1 .. MaxSend)
        /\ functors \in Seq(FunctorKinds)
    BY DEF Init, FunctorKinds
  <2>2. inbuf \in Nat /\ rx \in Nat /\ arrived \in Nat /\ shown \in Nat
    BY DEF Init
  <2>3. sndbuf \in 0 .. SndBuf /\ accepted \in 0 .. MaxSend
    BY SndBufIsPositive, MaxSendIsNatural DEF Init
  <2>4. /\ shutdown_pending \in BOOLEAN /\ edge \in BOOLEAN /\ force_timer \in BOOLEAN
        /\ eof \in BOOLEAN /\ rst \in BOOLEAN /\ fin \in BOOLEAN /\ paused \in BOOLEAN
    BY DEF Init
  <2> QED
    BY <2>1, <2>2, <2>3, <2>4 DEF Init, TypeOK, States, Pcs
<1>2. Registration /\ Dispatch /\ EdgeKept
  BY DEF Init, Registration, Dispatch, EdgeKept
<1>3. Output
  <2>1. Bytes(0, 0) = <<>> /\ Len(<<>>) = 0
    BY DEF Bytes
  <2>2. wire \o out = <<>>
    BY DEF Init
  <2> QED
    BY <2>1, <2>2 DEF Init, Output, OutputInOrder, WriteInterestExact, HalfCloseAfterLastByte
<1>4. Input
  BY DEF Init, Input
<1> QED
  BY <1>1, <1>2, <1>3, <1>4 DEF ConnInv

\* What the peer does is noticed: a registered channel goes on the ready list.
LEMMA SignalEffect ==
    ASSUME TypeOK, Registration, NEW kinds, Signal(kinds)
    PROVE  /\ edge' \in BOOLEAN
           /\ edge' => chstate = "kAdded"
           /\ edge => edge'
           /\ chstate = "kAdded" /\ kinds \cap (events \cup {"ERR", "HUP"}) # {} => edge'
  BY DEF TypeOK, Registration, Signal, Interest

\* A step of the peer on the open socket that adds no output and signals.
LEMMA PeerKeeps ==
    ASSUME ConnInv, NEW kinds, Signal(kinds), sock = "open",
           UNCHANGED <<state, out, inbuf, shutdown_pending, events, chstate, revents,
                       functors, force_timer, pc, sock, fin, wire, accepted, shown,
                       paused, closed_on, strays>>,
           rx' \in Nat, arrived' \in Nat, eof' \in BOOLEAN, rst' \in BOOLEAN,
           sndbuf' \in 0 .. SndBuf,
           Input', chstate = "kAdded" => EdgeKept'
    PROVE  ConnInv'
<1>1. /\ edge' \in BOOLEAN
      /\ edge' => chstate = "kAdded"
  BY SignalEffect DEF ConnInv
<1>2. state # "kDisconnected"
  BY DEF ConnInv, TypeOK
<1>3. TypeOK'
  <2>1. state' # "kDisconnected" /\ sock' = "open"
    BY <1>2
  <2>2. /\ shutdown_pending' \in BOOLEAN /\ force_timer' \in BOOLEAN /\ fin' \in BOOLEAN
        /\ paused' \in BOOLEAN
    BY DEF ConnInv, TypeOK
  <2>3. /\ state' \in States /\ out' \in Seq(1 .. MaxSend) /\ inbuf' \in Nat
        /\ events' \subseteq {"IN", "OUT"} /\ chstate' \in {"kNew", "kAdded", "kDeleted"}
        /\ revents' \subseteq {"IN", "OUT", "ERR", "HUP"} /\ functors' \in Seq(FunctorKinds)
        /\ pc' \in Pcs /\ wire' \in Seq(1 .. MaxSend) /\ accepted' \in 0 .. MaxSend
        /\ shown' \in Nat /\ closed_on' \in {"none", "eof", "error", "user"}
        /\ strays' \subseteq {"read", "write", "shutdown", "close"}
    BY DEF ConnInv, TypeOK
  <2> QED
    BY <1>1, <2>1, <2>2, <2>3 DEF TypeOK
<1>4. Registration'
  <2>1. chstate = "kNew" => ~edge'
    BY <1>1
  <2> QED
    BY <1>1, <2>1 DEF ConnInv, Registration
<1>5. Dispatch' /\ Output'
  BY OutputFrame DEF ConnInv, Dispatch
<1>6. EdgeKept'
  BY DEF EdgeKept
<1> QED
  BY <1>3, <1>4, <1>5, <1>6 DEF ConnInv

LEMMA PeerSendsKeeps ==
    ASSUME ConnInv, PeerSends
    PROVE  ConnInv'
<1>1. /\ sock = "open" /\ Signal({"IN"}) /\ rx' = rx + 1 /\ arrived' = arrived + 1 /\ ~eof
      /\ UNCHANGED <<state, out, inbuf, shutdown_pending, events, chstate, revents,
                     functors, force_timer, pc, sock, fin, wire, accepted, shown,
                     paused, closed_on, strays>>
      /\ UNCHANGED <<eof, rst, sndbuf>>
  BY DEF PeerSends
<1>2. /\ rx \in Nat /\ arrived \in Nat /\ eof \in BOOLEAN /\ rst \in BOOLEAN
      /\ sndbuf \in 0 .. SndBuf /\ state # "kDisconnected" /\ shown \in Nat
  BY <1>1 DEF ConnInv, TypeOK
<1>3. Input'
  BY <1>1, <1>2 DEF ConnInv, Input
<1>4. chstate = "kAdded" => EdgeKept'
  <2>1. chstate = "kAdded" => edge'
    BY <1>1, SignalEffect DEF ConnInv, Registration
  <2> QED
    BY <2>1 DEF EdgeKept
<1>5. rx' \in Nat /\ arrived' \in Nat /\ eof' \in BOOLEAN /\ rst' \in BOOLEAN
  BY <1>1, <1>2
<1>6. sndbuf' \in 0 .. SndBuf
  BY <1>1, <1>2
<1> QED
  BY <1>1, <1>3, <1>4, <1>5, <1>6, PeerKeeps

LEMMA PeerFinKeeps ==
    ASSUME ConnInv, PeerFin
    PROVE  ConnInv'
<1>1. /\ sock = "open" /\ Signal({"IN"}) /\ eof' = TRUE /\ ~eof
      /\ UNCHANGED <<state, out, inbuf, shutdown_pending, events, chstate, revents,
                     functors, force_timer, pc, sock, fin, wire, accepted, shown,
                     paused, closed_on, strays>>
      /\ UNCHANGED <<rx, arrived, rst, sndbuf>>
  BY DEF PeerFin
<1>2. /\ rx \in Nat /\ arrived \in Nat /\ rst \in BOOLEAN
      /\ sndbuf \in 0 .. SndBuf /\ state # "kDisconnected"
  BY <1>1 DEF ConnInv, TypeOK
<1>3. Input'
  BY <1>1, <1>2 DEF ConnInv, Input
<1>4. chstate = "kAdded" => EdgeKept'
  <2>1. chstate = "kAdded" => edge'
    BY <1>1, SignalEffect DEF ConnInv, Registration
  <2> QED
    BY <2>1 DEF EdgeKept
<1>5. rx' \in Nat /\ arrived' \in Nat /\ eof' \in BOOLEAN /\ rst' \in BOOLEAN
  BY <1>1, <1>2
<1>6. sndbuf' \in 0 .. SndBuf
  BY <1>1, <1>2
<1> QED
  BY <1>1, <1>3, <1>4, <1>5, <1>6, PeerKeeps

LEMMA PeerResetKeeps ==
    ASSUME ConnInv, PeerReset
    PROVE  ConnInv'
<1>1. /\ sock = "open" /\ Signal({"IN", "OUT", "ERR", "HUP"}) /\ rst' = TRUE
      /\ UNCHANGED <<state, out, inbuf, shutdown_pending, events, chstate, revents,
                     functors, force_timer, pc, sock, fin, wire, accepted, shown,
                     paused, closed_on, strays>>
      /\ UNCHANGED <<rx, arrived, eof, sndbuf>>
  BY DEF PeerReset
<1>2. /\ rx \in Nat /\ arrived \in Nat /\ eof \in BOOLEAN
      /\ sndbuf \in 0 .. SndBuf /\ state # "kDisconnected"
  BY <1>1 DEF ConnInv, TypeOK
<1>3. Input'
  BY <1>1, InputFrame DEF ConnInv
<1>4. chstate = "kAdded" => EdgeKept'
  <2>1. chstate = "kAdded" => edge'
    BY <1>1, SignalEffect DEF ConnInv
  <2> QED
    BY <2>1 DEF EdgeKept
<1>5. rx' \in Nat /\ arrived' \in Nat /\ eof' \in BOOLEAN /\ rst' \in BOOLEAN
  BY <1>1, <1>2
<1>6. sndbuf' \in 0 .. SndBuf
  BY <1>1, <1>2
<1> QED
  BY <1>1, <1>3, <1>4, <1>5, <1>6, PeerKeeps

LEMMA PeerReadsKeeps ==
    ASSUME ConnInv, PeerReads
    PROVE  ConnInv'
<1>1. /\ sock = "open" /\ Signal({"OUT"}) /\ sndbuf > 0 /\ sndbuf' = sndbuf - 1
      /\ UNCHANGED <<state, out, inbuf, shutdown_pending, events, chstate, revents,
                     functors, force_timer, pc, sock, fin, wire, accepted, shown,
                     paused, closed_on, strays>>
      /\ UNCHANGED <<rx, arrived, eof, rst>>
  BY DEF PeerReads
<1>2. /\ rx \in Nat /\ arrived \in Nat /\ eof \in BOOLEAN /\ rst \in BOOLEAN
      /\ sndbuf \in 0 .. SndBuf /\ SndBuf \in Nat
  BY <1>1, SndBufIsPositive DEF ConnInv, TypeOK
<1>3. Input'
  BY <1>1, InputFrame DEF ConnInv
<1>4. chstate = "kAdded" => EdgeKept'
  <2>1. chstate = "kAdded" /\ "OUT" \in events => edge'
    BY <1>1, SignalEffect DEF ConnInv
  <2>2. edge => edge'
    BY <1>1, SignalEffect DEF ConnInv
  <2> QED
    BY <1>1, <2>1, <2>2 DEF ConnInv, EdgeKept
<1>5. rx' \in Nat /\ arrived' \in Nat /\ eof' \in BOOLEAN /\ rst' \in BOOLEAN
  BY <1>1, <1>2
<1>6. sndbuf' \in 0 .. SndBuf
  BY <1>1, <1>2
<1> QED
  BY <1>1, <1>3, <1>4, <1>5, <1>6, PeerKeeps

\* FdReused, and any other step of a connection that is closed already.
LEMMA FdReusedKeeps ==
    ASSUME ConnInv, FdReused
    PROVE  ConnInv'
<1>1. /\ sock = "closed" /\ sock' = "reused"
      /\ UNCHANGED <<state, out, inbuf, shutdown_pending, events, chstate, edge,
                     revents, functors, force_timer, pc, rx, eof, rst, sndbuf,
                     fin, wire, accepted, arrived, shown, paused, closed_on, strays>>
  BY DEF FdReused
<1>2. TypeOK'
  BY <1>1 DEF ConnInv, TypeOK
<1>3. Registration' /\ Dispatch'
  BY <1>1 DEF ConnInv, Registration, Dispatch
<1>4. EdgeKept' /\ Output' /\ Input'
  BY <1>1, OutputFrame, InputFrame, EdgeFrame DEF ConnInv
<1> QED
  BY <1>2, <1>3, <1>4 DEF ConnInv

-----------------------------------------------------------------------------
(* The loop thread.                                                        *)

LEMMA UpdateEffect ==
    ASSUME TypeOK, NEW ev, update(ev)
    PROVE  /\ events' = ev /\ chstate' = "kAdded" /\ edge' \in BOOLEAN
           /\ chstate = "kAdded" /\ edge => edge'
           /\ "IN" \in ev /\ (rx' > 0 \/ eof' \/ rst') => edge'
           /\ "OUT" \in ev /\ sndbuf' < SndBuf => edge'
<1>1. /\ events' = ev /\ chstate' = "kAdded"
      /\ edge' = ((chstate = "kAdded" /\ edge) \/ \E k \in Interest(ev) : Ready'[k])
  BY DEF update
<1> QED
  BY <1>1, PollFinds

\* The functors after one is taken or posted.
LEMMA FunctorsTaken ==
    ASSUME TypeOK, functors # <<>>, functors' = Tail(functors)
    PROVE  /\ functors' \in Seq(FunctorKinds)
           /\ Head(functors) = functors[1] /\ 1 \in DOMAIN functors
           /\ (\A i \in DOMAIN functors : functors[i] # "start")
                => \A i \in DOMAIN functors' : functors'[i] # "start"
<1>1. functors \in Seq(FunctorKinds)
  BY DEF TypeOK
<1>2. /\ functors' \in Seq(FunctorKinds) /\ Len(functors) \in Nat \ {0}
      /\ Len(functors') = Len(functors) - 1
      /\ DOMAIN functors = 1 .. Len(functors) /\ DOMAIN functors' = 1 .. Len(functors')
      /\ \A i \in 1 .. Len(functors') : functors'[i] = functors[i + 1]
  BY <1>1, HeadTailProperties, EmptySeq, LenProperties
<1>3. \A i \in DOMAIN functors' : i + 1 \in DOMAIN functors
  BY <1>2
<1>4. Head(functors) = functors[1] /\ 1 \in DOMAIN functors
  BY <1>1, <1>2
<1> QED
  BY <1>2, <1>3, <1>4

LEMMA FunctorsPosted ==
    ASSUME TypeOK, NEW f \in FunctorKinds \ {"start"}, functors' = Append(functors, f)
    PROVE  /\ functors' \in Seq(FunctorKinds)
           /\ (\A i \in DOMAIN functors : functors[i] # "start")
                => \A i \in DOMAIN functors' : functors'[i] # "start"
<1>1. functors \in Seq(FunctorKinds)
  BY DEF TypeOK
<1>2. /\ functors' \in Seq(FunctorKinds) /\ Len(functors) \in Nat
      /\ DOMAIN functors = 1 .. Len(functors) /\ DOMAIN functors' = 1 .. Len(functors) + 1
      /\ \A i \in 1 .. Len(functors) : functors'[i] = functors[i]
      /\ functors'[Len(functors) + 1] = f
  BY <1>1, AppendProperties, LenProperties
<1>3. \A i \in DOMAIN functors' : i \in DOMAIN functors \/ i = Len(functors) + 1
  BY <1>2
<1> QED
  BY <1>2, <1>3

\* A handler that calls close().
LEMMA CloseKeeps ==
    ASSUME ConnInv, chstate # "kNew", NEW cause \in Causes, close(cause),
           UNCHANGED <<out, shutdown_pending, functors, eof, rst, sndbuf, fin, wire,
                       accepted, arrived, shown, paused>>,
           inbuf' \in Nat, rx' \in 0 .. rx, revents' \subseteq revents,
           force_timer' \in BOOLEAN, pc' \in Pcs, Dispatch',
           pc' = "message_eof" => eof,
           cause = "eof" /\ state # "kDisconnected" => shown = arrived /\ rx' = 0
    PROVE  ConnInv'
<1>1. /\ state' = "kDisconnected" /\ events' = {} /\ chstate' = "kDeleted"
      /\ edge' = FALSE /\ sock' \in {"closed", "reused"}
      /\ closed_on' \in {"none"} \cup Causes
      /\ strays' \subseteq {"read", "write", "shutdown", "close"}
      /\ closed_on' = "eof" =>
           \/ cause = "eof" /\ state # "kDisconnected"
           \/ state = "kDisconnected" /\ closed_on = "eof"
  BY CloseEffect DEF ConnInv
<1>2. /\ out' \in Seq(1 .. MaxSend) /\ shutdown_pending' \in BOOLEAN
      /\ functors' \in Seq(FunctorKinds) /\ shown' \in Nat /\ paused' \in BOOLEAN
      /\ rx \in Nat
  BY DEF ConnInv, TypeOK
<1>3. \A i \in DOMAIN functors' : functors'[i] # "start"
  BY DEF ConnInv, Registration
<1>4. closed_on' = "eof" => shown' = arrived /\ rx' = 0
  BY <1>1, <1>2 DEF ConnInv, Input
<1>5. /\ pc' = "callback" => revents' = {}
      /\ pc' \in {"dispatch", "message", "message_eof"} => revents' \subseteq {"IN", "OUT"}
  BY DEF Dispatch
<1> QED
  BY <1>1, <1>2, <1>3, <1>4, <1>5, ClosedKeeps

\* A step that touches neither socket, buffers nor registration.
LEMMA QuietKeeps ==
    ASSUME ConnInv, chstate # "kNew",
           UNCHANGED <<state, out, shutdown_pending, events, chstate, edge, sock, rx, eof,
                       rst, sndbuf, fin, wire, accepted, arrived, shown, closed_on, strays>>,
           inbuf' \in Nat, revents' \subseteq {"IN", "OUT", "ERR", "HUP"},
           functors' \in Seq(FunctorKinds),
           \A i \in DOMAIN functors' : functors'[i] # "start",
           force_timer' \in BOOLEAN, pc' \in Pcs, paused' \in BOOLEAN,
           pc' = "message_eof" => pc = "message_eof",
           Dispatch', EdgeKept'
    PROVE  ConnInv'
<1>1. TypeOK'
  BY DEF ConnInv, TypeOK
<1>2. Registration'
  BY DEF ConnInv, Registration
<1>3. Output' /\ Input'
  BY OutputFrame, InputFrame DEF ConnInv
<1> QED
  BY <1>1, <1>2, <1>3 DEF ConnInv

\* start(): the socket is polled when it is registered, so nothing that came
\* before is missed.
LEMMA StartKeeps ==
    ASSUME ConnInv, Start
    PROVE  ConnInv'
<1>1. /\ functors # <<>> /\ Head(functors) = "start" /\ functors' = Tail(functors)
      /\ update(events \cup {"IN"})
      /\ UNCHANGED <<state, out, inbuf, shutdown_pending, revents, force_timer, pc, sock,
                     rx, eof, rst, sndbuf, fin, wire, accepted, arrived, shown, paused,
                     closed_on, strays>>
  BY DEF Start, netVars
<1>2. /\ functors' \in Seq(FunctorKinds) /\ Head(functors) = functors[1]
      /\ 1 \in DOMAIN functors
  BY <1>1, FunctorsTaken DEF ConnInv
<1>3. chstate = "kNew"
  BY <1>1, <1>2 DEF ConnInv, Registration
<1>4. functors = <<"start">> /\ state = "kConnected" /\ pc = "idle" /\ revents = {} /\ events = {}
  BY <1>3 DEF ConnInv, Registration
<1>5. functors' = <<>> /\ DOMAIN functors' = {}
  BY <1>1, <1>4
<1>6. /\ events' = {"IN"} /\ chstate' = "kAdded" /\ edge' \in BOOLEAN
      /\ (rx' > 0 \/ eof' \/ rst') => edge'
  BY <1>1, <1>4, UpdateEffect DEF ConnInv
<1>7. TypeOK'
  <2>1. sock' = "open" /\ state' = "kConnected"
    BY <1>1, <1>4 DEF ConnInv, TypeOK
  <2> QED
    BY <1>1, <1>2, <1>6, <2>1 DEF ConnInv, TypeOK
<1>8. Registration' /\ Dispatch'
  BY <1>1, <1>4, <1>5, <1>6 DEF Registration, Dispatch
<1>9. EdgeKept'
  BY <1>6 DEF EdgeKept
<1>10. Output' /\ Input'
  BY <1>1, <1>4, <1>6, OutputFrame, InputFrame DEF ConnInv
<1> QED
  BY <1>7, <1>8, <1>9, <1>10 DEF ConnInv

LEMMA RunFunctorKeeps ==
    ASSUME ConnInv, NEW kind \in {"high_water", "write_complete"}, RunFunctor(kind)
    PROVE  ConnInv'
<1>1. /\ pc = "idle" /\ revents = {} /\ functors # <<>> /\ Head(functors) = kind
      /\ functors' = Tail(functors) /\ pc' = "callback" /\ paused' = (kind = "high_water")
      /\ UNCHANGED <<state, out, inbuf, shutdown_pending, events, chstate, edge,
                     revents, force_timer, sock, rx, eof, rst, sndbuf, fin, wire,
                     accepted, arrived, shown, closed_on, strays>>
  BY DEF RunFunctor
<1>2. chstate # "kNew"
  BY <1>1 DEF ConnInv, Registration
<1>3. /\ functors' \in Seq(FunctorKinds)
      /\ \A i \in DOMAIN functors' : functors'[i] # "start"
  BY <1>1, <1>2, FunctorsTaken DEF ConnInv, Registration
<1>4. /\ inbuf' \in Nat /\ revents' \subseteq {"IN", "OUT", "ERR", "HUP"}
      /\ force_timer' \in BOOLEAN /\ pc' \in Pcs
  BY <1>1 DEF ConnInv, TypeOK, Pcs
<1>5. paused' \in BOOLEAN
  BY <1>1
<1>6. Dispatch' /\ EdgeKept'
  BY <1>1 DEF ConnInv, Dispatch, EdgeKept
<1> QED
  BY <1>1, <1>2, <1>3, <1>4, <1>5, <1>6, QuietKeeps

\* epoll_wait: the edge is exchanged for the events it stands for.
LEMMA EpollReportsKeeps ==
    ASSUME ConnInv, EpollReports
    PROVE  ConnInv'
<1>1. /\ pc = "idle" /\ edge /\ revents' = Mask(events) /\ edge' = FALSE
      /\ UNCHANGED <<state, out, inbuf, shutdown_pending, events, chstate, functors,
                     force_timer, pc, sock, rx, eof, rst, sndbuf, fin, wire, accepted,
                     arrived, shown, paused, closed_on, strays>>
  BY DEF EpollReports
<1>2. chstate = "kAdded" /\ "IN" \in events /\ events \subseteq {"IN", "OUT"}
  BY <1>1 DEF ConnInv, Registration, TypeOK
<1>3. /\ revents' \subseteq {"IN", "OUT", "ERR", "HUP"}
      /\ (rx > 0 \/ eof \/ rst) => "IN" \in revents'
      /\ "OUT" \in events /\ sndbuf < SndBuf => "OUT" \in revents'
      /\ rst => "ERR" \in revents'
  BY <1>1, <1>2, MaskIs
<1>4. TypeOK'
  BY <1>1, <1>3 DEF ConnInv, TypeOK
<1>5. Registration' /\ Dispatch'
  BY <1>1, <1>2 DEF ConnInv, Registration, Dispatch
<1>6. EdgeKept'
  BY <1>1, <1>3 DEF EdgeKept
<1>7. Output' /\ Input'
  BY <1>1, OutputFrame, InputFrame DEF ConnInv
<1> QED
  BY <1>4, <1>5, <1>6, <1>7 DEF ConnInv

\* handle_event: an error closes, so only EPOLLIN and EPOLLOUT are carried on; and
\* a hang-up that is passed over is an end of file that the read will find.
LEMMA HandleEventKeeps ==
    ASSUME ConnInv, handle_event
    PROVE  ConnInv'
<1>1. /\ pc = "idle" /\ revents # {}
      /\ UNCHANGED <<out, inbuf, shutdown_pending, functors, force_timer, rx, eof, rst,
                     sndbuf, fin, wire, accepted, arrived, shown, paused>>
  BY DEF handle_event
<1>2. /\ chstate # "kNew" /\ inbuf' \in Nat /\ force_timer' \in BOOLEAN /\ rx' \in 0 .. rx
      /\ revents \subseteq {"IN", "OUT", "ERR", "HUP"} /\ paused' \in BOOLEAN
  <2>1. chstate # "kNew"
    BY <1>1 DEF ConnInv, Registration
  <2>2. rx \in Nat /\ inbuf \in Nat
    BY DEF ConnInv, TypeOK
  <2>3. force_timer' \in BOOLEAN /\ paused' \in BOOLEAN
    BY <1>1 DEF ConnInv, TypeOK
  <2>4. revents \subseteq {"IN", "OUT", "ERR", "HUP"}
    BY DEF ConnInv, TypeOK
  <2> QED
    BY <1>1, <2>1, <2>2, <2>3, <2>4
<1>3. CASE "HUP" \in revents /\ "IN" \notin revents
  <2>1. close("error") /\ revents' = {} /\ pc' = "idle"
    BY <1>3 DEF handle_event
  <2>2. Dispatch' /\ pc' \in Pcs
    BY <2>1 DEF Dispatch, Pcs
  <2> QED
    BY <1>1, <1>2, <2>1, <2>2, CloseKeeps DEF Causes
<1>4. CASE ~("HUP" \in revents /\ "IN" \notin revents)
  <2>1. revents' = revents \ {"ERR", "HUP"} /\ pc' = "dispatch"
    BY <1>4 DEF handle_event
  <2>2. Dispatch' /\ pc' \in Pcs
    BY <1>2, <2>1 DEF Dispatch, Pcs
  <2>3. CASE "ERR" \in revents
    <3>1. close("error")
      BY <1>4, <2>3 DEF handle_event
    <3> QED
      BY <1>1, <1>2, <2>1, <2>2, <3>1, CloseKeeps DEF Causes
  <2>4. CASE "ERR" \notin revents
    <3>1. UNCHANGED <<state, events, chstate, edge, sock, closed_on, strays>>
      BY <1>4, <2>4 DEF handle_event, closeVars
    <3>2. EdgeKept'
      BY <1>1, <2>1, <2>4, <3>1 DEF ConnInv, EdgeKept
    <3>3. /\ functors' \in Seq(FunctorKinds)
          /\ \A i \in DOMAIN functors' : functors'[i] # "start"
      BY <1>1, <1>2 DEF ConnInv, TypeOK, Registration
    <3>4. revents' \subseteq {"IN", "OUT", "ERR", "HUP"}
      BY <1>2, <2>1
    <3> QED
      BY <1>1, <1>2, <2>1, <2>2, <3>1, <3>2, <3>3, <3>4, QuietKeeps
  <2> QED
    BY <2>3, <2>4
<1> QED
  BY <1>3, <1>4

\* Facts about a step inside a dispatch or a callback.
LEMMA Running ==
    ASSUME ConnInv, pc # "idle"
    PROVE  /\ chstate # "kNew"
           /\ \A i \in DOMAIN functors : functors[i] # "start"
           /\ functors \in Seq(FunctorKinds) /\ inbuf \in Nat
           /\ force_timer \in BOOLEAN /\ paused \in BOOLEAN
           /\ revents \subseteq {"IN", "OUT", "ERR", "HUP"}
  BY DEF ConnInv, Registration, TypeOK

LEMMA ReturnsKeep ==
    ASSUME ConnInv, HandleEventDone \/ MessageReturn \/ CallbackReturn
    PROVE  ConnInv'
<1>1. /\ \/ pc = "dispatch" /\ revents = {} /\ pc' = "idle"
         \/ pc = "message" /\ pc' = "dispatch"
         \/ pc = "callback" /\ pc' = "idle"
      /\ UNCHANGED <<state, out, inbuf, shutdown_pending, events, chstate, edge,
                     revents, functors, force_timer, sock, rx, eof, rst, sndbuf, fin,
                     wire, accepted, arrived, shown, paused, closed_on, strays>>
  BY DEF HandleEventDone, MessageReturn, CallbackReturn
<1>2. /\ chstate # "kNew"
      /\ \A i \in DOMAIN functors : functors[i] # "start"
      /\ functors \in Seq(FunctorKinds) /\ inbuf \in Nat
      /\ force_timer \in BOOLEAN /\ paused \in BOOLEAN
      /\ revents \subseteq {"IN", "OUT", "ERR", "HUP"}
  BY <1>1, Running
<1>3. Dispatch' /\ EdgeKept' /\ pc' \in Pcs /\ pc' # "message_eof"
  BY <1>1 DEF ConnInv, Dispatch, EdgeKept, Pcs
<1> QED
  BY <1>1, <1>2, <1>3, QuietKeeps

LEMMA MessageEofReturnKeeps ==
    ASSUME ConnInv, MessageEofReturn
    PROVE  ConnInv'
<1>1. /\ pc = "message_eof" /\ pc' = "dispatch" /\ close("eof")
      /\ UNCHANGED <<out, inbuf, shutdown_pending, revents, functors, force_timer, rx, eof,
                     rst, sndbuf, fin, wire, accepted, arrived, shown, paused>>
  BY DEF MessageEofReturn
<1>2. /\ chstate # "kNew" /\ inbuf \in Nat /\ force_timer \in BOOLEAN
  BY <1>1, Running
<1>3. rx \in Nat /\ arrived \in Nat
  BY DEF ConnInv, TypeOK
<1>4. state # "kDisconnected" => shown = arrived /\ rx = 0
  BY <1>1, <1>3 DEF ConnInv, Input
<1>5. Dispatch' /\ pc' \in Pcs
  BY <1>1 DEF ConnInv, Dispatch, Pcs
<1>6. rx' \in 0 .. rx
  BY <1>1, <1>3
<1> QED
  BY <1>1, <1>2, <1>4, <1>5, <1>6, CloseKeeps DEF Causes

LEMMA ForceTimerKeeps ==
    ASSUME ConnInv, ForceTimer
    PROVE  ConnInv'
<1>1. /\ pc = "idle" /\ force_timer /\ force_timer' = FALSE /\ close("user")
      /\ UNCHANGED <<out, inbuf, shutdown_pending, revents, functors, pc, rx, eof,
                     rst, sndbuf, fin, wire, accepted, arrived, shown, paused>>
  BY DEF ForceTimer
<1>2. chstate # "kNew" /\ inbuf \in Nat /\ rx \in Nat
  BY <1>1 DEF ConnInv, Registration, TypeOK
<1>3. Dispatch' /\ pc' \in Pcs
  BY <1>1 DEF ConnInv, Dispatch, Pcs
<1>4. rx' \in 0 .. rx
  BY <1>1, <1>2
<1> QED
  BY <1>1, <1>2, <1>3, <1>4, CloseKeeps DEF Causes

\* handle_read: everything is read, and shown unless an error closes first; at end
\* of file close() follows, so the edge that was consumed is not missed.
LEMMA HandleReadKeeps ==
    ASSUME ConnInv, handle_read
    PROVE  ConnInv'
<1>1. /\ pc = "dispatch" /\ "IN" \in revents /\ revents' = revents \ {"IN"}
      /\ UNCHANGED <<out, shutdown_pending, functors, force_timer, eof, rst, sndbuf, fin,
                     wire, accepted, arrived, paused>>
  BY DEF handle_read
<1>2. /\ chstate # "kNew" /\ inbuf \in Nat /\ force_timer \in BOOLEAN /\ paused \in BOOLEAN
      /\ \A i \in DOMAIN functors : functors[i] # "start"
      /\ functors \in Seq(FunctorKinds)
      /\ revents \subseteq {"IN", "OUT"}
  BY <1>1, Running DEF ConnInv, Dispatch
<1>3. rx \in Nat /\ arrived \in Nat /\ shown \in Nat /\ rx <= arrived
  BY DEF ConnInv, TypeOK, Input
<1>4. ASSUME sock = "open", inbuf' = inbuf + ReadLoop, rx' = rx - ReadLoop,
             IF rst
               THEN close("error") /\ UNCHANGED <<pc, shown>>
               ELSE IF eof
               THEN /\ CallMessageCb("message_eof")
                    /\ IF pc' = "message_eof" THEN UNCHANGED closeVars ELSE close("eof")
               ELSE CallMessageCb("message") /\ UNCHANGED closeVars
      PROVE  ConnInv'
  <2>1. inbuf' = inbuf + rx /\ rx' = 0 /\ inbuf' \in Nat /\ rx' \in 0 .. rx
    BY <1>2, <1>3, <1>4 DEF ReadLoop
  <2>2. state # "kDisconnected" /\ chstate = "kAdded" /\ shown = arrived - rx
    BY <1>2, <1>4 DEF ConnInv, TypeOK, Registration, Input
  <2>3. CASE rst
    <3>1. close("error") /\ pc' = pc /\ shown' = shown
      BY <1>4, <2>3
    <3>2. Dispatch' /\ pc' \in Pcs /\ pc' # "message_eof"
      BY <1>1, <1>2, <3>1 DEF Dispatch, Pcs
    <3>3. revents' \subseteq revents /\ force_timer' \in BOOLEAN
      BY <1>1, <1>2
    <3> QED
      BY <1>1, <1>2, <2>1, <3>1, <3>2, <3>3, CloseKeeps DEF Causes
  <2>4. CASE ~rst /\ eof /\ inbuf' = 0
    <3>1. rx = 0 /\ shown = arrived
      BY <1>2, <1>3, <2>1, <2>2, <2>4
    <3>2. close("eof") /\ pc' = pc /\ shown' = shown
      BY <1>1, <1>4, <2>1, <2>4 DEF CallMessageCb
    <3>3. Dispatch' /\ pc' \in Pcs /\ pc' # "message_eof"
      BY <1>1, <1>2, <3>2 DEF Dispatch, Pcs
    <3>4. revents' \subseteq revents /\ force_timer' \in BOOLEAN
      BY <1>1, <1>2
    <3> QED
      BY <1>1, <1>2, <2>1, <3>1, <3>2, <3>3, <3>4, CloseKeeps DEF Causes
  <2>5. CASE ~rst /\ ~(eof /\ inbuf' = 0)
    <3>1. /\ pc' \in {"dispatch", "message", "message_eof"}
          /\ pc' = "message_eof" <=> eof
          /\ shown' = arrived
          /\ UNCHANGED <<state, events, chstate, edge, sock, closed_on, strays>>
      <4>1. CASE eof
        <5>1. inbuf' > 0
          BY <2>1, <2>5, <4>1
        <5> QED
          BY <1>3, <1>4, <2>1, <2>5, <4>1, <5>1 DEF CallMessageCb, closeVars
      <4>2. CASE ~eof /\ inbuf' > 0
        BY <1>3, <1>4, <2>1, <2>5, <4>2 DEF CallMessageCb, closeVars
      <4>3. CASE ~eof /\ ~(inbuf' > 0)
        <5>1. rx = 0 /\ shown = arrived
          BY <1>2, <1>3, <2>1, <2>2, <4>3
        <5> QED
          BY <1>1, <1>4, <2>5, <4>3, <5>1 DEF CallMessageCb, closeVars
      <4> QED
        BY <4>1, <4>2, <4>3
    <3>2. TypeOK'
      BY <1>1, <1>3, <2>1, <3>1 DEF ConnInv, TypeOK, Pcs
    <3>3. Registration' /\ Dispatch'
      BY <1>1, <1>2, <3>1 DEF ConnInv, Registration, Dispatch
    <3>4. EdgeKept'
      <4>1. rst => edge
        BY <1>1, <2>2 DEF ConnInv, EdgeKept
      <4>2. ~(rx' > 0) /\ (eof' => pc' = "message_eof")
        BY <1>1, <2>1, <3>1
      <4>3. "OUT" \in events /\ sndbuf < SndBuf => edge \/ "OUT" \in revents
        BY <2>2 DEF ConnInv, EdgeKept
      <4> QED
        BY <1>1, <3>1, <4>1, <4>2, <4>3 DEF EdgeKept
    <3>5. Output'
      BY <1>1, <3>1, OutputFrame DEF ConnInv
    <3>6. Input'
      BY <1>1, <1>3, <2>1, <2>2, <3>1 DEF Input
    <3> QED
      BY <3>2, <3>3, <3>4, <3>5, <3>6 DEF ConnInv
  <2> QED
    BY <2>3, <2>4, <2>5
<1>5. ASSUME sock # "open", inbuf' \in Nat, rx' = rx,
             \/ UNCHANGED <<pc, shown>>
             \/ pc' = "message" /\ shown' = arrived - rx',
             UNCHANGED <<state, events, chstate, edge, sock, closed_on>>,
             strays' \subseteq {"read", "write", "shutdown", "close"}
      PROVE  ConnInv'
  <2>1. /\ state' = "kDisconnected" /\ events' = {} /\ chstate' = "kDeleted"
        /\ edge' = FALSE /\ sock' \in {"closed", "reused"}
        /\ closed_on' \in {"none"} \cup Causes /\ out' \in Seq(1 .. MaxSend)
        /\ shutdown_pending' \in BOOLEAN
    BY <1>1, <1>5 DEF ConnInv, TypeOK, Causes
  <2>2. pc' \in {"dispatch", "message"} /\ pc' \in Pcs /\ shown' \in Nat /\ rx' \in 0 .. rx
    BY <1>1, <1>3, <1>5 DEF Pcs
  <2>3. closed_on' = "eof" => shown' = arrived /\ rx' = 0
    BY <1>3, <1>5, <2>1 DEF ConnInv, Input
  <2>4. /\ revents' \subseteq revents /\ revents' \subseteq {"IN", "OUT"}
        /\ force_timer' \in BOOLEAN /\ paused' \in BOOLEAN
        /\ functors' \in Seq(FunctorKinds)
        /\ \A i \in DOMAIN functors' : functors'[i] # "start"
    BY <1>1, <1>2
  <2> QED
    BY <1>1, <1>5, <2>1, <2>2, <2>3, <2>4, ClosedKeeps
<1>6. CASE /\ sock = "closed"
           /\ UNCHANGED <<inbuf, rx, pc, shown, closeVars>>
  <2>1. strays \subseteq {"read", "write", "shutdown", "close"}
    BY DEF ConnInv, TypeOK
  <2> QED
    BY <1>2, <1>5, <1>6, <2>1 DEF closeVars
<1>7. CASE /\ sock = "reused"
           /\ \E f \in {0, 1} : inbuf' = inbuf + f
           /\ rx' = rx
           /\ CallMessageCb("message")
           /\ strays' = strays \cup {"read"}
           /\ UNCHANGED <<state, events, chstate, edge, sock, closed_on>>
  <2>1. strays' \subseteq {"read", "write", "shutdown", "close"}
    BY <1>7 DEF ConnInv, TypeOK
  <2>2. inbuf' \in Nat
    BY <1>2, <1>7
  <2>3. UNCHANGED <<pc, shown>> \/ (pc' = "message" /\ shown' = arrived - rx')
    BY <1>7 DEF CallMessageCb
  <2> QED
    BY <1>5, <1>7, <2>1, <2>2, <2>3
<1> QED
  BY <1>4, <1>6, <1>7 DEF handle_read

-----------------------------------------------------------------------------
(* Writing.                                                                *)

\* A step that writes on the open socket, buffers, or asks for the half-close.
LEMMA OpenKeeps ==
    ASSUME ConnInv, chstate = "kAdded", sock = "open",
           UNCHANGED <<inbuf, force_timer, pc, sock, rx, eof, rst, arrived, shown, paused,
                       closed_on, strays>>,
           state' \in {"kConnected", "kDisconnecting"}, chstate' = "kAdded",
           out' \in Seq(Numbers), wire' \in Seq(Numbers),
           accepted' \in 0 .. MaxSend, sndbuf' \in 0 .. SndBuf,
           shutdown_pending' \in BOOLEAN, fin' \in BOOLEAN,
           events' \subseteq {"IN", "OUT"}, "IN" \in events',
           edge' \in BOOLEAN, edge => edge',
           revents' \subseteq revents, revents \ {"OUT"} \subseteq revents',
           functors' \in Seq(FunctorKinds),
           \A i \in DOMAIN functors' : functors'[i] # "start",
           "OUT" \in events' /\ sndbuf' < SndBuf => edge' \/ "OUT" \in revents',
           Output'
    PROVE  ConnInv'
<1>1. TypeOK'
  <2>1. /\ force_timer' \in BOOLEAN /\ eof' \in BOOLEAN /\ rst' \in BOOLEAN
        /\ paused' \in BOOLEAN
    BY DEF ConnInv, TypeOK
  <2>2. /\ inbuf' \in Nat /\ rx' \in Nat /\ arrived' \in Nat /\ shown' \in Nat
        /\ pc' \in Pcs /\ closed_on' \in {"none", "eof", "error", "user"}
        /\ strays' \subseteq {"read", "write", "shutdown", "close"}
        /\ revents' \subseteq {"IN", "OUT", "ERR", "HUP"}
    BY DEF ConnInv, TypeOK
  <2>3. /\ state' \in States /\ state' # "kDisconnected" /\ sock' = "open"
        /\ chstate' \in {"kNew", "kAdded", "kDeleted"}
    BY DEF States
  <2> QED
    BY <2>1, <2>2, <2>3 DEF TypeOK, Numbers
<1>2. Registration' /\ Dispatch'
  BY DEF ConnInv, Registration, Dispatch
<1>3. EdgeKept'
  <2>1. "IN" \in revents => "IN" \in revents'
    OBVIOUS
  <2>2. "ERR" \in revents => "ERR" \in revents'
    OBVIOUS
  <2> QED
    BY <2>1, <2>2 DEF ConnInv, EdgeKept
<1>4. Input'
  <2>1. state # "kDisconnected"
    BY DEF ConnInv, TypeOK
  <2> QED
    BY <2>1 DEF ConnInv, Input
<1> QED
  BY <1>1, <1>2, <1>3, <1>4 DEF ConnInv

\* How much the kernel takes, and what is left of its buffer.
LEMMA RoomIs ==
    ASSUME TypeOK, NEW n \in Nat
    PROVE  /\ Room(n) \in 0 .. n
           /\ sndbuf + Room(n) \in 0 .. SndBuf
           /\ Room(n) < n => sndbuf + Room(n) = SndBuf
<1>1. sndbuf \in 0 .. SndBuf /\ SndBuf \in Nat
  BY SndBufIsPositive DEF TypeOK
<1> QED
  BY <1>1 DEF Room, AtMost

\* The loop of handle_write: what leaves the buffer is appended to the wire.
LEMMA WriteLoopKeeps ==
    ASSUME ConnInv, chstate = "kAdded", sock = "open", out # <<>>, WriteLoop,
           UNCHANGED <<inbuf, force_timer, pc, sock, arrived, shown, paused, closed_on,
                       strays, state, accepted>>,
           revents' = revents \ {"OUT"}
    PROVE  ConnInv'
<1> DEFINE n == Room(Len(out))
<1>1. /\ wire' = WireAfter(wire, out, n) /\ sndbuf' = sndbuf + n
      /\ out' = LeftOf(out, n) /\ UNCHANGED <<rx, eof, rst>>
      /\ n < Len(out) => UNCHANGED <<shutdown_pending, fin, functors, events, chstate, edge>>
      /\ ~(n < Len(out)) => Drained
  BY DEF WriteLoop, WireAfter, LeftOf
<1>2. /\ out \in Seq(Numbers) /\ wire \in Seq(Numbers) /\ accepted \in 0 .. MaxSend
      /\ state # "kDisconnected" /\ state \in States
  BY DEF ConnInv, TypeOK, Numbers
<1>3. Len(out) \in Nat \ {0} /\ Len(wire) \in Nat /\ accepted \in Nat
  BY <1>2, EmptySeq, LenProperties, MaxSendIsNatural
<1>4. /\ n \in 0 .. Len(out) /\ sndbuf + n \in 0 .. SndBuf
      /\ n < Len(out) => sndbuf + n = SndBuf
  BY <1>3, RoomIs DEF ConnInv
<1> HIDE DEF n
<1>5. InOrder(wire, out, accepted)
  BY <1>2 DEF ConnInv, Output, OutputInOrder, InOrder
<1>6. /\ wire' \in Seq(Numbers) /\ out' \in Seq(Numbers)
      /\ Len(out') = Len(out) - n
      /\ InOrder(wire', out', accepted)
  BY <1>1, <1>2, <1>3, <1>4, <1>5, CutBuffer
<1>7. /\ wire' = Bytes(0, Len(wire')) /\ Len(wire') + Len(out') = accepted
      /\ Len(wire) + Len(out) = accepted
  BY <1>2, <1>3, <1>5, <1>6, BeginningOfBytes
<1>8. OutputInOrder'
  <2>1. Len(wire') \in Nat /\ Len(out') \in Nat
    BY <1>6, LenProperties
  <2> QED
    BY <1>3, <1>6, <1>7, <2>1 DEF OutputInOrder, InOrder
<1>9. ~fin
  BY <1>3, <1>7 DEF ConnInv, Output, HalfCloseAfterLastByte
<1>10. "OUT" \in events /\ "IN" \in events /\ events \subseteq {"IN", "OUT"}
  BY <1>2 DEF ConnInv, Output, WriteInterestExact, Registration, TypeOK
<1>11. state' \in {"kConnected", "kDisconnecting"}
  BY <1>2 DEF States
<1>12. revents' \subseteq revents /\ revents \ {"OUT"} \subseteq revents'
  OBVIOUS
<1>13. \A i \in DOMAIN functors : functors[i] # "start"
  BY DEF ConnInv, Registration
<1>14. CASE n < Len(out)
  <2>1. /\ UNCHANGED <<shutdown_pending, fin, functors, events, chstate, edge>>
        /\ sndbuf' = SndBuf
    BY <1>1, <1>4, <1>14
  <2>2. out' # <<>>
    BY <1>3, <1>4, <1>6, <1>14, EmptySeq
  <2>3. Output'
    <3>1. WriteInterestExact'
      BY <1>10, <2>1, <2>2 DEF WriteInterestExact
    <3>2. HalfCloseAfterLastByte'
      BY <1>9, <2>1, <2>2 DEF ConnInv, Output, HalfCloseAfterLastByte
    <3> QED
      BY <1>8, <2>1, <3>1, <3>2 DEF ConnInv, Output
  <2>4. shutdown_pending' \in BOOLEAN /\ fin' \in BOOLEAN /\ edge' \in BOOLEAN
    BY <2>1 DEF ConnInv, TypeOK
  <2>5. /\ functors' \in Seq(FunctorKinds) /\ \A i \in DOMAIN functors' : functors'[i] # "start"
    BY <1>13, <2>1 DEF ConnInv, TypeOK
  <2>6. ~(sndbuf' < SndBuf) /\ sndbuf' \in 0 .. SndBuf /\ accepted' \in 0 .. MaxSend
    BY <1>1, <1>2, <1>4, <2>1, SndBufIsPositive
  <2> QED
    BY <1>1, <1>6, <1>10, <1>11, <1>12, <2>1, <2>3, <2>4, <2>5, <2>6, OpenKeeps
<1>15. CASE ~(n < Len(out))
  <2>1. Drained /\ n = Len(out)
    BY <1>1, <1>3, <1>4, <1>15
  <2>2. /\ shutdown_pending' = FALSE /\ fin' = (fin \/ shutdown_pending)
        /\ functors' = Append(functors, "write_complete") /\ update(events \ {"OUT"})
    BY <2>1 DEF Drained
  <2>3. /\ events' = events \ {"OUT"} /\ chstate' = "kAdded" /\ edge' \in BOOLEAN
        /\ edge => edge'
    BY <2>2, UpdateEffect DEF ConnInv
  <2>4. out' = <<>> /\ Len(wire') = accepted
    <3>1. Len(out') = 0
      BY <1>3, <1>6, <2>1
    <3>2. Len(wire') \in Nat
      BY <1>6, LenProperties
    <3> QED
      BY <1>3, <1>6, <1>7, <3>1, <3>2, EmptySeq
  <2>5. Output'
    <3>1. WriteInterestExact'
      BY <2>3, <2>4 DEF WriteInterestExact
    <3>2. state = "kDisconnecting" => fin'
      BY <1>9, <2>2 DEF ConnInv, Output, HalfCloseAfterLastByte
    <3>3. HalfCloseAfterLastByte'
      BY <2>4, <3>2 DEF HalfCloseAfterLastByte
    <3>4. fin' \/ shutdown_pending' => state' # "kConnected"
      BY <2>2 DEF ConnInv, Output
    <3> QED
      BY <1>8, <3>1, <3>3, <3>4 DEF Output
  <2>6. shutdown_pending' \in BOOLEAN /\ fin' \in BOOLEAN
    BY <2>2
  <2>7. /\ functors' \in Seq(FunctorKinds) /\ \A i \in DOMAIN functors' : functors'[i] # "start"
    BY <1>13, <2>2, FunctorsPosted DEF ConnInv, FunctorKinds
  <2>8. events' \subseteq {"IN", "OUT"} /\ "IN" \in events' /\ "OUT" \notin events'
    BY <1>10, <2>3
  <2>9. sndbuf' \in 0 .. SndBuf /\ accepted' \in 0 .. MaxSend
    BY <1>1, <1>2, <1>4
  <2> QED
    BY <1>1, <1>6, <1>11, <1>12, <2>3, <2>5, <2>6, <2>7, <2>8, <2>9, OpenKeeps
<1> QED
  BY <1>14, <1>15

LEMMA HandleWriteKeeps ==
    ASSUME ConnInv, handle_write
    PROVE  ConnInv'
<1>1. /\ pc = "dispatch" /\ "IN" \notin revents /\ "OUT" \in revents /\ revents' = {}
      /\ UNCHANGED <<inbuf, force_timer, pc, accepted, arrived, shown, paused>>
  BY DEF handle_write
<1>2. /\ chstate # "kNew" /\ inbuf \in Nat /\ force_timer \in BOOLEAN /\ paused \in BOOLEAN
      /\ \A i \in DOMAIN functors : functors[i] # "start"
      /\ functors \in Seq(FunctorKinds) /\ revents \subseteq {"IN", "OUT"}
  BY <1>1, Running DEF ConnInv, Dispatch
<1>3. /\ revents' \subseteq revents /\ revents' = revents \ {"OUT"}
      /\ revents' \subseteq {"IN", "OUT"} /\ revents' \subseteq {"IN", "OUT", "ERR", "HUP"}
  BY <1>1, <1>2
<1>4. Dispatch' /\ pc' \in Pcs /\ pc' # "message_eof"
  BY <1>1 DEF Dispatch, Pcs
<1>5. rx \in Nat /\ rx \in 0 .. rx
  BY DEF ConnInv, TypeOK
<1>6. CASE out = <<>>
  <2>1. "OUT" \notin events
    BY <1>6 DEF ConnInv, TypeOK, Output, WriteInterestExact
  <2>2. UNCHANGED <<out, shutdown_pending, functors, rx, eof, rst, sndbuf, fin, wire, state,
                    sock, closed_on, strays, events, chstate, edge>>
    BY <1>6, <2>1 DEF handle_write, netVars
  <2>3. EdgeKept'
    BY <1>1, <1>3, <2>1, <2>2 DEF ConnInv, EdgeKept
  <2>4. force_timer' \in BOOLEAN /\ paused' \in BOOLEAN /\ inbuf' \in Nat
    BY <1>1, <1>2
  <2> QED
    BY <1>1, <1>2, <1>3, <1>4, <2>2, <2>3, <2>4, QuietKeeps
<1>7. CASE out # <<>> /\ sock = "open" /\ ~rst /\ WriteLoop
           /\ UNCHANGED <<state, sock, closed_on, strays>>
  <2>1. chstate = "kAdded"
    BY <1>2, <1>7 DEF ConnInv, TypeOK, Registration
  <2> QED
    BY <1>1, <1>3, <1>7, <2>1, WriteLoopKeeps
<1>8. CASE close("error") /\ UNCHANGED <<out, shutdown_pending, functors, netVars>>
  <2>1. UNCHANGED <<rx, eof, rst, sndbuf, fin, wire>>
    BY <1>8 DEF netVars
  <2>2. force_timer' \in BOOLEAN /\ inbuf' \in Nat /\ rx' \in 0 .. rx
    BY <1>1, <1>2, <1>5, <2>1
  <2> QED
    BY <1>1, <1>2, <1>3, <1>4, <1>8, <2>1, <2>2, CloseKeeps DEF Causes
<1>9. ASSUME sock = "reused", UNCHANGED <<state, events, chstate, edge, sock, closed_on, netVars>>,
             \/ /\ strays' = strays \cup {"write"}
                /\ UNCHANGED <<out, shutdown_pending, functors>>
             \/ /\ out' = <<>>
                /\ strays' = strays \cup {"write"} \cup
                      (IF shutdown_pending THEN {"shutdown"} ELSE {})
                /\ shutdown_pending' = FALSE
                /\ functors' = Append(functors, "write_complete")
      PROVE  ConnInv'
  <2>1. /\ state' = "kDisconnected" /\ events' = {} /\ chstate' = "kDeleted"
        /\ edge' = FALSE /\ sock' \in {"closed", "reused"}
        /\ closed_on' \in {"none"} \cup Causes /\ shown' \in Nat
        /\ UNCHANGED <<rx, eof, rst, sndbuf, fin, wire>>
    BY <1>1, <1>9 DEF ConnInv, TypeOK, Causes, netVars
  <2>2. strays' \subseteq {"read", "write", "shutdown", "close"}
    BY <1>9 DEF ConnInv, TypeOK
  <2>3. out' \in Seq(1 .. MaxSend)
    <3>1. out \in Seq(1 .. MaxSend) /\ <<>> \in Seq(1 .. MaxSend)
      BY DEF ConnInv, TypeOK
    <3> QED
      BY <1>9, <3>1
  <2>4. shutdown_pending' \in BOOLEAN
    BY <1>9 DEF ConnInv, TypeOK
  <2>5. /\ functors' \in Seq(FunctorKinds)
        /\ \A i \in DOMAIN functors' : functors'[i] # "start"
    BY <1>2, <1>9, FunctorsPosted DEF ConnInv, FunctorKinds
  <2>6. closed_on' = "eof" => shown' = arrived /\ rx' = 0
    BY <1>1, <1>9, <2>1 DEF ConnInv, Input
  <2>7. /\ force_timer' \in BOOLEAN /\ paused' \in BOOLEAN /\ inbuf' \in Nat
        /\ rx' \in 0 .. rx
    BY <1>1, <1>2, <1>5, <2>1
  <2> QED
    BY <1>1, <1>3, <1>4, <2>1, <2>2, <2>3, <2>4, <2>5, <2>6, <2>7, ClosedKeeps
<1> QED
  BY <1>6, <1>7, <1>8, <1>9 DEF handle_write

-----------------------------------------------------------------------------
(* User code.                                                              *)

LEMMA InUserCodeFacts ==
    ASSUME ConnInv, InUserCode
    PROVE  /\ chstate # "kNew"
           /\ \A i \in DOMAIN functors : functors[i] # "start"
           /\ functors \in Seq(FunctorKinds) /\ inbuf \in Nat /\ rx \in 0 .. rx
           /\ force_timer \in BOOLEAN /\ paused \in BOOLEAN /\ pc \in Pcs
           /\ revents \subseteq {"IN", "OUT", "ERR", "HUP"}
           /\ state # "kDisconnected" =>
                chstate = "kAdded" /\ sock = "open" /\ "IN" \in events
           /\ pc = "message_eof" => eof
  BY DEF ConnInv, InUserCode, Registration, TypeOK, Input

LEMMA ConsumeInputKeeps ==
    ASSUME ConnInv, ConsumeInput
    PROVE  ConnInv'
<1>1. /\ pc \in {"message", "message_eof"} /\ \E n \in 1 .. inbuf : inbuf' = inbuf - n
      /\ UNCHANGED <<state, out, shutdown_pending, events, chstate, edge, revents,
                     functors, force_timer, pc, sock, rx, eof, rst, sndbuf, fin, wire,
                     accepted, arrived, shown, paused, closed_on, strays>>
  BY DEF ConsumeInput
<1>2. /\ chstate # "kNew"
      /\ \A i \in DOMAIN functors : functors[i] # "start"
      /\ functors \in Seq(FunctorKinds) /\ inbuf \in Nat
      /\ force_timer \in BOOLEAN /\ paused \in BOOLEAN
      /\ revents \subseteq {"IN", "OUT", "ERR", "HUP"}
  BY <1>1, Running
<1>3. inbuf' \in Nat
  BY <1>1, <1>2
<1>4. Dispatch' /\ EdgeKept' /\ pc' \in Pcs
  BY <1>1, EdgeFrame DEF ConnInv, Dispatch, Pcs
<1> QED
  BY <1>1, <1>2, <1>3, <1>4, QuietKeeps

\* send(): what is not written is buffered behind what waits already, and the
\* write interest follows the buffer.
LEMMA SendKeeps ==
    ASSUME ConnInv, NEW n \in 1 .. MaxSend, send(n)
    PROVE  ConnInv'
<1>1. /\ InUserCode /\ state = "kConnected" /\ accepted + n <= MaxSend
      /\ UNCHANGED <<inbuf, shutdown_pending, revents, force_timer, pc, arrived, shown, paused>>
  BY DEF send
<1>2. /\ chstate = "kAdded" /\ sock = "open" /\ "IN" \in events /\ pc \in Pcs
      /\ \A i \in DOMAIN functors : functors[i] # "start"
      /\ functors \in Seq(FunctorKinds) /\ inbuf \in Nat /\ rx \in 0 .. rx
      /\ force_timer \in BOOLEAN /\ paused \in BOOLEAN
      /\ pc = "message_eof" => eof
  BY <1>1, InUserCodeFacts
<1>3. CASE out = <<>> /\ rst
  <2>1. /\ close("error") /\ UNCHANGED <<out, functors, accepted>>
        /\ UNCHANGED <<rx, eof, rst, sndbuf, fin, wire>>
    BY <1>3 DEF send, netVars
  <2>2. Dispatch' /\ pc' \in Pcs
    BY <1>1, <1>2 DEF ConnInv, Dispatch
  <2>3. force_timer' \in BOOLEAN /\ inbuf' \in Nat /\ rx' \in 0 .. rx /\ revents' \subseteq revents
    BY <1>1, <1>2, <2>1
  <2> QED
    BY <1>1, <1>2, <2>1, <2>2, <2>3, CloseKeeps DEF Causes
<1>4. CASE ~(out = <<>> /\ rst)
  <2> DEFINE k == DirectWrite(n)
  <2>1. /\ wire' = WireDirect(wire, accepted, k) /\ sndbuf' = sndbuf + k
        /\ out' = Buffered(out, accepted, k, n) /\ accepted' = accepted + n
        /\ functors' = IF CrossesMark THEN Append(functors, "high_water") ELSE functors
        /\ UNCHANGED <<rx, eof, rst, fin>> /\ EnableWriting
        /\ UNCHANGED <<state, sock, closed_on, strays>>
    BY <1>4 DEF send, WireDirect, Buffered
  <2>2. /\ out \in Seq(Numbers) /\ wire \in Seq(Numbers) /\ accepted \in 0 .. MaxSend
        /\ accepted \in Nat /\ n \in Nat /\ n > 0 /\ sndbuf \in 0 .. SndBuf /\ MaxSend \in Nat
    BY MaxSendIsNatural DEF ConnInv, TypeOK, Numbers
  <2>3. k \in 0 .. n /\ sndbuf + k \in 0 .. SndBuf /\ (out # <<>> => k = 0)
        /\ (out = <<>> /\ k < n => sndbuf + k = SndBuf)
    <3>1. CASE out = <<>>
      <4>1. k = Room(n)
        BY <3>1 DEF DirectWrite
      <4> QED
        BY <2>2, <3>1, <4>1, RoomIs DEF ConnInv
    <3>2. CASE out # <<>>
      <4>1. k = 0
        BY <3>2 DEF DirectWrite
      <4> QED
        BY <2>2, <3>2, <4>1, SndBufIsPositive
    <3> QED
      BY <3>1, <3>2
  <2> HIDE DEF k
  <2>4. accepted' \in 0 .. MaxSend /\ accepted' \in Nat
    BY <1>1, <2>1, <2>2
  <2>5. InOrder(wire, out, accepted)
    BY <1>1 DEF ConnInv, Output, OutputInOrder, InOrder
  <2>6. /\ wire' \in Seq(Numbers) /\ out' \in Seq(Numbers)
        /\ InOrder(wire', out', accepted')
        /\ out' = <<>> => out = <<>>
    BY <1>1, <2>1, <2>2, <2>3, <2>5, BufferBehind
  <2>7. OutputInOrder'
    <3>1. wire' = Bytes(0, Len(wire')) /\ Len(wire') + Len(out') = accepted'
      BY <2>4, <2>6, BeginningOfBytes
    <3>2. Len(wire') \in Nat /\ Len(out') \in Nat
      BY <2>6, LenProperties
    <3> QED
      BY <2>4, <2>6, <3>1, <3>2 DEF OutputInOrder, InOrder
  <2>8. events \subseteq {"IN", "OUT"} /\ ("OUT" \in events) = (out # <<>>) /\ edge \in BOOLEAN
    BY <1>1 DEF ConnInv, TypeOK, Output, WriteInterestExact
  <2>9. /\ events' \subseteq {"IN", "OUT"} /\ "IN" \in events' /\ edge' \in BOOLEAN
        /\ (edge => edge') /\ chstate' = "kAdded"
        /\ ("OUT" \in events') = (out' # <<>>)
        /\ ("OUT" \in events' /\ sndbuf' < SndBuf => edge' \/ "OUT" \in revents')
    <3>1. CASE out' # <<>> /\ "OUT" \notin events
      <4>1. update(events \cup {"OUT"})
        BY <2>1, <3>1 DEF EnableWriting
      <4>2. /\ events' = events \cup {"OUT"} /\ chstate' = "kAdded" /\ edge' \in BOOLEAN
            /\ edge => edge'
            /\ sndbuf' < SndBuf => edge'
        BY <1>2, <4>1, UpdateEffect DEF ConnInv
      <4> QED
        BY <1>2, <2>8, <3>1, <4>2
    <3>2. CASE ~(out' # <<>> /\ "OUT" \notin events)
      <4>1. UNCHANGED <<events, chstate, edge>>
        BY <2>1, <3>2 DEF EnableWriting
      <4>2. ("OUT" \in events) = (out' # <<>>)
        BY <2>6, <2>8, <3>2
      <4>3. "OUT" \in events => sndbuf' = sndbuf
        BY <2>1, <2>2, <2>3, <2>8
      <4>4. "OUT" \in events /\ sndbuf < SndBuf => edge \/ "OUT" \in revents
        BY <1>2 DEF ConnInv, EdgeKept
      <4> QED
        BY <1>1, <1>2, <2>8, <4>1, <4>2, <4>3, <4>4
    <3> QED
      BY <3>1, <3>2
  <2>10. Output'
    <3>1. ~fin' /\ ~shutdown_pending' /\ state' = "kConnected"
      BY <1>1, <2>1 DEF ConnInv, Output
    <3>2. WriteInterestExact' /\ HalfCloseAfterLastByte'
      BY <2>9, <3>1 DEF WriteInterestExact, HalfCloseAfterLastByte
    <3> QED
      BY <2>7, <3>1, <3>2 DEF Output
  <2>11. shutdown_pending' \in BOOLEAN /\ fin' \in BOOLEAN
    BY <1>1, <2>1 DEF ConnInv, TypeOK
  <2>12. /\ functors' \in Seq(FunctorKinds)
         /\ \A i \in DOMAIN functors' : functors'[i] # "start"
    <3>1. CASE CrossesMark
      <4>1. functors' = Append(functors, "high_water")
        BY <2>1, <3>1
      <4> QED
        BY <1>2, <4>1, FunctorsPosted DEF ConnInv, FunctorKinds
    <3>2. CASE ~CrossesMark
      BY <1>2, <2>1, <3>2
    <3> QED
      BY <3>1, <3>2
  <2>13. revents' \subseteq revents /\ revents \ {"OUT"} \subseteq revents'
    BY <1>1
  <2>14. sndbuf' \in 0 .. SndBuf /\ state' \in {"kConnected", "kDisconnecting"}
    BY <1>1, <2>1, <2>3
  <2> QED
    BY <1>1, <1>2, <2>1, <2>4, <2>6, <2>9, <2>10, <2>11, <2>12, <2>13, <2>14, OpenKeeps
<1> QED
  BY <1>3, <1>4

\* shutdown(): SHUT_WR now or when the buffer is empty.
LEMMA ShutdownKeeps ==
    ASSUME ConnInv, shutdown
    PROVE  ConnInv'
<1>1. /\ InUserCode /\ state = "kConnected" /\ state' = "kDisconnecting" /\ shutdown_in_loop
      /\ UNCHANGED <<rx, eof, rst, sndbuf, wire>>
      /\ UNCHANGED <<out, inbuf, events, chstate, revents, functors, force_timer, pc, sock,
                     accepted, arrived, shown, paused, closed_on>>
  BY DEF shutdown
<1>2. /\ chstate = "kAdded" /\ sock = "open" /\ "IN" \in events
      /\ \A i \in DOMAIN functors : functors[i] # "start"
      /\ functors \in Seq(FunctorKinds)
  BY <1>1, InUserCodeFacts
<1>3. /\ out \in Seq(Numbers) /\ wire \in Seq(Numbers) /\ accepted \in 0 .. MaxSend
      /\ accepted \in Nat /\ sndbuf \in 0 .. SndBuf /\ events \subseteq {"IN", "OUT"}
      /\ InOrder(wire, out, accepted)
      /\ "OUT" \in events /\ sndbuf < SndBuf => edge \/ "OUT" \in revents
      /\ ("OUT" \in events) = (out # <<>>)
  BY <1>1, <1>2, MaxSendIsNatural
     DEF ConnInv, TypeOK, Output, OutputInOrder, WriteInterestExact, EdgeKept, Numbers,
         InOrder
<1>4. Len(out) = 0 => Len(wire) = accepted
  <2>1. Len(wire) + Len(out) = accepted
    BY <1>3, BeginningOfBytes
  <2>2. Len(wire) \in Nat
    BY <1>3, LenProperties
  <2> QED
    BY <2>1, <2>2
<1>5. OutputInOrder' /\ WriteInterestExact'
  BY <1>1, <1>3 DEF ConnInv, Output, OutputInOrder, WriteInterestExact
<1>6. /\ strays' = strays /\ shutdown_pending' \in BOOLEAN /\ fin' \in BOOLEAN
      /\ edge' \in BOOLEAN
      /\ edge => edge'
      /\ HalfCloseAfterLastByte'
  <2>1. CASE out = <<>>
    <3>1. /\ fin' = TRUE /\ strays' = strays /\ shutdown_pending' = shutdown_pending
          /\ edge' = (edge \/ \E k \in Interest(events) : Ready'[k])
      BY <1>1, <2>1 DEF shutdown_in_loop
    <3>2. HalfCloseAfterLastByte'
      BY <1>1, <1>4, <2>1, <3>1 DEF HalfCloseAfterLastByte
    <3>3. edge' \in BOOLEAN /\ (edge => edge')
      BY <3>1
    <3>4. shutdown_pending' \in BOOLEAN
      BY <3>1 DEF ConnInv, TypeOK
    <3> QED
      BY <3>1, <3>2, <3>3, <3>4
  <2>2. CASE out # <<>>
    <3>1. shutdown_pending' = TRUE /\ UNCHANGED <<fin, edge, strays>>
      BY <1>1, <2>2 DEF shutdown_in_loop
    <3>2. ~fin
      BY <1>1 DEF ConnInv, Output
    <3> QED
      BY <1>1, <2>2, <3>1, <3>2 DEF ConnInv, TypeOK, HalfCloseAfterLastByte
  <2> QED
    BY <2>1, <2>2
<1>7. Output'
  BY <1>1, <1>5, <1>6 DEF Output
<1>8. revents' \subseteq revents /\ revents \ {"OUT"} \subseteq revents'
  BY <1>1
<1> QED
  BY <1>1, <1>2, <1>3, <1>6, <1>7, <1>8, OpenKeeps

LEMMA UserCloseKeeps ==
    ASSUME ConnInv, UserClose
    PROVE  ConnInv'
<1>1. /\ InUserCode /\ close("user")
      /\ UNCHANGED <<out, inbuf, shutdown_pending, revents, functors, force_timer, pc, rx,
                     eof, rst, sndbuf, fin, wire, accepted, arrived, shown, paused>>
  BY DEF UserClose
<1>2. /\ chstate # "kNew" /\ inbuf \in Nat /\ rx \in 0 .. rx /\ force_timer \in BOOLEAN
      /\ pc \in Pcs
      /\ pc = "message_eof" => eof
  BY <1>1, InUserCodeFacts
<1>3. Dispatch'
  BY <1>1 DEF ConnInv, Dispatch
<1>4. /\ inbuf' \in Nat /\ rx' \in 0 .. rx /\ force_timer' \in BOOLEAN /\ pc' \in Pcs
      /\ revents' \subseteq revents
      /\ pc' = "message_eof" => eof
  BY <1>1, <1>2
<1> QED
  BY <1>1, <1>2, <1>3, <1>4, CloseKeeps DEF Causes

LEMMA ForceCloseWithDelayKeeps ==
    ASSUME ConnInv, force_close_with_delay
    PROVE  ConnInv'
<1>1. /\ InUserCode /\ force_timer' = TRUE
      /\ UNCHANGED <<state, out, inbuf, shutdown_pending, events, chstate, edge, revents,
                     functors, pc, sock, rx, eof, rst, sndbuf, fin, wire, accepted,
                     arrived, shown, paused, closed_on, strays>>
  BY DEF force_close_with_delay
<1>2. /\ chstate # "kNew"
      /\ \A i \in DOMAIN functors : functors[i] # "start"
      /\ functors \in Seq(FunctorKinds) /\ inbuf \in Nat
      /\ paused \in BOOLEAN /\ pc \in Pcs
      /\ revents \subseteq {"IN", "OUT", "ERR", "HUP"}
  BY <1>1, InUserCodeFacts
<1>3. Dispatch' /\ EdgeKept'
  BY <1>1, EdgeFrame DEF ConnInv, Dispatch
<1> QED
  BY <1>1, <1>2, <1>3, QuietKeeps

-----------------------------------------------------------------------------
(* The theorems.                                                           *)

LEMMA NextConnInv ==
    ASSUME ConnInv, [Next]_vars
    PROVE  ConnInv'
<1>1. CASE Peer
  BY <1>1, PeerSendsKeeps, PeerFinKeeps, PeerResetKeeps, PeerReadsKeeps DEF Peer
<1>2. CASE FdReused \/ EpollReports \/ ForceTimer
  BY <1>2, FdReusedKeeps, EpollReportsKeeps, ForceTimerKeeps
<1>3. CASE Handler
  BY <1>3, HandleEventKeeps, HandleReadKeeps, HandleWriteKeeps, ReturnsKeep,
     MessageEofReturnKeeps DEF Handler
<1>4. CASE LoopFunctor
  BY <1>4, StartKeeps, RunFunctorKeeps DEF LoopFunctor
<1>5. CASE UserCode
  BY <1>5, ConsumeInputKeeps, SendKeeps, ShutdownKeeps, UserCloseKeeps,
     ForceCloseWithDelayKeeps DEF UserCode
<1>6. CASE UNCHANGED vars
  <2>1. UNCHANGED <<state, out, inbuf, shutdown_pending, events, chstate, edge, revents,
                    functors, force_timer, pc, sock, rx, eof, rst, sndbuf, fin, wire,
                    accepted, arrived, shown, paused, closed_on, strays>>
    BY <1>6 DEF vars
  <2>2. TypeOK'
    BY <2>1 DEF ConnInv, TypeOK
  <2>3. Registration' /\ Dispatch'
    BY <2>1 DEF ConnInv, Registration, Dispatch
  <2>4. EdgeKept' /\ Output' /\ Input'
    BY <2>1, OutputFrame, InputFrame, EdgeFrame DEF ConnInv
  <2> QED
    BY <2>2, <2>3, <2>4 DEF ConnInv
<1> QED
  BY <1>1, <1>2, <1>3, <1>4, <1>5, <1>6 DEF Next

\* The inductive invariant: whatever the peer, the kernel and the application do,
\* registration, dispatch, both buffers and the edges fit together.
THEOREM ConnectionIsRight == SafeSpec => []ConnInv
<1>1. ConnInv /\ [Next]_vars => ConnInv'
  BY NextConnInv
<1> QED
  BY <1>1, InitConnInv, PTL DEF SafeSpec

\* The members of Connection and Channel keep their types, a connection that is not
\* closed has its socket, and a closed one is out of epoll (connection.h, channel.h).
THEOREM TypeCorrect == SafeSpec => []TypeOK
<1>1. ConnInv => TypeOK
  BY DEF ConnInv
<1> QED
  BY <1>1, ConnectionIsRight, PTL

\* Connection::send and handle_write: the bytes given to the kernel are the
\* beginning of those accepted, and until close() the buffer is the rest.
THEOREM BytesInOrder == SafeSpec => []OutputInOrder
<1>1. ConnInv => OutputInOrder
  BY DEF ConnInv, Output
<1> QED
  BY <1>1, ConnectionIsRight, PTL

\* enable_writing and disable_writing: EPOLLOUT is asked for exactly while
\* output_buffer_ is not empty.
THEOREM InterestFollowsBuffer == SafeSpec => []WriteInterestExact
<1>1. ConnInv => WriteInterestExact
  BY DEF ConnInv, Output
<1> QED
  BY <1>1, ConnectionIsRight, PTL

\* Connection::shutdown: SHUT_WR is done after the last byte and is not forgotten.
THEOREM HalfCloseInOrder == SafeSpec => []HalfCloseAfterLastByte
<1>1. ConnInv => HalfCloseAfterLastByte
  BY DEF ConnInv, Output
<1> QED
  BY <1>1, ConnectionIsRight, PTL

\* EPOLLET with the read and write loops: a channel at rest whose socket is ready
\* for what it asked is on epoll's ready list.
THEOREM EdgesAreKept == SafeSpec => []NoLostEdge
<1>1. ConnInv => NoLostEdge
  <2> SUFFICES ASSUME ConnInv, chstate = "kAdded", pc \in {"idle", "callback"},
                      revents = {}, Mask(events) # {}
               PROVE  edge
    BY DEF NoLostEdge
  <2>1. /\ events \subseteq {"IN", "OUT"} /\ state # "kDisconnected"
        /\ out \in Seq(Numbers) /\ wire \in Seq(Numbers) /\ accepted \in Nat
    BY MaxSendIsNatural DEF ConnInv, TypeOK, Registration, Numbers
  <2>2. rx > 0 \/ eof \/ rst \/ ("OUT" \in events /\ (sndbuf < SndBuf \/ fin))
    BY <2>1, MaskIs
  <2>3. ~("OUT" \in events /\ fin)
    <3> SUFFICES ASSUME "OUT" \in events, fin PROVE FALSE
      OBVIOUS
    <3>1. out # <<>> /\ Len(wire) = accepted /\ InOrder(wire, out, accepted)
      BY <2>1 DEF ConnInv, Output, OutputInOrder, WriteInterestExact, HalfCloseAfterLastByte,
                  InOrder
    <3>2. Len(wire) + Len(out) = accepted
      BY <2>1, <3>1, BeginningOfBytes
    <3>3. Len(out) \in Nat \ {0} /\ Len(wire) \in Nat
      BY <2>1, <3>1, EmptySeq, LenProperties
    <3> QED
      BY <3>1, <3>2, <3>3
  <2> QED
    BY <2>2, <2>3 DEF ConnInv, EdgeKept
<1> QED
  BY <1>1, ConnectionIsRight, PTL

\* handle_read at end of file: a connection closed for that reason has shown the
\* application every byte that arrived.
THEOREM EofIsLast == SafeSpec => []EofShowsEverything
<1>1. ConnInv => EofShowsEverything
  BY DEF ConnInv, Input, EofShowsEverything
<1> QED
  BY <1>1, ConnectionIsRight, PTL

=============================================================================
