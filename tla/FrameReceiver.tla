---------------------------- MODULE FrameReceiver ----------------------------
(***************************************************************************)
(* The receiving end of a connection that carries frames: bytes arrive cut *)
(* anywhere, Connection::handle_read collects them in input_buffer_, and a *)
(* message callback takes frames out with LengthPrefixedCodec::decode.     *)
(* Two callbacks use it: log_server's (src/log_server/main.cpp), which     *)
(* writes payloads down, and the receiver of RPC messages, which is not    *)
(* written yet but for decode_all of src/test_rpc_codec.cpp, and which     *)
(* RpcCodec asks to close the connection when a payload is bad.            *)
(***************************************************************************)
EXTENDS RpcCodec, FiniteSets

CONSTANTS
    kMaxFrameSize,      \* the callback's limit
    LogTraffic,         \* what a log sender may send: sequences of payloads
    RpcTraffic          \* what an RPC peer may send: sequences of messages, and of
                        \* [raw |-> payload] for payloads that are none

VARIABLES
    kind,               \* "log" or "rpc"
    sent,               \* what the peer sends: payloads or messages
    stream,             \* its bytes that have not arrived
    input,              \* input_buffer_
    state,              \* the connection is "open" or "closed"
    got                 \* what the callback took delivery of

vars == <<kind, sent, stream, input, state, got>>

\* The bytes of one frame: LogSender::send_batch, or RpcCodec in its codec.  An
\* RPC peer may also send a payload that is no message.
IsRaw(m) == DOMAIN m = {"raw"}
Frame(k, m) ==
    lpc_encode(IF k = "log" THEN m ELSE IF IsRaw(m) THEN m.raw ELSE rpc_encode(m))

Init ==
    /\ \/ kind = "log" /\ sent \in LogTraffic
       \/ kind = "rpc" /\ sent \in RpcTraffic
    /\ stream = FlattenSeq([i \in DOMAIN sent |-> Frame(kind, sent[i])])
    /\ input = NewBuffer
    /\ state = "open"
    /\ got = <<>>

NoMessage == [type |-> 0, request_id |-> 0, status |-> 0, method |-> <<>>, body |-> <<>>]

\* The RPC messages of the payloads ps, up to the first that is bad.
rpc_decode_all(ps) ==
    LET r == [i \in DOMAIN ps |-> rpc_decode(ps[i], NoMessage)]
        Good(i) == \A j \in 1 .. i : r[j].ok
    IN  [ok |-> \A i \in DOMAIN ps : r[i].ok,
         out |-> [i \in 1 .. Cardinality({i \in DOMAIN ps : Good(i)}) |-> r[i].out]]

\* Mutant: a bad payload is passed over.
message_cb_SkipsBad(b) ==
    LET d == lpc_decode(b, <<>>, kMaxFrameSize)
        good == SelectSeq(d.out, LAMBDA p : rpc_decode(p, NoMessage).ok)
    IN  IF kind = "log" THEN d
        ELSE [ok |-> d.ok, out |-> rpc_decode_all(good).out, buf |-> d.buf]

\* The message callback with the buffer b: the frames it takes delivery of, the
\* buffer it leaves, and whether the connection stays open.  log_server throws
\* away the frames that came together with a bad one.
message_cb(b) ==
    LET d == lpc_decode(b, <<>>, kMaxFrameSize)
        r == rpc_decode_all(d.out)
    IN  IF ~d.ok THEN [ok |-> FALSE, out |-> <<>>, buf |-> d.buf]
        ELSE IF kind = "log" THEN d
        ELSE [ok |-> r.ok, out |-> r.out, buf |-> d.buf]

\* handle_read: n bytes are there, and with fin the peer's EOF behind the last.
\* It reads all of them before it calls back, so that filled may hold many frames.
handle_read(n, fin) ==
    LET filled == ReadAll(input, SubSeq(stream, 1, n))
        r == IF readable_bytes(filled) > 0 THEN message_cb(filled)
             ELSE [ok |-> TRUE, out |-> <<>>, buf |-> filled]
    IN  /\ state = "open"
        /\ n > 0 \/ fin
        /\ fin => n = Len(stream)
        /\ stream' = SubSeq(stream, n + 1, Len(stream))
        /\ input' = r.buf
        /\ got' = got \o r.out
        /\ state' = IF fin \/ ~r.ok THEN "closed" ELSE "open"
        /\ UNCHANGED <<kind, sent>>

Next == \E n \in 0 .. Len(stream), fin \in BOOLEAN : handle_read(n, fin)

Spec == Init /\ [][Next]_vars

-----------------------------------------------------------------------------
(* Properties.                                                             *)

Total == FlattenSeq([i \in DOMAIN sent |-> Frame(kind, sent[i])])
Arrived == Len(Total) - Len(stream)

\* Where frame i begins and ends in the stream.
Start(i) == Len(FlattenSeq([j \in 1 .. i - 1 |-> Frame(kind, sent[j])]))
End(i) == Start(i) + Len(Frame(kind, sent[i]))

\* A frame the callback refuses: an empty payload, one over the limit, or one
\* that holds no message.
PayloadLen(i) == Len(Frame(kind, sent[i])) - 4
BadLength(i) == PayloadLen(i) \notin 1 .. kMaxFrameSize
BadMessage(i) ==
    kind = "rpc" /\ (IF IsRaw(sent[i]) THEN TRUE ELSE sent[i].type >= kTypeCount)

\* The place where frame i shows that it is bad.
Shows(i) == IF BadLength(i) THEN Start(i) + 4 ELSE End(i)
BadArrived == \E i \in DOMAIN sent : (BadLength(i) \/ BadMessage(i)) /\ Shows(i) <= Arrived

\* However the bytes are cut, an open connection has delivered exactly the frames
\* whose last byte has arrived, and it is closed before the end of the stream if
\* and only if something bad has arrived.
DeliversWhatArrived ==
    /\ state = "open" =>
          got = SubSeq(sent, 1, Cardinality({i \in DOMAIN sent : End(i) <= Arrived}))
    /\ state = "open" => ~BadArrived
    /\ state = "closed" => BadArrived \/ stream = <<>>

\* After a bad frame nothing is delivered; what was delivered is what was sent.
NothingAfterBadFrame ==
    /\ IsPrefix(got, sent)
    /\ \A i \in DOMAIN got : ~BadLength(i) /\ ~BadMessage(i)

\* src/util/length_prefixed_codec.h:29, on the limit of a length: what the callback
\* leaves behind in the input buffer of an open connection, and so what a peer can
\* have it keep until the next event, is less than one frame of the largest size,
\* and the indices stay in order.  Before the callback the buffer holds whatever
\* one round of handle_read found in the socket; nothing limits that.
LeavesLessThanAFrame ==
    /\ WellFormed(input)
    /\ state = "open" => readable_bytes(input) < 4 + kMaxFrameSize

=============================================================================
