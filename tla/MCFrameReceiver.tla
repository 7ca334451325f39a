--------------------------- MODULE MCFrameReceiver ---------------------------
(***************************************************************************)
(* FrameReceiver for TLC.  A log sender sends three payloads, of one byte, *)
(* of the largest size, and of sizes the receiver refuses: none, and one   *)
(* too many.  An RPC peer sends a request and a response, with the longest *)
(* method, with numbers of several bytes, with a type that is not known,   *)
(* with a method that cannot be encoded, or a payload one byte short of a  *)
(* header or of its method.  The buffer begins with four bytes and three   *)
(* in front, and grows and moves.                                          *)
(***************************************************************************)
EXTENDS FrameReceiver

Payloads == {<<>>, <<7>>, [i \in 1 .. kMaxFrameSize |-> i], [i \in 1 .. kMaxFrameSize + 1 |-> i]}
MCLogTraffic == {<<<<7>>, p, q>> : p, q \in Payloads}

Message(t, id, st, m, b) ==
    [type |-> t, request_id |-> id, status |-> st, method |-> m, body |-> b]
Messages ==
    {Message(0, 16909060, 0, <<65, 66>>, <<0>>), Message(1, 257, 70000, <<>>, <<1, 2, 3>>),
     Message(0, 1, 0, <<65>>, <<>>), Message(2, 1, 0, <<>>, <<>>),
     Message(0, 1, 0, <<65, 66, 67>>, <<>>)}
Malformed ==
    {[raw |-> SubSeq(rpc_encode(Message(1, 5, 6, <<>>, <<>>)), 1, kHeaderLen - 1)],
     [raw |-> SubSeq(rpc_encode(Message(0, 5, 6, <<>>, <<>>)), 1, kHeaderLen - 1) \o <<1>>]}
MCRpcTraffic == {<<p, q>> : p \in Messages, q \in Messages \cup Malformed}
=============================================================================
