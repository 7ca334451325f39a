------------------------------ MODULE RpcCodec ------------------------------
(***************************************************************************)
(* RpcCodec (src/rpc/rpc_message.h): a message in a payload, with a header *)
(* of kHeaderLen bytes: type, request_id, status and method_len.           *)
(***************************************************************************)
EXTENDS LengthPrefixedCodec

CONSTANTS
    kTypeCount,     \* the types are 0 .. kTypeCount - 1
    kMaxMethodLen   \* what method_len can say

kHeaderLen == 15

rpc_encode(m) ==
    IF Len(m.method) > kMaxMethodLen THEN <<>>
    ELSE <<m.type>> \o append_be(m.request_id, 8) \o append_be(m.status, 4)
            \o append_be(Len(m.method), 2) \o m.method \o m.body

\* decode into out, which it leaves alone when it fails.
rpc_decode(payload, out) ==
    LET method_len == read_be(SubSeq(payload, 14, 15))
        rest == SubSeq(payload, kHeaderLen + 1, Len(payload))
        bad == [ok |-> FALSE, out |-> out]
    IN  IF Len(payload) < kHeaderLen THEN bad
        ELSE IF payload[1] >= kTypeCount THEN bad
        ELSE IF method_len > Len(payload) - kHeaderLen THEN bad
        ELSE [ok |-> TRUE,
              out |-> [type |-> payload[1],
                       request_id |-> read_be(SubSeq(payload, 2, 9)),
                       status |-> read_be(SubSeq(payload, 10, 13)),
                       method |-> SubSeq(rest, 1, method_len),
                       body |-> SubSeq(rest, method_len + 1, Len(rest))]]

=============================================================================
