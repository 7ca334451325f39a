------------------------- MODULE LengthPrefixedCodec -------------------------
(***************************************************************************)
(* LengthPrefixedCodec (src/util/length_prefixed_codec.h): frames of four  *)
(* bytes of length, high byte first, and a payload.  Also the big-endian   *)
(* helpers it shares in kind with RpcCodec.                                *)
(***************************************************************************)
EXTENDS Buffer, SequencesExt

\* v in n bytes, high byte first; what does not fit is cut off.
RECURSIVE append_be(_, _)
append_be(v, n) == IF n = 0 THEN <<>> ELSE append_be(v \div 256, n - 1) \o <<v % 256>>

read_be(bytes) == FoldLeft(LAMBDA v, x : v * 256 + x, 0, bytes)

lpc_encode(payload) == append_be(Len(payload), 4) \o payload

RECURSIVE lpc_decode(_, _, _)

\* Mutant: the limit is looked at when the body is complete.
lpc_decode_WaitsFirst(b, out, max_frame_len) ==
    LET len == read_be(SubSeq(readable_view(b), 1, 4))
    IN  IF readable_bytes(b) < 4 \/ readable_bytes(b) < 4 + len
        THEN [ok |-> TRUE, buf |-> b, out |-> out]
        ELSE IF len = 0 \/ len > max_frame_len THEN [ok |-> FALSE, buf |-> b, out |-> out]
        ELSE lpc_decode(retrieve(b, 4 + len),
                        Append(out, SubSeq(readable_view(b), 5, 4 + len)), max_frame_len)

\* Mutant: one frame is taken, where the code takes all.
lpc_decode_OneFrame(b, out, max_frame_len) ==
    LET len == read_be(SubSeq(readable_view(b), 1, 4))
    IN  IF readable_bytes(b) < 4 THEN [ok |-> TRUE, buf |-> b, out |-> out]
        ELSE IF len = 0 \/ len > max_frame_len THEN [ok |-> FALSE, buf |-> b, out |-> out]
        ELSE IF readable_bytes(b) < 4 + len THEN [ok |-> TRUE, buf |-> b, out |-> out]
        ELSE [ok |-> TRUE, buf |-> retrieve(b, 4 + len),
              out |-> Append(out, SubSeq(readable_view(b), 5, 4 + len))]

\* decode: frames are taken until one is not complete, or is not one at all.
lpc_decode(b, out, max_frame_len) ==
    LET len == read_be(SubSeq(readable_view(b), 1, 4))
        body == retrieve(b, 4)
    IN  IF readable_bytes(b) < 4 THEN [ok |-> TRUE, buf |-> b, out |-> out]
        ELSE IF len = 0 \/ len > max_frame_len THEN [ok |-> FALSE, buf |-> b, out |-> out]
        ELSE IF readable_bytes(b) < 4 + len THEN [ok |-> TRUE, buf |-> b, out |-> out]
        ELSE lpc_decode(retrieve(body, len),
                        Append(out, SubSeq(readable_view(body), 1, len)), max_frame_len)

=============================================================================
