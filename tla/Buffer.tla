------------------------------- MODULE Buffer -------------------------------
(***************************************************************************)
(* Buffer (src/util/buffer.h): bytes in a vector between two indices, with *)
(* room in front.  A buffer is a record; data[i + 1] is byte i.            *)
(***************************************************************************)
EXTENDS Integers, Sequences

CONSTANTS
    kInitialSize,
    kPrependSize,
    kReadSize       \* what Connection::handle_read asks room for, 4096

LOCAL Least(a, b) == IF a < b THEN a ELSE b

NewBuffer ==
    [data |-> [i \in 1 .. kPrependSize + kInitialSize |-> 0],
     reader |-> kPrependSize, writer |-> kPrependSize]

readable_bytes(b) == b.writer - b.reader
writable_bytes(b) == Len(b.data) - b.writer
prependable_bytes(b) == b.reader

\* The readable bytes, from peek() on.
readable_view(b) == SubSeq(b.data, b.reader + 1, b.writer)

\* Room for len bytes: what is readable moves to the front if that is enough,
\* else the vector grows.
ensure_writable(b, len) ==
    LET n == readable_bytes(b)
        moved == [i \in DOMAIN b.data |->
                    IF i \in kPrependSize + 1 .. kPrependSize + n
                    THEN b.data[i - kPrependSize + b.reader] ELSE b.data[i]]
    IN  CASE writable_bytes(b) >= len -> b
          [] writable_bytes(b) < len
               /\ writable_bytes(b) + prependable_bytes(b) >= len + kPrependSize ->
                 [data |-> moved, reader |-> kPrependSize, writer |-> kPrependSize + n]
          [] OTHER ->
                 [b EXCEPT !.data = @ \o [i \in 1 .. len - writable_bytes(b) |-> 0]]

\* Bytes are stored at begin_write(), and has_written() is told.
has_written(b, bytes) ==
    [b EXCEPT !.data = [i \in DOMAIN b.data |->
                            IF i \in b.writer + 1 .. b.writer + Len(bytes)
                            THEN bytes[i - b.writer] ELSE b.data[i]],
              !.writer = @ + Len(bytes)]

retrieve_all(b) == [b EXCEPT !.reader = kPrependSize, !.writer = kPrependSize]

retrieve(b, len) ==
    IF len >= readable_bytes(b) THEN retrieve_all(b) ELSE [b EXCEPT !.reader = @ + len]

\* The loop of Connection::handle_read until EAGAIN or EOF: each turn makes room
\* and reads as much as there is room for.
RECURSIVE ReadAll(_, _)
ReadAll(b, bytes) ==
    LET room == ensure_writable(b, kReadSize)
        n == Least(writable_bytes(room), Len(bytes))
    IN  IF bytes = <<>> THEN room
        ELSE ReadAll(has_written(room, SubSeq(bytes, 1, n)), SubSeq(bytes, n + 1, Len(bytes)))

\* The invariant of the class: the room in front is never less than promised.
WellFormed(b) ==
    kPrependSize <= b.reader /\ b.reader <= b.writer /\ b.writer <= Len(b.data)

=============================================================================
